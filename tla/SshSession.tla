----------------------------- MODULE SshSession -----------------------------
(***************************************************************************)
(* The objects of class ssh_conn, one per line of ssh_settings.csv, and    *)
(* the libssh initialisation count.  Each libssh call may succeed or fail: *)
(* the network and the remote machine are not modelled further.            *)
(*                                                                         *)
(* The constructor sets neither channel nor session, so both are "wild"    *)
(* (whatever the memory held) until connect() assigns them.                *)
(***************************************************************************)
EXTENDS Integers, SshOutcomes

CONSTANTS N,            \* machines listed in /data/ssh_settings.csv
          PeerMayStall  \* a peer may fall silent, offer no usable login method,
                        \* or end a transfer early without an error

(* The buttons select machine 0 and machine 1, so both must be listed.     *)
ASSUME MachinesAssumption ==
    /\ N \in Nat \ {0, 1}
    /\ PeerMayStall \in BOOLEAN

VARIABLES
    conn,     \* ssh_servers[i].conn
    session,  \* ssh_servers[i].session
    channel,  \* ssh_servers[i].channel
    begun,    \* libssh's count of ssh_init calls without their ssh_finalize
    current   \* current_ssh_index

sshVars == <<conn, session, channel, begun, current>>

Servers == 0 .. N - 1
Handles == {"wild", "null", "live"}

SshTypeOK ==
    /\ conn \in [Servers -> BOOLEAN]
    /\ session \in [Servers -> Handles]
    /\ channel \in [Servers -> Handles]
    /\ begun \in Nat
    /\ current \in Servers

Connected == conn[current]

(* setup() builds the objects; libssh's constructor function counts one.   *)
SshInit ==
    /\ conn = [i \in Servers |-> FALSE]
    /\ session = [i \in Servers |-> "wild"]
    /\ channel = [i \in Servers |-> "wild"]
    /\ begun = 1
    /\ current = 0

SshReset ==
    /\ conn' = [i \in Servers |-> FALSE]
    /\ session' = [i \in Servers |-> "wild"]
    /\ channel' = [i \in Servers |-> "wild"]
    /\ begun' = 1
    /\ current' = 0

(* One object's handles and the count, as the methods pass them along.     *)
Object(i) == [session |-> session[i], channel |-> channel[i], begun |-> begun]

(* authenticate_console() never leaves its loop when the peer accepts      *)
(* neither GSSAPI nor a password.                                          *)
LoginNeverEnds == PeerMayStall

(* Store the outcome o of a method of machine i.                           *)
Becomes(i, o) ==
    /\ session' = [session EXCEPT ![i] = o.session]
    /\ channel' = [channel EXCEPT ![i] = o.channel]
    /\ begun' = o.begun

(* exec_cmd("echo alive") = "alive": never without a session.              *)
ExecAlive(i) == session[i] = "live"
==============================================================================
