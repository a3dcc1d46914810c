-------------------------------- MODULE Uplink --------------------------------
(***************************************************************************)
(* The control task from its start to a logged-in shell: WifiBringUp, then *)
(* the logins of ex_main() (the one at its start and the later ones) and   *)
(* its use of the sessions, while the event task and the network carry on. *)
(***************************************************************************)
EXTENDS WifiBringUp, SshLogin, SshCalls

uplinkVars == <<wifiVars, loginVars, callVars>>

UplinkInit == WifiInit /\ LoginInit /\ CallsInit

(* ex_main(): connect(), whose peer can be reached only with an address,   *)
(* brutal_exception(), and the calls in between.                           *)
Exec ==
    /\ ctlAt = "exec"
    /\ \/ callAt = "idle" /\ LoginStep(address) /\ UNCHANGED callVars
       \/ Disconnect /\ SessionGone
       \/ /\ loginAt = "idle" /\ UNCHANGED loginVars
          /\ LET live == object.session = "live"
             IN  CallStep(live) \/ NothingToTearDown(live)
    /\ UNCHANGED wifiVars

(* The part of it in which connect() waits for libssh to return.           *)
Connecting ==
    /\ ctlAt = "exec" /\ callAt = "idle"
    /\ InConnect(address)
    /\ UNCHANGED <<callVars, wifiVars>>

StartUp == BringUp /\ UNCHANGED <<loginVars, callVars>>

EventStep == EventTask /\ UNCHANGED <<loginVars, callVars>>

Surroundings == Network /\ UNCHANGED <<loginVars, callVars>>

UplinkNext == StartUp \/ Exec \/ EventStep \/ Surroundings

UplinkSpec == UplinkInit /\ [][UplinkNext]_uplinkVars

(* Both tasks run whenever they can; the network owes nothing.             *)
UplinkFairSpec ==
    /\ UplinkSpec
    /\ WF_uplinkVars(StartUp)
    /\ WF_uplinkVars(EventStep)

-----------------------------------------------------------------------------
UplinkTypeOK == WifiTypeOK /\ LoginTypeOK /\ CallsTypeOK

(* ex_main() starts only after the station has been associated, whatever   *)
(* the two tasks store into devState over each other.                      *)
ExecAfterAssociation == ctlAt = "exec" => met

(* Unless wait_for_wifi_exec() finds its timeout over, ex_main() is        *)
(* started once the station is associated and stays so: no order of        *)
(* events, delayed callbacks and lost updates of devState prevents it.     *)
AssociatedThenExec ==
    [](ctlAt # "expired") => (linked ~> (ctlAt = "exec" \/ ~linked))

(* Neither task holds up the other: event_cb() can always go on while an   *)
(* event waits or is being handled, wifiMulti.run() inside it included,    *)
(* and wait_for_wifi_exec() whenever it is not waiting for an association. *)
(* connect() has an answer to whatever libssh returns.                     *)
UplinkCanStep ==
    /\ queue # <<>> \/ evtAt # "idle" => ENABLED <<EventStep>>_uplinkVars
    /\ ctlAt # "exec" /\ ~(ctlAt = "look" /\ devState = STATE_NEW)
          => ENABLED <<StartUp>>_uplinkVars
    /\ loginAt # "idle" => ENABLED <<Connecting>>_uplinkVars

(* connect() comes to its end or round the loop of authenticate_console(), *)
(* provided that each call of libssh returns: the program sets no timeout, *)
(* so a peer that falls silent may hold one for ever.                      *)
LoginReturns ==
    WF_uplinkVars(Connecting) => (loginAt # "idle" ~> loginAt \in {"idle", "wipe"})

(* Every path through connect() and connect_ssh() frees the ssh_session it *)
(* allocated or hands it over: exactly the one that the object holds is    *)
(* left when connect() has returned.                                       *)
SessionsFreed ==
    loginAt = "idle" => sessions = IF object.session = "live" THEN 1 ELSE 0

(* What exec_cmd(), scp_write() and scp_read() leave behind is exactly the *)
(* handle and the channel of each download that was refused or had no file *)
(* to go to.  The channel that exec_cmd() abandons on an error is gone     *)
(* when ex_main() comes round, for it tears the session down.              *)
CallsFreed == callAt = "idle" => scps = spoiled /\ channels = spoiledHere

(* Seen from ex_main(), connect() is the one step that SshSession makes of *)
(* it: the pointers and libssh's count end up in one of three ways.        *)
AtomicConnect == INSTANCE SshConnect WITH
    object <- IF loginAt = "idle" THEN object ELSE before

ConnectIsAtomic == AtomicConnect!ConnectSpec

-----------------------------------------------------------------------------
(* Before the first association nothing has moved devState.                *)
WifiInv ==
    /\ WifiTypeOK
    /\ ~met => /\ devState = STATE_NEW
               /\ ctlAt \in {"join", "begin", "look"}
               /\ evtAt # "store" /\ evtPuts = STATE_NEW
    /\ ctlAt = "act" => ctlSaw \in STATE_PHY_CONNECTED .. STATE_OTA_UPDATING

(* How far connect() has come, and what it owns by then.                   *)
LoginInv ==
    /\ LoginTypeOK
    /\ SessionsFreed
    /\ loginAt \notin {"idle", "new"} => sessions = 1
    /\ loginAt = "new" => sessions = 0
    /\ before.begun = 1 /\ before.session # "live"
    /\ object.begun = IF loginAt = "idle" THEN 1 + sessions ELSE 2
    /\ loginAt \in {"new", "options", "dial", "none", "gssapi", "password", "wipe"}
          => object.channel = before.channel
    /\ loginAt \in {"channel"} \cup ShellRequests => object.session = "live"
    /\ loginAt \in {"pty", "size", "shell"} => object.channel = "live"

(* What each step of a call holds, and that calls are made with a session. *)
CallsInv ==
    /\ CallsTypeOK
    /\ spoiledHere <= spoiled
    /\ callAt # "dead" =>
          channels = spoiledHere +
             IF callAt \in {"idle", "writeInit", "readInit"} THEN 0 ELSE 1
    /\ scps = spoiled + IF callAt \in WriteSteps \cup ReadSteps THEN 1 ELSE 0
    /\ callAt \notin {"idle", "dead"} => object.session = "live"
    /\ loginAt # "idle" => callAt = "idle"
    /\ loginAt # "idle" \/ object.session # "live" => channels = 0 /\ spoiledHere = 0

(* connect() is called by ex_main() only.                                  *)
LoginInExec == loginAt # "idle" => ctlAt = "exec"

(* Inductive.                                                              *)
UplinkInv == WifiInv /\ LoginInv /\ CallsInv /\ LoginInExec

-----------------------------------------------------------------------------
(* main.cpp, setup: the event handler "allows wait_for_wifi_exec to know   *)
(* when the ipv4 and v6 addresses have been set": the first connection is  *)
(* attempted when an address is known.                                     *)
AddressKnownAtDial == loginAt = "dial" => gotIpAddr \/ gotIp6Addr
===============================================================================
