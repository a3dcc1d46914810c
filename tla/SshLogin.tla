------------------------------ MODULE SshLogin --------------------------------
(***************************************************************************)
(* ssh_conn::connect() step by step: connect_ssh(), authenticate_console() *)
(* and the requests for a channel, a pty and a shell.  Each libssh call    *)
(* may succeed or fail.                                                    *)
(***************************************************************************)
EXTENDS SshOutcomes

VARIABLES
    loginAt,   \* the call to be made next, "idle" outside connect()
    object,    \* the session and channel pointers and libssh's count
    before,    \* and as they were when connect() was called
    sessions,  \* ssh_session structures allocated and not freed
    methods,   \* what ssh_userauth_list() returned
    password   \* the password string of the ssh_conn object

loginVars == <<loginAt, object, before, sessions, methods, password>>

Methods == {"gssapi", "password"}
ShellRequests == {"open", "pty", "size", "shell"}
Pointers == {"wild", "null", "live"}
Objects == [session : Pointers, channel : Pointers, begun : Nat]

LoginTypeOK ==
    /\ loginAt \in {"idle", "new", "options", "dial", "none", "gssapi",
                   "password", "wipe", "channel"} \cup ShellRequests
    /\ object \in Objects /\ before \in Objects
    /\ sessions \in Nat
    /\ methods \subseteq Methods
    /\ password \in {"whole", "wiped"}

Unused == [session |-> "wild", channel |-> "wild", begun |-> 1]

LoginInit ==
    /\ loginAt = "idle" /\ object = Unused /\ before = Unused
    /\ sessions = 0 /\ methods = {} /\ password = "whole"

Leaves(o) == object' = o /\ UNCHANGED <<before, methods, password>>

(* connect(): libssh_begin(), and connect_ssh() is called.                 *)
LoginBegins ==
    /\ loginAt = "idle" /\ object.session # "live"
    /\ loginAt' = "new"
    /\ before' = object
    /\ object' = [object EXCEPT !.begun = @ + 1]
    /\ UNCHANGED <<sessions, methods, password>>

(* connect_ssh() returns NULL: ssh_finalize(), and connect() returns NULL. *)
NoSession == Refused([object EXCEPT !.begun = @ - 1])

(* ssh_new()                                                               *)
NewSession ==
    /\ loginAt = "new"
    /\ \/ loginAt' = "idle" /\ Leaves(NoSession) /\ UNCHANGED sessions
       \/ loginAt' = "options" /\ sessions' = sessions + 1 /\ Leaves(object)

(* ssh_free(), on a path that returns NULL.                                *)
GiveUp == loginAt' = "idle" /\ sessions' = sessions - 1 /\ Leaves(NoSession)

Proceed(at) == loginAt' = at /\ UNCHANGED sessions /\ Leaves(object)

(* Faulty variant: the session is not freed when an option is rejected.    *)
SetOptionsLeaks ==
    /\ loginAt = "options"
    /\ \/ loginAt' = "idle" /\ UNCHANGED sessions /\ Leaves(NoSession)
       \/ Proceed("dial")

(* ssh_options_set() for the user and the host                             *)
SetOptions == loginAt = "options" /\ (GiveUp \/ Proceed("dial"))

(* ssh_connect()                                                           *)
Dial(reachable) == loginAt = "dial" /\ (GiveUp \/ (reachable /\ Proceed("none")))

-----------------------------------------------------------------------------
(* authenticate_console() returns SSH_AUTH_SUCCESS, connect_ssh() returns  *)
(* the session.                                                            *)
LoggedIn ==
    /\ loginAt' = "channel"
    /\ UNCHANGED sessions
    /\ Leaves([object EXCEPT !.session = "live"])

(* ssh_userauth_none(), ssh_userauth_list()                                *)
AuthNone ==
    /\ loginAt = "none"
    /\ \/ GiveUp
       \/ LoggedIn
       \/ /\ loginAt' = "gssapi"
          /\ methods' \in SUBSET Methods
          /\ UNCHANGED <<object, before, sessions, password>>

(* if (method & SSH_AUTH_METHOD_GSSAPI_MIC)                                *)
AuthGssapi ==
    /\ loginAt = "gssapi"
    /\ \/ "gssapi" \in methods /\ (GiveUp \/ LoggedIn)
       \/ Proceed("password")

(* if (method & SSH_AUTH_METHOD_PASSWORD)                                  *)
AuthPassword ==
    /\ loginAt = "password"
    /\ \/ "password" \in methods /\ (GiveUp \/ LoggedIn)
       \/ Proceed("wipe")

(* memset() of the caller's string, and another round with what is left.   *)
Wipe ==
    /\ loginAt = "wipe"
    /\ loginAt' = "gssapi" /\ password' = "wiped"
    /\ UNCHANGED <<object, before, sessions, methods>>

-----------------------------------------------------------------------------
(* brutal_exception(): the session goes with its channel.                  *)
TearDown ==
    /\ loginAt' = "idle"
    /\ sessions' = sessions - 1
    /\ Leaves(BrutalException(object))

(* Called by ex_main() for a switch or when the machine does not answer.   *)
Disconnect == loginAt = "idle" /\ object.session = "live" /\ TearDown

(* channel = ssh_channel_new(session), possibly NULL                       *)
NewChannel ==
    /\ loginAt = "channel"
    /\ loginAt' = "open"
    /\ UNCHANGED sessions
    /\ \E c \in {"null", "live"} : Leaves([object EXCEPT !.channel = c])

(* Faulty variant: a failed request returns NULL and leaves all open.      *)
RequestAbandons ==
    /\ loginAt \in ShellRequests
    /\ loginAt' = "idle"
    /\ UNCHANGED sessions
    /\ Leaves(object)

AfterRequest == [open |-> "pty", pty |-> "size", size |-> "shell", shell |-> "idle"]

(* Faulty variant: a failed request is tried again on a new channel.       *)
RequestRetries ==
    /\ loginAt \in ShellRequests
    /\ \/ Proceed("channel")
       \/ object.channel = "live" /\ Proceed(AfterRequest[loginAt])

(* ssh_channel_open_session(), request_pty, change_pty_size, request_shell *)
Request ==
    /\ loginAt \in ShellRequests
    /\ \/ TearDown
       \/ /\ object.channel = "live"
          /\ Proceed(AfterRequest[loginAt])

(* The next call that connect() makes.                                     *)
InConnect(reachable) ==
    \/ NewSession \/ SetOptions \/ Dial(reachable)
    \/ AuthNone \/ AuthGssapi \/ AuthPassword \/ Wipe
    \/ NewChannel \/ Request

LoginStep(reachable) == LoginBegins \/ InConnect(reachable)
===============================================================================
