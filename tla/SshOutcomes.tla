----------------------------- MODULE SshOutcomes ------------------------------
(***************************************************************************)
(* What a call of brutal_exception() or connect() makes of one ssh_conn    *)
(* object: a record of its session and channel pointers and of libssh's    *)
(* count of initialisations.                                               *)
(***************************************************************************)
EXTENDS Integers

(* brutal_exception(): free what the pointers say there is to free.        *)
BrutalException(o) ==
    [session |-> "null", channel |-> "null",
     begun |-> IF o.session # "null" THEN o.begun - 1 ELSE o.begun]

(* A pointer nobody assigned is followed: the memory behind it decides.    *)
FollowsWild(o) == o.channel = "wild"

(* connect_ssh() returned NULL: the channel pointer keeps its old value.   *)
Refused(o) == [session |-> "null", channel |-> o.channel, begun |-> o.begun]

(* libssh_begin(), then a logged-in session and a channel with a shell.    *)
Opened(o) == [session |-> "live", channel |-> "live", begun |-> o.begun + 1]

(* Faulty variant: the NULL path forgets its ssh_finalize().               *)
RefusedNotFinalized(o) ==
    [session |-> "null", channel |-> o.channel, begun |-> o.begun + 1]

ConnectForgetsFinalize(o) ==
    {RefusedNotFinalized(o), BrutalException(Opened(o)), Opened(o)}

(* connect(): no session, a session whose channel, pty or shell request    *)
(* fails so that all is torn down again, or a session with a shell.        *)
Connect(o) == {Refused(o), BrutalException(Opened(o)), Opened(o)}
==============================================================================
