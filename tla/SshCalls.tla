------------------------------- MODULE SshCalls -------------------------------
(***************************************************************************)
(* What ex_main() does with a logged-in session, step by step: exec_cmd(), *)
(* scp_write() and scp_read(), and what they allocate.  Each libssh call   *)
(* may succeed or fail.                                                    *)
(***************************************************************************)
EXTENDS Integers

CONSTANT MaxSpoiled  \* downloads that may leave their handle behind

ASSUME SpoiledAssumption == MaxSpoiled \in Nat

VARIABLES
    callAt,       \* the call to be made next, "dead" after a failed status check
    channels,     \* channels of the session besides the shell
    scps,         \* ssh_scp structures allocated and not freed
    spoiled,      \* History: downloads refused, or without a file to write to,
    spoiledHere   \* and those of this session

callVars == <<callAt, channels, scps, spoiled, spoiledHere>>

ExecSteps == {"execOpen", "execRequest", "execRead", "execLast"}
WriteSteps == {"writeInit", "writePush", "writeData"}
ReadSteps == {"readInit", "readRequest", "readOpen", "readData", "readEof"}

CallsTypeOK ==
    /\ callAt \in {"idle", "dead"} \cup ExecSteps \cup WriteSteps \cup ReadSteps
    /\ channels \in Nat /\ scps \in Nat
    /\ spoiled \in 0 .. MaxSpoiled /\ spoiledHere \in 0 .. MaxSpoiled

CallsInit ==
    callAt = "idle" /\ channels = 0 /\ scps = 0 /\ spoiled = 0 /\ spoiledHere = 0

(* Go on, having allocated (or freed) so many channels and scp structures. *)
Then(at, channel, scp) ==
    /\ callAt' = at
    /\ channels' = channels + channel
    /\ scps' = scps + scp
    /\ UNCHANGED <<spoiled, spoiledHere>>

-----------------------------------------------------------------------------
(* exec_cmd(): ssh_channel_new(), NULL also without a session              *)
ExecNew(live) ==
    /\ callAt = "idle"
    /\ Then("dead", 0, 0) \/ (live /\ Then("execOpen", 1, 0))

ExecOpen == callAt = "execOpen" /\ (Then("dead", -1, 0) \/ Then("execRequest", 0, 0))

ExecRequest == callAt = "execRequest" /\ (Then("dead", -1, 0) \/ Then("execRead", 0, 0))

(* The loop: on SSH_ERROR it returns without freeing the channel; it ends  *)
(* with the end of the output or with SSH_SINGLE_EXEC_TIMEOUT.             *)
ExecRead == callAt = "execRead" /\ (Then("dead", 0, 0) \/ Then("execLast", 0, 0))

(* The last read, with the same return, and cmd_output == "alive".         *)
ExecLast ==
    /\ callAt = "execLast"
    /\ Then("dead", 0, 0) \/ \E at \in {"idle", "dead"} : Then(at, -1, 0)

-----------------------------------------------------------------------------
(* ssh_scp_new(), ssh_scp_init()                                           *)
ScpNew(live) ==
    /\ callAt = "idle" /\ live
    /\ \E at \in {"writeInit", "readInit"} : Then(at, 0, 1)

ScpInit ==
    \/ callAt \in {"writeInit", "readInit"} /\ Then("idle", 0, -1)
    \/ callAt = "writeInit" /\ Then("writePush", 1, 0)
    \/ callAt = "readInit" /\ Then("readRequest", 1, 0)

(* ssh_scp_push_directory(), ssh_scp_push_file()                           *)
ScpPush == callAt = "writePush" /\ (Then("idle", -1, -1) \/ Then("writeData", 0, 0))

(* The file is sent, whole or in part.                                     *)
ScpWrite == callAt = "writeData" /\ Then("idle", -1, -1)

(* The two returns of scp_read() that free nothing                         *)
Spoil ==
    /\ spoiled < MaxSpoiled
    /\ callAt' = "idle"
    /\ spoiled' = spoiled + 1 /\ spoiledHere' = spoiledHere + 1
    /\ UNCHANGED <<channels, scps>>

(* ssh_scp_pull_request()                                                  *)
ScpPull == callAt = "readRequest" /\ (Spoil \/ Then("readOpen", 0, 0))

(* SD.open(Download_path, FILE_WRITE)                                      *)
ScpOpen == callAt = "readOpen" /\ (Spoil \/ Then("readData", 0, 0))

(* SSH_ERROR, or nothing remains                                           *)
ScpRead == callAt = "readData" /\ (Then("idle", -1, -1) \/ Then("readEof", 0, 0))

(* The last ssh_scp_pull_request(), whatever it returns                    *)
ScpEof == callAt = "readEof" /\ Then("idle", -1, -1)

CallStep(live) ==
    \/ ExecNew(live) \/ ExecOpen \/ ExecRequest \/ ExecRead \/ ExecLast
    \/ ScpNew(live) \/ ScpInit \/ ScpPush \/ ScpWrite
    \/ ScpPull \/ ScpOpen \/ ScpRead \/ ScpEof

-----------------------------------------------------------------------------
(* Faulty variant: the session is not torn down when the check failed.     *)
ReconnectKeepsSession(live) == callAt = "dead" /\ Then("idle", 0, 0)

(* brutal_exception() without a session                                    *)
NothingToTearDown(live) == callAt = "dead" /\ ~live /\ Then("idle", 0, 0)

(* ssh_free() frees the session's channels, the scp structures not.        *)
SessionGone ==
    /\ callAt \in {"idle", "dead"}
    /\ callAt' = "idle"
    /\ channels' = 0 /\ spoiledHere' = 0
    /\ UNCHANGED <<scps, spoiled>>
===============================================================================
