----------------------------- MODULE ControlTask -----------------------------
(***************************************************************************)
(* ex_main(), the endless loop of the control task.  One pass looks at the *)
(* mailboxes in a fixed order and serves the first that holds something.   *)
(* The loop is cut into steps wherever the server task can see or change   *)
(* what the next statement uses: between the test of a mailbox, the copy   *)
(* of its contents, the work, and the assignment of "" that ends it.       *)
(***************************************************************************)
EXTENDS Mailboxes, SshSession

VARIABLES ctlPc,   \* the statement of ex_main() to be executed next
          ctlArg   \* the by-value String argument of write/scp_write/scp_read

ctlVars == <<ctlPc, ctlArg>>

CtlSteps == {"boot", "poll", "teardown", "index", "swConnect", "swClear",
             "chkSsh", "write", "sshClear", "chkUpload", "push", "send",
             "uploadClear", "chkScp", "pull", "data", "scpClear",
             "chkStatus", "exec", "reconnect", "statusClear",
             "hung", "panic"}

CtlTypeOK ==
    /\ ctlPc \in CtlSteps
    /\ ctlArg \in Texts \cup Paths \cup {Empty, Torn}

CtlInit == ctlPc = "boot" /\ ctlArg = Empty
CtlReset == ctlPc' = "boot" /\ ctlArg' = Empty

Goto(pc) == ctlPc' = pc

-----------------------------------------------------------------------------
(* conn = (connect() != NULL), for the current machine.                    *)
ConnectCurrent(from, next) ==
    \/ \E o \in Connect(from) :
          /\ Becomes(current, o)
          /\ conn' = [conn EXCEPT ![current] = o.channel = "live"]
          /\ Goto(next)
    \/ /\ LoginNeverEnds
       /\ Becomes(current, [session |-> from.session, channel |-> from.channel,
                             begun |-> from.begun + 1])
       /\ UNCHANGED conn
       /\ Goto("hung")

(* ex_main() begins by connecting to the current machine.                  *)
Boot ==
    /\ ctlPc = "boot"
    /\ ConnectCurrent(Object(current), "poll")
    /\ UNCHANGED <<current, ctlArg, mailVars>>

-----------------------------------------------------------------------------
(* if (switch_ssh != "" && conn)                                           *)
CheckSwitch ==
    /\ ctlPc = "poll"
    /\ Goto(IF switch_ssh # Empty /\ Connected THEN "teardown" ELSE "chkSsh")
    /\ UNCHANGED <<ctlArg, sshVars, mailVars>>

(* Faulty variant: the old session is left open.                           *)
SkipTeardown ==
    /\ ctlPc = "teardown"
    /\ conn' = [conn EXCEPT ![current] = FALSE]
    /\ Goto("index")
    /\ UNCHANGED <<session, channel, begun, current, ctlArg, mailVars>>

(* "Disconnect the current ssh session", "Synchronize the connection status" *)
SwitchTeardown ==
    /\ ctlPc = "teardown"
    /\ Becomes(current, BrutalException(Object(current)))
    /\ conn' = [conn EXCEPT ![current] = FALSE]
    /\ Goto("index")
    /\ UNCHANGED <<current, ctlArg, mailVars>>

(* Faulty variant: switch_ssh is reset before it has been read.            *)
IndexAfterClear ==
    /\ ctlPc = "index"
    /\ switch_ssh' = Empty
    /\ current' = ToInt(switch_ssh')
    /\ Goto("swConnect")
    /\ UNCHANGED <<conn, session, channel, begun, ctlArg, sshBox, uploadBox, scpBox, statusBox>>

SwitchIndex ==
    /\ ctlPc = "index"
    /\ current' = ToInt(switch_ssh)
    /\ Goto("swConnect")
    /\ UNCHANGED <<conn, session, channel, begun, ctlArg, mailVars>>

SwitchConnect ==
    /\ ctlPc = "swConnect"
    /\ ConnectCurrent(Object(current), "swClear")
    /\ UNCHANGED <<current, ctlArg, mailVars>>

SwitchClear ==
    /\ ctlPc = "swClear"
    /\ switch_ssh' = Empty
    /\ Goto("poll")
    /\ UNCHANGED <<ctlArg, sshVars, sshBox, uploadBox, scpBox, statusBox>>

-----------------------------------------------------------------------------
(* else if (ssh_command != "" && conn) ssh_servers[...].write(ssh_command) *)
CheckSsh ==
    /\ ctlPc = "chkSsh"
    /\ \E seen \in SshCommandSeen :
          Goto(IF seen # Empty /\ Connected THEN "write" ELSE "chkUpload")
    /\ UNCHANGED <<ctlArg, sshVars, mailVars>>

(* Faulty variant: write() waits until there is something to write.        *)
SshWriteWaits ==
    /\ ctlPc = "write"
    /\ ctlArg' \in SshCommandSeen \ {Empty}
    /\ ranSsh' = ctlArg'
    /\ Goto("sshClear")
    /\ UNCHANGED <<sshVars, ssh_command, racing, switchBox, uploadBox, scpBox, statusBox>>

SshWrite ==
    /\ ctlPc = "write"
    /\ ctlArg' \in SshCommandSeen
    /\ ranSsh' = ctlArg'
    /\ Goto("sshClear")
    /\ UNCHANGED <<sshVars, ssh_command, racing, switchBox, uploadBox, scpBox, statusBox>>

SshClear ==
    /\ ctlPc = "sshClear"
    /\ ssh_command' = Empty
    /\ racing' = FALSE
    /\ ctlArg' = Empty
    /\ Goto("poll")
    /\ UNCHANGED <<sshVars, ranSsh, switchBox, uploadBox, scpBox, statusBox>>

-----------------------------------------------------------------------------
(* Faulty variant: an upload is tried without a connection.                *)
CheckUploadAnyway ==
    /\ ctlPc = "chkUpload"
    /\ Goto(IF upload_command # Empty THEN "push" ELSE "chkScp")
    /\ UNCHANGED <<ctlArg, sshVars, mailVars>>

(* else if (upload_command != "" && conn) scp_write(upload_command)        *)
CheckUpload ==
    /\ ctlPc = "chkUpload"
    /\ Goto(IF upload_command # Empty /\ Connected THEN "push" ELSE "chkScp")
    /\ UNCHANGED <<ctlArg, sshVars, mailVars>>

(* Faulty variant: upload_command is reset before the transfer.            *)
ScpWriteClearsFirst ==
    /\ ctlPc = "push"
    /\ ctlArg' = upload_command
    /\ ranUpload' = upload_command
    /\ upload_command' = Empty
    /\ Goto("send")
    /\ UNCHANGED <<sshVars, up, sent, switchBox, sshBox, scpBox, statusBox>>

(* scp_write(): the argument is copied and the scp session set up.         *)
ScpWriteBegin ==
    /\ ctlPc = "push"
    /\ ctlArg' = upload_command
    /\ ranUpload' = upload_command
    /\ Goto("send")
    /\ UNCHANGED <<sshVars, upload_command, up, sent, switchBox, sshBox, scpBox, statusBox>>

(* A failed set-up, mkdir or chunk ends the transfer early; the caller     *)
(* ignores the result.  Otherwise all of /downloads/upload has been sent.  *)
ScpWriteEnd ==
    /\ ctlPc = "send"
    /\ \E ok \in BOOLEAN : sent' = (ok /\ up = "full")
    /\ Goto("uploadClear")
    /\ UNCHANGED <<ctlArg, sshVars, upload_command, up, ranUpload, switchBox, sshBox, scpBox,
                   statusBox>>

(* Faulty variant: upload_command is not reset after the transfer.         *)
UploadNotCleared ==
    /\ ctlPc = "uploadClear"
    /\ ctlArg' = Empty
    /\ Goto("poll")
    /\ UNCHANGED <<sshVars, mailVars>>

UploadClear ==
    /\ ctlPc = "uploadClear"
    /\ upload_command' = Empty
    /\ ctlArg' = Empty
    /\ Goto("poll")
    /\ UNCHANGED <<sshVars, up, ranUpload, sent, switchBox, sshBox, scpBox, statusBox>>

-----------------------------------------------------------------------------
(* Faulty variant: the test was copied from the branch above.              *)
CheckScpCopied ==
    /\ ctlPc = "chkScp"
    /\ Goto(IF upload_command # Empty /\ Connected THEN "pull" ELSE "chkStatus")
    /\ UNCHANGED <<ctlArg, sshVars, mailVars>>

(* else if (scp_command != "" && conn) scp_read(scp_command)               *)
CheckScp ==
    /\ ctlPc = "chkScp"
    /\ Goto(IF scp_command # Empty /\ Connected THEN "pull" ELSE "chkStatus")
    /\ UNCHANGED <<ctlArg, sshVars, mailVars>>

(* scp_read() up to SD.open: the argument is copied; any failure so far    *)
(* returns without a file, otherwise /downloads/file is truncated.  A peer *)
(* that falls silent holds the call.                                       *)
ScpReadOpen ==
    /\ ctlPc = "pull"
    /\ ctlArg' = scp_command
    /\ ranScp' = scp_command
    /\ \/ Goto("scpClear") /\ UNCHANGED <<dlPath, dlWhole, dlLeft>>
       \/ PeerMayStall /\ Goto("hung") /\ UNCHANGED <<dlPath, dlWhole, dlLeft>>
       \/ /\ Goto("data")
          /\ dlPath' = scp_command /\ dlWhole' = FALSE /\ dlLeft' = FALSE
    /\ UNCHANGED <<sshVars, scp_command, switchBox, sshBox, uploadBox, statusBox>>

(* Faulty variant: scp_command is reset as soon as data starts to arrive.  *)
ScpReadClearsEarly ==
    /\ ctlPc = "data"
    /\ \/ /\ scp_command' = Empty
          /\ UNCHANGED <<ctlPc, dlWhole>>
       \/ /\ dlWhole' \in BOOLEAN
          /\ Goto("scpClear")
          /\ UNCHANGED scp_command
       \/ PeerMayStall /\ Goto("hung") /\ UNCHANGED <<dlWhole, scp_command>>
    /\ UNCHANGED <<ctlArg, sshVars, dlPath, dlLeft, ranScp, switchBox, sshBox, uploadBox,
                   statusBox>>

(* The receive loop: all bytes, an error part way, or ssh_scp_read()       *)
(* returning 0 for ever because the peer closed the channel.               *)
ScpReadData ==
    /\ ctlPc = "data"
    /\ \/ dlWhole' \in BOOLEAN /\ Goto("scpClear")
       \/ PeerMayStall /\ Goto("hung") /\ UNCHANGED dlWhole
    /\ UNCHANGED <<ctlArg, sshVars, scp_command, dlPath, dlLeft, ranScp, switchBox,
                   sshBox, uploadBox, statusBox>>

ScpClear ==
    /\ ctlPc = "scpClear"
    /\ scp_command' = Empty
    /\ ctlArg' = Empty
    /\ Goto("poll")
    /\ UNCHANGED <<sshVars, dlPath, dlWhole, dlLeft, ranScp, switchBox, sshBox, uploadBox, statusBox>>

-----------------------------------------------------------------------------
(* Faulty variant: the status check wants a connection like the others.    *)
CheckStatusIfConnected ==
    /\ ctlPc = "chkStatus"
    /\ Goto(IF hp_1_status_req /\ Connected THEN "exec" ELSE "poll")
    /\ UNCHANGED <<ctlArg, sshVars, mailVars>>

(* else if (hp_1_status_req) ... else the keep-alive, which changes nothing *)
CheckStatus ==
    /\ ctlPc = "chkStatus"
    /\ Goto(IF hp_1_status_req THEN "exec" ELSE "poll")
    /\ UNCHANGED <<ctlArg, sshVars, mailVars>>

(* Faulty variant: the flag is lowered before the reconnect.               *)
StatusExecLowersFlag ==
    /\ ctlPc = "exec"
    /\ \E alive \in BOOLEAN :
          /\ alive => ExecAlive(current)
          /\ conn' = [conn EXCEPT ![current] = alive]
          /\ Goto(IF alive THEN "statusClear" ELSE "reconnect")
    /\ ranStatus' = Asked
    /\ hp_1_status_req' = FALSE
    /\ UNCHANGED <<session, channel, begun, current, ctlArg, switchBox, sshBox,
                   uploadBox, scpBox>>

(* conn = (exec_cmd("echo alive") == "alive")                              *)
StatusExec ==
    /\ ctlPc = "exec"
    /\ \E alive \in BOOLEAN :
          /\ alive => ExecAlive(current)
          /\ conn' = [conn EXCEPT ![current] = alive]
          /\ Goto(IF alive THEN "statusClear" ELSE "reconnect")
    /\ ranStatus' = Asked
    /\ UNCHANGED <<session, channel, begun, current, ctlArg, hp_1_status_req, switchBox,
                   sshBox, uploadBox, scpBox>>

(* Faulty variant: reconnect without tearing the old session down.         *)
ReconnectOnTop ==
    /\ ctlPc = "reconnect"
    /\ ConnectCurrent(Object(current), "statusClear")
    /\ UNCHANGED <<current, ctlArg, mailVars>>

(* Faulty variant: the machine is asked again after a reconnect.           *)
ReconnectAsksAgain ==
    /\ ctlPc = "reconnect"
    /\ ConnectCurrent(BrutalException(Object(current)), "poll")
    /\ UNCHANGED <<current, ctlArg, mailVars>>

(* brutal_exception(), then connect(): a channel pointer that was never    *)
(* assigned may be followed into a panic, or happen to be null.            *)
StatusReconnect ==
    /\ ctlPc = "reconnect"
    /\ \/ /\ FollowsWild(Object(current))
          /\ Goto("panic")
          /\ UNCHANGED <<conn, session, channel, begun>>
       \/ ConnectCurrent(BrutalException(Object(current)), "statusClear")
    /\ UNCHANGED <<current, ctlArg, mailVars>>

StatusClear ==
    /\ ctlPc = "statusClear"
    /\ hp_1_status_req' = FALSE
    /\ Goto("poll")
    /\ UNCHANGED <<ctlArg, sshVars, ranStatus, switchBox, sshBox, uploadBox, scpBox>>

-----------------------------------------------------------------------------
(* The program sets no timeout, so a call waits for its peer without limit:*)
(* read() in a send() to a browser that has stopped reading; keep_alive(), *)
(* write(), scp_write() and exec_cmd() in libssh.                          *)
CallNeverReturns ==
    /\ PeerMayStall
    /\ \/ ctlPc = "poll" /\ Connected
       \/ ctlPc \in {"write", "send"}
       \/ ctlPc = "exec" /\ ExecAlive(current)
    /\ Goto("hung")
    /\ UNCHANGED <<ctlArg, sshVars, mailVars>>

(* A step of the control task.                                             *)
ControlStep ==
    \/ Boot
    \/ CallNeverReturns
    \/ CheckSwitch \/ SwitchTeardown \/ SwitchIndex \/ SwitchConnect \/ SwitchClear
    \/ CheckSsh \/ SshWrite \/ SshClear
    \/ CheckUpload \/ ScpWriteBegin \/ ScpWriteEnd \/ UploadClear
    \/ CheckScp \/ ScpReadOpen \/ ScpReadData \/ ScpClear
    \/ CheckStatus \/ StatusExec \/ StatusReconnect \/ StatusClear
==============================================================================
