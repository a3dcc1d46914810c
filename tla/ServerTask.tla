----------------------------- MODULE ServerTask ------------------------------
(***************************************************************************)
(* The request handlers of the HTTPS server task that use the mailboxes.   *)
(* One task runs HTTPSServer::loop(), so one handler runs at a time, to    *)
(* its end.  A request arrives when the task is idle; handlers that wait   *)
(* do so by polling a mailbox with delay(1).                               *)
(***************************************************************************)
EXTENDS Mailboxes

CONSTANT ClientMayVanish  \* a client may stop sending in the middle of a body

ASSUME ClientAssumption == ClientMayVanish \in BOOLEAN

VARIABLES srvPc,   \* where the handler is
          srvReq,  \* which handler runs
          srvArg   \* its argument

srvVars == <<srvPc, srvReq, srvArg>>

SrvSteps == {"idle", "fill", "assign", "wait", "reply", "stuck"}
Requests == {"none", "ws", "post", "upload", "scp", "status"}

SrvTypeOK ==
    /\ srvPc \in SrvSteps
    /\ srvReq \in Requests
    /\ srvArg \in Texts \cup Paths \cup {Asked, Empty}

SrvInit == srvPc = "idle" /\ srvReq = "none" /\ srvArg = Empty
SrvReset == srvPc' = "idle" /\ srvReq' = "none" /\ srvArg' = Empty

At(pc, req) == srvPc = pc /\ srvReq = req
Enter(pc, req, arg) == srvPc' = pc /\ srvReq' = req /\ srvArg' = arg

-----------------------------------------------------------------------------
(* switchSsh0() and switchSsh1(): the answer does not wait for the switch. *)
SwitchSsh(text) ==
    /\ srvPc = "idle"
    /\ switch_ssh' = text
    /\ UNCHANGED <<srvVars, sshBox, uploadBox, scpBox, statusBox>>

(* SSHHandler::onMessage(): shell input, not waited for.                   *)
OnMessage(text) ==
    /\ srvPc = "idle"
    /\ Enter("assign", "ws", text)
    /\ racing' = TRUE
    /\ UNCHANGED <<ssh_command, ranSsh, switchBox, uploadBox, scpBox, statusBox>>

(* handleTerminalPost(): shell input, waited for.                          *)
HandleTerminalPost(text) ==
    /\ srvPc = "idle"
    /\ Enter("assign", "post", text)
    /\ racing' = TRUE
    /\ ranSsh' = Empty
    /\ UNCHANGED <<ssh_command, switchBox, uploadBox, scpBox, statusBox>>

(* ssh_command = ... is complete.  If the control task reset the String in  *)
(* the middle of it, the terminator it stored may be the first character:  *)
(* the comparison with "" then finds the mailbox empty.                    *)
SshCommandAssigned ==
    /\ srvPc = "assign"
    /\ ssh_command' \in IF racing THEN {srvArg} ELSE {srvArg, Empty}
    /\ racing' = FALSE
    /\ IF srvReq = "ws" THEN SrvReset ELSE Enter("wait", srvReq, srvArg)
    /\ UNCHANGED <<ranSsh, switchBox, uploadBox, scpBox, statusBox>>

(* handleSCP(): the path is put into the mailbox, then waited for.         *)
HandleScp(path) ==
    /\ srvPc = "idle"
    /\ Enter("wait", "scp", path)
    /\ scp_command' = path
    /\ ranScp' = Empty
    /\ UNCHANGED <<dlPath, dlWhole, dlLeft, switchBox, sshBox, uploadBox, statusBox>>

(* Faulty variant: the command is posted before the body is on the card.   *)
PostBeforeFill(path) ==
    /\ srvPc = "idle"
    /\ Enter("fill", "upload", path)
    /\ up' \in {"part", Aged(up)}
    /\ upload_command' = path
    /\ ranUpload' = Empty
    /\ sent' = FALSE
    /\ UNCHANGED <<switchBox, sshBox, scpBox, statusBox>>

(* handleUPLOAD(): the body goes to /downloads/upload; if the file cannot  *)
(* be opened the handler carries on with what was there before.            *)
HandleUpload(path) ==
    /\ srvPc = "idle"
    /\ Enter("fill", "upload", path)
    /\ up' \in {"part", Aged(up)}
    /\ ranUpload' = Empty
    /\ sent' = FALSE
    /\ UNCHANGED <<upload_command, switchBox, sshBox, scpBox, statusBox>>

UploadReceived ==
    /\ srvPc = "fill"
    /\ up' = IF up = "part" THEN "full" ELSE up
    /\ upload_command' = srvArg
    /\ Enter("wait", srvReq, srvArg)
    /\ UNCHANGED <<ranUpload, sent, switchBox, sshBox, scpBox, statusBox>>

(* handleSSHStatus1()                                                      *)
HandleSshStatus1 ==
    /\ srvPc = "idle"
    /\ Enter("wait", "status", Asked)
    /\ hp_1_status_req' = TRUE
    /\ ranStatus' = Empty
    /\ UNCHANGED <<switchBox, sshBox, uploadBox, scpBox>>

(* The body loop ends only when Content-Length bytes have arrived: a       *)
(* client that goes away leaves the task in it.                            *)
BodyNeverEnds ==
    /\ ClientMayVanish
    /\ \/ srvPc = "idle" /\ \E req \in {"post", "scp"} : Enter("stuck", req, Empty)
       \/ srvPc = "fill" /\ Enter("stuck", srvReq, srvArg)
    /\ UNCHANGED mailVars

-----------------------------------------------------------------------------
(* The condition the handler polls for.                                    *)
Cleared ==
    CASE srvReq = "post"   -> ssh_command = Empty
      [] srvReq = "upload" -> upload_command = Empty
      [] srvReq = "scp"    -> scp_command = Empty
      [] srvReq = "status" -> ~hp_1_status_req
      [] OTHER             -> FALSE

(* Faulty variant: the handler gives up waiting.                           *)
WaitGivesUp ==
    /\ srvPc = "wait"
    /\ Enter("reply", srvReq, srvArg)
    /\ UNCHANGED mailVars

WaitEnds ==
    /\ srvPc = "wait"
    /\ Cleared
    /\ Enter("reply", srvReq, srvArg)
    /\ UNCHANGED mailVars

(* SD.remove("/downloads/file"), whose result nobody looks at: where it    *)
(* fails the file stays as it is for the next request.                     *)
RemoveDownload ==
    \/ dlPath' = Empty /\ dlWhole' = FALSE /\ dlLeft' = FALSE
    \/ dlLeft' = (dlPath # Empty) /\ UNCHANGED <<dlPath, dlWhole>>

(* The answer is sent.  handleSCP streams /downloads/file and removes it;  *)
(* the others touch nothing shared.  The histories end with their request. *)
Answer ==
    /\ srvPc = "reply"
    /\ SrvReset
    /\ IF srvReq = "scp" THEN RemoveDownload ELSE UNCHANGED <<dlPath, dlWhole, dlLeft>>
    /\ ranUpload' = Empty /\ sent' = FALSE /\ ranScp' = Empty /\ ranStatus' = Empty
    /\ UNCHANGED <<scp_command, upload_command, up, hp_1_status_req, switchBox, sshBox>>

-----------------------------------------------------------------------------
(* A request arrives.                                                      *)
Arrival ==
    \/ \E text \in Switches : SwitchSsh(text)
    \/ \E text \in Texts \cup {Empty} : OnMessage(text)
    \/ \E text \in Texts \cup {Empty} : HandleTerminalPost(text)
    \/ \E path \in Paths \cup {Empty} : HandleScp(path)
    \/ \E path \in Paths \cup {Empty} : HandleUpload(path)
    \/ HandleSshStatus1

(* The running handler goes on.                                            *)
HandlerStep == SshCommandAssigned \/ UploadReceived \/ WaitEnds \/ Answer

ServerStep == Arrival \/ HandlerStep \/ BodyNeverEnds
==============================================================================
