------------------------- MODULE BridgeChannelProofs --------------------------
(***************************************************************************)
(* The mailboxes that are waited for implement RequestChannel, and what    *)
(* handleSSHStatus1 reports is what was checked: consequences of IndInv.   *)
(* Last, the only causes of what TLC finds violated: transfers answered    *)
(* before they are complete, and input erased before it is written.        *)
(***************************************************************************)
EXTENDS BridgeProofs

(* handleUPLOAD and the upload branch of ex_main() implement the channel,  *)
(* for any paths: no upload is sent twice, dropped or answered too early.  *)
THEOREM UploadImplements == Spec => UploadIsChannel
<1> DEFINE Step == UploadChannel!ChannelNext \/ UNCHANGED UploadChannel!channelVars
<1> USE DEF Waits, WorksOn, Phase, AskedOf, DoneOf, UploadChannel!ChannelNext, UploadChannel!channelVars
<1>1. Init => UploadChannel!ChannelInit
  BY DEF Init, MailInit, CtlInit, SrvInit, UploadChannel!ChannelInit,
     UploadChannel!Idle
<1>2. ASSUME IndInv, Control PROVE Step
  <2>0. UNCHANGED srvVars
    BY <1>2 DEF Control
  <2> USE <1>2, <2>0 DEF IndInv, TypeOK, MailTypeOK, UploadHandOver,
              mailVars, switchBox, sshBox, uploadBox, scpBox, statusBox, srvVars, Goto, At
  <2>1. CASE Boot
    BY <2>1 DEF Boot, ConnectCurrent, UploadChannel!Started
  <2>2. CASE ScpWriteBegin
    BY <2>2 DEF ScpWriteBegin, UploadChannel!Take
  <2>3. CASE UploadClear
    BY <2>3 DEF UploadClear, UploadChannel!Finish
  <2>4. CASE CallNeverReturns \/ CheckSwitch \/ SwitchTeardown \/ SwitchIndex \/ SwitchConnect \/
     SwitchClear \/ CheckSsh \/ SshWrite \/ SshClear \/ CheckUpload \/
     ScpWriteEnd \/ CheckScp \/ ScpReadOpen \/ ScpReadData \/ ScpClear \/
     CheckStatus \/ StatusExec \/ StatusReconnect \/ StatusClear
    BY <2>4 DEF CallNeverReturns, CheckSwitch, SwitchTeardown, SwitchIndex, SwitchConnect,
       SwitchClear, CheckSsh, SshWrite, SshClear, CheckUpload, ScpWriteEnd,
       CheckScp, ScpReadOpen, ScpReadData, ScpClear, CheckStatus, StatusExec,
       StatusReconnect, StatusClear, ConnectCurrent
  <2>5. QED
    BY <2>1, <2>2, <2>3, <2>4 DEF Control, ControlStep
<1>3. ASSUME IndInv, Server PROVE Step
  <2>0. UNCHANGED <<ctlVars, sshVars>>
    BY <1>3 DEF Server
  <2> USE <1>3, <2>0 DEF IndInv, TypeOK, MailTypeOK, SrvTypeOK, ArgumentsFit, UploadHandOver,
              mailVars, switchBox, sshBox, uploadBox, scpBox, statusBox, ctlVars,
              srvVars, At, Enter, SrvReset
  <2>1. CASE \E text \in Switches : SwitchSsh(text)
    BY <2>1 DEF SwitchSsh
  <2>2. CASE \E text \in Texts \cup {Empty} : OnMessage(text)
    BY <2>2 DEF OnMessage
  <2>3. CASE \E text \in Texts \cup {Empty} : HandleTerminalPost(text)
    BY <2>3 DEF HandleTerminalPost
  <2>4. CASE SshCommandAssigned
    BY <2>4 DEF SshCommandAssigned
  <2>5. CASE \E path \in Paths \cup {Empty} : HandleScp(path)
    BY <2>5 DEF HandleScp
  <2>6. CASE \E path \in Paths \cup {Empty} : HandleUpload(path)
    BY <2>6 DEF HandleUpload
  <2>7. CASE UploadReceived
    BY <2>7 DEF UploadReceived, UploadChannel!Ask
  <2>8. CASE HandleSshStatus1
    BY <2>8 DEF HandleSshStatus1
  <2>9. CASE BodyNeverEnds
    BY <2>9 DEF BodyNeverEnds
  <2>10. CASE WaitEnds
    BY <2>10 DEF WaitEnds, Cleared
  <2>11. CASE Answer
    BY <2>11 DEF Answer, RemoveDownload, UploadChannel!Reply
  <2>12. QED
    BY <2>1, <2>2, <2>3, <2>4, <2>5, <2>6, <2>7, <2>8, <2>9, <2>10, <2>11 DEF
       Server, ServerStep, Arrival, HandlerStep
<1>4. ASSUME Reboot PROVE Step
  BY <1>4 DEF Reboot, MailReset, CtlReset, SrvReset, UploadChannel!Wipe
<1>5. ASSUME UNCHANGED vars PROVE Step
  BY <1>5 DEF vars, mailVars, uploadBox, scpBox, statusBox, ctlVars, srvVars
<1>6. IndInv /\ [Next]_vars => [UploadChannel!ChannelNext]_(UploadChannel!channelVars)
  BY <1>2, <1>3, <1>4, <1>5 DEF Next
<1>7. QED
  BY <1>1, <1>6, Invariance, PTL DEF Spec, UploadIsChannel, UploadChannel!ChannelSpec

(* The same for handleSCP and the scp branch, although the transfer may    *)
(* fail before it begins, fail part way or never end.                      *)
THEOREM ScpImplements == Spec => ScpIsChannel
<1> DEFINE Step == ScpChannel!ChannelNext \/ UNCHANGED ScpChannel!channelVars
<1> USE DEF Waits, WorksOn, Phase, AskedOf, DoneOf, ScpChannel!ChannelNext, ScpChannel!channelVars
<1>1. Init => ScpChannel!ChannelInit
  BY DEF Init, MailInit, CtlInit, SrvInit, ScpChannel!ChannelInit,
     ScpChannel!Idle
<1>2. ASSUME IndInv, Control PROVE Step
  <2>0. UNCHANGED srvVars
    BY <1>2 DEF Control
  <2> USE <1>2, <2>0 DEF IndInv, TypeOK, MailTypeOK, ScpHandOver, StatusHandOver,
              mailVars, switchBox, sshBox, uploadBox, scpBox, statusBox, srvVars, Goto, At
  <2>1. CASE Boot
    BY <2>1 DEF Boot, ConnectCurrent, ScpChannel!Started
  <2>2. CASE ScpReadOpen
    BY <2>2 DEF ScpReadOpen, ScpChannel!Take
  <2>3. CASE ScpReadData
    BY <2>3 DEF ScpReadData
  <2>4. CASE ScpClear
    BY <2>4 DEF ScpClear, ScpChannel!Finish
  <2>5. CASE CallNeverReturns \/ CheckSwitch \/ SwitchTeardown \/ SwitchIndex \/ SwitchConnect \/
     SwitchClear \/ CheckSsh \/ SshWrite \/ SshClear \/ CheckUpload \/
     ScpWriteBegin \/ ScpWriteEnd \/ UploadClear \/ CheckScp \/ CheckStatus \/
     StatusExec \/ StatusReconnect \/ StatusClear
    BY <2>5 DEF CallNeverReturns, CheckSwitch, SwitchTeardown, SwitchIndex, SwitchConnect,
       SwitchClear, CheckSsh, SshWrite, SshClear, CheckUpload, ScpWriteBegin,
       ScpWriteEnd, UploadClear, CheckScp, CheckStatus, StatusExec,
       StatusReconnect, StatusClear, ConnectCurrent
  <2>6. QED
    BY <2>1, <2>2, <2>3, <2>4, <2>5 DEF Control, ControlStep
<1>3. ASSUME IndInv, Server PROVE Step
  <2>0. UNCHANGED <<ctlVars, sshVars>>
    BY <1>3 DEF Server
  <2> USE <1>3, <2>0 DEF IndInv, TypeOK, MailTypeOK, SrvTypeOK, ArgumentsFit, ScpHandOver, StatusHandOver,
              mailVars, switchBox, sshBox, uploadBox, scpBox, statusBox, ctlVars,
              srvVars, At, Enter, SrvReset
  <2>1. CASE \E text \in Switches : SwitchSsh(text)
    BY <2>1 DEF SwitchSsh
  <2>2. CASE \E text \in Texts \cup {Empty} : OnMessage(text)
    BY <2>2 DEF OnMessage
  <2>3. CASE \E text \in Texts \cup {Empty} : HandleTerminalPost(text)
    BY <2>3 DEF HandleTerminalPost
  <2>4. CASE SshCommandAssigned
    BY <2>4 DEF SshCommandAssigned
  <2>5. CASE \E path \in Paths \cup {Empty} : HandleScp(path)
    BY <2>5 DEF HandleScp, ScpChannel!Ask
  <2>6. CASE \E path \in Paths \cup {Empty} : HandleUpload(path)
    BY <2>6 DEF HandleUpload
  <2>7. CASE UploadReceived
    BY <2>7 DEF UploadReceived
  <2>8. CASE HandleSshStatus1
    BY <2>8 DEF HandleSshStatus1
  <2>9. CASE BodyNeverEnds
    BY <2>9 DEF BodyNeverEnds
  <2>10. CASE WaitEnds
    BY <2>10 DEF WaitEnds, Cleared
  <2>11. CASE Answer
    BY <2>11 DEF Answer, RemoveDownload, ScpChannel!Reply
  <2>12. QED
    BY <2>1, <2>2, <2>3, <2>4, <2>5, <2>6, <2>7, <2>8, <2>9, <2>10, <2>11 DEF
       Server, ServerStep, Arrival, HandlerStep
<1>4. ASSUME Reboot PROVE Step
  BY <1>4 DEF Reboot, MailReset, CtlReset, SrvReset, ScpChannel!Wipe
<1>5. ASSUME UNCHANGED vars PROVE Step
  BY <1>5 DEF vars, mailVars, uploadBox, scpBox, statusBox, ctlVars, srvVars
<1>6. IndInv /\ [Next]_vars => [ScpChannel!ChannelNext]_(ScpChannel!channelVars)
  BY <1>2, <1>3, <1>4, <1>5 DEF Next
<1>7. QED
  BY <1>1, <1>6, Invariance, PTL DEF Spec, ScpIsChannel, ScpChannel!ChannelSpec

(* The same for handleSSHStatus1 and the status branch, although a failed  *)
(* check is followed by a reconnect that may never end.                    *)
THEOREM StatusImplements == Spec => StatusIsChannel
<1> DEFINE Step == StatusChannel!ChannelNext \/ UNCHANGED StatusChannel!channelVars
<1> USE DEF Waits, WorksOn, Phase, AskedOf, DoneOf, StatusChannel!ChannelNext, StatusChannel!channelVars
<1>1. Init => StatusChannel!ChannelInit
  BY DEF Init, MailInit, CtlInit, SrvInit, StatusChannel!ChannelInit,
     StatusChannel!Idle
<1>2. ASSUME IndInv, Control PROVE Step
  <2>0. UNCHANGED srvVars
    BY <1>2 DEF Control
  <2> USE <1>2, <2>0 DEF IndInv, TypeOK, MailTypeOK, StatusHandOver,
              mailVars, switchBox, sshBox, uploadBox, scpBox, statusBox, srvVars, Goto, At
  <2>1. CASE Boot
    BY <2>1 DEF Boot, ConnectCurrent, StatusChannel!Started
  <2>2. CASE StatusExec
    BY <2>2 DEF StatusExec, StatusChannel!Take
  <2>3. CASE StatusReconnect
    BY <2>3 DEF StatusReconnect, ConnectCurrent, Asked, Empty
  <2>4. CASE StatusClear
    BY <2>4 DEF StatusClear, StatusChannel!Finish
  <2>5. CASE CallNeverReturns \/ CheckSwitch \/ SwitchTeardown \/ SwitchIndex \/ SwitchConnect \/
     SwitchClear \/ CheckSsh \/ SshWrite \/ SshClear \/ CheckUpload \/
     ScpWriteBegin \/ ScpWriteEnd \/ UploadClear \/ CheckScp \/ ScpReadOpen \/
     ScpReadData \/ ScpClear \/ CheckStatus
    BY <2>5 DEF CallNeverReturns, CheckSwitch, SwitchTeardown, SwitchIndex, SwitchConnect,
       SwitchClear, CheckSsh, SshWrite, SshClear, CheckUpload, ScpWriteBegin,
       ScpWriteEnd, UploadClear, CheckScp, ScpReadOpen, ScpReadData, ScpClear,
       CheckStatus, ConnectCurrent
  <2>6. QED
    BY <2>1, <2>2, <2>3, <2>4, <2>5 DEF Control, ControlStep
<1>3. ASSUME IndInv, Server PROVE Step
  <2>0. UNCHANGED <<ctlVars, sshVars>>
    BY <1>3 DEF Server
  <2> USE <1>3, <2>0 DEF IndInv, TypeOK, MailTypeOK, SrvTypeOK, ArgumentsFit, StatusHandOver,
              mailVars, switchBox, sshBox, uploadBox, scpBox, statusBox, ctlVars,
              srvVars, At, Enter, SrvReset
  <2>1. CASE \E text \in Switches : SwitchSsh(text)
    BY <2>1 DEF SwitchSsh
  <2>2. CASE \E text \in Texts \cup {Empty} : OnMessage(text)
    BY <2>2 DEF OnMessage
  <2>3. CASE \E text \in Texts \cup {Empty} : HandleTerminalPost(text)
    BY <2>3 DEF HandleTerminalPost
  <2>4. CASE SshCommandAssigned
    BY <2>4 DEF SshCommandAssigned
  <2>5. CASE \E path \in Paths \cup {Empty} : HandleScp(path)
    BY <2>5 DEF HandleScp
  <2>6. CASE \E path \in Paths \cup {Empty} : HandleUpload(path)
    BY <2>6 DEF HandleUpload
  <2>7. CASE UploadReceived
    BY <2>7 DEF UploadReceived
  <2>8. CASE HandleSshStatus1
    BY <2>8 DEF HandleSshStatus1, StatusChannel!Ask, Asked, Empty
  <2>9. CASE BodyNeverEnds
    BY <2>9 DEF BodyNeverEnds
  <2>10. CASE WaitEnds
    BY <2>10 DEF WaitEnds, Cleared
  <2>11. CASE Answer
    BY <2>11 DEF Answer, RemoveDownload, StatusChannel!Reply
  <2>12. QED
    BY <2>1, <2>2, <2>3, <2>4, <2>5, <2>6, <2>7, <2>8, <2>9, <2>10, <2>11 DEF
       Server, ServerStep, Arrival, HandlerStep
<1>4. ASSUME Reboot PROVE Step
  BY <1>4 DEF Reboot, MailReset, CtlReset, SrvReset, StatusChannel!Wipe
<1>5. ASSUME UNCHANGED vars PROVE Step
  BY <1>5 DEF vars, mailVars, uploadBox, scpBox, statusBox, ctlVars, srvVars
<1>6. IndInv /\ [Next]_vars => [StatusChannel!ChannelNext]_(StatusChannel!channelVars)
  BY <1>2, <1>3, <1>4, <1>5 DEF Next
<1>7. QED
  BY <1>1, <1>6, Invariance, PTL DEF Spec, StatusIsChannel, StatusChannel!ChannelSpec

(* Once its check is over, only a switch or a reset changes the value that *)
(* handleSSHStatus1 is about to report.                                    *)
THEOREM StatusReportStable == Spec => ReportedAsChecked
<1> DEFINE Stable ==
      (Waits("status") /\ ~hp_1_status_req /\ conn'[current'] # conn[current])
         => ctlPc \in {"teardown", "swConnect"} \/ Reboot
<1>1. IndInv /\ [Next]_vars => [Stable]_vars
  <2> SUFFICES ASSUME IndInv, Next, ~Reboot, Waits("status"), ~hp_1_status_req,
                      ctlPc \notin {"teardown", "swConnect"}
               PROVE  conn'[current'] = conn[current]
    OBVIOUS
  <2>1. ctlPc \notin {"boot", "exec", "reconnect"}
    BY DEF IndInv, StatusHandOver, Waits, Asked, Empty
  <2>2. CASE SwitchIndex
    <3>1. current' \in Servers /\ UNCHANGED conn
      BY <2>2, MachinesAssumption DEF SwitchIndex, ToInt, Servers
    <3>2. conn[current] = FALSE /\ conn[current'] = FALSE
      BY <2>2, <3>1 DEF IndInv, TypeOK, SshTypeOK, HandlesConsistent,
           SessionDiscipline, SwitchIndex
    <3>3. QED
      BY <3>1, <3>2
  <2>3. CASE UNCHANGED <<conn, current>>
    BY <2>3
  <2>4. SwitchIndex \/ UNCHANGED <<conn, current>>
    BY <2>1 DEF Next, Server, Control, ControlStep, Boot, CallNeverReturns, CheckSwitch,
         SwitchTeardown,
         SwitchConnect, SwitchClear, CheckSsh, SshWrite, SshClear, CheckUpload,
         ScpWriteBegin, ScpWriteEnd, UploadClear, CheckScp, ScpReadOpen,
         ScpReadData, ScpClear, CheckStatus, StatusExec, StatusReconnect,
         StatusClear, sshVars
  <2>5. QED
    BY <2>2, <2>3, <2>4
<1>2. QED
  BY <1>1, Invariance, PTL DEF Spec, ReportedAsChecked

-----------------------------------------------------------------------------
(* The transfers that ex_main() makes arrive complete.                     *)
TransfersSucceed ==
    /\ ScpWriteEnd => sent'
    /\ ScpReadData /\ ctlPc' = "scpClear" => dlWhole'

(* Then so do those that a handler has seen the end of.                    *)
TransferInv ==
    /\ ctlPc = "uploadClear" => sent
    /\ (Waits("upload") /\ srvArg # Empty /\ upload_command = Empty) => sent
    /\ (ctlPc = "scpClear" /\ dlPath # Empty) => dlWhole
    /\ (scp_command = Empty /\ dlPath # Empty) => dlWhole
    /\ (scp_command # Empty /\ dlPath # Empty) => ctlPc \in {"data", "scpClear", "hung"}

(* TransferCompleteBeforeAnswer, which the code does not keep, fails only  *)
(* because the results of scp_write(), scp_read() and SD.remove are        *)
(* ignored and because a download of an earlier boot stays on the card:    *)
(* the mailboxes and the waiting are not the cause.                        *)
THEOREM TransfersCompleteIfTheySucceed ==
  Spec /\ []~dlLeft /\ [][TransfersSucceed]_vars => []TransferCompleteBeforeAnswer
<1>1. Init => TransferInv
  BY DEF Init, MailInit, CtlInit, SrvInit, TransferInv, Waits
<1>2. IndInv /\ TransferInv /\ ~dlLeft /\ (~dlLeft)' /\ [Next]_vars
        /\ [TransfersSucceed]_vars => TransferInv'
  <2> SUFFICES ASSUME IndInv, TransferInv, ~dlLeft, ~dlLeft', [Next]_vars,
                      [TransfersSucceed]_vars
               PROVE  TransferInv'
    OBVIOUS
  <2> USE DEF TransferInv, Waits, vars, mailVars, switchBox, sshBox, uploadBox, scpBox,
              statusBox, ctlVars, srvVars, Goto, At, Enter, SrvReset
  <2>1. CASE UNCHANGED vars
    BY <2>1
  <2>2. CASE Reboot
    BY <2>2 DEF Reboot, MailReset, CtlReset
  <2>3. CASE Control
    <3>0. UNCHANGED srvVars
      BY <2>3 DEF Control
    <3> USE <3>0
    <3>1. CASE ScpWriteEnd
      <4>1. ctlPc' = "uploadClear" /\ ctlPc = "send"
        BY <3>1 DEF ScpWriteEnd
      <4>2. sent'
        BY <3>1, <4>1 DEF TransfersSucceed
      <4> QED
        BY <3>1, <4>1, <4>2 DEF ScpWriteEnd
    <3>2. CASE ScpReadData
      <4>1. ctlPc' = "scpClear" => dlWhole'
        BY <3>2 DEF TransfersSucceed, ScpReadData
      <4>2. scp_command' # Empty
        BY <3>2 DEF ScpReadData, IndInv, ScpHandOver
      <4> QED
        BY <3>2, <4>1, <4>2 DEF ScpReadData
    <3>3. CASE ScpReadOpen
      <4>1. scp_command # Empty /\ scp_command' = scp_command /\ At("wait", "scp")
        BY <3>3 DEF ScpReadOpen, IndInv, ScpHandOver
      <4> QED
        BY <3>3, <4>1 DEF ScpReadOpen
    <3>4. CASE UploadClear \/ ScpClear
      BY <3>4 DEF UploadClear, ScpClear
    <3> QED
      BY <2>3, <3>1, <3>2, <3>3, <3>4
         DEF Control, ControlStep, Boot, CallNeverReturns, CheckSwitch, SwitchTeardown,
             SwitchIndex, SwitchConnect, SwitchClear, CheckSsh, SshWrite, SshClear, CheckUpload,
             ScpWriteBegin, CheckScp, CheckStatus, StatusExec, StatusReconnect,
             StatusClear, ConnectCurrent
  <2>4. CASE Server
    <3>0. UNCHANGED ctlVars
      BY <2>4 DEF Server
    <3> USE <3>0
    <3>1. ASSUME NEW path \in Paths \cup {Empty}, HandleUpload(path)
          PROVE  TransferInv'
      BY <3>1 DEF HandleUpload, IndInv, UploadHandOver
    <3>2. CASE UploadReceived
      BY <3>2 DEF UploadReceived
    <3>3. ASSUME NEW path \in Paths \cup {Empty}, HandleScp(path)
          PROVE  TransferInv'
      BY <3>3 DEF HandleScp, IndInv, DownloadOwned
    <3>4. CASE Answer
      <4>1. ctlPc # "uploadClear"
        BY <3>4 DEF Answer, IndInv, UploadHandOver
      <4>2. dlPath' = Empty \/ UNCHANGED <<dlPath, dlWhole>>
        BY <3>4 DEF Answer, RemoveDownload
      <4> QED
        BY <3>4, <4>1, <4>2 DEF Answer
    <3>5. CASE WaitEnds
      BY <3>5 DEF WaitEnds
    <3>6. CASE SshCommandAssigned
      BY <3>6 DEF SshCommandAssigned, IndInv, ArgumentsFit
    <3>7. CASE BodyNeverEnds
      BY <3>7 DEF BodyNeverEnds
    <3> QED
      BY <2>4, <3>1, <3>2, <3>3, <3>4, <3>5, <3>6, <3>7
         DEF Server, ServerStep, Arrival, HandlerStep, SwitchSsh, OnMessage,
             HandleTerminalPost, HandleSshStatus1
  <2> QED
    BY <2>1, <2>2, <2>3, <2>4 DEF Next
<1>3. IndInv /\ TransferInv /\ ~dlLeft => TransferCompleteBeforeAnswer
  BY DEF IndInv, TransferInv, TransferCompleteBeforeAnswer, UploadHandOver, ScpHandOver,
         DownloadOwned, Waits, At
<1> QED
  BY <1>1, <1>2, <1>3, Invariance, PTL DEF Spec

(* Shell input comes only while none is waiting, and no switch is asked    *)
(* for between the reading of switch_ssh and its reset.                    *)
OneAtATime ==
    /\ (\E text \in Texts \cup {Empty} : OnMessage(text) \/ HandleTerminalPost(text))
          => ssh_command = Empty
    /\ (\E text \in Switches : SwitchSsh(text)) => ctlPc \notin {"swConnect", "swClear"}

(* Then input being assigned meets an empty mailbox, and what ex_main()    *)
(* resets is what it wrote or carried out.                                 *)
EraseInv ==
    /\ racing => srvPc = "assign"
    /\ srvPc = "assign" => ssh_command = Empty /\ racing
    /\ ctlPc \in {"write", "sshClear"} => ssh_command # Empty
    /\ ctlPc = "sshClear" => ranSsh = ssh_command
    /\ ctlPc \in {"swConnect", "swClear"} => current = ToInt(switch_ssh)

(* ErasedOnlyWhenDone, which the code does not keep, fails only because a  *)
(* browser sends while its last input is pending or asks for another       *)
(* switch during a switch: ex_main() by itself loses nothing.              *)
THEOREM NothingErasedOneAtATime ==
  Spec /\ [][OneAtATime]_vars => ErasedOnlyWhenDone
<1> DEFINE Done ==
      ~Reboot =>
        /\ (ssh_command # Empty /\ ssh_command' # ssh_command) => ranSsh = ssh_command
        /\ (switch_ssh # Empty /\ switch_ssh' = Empty) => current = ToInt(switch_ssh)
<1>1. Init => EraseInv
  BY DEF Init, MailInit, CtlInit, SrvInit, EraseInv
<1>2. IndInv /\ EraseInv /\ [Next]_vars /\ [OneAtATime]_vars
        => EraseInv' /\ [Done]_vars
  <2> SUFFICES ASSUME IndInv, EraseInv, [Next]_vars, [OneAtATime]_vars
               PROVE  EraseInv' /\ (Next => Done)
    OBVIOUS
  <2> USE DEF EraseInv, vars, mailVars, switchBox, sshBox, uploadBox, scpBox,
              statusBox, sshVars, ctlVars, srvVars, Goto, Enter, SrvReset
  <2>1. CASE UNCHANGED vars
    BY <2>1
  <2>2. CASE Reboot
    BY <2>2 DEF Reboot, MailReset, CtlReset, SrvReset
  <2>3. CASE Control
    <3>0. UNCHANGED srvVars
      BY <2>3 DEF Control
    <3> USE <3>0
    <3>1. CASE CheckSsh
      BY <3>1 DEF CheckSsh, SshCommandSeen
    <3>2. CASE SshWrite
      BY <3>2 DEF SshWrite, SshCommandSeen
    <3>3. CASE SshClear
      BY <3>3 DEF SshClear
    <3>4. CASE SwitchIndex
      BY <3>4 DEF SwitchIndex
    <3>5. CASE SwitchConnect
      BY <3>5 DEF SwitchConnect, ConnectCurrent
    <3>6. CASE SwitchClear
      BY <3>6 DEF SwitchClear
    <3>7. CASE Boot \/ StatusReconnect
      BY <3>7 DEF Boot, StatusReconnect, ConnectCurrent
    <3> QED
      BY <2>3, <3>1, <3>2, <3>3, <3>4, <3>5, <3>6, <3>7
         DEF Control, ControlStep, CallNeverReturns, CheckSwitch, SwitchTeardown, CheckUpload,
             ScpWriteBegin, ScpWriteEnd, UploadClear, CheckScp, ScpReadOpen,
             ScpReadData, ScpClear, CheckStatus, StatusExec, StatusClear
  <2>4. CASE Server
    <3>0. UNCHANGED <<ctlVars, sshVars>>
      BY <2>4 DEF Server
    <3> USE <3>0
    <3>1. ASSUME NEW text \in Texts \cup {Empty}, OnMessage(text) \/ HandleTerminalPost(text)
          PROVE  EraseInv' /\ Done
      <4>1. ssh_command = Empty
        BY <3>1 DEF OneAtATime, OnMessage, HandleTerminalPost
      <4> QED
        BY <3>1, <4>1 DEF OnMessage, HandleTerminalPost
    <3>2. ASSUME NEW text \in Switches, SwitchSsh(text)
          PROVE  EraseInv' /\ Done
      <4>1. CASE UNCHANGED switch_ssh
        BY <3>2, <4>1 DEF SwitchSsh
      <4>2. CASE switch_ssh' # switch_ssh
        <5>1. ctlPc \notin {"swConnect", "swClear"}
          BY <3>2, <4>2 DEF OneAtATime
        <5>2. switch_ssh' # Empty
          BY <3>2 DEF SwitchSsh, Switches, Empty
        <5> QED
          BY <3>2, <5>1, <5>2 DEF SwitchSsh
      <4> QED
        BY <4>1, <4>2
    <3>3. CASE SshCommandAssigned
      BY <3>3 DEF SshCommandAssigned
    <3> QED
      BY <2>4, <3>1, <3>2, <3>3
         DEF Server, ServerStep, Arrival, HandlerStep, HandleScp, HandleUpload,
             UploadReceived, HandleSshStatus1, BodyNeverEnds, WaitEnds, Answer
  <2> QED
    BY <2>1, <2>2, <2>3, <2>4 DEF Next
<1> QED
  BY <1>1, <1>2, Invariance, PTL DEF Spec, ErasedOnlyWhenDone
===============================================================================
