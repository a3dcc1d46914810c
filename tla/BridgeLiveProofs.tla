--------------------------- MODULE BridgeLiveProofs ---------------------------
(***************************************************************************)
(* What must happen in Bridge, for any texts, paths and number of machines.*)
(*                                                                         *)
(* A wait is measured by a number that every step of ex_main() lowers.     *)
(* That a task can take its next step is a matter of ENABLED, which TLC    *)
(* checks (TasksCanStep); that it does then take it is the fairness of     *)
(* FairSpec.                                                               *)
(***************************************************************************)
EXTENDS BridgeProofs

(* Where ex_main() is in its loop: the statements left before the next     *)
(* pass begins with "poll".                                                *)
LoopPos ==
    CASE ctlPc = "boot"        -> 21 [] ctlPc = "poll"        -> 20
      [] ctlPc = "teardown"    -> 19 [] ctlPc = "index"       -> 18
      [] ctlPc = "swConnect"   -> 17 [] ctlPc = "swClear"     -> 16
      [] ctlPc = "chkSsh"      -> 15 [] ctlPc = "write"       -> 14
      [] ctlPc = "sshClear"    -> 13 [] ctlPc = "chkUpload"   -> 12
      [] ctlPc = "push"        -> 11 [] ctlPc = "send"        -> 10
      [] ctlPc = "uploadClear" -> 9  [] ctlPc = "chkScp"      -> 8
      [] ctlPc = "pull"        -> 7  [] ctlPc = "data"        -> 6
      [] ctlPc = "scpClear"    -> 5  [] ctlPc = "chkStatus"   -> 4
      [] ctlPc = "exec"        -> 3  [] ctlPc = "reconnect"   -> 2
      [] OTHER                 -> 1

(* What may cost the waiting handler a further pass, of at most 22 steps: a *)
(* switch, shell input, and having been posted behind its own test in the  *)
(* current pass.                                                           *)
SwitchAhead == IF switch_ssh # Empty THEN 22 ELSE 0
ShellAhead == IF ssh_command # Empty \/ ctlPc \in {"write", "sshClear"} THEN 22 ELSE 0
PassedOver ==
    IF \/ srvReq = "post" /\ ctlPc \in {"chkUpload", "chkScp", "chkStatus"}
       \/ srvReq = "upload" /\ ctlPc \in {"chkScp", "chkStatus"}
       \/ srvReq = "scp" /\ ctlPc = "chkStatus"
    THEN 22 ELSE 0

WaitRank == SwitchAhead + ShellAhead + PassedOver + LoopPos

(* A switch that is being carried out is still in its mailbox.             *)
SwitchPending ==
    ctlPc \in {"teardown", "index", "swConnect", "swClear"} => switch_ssh # Empty

(* Only these handlers wait.                                               *)
Waited == {"post", "upload", "scp", "status"}

LiveInv == IndInv /\ SwitchPending /\ (srvPc = "wait" => srvReq \in Waited)

(* A wait that the control task will still end, and what it comes to.      *)
Pursued(req) ==
    At("wait", req) /\ ~Cleared /\ ~Stranded /\ ctlPc \notin {"hung", "panic"}
Settled(req) ==
    srvPc = "idle" \/ (At("wait", req) /\ (Cleared \/ Stranded \/ ctlPc \in {"hung", "panic"}))

-----------------------------------------------------------------------------
(* Only ex_main() empties switch_ssh, after the switch.                    *)
LEMMA LiveInvariance == Spec => []LiveInv
  <1> DEFINE Waiting == srvPc = "wait" => srvReq \in Waited
  <1>1. Init => SwitchPending /\ Waiting
    BY DEF Init, CtlInit, SrvInit, SwitchPending
  <1>2. IndInv /\ SwitchPending /\ Waiting /\ [Next]_vars => (SwitchPending /\ Waiting)'
    <2> SUFFICES ASSUME IndInv, SwitchPending, Waiting, [Next]_vars
                 PROVE  (SwitchPending /\ Waiting)'
      OBVIOUS
    <2> USE DEF SwitchPending, Waited
    <2>1. CASE Control
      BY <2>1 DEF Control, ControlStep, Boot, CallNeverReturns, CheckSwitch,
           SwitchTeardown, SwitchIndex,
           SwitchConnect, SwitchClear, CheckSsh, SshWrite, SshClear, CheckUpload,
           ScpWriteBegin, ScpWriteEnd, UploadClear, CheckScp, ScpReadOpen, ScpReadData,
           ScpClear, CheckStatus, StatusExec, StatusReconnect, StatusClear,
           ConnectCurrent, Goto, mailVars, switchBox, srvVars
    <2>2. CASE Server
      BY <2>2 DEF Server, ServerStep, Arrival, HandlerStep, SwitchSsh, OnMessage,
           HandleTerminalPost, HandleScp, HandleUpload, HandleSshStatus1,
           SshCommandAssigned, UploadReceived, WaitEnds, Answer, BodyNeverEnds,
           ctlVars, srvVars, mailVars, switchBox, Switches, Empty, Enter, SrvReset,
           IndInv, ArgumentsFit
    <2>3. CASE Reboot
      BY <2>3 DEF Reboot, CtlReset, SrvReset
    <2>4. CASE UNCHANGED vars
      BY <2>4 DEF vars, ctlVars, srvVars, mailVars, switchBox
    <2> QED
      BY <2>1, <2>2, <2>3, <2>4 DEF Next
  <1> QED
    BY <1>1, <1>2, Invariance, PTL DEF Spec, LiveInv

(* The measure falls with any of its parts, if none but the place in the   *)
(* loop grows.                                                             *)
RankParts ==
    /\ SwitchAhead' <= SwitchAhead /\ ShellAhead' <= ShellAhead /\ PassedOver' <= PassedOver
    /\ \/ LoopPos' < LoopPos
       \/ SwitchAhead' < SwitchAhead
       \/ ShellAhead' < ShellAhead
       \/ PassedOver' < PassedOver

LEMMA RankSum ==
  ASSUME NEW a \in 0 .. 22, NEW b \in 0 .. 22, NEW c \in 0 .. 22, NEW d \in 1 .. 21,
         NEW u \in 0 .. 22, NEW v \in 0 .. 22, NEW w \in 0 .. 22, NEW x \in 1 .. 21,
         u <= a, v <= b, w <= c,
         x < d \/ u + 22 <= a \/ v + 22 <= b \/ w + 22 <= c
  PROVE  u + v + w + x < a + b + c + d
  OBVIOUS

LEMMA RankFalls == RankParts => WaitRank' < WaitRank
  <1> SUFFICES ASSUME RankParts PROVE WaitRank' < WaitRank
    OBVIOUS
  <1>1. LoopPos \in 1 .. 21 /\ LoopPos' \in 1 .. 21
    BY DEF LoopPos
  <1>2. /\ SwitchAhead \in 0 .. 22 /\ ShellAhead \in 0 .. 22 /\ PassedOver \in 0 .. 22
        /\ SwitchAhead' \in 0 .. 22 /\ ShellAhead' \in 0 .. 22 /\ PassedOver' \in 0 .. 22
    BY DEF SwitchAhead, ShellAhead, PassedOver
  <1>3. /\ SwitchAhead' < SwitchAhead => SwitchAhead' + 22 <= SwitchAhead
        /\ ShellAhead' < ShellAhead => ShellAhead' + 22 <= ShellAhead
        /\ PassedOver' < PassedOver => PassedOver' + 22 <= PassedOver
    BY DEF SwitchAhead, ShellAhead, PassedOver
  <1>4. SwitchAhead' + ShellAhead' + PassedOver' + LoopPos'
          < SwitchAhead + ShellAhead + PassedOver + LoopPos
    BY <1>1, <1>2, <1>3, RankSum DEF RankParts
  <1> QED
    BY <1>4 DEF WaitRank

(* Every step of ex_main() brings the handler it will serve nearer.        *)
LEMMA ControlDescends ==
  ASSUME LiveInv, NEW req \in Waited, Pursued(req), Control, ~Settled(req)'
  PROVE  Pursued(req)' /\ WaitRank' < WaitRank
  <1>1. /\ srvPc = "wait" /\ srvReq = req /\ srvPc' = "wait" /\ srvReq' = req
        /\ ctlPc' \notin {"hung", "panic"}
        /\ ~Cleared /\ ~Cleared' /\ ~Stranded /\ ~Stranded'
    BY DEF Pursued, Settled, Control, At, srvVars
  <1>2. Pursued(req)'
    BY <1>1 DEF Pursued, At
  <1>3. /\ req = "post" => ssh_command # Empty /\ ssh_command' # Empty
        /\ req = "upload" => upload_command # Empty /\ upload_command' # Empty
        /\ req = "scp" => scp_command # Empty /\ scp_command' # Empty
        /\ req = "status" => hp_1_status_req /\ hp_1_status_req'
    BY <1>1, Zenon DEF Cleared, Waited
  <1>4. /\ upload_command # Empty \/ ctlPc \in {"push", "send", "uploadClear"} => req = "upload"
        /\ scp_command # Empty \/ ctlPc \in {"pull", "data", "scpClear"} => req = "scp"
        /\ hp_1_status_req \/ ctlPc \in {"exec", "reconnect", "statusClear"} => req = "status"
    BY <1>1 DEF LiveInv, IndInv, UploadHandOver, ScpHandOver, StatusHandOver, At
  <1>5. ASSUME req # "status", ctlPc \in {"poll", "chkSsh", "chkUpload", "chkScp", "chkStatus"}
        PROVE  Connected
    BY <1>1, <1>5 DEF Stranded, Waited
  <1>6. SwitchPending /\ Torn # Empty
    BY ValuesAssumption DEF LiveInv
  <1> USE DEF LoopPos, SwitchAhead, ShellAhead, PassedOver, Goto, Waited,
              mailVars, switchBox, sshBox, RankParts
  <1>7. ASSUME Boot PROVE RankParts
    BY <1>7, <1>1 DEF Boot, ConnectCurrent
  <1>8. ASSUME CheckSwitch PROVE RankParts
    BY <1>8, <1>1, <1>5 DEF CheckSwitch
  <1>9. ASSUME SwitchTeardown PROVE RankParts
    BY <1>9, <1>1 DEF SwitchTeardown
  <1>10. ASSUME SwitchIndex PROVE RankParts
    BY <1>10, <1>1 DEF SwitchIndex
  <1>11. ASSUME SwitchConnect PROVE RankParts
    BY <1>11, <1>1 DEF SwitchConnect, ConnectCurrent
  <1>12. ASSUME SwitchClear PROVE RankParts
    BY <1>12, <1>1, <1>6 DEF SwitchClear, SwitchPending
  <1>13. ASSUME CheckSsh PROVE RankParts
    BY <1>13, <1>1, <1>3, <1>5, <1>6 DEF CheckSsh, SshCommandSeen
  <1>14. ASSUME SshWrite PROVE RankParts
    BY <1>14, <1>1 DEF SshWrite
  <1>15. ASSUME SshClear PROVE RankParts
    BY <1>15, <1>1 DEF SshClear
  <1>16. ASSUME CheckUpload PROVE RankParts
    BY <1>16, <1>1, <1>3, <1>5 DEF CheckUpload
  <1>17. ASSUME ScpWriteBegin PROVE RankParts
    BY <1>17, <1>1 DEF ScpWriteBegin
  <1>18. ASSUME ScpWriteEnd PROVE RankParts
    BY <1>18, <1>1 DEF ScpWriteEnd
  <1>19. ASSUME UploadClear PROVE RankParts
    BY <1>19, <1>1, <1>3, <1>4 DEF UploadClear
  <1>20. ASSUME CheckScp PROVE RankParts
    BY <1>20, <1>1, <1>3, <1>5 DEF CheckScp
  <1>21. ASSUME ScpReadOpen PROVE RankParts
    BY <1>21, <1>1, <1>4 DEF ScpReadOpen
  <1>22. ASSUME ScpReadData PROVE RankParts
    BY <1>22, <1>1 DEF ScpReadData
  <1>23. ASSUME ScpClear PROVE RankParts
    BY <1>23, <1>1, <1>3, <1>4 DEF ScpClear
  <1>24. ASSUME CheckStatus PROVE RankParts
    BY <1>24, <1>1, <1>3, <1>4 DEF CheckStatus
  <1>25. ASSUME StatusExec PROVE RankParts
    BY <1>25, <1>1 DEF StatusExec
  <1>26. ASSUME StatusReconnect PROVE RankParts
    BY <1>26, <1>1 DEF StatusReconnect, ConnectCurrent
  <1>27. ASSUME StatusClear PROVE RankParts
    BY <1>27, <1>1, <1>3, <1>4 DEF StatusClear
  <1>28. ~CallNeverReturns
    BY <1>1 DEF CallNeverReturns
  <1> HIDE DEF LoopPos, SwitchAhead, ShellAhead, PassedOver, RankParts
  <1> QED
    BY <1>2, <1>7, <1>8, <1>9, <1>10, <1>11, <1>12, <1>13, <1>14, <1>15, <1>16, <1>17, <1>18, <1>19, <1>20, <1>21, <1>22, <1>23, <1>24, <1>25, <1>26, <1>27, <1>28, RankFalls
       DEF Control, ControlStep

(* The server task itself waits, and a reset ends everything.              *)
LEMMA OthersKeepRank ==
  ASSUME NEW req \in Waited, Pursued(req), [Next]_vars, ~Control
  PROVE  (Pursued(req)' /\ WaitRank' = WaitRank) \/ Settled(req)'
  <1>1. ~Server
    BY DEF Pursued, At, Server, ServerStep, Arrival, HandlerStep, SwitchSsh, OnMessage,
           HandleTerminalPost, HandleScp, HandleUpload, HandleSshStatus1,
           SshCommandAssigned, UploadReceived, WaitEnds, Answer, BodyNeverEnds
  <1>2. ASSUME Reboot PROVE Settled(req)'
    BY <1>2 DEF Reboot, SrvReset, Settled
  <1>3. ASSUME UNCHANGED vars PROVE Pursued(req)' /\ WaitRank' = WaitRank
    <2> USE <1>3 DEF vars, mailVars, switchBox, sshBox, uploadBox, scpBox, statusBox,
                     sshVars, ctlVars, srvVars
    <2>1. Pursued(req)'
      BY DEF Pursued, At, Cleared, Stranded, Connected
    <2>2. WaitRank' = WaitRank
      BY DEF WaitRank, SwitchAhead, ShellAhead, PassedOver, LoopPos
    <2> QED
      BY <2>1, <2>2
  <1> QED
    BY <1>1, <1>2, <1>3 DEF Next

-----------------------------------------------------------------------------
(* The wait comes down from below i to below k, or is settled.             *)
WaitFalls(req, i, k) ==
    FairSpec /\ []TasksCanStep
      => ((Pursued(req) /\ WaitRank < i) ~> ((Pursued(req) /\ WaitRank < k) \/ Settled(req)))

LEMMA WaitComesNearer == \A req \in Waited, k \in Nat : WaitFalls(req, k + 1, k)
  <1> SUFFICES ASSUME NEW req \in Waited, NEW k \in Nat PROVE WaitFalls(req, k + 1, k)
    OBVIOUS
  <1> DEFINE Here == Pursued(req) /\ WaitRank = k
             Below == Pursued(req) /\ WaitRank < k
  <1>1. Pursued(req) /\ WaitRank < k + 1 => Here \/ Below
    <2>1. WaitRank \in Nat
      BY DEF WaitRank, SwitchAhead, ShellAhead, PassedOver, LoopPos
    <2> QED
      BY <2>1
  <1>2. LiveInv /\ Here /\ [Next]_vars => Here' \/ Below' \/ Settled(req)'
    BY ControlDescends, OthersKeepRank
  <1>3. LiveInv /\ Here /\ <<Control>>_vars => Below' \/ Settled(req)'
    BY ControlDescends
  <1>4. TasksCanStep /\ Here => ENABLED <<Control>>_vars
    BY DEF TasksCanStep, Pursued
  <1> QED
    BY <1>1, <1>2, <1>3, <1>4, LiveInvariance, PTL DEF FairSpec, Spec, WaitFalls

LEMMA WaitFallsOn ==
  \A req \in Waited, i, j, k \in Nat :
     WaitFalls(req, i, j) /\ WaitFalls(req, j, k) => WaitFalls(req, i, k)
  <1> SUFFICES ASSUME NEW req \in Waited, NEW i \in Nat, NEW j \in Nat, NEW k \in Nat
               PROVE  WaitFalls(req, i, j) /\ WaitFalls(req, j, k) => WaitFalls(req, i, k)
    OBVIOUS
  <1> QED
    BY PTL DEF WaitFalls

(* No wait begins higher than 87: after so many steps of ex_main() it is   *)
(* settled.                                                                *)
LEMMA WaitSettles ==
  \A req \in Waited : WaitFalls(req, 128, 0)
  <1> SUFFICES ASSUME NEW req \in Waited PROVE WaitFalls(req, 128, 0)
    OBVIOUS
  <1>1. \A k \in Nat : WaitFalls(req, k + 1, k)
    BY WaitComesNearer
  <1>2. \A k \in Nat : WaitFalls(req, k + 2, k)
    BY <1>1, WaitFallsOn
  <1>3. \A k \in Nat : WaitFalls(req, k + 4, k)
    BY <1>2, WaitFallsOn
  <1>4. \A k \in Nat : WaitFalls(req, k + 8, k)
    BY <1>3, WaitFallsOn
  <1>5. \A k \in Nat : WaitFalls(req, k + 16, k)
    BY <1>4, WaitFallsOn
  <1>6. \A k \in Nat : WaitFalls(req, k + 32, k)
    BY <1>5, WaitFallsOn
  <1>7. \A k \in Nat : WaitFalls(req, k + 64, k)
    BY <1>6, WaitFallsOn
  <1>8. WaitFalls(req, 128, 64) /\ WaitFalls(req, 64, 0)
    BY <1>7
  <1> QED
    BY <1>8, WaitFallsOn

-----------------------------------------------------------------------------
(* What one step can do to a handler, seen from where it is.               *)
LEMMA HandlerMoves ==
  ASSUME LiveInv, [Next]_vars
  PROVE  /\ srvPc = "reply" => srvPc' \in {"reply", "idle"}
         /\ srvPc = "wait" /\ Cleared
              => (srvPc = "wait" /\ Cleared)' \/ srvPc' \in {"reply", "idle"}
         /\ srvPc = "assign" => srvPc' \in {"assign", "wait", "idle"}
         /\ srvPc = "fill" => srvPc' \in {"fill", "wait", "stuck", "idle"}
  <1>1. CASE Server
    <2> USE DEF Enter, SrvReset, mailVars, srvVars
    <2>1. ASSUME srvPc = "idle" PROVE srvPc \notin {"reply", "wait", "assign", "fill"}
      BY <2>1
    <2>2. CASE Arrival
      BY <2>2, <2>1 DEF Arrival, SwitchSsh, OnMessage, HandleTerminalPost, HandleScp,
                        HandleUpload, HandleSshStatus1
    <2>3. CASE HandlerStep
      BY <2>3 DEF HandlerStep, SshCommandAssigned, UploadReceived, WaitEnds, Answer
    <2>4. CASE BodyNeverEnds
      BY <2>4 DEF BodyNeverEnds
    <2> QED
      BY <1>1, <2>2, <2>3, <2>4 DEF Server, ServerStep
  <1>2. CASE Control
    <2>1. UNCHANGED srvVars
      BY <1>2 DEF Control
    <2>2. /\ ssh_command' \in {ssh_command, Empty}
          /\ upload_command' \in {upload_command, Empty}
          /\ scp_command' \in {scp_command, Empty}
          /\ hp_1_status_req' => hp_1_status_req
      BY <1>2 DEF Control, ControlStep, Boot, CallNeverReturns, CheckSwitch,
           SwitchTeardown, SwitchIndex,
           SwitchConnect, SwitchClear, CheckSsh, SshWrite, SshClear, CheckUpload,
           ScpWriteBegin, ScpWriteEnd, UploadClear, CheckScp, ScpReadOpen, ScpReadData,
           ScpClear, CheckStatus, StatusExec, StatusReconnect, StatusClear,
           ConnectCurrent, mailVars, sshBox, uploadBox, scpBox, statusBox
    <2>3. Cleared => Cleared'
      BY <2>1, <2>2 DEF Cleared, srvVars
    <2> QED
      BY <2>1, <2>3 DEF srvVars
  <1>3. CASE Reboot
    BY <1>3 DEF Reboot, SrvReset
  <1>4. CASE UNCHANGED vars
    BY <1>4 DEF vars, srvVars, mailVars, sshBox, uploadBox, scpBox, statusBox, Cleared
  <1> QED
    BY <1>1, <1>2, <1>3, <1>4 DEF Next

(* Both cores stand still after a panic, until the board starts over.      *)
LEMMA PanicEnds ==
  FairSpec /\ []TasksCanStep => (ctlPc = "panic" ~> srvPc = "idle" /\ switch_ssh = Empty)
  <1>1. ctlPc = "panic" /\ [Next]_vars
          => (ctlPc = "panic")' \/ (srvPc = "idle" /\ switch_ssh = Empty)'
    <2> SUFFICES ASSUME ctlPc = "panic", [Next]_vars, ~Reboot PROVE ctlPc' = "panic"
      BY DEF Reboot, SrvReset, MailReset
    <2>1. ~Control /\ ~Server
      BY DEF Control, ControlStep, Boot, CallNeverReturns, CheckSwitch,
           SwitchTeardown, SwitchIndex,
           SwitchConnect, SwitchClear, CheckSsh, SshWrite, SshClear, CheckUpload,
           ScpWriteBegin, ScpWriteEnd, UploadClear, CheckScp, ScpReadOpen, ScpReadData,
           ScpClear, CheckStatus, StatusExec, StatusReconnect, StatusClear, Server
    <2> QED
      BY <2>1 DEF Next, vars, ctlVars
  <1>2. ctlPc = "panic" /\ <<Recover>>_vars => (srvPc = "idle" /\ switch_ssh = Empty)'
    BY DEF Recover, Reboot, SrvReset, MailReset
  <1>3. TasksCanStep /\ ctlPc = "panic" => ENABLED <<Recover>>_vars
    BY DEF TasksCanStep
  <1> QED
    BY <1>1, <1>2, <1>3, PTL DEF FairSpec, Spec

(* A handler whose mailbox has been emptied answers.                       *)
LEMMA ClearedAnswers ==
  FairSpec /\ []TasksCanStep => (srvPc = "reply" \/ (srvPc = "wait" /\ Cleared) ~> srvPc = "idle")
  <1> DEFINE Replying == srvPc = "reply" /\ ctlPc # "panic"
             Released == srvPc = "wait" /\ Cleared /\ ctlPc # "panic"
  <1>1. LiveInv /\ Replying /\ [Next]_vars => Replying' \/ (srvPc = "idle")' \/ (ctlPc = "panic")'
    BY HandlerMoves
  <1>2. Replying /\ <<Handler>>_vars => (srvPc = "idle")'
    BY DEF Handler, HandlerStep, SshCommandAssigned, UploadReceived, WaitEnds, Answer, SrvReset
  <1>3. LiveInv /\ Released /\ [Next]_vars
          => Released' \/ Replying' \/ (srvPc = "idle")' \/ (ctlPc = "panic")'
    BY HandlerMoves
  <1>4. Released /\ <<Handler>>_vars => Replying'
    BY DEF Handler, HandlerStep, SshCommandAssigned, UploadReceived, WaitEnds, Answer, Enter,
           ctlVars
  <1>5. TasksCanStep /\ (Replying \/ Released) => ENABLED <<Handler>>_vars
    BY DEF TasksCanStep
  <1>6. srvPc = "reply" \/ (srvPc = "wait" /\ Cleared) => Replying \/ Released \/ ctlPc = "panic"
    OBVIOUS
  <1> QED
    BY <1>1, <1>2, <1>3, <1>4, <1>5, <1>6, PanicEnds, LiveInvariance, PTL DEF FairSpec, Spec

-----------------------------------------------------------------------------
(* A wait of any kind ends, unless its handler is stranded or the control  *)
(* task hangs.                                                             *)
WaitConcludes(req) ==
    FairSpec /\ []TasksCanStep
      => (At("wait", req) ~> (srvPc = "idle" \/ (Stranded /\ srvReq = req) \/ ctlPc = "hung"))

LEMMA WaitsConclude == \A req \in Waited : WaitConcludes(req)
  <1> SUFFICES ASSUME NEW req \in Waited PROVE WaitConcludes(req)
    OBVIOUS
  <1>1. WaitFalls(req, 128, 0)
    BY WaitSettles
  <1>2. WaitRank \in 1 .. 87
    BY DEF WaitRank, SwitchAhead, ShellAhead, PassedOver, LoopPos
  <1>3. At("wait", req) => (Pursued(req) /\ WaitRank < 128) \/ Settled(req)
    BY <1>2 DEF Pursued, Settled
  <1>4. ~(Pursued(req) /\ WaitRank < 0)
    BY <1>2
  <1>5. Settled(req) => \/ srvPc = "idle" \/ (Stranded /\ srvReq = req) \/ ctlPc = "hung"
                        \/ ctlPc = "panic"
                        \/ srvPc = "reply" \/ (srvPc = "wait" /\ Cleared)
    BY DEF Settled, At
  <1> QED
    BY <1>1, <1>3, <1>4, <1>5, ClearedAnswers, PanicEnds, PTL DEF WaitFalls, WaitConcludes

(* The server task comes back from every request, except in three ways: no *)
(* connection, a client that vanishes, a control task that hangs.          *)
THEOREM HandlersReturn == FairSpec /\ []TasksCanStep => HandlerReturns
  <1> DEFINE Assigning == srvPc = "assign" /\ ctlPc # "panic"
             Filling == srvPc = "fill" /\ ctlPc # "panic"
  <1>1. LiveInv /\ Assigning /\ [Next]_vars
          => Assigning' \/ (srvPc = "wait")' \/ (srvPc = "idle")' \/ (ctlPc = "panic")'
    BY HandlerMoves
  <1>2. LiveInv /\ Assigning /\ <<Handler>>_vars => (srvPc = "wait")' \/ (srvPc = "idle")'
    BY DEF Handler, HandlerStep, SshCommandAssigned, UploadReceived, WaitEnds, Answer,
           SrvReset, Enter
  <1>3. LiveInv /\ Filling /\ [Next]_vars
          => \/ Filling' \/ (srvPc = "wait")'
             \/ (srvPc \in {"idle", "stuck"})' \/ (ctlPc = "panic")'
    BY HandlerMoves
  <1>4. LiveInv /\ Filling /\ <<Handler>>_vars => (srvPc = "wait")'
    BY DEF Handler, HandlerStep, SshCommandAssigned, UploadReceived, WaitEnds, Answer, Enter
  <1>5. TasksCanStep /\ (Assigning \/ Filling) => ENABLED <<Handler>>_vars
    BY DEF TasksCanStep
  <1>6. LiveInv /\ srvPc # "idle"
          => \/ Assigning \/ Filling \/ srvPc = "wait" \/ srvPc = "reply"
             \/ srvPc \in {"idle", "stuck"} \/ ctlPc = "panic"
    BY DEF LiveInv, IndInv, TypeOK, SrvTypeOK, SrvSteps
  <1>7. LiveInv /\ srvPc = "wait"
          => At("wait", "post") \/ At("wait", "upload") \/ At("wait", "scp") \/ At("wait", "status")
    BY DEF LiveInv, Waited, At
  <1>8. /\ WaitConcludes("post") /\ WaitConcludes("upload")
        /\ WaitConcludes("scp") /\ WaitConcludes("status")
    BY WaitsConclude DEF Waited
  <1>9. srvPc = "idle" => srvPc \in {"idle", "stuck"}
    OBVIOUS
  <1> QED
    BY <1>1, <1>2, <1>3, <1>4, <1>5, <1>6, <1>7, <1>8, <1>9, ClearedAnswers, PanicEnds,
       LiveInvariance, PTL DEF FairSpec, Spec, WaitConcludes, HandlerReturns

(* "Make the server async" holds as long as none of the three happens.     *)
THEOREM ServesUnlessLost ==
  /\ FairSpec /\ []TasksCanStep
  /\ []~(srvPc = "stuck" \/ Stranded \/ ctlPc = "hung")
  => ServerKeepsServing
  <1>1. /\ srvPc = "idle" \/ srvPc # "idle"
        /\ srvPc \in {"idle", "stuck"} => srvPc = "idle" \/ srvPc = "stuck"
    OBVIOUS
  <1> QED
    BY <1>1, HandlersReturn, PTL DEF HandlerReturns, ServerKeepsServing

(* With peers that stall neither a login nor a transfer, ex_main() hangs   *)
(* nowhere.                                                                *)
LEMMA NeverHung ==
  ASSUME ~PeerMayStall
  PROVE  Spec => []~(ctlPc = "hung")
  <1>1. Init => ~(ctlPc = "hung")
    BY DEF Init, CtlInit
  <1>2. ~(ctlPc = "hung") /\ [Next]_vars => ~(ctlPc = "hung")'
    <2> SUFFICES ASSUME ctlPc # "hung", [Next]_vars PROVE ctlPc' # "hung"
      OBVIOUS
    <2>1. CASE Control
      BY <2>1 DEF Control, ControlStep, Boot, CallNeverReturns, CheckSwitch,
           SwitchTeardown, SwitchIndex,
           SwitchConnect, SwitchClear, CheckSsh, SshWrite, SshClear, CheckUpload,
           ScpWriteBegin, ScpWriteEnd, UploadClear, CheckScp, ScpReadOpen, ScpReadData,
           ScpClear, CheckStatus, StatusExec, StatusReconnect, StatusClear,
           ConnectCurrent, LoginNeverEnds, Goto
    <2>2. CASE Server
      BY <2>2 DEF Server, ctlVars
    <2>3. CASE Reboot
      BY <2>3 DEF Reboot, CtlReset
    <2> QED
      BY <2>1, <2>2, <2>3 DEF Next, vars, ctlVars
  <1> QED
    BY <1>1, <1>2, PTL DEF Spec

(* handleSSHStatus1 is answered, connected or not, whatever else waits.    *)
THEOREM StatusIsAnswered ==
  ASSUME ~PeerMayStall
  PROVE  FairSpec /\ []TasksCanStep => StatusAnswered
  <1>1. WaitConcludes("status")
    BY WaitsConclude DEF Waited
  <1>2. ~(Stranded /\ srvReq = "status")
    BY DEF Stranded
  <1>3. Spec => []~(ctlPc = "hung")
    BY NeverHung
  <1> QED
    BY <1>1, <1>2, <1>3, PTL DEF FairSpec, WaitConcludes, StatusAnswered

-----------------------------------------------------------------------------
(* A stranded handler stays so until a reset.                              *)
LEMMA StrandedStays ==
  ASSUME LiveInv, [Next]_vars, Stranded, ~Reboot
  PROVE  Stranded'
  <1>1. ~Server
    BY DEF Stranded, Server, ServerStep, Arrival, HandlerStep, SwitchSsh, OnMessage,
           HandleTerminalPost, HandleScp, HandleUpload, HandleSshStatus1,
           SshCommandAssigned, UploadReceived, WaitEnds, Answer, BodyNeverEnds
  <1>2. ~hp_1_status_req
    BY DEF Stranded, LiveInv, IndInv, StatusHandOver, At
  <1>3. ASSUME Control PROVE Stranded'
    <2>1. CASE CheckSwitch \/ CheckSsh \/ CheckUpload \/ CheckScp \/ CheckStatus
      BY <2>1, <1>2, <1>3 DEF Control, CheckSwitch, CheckSsh, CheckUpload, CheckScp,
           CheckStatus, Stranded, Connected, Goto, Cleared, mailVars, sshBox, uploadBox,
           scpBox, statusBox, sshVars, srvVars
    <2>2. CASE ~(CheckSwitch \/ CheckSsh \/ CheckUpload \/ CheckScp \/ CheckStatus)
      BY <2>2, <1>3 DEF Control, ControlStep, Boot, CallNeverReturns, SwitchTeardown,
           SwitchIndex, Connected,
           SwitchConnect, SwitchClear, SshWrite, SshClear, ScpWriteBegin, ScpWriteEnd,
           UploadClear, ScpReadOpen, ScpReadData, ScpClear, StatusExec, StatusReconnect,
           StatusClear, Stranded
    <2> QED
      BY <2>1, <2>2
  <1>4. ASSUME UNCHANGED vars PROVE Stranded'
    BY <1>4 DEF vars, mailVars, sshBox, uploadBox, scpBox, statusBox, sshVars, ctlVars,
                srvVars, Stranded, Connected, Cleared
  <1> QED
    BY <1>1, <1>3, <1>4 DEF Next

(* Nothing but a reset frees a handler that waits without a connection.    *)
THEOREM StrandedHandlersStay == Spec => StrandedForGood
  <1>1. LiveInv /\ [Next]_vars => [Stranded /\ ~Reboot => Stranded']_vars
    BY StrandedStays
  <1> QED
    BY <1>1, LiveInvariance, PTL DEF Spec, StrandedForGood

(* And on a board that keeps its power there is no reset: a stranded       *)
(* control task does nothing that can panic.                               *)
THEOREM StrandedForEver ==
  ASSUME ~PowerMayFail
  PROVE  Spec => [](Stranded => []Stranded)
  <1>1. LiveInv /\ Stranded /\ [Next]_vars => Stranded'
    BY StrandedStays DEF Reboot, Stranded
  <1> QED
    BY <1>1, LiveInvariance, PTL DEF Spec

-----------------------------------------------------------------------------
(* The pass through the loop goes on or begins anew.                       *)
LEMMA LoopStep ==
  ASSUME Control
  PROVE  ctlPc' \in {"poll", "hung", "panic"} \/ LoopPos' < LoopPos
  BY DEF Control, ControlStep, Boot, CallNeverReturns, CheckSwitch,
           SwitchTeardown, SwitchIndex,
         SwitchConnect, SwitchClear, CheckSsh, SshWrite, SshClear, CheckUpload,
         ScpWriteBegin, ScpWriteEnd, UploadClear, CheckScp, ScpReadOpen, ScpReadData,
         ScpClear, CheckStatus, StatusExec, StatusReconnect, StatusClear,
         ConnectCurrent, Goto, LoopPos

(* Between two passes.                                                     *)
UnderWay == ctlPc \notin {"poll", "hung", "panic"}

LoopFalls(i, k) ==
    FairSpec /\ []TasksCanStep
      => ((UnderWay /\ LoopPos < i) ~> ((UnderWay /\ LoopPos < k) \/ ~UnderWay))

LEMMA LoopComesNearer ==
  ASSUME ~PowerMayFail
  PROVE  \A k \in Nat : LoopFalls(k + 1, k)
  <1> SUFFICES ASSUME NEW k \in Nat PROVE LoopFalls(k + 1, k)
    OBVIOUS
  <1> DEFINE Here == UnderWay /\ LoopPos = k
             Below == UnderWay /\ LoopPos < k
  <1>1. UnderWay /\ LoopPos < k + 1 => Here \/ Below
    <2>1. LoopPos \in Nat
      BY DEF LoopPos
    <2> QED
      BY <2>1
  <1>2. Here /\ [Next]_vars => Here' \/ Below' \/ ~UnderWay'
    <2>1. ASSUME UNCHANGED ctlVars PROVE UNCHANGED <<UnderWay, LoopPos>>
      BY <2>1 DEF ctlVars, UnderWay, LoopPos
    <2> QED
      BY <2>1, LoopStep DEF Next, Server, Reboot, vars, UnderWay
  <1>3. Here /\ <<Control>>_vars => Below' \/ ~UnderWay'
    BY LoopStep DEF UnderWay
  <1>4. TasksCanStep /\ Here => ENABLED <<Control>>_vars
    BY DEF TasksCanStep, UnderWay
  <1> QED
    BY <1>1, <1>2, <1>3, <1>4, PTL DEF FairSpec, Spec, LoopFalls

LEMMA LoopFallsOn ==
  \A i, j, k \in Nat : LoopFalls(i, j) /\ LoopFalls(j, k) => LoopFalls(i, k)
  <1> SUFFICES ASSUME NEW i \in Nat, NEW j \in Nat, NEW k \in Nat
               PROVE  LoopFalls(i, j) /\ LoopFalls(j, k) => LoopFalls(i, k)
    OBVIOUS
  <1> QED
    BY PTL DEF LoopFalls

(* ex_main() comes back to its mailboxes again and again, whatever arrives *)
(* there and whatever the other end answers, if it answers at all.         *)
THEOREM LoopComesRound ==
  ASSUME ~PowerMayFail, ~PeerMayStall
  PROVE  FairSpec /\ []TasksCanStep => []<>(ctlPc = "poll")
  <1>1. \A k \in Nat : LoopFalls(k + 1, k)
    BY LoopComesNearer
  <1>2. \A k \in Nat : LoopFalls(k + 2, k)
    BY <1>1, LoopFallsOn
  <1>3. \A k \in Nat : LoopFalls(k + 4, k)
    BY <1>2, LoopFallsOn
  <1>4. \A k \in Nat : LoopFalls(k + 8, k)
    BY <1>3, LoopFallsOn
  <1>5. LoopFalls(24, 16) /\ LoopFalls(16, 8) /\ LoopFalls(8, 0)
    BY <1>4
  <1>6. LoopFalls(24, 0)
    BY <1>5, LoopFallsOn
  <1>7. /\ UnderWay => UnderWay /\ LoopPos < 24
        /\ ~(UnderWay /\ LoopPos < 0)
    BY DEF LoopPos
  <1>8. ~UnderWay => ctlPc = "poll" \/ ctlPc = "hung" \/ ctlPc = "panic"
    BY DEF UnderWay
  <1>9. Spec => []~(ctlPc = "hung")
    BY NeverHung
  <1>10. ASSUME Control
         PROVE  ctlPc # "panic" /\ (ctlPc = "boot" => ctlPc' \in {"poll", "hung"})
    BY <1>10 DEF Control, ControlStep, Boot, CallNeverReturns, CheckSwitch,
           SwitchTeardown, SwitchIndex,
           SwitchConnect, SwitchClear, CheckSsh, SshWrite, SshClear, CheckUpload,
           ScpWriteBegin, ScpWriteEnd, UploadClear, CheckScp, ScpReadOpen, ScpReadData,
           ScpClear, CheckStatus, StatusExec, StatusReconnect, StatusClear,
           ConnectCurrent, Goto
  <1>11. /\ ctlPc = "panic" /\ [Next]_vars => (ctlPc = "panic")' \/ (ctlPc = "boot")'
         /\ ctlPc = "boot" /\ [Next]_vars
              => (ctlPc = "boot")' \/ (ctlPc = "poll")' \/ (ctlPc = "hung")'
    BY <1>10 DEF Next, Server, Reboot, CtlReset, vars, ctlVars
  <1>12. /\ <<Recover>>_vars => (ctlPc = "boot")'
         /\ ctlPc = "boot" /\ <<Control>>_vars => (ctlPc = "poll")' \/ (ctlPc = "hung")'
    BY <1>10 DEF Recover, Reboot, CtlReset
  <1>13. /\ TasksCanStep /\ ctlPc = "panic" => ENABLED <<Recover>>_vars
         /\ TasksCanStep /\ ctlPc = "boot" => ENABLED <<Control>>_vars
    BY DEF TasksCanStep
  <1> QED
    BY <1>6, <1>7, <1>8, <1>9, <1>11, <1>12, <1>13, PTL DEF FairSpec, Spec, LoopFalls

-----------------------------------------------------------------------------
(* The steps a requested switch is from having been carried out: the rest  *)
(* of the current pass, and the first branch of the next.                  *)
SwitchRank ==
    IF ctlPc \in {"poll", "teardown", "index", "swConnect", "swClear"}
    THEN LoopPos ELSE LoopPos + 20

Requested == switch_ssh # Empty /\ ~Down /\ ctlPc \notin {"hung", "panic"}
Taken == switch_ssh = Empty \/ Down \/ ctlPc = "hung" \/ ctlPc = "panic"

LEMMA SwitchDescends ==
  ASSUME Requested, Control
  PROVE  SwitchRank' < SwitchRank \/ Taken'
  <1>1. ctlPc = "poll" => Connected
    BY DEF Requested, Down
  <1> QED
    BY <1>1 DEF Requested, Taken, SwitchRank, LoopPos, Goto, Control, ControlStep, Boot,
         CallNeverReturns, CheckSwitch, SwitchTeardown, SwitchIndex, SwitchConnect, SwitchClear, CheckSsh,
         SshWrite, SshClear, CheckUpload, ScpWriteBegin, ScpWriteEnd, UploadClear,
         CheckScp, ScpReadOpen, ScpReadData, ScpClear, CheckStatus, StatusExec,
         StatusReconnect, StatusClear, ConnectCurrent

LEMMA OthersKeepSwitch ==
  ASSUME Requested, [Next]_vars, ~Control
  PROVE  (Requested' /\ SwitchRank' = SwitchRank) \/ Taken'
  <1>1. ASSUME UNCHANGED <<ctlVars, sshVars>>, switch_ssh' # Empty
        PROVE  Requested' /\ SwitchRank' = SwitchRank
    BY <1>1 DEF ctlVars, sshVars, Requested, Down, Connected, SwitchRank, LoopPos
  <1>2. ASSUME Server PROVE switch_ssh' # Empty /\ UNCHANGED <<ctlVars, sshVars>>
    BY <1>2 DEF Requested, Server, ServerStep, Arrival, HandlerStep, SwitchSsh, OnMessage,
           HandleTerminalPost, HandleScp, HandleUpload, HandleSshStatus1,
           SshCommandAssigned, UploadReceived, WaitEnds, Answer, BodyNeverEnds,
           mailVars, switchBox, Switches, Empty
  <1>3. ASSUME Reboot PROVE Taken'
    BY <1>3 DEF Reboot, MailReset, Taken
  <1>4. ASSUME UNCHANGED vars PROVE switch_ssh' # Empty /\ UNCHANGED <<ctlVars, sshVars>>
    BY <1>4 DEF vars, mailVars, switchBox, Requested
  <1> QED
    BY <1>1, <1>2, <1>3, <1>4 DEF Next

SwitchFalls(i, k) ==
    FairSpec /\ []TasksCanStep
      => ((Requested /\ SwitchRank < i) ~> ((Requested /\ SwitchRank < k) \/ Taken))

LEMMA SwitchComesNearer == \A k \in Nat : SwitchFalls(k + 1, k)
  <1> SUFFICES ASSUME NEW k \in Nat PROVE SwitchFalls(k + 1, k)
    OBVIOUS
  <1> DEFINE Here == Requested /\ SwitchRank = k
             Below == Requested /\ SwitchRank < k
  <1>1. Requested /\ SwitchRank < k + 1 => Here \/ Below
    <2>1. SwitchRank \in Nat
      BY DEF SwitchRank, LoopPos
    <2> QED
      BY <2>1
  <1>2. Requested' \/ Taken'
    BY DEF Requested, Taken
  <1>3. Here /\ [Next]_vars => Here' \/ Below' \/ Taken'
    BY <1>2, SwitchDescends, OthersKeepSwitch
  <1>4. Here /\ <<Control>>_vars => Below' \/ Taken'
    BY <1>2, SwitchDescends
  <1>5. TasksCanStep /\ Here => ENABLED <<Control>>_vars
    BY DEF TasksCanStep, Requested
  <1> QED
    BY <1>1, <1>3, <1>4, <1>5, PTL DEF FairSpec, Spec, SwitchFalls

LEMMA SwitchFallsOn ==
  \A i, j, k \in Nat : SwitchFalls(i, j) /\ SwitchFalls(j, k) => SwitchFalls(i, k)
  <1> SUFFICES ASSUME NEW i \in Nat, NEW j \in Nat, NEW k \in Nat
               PROVE  SwitchFalls(i, j) /\ SwitchFalls(j, k) => SwitchFalls(i, k)
    OBVIOUS
  <1> QED
    BY PTL DEF SwitchFalls

(* The mailbox of a requested switch is emptied while there is a           *)
(* connection.                                                             *)
LEMMA SwitchesTakenUp ==
  ASSUME ~PeerMayStall
  PROVE  FairSpec /\ []TasksCanStep => (switch_ssh # Empty ~> (switch_ssh = Empty \/ Down))
  <1>1. \A k \in Nat : SwitchFalls(k + 1, k)
    BY SwitchComesNearer
  <1>2. \A k \in Nat : SwitchFalls(k + 2, k)
    BY <1>1, SwitchFallsOn
  <1>3. \A k \in Nat : SwitchFalls(k + 4, k)
    BY <1>2, SwitchFallsOn
  <1>4. \A k \in Nat : SwitchFalls(k + 8, k)
    BY <1>3, SwitchFallsOn
  <1>5. \A k \in Nat : SwitchFalls(k + 16, k)
    BY <1>4, SwitchFallsOn
  <1>6. SwitchFalls(48, 32) /\ SwitchFalls(32, 16) /\ SwitchFalls(16, 0)
    BY <1>5
  <1>7. SwitchFalls(48, 0)
    BY <1>6, SwitchFallsOn
  <1>8. /\ switch_ssh # Empty => (Requested /\ SwitchRank < 48) \/ Taken
        /\ ~(Requested /\ SwitchRank < 0)
    BY DEF Requested, Taken, SwitchRank, LoopPos
  <1>9. Spec => []~(ctlPc = "hung")
    BY NeverHung
  <1>10. Taken => switch_ssh = Empty \/ Down \/ ctlPc = "hung" \/ ctlPc = "panic"
    BY DEF Taken
  <1> QED
    BY <1>7, <1>8, <1>9, <1>10, PanicEnds, PTL DEF FairSpec, SwitchFalls

-----------------------------------------------------------------------------
(* That it is emptied does not yet say that the machine asked for is the   *)
(* one connected.  A request that switch_ssh still holds when ex_main()    *)
(* reads it, and where that leads.                                         *)
Asks(text) ==
    /\ switch_ssh = text /\ ~Down
    /\ ctlPc \notin {"swConnect", "swClear", "hung", "panic"}
Met(text) ==
    \/ ctlPc = "swConnect" /\ current = ToInt(text)
    \/ Down
    \/ switch_ssh \notin {text, Empty}
    \/ ctlPc \in {"hung", "panic"}

(* A panic finds the connection down: it comes of a failed status check.   *)
LEMMA PanicIsDown == Spec => [](ctlPc = "panic" => Down)
  <1> DEFINE Known == ctlPc = "panic" => ~Connected
  <1>1. Init => Known
    BY DEF Init, CtlInit
  <1>2. IndInv /\ Known /\ [Next]_vars => Known'
    <2> SUFFICES ASSUME IndInv, Known, [Next]_vars, ctlPc' = "panic" PROVE ~Connected'
      OBVIOUS
    <2>1. ASSUME UNCHANGED <<ctlVars, sshVars>> PROVE ~Connected'
      BY <2>1 DEF ctlVars, sshVars, Connected
    <2>2. ASSUME Control PROVE StatusReconnect
      BY <2>2 DEF Control, ControlStep, Boot, CallNeverReturns, CheckSwitch,
           SwitchTeardown, SwitchIndex, SwitchConnect, SwitchClear, CheckSsh, SshWrite,
           SshClear, CheckUpload, ScpWriteBegin, ScpWriteEnd, UploadClear, CheckScp,
           ScpReadOpen, ScpReadData, ScpClear, CheckStatus, StatusExec, StatusClear,
           ConnectCurrent, Goto
    <2>3. ASSUME StatusReconnect PROVE UNCHANGED <<conn, current>> /\ ~Connected
      BY <2>3 DEF StatusReconnect, ConnectCurrent, Goto, IndInv, SessionDiscipline
    <2>4. ASSUME Reboot PROVE FALSE
      BY <2>4 DEF Reboot, CtlReset
    <2> QED
      BY <2>1, <2>2, <2>3, <2>4 DEF Next, Server, vars, Connected
  <1>3. Known => (ctlPc = "panic" => Down)
    BY DEF Down
  <1> QED
    BY <1>1, <1>2, <1>3, Invariance, PTL DEF Spec

(* Nothing but ex_main()'s reading of it takes a request out of switch_ssh *)
(* before its machine is the current one.                                  *)
LEMMA AskedStays ==
  ASSUME NEW text \in Switches, Asks(text), [Next]_vars
  PROVE  /\ Asks(text)' \/ Met(text)'
         /\ Control => SwitchRank' < SwitchRank \/ Met(text)'
         /\ ~Control => SwitchRank' = SwitchRank \/ Met(text)'
  <1>0. text # Empty /\ Requested
    BY DEF Asks, Requested, Switches, Empty
  <1>1. CASE Control
    <2>1. UNCHANGED switch_ssh
      BY <1>1 DEF Asks, Control, ControlStep, Boot, CallNeverReturns, CheckSwitch,
           SwitchTeardown, SwitchIndex, SwitchConnect, SwitchClear, CheckSsh, SshWrite,
           SshClear, CheckUpload, ScpWriteBegin, ScpWriteEnd, UploadClear, CheckScp,
           ScpReadOpen, ScpReadData, ScpClear, CheckStatus, StatusExec, StatusReconnect,
           StatusClear, mailVars, switchBox
    <2>2. ctlPc' \in {"swConnect", "swClear"} => SwitchIndex
      BY <1>1 DEF Asks, Control, ControlStep, Boot, CallNeverReturns, CheckSwitch,
           SwitchTeardown, SwitchIndex, SwitchConnect, SwitchClear, CheckSsh, SshWrite,
           SshClear, CheckUpload, ScpWriteBegin, ScpWriteEnd, UploadClear, CheckScp,
           ScpReadOpen, ScpReadData, ScpClear, CheckStatus, StatusExec, StatusReconnect,
           StatusClear, ConnectCurrent, Goto
    <2>3. SwitchIndex => Met(text)'
      BY DEF SwitchIndex, Asks, Met, Goto
    <2>4. Taken' => Met(text)'
      BY <1>0, <2>1 DEF Taken, Met, Asks
    <2>5. Asks(text)' \/ Met(text)'
      BY <2>1, <2>2, <2>3 DEF Asks, Met
    <2> QED
      BY <1>0, <1>1, <2>4, <2>5, SwitchDescends
  <1>2. CASE Reboot
    <2>1. Down'
      BY <1>2, MachinesAssumption DEF Reboot, SshReset, CtlReset, Down, Connected, Servers
    <2> QED
      BY <2>1 DEF Met
  <1>3. CASE ~Control /\ ~Reboot
    <2>1. UNCHANGED <<ctlVars, sshVars>> /\ switch_ssh' # Empty
      BY <1>0, <1>3 DEF Next, Requested, Server, ServerStep, Arrival, HandlerStep,
           SwitchSsh, OnMessage, HandleTerminalPost, HandleScp, HandleUpload,
           HandleSshStatus1, SshCommandAssigned, UploadReceived, WaitEnds, Answer,
           BodyNeverEnds, vars, mailVars, switchBox, Switches, Empty
    <2>2. SwitchRank' = SwitchRank
      BY <2>1 DEF ctlVars, SwitchRank, LoopPos
    <2>3. Asks(text)' \/ Met(text)'
      BY <2>1 DEF Asks, Met, Down, Connected, ctlVars, sshVars
    <2> QED
      BY <1>3, <2>2, <2>3
  <1> QED
    BY <1>1, <1>2, <1>3

AskFalls(text, i, k) ==
    FairSpec /\ []TasksCanStep
      => ((Asks(text) /\ SwitchRank < i) ~> ((Asks(text) /\ SwitchRank < k) \/ Met(text)))

LEMMA AskComesNearer == \A text \in Switches, k \in Nat : AskFalls(text, k + 1, k)
  <1> SUFFICES ASSUME NEW text \in Switches, NEW k \in Nat PROVE AskFalls(text, k + 1, k)
    OBVIOUS
  <1> DEFINE Here == Asks(text) /\ SwitchRank = k
             Below == Asks(text) /\ SwitchRank < k
  <1>1. Asks(text) /\ SwitchRank < k + 1 => Here \/ Below
    <2>1. SwitchRank \in Nat
      BY DEF SwitchRank, LoopPos
    <2> QED
      BY <2>1
  <1>2. Here /\ [Next]_vars => Here' \/ Below' \/ Met(text)'
    BY AskedStays
  <1>3. Here /\ [Next]_vars /\ <<Control>>_vars => Below' \/ Met(text)'
    BY AskedStays
  <1>4. TasksCanStep /\ Here => ENABLED <<Control>>_vars
    BY DEF TasksCanStep, Asks
  <1> QED
    BY <1>1, <1>2, <1>3, <1>4, PTL DEF FairSpec, Spec, AskFalls

LEMMA AskFallsOn ==
  \A text \in Switches, i, j, k \in Nat :
     AskFalls(text, i, j) /\ AskFalls(text, j, k) => AskFalls(text, i, k)
  <1> SUFFICES ASSUME NEW text \in Switches, NEW i \in Nat, NEW j \in Nat, NEW k \in Nat
               PROVE  AskFalls(text, i, j) /\ AskFalls(text, j, k) => AskFalls(text, i, k)
    OBVIOUS
  <1> QED
    BY PTL DEF AskFalls

LEMMA AsksAreMet ==
  ASSUME ~PeerMayStall, NEW text \in Switches
  PROVE  FairSpec /\ []TasksCanStep => CarriedOut(text)
  <1>1. \A k \in Nat : AskFalls(text, k + 1, k)
    BY AskComesNearer
  <1>2. \A k \in Nat : AskFalls(text, k + 2, k)
    BY <1>1, AskFallsOn
  <1>3. \A k \in Nat : AskFalls(text, k + 4, k)
    BY <1>2, AskFallsOn
  <1>4. \A k \in Nat : AskFalls(text, k + 8, k)
    BY <1>3, AskFallsOn
  <1>5. \A k \in Nat : AskFalls(text, k + 16, k)
    BY <1>4, AskFallsOn
  <1>6. AskFalls(text, 48, 32) /\ AskFalls(text, 32, 16) /\ AskFalls(text, 16, 0)
    BY <1>5
  <1>7. AskFalls(text, 48, 0)
    BY <1>6, AskFallsOn
  <1>8. /\ (switch_ssh = text /\ ctlPc \notin {"swConnect", "swClear"})
              => (Asks(text) /\ SwitchRank < 48) \/ Met(text)
        /\ ~(Asks(text) /\ SwitchRank < 0)
    BY DEF Asks, Met, SwitchRank, LoopPos
  <1>9. Spec => []~(ctlPc = "hung")
    BY NeverHung
  <1>10. Met(text) => \/ (ctlPc = "swConnect" /\ current = ToInt(text)) \/ Down
                      \/ switch_ssh \notin {text, Empty} \/ ctlPc = "hung" \/ ctlPc = "panic"
    BY DEF Met
  <1> QED
    BY <1>7, <1>8, <1>9, <1>10, PanicIsDown, PTL DEF FairSpec, AskFalls, CarriedOut

(* switchSsh0 and switchSsh1, whose answer does not wait for it, are       *)
(* carried out while there is a connection: ex_main() goes to connect to   *)
(* the machine asked for, unless a later request takes the mailbox first.  *)
THEOREM SwitchesCarriedOut ==
  ASSUME ~PeerMayStall
  PROVE  FairSpec /\ []TasksCanStep => SwitchCarriedOut
  <1>1. \A text \in Switches : (FairSpec /\ []TasksCanStep => CarriedOut(text))
    BY AsksAreMet
  <1>2. FairSpec /\ []TasksCanStep => \A text \in Switches : CarriedOut(text)
    BY <1>1
  <1> QED
    BY <1>2, SwitchesTakenUp DEF SwitchCarriedOut
==============================================================================
