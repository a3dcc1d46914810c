---------------------------- MODULE BridgeProofs -----------------------------
(***************************************************************************)
(* The safety properties of Bridge hold for any number of machines and any *)
(* sets of shell inputs and paths, whatever the environment may do.        *)
(***************************************************************************)
EXTENDS Bridge, TLAPS

(* The conjuncts of IndInv about the ssh_conn objects, and those about the *)
(* mailboxes.                                                              *)
SshPart == HandlesConsistent /\ LibraryBalanced /\ SessionDiscipline
MailPart ==
    /\ ArgumentsFit
    /\ UploadHandOver
    /\ ScpHandOver
    /\ StatusHandOver
    /\ DownloadOwned

(* connect() ends without a session or with a session, a channel and the   *)
(* library initialised once more.                                          *)
LEMMA ConnectOutcomes ==
  ASSUME NEW from \in [session : {"wild", "null"}, channel : {"wild", "null"}, begun : {1}],
         NEW o \in Connect(from)
  PROVE  \/ o.session = "null" /\ o.channel \in {"wild", "null"} /\ o.begun = 1
         \/ o.session = "live" /\ o.channel = "live" /\ o.begun = 2
<1>1. CASE o = Refused(from)
  BY <1>1 DEF Refused
<1>2. CASE o = Opened(from)
  BY <1>2 DEF Opened
<1>3. CASE o = BrutalException(Opened(from))
  <2>1. Opened(from).session = "live" /\ Opened(from).begun = 2
    BY DEF Opened
  <2>2. QED
    BY <1>3, <2>1 DEF BrutalException
<1>4. QED
  BY <1>1, <1>2, <1>3 DEF Connect

(* Connecting the current machine when it has no session and is marked     *)
(* down keeps the objects consistent and the library balanced, unless the  *)
(* login never ends.                                                       *)
LEMMA ConnectSound ==
  ASSUME SshTypeOK, HandlesConsistent, ~conn[current],
         NEW from \in [session : {"wild", "null"}, channel : {"wild", "null"}, begun : {1}],
         NEW next \in {"poll", "swClear", "statusClear"},
         ConnectCurrent(from, next), current' = current
  PROVE  /\ SshTypeOK' /\ HandlesConsistent'
         /\ \/ ctlPc' = "hung"
            \/ /\ ctlPc' = next
               /\ session'[current] \in {"null", "live"}
               /\ begun' = 1 + (IF session'[current] = "live" THEN 1 ELSE 0)
<1> USE DEF SshTypeOK, HandlesConsistent, Becomes, Handles, Goto
<1>1. CASE \E o \in Connect(from) :
              /\ Becomes(current, o)
              /\ conn' = [conn EXCEPT ![current] = o.channel = "live"]
              /\ Goto(next)
  <2>1. PICK o \in Connect(from) :
              /\ Becomes(current, o)
              /\ conn' = [conn EXCEPT ![current] = o.channel = "live"]
              /\ Goto(next)
    BY <1>1
  <2>2. \/ o.session = "null" /\ o.channel \in {"wild", "null"} /\ o.begun = 1
        \/ o.session = "live" /\ o.channel = "live" /\ o.begun = 2
    BY ConnectOutcomes
  <2>3. SshTypeOK'
    BY <2>1, <2>2
  <2>4. HandlesConsistent'
    BY <2>1, <2>2
  <2>5. /\ ctlPc' = next
        /\ session'[current] \in {"null", "live"}
        /\ begun' = 1 + (IF session'[current] = "live" THEN 1 ELSE 0)
    BY <2>1, <2>2
  <2>6. QED
    BY <2>3, <2>4, <2>5
<1>2. CASE /\ Becomes(current, [session |-> from.session, channel |-> from.channel,
                                begun |-> from.begun + 1])
           /\ UNCHANGED conn
           /\ Goto("hung")
  <2>1. SshTypeOK'
    BY <1>2
  <2>2. HandlesConsistent'
    BY <1>2
  <2>3. QED
    BY <1>2, <2>1, <2>2
<1>3. QED
  BY <1>1, <1>2 DEF ConnectCurrent

(* The state after power-on satisfies the inductive invariant.             *)
LEMMA InitInv == Init => IndInv
<1> SUFFICES ASSUME Init PROVE IndInv
  OBVIOUS
<1> USE MachinesAssumption
    DEF Init, MailInit, SshInit, CtlInit, SrvInit
<1>1. MailTypeOK
  BY DEF MailTypeOK, Uploads
<1>2. SshTypeOK /\ SshPart
  BY DEF SshTypeOK, Servers, Handles, SshPart, HandlesConsistent,
         LibraryBalanced, SessionDiscipline
<1>3. CtlTypeOK /\ SrvTypeOK
  BY DEF CtlTypeOK, SrvTypeOK, CtlSteps, SrvSteps, Requests
<1>4. MailPart
  BY DEF MailPart, ArgumentsFit, UploadHandOver, ScpHandOver,
         StatusHandOver, DownloadOwned
<1>5. QED
  BY <1>1, <1>2, <1>3, <1>4 DEF IndInv, TypeOK, SshPart, MailPart

(* No step of ex_main() breaks it.                                         *)
LEMMA ControlInv == ASSUME IndInv, Control PROVE IndInv'
<1> USE DEF mailVars, switchBox, sshBox, uploadBox, scpBox, statusBox,
            sshVars, srvVars, Goto, At, Connected
<1>0. UNCHANGED srvVars
  BY DEF Control
<1> USE <1>0
<1>1. CASE Boot
  <2>1. MailTypeOK'
    BY <1>1 DEF IndInv, TypeOK, MailTypeOK, Boot
  <2>a. /\ Object(current)
          \in [session : {"wild", "null"}, channel : {"wild", "null"}, begun : {1}]
       /\ ~conn[current]
    BY <1>1 DEF IndInv, TypeOK, SshTypeOK, Handles, HandlesConsistent,
         LibraryBalanced, SessionDiscipline, Object, BrutalException, Boot
  <2>b. /\ SshTypeOK' /\ HandlesConsistent'
       /\ \/ ctlPc' = "hung"
          \/ /\ ctlPc' = "poll"
             /\ session'[current] \in {"null", "live"}
             /\ begun' = 1 + (IF session'[current] = "live" THEN 1 ELSE 0)
    BY <1>1, <2>a, ConnectSound DEF IndInv, TypeOK, Boot
  <2>2. SshTypeOK'
    BY <2>b
  <2>3. SshPart'
    BY <1>1, <2>b DEF SshPart, LibraryBalanced, SessionDiscipline, Boot
  <2>4. CtlTypeOK' /\ SrvTypeOK'
    BY <1>1 DEF IndInv, TypeOK, MailTypeOK, CtlTypeOK, SrvTypeOK, CtlSteps,
         Boot, ConnectCurrent
  <2>5. MailPart'
    BY <1>1 DEF IndInv, TypeOK, MailTypeOK, MailPart, ArgumentsFit,
         UploadHandOver, ScpHandOver, StatusHandOver, DownloadOwned, Boot,
         ConnectCurrent
  <2>6. QED
    BY <2>1, <2>2, <2>3,  <2>4, <2>5 DEF IndInv, TypeOK, SshPart, MailPart
<1>2. CASE CheckSwitch
  <2>1. MailTypeOK'
    BY <1>2 DEF IndInv, TypeOK, MailTypeOK, CheckSwitch
  <2>2. SshTypeOK'
    BY <1>2 DEF IndInv, TypeOK, SshTypeOK, CheckSwitch
  <2>3. SshPart'
    BY <1>2 DEF IndInv, TypeOK, SshTypeOK, SshPart, HandlesConsistent,
         LibraryBalanced, SessionDiscipline, CheckSwitch
  <2>4. CtlTypeOK' /\ SrvTypeOK'
    BY <1>2 DEF IndInv, TypeOK, MailTypeOK, CtlTypeOK, SrvTypeOK, CtlSteps,
         CheckSwitch
  <2>5. MailPart'
    BY <1>2 DEF IndInv, TypeOK, MailTypeOK, MailPart, ArgumentsFit,
         UploadHandOver, ScpHandOver, StatusHandOver, DownloadOwned,
         CheckSwitch
  <2>6. QED
    BY <2>1, <2>2, <2>3,  <2>4, <2>5 DEF IndInv, TypeOK, SshPart, MailPart
<1>3. CASE SwitchTeardown
  <2>1. MailTypeOK'
    BY <1>3 DEF IndInv, TypeOK, MailTypeOK, SwitchTeardown, BrutalException,
         Object, Becomes
  <2>2. SshTypeOK'
    <3>1. /\ session' = [session EXCEPT ![current] = "null"]
          /\ channel' = [channel EXCEPT ![current] = "null"]
          /\ begun' \in Nat
          /\ conn' = [conn EXCEPT ![current] = FALSE]
      BY <1>3 DEF IndInv, TypeOK, SshTypeOK, SessionDiscipline,
           LibraryBalanced, Handles, SwitchTeardown, BrutalException, Object,
           Becomes
    <3>2. QED
      BY <1>3, <3>1 DEF IndInv, TypeOK, SshTypeOK, Handles, SwitchTeardown
  <2>3. SshPart'
    BY <1>3 DEF IndInv, TypeOK, SshTypeOK, SshPart, HandlesConsistent,
         LibraryBalanced, SessionDiscipline, Servers, Handles, SwitchTeardown,
         BrutalException, Object, Becomes
  <2>4. CtlTypeOK' /\ SrvTypeOK'
    BY <1>3 DEF IndInv, TypeOK, MailTypeOK, CtlTypeOK, SrvTypeOK, CtlSteps,
         SwitchTeardown, BrutalException, Object, Becomes
  <2>5. MailPart'
    BY <1>3 DEF IndInv, TypeOK, MailTypeOK, MailPart, ArgumentsFit,
         UploadHandOver, ScpHandOver, StatusHandOver, DownloadOwned,
         SwitchTeardown, BrutalException, Object, Becomes
  <2>6. QED
    BY <2>1, <2>2, <2>3,  <2>4, <2>5 DEF IndInv, TypeOK, SshPart, MailPart
<1>4. CASE SwitchIndex
  <2>1. MailTypeOK'
    BY <1>4 DEF IndInv, TypeOK, MailTypeOK, SwitchIndex, ToInt
  <2>2. SshTypeOK'
    BY <1>4, MachinesAssumption DEF IndInv, TypeOK, SshTypeOK, Servers,
         SwitchIndex, ToInt
  <2>3. SshPart'
    BY <1>4, MachinesAssumption DEF IndInv, TypeOK, SshTypeOK, SshPart,
         HandlesConsistent, LibraryBalanced, SessionDiscipline, Servers,
         Handles, SwitchIndex, ToInt
  <2>4. CtlTypeOK' /\ SrvTypeOK'
    BY <1>4 DEF IndInv, TypeOK, MailTypeOK, CtlTypeOK, SrvTypeOK, CtlSteps,
         SwitchIndex, ToInt
  <2>5. MailPart'
    BY <1>4 DEF IndInv, TypeOK, MailTypeOK, MailPart, ArgumentsFit,
         UploadHandOver, ScpHandOver, StatusHandOver, DownloadOwned,
         SwitchIndex, ToInt
  <2>6. QED
    BY <2>1, <2>2, <2>3,  <2>4, <2>5 DEF IndInv, TypeOK, SshPart, MailPart
<1>5. CASE SwitchConnect
  <2>1. MailTypeOK'
    BY <1>5 DEF IndInv, TypeOK, MailTypeOK, SwitchConnect
  <2>a. /\ Object(current)
          \in [session : {"wild", "null"}, channel : {"wild", "null"}, begun : {1}]
       /\ ~conn[current]
    BY <1>5 DEF IndInv, TypeOK, SshTypeOK, Handles, HandlesConsistent,
         LibraryBalanced, SessionDiscipline, Object, BrutalException,
         SwitchConnect
  <2>b. /\ SshTypeOK' /\ HandlesConsistent'
       /\ \/ ctlPc' = "hung"
          \/ /\ ctlPc' = "swClear"
             /\ session'[current] \in {"null", "live"}
             /\ begun' = 1 + (IF session'[current] = "live" THEN 1 ELSE 0)
    BY <1>5, <2>a, ConnectSound DEF IndInv, TypeOK, SwitchConnect
  <2>2. SshTypeOK'
    BY <2>b
  <2>3. SshPart'
    BY <1>5, <2>b DEF SshPart, LibraryBalanced, SessionDiscipline,
         SwitchConnect
  <2>4. CtlTypeOK' /\ SrvTypeOK'
    BY <1>5 DEF IndInv, TypeOK, MailTypeOK, CtlTypeOK, SrvTypeOK, CtlSteps,
         SwitchConnect, ConnectCurrent
  <2>5. MailPart'
    BY <1>5 DEF IndInv, TypeOK, MailTypeOK, MailPart, ArgumentsFit,
         UploadHandOver, ScpHandOver, StatusHandOver, DownloadOwned,
         SwitchConnect, ConnectCurrent
  <2>6. QED
    BY <2>1, <2>2, <2>3,  <2>4, <2>5 DEF IndInv, TypeOK, SshPart, MailPart
<1>6. CASE SwitchClear
  <2>1. MailTypeOK'
    BY <1>6 DEF IndInv, TypeOK, MailTypeOK, SwitchClear
  <2>2. SshTypeOK'
    BY <1>6 DEF IndInv, TypeOK, SshTypeOK, SwitchClear
  <2>3. SshPart'
    BY <1>6 DEF IndInv, TypeOK, SshTypeOK, SshPart, HandlesConsistent,
         LibraryBalanced, SessionDiscipline, SwitchClear
  <2>4. CtlTypeOK' /\ SrvTypeOK'
    BY <1>6 DEF IndInv, TypeOK, MailTypeOK, CtlTypeOK, SrvTypeOK, CtlSteps,
         SwitchClear
  <2>5. MailPart'
    BY <1>6 DEF IndInv, TypeOK, MailTypeOK, MailPart, ArgumentsFit,
         UploadHandOver, ScpHandOver, StatusHandOver, DownloadOwned,
         SwitchClear
  <2>6. QED
    BY <2>1, <2>2, <2>3,  <2>4, <2>5 DEF IndInv, TypeOK, SshPart, MailPart
<1>7. CASE CheckSsh
  <2>1. MailTypeOK'
    BY <1>7 DEF IndInv, TypeOK, MailTypeOK, CheckSsh, SshCommandSeen
  <2>2. SshTypeOK'
    BY <1>7 DEF IndInv, TypeOK, SshTypeOK, CheckSsh, SshCommandSeen
  <2>3. SshPart'
    BY <1>7 DEF IndInv, TypeOK, SshTypeOK, SshPart, HandlesConsistent,
         LibraryBalanced, SessionDiscipline, CheckSsh, SshCommandSeen
  <2>4. CtlTypeOK' /\ SrvTypeOK'
    BY <1>7 DEF IndInv, TypeOK, MailTypeOK, CtlTypeOK, SrvTypeOK, CtlSteps,
         CheckSsh, SshCommandSeen
  <2>5. MailPart'
    BY <1>7 DEF IndInv, TypeOK, MailTypeOK, MailPart, ArgumentsFit,
         UploadHandOver, ScpHandOver, StatusHandOver, DownloadOwned, CheckSsh,
         SshCommandSeen
  <2>6. QED
    BY <2>1, <2>2, <2>3,  <2>4, <2>5 DEF IndInv, TypeOK, SshPart, MailPart
<1>8. CASE SshWrite
  <2>1. MailTypeOK'
    BY <1>8 DEF IndInv, TypeOK, MailTypeOK, SshWrite, SshCommandSeen
  <2>2. SshTypeOK'
    BY <1>8 DEF IndInv, TypeOK, SshTypeOK, SshWrite, SshCommandSeen
  <2>3. SshPart'
    BY <1>8 DEF IndInv, TypeOK, SshTypeOK, SshPart, HandlesConsistent,
         LibraryBalanced, SessionDiscipline, SshWrite, SshCommandSeen
  <2>4. CtlTypeOK' /\ SrvTypeOK'
    BY <1>8 DEF IndInv, TypeOK, MailTypeOK, CtlTypeOK, SrvTypeOK, CtlSteps,
         SshWrite, SshCommandSeen
  <2>5. MailPart'
    BY <1>8 DEF IndInv, TypeOK, MailTypeOK, MailPart, ArgumentsFit,
         UploadHandOver, ScpHandOver, StatusHandOver, DownloadOwned, SshWrite,
         SshCommandSeen
  <2>6. QED
    BY <2>1, <2>2, <2>3,  <2>4, <2>5 DEF IndInv, TypeOK, SshPart, MailPart
<1>9. CASE SshClear
  <2>1. MailTypeOK'
    BY <1>9 DEF IndInv, TypeOK, MailTypeOK, SshClear
  <2>2. SshTypeOK'
    BY <1>9 DEF IndInv, TypeOK, SshTypeOK, SshClear
  <2>3. SshPart'
    BY <1>9 DEF IndInv, TypeOK, SshTypeOK, SshPart, HandlesConsistent,
         LibraryBalanced, SessionDiscipline, SshClear
  <2>4. CtlTypeOK' /\ SrvTypeOK'
    BY <1>9 DEF IndInv, TypeOK, MailTypeOK, CtlTypeOK, SrvTypeOK, CtlSteps,
         SshClear
  <2>5. MailPart'
    BY <1>9 DEF IndInv, TypeOK, MailTypeOK, MailPart, ArgumentsFit,
         UploadHandOver, ScpHandOver, StatusHandOver, DownloadOwned, SshClear
  <2>6. QED
    BY <2>1, <2>2, <2>3,  <2>4, <2>5 DEF IndInv, TypeOK, SshPart, MailPart
<1>10. CASE CheckUpload
  <2>1. MailTypeOK'
    BY <1>10 DEF IndInv, TypeOK, MailTypeOK, CheckUpload
  <2>2. SshTypeOK'
    BY <1>10 DEF IndInv, TypeOK, SshTypeOK, CheckUpload
  <2>3. SshPart'
    BY <1>10 DEF IndInv, TypeOK, SshTypeOK, SshPart, HandlesConsistent,
         LibraryBalanced, SessionDiscipline, CheckUpload
  <2>4. CtlTypeOK' /\ SrvTypeOK'
    BY <1>10 DEF IndInv, TypeOK, MailTypeOK, CtlTypeOK, SrvTypeOK, CtlSteps,
         CheckUpload
  <2>5. MailPart'
    BY <1>10 DEF IndInv, TypeOK, MailTypeOK, MailPart, ArgumentsFit,
         UploadHandOver, ScpHandOver, StatusHandOver, DownloadOwned,
         CheckUpload
  <2>6. QED
    BY <2>1, <2>2, <2>3,  <2>4, <2>5 DEF IndInv, TypeOK, SshPart, MailPart
<1>11. CASE ScpWriteBegin
  <2>1. MailTypeOK'
    BY <1>11 DEF IndInv, TypeOK, MailTypeOK, ScpWriteBegin
  <2>2. SshTypeOK'
    BY <1>11 DEF IndInv, TypeOK, SshTypeOK, ScpWriteBegin
  <2>3. SshPart'
    BY <1>11 DEF IndInv, TypeOK, SshTypeOK, SshPart, HandlesConsistent,
         LibraryBalanced, SessionDiscipline, ScpWriteBegin
  <2>4. CtlTypeOK' /\ SrvTypeOK'
    BY <1>11 DEF IndInv, TypeOK, MailTypeOK, CtlTypeOK, SrvTypeOK, CtlSteps,
         ScpWriteBegin
  <2>5. MailPart'
    BY <1>11 DEF IndInv, TypeOK, MailTypeOK, MailPart, ArgumentsFit,
         UploadHandOver, ScpHandOver, StatusHandOver, DownloadOwned,
         ScpWriteBegin
  <2>6. QED
    BY <2>1, <2>2, <2>3,  <2>4, <2>5 DEF IndInv, TypeOK, SshPart, MailPart
<1>12. CASE ScpWriteEnd
  <2>1. MailTypeOK'
    BY <1>12 DEF IndInv, TypeOK, MailTypeOK, ScpWriteEnd
  <2>2. SshTypeOK'
    BY <1>12 DEF IndInv, TypeOK, SshTypeOK, ScpWriteEnd
  <2>3. SshPart'
    BY <1>12 DEF IndInv, TypeOK, SshTypeOK, SshPart, HandlesConsistent,
         LibraryBalanced, SessionDiscipline, ScpWriteEnd
  <2>4. CtlTypeOK' /\ SrvTypeOK'
    BY <1>12 DEF IndInv, TypeOK, MailTypeOK, CtlTypeOK, SrvTypeOK, CtlSteps,
         ScpWriteEnd
  <2>5. MailPart'
    BY <1>12 DEF IndInv, TypeOK, MailTypeOK, MailPart, ArgumentsFit,
         UploadHandOver, ScpHandOver, StatusHandOver, DownloadOwned,
         ScpWriteEnd
  <2>6. QED
    BY <2>1, <2>2, <2>3,  <2>4, <2>5 DEF IndInv, TypeOK, SshPart, MailPart
<1>13. CASE UploadClear
  <2>1. MailTypeOK'
    BY <1>13 DEF IndInv, TypeOK, MailTypeOK, UploadClear
  <2>2. SshTypeOK'
    BY <1>13 DEF IndInv, TypeOK, SshTypeOK, UploadClear
  <2>3. SshPart'
    BY <1>13 DEF IndInv, TypeOK, SshTypeOK, SshPart, HandlesConsistent,
         LibraryBalanced, SessionDiscipline, UploadClear
  <2>4. CtlTypeOK' /\ SrvTypeOK'
    BY <1>13 DEF IndInv, TypeOK, MailTypeOK, CtlTypeOK, SrvTypeOK, CtlSteps,
         UploadClear
  <2>5. MailPart'
    BY <1>13 DEF IndInv, TypeOK, MailTypeOK, MailPart, ArgumentsFit,
         UploadHandOver, ScpHandOver, StatusHandOver, DownloadOwned,
         UploadClear
  <2>6. QED
    BY <2>1, <2>2, <2>3,  <2>4, <2>5 DEF IndInv, TypeOK, SshPart, MailPart
<1>14. CASE CheckScp
  <2>1. MailTypeOK'
    BY <1>14 DEF IndInv, TypeOK, MailTypeOK, CheckScp
  <2>2. SshTypeOK'
    BY <1>14 DEF IndInv, TypeOK, SshTypeOK, CheckScp
  <2>3. SshPart'
    BY <1>14 DEF IndInv, TypeOK, SshTypeOK, SshPart, HandlesConsistent,
         LibraryBalanced, SessionDiscipline, CheckScp
  <2>4. CtlTypeOK' /\ SrvTypeOK'
    BY <1>14 DEF IndInv, TypeOK, MailTypeOK, CtlTypeOK, SrvTypeOK, CtlSteps,
         CheckScp
  <2>5. MailPart'
    BY <1>14 DEF IndInv, TypeOK, MailTypeOK, MailPart, ArgumentsFit,
         UploadHandOver, ScpHandOver, StatusHandOver, DownloadOwned, CheckScp
  <2>6. QED
    BY <2>1, <2>2, <2>3,  <2>4, <2>5 DEF IndInv, TypeOK, SshPart, MailPart
<1>15. CASE ScpReadOpen
  <2>1. MailTypeOK'
    <3>1. dlWhole' \in BOOLEAN /\ dlLeft' \in BOOLEAN
      BY <1>15 DEF IndInv, TypeOK, MailTypeOK, ScpReadOpen
    <3>2. QED
      BY <1>15, <3>1 DEF IndInv, TypeOK, MailTypeOK, ScpReadOpen
  <2>2. SshTypeOK'
    BY <1>15 DEF IndInv, TypeOK, SshTypeOK, ScpReadOpen
  <2>3. SshPart'
    BY <1>15 DEF IndInv, TypeOK, SshTypeOK, SshPart, HandlesConsistent,
         LibraryBalanced, SessionDiscipline, ScpReadOpen
  <2>4. CtlTypeOK' /\ SrvTypeOK'
    BY <1>15 DEF IndInv, TypeOK, MailTypeOK, CtlTypeOK, SrvTypeOK, CtlSteps,
         ScpReadOpen
  <2>5. MailPart'
    BY <1>15 DEF IndInv, TypeOK, MailTypeOK, MailPart, ArgumentsFit,
         UploadHandOver, ScpHandOver, StatusHandOver, DownloadOwned,
         ScpReadOpen
  <2>6. QED
    BY <2>1, <2>2, <2>3,  <2>4, <2>5 DEF IndInv, TypeOK, SshPart, MailPart
<1>16. CASE ScpReadData
  <2>1. MailTypeOK'
    BY <1>16 DEF IndInv, TypeOK, MailTypeOK, ScpReadData
  <2>2. SshTypeOK'
    BY <1>16 DEF IndInv, TypeOK, SshTypeOK, ScpReadData
  <2>3. SshPart'
    BY <1>16 DEF IndInv, TypeOK, SshTypeOK, SshPart, HandlesConsistent,
         LibraryBalanced, SessionDiscipline, ScpReadData
  <2>4. CtlTypeOK' /\ SrvTypeOK'
    BY <1>16 DEF IndInv, TypeOK, MailTypeOK, CtlTypeOK, SrvTypeOK, CtlSteps,
         ScpReadData
  <2>5. MailPart'
    BY <1>16 DEF IndInv, TypeOK, MailTypeOK, MailPart, ArgumentsFit,
         UploadHandOver, ScpHandOver, StatusHandOver, DownloadOwned,
         ScpReadData
  <2>6. QED
    BY <2>1, <2>2, <2>3,  <2>4, <2>5 DEF IndInv, TypeOK, SshPart, MailPart
<1>17. CASE ScpClear
  <2>1. MailTypeOK'
    BY <1>17 DEF IndInv, TypeOK, MailTypeOK, ScpClear
  <2>2. SshTypeOK'
    BY <1>17 DEF IndInv, TypeOK, SshTypeOK, ScpClear
  <2>3. SshPart'
    BY <1>17 DEF IndInv, TypeOK, SshTypeOK, SshPart, HandlesConsistent,
         LibraryBalanced, SessionDiscipline, ScpClear
  <2>4. CtlTypeOK' /\ SrvTypeOK'
    BY <1>17 DEF IndInv, TypeOK, MailTypeOK, CtlTypeOK, SrvTypeOK, CtlSteps,
         ScpClear
  <2>5. MailPart'
    BY <1>17 DEF IndInv, TypeOK, MailTypeOK, MailPart, ArgumentsFit,
         UploadHandOver, ScpHandOver, StatusHandOver, DownloadOwned, ScpClear
  <2>6. QED
    BY <2>1, <2>2, <2>3,  <2>4, <2>5 DEF IndInv, TypeOK, SshPart, MailPart
<1>18. CASE CheckStatus
  <2>1. MailTypeOK'
    BY <1>18 DEF IndInv, TypeOK, MailTypeOK, CheckStatus
  <2>2. SshTypeOK'
    BY <1>18 DEF IndInv, TypeOK, SshTypeOK, CheckStatus
  <2>3. SshPart'
    BY <1>18 DEF IndInv, TypeOK, SshTypeOK, SshPart, HandlesConsistent,
         LibraryBalanced, SessionDiscipline, CheckStatus
  <2>4. CtlTypeOK' /\ SrvTypeOK'
    BY <1>18 DEF IndInv, TypeOK, MailTypeOK, CtlTypeOK, SrvTypeOK, CtlSteps,
         CheckStatus
  <2>5. MailPart'
    BY <1>18 DEF IndInv, TypeOK, MailTypeOK, MailPart, ArgumentsFit,
         UploadHandOver, ScpHandOver, StatusHandOver, DownloadOwned,
         CheckStatus
  <2>6. QED
    BY <2>1, <2>2, <2>3,  <2>4, <2>5 DEF IndInv, TypeOK, SshPart, MailPart
<1>19. CASE StatusExec
  <2>1. MailTypeOK'
    BY <1>19 DEF IndInv, TypeOK, MailTypeOK, StatusExec
  <2>2. SshTypeOK'
    BY <1>19 DEF IndInv, TypeOK, SshTypeOK, StatusExec
  <2>3. SshPart'
    BY <1>19 DEF IndInv, TypeOK, SshTypeOK, SshPart, HandlesConsistent,
         LibraryBalanced, SessionDiscipline, ExecAlive, StatusExec
  <2>4. CtlTypeOK' /\ SrvTypeOK'
    BY <1>19 DEF IndInv, TypeOK, MailTypeOK, CtlTypeOK, SrvTypeOK, CtlSteps,
         StatusExec
  <2>5. MailPart'
    BY <1>19 DEF IndInv, TypeOK, MailTypeOK, MailPart, ArgumentsFit,
         UploadHandOver, ScpHandOver, StatusHandOver, DownloadOwned,
         StatusExec
  <2>6. QED
    BY <2>1, <2>2, <2>3,  <2>4, <2>5 DEF IndInv, TypeOK, SshPart, MailPart
<1>20. CASE StatusReconnect
  <2>1. MailTypeOK'
    BY <1>20 DEF IndInv, TypeOK, MailTypeOK, StatusReconnect
  <2>2. SshTypeOK' /\ SshPart'
    <3>1. CASE ctlPc' = "panic" /\ UNCHANGED <<conn, session, channel, begun>>
      <4>1. SshTypeOK'
        BY <1>20, <3>1 DEF IndInv, TypeOK, SshTypeOK, StatusReconnect
      <4>2. SshPart'
        BY <1>20, <3>1 DEF IndInv, TypeOK, SshTypeOK, SshPart,
             HandlesConsistent, LibraryBalanced, SessionDiscipline,
             StatusReconnect
      <4>3. QED
        BY <4>1, <4>2
    <3>2. CASE ConnectCurrent(BrutalException(Object(current)), "statusClear")
      <4>1. /\ BrutalException(Object(current))
              \in [session : {"wild", "null"}, channel : {"wild", "null"}, begun : {1}]
           /\ ~conn[current]
        BY <1>20, <3>2 DEF IndInv, TypeOK, SshTypeOK, Handles,
             HandlesConsistent, LibraryBalanced, SessionDiscipline, Object,
             BrutalException, StatusReconnect
      <4>2. /\ SshTypeOK' /\ HandlesConsistent'
           /\ \/ ctlPc' = "hung"
              \/ /\ ctlPc' = "statusClear"
                 /\ session'[current] \in {"null", "live"}
                 /\ begun' = 1 + (IF session'[current] = "live" THEN 1 ELSE 0)
        BY <1>20, <3>2, <4>1, ConnectSound DEF IndInv, TypeOK, StatusReconnect
      <4>3. SshTypeOK'
        BY <4>2
      <4>4. SshPart'
        BY <1>20, <3>2, <4>2 DEF SshPart, LibraryBalanced, SessionDiscipline,
             StatusReconnect
      <4>5. QED
        BY <4>3, <4>4
    <3>3. QED
      BY <1>20, <3>1, <3>2 DEF StatusReconnect
  <2>4. CtlTypeOK' /\ SrvTypeOK'
    BY <1>20 DEF IndInv, TypeOK, MailTypeOK, CtlTypeOK, SrvTypeOK, CtlSteps,
         StatusReconnect, ConnectCurrent
  <2>5. MailPart'
    BY <1>20 DEF IndInv, TypeOK, MailTypeOK, MailPart, ArgumentsFit,
         UploadHandOver, ScpHandOver, StatusHandOver, DownloadOwned,
         StatusReconnect, ConnectCurrent
  <2>6. QED
    BY <2>1, <2>2,  <2>4, <2>5 DEF IndInv, TypeOK, SshPart, MailPart
<1>21. CASE StatusClear
  <2>1. MailTypeOK'
    <3>1. hp_1_status_req' \in BOOLEAN
      BY <1>21 DEF IndInv, TypeOK, MailTypeOK, StatusClear
    <3>2. QED
      BY <1>21, <3>1 DEF IndInv, TypeOK, MailTypeOK, StatusClear
  <2>2. SshTypeOK'
    BY <1>21 DEF IndInv, TypeOK, SshTypeOK, StatusClear
  <2>3. SshPart'
    BY <1>21 DEF IndInv, TypeOK, SshTypeOK, SshPart, HandlesConsistent,
         LibraryBalanced, SessionDiscipline, StatusClear
  <2>4. CtlTypeOK' /\ SrvTypeOK'
    BY <1>21 DEF IndInv, TypeOK, MailTypeOK, CtlTypeOK, SrvTypeOK, CtlSteps,
         StatusClear
  <2>5. MailPart'
    BY <1>21 DEF IndInv, TypeOK, MailTypeOK, MailPart, ArgumentsFit,
         UploadHandOver, ScpHandOver, StatusHandOver, DownloadOwned,
         StatusClear
  <2>6. QED
    BY <2>1, <2>2, <2>3,  <2>4, <2>5 DEF IndInv, TypeOK, SshPart, MailPart
<1>22. CASE CallNeverReturns
  <2>1. MailTypeOK'
    BY <1>22 DEF IndInv, TypeOK, MailTypeOK, CallNeverReturns
  <2>2. SshTypeOK'
    BY <1>22 DEF IndInv, TypeOK, SshTypeOK, CallNeverReturns
  <2>3. SshPart'
    BY <1>22 DEF IndInv, TypeOK, SshTypeOK, SshPart, HandlesConsistent,
         LibraryBalanced, SessionDiscipline, CallNeverReturns
  <2>4. CtlTypeOK' /\ SrvTypeOK'
    BY <1>22 DEF IndInv, TypeOK, MailTypeOK, CtlTypeOK, SrvTypeOK, CtlSteps,
         CallNeverReturns
  <2>5. MailPart'
    BY <1>22 DEF IndInv, TypeOK, MailTypeOK, MailPart, ArgumentsFit,
         UploadHandOver, ScpHandOver, StatusHandOver, DownloadOwned,
         CallNeverReturns
  <2>6. QED
    BY <2>1, <2>2, <2>3,  <2>4, <2>5 DEF IndInv, TypeOK, SshPart, MailPart
<1>23. QED
  BY <1>1, <1>2, <1>3, <1>4, <1>5, <1>6, <1>7, <1>8, <1>9, <1>10, <1>11,
     <1>12, <1>13, <1>14, <1>15, <1>16, <1>17, <1>18, <1>19, <1>20, <1>21,
     <1>22
  DEF Control, ControlStep

(* No step of a request handler breaks it, nor does a request that arrives. *)
LEMMA ServerInv == ASSUME IndInv, Server PROVE IndInv'
<1> USE DEF mailVars, switchBox, sshBox, uploadBox, scpBox, statusBox,
            sshVars, ctlVars, srvVars, At, Enter, SrvReset
<1>0. UNCHANGED <<ctlVars, sshVars>>
  BY DEF Server
<1>a. SshTypeOK' /\ CtlTypeOK' /\ SshPart'
  BY <1>0 DEF IndInv, TypeOK, SshTypeOK, CtlTypeOK, SshPart, HandlesConsistent,
              LibraryBalanced, SessionDiscipline, Connected
<1> USE <1>0
<1>1. CASE \E text \in Switches : SwitchSsh(text)
  <2>1. MailTypeOK'
    BY <1>1 DEF IndInv, TypeOK, MailTypeOK, SwitchSsh
  <2>2. SrvTypeOK'
    BY <1>1 DEF IndInv, TypeOK, SrvTypeOK, SrvSteps, Requests, SwitchSsh
  <2>3. MailPart'
    BY <1>1 DEF IndInv, TypeOK, MailTypeOK, MailPart, ArgumentsFit,
         UploadHandOver, ScpHandOver, StatusHandOver, DownloadOwned, SwitchSsh
  <2>4. QED
    BY <1>a, <2>1, <2>2, <2>3 DEF IndInv, TypeOK, SshPart, MailPart
<1>2. CASE \E text \in Texts \cup {Empty} : OnMessage(text)
  <2>1. MailTypeOK'
    BY <1>2 DEF IndInv, TypeOK, MailTypeOK, OnMessage
  <2>2. SrvTypeOK'
    BY <1>2 DEF IndInv, TypeOK, SrvTypeOK, SrvSteps, Requests, OnMessage
  <2>3. MailPart'
    BY <1>2 DEF IndInv, TypeOK, MailTypeOK, MailPart, ArgumentsFit,
         UploadHandOver, ScpHandOver, StatusHandOver, DownloadOwned, OnMessage
  <2>4. QED
    BY <1>a, <2>1, <2>2, <2>3 DEF IndInv, TypeOK, SshPart, MailPart
<1>3. CASE \E text \in Texts \cup {Empty} : HandleTerminalPost(text)
  <2>1. MailTypeOK'
    BY <1>3 DEF IndInv, TypeOK, MailTypeOK, HandleTerminalPost
  <2>2. SrvTypeOK'
    BY <1>3 DEF IndInv, TypeOK, SrvTypeOK, SrvSteps, Requests,
         HandleTerminalPost
  <2>3. MailPart'
    BY <1>3 DEF IndInv, TypeOK, MailTypeOK, MailPart, ArgumentsFit,
         UploadHandOver, ScpHandOver, StatusHandOver, DownloadOwned,
         HandleTerminalPost
  <2>4. QED
    BY <1>a, <2>1, <2>2, <2>3 DEF IndInv, TypeOK, SshPart, MailPart
<1>4. CASE SshCommandAssigned
  <2>1. MailTypeOK'
    <3>1. racing' \in BOOLEAN
      BY <1>4 DEF IndInv, TypeOK, MailTypeOK, SshCommandAssigned
    <3>2. QED
      BY <1>4, <3>1 DEF IndInv, TypeOK, MailTypeOK, SshCommandAssigned,
           ArgumentsFit
  <2>2. SrvTypeOK'
    BY <1>4 DEF IndInv, TypeOK, SrvTypeOK, SrvSteps, Requests,
         SshCommandAssigned
  <2>3. MailPart'
    BY <1>4 DEF IndInv, TypeOK, MailTypeOK, MailPart, ArgumentsFit,
         UploadHandOver, ScpHandOver, StatusHandOver, DownloadOwned,
         SshCommandAssigned
  <2>4. QED
    BY <1>a, <2>1, <2>2, <2>3 DEF IndInv, TypeOK, SshPart, MailPart
<1>5. CASE \E path \in Paths \cup {Empty} : HandleScp(path)
  <2>1. MailTypeOK'
    BY <1>5 DEF IndInv, TypeOK, MailTypeOK, HandleScp
  <2>2. SrvTypeOK'
    BY <1>5 DEF IndInv, TypeOK, SrvTypeOK, SrvSteps, Requests, HandleScp
  <2>3. MailPart'
    BY <1>5 DEF IndInv, TypeOK, MailTypeOK, MailPart, ArgumentsFit,
         UploadHandOver, ScpHandOver, StatusHandOver, DownloadOwned, HandleScp
  <2>4. QED
    BY <1>a, <2>1, <2>2, <2>3 DEF IndInv, TypeOK, SshPart, MailPart
<1>6. CASE \E path \in Paths \cup {Empty} : HandleUpload(path)
  <2>1. MailTypeOK'
    <3>1. sent' \in BOOLEAN /\ up' \in Uploads
      BY <1>6 DEF IndInv, TypeOK, MailTypeOK, HandleUpload, Aged, Uploads
    <3>2. QED
      BY <1>6, <3>1 DEF IndInv, TypeOK, MailTypeOK, HandleUpload
  <2>2. SrvTypeOK'
    BY <1>6 DEF IndInv, TypeOK, SrvTypeOK, SrvSteps, Requests, HandleUpload,
         Aged
  <2>3. MailPart'
    BY <1>6 DEF IndInv, TypeOK, MailTypeOK, MailPart, ArgumentsFit,
         UploadHandOver, ScpHandOver, StatusHandOver, DownloadOwned,
         HandleUpload, Aged
  <2>4. QED
    BY <1>a, <2>1, <2>2, <2>3 DEF IndInv, TypeOK, SshPart, MailPart
<1>7. CASE UploadReceived
  <2>1. MailTypeOK'
    BY <1>7 DEF IndInv, TypeOK, MailTypeOK, UploadReceived, ArgumentsFit,
         Uploads
  <2>2. SrvTypeOK'
    BY <1>7 DEF IndInv, TypeOK, SrvTypeOK, SrvSteps, Requests, UploadReceived
  <2>3. MailPart'
    BY <1>7 DEF IndInv, TypeOK, MailTypeOK, MailPart, ArgumentsFit,
         UploadHandOver, ScpHandOver, StatusHandOver, DownloadOwned,
         UploadReceived
  <2>4. QED
    BY <1>a, <2>1, <2>2, <2>3 DEF IndInv, TypeOK, SshPart, MailPart
<1>8. CASE HandleSshStatus1
  <2>1. MailTypeOK'
    BY <1>8 DEF IndInv, TypeOK, MailTypeOK, HandleSshStatus1
  <2>2. SrvTypeOK'
    BY <1>8 DEF IndInv, TypeOK, SrvTypeOK, SrvSteps, Requests,
         HandleSshStatus1
  <2>3. MailPart'
    BY <1>8 DEF IndInv, TypeOK, MailTypeOK, MailPart, ArgumentsFit,
         UploadHandOver, ScpHandOver, StatusHandOver, DownloadOwned,
         HandleSshStatus1
  <2>4. QED
    BY <1>a, <2>1, <2>2, <2>3 DEF IndInv, TypeOK, SshPart, MailPart
<1>9. CASE BodyNeverEnds
  <2>1. MailTypeOK'
    BY <1>9 DEF IndInv, TypeOK, MailTypeOK, BodyNeverEnds
  <2>2. SrvTypeOK'
    BY <1>9 DEF IndInv, TypeOK, SrvTypeOK, SrvSteps, Requests, BodyNeverEnds
  <2>3. MailPart'
    BY <1>9 DEF IndInv, TypeOK, MailTypeOK, MailPart, ArgumentsFit,
         UploadHandOver, ScpHandOver, StatusHandOver, DownloadOwned,
         BodyNeverEnds
  <2>4. QED
    BY <1>a, <2>1, <2>2, <2>3 DEF IndInv, TypeOK, SshPart, MailPart
<1>10. CASE WaitEnds
  <2>1. MailTypeOK'
    BY <1>10 DEF IndInv, TypeOK, MailTypeOK, WaitEnds, Cleared
  <2>2. SrvTypeOK'
    BY <1>10 DEF IndInv, TypeOK, SrvTypeOK, SrvSteps, Requests, WaitEnds,
         Cleared
  <2>3. MailPart'
    BY <1>10 DEF IndInv, TypeOK, MailTypeOK, MailPart, ArgumentsFit,
         UploadHandOver, ScpHandOver, StatusHandOver, DownloadOwned, WaitEnds,
         Cleared
  <2>4. QED
    BY <1>a, <2>1, <2>2, <2>3 DEF IndInv, TypeOK, SshPart, MailPart
<1>11. CASE Answer
  <2>1. MailTypeOK'
    <3>1. dlWhole' \in BOOLEAN /\ dlLeft' \in BOOLEAN
      BY <1>11 DEF IndInv, TypeOK, MailTypeOK, Answer, RemoveDownload
    <3>2. QED
      BY <1>11, <3>1 DEF IndInv, TypeOK, MailTypeOK, Answer, RemoveDownload
  <2>2. SrvTypeOK'
    BY <1>11 DEF IndInv, TypeOK, SrvTypeOK, SrvSteps, Requests, Answer
  <2>3. MailPart'
    BY <1>11 DEF IndInv, TypeOK, MailTypeOK, MailPart, ArgumentsFit,
         UploadHandOver, ScpHandOver, StatusHandOver, DownloadOwned, Answer,
         RemoveDownload
  <2>4. QED
    BY <1>a, <2>1, <2>2, <2>3 DEF IndInv, TypeOK, SshPart, MailPart
<1>12. QED
  BY <1>1, <1>2, <1>3, <1>4, <1>5, <1>6, <1>7, <1>8, <1>9, <1>10, <1>11
  DEF Server, ServerStep, Arrival, HandlerStep

(* A reset does not break it: only the files survive.                      *)
LEMMA RebootInv == ASSUME IndInv, Reboot PROVE IndInv'
<1> USE MachinesAssumption
    DEF Reboot, MailReset, SshReset, CtlReset, SrvReset
<1>1. MailTypeOK'
  BY DEF IndInv, TypeOK, MailTypeOK, Uploads, Aged
<1>2. SshTypeOK'
  BY DEF SshTypeOK, Servers, Handles
<1>3. SshPart'
  BY DEF Servers, SshPart, HandlesConsistent, LibraryBalanced, SessionDiscipline
<1>4. CtlTypeOK' /\ SrvTypeOK'
  BY DEF CtlTypeOK, SrvTypeOK, CtlSteps, SrvSteps, Requests
<1>5. MailPart'
  BY DEF MailPart, ArgumentsFit, UploadHandOver, ScpHandOver,
         StatusHandOver, DownloadOwned
<1>6. QED
  BY <1>1, <1>2, <1>3, <1>4, <1>5 DEF IndInv, TypeOK, SshPart, MailPart

(* The inductive invariant holds in every reachable state.                 *)
THEOREM Invariance == Spec => []IndInv
<1>1. IndInv /\ [Next]_vars => IndInv'
  <2> SUFFICES ASSUME IndInv, [Next]_vars PROVE IndInv'
    OBVIOUS
  <2>1. CASE UNCHANGED vars
    <3> USE <2>1 DEF vars, mailVars, switchBox, sshBox, uploadBox, scpBox,
                     statusBox, sshVars, ctlVars, srvVars, At, Connected
    <3>1. TypeOK'
      BY DEF IndInv, TypeOK, MailTypeOK, SshTypeOK, CtlTypeOK, SrvTypeOK
    <3>2. SshPart'
      BY DEF IndInv, SshPart, HandlesConsistent, LibraryBalanced, SessionDiscipline
    <3>3. MailPart'
      BY DEF IndInv, MailPart, ArgumentsFit, UploadHandOver, ScpHandOver,
             StatusHandOver, DownloadOwned
    <3>4. QED
      BY <3>1, <3>2, <3>3 DEF IndInv, SshPart, MailPart
  <2>2. QED
    BY <2>1, ControlInv, ServerInv, RebootInv DEF Next
<1>2. QED
  BY InitInv, <1>1, PTL DEF Spec

(* handleSCP and scp_read() never work on /downloads/file together, nor    *)
(* handleUPLOAD and scp_write() on /downloads/upload.                      *)
THEOREM FilesAreExclusive == Spec => []FilesExclusive
<1>1. IndInv => FilesExclusive
  BY DEF IndInv, ScpHandOver, UploadHandOver, FilesExclusive, At
<1>2. QED
  BY <1>1, Invariance, PTL

(* A transfer or status handler answers only after ex_main() ran exactly   *)
(* its request.                                                            *)
THEOREM AnswersAfterAttempt == Spec => []AttemptedBeforeReply
<1>1. IndInv => AttemptedBeforeReply
  BY DEF IndInv, UploadHandOver, ScpHandOver, StatusHandOver,
         AttemptedBeforeReply, At
<1>2. QED
  BY <1>1, Invariance, PTL

(* handleSCP streams the file asked for, nothing, or what a reset or a     *)
(* failed SD.remove has left on the card.                                  *)
THEOREM ServesOwnFile == Spec => []ServedIsRequested
<1>1. IndInv => ServedIsRequested
  BY DEF IndInv, DownloadOwned, ServedIsRequested, At
<1>2. QED
  BY <1>1, Invariance, PTL

(* One session at a time, on the current machine, with its channel; conn   *)
(* is set only when both exist.                                            *)
THEOREM SessionsConsistent == Spec => []HandlesConsistent
<1>1. IndInv => HandlesConsistent
  BY DEF IndInv
<1>2. QED
  BY <1>1, Invariance, PTL

(* libssh is initialised once, plus once for the open session.             *)
THEOREM LibraryStaysBalanced == Spec => []LibraryBalanced
<1>1. IndInv => LibraryBalanced
  BY DEF IndInv
<1>2. QED
  BY <1>1, Invariance, PTL

(* A pending upload or download is overwritten or erased only once         *)
(* ex_main() has copied it as the argument it works on, or by a reset.     *)
THEOREM TransfersKept == Spec => PendingTransferKept
<1> DEFINE Kept ==
      ~Reboot =>
        /\ upload_command \notin {Empty, upload_command'} => ctlArg = upload_command
        /\ scp_command \notin {Empty, scp_command'} => ctlArg = scp_command
<1>1. IndInv /\ [Next]_vars => [Kept]_vars
  <2> SUFFICES ASSUME IndInv, Next, ~Reboot
               PROVE  /\ upload_command \notin {Empty, upload_command'}
                            => ctlArg = upload_command
                      /\ scp_command \notin {Empty, scp_command'}
                            => ctlArg = scp_command
    OBVIOUS
  <2> USE DEF mailVars, switchBox, sshBox, uploadBox, scpBox, statusBox
  <2>1. CASE Control
    <3>1. /\ upload_command' = upload_command \/ UploadClear
          /\ scp_command' = scp_command \/ ScpClear
      BY <2>1 DEF Control, ControlStep, CallNeverReturns, Boot, CheckSwitch, SwitchTeardown,
           SwitchIndex, SwitchConnect, SwitchClear, CheckSsh, SshWrite,
           SshClear, CheckUpload, ScpWriteBegin, ScpWriteEnd, UploadClear,
           CheckScp, ScpReadOpen, ScpReadData, ScpClear, CheckStatus,
           StatusExec, StatusReconnect, StatusClear
    <3>2. QED
      BY <3>1 DEF IndInv, UploadHandOver, ScpHandOver, UploadClear, ScpClear
  <2>2. CASE Server
    <3>1. /\ upload_command' = upload_command \/ srvPc = "fill"
          /\ scp_command' = scp_command \/ srvPc = "idle"
      BY <2>2 DEF Server, ServerStep, Arrival, HandlerStep, SwitchSsh,
           OnMessage, HandleTerminalPost, SshCommandAssigned, HandleScp,
           HandleUpload, UploadReceived, HandleSshStatus1, BodyNeverEnds,
           WaitEnds, Answer
    <3>2. QED
      BY <3>1 DEF IndInv, UploadHandOver, ScpHandOver, At
  <2>3. QED
    BY <2>1, <2>2 DEF Next
<1>2. QED
  BY <1>1, Invariance, PTL DEF Spec, PendingTransferKept

-----------------------------------------------------------------------------
(* What connect() makes of the current machine's object, given that it has *)
(* no session: one of the outcomes of Connect, or nothing yet if the login *)
(* never ends.                                                             *)
LEMMA ConnectStores ==
  ASSUME SshTypeOK,
         NEW from \in [session : {"wild", "null"}, channel : {"wild", "null"}, begun : {1}],
         NEW next \in {"poll", "swClear", "statusClear"},
         ConnectCurrent(from, next), current' = current
  PROVE  /\ \A i \in Servers \ {current} :
              session'[i] = session[i] /\ channel'[i] = channel[i]
         /\ \/ [session |-> session'[current], channel |-> channel'[current],
                begun |-> BegunFor(current)'] \in Connect(from)
            \/ [session |-> session'[current], channel |-> channel'[current],
                begun |-> BegunFor(current)'] = from
<1> USE DEF SshTypeOK, Becomes, Goto, BegunFor
<1>1. CASE \E o \in Connect(from) : Becomes(current, o) /\ Goto(next)
  <2>1. PICK o \in Connect(from) : Becomes(current, o) /\ Goto(next)
    BY <1>1
  <2>2. o = [session |-> o.session, channel |-> o.channel, begun |-> o.begun]
    BY DEF Connect, Refused, Opened, BrutalException
  <2>3. BegunFor(current)' = o.begun
    BY <2>1
  <2> QED
    BY <2>1, <2>2, <2>3
<1>2. CASE /\ Becomes(current, [session |-> from.session, channel |-> from.channel,
                                begun |-> from.begun + 1])
           /\ Goto("hung")
  <2>1. BegunFor(current)' = 1
    BY <1>2
  <2> QED
    BY <1>2, <2>1
<1> QED
  BY <1>1, <1>2 DEF ConnectCurrent

(* Every machine's object goes through the steps of SshConnect: ex_main()  *)
(* never calls connect() over an open session or brutal_exception() on a   *)
(* session that was never assigned.                                        *)
THEOREM MachinesImplement == Spec => MachinesAreObjects
<1>1. ASSUME Init, NEW i \in Servers
      PROVE  Machine(i)!ConnectInit
  BY <1>1 DEF Init, SshInit, CtlInit, BegunFor, Machine!ConnectInit, Machine!Unassigned
<1>2. ASSUME IndInv, Next, NEW i \in Servers
      PROVE  Machine(i)!BoardNext
  <2> DEFINE Before == [session |-> session[i], channel |-> channel[i],
                        begun |-> BegunFor(i)]
             After == [session |-> session'[i], channel |-> channel'[i],
                       begun |-> BegunFor(i)']
  <2>0. /\ After = Before => Machine(i)!BoardNext
        /\ Before.session # "live" /\ After \in Connect(Before) => Machine(i)!BoardNext
        /\ Before.session # "wild" /\ After = BrutalException(Before)
              => Machine(i)!BoardNext
    BY DEF Machine!BoardNext, Machine!ConnectNext, Machine!Connect, Machine!Opened,
           Machine!Refused, Machine!BrutalException, Connect, Opened, Refused,
           BrutalException
  <2>1. CASE Reboot
    BY <2>1 DEF Reboot, SshReset, CtlReset, BegunFor, Machine!BoardNext,
                Machine!Unassigned
  <2>2. CASE UNCHANGED <<ctlVars, sshVars>>
    <3>1. After = Before
      BY <2>2 DEF ctlVars, sshVars, BegunFor
    <3> QED
      BY <2>0, <3>1
  <2>3. CASE Control
    <3>0. /\ ctlPc # "hung"
          /\ begun = 1 + (IF session[current] = "live" THEN 1 ELSE 0)
          /\ SshTypeOK
      <4>1. ctlPc # "hung"
        BY <2>3 DEF Control, ControlStep, CallNeverReturns, Boot, CheckSwitch, SwitchTeardown,
             SwitchIndex, SwitchConnect, SwitchClear, CheckSsh, SshWrite,
             SshClear, CheckUpload, ScpWriteBegin, ScpWriteEnd, UploadClear,
             CheckScp, ScpReadOpen, ScpReadData, ScpClear, CheckStatus,
             StatusExec, StatusReconnect, StatusClear
      <4> QED
        BY <1>2, <4>1 DEF IndInv, TypeOK, LibraryBalanced
    <3>1. CASE /\ UNCHANGED <<session, channel, begun, current>>
               /\ ctlPc' # "hung" \/ session[current] = "live"
      <4>1. After = Before
        BY <3>0, <3>1 DEF BegunFor
      <4> QED
        BY <2>0, <4>1
    <3>2. ASSUME NEW next \in {"poll", "swClear", "statusClear"},
                 ConnectCurrent(Object(current), next), current' = current,
                 session[current] # "live"
          PROVE  Machine(i)!BoardNext
      <4>1. Object(current)
              \in [session : {"wild", "null"}, channel : {"wild", "null"}, begun : {1}]
        BY <1>2, <3>0, <3>2 DEF IndInv, SshTypeOK, HandlesConsistent, Handles, Object
      <4>2. i = current => Before = Object(current)
        BY <3>0 DEF Object, BegunFor
      <4>3. i # current => After = Before
        BY <3>0, <3>2, <4>1, ConnectStores DEF BegunFor
      <4>4. i = current => After \in Connect(Before) \/ After = Before
        BY <3>0, <3>2, <4>1, <4>2, ConnectStores
      <4> QED
        BY <2>0, <3>2, <4>3, <4>4
    <3>3. CASE StatusReconnect
      <4>1. CASE UNCHANGED <<session, channel, begun>> /\ ctlPc' = "panic"
        BY <3>1, <3>3, <4>1 DEF StatusReconnect
      <4>2. CASE ConnectCurrent(BrutalException(Object(current)), "statusClear")
        <5>1. BrutalException(Object(current))
                 = [session |-> "null", channel |-> "null", begun |-> 1]
          BY <1>2, <3>0, <3>3 DEF IndInv, SessionDiscipline, StatusReconnect,
               SshTypeOK, Handles, Object, BrutalException
        <5> DEFINE TornDown == [session |-> "null", channel |-> "null", begun |-> 1]
        <5>2. i # current => After = Before
          BY <3>0, <3>3, <4>2, <5>1, ConnectStores DEF StatusReconnect, BegunFor
        <5>3. i = current => After \in Connect(TornDown) \/ After = TornDown
          BY <3>0, <3>3, <4>2, <5>1, ConnectStores DEF StatusReconnect
        <5>4. i = current => Before = Object(current)
          BY <3>0 DEF Object, BegunFor
        <5>5. i = current => After = TornDown \/ After = Opened(TornDown)
          BY <5>3 DEF Connect, Refused, BrutalException, Opened
        <5>6. i = current /\ session[i] = "live" => Before = Opened(TornDown)
          BY <1>2, <3>0, <5>4 DEF IndInv, HandlesConsistent, Object, Opened
        <5>7. i = current /\ session[i] # "live" => Opened(TornDown) \in Connect(Before)
          BY <3>0, <5>4 DEF Object, Opened, Connect
        <5>8. i = current => Before.session # "wild"
          BY <1>2, <3>3, <5>4 DEF IndInv, SessionDiscipline, StatusReconnect, Object
        <5> QED
          BY <2>0, <5>1, <5>2, <5>4, <5>5, <5>6, <5>7, <5>8
      <4> QED
        BY <3>3, <4>1, <4>2 DEF StatusReconnect, Goto
    <3>4. CASE SwitchTeardown
      <4>1. i # current => After = Before
        BY <3>0, <3>4 DEF SwitchTeardown, Becomes, BegunFor, SshTypeOK
      <4>2. i = current => After = BrutalException(Before) /\ Before.session # "wild"
        BY <1>2, <3>0, <3>4 DEF SwitchTeardown, Becomes, BegunFor, SshTypeOK,
             BrutalException, Object, Goto, IndInv, SessionDiscipline
      <4> QED
        BY <2>0, <4>1, <4>2
    <3>5. CASE SwitchIndex
      <4>1. session[current] # "live" /\ begun = 1
        BY <1>2, <3>0, <3>5 DEF SwitchIndex, IndInv, SessionDiscipline
      <4>2. After = Before
        BY <3>0, <3>5, <4>1 DEF SwitchIndex, BegunFor, Goto
      <4> QED
        BY <2>0, <4>2
    <3>6. CASE Boot \/ SwitchConnect
      <4>1. session[current] # "live"
        BY <1>2, <3>6 DEF IndInv, SessionDiscipline, Boot, SwitchConnect
      <4> QED
        BY <3>2, <3>6, <4>1 DEF Boot, SwitchConnect
    <3>7. CASE ScpReadOpen \/ ScpReadData \/ CallNeverReturns
      <4>1. session[current] = "live"
        BY <1>2, <3>0, <3>7 DEF IndInv, ScpReadOpen, ScpReadData, CallNeverReturns,
             ExecAlive, Connected, HandlesConsistent, SshTypeOK
      <4> QED
        BY <3>1, <3>7, <4>1 DEF ScpReadOpen, ScpReadData, CallNeverReturns, sshVars
    <3> QED
      BY <2>3, <3>1, <3>3, <3>4, <3>5, <3>6, <3>7
         DEF Control, ControlStep, CheckSwitch, SwitchClear, CheckSsh, SshWrite,
             SshClear, CheckUpload, ScpWriteBegin, ScpWriteEnd, UploadClear,
             CheckScp, ScpClear, CheckStatus, StatusExec, StatusClear, Goto, sshVars
  <2> QED
    BY <1>2, <2>1, <2>2, <2>3 DEF Next, Server
<1>3. IndInv /\ [Next]_vars => [\A i \in Servers : Machine(i)!BoardNext]_vars
  BY <1>2
<1>4. Init => \A i \in Servers : Machine(i)!ConnectInit
  BY <1>1
<1> QED
  BY <1>3, <1>4, Invariance, PTL DEF Spec, MachinesAreObjects
==============================================================================
