----------------------------- MODULE UplinkProofs -----------------------------
(***************************************************************************)
(* Proofs about Uplink for any number of events on their way.              *)
(***************************************************************************)
EXTENDS Uplink, TLAPS

(* The tasks start as both halves of the invariant say.                    *)
LEMMA UplinkInitInv == UplinkInit => UplinkInv
  <1> SUFFICES ASSUME UplinkInit PROVE UplinkInv
    OBVIOUS
  <1>1. WifiInv
    <2>1. queue \in Seq(Events) /\ Len(queue) <= MaxEvents
      BY EventsAssumption DEF UplinkInit, WifiInit
    <2>2. /\ gotIpAddr \in BOOLEAN /\ gotIp6Addr \in BOOLEAN
          /\ linked \in BOOLEAN /\ address \in BOOLEAN /\ met \in BOOLEAN
      BY Zenon DEF UplinkInit, WifiInit
    <2> QED
      BY <2>1, <2>2
         DEF UplinkInit, WifiInit, WifiInv, WifiTypeOK, STATE_NEW, STATE_PHY_CONNECTED,
             STATE_OTA_UPDATING, STATE_OTA_COMPLETE
  <1>2. LoginInv
    <2>1. password \in {"whole", "wiped"} /\ methods \subseteq Methods
      BY DEF UplinkInit, LoginInit
    <2>2. object \in Objects /\ before \in Objects /\ object.begun = 1
          /\ object.session = "wild" /\ before.begun = 1
      BY DEF UplinkInit, LoginInit, Unused, Objects, Pointers
    <2> QED
      BY <2>1, <2>2
         DEF UplinkInit, LoginInit, LoginInv, LoginTypeOK, SessionsFreed, ShellRequests
  <1>3. CallsInv
    BY SpoiledAssumption
       DEF UplinkInit, CallsInit, LoginInit, CallsInv, CallsTypeOK, WriteSteps, ReadSteps
  <1>4. LoginInExec
    BY DEF UplinkInit, LoginInit, LoginInExec
  <1> QED
    BY <1>1, <1>2, <1>3, <1>4 DEF UplinkInv

(* No step of the control task before ex_main() disturbs WifiInv.          *)
LEMMA BringUpStep ==
  ASSUME WifiInv, BringUp
  PROVE  WifiInv'
  <1> USE DEF WifiInv, WifiTypeOK, flags, ctlState, evtState, network,
              STATE_NEW, STATE_PHY_CONNECTED, STATE_WAIT_IPADDR, STATE_GOT_IPADDR,
              STATE_OTA_UPDATING, STATE_OTA_COMPLETE
  <1>1. CASE Join
    BY <1>1 DEF Join
  <1>2. CASE Begin
    BY <1>2 DEF Begin
  <1>3. CASE Look
    BY <1>3 DEF Look
  <1>4. CASE Act
    BY <1>4 DEF Act
  <1>5. CASE CheckAddress
    BY <1>5 DEF CheckAddress
  <1>6. CASE Expire
    BY <1>6 DEF Expire
  <1> QED
    BY <1>1, <1>2, <1>3, <1>4, <1>5, <1>6 DEF BringUp

(* Taking an event from the queue leaves a queue.                          *)
LEMMA ConsumeType ==
  ASSUME WifiTypeOK, queue # <<>>, Consume
  PROVE  queue' \in Seq(Events) /\ Len(queue') <= MaxEvents
  BY EventsAssumption DEF WifiTypeOK, Consume

(* No step of event_cb() disturbs WifiInv: before the first association it *)
(* can only store STATE_NEW.                                               *)
LEMMA EventTaskStep ==
  ASSUME WifiInv, EventTask
  PROVE  WifiInv'
  <1> USE DEF WifiInv, flags, ctlState, evtState, network,
              STATE_NEW, STATE_PHY_CONNECTED, STATE_WAIT_IPADDR,
              STATE_OTA_UPDATING, STATE_OTA_COMPLETE
  <1>1. CASE OnConnected
    <2>1. queue' \in Seq(Events) /\ Len(queue') <= MaxEvents
      BY <1>1, ConsumeType DEF OnConnected
    <2> QED
      BY <1>1, <2>1 DEF OnConnected, Consume, WifiTypeOK
  <1>2. CASE OnDisconnected
    <2>1. queue' \in Seq(Events) /\ Len(queue') <= MaxEvents
      BY <1>2, ConsumeType DEF OnDisconnected
    <2> QED
      BY <1>2, <2>1 DEF OnDisconnected, Consume, WifiTypeOK
  <1>3. CASE OnAddress
    <2>1. queue' \in Seq(Events) /\ Len(queue') <= MaxEvents
      BY <1>3, ConsumeType DEF OnAddress
    <2> QED
      BY <1>3, <2>1 DEF OnAddress, Consume, WifiTypeOK
  <1>4. CASE Store
    BY <1>4 DEF Store, WifiTypeOK
  <1>5. CASE Rejoin
    BY <1>5 DEF Rejoin, WifiTypeOK
  <1> QED
    BY <1>1, <1>2, <1>3, <1>4, <1>5 DEF EventTask

(* The network only adds an event where there is room for it.              *)
LEMMA NetworkStep ==
  ASSUME WifiInv, Network
  PROVE  WifiInv'
  <1>1. \E event \in Events : Report(event)
    BY DEF Network, Events
  <1>2. queue' \in Seq(Events) /\ Len(queue') <= MaxEvents
    BY <1>1, EventsAssumption DEF Report, WifiInv, WifiTypeOK
  <1>3. linked' \in BOOLEAN /\ address' \in BOOLEAN
    BY DEF Network, WifiInv, WifiTypeOK
  <1>4. UNCHANGED <<devState, flags, ctlState, evtState>>
    BY DEF Network
  <1> QED
    BY <1>2, <1>3, <1>4 DEF WifiInv, WifiTypeOK, flags, ctlState, evtState

(* No step of connect() or of brutal_exception() disturbs LoginInv.        *)
LEMMA LoginKeepsInv ==
  ASSUME LoginInv, NEW reachable \in BOOLEAN, LoginStep(reachable) \/ Disconnect
  PROVE  LoginInv'
  <1> USE DEF LoginInv, LoginTypeOK, SessionsFreed, Objects, Pointers, Methods,
              ShellRequests, Leaves, Proceed, GiveUp, NoSession, Refused, LoggedIn,
              TearDown, BrutalException
  <1>1. CASE LoginBegins
    BY <1>1 DEF LoginBegins
  <1>2. CASE NewSession
    BY <1>2 DEF NewSession
  <1>3. CASE SetOptions
    BY <1>3 DEF SetOptions
  <1>4. CASE Dial(reachable)
    BY <1>4 DEF Dial
  <1>5. CASE AuthNone
    BY <1>5 DEF AuthNone
  <1>6. CASE AuthGssapi
    BY <1>6 DEF AuthGssapi
  <1>7. CASE AuthPassword
    <2>1. CASE GiveUp
      BY <1>7, <2>1 DEF AuthPassword
    <2>2. CASE LoggedIn
      BY <1>7, <2>2 DEF AuthPassword
    <2>3. CASE Proceed("wipe")
      BY <1>7, <2>3 DEF AuthPassword
    <2> QED
      BY <1>7, <2>1, <2>2, <2>3 DEF AuthPassword
  <1>8. CASE Wipe
    BY <1>8 DEF Wipe
  <1>9. CASE NewChannel
    BY <1>9 DEF NewChannel
  <1>10. CASE Request
    <2>1. CASE TearDown
      BY <1>10, <2>1 DEF Request
    <2>2. CASE object.channel = "live" /\ Proceed(AfterRequest[loginAt])
      <3>1. AfterRequest[loginAt] \in {"pty", "size", "shell", "idle"}
        BY <1>10 DEF Request, AfterRequest
      <3> QED
        BY <1>10, <2>2, <3>1 DEF Request
    <2> QED
      BY <1>10, <2>1, <2>2 DEF Request
  <1>11. CASE Disconnect
    BY <1>11 DEF Disconnect
  <1> QED
    BY <1>1, <1>2, <1>3, <1>4, <1>5, <1>6, <1>7, <1>8, <1>9, <1>10, <1>11
       DEF LoginStep, InConnect

(* No call on a session disturbs CallsInv.                                 *)
LEMMA CallsKeepInv ==
  ASSUME CallsInv, loginAt = "idle", UNCHANGED loginVars,
         CallStep(object.session = "live")
  PROVE  CallsInv'
  <1> DEFINE live == object.session = "live"
  <1> USE SpoiledAssumption
      DEF CallsInv, CallsTypeOK, ExecSteps, WriteSteps, ReadSteps, Then, loginVars
  <1>1. CASE ExecNew(live)
    BY <1>1 DEF ExecNew
  <1>2. CASE ExecOpen
    BY <1>2 DEF ExecOpen
  <1>3. CASE ExecRequest
    BY <1>3 DEF ExecRequest
  <1>4. CASE ExecRead
    BY <1>4 DEF ExecRead
  <1>5. CASE ExecLast
    BY <1>5 DEF ExecLast
  <1>6. CASE ScpNew(live)
    BY <1>6 DEF ScpNew
  <1>7. CASE ScpInit
    BY <1>7 DEF ScpInit
  <1>8. CASE ScpPush
    BY <1>8 DEF ScpPush
  <1>9. CASE ScpWrite
    BY <1>9 DEF ScpWrite
  <1>10. CASE ScpPull
    BY <1>10 DEF ScpPull, Spoil
  <1>11. CASE ScpOpen
    BY <1>11 DEF ScpOpen, Spoil
  <1>12. CASE ScpRead
    BY <1>12 DEF ScpRead
  <1>13. CASE ScpEof
    BY <1>13 DEF ScpEof
  <1> QED
    BY <1>1, <1>2, <1>3, <1>4, <1>5, <1>6, <1>7, <1>8, <1>9, <1>10, <1>11, <1>12, <1>13
       DEF CallStep

(* connect() is called without a session, and so with no channels.         *)
LEMMA LoginKeepsCalls ==
  ASSUME LoginInv, CallsInv, callAt = "idle", UNCHANGED callVars,
         NEW reachable \in BOOLEAN, LoginStep(reachable)
  PROVE  CallsInv'
  <1>1. loginAt # "idle" \/ object.session # "live"
    BY DEF LoginStep, InConnect, LoginBegins, NewSession, SetOptions, Dial, AuthNone,
           AuthGssapi, AuthPassword, Wipe, NewChannel, Request, ShellRequests
  <1>2. channels = 0 /\ spoiledHere = 0
    BY <1>1 DEF CallsInv
  <1> QED
    BY <1>2 DEF CallsInv, CallsTypeOK, callVars

(* Once ex_main() runs, the control task does not leave it.                *)
LEMMA LoginStaysInExec ==
  ASSUME LoginInExec, [UplinkNext]_uplinkVars
  PROVE  LoginInExec'
  <1> USE DEF LoginInExec, loginVars, wifiVars, ctlState
  <1>1. CASE StartUp
    <2>1. ctlAt # "exec"
      BY <1>1 DEF StartUp, BringUp, Join, Begin, Look, Act, CheckAddress, Expire
    <2> QED
      BY <1>1, <2>1 DEF StartUp
  <1>2. CASE Exec
    BY <1>2 DEF Exec
  <1>3. CASE EventStep
    BY <1>3 DEF EventStep, EventTask, OnConnected, OnDisconnected, OnAddress, Store, Rejoin
  <1>4. CASE Surroundings
    BY <1>4 DEF Surroundings, Network
  <1>5. CASE UNCHANGED uplinkVars
    BY <1>5 DEF uplinkVars
  <1> QED
    BY <1>1, <1>2, <1>3, <1>4, <1>5 DEF UplinkNext

(* Both tasks and the network preserve the invariant.                      *)
LEMMA UplinkStep == UplinkInv /\ [UplinkNext]_uplinkVars => UplinkInv'
  <1> SUFFICES ASSUME UplinkInv, [UplinkNext]_uplinkVars PROVE UplinkInv'
    OBVIOUS
  <1> USE DEF UplinkInv
  <1>0. LoginInExec'
    BY LoginStaysInExec
  <1> USE <1>0
  <1>1. ASSUME UNCHANGED wifiVars PROVE WifiInv'
    BY <1>1 DEF wifiVars, flags, ctlState, evtState, network, WifiInv, WifiTypeOK
  <1>2. ASSUME UNCHANGED loginVars PROVE LoginInv'
    BY <1>2 DEF loginVars, LoginInv, LoginTypeOK, SessionsFreed
  <1>3. ASSUME UNCHANGED <<loginVars, callVars>> PROVE CallsInv'
    BY <1>3 DEF loginVars, callVars, CallsInv, CallsTypeOK
  <1>4. CASE StartUp
    BY <1>4, <1>2, <1>3, BringUpStep DEF StartUp
  <1>5. CASE Exec
    <2>0. address \in BOOLEAN /\ WifiInv'
      BY <1>1, <1>5 DEF Exec, WifiInv, WifiTypeOK
    <2>1. CASE callAt = "idle" /\ LoginStep(address) /\ UNCHANGED callVars
      BY <2>0, <2>1, LoginKeepsInv, LoginKeepsCalls
    <2>2. CASE Disconnect /\ SessionGone
      <3>1. LoginInv'
        BY <2>0, <2>2, LoginKeepsInv
      <3>2. CallsInv'
        BY <2>2, SpoiledAssumption
           DEF CallsInv, CallsTypeOK, SessionGone, Disconnect, TearDown, WriteSteps,
               ReadSteps
      <3> QED
        BY <2>0, <3>1, <3>2
    <2>3. CASE loginAt = "idle" /\ UNCHANGED loginVars /\ CallStep(object.session = "live")
      BY <1>2, <2>0, <2>3, CallsKeepInv
    <2>4. CASE loginAt = "idle" /\ UNCHANGED loginVars
               /\ NothingToTearDown(object.session = "live")
      <3>1. CallsInv'
        BY <2>4 DEF CallsInv, CallsTypeOK, NothingToTearDown, Then, loginVars, WriteSteps,
                    ReadSteps
      <3> QED
        BY <1>2, <2>0, <2>4, <3>1
    <2> QED
      BY <1>5, <2>1, <2>2, <2>3, <2>4 DEF Exec
  <1>6. CASE EventStep \/ Surroundings
    BY <1>6, <1>2, <1>3, EventTaskStep, NetworkStep DEF EventStep, Surroundings
  <1>7. CASE UNCHANGED uplinkVars
    BY <1>7, <1>1, <1>2, <1>3 DEF uplinkVars
  <1> QED
    BY <1>4, <1>5, <1>6, <1>7 DEF UplinkNext

-----------------------------------------------------------------------------
(* devState, the flags and the objects of connect() stay as UplinkInv says *)
(* however the tasks and the network interleave.                           *)
THEOREM UplinkInvariance == UplinkSpec => []UplinkInv
  BY UplinkInitInv, UplinkStep, PTL DEF UplinkSpec

(* The values of all variables, libssh's counts never below zero.          *)
THEOREM UplinkTypes == UplinkSpec => []UplinkTypeOK
  <1>1. UplinkInv => UplinkTypeOK
    BY DEF UplinkInv, WifiInv, LoginInv, CallsInv, UplinkTypeOK
  <1> QED
    BY <1>1, UplinkInvariance, PTL

(* wait_for_wifi_exec() runs ex_main() only after an association, although *)
(* each task may overwrite what the other has stored into devState.        *)
THEOREM ExecIsAfterAssociation == UplinkSpec => []ExecAfterAssociation
  <1>1. UplinkInv => ExecAfterAssociation
    BY DEF UplinkInv, WifiInv, ExecAfterAssociation
  <1> QED
    BY <1>1, UplinkInvariance, PTL

(* connect() leaks no ssh_session on any of its ways out.                  *)
THEOREM SessionsAreFreed == UplinkSpec => []SessionsFreed
  <1>1. UplinkInv => SessionsFreed
    BY DEF UplinkInv, LoginInv
  <1> QED
    BY <1>1, UplinkInvariance, PTL

(* exec_cmd(), scp_write() and scp_read() free what they allocate, but for *)
(* the downloads that are counted.                                         *)
THEOREM CallsAreFreed == UplinkSpec => []CallsFreed
  <1>1. UplinkInv => CallsFreed
    BY DEF UplinkInv, CallsInv, CallsTypeOK, CallsFreed, WriteSteps, ReadSteps
  <1> QED
    BY <1>1, UplinkInvariance, PTL

(* connect(), with its dozen calls and failures, implements the one step   *)
(* that the rest of the control task is modelled with.                     *)
THEOREM ConnectImplements == UplinkSpec => ConnectIsAtomic
<1> DEFINE Shown == IF loginAt = "idle" THEN object ELSE before
<1>1. UplinkInit => AtomicConnect!ConnectInit
  BY DEF UplinkInit, LoginInit, Unused, AtomicConnect!ConnectInit,
         AtomicConnect!Unassigned
<1>2. ASSUME LoginInv, NEW reachable \in BOOLEAN, LoginStep(reachable) \/ Disconnect
      PROVE  AtomicConnect!ConnectNext \/ UNCHANGED Shown
  <2> USE <1>2 DEF LoginInv, LoginTypeOK, Objects, ShellRequests,
              Leaves, Proceed, GiveUp, NoSession, LoggedIn, TearDown,
              BrutalException, Refused, AtomicConnect!ConnectNext,
              AtomicConnect!Connect, AtomicConnect!Opened,
              AtomicConnect!BrutalException, AtomicConnect!Refused
  <2>1. CASE LoginBegins
    BY <2>1 DEF LoginBegins
  <2>2. CASE NewSession
    BY <2>2 DEF NewSession
  <2>3. CASE SetOptions
    BY <2>3 DEF SetOptions
  <2>4. CASE Dial(reachable)
    BY <2>4 DEF Dial
  <2>5. CASE AuthNone
    BY <2>5 DEF AuthNone
  <2>6. CASE AuthGssapi
    BY <2>6 DEF AuthGssapi
  <2>7. CASE AuthPassword
    BY <2>7 DEF AuthPassword
  <2>8. CASE Wipe
    BY <2>8 DEF Wipe
  <2>9. CASE NewChannel
    BY <2>9 DEF NewChannel
  <2>10. CASE Request
    BY <2>10 DEF Request, AfterRequest
  <2>11. CASE Disconnect
    BY <2>11 DEF Disconnect
  <2> QED
    BY <2>1, <2>2, <2>3, <2>4, <2>5, <2>6, <2>7, <2>8, <2>9, <2>10, <2>11
       DEF LoginStep, InConnect
<1>3. UplinkInv /\ [UplinkNext]_uplinkVars => [AtomicConnect!ConnectNext]_Shown
  <2> SUFFICES ASSUME UplinkInv, [UplinkNext]_uplinkVars
               PROVE  AtomicConnect!ConnectNext \/ UNCHANGED Shown
    OBVIOUS
  <2>1. CASE LoginStep(address) \/ Disconnect
    BY <1>2, <2>1 DEF UplinkInv, WifiInv, WifiTypeOK
  <2>2. CASE UNCHANGED loginVars
    BY <2>2 DEF loginVars
  <2> QED
    BY <2>1, <2>2 DEF UplinkNext, StartUp, Exec, EventStep, Surroundings, uplinkVars
<1> QED
  BY <1>1, <1>3, UplinkInvariance, PTL DEF UplinkSpec, ConnectIsAtomic, AtomicConnect!ConnectSpec
===============================================================================
