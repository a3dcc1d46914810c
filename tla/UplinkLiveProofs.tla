--------------------------- MODULE UplinkLiveProofs ---------------------------
(***************************************************************************)
(* Proof that an association starts ex_main(), for as many events on their *)
(* way as the event loop of the build holds                                *)
(* (CONFIG_ESP_SYSTEM_EVENT_QUEUE_SIZE, 32), and that connect() then comes *)
(* to its end or is refused.                                               *)
(*                                                                         *)
(* For the first, event_cb() works its way to the last "connected" in the  *)
(* queue, then wait_for_wifi_exec() walks devState up, which no event      *)
(* pulls back any more: two measures, one for each task.                   *)
(***************************************************************************)
EXTENDS UplinkProofs

(* The "connected" that reports the present association waits at j.        *)
Latest(j) ==
    /\ j \in 1 .. Len(queue)
    /\ queue[j] = "connected"
    /\ \A i \in j + 1 .. Len(queue) : queue[i] # "disconnected"

(* Steps that event_cb() has left for the event in its hands.              *)
InHand == IF evtAt = "storeRejoin" THEN 2 ELSE IF evtAt = "idle" THEN 0 ELSE 1

(* The event task has k steps to go, or fewer, until that event is taken.  *)
Exactly(k) == linked /\ \E j \in 1 .. Len(queue) : Latest(j) /\ 3 * j + InHand = k
Within(k) == linked /\ \E j \in 1 .. Len(queue) : Latest(j) /\ 3 * j + InHand < k

(* It has been taken, and nothing behind it undoes what it stores.         *)
NoneUndoes == \A i \in 1 .. Len(queue) : queue[i] # "disconnected"
Storing == linked /\ NoneUndoes /\ evtAt = "store" /\ evtPuts = STATE_PHY_CONNECTED
Stored == linked /\ NoneUndoes /\ evtAt = "idle" /\ devState >= STATE_PHY_CONNECTED
Arrived == Storing \/ Stored

(* An association that has not been taken note of is about to be.          *)
LinkInv ==
    /\ WifiInv
    /\ linked => Within(3 * MaxEvents + 3) \/ Arrived
    /\ ctlAt = "check" => devState <= STATE_GOT_IPADDR

(* Steps that wait_for_wifi_exec() has left.                               *)
Left(state) == 3 * (STATE_OTA_COMPLETE - state)
ToExec ==
    CASE ctlAt = "join"  -> 17
      [] ctlAt = "begin" -> 16
      [] ctlAt = "look"  -> Left(devState) + 2
      [] ctlAt = "act"   -> Left(ctlSaw) + 1
      [] ctlAt = "check" -> Left(devState) + 3
      [] OTHER -> 0

-----------------------------------------------------------------------------
(* What a step does to the queue and the link: an event leaves at the      *)
(* head, one is added at the end, or they stay.                            *)
LEMMA TailKeepsLatest ==
  ASSUME WifiTypeOK, queue # <<>>, Consume
  PROVE  /\ \A j \in 2 .. Len(queue) : Latest(j) => Latest(j - 1)'
         /\ Latest(1) => NoneUndoes'
         /\ NoneUndoes => NoneUndoes'
  <1>1. /\ Len(queue') = Len(queue) - 1 /\ Len(queue) \in Nat
        /\ \A i \in 1 .. Len(queue') : queue'[i] = queue[i + 1]
    BY DEF WifiTypeOK, Consume
  <1>2. \A j \in 2 .. Len(queue) : Latest(j) => Latest(j - 1)'
    BY <1>1 DEF Latest
  <1>3. Latest(1) => NoneUndoes'
    BY <1>1 DEF Latest, NoneUndoes
  <1>4. NoneUndoes => NoneUndoes'
    BY <1>1 DEF NoneUndoes
  <1> QED
    BY <1>2, <1>3, <1>4

LEMMA AppendKeepsLatest ==
  ASSUME WifiTypeOK, NEW event \in Events, Report(event)
  PROVE  /\ event # "disconnected" =>
              /\ \A j \in 1 .. Len(queue) : Latest(j) => Latest(j)'
              /\ NoneUndoes => NoneUndoes'
         /\ Len(queue') = Len(queue) + 1
         /\ event = "connected" => Latest(Len(queue))'
  <1>1. /\ Len(queue') = Len(queue) + 1 /\ Len(queue) \in Nat
        /\ \A i \in 1 .. Len(queue) : queue'[i] = queue[i]
        /\ queue'[Len(queue) + 1] = event
    BY DEF WifiTypeOK, Report
  <1>2. \A i \in 1 .. Len(queue') : i = Len(queue) + 1 \/ i \in 1 .. Len(queue)
    BY <1>1
  <1>3. event # "disconnected" => \A j \in 1 .. Len(queue) : Latest(j) => Latest(j)'
    BY <1>1, <1>2 DEF Latest
  <1>4. event # "disconnected" => (NoneUndoes => NoneUndoes')
    BY <1>1, <1>2 DEF NoneUndoes
  <1>5. event = "connected" => Latest(Len(queue))'
    BY <1>1 DEF Latest
  <1> QED
    BY <1>1, <1>3, <1>4, <1>5

(* A step on the event in hand, or the next event taken into it, counts.   *)
LEMMA Fewer ==
  \A j, a, b, k \in Nat : 3 * j + a = k =>
      /\ b < a => 3 * j + b < k
      /\ b <= 2 => 3 * (j - 1) + b < k
  OBVIOUS

(* event_cb() comes nearer to the event with every step.                   *)
LEMMA EventNearer ==
  ASSUME WifiInv, EventTask, NEW k \in Nat, Exactly(k)
  PROVE  Within(k)' \/ Arrived'
  <1> USE DEF WifiInv, flags, ctlState, evtState, network,
              STATE_NEW, STATE_PHY_CONNECTED, STATE_WAIT_IPADDR, STATE_OTA_COMPLETE
  <1>1. PICK j \in 1 .. Len(queue) : Latest(j) /\ 3 * j + InHand = k
    BY DEF Exactly
  <1>2. j \in Nat /\ 3 * j + InHand = k /\ linked
    BY <1>1 DEF WifiTypeOK, Exactly
  <1>3. CASE Store \/ Rejoin
    <2>1. linked' /\ queue' = queue /\ Latest(j)'
      BY <1>1, <1>2, <1>3 DEF Store, Rejoin, Latest
    <2>2. InHand' < InHand /\ InHand \in Nat /\ InHand' \in Nat
      BY <1>3 DEF Store, Rejoin, InHand
    <2>3. j \in 1 .. Len(queue') /\ 3 * j + InHand' < k
      BY <1>2, <2>1, <2>2, Fewer
    <2> QED
      BY <2>1, <2>3 DEF Within
  <1>4. CASE OnConnected \/ OnDisconnected \/ OnAddress
    <2>1. queue # <<>> /\ Consume /\ evtAt = "idle" /\ linked'
      BY <1>2, <1>4 DEF OnConnected, OnDisconnected, OnAddress, Consume
    <2>2. CASE j = 1
      <3>1. OnConnected
        BY <1>1, <1>4, <2>2 DEF Latest, OnConnected, OnDisconnected, OnAddress, WifiTypeOK
      <3>2. NoneUndoes'
        BY <1>1, <2>1, <2>2, TailKeepsLatest
      <3> QED
        BY <2>1, <3>1, <3>2 DEF OnConnected, Arrived, Storing, Stored, WifiTypeOK
    <2>3. CASE j # 1
      <3>1. Latest(j - 1)' /\ j - 1 \in 1 .. Len(queue')
        <4>1. Latest(j - 1)'
          BY <1>1, <2>1, <2>3, TailKeepsLatest
        <4> QED
          BY <4>1 DEF Latest
      <3>2. InHand \in Nat /\ InHand' \in Nat /\ InHand' <= 2
        BY <2>1 DEF InHand
      <3>3. 3 * (j - 1) + InHand' < k
        <4>1. \A b \in Nat : b <= 2 => 3 * (j - 1) + b < k
          BY <1>2, <3>2, Fewer
        <4> QED
          BY <3>2, <4>1
      <3> QED
        BY <2>1, <3>1, <3>3 DEF Within
    <2> QED
      BY <2>2, <2>3
  <1> QED
    BY <1>3, <1>4 DEF EventTask

(* Once the event has been taken, event_cb() stores what it says, or finds *)
(* devState further on.                                                    *)
LEMMA EventKeepsArrived ==
  ASSUME WifiInv, EventTask, Arrived
  PROVE  Stored'
  <1> USE DEF WifiInv, flags, ctlState, evtState, network,
              STATE_NEW, STATE_PHY_CONNECTED, STATE_WAIT_IPADDR, STATE_OTA_COMPLETE
  <1>1. CASE Storing
    BY <1>1 DEF Storing, Stored, NoneUndoes, EventTask, Store, Rejoin, OnConnected,
                OnDisconnected, OnAddress
  <1>2. CASE Stored
    <2>1. queue # <<>> /\ Consume /\ ~OnDisconnected
      <3>1. queue # <<>> /\ Consume
        BY <1>2 DEF Stored, EventTask, Store, Rejoin, OnConnected, OnDisconnected, OnAddress
      <3>2. Head(queue) # "disconnected"
        BY <1>2, <3>1 DEF Stored, NoneUndoes, WifiTypeOK
      <3> QED
        BY <3>1, <3>2 DEF OnDisconnected
    <2>2. NoneUndoes'
      BY <1>2, <2>1, TailKeepsLatest DEF Stored
    <2> QED
      BY <1>2, <2>1, <2>2, Fewer
         DEF Stored, EventTask, Store, Rejoin, OnConnected, OnAddress, Consume, WifiTypeOK
  <1> QED
    BY <1>1, <1>2 DEF Arrived

(* The network takes the association back, or leaves all as it is; a new   *)
(* association is reported at the end of the queue.                        *)
LEMMA NetworkKeeps ==
  ASSUME WifiInv, Network, linked'
  PROVE  /\ \A k \in Nat : Exactly(k) => Exactly(k)'
         /\ \A k \in Nat : Within(k) => Within(k)'
         /\ Storing => Storing'
         /\ Stored => Stored'
         /\ ~linked => Within(3 * MaxEvents + 3)'
  <1> USE EventsAssumption
      DEF WifiInv, flags, ctlState, evtState, STATE_NEW, STATE_PHY_CONNECTED
  <1>0. UNCHANGED <<devState, evtAt, evtPuts>> /\ InHand' = InHand /\ InHand \in 0 .. 2
    BY DEF Network, InHand
  <1>1. PICK event \in Events : Report(event) /\ event # "disconnected"
                                /\ (~linked => event = "connected")
    BY DEF Network, Events, WifiTypeOK
  <1>2. /\ \A j \in 1 .. Len(queue) : Latest(j) => Latest(j)'
        /\ NoneUndoes => NoneUndoes'
        /\ Len(queue') = Len(queue) + 1 /\ Len(queue) \in Nat
        /\ ~linked => Latest(Len(queue))'
    BY <1>1, AppendKeepsLatest DEF WifiTypeOK
  <1>3. \A k \in Nat : Exactly(k) => Exactly(k)'
    BY <1>0, <1>2 DEF Exactly
  <1>4. \A k \in Nat : Within(k) => Within(k)'
    BY <1>0, <1>2 DEF Within
  <1>5. (Storing => Storing') /\ (Stored => Stored')
    BY <1>0, <1>2 DEF Storing, Stored
  <1>6. ASSUME ~linked PROVE Within(3 * MaxEvents + 3)'
    <2>1. Len(queue') \in 1 .. Len(queue') /\ Len(queue') <= MaxEvents
      BY <1>1, <1>2 DEF Report
    <2>2. Latest(Len(queue))'
      BY <1>2, <1>6
    <2>3. 3 * Len(queue') + InHand' < 3 * MaxEvents + 3
      BY <1>0, <1>2, <2>1
    <2> QED
      BY <2>1, <2>2, <2>3 DEF Within
  <1> QED
    BY <1>3, <1>4, <1>5, <1>6

(* The control task's part leaves the queue and the event task alone.      *)
LEMMA OthersKeep ==
  ASSUME WifiInv, BringUp \/ UNCHANGED wifiVars, ctlAt # "expired"
  PROVE  /\ linked' = linked
         /\ \A k \in Nat : Exactly(k) => Exactly(k)'
         /\ \A k \in Nat : Within(k) => Within(k)'
         /\ Storing => Storing'
         /\ Stored => Stored'
  <1> USE DEF WifiInv, flags, ctlState, evtState, network, wifiVars,
              STATE_NEW, STATE_PHY_CONNECTED, STATE_WAIT_IPADDR, STATE_GOT_IPADDR,
              STATE_OTA_UPDATING, STATE_OTA_COMPLETE
  <1>1. UNCHANGED <<queue, linked, evtAt, evtPuts>>
    BY DEF BringUp, Join, Begin, Look, Act, CheckAddress, Expire
  <1>2. devState' >= STATE_PHY_CONNECTED \/ devState' = devState
    BY DEF BringUp, Join, Begin, Look, Act, CheckAddress, Expire, WifiTypeOK
  <1>3. /\ InHand' = InHand /\ (NoneUndoes => NoneUndoes')
        /\ \A j \in 1 .. Len(queue) : Latest(j) => Latest(j)'
    BY <1>1 DEF InHand, NoneUndoes, Latest
  <1> QED
    BY <1>1, <1>2, <1>3 DEF Exactly, Within, Storing, Stored

(* The steps of Uplink, as the lemmas above take them.                     *)
LEMMA UplinkSteps ==
  ASSUME [UplinkNext]_uplinkVars
  PROVE  EventTask \/ Network \/ BringUp \/ UNCHANGED wifiVars
  BY DEF UplinkNext, StartUp, Exec, EventStep, Surroundings, uplinkVars

(* As long as the timeout is not over, every step keeps LinkInv.           *)
LEMMA LinkStep ==
  LinkInv /\ ctlAt # "expired" /\ UplinkInv /\ UplinkInv' /\ [UplinkNext]_uplinkVars
    => LinkInv'
  <1> SUFFICES ASSUME LinkInv, ctlAt # "expired", UplinkInv', [UplinkNext]_uplinkVars
               PROVE  LinkInv'
    OBVIOUS
  <1> DEFINE K == 3 * MaxEvents + 3
  <1>0. WifiInv /\ WifiInv' /\ K \in Nat
    BY EventsAssumption DEF LinkInv, UplinkInv
  <1>1. ASSUME linked' PROVE Within(K)' \/ Arrived'
    <2>1. CASE EventTask
      <3>1. linked
        BY <1>1, <2>1 DEF EventTask, OnConnected, OnDisconnected, Store, Rejoin, OnAddress,
                          Consume, network
      <3>2. CASE Within(K)
        <4>1. PICK k \in Nat : k < K /\ Exactly(k)
          BY <1>0, <3>2 DEF Within, Exactly, InHand, WifiInv, WifiTypeOK
        <4>2. Within(k)' \/ Arrived'
          BY <1>0, <2>1, <4>1, EventNearer
        <4>3. (\A j \in 1 .. Len(queue) : 3 * j + InHand \in Nat)'
          BY <1>0 DEF InHand, WifiInv, WifiTypeOK
        <4>4. Within(k)' => Within(K)'
          BY <1>0, <4>1, <4>3 DEF Within
        <4> QED
          BY <4>2, <4>4
      <3> QED
        BY <1>0, <2>1, <3>1, <3>2, EventKeepsArrived DEF LinkInv, Arrived
    <2>2. CASE Network
      BY <1>0, <1>1, <2>2, NetworkKeeps DEF LinkInv, Arrived
    <2>3. CASE BringUp \/ UNCHANGED wifiVars
      BY <1>0, <1>1, <2>3, OthersKeep DEF LinkInv, Arrived
    <2> QED
      BY <2>1, <2>2, <2>3, UplinkSteps
  <1>2. (ctlAt = "check" => devState <= STATE_GOT_IPADDR)'
    <2> USE <1>0 DEF LinkInv, WifiInv, WifiTypeOK, flags, ctlState, evtState, network,
                     wifiVars, STATE_NEW, STATE_PHY_CONNECTED, STATE_WAIT_IPADDR,
                     STATE_GOT_IPADDR, STATE_OTA_UPDATING, STATE_OTA_COMPLETE
    <2>1. CASE EventTask
      BY <2>1 DEF EventTask, OnConnected, OnDisconnected, Store, Rejoin, OnAddress
    <2>2. CASE BringUp
      BY <2>2 DEF BringUp, Join, Begin, Look, Act, CheckAddress, Expire
    <2>3. CASE Network \/ UNCHANGED wifiVars
      BY <2>3 DEF Network
    <2> QED
      BY <2>1, <2>2, <2>3, UplinkSteps
  <1> QED
    BY <1>0, <1>1, <1>2 DEF LinkInv

-----------------------------------------------------------------------------
(* Fair tasks that can step, and a timeout that is never found over.       *)
InTime == UplinkFairSpec /\ []UplinkCanStep /\ [](ctlAt # "expired")

LEMMA LinkHolds == InTime => []LinkInv
  <1>1. UplinkInit => LinkInv
    BY UplinkInitInv DEF UplinkInit, UplinkInv, WifiInit, LinkInv
  <1> QED
    BY <1>1, LinkStep, UplinkInvariance, PTL DEF InTime, UplinkFairSpec, UplinkSpec

(* The event task comes from less than i steps away to less than k.        *)
EventFalls(i, k) == InTime => (Within(i) ~> Within(k) \/ Arrived \/ ~linked)

LEMMA EventComesNearer == \A k \in Nat : EventFalls(k + 1, k)
  <1> SUFFICES ASSUME NEW k \in Nat PROVE EventFalls(k + 1, k)
    OBVIOUS
  <1>1. LinkInv /\ Within(k + 1) => Exactly(k) \/ Within(k)
    <2>1. LinkInv => \A j \in 1 .. Len(queue) : 3 * j + InHand \in Nat
      BY DEF LinkInv, WifiInv, WifiTypeOK, InHand
    <2> QED
      BY <2>1 DEF Within, Exactly
  <1>2. LinkInv /\ ctlAt # "expired" /\ Exactly(k) /\ [UplinkNext]_uplinkVars
          => Exactly(k)' \/ Within(k)' \/ Arrived' \/ ~linked'
    BY UplinkSteps, EventNearer, NetworkKeeps, OthersKeep DEF LinkInv
  <1>3. LinkInv /\ Exactly(k) /\ <<EventStep>>_uplinkVars => Within(k)' \/ Arrived'
    BY EventNearer DEF LinkInv, EventStep
  <1>4. LinkInv /\ UplinkCanStep /\ Exactly(k) => ENABLED <<EventStep>>_uplinkVars
    BY DEF UplinkCanStep, Exactly, LinkInv, WifiInv, WifiTypeOK
  <1>5. ~linked' <=> (~linked)'
    OBVIOUS
  <1> QED
    BY <1>1, <1>2, <1>3, <1>4, <1>5, LinkHolds, PTL
       DEF InTime, UplinkFairSpec, UplinkSpec, EventFalls

LEMMA EventFallsOn ==
  \A i, j, k \in Nat : EventFalls(i, j) /\ EventFalls(j, k) => EventFalls(i, k)
  <1> SUFFICES ASSUME NEW i \in Nat, NEW j \in Nat, NEW k \in Nat
               PROVE  EventFalls(i, j) /\ EventFalls(j, k) => EventFalls(i, k)
    OBVIOUS
  <1> QED
    BY PTL DEF EventFalls

(* The report of an association is reached through a full queue.           *)
LEMMA ReportTaken == EventFalls(128, 0)
  <1>1. \A k \in Nat : EventFalls(k + 1, k)
    BY EventComesNearer
  <1>2. \A k \in Nat : EventFalls(k + 2, k)
    BY <1>1, EventFallsOn
  <1>3. \A k \in Nat : EventFalls(k + 4, k)
    BY <1>2, EventFallsOn
  <1>4. \A k \in Nat : EventFalls(k + 8, k)
    BY <1>3, EventFallsOn
  <1>5. \A k \in Nat : EventFalls(k + 16, k)
    BY <1>4, EventFallsOn
  <1>6. \A k \in Nat : EventFalls(k + 32, k)
    BY <1>5, EventFallsOn
  <1>7. \A k \in Nat : EventFalls(k + 64, k)
    BY <1>6, EventFallsOn
  <1>8. \A k \in Nat : EventFalls(k + 128, k)
    BY <1>7, EventFallsOn
  <1> QED
    BY <1>8

-----------------------------------------------------------------------------
(* wait_for_wifi_exec() has at most 17 steps left.                         *)
LEMMA ToExecBounded == LinkInv /\ Stored /\ ctlAt # "expired" => ToExec \in 0 .. 17
  <1> SUFFICES ASSUME LinkInv, Stored, ctlAt # "expired" PROVE ToExec \in 0 .. 17
    OBVIOUS
  <1>1. /\ devState \in 1 .. 5
        /\ ctlAt = "act" => ctlSaw \in 1 .. 4
        /\ ctlAt \in {"join", "begin", "look", "act", "check", "exec"}
    BY DEF LinkInv, WifiInv, WifiTypeOK, Stored, STATE_NEW, STATE_PHY_CONNECTED,
           STATE_OTA_UPDATING, STATE_OTA_COMPLETE
  <1>2. ctlAt = "check" => devState <= 3
    BY DEF LinkInv, STATE_GOT_IPADDR
  <1> QED
    BY <1>1, <1>2 DEF ToExec, Left, STATE_OTA_COMPLETE

(* With devState past STATE_NEW for good, every step of the control task   *)
(* brings ex_main() nearer and no other step takes it away.                *)
LEMMA ExecNearer ==
  ASSUME LinkInv, Stored, ctlAt # "exec", ctlAt # "expired", [UplinkNext]_uplinkVars
  PROVE  /\ ToExec \in 0 .. 17
         /\ linked' => Stored'
         /\ linked' /\ ~StartUp => ToExec' = ToExec
         /\ StartUp => \/ ctlAt' = "exec"
                       \/ ctlAt' = "expired"
                       \/ ToExec' < ToExec
  <1> USE DEF STATE_NEW, STATE_PHY_CONNECTED, STATE_WAIT_IPADDR, STATE_GOT_IPADDR,
              STATE_OTA_UPDATING, STATE_OTA_COMPLETE, ToExec, Left
  <1>0. WifiInv /\ WifiTypeOK /\ devState >= 1 /\ (ctlAt = "check" => devState <= 3)
    BY DEF LinkInv, WifiInv, Stored
  <1>1. ToExec \in 0 .. 17
    BY ToExecBounded
  <1>2. linked' => Stored'
    <2>1. CASE EventTask
      BY <1>0, <2>1, EventKeepsArrived DEF Arrived
    <2>2. CASE Network
      BY <1>0, <2>2, NetworkKeeps
    <2>3. CASE BringUp \/ UNCHANGED wifiVars
      BY <1>0, <2>3, OthersKeep
    <2> QED
      BY <2>1, <2>2, <2>3, UplinkSteps
  <1>3. ASSUME ~StartUp PROVE ToExec' = ToExec
    <2>1. UNCHANGED <<ctlAt, ctlSaw, devState>>
      BY <1>0, <1>3
         DEF UplinkNext, Exec, EventStep, Surroundings, uplinkVars, wifiVars, ctlState,
             Stored, EventTask, OnConnected, OnDisconnected, Store, Rejoin, OnAddress, Network
    <2> QED
      BY <2>1
  <1>4. ASSUME StartUp PROVE ctlAt' = "exec" \/ ctlAt' = "expired" \/ ToExec' < ToExec
    <2> USE <1>0 DEF WifiInv, WifiTypeOK
    <2>1. CASE Join \/ Begin
      BY <2>1 DEF Join, Begin
    <2>2. CASE Look
      BY <2>2 DEF Look
    <2>3. CASE Act
      BY <2>3 DEF Act
    <2>4. CASE CheckAddress
      BY <2>4 DEF CheckAddress
    <2> QED
      BY <1>4, <2>1, <2>2, <2>3, <2>4 DEF StartUp, BringUp, Expire
  <1> QED
    BY <1>1, <1>2, <1>3, <1>4

ExecFalls(i, k) ==
    InTime => ((Stored /\ ToExec < i)
                  ~> ((Stored /\ ToExec < k) \/ ctlAt = "exec" \/ ~linked))

LEMMA ExecComesNearer == \A k \in Nat : ExecFalls(k + 1, k)
  <1> SUFFICES ASSUME NEW k \in Nat PROVE ExecFalls(k + 1, k)
    OBVIOUS
  <1> DEFINE Here == Stored /\ ToExec = k /\ ctlAt # "exec"
             Below == Stored /\ ToExec < k
             There == ctlAt = "exec"
             Gone == ~linked
             Late == ~(ctlAt # "expired")
  <1>1. LinkInv /\ ctlAt # "expired" /\ Stored /\ ToExec < k + 1 => Here \/ Below \/ There
    BY ToExecBounded
  <1>2. LinkInv /\ ctlAt # "expired" /\ Here /\ [UplinkNext]_uplinkVars
          => Here' \/ Below' \/ There' \/ Gone' \/ Late'
    BY ExecNearer
  <1>3. LinkInv /\ ctlAt # "expired" /\ Here /\ <<UplinkNext /\ StartUp>>_uplinkVars
          => Below' \/ There' \/ Gone' \/ Late'
    BY ExecNearer
  <1>4. UplinkCanStep /\ Here => ENABLED <<StartUp>>_uplinkVars
    BY DEF UplinkCanStep, Stored, STATE_NEW, STATE_PHY_CONNECTED
  <1>5. <<StartUp>>_uplinkVars => <<UplinkNext /\ StartUp>>_uplinkVars
    BY DEF UplinkNext
  <1> QED
    BY <1>1, <1>2, <1>3, <1>4, <1>5, LinkHolds, PTL
       DEF InTime, UplinkFairSpec, UplinkSpec, ExecFalls

LEMMA ExecFallsOn ==
  \A i, j, k \in Nat : ExecFalls(i, j) /\ ExecFalls(j, k) => ExecFalls(i, k)
  <1> SUFFICES ASSUME NEW i \in Nat, NEW j \in Nat, NEW k \in Nat
               PROVE  ExecFalls(i, j) /\ ExecFalls(j, k) => ExecFalls(i, k)
    OBVIOUS
  <1> QED
    BY PTL DEF ExecFalls

(* All of them are taken.                                                  *)
LEMMA ExecReached == ExecFalls(32, 0)
  <1>1. \A k \in Nat : ExecFalls(k + 1, k)
    BY ExecComesNearer
  <1>2. \A k \in Nat : ExecFalls(k + 2, k)
    BY <1>1, ExecFallsOn
  <1>3. \A k \in Nat : ExecFalls(k + 4, k)
    BY <1>2, ExecFallsOn
  <1>4. \A k \in Nat : ExecFalls(k + 8, k)
    BY <1>3, ExecFallsOn
  <1>5. \A k \in Nat : ExecFalls(k + 16, k)
    BY <1>4, ExecFallsOn
  <1>6. \A k \in Nat : ExecFalls(k + 32, k)
    BY <1>5, ExecFallsOn
  <1> QED
    BY <1>6

-----------------------------------------------------------------------------
(* However the events of earlier associations and their loss are delayed,  *)
(* and whatever the two tasks store into devState over each other: a       *)
(* station that stays associated gets to ex_main(), if wait_for_wifi_exec()*)
(* does not find its timeout over.                                         *)
THEOREM AssociationStartsExec ==
  ASSUME MaxEvents <= 32
  PROVE  UplinkFairSpec /\ []UplinkCanStep => AssociatedThenExec
  <1>1. EventFalls(128, 0) /\ ExecFalls(32, 0)
    BY ReportTaken, ExecReached
  <1>2. LinkInv /\ linked => Within(128) \/ Storing \/ Stored
    <2>1. LinkInv => \A j \in 1 .. Len(queue) : 3 * j + InHand \in Nat
      BY DEF LinkInv, WifiInv, WifiTypeOK, InHand
    <2>2. LinkInv /\ Within(3 * MaxEvents + 3) => Within(128)
      BY <2>1, EventsAssumption DEF Within
    <2> QED
      BY <2>2 DEF LinkInv, Arrived
  <1>3. /\ LinkInv => ~Within(0)
        /\ Arrived => Storing \/ Stored
    BY DEF LinkInv, WifiInv, WifiTypeOK, Within, InHand, Arrived
  <1>4. LinkInv /\ ctlAt # "expired" /\ Storing /\ [UplinkNext]_uplinkVars
          => Storing' \/ Stored' \/ (~linked)'
    BY UplinkSteps, EventKeepsArrived, NetworkKeeps, OthersKeep DEF LinkInv, Arrived
  <1>5. LinkInv /\ Storing /\ <<EventStep>>_uplinkVars => Stored'
    BY EventKeepsArrived DEF LinkInv, EventStep, Arrived
  <1>6. UplinkCanStep /\ Storing => ENABLED <<EventStep>>_uplinkVars
    BY DEF UplinkCanStep, Storing
  <1>7. LinkInv /\ ctlAt # "expired" /\ Stored => (Stored /\ ToExec < 32) \/ ctlAt = "exec"
    BY ToExecBounded
  <1>8. LinkInv /\ ctlAt # "expired" /\ Stored => ~(ToExec < 0)
    BY ToExecBounded
  <1> QED
    BY <1>1, <1>2, <1>3, <1>4, <1>5, <1>6, <1>7, <1>8, LinkHolds, PTL
       DEF InTime, UplinkFairSpec, UplinkSpec, EventFalls, ExecFalls, AssociatedThenExec

-----------------------------------------------------------------------------
(* The calls that connect() has left, unless the login is refused.         *)
LoginPos ==
    CASE loginAt = "new"      -> 11
      [] loginAt = "options"  -> 10
      [] loginAt = "dial"     -> 9
      [] loginAt = "none"     -> 8
      [] loginAt = "gssapi"   -> 7
      [] loginAt = "password" -> 6
      [] loginAt = "channel"  -> 5
      [] loginAt = "open"     -> 4
      [] loginAt = "pty"      -> 3
      [] loginAt = "size"     -> 2
      [] loginAt = "shell"    -> 1
      [] OTHER -> 0

(* connect() comes nearer to its end with every call, and nothing else     *)
(* moves it.                                                               *)
LEMMA LoginDescends ==
  ASSUME UplinkInv, loginAt \notin {"idle", "wipe"}
  PROVE  /\ LoginPos \in 1 .. 11
         /\ Connecting => LoginPos' \in Nat /\ LoginPos' < LoginPos
         /\ [UplinkNext]_uplinkVars => LoginPos' \in Nat /\ LoginPos' <= LoginPos
  <1>1. loginAt \in {"new", "options", "dial", "none", "gssapi", "password",
                     "channel", "open", "pty", "size", "shell"}
    BY DEF UplinkInv, LoginInv, LoginTypeOK, ShellRequests
  <1>2. LoginPos \in 1 .. 11
    BY <1>1 DEF LoginPos
  <1>3. ASSUME NEW reachable \in BOOLEAN, InConnect(reachable)
        PROVE  LoginPos' \in Nat /\ LoginPos' < LoginPos
    <2> USE <1>1 DEF LoginPos, GiveUp, Proceed, LoggedIn, TearDown
    <2>1. CASE NewSession \/ SetOptions \/ Dial(reachable)
      BY <2>1 DEF NewSession, SetOptions, Dial
    <2>2. CASE AuthNone \/ AuthGssapi \/ AuthPassword
      BY <2>2 DEF AuthNone, AuthGssapi, AuthPassword
    <2>3. CASE NewChannel
      BY <2>3 DEF NewChannel
    <2>4. CASE Request
      BY <2>4 DEF Request, AfterRequest, ShellRequests
    <2>5. ~Wipe
      BY DEF Wipe
    <2> QED
      BY <1>3, <2>1, <2>2, <2>3, <2>4, <2>5 DEF InConnect
  <1>4. address \in BOOLEAN
    BY DEF UplinkInv, WifiInv, WifiTypeOK
  <1>5. ASSUME UNCHANGED loginVars PROVE LoginPos' = LoginPos
    BY <1>5 DEF loginVars, LoginPos
  <1>6. [UplinkNext]_uplinkVars => InConnect(address) \/ UNCHANGED loginVars
    BY DEF UplinkNext, StartUp, Exec, EventStep, Surroundings, uplinkVars, LoginStep,
           LoginBegins, Disconnect
  <1> QED
    BY <1>2, <1>3, <1>4, <1>5, <1>6 DEF Connecting

LoginFalls(i, k) ==
    UplinkSpec /\ []UplinkCanStep /\ WF_uplinkVars(Connecting)
       => (LoginPos < i ~> LoginPos < k)

LEMMA LoginComesNearer == \A k \in Nat \ {0} : LoginFalls(k + 1, k)
  <1> SUFFICES ASSUME NEW k \in Nat \ {0} PROVE LoginFalls(k + 1, k)
    OBVIOUS
  <1>1. LoginPos = k => loginAt \notin {"idle", "wipe"}
    BY DEF LoginPos
  <1>2. UplinkInv /\ LoginPos < k + 1 => LoginPos = k \/ LoginPos < k
    <2>1. UplinkInv => LoginPos \in Nat
      BY LoginDescends DEF LoginPos
    <2> QED
      BY <2>1
  <1>3. UplinkInv /\ LoginPos = k /\ [UplinkNext]_uplinkVars
          => (LoginPos = k)' \/ (LoginPos < k)'
    BY <1>1, LoginDescends
  <1>4. UplinkInv /\ LoginPos = k /\ <<Connecting>>_uplinkVars => (LoginPos < k)'
    BY <1>1, LoginDescends
  <1>5. UplinkCanStep /\ LoginPos = k => ENABLED <<Connecting>>_uplinkVars
    BY <1>1 DEF UplinkCanStep
  <1> QED
    BY <1>2, <1>3, <1>4, <1>5, UplinkInvariance, PTL DEF UplinkSpec, LoginFalls

LEMMA LoginFallsOn ==
  \A i, j, k \in Nat : LoginFalls(i, j) /\ LoginFalls(j, k) => LoginFalls(i, k)
  <1> SUFFICES ASSUME NEW i \in Nat, NEW j \in Nat, NEW k \in Nat
               PROVE  LoginFalls(i, j) /\ LoginFalls(j, k) => LoginFalls(i, k)
    OBVIOUS
  <1> QED
    BY PTL DEF LoginFalls

(* connect() returns, if libssh does, unless a round of                    *)
(* authenticate_console() ends in a refusal.                               *)
THEOREM LoginsReturn == UplinkSpec /\ []UplinkCanStep => LoginReturns
  <1>1. LoginFalls(12, 9)
    BY LoginComesNearer, LoginFallsOn
  <1>2. LoginFalls(9, 5)
    BY LoginComesNearer, LoginFallsOn
  <1>3. LoginFalls(5, 1)
    BY LoginComesNearer, LoginFallsOn
  <1>4. LoginFalls(12, 1)
    BY <1>1, <1>2, <1>3, LoginFallsOn
  <1>5. UplinkInv /\ loginAt # "idle" => LoginPos < 12
    BY LoginDescends DEF LoginPos
  <1>6. UplinkInv /\ LoginPos < 1 => loginAt \in {"idle", "wipe"}
    BY LoginDescends
  <1> QED
    BY <1>4, <1>5, <1>6, UplinkInvariance, PTL DEF LoginFalls, LoginReturns

(* authenticate_console() is in its loop with nothing to try.              *)
NoMethodLeft == loginAt \in {"gssapi", "password", "wipe"} /\ methods = {}

(* A peer that offers neither method holds connect() in the loop for ever, *)
(* whatever else happens: the control task that Bridge calls hung.         *)
THEOREM NoMethodNoReturn == UplinkSpec => [](NoMethodLeft => []NoMethodLeft)
  <1>1. UplinkInv /\ NoMethodLeft /\ [UplinkNext]_uplinkVars => NoMethodLeft'
    <2> SUFFICES ASSUME NoMethodLeft, [UplinkNext]_uplinkVars PROVE NoMethodLeft'
      OBVIOUS
    <2> USE DEF NoMethodLeft
    <2>1. CASE UNCHANGED loginVars
      BY <2>1 DEF loginVars
    <2>2. CASE LoginStep(address)
      BY <2>2 DEF LoginStep, InConnect, LoginBegins, NewSession, SetOptions, Dial,
                  AuthNone, AuthGssapi, AuthPassword, Wipe, NewChannel, Request,
                  ShellRequests, Proceed, Leaves
    <2>3. ~Disconnect
      BY DEF Disconnect
    <2> QED
      BY <2>1, <2>2, <2>3 DEF UplinkNext, StartUp, Exec, EventStep, Surroundings, uplinkVars
  <1> QED
    BY <1>1, UplinkInvariance, PTL DEF UplinkSpec
===============================================================================
