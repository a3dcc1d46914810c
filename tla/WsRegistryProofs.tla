-------------------------- MODULE WsRegistryProofs ---------------------------
(***************************************************************************)
(* Proofs about WsRegistry for any number of addresses and entries.        *)
(***************************************************************************)
EXTENDS WsRegistry, FiniteSetTheorems, TLAPS

(* The array, the mutex and both tasks start out as the invariant says.    *)
LEMMA RegistryInitInv == WsInit => RegistryInv
  <1> SUFFICES ASSUME WsInit PROVE RegistryInv
    OBVIOUS
  <1>1. Allocated = {}
    BY DEF WsInit, Allocated
  <1>2. Cardinality(Allocated) <= MaxClients
    BY <1>1, FS_EmptySet, RegistryAssumption
  <1> QED
    BY <1>2, RegistryAssumption
       DEF WsInit, RegistryInv, WsTypeOK, ArrayGuarded, BusyWith, StaleOnlyIfSkipped,
           OpenClientRegistered, InitRegistered, Slots

(* The connections the server accepts bound the handlers there are.        *)
LEMMA AllocatedBounded ==
  ASSUME RegistryInv, [WsNext]_wsVars
  PROVE  (Cardinality(Allocated) <= MaxClients)'
  <1> USE RegistryAssumption DEF RegistryInv, WsTypeOK
  <1>0. IsFiniteSet(Allocated) /\ IsFiniteSet(Allocated')
        /\ Cardinality(Allocated) \in Nat /\ Cardinality(Allocated') \in Nat
    <2>1. Allocated \subseteq Handlers /\ Allocated' \subseteq Handlers
      BY DEF Allocated
    <2> QED
      BY <2>1, FS_Subset, FS_CardinalityType
  <1>1. ASSUME NEW h \in Handlers, Create(h)
        PROVE  Cardinality(Allocated') <= MaxClients
    <2>1. Allocated' = Allocated \cup {h} /\ h \notin Allocated
      BY <1>1 DEF Create, Allocated
    <2>2. Cardinality(Allocated) < MaxClients
      BY <1>1 DEF Create
    <2> QED
      BY <2>1, <2>2, <1>0, FS_AddElement
  <1>2. CASE Allocated' \subseteq Allocated
    BY <1>0, <1>2, FS_Subset
  <1>3. CASE UNCHANGED handler
    BY <1>3 DEF Allocated
  <1>4. ASSUME NEW h \in Handlers, Drop(h)
        PROVE  Allocated' \subseteq Allocated
    BY <1>4 DEF Drop, Allocated
  <1>5. CASE Initialize \/ Delete \/ Panic
    <2>1. Allocated' \subseteq Allocated
      BY <1>5 DEF Initialize, Delete, Panic, SendPanics, MisgivePanics, StartsOver,
                  BusyWith, Allocated
    <2> QED
      BY <1>2, <2>1
  <1> QED
    BY <1>1, <1>2, <1>3, <1>4, <1>5
       DEF WsNext, Progress, Visit, Walk, Calls, Panic, wsVars, ServerTakes,
           ServerTimesOut, Insert, Remove, OnClose, Output, SenderTakes,
           SenderTimesOut, Pass, Send, SendEnds, Misgive

(* As long as nothing has been skipped there is a free entry for a new     *)
(* client: the other entries belong to different handlers, of which there  *)
(* are fewer than entries.                                                 *)
LEMMA FreeEntry ==
  ASSUME RegistryInv, srvAt = "insert", skipped = {}
  PROVE  \E i \in Slots : clients[i] = None
  <1> SUFFICES ASSUME \A i \in Slots : clients[i] # None
               PROVE  FALSE
    OBVIOUS
  <1> USE RegistryAssumption DEF RegistryInv, WsTypeOK
  <1> DEFINE Others == Allocated \ {srvFor}
  <1>1. srvFor \in Allocated
    BY DEF BusyWith, Allocated
  <1>2. clients \in [Slots -> Others]
    BY DEF StaleOnlyIfSkipped, BusyWith
  <1>3. IsFiniteSet(Allocated) /\ Cardinality(Allocated) \in Nat
    <2>1. Allocated \in SUBSET Handlers
      BY DEF Allocated
    <2> QED
      BY <2>1, FS_Subset, FS_CardinalityType
  <1>4. IsFiniteSet(Others) /\ Cardinality(Others) = Cardinality(Allocated) - 1
    BY <1>1, <1>3, FS_RemoveElement
  <1>5. IsFiniteSet(Slots) /\ Cardinality(Slots) = MaxClients
    BY FS_Interval DEF Slots
  <1>6. Cardinality(Others) < Cardinality(Slots)
    BY <1>3, <1>4, <1>5
  <1>7. \E i, j \in Slots : i # j /\ clients[i] = clients[j]
    BY <1>2, <1>4, <1>5, <1>6, FS_PigeonHole
  <1> QED
    BY <1>7 DEF OpenClientRegistered

(* What the steps keep, apart from the bound on the handlers.              *)
Kept ==
    /\ WsTypeOK
    /\ ArrayGuarded
    /\ BusyWith
    /\ StaleOnlyIfSkipped
    /\ OpenClientRegistered
    /\ InitRegistered

(* Every step of either side, a panic included, keeps the types, the       *)
(* mutex discipline and what the entries have to do with the handlers.     *)
LEMMA RegistryStep == RegistryInv /\ [WsNext]_wsVars => RegistryInv'
  <1> SUFFICES ASSUME RegistryInv, [WsNext]_wsVars
               PROVE  Kept'
    BY AllocatedBounded DEF RegistryInv, Kept
  <1> USE RegistryAssumption
      DEF RegistryInv, Kept, WsTypeOK, ArrayGuarded, BusyWith, StaleOnlyIfSkipped,
          OpenClientRegistered, InitRegistered, Allocated, ServerGoes, SenderGoes,
          srvState, sndState, Slots
  <1>1. ASSUME NEW h \in Handlers, Create(h)
        PROVE  Kept'
    BY <1>1 DEF Create
  <1>2. CASE ServerTakes
    BY <1>2 DEF ServerTakes
  <1>3. CASE ServerTimesOut
    BY <1>3 DEF ServerTimesOut
  <1>4. CASE Insert
    <2>1. ASSUME NEW i \in Slots, clients[i] = None,
                 clients' = [clients EXCEPT ![i] = srvFor]
          PROVE  Kept'
      BY <1>4, <2>1 DEF Insert
    <2>2. CASE (\A i \in Slots : clients[i] # None) /\ UNCHANGED clients
      BY <1>4, <2>2, FreeEntry DEF Insert
    <2> QED
      BY <1>4, <2>1, <2>2 DEF Insert
  <1>5. CASE Initialize
    BY <1>5 DEF Initialize
  <1>6. ASSUME NEW h \in Handlers, OnClose(h)
        PROVE  Kept'
    BY <1>6 DEF OnClose
  <1>7. CASE Remove
    BY <1>7 DEF Remove
  <1>8. CASE Delete
    BY <1>8 DEF Delete
  <1>9. ASSUME NEW h \in Handlers, Drop(h)
        PROVE  Kept'
    BY <1>9 DEF Drop
  <1>10. CASE Output
    BY <1>10 DEF Output
  <1>11. CASE SenderTakes
    BY <1>11 DEF SenderTakes
  <1>12. CASE SenderTimesOut
    BY <1>12 DEF SenderTimesOut
  <1>13. CASE Pass \/ Send
    BY <1>13 DEF Pass, Send, SendsTo
  <1>14. CASE SendEnds
    BY <1>14 DEF SendEnds
  <1>15. CASE Misgive
    BY <1>15 DEF Misgive
  <1>16. CASE Panic
    BY <1>16 DEF Panic, SendPanics, MisgivePanics, StartsOver
  <1>17. CASE UNCHANGED wsVars
    BY <1>17 DEF wsVars
  <1> QED
    BY <1>1, <1>2, <1>3, <1>4, <1>5, <1>6, <1>7, <1>8, <1>9, <1>10, <1>11, <1>12,
       <1>13, <1>14, <1>15, <1>16, <1>17
       DEF WsNext, Progress, Visit, Walk, Calls, Panic

(* The inductive invariant holds whatever the environment does.            *)
THEOREM RegistryInvariant == WsSpec => []RegistryInv
  <1> QED
    BY RegistryInitInv, RegistryStep, PTL DEF WsSpec

(* Types: in particular the walk and the searches stay inside the array.   *)
THEOREM RegistryTypes == WsSpec => []WsTypeOK
  <1>1. RegistryInv => WsTypeOK
    BY DEF RegistryInv
  <1> QED
    BY <1>1, RegistryInvariant, PTL

(* The array is read and changed under the mutex only, and by one side at  *)
(* a time, although loop() also gives a mutex it does not hold.            *)
THEOREM ArrayIsGuarded == WsSpec => []ArrayGuarded
  <1>1. RegistryInv => ArrayGuarded
    BY DEF RegistryInv
  <1> QED
    BY <1>1, RegistryInvariant, PTL

(* An entry outlives its handler only if its removal was skipped.          *)
THEOREM StaleEntriesExplained == WsSpec => []StaleOnlyIfSkipped
  <1>1. RegistryInv => StaleOnlyIfSkipped
    BY DEF RegistryInv
  <1> QED
    BY <1>1, RegistryInvariant, PTL

(* send() meets a handler that is not open only because the client has not *)
(* been initialised yet or because the mutex or onClose() was passed over. *)
THEOREM SendsExplained == WsSpec => []SentToExplained
  <1>1. RegistryInv => SentToExplained
    <2> SUFFICES ASSUME RegistryInv, NEW h \in Handlers, SendsTo(h),
                        handler[h] # "open", h \notin skipped
                 PROVE  srvAt = "init" /\ srvFor = h
      BY DEF SentToExplained
    <2>1. PICK i \in Slots : clients[i] = h
      BY DEF SendsTo
    <2>2. handler[h] = "new"
      BY <2>1, RegistryAssumption
         DEF RegistryInv, StaleOnlyIfSkipped, Allocated, WsTypeOK
    <2> QED
      BY <2>1, <2>2 DEF RegistryInv, BusyWith
  <1> QED
    BY <1>1, RegistryInvariant, PTL

(* No client is entered twice, and none is left out while nothing has been *)
(* skipped: create() always finds a free entry then.                       *)
THEOREM ClientsRegistered == WsSpec => []OpenClientRegistered
  <1>1. RegistryInv => OpenClientRegistered
    BY DEF RegistryInv
  <1> QED
    BY <1>1, RegistryInvariant, PTL

(* An open client loses its entry only to its own onClose().               *)
THEOREM OpenClientsKept == WsSpec => OpenClientKept
  <1> DEFINE Keeps ==
        \A h \in Handlers, i \in Slots :
          (clients[i] = h /\ handler[h] = "open" /\ clients'[i] # h)
             => (srvAt = "remove" /\ srvFor = h) \/ Panic
  <1>1. RegistryInv /\ [WsNext]_wsVars => [Keeps]_wsVars
    <2> SUFFICES ASSUME RegistryInv, WsNext
                 PROVE  Keeps
      OBVIOUS
    <2>1. CASE UNCHANGED clients
      BY <2>1
    <2>2. CASE Insert
      BY <2>2, RegistryAssumption DEF Insert, RegistryInv, WsTypeOK, Slots
    <2>3. CASE Remove
      BY <2>3, RegistryAssumption DEF Remove, RegistryInv, WsTypeOK, Slots
    <2>4. CASE Panic
      BY <2>4
    <2> QED
      BY <2>1, <2>2, <2>3, <2>4
         DEF WsNext, Progress, Visit, Walk, Calls, Panic, ServerTakes, ServerTimesOut,
             Initialize, Delete, Create, OnClose, Drop, Output, SenderTakes,
             SenderTimesOut, Pass, Send, SendEnds, Misgive
  <1> QED
    BY <1>1, RegistryInvariant, PTL DEF WsSpec, OpenClientKept

-----------------------------------------------------------------------------
(* The steps the server task is from the end of create() or onClose().     *)
ServerPos ==
    CASE srvAt = "idle"                 -> 0
      [] srvAt \in {"init", "delete"}   -> 1
      [] srvAt \in {"insert", "remove"} -> 2
      [] OTHER                          -> 3

(* The steps the sender is from the end of its walk.                       *)
SenderPos ==
    CASE sndAt = "idle"    -> 0
      [] sndAt = "misgive" -> 1
      [] sndAt = "send"    -> MaxClients + 3 - sndNext
      [] OTHER             -> MaxClients + 3

(* A step of the server task takes it nearer to the end; the sender, even  *)
(* by a panic, does not move it back.                                      *)
LEMMA ServerDescends ==
  ASSUME RegistryInv, srvAt # "idle"
  PROVE  /\ Progress => ServerPos' < ServerPos
         /\ [WsNext]_wsVars => ServerPos' <= ServerPos
  <1>1. srvAt \in {"create", "insert", "init", "close", "remove", "delete"}
    BY DEF RegistryInv, WsTypeOK
  <1> USE <1>1 DEF ServerPos, ServerGoes
  <1>2. ASSUME Progress PROVE ServerPos' < ServerPos
    BY <1>2 DEF Progress, ServerTakes, ServerTimesOut, Insert, Initialize, Remove, Delete
  <1>3. ASSUME Visit PROVE FALSE
    BY <1>3 DEF Visit, Create, OnClose, Drop
  <1>4. ASSUME UNCHANGED srvState PROVE ServerPos' <= ServerPos
    BY <1>4 DEF srvState
  <1>5. ASSUME Output \/ Walk \/ Calls, ~Panic PROVE UNCHANGED srvState
    BY <1>5 DEF Output, Walk, Calls, Panic, SenderTakes, SenderTimesOut, Pass, Send,
                SendEnds, Misgive
  <1>6. ASSUME Panic PROVE ServerPos' <= ServerPos
    BY <1>6 DEF Panic, SendPanics, MisgivePanics, StartsOver
  <1>7. ASSUME UNCHANGED wsVars PROVE UNCHANGED srvState
    BY <1>7 DEF wsVars
  <1>8. ServerPos \in Nat /\ ServerPos' \in Nat
    OBVIOUS
  <1> HIDE DEF ServerPos
  <1> QED
    BY <1>2, <1>3, <1>4, <1>5, <1>6, <1>7, <1>8 DEF WsNext

(* The same of the sender; the server task never moves it.                 *)
LEMMA SenderDescends ==
  ASSUME RegistryInv, sndAt # "idle"
  PROVE  /\ SenderPos \in 1 .. MaxClients + 3
         /\ Walk \/ Calls => SenderPos' \in Nat /\ SenderPos' < SenderPos
         /\ [WsNext]_wsVars => SenderPos' \in Nat /\ SenderPos' <= SenderPos
  <1>1. /\ sndAt \in {"take", "send", "misgive"} /\ sndNext \in 1 .. MaxClients + 1
        /\ MaxClients \in Nat \ {0}
    BY RegistryAssumption DEF RegistryInv, WsTypeOK
  <1> USE <1>1 DEF SenderPos, SenderGoes, Slots
  <1>2. ASSUME Walk \/ Calls, ~Panic PROVE SenderPos' \in Nat /\ SenderPos' < SenderPos
    BY <1>2 DEF Walk, Calls, Panic, SenderTakes, SenderTimesOut, Pass, Send, SendsTo,
                SendEnds, Misgive
  <1>3. ASSUME Panic PROVE SenderPos' \in Nat /\ SenderPos' < SenderPos
    BY <1>3 DEF Panic, SendPanics, MisgivePanics, StartsOver
  <1>4. ASSUME UNCHANGED sndState PROVE SenderPos' = SenderPos
    BY <1>4 DEF sndState
  <1>5. ASSUME Progress \/ Visit PROVE UNCHANGED sndState
    BY <1>5 DEF Progress, ServerTakes, ServerTimesOut, Insert, Initialize, Remove, Delete,
                Visit, Create, OnClose, Drop
  <1>6. ~Output
    BY DEF Output
  <1>7. ASSUME UNCHANGED wsVars PROVE UNCHANGED sndState
    BY <1>7 DEF wsVars
  <1>8. SenderPos \in 1 .. MaxClients + 3
    OBVIOUS
  <1> HIDE DEF SenderPos
  <1> QED
    BY <1>2, <1>3, <1>4, <1>5, <1>6, <1>7, <1>8 DEF WsNext

(* While the sender holds the mutex nobody changes the entry it is at: a   *)
(* call of send() goes on until it ends, and none begins in its place.     *)
LEMMA CallLasts ==
  ASSUME RegistryInv, sndAt # "idle", [WsNext]_wsVars, ~Walk, ~Calls
  PROVE  Calling' <=> Calling
  <1>1. sndAt = "send" => srvAt \notin {"insert", "remove"}
    BY DEF RegistryInv, ArrayGuarded
  <1>2. UNCHANGED sndState /\ (sndAt = "send" => UNCHANGED clients)
    BY <1>1 DEF WsNext, Progress, ServerTakes, ServerTimesOut, Insert, Initialize, Remove,
         Delete, Visit, Create, OnClose, Drop, Output, wsVars
  <1> QED
    BY <1>2 DEF Calling, SendsTo, sndState

(* A task that is k steps from the end comes nearer to it.  These and the  *)
(* theorems below rest on the fairness of WsFairSpec and on WsCanStep: that*)
(* a task can take its next step is what TLC checks.                       *)
ServerNearer(k) ==
    WsFairSpec /\ []WsCanStep => (ServerPos = k ~> ServerPos < k)
SenderFalls(i, k) ==
    WsFairSpec /\ []WsCanStep /\ WF_wsVars(Calls) => (SenderPos < i ~> SenderPos < k)

LEMMA ServerComesNearer == \A k \in 1 .. 3 : ServerNearer(k)
  <1> SUFFICES ASSUME NEW k \in 1 .. 3 PROVE ServerNearer(k)
    OBVIOUS
  <1>1. ServerPos = k => srvAt # "idle"
    BY DEF ServerPos
  <1>2. RegistryInv /\ ServerPos = k /\ [WsNext]_wsVars => (ServerPos = k)' \/ (ServerPos < k)'
    <2>1. ServerPos' \in Nat
      BY DEF ServerPos
    <2> QED
      BY <1>1, <2>1, ServerDescends
  <1>3. RegistryInv /\ ServerPos = k /\ <<Progress>>_wsVars => (ServerPos < k)'
    BY <1>1, ServerDescends
  <1>4. WsCanStep /\ ServerPos = k => ENABLED <<Progress>>_wsVars
    BY <1>1 DEF WsCanStep
  <1> QED
    BY <1>2, <1>3, <1>4, RegistryInvariant, PTL DEF WsFairSpec, WsSpec, ServerNearer

LEMMA SenderComesNearer == \A k \in Nat \ {0} : SenderFalls(k + 1, k)
  <1> SUFFICES ASSUME NEW k \in Nat \ {0} PROVE SenderFalls(k + 1, k)
    OBVIOUS
  <1>1. SenderPos = k => sndAt # "idle"
    BY DEF SenderPos
  <1>2. RegistryInv /\ SenderPos < k + 1 => SenderPos = k \/ SenderPos < k
    <2>1. RegistryInv => SenderPos \in Nat
      BY SenderDescends DEF SenderPos
    <2> QED
      BY <2>1
  <1>3. RegistryInv /\ SenderPos = k /\ [WsNext]_wsVars => (SenderPos = k)' \/ (SenderPos < k)'
    BY <1>1, SenderDescends
  <1>4. RegistryInv /\ SenderPos = k /\ (Walk \/ Calls)
          => (SenderPos < k)'
    BY <1>1, SenderDescends
  <1>5. RegistryInv /\ SenderPos = k /\ [WsNext]_wsVars
          => (Calling' <=> Calling) \/ (SenderPos < k)'
    BY <1>1, <1>3, <1>4, CallLasts
  <1>6. /\ WsCanStep /\ SenderPos = k /\ ~Calling => ENABLED <<Walk>>_wsVars
        /\ WsCanStep /\ SenderPos = k /\ Calling => ENABLED <<Calls>>_wsVars
    BY <1>1 DEF WsCanStep
  <1> QED
    BY <1>2, <1>3, <1>4, <1>5, <1>6, RegistryInvariant, PTL DEF WsFairSpec, WsSpec, SenderFalls

LEMMA SenderFallsOn ==
  \A i, j, k \in Nat : SenderFalls(i, j) /\ SenderFalls(j, k) => SenderFalls(i, k)
  <1> SUFFICES ASSUME NEW i \in Nat, NEW j \in Nat, NEW k \in Nat
               PROVE  SenderFalls(i, j) /\ SenderFalls(j, k) => SenderFalls(i, k)
    OBVIOUS
  <1> QED
    BY PTL DEF SenderFalls

(* create() and onClose() return: the server task waits for the mutex for  *)
(* a limited time, whatever the sender does.                               *)
THEOREM ServersReturn == WsFairSpec /\ []WsCanStep => ServerReturns
  <1>1. ServerNearer(1) /\ ServerNearer(2) /\ ServerNearer(3)
    BY ServerComesNearer
  <1>2. /\ srvAt # "idle" => ServerPos = 1 \/ ServerPos = 2 \/ ServerPos = 3
        /\ ServerPos < 3 => ServerPos = 2 \/ ServerPos < 2
        /\ ServerPos < 2 => ServerPos = 1 \/ ServerPos < 1
        /\ ServerPos < 1 => srvAt = "idle"
    BY DEF ServerPos
  <1> QED
    BY <1>1, <1>2, PTL DEF ServerReturns, ServerNearer

(* If every call of send() ends, so does the walk over an array of at most *)
(* the program's MAX_CLIENTS entries, whoever connects or leaves meanwhile.*)
(* (The bound stands for an induction over the length, which the provers   *)
(* cannot do.)                                                             *)
THEOREM SendersReturn ==
  ASSUME MaxClients \in 1 .. 10
  PROVE  WsFairSpec /\ []WsCanStep => SenderReturns
  <1>1. SenderFalls(14, 11)
    BY SenderComesNearer, SenderFallsOn
  <1>2. SenderFalls(11, 8)
    BY SenderComesNearer, SenderFallsOn
  <1>3. SenderFalls(8, 5)
    BY SenderComesNearer, SenderFallsOn
  <1>4. SenderFalls(5, 1)
    BY SenderComesNearer, SenderFallsOn
  <1>5. SenderFalls(14, 1)
    BY <1>1, <1>2, <1>3, <1>4, SenderFallsOn
  <1>6. RegistryInv /\ sndAt # "idle" => SenderPos < 14
    BY SenderDescends
  <1>7. RegistryInv /\ SenderPos < 1 => sndAt = "idle"
    BY SenderDescends
  <1> QED
    BY <1>5, <1>6, <1>7, RegistryInvariant, PTL DEF WsFairSpec, SenderFalls, SenderReturns
==============================================================================
