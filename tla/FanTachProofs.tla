---------------------------- MODULE FanTachProofs -----------------------------
(***************************************************************************)
(* Proofs about FanTach for a clock of any width and any period.           *)
(***************************************************************************)
EXTENDS FanTach, TLAPS

(* Every step of loop(), every pulse and every tick keep the invariant.    *)
LEMMA TachStep == TachInv /\ [TachNext]_tachVars => TachInv'
  <1> SUFFICES ASSUME TachInv, [TachNext]_tachVars PROVE TachInv'
    OBVIOUS
  <1> USE TachAssumption
      DEF TachInv, TachTypeOK, FullPeriod, PulsesAccounted, Minus, clockVars, countVars
  <1>1. CASE Wait
    BY <1>1 DEF Wait, SampleDue
  <1>2. CASE Read
    BY <1>2 DEF Read
  <1>3. CASE Zero
    BY <1>3 DEF Zero
  <1>4. CASE Stamp
    BY <1>4 DEF Stamp
  <1>5. CASE Sent
    BY <1>5 DEF Sent
  <1>6. CASE TachISR
    BY <1>6 DEF TachISR
  <1>7. CASE Tick
    BY <1>7 DEF Tick
  <1>8. CASE UNCHANGED tachVars
    BY <1>8 DEF tachVars
  <1> QED
    BY <1>1, <1>2, <1>3, <1>4, <1>5, <1>6, <1>7, <1>8 DEF TachNext, Sampling

(* What the unsigned difference of the two times says is never more than   *)
(* the time that has passed.                                               *)
THEOREM TachInvariance == TachSpec => []TachInv
  <1>1. TachInit => TachInv
    BY TachAssumption
       DEF TachInit, TachInv, TachTypeOK, FullPeriod, PulsesAccounted, Minus
  <1> QED
    BY <1>1, TachStep, PTL DEF TachSpec

(* No rpm is computed early, wherever millis() wraps.                      *)
THEOREM PeriodsAreFull == TachSpec => []FullPeriod
  <1>1. TachInv => FullPeriod
    BY DEF TachInv
  <1> QED
    BY <1>1, TachInvariance, PTL

(* loop() counts no pulse twice, and loses one only between reading the    *)
(* count and zeroing it.                                                   *)
THEOREM PulsesAreAccounted == TachSpec => []PulsesAccounted
  <1>1. TachInv => PulsesAccounted
    BY DEF TachInv
  <1> QED
    BY <1>1, TachInvariance, PTL

-----------------------------------------------------------------------------
(* loop() waits for the next period, which is ToGo ticks away.             *)
Waiting == loopAt = "wait" /\ ~SampleDue
Due == loopAt = "wait" /\ SampleDue
ToGo == TACH_SAMPLE_TIME - Minus(millis, lastTachTime)

(* Nothing but a tick changes the wait, and a tick shortens it.            *)
LEMMA WaitShortens ==
  ASSUME TachInv, Waiting, [TachNext]_tachVars
  PROVE  /\ ToGo \in Nat \ {0}
         /\ Tick => Due' \/ (Waiting' /\ ToGo' = ToGo - 1)
         /\ ~Tick => Waiting' /\ ToGo' = ToGo
  <1> USE TachAssumption
      DEF TachInv, TachTypeOK, Minus, SampleDue, Waiting, Due, ToGo, clockVars, countVars
  <1>1. ToGo \in Nat \ {0}
    OBVIOUS
  <1>2. ASSUME Tick PROVE Due' \/ (Waiting' /\ ToGo' = ToGo - 1)
    BY <1>2 DEF Tick
  <1>3. ~Sampling /\ ~Sent
    BY DEF Sampling, Wait, Read, Zero, Stamp, Sent
  <1>4. ASSUME TachISR \/ UNCHANGED tachVars PROVE Waiting' /\ ToGo' = ToGo
    BY <1>4 DEF TachISR, tachVars
  <1> QED
    BY <1>1, <1>2, <1>3, <1>4 DEF TachNext

(* The wait comes down from below i ticks to below k, or is over.          *)
DueFalls(i, k) ==
    TachFairSpec /\ []TachCanStep
      => ((Waiting /\ ToGo < i) ~> ((Waiting /\ ToGo < k) \/ Due))

LEMMA DueComesNearer == \A k \in Nat : DueFalls(k + 1, k)
  <1> SUFFICES ASSUME NEW k \in Nat PROVE DueFalls(k + 1, k)
    OBVIOUS
  <1> DEFINE Here == Waiting /\ ToGo = k
             Below == Waiting /\ ToGo < k
  <1>1. TachInv /\ Waiting /\ ToGo < k + 1 => Here \/ Below
    <2>1. TachInv /\ Waiting => ToGo \in Nat
      BY TachAssumption DEF TachInv, TachTypeOK, Minus, SampleDue, Waiting, ToGo
    <2> QED
      BY <2>1
  <1>2. TachInv /\ Here /\ [TachNext]_tachVars => Here' \/ Below' \/ Due'
    BY WaitShortens
  <1>3. TachInv /\ Here /\ <<TachNext /\ Tick>>_tachVars => Below' \/ Due'
    BY WaitShortens
  <1>4. TachCanStep /\ Here => ENABLED <<Tick>>_tachVars
    BY DEF TachCanStep, Waiting
  <1>5. <<Tick>>_tachVars => <<TachNext /\ Tick>>_tachVars
    BY DEF TachNext
  <1> QED
    BY <1>1, <1>2, <1>3, <1>4, <1>5, TachInvariance, PTL DEF TachFairSpec, TachSpec, DueFalls

LEMMA DueFallsOn ==
  \A i, j, k \in Nat : DueFalls(i, j) /\ DueFalls(j, k) => DueFalls(i, k)
  <1> SUFFICES ASSUME NEW i \in Nat, NEW j \in Nat, NEW k \in Nat
               PROVE  DueFalls(i, j) /\ DueFalls(j, k) => DueFalls(i, k)
    OBVIOUS
  <1> QED
    BY PTL DEF DueFalls

(* A period of less than 1024 ms, as the code's is, comes to an end.       *)
LEMMA PeriodEnds == DueFalls(1024, 0)
  <1>1. \A k \in Nat : DueFalls(k + 1, k)
    BY DueComesNearer
  <1>2. \A k \in Nat : DueFalls(k + 2, k)
    BY <1>1, DueFallsOn
  <1>3. \A k \in Nat : DueFalls(k + 4, k)
    BY <1>2, DueFallsOn
  <1>4. \A k \in Nat : DueFalls(k + 8, k)
    BY <1>3, DueFallsOn
  <1>5. \A k \in Nat : DueFalls(k + 16, k)
    BY <1>4, DueFallsOn
  <1>6. \A k \in Nat : DueFalls(k + 32, k)
    BY <1>5, DueFallsOn
  <1>7. \A k \in Nat : DueFalls(k + 64, k)
    BY <1>6, DueFallsOn
  <1>8. \A k \in Nat : DueFalls(k + 128, k)
    BY <1>7, DueFallsOn
  <1>9. \A k \in Nat : DueFalls(k + 256, k)
    BY <1>8, DueFallsOn
  <1>10. \A k \in Nat : DueFalls(k + 512, k)
    BY <1>9, DueFallsOn
  <1>11. \A k \in Nat : DueFalls(k + 1024, k)
    BY <1>10, DueFallsOn
  <1> QED
    BY <1>11

(* As long as the sends return, the fan speed is sampled again and again,  *)
(* wherever the clock wraps and however many pulses come: the subtraction  *)
(* in loop() never leaves the next sample out of reach.  That no step of   *)
(* loop() is blocked, TachCanStep, can be read off the steps.              *)
THEOREM SamplingContinues ==
  ASSUME TACH_SAMPLE_TIME <= 1000
  PROVE  TachFairSpec /\ []TachCanStep => SamplingGoesOn
  <1>1. DueFalls(1024, 0)
    BY PeriodEnds
  <1>2. TachInv /\ loopAt = "wait" => (Waiting /\ ToGo < 1024) \/ Due
    BY TachAssumption DEF TachInv, TachTypeOK, Waiting, Due, SampleDue, ToGo, Minus
  <1>3. TachInv => ~(Waiting /\ ToGo < 0)
    BY TachAssumption DEF TachInv, TachTypeOK, Waiting, SampleDue, ToGo, Minus
  <1>4. /\ Due => loopAt = "wait"
        /\ TachCanStep /\ (Due \/ loopAt = "read" \/ loopAt = "zero" \/ loopAt = "stamp")
              => ENABLED <<Sampling>>_tachVars
        /\ TachCanStep /\ loopAt = "send" => ENABLED <<Sent>>_tachVars
    BY DEF TachCanStep, Due
  <1>5. /\ loopAt = "wait" /\ [TachNext]_tachVars => (loopAt = "wait")' \/ (loopAt = "read")'
        /\ loopAt = "read" /\ [TachNext]_tachVars => (loopAt = "read")' \/ (loopAt = "zero")'
        /\ loopAt = "zero" /\ [TachNext]_tachVars => (loopAt = "zero")' \/ (loopAt = "stamp")'
        /\ loopAt = "stamp" /\ [TachNext]_tachVars => (loopAt = "stamp")' \/ (loopAt = "send")'
        /\ loopAt = "send" /\ [TachNext]_tachVars => (loopAt = "send")' \/ (loopAt = "wait")'
    BY DEF TachNext, Sampling, Wait, Read, Zero, Stamp, Sent, TachISR, Tick, tachVars
  <1>6. /\ loopAt = "wait" /\ <<Sampling>>_tachVars => (loopAt = "read")'
        /\ loopAt = "read" /\ <<Sampling>>_tachVars => (loopAt = "zero")'
        /\ loopAt = "zero" /\ <<Sampling>>_tachVars => (loopAt = "stamp")'
        /\ loopAt = "stamp" /\ <<Sampling>>_tachVars => (loopAt = "send")'
        /\ loopAt = "send" /\ <<Sent>>_tachVars => (loopAt = "wait")'
    BY DEF Sampling, Wait, Read, Zero, Stamp, Sent
  <1>7. TachInv => \/ loopAt = "wait" \/ loopAt = "read" \/ loopAt = "zero"
                   \/ loopAt = "stamp" \/ loopAt = "send"
    BY DEF TachInv, TachTypeOK
  <1> QED
    BY <1>1, <1>2, <1>3, <1>4, <1>5, <1>6, <1>7, TachInvariance, PTL
       DEF TachFairSpec, TachSpec, DueFalls, SamplingGoesOn
===============================================================================
