------------------------------- MODULE FanTach --------------------------------
(***************************************************************************)
(* The tachometer: tachISR() counts pulses, loop() samples and zeroes the  *)
(* count whenever TACH_SAMPLE_TIME has passed by the 32-bit millis()       *)
(* clock.  The interrupt runs on the core of loop(), so that it falls      *)
(* between its steps.                                                      *)
(***************************************************************************)
EXTENDS Integers

CONSTANTS Wrap,              \* millis() counts modulo this, 2^32 in the code
          TACH_SAMPLE_TIME,
          MaxPulses          \* the pulses of the fan

ASSUME TachAssumption ==
    /\ Wrap \in Nat /\ TACH_SAMPLE_TIME \in Nat /\ TACH_SAMPLE_TIME < Wrap
    /\ MaxPulses \in Nat

VARIABLES
    millis, lastTachTime,
    tachPulseCount,
    rpmPulses,  \* the count that rpm is being computed from
    loopAt,     \* where loop() is
    elapsed,    \* History: the time since lastTachTime was set, as far as
                \* Wrap - 1 but not wrapped,
    pulses,     \* the pulses so far,
    reported,   \* those that went into an rpm,
    lost        \* and those that came between the reading and the zeroing

clockVars == <<millis, lastTachTime, elapsed>>
countVars == <<tachPulseCount, rpmPulses, pulses, reported, lost>>
tachVars == <<clockVars, countVars, loopAt>>

TachTypeOK ==
    /\ millis \in 0 .. Wrap - 1 /\ lastTachTime \in 0 .. Wrap - 1
    /\ elapsed \in 0 .. Wrap - 1
    /\ loopAt \in {"wait", "read", "zero", "stamp", "send"}
    /\ tachPulseCount \in Nat /\ rpmPulses \in Nat /\ reported \in Nat /\ lost \in Nat
    /\ pulses \in 0 .. MaxPulses

(* setup() has set lastTachTime; the clock may be anywhere.                *)
TachInit ==
    /\ millis \in 0 .. Wrap - 1 /\ lastTachTime = millis /\ elapsed = 0
    /\ loopAt = "wait"
    /\ tachPulseCount = 0 /\ rpmPulses = 0
    /\ pulses = 0 /\ reported = 0 /\ lost = 0

(* Unsigned subtraction                                                    *)
Minus(a, b) == IF a >= b THEN a - b ELSE a - b + Wrap

(* millis() goes on.                                                       *)
Tick ==
    /\ millis' = IF millis = Wrap - 1 THEN 0 ELSE millis + 1
    /\ elapsed' = IF elapsed = Wrap - 1 THEN elapsed ELSE elapsed + 1
    /\ UNCHANGED <<lastTachTime, countVars, loopAt>>

TachISR ==
    /\ pulses < MaxPulses
    /\ pulses' = pulses + 1
    /\ tachPulseCount' = tachPulseCount + 1
    /\ lost' = IF loopAt = "zero" THEN lost + 1 ELSE lost
    /\ UNCHANGED <<rpmPulses, reported, clockVars, loopAt>>

(* Faulty variants: the end of the period is computed, in 32 bits and in   *)
(* more than 32 bits.                                                      *)
WrappedEnd == LET end == lastTachTime + TACH_SAMPLE_TIME
              IN  millis >= IF end >= Wrap THEN end - Wrap ELSE end
WideEnd == millis >= lastTachTime + TACH_SAMPLE_TIME

(* millis() - lastTachTime >= TACH_SAMPLE_TIME                             *)
SampleDue == Minus(millis, lastTachTime) >= TACH_SAMPLE_TIME

Wait ==
    /\ loopAt = "wait" /\ SampleDue
    /\ loopAt' = "read"
    /\ UNCHANGED <<clockVars, countVars>>

(* unsigned long rpm = ...                                                 *)
Read ==
    /\ loopAt = "read"
    /\ rpmPulses' = tachPulseCount
    /\ loopAt' = "zero"
    /\ UNCHANGED <<clockVars, tachPulseCount, pulses, reported, lost>>

(* Faulty variant: the pulses that came meanwhile stay, with all others.   *)
ZeroForgotten ==
    /\ loopAt = "zero"
    /\ reported' = reported + rpmPulses
    /\ loopAt' = "stamp"
    /\ UNCHANGED <<clockVars, tachPulseCount, rpmPulses, pulses, lost>>

Zero ==
    /\ loopAt = "zero"
    /\ tachPulseCount' = 0
    /\ reported' = reported + rpmPulses
    /\ loopAt' = "stamp"
    /\ UNCHANGED <<clockVars, rpmPulses, pulses, lost>>

Stamp ==
    /\ loopAt = "stamp"
    /\ lastTachTime' = millis /\ elapsed' = 0
    /\ loopAt' = "send"
    /\ UNCHANGED <<millis, countVars>>

(* The rpm is sent to the clients, which is the sender of WsRegistry.      *)
Sent ==
    /\ loopAt = "send"
    /\ loopAt' = "wait"
    /\ UNCHANGED <<clockVars, countVars>>

Sampling == Wait \/ Read \/ Zero \/ Stamp

TachNext == Sampling \/ Sent \/ TachISR \/ Tick

TachSpec == TachInit /\ [][TachNext]_tachVars

(* Time passes, and loop() looks every few milliseconds: it cannot miss    *)
(* the rest of the 49 days of millis() in which a sample is due.  Nothing  *)
(* obliges the send to return (see WsRegistry).                            *)
TachFairSpec == TachSpec /\ SF_tachVars(Sampling) /\ WF_tachVars(Tick)

-----------------------------------------------------------------------------
(* No rpm is computed from less than a full period, also when the clock    *)
(* wraps during it, once or more often.                                    *)
FullPeriod == loopAt \in {"read", "zero", "stamp"} => elapsed >= TACH_SAMPLE_TIME

(* Every pulse goes into one rpm, or waits for the next, except exactly    *)
(* those that came between the reading of the count and its zeroing.       *)
PulsesAccounted ==
    pulses = reported + lost + (IF loopAt = "zero" THEN rpmPulses ELSE tachPulseCount)

(* As long as the sends return there is always another rpm: wherever the   *)
(* clock wraps, the wait for the next period ends.                         *)
SamplingGoesOn ==
    WF_tachVars(Sent) => []<>(loopAt = "wait") /\ []<>(loopAt = "stamp")

(* loop() goes on by itself but for the wait, which only time can end, and *)
(* the send: the shape of the steps.                                       *)
TachCanStep ==
    /\ loopAt \in {"read", "zero", "stamp"} \/ (loopAt = "wait" /\ SampleDue)
          => ENABLED <<Sampling>>_tachVars
    /\ loopAt = "send" => ENABLED <<Sent>>_tachVars
    /\ ~SampleDue => ENABLED <<Tick>>_tachVars

(* Inductive.                                                              *)
TachInv ==
    /\ TachTypeOK
    /\ FullPeriod
    /\ PulsesAccounted
    /\ Minus(millis, lastTachTime) <= elapsed
===============================================================================
