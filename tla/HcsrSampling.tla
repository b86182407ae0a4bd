--------------------------- MODULE HcsrSampling ---------------------------
(***************************************************************************)
(* How one HC-SR04 device turns echoes into a distance: the loop of        *)
(* hcsr04_thread_write that triggers the sensor, the sensor, the interrupt *)
(* line of the echo pin and irq_handler.                                   *)
(*                                                                         *)
(* The sensor answers a trigger with one pulse whose length is the         *)
(* distance, and ignores triggers while it is busy.  Both edges raise the  *)
(* same interrupt; while one is pending a further edge is lost.  The       *)
(* handler reads the clock itself (rdtsc), and may run well after the edge *)
(* that raised the interrupt: the thread measures with interrupts off      *)
(* (spin_lock_irqsave).  A time is the phase of the line in which the      *)
(* handler ran, counted in edges, and how far into that phase it was.      *)
(* From within a pulse to within the pause after it, the span is that      *)
(* pulse's length, less the first delay and more the second; a span that   *)
(* contains a whole pause may amount to any distance, a small one when     *)
(* delta is short, a negative one when the (int) cast cuts it.             *)
(***************************************************************************)
EXTENDS Integers, FiniteSets

CONSTANTS Distances,  \* what the sensor may measure (in cm, scaled down)
          Limit,      \* the largest distance accepted (400)
          Delays,     \* how long after the edge the handler may run
          Pauses,     \* what a span with a pause in it may amount to
          Word,       \* an int holds -Word .. Word - 1
          Triggers,   \* m + 2; 0 for the m with which it wraps
          MaxRounds   \* bound: measurements taken

ASSUME SamplingAssumption ==
    /\ Distances \subseteq Nat /\ Limit \in Nat
    /\ Delays \subseteq Nat /\ Pauses \subseteq Nat
    /\ Word \in Nat \ {0} /\ Triggers \in Nat /\ MaxRounds \in Nat

VARIABLES
    collected,   \* samples_collected of the running measurement
    ups,         \* triggers given since the device was initialised (history)
    round,       \* measurements taken (bound)
    readLock,    \* the count of the semaphore read_lock
    sensor,      \* "idle", "armed" by a trigger, or "high"
    pulse,       \* the number of the latest pulse
    length,      \* the distance it stands for
    pending,     \* is the echo interrupt pending?
    lost,        \* edges that met a pending interrupt (history)
    irqEdge, risingTime, totalSamples, sampleSum, outlierHighest, outlierLowest,
    accepted,    \* the samples irq_handler accepted (history)
    wrapped,     \* has sample_sum overflowed? (history)
    written      \* the distances the measurements put into the buffer (history)

threadVars == <<collected, ups, round, written>>
sensorVars == <<sensor, pulse, length>>
irqVars == <<irqEdge, risingTime, totalSamples, sampleSum, outlierHighest,
             outlierLowest, accepted, wrapped>>
lineVars == <<pending, lost>>
vars == <<threadVars, readLock, sensorVars, lineVars, irqVars>>

Init ==
    /\ collected = 0 /\ ups = 0 /\ round = 0 /\ written = {}
    /\ readLock = 0
    /\ sensor = "idle" /\ pulse = 0 /\ length = 0
    /\ pending = FALSE /\ lost = 0
    /\ irqEdge = 0 /\ risingTime = [phase |-> 0, delay |-> 0, lost |-> 0]
    /\ totalSamples = 0 /\ sampleSum = 0 /\ outlierHighest = 0 /\ outlierLowest = 0
    /\ accepted = {} /\ wrapped = FALSE

-----------------------------------------------------------------------------
(* The thread.                                                              *)

\* The trigger pin goes high and low; a busy sensor does not notice.
TriggerSensor == sensor' = IF sensor = "idle" THEN "armed" ELSE sensor

\* Faulty variants: one trigger too many, as in platform_driver.c:784, and
\* the semaphore not raised.
TriggerOnceMore ==
    /\ round < MaxRounds /\ collected <= Triggers
    /\ readLock' = readLock + 1
    /\ TriggerSensor
    /\ collected' = collected + 1
    /\ ups' = ups + 1
    /\ UNCHANGED <<round, written, pulse, length, lineVars, irqVars>>

TriggerWithoutUp ==
    /\ round < MaxRounds /\ collected < Triggers
    /\ TriggerSensor
    /\ collected' = collected + 1
    /\ UNCHANGED <<ups, readLock, round, written, pulse, length, lineVars, irqVars>>

\* up(read_lock), then the trigger; the next one follows after delta, which
\* may be shorter than a pulse.
Trigger ==
    /\ round < MaxRounds /\ collected < Triggers
    /\ readLock' = readLock + 1
    /\ TriggerSensor
    /\ collected' = collected + 1
    /\ ups' = ups + 1
    /\ UNCHANGED <<round, written, pulse, length, lineVars, irqVars>>

\* The division of C, towards zero.
Quotient(a, b) == IF a >= 0 THEN a \div b ELSE -((-a) \div b)

\* A faulty variant: the outliers are left out and the divisor is not.
TrimmedSum == Quotient(sampleSum - outlierLowest - outlierHighest, totalSamples)

\* What is stored: the mean of every sample since the device was initialised.
MeanDistance == Quotient(sampleSum, totalSamples)

Store ==
    /\ round < MaxRounds /\ collected = Triggers
    /\ totalSamples # 0
    /\ written' = written \cup {MeanDistance}
    /\ collected' = 0
    /\ round' = round + 1
    /\ UNCHANGED <<ups, readLock, sensorVars, lineVars, irqVars>>

\* No sample was ever accepted: the division traps and the thread is gone.
DivideByZero ==
    /\ round < MaxRounds /\ collected = Triggers
    /\ totalSamples = 0
    /\ round' = MaxRounds
    /\ UNCHANGED <<collected, ups, written, readLock, sensorVars, lineVars, irqVars>>

-----------------------------------------------------------------------------
(* The sensor and the line.                                                 *)

\* An edge is lost on an interrupt that is still pending.
Edge == /\ pending' = TRUE
        /\ lost' = IF pending THEN lost + 1 ELSE lost

\* The edges the line has seen: odd while it is high.
Phase == IF sensor = "high" THEN 2 * pulse - 1 ELSE 2 * pulse

PulseStarts ==
    /\ sensor = "armed" /\ Edge
    /\ sensor' = "high"
    /\ pulse' = pulse + 1
    /\ length' \in Distances
    /\ UNCHANGED <<threadVars, readLock, irqVars>>

PulseEnds ==
    /\ sensor = "high" /\ Edge
    /\ sensor' = "idle"
    /\ UNCHANGED <<threadVars, readLock, pulse, length, irqVars>>

NoPulse ==
    /\ sensor = "armed"
    /\ sensor' = "idle"
    /\ UNCHANGED <<threadVars, readLock, pulse, length, lineVars, irqVars>>

-----------------------------------------------------------------------------
(* irq_handler.                                                             *)

\* An int, as it wraps.
AsInt(x) == ((x + Word) % (2 * Word)) - Word

\* rdtsc, some time into the phase: within a pulse no later than its end.
Lateness == {d \in Delays : sensor = "high" => d <= length}

\* The distances that the span from the rising time to now, d into the phase,
\* may amount to.
Spans(d) == LET spans == IF sensor # "high" /\ risingTime.phase = Phase - 1
                         THEN {length - risingTime.delay + d}
                         ELSE Pauses
            IN  {AsInt(x) : x \in spans}

Accepts(d) == d <= Limit

HandleRising ==
    /\ pending /\ pending' = FALSE
    /\ irqEdge = 0 /\ irqEdge' = 1
    /\ \E d \in Lateness : risingTime' = [phase |-> Phase, delay |-> d, lost |-> lost]
    /\ UNCHANGED <<threadVars, readLock, sensorVars, lost, totalSamples, sampleSum,
                   outlierHighest, outlierLowest, accepted, wrapped>>

\* The sample that ends now, with the edges lost before it and within it.
Sample(distance) ==
    [from |-> risingTime.phase, to |-> Phase, distance |-> distance,
     before |-> risingTime.lost, within |-> lost - risingTime.lost]

Count(distance) ==
    /\ IF distance > outlierHighest
       THEN outlierHighest' = distance /\ UNCHANGED outlierLowest
       ELSE /\ outlierLowest' = IF distance < outlierLowest THEN distance ELSE outlierLowest
            /\ UNCHANGED outlierHighest
    /\ totalSamples' = totalSamples + 1
    /\ sampleSum' = AsInt(sampleSum + distance)
    /\ wrapped' = (wrapped \/ sampleSum' # sampleSum + distance)
    /\ accepted' = accepted \cup {Sample(distance)}

\* A faulty variant: a rejected span is measured on.
HandleFallingRejecting ==
    /\ pending /\ pending' = FALSE
    /\ irqEdge = 1
    /\ \E d \in Lateness : \E distance \in Spans(d) :
          IF Accepts(distance) THEN Count(distance) /\ irqEdge' = 0
          ELSE UNCHANGED <<irqEdge, totalSamples, sampleSum, outlierHighest, outlierLowest,
                           accepted, wrapped>>
    /\ readLock > 0 /\ readLock' = readLock - 1
    /\ UNCHANGED <<threadVars, sensorVars, lost, risingTime>>

HandleFalling ==
    /\ pending /\ pending' = FALSE
    /\ irqEdge = 1 /\ irqEdge' = 0
    /\ \E d \in Lateness : \E distance \in Spans(d) :
          IF Accepts(distance) THEN Count(distance)
          ELSE UNCHANGED <<totalSamples, sampleSum, outlierHighest, outlierLowest,
                           accepted, wrapped>>
    /\ readLock > 0 /\ readLock' = readLock - 1     \* down_interruptible
    /\ UNCHANGED <<threadVars, sensorVars, lost, risingTime>>

-----------------------------------------------------------------------------

Finished ==
    /\ round = MaxRounds /\ sensor = "idle" /\ ~pending
    /\ UNCHANGED vars

Next == \/ Trigger \/ Store \/ DivideByZero
        \/ PulseStarts \/ PulseEnds \/ NoPulse
        \/ HandleRising \/ HandleFalling
        \/ Finished

Spec == Init /\ [][Next]_vars

-----------------------------------------------------------------------------
(* Properties.                                                              *)

TypeOK ==
    /\ collected \in 0..Triggers /\ ups \in Nat /\ round \in 0..MaxRounds
    /\ written \subseteq Int
    /\ readLock \in Nat
    /\ sensor \in {"idle", "armed", "high"} /\ pulse \in Nat /\ length \in Nat
    /\ pending \in BOOLEAN /\ lost \in Nat
    /\ irqEdge \in {0, 1}
    /\ risingTime \in [phase : Int, delay : Nat, lost : Nat]
    /\ totalSamples \in Nat /\ sampleSum \in -Word .. Word - 1
    /\ outlierHighest \in Nat /\ outlierLowest \in Int
    /\ accepted \subseteq [from : Int, to : Int, distance : Int, before : Int, within : Int]
    /\ wrapped \in BOOLEAN

\* irq_handler calls down_interruptible (HCSR_Driver.c:486), which must not
\* wait in an interrupt: whatever edges are lost, and over any number of
\* measurements, the thread has raised the semaphore often enough.
SemaphoreNeverBlocks == irqEdge = 1 /\ pending => readLock > 0

\* The interrupts pending.
Waiting == IF pending THEN 1 ELSE 0

\* Why: each edge of the line was handled, is pending or was lost, the handler
\* lowers the semaphore at every second interrupt, and no pulse comes without
\* a trigger.
SemaphoreBalance ==
    /\ 2 * (ups - readLock) + irqEdge + Waiting + lost = Phase
    /\ pulse + (IF sensor = "armed" THEN 1 ELSE 0) <= ups
    /\ readLock <= ups

\* A sample is a pulse when it runs from its rise to its fall.
IsPulse(a) == \E p \in 1..pulse : a.from = 2 * p - 1 /\ a.to = 2 * p

Even(n) == \E k \in 0..n : n = 2 * k

\* Counting irq_edge (HCSR_Driver.c:452) tells pulses from pauses: a sample is
\* a whole pulse unless edges were lost, an odd number before it or any within
\* it; and whatever was lost, no time is counted in two samples.
SamplesAreEchoes ==
    /\ \A a \in accepted : Even(a.before) /\ a.within = 0 => IsPulse(a)
    /\ \A a, b \in accepted :
          a = b \/ a.to < b.from \/ b.to < a.from

\* Why: the rising time is that of the edge handled last, and the interrupts that
\* still wait are of later edges.
SamplesBehind ==
    /\ irqEdge = 1 => /\ risingTime.phase = 2 * (ups - readLock) + risingTime.lost + 1
                      /\ risingTime.lost <= lost
    /\ \A a \in accepted :
          /\ a.from <= a.to
          /\ a.to + Waiting <= Phase
          /\ irqEdge = 1 => a.to < risingTime.phase

\* A distance stored lies between two of the distances that were accepted,
\* as long as their sum has not overflowed.
MeanInRange ==
    ~wrapped =>
        \A w \in written : \E a, b \in accepted : a.distance <= w /\ w <= b.distance
=============================================================================
