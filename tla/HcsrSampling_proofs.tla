------------------------ MODULE HcsrSampling_proofs ------------------------
(***************************************************************************)
(* For any number of triggers and measurements, any sensor, any lateness   *)
(* of the handler and any loss of edges: irq_handler never waits at its    *)
(* semaphore; a sample it accepts is one whole pulse unless an odd number  *)
(* of edges was lost before it or any within it, and two samples never     *)
(* overlap; and the distance stored lies between two that were accepted,   *)
(* as long as their sum has not overflowed.                                *)
(***************************************************************************)
EXTENDS HcsrSampling, TLAPS

\* What the (int) casts leave.
LEMMA AsIntType == ASSUME NEW x \in Int PROVE AsInt(x) \in -Word .. Word - 1
<1>1. PICK w \in Nat \ {0} : w = Word
  BY SamplingAssumption
<1>2. PICK r \in Int : r = (x + w) % (2 * w)
  OBVIOUS
<1>3. 0 <= r /\ r < 2 * w
  BY <1>2
<1> QED
  BY <1>1, <1>2, <1>3 DEF AsInt

LEMMA SpansType ==
    ASSUME TypeOK, NEW d \in Lateness PROVE \A x \in Spans(d) : x \in -Word .. Word - 1
<1>1. d \in Nat
  BY SamplingAssumption DEF Lateness
<1>2. length - risingTime.delay + d \in Int /\ Pauses \subseteq Int
  BY <1>1, SamplingAssumption DEF TypeOK
<1> QED
  BY <1>2, AsIntType DEF Spans

LEMMA QuotientType ==
    ASSUME NEW a \in Int, NEW b \in Nat \ {0} PROVE Quotient(a, b) \in Int
  BY DEF Quotient

\* What one accepted distance changes.
LEMMA CountTypes ==
    ASSUME TypeOK, NEW x \in -Word .. Word - 1, Count(x)
    PROVE  /\ totalSamples' \in Nat /\ sampleSum' \in -Word .. Word - 1
           /\ outlierHighest' \in Nat /\ outlierLowest' \in Int
           /\ accepted' \subseteq [from : Int, to : Int, distance : Int, before : Int, within : Int]
           /\ wrapped' \in BOOLEAN
<1> USE SamplingAssumption DEF TypeOK
<1>1. x \in Int /\ Phase \in Int
  BY DEF Phase
<1>2. Sample(x) \in [from : Int, to : Int, distance : Int, before : Int, within : Int]
  BY <1>1 DEF Sample
<1>3. accepted' = accepted \cup {Sample(x)} /\ totalSamples' = totalSamples + 1
  BY DEF Count
<1>4. outlierHighest' \in Nat /\ outlierLowest' \in Int
  BY <1>1 DEF Count
<1>5. sampleSum' \in -Word .. Word - 1
  <2>1. sampleSum' = AsInt(sampleSum + x) /\ sampleSum + x \in Int
    BY <1>1 DEF Count
  <2> QED
    BY <2>1, AsIntType
<1>6. wrapped' \in BOOLEAN
  BY DEF Count
<1> QED
  BY <1>2, <1>3, <1>4, <1>5, <1>6

\* The types of the sampling state.
THEOREM TypeCorrect == Spec => []TypeOK
<1>1. Init => TypeOK
  <2> SUFFICES ASSUME Init PROVE TypeOK
    OBVIOUS
  <2>1. 0 \in 0..Triggers /\ 0 \in 0..MaxRounds /\ 0 \in -Word .. Word - 1
    BY SamplingAssumption
  <2>2. accepted \subseteq [from : Int, to : Int, distance : Int, before : Int, within : Int]
    BY DEF Init
  <2>3. risingTime \in [phase : Int, delay : Nat, lost : Nat]
    BY DEF Init
  <2> QED
    BY <2>1, <2>2, <2>3 DEF Init, TypeOK
<1>2. TypeOK /\ [Next]_vars => TypeOK'
  <2> SUFFICES ASSUME TypeOK, [Next]_vars PROVE TypeOK'
    OBVIOUS
  <2> USE SamplingAssumption DEF TypeOK
  <2>1. CASE Trigger
    BY <2>1 DEF Trigger, TriggerSensor, irqVars, lineVars
  <2>2. CASE Store
    <3>1. MeanDistance \in Int
      BY <2>2, QuotientType DEF Store, MeanDistance
    <3> QED
      BY <2>2, <3>1 DEF Store, irqVars, sensorVars, lineVars
  <2>3. CASE DivideByZero
    BY <2>3 DEF DivideByZero, irqVars, sensorVars, lineVars
  <2>4. CASE PulseStarts
    BY <2>4 DEF PulseStarts, Edge, threadVars, irqVars
  <2>5. CASE PulseEnds
    BY <2>5 DEF PulseEnds, Edge, threadVars, irqVars
  <2>6. CASE NoPulse
    BY <2>6 DEF NoPulse, threadVars, irqVars, lineVars
  <2>7. CASE HandleRising
    <3>1. PICK d \in Lateness : risingTime' = [phase |-> Phase, delay |-> d, lost |-> lost]
      BY <2>7 DEF HandleRising
    <3>2. d \in Nat /\ Phase \in Int
      BY DEF Lateness, Phase
    <3>3. risingTime' \in [phase : Int, delay : Nat, lost : Nat]
      BY <3>1, <3>2
    <3> QED
      BY <2>7, <3>3 DEF HandleRising, threadVars, sensorVars
  <2>8. CASE HandleFalling
    <3>1. /\ collected' = collected /\ ups' = ups /\ round' = round /\ written' = written
          /\ sensor' = sensor /\ pulse' = pulse /\ length' = length /\ lost' = lost
          /\ pending' = FALSE /\ irqEdge' = 0 /\ risingTime' = risingTime
          /\ readLock' \in Nat
      BY <2>8 DEF HandleFalling, threadVars, sensorVars
    <3>2. PICK d \in Lateness : \E x \in Spans(d) :
             IF Accepts(x) THEN Count(x)
             ELSE UNCHANGED <<totalSamples, sampleSum, outlierHighest, outlierLowest,
                              accepted, wrapped>>
      BY <2>8 DEF HandleFalling
    <3>3. PICK x \in Spans(d) :
             IF Accepts(x) THEN Count(x)
             ELSE UNCHANGED <<totalSamples, sampleSum, outlierHighest, outlierLowest,
                              accepted, wrapped>>
      BY <3>2
    <3>4. x \in -Word .. Word - 1
      BY SpansType
    <3>5. CASE Accepts(x)
      BY <3>1, <3>3, <3>4, <3>5, CountTypes
    <3>6. CASE ~Accepts(x)
      BY <3>1, <3>3, <3>6
    <3> QED
      BY <3>5, <3>6
  <2>9. CASE Finished \/ UNCHANGED vars
    BY <2>9 DEF Finished, vars, threadVars, sensorVars, irqVars, lineVars
  <2> QED
    BY <2>1, <2>2, <2>3, <2>4, <2>5, <2>6, <2>7, <2>8, <2>9 DEF Next
<1> QED
  BY <1>1, <1>2, PTL DEF Spec

\* Every edge was handled, is pending or was lost, and the semaphore counts
\* every second one handled.
THEOREM SemaphoreAlwaysBalanced == Spec => []SemaphoreBalance
<1>1. Init => SemaphoreBalance
  BY DEF Init, SemaphoreBalance, Phase, Waiting
<1>2. TypeOK /\ SemaphoreBalance /\ [Next]_vars => SemaphoreBalance'
  <2> SUFFICES ASSUME TypeOK, SemaphoreBalance, [Next]_vars PROVE SemaphoreBalance'
    OBVIOUS
  <2> USE DEF TypeOK, SemaphoreBalance, Phase, Waiting
  <2>1. CASE Trigger
    BY <2>1 DEF Trigger, TriggerSensor, irqVars, lineVars
  <2>2. CASE Store
    BY <2>2 DEF Store, irqVars, sensorVars, lineVars
  <2>3. CASE DivideByZero
    BY <2>3 DEF DivideByZero, irqVars, sensorVars, lineVars
  <2>4. CASE PulseStarts
    BY <2>4 DEF PulseStarts, Edge, threadVars, irqVars
  <2>5. CASE PulseEnds
    BY <2>5 DEF PulseEnds, Edge, threadVars, irqVars
  <2>6. CASE NoPulse
    BY <2>6 DEF NoPulse, threadVars, irqVars, lineVars
  <2>7. CASE HandleRising
    BY <2>7 DEF HandleRising, threadVars, sensorVars
  <2>8. CASE HandleFalling
    BY <2>8 DEF HandleFalling, threadVars, sensorVars
  <2>9. CASE Finished \/ UNCHANGED vars
    <3>1. UNCHANGED <<ups, readLock, irqEdge, pending, lost, sensor, pulse>>
      BY <2>9 DEF Finished, vars, threadVars, sensorVars, irqVars, lineVars
    <3> QED
      BY <3>1
  <2> QED
    BY <2>1, <2>2, <2>3, <2>4, <2>5, <2>6, <2>7, <2>8, <2>9 DEF Next
<1> QED
  BY <1>1, <1>2, TypeCorrect, PTL DEF Spec

\* down_interruptible in the interrupt handler finds the semaphore raised: it
\* is lowered once for two edges at least, a pulse has two, no pulse comes
\* without a trigger, and each trigger raised the semaphore first.
THEOREM HandlerNeverWaits == Spec => []SemaphoreNeverBlocks
<1>1. TypeOK /\ SemaphoreBalance => SemaphoreNeverBlocks
  BY DEF TypeOK, SemaphoreBalance, SemaphoreNeverBlocks, Phase, Waiting
<1> QED
  BY <1>1, TypeCorrect, SemaphoreAlwaysBalanced, PTL

-----------------------------------------------------------------------------
(* What is accepted.                                                        *)

\* What a step of anyone but the handler leaves of SamplesBehind.
LEMMA BehindKept ==
    ASSUME TypeOK, SamplesBehind, UNCHANGED <<irqEdge, risingTime, accepted>>,
           ups' - readLock' = ups - readLock, lost' \in Nat, lost <= lost', Phase' \in Int,
           Waiting' \in Int, Phase + Waiting' <= Phase' + Waiting
    PROVE  SamplesBehind'
<1> USE DEF TypeOK, SamplesBehind
<1>0. Phase \in Int /\ Waiting \in Int
  BY DEF Phase, Waiting
<1>1. irqEdge' = 1 => /\ risingTime'.phase = 2 * (ups' - readLock') + risingTime'.lost + 1
                      /\ risingTime'.lost <= lost'
  OBVIOUS
<1>2. ASSUME NEW a \in accepted'
      PROVE /\ a.from <= a.to /\ a.to + Waiting' <= Phase'
            /\ irqEdge' = 1 => a.to < risingTime'.phase
  <2>1. a \in accepted /\ a.to \in Int
    BY <1>2
  <2>2. a.to + Waiting <= Phase
    BY <2>1
  <2>3. a.to + Waiting' <= Phase'
    <3> HIDE DEF TypeOK, SamplesBehind
    <3>1. \A t, w, p, x, q \in Int : t + w <= p /\ p + x <= q + w => t + x <= q
      OBVIOUS
    <3> QED
      BY <1>0, <2>1, <2>2, <3>1
  <2> QED
    BY <2>1, <2>3
<1> QED
  BY <1>1, <1>2

\* The rising time goes with the interrupts handled, and no sample reaches
\* beyond the last of them.
THEOREM SamplesAlwaysBehind == Spec => []SamplesBehind
<1>1. Init => SamplesBehind
  BY DEF Init, SamplesBehind
<1>2. TypeOK /\ SemaphoreBalance /\ SamplesBehind /\ [Next]_vars => SamplesBehind'
  <2> SUFFICES ASSUME TypeOK, SemaphoreBalance, SamplesBehind, [Next]_vars
               PROVE  SamplesBehind'
    OBVIOUS
  <2>0. Phase \in Int /\ Waiting \in Int
    BY DEF Phase, Waiting, TypeOK
  <2>1. CASE Trigger
    BY <2>1, BehindKept DEF Trigger, TriggerSensor, irqVars, lineVars, Phase, Waiting, TypeOK
  <2>2. CASE Store \/ DivideByZero \/ Finished \/ UNCHANGED vars
    BY <2>0, <2>2, BehindKept DEF Store, DivideByZero, Finished, vars, threadVars, irqVars,
       sensorVars, lineVars, Phase, Waiting, TypeOK
  <2>3. CASE PulseStarts
    BY <2>3, BehindKept DEF PulseStarts, Edge, threadVars, irqVars, Phase, Waiting, TypeOK
  <2>4. CASE PulseEnds
    BY <2>4, BehindKept DEF PulseEnds, Edge, threadVars, irqVars, Phase, Waiting, TypeOK
  <2>5. CASE NoPulse
    BY <2>5, BehindKept DEF NoPulse, threadVars, irqVars, lineVars, Phase, Waiting, TypeOK
  <2>6. CASE HandleRising
    <3>1. PICK d \in Lateness : risingTime' = [phase |-> Phase, delay |-> d, lost |-> lost]
      BY <2>6 DEF HandleRising
    <3>2. /\ risingTime'.phase = Phase /\ risingTime'.lost = lost /\ ~pending' /\ pending
          /\ irqEdge = 0 /\ accepted' = accepted /\ ups' = ups /\ readLock' = readLock
          /\ lost' = lost /\ Phase' = Phase
      BY <2>6, <3>1 DEF HandleRising, threadVars, sensorVars, Phase
    <3>3. Phase = 2 * (ups - readLock) + lost + 1
      BY <3>2 DEF SemaphoreBalance, Waiting, TypeOK
    <3>4. \A a \in accepted : a.to \in Int /\ a.from <= a.to /\ a.to + 1 <= Phase
      BY <3>2 DEF SamplesBehind, Waiting, TypeOK
    <3>5. \A a \in accepted : a.to < Phase /\ a.to <= Phase
      BY <2>0, <3>4
    <3> QED
      BY <3>2, <3>3, <3>4, <3>5 DEF SamplesBehind, Waiting, TypeOK
  <2>7. CASE HandleFalling
    <3>1. PICK d \in Lateness : \E x \in Spans(d) :
             IF Accepts(x) THEN Count(x) ELSE UNCHANGED accepted
      BY <2>7 DEF HandleFalling
    <3>2. PICK x \in Spans(d) : IF Accepts(x) THEN Count(x) ELSE UNCHANGED accepted
      BY <3>1
    <3>3. pending /\ ~pending' /\ irqEdge = 1 /\ irqEdge' = 0 /\ Phase' = Phase
      BY <2>7 DEF HandleFalling, sensorVars, Phase
    <3>4. accepted' \subseteq accepted \cup {Sample(x)}
      BY <3>2 DEF Count
    <3>5. Sample(x).from = risingTime.phase /\ Sample(x).to = Phase /\ risingTime.phase <= Phase
      BY <3>3 DEF Sample, SamplesBehind, SemaphoreBalance, Waiting, TypeOK
    <3>6. \A a \in accepted : a.to \in Int /\ a.from <= a.to /\ a.to + 1 <= Phase
      BY <3>3 DEF SamplesBehind, Waiting, TypeOK
    <3>7. \A a \in accepted' : a.from <= a.to /\ a.to + 0 <= Phase
      BY <2>0, <3>4, <3>5, <3>6
    <3> QED
      BY <3>3, <3>7 DEF SamplesBehind, Waiting
  <2> QED
    BY <2>1, <2>2, <2>3, <2>4, <2>5, <2>6, <2>7 DEF Next
<1> QED
  BY <1>1, <1>2, TypeCorrect, SemaphoreAlwaysBalanced, PTL DEF Spec

\* What the handler accepts is a whole pulse unless edges were lost, an odd
\* number before it or any within it, and samples never overlap: the loss
\* of edges turns rising and falling around and nothing else does.
THEOREM OnlyEchoesAccepted == Spec => []SamplesAreEchoes
<1>1. Init => SamplesAreEchoes
  BY DEF Init, SamplesAreEchoes
<1>2. TypeOK /\ SemaphoreBalance /\ SamplesBehind /\ SamplesAreEchoes /\ [Next]_vars
        => SamplesAreEchoes'
  <2> SUFFICES ASSUME TypeOK, SemaphoreBalance, SamplesBehind, SamplesAreEchoes, [Next]_vars
               PROVE  SamplesAreEchoes'
    OBVIOUS
  <2>1. ASSUME NEW a \in accepted, Even(a.before) /\ a.within = 0, pulse' \in Nat, pulse <= pulse'
        PROVE  IsPulse(a)'
    <3>1. PICK p \in 1..pulse : a.from = 2 * p - 1 /\ a.to = 2 * p
      BY <2>1 DEF SamplesAreEchoes, IsPulse
    <3>2. p \in 1..pulse'
      BY <2>1, <3>1 DEF TypeOK
    <3> QED
      BY <3>1, <3>2 DEF IsPulse
  <2>2. CASE accepted' = accepted /\ pulse' \in Nat /\ pulse <= pulse'
    BY <2>1, <2>2 DEF SamplesAreEchoes
  <2>3. CASE HandleFalling
    <3>1. PICK d \in Lateness : \E x \in Spans(d) :
             IF Accepts(x) THEN Count(x) ELSE UNCHANGED accepted
      BY <2>3 DEF HandleFalling
    <3>2. PICK x \in Spans(d) : IF Accepts(x) THEN Count(x) ELSE UNCHANGED accepted
      BY <3>1
    <3>3. pending /\ irqEdge = 1 /\ pulse' = pulse /\ pulse' \in Nat /\ pulse <= pulse'
      BY <2>3 DEF HandleFalling, sensorVars, TypeOK
    <3>4. PICK s : s = Sample(x)
      OBVIOUS
    <3>5. accepted' \subseteq accepted \cup {s}
      BY <3>2, <3>4 DEF Count
    <3>6. s.from = risingTime.phase /\ s.to = Phase /\ s.before = risingTime.lost
          /\ s.within = lost - risingTime.lost
      BY <3>4 DEF Sample
    <3>7. \A a \in accepted : a.to < s.from
      BY <3>3, <3>6 DEF SamplesBehind
    <3>8. ASSUME Even(s.before) /\ s.within = 0 PROVE IsPulse(s)'
      <4>0. risingTime.lost \in Nat
        BY DEF TypeOK
      <4>1. PICK k \in Nat : risingTime.lost = 2 * k
        <5>1. PICK k \in 0..risingTime.lost : risingTime.lost = 2 * k
          BY <3>6, <3>8 DEF Even
        <5> QED
          BY <4>0, <5>1
      <4>2. PICK f \in Int : f = ups - readLock
        BY DEF TypeOK
      <4>3. risingTime.phase = 2 * f + 2 * k + 1 /\ lost = 2 * k
        BY <3>3, <3>6, <3>8, <4>1, <4>2 DEF SamplesBehind, TypeOK
      <4>4. Phase = 2 * f + 2 * k + 2
        BY <3>3, <4>2, <4>3 DEF SemaphoreBalance, Waiting, TypeOK
      <4>5. PICK p \in Int : p = f + k + 1
        BY <4>1, <4>2
      <4>6. s.from = 2 * p - 1 /\ s.to = 2 * p
        BY <3>6, <4>1, <4>2, <4>3, <4>4, <4>5
      <4>7. sensor # "high" /\ p = pulse
        BY <4>1, <4>2, <4>4, <4>5 DEF Phase, TypeOK
      <4>8. 1 <= p
        <5>1. f >= 0
          BY <4>2 DEF SemaphoreBalance, TypeOK
        <5> QED
          BY <4>1, <4>2, <4>5, <5>1
      <4> QED
        BY <3>3, <4>6, <4>7, <4>8 DEF IsPulse, TypeOK
    <3>9. \A a \in accepted' : Even(a.before) /\ a.within = 0 => IsPulse(a)'
      BY <2>1, <3>3, <3>5, <3>8
    <3>10. \A a, b \in accepted' : a = b \/ a.to < b.from \/ b.to < a.from
      BY <3>5, <3>7 DEF SamplesAreEchoes
    <3> QED
      BY <3>9, <3>10 DEF SamplesAreEchoes
  <2> QED
    BY <2>2, <2>3 DEF Next, Trigger, Store, DivideByZero, PulseStarts, PulseEnds, NoPulse,
       HandleRising, Finished, vars, irqVars, sensorVars, TypeOK
<1> QED
  BY <1>1, <1>2, TypeCorrect, SemaphoreAlwaysBalanced, SamplesAlwaysBehind, PTL DEF Spec

-----------------------------------------------------------------------------
(* What is stored.                                                          *)

\* One more sample s keeps the mean between bounds a and b, or s is the bound.
LEMMA MeanOfOneMore ==
    ASSUME NEW t \in Nat, NEW sum \in Int, NEW s \in Int
    PROVE  /\ \A a \in Int : a * t <= sum =>
                 a * (t + 1) <= sum + s \/ s * (t + 1) <= sum + s
           /\ \A b \in Int : sum <= b * t =>
                 sum + s <= b * (t + 1) \/ sum + s <= s * (t + 1)
<1>1. \A a \in Int : a * (t + 1) = a * t + a /\ a * t \in Int
  OBVIOUS
<1>2. \A a, b \in Int : a <= b => a * t <= b * t
  OBVIOUS
<1>3. s * (t + 1) = s * t + s /\ s * t \in Int
  BY <1>1
<1>4. ASSUME NEW a \in Int, a * t <= sum PROVE a * (t + 1) <= sum + s \/ s * (t + 1) <= sum + s
  <2>1. CASE a <= s
    BY <1>1, <1>4, <2>1
  <2>2. CASE s <= a
    <3>1. s * t <= a * t
      BY <1>2, <2>2
    <3> QED
      BY <1>1, <1>3, <1>4, <3>1
  <2> QED
    BY <2>1, <2>2
<1>5. ASSUME NEW b \in Int, sum <= b * t PROVE sum + s <= b * (t + 1) \/ sum + s <= s * (t + 1)
  <2>1. CASE s <= b
    BY <1>1, <1>5, <2>1
  <2>2. CASE b <= s
    <3>1. b * t <= s * t
      BY <1>2, <2>2
    <3> QED
      BY <1>1, <1>3, <1>5, <3>1
  <2> QED
    BY <2>1, <2>2
<1> QED
  BY <1>4, <1>5

\* The division of C stays between the bounds of the mean.
LEMMA FloorBetween ==
    ASSUME NEW t \in Nat \ {0}, NEW sum \in Int, NEW a \in Int, NEW b \in Int,
           a * t <= sum, sum <= b * t
    PROVE  a <= sum \div t /\ sum \div t <= b
<1>1. PICK w \in Int : w = sum \div t
  OBVIOUS
<1>2. w * t <= sum /\ sum < (w + 1) * t
  BY <1>1
<1>3. \A x, y \in Int : x < y => (x + 1) * t <= y * t
  OBVIOUS
<1>4. ~(w < a)
  <2>1. (w + 1) * t \in Int /\ a * t \in Int
    OBVIOUS
  <2> QED
    BY <1>2, <1>3, <2>1
<1>5. ~(b < w)
  <2>1. (b + 1) * t = b * t + t /\ b * t \in Int /\ w * t \in Int
    OBVIOUS
  <2> QED
    BY <1>2, <1>3, <2>1
<1> QED
  BY <1>1, <1>4, <1>5

LEMMA QuotientBetween ==
    ASSUME NEW t \in Nat \ {0}, NEW sum \in Int, NEW a \in Int, NEW b \in Int,
           a * t <= sum, sum <= b * t
    PROVE  a <= Quotient(sum, t) /\ Quotient(sum, t) <= b
<1>1. CASE sum >= 0
  BY <1>1, FloorBetween DEF Quotient
<1>2. CASE sum < 0
  <2>1. (-b) * t = -(b * t) /\ (-a) * t = -(a * t) /\ a * t \in Int /\ b * t \in Int
    OBVIOUS
  <2>2. (-b) * t <= -sum /\ -sum <= (-a) * t
    BY <2>1
  <2>3. -b <= (-sum) \div t /\ (-sum) \div t <= -a
    BY <2>2, FloorBetween
  <2>4. PICK w \in Int : w = (-sum) \div t
    OBVIOUS
  <2>5. Quotient(sum, t) = -w
    BY <1>2, <2>4 DEF Quotient
  <2> QED
    BY <2>3, <2>4, <2>5
<1> QED
  BY <1>1, <1>2

\* Until it overflows, the sum of the samples since the device was initialised
\* lies between that of as many of the smallest and as many of the largest.
MeanInv ==
    ~wrapped =>
      /\ MeanInRange
      /\ totalSamples = 0 => sampleSum = 0
      /\ totalSamples # 0 =>
            /\ \E a \in accepted : a.distance * totalSamples <= sampleSum
            /\ \E b \in accepted : sampleSum <= b.distance * totalSamples

LEMMA MeanOfCount ==
    ASSUME TypeOK, MeanInv, NEW x \in Int, Count(x), written' = written
    PROVE  MeanInv'
<1> SUFFICES ASSUME ~wrapped' PROVE MeanInv'
  BY DEF MeanInv
<1>1. /\ totalSamples \in Nat /\ sampleSum \in Int /\ ~wrapped
      /\ totalSamples' = totalSamples + 1 /\ sampleSum' = sampleSum + x
      /\ accepted' = accepted \cup {Sample(x)}
  <2>1. ~wrapped /\ sampleSum' = sampleSum + x
    BY DEF Count
  <2> QED
    BY <2>1, SamplingAssumption DEF Count, TypeOK
<1>2. Sample(x) \in accepted' /\ Sample(x).distance = x
  BY <1>1 DEF Sample
<1>3. \A a \in accepted : a.distance \in Int /\ a \in accepted'
  BY <1>1 DEF TypeOK
<1>4. MeanInRange'
  BY <1>1, <1>3 DEF MeanInv, MeanInRange
<1>5. CASE totalSamples = 0
  <2>1. totalSamples' = 1 /\ sampleSum' = x /\ x * 1 = x
    BY <1>1, <1>5 DEF MeanInv
  <2>2. Sample(x).distance * totalSamples' = sampleSum'
    BY <1>2, <2>1
  <2>3. sampleSum' <= sampleSum'
    BY <2>1
  <2> QED
    BY <1>2, <1>4, <2>1, <2>2, <2>3 DEF MeanInv
<1>6. CASE totalSamples # 0
  <2>1. PICK a \in accepted : a.distance * totalSamples <= sampleSum
    BY <1>1, <1>6 DEF MeanInv
  <2>2. PICK b \in accepted : sampleSum <= b.distance * totalSamples
    BY <1>1, <1>6 DEF MeanInv
  <2>3. a.distance * totalSamples' <= sampleSum' \/ x * totalSamples' <= sampleSum'
    BY <1>1, <1>3, <2>1, MeanOfOneMore
  <2>4. sampleSum' <= b.distance * totalSamples' \/ sampleSum' <= x * totalSamples'
    BY <1>1, <1>3, <2>2, MeanOfOneMore
  <2>5. a \in accepted' /\ b \in accepted' /\ totalSamples' # 0
    BY <1>1
  <2> QED
    BY <1>2, <1>4, <2>3, <2>4, <2>5 DEF MeanInv
<1> QED
  BY <1>5, <1>6

\* hcsr04_thread_write stores a distance that lies between two of those that
\* irq_handler accepted, for the sum and the number it divides go together.
THEOREM MeanAlwaysInRange == Spec => []MeanInRange
<1>1. Init => MeanInv
  BY DEF Init, MeanInv, MeanInRange
<1>2. TypeOK /\ MeanInv /\ [Next]_vars => MeanInv'
  <2> SUFFICES ASSUME TypeOK, MeanInv, [Next]_vars PROVE MeanInv'
    OBVIOUS
  <2>1. CASE UNCHANGED <<written, accepted, totalSamples, sampleSum, wrapped>>
    BY <2>1 DEF MeanInv, MeanInRange
  <2>2. CASE Store /\ ~wrapped
    <3>1. /\ totalSamples \in Nat \ {0} /\ sampleSum \in Int
          /\ written' = written \cup {Quotient(sampleSum, totalSamples)}
          /\ UNCHANGED <<accepted, totalSamples, sampleSum, wrapped>>
      BY <2>2, SamplingAssumption DEF Store, MeanDistance, irqVars, TypeOK
    <3>2. PICK a \in accepted : a.distance * totalSamples <= sampleSum
      BY <2>2, <3>1 DEF MeanInv
    <3>3. PICK b \in accepted : sampleSum <= b.distance * totalSamples
      BY <2>2, <3>1 DEF MeanInv
    <3>4. a.distance \in Int /\ b.distance \in Int
      BY DEF TypeOK
    <3>5. a.distance <= Quotient(sampleSum, totalSamples) /\ Quotient(sampleSum, totalSamples) <= b.distance
      BY <3>1, <3>2, <3>3, <3>4, QuotientBetween
    <3> QED
      BY <2>2, <3>1, <3>5 DEF MeanInv, MeanInRange
  <2>3. CASE Store /\ wrapped
    BY <2>3 DEF Store, irqVars, MeanInv
  <2>4. CASE HandleFalling
    <3>1. PICK d \in Lateness : \E x \in Spans(d) :
             IF Accepts(x) THEN Count(x)
             ELSE UNCHANGED <<totalSamples, sampleSum, outlierHighest, outlierLowest,
                              accepted, wrapped>>
      BY <2>4 DEF HandleFalling
    <3>2. PICK x \in Spans(d) :
             IF Accepts(x) THEN Count(x)
             ELSE UNCHANGED <<totalSamples, sampleSum, outlierHighest, outlierLowest,
                              accepted, wrapped>>
      BY <3>1
    <3>3. x \in Int /\ written' = written
      BY <2>4, SpansType, SamplingAssumption DEF HandleFalling, threadVars
    <3>4. CASE Accepts(x)
      BY <3>2, <3>3, <3>4, MeanOfCount
    <3>5. CASE ~Accepts(x)
      BY <2>1, <3>2, <3>3, <3>5
    <3> QED
      BY <3>4, <3>5
  <2> QED
    BY <2>1, <2>2, <2>3, <2>4 DEF Next, Trigger, DivideByZero, PulseStarts, PulseEnds, NoPulse,
       HandleRising, Finished, vars, threadVars, irqVars, sensorVars
<1>3. MeanInv => MeanInRange
  BY DEF MeanInv, MeanInRange
<1> QED
  BY <1>1, <1>2, <1>3, TypeCorrect, PTL DEF Spec
=============================================================================
