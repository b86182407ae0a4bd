-------------------------- MODULE HcsrFifo_proofs --------------------------
(***************************************************************************)
(* For every buffer size and every set of samples: the slots of an HC-SR04 *)
(* device always form one arc (Contiguous), and fifoWrite, fifoRead and    *)
(* the clearing loop implement a bounded stack (ImplementsStack).          *)
(***************************************************************************)
EXTENDS HcsrFifo, Sequences, SequenceTheorems, TLAPS

-----------------------------------------------------------------------------
(* Arithmetic of the circle.                                                *)

\* The index fifoWrite moves to: the next slot, or slot 0 after the last.
LEMMA IndexUpValue ==
    ASSUME NEW i \in Slots
    PROVE  IndexUp(i) = IF i = Size - 1 THEN 0 ELSE i + 1
  BY SizeAssumption DEF IndexUp, Slots

\* Both index movements stay within the slots.
LEMMA IndexMoves ==
    ASSUME NEW i \in Slots
    PROVE  IndexUp(i) \in Slots /\ IndexDown(i) \in Slots
  BY IndexUpValue, SizeAssumption DEF IndexDown, Slots

\* Going down from i every slot is met, and none of them twice.
LEMMA BackInSlots ==
    ASSUME NEW i \in Slots, NEW k \in Slots
    PROVE  BackFrom(i, k) \in Slots
  BY SizeAssumption DEF BackFrom, Slots

LEMMA BackInjective ==
    ASSUME NEW i \in Slots, NEW k \in Slots, NEW l \in Slots,
           BackFrom(i, k) = BackFrom(i, l)
    PROVE  k = l
  BY SizeAssumption DEF BackFrom, Slots

\* Moving the index up makes every slot one step older and brings the
\* oldest to the front.
LEMMA BackAfterUp ==
    ASSUME NEW i \in Slots
    PROVE  /\ BackFrom(IndexUp(i), 0) = IndexUp(i)
           /\ BackFrom(i, Size - 1) = IndexUp(i)
           /\ \A k \in Slots \ {0} : BackFrom(IndexUp(i), k) = BackFrom(i, k - 1)
  BY IndexUpValue, SizeAssumption DEF BackFrom, Slots

\* Moving it down makes every slot one step newer and the one it leaves the
\* oldest.
LEMMA BackAfterDown ==
    ASSUME NEW i \in Slots
    PROVE  /\ BackFrom(i, 0) = i
           /\ BackFrom(IndexDown(i), Size - 1) = i
           /\ \A k \in Slots \ {Size - 1} :
                  BackFrom(IndexDown(i), k) = BackFrom(i, k + 1)
  BY SizeAssumption DEF BackFrom, IndexDown, Slots

-----------------------------------------------------------------------------
(* Types.                                                                   *)

\* The type invariant of the buffer holds in every reachable state.
THEOREM TypeCorrect == Spec => []TypeOK
<1>1. Init => TypeOK
  BY SizeAssumption DEF Init, TypeOK, Slots
<1>2. TypeOK /\ [Next]_vars => TypeOK'
  <2> SUFFICES ASSUME TypeOK, [Next]_vars PROVE TypeOK'
    OBVIOUS
  <2>1. ASSUME NEW s \in Sample, FifoWrite(s) PROVE TypeOK'
    BY <2>1, IndexMoves DEF TypeOK, FifoWrite
  <2>2. CASE FifoReadEmpty
    BY <2>2 DEF TypeOK, FifoReadEmpty
  <2>3. CASE FifoReadSample
    BY <2>3, IndexMoves DEF TypeOK, FifoReadSample
  <2>4. CASE FifoClear
    BY <2>4, SizeAssumption DEF TypeOK, FifoClear, Slots
  <2>5. CASE UNCHANGED vars
    BY <2>5 DEF TypeOK, vars
  <2> QED
    BY <2>1, <2>2, <2>3, <2>4, <2>5 DEF Next
<1> QED
  BY <1>1, <1>2, PTL DEF Spec

-----------------------------------------------------------------------------
(* The arc.  Each action is described by what it does to the number of      *)
(* samples held; the refinement below uses the same three facts.            *)

\* At most one number describes the arc.
LEMMA HoldsOnce ==
    ASSUME NEW b, NEW i, NEW m \in 0..Size, NEW n \in 0..Size,
           Arc(b, i, m), Arc(b, i, n)
    PROVE  m = n
<1>1. CASE m < n
  <2>1. m \in Slots
    BY <1>1, SizeAssumption DEF Slots
  <2> QED
    BY <1>1, <2>1 DEF Arc
<1>2. CASE n < m
  <2>1. n \in Slots
    BY <1>2, SizeAssumption DEF Slots
  <2> QED
    BY <1>2, <2>1 DEF Arc
<1> QED
  BY <1>1, <1>2, SizeAssumption

\* The number one larger, but never more than Size.
More(n) == IF n < Size THEN n + 1 ELSE Size

\* A write adds a sample, or replaces the oldest of a full buffer.
LEMMA WriteHolds ==
    ASSUME TypeOK, NEW s \in Sample, FifoWrite(s), NEW n \in 0..Size, Arc(buffer, bufferIndex, n)
    PROVE  More(n) \in 0..Size /\ Arc(buffer', bufferIndex', More(n))
<1>1. More(n) \in 0..Size
  BY SizeAssumption DEF More
<1>2. \A k \in Slots : (buffer'[BackFrom(bufferIndex', k)] # NoValue) <=> (k < More(n))
  <2> SUFFICES ASSUME NEW k \in Slots
               PROVE  (buffer'[BackFrom(bufferIndex', k)] # NoValue) <=> (k < More(n))
    OBVIOUS
  <2>1. CASE k = 0
    <3>1. buffer'[BackFrom(bufferIndex', k)] = s
      BY <2>1, BackAfterUp, IndexMoves DEF FifoWrite, TypeOK
    <3> QED
      BY <2>1, <3>1, NoValueAssumption, SizeAssumption DEF More
  <2>2. CASE k # 0
    <3>1. k - 1 \in Slots /\ Size - 1 \in Slots /\ k - 1 # Size - 1
      BY <2>2, SizeAssumption DEF Slots
    <3>2. BackFrom(bufferIndex', k) = BackFrom(bufferIndex, k - 1)
      BY <2>2, BackAfterUp DEF FifoWrite, TypeOK
    <3>3. BackFrom(bufferIndex, k - 1) # IndexUp(bufferIndex)
      BY <3>1, BackInjective, BackAfterUp DEF TypeOK
    <3>4. buffer'[BackFrom(bufferIndex', k)] = buffer[BackFrom(bufferIndex, k - 1)]
      BY <3>1, <3>2, <3>3, BackInSlots DEF FifoWrite, TypeOK
    <3>5. (buffer[BackFrom(bufferIndex, k - 1)] # NoValue) <=> (k - 1 < n)
      BY <3>1 DEF Arc
    <3> QED
      BY <2>2, <3>4, <3>5, SizeAssumption DEF More, Slots
  <2> QED
    BY <2>1, <2>2
<1> QED
  BY <1>1, <1>2 DEF Arc

\* A read of a sample takes the newest away.
LEMMA ReadHolds ==
    ASSUME TypeOK, FifoReadSample, NEW n \in 0..Size, Arc(buffer, bufferIndex, n)
    PROVE  n - 1 \in 0..Size /\ Arc(buffer', bufferIndex', n - 1)
<1>1. 0 < n
  BY BackAfterDown, SizeAssumption DEF TypeOK, FifoReadSample, Arc, Slots
<1>2. \A k \in Slots : (buffer'[BackFrom(bufferIndex', k)] # NoValue) <=> (k < n - 1)
  <2> SUFFICES ASSUME NEW k \in Slots
               PROVE  (buffer'[BackFrom(bufferIndex', k)] # NoValue) <=> (k < n - 1)
    OBVIOUS
  <2>1. CASE k = Size - 1
    <3>1. buffer'[BackFrom(bufferIndex', k)] = NoValue
      BY <2>1, BackAfterDown DEF FifoReadSample, TypeOK
    <3> QED
      BY <2>1, <3>1, SizeAssumption
  <2>2. CASE k # Size - 1
    <3>1. k + 1 \in Slots /\ 0 \in Slots /\ k + 1 # 0
      BY <2>2, SizeAssumption DEF Slots
    <3>2. BackFrom(bufferIndex', k) = BackFrom(bufferIndex, k + 1)
      BY <2>2, BackAfterDown DEF FifoReadSample, TypeOK
    <3>3. BackFrom(bufferIndex, k + 1) # bufferIndex
      BY <3>1, BackInjective, BackAfterDown DEF TypeOK
    <3>4. buffer'[BackFrom(bufferIndex', k)] = buffer[BackFrom(bufferIndex, k + 1)]
      BY <3>1, <3>2, <3>3, BackInSlots DEF FifoReadSample, TypeOK
    <3>5. (buffer[BackFrom(bufferIndex, k + 1)] # NoValue) <=> (k + 1 < n)
      BY <3>1 DEF Arc
    <3> QED
      BY <3>4, <3>5, SizeAssumption DEF Slots
  <2> QED
    BY <2>1, <2>2
<1> QED
  BY <1>1, <1>2, SizeAssumption DEF Arc

\* A buffer of free slots holds nothing, wherever its index is.
LEMMA FreeHolds ==
    ASSUME bufferIndex \in Slots, buffer = [i \in Slots |-> NoValue]
    PROVE  0 \in 0..Size /\ Arc(buffer, bufferIndex, 0)
  BY BackInSlots, SizeAssumption DEF Arc, Slots

LEMMA ClearHolds ==
    ASSUME FifoClear
    PROVE  0 \in 0..Size /\ Arc(buffer', bufferIndex', 0)
<1>1. \A k \in Slots : BackFrom(0, k) \in Slots
  BY BackInSlots, SizeAssumption DEF Slots
<1> QED
  BY <1>1, SizeAssumption DEF FifoClear, Arc, Slots

\* The slots in use form one arc that ends at bufferIndex, so the single
\* slot fifoRead looks at is free only when all of them are.
THEOREM ContiguousAlways == Spec => []Contiguous
<1>1. Init => Contiguous
  <2> SUFFICES ASSUME Init PROVE Contiguous
    OBVIOUS
  <2>1. bufferIndex \in Slots
    BY SizeAssumption DEF Init, Slots
  <2> QED
    BY <2>1, FreeHolds DEF Init, Contiguous
<1>2. TypeOK /\ Contiguous /\ [Next]_vars => Contiguous'
  <2> SUFFICES ASSUME TypeOK, Contiguous, [Next]_vars PROVE Contiguous'
    OBVIOUS
  <2>0. PICK n \in 0..Size : Arc(buffer, bufferIndex, n)
    BY DEF Contiguous
  <2>1. ASSUME NEW s \in Sample, FifoWrite(s) PROVE Contiguous'
    BY <2>0, <2>1, WriteHolds DEF Contiguous
  <2>2. CASE FifoReadEmpty
    BY <2>0, <2>2 DEF FifoReadEmpty, Contiguous, Arc
  <2>3. CASE FifoReadSample
    BY <2>0, <2>3, ReadHolds DEF Contiguous
  <2>4. CASE FifoClear
    BY <2>4, ClearHolds DEF Contiguous
  <2>5. CASE UNCHANGED vars
    BY <2>0, <2>5 DEF vars, Contiguous, Arc
  <2> QED
    BY <2>1, <2>2, <2>3, <2>4, <2>5 DEF Next
<1> QED
  BY <1>1, <1>2, TypeCorrect, PTL DEF Spec

-----------------------------------------------------------------------------
(* The refinement.                                                          *)

\* The number that describes the arc is its Depth.
LEMMA DepthIs ==
    ASSUME NEW b, NEW i, NEW n \in 0..Size, Arc(b, i, n)
    PROVE  Depth(b, i) = n
<1>1. Depth(b, i) \in 0..Size /\ Arc(b, i, Depth(b, i))
  BY DEF Depth
<1> QED
  BY <1>1, HoldsOnce

\* What is held is a sequence of samples, as long as the arc.
LEMMA HeldIs ==
    ASSUME NEW b \in [Slots -> Sample \cup {NoValue}], NEW i \in Slots,
           NEW n \in 0..Size, Arc(b, i, n)
    PROVE  /\ Held(b, i) = [k \in 1..n |-> b[BackFrom(i, k - 1)]]
           /\ Held(b, i) \in Seq(Sample)
           /\ Len(Held(b, i)) = n
<1>1. Held(b, i) = [k \in 1..n |-> b[BackFrom(i, k - 1)]]
  BY DepthIs DEF Held
<1>2. \A k \in 1..n : b[BackFrom(i, k - 1)] \in Sample
  <2> SUFFICES ASSUME NEW k \in 1..n PROVE b[BackFrom(i, k - 1)] \in Sample
    OBVIOUS
  <2>1. k - 1 \in Slots /\ k - 1 < n
    BY SizeAssumption DEF Slots
  <2> QED
    BY <2>1, BackInSlots DEF Arc
<1>3. Held(b, i) \in [1..n -> Sample]
  BY <1>1, <1>2
<1>4. Held(b, i) \in Seq(Sample)
  BY <1>3, SeqDef, SizeAssumption
<1> QED
  BY <1>1, <1>3, <1>4, LenProperties

\* For every size and every set of samples, the buffer of the driver is a
\* bounded stack: each fifoWrite is a push that may forget the oldest sample,
\* each fifoRead a pop of the newest or a report of an empty stack.
THEOREM StackImplemented == Spec => ImplementsStack
<1> DEFINE held == Held(buffer, bufferIndex)
<1>1. Init => Abstract!StackInit
  <2> SUFFICES ASSUME Init PROVE Abstract!StackInit
    OBVIOUS
  <2>1. /\ buffer \in [Slots -> Sample \cup {NoValue}]
        /\ bufferIndex \in Slots
        /\ 0 \in 0..Size
        /\ Arc(buffer, bufferIndex, 0)
    BY FreeHolds, SizeAssumption DEF Init, Slots
  <2>2. held \in Seq(Sample) /\ Len(held) = 0
    BY <2>1, HeldIs
  <2>3. held = << >>
    BY <2>2, EmptySeq
  <2> QED
    BY <2>3 DEF Init, Abstract!StackInit
<1>2. TypeOK /\ TypeOK' /\ Contiguous /\ [Next]_vars => [Abstract!StackNext]_(Abstract!stackVars)
  <2> SUFFICES ASSUME TypeOK, TypeOK', Contiguous, [Next]_vars
               PROVE  Abstract!StackNext \/ UNCHANGED <<held, out>>
    BY DEF Abstract!stackVars
  <2> DEFINE heldAfter == Held(buffer', bufferIndex')
  <2>0. PICK n \in 0..Size : Arc(buffer, bufferIndex, n)
    BY DEF Contiguous
  <2>a. /\ held = [k \in 1..n |-> buffer[BackFrom(bufferIndex, k - 1)]]
        /\ held \in Seq(Sample)
        /\ Len(held) = n
    BY <2>0, HeldIs DEF TypeOK
  <2>b. ASSUME NEW m \in 0..Size, Arc(buffer', bufferIndex', m)
        PROVE  /\ heldAfter = [k \in 1..m |-> buffer'[BackFrom(bufferIndex', k - 1)]]
               /\ heldAfter \in Seq(Sample)
               /\ Len(heldAfter) = m
    BY <2>b, HeldIs DEF TypeOK
  <2>1. ASSUME NEW s \in Sample, FifoWrite(s) PROVE Abstract!Push(s)
    <3>1. heldAfter = [k \in 1..More(n) |-> buffer'[BackFrom(bufferIndex', k - 1)]]
      BY <2>0, <2>1, <2>b, WriteHolds
    <3>2. ASSUME NEW k \in 1..More(n)
          PROVE  buffer'[BackFrom(bufferIndex', k - 1)] = IF k = 1 THEN s ELSE held[k - 1]
      <4>1. CASE k = 1
        BY <4>1, <2>1, BackAfterUp, IndexMoves DEF FifoWrite, TypeOK
      <4>2. CASE k # 1
        <5>1. /\ k - 1 \in Slots \ {0} /\ k - 2 \in Slots /\ Size - 1 \in Slots
              /\ k - 2 # Size - 1 /\ k - 1 \in 1..n /\ (k - 1) - 1 = k - 2
          BY <4>2, SizeAssumption DEF More, Slots
        <5>2. BackFrom(bufferIndex', k - 1) = BackFrom(bufferIndex, k - 2)
          BY <5>1, <2>1, BackAfterUp DEF FifoWrite, TypeOK
        <5>3. BackFrom(bufferIndex, k - 2) # IndexUp(bufferIndex)
          BY <5>1, BackInjective, BackAfterUp DEF TypeOK
        <5>4. buffer'[BackFrom(bufferIndex', k - 1)] = buffer[BackFrom(bufferIndex, k - 2)]
          BY <5>1, <5>2, <5>3, <2>1, BackInSlots DEF FifoWrite, TypeOK
        <5> QED
          BY <5>1, <5>4, <4>2, <2>a
      <4> QED
        BY <4>1, <4>2
    <3>3. heldAfter = [k \in 1..More(n) |-> IF k = 1 THEN s ELSE held[k - 1]]
      BY <3>1, <3>2
    <3>4. heldAfter = Abstract!Topped(s, held)
      BY <3>3, <2>a DEF Abstract!Topped, More
    <3> QED
      BY <3>4, <2>1 DEF Abstract!Push, FifoWrite
  <2>2. CASE FifoReadEmpty
    <3>1. 0 \in Slots /\ BackFrom(bufferIndex, 0) = bufferIndex
      BY SizeAssumption DEF Slots, BackFrom, TypeOK
    <3>2. n = 0
      BY <2>0, <2>2, <3>1, SizeAssumption DEF FifoReadEmpty, Arc
    <3>3. held = << >>
      BY <3>2, <2>a, EmptySeq
    <3> QED
      BY <2>2, <3>3 DEF FifoReadEmpty, Abstract!StackNext, Abstract!PopEmpty
  <2>3. CASE FifoReadSample
    <3>0. 0 \in Slots /\ BackFrom(bufferIndex, 0) = bufferIndex
      BY SizeAssumption DEF Slots, BackFrom, TypeOK
    <3>1. 0 < n /\ held # << >>
      BY SMTT(30), <3>0, <2>0, <2>3, <2>a, EmptySeq, SizeAssumption DEF FifoReadSample, Arc
    <3>2. held[1] = buffer[bufferIndex]
      BY <3>0, <3>1, <2>a
    <3>3. heldAfter = [k \in 1..(n - 1) |-> buffer'[BackFrom(bufferIndex', k - 1)]]
      BY <2>0, <2>3, <2>b, ReadHolds
    <3>4. ASSUME NEW k \in 1..(n - 1)
          PROVE  buffer'[BackFrom(bufferIndex', k - 1)] = held[k + 1]
      <4>1. /\ k - 1 \in Slots \ {Size - 1} /\ k \in Slots /\ k # 0
            /\ k + 1 \in 1..n /\ (k - 1) + 1 = k /\ (k + 1) - 1 = k
        BY SizeAssumption DEF Slots
      <4>2. BackFrom(bufferIndex', k - 1) = BackFrom(bufferIndex, k)
        BY <4>1, <2>3, BackAfterDown DEF FifoReadSample, TypeOK
      <4>3. BackFrom(bufferIndex, k) # bufferIndex
        BY <3>0, <4>1, BackInjective DEF TypeOK
      <4>4. buffer'[BackFrom(bufferIndex', k - 1)] = buffer[BackFrom(bufferIndex, k)]
        BY <4>1, <4>2, <4>3, <2>3, BackInSlots DEF FifoReadSample, TypeOK
      <4> QED
        BY <4>1, <4>4, <2>a
    <3>5. heldAfter = [k \in 1..(Len(held) - 1) |-> held[k + 1]]
      BY <3>3, <3>4, <2>a
    <3> QED
      BY <3>1, <3>2, <3>5, <2>3 DEF FifoReadSample, Abstract!StackNext, Abstract!Pop
  <2>4. CASE FifoClear
    <3>1. heldAfter \in Seq(Sample) /\ Len(heldAfter) = 0
      BY <2>4, <2>b, ClearHolds
    <3>2. heldAfter = << >>
      BY <3>1, EmptySeq
    <3> QED
      BY <2>4, <3>2 DEF FifoClear, Abstract!StackNext, Abstract!Drop
  <2>5. CASE UNCHANGED vars
    BY <2>5 DEF vars
  <2> QED
    BY <2>1, <2>2, <2>3, <2>4, <2>5 DEF Next, Abstract!StackNext
<1>3. Spec => [](TypeOK /\ Contiguous)
  BY TypeCorrect, ContiguousAlways, PTL
<1> QED
  BY <1>1, <1>2, <1>3, PTL DEF Spec, ImplementsStack, Abstract!StackSpec

=============================================================================
