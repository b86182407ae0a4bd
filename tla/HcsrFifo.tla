----------------------------- MODULE HcsrFifo -----------------------------
(***************************************************************************)
(* The sample buffer of one HC-SR04 device: FIFO_SIZE slots, a             *)
(* bufferIndex, fifoWrite, fifoRead and the clearing loop of hcsr04_write. *)
(* In the driver the first two run under buffer_lock, so each is one step  *)
(* here; module HcsrDriver takes them, and the clearing, apart.            *)
(***************************************************************************)
EXTENDS Integers

CONSTANTS Size,     \* FIFO_SIZE
          Sample,   \* the values a slot can hold: a distance and its tsc
          NoValue   \* NO_VALUE: the slot is free; also BUFFER_EMPTY

ASSUME SizeAssumption == Size \in Nat \ {0}
ASSUME NoValueAssumption == NoValue \notin Sample

VARIABLES buffer,        \* the slots
          bufferIndex,   \* where the newest sample is, if there is one
          out            \* what the latest fifoRead returned

vars == <<buffer, bufferIndex, out>>

Slots == 0..(Size - 1)

TypeOK == /\ buffer \in [Slots -> Sample \cup {NoValue}]
          /\ bufferIndex \in Slots
          /\ out \in Sample \cup {NoValue}

Init == /\ buffer = [i \in Slots |-> NoValue]
        /\ bufferIndex = 0
        /\ out = NoValue

-----------------------------------------------------------------------------
(* The index moves up before a write and down after a read, around the end. *)

IndexUp(i) == (i + 1) % Size

\* A faulty variant: the index runs off the low end.
IndexDownUnwrapped(i) == i - 1

IndexDown(i) == IF i - 1 < 0 THEN Size - 1 ELSE i - 1

\* A faulty variant: the sample goes into the slot at the index.
FifoWriteInPlace(s) ==
    /\ buffer' = [buffer EXCEPT ![bufferIndex] = s]
    /\ UNCHANGED <<bufferIndex, out>>

FifoWrite(s) ==
    /\ bufferIndex' = IndexUp(bufferIndex)
    /\ buffer' = [buffer EXCEPT ![IndexUp(bufferIndex)] = s]
    /\ UNCHANGED out

FifoReadEmpty ==
    /\ buffer[bufferIndex] = NoValue
    /\ out' = NoValue
    /\ UNCHANGED <<buffer, bufferIndex>>

\* A faulty variant: the slot that was read stays in use.
FifoReadKeepingSlot ==
    /\ buffer[bufferIndex] # NoValue
    /\ out' = buffer[bufferIndex]
    /\ bufferIndex' = IndexDown(bufferIndex)
    /\ UNCHANGED buffer

FifoReadSample ==
    /\ buffer[bufferIndex] # NoValue
    /\ out' = buffer[bufferIndex]
    /\ buffer' = [buffer EXCEPT ![bufferIndex] = NoValue]
    /\ bufferIndex' = IndexDown(bufferIndex)

\* hcsr04_write with a non-zero operation: every slot, then the index.
FifoClear ==
    /\ buffer' = [i \in Slots |-> NoValue]
    /\ bufferIndex' = 0
    /\ UNCHANGED out

Next == \/ \E s \in Sample : FifoWrite(s)
        \/ FifoReadEmpty
        \/ FifoReadSample
        \/ FifoClear

Spec == Init /\ [][Next]_vars

-----------------------------------------------------------------------------
(* Seen from index i and going down, slot number k (0 is i itself).         *)

BackFrom(i, k) == IF k <= i THEN i - k ELSE i - k + Size

\* In slots b, the first n going down from i are in use, the others free.
Arc(b, i, n) == \A k \in Slots : (b[BackFrom(i, k)] # NoValue) <=> (k < n)

\* The slots in use are always one unbroken arc that ends at bufferIndex: a
\* free slot never hides an older sample, so the single test of fifoRead
\* (HCSR_Driver.c:283) is enough to tell that the whole buffer is empty.
Contiguous == \E n \in 0..Size : Arc(buffer, bufferIndex, n)

Depth(b, i) == CHOOSE n \in 0..Size : Arc(b, i, n)

\* The samples that slots b hold, newest first.
Held(b, i) == [k \in 1..Depth(b, i) |-> b[BackFrom(i, k - 1)]]

Abstract == INSTANCE BoundedStack WITH stack <- Held(buffer, bufferIndex)

\* fifoWrite, fifoRead and the clearing loop implement a bounded stack: what
\* is read back is exactly what was written, newest first, each sample once,
\* and only the oldest is lost when the buffer is full, wherever in the
\* circle the index happens to be.
ImplementsStack == Abstract!StackSpec
=============================================================================
