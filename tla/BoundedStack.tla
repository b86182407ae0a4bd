--------------------------- MODULE BoundedStack ---------------------------
(***************************************************************************)
(* What the sample buffer of the HC-SR04 drivers promises its callers: a   *)
(* bounded stack.  A write puts the sample on top and, when Size samples   *)
(* are already held, forgets the oldest; a read takes the newest sample    *)
(* away, or reports that there is none.  Nothing here speaks of slots or   *)
(* of an index: module HcsrFifo, which does, implements this one.          *)
(***************************************************************************)
EXTENDS Naturals, Sequences

CONSTANTS Size,     \* how many samples are kept (FIFO_SIZE)
          Sample,   \* the samples the measuring thread produces
          NoValue   \* what a read of an empty stack reports

VARIABLES stack,    \* the samples held, newest first
          out       \* what the latest read returned

stackVars == <<stack, out>>

StackInit == stack = <<>> /\ out = NoValue

\* The newest Size entries once s is on top of stack t.
Topped(s, t) == [k \in 1..(IF Len(t) < Size THEN Len(t) + 1 ELSE Size) |->
                    IF k = 1 THEN s ELSE t[k - 1]]

Push(s) == stack' = Topped(s, stack) /\ UNCHANGED out

Pop == /\ stack # <<>>
       /\ out' = stack[1]
       /\ stack' = [k \in 1..(Len(stack) - 1) |-> stack[k + 1]]

PopEmpty == stack = <<>> /\ out' = NoValue /\ UNCHANGED stack

Drop == stack' = <<>> /\ UNCHANGED out

StackNext == (\E s \in Sample : Push(s)) \/ Pop \/ PopEmpty \/ Drop

StackSpec == StackInit /\ [][StackNext]_stackVars
=============================================================================
