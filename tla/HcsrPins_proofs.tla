--------------------------- MODULE HcsrPins_proofs ---------------------------
(***************************************************************************)
(* For any devices and pins, any number of calls that overlap in any way,  *)
(* and requests that fail for any reason: gpio_free is called on GPIOs     *)
(* that are held, the interrupts claimed are those the devices know, a     *)
(* configured pin has an open owner or none, and as long as calls do not   *)
(* overlap the driver holds the GPIOs of the configured pins and no other. *)
(***************************************************************************)
EXTENDS HcsrPins, TLAPS

-----------------------------------------------------------------------------
(* The table of pins: no GPIO is in it twice.                               *)

Indices(p) == 1..Len(Gen2[p])

\* The pin a GPIO belongs to.
PinOf(g) ==
    CASE g \in {11, 32} -> 0 [] g \in {12, 28, 45} -> 1 [] g \in {61, 77} -> 2
      [] g \in {62, 76, 64} -> 3 [] g \in {6, 36} -> 4 [] g \in {0, 18, 66} -> 5
      [] g \in {1, 20, 68} -> 6 [] g = 38 -> 7 [] g = 40 -> 8 [] g \in {4, 22, 70} -> 9
      [] g \in {10, 26, 74} -> 10 [] g \in {5, 24, 44, 72} -> 11 [] g \in {15, 42} -> 12

LEMMA TableRow ==
    ASSUME NEW p \in 0..12
    PROVE  /\ Len(Gen2[p]) \in 1..4
           /\ \A i \in Indices(p) : PinOf(Gen2[p][i]) = p
           /\ \A i, j \in Indices(p) : Gen2[p][i] = Gen2[p][j] => i = j
<1>p. \/ p = 0 \/ p = 1 \/ p = 2 \/ p = 3 \/ p = 4 \/ p = 5 \/ p = 6 \/ p = 7
      \/ p = 8 \/ p = 9 \/ p = 10 \/ p = 11 \/ p = 12
  BY SMTT(30)
<1> USE DEF Gen2, PinOf, Indices
<1>0. CASE p = 0
  BY <1>0, SMTT(30)
<1>1. CASE p = 1
  BY <1>1, SMTT(30)
<1>2. CASE p = 2
  BY <1>2, SMTT(30)
<1>3. CASE p = 3
  BY <1>3, SMTT(30)
<1>4. CASE p = 4
  BY <1>4, SMTT(30)
<1>5. CASE p = 5
  BY <1>5, SMTT(30)
<1>6. CASE p = 6
  BY <1>6, SMTT(30)
<1>7. CASE p = 7
  BY <1>7, SMTT(30)
<1>8. CASE p = 8
  BY <1>8, SMTT(30)
<1>9. CASE p = 9
  BY <1>9, SMTT(30)
<1>10. CASE p = 10
  BY <1>10, SMTT(30)
<1>11. CASE p = 11
  BY <1>11, SMTT(30)
<1>12. CASE p = 12
  BY <1>12, SMTT(30)
<1> HIDE DEF Gen2, PinOf, Indices
<1> QED
  BY <1>p, <1>0, <1>1, <1>2, <1>3, <1>4, <1>5, <1>6, <1>7, <1>8, <1>9, <1>10, <1>11, <1>12

LEMMA NoGpioTwice ==
    ASSUME NEW p \in Pins, NEW q \in Pins, NEW i \in Indices(p), NEW j \in Indices(q),
           Gen2[p][i] = Gen2[q][j]
    PROVE  p = q /\ i = j
<1>1. p \in 0..12 /\ q \in 0..12
  BY PinsAssumption
<1>2. p = q
  BY <1>1, TableRow
<1> QED
  BY <1>1, <1>2, TableRow

LEMMA HasHighest ==
    ASSUME NEW S, S \subseteq Pins, S # {}
    PROVE  \E p \in S : \A q \in S : q <= p
<1>1. S \subseteq 0..12 /\ \E p \in S : TRUE
  BY PinsAssumption
<1>3. CASE \E p \in S : p >= 9
  BY <1>1, <1>3
<1>4. CASE (\E p \in S : p >= 6) /\ \A p \in S : p < 9
  BY <1>1, <1>4
<1>5. CASE (\E p \in S : p >= 3) /\ \A p \in S : p < 6
  BY <1>1, <1>5
<1>2. CASE \A p \in S : p < 3
  BY <1>1, <1>2
<1>6. (\E p \in S : p >= 9) \/ \A p \in S : p < 9
  BY <1>1
<1>7. (\E p \in S : p >= 6) \/ \A p \in S : p < 6
  BY <1>1
<1>8. (\E p \in S : p >= 3) \/ \A p \in S : p < 3
  BY <1>1
<1> QED
  BY <1>2, <1>3, <1>4, <1>5, <1>6, <1>7, <1>8, Zenon

LEMMA HighestIsIn ==
    ASSUME NEW S, S \subseteq Pins, S # {}
    PROVE  Highest(S) \in S
BY HasHighest DEF Highest

LEMMA HighestIsMost ==
    ASSUME NEW S, S \subseteq Pins, S # {}, NEW q \in S
    PROVE  ~(q > Highest(S))
<1>1. q <= Highest(S) /\ Highest(S) \in S
  BY HasHighest DEF Highest
<1>2. q \in 0..12 /\ Highest(S) \in 0..12
  BY <1>1, PinsAssumption
<1> QED
  BY <1>1, <1>2

-----------------------------------------------------------------------------
(* Types, and where a call is in the table.                                 *)

\* The walk of a call: its file is open, its pin is in the table, its GPIO in the row.
WalkInv ==
    /\ ~loaded => open = {}
    /\ \A d \in Devices :
          /\ pc[d] # "idle" => d \in open /\ Pin(d) \in Pins
          /\ pc[d] = "request" => work[d].gpio \in Indices(Pin(d))
          /\ pc[d] = "undo" => work[d].gpio \in Indices(Pin(d)) /\ work[d].last \in Indices(Pin(d))
                               /\ work[d].gpio <= work[d].last
          /\ pc[d] = "free" => work[d].gpio \in Indices(Pin(d))
                               /\ work[d].last = Len(Gen2[Pin(d)])

\* A device that is being configured has both its pins.
PairInv ==
    \A d \in Devices : pc[d] \in {"pin", "request", "undo", "mark", "own", "attach"} =>
        trigger[d] \in Pins /\ echo[d] \in Pins

TypeInv == TypeOK /\ WalkInv /\ PairInv

LEMMA RowLength ==
    ASSUME NEW p \in Pins
    PROVE  Len(Gen2[p]) \in 1..4 /\ Indices(p) \subseteq 1..4 /\ 1 \in Indices(p)
<1>1. p \in 0..12
  BY PinsAssumption
<1>2. Len(Gen2[p]) \in 1..4
  BY <1>1, TableRow
<1>3. \A n \in 1..4 : 1..n \subseteq 1..4 /\ 1 \in 1..n
  OBVIOUS
<1> QED
  BY <1>2, <1>3 DEF Indices

LEMMA GpioInTable ==
    ASSUME NEW d \in Devices, Pin(d) \in Pins, work[d].gpio \in Indices(Pin(d))
    PROVE  Gpio(d) \in Gpios
BY DEF Gpio, Gpios, GpiosOf, Indices

Places == {"idle", "pin", "request", "undo", "mark", "own", "attach",
           "ours", "free", "unmark", "disown"}

WorkType ==
    /\ pc \in [Devices -> Places]
    /\ work \in [Devices -> [pin : Pins \cup {NoPin}, gpio : 0..4, last : 0..4]]

RestType ==
    /\ loaded \in BOOLEAN /\ overlap \in BOOLEAN /\ mistaken \in BOOLEAN
    /\ open \subseteq Devices /\ unset \subseteq Pins
    /\ trigger \in [Devices -> Pins \cup {NoPin}]
    /\ echo \in [Devices -> Pins \cup {NoPin}] /\ irqNo \in [Devices -> Pins \cup {NoPin}]
    /\ ready \in [Devices -> BOOLEAN]
    /\ configured \in [Pins -> BOOLEAN] /\ minor \in [Pins -> Devices \cup Garbage \cup {NoPin}]
    /\ requested \subseteq Gpios /\ handler \in [Pins -> Devices \cup {NoPin}]
    /\ calls \in 0..MaxCalls

LEMMA TypeParts == TypeOK <=> WorkType /\ RestType
BY DEF TypeOK, WorkType, RestType, Places

\* The four ways a step leaves pc and work.
LEMMA Stays ==
    ASSUME WorkType, WalkInv, NEW d \in Devices, NEW l \in Places \ {"request", "undo", "free", "idle"},
           pc[d] # "idle", Then(d, l), UNCHANGED <<open, loaded>>
    PROVE  WorkType' /\ WalkInv'
BY DEF WorkType, WalkInv, Then, Goto, Pin

LEMMA GoesToPin ==
    ASSUME WorkType, WalkInv, NEW d \in Devices, NEW l \in Places \ {"request", "undo", "free", "idle"},
           NEW p \in Pins, d \in open, ToPin(d, l, p), UNCHANGED <<open, loaded>>
    PROVE  WorkType' /\ WalkInv'
BY DEF WorkType, WalkInv, ToPin, NoWork, Goto, Pin

LEMMA Ends ==
    ASSUME WorkType, WalkInv, NEW d \in Devices, Done(d),
           open' \in {open, open \ {d}}, loaded' = loaded
    PROVE  WorkType' /\ WalkInv'
<1>1. WorkType' /\ pc'[d] = "idle"
  BY DEF WorkType, Done, NoWork, Goto, Places
<1>2. \A e \in Devices \ {d} : pc'[e] = pc[e] /\ work'[e] = work[e] /\ (e \in open' <=> e \in open)
  BY DEF WorkType, Done, Goto
<1> QED
  BY <1>1, <1>2 DEF WalkInv, Pin

LEMMA GoesToGpio ==
    ASSUME WorkType, WalkInv, NEW d \in Devices, pc[d] # "idle", UNCHANGED <<open, loaded>>,
           NEW l \in {"request", "undo", "free"}, NEW last \in 0..4, ToGpio(d, l, last),
           l # "request" => last \in Indices(Pin(d)), l = "free" => last = Len(Gen2[Pin(d)])
    PROVE  WorkType' /\ WalkInv'
<1>1. Pin(d) \in Pins /\ 1 \in Indices(Pin(d))
  BY RowLength DEF WalkInv
<1>2. WorkType' /\ Pin(d)' = Pin(d) /\ work'[d].gpio = 1 /\ work'[d].last = last /\ pc'[d] = l
  <2>1. pc' \in [Devices -> Places] /\ pc'[d] = l
    BY DEF WorkType, ToGpio, Goto, Places
  <2>2. work' = [work EXCEPT ![d] = [work[d] EXCEPT !.gpio = 1, !.last = last]]
    BY DEF WorkType, ToGpio
  <2>3. work[d] \in [pin : Pins \cup {NoPin}, gpio : 0..4, last : 0..4]
    BY DEF WorkType
  <2>4. work'[d] = [pin |-> work[d].pin, gpio |-> 1, last |-> last]
    BY <2>2, <2>3 DEF WorkType
  <2>5. /\ work'[d].pin = work[d].pin /\ work'[d].gpio = 1 /\ work'[d].last = last
        /\ work'[d] \in [pin : Pins \cup {NoPin}, gpio : 0..4, last : 0..4]
    BY <2>3, <2>4
  <2>6. work' \in [Devices -> [pin : Pins \cup {NoPin}, gpio : 0..4, last : 0..4]]
    BY <2>2, <2>4, <2>5 DEF WorkType
  <2> QED
    BY <2>1, <2>5, <2>6 DEF WorkType, Pin
<1>3. \A e \in Devices \ {d} : pc'[e] = pc[e] /\ work'[e] = work[e]
  BY DEF WorkType, ToGpio, Goto
<1>4. l # "request" => 1 <= last
  BY <1>1, RowLength DEF Indices
<1> QED
  BY <1>1, <1>2, <1>3, <1>4 DEF WalkInv, Pin

LEMMA GoesToNextGpio ==
    ASSUME WorkType, WalkInv, NEW d \in Devices, UNCHANGED <<open, loaded>>,
           pc[d] \in {"request", "undo", "free"}, ToNextGpio(d),
           work[d].gpio # (IF pc[d] = "request" THEN Len(Gen2[Pin(d)]) ELSE work[d].last)
    PROVE  WorkType' /\ WalkInv'
<1>1. Pin(d) \in Pins /\ Len(Gen2[Pin(d)]) \in 1..4 /\ work[d].gpio \in Indices(Pin(d))
  BY RowLength DEF WalkInv
<1>2. work[d].gpio + 1 \in Indices(Pin(d)) /\ work[d].gpio + 1 \in 0..4
  <2>1. \A n \in 1..4 : \A g \in 1..n : g # n => g + 1 \in 1..n /\ g + 1 \in 0..4
    OBVIOUS
  <2>2. \A n \in 1..4 : \A g, l \in 1..n : g <= l /\ g # l => g # n
    OBVIOUS
  <2>3. work[d].gpio # Len(Gen2[Pin(d)])
    BY <1>1, <2>2 DEF WalkInv, Indices
  <2> QED
    BY <1>1, <2>1, <2>3 DEF Indices
<1>3. WorkType' /\ work'[d] = [work[d] EXCEPT !.gpio = @ + 1] /\ pc' = pc
  BY <1>2 DEF WorkType, ToNextGpio
<1>4. \A e \in Devices \ {d} : work'[e] = work[e]
  BY DEF WorkType, ToNextGpio
<1>5. /\ Pin(d)' = Pin(d) /\ work'[d].gpio = work[d].gpio + 1 /\ work'[d].last = work[d].last
  BY <1>3 DEF WorkType, Pin
<1>6. pc[d] = "undo" => work[d].gpio + 1 <= work[d].last
  BY <1>1 DEF WalkInv, Indices
<1> QED
  BY ZenonT(60), <1>1, <1>2, <1>3, <1>4, <1>5, <1>6 DEF WalkInv, Pin

LEMMA RestStep == TypeInv /\ [Next]_vars => RestType'
<1> SUFFICES ASSUME TypeInv, [Next]_vars PROVE RestType'
  OBVIOUS
<1> USE TypeParts DEF TypeInv, RestType
<1>1. ASSUME NEW d \in Devices, Open(d) PROVE RestType'
  BY <1>1 DEF Open, InitializeDevice, history, tableVars, coreVars
<1>2. ASSUME NEW d \in Devices, NEW t \in Pins, NEW e \in Pins, Config(d, t, e) PROVE RestType'
  BY <1>2, PinsAssumption DEF Config, Begin, Quiet, tableVars
<1>3. ASSUME NEW d \in Devices, Release(d) PROVE RestType'
  BY <1>3, PinsAssumption DEF Release, Begin, Quiet, deviceVars, tableVars
<1>4. ASSUME NEW d \in Devices, CheckPin(d) \/ RequestFails(d) \/ AttachFails(d) PROVE RestType'
  BY <1>4 DEF CheckPin, RequestFails, AttachFails, moduleVars, history, deviceVars, tableVars, coreVars
<1>5. ASSUME NEW d \in Devices, Request(d) PROVE RestType'
  <2>1. Gpio(d) \in Gpios
    BY <1>5, GpioInTable DEF Request, WalkInv
  <2> QED
    BY <1>5, <2>1 DEF Request, moduleVars, history, deviceVars, tableVars
<1>6. ASSUME NEW d \in Devices, Undo(d) \/ Free(d) PROVE RestType'
  BY <1>6 DEF Undo, Free, moduleVars, history, deviceVars, tableVars
<1>7. ASSUME NEW d \in Devices, Mark(d) \/ Unmark(d) PROVE RestType'
  BY <1>7 DEF Mark, Unmark, moduleVars, history, deviceVars, coreVars
<1>8. ASSUME NEW d \in Devices, Own(d) PROVE RestType'
  BY <1>8 DEF Own, deviceVars, coreVars
<1>9. ASSUME NEW d \in Devices, AttachTrigger(d) PROVE RestType'
  BY <1>9 DEF AttachTrigger, NextPin, moduleVars, history, tableVars, coreVars
<1>10. ASSUME NEW d \in Devices, AttachEcho(d) PROVE RestType'
  <2>1. Pin(d) \in Pins
    BY <1>10 DEF AttachEcho, WalkInv
  <2> QED
    BY <1>10, <2>1 DEF AttachEcho, NextPin, moduleVars, history, tableVars
<1>11. ASSUME NEW d \in Devices, PassPin(d) PROVE RestType'
  BY ZenonT(60), <1>11 DEF PassPin, PassOn, InitializeDevice, history, deviceVars, tableVars, coreVars
<1>12. ASSUME NEW d \in Devices, FreePin(d) PROVE RestType'
  BY <1>12 DEF FreePin, deviceVars, tableVars, coreVars
<1>13. ASSUME NEW d \in Devices, Disown(d) PROVE RestType'
  BY ZenonT(60), <1>13 DEF Disown, PassOn, InitializeDevice, deviceVars, coreVars
<1>14. CASE Unload
  BY <1>14 DEF Unload, history, deviceVars, tableVars
<1>15. CASE Load
  BY <1>15, PinsAssumption DEF Load, None, coreVars
<1>16. CASE UNCHANGED vars
  BY <1>16 DEF vars, moduleVars, history, deviceVars, tableVars, coreVars
<1> QED
  BY <1>1, <1>2, <1>3, <1>4, <1>5, <1>6, <1>7, <1>8, <1>9, <1>10, <1>11, <1>12, <1>13, <1>14,
     <1>15, <1>16 DEF Next, Step, Stopped

LEMMA WalkStep == TypeInv /\ [Next]_vars => WorkType' /\ WalkInv'
<1> SUFFICES ASSUME TypeInv, [Next]_vars PROVE WorkType' /\ WalkInv'
  OBVIOUS
<1>0. WorkType /\ WalkInv /\ PairInv /\ RestType
  BY TypeParts DEF TypeInv
<1> USE DEF moduleVars
<1>1. ASSUME NEW d \in Devices, Open(d) PROVE WorkType' /\ WalkInv'
  BY <1>0, <1>1 DEF Open, WorkType, WalkInv, Pin
<1>2. ASSUME NEW d \in Devices, NEW t \in Pins, NEW e \in Pins, Config(d, t, e)
      PROVE  WorkType' /\ WalkInv'
  <2>1. Highest({t, e}) \in Pins
    BY HighestIsIn
  <2> QED
    BY <1>0, <1>2, <2>1, GoesToPin DEF Config, Begin, Places
<1>3. ASSUME NEW d \in Devices, Release(d) PROVE WorkType' /\ WalkInv'
  <2>1. Highest(Pins) \in Pins
    BY HighestIsIn, PinsAssumption
  <2> QED
    BY <1>0, <1>3, <2>1, GoesToPin DEF Release, Begin, Places
<1>4. ASSUME NEW d \in Devices, CheckPin(d) PROVE WorkType' /\ WalkInv'
  BY <1>0, <1>4, Stays, GoesToGpio DEF CheckPin, Places
<1>5. ASSUME NEW d \in Devices, Request(d) PROVE WorkType' /\ WalkInv'
  <2>1. Pin(d) \in Pins /\ d \in open
    BY <1>0, <1>5 DEF Request, WalkInv
  <2> QED
    BY <1>0, <1>5, <2>1, GoesToPin, GoesToNextGpio DEF Request, Places
<1>6. ASSUME NEW d \in Devices, RequestFails(d) PROVE WorkType' /\ WalkInv'
  <2>1. work[d].gpio \in Indices(Pin(d)) /\ Indices(Pin(d)) \subseteq 1..4
    BY <1>0, <1>6, RowLength DEF RequestFails, WalkInv
  <2>2. work[d].gpio # 1 => work[d].gpio - 1 \in Indices(Pin(d)) /\ work[d].gpio - 1 \in 0..4
    BY <2>1, RowLength, <1>0, <1>6 DEF Indices, RequestFails, WalkInv
  <2> QED
    BY <1>0, <1>6, <2>2, Ends, GoesToGpio DEF RequestFails
<1>7. ASSUME NEW d \in Devices, Undo(d) PROVE WorkType' /\ WalkInv'
  BY <1>0, <1>7, Ends, GoesToNextGpio DEF Undo
<1>8. ASSUME NEW d \in Devices, Mark(d) \/ Own(d) \/ Unmark(d) PROVE WorkType' /\ WalkInv'
  BY <1>0, <1>8, Stays DEF Mark, Own, Unmark, Places
<1>9. ASSUME NEW d \in Devices, AttachTrigger(d) \/ AttachEcho(d) PROVE WorkType' /\ WalkInv'
  <2>1. d \in open
    BY <1>0, <1>9 DEF AttachTrigger, AttachEcho, WalkInv
  <2>2. Left(d, {trigger[d], echo[d]}) # {} => Highest(Left(d, {trigger[d], echo[d]})) \in Pins
    <3>1. trigger[d] \in Pins /\ echo[d] \in Pins
      BY <1>0, <1>9 DEF AttachTrigger, AttachEcho, PairInv
    <3> QED
      BY <3>1, HighestIsIn DEF Left
  <2> QED
    BY <1>0, <1>9, <2>1, <2>2, Ends, GoesToPin DEF AttachTrigger, AttachEcho, NextPin, Places
<1>10. ASSUME NEW d \in Devices, AttachFails(d) PROVE WorkType' /\ WalkInv'
  BY <1>0, <1>10, Ends DEF AttachFails
<1>11. ASSUME NEW d \in Devices, PassPin(d) \/ Disown(d) PROVE WorkType' /\ WalkInv'
  <2>1. d \in open
    BY <1>0, <1>11 DEF PassPin, Disown, WalkInv
  <2>2. Left(d, Pins) # {} => Highest(Left(d, Pins)) \in Pins
    BY HighestIsIn DEF Left
  <2> QED
    BY <1>0, <1>11, <2>1, <2>2, Ends, GoesToPin DEF PassPin, Disown, PassOn, Places
<1>12. ASSUME NEW d \in Devices, FreePin(d) PROVE WorkType' /\ WalkInv'
  <2>1. Len(Gen2[Pin(d)]) \in Indices(Pin(d)) /\ Len(Gen2[Pin(d)]) \in 0..4
    BY <1>0, <1>12, RowLength DEF FreePin, WalkInv, Indices
  <2> QED
    BY <1>0, <1>12, <2>1, GoesToGpio DEF FreePin
<1>13. ASSUME NEW d \in Devices, Free(d) PROVE WorkType' /\ WalkInv'
  <2>1. Pin(d) \in Pins /\ d \in open
    BY <1>0, <1>13 DEF Free, WalkInv
  <2> QED
    BY <1>0, <1>13, <2>1, GoesToPin, GoesToNextGpio DEF Free, Places
<1>14. CASE Unload \/ Load \/ UNCHANGED vars
  BY <1>0, <1>14 DEF Unload, Load, vars, WorkType, WalkInv, Pin
<1> QED
  BY <1>1, <1>2, <1>3, <1>4, <1>5, <1>6, <1>7, <1>8, <1>9, <1>10, <1>11, <1>12, <1>13, <1>14
     DEF Next, Step, Stopped

LEMMA PairStep == TypeInv /\ [Next]_vars => PairInv'
<1> SUFFICES ASSUME TypeInv, [Next]_vars PROVE PairInv'
  OBVIOUS
<1>0. WorkType /\ PairInv /\ RestType
  BY TypeParts DEF TypeInv
<1> USE DEF PairInv, WorkType, RestType
<1>1. ASSUME NEW d \in Devices, Open(d) PROVE PairInv'
  BY <1>0, <1>1 DEF Open, InitializeDevice
<1>2. ASSUME NEW d \in Devices, NEW t \in Pins, NEW e \in Pins, Config(d, t, e) PROVE PairInv'
  BY <1>0, <1>2 DEF Config, Begin, ToPin, Goto
<1>3. ASSUME NEW d \in Devices,
             CheckPin(d) \/ Request(d) \/ RequestFails(d) \/ Undo(d) \/ Mark(d) \/ Own(d)
             \/ AttachFails(d) \/ FreePin(d) \/ Free(d) \/ Unmark(d) \/ Release(d)
      PROVE  PairInv'
  BY <1>0, <1>3 DEF CheckPin, Request, RequestFails, Undo, Mark, Own, AttachFails, FreePin, Free,
                    Unmark, Release, Begin, Then, ToPin, ToGpio, ToNextGpio, Done, Goto, deviceVars
<1>4. ASSUME NEW d \in Devices, AttachTrigger(d) \/ AttachEcho(d) PROVE PairInv'
  BY <1>0, <1>4 DEF AttachTrigger, AttachEcho, NextPin, ToPin, Done, Goto
<1>5. ASSUME NEW d \in Devices, PassPin(d) \/ Disown(d) PROVE PairInv'
  BY <1>0, <1>5 DEF PassPin, Disown, PassOn, InitializeDevice, ToPin, Done, Goto, deviceVars
<1>6. CASE Load
  BY <1>0, <1>6 DEF Load, TypeInv, WalkInv
<1>7. CASE Unload \/ UNCHANGED vars
  BY <1>0, <1>7 DEF Unload, vars, deviceVars
<1> QED
  BY <1>1, <1>2, <1>3, <1>4, <1>5, <1>6, <1>7 DEF Next, Step, Stopped

LEMMA TypeInvariant == Spec => []TypeInv
<1>1. Init => TypeInv
  <2> SUFFICES ASSUME Init PROVE TypeInv
    OBVIOUS
  <2>0. WorkType
    BY DEF Init, WorkType, Places, NoWork
  <2>1. RestType
    <3>1. minor \in [Pins -> Devices \cup Garbage \cup {NoPin}]
      BY DEF Init
    <3>2. calls \in 0..MaxCalls
      BY PinsAssumption DEF Init
    <3> QED
      BY <3>1, <3>2 DEF Init, RestType, None
  <2>2. WalkInv /\ PairInv
    BY DEF Init, WalkInv, PairInv
  <2> QED
    BY <2>0, <2>1, <2>2, TypeParts DEF TypeInv
<1>2. TypeInv /\ [Next]_vars => TypeInv'
  BY RestStep, WalkStep, PairStep DEF TypeInv, TypeOK, WorkType, RestType, Places
<1> QED
  BY <1>1, <1>2, PTL DEF Spec

\* Every variable keeps its type, however calls overlap and whatever fails; a
\* walk over the GPIOs of a pin (HCSR_Driver.c:332, 535) stays in its row.
THEOREM TypeCorrect == Spec => []TypeOK
<1>1. TypeInv => TypeOK
  BY DEF TypeInv
<1> QED
  BY <1>1, TypeInvariant, PTL

-----------------------------------------------------------------------------
(* What the ways to go on leave behind.                                     *)

OthersStay(d) == \A e \in Devices \ {d} : pc'[e] = pc[e] /\ work'[e] = work[e]

LEMMA MovesOn ==
    ASSUME WorkType, NEW d \in Devices, NEW l, Then(d, l)
    PROVE  pc'[d] = l /\ Pin(d)' = Pin(d) /\ OthersStay(d)
BY DEF WorkType, Then, Goto, Pin, OthersStay

LEMMA MovesToPin ==
    ASSUME WorkType, NEW d \in Devices, NEW l, NEW p, ToPin(d, l, p)
    PROVE  pc'[d] = l /\ Pin(d)' = p /\ OthersStay(d)
BY DEF WorkType, ToPin, NoWork, Goto, Pin, OthersStay

LEMMA MovesToGpio ==
    ASSUME WorkType, NEW d \in Devices, NEW l, NEW last, ToGpio(d, l, last)
    PROVE  /\ pc'[d] = l /\ Pin(d)' = Pin(d) /\ OthersStay(d)
           /\ work'[d].gpio = 1 /\ work'[d].last = last
<1>1. pc'[d] = l /\ OthersStay(d)
  BY DEF WorkType, ToGpio, Goto, OthersStay
<1>2. work'[d] = [work[d] EXCEPT !.gpio = 1, !.last = last]
  BY DEF WorkType, ToGpio
<1>3. work[d] \in [pin : Pins \cup {NoPin}, gpio : 0..4, last : 0..4]
  BY DEF WorkType
<1>4. work'[d] = [pin |-> work[d].pin, gpio |-> 1, last |-> last]
  BY <1>2, <1>3
<1> QED
  BY <1>1, <1>4 DEF Pin

LEMMA MovesToNext ==
    ASSUME WorkType, NEW d \in Devices, ToNextGpio(d)
    PROVE  /\ pc' = pc /\ Pin(d)' = Pin(d) /\ OthersStay(d)
           /\ work'[d].gpio = work[d].gpio + 1 /\ work'[d].last = work[d].last
BY DEF WorkType, ToNextGpio, Pin, OthersStay

LEMMA MovesOff ==
    ASSUME WorkType, NEW d \in Devices, Done(d)
    PROVE  pc'[d] = "idle" /\ OthersStay(d)
BY DEF WorkType, Done, Goto, OthersStay

-----------------------------------------------------------------------------
(* Interrupts.                                                              *)

Configuring(d) == pc[d] \in {"pin", "request", "undo", "mark", "own", "attach"}
Releasing(d) == pc[d] \in {"ours", "free", "unmark", "disown"}

\* A device knows the interrupt it claimed, except that a release has given it
\* up and clears irq_no last; until the walk of CONFIG_PINS has passed the echo
\* pin there is none to lose.
IrqInv ==
    /\ \A d \in Devices \ open : irqNo[d] = NoPin
    /\ \A d \in Devices : irqNo[d] # NoPin => echo[d] # NoPin
    /\ \A d \in Devices : Configuring(d) /\ echo[d] <= Pin(d) => irqNo[d] = NoPin
    /\ \A d \in Devices, p \in Pins :
          IF Releasing(d) THEN handler[p] # d ELSE (handler[p] = d) <=> (irqNo[d] = p)

\* The walk goes down.
LEMMA NextIsLower ==
    ASSUME NEW d \in Devices, NEW S, S \subseteq Pins, Left(d, S) # {}
    PROVE  Highest(Left(d, S)) \in Pins /\ Highest(Left(d, S)) < Pin(d)
BY HighestIsIn DEF Left

LEMMA IrqStep == TypeInv /\ IrqInv /\ [Next]_vars => IrqInv'
<1> SUFFICES ASSUME TypeInv, IrqInv, [Next]_vars PROVE IrqInv'
  OBVIOUS
<1>0. WorkType /\ WalkInv /\ PairInv /\ RestType /\ IrqInv
  BY TypeParts DEF TypeInv
<1>N. NoPin \notin Devices /\ NoPin \notin Pins /\ Pins \subseteq Int
  BY PinsAssumption DEF NoPin
<1>A. \A a, b, c \in Pins : (a <= c /\ c < b => a <= b /\ a # b) /\ a <= a
  BY <1>N
<1> USE DEF IrqInv, WorkType, RestType, Pin, Configuring, Releasing
<1>1. ASSUME NEW d \in Devices, Open(d) PROVE IrqInv'
  BY <1>0, <1>1 DEF Open, InitializeDevice, coreVars
<1>2. ASSUME NEW d \in Devices, NEW t \in Pins, NEW e \in Pins, Config(d, t, e) PROVE IrqInv'
  BY SMTT(30), <1>0, <1>N, <1>2 DEF Config, Begin, ToPin, Goto
<1>3. ASSUME NEW d \in Devices, Release(d) PROVE IrqInv'
  BY <1>0, <1>N, <1>3 DEF Release, Begin, ToPin, Goto, deviceVars
<1>4. ASSUME NEW d \in Devices,
             CheckPin(d) \/ Request(d) \/ RequestFails(d) \/ Undo(d) \/ Mark(d) \/ Own(d)
             \/ AttachFails(d) \/ FreePin(d) \/ Free(d) \/ Unmark(d)
      PROVE  IrqInv'
  <2>1. UNCHANGED <<open, irqNo, echo, handler>>
    BY <1>4 DEF CheckPin, Request, RequestFails, Undo, Mark, Own, AttachFails, FreePin, Free,
                Unmark, deviceVars, coreVars, moduleVars
  <2>2. /\ OthersStay(d) /\ (Releasing(d)' <=> Releasing(d))
        /\ Configuring(d)' => Configuring(d) /\ Pin(d)' = Pin(d)
    <3> HIDE DEF Pin
    <3>1. CASE CheckPin(d) \/ Mark(d) \/ Own(d) \/ Unmark(d) \/ FreePin(d)
      BY <1>0, <3>1, MovesOn, MovesToGpio DEF CheckPin, Mark, Own, Unmark, FreePin
    <3>2. CASE Request(d) \/ RequestFails(d) \/ Undo(d) \/ AttachFails(d) \/ Free(d)
      BY <1>0, <3>2, MovesToPin, MovesToGpio, MovesToNext, MovesOff
         DEF Request, RequestFails, Undo, AttachFails, Free
    <3> QED
      BY <1>4, <3>1, <3>2
  <2> QED
    BY <1>0, <2>1, <2>2 DEF OthersStay
<1>5. ASSUME NEW d \in Devices, AttachTrigger(d) \/ AttachEcho(d) PROVE IrqInv'
  <2> HIDE DEF Pin
  <2>1. trigger[d] \in Pins /\ echo[d] \in Pins /\ d \in open /\ Configuring(d) /\ ~Releasing(d)
    BY <1>0, <1>5 DEF AttachTrigger, AttachEcho, PairInv, WalkInv
  <2>2. OthersStay(d) /\ ~Releasing(d)'
        /\ (Configuring(d)' => Pin(d)' \in Pins /\ Pin(d)' < Pin(d))
    <3> DEFINE S == {trigger[d], echo[d]}
    <3>1. Left(d, S) # {} => Highest(Left(d, S)) \in Pins /\ Highest(Left(d, S)) < Pin(d)
      BY ZenonT(60), <2>1, NextIsLower
    <3>2. Done(d) \/ (Left(d, S) # {} /\ ToPin(d, "pin", Highest(Left(d, S))))
      BY <1>5 DEF AttachTrigger, AttachEcho, NextPin
    <3> HIDE DEF S
    <3>3. CASE Done(d)
      BY <1>0, <3>3, MovesOff
    <3>4. CASE Left(d, S) # {} /\ ToPin(d, "pin", Highest(Left(d, S)))
      BY <1>0, <3>1, <3>4, MovesToPin
    <3> QED
      BY <3>2, <3>3, <3>4
  <2>3. Pin(d) \in Pins /\ UNCHANGED <<open, echo>>
    BY <1>0, <1>5 DEF AttachTrigger, AttachEcho, WalkInv, moduleVars
  <2>4. CASE AttachTrigger(d)
    <3>1. UNCHANGED <<irqNo, handler>>
      BY <2>4 DEF AttachTrigger, coreVars
    <3>2. Configuring(d)' /\ echo[d] <= Pin(d)' => echo[d] <= Pin(d)
      BY <1>A, <2>1, <2>2, <2>3
    <3> QED
      BY <1>0, <2>1, <2>2, <2>3, <3>1, <3>2 DEF OthersStay, Pin
  <2>5. CASE AttachEcho(d)
    <3>1. Pin(d) = echo[d] /\ handler[Pin(d)] = NoPin /\ irqNo' = [irqNo EXCEPT ![d] = Pin(d)]
          /\ handler' = [handler EXCEPT ![Pin(d)] = d]
      BY <2>5 DEF AttachEcho
    <3>2. irqNo[d] = NoPin
      BY <1>0, <1>A, <2>1, <2>3, <3>1
    <3>3. \A p \in Pins : handler[p] # d
      BY <1>0, <1>N, <2>1, <3>2
    <3>4. ~(Configuring(d)' /\ echo[d] <= Pin(d)')
      BY <1>A, <2>1, <2>2, <2>3, <3>1
    <3>5. \A e \in Devices, p \in Pins : IF Releasing(e)' THEN handler'[p] # e
                                       ELSE (handler'[p] = e) <=> (irqNo'[e] = p)
      BY <1>0, <1>N, <2>2, <2>3, <3>1, <3>3 DEF OthersStay
    <3> QED
      BY <1>0, <1>N, <2>1, <2>2, <2>3, <3>1, <3>4, <3>5 DEF OthersStay, Pin
  <2> QED
    BY <1>5, <2>4, <2>5
<1>7. ASSUME NEW d \in Devices, PassPin(d) \/ Disown(d) PROVE IrqInv'
  <2>1. Releasing(d) /\ ~Configuring(d) /\ handler' = handler /\ OthersStay(d) /\ ~Configuring(d)'
    <3> HIDE DEF Pin
    <3> QED
      BY <1>0, <1>7, MovesToPin, MovesOff DEF PassPin, Disown, PassOn, coreVars
  <2>2. \/ Releasing(d)' /\ UNCHANGED <<open, irqNo, echo>>
        \/ /\ ~Releasing(d)' /\ open' = open \ {d}
           /\ irqNo' = [irqNo EXCEPT ![d] = NoPin] /\ echo' = [echo EXCEPT ![d] = NoPin]
    BY <1>0, <1>7, MovesToPin, MovesOff DEF PassPin, Disown, PassOn, InitializeDevice, deviceVars
  <2>3. \A e \in Devices \ {d} : irqNo'[e] = irqNo[e] /\ echo'[e] = echo[e] /\ (e \in open' <=> e \in open)
    BY <1>0, <2>2
  <2>4. \A p \in Pins : handler[p] # d
    BY <1>0, <2>1
  <2>5. CASE Releasing(d)' /\ UNCHANGED <<open, irqNo, echo>>
    BY <1>0, <2>1, <2>5 DEF OthersStay
  <2>6. CASE ~Releasing(d)' /\ irqNo'[d] = NoPin
    BY SMTT(30), <1>0, <1>N, <2>1, <2>3, <2>4, <2>6 DEF OthersStay
  <2> QED
    BY <1>0, <2>2, <2>5, <2>6
<1>8. CASE Load
  <2>1. irqNo' = irqNo /\ \A d \in Devices : pc[d] = "idle"
    BY <1>0, <1>8 DEF Load, None, WalkInv
  <2> QED
    BY <1>0, <1>8, <2>1 DEF Load, coreVars
<1>9. CASE Unload \/ UNCHANGED vars
  BY <1>0, <1>9 DEF Unload, vars, deviceVars, coreVars, moduleVars
<1> QED
  BY <1>1, <1>2, <1>3, <1>4, <1>5, <1>7, <1>8, <1>9 DEF Next, Step, Stopped

\* When no call is under way, the interrupts claimed (HCSR_Driver.c:494) are
\* those the devices know of and free at the next CONFIG_PINS or release,
\* whatever failed half way.
THEOREM IrqsAlwaysKnown == Spec => []IrqsKnown
<1>1. Init => IrqInv
  <2> SUFFICES ASSUME Init PROVE IrqInv
    OBVIOUS
  <2>1. NoPin \notin Devices /\ NoPin \notin Pins
    BY PinsAssumption DEF NoPin
  <2> QED
    BY <2>1 DEF Init, IrqInv, None, Configuring, Releasing
<1>2. TypeInv /\ IrqInv => IrqsKnown
  <2> SUFFICES ASSUME IrqInv, Quiet PROVE \A p \in Pins, d \in Devices : (handler[p] = d) <=> (irqNo[d] = p)
    BY DEF IrqsKnown
  <2>1. \A d \in Devices : ~Releasing(d)
    BY DEF Quiet, Releasing
  <2> QED
    BY <2>1 DEF IrqInv
<1> QED
  BY <1>1, <1>2, IrqStep, TypeInvariant, PTL DEF Spec

-----------------------------------------------------------------------------
(* GPIOs.                                                                   *)

\* A call holds the i-th GPIO of p: it has requested it and not passed it on to
\* the table, or it has taken it from the table and not freed it.
Holds(d, p, i) ==
    /\ Pin(d) = p
    /\ \/ pc[d] = "request" /\ i < work[d].gpio
       \/ pc[d] \in {"undo", "free"} /\ work[d].gpio <= i /\ i <= work[d].last
       \/ pc[d] \in {"mark", "own"}

\* A release is giving p back, and is still noted as its owner.
Leaving(d, p) == Pin(d) = p /\ pc[d] \in {"free", "unmark", "disown"}

\* What calls hold is requested, and held by one call; what the table says a
\* device owns is requested and held by no call, or on its way back.
Held == \A d \in Devices, p \in Pins : \A i \in Indices(p) :
            Holds(d, p, i) => Gen2[p][i] \in requested
HeldOnce == \A d, e \in Devices, p \in Pins : \A i \in Indices(p) :
            Holds(d, p, i) /\ Holds(e, p, i) => d = e
AtHome(p) == \A i \in Indices(p) :
            Gen2[p][i] \in requested /\ \A e \in Devices : ~Holds(e, p, i)
Owned == \A d \in Devices, p \in Pins \ unset : minor[p] = d => Leaving(d, p) \/ AtHome(p)

HoldInv == ~mistaken => Held /\ HeldOnce /\ (loaded => Owned)

LEMMA OthersHold ==
    ASSUME NEW d \in Devices, OthersStay(d), NEW e \in Devices \ {d}, NEW p, NEW i
    PROVE  (Holds(e, p, i)' <=> Holds(e, p, i)) /\ (Leaving(e, p)' <=> Leaving(e, p))
BY DEF OthersStay, Holds, Leaving, Pin

\* A step that takes and gives back nothing.
LEMMA HoldKept ==
    ASSUME NEW d \in Devices, OthersStay(d), HoldInv,
           UNCHANGED <<requested, minor, unset, loaded>>, mistaken => mistaken',
           \A p \in Pins : \A i \in Indices(p) : Holds(d, p, i)' => Holds(d, p, i),
           \A p \in Pins : Leaving(d, p) => Leaving(d, p)'
    PROVE  HoldInv'
<1> SUFFICES ASSUME ~mistaken' PROVE Held' /\ HeldOnce' /\ (loaded' => Owned')
  BY DEF HoldInv
<1>0. Held /\ HeldOnce /\ (loaded => Owned)
  BY DEF HoldInv
<1>1. \A e \in Devices, p \in Pins : \A i \in Indices(p) : Holds(e, p, i)' => Holds(e, p, i)
  BY OthersHold
<1>2. \A e \in Devices, p \in Pins : Leaving(e, p) => Leaving(e, p)'
  BY OthersHold
<1>3. Held' /\ HeldOnce'
  BY <1>0, <1>1 DEF Held, HeldOnce
<1>4. \A p \in Pins : AtHome(p) => AtHome(p)'
  BY <1>1 DEF AtHome
<1> QED
  BY <1>0, <1>2, <1>3, <1>4 DEF Owned

\* A request that succeeds.
LEMMA HoldTaken ==
    ASSUME NEW d \in Devices, OthersStay(d), HoldInv, UNCHANGED <<minor, unset, loaded, mistaken>>,
           NEW p \in Pins, NEW k \in Indices(p),
           Gen2[p][k] \notin requested, requested' = requested \cup {Gen2[p][k]},
           \A q \in Pins : \A i \in Indices(q) :
               Holds(d, q, i)' => Holds(d, q, i) \/ (q = p /\ i = k),
           \A q \in Pins : ~Leaving(d, q)
    PROVE  HoldInv'
<1> SUFFICES ASSUME ~mistaken' PROVE Held' /\ HeldOnce' /\ (loaded' => Owned')
  BY DEF HoldInv
<1>0. Held /\ HeldOnce /\ (loaded => Owned)
  BY DEF HoldInv
<1>1. \A e \in Devices, q \in Pins : \A i \in Indices(q) :
          Holds(e, q, i)' => Holds(e, q, i) \/ (e = d /\ q = p /\ i = k)
  BY OthersHold
<1>2. \A e \in Devices : ~Holds(e, p, k)
  BY <1>0 DEF Held
<1>3. Held' /\ HeldOnce'
  BY <1>0, <1>1, <1>2 DEF Held, HeldOnce
<1>4. \A q \in Pins : AtHome(q) => AtHome(q)'
  BY <1>1 DEF AtHome
<1>5. \A e \in Devices, q \in Pins : Leaving(e, q) => Leaving(e, q)'
  BY OthersHold
<1> QED
  BY <1>0, <1>3, <1>4, <1>5 DEF Owned

\* A gpio_free of what is held.
LEMMA HoldFreed ==
    ASSUME NEW d \in Devices, OthersStay(d), HoldInv, UNCHANGED <<minor, unset, loaded, mistaken>>,
           NEW p \in Pins, NEW k \in Indices(p), Holds(d, p, k),
           requested' = requested \ {Gen2[p][k]},
           \A q \in Pins : \A i \in Indices(q) :
               Holds(d, q, i)' => Holds(d, q, i) /\ ~(q = p /\ i = k),
           \A q \in Pins : Leaving(d, q) => Leaving(d, q)'
    PROVE  HoldInv'
<1> SUFFICES ASSUME ~mistaken' PROVE Held' /\ HeldOnce' /\ (loaded' => Owned')
  BY DEF HoldInv
<1>0. Held /\ HeldOnce /\ (loaded => Owned)
  BY DEF HoldInv
<1>1. \A e \in Devices, q \in Pins : \A i \in Indices(q) :
          Holds(e, q, i)' => Holds(e, q, i) /\ ~(q = p /\ i = k)
  <2>1. \A e \in Devices \ {d} : ~Holds(e, p, k)
    BY <1>0 DEF HeldOnce
  <2> QED
    BY <2>1, OthersHold
<1>2. \A q \in Pins : \A i \in Indices(q) :
          Gen2[q][i] \in requested /\ ~(q = p /\ i = k) => Gen2[q][i] \in requested'
  BY NoGpioTwice
<1>3. Held' /\ HeldOnce'
  BY <1>0, <1>1, <1>2 DEF Held, HeldOnce
<1>4. \A q \in Pins : AtHome(q) => AtHome(q)'
  BY <1>1, <1>2 DEF AtHome
<1>5. \A e \in Devices, q \in Pins : Leaving(e, q) => Leaving(e, q)'
  BY OthersHold
<1> QED
  BY <1>0, <1>3, <1>4, <1>5 DEF Owned

LEMMA HoldStep == TypeInv /\ HoldInv /\ [Next]_vars => HoldInv'
<1> SUFFICES ASSUME TypeInv, HoldInv, [Next]_vars PROVE HoldInv'
  OBVIOUS
<1>0. WorkType /\ WalkInv /\ RestType
  BY TypeParts DEF TypeInv
<1> USE DEF moduleVars, history, tableVars, coreVars
<1>1. ASSUME NEW d \in Devices, Open(d) PROVE HoldInv'
  BY <1>1, HoldKept DEF Open, OthersStay, Holds, Leaving, Pin
<1>2. ASSUME NEW d \in Devices, NEW t \in Pins, NEW e \in Pins, Config(d, t, e) PROVE HoldInv'
  <2>1. pc'[d] = "pin" /\ OthersStay(d) /\ pc[d] = "idle"
    BY <1>0, <1>2, MovesToPin DEF Config, Begin
  <2> QED
    BY <1>2, <2>1, HoldKept DEF Config, Begin, Holds, Leaving
<1>3. ASSUME NEW d \in Devices, Release(d) PROVE HoldInv'
  <2>1. pc'[d] = "ours" /\ OthersStay(d) /\ pc[d] = "idle"
    BY <1>0, <1>3, MovesToPin DEF Release, Begin
  <2> QED
    BY <1>3, <2>1, HoldKept DEF Release, Begin, Holds, Leaving
<1>4. ASSUME NEW d \in Devices, CheckPin(d) PROVE HoldInv'
  <2>1. /\ OthersStay(d) /\ pc[d] = "pin"
        /\ pc'[d] = "attach" \/ (pc'[d] = "request" /\ work'[d].gpio = 1)
    BY <1>0, <1>4, MovesOn, MovesToGpio DEF CheckPin
  <2>2. \A p \in Pins : \A i \in Indices(p) : ~Holds(d, p, i)'
    BY <2>1 DEF Holds, Indices
  <2> QED
    BY <1>4, <2>1, <2>2, HoldKept DEF CheckPin, Leaving
<1>5. ASSUME NEW d \in Devices, Request(d) PROVE HoldInv'
  <2> DEFINE p == Pin(d)
             k == work[d].gpio
  <2>1. p \in Pins /\ k \in Indices(p) /\ pc[d] = "request"
    BY <1>0, <1>5 DEF Request, WalkInv
  <2>2. OthersStay(d) /\ Pin(d)' = p
        /\ \/ k = Len(Gen2[p]) /\ pc'[d] = "mark"
           \/ pc'[d] = "request" /\ work'[d].gpio = k + 1
    BY <1>0, <1>5, MovesToPin, MovesToNext DEF Request
  <2>3. \A q \in Pins : \A i \in Indices(q) : Holds(d, q, i)' => Holds(d, q, i) \/ (q = p /\ i = k)
    <3>1. \A q \in Pins : \A i \in Indices(q) : Holds(d, q, i)' => q = p
      BY <2>2 DEF Holds
    <3>2. Len(Gen2[p]) \in Int
      BY <2>1, RowLength
    <3>3. \A i \in Indices(p) : Holds(d, p, i)' => i < k \/ i = k
      BY <2>1, <2>2, <3>2 DEF Holds, Indices
    <3> QED
      BY <2>1, <3>1, <3>3 DEF Holds
  <2>4. \A q \in Pins : ~Leaving(d, q)
    BY <2>1 DEF Leaving
  <2>5. Gen2[p][k] \notin requested /\ requested' = requested \cup {Gen2[p][k]}
        /\ UNCHANGED <<minor, unset, loaded, mistaken>>
    BY <1>5 DEF Request, Gpio
  <2> QED
    BY <2>1, <2>2, <2>3, <2>4, <2>5, HoldTaken
<1>6. ASSUME NEW d \in Devices, RequestFails(d) PROVE HoldInv'
  <2>1. work[d].gpio \in Int /\ pc[d] = "request"
    BY <1>0, <1>6 DEF RequestFails, WorkType
  <2>2. OthersStay(d) /\ \/ pc'[d] = "idle"
                         \/ pc'[d] = "undo" /\ Pin(d)' = Pin(d) /\ work'[d].last = work[d].gpio - 1
    BY <1>0, <1>6, MovesOff, MovesToGpio DEF RequestFails
  <2>3. \A p \in Pins : \A i \in Indices(p) : Holds(d, p, i)' => Holds(d, p, i)
    BY <2>1, <2>2 DEF Holds, Indices
  <2> QED
    BY <1>6, <2>1, <2>2, <2>3, HoldKept DEF RequestFails, Leaving
<1>7. ASSUME NEW d \in Devices, Undo(d) \/ Free(d) PROVE HoldInv'
  <2> DEFINE p == Pin(d)
             k == work[d].gpio
  <2>1. p \in Pins /\ k \in Indices(p) /\ k <= work[d].last /\ pc[d] \in {"undo", "free"}
        /\ k \in Int
    <3>1. p \in Pins /\ k \in Indices(p) /\ pc[d] \in {"undo", "free"}
          /\ (pc[d] = "undo" => k <= work[d].last) /\ (pc[d] = "free" => work[d].last = Len(Gen2[p]))
      BY <1>0, <1>7 DEF Undo, Free, WalkInv
    <3> QED
      BY <3>1, RowLength DEF Indices
  <2>2. OthersStay(d) /\ \/ pc'[d] = "idle" /\ pc[d] = "undo"
                         \/ pc'[d] = "unmark" /\ Pin(d)' = p /\ pc[d] = "free"
                         \/ pc'[d] = pc[d] /\ Pin(d)' = p /\ work'[d].gpio = k + 1
                            /\ work'[d].last = work[d].last
    BY <1>0, <1>7, MovesOff, MovesToPin, MovesToNext DEF Undo, Free
  <2>3. \A q \in Pins : \A i \in Indices(q) : Holds(d, q, i)' => Holds(d, q, i) /\ ~(q = p /\ i = k)
    <3>1. \A i \in Int : k + 1 <= i => k <= i /\ i # k
      BY <2>1
    <3>2. \A q \in Pins : \A i \in Indices(q) : i \in Int
      BY DEF Indices
    <3> QED
      BY <2>1, <2>2, <3>1, <3>2 DEF Holds
  <2>4. \A q \in Pins : Leaving(d, q) => Leaving(d, q)'
    BY <2>1, <2>2 DEF Leaving
  <2>5. requested' = requested \ {Gen2[p][k]} /\ UNCHANGED <<minor, unset, loaded, mistaken>>
    BY <1>7 DEF Undo, Free, Gpio
  <2>6. Holds(d, p, k)
    BY <2>1 DEF Holds
  <2> QED
    BY <2>1, <2>2, <2>3, <2>4, <2>5, <2>6, HoldFreed
<1>8. ASSUME NEW d \in Devices, Mark(d) \/ Unmark(d) PROVE HoldInv'
  <2>1. OthersStay(d) /\ Pin(d)' = Pin(d) /\ \/ pc[d] = "mark" /\ pc'[d] = "own"
                                             \/ pc[d] = "unmark" /\ pc'[d] = "disown"
    BY <1>0, <1>8, MovesOn DEF Mark, Unmark
  <2> QED
    BY <1>8, <2>1, HoldKept DEF Mark, Unmark, Holds, Leaving
<1>9. ASSUME NEW d \in Devices, Own(d) PROVE HoldInv'
  <2> SUFFICES ASSUME ~mistaken' PROVE Held' /\ HeldOnce' /\ (loaded' => Owned')
    BY DEF HoldInv
  <2>p. PICK p \in Pins : p = Pin(d)
    BY <1>0, <1>9 DEF Own, WalkInv
  <2>1. p = Pin(d) /\ pc[d] = "own" /\ pc'[d] = "attach" /\ OthersStay(d)
    BY <1>0, <1>9, <2>p, MovesOn DEF Own
  <2>2. /\ Held /\ HeldOnce /\ (loaded => Owned)
        /\ requested' = requested /\ loaded' = loaded /\ unset' = unset \ {p}
        /\ \A q \in Pins : minor'[q] = IF q = p THEN d ELSE minor[q]
    BY <1>0, <1>9, <2>1 DEF Own, HoldInv, RestType
  <2>3. \A e \in Devices, q \in Pins : \A i \in Indices(q) : Holds(e, q, i)' => Holds(e, q, i) /\ e # d
    BY <2>1, OthersHold DEF Holds
  <2>4. Held' /\ HeldOnce'
    BY <2>2, <2>3 DEF Held, HeldOnce
  <2>5. AtHome(p)'
    <3>1. \A i \in Indices(p) : Holds(d, p, i)
      BY <2>1 DEF Holds
    <3> QED
      BY <2>1, <2>2, <2>3, <3>1 DEF AtHome, Held, HeldOnce
  <2>6. \A q \in Pins : AtHome(q) => AtHome(q)'
    BY <2>2, <2>3 DEF AtHome
  <2>7. \A e \in Devices, q \in Pins : Leaving(e, q) => Leaving(e, q)'
    BY <2>1, OthersHold DEF Leaving
  <2> QED
    BY <2>2, <2>4, <2>5, <2>6, <2>7 DEF Owned
<1>10. ASSUME NEW d \in Devices, AttachTrigger(d) \/ AttachEcho(d) \/ AttachFails(d) PROVE HoldInv'
  <2>1. OthersStay(d) /\ pc[d] = "attach" /\ pc'[d] \in {"idle", "pin"}
    BY <1>0, <1>10, MovesToPin, MovesOff DEF AttachTrigger, AttachEcho, AttachFails, NextPin
  <2> QED
    BY <1>10, <2>1, HoldKept DEF AttachTrigger, AttachEcho, AttachFails, Holds, Leaving
<1>11. ASSUME NEW d \in Devices, PassPin(d) PROVE HoldInv'
  <2>1. OthersStay(d) /\ pc[d] = "ours" /\ pc'[d] \in {"idle", "ours"}
    BY <1>0, <1>11, MovesToPin, MovesOff DEF PassPin, PassOn
  <2> QED
    BY <1>11, <2>1, HoldKept DEF PassPin, Holds, Leaving
<1>12. ASSUME NEW d \in Devices, FreePin(d) PROVE HoldInv'
  <2> SUFFICES ASSUME ~mistaken' PROVE Held' /\ HeldOnce' /\ (loaded' => Owned')
    BY DEF HoldInv
  <2>p. PICK p \in Pins : p = Pin(d)
    BY <1>0, <1>12 DEF FreePin, WalkInv
  <2>1. /\ p = Pin(d) /\ pc[d] = "ours" /\ pc'[d] = "free" /\ Pin(d)' = p /\ OthersStay(d)
        /\ loaded
    BY <1>0, <1>12, <2>p, MovesToGpio DEF FreePin, WalkInv
  <2>2. /\ Held /\ HeldOnce /\ Owned /\ p \notin unset /\ minor[p] = d
        /\ UNCHANGED <<requested, minor, unset>>
    BY <1>12, <2>1 DEF FreePin, Ours, HoldInv
  <2>3. AtHome(p)
    BY <2>1, <2>2 DEF Owned, Leaving
  <2>4. \A e \in Devices, q \in Pins : \A i \in Indices(q) :
            Holds(e, q, i)' => (e # d /\ Holds(e, q, i)) \/ (e = d /\ q = p)
    BY <2>1, OthersHold DEF Holds
  <2>5. Held' /\ HeldOnce'
    BY <2>2, <2>3, <2>4 DEF Held, HeldOnce, AtHome
  <2>6. \A q \in Pins \ {p} : AtHome(q) => AtHome(q)'
    BY <2>2, <2>4 DEF AtHome
  <2>7. Leaving(d, p)' /\ \A e \in Devices, q \in Pins : Leaving(e, q) => Leaving(e, q)'
    BY <2>1, OthersHold DEF Leaving
  <2> QED
    BY <2>2, <2>5, <2>6, <2>7 DEF Owned
<1>13. ASSUME NEW d \in Devices, Disown(d) PROVE HoldInv'
  <2> SUFFICES ASSUME ~mistaken' PROVE Held' /\ HeldOnce' /\ (loaded' => Owned')
    BY DEF HoldInv
  <2>p. PICK p \in Pins : p = Pin(d)
    BY <1>0, <1>13 DEF Disown, WalkInv
  <2>1. p = Pin(d) /\ pc[d] = "disown" /\ pc'[d] \in {"idle", "ours"} /\ OthersStay(d)
    BY <1>0, <1>13, <2>p, MovesToPin, MovesOff DEF Disown, PassOn
  <2>2. /\ Held /\ HeldOnce /\ (loaded => Owned)
        /\ requested' = requested /\ loaded' = loaded /\ unset' = unset \ {p}
        /\ \A q \in Pins : minor'[q] = IF q = p THEN NoPin ELSE minor[q]
    BY <1>0, <1>13, <2>1 DEF Disown, HoldInv, RestType
  <2>3. \A e \in Devices, q \in Pins : \A i \in Indices(q) : Holds(e, q, i)' => Holds(e, q, i)
    BY <2>1, OthersHold DEF Holds
  <2>4. Held' /\ HeldOnce'
    BY <2>2, <2>3 DEF Held, HeldOnce
  <2>5. \A q \in Pins : AtHome(q) => AtHome(q)'
    BY <2>2, <2>3 DEF AtHome
  <2>6. \A e \in Devices, q \in Pins \ {p} : Leaving(e, q) => Leaving(e, q)'
    BY <2>1, OthersHold DEF Leaving
  <2> QED
    BY <2>2, <2>4, <2>5, <2>6, PinsAssumption DEF Owned
<1>14. CASE Unload \/ Load
  <2>1. \A d \in Devices : pc[d] = "idle" /\ pc'[d] = "idle"
    BY <1>0, <1>14 DEF Unload, Load, WalkInv
  <2>2. Held' /\ HeldOnce'
    BY <2>1 DEF Held, HeldOnce, Holds
  <2>3. loaded' => Owned'
    BY <1>14 DEF Unload, Load, Owned
  <2> QED
    BY <2>2, <2>3 DEF HoldInv
<1>15. CASE UNCHANGED vars
  BY <1>15 DEF vars, HoldInv, Held, HeldOnce, Owned, AtHome, Holds, Leaving, Pin
<1> QED
  BY <1>1, <1>2, <1>3, <1>4, <1>5, <1>6, <1>7, <1>8, <1>9, <1>10, <1>11, <1>12, <1>13, <1>14, <1>15
     DEF Next, Step, Stopped

\* gpio_free (HCSR_Driver.c:319, 585) is called on GPIOs that are held, although
\* calls of different devices overlap without a lock and requests fail half
\* way, until a release takes memory that was never set for its own number.
THEOREM FreesOnlyHeld == Spec => FreesWhatItHolds
<1>1. Init => HoldInv
  <2> SUFFICES ASSUME Init PROVE Held /\ HeldOnce /\ Owned
    BY DEF HoldInv
  <2> QED
    BY DEF Init, Held, HeldOnce, Owned, Holds
<1>2. TypeInv /\ HoldInv =>
          \A d \in Devices : (Undo(d) \/ Free(d)) /\ ~mistaken => Gpio(d) \in requested
  <2> SUFFICES ASSUME TypeInv, HoldInv, NEW d \in Devices, Undo(d) \/ Free(d), ~mistaken
               PROVE  Gpio(d) \in requested
    OBVIOUS
  <2>1. /\ Pin(d) \in Pins /\ work[d].gpio \in Indices(Pin(d)) /\ pc[d] \in {"undo", "free"}
        /\ pc[d] = "undo" => work[d].gpio <= work[d].last
        /\ pc[d] = "free" => work[d].last = Len(Gen2[Pin(d)])
    BY DEF TypeInv, WalkInv, Undo, Free
  <2>2. work[d].gpio <= work[d].last
    BY <2>1, RowLength DEF Indices
  <2>3. \A p : p = Pin(d) => Holds(d, p, work[d].gpio)
    <3>1. work[d].gpio <= work[d].gpio
      BY <2>1, RowLength DEF Indices
    <3> QED
      BY <2>1, <2>2, <3>1 DEF Holds
  <2> QED
    BY <2>1, <2>3 DEF HoldInv, Held, Gpio
<1> QED
  BY <1>1, <1>2, HoldStep, TypeInvariant, PTL DEF Spec, FreesWhatItHolds

-----------------------------------------------------------------------------
(* Owners.                                                                  *)

\* A call is between its two stores for p.
OwnerComing(p) == \E d \in Devices : pc[d] = "own" /\ Pin(d) = p

\* A configured pin has an open owner, gets one, or lost it to a release that
\* overlapped; a release leaves no pin it has passed with the device.
BelongInv ==
    /\ \A p \in Pins : configured[p] =>
          OwnerComing(p) \/ minor[p] \in open \/ minor[p] = NoPin
    /\ \A x \in Devices, p \in Pins :
          Releasing(x) /\ p > Pin(x) /\ configured[p] /\ minor[p] = x => OwnerComing(p)

\* The pins that a step of the walk leaves behind it.
LEMMA PassedPins ==
    ASSUME NEW d \in Devices, Pin(d) \in Pins, NEW q \in Pins, q # Pin(d)
    PROVE  /\ Left(d, Pins) = {} => q > Pin(d)
           /\ Left(d, Pins) # {} /\ q > Highest(Left(d, Pins)) => q > Pin(d)
<1>1. q \in 0..12 /\ Pin(d) \in 0..12
  BY PinsAssumption
<1>2. q < Pin(d) => q \in Left(d, Pins)
  BY DEF Left
<1>3. Left(d, Pins) \subseteq Pins
  BY DEF Left
<1>4. Left(d, Pins) # {} /\ q < Pin(d) => ~(q > Highest(Left(d, Pins)))
  BY <1>2, <1>3, HighestIsMost
<1> QED
  BY <1>1, <1>2, <1>4

\* A step of one device that leaves the table alone.
LEMMA BelongKept ==
    ASSUME BelongInv, NEW d \in Devices, OthersStay(d), UNCHANGED <<configured, minor>>, open \subseteq open',
           pc[d] # "own", Releasing(d)' => Releasing(d) /\ Pin(d)' = Pin(d)
    PROVE  BelongInv'
<1>1. \A p \in Pins : OwnerComing(p) => OwnerComing(p)'
  BY DEF OwnerComing, OthersStay, Pin
<1>2. \A x \in Devices : Releasing(x)' => Releasing(x) /\ Pin(x)' = Pin(x)
  BY DEF OthersStay, Releasing, Pin
<1> QED
  BY <1>1, <1>2 DEF BelongInv

\* A release goes on from a pin that is not its own, or that it has disowned.
LEMMA BelongPassed ==
    ASSUME TypeInv, BelongInv, NEW d \in Devices, Releasing(d), PassOn(d), UNCHANGED configured,
           NEW p \in Pins, p = Pin(d),
           \A q \in Pins : minor'[q] \in {minor[q], NoPin} /\ (q # p => minor'[q] = minor[q]),
           configured[p] /\ minor'[p] = d => OwnerComing(p)
    PROVE  BelongInv'
<1>0. WorkType /\ Devices \cap {NoPin} = {}
  BY PinsAssumption, TypeParts DEF TypeInv
<1>1. /\ OthersStay(d) /\ pc[d] # "own"
      /\ \/ Left(d, Pins) = {} /\ pc'[d] = "idle" /\ open' = open \ {d}
         \/ /\ Left(d, Pins) # {} /\ pc'[d] = "ours" /\ open' = open
            /\ Pin(d)' = Highest(Left(d, Pins))
  BY <1>0, MovesToPin, MovesOff DEF PassOn, Releasing
<1>2. \A q \in Pins : OwnerComing(q) => OwnerComing(q)'
  BY <1>1 DEF OwnerComing, OthersStay, Pin
<1>3. \A q \in Pins : q # p /\ Releasing(d) /\ q > p /\ configured[q] /\ minor[q] = d => OwnerComing(q)
  BY DEF BelongInv
<1>4. ASSUME NEW q \in Pins, configured[q]
      PROVE  OwnerComing(q)' \/ minor'[q] \in open' \/ minor'[q] = NoPin
  <2>1. OwnerComing(q) \/ minor[q] \in open \/ minor[q] = NoPin
    BY <1>4 DEF BelongInv
  <2>2. minor'[q] = d /\ open' # open => OwnerComing(q)
    BY <1>0, <1>1, <1>3, <1>4, PassedPins
  <2> QED
    BY <1>0, <1>1, <1>2, <2>1, <2>2
<1>5. ASSUME NEW x \in Devices, NEW q \in Pins, Releasing(x)', q > Pin(x)', configured[q], minor'[q] = x
      PROVE  OwnerComing(q)'
  <2>1. CASE x # d
    <3>1. Releasing(x) /\ Pin(x)' = Pin(x) /\ minor[q] = x
      BY <1>0, <1>1, <1>5, <2>1 DEF OthersStay, Releasing, Pin
    <3> QED
      BY <1>2, <1>5, <3>1 DEF BelongInv
  <2>2. CASE x = d
    <3>1. Left(d, Pins) # {} /\ Pin(d)' = Highest(Left(d, Pins))
      BY <1>1, <1>5, <2>2 DEF Releasing
    <3>2. q # p => q > p
      BY <1>5, <2>2, <3>1, PassedPins
    <3> QED
      BY <1>0, <1>2, <1>3, <1>5, <2>2, <3>2
  <2> QED
    BY <2>1, <2>2
<1> QED
  BY <1>4, <1>5 DEF BelongInv

LEMMA BelongStep == TypeInv /\ BelongInv /\ [Next]_vars => BelongInv'
<1> SUFFICES ASSUME TypeInv, BelongInv, [Next]_vars PROVE BelongInv'
  OBVIOUS
<1>0. WorkType /\ WalkInv /\ RestType /\ NoPin \notin Devices
  BY PinsAssumption, TypeParts DEF TypeInv
<1> USE DEF moduleVars, history, tableVars
<1>1. ASSUME NEW d \in Devices, Open(d) PROVE BelongInv'
  BY <1>1 DEF Open, BelongInv, OwnerComing, Releasing, Pin
<1>2. ASSUME NEW d \in Devices, NEW t \in Pins, NEW e \in Pins, Config(d, t, e) PROVE BelongInv'
  <2>1. pc'[d] = "pin" /\ OthersStay(d) /\ pc[d] = "idle" /\ UNCHANGED <<open, configured, minor>>
    BY <1>0, <1>2, MovesToPin DEF Config, Begin
  <2> QED
    BY <2>1, BelongKept DEF Releasing
<1>3. ASSUME NEW d \in Devices, Release(d) PROVE BelongInv'
  <2>1. /\ pc'[d] = "ours" /\ Pin(d)' = Highest(Pins) /\ OthersStay(d) /\ pc[d] = "idle"
        /\ UNCHANGED <<open, configured, minor>>
    BY <1>0, <1>3, MovesToPin DEF Release, Begin
  <2>2. \A p \in Pins : ~(p > Highest(Pins))
    BY HighestIsMost
  <2>3. \A p \in Pins : OwnerComing(p) => OwnerComing(p)'
    BY <2>1 DEF OwnerComing, OthersStay, Pin
  <2>4. \A x \in Devices : x = d \/ (Releasing(x)' => Releasing(x) /\ Pin(x)' = Pin(x))
    BY <2>1 DEF OthersStay, Releasing, Pin
  <2> QED
    BY <2>1, <2>2, <2>3, <2>4 DEF BelongInv
<1>4. ASSUME NEW d \in Devices, CheckPin(d) \/ Request(d) \/ RequestFails(d) \/ Undo(d)
                               \/ AttachTrigger(d) \/ AttachEcho(d) \/ AttachFails(d)
      PROVE  BelongInv'
  <2>1. OthersStay(d) /\ pc'[d] \in {"attach", "request", "mark", "idle", "undo", "pin"}
        /\ pc[d] # "own" /\ UNCHANGED <<open, configured, minor>>
    <3>1. CASE CheckPin(d) \/ Request(d) \/ RequestFails(d)
      BY <1>0, <3>1, MovesOn, MovesToGpio, MovesToPin, MovesToNext, MovesOff
         DEF CheckPin, Request, RequestFails
    <3>2. CASE Undo(d) \/ AttachFails(d)
      BY <1>0, <3>2, MovesToNext, MovesOff DEF Undo, AttachFails
    <3>3. CASE AttachTrigger(d) \/ AttachEcho(d)
      BY <1>0, <3>3, MovesToPin, MovesOff DEF AttachTrigger, AttachEcho, NextPin
    <3> QED
      BY <1>4, <3>1, <3>2, <3>3
  <2> QED
    BY <2>1, BelongKept DEF Releasing
<1>5. ASSUME NEW d \in Devices, FreePin(d) \/ Free(d) PROVE BelongInv'
  <2>1. OthersStay(d) /\ Pin(d)' = Pin(d) /\ Releasing(d) /\ pc[d] # "own"
        /\ UNCHANGED <<open, configured, minor>>
    BY <1>0, <1>5, MovesToGpio, MovesToPin, MovesToNext DEF FreePin, Free, Releasing
  <2> QED
    BY <2>1, BelongKept
<1>6. ASSUME NEW d \in Devices, Mark(d) PROVE BelongInv'
  <2>p. PICK p \in Pins : p = Pin(d)
    BY <1>0, <1>6 DEF Mark, WalkInv
  <2>1. /\ OthersStay(d) /\ pc[d] = "mark" /\ pc'[d] = "own" /\ Pin(d)' = p
        /\ UNCHANGED <<open, minor>> /\ \A q \in Pins : q # p => configured'[q] = configured[q]
    BY <1>0, <1>6, <2>p, MovesOn DEF Mark, RestType
  <2>2. OwnerComing(p)' /\ \A q \in Pins : OwnerComing(q) => OwnerComing(q)'
    BY <2>1 DEF OwnerComing, OthersStay, Pin
  <2>3. \A x \in Devices : Releasing(x)' => Releasing(x) /\ Pin(x)' = Pin(x)
    BY <2>1 DEF OthersStay, Releasing, Pin
  <2> QED
    BY <2>1, <2>2, <2>3 DEF BelongInv
<1>7. ASSUME NEW d \in Devices, Own(d) PROVE BelongInv'
  <2>p. PICK p \in Pins : p = Pin(d)
    BY <1>0, <1>7 DEF Own, WalkInv
  <2>1. /\ OthersStay(d) /\ pc[d] = "own" /\ pc'[d] = "attach" /\ d \in open
        /\ UNCHANGED <<open, configured>> /\ minor'[p] = d
        /\ \A q \in Pins : q # p => minor'[q] = minor[q]
    BY <1>0, <1>7, <2>p, MovesOn DEF Own, RestType, WalkInv
  <2>2. \A q \in Pins : q # p /\ OwnerComing(q) => OwnerComing(q)'
    BY <2>p, <2>1 DEF OwnerComing, OthersStay, Pin
  <2>3. \A x \in Devices : Releasing(x)' => Releasing(x) /\ Pin(x)' = Pin(x) /\ x # d
    BY <2>1 DEF OthersStay, Releasing, Pin
  <2> QED
    BY <2>1, <2>2, <2>3 DEF BelongInv
<1>8. ASSUME NEW d \in Devices, Unmark(d) PROVE BelongInv'
  <2>p. PICK p \in Pins : p = Pin(d)
    BY <1>0, <1>8 DEF Unmark, WalkInv
  <2>1. /\ OthersStay(d) /\ pc[d] = "unmark" /\ pc'[d] = "disown" /\ Pin(d)' = p
        /\ UNCHANGED <<open, minor>> /\ \A q \in Pins : configured'[q] => configured[q]
    BY <1>0, <1>8, <2>p, MovesOn DEF Unmark, RestType
  <2>2. \A q \in Pins : OwnerComing(q) => OwnerComing(q)'
    BY <2>1 DEF OwnerComing, OthersStay, Pin
  <2>3. \A x \in Devices : Releasing(x)' => Releasing(x) /\ Pin(x)' = Pin(x)
    BY <2>p, <2>1 DEF OthersStay, Releasing, Pin
  <2> QED
    BY <2>1, <2>2, <2>3 DEF BelongInv
<1>9. ASSUME NEW d \in Devices, PassPin(d) PROVE BelongInv'
  <2>1. /\ Pin(d) \in Pins /\ Releasing(d) /\ PassOn(d) /\ UNCHANGED <<configured, minor>>
        /\ ~(configured[Pin(d)] /\ minor[Pin(d)] = d)
    BY <1>0, <1>9 DEF PassPin, Ours, Releasing, WalkInv
  <2> QED
    BY <2>1, BelongPassed
<1>10. ASSUME NEW d \in Devices, Disown(d) PROVE BelongInv'
  <2>1. Pin(d) \in Pins /\ Releasing(d) /\ PassOn(d) /\ UNCHANGED configured
    BY <1>0, <1>10 DEF Disown, Releasing, WalkInv
  <2>2. \A q \in Pins : minor'[q] = IF q = Pin(d) THEN NoPin ELSE minor[q]
    BY <1>0, <1>10 DEF Disown, RestType
  <2> QED
    BY <1>0, <2>1, <2>2, BelongPassed
<1>11. CASE Unload
  BY <1>11 DEF Unload, BelongInv, OwnerComing, Releasing, Pin
<1>12. CASE Load
  BY <1>12 DEF Load, BelongInv
<1>13. CASE UNCHANGED vars
  BY <1>13 DEF vars, BelongInv, OwnerComing, Releasing, Pin
<1> QED
  BY <1>1, <1>2, <1>3, <1>4, <1>5, <1>6, <1>7, <1>8, <1>9, <1>10, <1>11, <1>12, <1>13
     DEF Next, Step, Stopped

-----------------------------------------------------------------------------
(* The table of pins, as long as calls do not overlap.                      *)

\* A call has p half way between the table and the GPIO core.
Busy(d, p) == Pin(d) = p /\ pc[d] \in {"request", "undo", "mark", "free", "unmark"}

\* Whose the i-th GPIO of p should be: the table's or the call's.
Accounted(p, i) ==
    \/ configured[p] /\ \A d \in Devices : ~Busy(d, p)
    \/ \E d \in Devices : Busy(d, p) /\ Holds(d, p, i)

\* One call at a time: the GPIOs held are those accounted for; a configured pin
\* has its open owner, or gets it; a pin is free before it is marked and before
\* it is disowned.
AloneInv ==
    ~overlap =>
    /\ \A d, e \in Devices : pc[d] # "idle" /\ pc[e] # "idle" => d = e
    /\ ~mistaken
    /\ \A p \in Pins : \A i \in Indices(p) : Gen2[p][i] \in requested <=> Accounted(p, i)
    /\ \A p \in Pins : configured[p] => OwnerComing(p) \/ (p \notin unset /\ minor[p] \in open)
    /\ \A d \in Devices : pc[d] \in {"request", "undo", "mark", "disown"} => ~configured[Pin(d)]

\* What it says of the one device d that makes a call, before a step ...
LEMMA AloneBefore ==
    ASSUME AloneInv, ~overlap, NEW d \in Devices, pc[d] # "idle"
    PROVE  /\ \A e \in Devices \ {d} : pc[e] = "idle"
           /\ \A p \in Pins : \A i \in Indices(p) : Gen2[p][i] \in requested <=>
                 IF Busy(d, p) THEN Holds(d, p, i) ELSE configured[p]
           /\ \A p \in Pins : OwnerComing(p) => pc[d] = "own" /\ Pin(d) = p
<1>1. \A e \in Devices \ {d} : pc[e] = "idle"
  BY DEF AloneInv
<1>2. \A e \in Devices, p \in Pins : Busy(e, p) \/ (pc[e] = "own" /\ Pin(e) = p) => e = d
  BY <1>1 DEF Busy
<1> QED
  BY <1>1, <1>2 DEF AloneInv, Accounted, OwnerComing

\* ... and what shows it after a step of d.
LEMMA AloneAfter ==
    ASSUME NEW d \in Devices, OthersStay(d), \A e \in Devices \ {d} : pc[e] = "idle", ~mistaken',
           \A p \in Pins : \A i \in Indices(p) : Gen2[p][i] \in requested' <=>
               IF Busy(d, p)' THEN Holds(d, p, i)' ELSE configured'[p],
           \A p \in Pins : configured'[p] =>
               (pc'[d] = "own" /\ Pin(d)' = p) \/ (p \notin unset' /\ minor'[p] \in open'),
           pc'[d] \in {"request", "undo", "mark", "disown"} => ~configured'[Pin(d)']
    PROVE  AloneInv'
<1>1. \A e \in Devices \ {d} : pc'[e] = "idle"
  BY DEF OthersStay
<1>2. \A e \in Devices, p \in Pins : Busy(e, p)' => e = d
  BY <1>1 DEF Busy
<1>3. \A p \in Pins : \A i \in Indices(p) : Gen2[p][i] \in requested' <=> Accounted(p, i)'
  BY <1>2 DEF Accounted
<1>4. \A p \in Pins : pc'[d] = "own" /\ Pin(d)' = p => OwnerComing(p)'
  BY DEF OwnerComing
<1>5. \A e \in Devices : pc'[e] \in {"request", "undo", "mark", "disown"} => ~configured'[Pin(e)']
  BY <1>1
<1> QED
  BY <1>1, <1>3, <1>4, <1>5 DEF AloneInv, Pin

\* A step of d that leaves the table and the GPIOs alone, and d with no pin half way.
LEMMA AloneKept ==
    ASSUME AloneInv, ~overlap, NEW d \in Devices, OthersStay(d), \A e \in Devices \ {d} : pc[e] = "idle",
           ~Busy(d, Pin(d)), pc[d] \notin {"own"},
           UNCHANGED <<configured, minor, unset, mistaken, requested>>, open \subseteq open',
           pc'[d] \in {"idle", "pin", "attach", "ours"}
    PROVE  AloneInv'
<1>1. \A e \in Devices, p \in Pins : ~Busy(e, p) /\ ~(pc[e] = "own" /\ Pin(e) = p)
  BY DEF Busy
<1>2. \A p \in Pins : ~Busy(d, p)'
  BY DEF Busy
<1>3. \A p \in Pins : \A i \in Indices(p) : Gen2[p][i] \in requested <=> configured[p]
  BY <1>1 DEF AloneInv, Accounted
<1>4. ~mistaken /\ \A p \in Pins : configured[p] => p \notin unset /\ minor[p] \in open
  BY <1>1 DEF AloneInv, OwnerComing
<1> QED
  BY <1>2, <1>3, <1>4, AloneAfter

LEMMA AloneStep == TypeInv /\ BelongInv /\ AloneInv /\ [Next]_vars => AloneInv'
<1> SUFFICES ASSUME TypeInv, BelongInv, AloneInv, [Next]_vars, ~overlap' PROVE AloneInv'
  BY DEF AloneInv
<1>0. WorkType /\ WalkInv /\ RestType
  BY TypeParts DEF TypeInv
<1> USE DEF moduleVars, history, tableVars, coreVars
<1>1. ASSUME NEW d \in Devices, Open(d) PROVE AloneInv'
  BY <1>0, <1>1 DEF Open, AloneInv, Accounted, Busy, Holds, OwnerComing, Pin
<1>2. ASSUME NEW d \in Devices, Release(d) \/ \E t, e \in Pins : Config(d, t, e) PROVE AloneInv'
  <2>1. OthersStay(d) /\ pc'[d] \in {"pin", "ours"} /\ ~overlap /\ Quiet
        /\ UNCHANGED <<configured, minor, unset, mistaken, requested, open>>
    BY <1>0, <1>2, MovesToPin DEF Release, Config, Begin
  <2>2. pc[d] = "idle" /\ \A e \in Devices \ {d} : pc[e] = "idle"
    BY <2>1 DEF Quiet
  <2> QED
    BY <2>1, <2>2, AloneKept DEF Busy
<1>3. ASSUME NEW d \in Devices, AttachTrigger(d) \/ AttachEcho(d) \/ AttachFails(d) PROVE AloneInv'
  <2>1. OthersStay(d) /\ pc[d] = "attach" /\ pc'[d] \in {"idle", "pin"} /\ ~overlap
        /\ UNCHANGED <<configured, minor, unset, mistaken, requested, open>>
    BY <1>0, <1>3, MovesToPin, MovesOff DEF AttachTrigger, AttachEcho, AttachFails, NextPin
  <2> QED
    BY <2>1, AloneBefore, AloneKept DEF Busy
<1>4. ASSUME NEW d \in Devices, Step(d), ~(AttachTrigger(d) \/ AttachEcho(d) \/ AttachFails(d))
      PROVE  AloneInv'
  <2>0. pc[d] # "idle" /\ Pin(d) \in Pins /\ d \in open /\ ~overlap
    BY <1>0, <1>4 DEF Step, WalkInv, CheckPin, Request, RequestFails, Undo, Mark, Own, PassPin, FreePin,
                      Free, Unmark, Disown
  <2>p. PICK p \in Pins : p = Pin(d)
    BY <2>0
  <2>k. PICK k : k = work[d].gpio
    OBVIOUS
  <2>1. \A e \in Devices \ {d} : pc[e] = "idle"
    BY <2>0, AloneBefore
  <2>2. \A q \in Pins : \A i \in Indices(q) : Gen2[q][i] \in requested <=>
            IF Busy(d, q) THEN Holds(d, q, i) ELSE configured[q]
    BY <2>0, AloneBefore
  <2>3. ~mistaken /\ (pc[d] \in {"request", "undo", "mark", "disown"} => ~configured[p])
    BY <2>0, <2>p DEF AloneInv
  <2>4. \A q \in Pins : configured[q] =>
            (pc[d] = "own" /\ p = q) \/ (q \notin unset /\ minor[q] \in open)
    BY <2>0, <2>p, AloneBefore DEF AloneInv
  <2>5. k \in 0..4 /\ Indices(p) \subseteq 1..4 /\ Len(Gen2[p]) \in 1..4
    BY <1>0, <2>k, RowLength DEF WorkType
  <2>6. CASE CheckPin(d)
    <3>1. /\ OthersStay(d) /\ pc[d] = "pin"
          /\ \/ configured[p] /\ pc'[d] = "attach"
             \/ ~configured[p] /\ pc'[d] = "request" /\ Pin(d)' = p /\ work'[d].gpio = 1
          /\ UNCHANGED <<configured, minor, unset, mistaken, requested, open>>
      BY <1>0, <2>p, <2>6, MovesOn, MovesToGpio DEF CheckPin
    <3>2. \A q \in Pins : \A i \in Indices(q) : Gen2[q][i] \in requested' <=>
              IF Busy(d, q)' THEN Holds(d, q, i)' ELSE configured'[q]
      BY <2>2, <2>5, <2>p, <3>1 DEF Busy, Holds
    <3> QED
      BY <2>1, <2>3, <2>4, <3>1, <3>2, AloneAfter
  <2>7. CASE Request(d)
    <3>1. /\ OthersStay(d) /\ pc[d] = "request" /\ Pin(d)' = p /\ k \in Indices(p)
          /\ \/ pc'[d] = "mark" /\ k = Len(Gen2[p])
             \/ pc'[d] = "request" /\ work'[d].gpio = k + 1
          /\ requested' = requested \cup {Gen2[p][k]}
          /\ UNCHANGED <<configured, minor, unset, mistaken, open>>
      BY <1>0, <2>p, <2>k, <2>7, MovesToPin, MovesToNext DEF Request, Gpio, WalkInv
    <3>2. \A q \in Pins : \A i \in Indices(q) :
              Gen2[q][i] \in requested' <=> Gen2[q][i] \in requested \/ (q = p /\ i = k)
      BY <3>1, NoGpioTwice
    <3>3. \A i \in Indices(p) : Holds(d, p, i)' <=> i < k \/ i = k
      BY <2>5, <3>1 DEF Holds, Indices
    <3>4. \A q \in Pins : \A i \in Indices(q) : Gen2[q][i] \in requested' <=>
              IF Busy(d, q)' THEN Holds(d, q, i)' ELSE configured'[q]
      BY <2>2, <2>p, <2>k, <3>1, <3>2, <3>3 DEF Busy, Holds
    <3> QED
      BY <2>1, <2>3, <2>4, <3>1, <3>4, AloneAfter
  <2>8. CASE RequestFails(d)
    <3>1. /\ OthersStay(d) /\ pc[d] = "request"
          /\ \/ pc'[d] = "idle" /\ k = 1
             \/ pc'[d] = "undo" /\ Pin(d)' = p /\ work'[d].gpio = 1 /\ work'[d].last = k - 1
          /\ UNCHANGED <<configured, minor, unset, mistaken, requested, open>>
      BY <1>0, <2>p, <2>k, <2>8, MovesOff, MovesToGpio DEF RequestFails
    <3>2. \A i \in Indices(p) : Holds(d, p, i) <=> i < k
      BY <2>p, <2>k, <3>1 DEF Holds
    <3>3. \A q \in Pins : \A i \in Indices(q) : Gen2[q][i] \in requested <=>
              IF q = p THEN i < k ELSE configured[q]
      BY <2>2, <2>p, <3>1, <3>2 DEF Busy
    <3>4. \A i \in Indices(p) : i < k <=> 1 <= i /\ i <= k - 1
      BY <2>5
    <3>5. \A q \in Pins : \A i \in Indices(q) : Gen2[q][i] \in requested' <=>
              IF Busy(d, q)' THEN Holds(d, q, i)' ELSE configured'[q]
      <4>1. CASE pc'[d] = "idle" /\ k = 1
        BY <2>3, <2>5, <3>1, <3>3, <4>1 DEF Busy
      <4>2. CASE pc'[d] = "undo" /\ Pin(d)' = p /\ work'[d].gpio = 1 /\ work'[d].last = k - 1
        BY <3>1, <3>3, <3>4, <4>2 DEF Busy, Holds
      <4> QED
        BY <3>1, <4>1, <4>2
    <3> QED
      BY <2>1, <2>3, <2>4, <3>1, <3>5, AloneAfter
  <2>9. CASE Undo(d) \/ Free(d)
    <3>1. /\ OthersStay(d) /\ k \in Indices(p) /\ UNCHANGED <<configured, minor, unset, mistaken, open>>
          /\ requested' = requested \ {Gen2[p][k]}
          /\ \/ pc[d] = "undo" /\ pc'[d] = "idle" /\ k = work[d].last
             \/ pc[d] = "free" /\ pc'[d] = "unmark" /\ Pin(d)' = p /\ k = work[d].last
             \/ /\ pc[d] \in {"undo", "free"} /\ pc'[d] = pc[d] /\ Pin(d)' = p
                /\ work'[d].gpio = k + 1 /\ work'[d].last = work[d].last
          /\ work[d].last \in 0..4 /\ (pc[d] = "undo" => k <= work[d].last)
          /\ (pc[d] = "free" => work[d].last = Len(Gen2[p]))
      BY <1>0, <2>p, <2>k, <2>9, MovesOff, MovesToPin, MovesToNext
         DEF Undo, Free, Gpio, WalkInv, WorkType
    <3>2. \A q \in Pins : \A i \in Indices(q) :
              Gen2[q][i] \in requested' <=> Gen2[q][i] \in requested /\ ~(q = p /\ i = k)
      BY <3>1, NoGpioTwice
    <3>3. \A i \in Indices(p) : Holds(d, p, i) <=> k <= i /\ i <= work[d].last
      BY <2>p, <2>k, <3>1 DEF Holds
    <3>4. \A i \in Indices(p) : k <= i /\ i # k <=> k + 1 <= i
      BY <2>5
    <3>5. k = work[d].last => \A i \in Indices(p) : ~(k + 1 <= i /\ i <= work[d].last)
      BY <2>5
    <3>6. \A q \in Pins : \A i \in Indices(q) : Gen2[q][i] \in requested' <=>
              IF q = p THEN k + 1 <= i /\ i <= work[d].last ELSE configured[q]
      BY <2>2, <2>p, <3>1, <3>2, <3>3, <3>4 DEF Busy
    <3>7. \A q \in Pins : \A i \in Indices(q) : Gen2[q][i] \in requested' <=>
              IF Busy(d, q)' THEN Holds(d, q, i)' ELSE configured'[q]
      <4>1. CASE pc'[d] = "idle" /\ pc[d] = "undo" /\ k = work[d].last
        BY <2>3, <3>1, <3>5, <3>6, <4>1 DEF Busy
      <4>2. CASE pc'[d] = "unmark" /\ Pin(d)' = p /\ k = work[d].last
        BY <3>1, <3>5, <3>6, <4>2 DEF Busy, Holds
      <4>3. CASE /\ pc'[d] \in {"undo", "free"} /\ Pin(d)' = p
                 /\ work'[d].gpio = k + 1 /\ work'[d].last = work[d].last
        BY <3>1, <3>6, <4>3 DEF Busy, Holds
      <4> QED
        BY <3>1, <4>1, <4>2, <4>3
    <3>8. \A q \in Pins : configured[q] => q \notin unset /\ minor[q] \in open
      BY <2>4, <3>1
    <3> QED
      BY <2>1, <2>3, <3>1, <3>7, <3>8, AloneAfter
  <2>10. CASE Mark(d)
    <3>1. /\ OthersStay(d) /\ pc[d] = "mark" /\ pc'[d] = "own" /\ Pin(d)' = p
          /\ \A q \in Pins : configured'[q] = IF q = p THEN TRUE ELSE configured[q]
          /\ UNCHANGED <<minor, unset, mistaken, requested, open>>
      BY <1>0, <2>p, <2>10, MovesOn DEF Mark, RestType
    <3>2. \A q \in Pins : \A i \in Indices(q) : Gen2[q][i] \in requested' <=>
              IF Busy(d, q)' THEN Holds(d, q, i)' ELSE configured'[q]
      BY <2>2, <2>p, <3>1 DEF Busy, Holds
    <3> QED
      BY <2>1, <2>3, <2>4, <3>1, <3>2, AloneAfter
  <2>11. CASE Own(d)
    <3>1. /\ OthersStay(d) /\ pc[d] = "own" /\ pc'[d] = "attach" /\ unset' = unset \ {p}
          /\ \A q \in Pins : minor'[q] = IF q = p THEN d ELSE minor[q]
          /\ UNCHANGED <<configured, mistaken, requested, open>>
      BY <1>0, <2>p, <2>11, MovesOn DEF Own, RestType
    <3>2. \A q \in Pins : \A i \in Indices(q) : Gen2[q][i] \in requested' <=>
              IF Busy(d, q)' THEN Holds(d, q, i)' ELSE configured'[q]
      BY <2>2, <3>1 DEF Busy
    <3> QED
      BY <2>0, <2>1, <2>3, <2>4, <3>1, <3>2, AloneAfter
  <2>12. CASE FreePin(d)
    <3>1. /\ OthersStay(d) /\ pc[d] = "ours" /\ pc'[d] = "free" /\ Pin(d)' = p /\ configured[p]
          /\ work'[d].gpio = 1 /\ work'[d].last = Len(Gen2[p])
          /\ mistaken' = (mistaken \/ p \in unset)
          /\ UNCHANGED <<configured, minor, unset, requested, open>>
      BY <1>0, <2>p, <2>12, MovesToGpio DEF FreePin, Ours
    <3>2. \A i \in Indices(p) : Holds(d, p, i)'
      BY <2>5, <3>1 DEF Holds, Indices
    <3>3. \A q \in Pins : \A i \in Indices(q) : Gen2[q][i] \in requested' <=>
              IF Busy(d, q)' THEN Holds(d, q, i)' ELSE configured'[q]
      BY <2>2, <3>1, <3>2 DEF Busy
    <3> QED
      BY <2>1, <2>3, <2>4, <3>1, <3>3, AloneAfter
  <2>13. CASE Unmark(d)
    <3>1. /\ OthersStay(d) /\ pc[d] = "unmark" /\ pc'[d] = "disown" /\ Pin(d)' = p
          /\ \A q \in Pins : configured'[q] = IF q = p THEN FALSE ELSE configured[q]
          /\ UNCHANGED <<minor, unset, mistaken, requested, open>>
      BY <1>0, <2>p, <2>13, MovesOn DEF Unmark, RestType
    <3>2. \A q \in Pins : \A i \in Indices(q) : Gen2[q][i] \in requested' <=>
              IF Busy(d, q)' THEN Holds(d, q, i)' ELSE configured'[q]
      BY ZenonT(60), <2>2, <2>p, <3>1 DEF Busy, Holds
    <3> QED
      BY <2>1, <2>3, <2>4, <3>1, <3>2, AloneAfter
  <2>14. CASE PassPin(d) \/ Disown(d)
    <3>1. /\ OthersStay(d) /\ pc[d] \in {"ours", "disown"} /\ UNCHANGED <<configured, mistaken, requested>>
          /\ \/ Left(d, Pins) = {} /\ pc'[d] = "idle" /\ open' = open \ {d}
             \/ pc'[d] = "ours" /\ open' = open
          /\ \/ UNCHANGED <<minor, unset>>
             \/ /\ pc[d] = "disown" /\ unset' = unset \ {p}
                /\ \A q \in Pins : minor'[q] = IF q = p THEN NoPin ELSE minor[q]
      BY <1>0, <2>p, <2>14, MovesToPin, MovesOff DEF PassPin, Disown, PassOn, RestType
    <3>2. configured[p] => minor[p] # d
      BY <2>3, <2>p, <2>14 DEF PassPin, Ours, Disown
    <3>3. \A q \in Pins : open' # open /\ q # p => ~(configured[q] /\ minor[q] = d)
      <4> SUFFICES ASSUME NEW q \in Pins, open' # open, q # p, configured[q], minor[q] = d PROVE FALSE
        OBVIOUS
      <4>1. q > Pin(d)
        BY <2>0, <2>p, <3>1, PassedPins
      <4>2. OwnerComing(q)
        BY <3>1, <4>1 DEF BelongInv, Releasing
      <4> QED
        BY <2>0, <3>1, <4>2, AloneBefore
    <3>4. \A q \in Pins : configured[q] => q \notin unset' /\ minor'[q] \in open'
      BY <2>3, <2>4, <3>1, <3>2, <3>3
    <3>5. \A q \in Pins : \A i \in Indices(q) : Gen2[q][i] \in requested' <=>
              IF Busy(d, q)' THEN Holds(d, q, i)' ELSE configured'[q]
      BY <2>2, <3>1 DEF Busy
    <3> QED
      BY <2>1, <2>3, <3>1, <3>4, <3>5, AloneAfter
  <2> QED
    BY <1>4, <2>6, <2>7, <2>8, <2>9, <2>10, <2>11, <2>12, <2>13, <2>14 DEF Step
<1>5. CASE Unload \/ Load
  <2>1. open = {} /\ UNCHANGED <<open, pc, work, overlap, mistaken>>
    BY <1>0, <1>5 DEF Unload, Load, WalkInv
  <2>2. \A d \in Devices : pc[d] = "idle"
    BY <1>0, <2>1 DEF WalkInv
  <2>3. \A p \in Pins : ~configured[p]
    BY <2>1, <2>2 DEF AloneInv, OwnerComing
  <2>4. \A p \in Pins : \A i \in Indices(p) : Gen2[p][i] \notin requested
    BY <2>1, <2>2, <2>3 DEF AloneInv, Accounted, Busy
  <2>5. requested' \subseteq requested /\ \A p \in Pins : ~configured'[p]
    BY <1>5, <2>3 DEF Unload, Load
  <2> QED
    BY <2>1, <2>2, <2>4, <2>5 DEF AloneInv, Accounted, Busy
<1>6. CASE UNCHANGED vars
  BY <1>6 DEF vars, AloneInv, Accounted, Busy, Holds, OwnerComing, Pin
<1> QED
  BY <1>1, <1>2, <1>3, <1>4, <1>5, <1>6 DEF Next, Step, Stopped

LEMMA BelongAlways == Spec => [](TypeInv /\ BelongInv /\ AloneInv)
<1>1. Init => BelongInv /\ AloneInv
  BY DEF Init, BelongInv, AloneInv, Releasing, Accounted, Busy
<1> QED
  BY <1>1, BelongStep, AloneStep, TypeInvariant, PTL DEF Spec

\* As long as calls do not overlap, is_pin_configured (HCSR_Driver.c:121) is true
\* of the pins whose GPIOs the driver holds and of no others whenever no call is
\* under way, whatever fails, whoever takes a pin over, over unloads and loads.
THEOREM FlagsRightAlone == Spec => []FlagRightAlone
<1>1. TypeInv /\ AloneInv => FlagRightAlone
  <2> SUFFICES ASSUME TypeInv, AloneInv, ~overlap, Quiet
               PROVE  requested = UNION {GpiosOf(p) : p \in {q \in Pins : configured[q]}}
    BY DEF FlagRightAlone, FlagMeansRequested
  <2>1. \A p \in Pins : \A i \in Indices(p) : Gen2[p][i] \in requested <=> configured[p]
    BY DEF AloneInv, Accounted, Busy, Quiet
  <2>2. ASSUME NEW g \in requested PROVE \E p \in {q \in Pins : configured[q]} : g \in GpiosOf(p)
    <3>1. PICK p \in Pins : g \in GpiosOf(p)
      BY TypeParts DEF TypeInv, RestType, Gpios
    <3> QED
      BY <2>1, <3>1 DEF GpiosOf, Indices
  <2>3. ASSUME NEW p \in Pins, configured[p], NEW g \in GpiosOf(p) PROVE g \in requested
    BY <2>1, <2>3 DEF GpiosOf, Indices
  <2> QED
    BY <2>2, <2>3
<1> QED
  BY <1>1, BelongAlways, PTL

\* When no call is under way, a configured pin has an open owner, which will
\* give it back in release (HCSR_Driver.c:593); only if calls have overlapped may
\* it have none.
THEOREM PinsAlwaysBelong == Spec => []PinsBelong
<1>1. BelongInv /\ AloneInv => PinsBelong
  BY DEF BelongInv, AloneInv, PinsBelong, OwnerComing, Quiet
<1> QED
  BY <1>1, BelongAlways, PTL
=============================================================================
