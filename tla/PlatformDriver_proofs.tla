----------------------- MODULE PlatformDriver_proofs ------------------------
(***************************************************************************)
(* For any devices, pins, threads, files and calls, and modules loaded and *)
(* unloaded in any order: every variable keeps its type, GPIOs are         *)
(* accounted for, nothing is used after it is gone without one of the      *)
(* causes the property names, and an unloaded driver leaves nothing.       *)
(***************************************************************************)
EXTENDS PlatformDriver, FiniteSetTheorems, TLAPS

-----------------------------------------------------------------------------
(* Types, without the counting.                                             *)

Steps == {"next", "class", "directory", "register", "destroy", "pins"}
Ids == Devices \cup {Nobody, Gone}
Amounts == {-3, NoValue, 1, MaxInt}
Places == {"idle", "start", "average", "leave"}
AllGpios == UNION {ListGpios[p] : p \in 0..13}

ShellType ==
    /\ driver \in BOOLEAN /\ first \in BOOLEAN
    /\ shell \in [op : Commands \cup {"none"}, left : SUBSET Devices,
                  dev : Devices \cup {Nobody}, step : Steps]
    /\ shell.step # "next" => shell.dev \in Devices

DeviceType ==
    /\ plugged \subseteq Devices /\ bound \subseteq Devices
    /\ attrs \subseteq Devices /\ listed \subseteq Devices
    /\ opened \in [Devices -> Nat] /\ stale \in [Devices -> Nat]
    /\ measuring \subseteq Devices /\ total \subseteq Devices
    /\ samples \in [Devices -> Amounts]
    /\ irqNo \in [Devices -> Pins \cup {NoValue}]
    /\ old \subseteq Devices /\ tasks \subseteq Devices
    /\ closing \in [dev : Devices \cup {Nobody}, pin : Pins \cup {NoValue}]
    /\ closing.dev \in Devices => opened[closing.dev] > 0

PinType ==
    /\ configured \in [Pins -> Ids] /\ freedPins \subseteq Pins
    /\ claimed \in [Pins -> Ids] /\ taken \subseteq AllGpios

ThreadType == worker \in [Workers -> [at : Places, dev : Ids]]

Types == ShellType /\ DeviceType /\ PinType /\ ThreadType

LEMMA EchoIsPin == EchoPins \subseteq Pins
BY DEF EchoPins

-----------------------------------------------------------------------------
(* The walk over the two pins.                                              *)

Configured(c) == UNION {ListGpios[p] : p \in {q \in Pins : c[q] # Nobody}}

\* What it hands from one pin to the other.
PinState ==
    [configured : [Pins -> Ids], taken : SUBSET AllGpios,
     claimed : [Pins -> Ids], irq : Pins \cup {NoValue}, ok : BOOLEAN]

LEMMA GpiosKnown == ASSUME NEW p \in Pins PROVE ListGpios[p] \subseteq AllGpios
<1>1. p \in 0..13
  BY PlatformAssumption
<1> QED
  BY <1>1 DEF AllGpios

\* One pin more.
LEMMA OneMore ==
    ASSUME NEW c \in [Pins -> Ids], NEW d \in Devices, NEW p \in Pins
    PROVE  Configured([c EXCEPT ![p] = d]) = Configured(c) \cup ListGpios[p]
BY PlatformAssumption DEF Configured

\* What one pin adds: its GPIOs and its device, and the interrupt of the echo pin.
Adds(s, t, d, p, echo) ==
    /\ t \in PinState
    /\ s.taken = Configured(s.configured) => t.taken = Configured(t.configured)
    /\ \A q \in Pins : t.configured[q] \in {s.configured[q], d}
    /\ \/ t.claimed = s.claimed /\ t.irq = s.irq
       \/ /\ p = echo /\ s.claimed[p] = Nobody /\ t.irq = p
          /\ t.claimed = [s.claimed EXCEPT ![p] = d]

LEMMA Refused ==
    ASSUME NEW t \in PinState
    PROVE  LET u == [t EXCEPT !.ok = FALSE] IN
             /\ u \in PinState /\ u.configured = t.configured /\ u.taken = t.taken
             /\ u.claimed = t.claimed /\ u.irq = t.irq
BY DEF PinState

LEMMA Claims ==
    ASSUME NEW t \in PinState, NEW d \in Ids, NEW p \in Pins
    PROVE  LET u == [t EXCEPT !.claimed[p] = d, !.irq = p] IN
             /\ u \in PinState /\ u.configured = t.configured /\ u.taken = t.taken
             /\ u.claimed = [t.claimed EXCEPT ![p] = d] /\ u.irq = p
<1> DEFINE v == [t EXCEPT !.claimed[p] = d]
<1>1. /\ v \in PinState /\ v.configured = t.configured /\ v.taken = t.taken
      /\ v.claimed = [t.claimed EXCEPT ![p] = d]
  BY DEF PinState
<1>2. [t EXCEPT !.claimed[p] = d, !.irq = p] = [v EXCEPT !.irq = p]
  OBVIOUS
<1> HIDE DEF v
<1> QED
  BY <1>1, <1>2 DEF PinState

LEMMA AttachAdds ==
    ASSUME NEW s \in PinState, NEW d \in Devices, NEW p \in Pins, NEW echo \in Pins
    PROVE  Adds(s, Attach(s, d, p, echo), d, p, echo)
<1> DEFINE new == s.configured[p] = Nobody
           t == IF new THEN [s EXCEPT !.taken = @ \cup ListGpios[p], !.configured[p] = d] ELSE s
           u == [t EXCEPT !.claimed[p] = d, !.irq = p]
           no == [s EXCEPT !.ok = FALSE]
           noIrq == [t EXCEPT !.ok = FALSE]
<1>0. /\ s.configured \in [Pins -> Ids] /\ s.taken \subseteq AllGpios
      /\ s.claimed \in [Pins -> Ids] /\ s.irq \in Pins \cup {NoValue} /\ s.ok \in BOOLEAN
      /\ s = [configured |-> s.configured, taken |-> s.taken, claimed |-> s.claimed,
              irq |-> s.irq, ok |-> s.ok]
  BY DEF PinState
<1>1. t = [configured |-> IF new THEN [s.configured EXCEPT ![p] = d] ELSE s.configured,
           taken |-> IF new THEN s.taken \cup ListGpios[p] ELSE s.taken,
           claimed |-> s.claimed, irq |-> s.irq, ok |-> s.ok]
  BY <1>0
<1> HIDE DEF t
<1>2. /\ t.configured = (IF new THEN [s.configured EXCEPT ![p] = d] ELSE s.configured)
      /\ t.taken = (IF new THEN s.taken \cup ListGpios[p] ELSE s.taken)
      /\ t.claimed = s.claimed /\ t.irq = s.irq /\ t.ok = s.ok
      /\ t = [configured |-> t.configured, taken |-> t.taken, claimed |-> t.claimed,
              irq |-> t.irq, ok |-> t.ok]
  BY <1>1
<1>3. t.configured \in [Pins -> Ids] /\ t.taken \subseteq AllGpios
  BY <1>0, <1>2, GpiosKnown DEF Ids
<1>4. /\ s.taken = Configured(s.configured) => t.taken = Configured(t.configured)
      /\ \A q \in Pins : t.configured[q] \in {s.configured[q], d}
  <2>1. CASE new
    <3>1. t.configured = [s.configured EXCEPT ![p] = d] /\ t.taken = s.taken \cup ListGpios[p]
      BY <1>2, <2>1
    <3>2. Configured(t.configured) = Configured(s.configured) \cup ListGpios[p]
      BY <1>0, <3>1, OneMore
    <3> QED
      BY <1>0, <3>1, <3>2
  <2>2. CASE ~new
    BY <1>2, <2>2
  <2> QED
    BY <2>1, <2>2
<1>t. t \in PinState
  BY <1>0, <1>2, <1>3 DEF PinState
<1>5. Adds(s, no, d, p, echo)
  BY <1>0 DEF Adds, PinState
<1>6. Adds(s, t, d, p, echo)
  BY <1>0, <1>2, <1>3, <1>4 DEF Adds, PinState
<1>7. Adds(s, noIrq, d, p, echo)
  BY <1>0, <1>2, <1>4, <1>t, Refused DEF Adds
<1>8. p = echo /\ t.claimed[p] = Nobody => Adds(s, u, d, p, echo)
  BY <1>0, <1>2, <1>4, <1>t, Claims DEF Adds, Ids
<1>9. Attach(s, d, p, echo) \in {no, t, noIrq} \/
      (p = echo /\ t.claimed[p] = Nobody /\ Attach(s, d, p, echo) = u)
  BY DEF Attach, t
<1> QED
  BY <1>5, <1>6, <1>7, <1>8, <1>9

\* What both add.
LEMMA BothAdd ==
    ASSUME NEW s \in PinState, NEW d \in Devices, NEW trigger \in Pins, NEW echo \in Pins,
           s.irq = NoValue
    PROVE  LET t == AttachBoth(s, d, trigger, echo) IN
             /\ t \in PinState
             /\ s.taken = Configured(s.configured) => t.taken = Configured(t.configured)
             /\ \A q \in Pins : t.configured[q] \in {s.configured[q], d}
             /\ \A q \in Pins : t.claimed[q] \in {s.claimed[q], d}
             /\ (\A q \in Pins : s.claimed[q] # d) => \A q \in Pins : t.claimed[q] = d <=> t.irq = q
<1>0. NoValue \notin Pins /\ trigger \in Int /\ echo \in Int
  <2>1. \A p \in Pins : p \in Int /\ p >= 0
    BY PlatformAssumption
  <2>2. ~(-1 >= 0)
    OBVIOUS
  <2> QED
    BY <2>1, <2>2 DEF NoValue
<1>c. s.claimed \in [Pins -> Ids] /\ s.configured \in [Pins -> Ids]
  BY DEF PinState
<1>1. CASE trigger = echo
  <2>1. Adds(s, AttachBoth(s, d, trigger, echo), d, echo, echo)
    BY <1>0, <1>1, AttachAdds DEF AttachBoth
  <2> QED
    BY <1>0, <1>c, <2>1 DEF Adds
<1>2. CASE trigger > echo
  <2>1. PICK u \in PinState : u = Attach(s, d, trigger, echo)
    BY AttachAdds DEF Adds
  <2>2. Adds(s, u, d, trigger, echo) /\ Adds(u, AttachBoth(s, d, trigger, echo), d, echo, echo)
    BY <1>2, <2>1, AttachAdds DEF AttachBoth
  <2>3. u.claimed = s.claimed /\ u.irq = s.irq
    BY <1>0, <1>2, <2>2 DEF Adds
  <2> QED
    BY <1>0, <1>c, <2>2, <2>3 DEF Adds
<1>3. CASE trigger < echo
  <2>1. PICK u \in PinState : u = Attach(s, d, echo, echo)
    BY AttachAdds DEF Adds
  <2>2. Adds(s, u, d, echo, echo) /\ Adds(u, AttachBoth(s, d, trigger, echo), d, trigger, echo)
    BY <1>0, <1>3, <2>1, AttachAdds DEF AttachBoth
  <2>3. AttachBoth(s, d, trigger, echo).claimed = u.claimed /\ AttachBoth(s, d, trigger, echo).irq = u.irq
    BY <1>0, <1>3, <2>2 DEF Adds
  <2> QED
    BY <1>0, <1>c, <2>2, <2>3 DEF Adds
<1> QED
  BY <1>0, <1>1, <1>2, <1>3

-----------------------------------------------------------------------------
(* Types are kept.                                                          *)

LEMMA ConfigAdds ==
    ASSUME Types, NEW d \in Devices, ConfigPins(d)
    PROVE  /\ configured' \in [Pins -> Ids] /\ taken' \subseteq AllGpios
           /\ claimed' \in [Pins -> Ids]
           /\ irqNo' = [irqNo EXCEPT ![d] = irqNo'[d]] /\ irqNo'[d] \in Pins \cup {NoValue}
           /\ taken = Configured(configured) => taken' = Configured(configured')
           /\ \A q \in Pins : configured'[q] \in {configured[q], d}
           /\ \A q \in Pins : claimed'[q] \in {claimed[q], Nobody, d}
           /\ (\A q \in Pins : claimed[q] = d => irqNo[d] = q) =>
                 \A q \in Pins : claimed'[q] = d <=> irqNo'[d] = q
<1>0. DeviceType /\ PinType
  BY DEF Types
<1> DEFINE s == [configured |-> configured, taken |-> taken, claimed |-> Unclaim(d),
                 irq |-> NoValue, ok |-> TRUE]
<1>1. PICK trigger \in Pins \ {13}, echo \in EchoPins :
          LET t == AttachBoth(s, d, trigger, echo)
          IN  /\ configured' = t.configured /\ taken' = t.taken /\ claimed' = t.claimed
              /\ irqNo' = [irqNo EXCEPT ![d] = t.irq]
  BY DEF ConfigPins
<1>2. Unclaim(d) \in [Pins -> Ids] /\ \A q \in Pins : Unclaim(d)[q] \in {claimed[q], Nobody}
  BY <1>0 DEF Unclaim, PinType, Ids
<1>3. s \in PinState /\ s.irq = NoValue /\ s.configured = configured /\ s.taken = taken
      /\ s.claimed = Unclaim(d)
  BY <1>0, <1>2 DEF PinState, PinType
<1>4. (\A q \in Pins : claimed[q] = d => irqNo[d] = q) => \A q \in Pins : s.claimed[q] # d
  BY <1>3, PlatformAssumption DEF Unclaim
<1> HIDE DEF s
<1>5. PICK t \in PinState : t = AttachBoth(s, d, trigger, echo)
  BY <1>3, EchoIsPin, BothAdd
<1>6. /\ s.taken = Configured(s.configured) => t.taken = Configured(t.configured)
      /\ \A q \in Pins : t.configured[q] \in {s.configured[q], d}
      /\ \A q \in Pins : t.claimed[q] \in {s.claimed[q], d}
      /\ (\A q \in Pins : s.claimed[q] # d) => \A q \in Pins : t.claimed[q] = d <=> t.irq = q
  BY <1>3, <1>5, EchoIsPin, BothAdd
<1>7. /\ configured' = t.configured /\ taken' = t.taken /\ claimed' = t.claimed
      /\ irqNo' = [irqNo EXCEPT ![d] = t.irq] /\ irqNo'[d] = t.irq
  BY <1>0, <1>1, <1>5 DEF DeviceType
<1>8. /\ t.configured \in [Pins -> Ids] /\ t.taken \subseteq AllGpios
      /\ t.claimed \in [Pins -> Ids] /\ t.irq \in Pins \cup {NoValue}
  BY DEF PinState
<1> QED
  BY ZenonT(60), <1>2, <1>3, <1>4, <1>6, <1>7, <1>8

LEMMA LastIsPin == ASSUME NEW own \in SUBSET Pins PROVE LastOf(own) \in Pins \cup {NoValue}
<1>1. SUFFICES ASSUME own # {} PROVE \E p \in own : \A q \in own : p <= q
  BY DEF LastOf
<1>2. SUFFICES ASSUME \A p \in own : \E q \in own : q < p PROVE FALSE
  <2>1. \A p, q \in own : ~(p <= q) <=> q < p
    BY PlatformAssumption
  <2> QED
    BY <2>1
<1>3. own \subseteq 0..13
  BY PlatformAssumption
<1>4. 0 \notin own /\ 1 \notin own /\ 2 \notin own
  BY <1>2, <1>3
<1>5. 3 \notin own /\ 4 \notin own /\ 5 \notin own
  BY <1>2, <1>3, <1>4
<1>6. 6 \notin own /\ 7 \notin own /\ 8 \notin own
  BY <1>2, <1>3, <1>4, <1>5
<1>7. 9 \notin own /\ 10 \notin own /\ 11 \notin own
  BY <1>2, <1>3, <1>4, <1>5, <1>6
<1>8. 12 \notin own /\ 13 \notin own
  BY <1>2, <1>3, <1>4, <1>5, <1>6, <1>7
<1>9. \A p \in 0..13 : p \in 0..2 \/ p \in 3..5 \/ p \in 6..8 \/ p \in 9..11 \/ p \in 12..13
  OBVIOUS
<1>10. own = {}
  <2> SUFFICES ASSUME NEW p \in own PROVE FALSE
    OBVIOUS
  <2>1. CASE p \in 0..2
    BY <1>4, <2>1
  <2>2. CASE p \in 3..5
    BY <1>5, <2>2
  <2>3. CASE p \in 6..8
    BY <1>6, <2>3
  <2>4. CASE p \in 9..11
    BY <1>7, <2>4
  <2>5. CASE p \in 12..13
    BY <1>8, <2>5
  <2> QED
    BY <1>3, <1>9, <2>1, <2>2, <2>3, <2>4, <2>5
<1> QED
  BY <1>1, <1>10

LEMMA ShellTypeStep == Types /\ [Next]_vars => ShellType'
<1> SUFFICES ASSUME Types, [Next]_vars PROVE ShellType'
  OBVIOUS
<1>0. ShellType /\ DeviceType
  BY DEF Types
<1> USE DEF ShellType, DeviceType, moduleVars, Commands, Steps
<1>1. CASE InsmodDriver \/ InsmodDevice \/ Rmmod
  BY ZenonT(60), <1>0, <1>1 DEF InsmodDriver, InsmodDevice, Rmmod, Command, Resting
<1>2. CASE NextDevice
  <2>1. PICK d \in shell.left :
            shell' = [shell EXCEPT !.left = @ \ {d}, !.dev = d, !.step = StepOf(shell.op, d)]
    BY <1>2 DEF NextDevice
  <2>2. StepOf(shell.op, d) \in Steps
    BY <1>0, <1>2 DEF NextDevice, StepOf
  <2> QED
    BY <1>0, <1>2, <2>1, <2>2 DEF NextDevice
<1>3. CASE CommandDone
  BY <1>0, <1>3 DEF CommandDone, Resting
<1>4. CASE ProbeClass \/ ProbeDirectory \/ ProbeRegister \/ RemoveDevice \/ RemovePins
  BY ZenonT(60), <1>0, <1>4 DEF ProbeClass, ProbeDirectory, ProbeRegister, RemoveDevice, RemovePins, At
<1>5. CASE UNCHANGED <<driver, first, shell>>
  BY <1>0, <1>5
<1>6. ASSUME NEW d \in Devices, User(d) PROVE UNCHANGED <<driver, first, shell>>
  BY <1>6 DEF User, Open, UseStale, ConfigPins, SetParameters, Write, WriteTwice, Read, Release, Released, UseOrphan,
              PinStore, SamplesStore, Enable
<1>7. ASSUME NEW w \in Workers, Thread(w)
      PROVE  UNCHANGED <<driver, first, shell>>
  BY <1>7 DEF Thread, Measure, Average, Leave, Orphan
<1>8. ASSUME NEW p \in Pins, Edge(p) PROVE UNCHANGED <<driver, first, shell>>
  BY <1>8 DEF Edge
<1>9. UNCHANGED vars => UNCHANGED <<driver, first, shell>>
  BY DEF vars
<1> QED
  BY <1>1, <1>2, <1>3, <1>4, <1>5, <1>6, <1>7, <1>8, <1>9 DEF Next, Shell, Stopped

LEMMA DeviceTypeStep == Types /\ [Next]_vars => DeviceType'
<1> SUFFICES ASSUME Types, [Next]_vars PROVE DeviceType'
  OBVIOUS
<1>0. ShellType /\ DeviceType /\ Nobody \notin Devices
  BY PlatformAssumption DEF Types
<1> USE DEF DeviceType, moduleVars, deviceVars, settings
<1>n. Closed \in [dev : Devices \cup {Nobody}, pin : Pins \cup {NoValue}] /\ Closed.dev = Nobody
  BY DEF Closed
<1>1. CASE InsmodDriver \/ InsmodDevice \/ Rmmod \/ CommandDone \/ ProbeClass \/ RemovePins
  BY <1>0, <1>1 DEF InsmodDriver, InsmodDevice, Rmmod, CommandDone, ProbeClass, RemovePins
<1>2. CASE NextDevice
  BY <1>0, <1>2 DEF NextDevice, ShellType
<1>3. CASE ProbeDirectory \/ ProbeRegister
  <2>1. shell.dev \in Devices /\ UNCHANGED <<plugged, opened, stale, old, closing>>
    BY <1>0, <1>3 DEF ProbeDirectory, ProbeRegister, At, ShellType
  <2>2. attrs' \subseteq Devices /\ bound' \subseteq Devices /\ listed' \subseteq Devices
    BY <1>0, <1>3, <2>1 DEF ProbeDirectory, ProbeRegister
  <2>3. /\ measuring' \subseteq measuring /\ total' \subseteq total /\ tasks' \subseteq tasks
        /\ samples' \in [Devices -> Amounts] /\ irqNo' \in [Devices -> Pins \cup {NoValue}]
    BY <1>0, <1>3, <2>1 DEF ProbeDirectory, ProbeRegister, Initialize, Amounts
  <2> QED
    BY <1>0, <2>1, <2>2, <2>3
<1>4. CASE RemoveDevice
  <2>1. /\ attrs' \subseteq attrs /\ listed' \subseteq listed /\ bound' \subseteq bound
        /\ UNCHANGED <<plugged, measuring, total, samples, irqNo>>
    BY <1>4 DEF RemoveDevice, DestroyDirectory
  <2>2. opened' \in [Devices -> Nat] /\ stale' \in [Devices -> Nat]
    BY <1>0, <1>4 DEF RemoveDevice
  <2>3. /\ closing' \in [dev : Devices \cup {Nobody}, pin : Pins \cup {NoValue}]
        /\ closing'.dev \in Devices => opened'[closing'.dev] > 0
    BY <1>0, <1>4, <1>n DEF RemoveDevice
  <2>4. UNCHANGED <<old, tasks>>
    BY <1>4 DEF RemoveDevice
  <2> QED
    BY <1>0, <2>1, <2>2, <2>3, <2>4
<1>5. ASSUME NEW d \in Devices, Open(d) \/ Released(d) PROVE DeviceType'
  <2>1. opened' \in [Devices -> Nat]
    <3>1. opened[d] \in Nat /\ (opened[d] > 0 => opened[d] - 1 \in Nat) /\ opened[d] + 1 \in Nat
      BY <1>0
    <3>2. Released(d) => opened[d] > 0
      BY <1>0 DEF Released
    <3>3. CASE Open(d)
      BY <1>0, <3>1, <3>3 DEF Open
    <3>4. CASE Released(d)
      <4>1. opened' = [opened EXCEPT ![d] = @ - 1]
        BY <3>4 DEF Released
      <4> QED
        BY <1>0, <3>1, <3>2, <3>4, <4>1
    <3> QED
      BY <1>5, <3>3, <3>4
  <2>2. /\ closing' \in [dev : Devices \cup {Nobody}, pin : Pins \cup {NoValue}]
        /\ closing'.dev \in Devices => opened'[closing'.dev] > 0
    <3>1. CASE Open(d)
      <4>1. UNCHANGED closing /\ opened' = [opened EXCEPT ![d] = @ + 1]
        BY <3>1 DEF Open
      <4>2. opened[d] \in Nat
        BY <1>0
      <4> QED
        BY <1>0, <4>1, <4>2
    <3>2. CASE Released(d)
      BY <1>0, <1>n, <3>2 DEF Released
    <3> QED
      BY <1>5, <3>1, <3>2
  <2>3. /\ measuring' = measuring \ {d} /\ total' = total \ {d} /\ tasks' = tasks \ {d}
        /\ samples' = [samples EXCEPT ![d] = NoValue] /\ irqNo' = [irqNo EXCEPT ![d] = NoValue]
        /\ UNCHANGED <<plugged, bound, attrs, listed, stale, old>>
    BY <1>5 DEF Open, Released, Initialize
  <2>4. samples' \in [Devices -> Amounts] /\ irqNo' \in [Devices -> Pins \cup {NoValue}]
    BY <1>0, <2>3 DEF Amounts
  <2> QED
    BY <1>0, <2>1, <2>2, <2>3, <2>4
<1>11. ASSUME NEW d \in Devices, Release(d) PROVE DeviceType'
  <2>1. /\ closing' = [dev |-> d, pin |-> LastOf({p \in Pins : configured[p] = d})] /\ opened[d] > 0
        /\ UNCHANGED <<plugged, bound, attrs, old, listed, opened, stale, settings, tasks>>
    BY <1>0, <1>11 DEF Release, HasFile
  <2>2. LastOf({p \in Pins : configured[p] = d}) \in Pins \cup {NoValue}
    BY LastIsPin
  <2> QED
    BY <1>0, <2>1, <2>2
<1>6. ASSUME NEW d \in Devices, UseStale(d) \/ UseOrphan(d) \/ PinStore(d) \/ Enable(d) \/ Write(d) \/ WriteTwice(d)
                               \/ Read(d) \/ SetParameters(d) \/ SamplesStore(d)
      PROVE  DeviceType'
  <2>1. CASE SetParameters(d) \/ SamplesStore(d)
    BY <1>0, <2>1 DEF SetParameters, SamplesStore, Amounts
  <2>2. CASE ~(SetParameters(d) \/ SamplesStore(d))
    BY <1>0, <1>6, <2>2 DEF UseStale, UseOrphan, PinStore, Enable, Write, WriteTwice, Read, StartThread
  <2> QED
    BY <2>1, <2>2
<1>7. ASSUME NEW d \in Devices, ConfigPins(d) PROVE DeviceType'
  <2>1. irqNo' \in [Devices -> Pins \cup {NoValue}]
    BY <1>0, <1>7, ConfigAdds
  <2> QED
    BY <1>0, <1>7, <2>1 DEF ConfigPins
<1>8. ASSUME NEW w \in Workers, Thread(w) PROVE DeviceType'
  BY <1>0, <1>8 DEF Thread, Measure, Average, Leave, Orphan, If
<1>9. ASSUME NEW p \in Pins, Edge(p) PROVE DeviceType'
  BY <1>0, <1>9 DEF Edge
<1>10. CASE UNCHANGED vars
  BY <1>0, <1>10 DEF vars
<1> QED
  BY <1>1, <1>2, <1>3, <1>4, <1>5, <1>6, <1>7, <1>8, <1>9, <1>10, <1>11 DEF Next, Shell, User, Stopped

LEMMA PinTypeStep == Types /\ [Next]_vars => PinType'
<1> SUFFICES ASSUME Types, [Next]_vars PROVE PinType'
  OBVIOUS
<1>0. PinType
  BY DEF Types
<1> USE DEF PinType, pinVars
<1>1. CASE InsmodDriver \/ RemovePins
  BY <1>0, <1>1 DEF InsmodDriver, RemovePins, Ids
<1>2. CASE RemoveDevice
  BY <1>0, <1>2 DEF RemoveDevice, Ids
<1>3. ASSUME NEW d \in Devices, ConfigPins(d) PROVE PinType'
  BY <1>0, <1>3, ConfigAdds DEF ConfigPins
<1>4. ASSUME NEW d \in Devices, Release(d) \/ Released(d) PROVE PinType'
  BY <1>0, <1>4 DEF Release, Released, Unclaim, Ids
<1>5. CASE InsmodDevice \/ Rmmod \/ NextDevice \/ CommandDone \/ ProbeClass \/ ProbeDirectory
           \/ ProbeRegister \/ UNCHANGED vars
  BY <1>0, <1>5 DEF InsmodDevice, Rmmod, NextDevice, CommandDone, ProbeClass, ProbeDirectory,
                    ProbeRegister, vars
<1>6. ASSUME NEW d \in Devices, Open(d) \/ UseStale(d) \/ UseOrphan(d) \/ PinStore(d) \/ Enable(d)
                        \/ Write(d) \/ WriteTwice(d) \/ Read(d) \/ SetParameters(d) \/ SamplesStore(d)
      PROVE  PinType'
  BY <1>0, <1>6 DEF Open, UseStale, UseOrphan, PinStore, Enable, Write, WriteTwice, Read, SetParameters, SamplesStore
<1>7. ASSUME NEW w \in Workers, Thread(w) PROVE PinType'
  BY <1>0, <1>7 DEF Thread, Measure, Average, Leave, Orphan
<1>8. ASSUME NEW p \in Pins, Edge(p) PROVE PinType'
  BY <1>0, <1>8 DEF Edge
<1> QED
  BY <1>1, <1>2, <1>3, <1>4, <1>5, <1>6, <1>7, <1>8 DEF Next, Shell, User, Stopped

LEMMA ThreadTypeStep == Types /\ [Next]_vars => ThreadType'
<1> SUFFICES ASSUME Types, [Next]_vars PROVE ThreadType'
  OBVIOUS
<1>0. ThreadType
  BY DEF Types
<1> USE DEF ThreadType
<1>1. CASE RemoveDevice \/ CommandDone
  <2>1. \A w \in Workers : /\ worker[w] \in [at : Places, dev : Ids]
                            /\ [worker[w] EXCEPT !.dev = Gone] \in [at : Places, dev : Ids]
    BY <1>0 DEF Ids
  <2>2. Idle \in [at : Places, dev : Ids]
    BY DEF Idle, Places, Ids
  <2>3. CASE RemoveDevice
    BY <2>1, <2>3 DEF RemoveDevice
  <2>4. CASE CommandDone
    BY <1>0, <2>1, <2>2, <2>4 DEF CommandDone
  <2> QED
    BY <1>1, <2>3, <2>4
<1>2. ASSUME NEW d \in Devices, Write(d) \/ WriteTwice(d) \/ Read(d) \/ Enable(d) PROVE ThreadType'
  BY <1>0, <1>2 DEF Write, WriteTwice, Read, Enable, StartThread, Ids, Places
<1>3. ASSUME NEW w \in Workers, Thread(w) PROVE ThreadType'
  BY <1>0, <1>3 DEF Thread, Measure, Average, Leave, Orphan, Idle, Ids, Places
<1>4. CASE InsmodDriver \/ InsmodDevice \/ Rmmod \/ NextDevice \/ ProbeClass
           \/ ProbeDirectory \/ ProbeRegister \/ RemovePins \/ UNCHANGED vars
  BY <1>0, <1>4 DEF InsmodDriver, InsmodDevice, Rmmod, NextDevice, ProbeClass, ProbeDirectory,
                    ProbeRegister, RemovePins, vars
<1>5. ASSUME NEW d \in Devices, Open(d) \/ UseStale(d) \/ UseOrphan(d) \/ PinStore(d) \/ ConfigPins(d)
                        \/ Release(d) \/ Released(d) \/ SetParameters(d) \/ SamplesStore(d)
      PROVE  ThreadType'
  BY <1>0, <1>5 DEF Open, UseStale, UseOrphan, PinStore, ConfigPins, Release, Released, SetParameters, SamplesStore
<1>6. ASSUME NEW p \in Pins, Edge(p) PROVE ThreadType'
  BY <1>0, <1>6 DEF Edge
<1> QED
  BY <1>1, <1>2, <1>3, <1>4, <1>5, <1>6 DEF Next, Shell, User, Stopped

LEMMA TypesInit == Init => Types
<1> SUFFICES ASSUME Init PROVE Types
  OBVIOUS
<1> USE DEF Init
<1>1. ShellType
  BY DEF ShellType, Resting, Steps
<1>2. DeviceType
  BY PlatformAssumption DEF DeviceType, Amounts, Closed
<1>3. PinType
  BY DEF PinType, Ids
<1>4. ThreadType
  BY DEF ThreadType, Idle, Ids, Places
<1> QED
  BY <1>1, <1>2, <1>3, <1>4 DEF Types

LEMMA TypesStep == Types /\ [Next]_vars => Types'
BY ShellTypeStep, DeviceTypeStep, PinTypeStep, ThreadTypeStep DEF Types

-----------------------------------------------------------------------------
(* The shell: what is loaded, plugged and bound while it goes from device   *)
(* to device.                                                               *)

Probing == {"class", "directory", "register"}
BeingRemoved == If(shell.step = "destroy", {shell.dev})

ShellInv ==
    /\ shell.op = "none" => shell.step = "next"
    /\ shell.step \in Probing => shell.op \in {"insmod driver", "insmod device"}
    /\ shell.step # "next" => driver
    /\ shell.step = "destroy" => shell.dev \in bound
    /\ shell.op \in {"insmod driver", "rmmod driver"} => driver
    /\ shell.dev \notin shell.left
    /\ ~driver => bound = {}
    /\ bound \subseteq plugged \cup BeingRemoved
    /\ shell.step \in Probing => shell.dev \in plugged /\ shell.dev \notin bound
    /\ shell.op = "insmod driver" => shell.left \subseteq plugged
    /\ shell.op \in {"insmod driver", "insmod device"} => bound \cap shell.left = {}
    /\ shell.op = "rmmod driver" => /\ shell.left \subseteq bound
                                    /\ bound \subseteq shell.left \cup BeingRemoved

LEMMA NoneAtAll == ASSUME NEW x \in Nat, NEW y \in Nat, x + y = 0 PROVE x = 0
OBVIOUS

LEMMA ZeroNotPositive == ~(0 > 0)
OBVIOUS

LEMMA NonePositive == ASSUME NEW x \in Nat, ~(x > 0) PROVE x = 0
OBVIOUS

\* A device is open as long as it has a file.
LEMMA FileOpen == ASSUME DeviceType, NEW d \in Devices, HasFile(d) PROVE opened[d] > 0
<1>1. opened[d] \in Nat /\ (opened[d] > 1 \/ opened[d] = 1)
  BY DEF HasFile, DeviceType
<1> QED
  BY <1>1

LEMMA UsersLeaveModules ==
    ASSUME NEW d \in Devices, User(d)
    PROVE  UNCHANGED moduleVars
BY DEF User, Open, UseStale, ConfigPins, SetParameters, Write, WriteTwice, Read, Release, Released, UseOrphan,
       PinStore, SamplesStore, Enable

LEMMA ThreadsLeaveModules ==
    ASSUME NEW w, Thread(w)
    PROVE  UNCHANGED <<moduleVars, deviceVars, pinVars>>
BY DEF Thread, Measure, Average, Leave, Orphan, pinVars

LEMMA ShellInvStep == Types /\ ShellInv /\ [Next]_vars => ShellInv'
<1> SUFFICES ASSUME Types, ShellInv, [Next]_vars PROVE ShellInv'
  OBVIOUS
<1>0. ShellType /\ DeviceType /\ Nobody \notin Devices
  BY PlatformAssumption DEF Types
<1> USE DEF ShellType, DeviceType, Commands, Steps, Probing, BeingRemoved, If
<1>1. CASE InsmodDriver \/ InsmodDevice \/ Rmmod
  <2>1. /\ shell.step = "next" /\ shell'.step = "next" /\ shell'.dev = Nobody
        /\ shell'.left \subseteq Devices /\ UNCHANGED <<plugged, bound>>
    BY ZenonT(60), <1>0, <1>1 DEF InsmodDriver, InsmodDevice, Rmmod, Command, Resting
  <2>2. CASE InsmodDriver
    <3>1. driver' /\ bound = {} /\ shell'.op = "insmod driver" /\ shell'.left = plugged
      BY <2>2 DEF InsmodDriver, Command, Resting, ShellInv
    <3> QED
      BY <1>0, <2>1, <3>1 DEF ShellInv
  <2>3. CASE InsmodDevice
    <3>1. plugged = {} /\ bound = {} /\ shell'.op = "insmod device" /\ UNCHANGED driver
      BY <2>1, <2>3 DEF InsmodDevice, Command, Resting, ShellInv
    <3> QED
      BY <1>0, <2>1, <3>1 DEF ShellInv
  <2>4. CASE Rmmod
    <3>1. /\ UNCHANGED driver /\ shell'.op \in {"rmmod driver", "rmmod device"}
          /\ shell'.op = "rmmod driver" => driver /\ shell'.left = bound
      BY <2>4 DEF Rmmod, Command, Resting
    <3> QED
      BY <1>0, <2>1, <3>1 DEF ShellInv
  <2> QED
    BY <1>1, <2>2, <2>3, <2>4
<1>2. CASE NextDevice
  <2>1. PICK d \in shell.left :
            /\ shell' = [shell EXCEPT !.left = @ \ {d}, !.dev = d, !.step = StepOf(shell.op, d)]
            /\ plugged' = CASE shell.op = "insmod device" -> plugged \cup {d}
                            [] shell.op = "rmmod device" -> plugged \ {d}
                            [] OTHER -> plugged
    BY <1>2 DEF NextDevice
  <2>2. /\ shell'.op = shell.op /\ shell'.left = shell.left \ {d} /\ shell'.dev = d
        /\ shell'.step = StepOf(shell.op, d) /\ d \in Devices
        /\ shell.op # "none" /\ shell.step = "next" /\ UNCHANGED <<driver, bound>>
    BY <1>0, <1>2, <2>1 DEF NextDevice
  <2>3. CASE shell.op = "insmod device"
    BY <1>0, <2>1, <2>2, <2>3 DEF ShellInv, StepOf
  <2>4. CASE shell.op = "insmod driver"
    BY <1>0, <2>1, <2>2, <2>4 DEF ShellInv, StepOf
  <2>5. CASE shell.op = "rmmod device"
    BY ZenonT(60), <1>0, <2>1, <2>2, <2>5 DEF ShellInv, StepOf
  <2>6. CASE shell.op = "rmmod driver"
    BY <1>0, <2>1, <2>2, <2>6 DEF ShellInv, StepOf
  <2> QED
    BY <1>0, <2>2, <2>3, <2>4, <2>5, <2>6
<1>3. CASE CommandDone
  BY <1>0, <1>3 DEF ShellInv, CommandDone, Resting
<1>4. CASE ProbeClass \/ ProbeDirectory
  BY ZenonT(60), <1>0, <1>4 DEF ShellInv, ProbeClass, ProbeDirectory, At
<1>5. CASE ProbeRegister
  <2>1. /\ shell.step = "register" /\ shell'.step = "next" /\ shell'.op = shell.op
        /\ shell'.left = shell.left /\ shell'.dev = shell.dev /\ shell.dev \in Devices
        /\ bound' = bound \cup {shell.dev} /\ UNCHANGED <<driver, plugged>>
    BY <1>0, <1>5 DEF ProbeRegister, At
  <2> QED
    BY ZenonT(60), <1>0, <2>1 DEF ShellInv
<1>6. CASE RemoveDevice
  BY <1>0, <1>6 DEF ShellInv, RemoveDevice, At
<1>7. CASE RemovePins
  BY <1>0, <1>7 DEF ShellInv, RemovePins, At
<1>8. CASE UNCHANGED moduleVars
  BY <1>8 DEF ShellInv, moduleVars
<1>9. ASSUME NEW p \in Pins, Edge(p) PROVE UNCHANGED moduleVars
  BY <1>9 DEF Edge
<1>10. UNCHANGED vars => UNCHANGED moduleVars
  BY DEF vars
<1> QED
  BY <1>1, <1>2, <1>3, <1>4, <1>5, <1>6, <1>7, <1>8, <1>9, <1>10, UsersLeaveModules,
     ThreadsLeaveModules DEF Next, Shell, Stopped

-----------------------------------------------------------------------------
(* Directories, misc devices, files and the class.                          *)

FileInv ==
    /\ listed \subseteq bound /\ listed \subseteq attrs
    /\ \A d \in Devices : opened[d] > 0 => d \in listed
    /\ shell.op = "rmmod driver" => \A d \in Devices : opened[d] = 0
    /\ shell.step = "register" => shell.dev \in attrs
    /\ shell.step \in {"directory", "register"} => ~first
    /\ class \in {"none", "live", "gone"} /\ (~first => class # "none")
    /\ class = "gone" => "emptied" \in history
    /\ "unlisted" \notin history => attrs \subseteq listed \cup If(shell.step = "register", {shell.dev})
    /\ old # {} => "unlisted" \in history
    /\ \A d \in Devices : stale[d] > 0 => "unplugged" \in history
    /\ \A w \in Workers : worker[w].dev \in Devices => worker[w].dev \in attrs

LEMMA FileInvShell == Types /\ ShellInv /\ FileInv /\ Shell => FileInv'
<1> SUFFICES ASSUME Types, ShellInv, FileInv, Shell PROVE FileInv'
  OBVIOUS
<1>0. ShellType /\ DeviceType /\ ThreadType /\ Nobody \notin Devices /\ Gone \notin Devices
  BY PlatformAssumption DEF Types
<1> USE DEF ShellType, DeviceType, Commands, Steps, deviceVars
<1>1. CASE InsmodDriver \/ InsmodDevice
  BY ZenonT(60), <1>0, <1>1 DEF ShellInv, FileInv, InsmodDriver, InsmodDevice, Command, Resting, If
<1>2. CASE Rmmod
  <2>1. shell'.op = "rmmod driver" => \A d \in Devices : opened[d] = 0
    <3>1. shell'.op = "rmmod driver" => \A d \in Devices : opened[d] + stale[d] = 0
      BY <1>0, <1>2 DEF Rmmod, Command, Resting
    <3> SUFFICES ASSUME shell'.op = "rmmod driver", NEW d \in Devices PROVE opened[d] = 0
      OBVIOUS
    <3>2. opened[d] \in Nat /\ stale[d] \in Nat
      BY <1>0
    <3>3. opened[d] + stale[d] = 0
      BY <3>1
    <3> QED
      BY <3>2, <3>3, NoneAtAll, Zenon
  <2> QED
    BY ZenonT(60), <1>0, <1>2, <2>1 DEF FileInv, Rmmod, Command, Resting, If
<1>3. CASE NextDevice
  <2>1. /\ shell'.op = shell.op /\ shell'.step # "register" /\ shell'.step # "directory"
        /\ shell.step = "next" /\ UNCHANGED <<bound, first, class, deviceVars, history, worker>>
    BY <1>0, <1>3 DEF NextDevice, StepOf
  <2> QED
    BY <2>1 DEF FileInv, If
<1>4. CASE CommandDone
  <2>1. /\ shell.step = "next" /\ shell.left = {} /\ shell' = Resting
        /\ UNCHANGED <<bound, first, class, attrs, listed, opened, stale, history>>
    BY <1>4 DEF CommandDone
  <2>2. old' # {} => "unlisted" \in history
    <3>1. CASE shell.op = "rmmod driver"
      <4>1. bound = {} /\ old' = attrs
        BY <1>4, <2>1, <3>1 DEF ShellInv, CommandDone, BeingRemoved, If
      <4> QED
        BY <2>1, <4>1 DEF FileInv, If
    <3>2. CASE shell.op # "rmmod driver"
      BY <1>4, <3>2 DEF CommandDone, FileInv
    <3> QED
      BY <3>1, <3>2
  <2>3. \A w \in Workers : worker'[w].dev \in Devices => worker'[w].dev \in attrs
    <3>1. CASE shell.op = "rmmod driver"
      <4> SUFFICES ASSUME NEW w \in Workers PROVE worker'[w].dev \notin Devices
        OBVIOUS
      <4>1. worker[w] \in [at : Places, dev : Ids]
        BY <1>0 DEF ThreadType
      <4>2. worker'[w] \in {Idle, [worker[w] EXCEPT !.dev = Gone]}
        BY <1>4, <3>1 DEF CommandDone
      <4>3. [worker[w] EXCEPT !.dev = Gone].dev = Gone
        BY <4>1
      <4>4. Idle.dev = Nobody
        BY DEF Idle
      <4> QED
        BY <1>0, <4>2, <4>3, <4>4
    <3>2. CASE shell.op # "rmmod driver"
      BY <1>4, <3>2 DEF CommandDone, FileInv
    <3> QED
      BY <3>1, <3>2
  <2> QED
    BY <1>0, <2>1, <2>2, <2>3 DEF FileInv, Resting, If
<1>5. CASE ProbeClass
  BY <1>0, <1>5 DEF FileInv, ProbeClass, At, If
<1>6. CASE ProbeDirectory
  BY <1>0, <1>6 DEF FileInv, ProbeDirectory, At, If
<1>7. CASE ProbeRegister
  BY <1>0, <1>7 DEF FileInv, ProbeRegister, At, If
<1>8. CASE RemoveDevice
  <2> DEFINE d == shell.dev
             freed == listed \cap {d}
  <2>1. /\ shell.step = "destroy" /\ shell'.step = "pins" /\ shell'.op = shell.op /\ d \in Devices
        /\ attrs' = attrs \ freed /\ listed' = listed \ freed /\ bound' = bound \ {d}
        /\ history' = history \cup FilesOpen /\ UNCHANGED <<first, class, old>>
    BY <1>0, <1>8 DEF RemoveDevice, DestroyDirectory, At
  <2>2. /\ \A e \in Devices : opened'[e] = IF e \in freed THEN 0 ELSE opened[e]
        /\ \A e \in Devices : stale'[e] = IF e \in freed THEN stale[e] + opened[e] ELSE stale[e]
    BY <1>8 DEF RemoveDevice
  <2>3. \A e \in Devices : stale'[e] > 0 => "unplugged" \in history'
    <3> SUFFICES ASSUME NEW e \in Devices, stale'[e] > 0 PROVE "unplugged" \in history'
      OBVIOUS
    <3>0. stale[e] \in Nat /\ opened[e] \in Nat
      BY <1>0
    <3>1. stale[e] > 0 \/ opened[e] > 0
      <4> HIDE DEF ShellType, DeviceType, freed
      <4>1. stale'[e] = stale[e] \/ stale'[e] = stale[e] + opened[e]
        BY <2>2
      <4> QED
        BY <3>0, <4>1
    <3> QED
      BY <2>1, <3>1 DEF FileInv, FilesOpen, If
  <2>4. \A w \in Workers : worker'[w].dev \in Devices => worker'[w].dev \in attrs'
    <3> SUFFICES ASSUME NEW w \in Workers, worker'[w].dev \in Devices
                 PROVE  worker'[w].dev \in attrs'
      OBVIOUS
    <3>1. worker'[w] = IF worker[w].dev \in freed THEN [worker[w] EXCEPT !.dev = Gone] ELSE worker[w]
      BY <1>8 DEF RemoveDevice
    <3>2. worker[w] \in [at : Places, dev : Ids]
      BY <1>0 DEF ThreadType
    <3>3. worker[w].dev \notin freed /\ worker'[w] = worker[w]
      BY <1>0, <3>1, <3>2
    <3> QED
      BY <2>1, <3>3 DEF FileInv
  <2>5. \A e \in Devices : opened'[e] > 0 => e \in listed'
    <3> SUFFICES ASSUME NEW e \in Devices, opened'[e] > 0 PROVE e \in listed'
      OBVIOUS
    <3>1. e \notin freed /\ opened[e] > 0
      BY <2>2
    <3> QED
      BY <2>1, <3>1 DEF FileInv
  <2>6. shell'.op = "rmmod driver" => \A e \in Devices : opened'[e] = 0
    BY <1>0, <2>1, <2>2 DEF FileInv
  <2>7. "unlisted" \notin history' => attrs' \subseteq listed'
    BY <2>1 DEF FileInv, If
  <2> QED
    BY <2>1, <2>3, <2>4, <2>5, <2>6, <2>7 DEF FileInv, If
<1>9. CASE RemovePins
  BY <1>0, <1>9 DEF FileInv, RemovePins, At, If
<1> QED
  BY <1>1, <1>2, <1>3, <1>4, <1>5, <1>6, <1>7, <1>8, <1>9 DEF Shell

LEMMA FileInvUser ==
    ASSUME Types, ShellInv, FileInv, NEW d \in Devices, User(d)
    PROVE  FileInv'
<1>0. ShellType /\ DeviceType /\ ThreadType /\ Nobody \notin Devices /\ Gone \notin Devices
  BY PlatformAssumption DEF Types
<1>1. UNCHANGED <<bound, first, class, shell, attrs, listed, old>>
  BY UsersLeaveModules DEF moduleVars, User, Open, UseStale, ConfigPins, SetParameters, Write, WriteTwice, Read,
       Release, Released, UseOrphan, PinStore, SamplesStore, Enable, deviceVars
<1>2. history \subseteq history' /\ history' \subseteq history \cup {"reopened", "reset", "read", "negative", "enabled",
                                                          "overflow", "twice", "leaving", "overlap"}
  BY DEF User, Open, UseStale, ConfigPins, SetParameters, Write, WriteTwice, Read,
       Release, Released, UseOrphan, PinStore, SamplesStore, Enable, If
<1>3. \A e \in Devices : opened'[e] > 0 => e \in listed /\ (shell.op = "rmmod driver" => opened[e] > 0)
  <2>1. CASE UNCHANGED opened
    BY <2>1 DEF FileInv
  <2>2. CASE Open(d)
    BY <1>0, <2>2 DEF Open, FileInv, DeviceType
  <2>3. CASE Released(d)
    <3>1. opened' = [opened EXCEPT ![d] = @ - 1] /\ opened[d] > 0
      BY <1>0, <2>3 DEF Released, DeviceType
    <3> QED
      BY <1>0, <3>1 DEF FileInv, DeviceType
  <2> QED
    BY <2>1, <2>2, <2>3 DEF User, UseStale, ConfigPins, SetParameters, Write, WriteTwice, Read, Release, UseOrphan,
       PinStore, SamplesStore, Enable, deviceVars
<1>4. \A e \in Devices : opened'[e] \in Nat
  <2>1. CASE UNCHANGED opened
    BY <1>0, <2>1 DEF DeviceType
  <2>2. CASE Open(d)
    <3>1. opened' = [opened EXCEPT ![d] = @ + 1]
      BY <2>2 DEF Open
    <3> QED
      BY <1>0, <3>1 DEF DeviceType
  <2>3. CASE Released(d)
    <3>1. opened' = [opened EXCEPT ![d] = @ - 1] /\ opened[d] > 0
      BY <1>0, <2>3 DEF Released, DeviceType
    <3> QED
      BY <1>0, <3>1 DEF DeviceType
  <2> QED
    BY <2>1, <2>2, <2>3 DEF User, UseStale, ConfigPins, SetParameters, Write, WriteTwice, Read, Release, UseOrphan,
       PinStore, SamplesStore, Enable, deviceVars
<1>5. \A e \in Devices : stale'[e] > 0 => stale[e] > 0
  <2>1. CASE UseStale(d)
    BY <1>0, <2>1 DEF UseStale, DeviceType
  <2>2. CASE UNCHANGED stale
    BY <2>2
  <2> QED
    BY <2>1, <2>2 DEF User, Open, ConfigPins, SetParameters, Write, WriteTwice, Read, Release, Released, UseOrphan,
       PinStore, SamplesStore, Enable, deviceVars
<1>6. \A w \in Workers : worker'[w].dev \in Devices => worker'[w].dev \in attrs
  <2>1. CASE UNCHANGED worker
    BY <2>1 DEF FileInv
  <2>2. CASE Write(d) \/ WriteTwice(d) \/ Read(d) \/ Enable(d)
    <3>1. d \in attrs
      <4>1. CASE HasFile(d)
        BY <1>0, <4>1, FileOpen DEF FileInv
      <4>2. CASE Attribute(d)
        BY <4>2 DEF Attribute
      <4> QED
        BY <2>2, <4>1, <4>2 DEF Write, WriteTwice, Read, Enable
    <3>2. PICK v \in Workers : worker' = [worker EXCEPT ![v] = [at |-> "start", dev |-> d]]
      BY <2>2 DEF Write, WriteTwice, Read, Enable, StartThread
    <3>3. \A w \in Workers : worker'[w].dev \in {worker[w].dev, d}
      BY <1>0, <3>2 DEF ThreadType
    <3> QED
      BY <3>1, <3>3 DEF FileInv
  <2> QED
    BY <2>1, <2>2 DEF User, Open, UseStale, ConfigPins, SetParameters, Release, Released, UseOrphan,
       PinStore, SamplesStore
<1>7. shell.op = "rmmod driver" => \A e \in Devices : opened'[e] = 0
  <2> SUFFICES ASSUME shell.op = "rmmod driver", NEW e \in Devices PROVE opened'[e] = 0
    OBVIOUS
  <2>1. opened'[e] \in Nat /\ opened[e] = 0
    BY <1>4 DEF FileInv
  <2>2. ~(opened'[e] > 0)
    BY <1>3, <2>1, ZeroNotPositive, Zenon
  <2> QED
    BY <2>1, <2>2, NonePositive, Zenon
<1>8. class = "gone" => "emptied" \in history'
  BY <1>2 DEF FileInv
<1>9. "unlisted" \notin history' => attrs \subseteq listed \cup If(shell.step = "register", {shell.dev})
  BY <1>2 DEF FileInv
<1> QED
  BY <1>1, <1>2, <1>3, <1>5, <1>6, <1>7, <1>8, <1>9 DEF FileInv

LEMMA FileInvStep == Types /\ ShellInv /\ FileInv /\ [Next]_vars => FileInv'
<1> SUFFICES ASSUME Types, ShellInv, FileInv, [Next]_vars PROVE FileInv'
  OBVIOUS
<1>0. ThreadType /\ Nobody \notin Devices
  BY PlatformAssumption DEF Types
<1>1. ASSUME NEW w \in Workers, Thread(w) PROVE FileInv'
  <2>1. UNCHANGED <<moduleVars, deviceVars, history>>
    BY <1>1, ThreadsLeaveModules DEF Thread, Measure, Average, Leave, Orphan
  <2>2. \A v \in Workers : worker'[v].dev \in {worker[v].dev, Nobody}
    BY <1>0, <1>1 DEF Thread, Measure, Average, Leave, Orphan, ThreadType, Idle
  <2> QED
    BY <1>0, <2>1, <2>2 DEF FileInv, moduleVars, deviceVars, If
<1>2. ASSUME NEW p \in Pins, Edge(p) PROVE FileInv'
  BY <1>2 DEF Edge, FileInv, moduleVars, deviceVars, If
<1>3. CASE UNCHANGED vars
  BY <1>3 DEF vars, FileInv, moduleVars, deviceVars, If
<1> QED
  BY <1>1, <1>2, <1>3, FileInvShell, FileInvUser DEF Next, Stopped

-----------------------------------------------------------------------------
(* Pins.                                                                    *)

\* No GPIO is on the list for two pins.
LEMMA GpiosApart == \A p, q \in 0..13 : p # q => ListGpios[p] \cap ListGpios[q] = {}
BY DEF ListGpios

\* A device's pins given back.
LEMMA DeviceLess ==
    ASSUME NEW c \in [Pins -> Ids], NEW d \in Devices
    PROVE  LET own == {p \in Pins : c[p] = d}
           IN  Configured([p \in Pins |-> IF p \in own THEN Nobody ELSE c[p]]) =
                  Configured(c) \ UNION {ListGpios[p] : p \in own}
<1> DEFINE own == {p \in Pins : c[p] = d}
           less == [p \in Pins |-> IF p \in own THEN Nobody ELSE c[p]]
<1>1. \A p \in Pins : less[p] # Nobody <=> c[p] # Nobody /\ p \notin own
  BY PlatformAssumption
<1>2. \A p, q \in Pins : p # q => ListGpios[p] \cap ListGpios[q] = {}
  BY GpiosApart, PlatformAssumption
<1> HIDE DEF less, own
<1>3. \A p \in own : p \in Pins
  BY DEF own
<1>4. \A g : g \in Configured(less) <=> \E p \in Pins : c[p] # Nobody /\ p \notin own /\ g \in ListGpios[p]
  BY <1>1 DEF Configured
<1>5. \A g : g \in Configured(c) <=> \E p \in Pins : c[p] # Nobody /\ g \in ListGpios[p]
  BY DEF Configured
<1>6. \A p \in own : c[p] # Nobody
  BY PlatformAssumption DEF own
<1>7. Configured(less) = Configured(c) \ UNION {ListGpios[p] : p \in own}
  BY <1>2, <1>3, <1>4, <1>5, <1>6
<1> QED
  BY <1>7 DEF less, own

PinInv ==
    /\ freedPins # {} => faults # {}
    /\ "pins" \in faults => {"unplugged", "overlap"} \cap history # {}
    /\ taken = Configured(configured)
    /\ \A p \in Pins : configured[p] \in Devices =>
          opened[configured[p]] > 0 \/ (shell.step = "pins" /\ "unplugged" \in history)
    /\ (\E p \in Pins : configured[p] = Gone) =>
          "overlap" \in history /\ (bound # {} \/ shell.step = "pins")
    /\ \A p \in Pins : configured[p] \in Devices /\ configured[p] = closing.dev =>
          opened[configured[p]] > 1

LEMMA PinInvShell ==
    Types /\ ShellInv /\ FileInv /\ PinInv /\ faults = {} /\ Shell => PinInv'
<1> SUFFICES ASSUME Types, ShellInv, FileInv, PinInv, faults = {}, Shell PROVE PinInv'
  OBVIOUS
<1>0. /\ DeviceType /\ PinType /\ ShellType /\ freedPins = {}
      /\ Nobody \notin Devices /\ Gone \notin Devices /\ Nobody # Gone
  BY PlatformAssumption DEF Types, PinInv
<1>1. CASE InsmodDriver
  <2>1. shell.step = "next" /\ bound = {} /\ \A d \in Devices : ~(opened[d] > 0)
    BY <1>1 DEF InsmodDriver, Command, Resting, ShellInv, FileInv
  <2>2. \A p \in Pins : configured[p] = Nobody
    BY <1>0, <2>1 DEF PinInv, PinType, Ids
  <2>3. /\ configured' = [p \in Pins |-> Nobody] /\ freedPins' = {}
        /\ UNCHANGED <<taken, opened, history, faults>>
    BY <1>1 DEF InsmodDriver, deviceVars
  <2>4. taken = {}
    BY <2>2 DEF PinInv, Configured
  <2>5. Configured(configured') = {}
    BY <2>3 DEF Configured
  <2> QED
    BY <1>0, <2>3, <2>4, <2>5 DEF PinInv
<1>2. CASE RemoveDevice
  <2>1. /\ history' = history \cup FilesOpen /\ UNCHANGED <<configured, freedPins, taken>>
        /\ shell.step = "destroy" /\ shell'.step = "pins" /\ "pins" \notin faults'
        /\ closing'.dev \in {closing.dev, Nobody}
    BY <1>0, <1>2 DEF RemoveDevice, At, ShellType, Fault, If, Closed
  <2>2. (\E d \in Devices : opened[d] > 0) => "unplugged" \in history'
    BY <2>1 DEF FilesOpen, If
  <2>3. \A p \in Pins : configured[p] \in Devices /\ configured[p] = closing'.dev =>
            opened'[configured[p]] > 1
    <3> SUFFICES ASSUME NEW p \in Pins, configured[p] \in Devices, configured[p] = closing'.dev
                 PROVE  opened'[configured[p]] > 1
      OBVIOUS
    <3>1. closing' = IF closing.dev \in listed \cap {shell.dev} THEN Closed ELSE closing
      BY <1>2 DEF RemoveDevice
    <3>2. closing' = closing /\ closing.dev \notin listed \cap {shell.dev}
      BY <1>0, <3>1 DEF Closed
    <3>3. opened'[configured[p]] = opened[configured[p]]
      BY <1>2, <3>2 DEF RemoveDevice
    <3> QED
      BY <3>2, <3>3 DEF PinInv
  <2> QED
    BY <1>0, <2>1, <2>2, <2>3 DEF PinInv, PinType
<1>3. CASE RemovePins
  <2> DEFINE used == {p \in Pins : configured[p] # Nobody}
  <2>1. /\ taken' = taken \ UNION {ListGpios[p] : p \in used}
        /\ configured' = [p \in Pins |-> Nobody] /\ freedPins' = freedPins \cup used
        /\ faults' = faults \cup If(freedPins \cup used # {}, {"pins"})
        /\ history \subseteq history' /\ FilesOpen \subseteq history'
    BY <1>3 DEF RemovePins, Fault
  <2>2. Configured(configured') = {}
    BY <2>1 DEF Configured
  <2>3. used # {} => {"unplugged", "overlap"} \cap history' # {}
    <3>1. (\E d \in Devices : opened[d] > 0) => "unplugged" \in history'
      BY <2>1 DEF FilesOpen, If
    <3> QED
      BY <1>0, <2>1, <3>1 DEF PinInv, PinType, Ids
  <2>4. taken' = {}
    BY <2>1 DEF PinInv, Configured
  <2> HIDE DEF used
  <2>5. freedPins' # {} => faults' # {}
    BY <1>0, <2>1 DEF If
  <2>6. "pins" \in faults' => {"unplugged", "overlap"} \cap history' # {}
    BY <1>0, <2>1, <2>3 DEF If
  <2>7. \A p \in Pins : configured'[p] = Nobody
    BY <2>1
  <2> QED
    BY <1>0, <2>2, <2>4, <2>5, <2>6, <2>7 DEF PinInv
<1>4. CASE ProbeDirectory
  <2>1. /\ UNCHANGED <<configured, freedPins, taken, opened, bound, closing, history>>
        /\ "pins" \notin faults' /\ shell.step # "pins"
    BY <1>4 DEF ProbeDirectory, At, Fault, If, pinVars
  <2> QED
    BY <1>0, <2>1 DEF PinInv
<1>5. CASE ProbeRegister
  <2>1. /\ UNCHANGED <<configured, freedPins, taken, opened, closing, faults>>
        /\ history \subseteq history' /\ bound \subseteq bound' /\ shell.step # "pins"
    BY <1>5 DEF ProbeRegister, At, pinVars
  <2> QED
    BY <1>0, <2>1 DEF PinInv
<1>6. CASE InsmodDevice \/ Rmmod \/ NextDevice \/ CommandDone \/ ProbeClass
  <2>1. /\ UNCHANGED <<configured, freedPins, taken, opened, bound, closing, faults, history>>
        /\ shell.step # "pins"
    BY <1>6 DEF InsmodDevice, Rmmod, NextDevice, CommandDone, ProbeClass, Command, Resting, At,
                pinVars, deviceVars
  <2> QED
    BY <2>1 DEF PinInv
<1> QED
  BY <1>1, <1>2, <1>3, <1>4, <1>5, <1>6 DEF Shell

LEMMA PinInvUser ==
    ASSUME Types, FileInv, PinInv, faults = {}, NEW d \in Devices, User(d)
    PROVE  PinInv'
<1>0. /\ DeviceType /\ PinType /\ freedPins = {} /\ UNCHANGED <<shell, bound>>
      /\ Nobody \notin Devices /\ Gone \notin Devices /\ Nobody # Gone
  BY UsersLeaveModules, PlatformAssumption DEF moduleVars, Types, PinInv
<1>1. CASE Open(d)
  <2>1. /\ UNCHANGED <<configured, freedPins, taken, closing, faults>> /\ history \subseteq history'
        /\ opened' = [opened EXCEPT ![d] = @ + 1]
    BY <1>1 DEF Open, pinVars
  <2>2. \A e \in Devices : (opened[e] > 0 => opened'[e] > 0) /\ (opened[e] > 1 => opened'[e] > 1)
    BY <1>0, <2>1 DEF DeviceType
  <2> QED
    BY <1>0, <2>1, <2>2 DEF PinInv, PinType
<1>2. CASE Release(d)
  <2> DEFINE own == {p \in Pins : configured[p] = d}
  <2>1. /\ UNCHANGED <<opened, freedPins, faults>> /\ closing'.dev = d
        /\ taken' = taken \ UNION {ListGpios[p] : p \in own}
        /\ configured' = [p \in Pins |-> IF p \in own THEN Nobody ELSE configured[p]]
        /\ history \subseteq history'
    BY <1>0, <1>2 DEF Release, Fault, If
  <2>2. Configured(configured') = Configured(configured) \ UNION {ListGpios[p] : p \in own}
    BY <1>0, <2>1, DeviceLess DEF PinType
  <2>3. \A p \in Pins : configured'[p] # Nobody => configured'[p] = configured[p] /\ configured[p] # d
    BY <1>0, <2>1 DEF PinType
  <2> HIDE DEF own
  <2> QED
    BY <1>0, <2>1, <2>2, <2>3 DEF PinInv
<1>6. CASE Released(d)
  <2> DEFINE lost == {p \in Pins : p = closing.pin /\ configured[p] # Nobody}
  <2>1. /\ UNCHANGED <<freedPins, taken, faults>> /\ closing.dev = d /\ closing'.dev = Nobody
        /\ opened' = [opened EXCEPT ![d] = @ - 1]
        /\ configured' = [p \in Pins |-> IF p \in lost THEN Gone ELSE configured[p]]
        /\ history \subseteq history' /\ If(lost # {}, {"overlap"}) \subseteq history'
    BY <1>6 DEF Released, Closed
  <2>2. Configured(configured') = Configured(configured)
    <3>1. \A p \in Pins : configured'[p] # Nobody <=> configured[p] # Nobody
      BY <1>0, <2>1
    <3> QED
      BY <3>1 DEF Configured
  <2>3. \A p \in Pins : configured'[p] # Gone => configured'[p] = configured[p]
    BY <2>1
  <2>4. \A e \in Devices : /\ opened[e] > 1 => opened'[e] > 0
                           /\ e # d /\ opened[e] > 0 => opened'[e] > 0
    BY <1>0, <2>1 DEF DeviceType
  <2>5. (\E p \in Pins : configured'[p] = Gone) =>
            "overlap" \in history' /\ (bound # {} \/ shell.step = "pins")
    <3>1. CASE lost = {}
      <4>1. \A p \in Pins : configured'[p] = configured[p]
        BY <2>1, <3>1
      <4> QED
        BY <2>1, <4>1 DEF PinInv
    <3>2. CASE lost # {}
      <4>1. "overlap" \in history' /\ d \in bound
        BY <1>0, <2>1, <3>2 DEF If, FileInv, DeviceType
      <4> QED
        BY <4>1
    <3> QED
      BY <3>1, <3>2
  <2> HIDE DEF lost
  <2>6. \A p \in Pins : configured'[p] \in Devices =>
            opened'[configured'[p]] > 0 \/ (shell.step = "pins" /\ "unplugged" \in history')
    BY <1>0, <2>1, <2>3, <2>4 DEF PinInv
  <2> QED
    BY <1>0, <2>1, <2>2, <2>5, <2>6 DEF PinInv
<1>3. CASE ConfigPins(d)
  <2>1. /\ UNCHANGED <<freedPins, opened, closing, history, faults>> /\ opened[d] > 0
        /\ closing.dev = d => opened[d] > 1
    BY <1>0, <1>3 DEF ConfigPins, HasFile, DeviceType, Fault, If, deviceVars
  <2>2. /\ taken = Configured(configured) => taken' = Configured(configured')
        /\ \A q \in Pins : configured'[q] \in {configured[q], d}
    BY <1>3, ConfigAdds
  <2> QED
    BY <1>0, <2>1, <2>2 DEF PinInv
<1>4. CASE UseStale(d) \/ UseOrphan(d)
  <2>1. UNCHANGED <<configured, freedPins, taken, opened, closing, history>> /\ "pins" \notin faults'
    BY <1>4 DEF UseStale, UseOrphan, Fault, pinVars, deviceVars
  <2> QED
    BY <1>0, <2>1 DEF PinInv
<1>5. CASE SetParameters(d) \/ Write(d) \/ WriteTwice(d) \/ Read(d) \/ PinStore(d) \/ SamplesStore(d) \/ Enable(d)
  <2>1. /\ UNCHANGED <<configured, freedPins, taken, opened, closing, faults>>
        /\ history \subseteq history'
    BY <1>5 DEF SetParameters, Write, WriteTwice, Read, PinStore, SamplesStore, Enable, pinVars, deviceVars
  <2> QED
    BY <1>0, <2>1 DEF PinInv
<1> QED
  BY <1>1, <1>2, <1>3, <1>4, <1>5, <1>6 DEF User

LEMMA PinInvStep == Types /\ ShellInv /\ FileInv /\ PinInv /\ [Next]_vars => PinInv'
<1> SUFFICES ASSUME Types, ShellInv, FileInv, PinInv, [Next]_vars PROVE PinInv'
  OBVIOUS
<1>1. ASSUME faults = {}, NEW w \in Workers, Thread(w) PROVE PinInv'
  <2>1. /\ UNCHANGED <<configured, freedPins, taken, opened, bound, closing, history, shell>>
        /\ "pins" \notin faults'
    BY <1>1, ThreadsLeaveModules DEF Thread, Measure, Average, Leave, Orphan, Fault, moduleVars, pinVars, deviceVars
  <2> QED
    BY <1>1, <2>1 DEF PinInv
<1>2. ASSUME faults = {}, NEW p \in Pins, Edge(p) PROVE PinInv'
  <2>1. /\ UNCHANGED <<configured, freedPins, taken, opened, bound, closing, history, shell>>
        /\ "pins" \notin faults'
    BY <1>2 DEF Edge, Fault, moduleVars, pinVars, deviceVars
  <2> QED
    BY <1>2, <2>1 DEF PinInv
<1>3. CASE UNCHANGED vars
  BY <1>3 DEF vars, PinInv, moduleVars, pinVars, deviceVars
<1> QED
  BY <1>1, <1>2, <1>3, PinInvShell, PinInvUser DEF Next, Stopped

-----------------------------------------------------------------------------
(* Interrupts and threads, as long as nobody did what loses them.           *)

LosesIrqs == {"unplugged", "reopened"}
LosesThreads == {"unplugged", "reopened", "read", "enabled", "twice", "leaving"}

IrqInv ==
    LosesIrqs \cap history = {} =>
        /\ \A d \in Devices : opened[d] <= 1
        /\ \A p \in Pins : /\ claimed[p] # Gone
                           /\ claimed[p] \in Devices => /\ irqNo[claimed[p]] = p
                                                        /\ opened[claimed[p]] > 0
                                                        /\ claimed[p] # closing.dev

Works(w) == worker[w].at \in {"start", "average"}

\* Each thread is of a device that somebody has open and is not releasing, and
\* of those that measure no two are of the same.
ThreadInv ==
    /\ \A w \in Workers : worker[w].at = "idle" => worker[w] = Idle
    /\ LosesThreads \cap history = {} =>
          /\ \A w \in Workers : worker[w].at # "idle" =>
                /\ worker[w].dev \in Devices /\ opened[worker[w].dev] > 0
                /\ worker[w].dev # closing.dev
          /\ \A w \in Workers : Works(w) => worker[w].dev \in measuring
          /\ \A v, w \in Workers : Works(v) /\ Works(w) /\ worker[v].dev = worker[w].dev => v = w

\* tsk is a thread only while the device is open, unless one was started without.
TaskInv ==
    {"unplugged", "enabled"} \cap history = {} => \A d \in tasks : opened[d] > 0

LEMMA HistoryGrows == [Next]_vars => history \subseteq history'
<1>1. Shell => history \subseteq history'
  BY DEF Shell, InsmodDriver, InsmodDevice, Rmmod, NextDevice, CommandDone, ProbeClass,
         ProbeDirectory, ProbeRegister, RemoveDevice, RemovePins
<1>2. \A d \in Devices : User(d) => history \subseteq history'
  BY ZenonT(60) DEF User, Open, UseStale, ConfigPins, SetParameters, Write, WriteTwice, Read, Release, Released, UseOrphan,
         PinStore, SamplesStore, Enable
<1>3. \A w \in Workers : Thread(w) => history \subseteq history'
  BY DEF Thread, Measure, Average, Leave, Orphan
<1>4. \A p \in Pins : Edge(p) => history \subseteq history'
  BY DEF Edge
<1>5. UNCHANGED vars => history \subseteq history'
  BY DEF vars
<1> QED
  BY SMTT(30), <1>1, <1>2, <1>3, <1>4, <1>5 DEF Next, Stopped

LEMMA UnpluggedOnly ==
    ASSUME Types, RemoveDevice, "unplugged" \notin history'
    PROVE  UNCHANGED <<opened, closing, history>> /\ \A d \in Devices : ~(opened[d] > 0)
<1>1. \A d \in Devices : opened[d] \in Nat /\ ~(opened[d] > 0)
  BY DEF RemoveDevice, FilesOpen, If, Types, DeviceType
<1>2. \A d \in Devices : opened[d] = 0
  BY <1>1, NonePositive, Zenon
<1>3. opened' = [d \in Devices |-> IF d \in listed \cap {shell.dev} THEN 0 ELSE opened[d]]
  BY DEF RemoveDevice
<1>4. opened \in [Devices -> Nat]
  BY DEF Types, DeviceType
<1>5. opened' = opened
  BY <1>2, <1>3, <1>4
<1>6. FilesOpen = {}
  BY <1>1 DEF FilesOpen, If
<1>7. closing.dev \notin Devices /\ listed \subseteq Devices
  BY <1>1 DEF Types, DeviceType
<1>8. closing' = closing
  BY <1>7 DEF RemoveDevice
<1> QED
  BY <1>1, <1>5, <1>6, <1>8 DEF RemoveDevice

\* A device that probe is at has no file, and a thread only if its directory is left.
LEMMA ProbedIsNew ==
    ASSUME Types, ShellInv, FileInv, ProbeDirectory
    PROVE  /\ shell.dev \in Devices /\ ~(opened[shell.dev] > 0)
           /\ faults' = {} => shell.dev \notin attrs
<1>1. shell.step = "directory" /\ shell.dev \in Devices
  BY DEF ProbeDirectory, At, Types, ShellType
<1>2. shell.dev \notin bound
  BY <1>1 DEF ShellInv, Probing
<1> QED
  BY <1>1, <1>2 DEF FileInv, ProbeDirectory, Fault, If

LEMMA IrqInvStep ==
    Types /\ ShellInv /\ FileInv /\ IrqInv /\ [Next]_vars => IrqInv'
<1> SUFFICES ASSUME Types, ShellInv, FileInv, IrqInv, [Next]_vars, LosesIrqs \cap history' = {}
             PROVE  /\ \A d \in Devices : opened'[d] <= 1
                    /\ \A p \in Pins : /\ claimed'[p] # Gone
                                       /\ claimed'[p] \in Devices => /\ irqNo'[claimed'[p]] = p
                                                                     /\ opened'[claimed'[p]] > 0
                                                                     /\ claimed'[p] # closing'.dev
  BY DEF IrqInv
<1>0. /\ DeviceType /\ PinType /\ Nobody \notin Devices /\ Nobody # Gone
      /\ "unplugged" \notin history' /\ "reopened" \notin history'
  BY PlatformAssumption DEF Types, LosesIrqs
<1>h. history \subseteq history'
  BY HistoryGrows
<1>i. /\ \A d \in Devices : opened[d] <= 1 /\ opened[d] \in Nat
      /\ \A p \in Pins : /\ claimed[p] # Gone
                         /\ claimed[p] \in Devices => /\ irqNo[claimed[p]] = p
                                                      /\ opened[claimed[p]] > 0
                                                      /\ claimed[p] # closing.dev
  BY <1>0, <1>h DEF IrqInv, LosesIrqs, DeviceType
<1>1. CASE RemoveDevice
  <2>1. UNCHANGED <<opened, closing, irqNo>> /\ \A d \in Devices : ~(opened[d] > 0)
    BY <1>0, <1>1, UnpluggedOnly DEF RemoveDevice, settings
  <2>2. \A p \in Pins : claimed[p] = Nobody
    BY <1>0, <1>i, <2>1 DEF PinType, Ids
  <2>3. \A p \in Pins : claimed'[p] = Nobody
    BY <1>0, <1>1, <2>2 DEF RemoveDevice, DeviceType
  <2> QED
    BY <1>0, <1>i, <2>1, <2>3
<1>2. CASE ProbeDirectory
  <2>1. UNCHANGED <<opened, closing, claimed>> /\ irqNo' = [irqNo EXCEPT ![shell.dev] = NoValue]
    BY <1>2 DEF ProbeDirectory, Initialize, pinVars
  <2>2. \A p \in Pins : claimed[p] # shell.dev
    BY <1>2, <1>i, ProbedIsNew
  <2> QED
    BY <1>0, <1>i, <2>1, <2>2 DEF DeviceType
<1>3. ASSUME NEW d \in Devices, Open(d)
      PROVE  /\ \A e \in Devices : opened'[e] <= 1
             /\ \A p \in Pins : /\ claimed'[p] # Gone
                                /\ claimed'[p] \in Devices => /\ irqNo'[claimed'[p]] = p
                                                              /\ opened'[claimed'[p]] > 0
                                                              /\ claimed'[p] # closing'.dev
  <2>1. /\ UNCHANGED <<claimed, closing>> /\ irqNo' = [irqNo EXCEPT ![d] = NoValue]
        /\ opened' = [opened EXCEPT ![d] = @ + 1] /\ ~(opened[d] > 0)
    BY <1>0, <1>3 DEF Open, Initialize, If, pinVars
  <2>2. \A p \in Pins : claimed[p] # d
    BY <1>3, <1>i, <2>1
  <2>3. opened[d] = 0
    BY <1>i, <2>1, NonePositive, Zenon
  <2>4. \A e \in Devices : opened'[e] = IF e = d THEN 1 ELSE opened[e]
    BY <1>0, <2>1, <2>3 DEF DeviceType
  <2>5. \A e \in Devices : opened'[e] <= 1
    BY <1>i, <2>4
  <2> QED
    BY <1>0, <1>i, <2>1, <2>2, <2>4, <2>5 DEF DeviceType
<1>4. ASSUME NEW d \in Devices, Release(d)
      PROVE  /\ \A e \in Devices : opened'[e] <= 1
             /\ \A p \in Pins : /\ claimed'[p] # Gone
                                /\ claimed'[p] \in Devices => /\ irqNo'[claimed'[p]] = p
                                                              /\ opened'[claimed'[p]] > 0
                                                              /\ claimed'[p] # closing'.dev
  <2>1. claimed' = Unclaim(d) /\ UNCHANGED <<irqNo, opened>> /\ closing'.dev = d
    BY <1>4 DEF Release, settings
  <2>2. \A p \in Pins : claimed'[p] = IF p = irqNo[d] THEN Nobody ELSE claimed[p]
    BY <2>1 DEF Unclaim
  <2>3. \A p \in Pins : claimed'[p] # d /\ claimed'[p] \in {claimed[p], Nobody}
    BY <1>0, <1>4, <1>i, <2>2
  <2> QED
    BY <1>0, <1>i, <2>1, <2>3
<1>11. ASSUME NEW d \in Devices, Released(d)
      PROVE  /\ \A e \in Devices : opened'[e] <= 1
             /\ \A p \in Pins : /\ claimed'[p] # Gone
                                /\ claimed'[p] \in Devices => /\ irqNo'[claimed'[p]] = p
                                                              /\ opened'[claimed'[p]] > 0
                                                              /\ claimed'[p] # closing'.dev
  <2>1. /\ UNCHANGED claimed /\ irqNo' = [irqNo EXCEPT ![d] = NoValue]
        /\ opened' = [opened EXCEPT ![d] = @ - 1] /\ closing.dev = d /\ closing'.dev = Nobody
    BY <1>11 DEF Released, Initialize, Closed
  <2>2. \A p \in Pins : claimed[p] # d
    BY <1>11, <1>i, <2>1
  <2>3. \A e \in Devices : opened'[e] = IF e = d THEN opened[e] - 1 ELSE opened[e]
    BY <1>0, <2>1 DEF DeviceType
  <2>4. \A e \in Devices : opened'[e] <= 1
    BY <1>i, <2>3
  <2> QED
    BY <1>0, <1>i, <2>1, <2>2, <2>3, <2>4 DEF DeviceType
<1>5. ASSUME NEW d \in Devices, ConfigPins(d)
      PROVE  /\ \A e \in Devices : opened'[e] <= 1
             /\ \A p \in Pins : /\ claimed'[p] # Gone
                                /\ claimed'[p] \in Devices => /\ irqNo'[claimed'[p]] = p
                                                              /\ opened'[claimed'[p]] > 0
                                                              /\ claimed'[p] # closing'.dev
  <2>1. UNCHANGED <<opened, closing>> /\ opened[d] > 0 /\ closing.dev # d
    <3>1. HasFile(d) /\ opened[d] \in Nat /\ opened[d] <= 1
      BY <1>0, <1>5, <1>i DEF ConfigPins
    <3>2. closing.dev # d
      BY <3>1 DEF HasFile
    <3> QED
      BY <1>0, <1>5, <3>1, <3>2, FileOpen DEF ConfigPins, deviceVars
  <2>2. /\ irqNo' = [irqNo EXCEPT ![d] = irqNo'[d]]
        /\ \A q \in Pins : claimed'[q] \in {claimed[q], Nobody, d}
        /\ (\A q \in Pins : claimed[q] = d => irqNo[d] = q) =>
              \A q \in Pins : claimed'[q] = d <=> irqNo'[d] = q
    BY <1>5, ConfigAdds
  <2>3. \A q \in Pins : claimed[q] = d => irqNo[d] = q
    BY <1>5, <1>i
  <2>4. \A e \in Devices : e # d => irqNo'[e] = irqNo[e]
    BY <1>0, <2>2 DEF DeviceType
  <2>5. d # Gone
    BY <1>5, PlatformAssumption
  <2> QED
    BY <1>0, <1>5, <1>i, <2>1, <2>2, <2>3, <2>4, <2>5
<1>6. CASE UNCHANGED <<opened, closing, claimed, irqNo>>
  BY <1>i, <1>6
<1>7. ASSUME NEW d \in Devices, UseStale(d) \/ UseOrphan(d) \/ SetParameters(d) \/ Write(d) \/ WriteTwice(d) \/ Read(d)
                        \/ PinStore(d) \/ SamplesStore(d) \/ Enable(d)
      PROVE  UNCHANGED <<opened, closing, claimed, irqNo>>
  BY <1>7 DEF UseStale, UseOrphan, SetParameters, Write, WriteTwice, Read, PinStore, SamplesStore, Enable,
              pinVars, deviceVars, settings
<1>8. InsmodDriver \/ InsmodDevice \/ Rmmod \/ NextDevice \/ CommandDone \/ ProbeClass \/ ProbeRegister
          \/ RemovePins \/ UNCHANGED vars => UNCHANGED <<opened, closing, claimed, irqNo>>
  BY DEF InsmodDriver, InsmodDevice, Rmmod, NextDevice, CommandDone, ProbeClass, ProbeRegister,
         RemovePins, vars, pinVars, deviceVars, settings
<1>9. ASSUME NEW w \in Workers, Thread(w)
      PROVE  UNCHANGED <<opened, closing, claimed, irqNo>>
  BY <1>9 DEF Thread, Measure, Average, Leave, Orphan, pinVars, deviceVars, settings
<1>10. ASSUME NEW p \in Pins, Edge(p) PROVE UNCHANGED <<opened, closing, claimed, irqNo>>
  BY <1>10 DEF Edge, pinVars, deviceVars, settings
<1> QED
  BY <1>1, <1>2, <1>3, <1>4, <1>5, <1>6, <1>7, <1>8, <1>9, <1>10, <1>11 DEF Next, Shell, User, Stopped

\* Started for a device nobody works for.
LEMMA ThreadInvStart ==
    ASSUME Types, IrqInv, ThreadInv, NEW d \in Devices, Write(d), LosesThreads \cap history' = {}
    PROVE  ThreadInv'
<1>0. /\ ThreadType /\ DeviceType /\ Nobody \notin Devices /\ LosesThreads \cap history = {}
      /\ UNCHANGED <<opened, closing, history>> /\ HasFile(d)
  BY PlatformAssumption DEF Types, Write, deviceVars
<1>1. PICK v \in Workers : worker[v] = Idle /\ worker' = [worker EXCEPT ![v] = [at |-> "start", dev |-> d]]
  BY DEF Write, StartThread
<1>2. measuring' = measuring \cup {d} /\ d \notin measuring /\ opened[d] > 0
  BY <1>0, FileOpen DEF Write
<1>c. closing.dev # d
  <2>1. opened[d] \in Nat /\ opened[d] <= 1
    BY <1>0 DEF IrqInv, LosesIrqs, LosesThreads, DeviceType
  <2> QED
    BY <1>0, <2>1 DEF HasFile
<1>3. \A w \in Workers : Works(w) => worker[w].dev # d
  BY <1>0, <1>2 DEF ThreadInv
<1>4. \A w \in Workers : worker'[w] = IF w = v THEN [at |-> "start", dev |-> d] ELSE worker[w]
  BY <1>0, <1>1 DEF ThreadType
<1>5. \A w \in Workers : worker'[w].at # "idle" =>
          worker'[w].dev \in Devices /\ opened[worker'[w].dev] > 0 /\ worker'[w].dev # closing.dev
  BY <1>0, <1>2, <1>c, <1>4 DEF ThreadInv
<1>6. \A w \in Workers : Works(w)' => worker'[w].dev \in measuring'
  BY <1>0, <1>2, <1>4 DEF ThreadInv, Works
<1>7. \A u, w \in Workers : Works(u)' /\ Works(w)' /\ worker'[u].dev = worker'[w].dev => u = w
  BY <1>0, <1>3, <1>4 DEF ThreadInv, Works
<1>8. \A w \in Workers : worker'[w].at = "idle" => worker'[w] = Idle
  BY <1>4 DEF ThreadInv
<1> QED
  BY <1>0, <1>5, <1>6, <1>7, <1>8 DEF ThreadInv

LEMMA ThreadInvThreads ==
    ASSUME Types, ThreadInv, NEW w \in Workers, Thread(w)
    PROVE  ThreadInv'
<1>0. /\ ThreadType /\ DeviceType /\ worker[w] \in [at : Places, dev : Ids]
      /\ UNCHANGED <<opened, closing, history>> /\ worker[w].at # "idle"
  BY ThreadsLeaveModules DEF Types, ThreadType, deviceVars, Thread, Measure, Average, Leave, Orphan
<1>1. CASE Measure(w)
  <2>1. UNCHANGED measuring /\ Works(w)
    BY <1>1 DEF Measure, Works
  <2>2. \A v \in Workers : worker'[v] = IF v = w THEN [worker[w] EXCEPT !.at = "average"] ELSE worker[v]
    BY <1>0, <1>1 DEF Measure, ThreadType
  <2>3. worker'[w].dev = worker[w].dev /\ worker'[w].at = "average"
    BY <1>0, <2>2
  <2>4. \A v \in Workers : worker'[v].dev = worker[v].dev /\ (Works(v)' => Works(v))
                           /\ (worker'[v].at = "idle" <=> worker[v].at = "idle")
                           /\ (v # w => worker'[v] = worker[v])
    BY <1>0, <2>1, <2>2, <2>3 DEF Works
  <2> QED
    BY <1>0, <2>1, <2>3, <2>4 DEF ThreadInv
<1>2. CASE Average(w) /\ worker[w].dev \in total
  <2>1. /\ measuring' = measuring \ {worker[w].dev} /\ Works(w)
        /\ worker' = [worker EXCEPT ![w].at = "leave"]
    BY <1>2 DEF Average, Works
  <2>2. \A v \in Workers : worker'[v] = IF v = w THEN [worker[w] EXCEPT !.at = "leave"] ELSE worker[v]
    BY <1>0, <2>1 DEF ThreadType
  <2>3. worker'[w].dev = worker[w].dev /\ worker'[w].at = "leave"
    BY <1>0, <2>2
  <2>4. \A v \in Workers : worker'[v].dev = worker[v].dev /\ (Works(v)' => Works(v) /\ v # w)
                           /\ (worker'[v].at = "idle" <=> worker[v].at = "idle")
                           /\ (v # w => worker'[v] = worker[v])
    BY <1>0, <2>2, <2>3 DEF Works
  <2>5. LosesThreads \cap history = {} => \A v \in Workers : Works(v)' => worker'[v].dev \in measuring'
    BY <1>0, <2>1, <2>4 DEF ThreadInv
  <2> QED
    BY <1>0, <2>3, <2>4, <2>5 DEF ThreadInv
<1>3. CASE Leave(w) \/ Orphan(w) \/ (Average(w) /\ worker[w].dev \notin total)
  <2>1. UNCHANGED measuring /\ worker' = [worker EXCEPT ![w] = Idle]
    BY <1>3 DEF Leave, Orphan, Average, settings
  <2>2. \A v \in Workers : worker'[v] = IF v = w THEN Idle ELSE worker[v]
    BY <1>0, <2>1 DEF ThreadType
  <2>3. \A v \in Workers : (Works(v)' => Works(v) /\ v # w) /\ (worker'[v].at # "idle" => v # w)
    BY <2>2 DEF Works, Idle
  <2> QED
    BY <1>0, <2>1, <2>2, <2>3 DEF ThreadInv
<1> QED
  BY <1>1, <1>2, <1>3 DEF Thread

LEMMA ThreadInvStep ==
    Types /\ ShellInv /\ FileInv /\ IrqInv /\ ThreadInv /\ [Next]_vars => ThreadInv'
<1> SUFFICES ASSUME Types, ShellInv, FileInv, IrqInv, ThreadInv, [Next]_vars PROVE ThreadInv'
  OBVIOUS
<1>0. /\ DeviceType /\ ThreadType /\ Nobody \notin Devices /\ Gone \notin Devices
      /\ history \subseteq history'
  BY PlatformAssumption, HistoryGrows DEF Types
<1>t. \A w \in Workers : worker[w] \in [at : Places, dev : Ids]
  BY <1>0 DEF ThreadType
<1>1. CASE RemoveDevice
  <2>1. \A w \in Workers : worker'[w] = IF worker[w].dev \in listed \cap {shell.dev}
                                        THEN [worker[w] EXCEPT !.dev = Gone] ELSE worker[w]
    BY <1>1 DEF RemoveDevice
  <2>2. \A w \in Workers : worker'[w].at = "idle" => worker'[w] = Idle
    <3> SUFFICES ASSUME NEW w \in Workers, worker'[w].at = "idle" PROVE worker'[w] = Idle
      OBVIOUS
    <3>1. worker[w].at = "idle"
      BY <1>t, <2>1
    <3>2. worker[w] = Idle
      BY <3>1 DEF ThreadInv
    <3>3. worker[w].dev \notin listed
      BY <1>0, <3>2 DEF Idle, DeviceType
    <3> QED
      BY <2>1, <3>2, <3>3
  <2>3. LosesThreads \cap history' = {} => \A w \in Workers : worker[w].at = "idle"
    BY <1>0, <1>1, UnpluggedOnly DEF ThreadInv, LosesThreads
  <2>4. LosesThreads \cap history' = {} => \A w \in Workers : worker'[w].at = "idle"
    BY <1>0, <2>1, <2>3 DEF ThreadInv, Idle, DeviceType
  <2> QED
    BY <2>2, <2>4 DEF ThreadInv, Works
<1>2. CASE ProbeDirectory
  <2>1. UNCHANGED <<opened, closing, worker, history>> /\ measuring' = measuring \ {shell.dev}
    BY <1>2 DEF ProbeDirectory, Initialize
  <2>2. ~(opened[shell.dev] > 0)
    BY <1>2, ProbedIsNew
  <2>3. LosesThreads \cap history = {} => \A w \in Workers : Works(w) => worker[w].dev \in measuring'
    BY <2>1, <2>2 DEF ThreadInv, Works
  <2> QED
    BY <2>1, <2>3 DEF ThreadInv, Works
<1>3. ASSUME NEW d \in Devices, Open(d) PROVE ThreadInv'
  <2>1. /\ UNCHANGED <<worker, closing>> /\ measuring' = measuring \ {d}
        /\ opened' = [opened EXCEPT ![d] = @ + 1]
        /\ "reopened" \notin history' => ~(opened[d] > 0)
    BY <1>3 DEF Open, Initialize, If
  <2>2. \A e \in Devices : e # d => opened'[e] = opened[e]
    BY <1>0, <2>1 DEF DeviceType
  <2>3. LosesThreads \cap history' = {} => ~(opened[d] > 0) /\ LosesThreads \cap history = {}
    BY <1>0, <2>1 DEF LosesThreads
  <2>4. LosesThreads \cap history' = {} => \A w \in Workers : worker[w].at # "idle" =>
            worker[w].dev \in Devices \ {d}
    BY <1>0, <2>3 DEF ThreadInv
  <2> QED
    BY <2>1, <2>2, <2>3, <2>4 DEF ThreadInv, Works
<1>4. ASSUME NEW d \in Devices, Release(d) PROVE ThreadInv'
  <2>1. /\ UNCHANGED <<worker, measuring, opened>> /\ closing'.dev = d /\ d \notin measuring
        /\ history' = history \cup If([at |-> "leave", dev |-> d] \in {worker[w] : w \in Workers}, {"leaving"})
    BY <1>4 DEF Release, settings
  <2>2. LosesThreads \cap history' = {} => LosesThreads \cap history = {} /\ "leaving" \notin history'
    BY <1>0 DEF LosesThreads
  <2>3. LosesThreads \cap history' = {} => \A w \in Workers : worker[w].at # "idle" => worker[w].dev # d
    <3> SUFFICES ASSUME LosesThreads \cap history' = {}, NEW w \in Workers, worker[w].at # "idle",
                        worker[w].dev = d
                 PROVE  FALSE
      OBVIOUS
    <3>1. ~Works(w)
      BY <2>1, <2>2 DEF ThreadInv
    <3>2. worker[w].at = "leave"
      BY <1>t, <3>1 DEF Works, Places
    <3>3. worker[w] = [at |-> "leave", dev |-> d]
      BY <1>t, <3>2
    <3> QED
      BY <2>1, <2>2, <3>3 DEF If
  <2> QED
    BY <2>1, <2>2, <2>3 DEF ThreadInv, Works
<1>11. ASSUME NEW d \in Devices, Released(d) PROVE ThreadInv'
  <2>1. /\ UNCHANGED worker /\ measuring' = measuring \ {d} /\ closing.dev = d /\ closing'.dev = Nobody
        /\ opened' = [opened EXCEPT ![d] = @ - 1]
    BY <1>11 DEF Released, Initialize, Closed
  <2>2. \A e \in Devices : e # d => opened'[e] = opened[e]
    BY <1>0, <2>1 DEF DeviceType
  <2>3. LosesThreads \cap history' = {} => LosesThreads \cap history = {}
    BY <1>0
  <2> QED
    BY <1>0, <2>1, <2>2, <2>3 DEF ThreadInv, Works
<1>5. ASSUME NEW d \in Devices, Write(d) PROVE ThreadInv'
  <2>1. CASE LosesThreads \cap history' = {}
    BY <1>5, <2>1, ThreadInvStart
  <2>2. CASE LosesThreads \cap history' # {}
    <3>1. \A w \in Workers : worker'[w].at = "idle" => worker'[w] = Idle
      BY <1>0, <1>5 DEF Write, StartThread, ThreadInv, ThreadType
    <3> QED
      BY <2>2, <3>1 DEF ThreadInv
  <2> QED
    BY <2>1, <2>2
<1>6. ASSUME NEW d \in Devices, WriteTwice(d) \/ Read(d) \/ Enable(d) PROVE ThreadInv'
  <2>1. LosesThreads \cap history' # {}
    BY <1>6 DEF WriteTwice, Read, Enable, LosesThreads
  <2>2. \A w \in Workers : worker'[w].at = "idle" => worker'[w] = Idle
    BY <1>0, <1>6 DEF WriteTwice, Read, Enable, StartThread, ThreadInv, ThreadType
  <2> QED
    BY <2>1, <2>2 DEF ThreadInv
<1>12. CASE CommandDone
  <2>1. UNCHANGED <<opened, closing, measuring, history>>
    BY <1>12 DEF CommandDone, settings
  <2>2. CASE shell.op = "rmmod driver"
    <3>1. \A w \in Workers : worker'[w] = IF worker[w].at = "idle" THEN Idle
                                          ELSE [worker[w] EXCEPT !.dev = Gone]
      BY <1>12, <2>2 DEF CommandDone
    <3>2. \A w \in Workers : worker'[w].at = "idle" => worker'[w] = Idle
      BY <1>t, <3>1
    <3>3. \A d \in Devices : opened[d] = 0
      BY <2>2 DEF FileInv
    <3>4. LosesThreads \cap history = {} => \A w \in Workers : worker[w].at = "idle"
      <4>1. ~(0 > 0)
        OBVIOUS
      <4> QED
        BY <3>3, <4>1 DEF ThreadInv
    <3>5. LosesThreads \cap history = {} => \A w \in Workers : worker'[w] = Idle
      BY <3>1, <3>4
    <3> QED
      BY <2>1, <3>2, <3>5 DEF ThreadInv, Works, Idle
  <2>3. CASE shell.op # "rmmod driver"
    <3>1. UNCHANGED worker
      BY <1>12, <2>3 DEF CommandDone
    <3> QED
      BY <2>1, <3>1 DEF ThreadInv, Works
  <2> QED
    BY <2>2, <2>3
<1>7. ASSUME UNCHANGED <<opened, closing, worker, measuring>> PROVE ThreadInv'
  BY <1>0, <1>7 DEF ThreadInv, Works
<1>8. ASSUME NEW d \in Devices, UseStale(d) \/ UseOrphan(d) \/ SetParameters(d) \/ ConfigPins(d)
                        \/ PinStore(d) \/ SamplesStore(d)
      PROVE  UNCHANGED <<opened, closing, worker, measuring>>
  BY <1>8 DEF UseStale, UseOrphan, SetParameters, ConfigPins, PinStore, SamplesStore,
              deviceVars, settings
<1>9. InsmodDriver \/ InsmodDevice \/ Rmmod \/ NextDevice \/ ProbeClass \/ ProbeRegister
          \/ RemovePins \/ UNCHANGED vars => UNCHANGED <<opened, closing, worker, measuring>>
  BY DEF InsmodDriver, InsmodDevice, Rmmod, NextDevice, ProbeClass, ProbeRegister,
         RemovePins, vars, deviceVars, settings
<1>10. ASSUME NEW p \in Pins, Edge(p) PROVE UNCHANGED <<opened, closing, worker, measuring>>
  BY <1>10 DEF Edge, deviceVars, settings
<1> QED
  BY <1>1, <1>2, <1>3, <1>4, <1>5, <1>6, <1>7, <1>8, <1>9, <1>10, <1>11, <1>12, ThreadInvThreads
     DEF Next, Shell, User, Stopped

LEMMA TaskInvStep == Types /\ ShellInv /\ FileInv /\ TaskInv /\ [Next]_vars => TaskInv'
<1> SUFFICES ASSUME Types, ShellInv, FileInv, TaskInv, [Next]_vars,
                    {"unplugged", "enabled"} \cap history' = {}
             PROVE  \A d \in tasks' : opened'[d] > 0
  BY DEF TaskInv
<1>0. DeviceType /\ \A d \in tasks : d \in Devices /\ opened[d] > 0
  BY HistoryGrows DEF Types, DeviceType, TaskInv
<1>1. CASE RemoveDevice
  <2>1. UNCHANGED <<opened, tasks>>
    BY <1>1, UnpluggedOnly DEF RemoveDevice
  <2> QED
    BY <1>0, <2>1
<1>2. ASSUME NEW d \in Devices, Open(d) \/ Released(d) PROVE \A e \in tasks' : opened'[e] > 0
  <2>1. /\ tasks' = tasks \ {d}
        /\ opened' \in {[opened EXCEPT ![d] = @ + 1], [opened EXCEPT ![d] = @ - 1]}
    BY <1>2 DEF Open, Released, Initialize
  <2>2. \A e \in Devices : e # d => opened'[e] = opened[e]
    BY <1>0, <2>1 DEF DeviceType
  <2> QED
    BY <1>0, <2>1, <2>2
<1>3. CASE ProbeDirectory
  <2>1. tasks' \subseteq tasks /\ UNCHANGED opened
    BY <1>3 DEF ProbeDirectory, Initialize
  <2> QED
    BY <1>0, <2>1
<1>4. ASSUME NEW d \in Devices, Write(d) \/ WriteTwice(d) \/ Read(d) PROVE \A e \in tasks' : opened'[e] > 0
  <2>1. tasks' = tasks \cup {d} /\ UNCHANGED opened /\ opened[d] > 0
    BY <1>0, <1>4, FileOpen DEF Write, WriteTwice, Read, StartThread, deviceVars
  <2> QED
    BY <1>0, <2>1
<1>5. ASSUME NEW d \in Devices, Enable(d) PROVE FALSE
  BY <1>5 DEF Enable
<1>6. CASE UNCHANGED <<opened, tasks>>
  BY <1>0, <1>6
<1>7. ASSUME NEW d \in Devices, UseStale(d) \/ UseOrphan(d) \/ SetParameters(d) \/ ConfigPins(d)
                        \/ Release(d) \/ PinStore(d) \/ SamplesStore(d)
      PROVE  UNCHANGED <<opened, tasks>>
  BY <1>7 DEF UseStale, UseOrphan, SetParameters, ConfigPins, Release, PinStore, SamplesStore, deviceVars
<1>8. InsmodDriver \/ InsmodDevice \/ Rmmod \/ NextDevice \/ CommandDone \/ ProbeClass \/ ProbeRegister
          \/ RemovePins \/ UNCHANGED vars => UNCHANGED <<opened, tasks>>
  BY DEF InsmodDriver, InsmodDevice, Rmmod, NextDevice, CommandDone, ProbeClass, ProbeRegister,
         RemovePins, vars, deviceVars
<1>9. ASSUME NEW w \in Workers, Thread(w) PROVE UNCHANGED <<opened, tasks>>
  BY <1>9 DEF Thread, Measure, Average, Leave, Orphan, deviceVars
<1>10. ASSUME NEW p \in Pins, Edge(p) PROVE UNCHANGED <<opened, tasks>>
  BY <1>10 DEF Edge, deviceVars
<1> QED
  BY <1>1, <1>2, <1>3, <1>4, <1>5, <1>6, <1>7, <1>8, <1>9, <1>10 DEF Next, Shell, User, Stopped

-----------------------------------------------------------------------------
(* The divisor.                                                             *)

\* With m = -1 (not yet set) or 1 samples are taken; the largest m is too large.
LEMMA Takes == TakesSamples(NoValue) /\ TakesSamples(1) /\ TooLarge(MaxInt)
BY PlatformAssumption DEF TakesSamples, TooLarge, Wrap, NoValue

\* A thread that has added up has a total, if nothing was used after it was gone.
TotalInv ==
    {"reset", "negative", "overflow"} \cap history = {} /\ faults = {} =>
        /\ \A w \in Workers : worker[w].at = "average" /\ worker[w].dev \in Devices =>
              worker[w].dev \in total
        /\ \A d \in Devices : TakesSamples(samples[d])

LEMMA TotalInvStep ==
    Types /\ ShellInv /\ FileInv /\ TotalInv /\ [Next]_vars => TotalInv'
<1> SUFFICES ASSUME Types, ShellInv, FileInv, TotalInv, [Next]_vars,
                    {"reset", "negative", "overflow"} \cap history' = {}, faults' = {}
             PROVE  /\ \A w \in Workers : worker'[w].at = "average" /\ worker'[w].dev \in Devices =>
                           worker'[w].dev \in total'
                    /\ \A d \in Devices : TakesSamples(samples'[d])
  BY DEF TotalInv
<1> DEFINE Totals == /\ \A w \in Workers : worker[w].at = "average" /\ worker[w].dev \in Devices =>
                            worker[w].dev \in total
                     /\ \A d \in Devices : TakesSamples(samples[d])
<1>0. /\ DeviceType /\ ThreadType /\ Nobody \notin Devices /\ Gone \notin Devices
      /\ "reset" \notin history' /\ "negative" \notin history' /\ "overflow" \notin history'
  BY PlatformAssumption DEF Types
<1>f. faults = {}
  BY DEF Next, Stopped, vars
<1>t. Totals
  BY <1>0, <1>f, HistoryGrows DEF TotalInv
<1>1. ASSUME NEW d \in Devices, Open(d) \/ Released(d) \/ (ProbeDirectory /\ d = shell.dev)
      PROVE  Totals'
  <2>1. /\ UNCHANGED worker /\ total' = total \ {d} /\ samples' = [samples EXCEPT ![d] = NoValue]
        /\ \A w \in Workers : worker[w].dev # d
    BY <1>0, <1>1, ProbedIsNew DEF Open, Released, ProbeDirectory, Initialize, If, FileInv
  <2>2. \A e \in Devices : samples'[e] \in {samples[e], NoValue}
    BY <1>0, <2>1 DEF DeviceType
  <2>3. \A e \in Devices : TakesSamples(samples'[e])
    BY <1>t, <2>2, Takes
  <2> QED
    BY <1>t, <2>1, <2>3
<1>2. ASSUME NEW d \in Devices, SetParameters(d) \/ SamplesStore(d) PROVE Totals'
  <2>1. UNCHANGED <<worker, total>>
    BY <1>2 DEF SetParameters, SamplesStore
  <2>2. SetParameters(d)
    <3>1. ASSUME SamplesStore(d) PROVE FALSE
      <4>1. PICK m \in {-3, MaxInt} :
                history' = history \cup If(m < -2, {"negative"}) \cup If(TooLarge(m), {"overflow"})
        BY <3>1 DEF SamplesStore
      <4>2. m # MaxInt
        BY <1>0, <4>1, Takes DEF If
      <4>3. m = -3
        BY <4>1, <4>2
      <4>4. m < -2
        BY <4>3
      <4> QED
        BY <1>0, <4>1, <4>4 DEF If
    <3> QED
      BY <1>2, <3>1
  <2>3. samples' = [samples EXCEPT ![d] = 1]
    <3>1. PICK m \in {1, MaxInt} :
              samples' = [samples EXCEPT ![d] = m] /\ history' = history \cup If(TooLarge(m), {"overflow"})
      BY <2>2 DEF SetParameters
    <3>2. m # MaxInt
      BY <1>0, <3>1, Takes DEF If
    <3> QED
      BY <3>1, <3>2
  <2>4. \A e \in Devices : samples'[e] \in {samples[e], 1}
    BY <1>0, <2>3 DEF DeviceType
  <2>5. \A e \in Devices : TakesSamples(samples'[e])
    BY <1>t, <2>4, Takes
  <2> QED
    BY <1>t, <2>1, <2>5
<1>3. ASSUME NEW d \in Devices, Write(d) \/ WriteTwice(d) \/ Read(d) \/ Enable(d) PROVE Totals'
  <2>1. PICK v \in Workers : worker' = [worker EXCEPT ![v] = [at |-> "start", dev |-> d]]
    BY <1>3 DEF Write, WriteTwice, Read, Enable, StartThread
  <2>2. \A w \in Workers : worker'[w].at = "average" => worker'[w] = worker[w]
    BY <1>0, <2>1 DEF ThreadType
  <2>3. UNCHANGED <<total, samples>>
    BY <1>3 DEF Write, WriteTwice, Read, Enable, settings
  <2> QED
    BY <1>t, <2>2, <2>3
<1>4. ASSUME NEW v \in Workers, Measure(v) PROVE Totals'
  <2>1. /\ worker' = [worker EXCEPT ![v].at = "average"] /\ UNCHANGED samples
        /\ worker[v].dev \in Devices
        /\ total' = total \cup If(TakesSamples(samples[worker[v].dev]), {worker[v].dev})
    BY <1>4 DEF Measure
  <2>2. total' = total \cup {worker[v].dev}
    BY <1>t, <2>1 DEF If
  <2>3. \A w \in Workers : worker'[w] = IF w = v THEN [worker[v] EXCEPT !.at = "average"] ELSE worker[w]
    BY <1>0, <2>1 DEF ThreadType
  <2>4. worker[v] \in [at : Places, dev : Ids]
    BY <1>0 DEF ThreadType
  <2>5. \A w \in Workers : worker'[w].dev = worker[w].dev /\ (w # v => worker'[w] = worker[w])
    BY <2>3, <2>4
  <2> QED
    BY <1>t, <2>1, <2>2, <2>5
<1>5. ASSUME NEW v \in Workers, Average(v) \/ Leave(v) \/ Orphan(v) PROVE Totals'
  <2>1. /\ UNCHANGED <<total, samples>>
        /\ worker' \in {[worker EXCEPT ![v] = Idle], [worker EXCEPT ![v].at = "leave"]}
    BY <1>5 DEF Average, Leave, Orphan, settings
  <2>3. \A w \in Workers : worker'[w] \in {worker[w], Idle, [worker[w] EXCEPT !.at = "leave"]}
    BY <1>0, <2>1 DEF ThreadType
  <2>4. \A w \in Workers : worker[w] \in [at : Places, dev : Ids]
    BY <1>0 DEF ThreadType
  <2>5. Idle.at = "idle" /\ \A w \in Workers : [worker[w] EXCEPT !.at = "leave"].at = "leave"
    BY <2>4 DEF Idle
  <2>2. \A w \in Workers : worker'[w].at = "average" => worker'[w] = worker[w]
    BY <2>3, <2>5
  <2> QED
    BY <1>t, <2>1, <2>2
<1>6. ASSUME RemoveDevice \/ CommandDone PROVE Totals'
  <2>1. UNCHANGED <<total, samples>>
    BY <1>6 DEF RemoveDevice, CommandDone, settings
  <2>2. \A w \in Workers : worker'[w].dev \in Devices => worker'[w] = worker[w]
    <3> SUFFICES ASSUME NEW w \in Workers, worker'[w].dev \in Devices PROVE worker'[w] = worker[w]
      OBVIOUS
    <3>1. worker[w] \in [at : Places, dev : Ids]
      BY <1>0 DEF ThreadType
    <3>2. worker'[w] \in {worker[w], Idle, [worker[w] EXCEPT !.dev = Gone]}
      BY <1>6 DEF RemoveDevice, CommandDone
    <3>3. Idle.dev = Nobody /\ [worker[w] EXCEPT !.dev = Gone].dev = Gone
      BY <3>1 DEF Idle
    <3> QED
      BY <1>0, <3>2, <3>3
  <2> QED
    BY <1>t, <2>1, <2>2
<1>7. ASSUME UNCHANGED <<worker, total, samples>> PROVE Totals'
  BY <1>t, <1>7
<1>8. ASSUME NEW d \in Devices, UseStale(d) \/ UseOrphan(d) \/ ConfigPins(d) \/ Release(d) \/ PinStore(d)
      PROVE  UNCHANGED <<worker, total, samples>>
  BY <1>8 DEF UseStale, UseOrphan, ConfigPins, Release, PinStore, settings
<1>9. InsmodDriver \/ InsmodDevice \/ Rmmod \/ NextDevice \/ ProbeClass \/ ProbeRegister
          \/ RemovePins \/ UNCHANGED vars => UNCHANGED <<worker, total, samples>>
  BY DEF InsmodDriver, InsmodDevice, Rmmod, NextDevice, ProbeClass, ProbeRegister,
         RemovePins, vars, settings
<1>10. ASSUME NEW p \in Pins, Edge(p) PROVE UNCHANGED <<worker, total, samples>>
  BY <1>10 DEF Edge, settings
<1>11. ASSUME ProbeDirectory PROVE Totals'
  <2>1. shell.dev \in Devices
    BY <1>11, ProbedIsNew
  <2> QED
    BY <1>1, <1>11, <2>1
<1> HIDE DEF Totals
<1>12. Totals'
  BY <1>1, <1>2, <1>3, <1>4, <1>5, <1>6, <1>7, <1>8, <1>9, <1>10, <1>11
     DEF Next, Shell, User, Thread, Stopped
<1> QED
  BY <1>12 DEF Totals

-----------------------------------------------------------------------------
(* device_found.                                                            *)

\* Probe counts a device before it accepts it, and it is counted off last.
CountInv ==
    /\ IsFiniteSet(bound)
    /\ shell.step = "pins" => shell.dev \notin bound
    /\ found = Cardinality(bound) +
                  IF shell.step \in {"directory", "register", "pins"} THEN 1 ELSE 0

LEMMA CountInvStep == Types /\ ShellInv /\ CountInv /\ [Next]_vars => CountInv'
<1> SUFFICES ASSUME Types, ShellInv, CountInv, [Next]_vars PROVE CountInv'
  OBVIOUS
<1>0. ShellType /\ IsFiniteSet(bound) /\ Cardinality(bound) \in Nat
  BY FS_CardinalityType DEF Types, CountInv
<1>1. CASE InsmodDriver
  <2>1. bound' = {} /\ found' = 0 /\ shell'.step = "next"
    BY <1>1 DEF InsmodDriver, Command, Resting, ShellInv
  <2> QED
    BY <2>1, FS_EmptySet DEF CountInv
<1>2. CASE InsmodDevice \/ Rmmod \/ CommandDone
  <2>1. UNCHANGED <<bound, found>> /\ shell.step = "next" /\ shell'.step = "next"
    <3>1. CASE InsmodDevice
      BY <3>1 DEF InsmodDevice, Command, Resting
    <3>2. CASE Rmmod
      BY <3>2 DEF Rmmod, Command, Resting
    <3>3. CASE CommandDone
      BY <3>3 DEF CommandDone, Resting
    <3> QED
      BY <1>2, <3>1, <3>2, <3>3
  <2> QED
    BY <2>1 DEF CountInv
<1>3. CASE NextDevice
  <2>1. /\ UNCHANGED <<bound, found>> /\ shell.step = "next"
        /\ shell'.step \in {"next", "class", "destroy"}
    BY <1>0, <1>3 DEF NextDevice, StepOf, ShellType, Commands
  <2> QED
    BY <2>1 DEF CountInv
<1>4. CASE ProbeClass
  <2>1. /\ UNCHANGED bound /\ found' = found + 1 /\ shell.step = "class" /\ shell'.step = "directory"
    BY <1>0, <1>4 DEF ProbeClass, At, ShellType
  <2> QED
    BY <1>0, <2>1 DEF CountInv
<1>5. CASE ProbeDirectory
  <2>1. UNCHANGED <<bound, found>> /\ shell.step = "directory" /\ shell'.step = "register"
    BY <1>0, <1>5 DEF ProbeDirectory, At, ShellType
  <2> QED
    BY <2>1 DEF CountInv
<1>6. CASE ProbeRegister
  <2>1. /\ UNCHANGED found /\ shell.step = "register" /\ shell'.step = "next"
        /\ bound' = bound \cup {shell.dev} /\ shell.dev \notin bound
    BY <1>0, <1>6 DEF ProbeRegister, At, ShellType, ShellInv, Probing
  <2>2. IsFiniteSet(bound') /\ Cardinality(bound') = Cardinality(bound) + 1
    BY <1>0, <2>1, FS_AddElement
  <2> QED
    BY <1>0, <2>1, <2>2 DEF CountInv
<1>7. CASE RemoveDevice
  <2>1. /\ UNCHANGED found /\ shell.step = "destroy" /\ shell'.step = "pins"
        /\ bound' = bound \ {shell.dev} /\ shell.dev \in bound /\ shell'.dev = shell.dev
    BY <1>0, <1>7 DEF RemoveDevice, At, ShellType, ShellInv
  <2>2. IsFiniteSet(bound') /\ Cardinality(bound') = Cardinality(bound) - 1
    BY <1>0, <2>1, FS_RemoveElement
  <2> QED
    BY <1>0, <2>1, <2>2 DEF CountInv
<1>8. CASE RemovePins
  <2>1. UNCHANGED bound /\ found' = found - 1 /\ shell.step = "pins" /\ shell'.step = "next"
    BY <1>0, <1>8 DEF RemovePins, At, ShellType
  <2> QED
    BY <1>0, <2>1 DEF CountInv
<1>9. CASE UNCHANGED moduleVars
  BY <1>9 DEF CountInv, moduleVars
<1>10. ASSUME NEW p \in Pins, Edge(p) PROVE UNCHANGED moduleVars
  BY <1>10 DEF Edge
<1>11. UNCHANGED vars => UNCHANGED moduleVars
  BY DEF vars
<1> QED
  BY <1>1, <1>2, <1>3, <1>4, <1>5, <1>6, <1>7, <1>8, <1>9, <1>10, <1>11, UsersLeaveModules,
     ThreadsLeaveModules DEF Next, Shell, Stopped

-----------------------------------------------------------------------------
(* What the types say beyond that.                                          *)

\* No GPIO is requested twice: not through the list what sysfs has.
BoundsInv ==
    /\ opened \in [Devices -> 0..MaxFiles]
    /\ locked \subseteq Devices /\ pinsSet \subseteq Devices /\ paramsSet \subseteq Devices
    /\ taken \cap exported = {}

LEMMA AttachClear ==
    ASSUME NEW s \in PinState, NEW d \in Devices, NEW p \in Pins, NEW echo \in Pins,
           s.taken \cap exported = {}
    PROVE  Attach(s, d, p, echo) \in PinState /\ Attach(s, d, p, echo).taken \cap exported = {}
<1> DEFINE new == s.configured[p] = Nobody
           t == IF new THEN [s EXCEPT !.taken = @ \cup ListGpios[p], !.configured[p] = d] ELSE s
<1>1. t.taken = IF new THEN s.taken \cup ListGpios[p] ELSE s.taken
  BY DEF PinState
<1>2. [s EXCEPT !.ok = FALSE].taken = s.taken
  BY DEF PinState
<1>3. [t EXCEPT !.ok = FALSE].taken = t.taken /\ [t EXCEPT !.claimed[p] = d, !.irq = p].taken = t.taken
  BY DEF PinState
<1>4. \/ Attach(s, d, p, echo) = [s EXCEPT !.ok = FALSE]
      \/ /\ new => ListGpios[p] \cap (s.taken \cup exported) = {}
         /\ Attach(s, d, p, echo) \in {t, [t EXCEPT !.ok = FALSE],
                                       [t EXCEPT !.claimed[p] = d, !.irq = p]}
  BY DEF Attach
<1> HIDE DEF t
<1>5. Attach(s, d, p, echo).taken \cap exported = {}
  BY <1>1, <1>2, <1>3, <1>4
<1> QED
  BY <1>5, AttachAdds DEF Adds

LEMMA ConfigClear ==
    ASSUME Types, NEW d \in Devices, ConfigPins(d), taken \cap exported = {}
    PROVE  taken' \cap exported = {}
<1>0. DeviceType /\ PinType
  BY DEF Types
<1> DEFINE s == [configured |-> configured, taken |-> taken, claimed |-> Unclaim(d),
                 irq |-> NoValue, ok |-> TRUE]
<1>1. PICK trigger \in Pins \ {13}, echo \in EchoPins :
          taken' = AttachBoth(s, d, trigger, echo).taken
  BY DEF ConfigPins
<1>2. Unclaim(d) \in [Pins -> Ids]
  BY <1>0 DEF Unclaim, PinType, Ids
<1>3. s \in PinState /\ s.taken \cap exported = {} /\ echo \in Pins /\ trigger \in Pins
  BY <1>0, <1>2, EchoIsPin DEF PinState, PinType
<1> HIDE DEF s
<1>4. \A p \in Pins : Attach(s, d, p, echo) \in PinState /\ Attach(s, d, p, echo).taken \cap exported = {}
  BY <1>3, AttachClear
<1>5. \A p, q \in Pins : Attach(Attach(s, d, p, echo), d, q, echo).taken \cap exported = {}
  BY <1>3, <1>4, AttachClear
<1> QED
  BY <1>1, <1>3, <1>4, <1>5 DEF AttachBoth

LEMMA OneFileMore ==
    ASSUME MaxFiles \in Nat, NEW x \in 0..MaxFiles
    PROVE  /\ x < MaxFiles => x + 1 \in 0..MaxFiles
           /\ x > 0 => x - 1 \in 0..MaxFiles
           /\ 0 \in 0..MaxFiles
OBVIOUS

LEMMA BoundsInvStep == Types /\ BoundsInv /\ [Next]_vars => BoundsInv'
<1> SUFFICES ASSUME Types, BoundsInv, [Next]_vars PROVE BoundsInv'
  OBVIOUS
<1>0. /\ DeviceType /\ PinType /\ MaxFiles \in Nat
      /\ (shell.step # "next" => shell.dev \in Devices)
      /\ \A w \in Workers : worker[w].dev \in Ids
      /\ 0 \in 0..MaxFiles
  <2>1. \A w \in Workers : worker[w] \in [at : Places, dev : Ids]
    BY DEF Types, ThreadType
  <2> QED
    BY <2>1, PlatformAssumption DEF Types, ShellType
<1>1. CASE InsmodDriver \/ InsmodDevice \/ Rmmod \/ NextDevice \/ CommandDone \/ ProbeClass
  BY <1>1 DEF BoundsInv, InsmodDriver, InsmodDevice, Rmmod, NextDevice, CommandDone, ProbeClass,
              deviceVars, settings, pinVars
<1>2. CASE ProbeDirectory \/ ProbeRegister
  BY <1>2 DEF BoundsInv, ProbeDirectory, ProbeRegister, Initialize, settings, pinVars
<1>3. CASE RemoveDevice
  <2>1. /\ opened' = [e \in Devices |-> IF e \in listed \cap {shell.dev} THEN 0 ELSE opened[e]]
        /\ UNCHANGED <<locked, pinsSet, paramsSet, taken, exported>>
    BY <1>3 DEF RemoveDevice, settings
  <2> QED
    BY <1>0, <2>1 DEF BoundsInv
<1>4. CASE RemovePins
  BY <1>4 DEF BoundsInv, RemovePins, deviceVars, settings
<1>5. ASSUME NEW d \in Devices, Open(d) \/ Released(d) PROVE BoundsInv'
  <2>1. /\ opened[d] \in 0..MaxFiles
        /\ opened[d] < MaxFiles => opened[d] + 1 \in 0..MaxFiles
        /\ opened[d] > 0 => opened[d] - 1 \in 0..MaxFiles
    BY <1>0, OneFileMore DEF BoundsInv
  <2>2. opened' \in [Devices -> 0..MaxFiles]
    <3>1. CASE Open(d)
      BY <2>1, <3>1 DEF BoundsInv, Open
    <3>2. CASE Released(d)
      <4>1. opened' = [opened EXCEPT ![d] = @ - 1] /\ opened[d] > 0
        BY <1>0, <3>2 DEF Released, DeviceType
      <4> QED
        BY <2>1, <4>1 DEF BoundsInv
    <3> QED
      BY <1>5, <3>1, <3>2
  <2>3. /\ locked' \subseteq locked /\ pinsSet' \subseteq pinsSet /\ paramsSet' \subseteq paramsSet
        /\ taken' \subseteq taken /\ UNCHANGED exported
    BY <1>5 DEF Open, Released, Initialize, pinVars
  <2> QED
    BY <2>2, <2>3 DEF BoundsInv
<1>6. ASSUME NEW d \in Devices, ConfigPins(d) PROVE BoundsInv'
  <2>1. taken' \cap exported = {}
    BY <1>6, ConfigClear DEF BoundsInv
  <2> QED
    BY <1>6, <2>1 DEF BoundsInv, ConfigPins, deviceVars, If
<1>7. ASSUME NEW d \in Devices, UseStale(d) \/ UseOrphan(d) \/ PinStore(d) \/ Enable(d) \/ Write(d) \/ WriteTwice(d)
                               \/ Read(d) \/ SetParameters(d) \/ SamplesStore(d) \/ Release(d)
      PROVE  BoundsInv'
  BY <1>7 DEF BoundsInv, UseStale, UseOrphan, PinStore, Enable, Write, WriteTwice, Read, SetParameters,
              SamplesStore, Release, deviceVars, settings, pinVars
<1>8. ASSUME NEW w \in Workers, Thread(w) PROVE BoundsInv'
  BY <1>8 DEF BoundsInv, Thread, Measure, Average, Leave, Orphan, deviceVars, settings, pinVars
<1>9. ASSUME NEW p \in Pins, Edge(p) PROVE BoundsInv'
  BY <1>9 DEF BoundsInv, Edge, deviceVars, settings, pinVars
<1>10. CASE UNCHANGED vars
  BY <1>10 DEF BoundsInv, vars, deviceVars, settings, pinVars
<1> QED
  BY <1>1, <1>2, <1>3, <1>4, <1>5, <1>6, <1>7, <1>8, <1>9, <1>10 DEF Next, Shell, User, Stopped

-----------------------------------------------------------------------------
(* The theorems.                                                            *)

Inv == /\ ShellInv /\ FileInv /\ PinInv /\ IrqInv /\ ThreadInv /\ TaskInv
       /\ TotalInv /\ CountInv /\ BoundsInv

LEMMA InvInit == Init => Inv /\ FaultsHaveCause
<1> SUFFICES ASSUME Init PROVE Inv /\ FaultsHaveCause
  OBVIOUS
<1> USE DEF Init
<1>1. ShellInv
  BY DEF ShellInv, Probing, BeingRemoved, If, Resting
<1>2. FileInv
  <2>1. \A d \in Devices : ~(opened[d] > 0) /\ ~(stale[d] > 0)
    BY ZeroNotPositive
  <2>2. \A w \in Workers : worker[w].dev = Nobody
    BY DEF Idle
  <2>3. listed = {} /\ attrs = {} /\ old = {} /\ shell = Resting /\ first /\ class = "none"
    OBVIOUS
  <2> HIDE DEF Init
  <2> QED
    BY <2>1, <2>2, <2>3, PlatformAssumption DEF FileInv, Resting, If
<1>3. PinInv
  BY PlatformAssumption DEF PinInv, Configured
<1>4. IrqInv
  BY PlatformAssumption DEF IrqInv
<1>5. ThreadInv
  BY DEF ThreadInv, Idle, Works
<1>10. TaskInv
  BY DEF TaskInv
<1>6. TotalInv
  BY Takes DEF TotalInv, Idle
<1>7. CountInv
  BY FS_EmptySet DEF CountInv, Resting
<1>8. FaultsHaveCause
  BY DEF FaultsHaveCause
<1>9. BoundsInv
  BY PlatformAssumption DEF BoundsInv
<1> QED
  BY <1>1, <1>2, <1>3, <1>4, <1>5, <1>6, <1>7, <1>8, <1>9, <1>10 DEF Inv

LEMMA FaultsShell ==
    ASSUME Types, Inv, faults = {}, Shell
    PROVE  FaultsHaveCause'
<1>0. /\ ShellType /\ ShellInv /\ FileInv /\ PinInv /\ ShellInv' /\ FileInv' /\ PinInv'
  <2>1. [Next]_vars
    BY DEF Next
  <2> QED
    BY <2>1, ShellInvStep, FileInvStep, PinInvStep DEF Inv, Types
<1>5. CASE RemoveDevice
  <2>1. /\ faults' = If(listed \cap {shell.dev} \cap tasks # {}, {"task"})
        /\ history' = history \cup FilesOpen
    BY <1>5 DEF RemoveDevice, Fault
  <2>2. DeviceType /\ TaskInv
    BY DEF Types, Inv
  <2>3. tasks # {} => {"unplugged", "enabled"} \cap history' # {}
    BY <2>1, <2>2 DEF TaskInv, DeviceType, FilesOpen, If
  <2> QED
    BY <2>1, <2>3 DEF FaultsHaveCause, If
<1>1. CASE ProbeDirectory
  <2>1. /\ faults' = If(class # "live", {"class"}) \cup If(shell.dev \in attrs, {"directory"})
        /\ shell.step = "directory" /\ shell.dev \in Devices /\ UNCHANGED history
    BY <1>0, <1>1 DEF ProbeDirectory, At, Fault, ShellType
  <2>2. class # "live" => "emptied" \in history
    BY <1>0, <2>1 DEF FileInv
  <2>3. shell.dev \in attrs => "unlisted" \in history
    <3>1. shell.dev \notin listed
      BY <1>0, <2>1 DEF ShellInv, FileInv, Probing
    <3> QED
      BY <1>0, <2>1, <3>1 DEF FileInv, If
  <2> QED
    BY <2>1, <2>2, <2>3 DEF FaultsHaveCause, If
<1>2. CASE RemovePins
  <2>1. faults' \subseteq {"pins"}
    BY <1>2 DEF RemovePins, Fault, If
  <2> QED
    BY <1>0, <2>1 DEF PinInv, FaultsHaveCause
<1>3. CASE faults' = {}
  BY <1>3 DEF FaultsHaveCause
<1>4. InsmodDriver \/ InsmodDevice \/ Rmmod \/ NextDevice \/ CommandDone \/ ProbeClass \/ ProbeRegister
          => faults' = {}
  BY DEF InsmodDriver, InsmodDevice, Rmmod, NextDevice, CommandDone, ProbeClass, ProbeRegister
<1> QED
  BY <1>1, <1>2, <1>3, <1>4, <1>5 DEF Shell

LEMMA FaultsUser ==
    ASSUME Types, Inv, faults = {}, NEW d \in Devices, User(d)
    PROVE  FaultsHaveCause'
<1>0. ShellInv /\ FileInv /\ PinInv
  BY DEF Inv
<1>1. CASE UseStale(d)
  <2>1. faults' = {"file"} /\ "unplugged" \in history' 
    BY <1>0, <1>1 DEF UseStale, Fault, FileInv
  <2> QED
    BY <2>1 DEF FaultsHaveCause
<1>2. CASE UseOrphan(d)
  <2>1. faults' = {"text"} /\ d \in old /\ UNCHANGED history
    BY <1>2 DEF UseOrphan, Fault
  <2>2. "unlisted" \in history
    BY <1>0, <2>1 DEF FileInv
  <2> QED
    BY <2>1, <2>2 DEF FaultsHaveCause
<1>3. CASE faults' = {}
  BY <1>3 DEF FaultsHaveCause
<1>4. Open(d) \/ ConfigPins(d) \/ SetParameters(d) \/ Write(d) \/ WriteTwice(d) \/ Read(d) \/ Release(d)
          \/ Released(d) \/ PinStore(d) \/ SamplesStore(d) \/ Enable(d) => faults' = {}
  BY <1>0 DEF Open, ConfigPins, SetParameters, Write, WriteTwice, Read, Release, Released, PinStore,
              SamplesStore, Enable, PinInv, Fault, If
<1> QED
  BY <1>1, <1>2, <1>3, <1>4 DEF User

LEMMA FaultsThreads ==
    ASSUME Types, Inv, faults = {}, NEW w \in Workers, Thread(w)
    PROVE  FaultsHaveCause'
<1>0. /\ ShellInv /\ FileInv /\ ThreadInv /\ TotalInv /\ UNCHANGED history
      /\ DeviceType /\ Gone \notin Devices
  BY PlatformAssumption DEF Inv, Types, Thread, Measure, Average, Leave, Orphan
<1>1. CASE Measure(w) \/ Leave(w)
  BY <1>1 DEF Measure, Leave, FaultsHaveCause
<1>2. CASE Average(w)
  <2>1. faults' \subseteq {"division"} /\ ("division" \in faults' => worker[w].dev \notin total)
    BY <1>2 DEF Average, Fault
  <2>2. "division" \in faults' => {"reset", "negative", "overflow"} \cap history # {}
    BY <1>0, <1>2, <2>1 DEF Average, TotalInv
  <2> QED
    BY <1>0, <2>1, <2>2 DEF FaultsHaveCause
<1>3. CASE Orphan(w)
  <2>1. faults' = {"thread"} /\ worker[w].at # "idle" /\ (worker[w].dev = Gone \/ ~driver)
    BY <1>3 DEF Orphan, Fault
  <2>2. LosesThreads \cap history = {} => worker[w].dev \in Devices /\ opened[worker[w].dev] > 0
    BY <1>0, <2>1 DEF ThreadInv, DeviceType
  <2>3. LosesThreads \cap history # {}
    BY <1>0, <2>1, <2>2 DEF FileInv, ShellInv
  <2> QED
    BY <1>0, <2>1, <2>3 DEF FaultsHaveCause, LosesThreads
<1> QED
  BY <1>1, <1>2, <1>3 DEF Thread

LEMMA FaultsEdge ==
    ASSUME Types, Inv, faults = {}, NEW p \in Pins, Edge(p)
    PROVE  FaultsHaveCause'
<1>0. /\ ShellInv /\ FileInv /\ IrqInv /\ PinType /\ UNCHANGED history
      /\ faults' = {"interrupt"} /\ claimed[p] # Nobody /\ (claimed[p] = Gone \/ ~driver)
  BY DEF Inv, Types, Edge, Fault
<1>1. LosesIrqs \cap history = {} => claimed[p] \in Devices /\ opened[claimed[p]] > 0
  BY <1>0 DEF IrqInv, PinType, Ids
<1>2. LosesIrqs \cap history # {}
  BY <1>0, <1>1, PlatformAssumption DEF FileInv, ShellInv
<1> QED
  BY <1>0, <1>2 DEF FaultsHaveCause, LosesIrqs

LEMMA FaultsStep == Types /\ Inv /\ FaultsHaveCause /\ [Next]_vars => FaultsHaveCause'
<1>1. FaultsHaveCause /\ UNCHANGED vars => FaultsHaveCause'
  BY DEF vars, FaultsHaveCause
<1> QED
  BY <1>1, FaultsShell, FaultsUser, FaultsThreads, FaultsEdge DEF Next, Stopped

LEMMA InvStep == Types /\ Inv /\ [Next]_vars => Inv'
BY ShellInvStep, FileInvStep, PinInvStep, IrqInvStep, ThreadInvStep, TaskInvStep, TotalInvStep,
   CountInvStep, BoundsInvStep DEF Inv

THEOREM InvAlways == Spec => [](Types /\ Inv)
<1>1. Init => Types /\ Inv
  BY TypesInit, InvInit
<1>2. Types /\ Inv /\ [Next]_vars => Types' /\ Inv'
  BY TypesStep, InvStep
<1> QED
  BY <1>1, <1>2, PTL DEF Spec

\* For any devices, pins, users and orders of loading: device_found is at most
\* the number of devices (Pdriver_probe and Pdriver_remove, platform_driver.c:1284,
\* 1360), no GPIO is requested both through the list of pins and through sysfs
\* (configure_pins, 594; the stores of the attributes), and the rest of the types.
THEOREM PlatformTyped == Spec => []TypeOK
<1>1. Types /\ Inv => TypeOK
  <2> SUFFICES ASSUME Types, Inv PROVE TypeOK
    OBVIOUS
  <2>0. /\ ShellType /\ DeviceType /\ PinType /\ ThreadType
        /\ ShellInv /\ FileInv /\ CountInv /\ BoundsInv
    BY DEF Inv, Types
  <2>1. found \in 0..Cardinality(Devices)
    <3>1. IsFiniteSet(Devices) /\ bound \subseteq Devices /\ IsFiniteSet(bound)
      BY <2>0, PlatformAssumption DEF DeviceType, CountInv
    <3>2. /\ Cardinality(bound) \in Nat /\ Cardinality(Devices) \in Nat
          /\ Cardinality(bound) <= Cardinality(Devices)
      BY <3>1, FS_Subset, FS_CardinalityType
    <3>3. CASE shell.step \in {"directory", "register", "pins"}
      <4>1. shell.dev \in Devices /\ shell.dev \notin bound
        BY <2>0, <3>3 DEF ShellType, ShellInv, CountInv, Probing
      <4>2. Cardinality(bound \cup {shell.dev}) = Cardinality(bound) + 1
        BY <3>1, <4>1, FS_AddElement
      <4>3. Cardinality(bound \cup {shell.dev}) <= Cardinality(Devices)
        BY <3>1, <4>1, FS_Subset
      <4> QED
        BY <2>0, <3>2, <3>3, <4>2, <4>3 DEF CountInv
    <3>4. CASE shell.step \notin {"directory", "register", "pins"}
      BY <2>0, <3>2, <3>4 DEF CountInv
    <3> QED
      BY <3>3, <3>4
  <2>2. /\ driver \in BOOLEAN /\ first \in BOOLEAN
        /\ shell \in [op : Commands \cup {"none"}, left : SUBSET Devices,
                      dev : Devices \cup {Nobody}, step : Steps]
    BY <2>0 DEF ShellType
  <2>3. /\ plugged \subseteq Devices /\ bound \subseteq Devices /\ attrs \subseteq Devices
        /\ stale \in [Devices -> Nat] /\ measuring \subseteq Devices /\ total \subseteq Devices
        /\ samples \in [Devices -> {-3, NoValue, 1, MaxInt}] /\ irqNo \in [Devices -> Pins \cup {NoValue}]
        /\ old \subseteq Devices /\ tasks \subseteq Devices
        /\ closing \in [dev : Devices \cup {Nobody}, pin : Pins \cup {NoValue}]
    BY <2>0 DEF DeviceType, Amounts
  <2>4. class \in {"none", "live", "gone"} /\ listed \subseteq attrs
    BY <2>0 DEF FileInv
  <2>5. /\ configured \in [Pins -> Ids] /\ freedPins \subseteq Pins
        /\ claimed \in [Pins -> Ids]
        /\ worker \in [Workers -> [at : Places, dev : Ids]]
    BY <2>0 DEF PinType, ThreadType
  <2>6. Ids = Devices \cup {Nobody, Gone}
    BY DEF Ids
  <2> QED
    BY <2>0, <2>1, <2>2, <2>3, <2>4, <2>5, <2>6 DEF TypeOK, BoundsInv, Steps, Places
<1> QED
  BY <1>1, InvAlways, PTL

\* For any devices, pins, users and orders of loading: GPIOs taken through the
\* list of pins are those of the configured pins, each for a device that is
\* open or being taken away (configure_pins, platform_driver.c:594,
\* hcsr04_release, 386, and the removal, 1350), or for nobody after a release
\* and a CONFIG_PINS of another device have overlapped (410).
THEOREM PinsAlwaysAccounted == Spec => []PinsAccounted
<1>1. Inv => PinsAccounted
  BY DEF Inv, PinInv, PinsAccounted, Configured
<1> QED
  BY <1>1, InvAlways, PTL

\* For any devices, pins, users and orders of loading, and any largest int: a
\* file, a thread, its structure, an interrupt, a class, a directory or the list
\* of pins is used after it is gone, and a mean divided by zero, only after one
\* of the things FaultsHaveCause names has been done: among them a close between
\* the end of a measurement and that of its thread (platform_driver.c:805-809),
\* and an m whose m + 2 wraps (784, 1008).
THEOREM FaultsAlwaysHaveCause == Spec => []FaultsHaveCause
<1>1. Init => FaultsHaveCause
  BY InvInit
<1> QED
  BY <1>1, InvAlways, FaultsStep, PTL DEF Spec

\* For any devices, pins, users and orders of loading: an unloaded driver has
\* no device, file or GPIO of the list left, and no interrupt, thread or
\* directory but those the property excepts (Pdriver_remove, platform_driver.c:1358);
\* a thread that is still leaving (805-809) when its file is closed is one of them.
THEOREM NothingLeftUnloaded == Spec => []UnloadLeavesNothing
<1>1. Types /\ Inv => UnloadLeavesNothing
  <2> SUFFICES ASSUME Types, Inv, ~driver PROVE UnloadLeavesNothing
    BY DEF UnloadLeavesNothing
  <2>0. /\ ShellInv /\ FileInv /\ PinInv /\ IrqInv /\ ThreadInv /\ CountInv
        /\ DeviceType /\ PinType /\ ShellType
    BY DEF Inv, Types
  <2>1. bound = {} /\ listed = {} /\ shell.step = "next"
    BY <2>0 DEF ShellInv, FileInv
  <2>2. found = 0
    BY <2>0, <2>1, FS_EmptySet DEF CountInv
  <2>3. \A d \in Devices : ~(opened[d] > 0) /\ opened[d] \in Nat
    BY <2>0, <2>1 DEF FileInv, DeviceType
  <2>4. \A d \in Devices : opened[d] = 0
    BY <2>3, NonePositive, Zenon
  <2>5. \A p \in Pins : configured[p] = Nobody
    BY <2>0, <2>1, <2>3 DEF PinInv, PinType, Ids
  <2>6. taken = {}
    BY <2>0, <2>5 DEF PinInv, Configured
  <2>7. {"reopened", "unplugged"} \cap history = {} => \A p \in Pins : claimed[p] = Nobody
    BY <2>0, <2>3 DEF IrqInv, LosesIrqs, PinType, Ids
  <2>8. {"reopened", "unplugged", "read", "enabled", "twice", "leaving"} \cap history = {} =>
            \A w \in Workers : worker[w] = Idle
    BY <2>0, <2>3 DEF ThreadInv, LosesThreads
  <2>9. "unlisted" \notin history => attrs = {}
    BY <2>0, <2>1 DEF FileInv, If
  <2> QED
    BY <2>1, <2>2, <2>4, <2>6, <2>7, <2>8, <2>9 DEF UnloadLeavesNothing
<1> QED
  BY <1>1, InvAlways, PTL
=============================================================================
