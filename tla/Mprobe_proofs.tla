--------------------------- MODULE Mprobe_proofs ---------------------------
(***************************************************************************)
(* For any size of the ring, any number of files, calls and hits: what is  *)
(* planted is allocated, the handler goes astray only if an open was made  *)
(* over a planted probe, the last close leaves nothing in the kernel, and  *)
(* the slots not read yet hold the addresses of the probes hit, in order.  *)
(***************************************************************************)
EXTENDS Mprobe, TLAPS

\* No handler is running.
AtRest == hpc \in {"away", "dead"}

\* A probe that unregister_kprobe has disarmed stays so until its structure
\* is freed; an unloaded module has no call under way.
PlantedInv ==
    /\ planted \subseteq probes
    /\ pc = "await" => kp \notin planted
    /\ ~loaded => pc = "idle"

\* Where kp and the ring are in each call, if no probe was overlaid: kp knows
\* the planted probe, and there is either a ring or something planted.
OneProbe ==
    /\ planted \subseteq {kp} /\ (kp = 0 => planted = {})
    /\ pc = "await" => kp # 0 /\ planted = {}
    /\ pc \in {"dropped", "plant"} => kp = 0
    /\ files = 0 => kp = 0
    /\ ~AtRest => planted # {} \/ pc = "await"

RingOrProbe ==
    /\ ring # "none" => AtRest /\ planted = {}
    /\ pc \in {"allocate", "setUp"} => AtRest /\ planted = {}
    /\ pc \in {"freeData", "freeRing", "forgetRing"} => ring # "none"
    /\ pc \in {"disarm", "await", "dropped", "plant"} => ring = "none"

StrayInv ==
    /\ files \in Nat /\ loaded \in BOOLEAN /\ overlaid \in BOOLEAN
    /\ pc # "idle" => loaded /\ files > 0
    /\ ~loaded => files = 0
    /\ ~overlaid => OneProbe /\ RingOrProbe /\ ~stray

-----------------------------------------------------------------------------

\* The steps of the handler change nothing the invariant of the probes speaks of.
LEMMA PlantedStep ==
    ASSUME PlantedInv, [Next]_vars
    PROVE  PlantedInv'
  <1> USE DEF PlantedInv
  <1>1. CASE Handler \/ Stopped \/ UNCHANGED vars
    BY <1>1 DEF Handler, Stopped, Hit, Dies, Astray, Test, Store, Advance, Tally, AtRing,
                callVars, probeVars, vars
  <1>2. CASE Open \/ Drop \/ Load \/ Unload \/ ReadFails \/ Read
    BY <1>2 DEF Open, Drop, Load, Unload, ReadFails, Read, Begin, probeVars
  <1>3. CASE Allocate \/ SetUp \/ FreeData \/ FreeRing \/ ForgetRing \/ AdvanceHead
    BY <1>3 DEF Allocate, SetUp, FreeData, FreeRing, ForgetRing, AdvanceHead, At, probeVars
  <1>4. CASE Disarm
    BY <1>4 DEF Disarm, At
  <1>5. CASE Await
    BY <1>5 DEF Await, At
  <1>6. CASE Dropped
    BY <1>6 DEF Dropped, probeVars
  <1>7. CASE Plant
    BY <1>7 DEF Plant, At
  <1> QED
    BY <1>1, <1>2, <1>3, <1>4, <1>5, <1>6, <1>7 DEF Next, Caller

\* Mprobe.c:170, 208, 246: no structure of a registered probe is ever freed.
THEOREM PlantedStaysAllocated == Spec => []PlantedIsAllocated
  <1>1. Init => PlantedInv
    BY DEF Init, PlantedInv
  <1>2. PlantedInv /\ [Next]_vars => PlantedInv'
    BY PlantedStep
  <1>3. PlantedInv => PlantedIsAllocated
    BY DEF PlantedInv, PlantedIsAllocated
  <1> QED
    BY <1>1, <1>2, <1>3, PTL DEF Spec

-----------------------------------------------------------------------------

\* While a handler runs, no probe overlaid, it finds NULL and dies.
LEMMA HandlerStep ==
    ASSUME StrayInv, Handler
    PROVE  StrayInv'
  <1> USE DEF StrayInv, OneProbe, RingOrProbe, AtRest
  <1>1. CASE Hit
    BY <1>1 DEF Hit, callVars, probeVars, history
  <1>2. CASE Dies
    BY <1>2 DEF Dies, callVars, probeVars, history
  <1>3. CASE Astray
    BY <1>3 DEF Astray, callVars, probeVars, history
  <1>4. CASE Test \/ Store \/ Advance \/ Tally
    BY <1>4 DEF Test, Store, Advance, Tally, AtRing, callVars, probeVars, history
  <1> QED
    BY <1>1, <1>2, <1>3, <1>4 DEF Handler

\* The calls that begin, and the module that comes and goes.
LEMMA BeginStep ==
    ASSUME StrayInv, Open \/ Drop \/ Load \/ Unload \/ ReadFails \/ Read
    PROVE  StrayInv'
  <1> USE DEF StrayInv, OneProbe, RingOrProbe, AtRest
  <1>1. CASE Open
    <2>1. ~overlaid' => ~overlaid /\ planted = {} /\ AtRest /\ ~stray
      BY <1>1 DEF Open, Begin
    <2>2. /\ pc' = "allocate" /\ loaded' = loaded /\ loaded /\ files' = files + 1
          /\ kp' = 0 /\ ring' = "none" /\ planted' = planted /\ hpc' = hpc
          /\ stray' = stray /\ overlaid' \in BOOLEAN
      BY <1>1 DEF Open, Begin
    <2> QED
      BY <2>1, <2>2
  <1>2. CASE Drop
    BY <1>2 DEF Drop, Begin, probeVars, history
  <1>3. CASE Load
    BY <1>3 DEF Load, history
  <1>4. CASE Unload
    BY <1>4 DEF Unload, probeVars, history
  <1>5. CASE ReadFails \/ Read
    BY <1>5 DEF ReadFails, Read, Begin, probeVars, history
  <1> QED
    BY <1>1, <1>2, <1>3, <1>4, <1>5

\* The calls that go on.  A probe is planted where there is no ring; there is
\* a ring again where nothing is planted.
LEMMA CallStep ==
    ASSUME StrayInv,
           \/ Allocate \/ SetUp \/ FreeData \/ FreeRing \/ ForgetRing \/ Disarm \/ Await
           \/ Dropped \/ Plant \/ AdvanceHead
    PROVE  StrayInv'
  <1> USE DEF StrayInv, OneProbe, RingOrProbe, AtRest
  <1>1. CASE Allocate \/ SetUp
    BY <1>1 DEF Allocate, SetUp, At, probeVars, history
  <1>2. CASE FreeData \/ FreeRing \/ ForgetRing
    BY <1>2 DEF FreeData, FreeRing, ForgetRing, At, probeVars, history
  <1>7. CASE AdvanceHead
    BY <1>7 DEF AdvanceHead, At, probeVars, history
  <1>3. CASE Disarm
    BY <1>3 DEF Disarm, At, history
  <1>4. CASE Await
    BY <1>4 DEF Await, At, history
  <1>5. CASE Dropped
    BY <1>5 DEF Dropped, probeVars, history
  <1>6. CASE Plant
    BY <1>6 DEF Plant, At, history
  <1> QED
    BY <1>1, <1>2, <1>3, <1>4, <1>5, <1>6, <1>7

\* Mprobe.c:112: until an open is made over a planted probe, the handler
\* writes into no memory that is not a ring.
THEOREM HandlerStaysInRing == Spec => []StraysOnlyIfOverlaid
  <1>1. Init => StrayInv
    <2> SUFFICES ASSUME Init PROVE StrayInv
      OBVIOUS
    <2>1. OneProbe
      BY DEF Init, OneProbe, AtRest
    <2>2. RingOrProbe
      BY DEF Init, RingOrProbe, AtRest
    <2> QED
      BY <2>1, <2>2 DEF Init, StrayInv
  <1>2. StrayInv /\ [Next]_vars => StrayInv'
    <2> SUFFICES ASSUME StrayInv, [Next]_vars PROVE StrayInv'
      OBVIOUS
    <2>1. CASE Stopped \/ UNCHANGED vars
      BY <2>1 DEF Stopped, StrayInv, OneProbe, RingOrProbe, AtRest, vars, callVars,
                  probeVars, history
    <2> QED
      BY <2>1, HandlerStep, BeginStep, CallStep DEF Next, Caller
  <1>3. StrayInv => StraysOnlyIfOverlaid
    BY DEF StrayInv, StraysOnlyIfOverlaid
  <1> QED
    BY <1>1, <1>2, <1>3, PTL DEF Spec

-----------------------------------------------------------------------------

\* If no open was made beside another file, kp and mprobe_output lead to all
\* there is, and each step of a call knows how much of the ring is left.
AllReached ==
    /\ files <= 1
    /\ probes = (IF kp = 0 THEN {} ELSE {kp}) /\ planted \subseteq probes
    /\ rings = (IF ring \in {"none", "freed"} THEN 0 ELSE 1)
    /\ files = 0 => ring = "none" /\ kp = 0

RingAt ==
    /\ pc = "idle" => ring \in {"none", "ready"}
    /\ pc \in {"allocate", "disarm", "await", "dropped", "plant"} => ring = "none"
    /\ pc = "setUp" => ring = "raw"
    /\ pc \in {"freeData", "advanceHead"} => ring = "ready"
    /\ pc = "freeRing" => ring = "bare"
    /\ pc = "forgetRing" => ring = "freed"
    /\ pc = "await" => planted = {}
    /\ pc \in {"dropped", "plant"} => kp = 0

CloseInv ==
    /\ files \in Nat /\ loaded \in BOOLEAN /\ reopened \in BOOLEAN
    /\ pc # "idle" => loaded /\ files > 0
    /\ ~loaded => files = 0
    /\ ~reopened => AllReached /\ RingAt

\* The handler neither allocates nor frees.
LEMMA CloseHandlerStep ==
    ASSUME CloseInv, Handler \/ Stopped \/ UNCHANGED vars
    PROVE  CloseInv'
  <1>1. UNCHANGED <<callVars, ring, probeVars, history>>
    BY DEF Handler, Stopped, Hit, Dies, Astray, Test, Store, Advance, Tally, AtRing, vars
  <1> QED
    BY <1>1 DEF CloseInv, AllReached, RingAt, callVars, probeVars, history

LEMMA CloseBeginStep ==
    ASSUME CloseInv, Open \/ Drop \/ Load \/ Unload \/ ReadFails \/ Read
    PROVE  CloseInv'
  <1> USE DEF CloseInv, AllReached, RingAt
  <1>1. CASE Open
    <2>1. ~reopened' => ~reopened /\ ~(files > 0)
      BY <1>1, Zenon DEF Open
    <2>2. /\ pc' = "allocate" /\ loaded' = loaded /\ loaded /\ files' = files + 1
          /\ kp' = 0 /\ ring' = "none" /\ planted' = planted /\ probes' = probes
          /\ rings' = rings /\ reopened' \in BOOLEAN
      BY <1>1 DEF Open, Begin
    <2> QED
      BY <2>1, <2>2
  <1>2. CASE Drop
    BY <1>2 DEF Drop, Begin, probeVars, history
  <1>3. CASE Load
    BY <1>3 DEF Load, history
  <1>4. CASE Unload
    BY <1>4 DEF Unload, probeVars, history
  <1>5. CASE ReadFails
    BY <1>5 DEF ReadFails, Begin, probeVars, history
  <1>6. CASE Read
    BY <1>6 DEF Read, Begin, probeVars, history
  <1> QED
    BY <1>1, <1>2, <1>3, <1>4, <1>5, <1>6

LEMMA CloseCallStep ==
    ASSUME CloseInv,
           \/ Allocate \/ SetUp \/ FreeData \/ FreeRing \/ ForgetRing \/ Disarm \/ Await
           \/ Dropped \/ Plant \/ AdvanceHead
    PROVE  CloseInv'
  <1> USE DEF CloseInv, AllReached, RingAt
  <1>1. CASE Allocate
    BY <1>1 DEF Allocate, At, probeVars
  <1>2. CASE SetUp \/ AdvanceHead
    BY <1>2 DEF SetUp, AdvanceHead, At, probeVars, history
  <1>3. CASE FreeData \/ ForgetRing
    BY <1>3 DEF FreeData, ForgetRing, At, probeVars, history
  <1>4. CASE FreeRing
    BY <1>4 DEF FreeRing, At, probeVars
  <1>5. CASE Disarm
    BY <1>5 DEF Disarm, At, history
  <1>6. CASE Await
    BY <1>6 DEF Await, At, history
  <1>7. CASE Dropped
    BY <1>7 DEF Dropped, probeVars, history
  <1>8. CASE Plant
    BY <1>8 DEF Plant, At, history
  <1> QED
    BY <1>1, <1>2, <1>3, <1>4, <1>5, <1>6, <1>7, <1>8

\* Mprobe.c:161-174: a release that is not made beside another file leaves
\* neither ring nor probe behind.
THEOREM CloseLeavesNothing == Spec => []CleanClose
  <1>1. Init => CloseInv
    <2> SUFFICES ASSUME Init PROVE CloseInv
      OBVIOUS
    <2>1. AllReached
      BY DEF Init, AllReached
    <2>2. RingAt
      BY DEF Init, RingAt
    <2> QED
      BY <2>1, <2>2 DEF Init, CloseInv
  <1>2. CloseInv /\ [Next]_vars => CloseInv'
    BY CloseHandlerStep, CloseBeginStep, CloseCallStep DEF Next, Caller
  <1>3. CloseInv => CleanClose
    BY DEF CloseInv, AllReached, RingAt, CleanClose
  <1> QED
    BY <1>1, <1>2, <1>3, PTL DEF Spec

-----------------------------------------------------------------------------
(* Types.                                                                   *)

\* Where files and ring are, whatever files are opened.
WhereInv ==
    /\ pc # "idle" => loaded /\ files > 0
    /\ ~loaded => files = 0
    /\ files = 0 => ring = "none"
    /\ pc \in {"disarm", "await", "dropped", "plant"} => ring = "none"

LEMMA RingSize == Size \in Nat /\ Size > 1 /\ 0 \in 0..(Size - 1)
  BY MprobeAssumption

LEMMA AfterInRing ==
    ASSUME NEW i \in 0..(Size - 1)
    PROVE  After(i) \in 0..(Size - 1) /\ After(i) = IF i = Size - 1 THEN 0 ELSE i + 1
  BY MprobeAssumption DEF After

LEMMA OneMore == ASSUME NEW n \in Nat, NEW i \in 0..n, i < n PROVE i + 1 \in 0..n
  OBVIOUS

\* A call, or a hit, is counted.
LEMMA LatelyTyped ==
    ASSUME lately \in [calls : 0..MaxCalls, hits : 0..MaxHits]
    PROVE  /\ lately.calls < MaxCalls =>
                 [lately EXCEPT !.calls = @ + 1] \in [calls : 0..MaxCalls, hits : 0..MaxHits]
           /\ lately.hits < MaxHits =>
                 [lately EXCEPT !.hits = @ + 1] \in [calls : 0..MaxCalls, hits : 0..MaxHits]
  <1>1. lately.calls < MaxCalls => lately.calls + 1 \in 0..MaxCalls
    BY MprobeAssumption, OneMore
  <1>2. lately.hits < MaxHits => lately.hits + 1 \in 0..MaxHits
    BY MprobeAssumption, OneMore
  <1> QED
    BY <1>1, <1>2

LEMMA HandlerTyped == ASSUME TypeOK, WhereInv, Handler PROVE TypeOK' /\ WhereInv'
  <1>1. WhereInv'
    <2>1. UNCHANGED <<callVars, ring>>
      BY DEF Handler, Hit, Dies, Astray, Test, Store, Advance, Tally, AtRing
    <2> QED
      BY <2>1 DEF WhereInv, callVars
  <1>2. lately' \in [calls : 0..MaxCalls, hits : 0..MaxHits]
    BY LatelyTyped DEF TypeOK, Handler, Hit, Dies, Astray, Test, Store, Advance, Tally, AtRing
  <1>3. tail' \in 0..(Size - 1)
    BY AfterInRing DEF TypeOK, Handler, Hit, Dies, Astray, Test, Store, Advance, Tally, AtRing, ringVars
  <1>4. slots' \in [0..(Size - 1) -> 0..(MaxCalls + 1)] /\ seen' \in Seq(0..(MaxCalls + 1))
    <2>1. /\ slots \in [0..(Size - 1) -> 0..(MaxCalls + 1)] /\ hit \in 0..(MaxCalls + 1)
          /\ seen \in Seq(0..(MaxCalls + 1))
      BY DEF TypeOK
    <2>2. /\ slots' = slots \/ slots' = [slots EXCEPT ![tail] = hit]
          /\ seen' = seen \/ seen' = Append(seen, hit)
      BY DEF Handler, Hit, Dies, Astray, Test, Store, Advance, Tally, AtRing, ringVars
    <2>3. slots' \in [0..(Size - 1) -> 0..(MaxCalls + 1)]
      BY <2>1, <2>2
    <2>4. Append(seen, hit) \in Seq(0..(MaxCalls + 1))
      BY <2>1
    <2> QED
      BY <2>2, <2>1, <2>3, <2>4
  <1>5. count' \in Nat /\ loss' \in Nat
    BY SMTT(30) DEF TypeOK, Handler, Hit, Dies, Astray, Test, Store, Advance, Tally, AtRing, ringVars
  <1>9. hit' \in 0..(MaxCalls + 1)
    <2>1. \A p \in 1..(MaxCalls + 1) : p \in 0..(MaxCalls + 1)
      BY MprobeAssumption
    <2> QED
      BY <2>1 DEF TypeOK, Handler, Hit, Dies, Astray, Test, Store, Advance, Tally, AtRing
  <1>6. hpc' \in {"away", "test", "store", "advance", "tally", "dead"}
    BY DEF TypeOK, Handler, Hit, Dies, Astray, Test, Store, Advance, Tally, AtRing
  <1>7. orderly' \in BOOLEAN /\ stray' \in BOOLEAN
    BY DEF TypeOK, Handler, Hit, Dies, Astray, Test, Store, Advance, Tally, AtRing, ringVars
  <1>8. UNCHANGED <<callVars, ring, head, taken, probeVars, history>>
    BY DEF Handler, Hit, Dies, Astray, Test, Store, Advance, Tally, AtRing, ringVars
  <1> QED
    BY <1>1, <1>2, <1>3, <1>4, <1>5, <1>6, <1>7, <1>8, <1>9 DEF TypeOK, callVars, probeVars, history

LEMMA BeginTyped ==
    ASSUME TypeOK, WhereInv, Open \/ Drop \/ Load \/ Unload \/ ReadFails \/ Read
    PROVE  TypeOK' /\ WhereInv'
  <1>1. lately' \in [calls : 0..MaxCalls, hits : 0..MaxHits]
    BY LatelyTyped DEF TypeOK, Open, Drop, Load, Unload, ReadFails, Read, Begin
  <1>2. files' \in 0..MaxFiles
    <2>1. files < MaxFiles => files + 1 \in 0..MaxFiles
      BY MprobeAssumption, OneMore DEF TypeOK
    <2> QED
      BY <2>1 DEF TypeOK, Open, Drop, Load, Unload, ReadFails, Read, Begin
  <1>3. /\ UNCHANGED <<hpc, hit, head, tail, count, loss, slots, seen, taken, probes, planted, rings, stray>>
        /\ kp' \in {kp, 0} /\ ring' \in {ring, "none"}
        /\ orderly' \in BOOLEAN /\ reopened' \in BOOLEAN /\ overlaid' \in BOOLEAN
        /\ loaded' \in BOOLEAN
    BY DEF TypeOK, Open, Drop, Load, Unload, ReadFails, Read, Begin, ringVars, probeVars, history
  <1>4. call' \in Drops \cup {"none", "open", "read"}
        /\ pc' \in {pc, "idle", "allocate", "freeData", "disarm", "advanceHead"}
    BY DEF TypeOK, Open, Drop, Load, Unload, ReadFails, Read, Begin
  <1>5. TypeOK'
    <2>1. {kp', hit'} \subseteq 0..(MaxCalls + 1) /\ ring' \in Rings
      BY <1>3, MprobeAssumption DEF TypeOK, Rings
    <2> QED
      BY <1>1, <1>2, <1>3, <1>4, <2>1 DEF TypeOK
  <1>6. WhereInv'
    <2>1. CASE Open
      BY SMTT(30), <2>1 DEF TypeOK, WhereInv, Open, Begin
    <2>2. CASE Drop \/ ReadFails \/ Read
      BY <2>2 DEF WhereInv, Drop, ReadFails, Read, Begin
    <2>3. CASE Load \/ Unload
      BY <2>3 DEF WhereInv, Load, Unload
    <2> QED
      BY <2>1, <2>2, <2>3
  <1> QED
    BY <1>5, <1>6

LEMMA CallTyped ==
    ASSUME TypeOK, WhereInv,
           \/ Allocate \/ SetUp \/ FreeData \/ FreeRing \/ ForgetRing \/ Disarm \/ Await
           \/ Dropped \/ Plant \/ AdvanceHead
    PROVE  TypeOK' /\ WhereInv'
  <1> USE DEF At
  <1>1. CASE Allocate \/ FreeData \/ FreeRing \/ ForgetRing
    <2>1. /\ UNCHANGED <<loaded, files, call, hpc, hit, ringVars, probeVars, lately, reopened, overlaid, stray>>
          /\ rings' \in Int /\ ring' \in Rings
      BY <1>1 DEF TypeOK, Rings, Allocate, FreeData, FreeRing, ForgetRing, history
    <2>2. pc' \in {"setUp", "freeRing", "forgetRing", "disarm"}
      BY <1>1 DEF Allocate, FreeData, FreeRing, ForgetRing
    <2>3. TypeOK'
      BY <2>1, <2>2 DEF TypeOK, ringVars, probeVars
    <2>4. WhereInv'
      BY <1>1 DEF WhereInv, Allocate, FreeData, FreeRing, ForgetRing
    <2> QED
      BY <2>3, <2>4
  <1>2. CASE SetUp
    <2>1. /\ slots' \in [0..(Size - 1) -> 0..(MaxCalls + 1)] /\ seen' \in Seq(0..(MaxCalls + 1))
          /\ head' \in 0..(Size - 1) /\ tail' \in 0..(Size - 1)
      BY <1>2, RingSize, MprobeAssumption DEF SetUp
    <2> QED
      BY <1>2, <2>1 DEF TypeOK, WhereInv, Rings, SetUp, probeVars, history
  <1>3. CASE Disarm \/ Await
    <2>1. pc' \in {"await", "dropped"} /\ pc \in {"disarm", "await"}
      BY <1>3 DEF Disarm, Await
    <2>2. kp' \in {kp, 0} /\ probes' \subseteq probes /\ planted' \subseteq planted
      BY <1>3 DEF Disarm, Await
    <2>3. 0 \in 0..(MaxCalls + 1)
      BY MprobeAssumption
    <2>4. UNCHANGED <<loaded, files, call, hpc, hit, ring, ringVars, lately, history, stray>>
      BY <1>3 DEF Disarm, Await
    <2> QED
      BY <2>1, <2>2, <2>3, <2>4 DEF TypeOK, WhereInv, ringVars, history
  <1>4. CASE Dropped
    <2>1. files > 0 /\ files - 1 \in 0..MaxFiles
      BY <1>4, MprobeAssumption DEF TypeOK, WhereInv, Dropped
    <2> QED
      BY <1>4, <2>1 DEF TypeOK, WhereInv, Dropped, ringVars, probeVars, history
  <1>5. CASE Plant
    <2>1. PICK p \in 1..(MaxCalls + 1) :
              kp' = p /\ probes' = probes \cup {p} /\ planted' \in {planted, planted \cup {p}}
      BY <1>5 DEF Plant
    <2>2. p \in 0..(MaxCalls + 1)
      BY MprobeAssumption
    <2> QED
      BY <1>5, <2>1, <2>2 DEF TypeOK, WhereInv, Plant, ringVars, history
  <1>6. CASE AdvanceHead
    <2>1. head \in 0..(Size - 1) /\ taken \in Nat
      BY DEF TypeOK
    <2>2. After(head) \in 0..(Size - 1)
      BY <2>1, AfterInRing
    <2>3. head' \in 0..(Size - 1) /\ taken' \in Nat
      BY <1>6, <2>1, <2>2 DEF AdvanceHead
    <2> QED
      BY <1>6, <2>3 DEF TypeOK, WhereInv, AdvanceHead, probeVars, history
  <1> QED
    BY <1>1, <1>2, <1>3, <1>4, <1>5, <1>6

LEMMA TypesStep == TypeOK /\ WhereInv /\ [Next]_vars => TypeOK' /\ WhereInv'
  <1> SUFFICES ASSUME TypeOK, WhereInv, [Next]_vars PROVE TypeOK' /\ WhereInv'
    OBVIOUS
  <1>1. CASE Stopped \/ UNCHANGED vars
    BY ZenonT(60), <1>1 DEF Stopped, TypeOK, WhereInv, vars, callVars, ringVars, probeVars, history
  <1> QED
    BY <1>1, HandlerTyped, BeginTyped, CallTyped DEF Next, Caller

\* The indices of the ring and the numbers of files and probes stay in their
\* ranges, whatever files are opened (Mprobe.c:117, 189).
THEOREM MprobeTyped == Spec => [](TypeOK /\ WhereInv)
  <1>1. Init => TypeOK /\ WhereInv
    <2> SUFFICES ASSUME Init PROVE TypeOK /\ WhereInv
      OBVIOUS
    <2>1. 0 \in 0..(Size - 1) /\ 0 \in 0..MaxFiles /\ 0 \in 0..(MaxCalls + 1)
      BY MprobeAssumption
    <2>2. lately \in [calls : 0..MaxCalls, hits : 0..MaxHits]
      BY MprobeAssumption DEF Init
    <2>3. slots \in [0..(Size - 1) -> 0..(MaxCalls + 1)] /\ count \in Nat /\ loss \in Nat
          /\ seen \in Seq(0..(MaxCalls + 1)) /\ taken \in Nat /\ rings \in Int
      BY <2>1 DEF Init
    <2>4. /\ loaded = FALSE /\ files = 0 /\ call = "none" /\ pc = "idle" /\ hpc = "away"
          /\ hit = 0 /\ ring = "none" /\ head = 0 /\ tail = 0 /\ kp = 0 /\ probes = {} /\ planted = {}
          /\ orderly = TRUE /\ reopened = FALSE /\ overlaid = FALSE /\ stray = FALSE
      BY DEF Init
    <2>5. TypeOK
      BY <2>1, <2>2, <2>3, <2>4 DEF TypeOK, Rings
    <2> QED
      BY <2>4, <2>5 DEF WhereInv
  <1> QED
    BY <1>1, TypesStep, PTL DEF Spec

-----------------------------------------------------------------------------
(* The records of the ring.                                                 *)

\* The slot of the record that is i records behind the first unread one.
Slot(h, i) == (h + i) % Size

LEMMA SlotIs ==
    ASSUME NEW h \in 0..(Size - 1), NEW i \in 0..Size
    PROVE  /\ Slot(h, i) = IF h + i < Size THEN h + i ELSE h + i - Size
           /\ Slot(h, i) \in 0..(Size - 1)
  BY MprobeAssumption DEF Slot

LEMMA SlotOnce ==
    ASSUME NEW h \in 0..(Size - 1), NEW i \in 0..(Size - 1), NEW j \in 0..(Size - 1), i # j
    PROVE  Slot(h, i) # Slot(h, j)
  <1>1. i \in 0..Size /\ j \in 0..Size
    BY MprobeAssumption
  <1>2. /\ Slot(h, i) = IF h + i < Size THEN h + i ELSE h + i - Size
        /\ Slot(h, j) = IF h + j < Size THEN h + j ELSE h + j - Size
    BY <1>1, SlotIs
  <1> QED
    BY <1>2, MprobeAssumption

LEMMA SlotNext ==
    ASSUME NEW h \in 0..(Size - 1), NEW i \in 0..(Size - 1)
    PROVE  /\ After(Slot(h, i)) = Slot(h, i + 1)
           /\ Slot(After(h), i) = Slot(h, i + 1)
  <1>1. i \in 0..Size /\ i + 1 \in 0..Size
    BY MprobeAssumption
  <1>2. /\ Slot(h, i) = IF h + i < Size THEN h + i ELSE h + i - Size
        /\ Slot(h, i + 1) = IF h + (i + 1) < Size THEN h + (i + 1) ELSE h + (i + 1) - Size
        /\ Slot(h, i) \in 0..(Size - 1)
    BY <1>1, SlotIs
  <1>3. After(Slot(h, i)) = IF Slot(h, i) = Size - 1 THEN 0 ELSE Slot(h, i) + 1
    BY <1>2, AfterInRing
  <1>4. After(h) = (IF h = Size - 1 THEN 0 ELSE h + 1) /\ After(h) \in 0..(Size - 1)
    BY AfterInRing
  <1>5. Slot(After(h), i) = IF After(h) + i < Size THEN After(h) + i ELSE After(h) + i - Size
    BY <1>1, <1>4, SlotIs
  <1> QED
    BY <1>2, <1>3, <1>4, <1>5, MprobeAssumption

LEMMA SlotHead ==
    ASSUME NEW h \in 0..(Size - 1)
    PROVE  /\ Slot(h, 0) = h
           /\ \A i \in 0..Size : Slot(h, i) = h => i \in {0, Size}
  <1>1. \A i \in 0..Size : Slot(h, i) = IF h + i < Size THEN h + i ELSE h + i - Size
    BY SlotIs
  <1>2. 0 \in 0..Size
    BY MprobeAssumption
  <1> QED
    BY <1>1, <1>2, MprobeAssumption

\* Until the ring overruns: the unread records lie from head to tail; the
\* handler is in a store only beside them; what is counted is what was stored.
Counted ==
    IF hpc = "tally" THEN count + loss + 1 = stored /\ (Unread > 1 => count >= 1)
    ELSE count + loss = stored /\ (Unread > 0 => count >= 1)

Records ==
    /\ tail = Slot(head, Unread) /\ Unread \in 0..Size
    /\ pc = "advanceHead" => Unread > 0
    /\ hpc = "advance" => Unread < Size /\ slots[tail] = hit
    /\ \A i \in 0..(Unread - 1) : slots[Slot(head, i)] = seen[taken + i + 1]
    /\ Counted

RecordsInv == ring = "ready" /\ orderly => Records

LEMMA RecordsStore ==
    ASSUME TypeOK, Records, Store, orderly'
    PROVE  Records'
  <1>1. /\ slots' = [slots EXCEPT ![tail] = hit] /\ Unread < Size
        /\ UNCHANGED <<pc, hit, head, tail, count, loss, seen, taken>> /\ stored' = stored
        /\ hpc = "store" /\ hpc' = "advance"
    BY DEF Store, AtRing, callVars, stored
  <1>2. Unread' = Unread
    BY <1>1 DEF Unread
  <1>3. Unread \in 0..(Size - 1)
    BY <1>1, MprobeAssumption DEF Records
  <1>4. slots'[tail] = hit
    BY <1>1 DEF TypeOK
  <1>5. ASSUME NEW i \in 0..(Unread - 1) PROVE slots'[Slot(head, i)] = seen[taken + i + 1]
    <2>1. i \in 0..(Size - 1) /\ i # Unread
      BY <1>3, MprobeAssumption
    <2>2. Slot(head, i) # tail
      BY <1>3, <2>1, SlotOnce DEF Records, TypeOK
    <2>3. slots'[Slot(head, i)] = slots[Slot(head, i)]
      BY <1>1, <2>2 DEF TypeOK
    <2> QED
      BY <2>3 DEF Records
  <1>6. Counted'
    BY <1>1, <1>2 DEF Records, Counted
  <1> QED
    BY <1>1, <1>2, <1>4, <1>5, <1>6 DEF Records, Slot

LEMMA RecordsAdvance ==
    ASSUME TypeOK, Records, Advance
    PROVE  Records'
  <1>0. seen \in Seq(0..(MaxCalls + 1)) /\ hit \in 0..(MaxCalls + 1)
    BY DEF TypeOK
  <1>1. /\ tail' = After(tail) /\ seen' = Append(seen, hit) /\ hpc = "advance" /\ hpc' = "tally"
        /\ UNCHANGED <<pc, head, count, loss, slots, taken>>
    BY DEF Advance, AtRing, callVars
  <1>9. /\ stored \in Nat /\ stored' = stored + 1 /\ seen'[stored + 1] = hit
        /\ \A k \in 1..stored : seen'[k] = seen[k]
    BY <1>0, <1>1 DEF stored
  <1>2. /\ stored \in Nat /\ taken \in Nat /\ Unread \in 0..(Size - 1) /\ head \in 0..(Size - 1)
        /\ tail = Slot(head, Unread)
    BY <1>1, <1>9, MprobeAssumption DEF Records, TypeOK
  <1>3. Unread' = Unread + 1
    BY <1>1, <1>2, <1>9 DEF Unread
  <1>4. tail' = Slot(head, Unread + 1)
    BY <1>1, <1>2, SlotNext
  <1>5. ASSUME NEW i \in 0..Unread PROVE slots[Slot(head, i)] = seen'[taken + i + 1]
    <2>1. CASE i = Unread
      <3>1. taken + i + 1 = stored + 1
        BY <1>2, <2>1 DEF Unread
      <3> QED
        BY <1>1, <1>2, <1>9, <2>1, <3>1 DEF Records
    <2>2. CASE i # Unread
      <3>1. i \in 0..(Unread - 1)
        BY <1>2, <2>2
      <3>2. taken + i + 1 \in 1..stored
        BY <1>2, <3>1 DEF Unread
      <3> QED
        BY <1>9, <3>1, <3>2 DEF Records
    <2> QED
      BY <2>1, <2>2
  <1>6. Counted'
    BY <1>1, <1>2, <1>3, <1>9 DEF Records, Counted, TypeOK
  <1>7. Unread' \in 0..Size /\ 0..(Unread' - 1) = 0..Unread
    BY <1>2, <1>3, MprobeAssumption
  <1>8. pc' = "advanceHead" => Unread' > 0
    BY <1>2, <1>3
  <1> QED
    BY <1>1, <1>3, <1>4, <1>5, <1>6, <1>7, <1>8 DEF Records, Slot

LEMMA RecordsTally ==
    ASSUME TypeOK, Records, Tally
    PROVE  Records'
  <1>1. /\ hpc = "tally" /\ hpc' = "away" /\ UNCHANGED <<pc, hit, head, tail, slots, seen, taken>>
        /\ stored' = stored
        /\ IF tail = head THEN loss' = loss + 1 /\ UNCHANGED count
                          ELSE count' = count + 1 /\ UNCHANGED loss
    BY DEF Tally, AtRing, callVars, stored
  <1>2. Unread' = Unread /\ Unread \in 0..Size /\ head \in 0..(Size - 1)
    BY <1>1 DEF Unread, Records, TypeOK
  <1>3. tail = head => Unread \in {0, Size}
    BY <1>2, SlotHead DEF Records
  <1>4. Counted'
    <2>1. count + loss + 1 = stored /\ (Unread > 1 => count >= 1)
      BY <1>1 DEF Records, Counted
    <2>2. count \in Nat /\ loss \in Nat /\ stored \in Nat
      BY DEF TypeOK, stored
    <2>3. count' + loss' = stored
      BY <1>1, <2>1, <2>2
    <2>4. Unread > 0 => count' >= 1
      BY <1>1, <1>2, <1>3, <2>1, <2>2, MprobeAssumption
    <2> QED
      BY <1>1, <1>2, <2>3, <2>4 DEF Counted
  <1> QED
    BY <1>1, <1>2, <1>4 DEF Records, Slot

LEMMA RecordsAdvanceHead ==
    ASSUME TypeOK, Records, AdvanceHead
    PROVE  Records'
  <1>1. /\ pc = "advanceHead" /\ pc' = "idle" /\ head' = After(head) /\ taken' = taken + 1
        /\ UNCHANGED <<hpc, hit, tail, count, loss, slots, seen>> /\ stored' = stored
    BY DEF AdvanceHead, At, stored
  <1>2. /\ stored \in Nat /\ taken \in Nat /\ head \in 0..(Size - 1) /\ Unread \in 0..Size
        /\ Unread > 0
    BY <1>1 DEF Records, TypeOK, stored
  <1>3. Unread' = Unread - 1 /\ Unread - 1 \in 0..(Size - 1)
    BY <1>1, <1>2, MprobeAssumption DEF Unread
  <1>4. tail = Slot(After(head), Unread - 1)
    <2>1. Slot(After(head), Unread - 1) = Slot(head, Unread - 1 + 1)
      BY <1>2, <1>3, SlotNext
    <2>2. Unread - 1 + 1 = Unread
      BY <1>2
    <2> QED
      BY <2>1, <2>2 DEF Records
  <1>5. ASSUME NEW i \in 0..(Unread - 2) PROVE slots[Slot(After(head), i)] = seen[taken + 1 + i + 1]
    <2>1. i \in 0..(Size - 1) /\ i + 1 \in 0..(Unread - 1)
      BY <1>3, <1>2, MprobeAssumption
    <2>2. Slot(After(head), i) = Slot(head, i + 1)
      BY <1>2, <2>1, SlotNext
    <2>3. slots[Slot(head, i + 1)] = seen[taken + (i + 1) + 1]
      BY <2>1 DEF Records
    <2>4. taken + (i + 1) + 1 = taken + 1 + i + 1
      BY <1>2, <2>1
    <2> QED
      BY <2>2, <2>3, <2>4
  <1>6. Unread' \in 0..Size /\ Unread' < Size /\ 0..(Unread' - 1) = 0..(Unread - 2)
    BY <1>2, <1>3, MprobeAssumption
  <1>7. Counted'
    BY <1>1, <1>2, <1>3 DEF Records, Counted
  <1>8. hpc' = "advance" => Unread' < Size /\ slots'[tail'] = hit'
    BY <1>1, <1>6 DEF Records
  <1> QED
    BY <1>1, <1>3, <1>4, <1>5, <1>6, <1>7, <1>8 DEF Records, Slot

LEMMA RecordsSetUp ==
    ASSUME SetUp, orderly'
    PROVE  Records'
  <1>1. /\ hpc' \in {"away", "test", "store", "dead"} /\ pc' = "idle"
        /\ head' = 0 /\ tail' = 0 /\ count' = 0 /\ loss' = 0 /\ stored' = 0 /\ taken' = 0
    BY DEF SetUp, At, stored
  <1>2. Unread' = 0
    BY <1>1 DEF Unread
  <1>3. Slot(0, 0) = 0 /\ 0 \in 0..Size
    BY MprobeAssumption, SlotHead
  <1>4. Counted'
    BY <1>1, <1>2 DEF Counted
  <1> QED
    BY <1>1, <1>2, <1>3, <1>4 DEF Records, Slot

\* The other steps leave the ring alone.
LEMMA RecordsKept ==
    ASSUME Records, UNCHANGED <<head, tail, count, loss, slots, seen, taken>>,
           pc' = "advanceHead" => Unread > 0,
           hpc' # hpc => ~({hpc, hpc'} \cap {"advance", "tally"} # {}),
           hpc' = "advance" => hit' = hit
    PROVE  Records'
  <1>1. Unread' = Unread /\ stored' = stored
    BY DEF Unread, stored
  <1>2. Counted'
    BY <1>1 DEF Records, Counted
  <1> QED
    BY <1>1, <1>2 DEF Records, Slot

LEMMA RecordsStep ==
    TypeOK /\ WhereInv /\ RecordsInv /\ [Next]_vars => RecordsInv'
  <1> SUFFICES ASSUME TypeOK, WhereInv, RecordsInv, [Next]_vars, ring' = "ready", orderly'
               PROVE  Records'
    BY DEF RecordsInv
  <1>1. CASE Store
    BY <1>1, RecordsStore DEF RecordsInv, Store
  <1>2. CASE Advance
    BY <1>2, RecordsAdvance DEF RecordsInv, Advance
  <1>3. CASE Tally
    BY <1>3, RecordsTally DEF RecordsInv, Tally
  <1>4. CASE AdvanceHead
    BY <1>4, RecordsAdvanceHead DEF RecordsInv, AdvanceHead
  <1>5. CASE SetUp
    BY <1>5, RecordsSetUp
  <1>6. CASE Hit \/ Test
    BY <1>6, RecordsKept DEF RecordsInv, Records, Hit, Test, AtRing, callVars, ringVars
  <1>7. CASE Dies \/ Astray
    \* There is no ring while they happen.
    BY <1>7 DEF WhereInv, Dies, Astray
  <1>8. CASE Open \/ Allocate \/ Load \/ FreeData \/ FreeRing \/ ForgetRing
    BY <1>8 DEF Open, Allocate, Load, FreeData, FreeRing, ForgetRing
  <1>9. CASE Read
    <2>1. Records /\ Unread > 0
      BY <1>9 DEF RecordsInv, Read
    <2> QED
      BY <1>9, <2>1, RecordsKept DEF Read
  <1>10. CASE Drop \/ Unload \/ ReadFails \/ Disarm \/ Await \/ Dropped \/ Plant
    <2>1. /\ UNCHANGED <<hpc, hit, ring, ringVars>> /\ (pc' = "advanceHead" => pc = "advanceHead")
      BY <1>10 DEF Drop, Unload, ReadFails, Disarm, Await, Dropped, Plant, Begin, At
    <2> QED
      BY <2>1, RecordsKept DEF RecordsInv, Records, ringVars
  <1>11. CASE Stopped \/ UNCHANGED vars
    BY <1>11, RecordsKept DEF RecordsInv, Records, Stopped, vars, callVars, ringVars
  <1> QED
    BY <1>1, <1>2, <1>3, <1>4, <1>5, <1>6, <1>7, <1>8, <1>9, <1>10, <1>11 DEF Next, Caller, Handler

\* For any size of the ring, any number of files, calls and hits: as long as the
\* ring did not overrun, the slots not read yet hold from head on the addresses
\* of the probes hit last (Mprobe.c:115-117, 189), and read does not refuse them
\* (180).
THEOREM UnreadAlwaysKept == Spec => []UnreadKept
  <1>1. Init => RecordsInv
    BY DEF Init, RecordsInv
  <1>2. RecordsInv => UnreadKept
    BY DEF RecordsInv, Records, Counted, UnreadKept, Slot
  <1> QED
    BY <1>1, <1>2, MprobeTyped, RecordsStep, PTL DEF Spec
=============================================================================
