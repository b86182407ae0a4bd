------------------------- MODULE HcsrDriver_proofs -------------------------
(***************************************************************************)
(* For any number of callers and kernel threads and any size of the        *)
(* buffer: the types of HcsrDriver; as long as one session lasts, the      *)
(* exclusion by buffer_lock and the refinement of HcsrFifo; and, with one  *)
(* writing thread, that a session's samples stay in it.                    *)
(***************************************************************************)
EXTENDS HcsrDriver, FiniteSetTheorems, TLAPS

-----------------------------------------------------------------------------
(* Counting: no more samples are stamped than calls were made.              *)

\* Callers that may yet start a measurement, threads that have yet to stamp
\* one, callers about to initialise the device.
Due == {p \in Procs : pc[p] \in {"clear", "clearIndex", "checkMip", "setMip", "startLock",
                                 "start", "readLock", "read", "readEmpty"}}
Unstamped == {w \in Workers : wpc[w] \in {"lock", "sample"}}
Closing == {p \in Procs : pc[p] \in {"relCheck", "relStop", "relWait", "relInit"}}

Counted ==
    /\ clock + Cardinality(Unstamped) + Cardinality(Due) <= calls
    /\ session + Cardinality(Closing) <= calls

TypeInv == TypeOK /\ Counted

\* What subsets, one member more and one member less do to a cardinality.
LEMMA CardinalityMonotone ==
    ASSUME NEW S, NEW T, IsFiniteSet(S), T \subseteq S
    PROVE  /\ Cardinality(S) \in Nat /\ Cardinality(T) \in Nat
           /\ Cardinality(T) <= Cardinality(S)
  BY FS_Subset, FS_CardinalityType

\* One member more.
LEMMA CardinalityOneMore ==
    ASSUME NEW S, NEW T, NEW x, IsFiniteSet(S), T \subseteq S \cup {x}
    PROVE  /\ Cardinality(S) \in Nat /\ Cardinality(T) \in Nat
           /\ Cardinality(T) <= Cardinality(S) + 1
<1> Cardinality(S) \in Nat
  BY FS_CardinalityType
<1>1. IsFiniteSet(S \cup {x}) /\ Cardinality(S \cup {x}) <= Cardinality(S) + 1
  BY FS_AddElement
<1>2. Cardinality(T) <= Cardinality(S \cup {x}) /\ IsFiniteSet(T)
  BY <1>1, FS_Subset
<1> QED
  BY <1>1, <1>2, FS_CardinalityType

\* One member less.
LEMMA CardinalityOneLess ==
    ASSUME NEW S, NEW T, NEW x \in S, IsFiniteSet(S), T \subseteq S \ {x}
    PROVE  /\ Cardinality(S) \in Nat /\ Cardinality(T) \in Nat
           /\ Cardinality(T) <= Cardinality(S) - 1
<1>1. IsFiniteSet(S \ {x}) /\ Cardinality(S \ {x}) = Cardinality(S) - 1
  BY FS_RemoveElement
<1>2. Cardinality(T) <= Cardinality(S \ {x}) /\ IsFiniteSet(T)
  BY <1>1, FS_Subset
<1> QED
  BY <1>1, <1>2, FS_CardinalityType

\* What is counted is finite, before and after a step.
LEMMA CountsFinite ==
    /\ IsFiniteSet(Due) /\ IsFiniteSet(Unstamped) /\ IsFiniteSet(Closing)
    /\ IsFiniteSet(Due') /\ IsFiniteSet(Unstamped') /\ IsFiniteSet(Closing')
<1>1. /\ Due \subseteq Procs /\ Closing \subseteq Procs /\ Unstamped \subseteq Workers
      /\ Due' \subseteq Procs /\ Closing' \subseteq Procs /\ Unstamped' \subseteq Workers
  BY DEF Due, Closing, Unstamped
<1> QED
  BY <1>1, FS_Subset, HcsrAssumption

-----------------------------------------------------------------------------
(* Types.                                                                   *)

\* A step that makes none of the sets larger and leaves the counters.
LEMMA CountedKept ==
    ASSUME TypeInv, calls' \in Nat, calls <= calls', clock' = clock, session' = session,
           Due' \subseteq Due, Unstamped' \subseteq Unstamped, Closing' \subseteq Closing
    PROVE  Counted'
<1>1. Cardinality(Due') <= Cardinality(Due) /\ Cardinality(Due) \in Nat /\ Cardinality(Due') \in Nat
  BY CountsFinite, CardinalityMonotone
<1>2. /\ Cardinality(Unstamped') <= Cardinality(Unstamped)
      /\ Cardinality(Unstamped) \in Nat /\ Cardinality(Unstamped') \in Nat
  BY CountsFinite, CardinalityMonotone
<1>3. /\ Cardinality(Closing') <= Cardinality(Closing)
      /\ Cardinality(Closing) \in Nat /\ Cardinality(Closing') \in Nat
  BY CountsFinite, CardinalityMonotone
<1>4. clock \in Nat /\ session \in Nat /\ calls \in Nat
  BY HcsrAssumption DEF TypeInv, TypeOK, Stamps
<1> QED
  BY <1>1, <1>2, <1>3, <1>4 DEF TypeInv, Counted

\* Every step keeps the counts.
LEMMA CountedStep == TypeInv /\ [Next]_vars => Counted'
<1> SUFFICES ASSUME TypeInv, [Next]_vars PROVE Counted'
  OBVIOUS
<1> USE DEF TypeInv
<1>0. /\ clock \in Nat /\ session \in Nat /\ calls \in Nat /\ MaxCalls \in Nat
      /\ Cardinality(Due) \in Nat /\ Cardinality(Unstamped) \in Nat /\ Cardinality(Closing) \in Nat
      /\ Cardinality(Due') \in Nat /\ Cardinality(Unstamped') \in Nat
      /\ Cardinality(Closing') \in Nat
  BY HcsrAssumption, CountsFinite, FS_CardinalityType DEF TypeOK, Stamps
<1>P. pc = [p \in Procs |-> pc[p]] /\ wpc = [w \in Workers |-> wpc[w]]
  BY DEF TypeOK
<1>1. ASSUME NEW p \in Procs, Open(p) PROVE Counted'
  <2>1. calls' = calls + 1 /\ session' = session + 1 /\ clock' = clock
    BY <1>1 DEF Open, InitializeDevice
  <2>2. Due' = Due /\ Unstamped' = Unstamped /\ Closing' = Closing
    BY <1>1 DEF Open, procVars, workVars, Due, Unstamped, Closing
  <2> QED
    BY <1>0, <2>1, <2>2 DEF Counted
<1>2. ASSUME NEW p \in Procs, Write(p) \/ Read(p) PROVE Counted'
  <2>1. calls' = calls + 1 /\ session' = session /\ clock' = clock
    BY <1>2 DEF Write, Read, Enter
  <2>2. Due' \subseteq Due \cup {p}
    BY <1>2, <1>P DEF Write, Read, Enter, Goto, Return, Due
  <2>3. Unstamped' = Unstamped
    BY <1>2 DEF Write, Read, workVars, Unstamped
  <2>4. Closing' \subseteq Closing
    BY <1>2, <1>P DEF Write, Read, Enter, Goto, Return, Closing
  <2>5. Cardinality(Due') <= Cardinality(Due) + 1 /\ Cardinality(Closing') <= Cardinality(Closing)
    BY <2>2, <2>4, CountsFinite, CardinalityMonotone, CardinalityOneMore
  <2> QED
    BY <1>0, <2>1, <2>3, <2>5 DEF Counted
<1>3. ASSUME NEW p \in Procs, StartThread(p) PROVE Counted'
  <2>1. calls' = calls /\ session' = session /\ clock' = clock
    BY <1>3 DEF StartThread
  <2>2. p \in Due /\ Due' \subseteq Due \ {p}
    BY <1>3, <1>P DEF StartThread, Goto, Due
  <2>3. Unstamped' \subseteq Unstamped \cup {NewThread}
    BY <1>3, <1>P DEF StartThread, Unstamped
  <2>4. Closing' \subseteq Closing
    BY <1>3, <1>P DEF StartThread, Goto, Closing
  <2>5. /\ Cardinality(Due') <= Cardinality(Due) - 1
        /\ Cardinality(Unstamped') <= Cardinality(Unstamped) + 1
        /\ Cardinality(Closing') <= Cardinality(Closing)
    BY <2>2, <2>3, <2>4, CountsFinite, CardinalityMonotone, CardinalityOneLess, CardinalityOneMore
  <2> QED
    BY <1>0, <2>1, <2>5 DEF Counted
<1>4. ASSUME NEW w \in Workers, Average(w) PROVE Counted'
  <2>1. calls' = calls /\ session' = session /\ clock' = clock + 1
    BY <1>4 DEF Average
  <2>2. w \in Unstamped /\ Unstamped' \subseteq Unstamped \ {w}
    BY <1>4, <1>P DEF Average, Advance, Unstamped
  <2>3. Due' = Due /\ Closing' = Closing
    BY <1>4 DEF Average, procVars, Due, Closing
  <2>4. Cardinality(Unstamped') <= Cardinality(Unstamped) - 1
    BY <2>2, CountsFinite, CardinalityOneLess
  <2> QED
    BY <1>0, <2>1, <2>3, <2>4 DEF Counted
<1>5. ASSUME NEW p \in Procs, Release(p) PROVE Counted'
  <2>1. calls' = calls + 1 /\ session' = session /\ clock' = clock
    BY <1>5 DEF Release, Enter
  <2>2. Closing' \subseteq Closing \cup {p} /\ Due' \subseteq Due
    BY <1>5, <1>P DEF Release, Enter, Goto, Closing, Due
  <2>3. Unstamped' = Unstamped
    BY <1>5 DEF Release, workVars, Unstamped
  <2>4. /\ Cardinality(Closing') <= Cardinality(Closing) + 1
        /\ Cardinality(Due') <= Cardinality(Due)
    BY <2>2, CountsFinite, CardinalityMonotone, CardinalityOneMore
  <2> QED
    BY <1>0, <2>1, <2>3, <2>4 DEF Counted
<1>6. ASSUME NEW p \in Procs, RelInit(p) PROVE Counted'
  <2>1. calls' = calls /\ session' = session + 1 /\ clock' = clock
    BY <1>6 DEF RelInit, InitializeDevice
  <2>2. p \in Closing /\ Closing' \subseteq Closing \ {p} /\ Due' \subseteq Due
    BY <1>6, <1>P DEF RelInit, Goto, Closing, Due
  <2>3. Unstamped' = Unstamped
    BY <1>6 DEF RelInit, workVars, Unstamped
  <2>4. /\ Cardinality(Closing') <= Cardinality(Closing) - 1
        /\ Cardinality(Due') <= Cardinality(Due)
    BY <2>2, CountsFinite, CardinalityMonotone, CardinalityOneLess
  <2> QED
    BY <1>0, <2>1, <2>3, <2>4 DEF Counted
<1>7. ASSUME calls' = calls, session' = session, clock' = clock, Due' \subseteq Due,
             Unstamped' \subseteq Unstamped, Closing' \subseteq Closing
      PROVE  Counted'
  BY <1>7, <1>0, CountedKept
<1>8. ASSUME NEW p \in Procs,
             ClearSlot(p) \/ ClearIndex(p) \/ CheckMip(p) \/ SetMip(p) \/ StartLock(p)
             \/ StartFails(p) \/ StartUnlock(p) \/ ReadLock(p) \/ ReadSlot(p) \/ ReadEmpty(p)
             \/ AgainLock(p) \/ ReadAgain(p) \/ RelCheck(p) \/ RelStop(p) \/ RelWait(p)
      PROVE  Counted'
  <2>1. calls' = calls /\ session' = session /\ clock' = clock /\ wpc' = wpc
    BY <1>8 DEF ClearSlot, ClearIndex, CheckMip, SetMip, StartLock, StartFails, StartUnlock,
                ReadLock, ReadSlot, ReadEmpty, AgainLock, ReadAgain, RelCheck, RelStop, RelWait,
                countVars, workVars
  <2>2. Due' \subseteq Due
    BY <1>8, <1>P DEF ClearSlot, ClearIndex, CheckMip, SetMip, StartLock, StartFails, StartUnlock,
                ReadLock, ReadSlot, ReadEmpty, AgainLock, ReadAgain, RelCheck, RelStop, RelWait,
                Goto, Return, Due
  <2>3. Closing' \subseteq Closing
    BY <1>8, <1>P DEF ClearSlot, ClearIndex, CheckMip, SetMip, StartLock, StartFails, StartUnlock,
                ReadLock, ReadSlot, ReadEmpty, AgainLock, ReadAgain, RelCheck, RelStop, RelWait,
                Goto, Return, Closing
  <2> QED
    BY <2>1, <2>2, <2>3, <1>7 DEF Unstamped
<1>9. ASSUME NEW w \in Workers,
             WorkerLock(w) \/ Trigger(w) \/ DivideByZero(w) \/ StoreIndex(w) \/ StoreDistance(w)
             \/ StoreTsc(w) \/ ResetMip(w) \/ WorkerUnlock(w)
      PROVE  Counted'
  <2>1. calls' = calls /\ session' = session /\ clock' = clock /\ pc' = pc
    BY <1>9 DEF WorkerLock, Trigger, DivideByZero, StoreIndex, StoreDistance, StoreTsc, ResetMip,
                WorkerUnlock, countVars, procVars
  <2>2. Unstamped' \subseteq Unstamped
    BY <1>9, <1>P DEF WorkerLock, Trigger, DivideByZero, StoreIndex, StoreDistance, StoreTsc,
                ResetMip, WorkerUnlock, Advance, Unstamped
  <2> QED
    BY <2>1, <2>2, <1>7 DEF Due, Closing
<1>10. ASSUME (\E p \in Procs : ConfigPins(p) \/ SetParameters(p)) \/ Echo \/ Finished
              \/ UNCHANGED vars
       PROVE  Counted'
  <2>1. calls' = calls /\ session' = session /\ clock' = clock /\ pc' = pc /\ wpc' = wpc
    BY <1>10 DEF ConfigPins, SetParameters, Echo, Finished, vars, countVars, procVars, workVars
  <2> QED
    BY <2>1, <1>7 DEF Due, Closing, Unstamped
<1> QED
  BY <1>1, <1>2, <1>3, <1>4, <1>5, <1>6, <1>8, <1>9, <1>10 DEF Next, Proceed, Measure

\* The values everything starts with.
LEMMA FreeRecord == Free \in Record /\ 0 \in Slots /\ 0 \in Stamps
<1>1. 0 \in Slots /\ 0 \in Stamps
  BY HcsrAssumption DEF Slots, Stamps
<1> QED
  BY <1>1 DEF Free, Record

\* What fifoRead leaves and returns is of the type.
LEMMA FifoReadType ==
    ASSUME TypeOK, FifoRead
    PROVE  /\ buffer' \in [Slots -> Record] /\ bufferIndex' \in Slots
           /\ fifoOut' \in Record
<1>1. buffer \in [Slots -> Record] /\ bufferIndex \in Slots
  BY DEF TypeOK
<1>2. CASE buffer[bufferIndex].tsc = 0
  BY <1>1, <1>2, FreeRecord DEF FifoRead
<1>3. CASE buffer[bufferIndex].tsc # 0
  <2>1. fifoOut' = buffer[bufferIndex] /\ buffer' = [buffer EXCEPT ![bufferIndex] = Free]
    BY <1>3 DEF FifoRead
  <2>2. bufferIndex' = IF bufferIndex = 0 THEN Size - 1 ELSE bufferIndex - 1
    BY <1>3 DEF FifoRead
  <2>3. bufferIndex' \in Slots
    BY <1>1, <2>2, HcsrAssumption DEF Slots
  <2> QED
    BY <1>1, <2>1, <2>3, FreeRecord
<1> QED
  BY <1>2, <1>3

\* The same of initialize_device.
LEMMA InitializedType ==
    ASSUME InitializeDevice
    PROVE  /\ {pins', params', irq', heard', mip'} \subseteq BOOLEAN
           /\ tsk' = None /\ lock' = None
           /\ buffer' \in [Slots -> Record] /\ bufferIndex' \in Slots
<1>1. buffer' = [i \in Slots |-> Free] /\ bufferIndex' = 0
  BY DEF InitializeDevice
<1>2. buffer' \in [Slots -> Record] /\ bufferIndex' \in Slots
  BY <1>1, FreeRecord
<1>3. {pins', params', irq', heard', mip'} \subseteq BOOLEAN /\ tsk' = None /\ lock' = None
  BY DEF InitializeDevice
<1> QED
  BY <1>2, <1>3

\* The conjuncts of TypeOK in groups, each with the variables it is about.
DeviceType ==
    /\ {open, pins, params, irq, heard, mip} \subseteq BOOLEAN
    /\ tsk \in Workers \cup {None, ErrTask}
    /\ lock \in Procs \cup Workers \cup {None}
BufferType == buffer \in [Slots -> Record] /\ bufferIndex \in Slots /\ fifoOut \in Record
CallerType ==
    /\ pc \in [Procs -> {"idle", "clear", "clearIndex", "checkMip", "setMip",
                         "startLock", "start", "startUnlock", "readLock", "read",
                         "readEmpty", "againLock", "again", "relCheck", "relStop",
                         "relWait", "relInit", "oops"}]
    /\ local \in [Procs -> [first : Record, slot : Slots, call : {"none", "read", "write"},
                            task : Workers \cup {None}]]
    /\ ret \in [Procs -> [call : {"none", "read", "write"},
                          code : {"none", "SUCCESS", "EINVAL"}, value : Record]]
ThreadType ==
    /\ wpc \in [Workers -> {"idle", "lock", "sample", "index", "distance", "tsc",
                            "mip", "unlock", "oops"}]
    /\ collected \in [Workers -> 0..Triggers]
    /\ stamp \in [Workers -> Stamps] /\ born \in [Workers -> Stamps]
CountType == {session, clock, calls} \subseteq Stamps

\* Together they are the type invariant.
LEMMA TypeParts == TypeOK <=> DeviceType /\ BufferType /\ CallerType /\ ThreadType /\ CountType
  BY DEF TypeOK, DeviceType, BufferType, CallerType, ThreadType, CountType

\* The counters stay below the bound because the counts do.
LEMMA CountTypeStep == TypeInv /\ [Next]_vars => CountType'
<1> SUFFICES ASSUME TypeInv, [Next]_vars PROVE CountType'
  OBVIOUS
<1>0. calls \in 0..MaxCalls /\ clock \in Nat /\ session \in Nat /\ MaxCalls \in Nat
  BY HcsrAssumption DEF TypeInv, TypeOK, Stamps
<1>1. calls' \in {calls} \/ (calls < MaxCalls /\ calls' = calls + 1)
  BY DEF Next, Proceed, Measure, Open, Write, Read, Release, Enter, ConfigPins, SetParameters,
         Echo, Finished, vars, ClearSlot, ClearIndex, CheckMip, SetMip, StartLock, StartThread,
         StartFails, StartUnlock, ReadLock, ReadSlot, ReadEmpty, AgainLock, ReadAgain, RelCheck,
         RelStop, RelWait, RelInit, WorkerLock, Trigger, Average, DivideByZero, StoreIndex, StoreDistance,
         StoreTsc, ResetMip, WorkerUnlock, countVars
<1>2. clock' \in {clock, clock + 1}
  BY DEF Next, Proceed, Measure, Open, Write, Read, Release, Enter, ConfigPins, SetParameters,
         Echo, Finished, vars, ClearSlot, ClearIndex, CheckMip, SetMip, StartLock, StartThread,
         StartFails, StartUnlock, ReadLock, ReadSlot, ReadEmpty, AgainLock, ReadAgain, RelCheck,
         RelStop, RelWait, RelInit, WorkerLock, Trigger, Average, DivideByZero, StoreIndex, StoreDistance,
         StoreTsc, ResetMip, WorkerUnlock, countVars
<1>3. session' \in {session, session + 1}
  BY DEF Next, Proceed, Measure, Open, Write, Read, Release, Enter, ConfigPins, SetParameters,
         Echo, Finished, vars, ClearSlot, ClearIndex, CheckMip, SetMip, StartLock, StartThread,
         StartFails, StartUnlock, ReadLock, ReadSlot, ReadEmpty, AgainLock, ReadAgain, RelCheck,
         RelStop, RelWait, RelInit, WorkerLock, Trigger, Average, DivideByZero, StoreIndex, StoreDistance,
         StoreTsc, ResetMip, WorkerUnlock, countVars, InitializeDevice
<1>4. /\ Cardinality(Due') \in Nat /\ Cardinality(Unstamped') \in Nat
      /\ Cardinality(Closing') \in Nat
  BY CountsFinite, FS_CardinalityType
<1>5. clock' <= calls' /\ session' <= calls'
  BY <1>0, <1>1, <1>2, <1>3, <1>4, CountedStep DEF Counted
<1> QED
  BY <1>0, <1>1, <1>2, <1>3, <1>5 DEF CountType, Stamps

\* The device's flags, its task and its lock.
LEMMA DeviceTypeStep == TypeOK /\ [Next]_vars => DeviceType'
<1> SUFFICES ASSUME TypeOK, [Next]_vars PROVE DeviceType'
  OBVIOUS
<1>0. DeviceType
  BY TypeParts
<1>1. ASSUME NEW p \in Procs, Open(p) \/ RelInit(p) PROVE DeviceType'
  BY <1>1, <1>0, InitializedType DEF Open, RelInit, DeviceType
<1>2. ASSUME NEW p \in Procs, StartThread(p) PROVE DeviceType'
  <2>1. NewThread \in Workers
    BY <1>2 DEF StartThread, NewThread
  <2> QED
    BY <1>2, <1>0, <2>1 DEF StartThread, DeviceType
<1>3. ASSUME NEW p \in Procs,
             Write(p) \/ Read(p) \/ ClearSlot(p) \/ ClearIndex(p) \/ CheckMip(p)
             \/ ReadEmpty(p) \/ RelCheck(p) \/ RelStop(p) \/ RelWait(p)
      PROVE  DeviceType'
  <2>1. UNCHANGED <<devVars, mip, lock>>
    BY <1>3 DEF Write, Read, ClearSlot, ClearIndex, CheckMip, ReadEmpty, RelCheck, RelStop, RelWait
  <2> QED
    BY <1>0, <2>1 DEF DeviceType, devVars
<1>4. ASSUME NEW p \in Procs,
             SetMip(p) \/ StartLock(p) \/ StartFails(p) \/ StartUnlock(p) \/ ReadLock(p)
             \/ ReadSlot(p) \/ AgainLock(p) \/ ReadAgain(p)
      PROVE  DeviceType'
  BY <1>4, <1>0 DEF SetMip, StartLock, StartFails, StartUnlock, ReadLock, ReadSlot, AgainLock,
                    ReadAgain, Acquire, ReleaseLock, devVars, DeviceType
<1>5. ASSUME NEW p \in Procs, ConfigPins(p) \/ SetParameters(p) \/ Release(p) PROVE DeviceType'
  BY <1>5, <1>0 DEF ConfigPins, SetParameters, Release, DeviceType
<1>6. ASSUME NEW w \in Workers, Measure(w) PROVE DeviceType'
  BY <1>6, <1>0 DEF Measure, WorkerLock, Trigger, Average, DivideByZero, StoreIndex, StoreDistance,
                    StoreTsc, ResetMip, WorkerUnlock, Acquire, ReleaseLock, devVars, DeviceType
<1>7. CASE Echo \/ Finished \/ UNCHANGED vars
  BY <1>7, <1>0 DEF Echo, Finished, vars, devVars, DeviceType
<1> QED
  BY <1>1, <1>2, <1>3, <1>4, <1>5, <1>6, <1>7 DEF Next, Proceed

\* The buffer and its index.
LEMMA BufferTypeStep == TypeOK /\ [Next]_vars => BufferType'
<1> SUFFICES ASSUME TypeOK, [Next]_vars PROVE BufferType'
  OBVIOUS
<1>0. BufferType
  BY TypeParts
<1>1. ASSUME NEW p \in Procs, Open(p) \/ RelInit(p) PROVE BufferType'
  <2>1. fifoOut' = fifoOut /\ InitializeDevice
    BY <1>1 DEF Open, RelInit
  <2> QED
    BY <1>0, <2>1, InitializedType DEF BufferType
<1>2. ASSUME NEW p \in Procs, ReadSlot(p) \/ ReadAgain(p) PROVE BufferType'
  BY <1>2, FifoReadType DEF ReadSlot, ReadAgain, BufferType
<1>3. ASSUME NEW p \in Procs, ClearSlot(p) \/ ClearIndex(p) PROVE BufferType'
  BY <1>3, <1>0, FreeRecord DEF ClearSlot, ClearIndex, BufferType
<1>4. ASSUME NEW w \in Workers, StoreIndex(w) PROVE BufferType'
  <2>1. bufferIndex' \in Slots
    BY <1>0, <1>4, HcsrAssumption DEF StoreIndex, BufferType, Slots
  <2> QED
    BY <1>0, <1>4, <2>1 DEF StoreIndex, BufferType
<1>5. ASSUME NEW w \in Workers, StoreDistance(w) \/ StoreTsc(w) PROVE BufferType'
  <2>1. stamp[w] \in Stamps
    BY DEF TypeOK
  <2>2. /\ \/ buffer' = [buffer EXCEPT ![bufferIndex].distance = stamp[w]]
           \/ buffer' = [buffer EXCEPT ![bufferIndex].tsc = stamp[w]]
        /\ bufferIndex' = bufferIndex /\ fifoOut' = fifoOut
    BY <1>5 DEF StoreDistance, StoreTsc
  <2> QED
    BY <1>0, <2>1, <2>2 DEF BufferType, Record
<1>6. ASSUME UNCHANGED fifoVars PROVE BufferType'
  BY <1>6, <1>0 DEF BufferType, fifoVars
<1>7. ASSUME NEW p \in Procs,
             ConfigPins(p) \/ SetParameters(p) \/ Write(p) \/ Read(p) \/ Release(p) \/ CheckMip(p)
             \/ SetMip(p) \/ StartLock(p) \/ StartThread(p) \/ StartFails(p) \/ StartUnlock(p)
             \/ ReadLock(p) \/ ReadEmpty(p) \/ AgainLock(p) \/ RelCheck(p) \/ RelStop(p) \/ RelWait(p)
      PROVE  UNCHANGED fifoVars
  BY <1>7 DEF ConfigPins, SetParameters, Write, Read, Release, CheckMip, SetMip, StartLock,
              StartThread, StartFails, StartUnlock, ReadLock, ReadEmpty, AgainLock, RelCheck, RelStop, RelWait
<1>8. ASSUME NEW w \in Workers,
             WorkerLock(w) \/ Trigger(w) \/ Average(w) \/ DivideByZero(w) \/ ResetMip(w)
             \/ WorkerUnlock(w)
      PROVE  UNCHANGED fifoVars
  BY <1>8 DEF WorkerLock, Trigger, Average, DivideByZero, ResetMip, WorkerUnlock
<1>9. CASE Echo \/ Finished \/ UNCHANGED vars
  BY <1>9, <1>6 DEF Echo, Finished, vars
<1> QED
  BY <1>1, <1>2, <1>3, <1>4, <1>5, <1>6, <1>7, <1>8, <1>9 DEF Next, Proceed, Measure

\* The callers, what they hold and what they were returned.
LEMMA CallerTypeStep == TypeOK /\ [Next]_vars => CallerType'
<1> SUFFICES ASSUME TypeOK, [Next]_vars PROVE CallerType'
  OBVIOUS
<1>0. CallerType /\ BufferType
  BY TypeParts
<1> USE DEF CallerType
<1>1. ASSUME NEW p \in Procs, Open(p) \/ ConfigPins(p) \/ SetParameters(p) PROVE CallerType'
  BY <1>0, <1>1 DEF Open, ConfigPins, SetParameters, procVars
<1>2. ASSUME NEW p \in Procs, Write(p) PROVE CallerType'
  <2>1. CASE pins /\ params
    <3>1. local' = [local EXCEPT ![p] = [first |-> Free, slot |-> 0, call |-> "write", task |-> None]]
          /\ ret' = ret
      BY <1>2, <2>1 DEF Write
    <3>2. pc' = [pc EXCEPT ![p] = "checkMip"] \/ pc' = [pc EXCEPT ![p] = "clear"]
      BY <1>2, <2>1 DEF Write, Goto
    <3> QED
      BY <1>0, <3>1, <3>2, FreeRecord
  <2>2. CASE ~(pins /\ params)
    <3>1. /\ pc' = [pc EXCEPT ![p] = "idle"] /\ local' = local
          /\ ret' = [ret EXCEPT ![p] = [call |-> "write", code |-> "EINVAL", value |-> Free]]
      BY <1>2, <2>2 DEF Write, Return, Goto
    <3>2. [call |-> "write", code |-> "EINVAL", value |-> Free]
             \in [call : {"none", "read", "write"}, code : {"none", "SUCCESS", "EINVAL"}, value : Record]
      BY FreeRecord
    <3> HIDE DEF CallerType
    <3>3. ret' \in [Procs -> [call : {"none", "read", "write"},
                             code : {"none", "SUCCESS", "EINVAL"}, value : Record]]
      BY <1>0, <3>1, <3>2 DEF CallerType
    <3> QED
      BY <1>0, <3>1, <3>3 DEF CallerType
  <2> QED
    BY <2>1, <2>2
<1>3. ASSUME NEW p \in Procs, Read(p) PROVE CallerType'
  BY <1>0, <1>3, FreeRecord DEF Read, Enter, Goto
<1>4. ASSUME NEW p \in Procs, Release(p) PROVE CallerType'
  BY <1>0, <1>4 DEF Release, Enter, Goto
<1>5. ASSUME NEW p \in Procs, ClearSlot(p) PROVE CallerType'
  <2>1. CASE local[p].slot = Size - 1
    BY <1>0, <1>5, <2>1 DEF ClearSlot, Goto
  <2>2. CASE local[p].slot # Size - 1
    <3>1. local' = [local EXCEPT ![p].slot = @ + 1] /\ pc' = pc /\ ret' = ret
      BY <1>5, <2>2 DEF ClearSlot
    <3>2. local[p].slot + 1 \in Slots
      BY <1>0, <2>2, HcsrAssumption DEF Slots
    <3> QED
      BY <1>0, <3>1, <3>2
  <2> QED
    BY <2>1, <2>2
<1>6. ASSUME NEW p \in Procs, ReadSlot(p) PROVE CallerType'
  <2>1. fifoOut' \in Record
    BY <1>6, FifoReadType DEF ReadSlot
  <2>2. local' \in [Procs -> [first : Record, slot : Slots, call : {"none", "read", "write"},
                            task : Workers \cup {None}]]
    BY <1>0, <1>6, <2>1 DEF ReadSlot
  <2>3. CASE fifoOut'.distance = 0
    BY <1>0, <1>6, <2>2, <2>3 DEF ReadSlot, Goto
  <2>4. CASE fifoOut'.distance # 0
    <3>1. /\ pc' = [pc EXCEPT ![p] = "idle"]
          /\ ret' = [ret EXCEPT ![p] = [call |-> "read", code |-> "SUCCESS", value |-> fifoOut']]
      BY <1>6, <2>4 DEF ReadSlot, Return, Goto
    <3>2. [call |-> "read", code |-> "SUCCESS", value |-> fifoOut']
             \in [call : {"none", "read", "write"}, code : {"none", "SUCCESS", "EINVAL"}, value : Record]
      BY <2>1
    <3> HIDE DEF CallerType
    <3>3. ret' \in [Procs -> [call : {"none", "read", "write"},
                             code : {"none", "SUCCESS", "EINVAL"}, value : Record]]
      BY <1>0, <3>1, <3>2 DEF CallerType
    <3> QED
      BY <1>0, <2>2, <3>1, <3>3 DEF CallerType
  <2> QED
    BY <2>3, <2>4
<1>7. ASSUME NEW p \in Procs, ReadAgain(p) PROVE CallerType'
  BY <1>0, <1>7 DEF ReadAgain, Return, Goto
<1>8. ASSUME NEW p \in Procs, StartUnlock(p) PROVE CallerType'
  BY <1>0, <1>8, FreeRecord DEF StartUnlock, Return, Goto
<1>9. ASSUME NEW p \in Procs, CheckMip(p) \/ StartFails(p) \/ ReadEmpty(p) PROVE CallerType'
  <2>1. local' = local
    BY <1>9 DEF CheckMip, StartFails, ReadEmpty
  <2>2. \/ /\ ret' = ret
           /\ \/ pc' = [pc EXCEPT ![p] = "setMip"] \/ pc' = [pc EXCEPT ![p] = "againLock"]
              \/ pc' = [pc EXCEPT ![p] = "startLock"]
        \/ /\ pc' = [pc EXCEPT ![p] = "idle"]
           /\ \E c \in {"read", "write"}, e \in {"SUCCESS", "EINVAL"} :
                 ret' = [ret EXCEPT ![p] = [call |-> c, code |-> e, value |-> Free]]
    BY <1>9 DEF CheckMip, StartFails, ReadEmpty, Return, Goto
  <2>3. CASE ret' = ret
    BY <1>0, <2>1, <2>2, <2>3
  <2>4. ASSUME NEW c \in {"read", "write"}, NEW e \in {"SUCCESS", "EINVAL"},
               pc' = [pc EXCEPT ![p] = "idle"],
               ret' = [ret EXCEPT ![p] = [call |-> c, code |-> e, value |-> Free]]
        PROVE  CallerType'
    BY <1>0, <2>1, <2>4, FreeRecord
  <2> QED
    BY <2>2, <2>3, <2>4
<1>10. ASSUME NEW p \in Procs,
              ClearIndex(p) \/ SetMip(p) \/ StartLock(p) \/ StartThread(p) \/ ReadLock(p)
              \/ AgainLock(p) \/ RelCheck(p) \/ RelWait(p) \/ RelInit(p)
       PROVE  CallerType'
  BY <1>0, <1>10 DEF ClearIndex, SetMip, StartLock, StartThread, ReadLock, AgainLock, RelCheck,
                     RelWait, RelInit, Goto
<1>13. ASSUME NEW p \in Procs, RelStop(p) PROVE CallerType'
  <2>1. PICK l \in {"oops", "relInit", "relWait"} : pc' = [pc EXCEPT ![p] = l]
    BY <1>13 DEF RelStop, Goto
  <2>2. local' = [local EXCEPT ![p].task = IF tsk \in Workers THEN tsk ELSE None] /\ ret' = ret
    BY <1>13 DEF RelStop, RelWait
  <2> QED
    BY <1>0, <2>1, <2>2
<1>11. ASSUME NEW w \in Workers, Measure(w) PROVE CallerType'
  BY <1>0, <1>11 DEF Measure, WorkerLock, Trigger, Average, DivideByZero, StoreIndex, StoreDistance,
                     StoreTsc, ResetMip, WorkerUnlock, procVars
<1>12. CASE Echo \/ Finished \/ UNCHANGED vars
  BY <1>0, <1>12 DEF Echo, Finished, vars, procVars
<1> QED
  BY <1>1, <1>2, <1>3, <1>4, <1>5, <1>6, <1>7, <1>8, <1>9, <1>10, <1>11, <1>12,
     <1>13 DEF Next, Proceed

\* The threads; a stamp is the clock, which the counts bound.
LEMMA ThreadTypeStep == TypeInv /\ [Next]_vars => ThreadType'
<1> SUFFICES ASSUME TypeInv, [Next]_vars PROVE ThreadType'
  OBVIOUS
<1>0. ThreadType /\ session \in Stamps
  BY TypeParts DEF TypeInv, CountType
<1>C. CountType'
  BY CountTypeStep
<1> USE DEF ThreadType
<1>1. ASSUME NEW p \in Procs, StartThread(p) PROVE ThreadType'
  <2>1. 0 \in 0..Triggers
    BY HcsrAssumption
  <2> QED
    BY <1>0, <1>1, <2>1 DEF StartThread
<1>2. ASSUME NEW p \in Procs,
             Open(p) \/ ConfigPins(p) \/ SetParameters(p) \/ Write(p) \/ Read(p) \/ Release(p)
             \/ ClearSlot(p) \/ ClearIndex(p) \/ CheckMip(p) \/ SetMip(p) \/ StartLock(p)
             \/ StartFails(p) \/ StartUnlock(p) \/ ReadLock(p) \/ ReadSlot(p) \/ ReadEmpty(p)
             \/ AgainLock(p) \/ ReadAgain(p) \/ RelCheck(p) \/ RelStop(p) \/ RelWait(p) \/ RelInit(p)
      PROVE  UNCHANGED <<workVars, born>>
  BY <1>2 DEF Open, ConfigPins, SetParameters, Write, Read, Release, ClearSlot, ClearIndex, CheckMip,
              SetMip, StartLock, StartFails, StartUnlock, ReadLock, ReadSlot, ReadEmpty, AgainLock,
              ReadAgain, RelCheck, RelStop, RelWait, RelInit, countVars
<1>3. ASSUME UNCHANGED <<workVars, born>> PROVE ThreadType'
  BY <1>0, <1>3 DEF workVars
<1>4. ASSUME NEW w \in Workers, Trigger(w) PROVE ThreadType'
  <2>1. collected[w] + 1 \in 0..Triggers
    BY <1>0, <1>4, HcsrAssumption DEF Trigger
  <2> QED
    BY <1>0, <1>4, <2>1 DEF Trigger, countVars
<1>5. ASSUME NEW w \in Workers, Average(w) PROVE ThreadType'
  <2>1. clock + 1 \in Stamps
    BY <1>5, <1>C DEF Average, CountType
  <2> QED
    BY <1>0, <1>5, <2>1 DEF Average, Advance
<1>6. ASSUME NEW w \in Workers,
             WorkerLock(w) \/ DivideByZero(w) \/ StoreIndex(w) \/ StoreDistance(w) \/ StoreTsc(w)
             \/ ResetMip(w) \/ WorkerUnlock(w)
      PROVE  ThreadType'
  BY <1>0, <1>6 DEF WorkerLock, DivideByZero, StoreIndex, StoreDistance, StoreTsc, ResetMip,
                    WorkerUnlock, Advance, countVars
<1>7. CASE Echo \/ Finished \/ UNCHANGED vars
  BY <1>7, <1>3 DEF Echo, Finished, vars, countVars
<1> QED
  BY <1>1, <1>2, <1>3, <1>4, <1>5, <1>6, <1>7 DEF Next, Proceed, Measure

\* Types and counts together are inductive.
LEMMA TypeInvStep == TypeInv /\ [Next]_vars => TypeInv'
<1> SUFFICES ASSUME TypeInv, [Next]_vars PROVE TypeInv'
  OBVIOUS
<1>1. DeviceType' /\ BufferType' /\ CallerType' /\ ThreadType' /\ CountType' /\ Counted'
  BY DeviceTypeStep, BufferTypeStep, CallerTypeStep, ThreadTypeStep, CountTypeStep, CountedStep
     DEF TypeInv
<1>2. TypeOK'
  BY <1>1 DEF TypeOK, DeviceType, BufferType, CallerType, ThreadType, CountType
<1> QED
  BY <1>1, <1>2 DEF TypeInv

\* So they always hold.
LEMMA TypeInvariant == Spec => []TypeInv
<1>1. Init => TypeInv
  <2> SUFFICES ASSUME Init PROVE TypeInv
    OBVIOUS
  <2>1. DeviceType /\ CountType
    BY FreeRecord DEF Init, DeviceType, CountType
  <2>2. BufferType
    BY FreeRecord DEF Init, BufferType
  <2>3. CallerType
    BY FreeRecord DEF Init, CallerType, NoReturn
  <2>4. ThreadType
    BY FreeRecord, HcsrAssumption DEF Init, ThreadType
  <2>5. Due = {} /\ Unstamped = {} /\ Closing = {}
    BY DEF Init, Due, Unstamped, Closing
  <2>6. Cardinality(Due) = 0 /\ Cardinality(Unstamped) = 0 /\ Cardinality(Closing) = 0
    BY <2>5, FS_EmptySet
  <2>7. Counted
    BY <2>6 DEF Init, Counted
  <2> QED
    BY <2>1, <2>2, <2>3, <2>4, <2>7, TypeParts DEF TypeInv
<1> QED
  BY <1>1, TypeInvStep, PTL DEF Spec

\* Every variable of the driver keeps its type, whichever calls are made and
\* whatever fails: the index stays in the buffer (HCSR_Driver.c:300, 309), and
\* there are no more samples than calls.
THEOREM TypeCorrect == Spec => []TypeOK
<1>1. TypeInv => TypeOK
  BY DEF TypeInv
<1> QED
  BY <1>1, TypeInvariant, PTL

-----------------------------------------------------------------------------
(* One session: the device is opened once, and never released.              *)

OneSession == Calls \cap {"release", "reopen"} = {}

\* Nothing runs on a closed device, and nobody closes it.
SessionInv ==
    /\ \A p \in Procs : pc[p] \notin {"relCheck", "relStop", "relWait", "relInit"}
    /\ ~open => /\ \A p \in Procs : pc[p] = "idle"
                /\ \A w \in Workers : wpc[w] = "idle"

LockInv == LockExclusion /\ SessionInv

\* No step closes the device, and none starts anything on a closed one.
LEMMA SessionStep ==
    ASSUME OneSession PROVE TypeOK /\ SessionInv /\ [Next]_vars => SessionInv'
<1> SUFFICES ASSUME TypeOK, SessionInv, [Next]_vars PROVE SessionInv'
  OBVIOUS
<1> USE DEF SessionInv
<1>P. pc = [p \in Procs |-> pc[p]] /\ wpc = [w \in Workers |-> wpc[w]] /\ open \in BOOLEAN
  BY DEF TypeOK
<1>1. ASSUME NEW p \in Procs, Open(p) \/ ConfigPins(p) \/ SetParameters(p) PROVE SessionInv'
  BY <1>1 DEF Open, ConfigPins, SetParameters, procVars
<1>2. ASSUME NEW p \in Procs, Write(p) \/ Read(p) PROVE SessionInv'
  BY <1>2, <1>P DEF Write, Read, Enter, Goto, Return, devVars
<1>3. ASSUME NEW p \in Procs, Release(p) \/ RelCheck(p) \/ RelStop(p) \/ RelWait(p) \/ RelInit(p) PROVE FALSE
  BY <1>3 DEF Release, RelCheck, RelStop, RelWait, RelInit, OneSession
<1>4. ASSUME NEW p \in Procs,
             ClearSlot(p) \/ ClearIndex(p) \/ CheckMip(p) \/ SetMip(p) \/ StartLock(p)
             \/ StartThread(p) \/ StartFails(p) \/ StartUnlock(p) \/ ReadLock(p) \/ ReadSlot(p)
             \/ ReadEmpty(p) \/ AgainLock(p) \/ ReadAgain(p)
      PROVE  SessionInv'
  <2>1. pc[p] # "idle" /\ open' = open
    BY <1>4 DEF ClearSlot, ClearIndex, CheckMip, SetMip, StartLock, StartThread, StartFails,
                StartUnlock, ReadLock, ReadSlot, ReadEmpty, AgainLock, ReadAgain, devVars
  <2>2. \A q \in Procs : pc'[q] \notin {"relCheck", "relStop", "relWait", "relInit"}
    BY <1>4, <1>P DEF ClearSlot, ClearIndex, CheckMip, SetMip, StartLock, StartThread, StartFails,
                StartUnlock, ReadLock, ReadSlot, ReadEmpty, AgainLock, ReadAgain, Goto, Return
  <2> QED
    BY <2>1, <2>2
<1>5. ASSUME NEW w \in Workers, Measure(w) PROVE SessionInv'
  BY <1>5, <1>P DEF Measure, WorkerLock, Trigger, Average, DivideByZero, StoreIndex, StoreDistance,
                    StoreTsc, ResetMip, WorkerUnlock, devVars, procVars
<1>6. CASE Echo \/ Finished \/ UNCHANGED vars
  BY <1>6 DEF Echo, Finished, vars, devVars, procVars, workVars
<1> QED
  BY <1>1, <1>2, <1>3, <1>4, <1>5, <1>6 DEF Next, Proceed

\* The positions between taking the lock and leaving it.
LEMMA LockStep ==
    ASSUME OneSession PROVE TypeOK /\ LockInv /\ [Next]_vars => LockExclusion'
<1> SUFFICES ASSUME TypeOK, LockInv, [Next]_vars PROVE LockExclusion'
  OBVIOUS
<1> USE DEF LockInv, LockExclusion
<1>P. pc = [p \in Procs |-> pc[p]] /\ wpc = [w \in Workers |-> wpc[w]]
  BY DEF TypeOK
<1>N. None \notin Procs \cup Workers /\ Procs \cap Workers = {}
  BY HcsrAssumption
<1>1. ASSUME NEW p \in Procs, Open(p) PROVE LockExclusion'
  BY <1>1 DEF Open, SessionInv, procVars, workVars, OneSession
<1>2. ASSUME NEW p \in Procs, Release(p) \/ RelCheck(p) \/ RelStop(p) \/ RelWait(p) \/ RelInit(p) PROVE FALSE
  BY <1>2 DEF Release, RelCheck, RelStop, RelWait, RelInit, SessionInv, OneSession
<1>3. ASSUME NEW p \in Procs, StartLock(p) \/ ReadLock(p) \/ AgainLock(p) PROVE LockExclusion'
  <2>1. lock = None /\ lock' = p /\ wpc' = wpc
    BY <1>3 DEF StartLock, ReadLock, AgainLock, Acquire, workVars
  <2>2. \A q \in Procs \ {p} : pc'[q] = pc[q]
    BY <1>3, <1>P DEF StartLock, ReadLock, AgainLock, Goto
  <2> QED
    BY <2>1, <2>2, <1>N
<1>4. ASSUME NEW p \in Procs, StartUnlock(p) \/ ReadSlot(p) \/ ReadAgain(p) PROVE LockExclusion'
  <2>1. lock = p /\ wpc' = wpc
    BY <1>4 DEF StartUnlock, ReadSlot, ReadAgain, workVars
  <2>2. \A q \in Procs \ {p} : pc'[q] = pc[q]
    BY <1>4, <1>P DEF StartUnlock, ReadSlot, ReadAgain, Goto, Return
  <2>3. pc'[p] \in {"idle", "readEmpty"}
    BY <1>4, <1>P DEF StartUnlock, ReadSlot, ReadAgain, Goto, Return
  <2> QED
    BY <2>1, <2>2, <2>3, <1>N
<1>5. ASSUME NEW p \in Procs,
             Write(p) \/ Read(p) \/ ClearSlot(p) \/ ClearIndex(p) \/ CheckMip(p) \/ SetMip(p)
             \/ StartFails(p) \/ ReadEmpty(p)
      PROVE  LockExclusion'
  <2>1. lock' = lock /\ wpc' = wpc
    BY <1>5 DEF Write, Read, ClearSlot, ClearIndex, CheckMip, SetMip, StartFails, ReadEmpty, workVars
  <2>2. \A q \in Procs \ {p} : pc'[q] = pc[q]
    BY <1>5, <1>P DEF Write, Read, ClearSlot, ClearIndex, CheckMip, SetMip, StartFails, ReadEmpty,
                      Enter, Goto, Return
  <2>3. pc'[p] \notin {"start", "startUnlock", "read", "again"}
    BY <1>5, <1>P DEF Write, Read, ClearSlot, ClearIndex, CheckMip, SetMip, StartFails, ReadEmpty,
                      Enter, Goto, Return
  <2> QED
    BY <2>1, <2>2, <2>3
<1>6. ASSUME NEW p \in Procs, StartThread(p) PROVE LockExclusion'
  BY <1>6, <1>P DEF StartThread, Goto
<1>7. ASSUME NEW p \in Procs, ConfigPins(p) \/ SetParameters(p) PROVE LockExclusion'
  BY <1>7 DEF ConfigPins, SetParameters, procVars, workVars
<1>8. ASSUME NEW w \in Workers, WorkerLock(w) PROVE LockExclusion'
  <2>1. lock = None /\ lock' = w /\ pc' = pc
    BY <1>8 DEF WorkerLock, Acquire, procVars
  <2>2. \A v \in Workers \ {w} : wpc'[v] = wpc[v]
    BY <1>8, <1>P DEF WorkerLock, Advance
  <2> QED
    BY <2>1, <2>2, <1>N
<1>9. ASSUME NEW w \in Workers, WorkerUnlock(w) PROVE LockExclusion'
  <2>1. lock = w /\ pc' = pc
    BY <1>9 DEF WorkerUnlock, procVars
  <2>2. wpc' = [wpc EXCEPT ![w] = "idle"]
    BY <1>9 DEF WorkerUnlock, Advance
  <2> QED
    BY <2>1, <2>2, <1>N, <1>P
<1>10. ASSUME NEW w \in Workers,
              Trigger(w) \/ Average(w) \/ DivideByZero(w) \/ StoreIndex(w) \/ StoreDistance(w)
              \/ StoreTsc(w) \/ ResetMip(w)
       PROVE  LockExclusion'
  <2>1. lock = w /\ lock' = lock /\ pc' = pc
    BY <1>10 DEF Trigger, Average, DivideByZero, StoreIndex, StoreDistance, StoreTsc, ResetMip,
                 procVars
  <2>2. \A v \in Workers \ {w} : wpc'[v] = wpc[v]
    BY <1>10, <1>P DEF Trigger, Average, DivideByZero, StoreIndex, StoreDistance, StoreTsc, ResetMip,
                       Advance
  <2> QED
    BY <2>1, <2>2
<1>11. CASE Echo \/ Finished \/ UNCHANGED vars
  BY <1>11 DEF Echo, Finished, vars, procVars, workVars
<1> QED
  BY <1>1, <1>2, <1>3, <1>4, <1>5, <1>6, <1>7, <1>8, <1>9, <1>10, <1>11 DEF Next, Proceed, Measure

\* In one session lock and session are as they should, always.
LEMMA LockInvariant == ASSUME OneSession PROVE Spec => []LockInv
<1>1. Init => LockInv
  BY DEF Init, LockInv, LockExclusion, SessionInv
<1>2. TypeOK /\ LockInv /\ [Next]_vars => LockInv'
  BY LockStep, SessionStep DEF LockInv
<1> QED
  BY <1>1, <1>2, TypeCorrect, PTL DEF Spec

\* buffer_lock excludes, for any number of callers and threads and whatever
\* fails, as long as nobody makes the lock anew: a release does (HCSR_Driver.c:893)
\* when a thread has lowered the flag and not left the lock, an open any time (771).
THEOREM LockAlwaysExcludes == ASSUME OneSession PROVE Spec => []LockExclusion
<1>1. LockInv => LockExclusion
  BY DEF LockInv
<1> QED
  BY <1>1, LockInvariant, PTL

-----------------------------------------------------------------------------
(* The buffer of a session without clearing writes is HcsrFifo.             *)

Appending == Operations \subseteq {0}

Writing == {w \in Workers : wpc[w] \in {"distance", "tsc"}}
Samples == {Sampled(n) : n \in 1..MaxCalls}

\* No slot is cleared; what a thread writes has been sampled; its first store
\* stays until its second; all other slots hold whole records.
BufferInv ==
    /\ \A p \in Procs : pc[p] \notin {"clear", "clearIndex"}
    /\ \A w \in Workers : wpc[w] \in {"index", "distance", "tsc"} => stamp[w] \in 1..MaxCalls
    /\ \A w \in Workers : wpc[w] = "tsc" => buffer[bufferIndex].distance = stamp[w]
    /\ \A i \in Slots : buffer[i] \in Samples \cup {Free} \/ (i = bufferIndex /\ Writing # {})
    /\ fifoOut \in Samples \cup {Free}

StoreInv == TypeInv /\ LockInv /\ BufferInv

\* Whoever writes is alone and has the lock.
LEMMA WriterAlone ==
    ASSUME LockExclusion, NEW w \in Workers, wpc[w] \in {"distance", "tsc"}
    PROVE  Writing = {w}
  BY DEF LockExclusion, Writing

\* If the lock's owner does not write, nobody does.
LEMMA NobodyWrites ==
    ASSUME LockExclusion, lock \notin Writing PROVE Writing = {}
  BY DEF LockExclusion, Writing

\* Then the buffer is as it is seen.
LEMMA SettledAtRest ==
    ASSUME TypeOK, Writing = {} PROVE Settled = buffer
  BY DEF TypeOK, Settled, Writing

\* While a thread writes, its record is seen where it will be.
LEMMA SettledBy ==
    ASSUME TypeOK, LockExclusion, NEW w \in Workers, wpc[w] \in {"distance", "tsc"}
    PROVE  Settled = [buffer EXCEPT ![bufferIndex] = Sampled(stamp[w])]
<1>1. Writing = {w}
  BY WriterAlone
<1>2. (CHOOSE v \in Writing : TRUE) = w
  BY <1>1
<1>3. Settled = [i \in Slots |-> IF i = bufferIndex THEN Sampled(stamp[w]) ELSE buffer[i]]
  BY <1>1, <1>2 DEF Settled, Writing
<1> QED
  BY <1>3 DEF TypeOK

\* A fifoRead of whole records: what it leaves and returns is whole, and it is
\* a read of HcsrFifo.
LEMMA FifoReadWhole ==
    ASSUME TypeOK, FifoRead, Writing = {}, Writing' = {},
           \A i \in Slots : buffer[i] \in Samples \cup {Free},
           TypeOK'
    PROVE  /\ \A i \in Slots : buffer'[i] \in Samples \cup {Free}
           /\ fifoOut' \in Samples \cup {Free}
           /\ Fifo!FifoReadEmpty \/ Fifo!FifoReadSample
<1>1. buffer \in [Slots -> Record] /\ bufferIndex \in Slots /\ Settled = buffer /\ Settled' = buffer'
  BY SettledAtRest DEF TypeOK, Settled, Writing
<1>2. CASE buffer[bufferIndex].tsc = 0
  <2>1. buffer[bufferIndex] \notin Samples
    BY <1>2 DEF Samples, Sampled
  <2>2. buffer[bufferIndex] = Free
    BY <1>1, <2>1
  <2>3. fifoOut' = Free /\ buffer' = buffer /\ bufferIndex' = bufferIndex
    BY <1>2 DEF FifoRead
  <2>4. Fifo!FifoReadEmpty
    BY <1>1, <2>2, <2>3 DEF Fifo!FifoReadEmpty
  <2> QED
    BY <2>3, <2>4
<1>3. CASE buffer[bufferIndex].tsc # 0
  <2>1. buffer[bufferIndex] # Free
    BY <1>3 DEF Free
  <2>2. /\ fifoOut' = buffer[bufferIndex] /\ buffer' = [buffer EXCEPT ![bufferIndex] = Free]
        /\ bufferIndex' = IF bufferIndex = 0 THEN Size - 1 ELSE bufferIndex - 1
    BY <1>3 DEF FifoRead
  <2>3. bufferIndex' = Fifo!IndexDown(bufferIndex)
    BY <1>1, <2>2, HcsrAssumption DEF Fifo!IndexDown, Slots
  <2>4. Fifo!FifoReadSample
    BY <1>1, <2>1, <2>2, <2>3 DEF Fifo!FifoReadSample
  <2> QED
    BY <1>1, <2>2, <2>4
<1> QED
  BY <1>2, <1>3

\* The second store of fifoWrite makes a whole record of the first.
LEMMA StoredWhole ==
    ASSUME TypeOK, BufferInv, NEW w \in Workers, StoreTsc(w)
    PROVE  buffer'[bufferIndex] = Sampled(stamp[w])
<1>1. buffer[bufferIndex] \in Record /\ bufferIndex \in Slots /\ buffer \in [Slots -> Record]
  BY DEF TypeOK
<1>2. buffer[bufferIndex].distance = stamp[w]
  BY DEF BufferInv, StoreTsc
<1>3. buffer'[bufferIndex] = [buffer[bufferIndex] EXCEPT !.tsc = stamp[w]]
  BY <1>1 DEF StoreTsc
<1> QED
  BY <1>1, <1>2, <1>3 DEF Record, Sampled

\* Every step keeps the buffer's invariant.
LEMMA BufferStep ==
    ASSUME OneSession, Appending
    PROVE  StoreInv /\ [Next]_vars => BufferInv'
<1> SUFFICES ASSUME StoreInv, [Next]_vars PROVE BufferInv'
  OBVIOUS
<1>0. TypeOK /\ LockExclusion /\ BufferInv /\ SessionInv
  BY DEF StoreInv, TypeInv, LockInv
<1>00. TypeOK' /\ LockExclusion'
  BY TypeInvStep, LockStep DEF StoreInv, TypeInv
<1>P. pc = [p \in Procs |-> pc[p]] /\ wpc = [w \in Workers |-> wpc[w]]
      /\ stamp = [w \in Workers |-> stamp[w]]
  BY <1>0 DEF TypeOK
<1>N. None \notin Procs \cup Workers /\ Procs \cap Workers = {}
  BY HcsrAssumption
\* Steps that leave the buffer and bring no thread near it.
<1>K. ASSUME UNCHANGED fifoVars,
             \A p \in Procs : pc'[p] \notin {"clear", "clearIndex"},
             \A w \in Workers : wpc'[w] \in {"distance", "tsc"} <=> wpc[w] \in {"distance", "tsc"},
             \A w \in Workers : wpc'[w] \in {"index", "distance", "tsc"} =>
                 wpc'[w] = wpc[w] /\ stamp'[w] = stamp[w]
      PROVE  BufferInv'
  <2>1. Writing' = Writing
    BY <1>K DEF Writing
  <2> QED
    BY <1>0, <1>K, <2>1 DEF BufferInv, fifoVars
<1>1. ASSUME NEW p \in Procs, Open(p) PROVE BufferInv'
  <2>1. wpc' = wpc /\ pc' = pc /\ stamp' = stamp /\ \A w \in Workers : wpc[w] = "idle"
    BY <1>1, <1>0 DEF Open, OneSession, SessionInv, workVars, procVars
  <2>2. buffer' = [i \in Slots |-> Free] /\ fifoOut' = fifoOut
    BY <1>1 DEF Open, InitializeDevice
  <2> QED
    BY <1>0, <2>1, <2>2 DEF BufferInv
<1>2. ASSUME NEW p \in Procs, Release(p) \/ RelCheck(p) \/ RelStop(p) \/ RelWait(p) \/ RelInit(p)
                              \/ ClearSlot(p) \/ ClearIndex(p)
      PROVE  FALSE
  BY <1>2, <1>0 DEF Release, RelCheck, RelStop, RelWait, RelInit, ClearSlot, ClearIndex, SessionInv,
                    OneSession, BufferInv
<1>3. ASSUME NEW p \in Procs, ReadSlot(p) \/ ReadAgain(p) PROVE BufferInv'
  <2>1. lock = p /\ wpc' = wpc /\ stamp' = stamp /\ FifoRead
    BY <1>0, <1>3 DEF ReadSlot, ReadAgain, LockExclusion, workVars
  <2>2. Writing = {} /\ Writing' = {}
    BY <1>0, <1>N, <2>1, NobodyWrites DEF Writing
  <2>3. \A q \in Procs : pc'[q] \notin {"clear", "clearIndex"}
    BY <1>0, <1>3, <1>P DEF ReadSlot, ReadAgain, Goto, Return, BufferInv
  <2>4. \A w \in Workers : wpc[w] \notin {"distance", "tsc"}
    BY <2>2 DEF Writing
  <2>5. \A i \in Slots : buffer[i] \in Samples \cup {Free}
    BY <1>0, <2>2 DEF BufferInv
  <2>6. (\A i \in Slots : buffer'[i] \in Samples \cup {Free}) /\ fifoOut' \in Samples \cup {Free}
    BY <1>0, <1>00, <2>1, <2>2, <2>5, FifoReadWhole
  <2> QED
    BY <1>0, <2>1, <2>3, <2>4, <2>6 DEF BufferInv
<1>4. ASSUME NEW p \in Procs, Write(p) PROVE BufferInv'
  <2>1. UNCHANGED <<fifoVars, wpc, stamp>>
    BY <1>4 DEF Write, workVars
  <2>2. \A q \in Procs : pc'[q] \notin {"clear", "clearIndex"}
    BY <1>0, <1>4, <1>P DEF Write, Goto, Return, BufferInv, Appending
  <2> QED
    BY <2>1, <2>2, <1>K
<1>5. ASSUME NEW p \in Procs,
             ConfigPins(p) \/ SetParameters(p) \/ Read(p) \/ CheckMip(p) \/ SetMip(p)
             \/ StartLock(p) \/ StartFails(p) \/ StartUnlock(p) \/ ReadLock(p) \/ ReadEmpty(p)
             \/ AgainLock(p)
      PROVE  BufferInv'
  <2>1. UNCHANGED <<fifoVars, wpc, stamp>>
    BY <1>5 DEF ConfigPins, SetParameters, Read, CheckMip, SetMip, StartLock, StartFails, StartUnlock,
                ReadLock, ReadEmpty, AgainLock, workVars
  <2>2. \A q \in Procs : pc'[q] \notin {"clear", "clearIndex"}
    BY <1>0, <1>5, <1>P DEF ConfigPins, SetParameters, Read, CheckMip, SetMip, StartLock, StartFails,
                StartUnlock, ReadLock, ReadEmpty, AgainLock, Enter, Goto, Return, procVars, BufferInv
  <2> QED
    BY <2>1, <2>2, <1>K
<1>6. ASSUME NEW p \in Procs, StartThread(p) PROVE BufferInv'
  <2>1. UNCHANGED <<fifoVars, stamp>>
    BY <1>6 DEF StartThread
  <2>2. \A q \in Procs : pc'[q] \notin {"clear", "clearIndex"}
    BY <1>0, <1>6, <1>P DEF StartThread, Goto, BufferInv
  <2>3. wpc[NewThread] = "idle" /\ NewThread \in Workers /\ wpc' = [wpc EXCEPT ![NewThread] = "lock"]
    BY <1>6 DEF StartThread, NewThread
  <2>4. \A w \in Workers : wpc'[w] = IF w = NewThread THEN "lock" ELSE wpc[w]
    BY <2>3, <1>P
  <2> QED
    BY <2>1, <2>2, <2>3, <2>4, <1>K
<1>7. ASSUME NEW w \in Workers, Average(w) PROVE BufferInv'
  <2>1. UNCHANGED <<fifoVars, pc>>
    BY <1>7 DEF Average, procVars
  <2>2. /\ wpc[w] = "sample" /\ wpc'[w] = "index" /\ stamp'[w] = clock + 1
        /\ \A v \in Workers \ {w} : wpc'[v] = wpc[v] /\ stamp'[v] = stamp[v]
    BY <1>7, <1>P DEF Average, Advance
  <2>3. stamp'[w] \in 1..MaxCalls
    BY <1>0, <1>00, <2>2, HcsrAssumption DEF TypeOK, Stamps
  <2>4. Writing' = Writing
    BY <2>2 DEF Writing
  <2> QED
    BY <1>0, <2>1, <2>2, <2>3, <2>4 DEF BufferInv, fifoVars
<1>8. ASSUME NEW w \in Workers, StoreIndex(w) PROVE BufferInv'
  <2>1. UNCHANGED <<buffer, fifoOut, pc, stamp>> /\ lock = w
    BY <1>0, <1>8 DEF StoreIndex, procVars, LockExclusion
  <2>2. /\ wpc[w] = "index" /\ wpc'[w] = "distance"
        /\ \A v \in Workers \ {w} : wpc'[v] = wpc[v]
    BY <1>8, <1>P DEF StoreIndex, Advance
  <2>3. Writing = {}
    BY <1>0, <2>1, <2>2, NobodyWrites DEF Writing
  <2>4. \A v \in Workers : wpc'[v] # "tsc"
    BY <2>2, <2>3 DEF Writing
  <2> QED
    BY <1>0, <2>1, <2>2, <2>3, <2>4 DEF BufferInv
<1>9. ASSUME NEW w \in Workers, StoreDistance(w) PROVE BufferInv'
  <2>1. UNCHANGED <<bufferIndex, fifoOut, pc, stamp>> /\ Writing = {w}
    BY <1>0, <1>9, WriterAlone DEF StoreDistance, procVars
  <2>2. wpc'[w] = "tsc" /\ \A v \in Workers \ {w} : wpc'[v] = wpc[v]
    BY <1>9, <1>P DEF StoreDistance, Advance
  <2>3. w \in Writing'
    BY <2>2 DEF Writing
  <2>4. buffer' = [buffer EXCEPT ![bufferIndex].distance = stamp[w]]
    BY <1>9 DEF StoreDistance
  <2>5. buffer'[bufferIndex].distance = stamp[w]
        /\ \A i \in Slots : i # bufferIndex => buffer'[i] = buffer[i]
    BY <1>0, <2>4 DEF TypeOK, Record
  <2>6. \A v \in Workers : wpc'[v] = "tsc" => v = w
    BY <2>1, <2>2 DEF Writing
  <2>7. stamp[w] \in 1..MaxCalls
    BY <1>0, <1>9 DEF BufferInv, StoreDistance
  <2> QED
    BY <1>0, <2>1, <2>2, <2>3, <2>5, <2>6, <2>7 DEF BufferInv
<1>10. ASSUME NEW w \in Workers, StoreTsc(w) PROVE BufferInv'
  <2>1. UNCHANGED <<bufferIndex, fifoOut, pc, stamp>> /\ Writing = {w}
    BY <1>0, <1>10, WriterAlone DEF StoreTsc, procVars
  <2>2. wpc'[w] = "mip" /\ \A v \in Workers \ {w} : wpc'[v] = wpc[v]
    BY <1>10, <1>P DEF StoreTsc, Advance
  <2>3. \A i \in Slots : i # bufferIndex => buffer'[i] = buffer[i]
    BY <1>0, <1>10 DEF TypeOK, StoreTsc
  <2>4. buffer'[bufferIndex] = Sampled(stamp[w])
    BY <1>0, <1>10, StoredWhole
  <2>5. buffer'[bufferIndex] \in Samples
    BY <1>0, <1>10, <2>4 DEF BufferInv, StoreTsc, Samples
  <2>6. \A v \in Workers : wpc'[v] # "tsc"
    BY <2>1, <2>2 DEF Writing
  <2> QED
    BY <1>0, <2>1, <2>2, <2>3, <2>5, <2>6 DEF BufferInv
<1>11. ASSUME NEW w \in Workers,
              WorkerLock(w) \/ Trigger(w) \/ DivideByZero(w) \/ ResetMip(w) \/ WorkerUnlock(w)
       PROVE  BufferInv'
  <2>1. UNCHANGED <<fifoVars, pc, stamp>>
    BY <1>11 DEF WorkerLock, Trigger, DivideByZero, ResetMip, WorkerUnlock, procVars
  <2>2. \A v \in Workers \ {w} : wpc'[v] = wpc[v]
    BY <1>11, <1>P DEF WorkerLock, Trigger, DivideByZero, ResetMip, WorkerUnlock, Advance
  <2>3. wpc[w] \notin {"index", "distance", "tsc"} /\ wpc'[w] \notin {"index", "distance", "tsc"}
    BY <1>11, <1>P DEF WorkerLock, Trigger, DivideByZero, ResetMip, WorkerUnlock, Advance
  <2> QED
    BY <1>0, <2>1, <2>2, <2>3, <1>K DEF BufferInv
<1>12. CASE Echo \/ Finished \/ UNCHANGED vars
  <2>1. UNCHANGED <<fifoVars, pc, wpc, stamp>>
    BY <1>12 DEF Echo, Finished, vars, procVars, workVars
  <2> QED
    BY <1>0, <2>1, <1>K DEF BufferInv
<1> QED
  BY <1>1, <1>2, <1>3, <1>4, <1>5, <1>6, <1>7, <1>8, <1>9, <1>10, <1>11, <1>12 DEF Next, Proceed, Measure

\* The same after a step.
LEMMA SettledAtRestPrimed ==
    ASSUME TypeOK', Writing' = {} PROVE Settled' = buffer'
  BY DEF TypeOK, Settled, Writing

\* The same, after a step, while a thread writes.
LEMMA SettledByPrimed ==
    ASSUME TypeOK', LockExclusion', NEW w \in Workers, wpc'[w] \in {"distance", "tsc"}
    PROVE  Settled' = [buffer' EXCEPT ![bufferIndex'] = Sampled(stamp'[w])]
<1>1. Writing' = {w}
  BY DEF LockExclusion, Writing
<1>2. (CHOOSE v \in Writing' : TRUE) = w
  BY <1>1
<1>3. Settled' = [i \in Slots |-> IF i = bufferIndex' THEN Sampled(stamp'[w]) ELSE buffer'[i]]
  BY <1>1, <1>2 DEF Settled, Writing, Sampled
<1> QED
  BY <1>3 DEF TypeOK

\* What is seen through the lock changes by a step of HcsrFifo, or not at all.
LEMMA Simulation ==
    ASSUME OneSession, Appending
    PROVE  StoreInv /\ StoreInv' /\ [Next]_vars => [Fifo!Next]_(Fifo!vars)
<1> SUFFICES ASSUME StoreInv, StoreInv', [Next]_vars PROVE [Fifo!Next]_(Fifo!vars)
  OBVIOUS
<1>0. TypeOK /\ LockExclusion /\ BufferInv /\ SessionInv
  BY DEF StoreInv, TypeInv, LockInv
<1>00. TypeOK' /\ LockExclusion' /\ BufferInv'
  BY DEF StoreInv, TypeInv, LockInv
<1>P. wpc = [w \in Workers |-> wpc[w]] /\ stamp = [w \in Workers |-> stamp[w]]
  BY <1>0 DEF TypeOK
<1>N. None \notin Procs \cup Workers /\ Procs \cap Workers = {}
  BY HcsrAssumption
\* Steps that leave the buffer and the threads that write.
<1>K. ASSUME UNCHANGED fifoVars, Writing' = Writing,
             \A w \in Writing : stamp'[w] = stamp[w]
      PROVE  UNCHANGED Fifo!vars
  <2>1. CASE Writing = {}
    BY <1>0, <1>00, <1>K, <2>1, SettledAtRest DEF Fifo!vars, fifoVars, Settled, Writing
  <2>2. ASSUME NEW w \in Writing PROVE UNCHANGED Fifo!vars
    <3>1. wpc[w] \in {"distance", "tsc"} /\ wpc'[w] \in {"distance", "tsc"} /\ w \in Workers
      BY <1>K, <2>2 DEF Writing
    <3>2. Settled = [buffer EXCEPT ![bufferIndex] = Sampled(stamp[w])]
      BY <1>0, <3>1, SettledBy
    <3>3. Settled' = [buffer' EXCEPT ![bufferIndex'] = Sampled(stamp'[w])]
      BY <1>00, <3>1, SettledByPrimed
    <3> QED
      BY <1>K, <2>2, <3>2, <3>3 DEF Fifo!vars, fifoVars, Sampled
  <2> QED
    BY <2>1, <2>2
<1>1. ASSUME NEW p \in Procs, Open(p) PROVE Fifo!FifoClear
  <2>1. wpc' = wpc /\ \A w \in Workers : wpc[w] = "idle"
    BY <1>1, <1>0 DEF Open, OneSession, SessionInv, workVars
  <2>2. buffer' = [i \in Slots |-> Free] /\ bufferIndex' = 0 /\ fifoOut' = fifoOut
    BY <1>1 DEF Open, InitializeDevice
  <2>3. Settled' = buffer'
    BY <1>00, <2>1, SettledAtRestPrimed DEF Writing
  <2> QED
    BY <2>2, <2>3 DEF Fifo!FifoClear, Fifo!Slots, Slots
<1>2. ASSUME NEW p \in Procs, Release(p) \/ RelCheck(p) \/ RelStop(p) \/ RelWait(p) \/ RelInit(p)
                              \/ ClearSlot(p) \/ ClearIndex(p)
      PROVE  FALSE
  BY <1>2, <1>0 DEF Release, RelCheck, RelStop, RelWait, RelInit, ClearSlot, ClearIndex, SessionInv,
                    OneSession, BufferInv
<1>3. ASSUME NEW p \in Procs, ReadSlot(p) \/ ReadAgain(p)
      PROVE  Fifo!FifoReadEmpty \/ Fifo!FifoReadSample
  <2>1. lock = p /\ wpc' = wpc /\ FifoRead
    BY <1>0, <1>3 DEF ReadSlot, ReadAgain, LockExclusion, workVars
  <2>2. Writing = {} /\ Writing' = {}
    BY <1>0, <1>N, <2>1, NobodyWrites DEF Writing
  <2>3. \A i \in Slots : buffer[i] \in Samples \cup {Free}
    BY <1>0, <2>2 DEF BufferInv
  <2> QED
    BY <1>0, <1>00, <2>1, <2>2, <2>3, FifoReadWhole
<1>4. ASSUME NEW p \in Procs,
             ConfigPins(p) \/ SetParameters(p) \/ Write(p) \/ Read(p) \/ CheckMip(p) \/ SetMip(p)
             \/ StartLock(p) \/ StartFails(p) \/ StartUnlock(p) \/ ReadLock(p) \/ ReadEmpty(p)
             \/ AgainLock(p)
      PROVE  UNCHANGED Fifo!vars
  <2>1. UNCHANGED <<fifoVars, wpc, stamp>>
    BY <1>4 DEF ConfigPins, SetParameters, Write, Read, CheckMip, SetMip, StartLock, StartFails,
                StartUnlock, ReadLock, ReadEmpty, AgainLock, workVars
  <2> QED
    BY <2>1, <1>K DEF Writing
<1>5. ASSUME NEW p \in Procs, StartThread(p) PROVE UNCHANGED Fifo!vars
  <2>1. UNCHANGED <<fifoVars, stamp>>
    BY <1>5 DEF StartThread
  <2>2. wpc[NewThread] = "idle" /\ NewThread \in Workers /\ wpc' = [wpc EXCEPT ![NewThread] = "lock"]
    BY <1>5 DEF StartThread, NewThread
  <2>3. \A w \in Workers : wpc'[w] = IF w = NewThread THEN "lock" ELSE wpc[w]
    BY <2>2, <1>P
  <2>4. Writing' = Writing
    BY <2>2, <2>3 DEF Writing
  <2> QED
    BY <2>1, <2>4, <1>K
<1>6. ASSUME NEW w \in Workers, StoreIndex(w) PROVE Fifo!FifoWrite(Sampled(stamp[w]))
  <2>1. UNCHANGED <<buffer, fifoOut, stamp>> /\ lock = w
    BY <1>0, <1>6 DEF StoreIndex, LockExclusion
  <2>2. wpc[w] = "index" /\ wpc'[w] = "distance"
    BY <1>6, <1>P DEF StoreIndex, Advance
  <2>3. Writing = {}
    BY <1>0, <2>1, <2>2, NobodyWrites DEF Writing
  <2>4. Settled = buffer
    BY <1>0, <2>3, SettledAtRest
  <2>5. Settled' = [buffer' EXCEPT ![bufferIndex'] = Sampled(stamp'[w])]
    BY <1>00, <2>2, SettledByPrimed
  <2>6. bufferIndex' = Fifo!IndexUp(bufferIndex)
    BY <1>6 DEF StoreIndex, Fifo!IndexUp
  <2> QED
    BY <2>1, <2>4, <2>5, <2>6 DEF Fifo!FifoWrite, Sampled
<1>7. ASSUME NEW w \in Workers, StoreDistance(w) PROVE UNCHANGED Fifo!vars
  <2>1. UNCHANGED <<bufferIndex, fifoOut, stamp>> /\ wpc[w] = "distance" /\ wpc'[w] = "tsc"
    BY <1>7, <1>P DEF StoreDistance, Advance
  <2>2. buffer' = [buffer EXCEPT ![bufferIndex].distance = stamp[w]]
    BY <1>7 DEF StoreDistance
  <2>3. Settled = [buffer EXCEPT ![bufferIndex] = Sampled(stamp[w])]
    BY <1>0, <2>1, SettledBy
  <2>4. Settled' = [buffer' EXCEPT ![bufferIndex'] = Sampled(stamp'[w])]
    BY <1>00, <2>1, SettledByPrimed
  <2>5. Settled' = Settled
    BY <1>0, <2>1, <2>2, <2>3, <2>4 DEF TypeOK, Sampled
  <2> QED
    BY <2>1, <2>5 DEF Fifo!vars
<1>8. ASSUME NEW w \in Workers, StoreTsc(w) PROVE UNCHANGED Fifo!vars
  <2>1. UNCHANGED <<bufferIndex, fifoOut, stamp>> /\ wpc[w] = "tsc" /\ Writing = {w}
    BY <1>0, <1>8, WriterAlone DEF StoreTsc
  <2>2. wpc'[w] = "mip" /\ \A v \in Workers \ {w} : wpc'[v] = wpc[v]
    BY <1>8, <1>P DEF StoreTsc, Advance
  <2>3. Writing' = {}
    BY <2>1, <2>2 DEF Writing
  <2>4. Settled = [buffer EXCEPT ![bufferIndex] = Sampled(stamp[w])]
    BY <1>0, <2>1, SettledBy
  <2>5. Settled' = buffer'
    BY <1>00, <2>3, SettledAtRestPrimed
  <2>6. buffer'[bufferIndex] = Sampled(stamp[w])
    BY <1>0, <1>8, StoredWhole
  <2>7. buffer' = [buffer EXCEPT ![bufferIndex].tsc = stamp[w]]
    BY <1>8 DEF StoreTsc
  <2>8. Settled' = Settled
    BY <1>0, <2>4, <2>5, <2>6, <2>7 DEF TypeOK, Sampled
  <2> QED
    BY <2>1, <2>8 DEF Fifo!vars
<1>9. ASSUME NEW w \in Workers, Average(w) PROVE UNCHANGED Fifo!vars
  <2>1. UNCHANGED fifoVars
    BY <1>9 DEF Average
  <2>2. /\ wpc[w] = "sample" /\ wpc'[w] = "index"
        /\ \A v \in Workers \ {w} : wpc'[v] = wpc[v] /\ stamp'[v] = stamp[v]
    BY <1>9, <1>P DEF Average, Advance
  <2>3. Writing' = Writing /\ w \notin Writing
    BY <2>2 DEF Writing
  <2> QED
    BY <2>1, <2>2, <2>3, <1>K DEF Writing
<1>10. ASSUME NEW w \in Workers,
              WorkerLock(w) \/ Trigger(w) \/ DivideByZero(w) \/ ResetMip(w) \/ WorkerUnlock(w)
       PROVE  UNCHANGED Fifo!vars
  <2>1. UNCHANGED <<fifoVars, stamp>>
    BY <1>10 DEF WorkerLock, Trigger, DivideByZero, ResetMip, WorkerUnlock
  <2>2. \A v \in Workers \ {w} : wpc'[v] = wpc[v]
    BY <1>10, <1>P DEF WorkerLock, Trigger, DivideByZero, ResetMip, WorkerUnlock, Advance
  <2>3. wpc[w] \notin {"distance", "tsc"} /\ wpc'[w] \notin {"distance", "tsc"}
    BY <1>10, <1>P DEF WorkerLock, Trigger, DivideByZero, ResetMip, WorkerUnlock, Advance
  <2>4. Writing' = Writing
    BY <2>2, <2>3 DEF Writing
  <2> QED
    BY <2>1, <2>4, <1>K
<1>11. CASE Echo \/ Finished \/ UNCHANGED vars
  <2>1. UNCHANGED <<fifoVars, wpc, stamp>>
    BY <1>11 DEF Echo, Finished, vars, workVars
  <2> QED
    BY <2>1, <1>K DEF Writing
<1>12. ASSUME NEW w \in Workers, wpc[w] = "index"
       PROVE  Sampled(stamp[w]) \in {Sampled(n) : n \in 1..MaxCalls}
  BY <1>0, <1>12 DEF BufferInv
<1>13. ASSUME NEW w \in Workers, StoreIndex(w) PROVE Fifo!Next
  BY <1>6, <1>12, <1>13 DEF StoreIndex, Fifo!Next
<1> QED
  BY <1>1, <1>2, <1>3, <1>4, <1>5, <1>7, <1>8, <1>9, <1>10, <1>11, <1>13
     DEF Next, Proceed, Measure, Fifo!Next

\* All of it is invariant.
LEMMA StoreInvariant == ASSUME OneSession, Appending PROVE Spec => []StoreInv
<1>1. Init => BufferInv
  BY FreeRecord DEF Init, BufferInv
<1>2. TypeInv /\ LockInv /\ BufferInv /\ [Next]_vars => BufferInv'
  BY BufferStep DEF StoreInv
<1>3. TypeInv /\ LockInv /\ BufferInv => StoreInv
  BY DEF StoreInv
<1> QED
  BY <1>1, <1>2, <1>3, TypeInvariant, LockInvariant, PTL DEF Spec

\* Seen through the lock, the driver is the circular buffer with atomic
\* fifoRead and fifoWrite (HCSR_Driver.c:280, 307), for any number of callers,
\* threads and slots and whatever fails, in a session without clearing writes.
THEOREM FifoImplemented == ASSUME OneSession, Appending PROVE Spec => FifoAtomic
<1>1. Init => Fifo!Init
  <2>1. ASSUME Init PROVE Settled = [i \in Slots |-> Free]
    BY <2>1 DEF Init, Settled
  <2> QED
    BY <2>1 DEF Init, Fifo!Init, Fifo!Slots, Slots
<1>2. StoreInv /\ StoreInv' /\ [Next]_vars => [Fifo!Next]_(Fifo!vars)
  BY Simulation
<1> QED
  BY <1>1, <1>2, StoreInvariant, PTL DEF Spec, FifoAtomic, Fifo!Spec

-----------------------------------------------------------------------------
(* Sessions that follow one another.                                        *)

\* One thread, which writes and releases; it may clear, and anything may fail.
\* A read starts its thread without the flag, and of two writes both may find
\* it down: their threads outlive a release.
OneWriter ==
    /\ \A p, q \in Procs : p = q
    /\ Calls \subseteq {"write", "release"}

\* Workers that have yet to put the flag down.  One that has only buffer_lock
\* left to leave is forgotten by a release, but stores nothing any more.
Asked == {w \in Workers : wpc[w] \in {"lock", "sample", "index", "distance", "tsc", "mip"}}

\* Each is the task the device knows, was started in this session, and the flag
\* is up for it.
AskedInv == \A w \in Asked : tsk = w /\ born[w] = session /\ mip

\* So a start that saw the flag down, and a release that saw it down or waited
\* for the task, find none; nor is there one while the device is closed.
WriterInv ==
    \A p \in Procs :
        /\ pc[p] \in {"setMip", "startLock", "start", "relInit"} => Asked = {}
        /\ pc[p] \in {"startLock", "start"} => mip
        /\ pc[p] = "relWait" => local[p].task = tsk
        /\ pc[p] = "idle" /\ ~open => Asked = {}
        /\ pc[p] \notin {"readLock", "read", "readEmpty", "againLock", "again"}
        /\ \/ pc[p] \in {"idle", "relCheck", "relStop", "relWait", "relInit", "oops"}
           \/ open /\ local[p].call = "write"

IsolationInv == AskedInv /\ WriterInv

\* Every step keeps the invariant.
LEMMA IsolationStep ==
    ASSUME OneWriter PROVE TypeOK /\ IsolationInv /\ [Next]_vars => IsolationInv'
<1> SUFFICES ASSUME TypeOK, IsolationInv, [Next]_vars PROVE IsolationInv'
  OBVIOUS
<1>P. /\ pc = [p \in Procs |-> pc[p]] /\ wpc = [w \in Workers |-> wpc[w]]
      /\ born = [w \in Workers |-> born[w]] /\ local = [p \in Procs |-> local[p]]
  BY DEF TypeOK
<1>L. \A p \in Procs : local[p] = [first |-> local[p].first, slot |-> local[p].slot,
                                   call |-> local[p].call, task |-> local[p].task]
  BY DEF TypeOK
<1>W. \A p, q \in Procs : p = q
  BY DEF OneWriter
<1>1. ASSUME NEW p \in Procs, Open(p) PROVE IsolationInv'
  <2>1. pc[p] = "idle" /\ ~open /\ UNCHANGED <<pc, local, wpc>> /\ open'
    BY <1>1 DEF Open, OneWriter, procVars, workVars
  <2>2. Asked' = {}
    BY <2>1 DEF IsolationInv, WriterInv, Asked
  <2> QED
    BY <2>1, <2>2, <1>W DEF IsolationInv, AskedInv, WriterInv
<1>2. ASSUME NEW p \in Procs, StartThread(p) PROVE IsolationInv'
  <2>1. Asked = {} /\ mip /\ open /\ local[p].call = "write" /\ pc[p] = "start"
    BY <1>2 DEF StartThread, IsolationInv, WriterInv
  <2>2. NewThread \in Workers
    BY <1>2 DEF StartThread, NewThread
  <2>3. /\ tsk' = NewThread /\ born'[NewThread] = session /\ session' = session /\ mip' = mip
        /\ pc'[p] = "startUnlock" /\ local' = local /\ open' = open
    BY <1>2, <1>P, <2>2 DEF StartThread, Goto
  <2>4. Asked' \subseteq {NewThread}
    BY <1>2, <1>P, <2>1, <2>2 DEF StartThread, Asked
  <2> QED
    BY <2>1, <2>2, <2>3, <2>4, <1>W DEF IsolationInv, AskedInv, WriterInv
<1>3. ASSUME NEW w \in Workers, Measure(w) PROVE IsolationInv'
  <2>1. UNCHANGED <<pc, local, open, tsk, born, session>>
    BY <1>3 DEF Measure, WorkerLock, Trigger, Average, DivideByZero, StoreIndex, StoreDistance,
                StoreTsc, ResetMip, WorkerUnlock, procVars, devVars, countVars
  <2>2. Asked' \subseteq Asked
    BY <1>3, <1>P
       DEF Measure, WorkerLock, Trigger, Average, DivideByZero, StoreIndex, StoreDistance,
           StoreTsc, ResetMip, WorkerUnlock, Advance, workVars, Asked
  <2>3. CASE ResetMip(w)
    <3>1. w \in Asked /\ w \notin Asked'
      BY <2>3, <1>P DEF ResetMip, Advance, Asked
    <3>2. Asked' = {} /\ \A p \in Procs : pc[p] \notin {"startLock", "start"}
      BY <3>1, <2>2 DEF IsolationInv, AskedInv, WriterInv
    <3> QED
      BY <3>2, <2>1 DEF IsolationInv, AskedInv, WriterInv
  <2>4. CASE ~ResetMip(w)
    <3>1. mip' = mip
      BY <1>3, <2>4 DEF Measure, WorkerLock, Trigger, Average, DivideByZero, StoreIndex,
                        StoreDistance, StoreTsc, WorkerUnlock
    <3> QED
      BY <3>1, <2>1, <2>2 DEF IsolationInv, AskedInv, WriterInv
  <2> QED
    BY <2>3, <2>4
<1>4. ASSUME NEW p \in Procs, RelInit(p) PROVE IsolationInv'
  <2>1. Asked = {} /\ pc'[p] = "idle" /\ wpc' = wpc
    BY <1>4, <1>P DEF RelInit, Goto, workVars, IsolationInv, WriterInv
  <2>2. Asked' = {}
    BY <2>1 DEF Asked
  <2> QED
    BY <2>1, <2>2, <1>W DEF IsolationInv, AskedInv, WriterInv
<1>5. ASSUME NEW p \in Procs, ReadLock(p) \/ ReadSlot(p) \/ ReadEmpty(p) \/ AgainLock(p)
                              \/ ReadAgain(p) \/ Read(p)
      PROVE  FALSE
  BY <1>5 DEF ReadLock, ReadSlot, ReadEmpty, AgainLock, ReadAgain, Read, OneWriter, IsolationInv,
              WriterInv
<1>6. ASSUME NEW p \in Procs, ConfigPins(p) \/ SetParameters(p) PROVE IsolationInv'
  <2>1. UNCHANGED <<pc, local, open, wpc, tsk, born, session, mip>>
    BY <1>6 DEF ConfigPins, SetParameters, procVars, workVars, countVars
  <2> QED
    BY <2>1 DEF IsolationInv, AskedInv, WriterInv, Asked
<1>7. CASE Echo \/ Finished \/ UNCHANGED vars
  <2>1. UNCHANGED <<pc, local, open, wpc, tsk, born, session, mip>>
    BY <1>7 DEF Echo, Finished, vars, devVars, procVars, workVars, countVars
  <2> QED
    BY <2>1 DEF IsolationInv, AskedInv, WriterInv, Asked
<1>8. ASSUME NEW p \in Procs, Write(p) PROVE IsolationInv'
  <2>1. UNCHANGED <<open, wpc, tsk, born, session, mip>> /\ open
    BY <1>8 DEF Write, devVars, workVars
  <2>2. \/ pc'[p] = "idle"
        \/ pc'[p] \in {"checkMip", "clear"} /\ local'[p].call = "write"
    BY <1>8, <1>P DEF Write, Goto, Return
  <2> QED
    BY <2>1, <2>2, <1>W DEF IsolationInv, AskedInv, WriterInv, Asked
<1>9. ASSUME NEW p \in Procs, Release(p) PROVE IsolationInv'
  <2>1. UNCHANGED <<wpc, tsk, born, session, mip>> /\ pc'[p] = "relCheck"
    BY <1>9, <1>P DEF Release, Enter, Goto, workVars
  <2> QED
    BY <2>1, <1>W DEF IsolationInv, AskedInv, WriterInv, Asked
<1>10. ASSUME NEW p \in Procs, ClearSlot(p) \/ ClearIndex(p) PROVE IsolationInv'
  <2>1. UNCHANGED <<open, wpc, tsk, born, session, mip>>
    BY <1>10 DEF ClearSlot, ClearIndex, devVars, workVars, countVars
  <2>2. pc[p] \in {"clear", "clearIndex"} /\ pc'[p] \in {"clear", "clearIndex", "checkMip"}
    BY <1>10, <1>P DEF ClearSlot, ClearIndex, Goto
  <2>3. local'[p].call = local[p].call
    BY <1>10, <1>P, <1>L DEF ClearSlot, ClearIndex
  <2> QED
    BY <2>1, <2>2, <2>3, <1>W DEF IsolationInv, AskedInv, WriterInv, Asked
<1>11. ASSUME NEW p \in Procs, CheckMip(p) PROVE IsolationInv'
  <2>1. UNCHANGED <<open, wpc, tsk, born, session, mip, local>>
    BY <1>11 DEF CheckMip, devVars, workVars, countVars
  <2>2. pc[p] = "checkMip" /\ ((pc'[p] = "idle" /\ mip) \/ (pc'[p] = "setMip" /\ ~mip))
    BY <1>11, <1>P DEF CheckMip, Goto, Return
  <2>3. ~mip => Asked = {}
    BY DEF IsolationInv, AskedInv
  <2>4. open
    BY <2>2 DEF IsolationInv, WriterInv
  <2> QED
    BY <2>1, <2>2, <2>3, <2>4, <1>W DEF IsolationInv, AskedInv, WriterInv, Asked
<1>12. ASSUME NEW p \in Procs, SetMip(p) PROVE IsolationInv'
  <2>1. UNCHANGED <<open, wpc, tsk, born, session, local>> /\ mip'
    BY <1>12 DEF SetMip, devVars, workVars, countVars
  <2>2. pc[p] = "setMip" /\ pc'[p] = "startLock"
    BY <1>12, <1>P DEF SetMip, Goto
  <2>3. Asked = {} /\ Asked' = Asked
    BY <2>1, <2>2 DEF IsolationInv, WriterInv, Asked
  <2> QED
    BY <2>1, <2>2, <2>3, <1>W DEF IsolationInv, AskedInv, WriterInv
<1>13. ASSUME NEW p \in Procs, StartLock(p) \/ StartUnlock(p) PROVE IsolationInv'
  <2>1. UNCHANGED <<open, wpc, tsk, born, session, mip, local>>
    BY <1>13 DEF StartLock, StartUnlock, devVars, workVars, countVars
  <2>2. \/ pc[p] = "startLock" /\ pc'[p] = "start"
        \/ pc[p] = "startUnlock" /\ pc'[p] = "idle"
    BY <1>13, <1>P DEF StartLock, StartUnlock, Goto, Return
  <2> QED
    BY <2>1, <2>2, <1>W DEF IsolationInv, AskedInv, WriterInv, Asked
<1>14. ASSUME NEW p \in Procs, StartFails(p) PROVE IsolationInv'
  <2>1. UNCHANGED <<open, wpc, born, session, mip, local>>
    BY <1>14 DEF StartFails, workVars, countVars
  <2>2. pc[p] = "start" /\ pc'[p] = "idle"
    BY <1>14, <1>P DEF StartFails, Goto, Return, IsolationInv, WriterInv
  <2>3. Asked = {} /\ Asked' = Asked
    BY <2>1, <2>2 DEF IsolationInv, WriterInv, Asked
  <2> QED
    BY <2>1, <2>2, <2>3, <1>W DEF IsolationInv, AskedInv, WriterInv
<1>15. ASSUME NEW p \in Procs, RelCheck(p) PROVE IsolationInv'
  <2>1. UNCHANGED <<open, wpc, tsk, born, session, mip, local>>
    BY <1>15 DEF RelCheck, devVars, workVars, countVars
  <2>2. pc'[p] = "relStop" \/ (pc'[p] = "relInit" /\ ~mip)
    BY <1>15, <1>P DEF RelCheck, Goto
  <2>3. ~mip => Asked = {}
    BY DEF IsolationInv, AskedInv
  <2> QED
    BY <2>1, <2>2, <2>3, <1>W DEF IsolationInv, AskedInv, WriterInv, Asked
<1>16. ASSUME NEW p \in Procs, RelStop(p) PROVE IsolationInv'
  <2>1. UNCHANGED <<open, wpc, tsk, born, session, mip>>
    BY <1>16 DEF RelStop, devVars, workVars, countVars
  <2>2. \/ pc'[p] \in {"oops", "relWait"}
        \/ pc'[p] = "relInit" /\ wpc[tsk] \in {"idle", "oops"}
    BY <1>16, <1>P DEF RelStop, Goto
  <2>4. pc'[p] = "relWait" => local'[p].task = tsk
    BY <1>16, <1>P, <1>L DEF RelStop, Goto
  <2>3. wpc[tsk] \in {"idle", "oops"} => Asked = {}
    BY DEF IsolationInv, AskedInv, Asked
  <2> QED
    BY <2>1, <2>2, <2>3, <2>4, <1>W DEF IsolationInv, AskedInv, WriterInv, Asked
<1>17. ASSUME NEW p \in Procs, RelWait(p) PROVE IsolationInv'
  <2>1. UNCHANGED <<open, wpc, tsk, born, session, mip, local>>
    BY <1>17 DEF RelWait, devVars, workVars, countVars
  <2>2. pc'[p] = "relInit" /\ pc[p] = "relWait" /\ wpc[local[p].task] \in {"idle", "oops"}
    BY <1>17, <1>P DEF RelWait, Goto
  <2>3. Asked = {}
    BY <2>2 DEF IsolationInv, AskedInv, WriterInv, Asked
  <2> QED
    BY <2>1, <2>2, <2>3, <1>W DEF IsolationInv, AskedInv, WriterInv, Asked
<1> QED
  BY <1>1, <1>2, <1>3, <1>4, <1>5, <1>6, <1>7, <1>8, <1>9, <1>10, <1>11, <1>12, <1>13, <1>14,
     <1>15, <1>16, <1>17 DEF Next, Proceed

\* A release waits for the measurement its flag announces (HCSR_Driver.c:879),
\* so that no sample of an earlier session reaches the buffer after the device
\* was initialised again: with one thread that writes and releases, for any
\* number of kernel threads and slots, with clearing writes, and whatever fails.
THEOREM SessionsAlwaysIsolated == ASSUME OneWriter PROVE Spec => []SessionIsolation
<1>1. Init => IsolationInv
  BY DEF Init, IsolationInv, AskedInv, WriterInv, Asked
<1>2. TypeOK /\ IsolationInv /\ [Next]_vars => IsolationInv'
  BY IsolationStep
<1>3. IsolationInv => SessionIsolation
  BY DEF IsolationInv, AskedInv, Asked, SessionIsolation
<1> QED
  BY <1>1, <1>2, <1>3, TypeCorrect, PTL DEF Spec

=============================================================================
