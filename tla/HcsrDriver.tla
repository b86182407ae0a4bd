---------------------------- MODULE HcsrDriver ----------------------------
(***************************************************************************)
(* One HC-SR04 device of HCSR_Driver.c: the file operations its callers    *)
(* run, the kernel threads that measure, and what they share -- the        *)
(* buffer, buffer_lock, measurement_in_progress (mip) and the flags that   *)
(* say what is configured.  A step is what no other thread can cut in two: *)
(* taking or leaving buffer_lock, one shared store or test outside it, and *)
(* each of the three stores of fifoWrite, because the clearing loop of     *)
(* hcsr04_write runs beside them without the lock.                         *)
(*                                                                         *)
(* A measurement's distance and tsc are both its number: a record whose    *)
(* two fields differ was put together from two writers.  How the distance  *)
(* comes out of the echoes is module HcsrSampling's subject; here an echo  *)
(* only makes total_samples non-zero.                                      *)
(***************************************************************************)
EXTENDS Integers, FiniteSets

CONSTANTS Procs,       \* threads of the program that has the device open
          Workers,     \* kernel threads that may exist at a time
          Size,        \* FIFO_SIZE
          Triggers,    \* m + 2; 0 for an m with which it wraps
          Operations,  \* the words hcsr04_write is given: 0 appends, 1 clears
          Calls,       \* the calls made: of "read", "write", "release", "reopen"
          Faults,      \* what may fail: of "kthread", "config", "echo"
          MaxCalls,    \* bound: opens, reads, writes and releases made
          None         \* no lock owner, no task

ASSUME HcsrAssumption ==
    /\ Size \in Nat \ {0}
    /\ Triggers \in Nat
    /\ MaxCalls \in Nat
    /\ Operations \subseteq {0, 1}
    /\ None \notin Procs \cup Workers
    /\ Procs \cap Workers = {}
    /\ IsFiniteSet(Procs) /\ IsFiniteSet(Workers)

Slots == 0..(Size - 1)
ErrTask == "ERR_PTR"
Stamps == 0..MaxCalls                       \* 0 is NO_VALUE
Record == [distance : Stamps, tsc : Stamps]
Free == [distance |-> 0, tsc |-> 0]
Sampled(n) == [distance |-> n, tsc |-> n]

VARIABLES
    open,         \* is the file open?
    pins, params, \* are_pins_configured, are_m_delta_configured
    irq,          \* irq_no # NO_VALUE
    heard,        \* total_samples # 0
    mip,          \* measurement_in_progress
    tsk,          \* the kernel thread started last
    lock,         \* who holds buffer_lock
    buffer, bufferIndex,
    fifoOut,      \* what the latest fifoRead returned (history)
    pc,           \* where each process is
    local,        \* local[p]: record read first, slot to clear, who called
    ret,          \* ret[p]: how its latest read or write ended
    wpc,          \* where each worker is
    collected,    \* samples_collected of each worker
    stamp,        \* the tsc each worker took
    born,         \* the session each worker was started in (history)
    session,      \* how often the device was initialised (history)
    clock,        \* stamps handed out
    calls         \* calls made (bound)

devVars == <<open, pins, params, irq, heard, tsk>>
fifoVars == <<buffer, bufferIndex, fifoOut>>
procVars == <<pc, local, ret>>
workVars == <<wpc, collected, stamp>>
countVars == <<born, session, clock, calls>>
vars == <<devVars, mip, lock, fifoVars, procVars, workVars, countVars>>

NoReturn == [call |-> "none", code |-> "none", value |-> Free]

TypeOK ==
    /\ {open, pins, params, irq, heard, mip} \subseteq BOOLEAN
    /\ tsk \in Workers \cup {None, ErrTask}
    /\ lock \in Procs \cup Workers \cup {None}
    /\ buffer \in [Slots -> Record] /\ bufferIndex \in Slots /\ fifoOut \in Record
    /\ pc \in [Procs -> {"idle", "clear", "clearIndex", "checkMip", "setMip",
                         "startLock", "start", "startUnlock", "readLock", "read",
                         "readEmpty", "againLock", "again", "relCheck", "relStop",
                         "relWait", "relInit", "oops"}]
    /\ local \in [Procs -> [first : Record, slot : Slots, call : {"none", "read", "write"},
                            task : Workers \cup {None}]]
    /\ ret \in [Procs -> [call : {"none", "read", "write"},
                          code : {"none", "SUCCESS", "EINVAL"}, value : Record]]
    /\ wpc \in [Workers -> {"idle", "lock", "sample", "index", "distance", "tsc",
                            "mip", "unlock", "oops"}]
    /\ collected \in [Workers -> 0..Triggers]
    /\ stamp \in [Workers -> Stamps] /\ born \in [Workers -> Stamps]
    /\ {session, clock, calls} \subseteq Stamps

Init ==
    /\ open = FALSE /\ pins = FALSE /\ params = FALSE /\ irq = FALSE /\ heard = FALSE
    /\ mip = FALSE /\ tsk = None /\ lock = None
    /\ buffer = [i \in Slots |-> Free] /\ bufferIndex = 0 /\ fifoOut = Free
    /\ pc = [p \in Procs |-> "idle"]
    /\ local = [p \in Procs |-> [first |-> Free, slot |-> 0, call |-> "none", task |-> None]]
    /\ ret = [p \in Procs |-> NoReturn]
    /\ wpc = [w \in Workers |-> "idle"]
    /\ collected = [w \in Workers |-> 0]
    /\ stamp = [w \in Workers |-> 0] /\ born = [w \in Workers |-> 0]
    /\ session = 0 /\ clock = 0 /\ calls = 0

-----------------------------------------------------------------------------
(* Small vocabulary.                                                        *)

Goto(p, l) == pc' = [pc EXCEPT ![p] = l]

Return(p, c, code, v) ==
    /\ Goto(p, "idle")
    /\ ret' = [ret EXCEPT ![p] = [call |-> c, code |-> code, value |-> v]]

Acquire(x) == lock = None /\ lock' = x
ReleaseLock == lock' = None

Enter(p, l) ==
    /\ calls < MaxCalls /\ calls' = calls + 1
    /\ pc[p] = "idle" /\ Goto(p, l)

\* initialize_device: everything the device knows, its lock included.
InitializeDevice ==
    /\ pins' = FALSE /\ params' = FALSE /\ irq' = FALSE /\ heard' = FALSE
    /\ mip' = FALSE /\ tsk' = None /\ lock' = None
    /\ buffer' = [i \in Slots |-> Free] /\ bufferIndex' = 0
    /\ session' = session + 1

\* fifoRead: the slot at bufferIndex, freed, or a free record.
FifoRead ==
    IF buffer[bufferIndex].tsc = 0
    THEN fifoOut' = Free /\ UNCHANGED <<buffer, bufferIndex>>
    ELSE /\ fifoOut' = buffer[bufferIndex]
         /\ buffer' = [buffer EXCEPT ![bufferIndex] = Free]
         /\ bufferIndex' = IF bufferIndex = 0 THEN Size - 1 ELSE bufferIndex - 1

-----------------------------------------------------------------------------
(* open and ioctl.                                                          *)

\* The device list is searched and the device initialised, open or not.
Open(p) ==
    /\ "reopen" \notin Calls => ~open /\ \A q \in Procs : pc[q] = "idle"
    /\ calls < MaxCalls /\ calls' = calls + 1
    /\ pc[p] = "idle"
    /\ open' = TRUE /\ InitializeDevice
    /\ UNCHANGED <<fifoOut, procVars, workVars, born, clock>>

\* The earlier interrupt is given back first; when configuring then fails,
\* are_pins_configured keeps the value it had, and the echo pin may have
\* claimed its interrupt before a request for the trigger pin failed.
ConfigPins(p) ==
    /\ open /\ pc[p] = "idle"
    /\ \/ irq' = TRUE /\ pins' = TRUE
       \/ "config" \in Faults /\ irq' \in BOOLEAN /\ UNCHANGED pins
    /\ UNCHANGED <<open, params, heard, mip, tsk, lock, fifoVars, procVars,
                   workVars, countVars>>

SetParameters(p) ==
    /\ open /\ pc[p] = "idle"
    /\ params' = TRUE
    /\ UNCHANGED <<open, pins, irq, heard, mip, tsk, lock, fifoVars, procVars,
                   workVars, countVars>>
-----------------------------------------------------------------------------
(* write.                                                                   *)

Write(p) ==
    /\ "write" \in Calls /\ open
    /\ calls < MaxCalls /\ calls' = calls + 1
    /\ pc[p] = "idle"
    /\ IF ~pins \/ ~params
       THEN Return(p, "write", "EINVAL", Free) /\ UNCHANGED local
       ELSE /\ \E op \in Operations : Goto(p, IF op = 0 THEN "checkMip" ELSE "clear")
            /\ local' = [local EXCEPT ![p] = [first |-> Free, slot |-> 0, call |-> "write", task |-> None]]
            /\ UNCHANGED ret
    /\ UNCHANGED <<devVars, mip, lock, fifoVars, workVars, born, session, clock>>

\* The loop that clears the slots; buffer_lock is not taken.
ClearSlot(p) ==
    /\ pc[p] = "clear"
    /\ buffer' = [buffer EXCEPT ![local[p].slot] = Free]
    /\ IF local[p].slot = Size - 1
       THEN Goto(p, "clearIndex") /\ UNCHANGED local
       ELSE local' = [local EXCEPT ![p].slot = @ + 1] /\ UNCHANGED pc
    /\ UNCHANGED <<devVars, mip, lock, bufferIndex, fifoOut, ret, workVars, countVars>>

ClearIndex(p) ==
    /\ pc[p] = "clearIndex"
    /\ bufferIndex' = 0
    /\ Goto(p, "checkMip")
    /\ UNCHANGED <<devVars, mip, lock, buffer, fifoOut, local, ret, workVars, countVars>>

CheckMip(p) ==
    /\ pc[p] = "checkMip"
    /\ IF mip
       THEN Return(p, "write", "EINVAL", Free)
       ELSE Goto(p, "setMip") /\ UNCHANGED ret
    /\ UNCHANGED <<devVars, mip, lock, fifoVars, local, workVars, countVars>>

SetMip(p) ==
    /\ pc[p] = "setMip"
    /\ mip' = TRUE
    /\ Goto(p, "startLock")
    /\ UNCHANGED <<devVars, lock, fifoVars, local, ret, workVars, countVars>>

-----------------------------------------------------------------------------
(* initiate_measurement, for a write or for a read that found nothing.      *)

StartLock(p) ==
    /\ pc[p] = "startLock" /\ Acquire(p)
    /\ Goto(p, "start")
    /\ UNCHANGED <<devVars, mip, fifoVars, local, ret, workVars, countVars>>

\* kthread_run made a thread; which one does not matter.
NewThread == CHOOSE w \in Workers : wpc[w] = "idle"

StartThread(p) ==
    /\ pc[p] = "start"
    /\ \E w \in Workers : wpc[w] = "idle"
    /\ LET w == NewThread IN
          /\ wpc' = [wpc EXCEPT ![w] = "lock"]
          /\ collected' = [collected EXCEPT ![w] = 0]
          /\ born' = [born EXCEPT ![w] = session]
          /\ tsk' = w
    /\ Goto(p, "startUnlock")
    /\ UNCHANGED <<open, pins, params, irq, heard, mip, lock, fifoVars, local, ret, stamp,
                   session, clock, calls>>

\* kthread_run failed: 1 is returned, past the unlock; a write then ends
\* with SUCCESS and a read goes on to its second fifoRead.
StartFails(p) ==
    /\ "kthread" \in Faults /\ pc[p] = "start"
    /\ tsk' = ErrTask
    /\ IF local[p].call = "write"
       THEN Return(p, "write", "SUCCESS", Free)
       ELSE Goto(p, "againLock") /\ UNCHANGED ret
    /\ UNCHANGED <<open, pins, params, irq, heard, mip, lock, fifoVars, local, workVars,
                   countVars>>

\* A faulty variant: the success path forgets the unlock as well.
StartUnlockForgotten(p) ==
    /\ pc[p] = "startUnlock"
    /\ Return(p, local[p].call, "EINVAL", Free)
    /\ UNCHANGED <<devVars, mip, lock, fifoVars, local, workVars, countVars>>

\* 0 is returned: both callers take it for a failure and give EINVAL back.
StartUnlock(p) ==
    /\ pc[p] = "startUnlock" /\ ReleaseLock
    /\ Return(p, local[p].call, "EINVAL", Free)
    /\ UNCHANGED <<devVars, mip, fifoVars, local, workVars, countVars>>

-----------------------------------------------------------------------------
(* read.                                                                    *)

Read(p) ==
    /\ "read" \in Calls /\ open
    /\ Enter(p, "readLock")
    /\ local' = [local EXCEPT ![p] = [first |-> Free, slot |-> 0, call |-> "read", task |-> None]]
    /\ UNCHANGED <<devVars, mip, lock, fifoVars, ret, workVars, born, session, clock>>

ReadLock(p) ==
    /\ pc[p] = "readLock" /\ Acquire(p)
    /\ Goto(p, "read")
    /\ UNCHANGED <<devVars, mip, fifoVars, local, ret, workVars, countVars>>

ReadSlot(p) ==
    /\ pc[p] = "read" /\ FifoRead /\ ReleaseLock
    /\ IF fifoOut'.distance = 0
       THEN Goto(p, "readEmpty") /\ UNCHANGED ret
       ELSE Return(p, "read", "SUCCESS", fifoOut')
    /\ local' = [local EXCEPT ![p].first = fifoOut']
    /\ UNCHANGED <<devVars, mip, workVars, countVars>>

ReadEmpty(p) ==
    /\ pc[p] = "readEmpty"
    /\ IF ~pins \/ ~params
       THEN Return(p, "read", "EINVAL", Free)
       ELSE Goto(p, IF mip THEN "againLock" ELSE "startLock") /\ UNCHANGED ret
    /\ UNCHANGED <<devVars, mip, lock, fifoVars, local, workVars, countVars>>

AgainLock(p) ==
    /\ pc[p] = "againLock" /\ Acquire(p)
    /\ Goto(p, "again")
    /\ UNCHANGED <<devVars, mip, fifoVars, local, ret, workVars, countVars>>

\* What this fifoRead returns is copied to the caller's buffer and then
\* overwritten there by the record read first.
ReadAgain(p) ==
    /\ pc[p] = "again" /\ FifoRead /\ ReleaseLock
    /\ Return(p, "read", "SUCCESS", local[p].first)
    /\ UNCHANGED <<devVars, mip, local, workVars, countVars>>

-----------------------------------------------------------------------------
(* release: the file system calls it once no call on the file is running.   *)

Release(p) ==
    /\ "release" \in Calls /\ open
    /\ \A q \in Procs : pc[q] = "idle"
    /\ Enter(p, "relCheck")
    /\ open' = FALSE
    /\ UNCHANGED <<pins, params, irq, heard, mip, tsk, lock, fifoVars, local, ret, workVars, born, session, clock>>

\* A faulty variant: release does not wait for the measuring thread.
RelCheckWithoutStop(p) ==
    /\ pc[p] = "relCheck"
    /\ Goto(p, "relInit")
    /\ UNCHANGED <<devVars, mip, lock, fifoVars, local, ret, workVars, countVars>>

RelCheck(p) ==
    /\ pc[p] = "relCheck"
    /\ Goto(p, IF mip THEN "relStop" ELSE "relInit")
    /\ UNCHANGED <<devVars, mip, lock, fifoVars, local, ret, workVars, countVars>>

\* kthread_stop: an ERR_PTR is dereferenced; a thread that already left
\* through do_exit is used after its end, which may go well or not.
RelStop(p) ==
    /\ pc[p] = "relStop"
    /\ \/ tsk = ErrTask /\ Goto(p, "oops")
       \/ tsk \in Workers /\ wpc[tsk] \in {"idle", "oops"} /\ \E l \in {"relInit", "oops"} : Goto(p, l)
       \/ tsk \in Workers /\ wpc[tsk] \notin {"idle", "oops"} /\ Goto(p, "relWait")
    /\ local' = [local EXCEPT ![p].task = IF tsk \in Workers THEN tsk ELSE None]
    /\ UNCHANGED <<devVars, mip, lock, fifoVars, ret, workVars, countVars>>

\* The thread never asks whether it should stop, so its end is waited for.
RelWait(p) ==
    /\ pc[p] = "relWait"
    /\ wpc[local[p].task] \in {"idle", "oops"}
    /\ Goto(p, "relInit")
    /\ UNCHANGED <<devVars, mip, lock, fifoVars, local, ret, workVars, countVars>>

RelInit(p) ==
    /\ pc[p] = "relInit"
    /\ InitializeDevice
    /\ Goto(p, "idle")
    /\ UNCHANGED <<open, fifoOut, local, ret, workVars, born, clock, calls>>

-----------------------------------------------------------------------------
(* hcsr04_thread_write.                                                     *)

Advance(w, l) == wpc' = [wpc EXCEPT ![w] = l]

\* A faulty variant: the thread measures without taking the lock.
WorkerLockForgotten(w) ==
    /\ wpc[w] = "lock" /\ Advance(w, "sample")
    /\ UNCHANGED <<devVars, mip, lock, fifoVars, procVars, collected, stamp, countVars>>

WorkerLock(w) ==
    /\ wpc[w] = "lock" /\ Acquire(w)
    /\ Advance(w, "sample")
    /\ UNCHANGED <<devVars, mip, fifoVars, procVars, collected, stamp, countVars>>

Trigger(w) ==
    /\ wpc[w] = "sample" /\ collected[w] < Triggers
    /\ collected' = [collected EXCEPT ![w] = @ + 1]
    /\ UNCHANGED <<devVars, mip, lock, fifoVars, procVars, wpc, stamp, countVars>>

\* irq_handler accepts a distance while a measurement is being taken.
Echo ==
    /\ irq /\ ~heard
    /\ \E w \in Workers : wpc[w] = "sample" /\ collected[w] > 0
    /\ heard' = TRUE
    /\ UNCHANGED <<open, pins, params, irq, mip, tsk, lock, fifoVars, procVars,
                   workVars, countVars>>

Average(w) ==
    /\ wpc[w] = "sample" /\ collected[w] = Triggers /\ heard
    /\ clock' = clock + 1
    /\ stamp' = [stamp EXCEPT ![w] = clock + 1]
    /\ Advance(w, "index")
    /\ UNCHANGED <<devVars, mip, lock, fifoVars, procVars, collected, born, session, calls>>

\* No echo was accepted since the device was initialised: the division by
\* total_samples traps and the thread dies with the lock held.
DivideByZero(w) ==
    /\ wpc[w] = "sample" /\ collected[w] = Triggers /\ ~heard
    /\ "echo" \in Faults \/ ~irq \/ Triggers = 0
    /\ Advance(w, "oops")
    /\ UNCHANGED <<devVars, mip, lock, fifoVars, procVars, collected, stamp, countVars>>

\* A faulty variant: the index does not wrap.
StoreIndexUnwrapped(w) ==
    /\ wpc[w] = "index"
    /\ bufferIndex' = bufferIndex + 1
    /\ Advance(w, "distance")
    /\ UNCHANGED <<devVars, mip, lock, buffer, fifoOut, procVars, collected, stamp, countVars>>

\* fifoWrite, store by store; bufferIndex is loaded anew each time.
StoreIndex(w) ==
    /\ wpc[w] = "index"
    /\ bufferIndex' = (bufferIndex + 1) % Size
    /\ Advance(w, "distance")
    /\ UNCHANGED <<devVars, mip, lock, buffer, fifoOut, procVars, collected, stamp, countVars>>

StoreDistance(w) ==
    /\ wpc[w] = "distance"
    /\ buffer' = [buffer EXCEPT ![bufferIndex].distance = stamp[w]]
    /\ Advance(w, "tsc")
    /\ UNCHANGED <<devVars, mip, lock, bufferIndex, fifoOut, procVars, collected, stamp, countVars>>

StoreTsc(w) ==
    /\ wpc[w] = "tsc"
    /\ buffer' = [buffer EXCEPT ![bufferIndex].tsc = stamp[w]]
    /\ Advance(w, "mip")
    /\ UNCHANGED <<devVars, mip, lock, bufferIndex, fifoOut, procVars, collected, stamp, countVars>>

\* A faulty variant: the thread ends with the flag still up.
ResetMipForgotten(w) ==
    /\ wpc[w] = "mip"
    /\ Advance(w, "unlock")
    /\ UNCHANGED <<devVars, mip, lock, fifoVars, procVars, collected, stamp, countVars>>

ResetMip(w) ==
    /\ wpc[w] = "mip"
    /\ mip' = FALSE
    /\ Advance(w, "unlock")
    /\ UNCHANGED <<devVars, lock, fifoVars, procVars, collected, stamp, countVars>>

WorkerUnlock(w) ==
    /\ wpc[w] = "unlock" /\ ReleaseLock
    /\ Advance(w, "idle")
    /\ UNCHANGED <<devVars, mip, fifoVars, procVars, collected, stamp, countVars>>

-----------------------------------------------------------------------------

\* A call in progress takes its next step.
Proceed(p) ==
    \/ ClearSlot(p) \/ ClearIndex(p) \/ CheckMip(p) \/ SetMip(p)
    \/ StartLock(p) \/ StartThread(p) \/ StartFails(p) \/ StartUnlock(p)
    \/ ReadLock(p) \/ ReadSlot(p) \/ ReadEmpty(p) \/ AgainLock(p) \/ ReadAgain(p)
    \/ RelCheck(p) \/ RelStop(p) \/ RelWait(p) \/ RelInit(p)

\* A measuring thread takes its next step.
Measure(w) ==
    \/ WorkerLock(w) \/ Trigger(w) \/ Average(w) \/ DivideByZero(w)
    \/ StoreIndex(w) \/ StoreDistance(w) \/ StoreTsc(w) \/ ResetMip(w) \/ WorkerUnlock(w)

\* The program has made its calls and nothing is running.
Finished ==
    /\ calls = MaxCalls
    /\ \A p \in Procs : pc[p] = "idle"
    /\ \A w \in Workers : wpc[w] = "idle"
    /\ UNCHANGED vars

Next == \/ \E p \in Procs : \/ Open(p) \/ ConfigPins(p) \/ SetParameters(p)
                            \/ Write(p) \/ Read(p) \/ Release(p)
                            \/ Proceed(p)
        \/ \E w \in Workers : Measure(w)
        \/ Echo
        \/ Finished

Spec == Init /\ [][Next]_vars

\* Started calls and threads keep running and the sensor answers.  A spin
\* lock serves its waiters in turn, so one that finds it free again and again
\* gets it: strong fairness.  No call is ever owed.
Fairness ==
    /\ WF_vars(Echo)
    /\ \A p \in Procs : /\ WF_vars(Proceed(p))
                        /\ SF_vars(StartLock(p) \/ ReadLock(p) \/ AgainLock(p))
    /\ \A w \in Workers : WF_vars(Measure(w)) /\ SF_vars(WorkerLock(w))

FairSpec == Spec /\ Fairness

-----------------------------------------------------------------------------
(* Properties.                                                              *)

\* Whoever is between taking buffer_lock and leaving it is its owner; so
\* reads, starts and whole measurements exclude each other (the comment at
\* HCSR_Driver.c:106: "For syncing buffer write and read operations").
LockExclusion ==
    /\ \A p \in Procs : pc[p] \in {"start", "startUnlock", "read", "again"} => lock = p
    /\ \A w \in Workers :
          wpc[w] \in {"sample", "index", "distance", "tsc", "mip", "unlock"} => lock = w

\* The buffer as it is once a fifoWrite under way has finished.
Settled ==
    LET writing == {w \in Workers : wpc[w] \in {"distance", "tsc"}}
    IN  [i \in Slots |-> IF i = bufferIndex /\ writing # {}
                         THEN Sampled(stamp[CHOOSE w \in writing : TRUE])
                         ELSE buffer[i]]

Fifo == INSTANCE HcsrFifo WITH Sample <- {Sampled(n) : n \in 1..MaxCalls},
                               NoValue <- Free,
                               buffer <- Settled,
                               out <- fifoOut

\* Seen through the lock, the three stores of fifoWrite and the reads of any
\* number of threads are the atomic operations of HcsrFifo: no read returns
\* half a record, the same record twice, or one out of turn.
FifoAtomic == Fifo!Spec

\* A sample goes into the buffer only in the session, between two
\* initialisations of the device, in which its measurement was asked for:
\* hcsr04_release is "Erasing data of %s and reinitializing it"
\* (HCSR_Driver.c:878).
SessionIsolation ==
    \A w \in Workers : wpc[w] \in {"index", "distance", "tsc"} => born[w] = session

\* A read that waited for the measurement in progress ("Wait till measurement
\* is complete", HCSR_Driver.c:859) and succeeded has a sample to show for it.
\* False: line 867 delivers the record read before the wait.
SuccessfulReadHasSample ==
    \A p \in Procs : ret[p].call = "read" /\ ret[p].code = "SUCCESS" => ret[p].value # Free

\* Every call returns, in whatever order calls and threads meet at the lock.
CallsReturn == \A p \in Procs : (pc[p] # "idle") ~> (pc[p] = "idle")

\* Measurements end: the flag does not stay up for ever.
MipComesDown == mip ~> ~mip
=============================================================================
