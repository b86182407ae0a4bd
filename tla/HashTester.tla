---------------------------- MODULE HashTester ----------------------------
(***************************************************************************)
(* The program Main.c on top of the hash table driver: main opens both     *)
(* devices, starts threads, joins them, dumps both tables and closes the   *)
(* files.  A thread fills the tables until hashdata_counter says there is  *)
(* enough and then makes operations until hashtable_operations does.  Both *)
(* counters are tested outside the mutex and raised inside it; the mutex   *)
(* is held over a write and the read that looks at its effect.             *)
(***************************************************************************)
EXTENDS HashTable

CONSTANTS Threads,    \* the threads of thread_function
          Main,       \* the thread of main
          MaxData,    \* MAX_HASHTABLE_DATA
          MaxOps,     \* MAX_TABLE_OPERATION
          Nobody      \* the mutex has no owner

ASSUME TesterAssumption ==
    /\ IsFiniteSet(Threads) /\ Threads # {} /\ Main \notin Threads
    /\ Nobody \notin Threads
    /\ Procs = Threads \cup {Main}
    /\ Files = Minors                \* file 0 is ht530-1, file 1 is ht530-2
    /\ MaxData \in Nat /\ MaxOps \in Nat

VARIABLES
    mutex,     \* who holds common_mutex_lock
    step,      \* where each thread is
    stage,     \* where main is
    hashdataCounter, hashtableOperations,
    asked      \* what each thread has written and is to read back

testerVars == <<mutex, step, stage, hashdataCounter, hashtableOperations, asked>>
allVars == <<vars, testerVars>>

Nothing == [file |-> <<>>, key |-> NoData, data |-> NoData]

TesterInit ==
    /\ Init
    /\ mutex = Nobody
    /\ step = [t \in Threads |-> "fill"]
    /\ stage = "open1"
    /\ hashdataCounter = 0 /\ hashtableOperations = 0
    /\ asked = [t \in Threads |-> Nothing]

Go(t, l) == step' = [step EXCEPT ![t] = l]
Stage(from, to) == stage = from /\ stage' = to
File(m) == <<m, m>>

-----------------------------------------------------------------------------
(* thread_function.                                                         *)

\* A faulty variant: one round too many.
FillOnceMore(t) ==
    /\ step[t] = "fill" /\ stage = "join"
    /\ Go(t, IF hashdataCounter <= MaxData THEN "lockFill" ELSE "operate")
    /\ UNCHANGED <<vars, mutex, stage, hashdataCounter, hashtableOperations, asked>>

\* The tests of the two loops, without the mutex.
Fill(t) ==
    /\ step[t] = "fill" /\ stage = "join"
    /\ Go(t, IF hashdataCounter < MaxData THEN "lockFill" ELSE "operate")
    /\ UNCHANGED <<vars, mutex, stage, hashdataCounter, hashtableOperations, asked>>

Operate(t) ==
    /\ step[t] = "operate"
    /\ Go(t, IF hashtableOperations < MaxOps THEN "lockOperate" ELSE "ended")
    /\ UNCHANGED <<vars, mutex, stage, hashdataCounter, hashtableOperations, asked>>

Locked(t) == Go(t, IF step[t] = "lockFill" THEN "add" ELSE "choose")

\* A faulty variant: nobody waits for the mutex.
LockWithoutWaiting(t) ==
    /\ step[t] \in {"lockFill", "lockOperate"} /\ Locked(t)
    /\ mutex' = t
    /\ UNCHANGED <<vars, stage, hashdataCounter, hashtableOperations, asked>>

Lock(t) ==
    /\ step[t] \in {"lockFill", "lockOperate"} /\ Locked(t)
    /\ mutex = Nobody /\ mutex' = t
    /\ UNCHANGED <<vars, stage, hashdataCounter, hashtableOperations, asked>>

\* add_to_hash_table and delete_from_hash_table; rand() gives the table, the
\* key and the datum, 0 among the data too.
Change(t) ==
    /\ \/ step[t] = "add" /\ Go(t, "addBack")
       \/ step[t] = "choose" /\ Go(t, "operateBack")
    /\ \E m \in Minors, k \in Keys, d \in Values \cup {0} :
          /\ Write(t, File(m), k, d)
          /\ asked' = [asked EXCEPT ![t] = [file |-> File(m), key |-> k, data |-> d]]
    /\ UNCHANGED <<calls, mutex, stage, hashdataCounter, hashtableOperations>>

Search(t) ==
    /\ step[t] = "choose" /\ Go(t, "countOperate")
    /\ \E m \in Minors, k \in Keys : Read(t, File(m), k)
    /\ asked' = [asked EXCEPT ![t] = Nothing]
    /\ UNCHANGED <<calls, mutex, stage, hashdataCounter, hashtableOperations>>

\* The write has returned: its key is read on the same file.
ReadBack(t) ==
    /\ \/ step[t] = "addBack" /\ Go(t, "countFill")
       \/ step[t] = "operateBack" /\ Go(t, "countOperate")
    /\ Read(t, asked[t].file, asked[t].key)
    /\ UNCHANGED <<calls, mutex, stage, hashdataCounter, hashtableOperations, asked>>

\* The read has returned; its answer is printed.
Count(t) ==
    /\ pc[t] = "idle"
    /\ \/ /\ step[t] = "countFill" /\ Go(t, "unlockFill")
          /\ hashdataCounter' = hashdataCounter + 1 /\ UNCHANGED hashtableOperations
       \/ /\ step[t] = "countOperate" /\ Go(t, "unlockOperate")
          /\ hashtableOperations' = hashtableOperations + 1 /\ UNCHANGED hashdataCounter
    /\ asked' = [asked EXCEPT ![t] = Nothing]
    /\ UNCHANGED <<vars, mutex, stage>>

\* A faulty variant: the second loop leaves the mutex locked.
UnlockOnlyFill(t) ==
    /\ step[t] \in {"unlockFill", "unlockOperate"}
    /\ mutex' = IF step[t] = "unlockFill" THEN Nobody ELSE mutex
    /\ Go(t, IF step[t] = "unlockFill" THEN "fill" ELSE "operate")
    /\ UNCHANGED <<vars, stage, hashdataCounter, hashtableOperations, asked>>

\* The mutex is left; the sleep that follows is only time passing.
Unlock(t) ==
    /\ step[t] \in {"unlockFill", "unlockOperate"} /\ mutex' = Nobody
    /\ Go(t, IF step[t] = "unlockFill" THEN "fill" ELSE "operate")
    /\ UNCHANGED <<vars, stage, hashdataCounter, hashtableOperations, asked>>

-----------------------------------------------------------------------------
(* main.                                                                    *)

OpenDevices ==
    /\ \/ Stage("open1", "open2") /\ Open(0, 0)
       \/ Stage("open2", "join") /\ Open(1, 1)
    /\ UNCHANGED <<calls, mutex, step, hashdataCounter, hashtableOperations, asked>>

Join ==
    /\ Stage("join", "dump1")
    /\ \A t \in Threads : step[t] = "ended"
    /\ UNCHANGED <<vars, mutex, step, hashdataCounter, hashtableOperations, asked>>

\* The loops of DUMP calls ask for one and the same bucket, 8, every time.
Bucket8 == 8 % Buckets
DumpTables ==
    /\ \/ Stage("dump1", "dump2") /\ Dump(Main, File(0), Bucket8)
       \/ Stage("dump2", "close1") /\ Dump(Main, File(1), Bucket8)
    /\ UNCHANGED <<calls, mutex, step, hashdataCounter, hashtableOperations, asked>>

CloseDevices ==
    /\ \/ Stage("close1", "close2") /\ Release(File(0))
       \/ Stage("close2", "done") /\ Release(File(1))
    /\ UNCHANGED <<calls, mutex, step, hashdataCounter, hashtableOperations, asked>>

\* main goes on when its call has returned.
MainStep ==
    /\ pc[Main] = "idle"
    /\ OpenDevices \/ Join \/ DumpTables \/ CloseDevices
InDriver(p) == Proceed(p) /\ UNCHANGED <<calls, testerVars>>

ThreadStep(t) ==
    \/ Fill(t) \/ Operate(t) \/ Lock(t) \/ Change(t) \/ Search(t)
    \/ ReadBack(t) \/ Count(t) \/ Unlock(t) \/ InDriver(t)

Exited == stage = "done" /\ UNCHANGED allVars

TesterNext == \/ \E t \in Threads : ThreadStep(t)
              \/ MainStep \/ InDriver(Main)
              \/ Exited

TesterSpec == TesterInit /\ [][TesterNext]_allVars

\* Threads are scheduled.  Weak fairness is enough for the mutex: the others
\* run out of rounds and then leave it alone.
FairTesterSpec ==
    /\ TesterSpec
    /\ WF_allVars(MainStep \/ InDriver(Main))
    /\ \A t \in Threads : WF_allVars(ThreadStep(t))

-----------------------------------------------------------------------------
(* Properties.                                                              *)

TesterTypeOK ==
    /\ TypeOK
    /\ mutex \in Threads \cup {Nobody}
    /\ step \in [Threads -> {"fill", "lockFill", "add", "addBack", "countFill", "unlockFill",
                             "operate", "lockOperate", "choose", "operateBack",
                             "countOperate", "unlockOperate", "ended"}]
    /\ stage \in {"open1", "open2", "join", "dump1", "dump2", "close1", "close2", "done"}
    /\ hashdataCounter \in Nat /\ hashtableOperations \in Nat

\* What a thread prints after a write is what it wrote, and "Not found" after
\* a deletion: no other thread comes between its two calls.
ReadsOwnWrite ==
    \A t \in Threads :
        step[t] \in {"countFill", "countOperate"} /\ pc[t] = "idle" /\ asked[t] # Nothing =>
            answer = <<asked[t].key, IF asked[t].data = 0 THEN NoData ELSE asked[t].data>>

\* The counters are tested outside the mutex, so each thread but the last may
\* do one round more than the limit says, and no thread two.
CountersBounded ==
    /\ hashdataCounter <= MaxData + Cardinality(Threads) - 1
    /\ hashtableOperations <= MaxOps + Cardinality(Threads) - 1

\* The program ends, having closed both files.
ProgramEnds == <>(stage = "done")
=============================================================================
