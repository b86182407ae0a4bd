------------------------- MODULE HashTester_proofs -------------------------
(***************************************************************************)
(* For any number of threads, keys, data, buckets and nodes and any        *)
(* limits: the counters of the test program, tested outside the mutex and  *)
(* raised inside it, run past their limits by less than the number of      *)
(* threads; the lists of the driver stay lists, its calls, one at a time,  *)
(* make two maps of them, and each thread reads back what it wrote.        *)
(***************************************************************************)
EXTENDS HashTester, FiniteSetTheorems, TLAPS

\* The threads that have passed the test of a loop and not counted yet.
Filling == {t \in Threads : step[t] \in {"lockFill", "add", "addBack", "countFill"}}
Operating == {t \in Threads : step[t] \in {"lockOperate", "choose", "operateBack",
                                           "countOperate"}}

\* A counter c that has reached its limit has room for every thread in S: all
\* threads but one at most passed the test before.
Room(c, limit, S) ==
    c >= limit => c + Cardinality(S) <= limit + Cardinality(Threads) - 1

StepsOK == step \in [Threads -> {"fill", "lockFill", "add", "addBack", "countFill", "unlockFill",
                                 "operate", "lockOperate", "choose", "operateBack",
                                 "countOperate", "unlockOperate", "ended"}]

\* The inductive invariant.
RoomInv ==
    /\ StepsOK
    /\ hashdataCounter \in Nat /\ hashtableOperations \in Nat
    /\ Room(hashdataCounter, MaxData, Filling)
    /\ Room(hashtableOperations, MaxOps, Operating)

-----------------------------------------------------------------------------
(* Room, as the threads come and go.                                        *)

\* Sets of threads have a size, and it is at most the number of threads.
LEMMA ThreadSets ==
    ASSUME NEW S, S \subseteq Threads
    PROVE  /\ IsFiniteSet(S) /\ Cardinality(S) \in Nat
           /\ Cardinality(Threads) \in Nat
           /\ Cardinality(S) <= Cardinality(Threads)
  <1>1. IsFiniteSet(Threads)
    BY TesterAssumption
  <1>2. IsFiniteSet(S) /\ Cardinality(S) <= Cardinality(Threads)
    BY <1>1, FS_Subset
  <1> QED
    BY <1>1, <1>2, FS_CardinalityType

\* One thread counts: the counter goes up, and there is one thread less to
\* come.  This is where a counter passes its limit.
LEMMA RoomCounting ==
    ASSUME NEW c \in Nat, NEW limit \in Nat, NEW S, S \subseteq Threads,
           NEW t \in S, Room(c, limit, S)
    PROVE  Room(c + 1, limit, S \ {t})
  <1>1. IsFiniteSet(S) /\ Cardinality(S) \in Nat /\ Cardinality(Threads) \in Nat
        /\ Cardinality(S) <= Cardinality(Threads)
    BY ThreadSets
  <1>2. Cardinality(S \ {t}) = Cardinality(S) - 1
    BY <1>1, FS_RemoveElement
  <1>3. CASE c >= limit
    BY <1>1, <1>2, <1>3 DEF Room
  <1>4. CASE ~(c >= limit)
    BY <1>1, <1>2, <1>4 DEF Room
  <1> QED
    BY <1>3, <1>4

\* Below the limit anybody may pass.
LEMMA RoomBelow ==
    ASSUME NEW c \in Nat, NEW limit \in Nat, NEW S, c < limit
    PROVE  Room(c, limit, S)
  BY DEF Room

\* The room that is left bounds the counter.
LEMMA RoomBounds ==
    ASSUME NEW c \in Nat, NEW limit \in Nat, NEW S, S \subseteq Threads, Room(c, limit, S)
    PROVE  c <= limit + Cardinality(Threads) - 1
  <1>1. Cardinality(S) \in Nat /\ Cardinality(Threads) \in Nat
    BY ThreadSets
  <1>2. Cardinality(Threads) # 0
    BY TesterAssumption, FS_EmptySet
  <1> QED
    BY <1>1, <1>2 DEF Room

-----------------------------------------------------------------------------
(* The steps.                                                               *)

LEMMA RoomInit == TesterInit => RoomInv
  <1> SUFFICES ASSUME TesterInit PROVE RoomInv
    OBVIOUS
  <1>1. StepsOK /\ hashdataCounter = 0 /\ hashtableOperations = 0
    BY DEF TesterInit, StepsOK
  <1>2. Filling = {} /\ Operating = {}
    BY DEF TesterInit, Filling, Operating
  <1>3. Cardinality({}) = 0 /\ Cardinality(Threads) \in Nat /\ Cardinality(Threads) # 0
    BY ThreadSets, TesterAssumption, FS_EmptySet
  <1> QED
    BY <1>1, <1>2, <1>3, TesterAssumption DEF RoomInv, Room

\* A step that leaves the threads and the counters where they are.
LEMMA RoomSame ==
    ASSUME RoomInv, UNCHANGED <<step, hashdataCounter, hashtableOperations>>
    PROVE  RoomInv'
  BY DEF RoomInv, StepsOK, Room, Filling, Operating

\* A thread moves within a loop, or between loops, and counts nothing: nobody
\* joins those who have still to count.
LEMMA RoomMoving ==
    ASSUME RoomInv, StepsOK', Filling' = Filling, Operating' = Operating,
           UNCHANGED <<hashdataCounter, hashtableOperations>>
    PROVE  RoomInv'
  BY DEF RoomInv, Room

LEMMA RoomStep ==
    ASSUME RoomInv, NEW t \in Threads, ThreadStep(t)
    PROVE  RoomInv'
  <1> USE DEF RoomInv
  <1> USE TesterAssumption
  <1>0. Filling \subseteq Threads /\ Operating \subseteq Threads
    BY DEF Filling, Operating
  <1>1. CASE Fill(t)
    <2>1. StepsOK' /\ Operating' = Operating
      BY <1>1 DEF Fill, Go, StepsOK, Operating
    <2>2. CASE hashdataCounter < MaxData
      BY <1>1, <2>1, <2>2, RoomBelow DEF Fill, Room
    <2>3. CASE ~(hashdataCounter < MaxData)
      <3>1. Filling' = Filling
        BY <1>1, <2>3 DEF Fill, Go, StepsOK, Filling
      <3> QED
        BY <1>1, <2>1, <3>1, RoomMoving DEF Fill
    <2> QED
      BY <2>2, <2>3
  <1>2. CASE Operate(t)
    <2>1. StepsOK' /\ Filling' = Filling
      BY <1>2 DEF Operate, Go, StepsOK, Filling
    <2>2. CASE hashtableOperations < MaxOps
      BY <1>2, <2>1, <2>2, RoomBelow DEF Operate, Room
    <2>3. CASE ~(hashtableOperations < MaxOps)
      <3>1. Operating' = Operating
        BY <1>2, <2>3 DEF Operate, Go, StepsOK, Operating
      <3> QED
        BY <1>2, <2>1, <3>1, RoomMoving DEF Operate
    <2> QED
      BY <2>2, <2>3
  <1>3. CASE Lock(t)
    <2>1. StepsOK' /\ Filling' = Filling /\ Operating' = Operating
      BY <1>3 DEF Lock, Locked, Go, StepsOK, Filling, Operating
    <2> QED
      BY <1>3, <2>1, RoomMoving DEF Lock
  <1>4. CASE Change(t)
    <2>1. StepsOK' /\ Filling' = Filling /\ Operating' = Operating
      BY <1>4 DEF Change, Go, StepsOK, Filling, Operating
    <2> QED
      BY <1>4, <2>1, RoomMoving DEF Change
  <1>5. CASE Search(t)
    <2>1. StepsOK' /\ Filling' = Filling /\ Operating' = Operating
      BY <1>5 DEF Search, Go, StepsOK, Filling, Operating
    <2> QED
      BY <1>5, <2>1, RoomMoving DEF Search
  <1>6. CASE ReadBack(t)
    <2>1. StepsOK' /\ Filling' = Filling /\ Operating' = Operating
      BY <1>6 DEF ReadBack, Go, StepsOK, Filling, Operating
    <2> QED
      BY <1>6, <2>1, RoomMoving DEF ReadBack
  <1>7. CASE Count(t)
    <2>1. CASE step[t] = "countFill"
      <3>1. StepsOK' /\ Filling' = Filling \ {t} /\ Operating' = Operating /\ t \in Filling
        BY <1>7, <2>1 DEF Count, Go, StepsOK, Filling, Operating
      <3>2. hashdataCounter' = hashdataCounter + 1 /\ UNCHANGED hashtableOperations
        BY <1>7, <2>1 DEF Count
      <3>3. Room(hashdataCounter + 1, MaxData, Filling \ {t})
        BY <1>0, <3>1, RoomCounting
      <3> QED
        BY <3>1, <3>2, <3>3 DEF Room
    <2>2. CASE step[t] = "countOperate"
      <3>1. StepsOK' /\ Operating' = Operating \ {t} /\ Filling' = Filling /\ t \in Operating
        BY <1>7, <2>2 DEF Count, Go, StepsOK, Filling, Operating
      <3>2. hashtableOperations' = hashtableOperations + 1 /\ UNCHANGED hashdataCounter
        BY <1>7, <2>2 DEF Count
      <3>3. Room(hashtableOperations + 1, MaxOps, Operating \ {t})
        BY <1>0, <3>1, RoomCounting
      <3> QED
        BY <3>1, <3>2, <3>3 DEF Room
    <2> QED
      BY <1>7, <2>1, <2>2 DEF Count
  <1>8. CASE Unlock(t)
    <2>1. StepsOK' /\ Filling' = Filling /\ Operating' = Operating
      BY <1>8 DEF Unlock, Go, StepsOK, Filling, Operating
    <2> QED
      BY <1>8, <2>1, RoomMoving DEF Unlock
  <1>9. CASE InDriver(t)
    BY <1>9, RoomSame DEF InDriver, testerVars
  <1> QED
    BY <1>1, <1>2, <1>3, <1>4, <1>5, <1>6, <1>7, <1>8, <1>9 DEF ThreadStep

LEMMA RoomNext == RoomInv /\ [TesterNext]_allVars => RoomInv'
  <1> SUFFICES ASSUME RoomInv, [TesterNext]_allVars PROVE RoomInv'
    OBVIOUS
  <1>1. ASSUME NEW t \in Threads, ThreadStep(t) PROVE RoomInv'
    BY <1>1, RoomStep
  <1>2. CASE MainStep
    BY <1>2, RoomSame DEF MainStep, OpenDevices, Join, DumpTables, CloseDevices
  <1>3. CASE InDriver(Main)
    BY <1>3, RoomSame DEF InDriver, testerVars
  <1>4. CASE Exited \/ UNCHANGED allVars
    BY <1>4, RoomSame DEF Exited, allVars, testerVars
  <1> QED
    BY <1>1, <1>2, <1>3, <1>4 DEF TesterNext

\* Main.c:124 and 142: the counters stay below their limits plus the number
\* of threads, for any number of threads.
THEOREM CountersAlwaysBounded == TesterSpec => []CountersBounded
  <1>1. RoomInv => CountersBounded
    <2> SUFFICES ASSUME RoomInv PROVE CountersBounded
      OBVIOUS
    <2>1. Filling \subseteq Threads /\ Operating \subseteq Threads
      BY DEF Filling, Operating
    <2> QED
      BY <2>1, RoomBounds, TesterAssumption DEF RoomInv, CountersBounded
  <1> QED
    BY <1>1, RoomInit, RoomNext, PTL DEF TesterSpec

-----------------------------------------------------------------------------
(* What pointers lead to.                                                   *)

Pointers == [Nodes -> Nodes \cup {Null}]

\* S has m and what its members point to.
Holds(S, nx, m) == m \in S \cup {Null} /\ \A n \in S : nx[n] \in S \cup {Null}

LEMMA NullIsNoNode == Null \notin Nodes
  BY DEF Null, Nodes

\* A set that has m and is closed has everything led to.
LEMMA ReachedLeast ==
    ASSUME NEW nx, NEW m, NEW S, S \subseteq Nodes, Holds(S, nx, m)
    PROVE  Reached(nx, m) \subseteq S
  BY DEF Reached, Holds

LEMMA ReachedHolds ==
    ASSUME NEW nx \in Pointers, NEW m \in Nodes \cup {Null}
    PROVE  Reached(nx, m) \subseteq Nodes /\ Holds(Reached(nx, m), nx, m)
  <1>1. Reached(nx, m) \subseteq Nodes
    BY DEF Reached
  <1>2. m \in Reached(nx, m) \cup {Null}
    BY DEF Reached
  <1>3. ASSUME NEW n \in Reached(nx, m) PROVE nx[n] \in Reached(nx, m) \cup {Null}
    <2>1. nx[n] \in Nodes \cup {Null}
      BY <1>1 DEF Pointers
    <2> QED
      BY <1>1, <2>1 DEF Reached
  <1> QED
    BY <1>1, <1>2, <1>3 DEF Holds

LEMMA ReachedNull ==
    ASSUME NEW nx
    PROVE  Reached(nx, Null) = {}
  <1>1. Holds({}, nx, Null)
    BY DEF Holds
  <1> QED
    BY <1>1, ReachedLeast

\* A node leads to itself and to what the next one leads to.
LEMMA ReachedStep ==
    ASSUME NEW nx \in Pointers, NEW m \in Nodes
    PROVE  Reached(nx, m) = {m} \cup Reached(nx, nx[m])
  <1>1. nx[m] \in Nodes \cup {Null}
    BY DEF Pointers
  <1>2. Reached(nx, m) \subseteq {m} \cup Reached(nx, nx[m])
    <2>1. Holds(Reached(nx, nx[m]), nx, nx[m]) /\ Reached(nx, nx[m]) \subseteq Nodes
      BY <1>1, ReachedHolds
    <2>2. Holds({m} \cup Reached(nx, nx[m]), nx, m)
      BY <2>1 DEF Holds
    <2> QED
      BY <2>1, <2>2, ReachedLeast
  <1>3. m \in Reached(nx, m) /\ nx[m] \in Reached(nx, m) \cup {Null}
    BY ReachedHolds, NullIsNoNode DEF Holds
  <1>4. Reached(nx, nx[m]) \subseteq Reached(nx, m)
    <2>1. Holds(Reached(nx, m), nx, nx[m]) /\ Reached(nx, m) \subseteq Nodes
      BY <1>3, ReachedHolds DEF Holds
    <2> QED
      BY <2>1, ReachedLeast
  <1> QED
    BY <1>2, <1>3, <1>4

\* What lies ahead of a node led to is led to.
LEMMA ReachedAhead ==
    ASSUME NEW nx \in Pointers, NEW m \in Nodes \cup {Null}, NEW n \in Reached(nx, m)
    PROVE  nx[n] \in Reached(nx, m) \cup {Null} /\ Reached(nx, n) \subseteq Reached(nx, m)
  <1>1. Reached(nx, m) \subseteq Nodes /\ Holds(Reached(nx, m), nx, m)
    BY ReachedHolds
  <1>2. Holds(Reached(nx, m), nx, n)
    BY <1>1 DEF Holds
  <1> QED
    BY <1>1, <1>2, ReachedLeast DEF Holds

\* Pointers of other nodes do not matter.
LEMMA ReachedSame ==
    ASSUME NEW nx \in Pointers, NEW ny \in Pointers, NEW m \in Nodes \cup {Null},
           \A n \in Reached(nx, m) : ny[n] = nx[n]
    PROVE  Reached(ny, m) = Reached(nx, m)
  <1>1. Reached(nx, m) \subseteq Nodes /\ Holds(Reached(nx, m), nx, m)
    BY ReachedHolds
  <1>2. Reached(ny, m) \subseteq Reached(nx, m)
    <2>1. Holds(Reached(nx, m), ny, m)
      BY <1>1 DEF Holds
    <2> QED
      BY <1>1, <2>1, ReachedLeast
  <1>3. Reached(ny, m) \subseteq Nodes /\ Holds(Reached(ny, m), ny, m)
    BY ReachedHolds
  <1>4. Holds(Reached(ny, m), nx, m)
    BY <1>2, <1>3 DEF Holds
  <1> QED
    BY <1>2, <1>3, <1>4, ReachedLeast

\* A node other than the first is pointed to by one before it.
LEMMA ReachedBefore ==
    ASSUME NEW nx \in Pointers, NEW m \in Nodes \cup {Null}, NEW n \in Reached(nx, m), n # m
    PROVE  \E l \in Reached(nx, m) \ {n} : nx[l] = n
  <1> SUFFICES ASSUME \A l \in Reached(nx, m) \ {n} : nx[l] # n PROVE FALSE
    OBVIOUS
  <1>1. Reached(nx, m) \subseteq Nodes /\ Holds(Reached(nx, m), nx, m)
    BY ReachedHolds
  <1>2. Holds(Reached(nx, m) \ {n}, nx, m)
    BY <1>1 DEF Holds
  <1>3. Reached(nx, m) \subseteq Reached(nx, m) \ {n}
    BY <1>1, <1>2, ReachedLeast
  <1> QED
    BY <1>3

\* Pointers lead back: pb is the pprev of an hlist.
Linked(nx, pb, m) ==
    /\ m # Null => pb[m] = Null
    /\ \A n \in Reached(nx, m) : nx[n] # Null => pb[nx[n]] = n

\* Where a node of a doubly linked list is.
LEMMA LinkedPlace ==
    ASSUME NEW nx \in Pointers, NEW pb \in Pointers, NEW m \in Nodes \cup {Null},
           Linked(nx, pb, m), NEW n \in Reached(nx, m)
    PROVE  /\ IF pb[n] = Null THEN n = m
              ELSE n # m /\ pb[n] \in Reached(nx, m) \ {n} /\ nx[pb[n]] = n
           /\ nx[n] # n
  <1>1. n \in Nodes /\ n # Null
    BY ReachedHolds, NullIsNoNode
  <1>2. CASE n = m
    BY <1>1, <1>2 DEF Linked
  <1>3. CASE n # m
    <2>1. PICK l \in Reached(nx, m) \ {n} : nx[l] = n
      BY <1>3, ReachedBefore
    <2>2. pb[n] = l /\ l # Null
      BY <1>1, <2>1, ReachedHolds, NullIsNoNode DEF Linked
    <2> QED
      BY <1>1, <1>3, <2>1, <2>2 DEF Linked
  <1> QED
    BY <1>2, <1>3

\* The node's own pointer is reset, and the node before it points past it.
Unlinks(nx, ny, pb, n) ==
    \A l \in Nodes : ny[l] = IF l = n THEN Null ELSE IF l = pb[n] THEN nx[n] ELSE nx[l]

\* hash_del: the list goes on without the node.
LEMMA ReachedUnlink ==
    ASSUME NEW nx \in Pointers, NEW ny \in Pointers, NEW pb \in Pointers,
           NEW m \in Nodes \cup {Null}, NEW n \in Reached(nx, m), Linked(nx, pb, m),
           NEW first, first = IF pb[n] = Null THEN nx[n] ELSE m, Unlinks(nx, ny, pb, n)
    PROVE  Reached(ny, first) = Reached(nx, m) \ {n}
  <1> DEFINE R == Reached(nx, m)
             Q == Reached(ny, first)
  <1>1. R \subseteq Nodes /\ Holds(R, nx, m) /\ n \in Nodes
    BY ReachedHolds
  <1>2. /\ IF pb[n] = Null THEN n = m ELSE n # m /\ pb[n] \in R \ {n} /\ nx[pb[n]] = n
        /\ nx[n] # n
    BY LinkedPlace
  <1>3. nx[n] \in (R \ {n}) \cup {Null}
    BY <1>1, <1>2 DEF Holds
  <1>4. first \in (R \ {n}) \cup {Null} /\ first \in Nodes \cup {Null}
    BY <1>1, <1>2, <1>3 DEF Holds
  <1>5. Q \subseteq R \ {n}
    <2>1. ASSUME NEW l \in R \ {n} PROVE ny[l] \in (R \ {n}) \cup {Null}
      <3>1. CASE l = pb[n]
        BY <1>1, <1>3, <2>1, <3>1 DEF Unlinks
      <3>2. CASE l # pb[n]
        <4>1. ny[l] = nx[l] /\ nx[l] \in R \cup {Null}
          BY <1>1, <2>1, <3>2 DEF Holds, Unlinks
        <4>2. nx[l] # n
          BY <1>1, <2>1, <3>2, NullIsNoNode DEF Linked
        <4> QED
          BY <4>1, <4>2
      <3> QED
        BY <3>1, <3>2
    <2>2. Holds(R \ {n}, ny, first)
      BY <1>4, <2>1 DEF Holds
    <2> QED
      BY <1>1, <2>2, ReachedLeast
  <1>6. Q \subseteq Nodes /\ Holds(Q, ny, first)
    BY <1>4, ReachedHolds
  <1>7. R \subseteq Q \cup {n}
    <2>1. ASSUME NEW l \in Q PROVE IF l = pb[n] THEN nx[l] = n /\ nx[n] \in Q \cup {Null}
                                   ELSE nx[l] \in Q \cup {Null}
      <3>1. l \in R \ {n} /\ l \in Nodes /\ ny[l] \in Q \cup {Null} /\ l # Null
        BY <1>5, <1>6, <2>1, NullIsNoNode DEF Holds
      <3> QED
        BY <1>2, <3>1 DEF Unlinks
    <2>2. CASE pb[n] = Null \/ pb[n] \in Q
      <3>1. nx[n] \in Q \cup {Null}
        BY <1>6, <2>1, <2>2 DEF Holds
      <3>2. m \in Q \cup {n, Null}
        BY <1>2, <1>6 DEF Holds
      <3>3. Holds(Q \cup {n}, nx, m)
        BY <2>1, <3>1, <3>2 DEF Holds
      <3> QED
        BY <1>1, <1>6, <3>3, ReachedLeast
    <2>3. CASE pb[n] # Null /\ pb[n] \notin Q
      <3>1. Holds(Q, nx, m)
        BY <1>2, <1>6, <2>1, <2>3 DEF Holds
      <3> QED
        BY <1>6, <3>1, ReachedLeast
    <2> QED
      BY <2>2, <2>3
  <1> QED
    BY <1>5, <1>7

-----------------------------------------------------------------------------
(* The state of the driver with one call at work.                           *)

Busy(p) == pc[p] # "idle"

Jobs == [op : {"none", "write", "delete", "read", "dump"},
         file : (Files \X Minors) \cup {<<>>}, place : Places,
         key : Keys \cup {0}, data : Values \cup {0, NoData}, count : 0..DumpMax]

TypesInv == TypeOK /\ job \in [Procs -> Jobs]

\* What holds of every bucket, also while a call is at work on it.
ChainOK(x) ==
    /\ \A n \in Chain(x) :
          /\ n \in linked /\ n \in live /\ n <= used
          /\ key[n] \in Keys /\ Bucket(key[n]) = x[2] /\ data[n] \in Values
          /\ next[n] # Null => pprev[next[n]] = n
    /\ \A m, n \in Chain(x) : key[m] = key[n] => m = n

Publishing(x) == \E p \in Procs : pc[p] = "publish" /\ job[p].place = x

ListsInv ==
    /\ \A x \in Places : ChainOK(x)
    /\ \A x, y \in Places : x # y => Chain(x) \cap Chain(y) = {}
    /\ \A x \in Places : head[x] # Null /\ ~Publishing(x) => pprev[head[x]] = Null

\* The nodes of its bucket that have the key of p's call, and those of the
\* bucket it has still to visit.
Match(p) == {n \in Chain(job[p].place) : key[n] = job[p].key}
Left(p) == Reached(next, at[p])
Found(p) == \E n \in Match(p) : data[n] = job[p].data

KeyOK(p) ==
    /\ job[p].op # "none"
    /\ job[p].op # "dump" => job[p].key \in Keys /\ job[p].place[2] = Bucket(job[p].key)
    /\ job[p].op = "write" => job[p].data \in Values

\* What a loop has not met is still ahead of it.
LoopOK(p) ==
    /\ pc[p] = "visit" => at[p] \in Chain(job[p].place)
    /\ pc[p] = "finish" => at[p] = Null
    /\ job[p].op = "delete" => Match(p) \subseteq Left(p)
    /\ job[p].op = "write" => IF job[p].count = 0 THEN Match(p) \subseteq Left(p) ELSE Found(p)
    /\ job[p].op = "read" => IF job[p].data = NoData THEN Match(p) \subseteq Left(p)
                             ELSE Found(p)

\* The new node points to the first of the bucket, which does not know yet
\* that there is one before it.
NodeOK(p) ==
    LET n == at[p]
        first == head[job[p].place]
    IN  /\ n \in Nodes /\ n = used /\ n \in live
        /\ key[n] = job[p].key /\ data[n] = job[p].data
        /\ \A x \in Places : n \notin Chain(x)
        /\ next[n] = first
        /\ first # Null => pprev[first] = n

CallOK(p) ==
    /\ Busy(p) => KeyOK(p)
    /\ pc[p] \in {"visit", "finish"} => LoopOK(p)
    /\ pc[p] \in {"link", "publish"} => job[p].op = "write" /\ Match(p) = {}
    /\ pc[p] = "publish" => NodeOK(p)

CallsInv == \A p \in Procs : CallOK(p)

DriverInv == TypesInv /\ ListsInv /\ CallsInv

\* No call but p's is at work.
Alone(p) == \A q \in Procs \ {p} : pc[q] = "idle"

LEMMA Sizes ==
    /\ MaxNodes \in Nat /\ MaxCalls \in Nat /\ Buckets \in Nat \ {0} /\ DumpMax \in Nat \ {0}
    /\ Values \subseteq Nat \ {0} /\ Keys \subseteq Nat
    /\ NoData \notin Values /\ NoData # 0 /\ Null \notin Nodes /\ 0 \notin Values
  BY HashAssumption DEF NoData, Null, Nodes

LEMMA KeyPlace ==
    ASSUME NEW t \in Minors, NEW k \in Keys
    PROVE  <<t, Bucket(k)>> \in Places /\ Bucket(k) \in 0..(Buckets - 1)
  <1>1. k \in Nat /\ Buckets \in Nat /\ Buckets # 0
    BY Sizes
  <1>2. k % Buckets \in 0..(Buckets - 1)
    BY <1>1
  <1> QED
    BY <1>2 DEF Places, Bucket

LEMMA Shape ==
    ASSUME TypesInv
    PROVE  /\ next \in Pointers /\ pprev \in Pointers
           /\ \A x \in Places : head[x] \in Nodes \cup {Null} /\ Chain(x) \subseteq Nodes
  <1>1. next \in Pointers /\ pprev \in Pointers /\ \A x \in Places : head[x] \in Nodes \cup {Null}
    BY DEF TypesInv, TypeOK, Pointers
  <1>2. ASSUME NEW x \in Places PROVE Chain(x) \subseteq Nodes
    BY DEF Chain, Reached
  <1> QED
    BY <1>1, <1>2

LEMMA ChainsSame ==
    ASSUME UNCHANGED <<head, next>>
    PROVE  \A x \in Places : Chain(x)' = Chain(x)
  BY DEF Chain

\* A step that leaves the lists alone.
LEMMA ListsSame ==
    ASSUME ListsInv, UNCHANGED <<listVars, used>>, \A q \in Procs : pc[q] # "publish"
    PROVE  ListsInv'
  <1>1. UNCHANGED <<head, key, data, next, pprev, linked, live, used>>
    BY DEF listVars
  <1>2. \A x \in Places : Chain(x)' = Chain(x)
    BY <1>1, ChainsSame
  <1>3. \A x \in Places : ChainOK(x)'
    BY <1>1, <1>2 DEF ListsInv, ChainOK
  <1>4. \A x \in Places : ~Publishing(x)
    BY DEF Publishing
  <1>5. \A x \in Places : head'[x] # Null => pprev'[head'[x]] = Null
    BY <1>1, <1>4 DEF ListsInv
  <1> QED
    BY <1>2, <1>3, <1>5 DEF ListsInv

\* The calls that are not at work need nothing.
LEMMA CallsOfOne ==
    ASSUME NEW p \in Procs, Alone(p)', CallOK(p)'
    PROVE  CallsInv'
  BY DEF CallsInv, CallOK, Alone, Busy

LEMMA JobCounts ==
    ASSUME NEW p \in Procs, job \in [Procs -> Jobs], NEW c \in 0..DumpMax,
           job' = [job EXCEPT ![p].count = c]
    PROVE  /\ job' \in [Procs -> Jobs] /\ job'[p].count = c
           /\ job'[p].op = job[p].op /\ job'[p].key = job[p].key /\ job'[p].data = job[p].data
           /\ job'[p].place = job[p].place
  <1> DEFINE j == [job[p] EXCEPT !.count = c]
  <1>1. job[p] \in Jobs
    OBVIOUS
  <1>2. /\ j \in Jobs /\ j.count = c /\ j.op = job[p].op /\ j.key = job[p].key
        /\ j.data = job[p].data /\ j.place = job[p].place
    BY <1>1 DEF Jobs
  <1>3. job' = [job EXCEPT ![p] = j]
    OBVIOUS
  <1> HIDE DEF j
  <1> QED
    BY <1>2, <1>3

LEMMA JobReads ==
    ASSUME NEW p \in Procs, job \in [Procs -> Jobs], NEW d \in Values \cup {0, NoData},
           job' = [job EXCEPT ![p].data = d]
    PROVE  /\ job' \in [Procs -> Jobs] /\ job'[p].data = d
           /\ job'[p].op = job[p].op /\ job'[p].key = job[p].key /\ job'[p].count = job[p].count
           /\ job'[p].place = job[p].place
  <1> DEFINE j == [job[p] EXCEPT !.data = d]
  <1>1. job[p] \in Jobs
    OBVIOUS
  <1>2. /\ j \in Jobs /\ j.data = d /\ j.op = job[p].op /\ j.key = job[p].key
        /\ j.count = job[p].count /\ j.place = job[p].place
    BY <1>1 DEF Jobs
  <1>3. job' = [job EXCEPT ![p] = j]
    OBVIOUS
  <1> HIDE DEF j
  <1> QED
    BY <1>2, <1>3

\* What a step finds: the call's place is one, and the node it visits is in
\* its bucket.
LEMMA AtWork ==
    ASSUME DriverInv, NEW p \in Procs
    PROVE  /\ job[p] \in Jobs /\ job[p].place \in Places /\ CallOK(p)
           /\ pc[p] = "visit" =>
                 /\ at[p] \in Chain(job[p].place) /\ at[p] \in Nodes
                 /\ next[at[p]] \in Chain(job[p].place) \cup {Null}
                 /\ next[at[p]] \in Nodes \cup {Null}
                 /\ Left(p) = {at[p]} \cup Reached(next, next[at[p]])
  <1>1. job[p] \in Jobs /\ job[p].place \in Places /\ CallOK(p)
    <2>1. job[p] \in Jobs /\ CallOK(p)
      BY DEF DriverInv, TypesInv, CallsInv
    <2> QED
      BY <2>1 DEF Jobs
  <1>2. ASSUME pc[p] = "visit"
        PROVE  /\ at[p] \in Chain(job[p].place) /\ at[p] \in Nodes
               /\ next[at[p]] \in Chain(job[p].place) \cup {Null}
               /\ next[at[p]] \in Nodes \cup {Null}
               /\ Left(p) = {at[p]} \cup Reached(next, next[at[p]])
    <2>1. at[p] \in Chain(job[p].place)
      BY <1>1, <1>2 DEF CallOK, LoopOK
    <2>2. next \in Pointers /\ head[job[p].place] \in Nodes \cup {Null}
          /\ Chain(job[p].place) \subseteq Nodes
      BY <1>1, Shape DEF DriverInv
    <2>3. next[at[p]] \in Chain(job[p].place) \cup {Null}
      BY <2>1, <2>2, ReachedAhead DEF Chain
    <2>4. Left(p) = {at[p]} \cup Reached(next, next[at[p]])
      BY <2>1, <2>2, ReachedStep DEF Left
    <2> QED
      BY <2>1, <2>2, <2>3, <2>4
  <1> QED
    BY <1>1, <1>2

PcNames == {"idle", "visit", "finish", "link", "publish"}

LEMMA TypesOf ==
    ASSUME opened' \subseteq Files \X Minors, current' \in Minors,
           head' \in [Places -> Nodes \cup {Null}],
           key' \in [Nodes -> Keys \cup {0}], data' \in [Nodes -> Values \cup {0}],
           next' \in Pointers, pprev' \in Pointers, linked' \subseteq Nodes, live' \subseteq Nodes,
           pc' \in [Procs -> PcNames], at' \in [Procs -> Nodes \cup {Null}],
           used' \in 0..MaxNodes, calls' \in 0..MaxCalls, job' \in [Procs -> Jobs]
    PROVE  TypesInv'
  <1>1. \A p \in Procs : job'[p].count \in 0..DumpMax
    <2> TAKE p \in Procs
    <2>1. job'[p] \in Jobs
      OBVIOUS
    <2> QED
      BY <2>1 DEF Jobs
  <1> QED
    BY <1>1 DEF TypesInv, TypeOK, Pointers, PcNames

LEMMA TypesAre ==
    ASSUME TypesInv
    PROVE  /\ opened \subseteq Files \X Minors /\ current \in Minors
           /\ head \in [Places -> Nodes \cup {Null}]
           /\ key \in [Nodes -> Keys \cup {0}] /\ data \in [Nodes -> Values \cup {0}]
           /\ next \in Pointers /\ pprev \in Pointers /\ linked \subseteq Nodes /\ live \subseteq Nodes
           /\ pc \in [Procs -> PcNames] /\ at \in [Procs -> Nodes \cup {Null}]
           /\ used \in 0..MaxNodes /\ calls \in 0..MaxCalls /\ job \in [Procs -> Jobs]
  BY DEF TypesInv, TypeOK, Pointers, PcNames

\* A step of a loop that leaves the pointers alone.
LEMMA MoveOn ==
    ASSUME DriverInv, NEW p \in Procs, Alone(p), pc[p] = "visit", UNCHANGED <<head, next>>,
           NEW n, n \in {next[at[p]], Null}, Visit(p, n)
    PROVE  /\ pc' \in [Procs -> PcNames] /\ at' \in [Procs -> Nodes \cup {Null}] /\ Alone(p)'
           /\ pc'[p] \in {"visit", "finish"}
           /\ pc'[p] = "visit" => at'[p] \in Chain(job[p].place)
           /\ pc'[p] = "finish" => at'[p] = Null
           /\ n = next[at[p]] => Left(p) = {at[p]} \cup Left(p)'
           /\ \A x \in Places : Chain(x)' = Chain(x)
  <1>1. TypesInv /\ job[p].place \in Places
    BY AtWork DEF DriverInv
  <1>2. /\ next[at[p]] \in Chain(job[p].place) \cup {Null}
        /\ next[at[p]] \in Nodes \cup {Null}
        /\ Left(p) = {at[p]} \cup Reached(next, next[at[p]])
    BY AtWork
  <1>3. at' = [at EXCEPT ![p] = n] /\ pc' = [pc EXCEPT ![p] = IF n = Null THEN "finish" ELSE "visit"]
    BY DEF Visit, Goto
  <1>4. pc' \in [Procs -> PcNames] /\ at' \in [Procs -> Nodes \cup {Null}] /\ at'[p] = n
        /\ pc'[p] = IF n = Null THEN "finish" ELSE "visit"
    BY <1>1, <1>2, <1>3, TypesAre DEF PcNames
  <1>5. Alone(p)'
    BY <1>1, <1>3, TypesAre DEF Alone
  <1>6. \A x \in Places : Chain(x)' = Chain(x)
    BY ChainsSame
  <1>7. n = next[at[p]] => Left(p) = {at[p]} \cup Left(p)'
    BY <1>2, <1>4 DEF Left
  <1> QED
    BY <1>1, <1>2, <1>4, <1>5, <1>6, <1>7

-----------------------------------------------------------------------------
(* The steps of a loop.                                                     *)

LEMMA VisitOtherKeeps ==
    ASSUME DriverInv, NEW p \in Procs, Alone(p), VisitOther(p), UNCHANGED calls
    PROVE  DriverInv' /\ Alone(p)'
  <1>1. /\ pc[p] = "visit" /\ key[at[p]] # job[p].key /\ Visit(p, next[at[p]])
        /\ UNCHANGED <<opened, current, listVars, job, answer, used>>
    BY DEF VisitOther, Visiting
  <1>2. UNCHANGED <<head, key, data, next, pprev, linked, live>>
    BY <1>1 DEF listVars
  <1>3. TypesInv /\ ListsInv /\ job[p].place \in Places /\ CallOK(p)
    BY AtWork DEF DriverInv
  <1>4. /\ pc' \in [Procs -> PcNames] /\ at' \in [Procs -> Nodes \cup {Null}] /\ Alone(p)'
        /\ pc'[p] \in {"visit", "finish"}
        /\ pc'[p] = "visit" => at'[p] \in Chain(job[p].place)
        /\ pc'[p] = "finish" => at'[p] = Null
        /\ Left(p) = {at[p]} \cup Left(p)'
        /\ \A x \in Places : Chain(x)' = Chain(x)
    BY <1>1, <1>2, MoveOn
  <1>5. TypesInv'
    BY <1>1, <1>2, <1>3, <1>4, TypesAre, TypesOf
  <1>6. ListsInv'
    BY <1>1, <1>3, ListsSame DEF Alone
  <1>7. Match(p)' = Match(p) /\ (Found(p)' <=> Found(p))
    BY <1>1, <1>2, <1>3, <1>4 DEF Match, Found
  <1>8. Match(p) \subseteq Left(p) => Match(p)' \subseteq Left(p)'
    BY <1>1, <1>4, <1>7 DEF Match
  <1>9. LoopOK(p)'
    BY <1>1, <1>3, <1>4, <1>7, <1>8 DEF CallOK, LoopOK
  <1>10. KeyOK(p)'
    BY <1>1, <1>3 DEF CallOK, KeyOK, Busy
  <1>11. CallsInv'
    BY <1>4, <1>9, <1>10, CallsOfOne DEF CallOK
  <1> QED
    BY <1>4, <1>5, <1>6, <1>11 DEF DriverInv

LEMMA VisitReadKeeps ==
    ASSUME DriverInv, NEW p \in Procs, Alone(p), VisitRead(p), UNCHANGED calls
    PROVE  DriverInv' /\ Alone(p)'
  <1>1. /\ pc[p] = "visit" /\ job[p].op = "read" /\ key[at[p]] = job[p].key
        /\ Visit(p, next[at[p]]) /\ job' = [job EXCEPT ![p].data = data[at[p]]]
        /\ UNCHANGED <<opened, current, listVars, answer, used>>
    BY DEF VisitRead, Visiting
  <1>2. UNCHANGED <<head, key, data, next, pprev, linked, live>>
    BY <1>1 DEF listVars
  <1>3. /\ TypesInv /\ ListsInv /\ job[p].place \in Places /\ CallOK(p)
        /\ at[p] \in Chain(job[p].place) /\ job \in [Procs -> Jobs]
    BY <1>1, AtWork, TypesAre DEF DriverInv
  <1>4. /\ pc' \in [Procs -> PcNames] /\ at' \in [Procs -> Nodes \cup {Null}] /\ Alone(p)'
        /\ pc'[p] \in {"visit", "finish"}
        /\ pc'[p] = "visit" => at'[p] \in Chain(job[p].place)
        /\ pc'[p] = "finish" => at'[p] = Null
        /\ \A x \in Places : Chain(x)' = Chain(x)
    BY <1>1, <1>2, MoveOn
  <1>5. data[at[p]] \in Values
    BY <1>3 DEF ListsInv, ChainOK
  <1>6. /\ job' \in [Procs -> Jobs] /\ job'[p].data = data[at[p]] /\ job'[p].op = job[p].op
        /\ job'[p].key = job[p].key /\ job'[p].place = job[p].place
    BY <1>1, <1>3, <1>5, JobReads
  <1>7. TypesInv'
    BY <1>1, <1>2, <1>3, <1>4, <1>6, TypesAre, TypesOf
  <1>8. ListsInv'
    BY <1>1, <1>3, ListsSame DEF Alone
  <1>9. Found(p)'
    BY <1>1, <1>2, <1>3, <1>4, <1>6 DEF Match, Found
  <1>10. LoopOK(p)'
    BY <1>1, <1>3, <1>4, <1>5, <1>6, <1>9, Sizes DEF LoopOK
  <1>11. KeyOK(p)'
    BY <1>1, <1>3, <1>6 DEF CallOK, KeyOK, Busy
  <1>12. CallsInv'
    BY <1>4, <1>10, <1>11, CallsOfOne DEF CallOK
  <1> QED
    BY <1>4, <1>7, <1>8, <1>12 DEF DriverInv

LEMMA VisitDumpKeeps ==
    ASSUME DriverInv, NEW p \in Procs, Alone(p), VisitDump(p), UNCHANGED calls
    PROVE  DriverInv' /\ Alone(p)'
  <1>1. /\ pc[p] = "visit" /\ job[p].op = "dump"
        /\ UNCHANGED <<opened, current, listVars, answer, used>>
    BY DEF VisitDump, Visiting
  <1>2. UNCHANGED <<head, key, data, next, pprev, linked, live>>
    BY <1>1 DEF listVars
  <1>3. /\ TypesInv /\ ListsInv /\ job[p].place \in Places /\ CallOK(p) /\ job \in [Procs -> Jobs]
        /\ job[p] \in Jobs
    BY <1>1, AtWork, TypesAre DEF DriverInv
  <1>4. PICK n \in {next[at[p]], Null} : Visit(p, n)
    BY DEF VisitDump
  <1>5. /\ pc' \in [Procs -> PcNames] /\ at' \in [Procs -> Nodes \cup {Null}] /\ Alone(p)'
        /\ pc'[p] \in {"visit", "finish"}
        /\ pc'[p] = "visit" => at'[p] \in Chain(job[p].place)
        /\ pc'[p] = "finish" => at'[p] = Null
        /\ \A x \in Places : Chain(x)' = Chain(x)
    BY <1>1, <1>2, <1>4, MoveOn
  <1>6. job' \in [Procs -> Jobs] /\ job'[p].op = job[p].op /\ job'[p].place = job[p].place
    <2>1. CASE job[p].count < DumpMax
      <3>1. job[p].count + 1 \in 0..DumpMax
        BY <1>3, <2>1, Sizes DEF Jobs
      <3>2. job' = [job EXCEPT ![p].count = job[p].count + 1]
        BY <2>1 DEF VisitDump
      <3> QED
        BY <1>3, <3>1, <3>2, JobCounts
    <2>2. CASE ~(job[p].count < DumpMax)
      BY <1>3, <2>2 DEF VisitDump
    <2> QED
      BY <2>1, <2>2
  <1>7. TypesInv'
    BY <1>1, <1>2, <1>3, <1>5, <1>6, TypesAre, TypesOf
  <1>8. ListsInv'
    BY <1>1, <1>3, ListsSame DEF Alone
  <1>9. LoopOK(p)'
    BY <1>1, <1>3, <1>5, <1>6 DEF LoopOK
  <1>10. KeyOK(p)'
    BY <1>1, <1>6 DEF KeyOK
  <1>11. CallsInv'
    BY <1>5, <1>9, <1>10, CallsOfOne DEF CallOK
  <1> QED
    BY <1>5, <1>7, <1>8, <1>11 DEF DriverInv

LEMMA VisitUpdateKeeps ==
    ASSUME DriverInv, NEW p \in Procs, Alone(p), VisitUpdate(p), UNCHANGED calls
    PROVE  DriverInv' /\ Alone(p)'
  <1>1. /\ pc[p] = "visit" /\ job[p].op = "write" /\ key[at[p]] = job[p].key
        /\ Visit(p, next[at[p]]) /\ job' = [job EXCEPT ![p].count = 1]
        /\ data' = [data EXCEPT ![at[p]] = job[p].data]
        /\ UNCHANGED <<opened, current, head, key, next, pprev, linked, live, answer, used>>
    BY DEF VisitUpdate, Visiting
  <1>2. /\ TypesInv /\ ListsInv /\ job[p].place \in Places /\ CallOK(p)
        /\ at[p] \in Chain(job[p].place) /\ job \in [Procs -> Jobs]
        /\ data \in [Nodes -> Values \cup {0}] /\ at[p] \in Nodes
    BY <1>1, AtWork, TypesAre DEF DriverInv
  <1>3. /\ pc' \in [Procs -> PcNames] /\ at' \in [Procs -> Nodes \cup {Null}] /\ Alone(p)'
        /\ pc'[p] \in {"visit", "finish"}
        /\ pc'[p] = "visit" => at'[p] \in Chain(job[p].place)
        /\ pc'[p] = "finish" => at'[p] = Null
        /\ \A x \in Places : Chain(x)' = Chain(x)
    BY <1>1, MoveOn
  <1>4. 1 \in 0..DumpMax
    BY Sizes
  <1>5. /\ job' \in [Procs -> Jobs] /\ job'[p].data = job[p].data /\ job'[p].op = job[p].op
        /\ job'[p].key = job[p].key /\ job'[p].place = job[p].place /\ job'[p].count = 1
    BY <1>1, <1>2, <1>4, JobCounts
  <1>6. job[p].data \in Values
    BY <1>1, <1>2 DEF CallOK, KeyOK, Busy
  <1>7. /\ data' \in [Nodes -> Values \cup {0}] /\ data'[at[p]] = job[p].data
        /\ \A n \in Nodes \ {at[p]} : data'[n] = data[n]
    BY <1>1, <1>2, <1>6
  <1>8. TypesInv'
    BY <1>1, <1>2, <1>3, <1>5, <1>7, TypesAre, TypesOf
  <1>9. \A x \in Places : Chain(x) \subseteq Nodes
    BY <1>2, Shape
  <1>10. ListsInv'
    <2>1. \A q \in Procs : pc[q] # "publish"
      BY <1>1 DEF Alone
    <2>2. ASSUME NEW x \in Places PROVE ChainOK(x)'
      <3>1. ChainOK(x)
        BY <1>2 DEF ListsInv
      <3>2. \A n \in Chain(x) : data'[n] \in Values
        BY <1>6, <1>7, <1>9, <3>1 DEF ChainOK
      <3> QED
        BY <1>1, <1>3, <3>1, <3>2 DEF ChainOK
    <2>3. \A x \in Places : ~Publishing(x)
      BY <2>1 DEF Publishing
    <2> QED
      BY <1>1, <1>2, <1>3, <2>2, <2>3 DEF ListsInv
  <1>11. Found(p)'
    BY <1>1, <1>2, <1>3, <1>5, <1>7 DEF Match, Found
  <1>12. LoopOK(p)'
    BY <1>1, <1>2, <1>3, <1>5, <1>11 DEF LoopOK
  <1>13. KeyOK(p)'
    BY <1>1, <1>2, <1>5 DEF CallOK, KeyOK, Busy
  <1>14. CallsInv'
    BY <1>3, <1>12, <1>13, CallsOfOne DEF CallOK
  <1> QED
    BY <1>3, <1>8, <1>10, <1>14 DEF DriverInv

\* Between the two steps of hash_add of no one, the lists are doubly linked.
LEMMA ListLinked ==
    ASSUME TypesInv, ListsInv, NEW x \in Places, \A q \in Procs : pc[q] # "publish"
    PROVE  Linked(next, pprev, head[x])
  BY DEF ListsInv, ChainOK, Publishing, Linked, Chain

\* hash_del: one node leaves its bucket, the other buckets are as they were.
LEMMA DeleteChains ==
    ASSUME DriverInv, NEW p \in Procs, Alone(p), VisitDelete(p), NEW n, n = at[p],
           NEW x, x = job[p].place
    PROVE  /\ Chain(x)' = Chain(x) \ {n}
           /\ \A y \in Places \ {x} : Chain(y)' = Chain(y)
           /\ next' \in Pointers /\ pprev' \in Pointers
           /\ head' \in [Places -> Nodes \cup {Null}]
           /\ Linked(next, pprev, head[x])
           /\ n \in Chain(x) /\ x \in Places
           /\ next' = [m \in Nodes |-> IF m = n THEN Null
                                       ELSE IF m = pprev[n] THEN next[n] ELSE next[m]]
           /\ pprev' = [m \in Nodes |-> IF m = n THEN Null
                                        ELSE IF m = next[n] THEN pprev[n] ELSE pprev[m]]
           /\ head' = IF pprev[n] = Null THEN [head EXCEPT ![x] = next[n]] ELSE head
           /\ linked' = linked \ {n} /\ Visit(p, Null)
  <1>1. pc[p] = "visit" /\ job[p].op = "delete" /\ key[at[p]] = job[p].key
    BY DEF VisitDelete, Visiting
  <1>2. /\ TypesInv /\ ListsInv /\ x \in Places /\ CallOK(p)
        /\ n \in Chain(x) /\ n \in Nodes /\ next[n] \in Chain(x) \cup {Null}
    BY <1>1, AtWork DEF DriverInv
  <1>3. n \in linked
    BY <1>2 DEF ListsInv, ChainOK
  <1>4. /\ next' = [m \in Nodes |-> IF m = n THEN Null
                                    ELSE IF m = pprev[n] THEN next[n] ELSE next[m]]
        /\ pprev' = [m \in Nodes |-> IF m = n THEN Null
                                     ELSE IF m = next[n] THEN pprev[n] ELSE pprev[m]]
        /\ head' = IF pprev[n] = Null THEN [head EXCEPT ![x] = next[n]] ELSE head
        /\ linked' = linked \ {n} /\ Visit(p, Null)
    BY <1>3 DEF VisitDelete
  <1>5. /\ next \in Pointers /\ pprev \in Pointers /\ head \in [Places -> Nodes \cup {Null}]
        /\ \A y \in Places : Chain(y) \subseteq Nodes
    BY <1>2, TypesAre, Shape
  <1>6. next' \in Pointers /\ pprev' \in Pointers /\ head' \in [Places -> Nodes \cup {Null}]
    BY <1>2, <1>4, <1>5 DEF Pointers
  <1>7. Linked(next, pprev, head[x])
    BY <1>1, <1>2, ListLinked DEF Alone
  <1>8. head[x] \in Nodes \cup {Null} /\ n \in Reached(next, head[x])
    BY <1>2, <1>5 DEF Chain
  <1>9. Chain(x)' = Chain(x) \ {n}
    <2>1. head'[x] = IF pprev[n] = Null THEN next[n] ELSE head[x]
      BY <1>2, <1>4, <1>5
    <2>2. Unlinks(next, next', pprev, n)
      BY <1>4 DEF Unlinks
    <2>3. Reached(next', head'[x]) = Reached(next, head[x]) \ {n}
      BY <1>5, <1>6, <1>7, <1>8, <2>1, <2>2, ReachedUnlink
    <2> QED
      BY <2>3 DEF Chain
  <1>10. ASSUME NEW y \in Places \ {x} PROVE Chain(y)' = Chain(y)
    <2>1. head'[y] = head[y] /\ head[y] \in Nodes \cup {Null}
      BY <1>2, <1>4, <1>5
    <2>2. Chain(x) \cap Chain(y) = {}
      BY <1>2 DEF ListsInv
    <2>3. pprev[n] \in Chain(x) \cup {Null}
      BY <1>5, <1>7, <1>8, LinkedPlace DEF Chain
    <2>4. \A l \in Chain(y) : next'[l] = next[l]
      BY <1>2, <1>4, <1>5, <2>2, <2>3, Sizes
    <2>5. Reached(next', head[y]) = Reached(next, head[y])
      BY <1>5, <1>6, <2>1, <2>4, ReachedSame DEF Chain
    <2> QED
      BY <2>1, <2>5 DEF Chain
  <1> QED
    BY <1>2, <1>4, <1>6, <1>7, <1>9, <1>10

LEMMA VisitDeleteKeeps ==
    ASSUME DriverInv, NEW p \in Procs, Alone(p), VisitDelete(p), UNCHANGED calls
    PROVE  DriverInv' /\ Alone(p)'
  <1>0. SUFFICES ASSUME NEW n, n = at[p], NEW x, x = job[p].place,
                        NEW succ, succ = next[n], NEW pred, pred = pprev[n]
                 PROVE  DriverInv' /\ Alone(p)'
    OBVIOUS
  <1>1. /\ pc[p] = "visit" /\ job[p].op = "delete" /\ key[n] = job[p].key
        /\ UNCHANGED <<opened, current, key, data, live, job, answer, used>>
    BY <1>0 DEF VisitDelete, Visiting
  <1>2. /\ TypesInv /\ ListsInv /\ CallOK(p) /\ n \in Nodes /\ succ \in Chain(x) \cup {Null}
        /\ next \in Pointers /\ pprev \in Pointers
        /\ \A y \in Places : Chain(y) \subseteq Nodes /\ head[y] \in Nodes \cup {Null}
    BY <1>0, <1>1, AtWork, Shape DEF DriverInv
  <1>3. /\ Chain(x)' = Chain(x) \ {n}
        /\ \A y \in Places \ {x} : Chain(y)' = Chain(y)
        /\ next' \in Pointers /\ pprev' \in Pointers
        /\ head' \in [Places -> Nodes \cup {Null}]
        /\ Linked(next, pprev, head[x])
        /\ n \in Chain(x) /\ x \in Places
        /\ next' = [m \in Nodes |-> IF m = n THEN Null ELSE IF m = pred THEN succ ELSE next[m]]
        /\ pprev' = [m \in Nodes |-> IF m = n THEN Null ELSE IF m = succ THEN pred ELSE pprev[m]]
        /\ head' = IF pred = Null THEN [head EXCEPT ![x] = succ] ELSE head
        /\ linked' = linked \ {n} /\ Visit(p, Null)
    BY <1>0, DeleteChains
  <1>4. /\ pc' = [pc EXCEPT ![p] = "finish"] /\ at' = [at EXCEPT ![p] = Null]
    BY <1>3 DEF Visit, Goto
  <1>5. /\ pc' \in [Procs -> PcNames] /\ at' \in [Procs -> Nodes \cup {Null}] /\ Alone(p)'
        /\ pc'[p] = "finish" /\ at'[p] = Null
    BY <1>2, <1>4, TypesAre DEF Alone, PcNames
  <1>6. TypesInv'
    BY <1>1, <1>2, <1>3, <1>5, TypesAre, TypesOf
  <1>7. /\ IF pred = Null THEN n = head[x] ELSE n # head[x] /\ pred \in Chain(x) \ {n}
        /\ succ # n
    BY <1>0, <1>2, <1>3, LinkedPlace DEF Chain
  <1>8. \A y \in Places : ChainOK(y)
    BY <1>2 DEF ListsInv
  <1>9. \A y \in Places \ {x} : Chain(x) \cap Chain(y) = {}
    BY <1>2, <1>3 DEF ListsInv
  <1>10. /\ \A m \in Chain(x) : next[m] # Null => pprev[next[m]] = m
         /\ head[x] # Null => pprev[head[x]] = Null
    BY <1>3 DEF Linked, Chain
  <1>11. ASSUME NEW m \in Chain(x) \ {n}, next'[m] # Null PROVE pprev'[next'[m]] = m
    <2>1. m \in Nodes /\ m # Null
      BY <1>2, <1>3, Sizes
    <2>2. CASE m = pred
      <3>1. next'[m] = succ
        BY <1>3, <2>1, <2>2, <1>11
      <3> QED
        BY <1>2, <1>3, <1>7, <1>11, <2>2, <3>1
    <2>3. CASE m # pred
      <3>1. next'[m] = next[m] /\ next[m] \in Nodes
        BY <1>2, <1>3, <1>11, <2>1, <2>3 DEF Pointers
      <3>2. pprev[next[m]] = m
        BY <1>10, <1>11, <3>1
      <3>3. next[m] # n
        BY <1>0, <2>3, <3>2
      <3>4. next[m] # succ
        <4>1. succ # Null => pprev[succ] = n
          BY <1>0, <1>3, <1>10
        <4> QED
          BY <1>11, <3>1, <3>2, <4>1
      <3> QED
        BY <1>3, <3>1, <3>2, <3>3, <3>4
    <2> QED
      BY <2>2, <2>3
  <1>12. ChainOK(x)'
    <2>1. ASSUME NEW m \in Chain(x) \ {n}
          PROVE  /\ m \in linked' /\ m \in live' /\ m <= used'
                 /\ key'[m] \in Keys /\ Bucket(key'[m]) = x[2] /\ data'[m] \in Values
      BY <1>1, <1>3, <1>8 DEF ChainOK
    <2>2. \A l, m \in Chain(x) \ {n} : key'[l] = key'[m] => l = m
      BY <1>1, <1>3, <1>8 DEF ChainOK
    <2> QED
      BY <1>1, <1>3, <1>11, <2>1, <2>2 DEF ChainOK
  <1>13. ASSUME NEW y \in Places \ {x}, NEW m \in Chain(y)
         PROVE  /\ next'[m] # Null => pprev'[next'[m]] = m
                /\ m # n
    <2>1. m \in Nodes /\ m # n /\ m # pred
      BY <1>2, <1>3, <1>7, <1>9, Sizes
    <2>2. next'[m] = next[m] /\ next[m] \in Nodes \cup {Null}
      BY <1>2, <1>3, <2>1 DEF Pointers
    <2>3. next[m] \in Chain(y) \cup {Null}
      BY <1>2, ReachedAhead DEF Chain
    <2>4. next[m] # Null => next[m] # n /\ next[m] # succ /\ pprev[next[m]] = m
      BY <1>0, <1>2, <1>3, <1>8, <1>9, <2>3 DEF ChainOK
    <2> QED
      BY <1>3, <2>1, <2>2, <2>4
  <1>14. ASSUME NEW y \in Places \ {x} PROVE ChainOK(y)'
    <2>1. ChainOK(y) /\ Chain(y)' = Chain(y)
      BY <1>3, <1>8
    <2>2. \A m \in Chain(y) : m # n /\ (next'[m] # Null => pprev'[next'[m]] = m)
      BY <1>13
    <2> QED
      BY <1>1, <1>3, <2>1, <2>2 DEF ChainOK
  <1>15. ASSUME NEW y \in Places, head'[y] # Null PROVE pprev'[head'[y]] = Null
    <2>1. CASE y = x /\ pred = Null
      <3>1. head'[y] = succ
        BY <1>3, <2>1, TypesAre, <1>2
      <3> QED
        BY <1>2, <1>3, <1>7, <1>15, <2>1, <3>1
    <2>2. CASE y = x /\ pred # Null
      <3>1. head'[y] = head[x] /\ head[x] \in Nodes
        BY <1>2, <1>3, <1>15, <2>2
      <3>2. succ # Null => pprev[succ] = n
        BY <1>0, <1>3, <1>10
      <3>3. head[x] # succ
        BY <1>2, <1>10, <1>15, <3>1, <3>2, Sizes
      <3> QED
        BY <1>3, <1>7, <1>10, <1>15, <2>2, <3>1, <3>3
    <2>3. CASE y # x
      <3>1. head'[y] = head[y] /\ head[y] \in Nodes
        BY <1>2, <1>3, <1>15, <2>3, TypesAre
      <3>2. head[y] \in Chain(y)
        BY <1>2, <1>15, <3>1, ReachedHolds DEF Holds, Chain
      <3>3. head[y] # n /\ (succ # Null => head[y] # succ)
        BY <1>2, <1>3, <1>9, <2>3, <3>2
      <3>4. pprev[head[y]] = Null
        <4>1. ~Publishing(y)
          BY <1>1 DEF Publishing, Alone
        <4> QED
          BY <1>2, <1>15, <3>1, <4>1 DEF ListsInv
      <3> QED
        BY <1>3, <1>15, <3>1, <3>3, <3>4
    <2> QED
      BY <2>1, <2>2, <2>3
  <1>16. ListsInv'
    <2>1. \A y \in Places : ChainOK(y)'
      BY <1>12, <1>14
    <2>2. \A y, z \in Places : y # z => Chain(y)' \cap Chain(z)' = {}
      <3>1. \A y \in Places : Chain(y)' \subseteq Chain(y)
        BY <1>3
      <3> QED
        BY <1>2, <3>1 DEF ListsInv
    <2> QED
      BY <1>15, <2>1, <2>2 DEF ListsInv
  <1>17. Match(p)' = {}
    <2>1. \A m \in Chain(x) : key[m] = key[n] => m = n
      BY <1>3, <1>8 DEF ChainOK
    <2> QED
      BY <1>0, <1>1, <1>3, <2>1 DEF Match
  <1>18. LoopOK(p)'
    BY <1>1, <1>5, <1>17 DEF LoopOK
  <1>19. KeyOK(p)'
    BY <1>1, <1>2 DEF CallOK, KeyOK, Busy
  <1>20. CallsInv'
    BY <1>5, <1>18, <1>19, CallsOfOne DEF CallOK
  <1> QED
    BY <1>5, <1>6, <1>16, <1>20 DEF DriverInv

LEMMA NoJobIsOne == NoJob \in Jobs
  BY Sizes DEF NoJob, Jobs, Places, Minors

LEMMA FinishKeeps ==
    ASSUME DriverInv, NEW p \in Procs, Alone(p), Finish(p), UNCHANGED calls
    PROVE  DriverInv' /\ Alone(p)'
  <1>1. /\ pc[p] = "finish" /\ UNCHANGED <<opened, current, listVars, at, used>>
        /\ IF job[p].op = "write" /\ job[p].count = 0
           THEN Goto(p, "link") /\ UNCHANGED job
           ELSE Return(p)
    BY DEF Finish
  <1>2. UNCHANGED <<head, key, data, next, pprev, linked, live>>
    BY <1>1 DEF listVars
  <1>3. TypesInv /\ ListsInv /\ CallOK(p) /\ job[p].place \in Places
    BY AtWork DEF DriverInv
  <1>4. pc' = [pc EXCEPT ![p] = pc'[p]] /\ pc'[p] \in {"link", "idle"} /\ Alone(p)'
    BY <1>1, <1>3, TypesAre DEF Return, Goto, Alone
  <1>5. job' \in [Procs -> Jobs]
    BY <1>1, <1>3, TypesAre, NoJobIsOne DEF Return
  <1>6. pc' \in [Procs -> PcNames]
    BY <1>3, <1>4, TypesAre DEF PcNames
  <1>7. TypesInv'
    BY <1>1, <1>2, <1>3, <1>5, <1>6, TypesAre, TypesOf
  <1>8. ListsInv'
    BY <1>1, <1>3, ListsSame DEF Alone
  <1>9. CallOK(p)'
    <2>1. CASE job[p].op = "write" /\ job[p].count = 0
      <3>1. pc'[p] = "link" /\ UNCHANGED job
        BY <1>1, <1>3, <2>1, TypesAre DEF Goto
      <3>2. Match(p) \subseteq Left(p) /\ at[p] = Null
        BY <1>1, <1>3, <2>1 DEF CallOK, LoopOK
      <3>3. Match(p) = {}
        BY <3>2, ReachedNull DEF Left
      <3>4. Match(p)' = {}
        BY <1>2, <3>1, <3>3 DEF Match, Chain
      <3>5. KeyOK(p)'
        BY <1>1, <1>3, <3>1 DEF CallOK, KeyOK, Busy
      <3> QED
        BY <2>1, <3>1, <3>4, <3>5 DEF CallOK
    <2>2. CASE ~(job[p].op = "write" /\ job[p].count = 0)
      <3>1. pc'[p] = "idle"
        BY <1>1, <1>3, <2>2, TypesAre DEF Return, Goto
      <3> QED
        BY <3>1 DEF CallOK, Busy
    <2> QED
      BY <2>1, <2>2
  <1> QED
    BY <1>4, <1>7, <1>8, <1>9, CallsOfOne DEF DriverInv

-----------------------------------------------------------------------------
(* hash_add.                                                                *)

LEMMA HeadInChain ==
    ASSUME TypesInv, NEW x \in Places, head[x] # Null
    PROVE  head[x] \in Chain(x) /\ head[x] \in Nodes
  BY Shape, ReachedHolds DEF Chain, Holds

\* No bucket has a node beyond the last one used, and stores to that one
\* change no bucket.
LEMMA LinkChains ==
    ASSUME DriverInv, NEW p \in Procs, Link(p), NEW n, n = used + 1
    PROVE  /\ n \in Nodes /\ next' \in Pointers /\ used' = n /\ n # used
           /\ next' = [next EXCEPT ![n] = head[job[p].place]]
           /\ key' = [key EXCEPT ![n] = job[p].key] /\ data' = [data EXCEPT ![n] = job[p].data]
           /\ \A x \in Places : n \notin Chain(x) /\ Chain(x)' = Chain(x)
           /\ \A x \in Places : \A m \in Chain(x) :
                 m \in Nodes /\ m # n /\ key'[m] = key[m] /\ data'[m] = data[m]
                 /\ next'[m] = next[m]
  <1>1. /\ TypesInv /\ ListsInv /\ job[p].place \in Places
        /\ \A x \in Places : head[x] \in Nodes \cup {Null} /\ Chain(x) \subseteq Nodes
    BY AtWork, Shape DEF DriverInv
  <1>2. /\ next' = [next EXCEPT ![n] = head[job[p].place]] /\ used < MaxNodes /\ used' = n
        /\ key' = [key EXCEPT ![n] = job[p].key] /\ data' = [data EXCEPT ![n] = job[p].data]
        /\ UNCHANGED head
    BY DEF Link, NewNode
  <1>3. /\ used \in 0..MaxNodes /\ next \in Pointers /\ key \in [Nodes -> Keys \cup {0}]
        /\ data \in [Nodes -> Values \cup {0}]
    BY <1>1, TypesAre
  <1>4. n \in Nodes /\ n # used
    BY <1>2, <1>3, Sizes DEF Nodes
  <1>5. next' \in Pointers
    BY <1>1, <1>2, <1>3, <1>4 DEF Pointers
  <1>6. ASSUME NEW x \in Places, NEW m \in Chain(x) PROVE m # n /\ m \in Nodes
    <2>1. m <= used /\ m \in Nodes
      BY <1>1 DEF ListsInv, ChainOK
    <2> QED
      BY <1>3, <2>1, Sizes DEF Nodes
  <1>7. ASSUME NEW x \in Places, NEW m \in Chain(x)
        PROVE  key'[m] = key[m] /\ data'[m] = data[m] /\ next'[m] = next[m]
    <2>1. m # n /\ m \in Nodes
      BY <1>6
    <2> QED
      BY <1>2, <1>3, <2>1 DEF Pointers
  <1>8. ASSUME NEW x \in Places PROVE Chain(x)' = Chain(x)
    <2>1. Reached(next', head[x]) = Reached(next, head[x])
      BY <1>1, <1>3, <1>5, <1>7, ReachedSame DEF Chain
    <2> QED
      BY <1>2, <2>1 DEF Chain
  <1> QED
    BY <1>2, <1>4, <1>5, <1>6, <1>7, <1>8

LEMMA LinkKeeps ==
    ASSUME DriverInv, NEW p \in Procs, Alone(p), Link(p), UNCHANGED calls
    PROVE  DriverInv' /\ Alone(p)'
  <1>0. SUFFICES ASSUME NEW n, n = used + 1, NEW x, x = job[p].place,
                        NEW first, first = head[x]
                 PROVE  DriverInv' /\ Alone(p)'
    OBVIOUS
  <1>1. /\ pc[p] = "link" /\ pc' = [pc EXCEPT ![p] = "publish"]
        /\ live' = live \cup {n} /\ at' = [at EXCEPT ![p] = n]
        /\ pprev' = IF first = Null THEN pprev ELSE [pprev EXCEPT ![first] = n]
        /\ UNCHANGED <<opened, current, head, linked, job, answer>>
    BY <1>0 DEF Link, Goto, NewNode
  <1>2. /\ TypesInv /\ ListsInv /\ CallOK(p) /\ x \in Places /\ first \in Nodes \cup {Null}
        /\ first # Null => first \in Chain(x)
    BY <1>0, AtWork, Shape, HeadInChain DEF DriverInv
  <1>3. job[p].op = "write" /\ Match(p) = {} /\ KeyOK(p)
    BY <1>1, <1>2 DEF CallOK, Busy
  <1>4. /\ n \in Nodes /\ next' \in Pointers /\ used' = n /\ n # used
        /\ next' = [next EXCEPT ![n] = first]
        /\ key' = [key EXCEPT ![n] = job[p].key] /\ data' = [data EXCEPT ![n] = job[p].data]
        /\ \A y \in Places : n \notin Chain(y) /\ Chain(y)' = Chain(y)
        /\ \A y \in Places : \A m \in Chain(y) :
              m \in Nodes /\ m # n /\ key'[m] = key[m] /\ data'[m] = data[m]
              /\ next'[m] = next[m]
    BY <1>0, LinkChains
  <1>5. /\ pc \in [Procs -> PcNames] /\ at \in [Procs -> Nodes \cup {Null}]
        /\ key \in [Nodes -> Keys \cup {0}] /\ data \in [Nodes -> Values \cup {0}]
        /\ next \in Pointers /\ pprev \in Pointers /\ used \in 0..MaxNodes
    BY <1>2, TypesAre
  <1>6. job[p].key \in Keys /\ job[p].data \in Values
    BY <1>3 DEF KeyOK
  <1>7. /\ pc' \in [Procs -> PcNames] /\ at' \in [Procs -> Nodes \cup {Null}]
        /\ key' \in [Nodes -> Keys \cup {0}] /\ data' \in [Nodes -> Values \cup {0}]
        /\ pprev' \in Pointers /\ used' \in 0..MaxNodes
        /\ key'[n] = job[p].key /\ data'[n] = job[p].data /\ next'[n] = first
        /\ pc'[p] = "publish" /\ at'[p] = n /\ Alone(p)'
    <2>1. used' \in 0..MaxNodes
      BY <1>4, Sizes DEF Nodes
    <2>2. pprev' \in Pointers
      BY <1>1, <1>2, <1>4, <1>5 DEF Pointers
    <2>3. /\ key' \in [Nodes -> Keys \cup {0}] /\ data' \in [Nodes -> Values \cup {0}]
          /\ key'[n] = job[p].key /\ data'[n] = job[p].data /\ next'[n] = first
      BY <1>4, <1>5, <1>6 DEF Pointers
    <2>4. /\ pc' \in [Procs -> PcNames] /\ at' \in [Procs -> Nodes \cup {Null}]
          /\ pc'[p] = "publish" /\ at'[p] = n /\ Alone(p)'
      BY <1>1, <1>4, <1>5 DEF PcNames, Alone
    <2> QED
      BY <2>1, <2>2, <2>3, <2>4
  <1>8. TypesInv'
    <2>1. live' \subseteq Nodes
      BY <1>1, <1>2, <1>4, TypesAre
    <2> QED
      BY <1>1, <1>2, <1>4, <1>7, <2>1, TypesAre, TypesOf
  <1>9. \A y \in Places : ~Publishing(y)
    BY <1>1 DEF Publishing, Alone
  <1>10. \A y \in Places : head[y] # Null => pprev[head[y]] = Null
    BY <1>2, <1>9 DEF ListsInv
  <1>11. ASSUME NEW y \in Places PROVE ChainOK(y)'
    <2>1. ChainOK(y) /\ Chain(y)' = Chain(y)
      BY <1>2, <1>4 DEF ListsInv
    <2>2. ASSUME NEW m \in Chain(y) PROVE next'[m] # Null => pprev'[next'[m]] = m
      <3>1. m \in Nodes /\ m # Null /\ next'[m] = next[m] /\ next[m] \in Nodes \cup {Null}
        BY <1>4, <1>5, Sizes DEF Pointers
      <3>2. next[m] # Null => pprev[next[m]] = m
        BY <2>1 DEF ChainOK
      <3>3. next[m] # Null => next[m] # first
        BY <1>0, <1>2, <1>10, <3>1, <3>2
      <3> QED
        BY <1>1, <1>5, <3>1, <3>2, <3>3 DEF Pointers
    <2>3. ASSUME NEW m \in Chain(y)
          PROVE  /\ m \in linked' /\ m \in live' /\ m <= used'
                 /\ key'[m] \in Keys /\ Bucket(key'[m]) = y[2] /\ data'[m] \in Values
      <3>1. m <= used /\ m \in Nodes
        BY <1>4, <2>1 DEF ChainOK
      <3>2. m <= used'
        BY <1>0, <1>4, <1>5, <3>1, Sizes DEF Nodes
      <3> QED
        BY <1>1, <1>4, <2>1, <3>2 DEF ChainOK
    <2>4. \A l, m \in Chain(y) : key'[l] = key'[m] => l = m
      BY <1>4, <2>1 DEF ChainOK
    <2> QED
      BY <2>1, <2>2, <2>3, <2>4 DEF ChainOK
  <1>12. Publishing(x)'
    BY <1>0, <1>1, <1>2, <1>7 DEF Publishing
  <1>13. ASSUME NEW y \in Places, head'[y] # Null, ~Publishing(y)'
         PROVE  pprev'[head'[y]] = Null
    <2>1. y # x
      BY <1>12, <1>13
    <2>2. head[y] \in Chain(y) /\ head[y] \in Nodes /\ head'[y] = head[y]
      BY <1>1, <1>2, <1>13, HeadInChain
    <2>3. Chain(x) \cap Chain(y) = {}
      BY <1>2, <2>1 DEF ListsInv
    <2>4. first # Null => first # head[y]
      BY <1>2, <2>2, <2>3
    <2> QED
      BY <1>1, <1>5, <1>10, <1>13, <2>2, <2>4 DEF Pointers
  <1>14. ListsInv'
    <2>1. \A y, z \in Places : y # z => Chain(y)' \cap Chain(z)' = {}
      BY <1>2, <1>4 DEF ListsInv
    <2> QED
      BY <1>11, <1>13, <2>1 DEF ListsInv
  <1>15. Match(p)' = {}
    BY <1>0, <1>1, <1>2, <1>3, <1>4 DEF Match
  <1>16. KeyOK(p)'
    BY <1>1, <1>3 DEF KeyOK
  <1>17. NodeOK(p)'
    <2>1. first # Null => pprev'[first] = n
      BY <1>1, <1>2, <1>5 DEF Pointers
    <2>2. \A y \in Places : n \notin Chain(y)'
      BY <1>4
    <2> QED
      BY <1>0, <1>1, <1>2, <1>4, <1>7, <2>1, <2>2 DEF NodeOK
  <1>18. CallsInv'
    BY <1>1, <1>3, <1>7, <1>15, <1>16, <1>17, CallsOfOne DEF CallOK
  <1> QED
    BY <1>7, <1>8, <1>14, <1>18 DEF DriverInv

\* The node is now the first of its bucket, the other buckets are as they were.
LEMMA PublishChains ==
    ASSUME DriverInv, NEW p \in Procs, Publish(p), NEW n, n = at[p], NEW x, x = job[p].place
    PROVE  /\ Chain(x)' = Chain(x) \cup {n} /\ x \in Places /\ n \in Nodes
           /\ \A y \in Places \ {x} : Chain(y)' = Chain(y)
           /\ \A y \in Places : n \notin Chain(y)
           /\ head' \in [Places -> Nodes \cup {Null}]
           /\ head'[x] = n /\ \A y \in Places \ {x} : head'[y] = head[y]
  <1>1. /\ pc[p] = "publish" /\ head' = [head EXCEPT ![x] = n] /\ UNCHANGED next
    BY DEF Publish
  <1>2. TypesInv /\ CallOK(p) /\ x \in Places
    BY AtWork DEF DriverInv
  <1>3. n \in Nodes /\ next[n] = head[x] /\ \A y \in Places : n \notin Chain(y)
    BY <1>1, <1>2 DEF CallOK, NodeOK
  <1>4. head \in [Places -> Nodes \cup {Null}] /\ next \in Pointers
    BY <1>2, TypesAre
  <1>5. /\ head' \in [Places -> Nodes \cup {Null}] /\ head'[x] = n
        /\ \A y \in Places \ {x} : head'[y] = head[y]
    BY <1>1, <1>2, <1>3, <1>4
  <1>6. Reached(next, n) = {n} \cup Reached(next, head[x])
    BY <1>3, <1>4, ReachedStep
  <1>7. Chain(x)' = Chain(x) \cup {n}
    BY <1>1, <1>5, <1>6 DEF Chain
  <1>8. \A y \in Places \ {x} : Chain(y)' = Chain(y)
    BY <1>1, <1>5 DEF Chain
  <1> QED
    BY <1>2, <1>3, <1>5, <1>7, <1>8

LEMMA PublishKeeps ==
    ASSUME DriverInv, NEW p \in Procs, Alone(p), Publish(p), UNCHANGED calls
    PROVE  DriverInv' /\ Alone(p)'
  <1>0. SUFFICES ASSUME NEW n, n = at[p], NEW x, x = job[p].place,
                        NEW first, first = head[x]
                 PROVE  DriverInv' /\ Alone(p)'
    OBVIOUS
  <1>1. /\ pc[p] = "publish" /\ pc' = [pc EXCEPT ![p] = "idle"]
        /\ job' = [job EXCEPT ![p] = NoJob] /\ at' = [at EXCEPT ![p] = Null]
        /\ pprev' = [pprev EXCEPT ![n] = Null] /\ linked' = linked \cup {n}
        /\ UNCHANGED <<opened, current, key, data, next, live, answer, used>>
    BY <1>0 DEF Publish, Return, Goto
  <1>2. /\ TypesInv /\ ListsInv /\ CallOK(p)
    BY AtWork DEF DriverInv
  <1>3. /\ Chain(x)' = Chain(x) \cup {n} /\ x \in Places /\ n \in Nodes
        /\ \A y \in Places \ {x} : Chain(y)' = Chain(y)
        /\ \A y \in Places : n \notin Chain(y)
        /\ head' \in [Places -> Nodes \cup {Null}]
        /\ head'[x] = n /\ \A y \in Places \ {x} : head'[y] = head[y]
    BY <1>0, PublishChains
  <1>4. /\ job[p].op = "write" /\ job[p].key \in Keys /\ x[2] = Bucket(job[p].key)
        /\ job[p].data \in Values /\ Match(p) = {}
    BY <1>0, <1>1, <1>2 DEF CallOK, KeyOK, Busy
  <1>5. /\ n = used /\ n \in live /\ key[n] = job[p].key /\ data[n] = job[p].data
        /\ next[n] = first
        /\ first # Null => pprev[first] = n
    BY <1>0, <1>1, <1>2 DEF CallOK, NodeOK
  <1>6. /\ pc \in [Procs -> PcNames] /\ at \in [Procs -> Nodes \cup {Null}]
        /\ pprev \in Pointers /\ next \in Pointers /\ used \in 0..MaxNodes
        /\ job \in [Procs -> Jobs] /\ linked \subseteq Nodes
    BY <1>2, TypesAre
  <1>7. /\ pc' \in [Procs -> PcNames] /\ pc'[p] = "idle" /\ Alone(p)'
        /\ at' \in [Procs -> Nodes \cup {Null}] /\ linked' \subseteq Nodes
        /\ pprev' \in Pointers /\ pprev'[n] = Null
        /\ \A m \in Nodes \ {n} : pprev'[m] = pprev[m]
    BY <1>1, <1>3, <1>6 DEF PcNames, Alone, Pointers
  <1>8. job' \in [Procs -> Jobs]
    BY <1>1, <1>6, NoJobIsOne
  <1>9. TypesInv'
    BY <1>1, <1>2, <1>3, <1>7, <1>8, TypesAre, TypesOf
  <1>10. ASSUME NEW y \in Places, NEW m \in Chain(y)
         PROVE  /\ m \in Nodes \ {n} /\ m \in linked' /\ m \in live' /\ m <= used'
                /\ key'[m] \in Keys /\ Bucket(key'[m]) = y[2] /\ data'[m] \in Values
                /\ next'[m] # Null => pprev'[next'[m]] = m
    <2>1. ChainOK(y) /\ m \in Nodes /\ m # n
      BY <1>2, <1>3, Shape DEF ListsInv
    <2>2. next[m] \in Chain(y) \cup {Null}
      BY <1>2, <1>6, Shape, ReachedAhead DEF Chain
    <2>3. next[m] # Null => next[m] \in Nodes \ {n}
      BY <1>2, <1>3, <2>2, Shape
    <2> QED
      BY <1>1, <1>7, <2>1, <2>3 DEF ChainOK
  <1>11. /\ n \in linked' /\ n \in live' /\ n <= used'
         /\ key'[n] \in Keys /\ Bucket(key'[n]) = x[2] /\ data'[n] \in Values
         /\ next'[n] # Null => pprev'[next'[n]] = n
    <2>1. first # Null => first \in Nodes \ {n}
      BY <1>0, <1>2, <1>3, HeadInChain
    <2>2. n <= used'
      BY <1>1, <1>5, <1>6, Sizes
    <2> QED
      BY <1>1, <1>4, <1>5, <1>7, <2>1, <2>2
  <1>12. \A m \in Chain(x) : key[m] # key[n]
    BY <1>0, <1>4, <1>5 DEF Match
  <1>13. ASSUME NEW y \in Places PROVE ChainOK(y)'
    <2>1. \A l, m \in Chain(y) : key[l] = key[m] => l = m
      BY <1>2 DEF ListsInv, ChainOK
    <2>2. CASE y = x
      <3>1. \A l, m \in Chain(x) \cup {n} : key'[l] = key'[m] => l = m
        BY <1>1, <1>12, <2>1, <2>2
      <3>2. Chain(y)' = Chain(x) \cup {n}
        BY <1>3, <2>2
      <3> QED
        BY <1>10, <1>11, <2>2, <3>1, <3>2 DEF ChainOK
    <2>3. CASE y # x
      <3>1. Chain(y)' = Chain(y)
        BY <1>3, <2>3
      <3> QED
        BY <1>1, <1>10, <2>1, <3>1 DEF ChainOK
    <2> QED
      BY <2>2, <2>3
  <1>14. ASSUME NEW y \in Places, head'[y] # Null PROVE pprev'[head'[y]] = Null
    <2>1. CASE y = x
      BY <1>3, <1>7, <2>1
    <2>2. CASE y # x
      <3>1. head'[y] = head[y]
        BY <1>3, <2>2
      <3>2. head[y] \in Nodes \ {n}
        BY <1>2, <1>3, <1>14, <3>1, HeadInChain
      <3>3. ~Publishing(y)
        BY <1>0, <1>1, <2>2 DEF Publishing, Alone
      <3>4. pprev[head[y]] = Null
        BY <1>2, <1>14, <3>1, <3>3 DEF ListsInv
      <3> QED
        BY <1>7, <3>1, <3>2, <3>4
    <2> QED
      BY <2>1, <2>2
  <1>15. \A y, z \in Places : y # z => Chain(y)' \cap Chain(z)' = {}
    <2>1. \A y, z \in Places : y # z => Chain(y) \cap Chain(z) = {}
      BY <1>2 DEF ListsInv
    <2> QED
      BY <1>3, <2>1
  <1>16. ListsInv'
    BY <1>13, <1>14, <1>15 DEF ListsInv
  <1>17. CallsInv'
    BY <1>7, CallsOfOne DEF CallOK, Busy
  <1> QED
    BY <1>7, <1>9, <1>16, <1>17 DEF DriverInv

\* One call at work keeps the lists, and itself, in order.
LEMMA ProceedKeeps ==
    ASSUME DriverInv, NEW p \in Procs, Alone(p), Proceed(p), UNCHANGED calls
    PROVE  DriverInv' /\ Alone(p)'
  BY VisitOtherKeeps, VisitUpdateKeeps, VisitDeleteKeeps, VisitReadKeeps, VisitDumpKeeps,
     FinishKeeps, LinkKeeps, PublishKeeps DEF Proceed

-----------------------------------------------------------------------------
(* Calls begin, and main opens and closes, when no call is at work.         *)

LEMMA QuietCalls ==
    ASSUME Quiet'
    PROVE  CallsInv'
  BY DEF Quiet, CallsInv, CallOK, Busy

LEMMA StartKeeps ==
    ASSUME DriverInv, Quiet, UNCHANGED calls, NEW p \in Procs, NEW j \in Jobs, NEW first,
           Start(p, j, first), j.op # "none", j.count = 0,
           first \in {head[j.place], Null},
           j.op # "dump" => /\ first = head[j.place] /\ j.key \in Keys
                            /\ j.place[2] = Bucket(j.key),
           j.op = "write" => j.data \in Values,
           j.op = "read" => j.data = NoData
    PROVE  DriverInv' /\ Alone(p)' /\ job'[p] = j /\ pc'[p] # "idle"
  <1>1. /\ UNCHANGED <<opened, current, listVars, answer, used>>
        /\ job' = [job EXCEPT ![p] = j] /\ at' = [at EXCEPT ![p] = first]
        /\ pc' = [pc EXCEPT ![p] = IF first = Null THEN "finish" ELSE "visit"]
    BY DEF Start, Goto
  <1>2. UNCHANGED <<head, key, data, next, pprev, linked, live>>
    BY <1>1 DEF listVars
  <1>3. j.place \in Places
    BY DEF Jobs
  <1>4. /\ TypesInv /\ ListsInv /\ head[j.place] \in Nodes \cup {Null}
        /\ pc \in [Procs -> PcNames] /\ at \in [Procs -> Nodes \cup {Null}]
        /\ job \in [Procs -> Jobs]
    BY <1>3, Shape, TypesAre DEF DriverInv
  <1>5. /\ pc' \in [Procs -> PcNames] /\ at' \in [Procs -> Nodes \cup {Null}]
        /\ job' \in [Procs -> Jobs] /\ job'[p] = j /\ at'[p] = first
        /\ pc'[p] = IF first = Null THEN "finish" ELSE "visit"
    BY <1>1, <1>4 DEF PcNames
  <1>6. Alone(p)'
    BY <1>1, <1>4 DEF Alone, Quiet
  <1>7. TypesInv'
    BY <1>1, <1>2, <1>4, <1>5, TypesAre, TypesOf
  <1>8. ListsInv'
    BY <1>1, <1>4, ListsSame DEF Quiet
  <1>9. first # Null => first \in Chain(j.place)
    BY <1>3, <1>4, HeadInChain
  <1>10. j.op # "dump" => Match(p)' \subseteq Left(p)'
    BY <1>2, <1>5 DEF Match, Left, Chain
  <1>11. LoopOK(p)'
    <2>1. pc'[p] = "visit" => at'[p] \in Reached(next', head'[job'[p].place])
      BY <1>2, <1>5, <1>9 DEF Chain
    <2> QED
      BY <1>5, <1>10, <2>1 DEF LoopOK, Chain
  <1>12. KeyOK(p)'
    BY <1>5 DEF KeyOK
  <1>13. CallsInv'
    BY <1>5, <1>6, <1>11, <1>12, CallsOfOne DEF CallOK
  <1> QED
    BY <1>5, <1>6, <1>7, <1>8, <1>13 DEF DriverInv

\* hash_init, and the release: the buckets of one table are empty, the others
\* are as they were.
LEMMA EmptiedChains ==
    ASSUME NEW m \in Minors, head' = [x \in Places |-> IF x[1] = m THEN Null ELSE head[x]],
           UNCHANGED next
    PROVE  \A x \in Places : Chain(x)' = IF x[1] = m THEN {} ELSE Chain(x)
  BY ReachedNull DEF Chain

LEMMA EmptiedKeeps ==
    ASSUME DriverInv, Quiet, UNCHANGED <<key, data, next, pprev, pc, at, job, used, calls>>,
           NEW m \in Minors, head' = [x \in Places |-> IF x[1] = m THEN Null ELSE head[x]],
           opened' \subseteq Files \X Minors, current' \in Minors,
           NEW gone, gone \subseteq UNION {Chain(x) : x \in {y \in Places : y[1] = m}},
           linked' = linked \ gone, live' = live \ gone
    PROVE  DriverInv' /\ Quiet'
  <1>1. TypesInv /\ ListsInv
    BY DEF DriverInv
  <1>2. \A x \in Places : Chain(x)' = IF x[1] = m THEN {} ELSE Chain(x)
    BY EmptiedChains
  <1>3. TypesInv'
    <2>1. head' \in [Places -> Nodes \cup {Null}] /\ linked' \subseteq Nodes /\ live' \subseteq Nodes
      BY <1>1, TypesAre
    <2> QED
      BY <1>1, <2>1, TypesAre, TypesOf
  <1>4. ASSUME NEW x \in Places, x[1] # m PROVE Chain(x) \cap gone = {}
    <2>1. \A y \in Places : y[1] = m => Chain(x) \cap Chain(y) = {}
      BY <1>1, <1>4 DEF ListsInv
    <2> QED
      BY <2>1
  <1>5. ASSUME NEW x \in Places PROVE ChainOK(x)'
    <2>1. CASE x[1] = m
      BY <1>2, <2>1 DEF ChainOK
    <2>2. CASE x[1] # m
      <3>1. Chain(x)' = Chain(x) /\ ChainOK(x) /\ Chain(x) \cap gone = {}
        BY <1>1, <1>2, <1>4, <2>2 DEF ListsInv
      <3> QED
        BY <3>1 DEF ChainOK
    <2> QED
      BY <2>1, <2>2
  <1>6. ASSUME NEW x \in Places, head'[x] # Null PROVE pprev'[head'[x]] = Null
    <2>1. head'[x] = head[x]
      BY <1>6
    <2>2. ~Publishing(x)
      BY DEF Publishing, Quiet
    <2> QED
      BY <1>1, <1>6, <2>1, <2>2 DEF ListsInv
  <1>7. \A x, y \in Places : x # y => Chain(x)' \cap Chain(y)' = {}
    BY <1>1, <1>2 DEF ListsInv
  <1>8. ListsInv'
    BY <1>5, <1>6, <1>7 DEF ListsInv
  <1>9. Quiet'
    BY DEF Quiet
  <1> QED
    BY <1>3, <1>8, <1>9, QuietCalls DEF DriverInv

LEMMA OpenKeeps ==
    ASSUME DriverInv, Quiet, NEW f \in Files, NEW m \in Minors, Open(f, m), UNCHANGED calls
    PROVE  DriverInv' /\ Quiet'
  <1>1. /\ opened' = opened \cup {<<f, m>>} /\ current' = m
        /\ head' = [x \in Places |-> IF x[1] = m THEN Null ELSE head[x]]
        /\ UNCHANGED <<key, data, next, pprev, linked, live, pc, at, job, used>>
    BY DEF Open, callVars
  <1>2. opened' \subseteq Files \X Minors
    BY <1>1, TypesAre DEF DriverInv
  <1>3. {} \subseteq UNION {Chain(x) : x \in {y \in Places : y[1] = m}}
        /\ linked' = linked \ {} /\ live' = live \ {}
    BY <1>1
  <1> QED
    BY <1>1, <1>2, <1>3, EmptiedKeeps

LEMMA ReleaseKeeps ==
    ASSUME DriverInv, Quiet, NEW o, Release(o), UNCHANGED calls
    PROVE  DriverInv' /\ Quiet'
  <1>1. /\ opened' \subseteq opened /\ UNCHANGED current
        /\ head' = [x \in Places |-> IF x[1] = current THEN Null ELSE head[x]]
        /\ UNCHANGED <<key, data, next, pprev, pc, at, job, used>>
    BY DEF Release, Close, callVars
  <1>2. opened' \subseteq Files \X Minors /\ current \in Minors
    BY <1>1, TypesAre DEF DriverInv
  <1>3. PICK gone : /\ gone = UNION {Chain(x) : x \in {y \in Places : y[1] = current}}
                    /\ linked' = linked \ gone /\ live' = live \ gone
    BY DEF Release
  <1>4. PICK m \in Minors : m = current
    BY <1>2
  <1> QED
    BY <1>1, <1>2, <1>3, <1>4, EmptiedKeeps

LEMMA DriverStays ==
    ASSUME DriverInv, UNCHANGED vars
    PROVE  DriverInv'
  <1>1. /\ UNCHANGED <<opened, current, head, key, data, next, pprev, linked, live>>
        /\ UNCHANGED <<pc, at, job, answer, used, calls>>
    BY DEF vars, listVars, callVars
  <1>2. TypesInv'
    BY <1>1, TypesAre, TypesOf DEF DriverInv
  <1>3. ListsInv'
    BY <1>1 DEF DriverInv, ListsInv, ChainOK, Chain, Publishing
  <1>4. CallsInv'
    BY <1>1 DEF DriverInv, CallsInv, CallOK, Busy, KeyOK, LoopOK, NodeOK, Match, Left, Found, Chain
  <1> QED
    BY <1>2, <1>3, <1>4 DEF DriverInv

-----------------------------------------------------------------------------
(* One call at a time.                                                      *)

Holding == {"add", "addBack", "countFill", "unlockFill",
            "choose", "operateBack", "countOperate", "unlockOperate"}
InCall == {"addBack", "countFill", "operateBack", "countOperate"}
StepNames == {"fill", "lockFill", "operate", "lockOperate", "ended"} \cup Holding
StageNames == {"open1", "open2", "join", "dump1", "dump2", "close1", "close2", "done"}
\* One call at a time: only who holds the mutex has a call running, and main
\* when it is alone.
SerialInv ==
    /\ mutex \in Threads \cup {Nobody}
    /\ step \in [Threads -> StepNames] /\ stage \in StageNames
    /\ \A t \in Threads : /\ step[t] \in Holding <=> mutex = t
                          /\ Busy(t) => step[t] \in InCall
                          /\ stage \in {"open1", "open2"} => step[t] = "fill"
                          /\ stage \notin {"open1", "open2", "join"} => step[t] = "ended"
    /\ Busy(Main) => stage \in {"dump2", "close1"}

\* What the program makes of it.
Sane == SerialInv /\ DriverInv

LEMMA Program ==
    /\ Threads \subseteq Procs /\ Main \in Procs /\ Main \notin Threads /\ Nobody \notin Threads
    /\ Procs = Threads \cup {Main} /\ Files = Minors
  BY TesterAssumption

LEMMA WhoWorks ==
    ASSUME SerialInv, NEW p \in Procs, Busy(p)
    PROVE  Alone(p) /\ (p # Main => step[p] \in InCall /\ mutex = p)
  <1> USE DEF Busy, InCall, Holding
  <1>1. ASSUME p # Main PROVE p \in Threads /\ step[p] \in InCall /\ mutex = p
    BY <1>1, Program DEF SerialInv
  <1>2. ASSUME NEW q \in Procs \ {p} PROVE pc[q] = "idle"
    <2>1. CASE p = Main
      <3>1. q \in Threads /\ step[q] = "ended"
        BY <1>2, <2>1, Program DEF SerialInv
      <3> QED
        BY <3>1 DEF SerialInv
    <2>2. CASE p # Main /\ q = Main
      BY <1>1, <2>2 DEF SerialInv
    <2>3. CASE p # Main /\ q # Main
      BY <1>1, <1>2, <2>3, Program DEF SerialInv
    <2> QED
      BY <2>1, <2>2, <2>3
  <1> QED
    BY <1>1, <1>2 DEF Alone

\* Who holds the mutex and has no call running may make one: no call is at work.
LEMMA HolderQuiet ==
    ASSUME SerialInv, NEW t \in Threads, step[t] \in Holding, pc[t] = "idle"
    PROVE  Quiet
  <1> SUFFICES ASSUME NEW q \in Procs, pc[q] # "idle" PROVE FALSE
    BY DEF Quiet
  <1>1. q # t
    OBVIOUS
  <1>2. t \in Procs \ {q} /\ mutex = t
    BY <1>1, Program DEF SerialInv
  <1>3. CASE q = Main
    BY <1>3 DEF SerialInv, Busy, Holding
  <1>4. CASE q # Main
    BY <1>2, <1>4, WhoWorks DEF Busy
  <1> QED
    BY <1>3, <1>4

\* Neither does main find one outside its wait for the threads.
LEMMA MainQuiet ==
    ASSUME SerialInv, pc[Main] = "idle", stage # "join"
    PROVE  Quiet
  <1> SUFFICES ASSUME NEW q \in Procs, pc[q] # "idle" PROVE FALSE
    BY DEF Quiet
  <1>1. q \in Threads /\ step[q] \in InCall
    BY Program DEF SerialInv, Busy
  <1> QED
    BY <1>1 DEF SerialInv, InCall

LEMMA ProceedMoves ==
    ASSUME NEW p \in Procs, Proceed(p)
    PROVE  Busy(p) /\ \A q \in Procs : Busy(q)' => Busy(q)
  <1>1. Busy(p)
    BY DEF Proceed, VisitOther, VisitUpdate, VisitDelete, VisitRead, VisitDump, Visiting, Finish,
           Link, Publish, Busy
  <1>2. PICK l : pc' = [pc EXCEPT ![p] = l]
    BY DEF Proceed, VisitOther, VisitUpdate, VisitDelete, VisitRead, VisitDump, Visit, Finish,
           Link, Publish, Return, Goto
  <1> QED
    BY <1>1, <1>2 DEF Busy

\* Nobody takes the mutex, moves on, or makes a call.
LEMMA SerialKept ==
    ASSUME SerialInv, UNCHANGED <<mutex, step, stage>>, \A q \in Procs : Busy(q)' => Busy(q)
    PROVE  SerialInv'
  BY Program DEF SerialInv

\* A thread takes a step of its own and makes no call.
LEMMA SerialMove ==
    ASSUME SerialInv, NEW t \in Threads, NEW l \in StepNames, Go(t, l), stage = "join",
           UNCHANGED <<pc, stage>>, ~Busy(t),
           mutex' \in Threads \cup {Nobody},
           l \in Holding <=> mutex' = t,
           \A s \in Threads \ {t} : mutex' = s <=> mutex = s
    PROVE  SerialInv'
  <1>1. step' \in [Threads -> StepNames] /\ step'[t] = l
        /\ \A s \in Threads \ {t} : step'[s] = step[s]
    BY DEF Go, SerialInv
  <1>2. \A q \in Procs : Busy(q)' <=> Busy(q)
    BY DEF Busy
  <1>3. ASSUME NEW s \in Threads
        PROVE  /\ step'[s] \in Holding <=> mutex' = s
               /\ Busy(s)' => step'[s] \in InCall
    BY <1>1, <1>2, Program DEF SerialInv
  <1>4. Busy(Main)' => stage' \in {"dump2", "close1"}
    BY <1>2, Program DEF SerialInv
  <1> QED
    BY <1>1, <1>3, <1>4 DEF SerialInv

LEMMA Joining ==
    ASSUME SerialInv, NEW t \in Threads, step[t] # "fill", step[t] # "ended"
    PROVE  stage = "join"
  BY DEF SerialInv, StageNames

\* Who holds the mutex makes a call.
LEMMA SerialCall ==
    ASSUME SerialInv, NEW t \in Threads, NEW l \in InCall, Go(t, l), step[t] \in Holding,
           NEW r, pc' = [pc EXCEPT ![t] = r], UNCHANGED <<mutex, stage>>
    PROVE  SerialInv'
  <1>1. stage = "join"
    BY Joining DEF Holding
  <1>2. step' \in [Threads -> StepNames] /\ step'[t] = l
        /\ \A s \in Threads \ {t} : step'[s] = step[s]
    BY DEF Go, SerialInv, InCall, StepNames, Holding
  <1>3. \A q \in Procs \ {t} : Busy(q)' <=> Busy(q)
    BY DEF Busy
  <1>4. ASSUME NEW s \in Threads
        PROVE  /\ step'[s] \in Holding <=> mutex' = s
               /\ Busy(s)' => step'[s] \in InCall
    <2>1. CASE s = t
      BY <1>2, <2>1 DEF SerialInv, InCall, Holding
    <2>2. CASE s # t
      BY <1>2, <1>3, <2>2, Program DEF SerialInv
    <2> QED
      BY <2>1, <2>2
  <1>5. Busy(Main)' => stage' \in {"dump2", "close1"}
    BY <1>3, Program DEF SerialInv
  <1> QED
    BY <1>1, <1>2, <1>4, <1>5 DEF SerialInv

\* The jobs of the three kinds of call are jobs.
LEMMA WriteIsJob ==
    ASSUME TypesInv, NEW m \in Minors, NEW k \in Keys, NEW d \in Values \cup {0}
    PROVE  [op |-> IF d = 0 THEN "delete" ELSE "write", file |-> File(m),
            place |-> <<current, Bucket(k)>>, key |-> k, data |-> d, count |-> 0] \in Jobs
  <1>1. current \in Minors /\ <<current, Bucket(k)>> \in Places /\ 0 \in 0..DumpMax
    BY TypesAre, KeyPlace, Sizes
  <1>2. File(m) \in Files \X Minors
    BY Program DEF File
  <1> QED
    BY <1>1, <1>2 DEF Jobs

LEMMA ReadIsJob ==
    ASSUME TypesInv, NEW f \in Files \X Minors, NEW k \in Keys
    PROVE  [op |-> "read", file |-> f, place |-> <<current, Bucket(k)>>,
            key |-> k, data |-> NoData, count |-> 0] \in Jobs
  <1>1. current \in Minors /\ <<current, Bucket(k)>> \in Places /\ 0 \in 0..DumpMax
    BY TypesAre, KeyPlace, Sizes
  <1> QED
    BY <1>1 DEF Jobs

LEMMA DumpIsJob ==
    ASSUME TypesInv, NEW m \in Minors, NEW b \in 0..(Buckets - 1)
    PROVE  [op |-> "dump", file |-> File(m), place |-> <<current, b>>,
            key |-> 0, data |-> 0, count |-> 0] \in Jobs
  <1>1. current \in Minors /\ <<current, b>> \in Places /\ 0 \in 0..DumpMax
    BY TypesAre, Sizes DEF Places
  <1>2. File(m) \in Files \X Minors
    BY Program DEF File
  <1> QED
    BY <1>1, <1>2 DEF Jobs

LEMMA WriteKeeps ==
    ASSUME DriverInv, Quiet, UNCHANGED calls, NEW p \in Procs,
           NEW m \in Minors, NEW k \in Keys, NEW d \in Values \cup {0}, Write(p, File(m), k, d)
    PROVE  /\ DriverInv' /\ pc'[p] # "idle" /\ UNCHANGED <<listVars, current, answer>>
           /\ job'[p].op = IF d = 0 THEN "delete" ELSE "write"
           /\ job'[p].place[1] = current /\ job'[p].key = k /\ job'[p].data = d
           /\ \E l : pc' = [pc EXCEPT ![p] = l]
  <1> DEFINE j == [op |-> IF d = 0 THEN "delete" ELSE "write", file |-> File(m),
                   place |-> <<current, Bucket(k)>>, key |-> k, data |-> d, count |-> 0]
             first == head[<<current, Bucket(k)>>]
  <1>1. Start(p, j, first)
    BY DEF Write, Table, First
  <1>2. j \in Jobs
    BY WriteIsJob DEF DriverInv
  <1>3. /\ j.op = IF d = 0 THEN "delete" ELSE "write"
        /\ j.place = <<current, Bucket(k)>> /\ j.key = k /\ j.data = d /\ j.count = 0
        /\ j.place[1] = current /\ j.place[2] = Bucket(k)
    OBVIOUS
  <1>4. UNCHANGED <<listVars, current, answer>> /\ \E l : pc' = [pc EXCEPT ![p] = l]
    BY <1>1 DEF Start, Goto
  <1>5. first \in {head[j.place], Null} /\ first = head[j.place]
    BY <1>3
  <1> HIDE DEF j, first
  <1>6. DriverInv' /\ job'[p] = j /\ pc'[p] # "idle"
    BY <1>1, <1>2, <1>3, <1>5, StartKeeps
  <1> QED
    BY <1>3, <1>4, <1>6

LEMMA ReadKeeps ==
    ASSUME DriverInv, Quiet, UNCHANGED calls, NEW p \in Procs,
           NEW f \in Files \X Minors, NEW k \in Keys, Read(p, f, k)
    PROVE  /\ DriverInv' /\ pc'[p] # "idle" /\ UNCHANGED <<listVars, current, answer>>
           /\ job'[p].op = "read" /\ job'[p].place[1] = current /\ job'[p].key = k
           /\ \E l : pc' = [pc EXCEPT ![p] = l]
  <1> DEFINE j == [op |-> "read", file |-> f, place |-> <<current, Bucket(k)>>,
                   key |-> k, data |-> NoData, count |-> 0]
             first == head[<<current, Bucket(k)>>]
  <1>1. Start(p, j, first)
    BY DEF Read, Table, First
  <1>2. j \in Jobs
    BY ReadIsJob DEF DriverInv
  <1>3. /\ j.op = "read"
        /\ j.place = <<current, Bucket(k)>> /\ j.key = k /\ j.data = NoData /\ j.count = 0
        /\ j.place[1] = current /\ j.place[2] = Bucket(k)
    OBVIOUS
  <1>4. UNCHANGED <<listVars, current, answer>> /\ \E l : pc' = [pc EXCEPT ![p] = l]
    BY <1>1 DEF Start, Goto
  <1>5. first \in {head[j.place], Null} /\ first = head[j.place]
    BY <1>3
  <1> HIDE DEF j, first
  <1>6. DriverInv' /\ job'[p] = j /\ pc'[p] # "idle"
    BY <1>1, <1>2, <1>3, <1>5, StartKeeps
  <1> QED
    BY <1>3, <1>4, <1>6

LEMMA DumpKeeps ==
    ASSUME DriverInv, Quiet, UNCHANGED calls, NEW p \in Procs,
           NEW m \in Minors, NEW b \in 0..(Buckets - 1), Dump(p, File(m), b)
    PROVE  /\ DriverInv' /\ UNCHANGED <<listVars, current, answer>>
           /\ \E l : pc' = [pc EXCEPT ![p] = l]
  <1> DEFINE j == [op |-> "dump", file |-> File(m), place |-> <<current, b>>,
                   key |-> 0, data |-> 0, count |-> 0]
             first == IF b \in Dumpable THEN head[<<current, b>>] ELSE Null
  <1>1. Start(p, j, first)
    BY DEF Dump, Table
  <1>2. j \in Jobs
    BY DumpIsJob DEF DriverInv
  <1>3. j.op = "dump" /\ j.place = <<current, b>> /\ j.count = 0
    OBVIOUS
  <1>4. UNCHANGED <<listVars, current, answer>> /\ \E l : pc' = [pc EXCEPT ![p] = l]
    BY <1>1 DEF Start, Goto
  <1>5. first \in {head[j.place], Null}
    BY <1>3
  <1> HIDE DEF j, first
  <1>6. DriverInv'
    BY <1>1, <1>2, <1>3, <1>5, StartKeeps
  <1> QED
    BY <1>4, <1>6

-----------------------------------------------------------------------------
(* What the steps do to the tables seen as maps.                            *)

\* The datum of key k in a bucket with nodes C.
Datum(C, ky, dt, k) ==
    IF {n \in C : ky[n] = k} = {} THEN NoData
    ELSE dt[CHOOSE n \in {m \in C : ky[m] = k} : TRUE]

OneOf(C, ky) == \A m, n \in C : ky[m] = ky[n] => m = n

LEMMA DatumIs ==
    ASSUME NEW C, NEW ky, NEW dt, NEW k, OneOf(C, ky)
    PROVE  /\ (\A n \in C : ky[n] # k) => Datum(C, ky, dt, k) = NoData
           /\ \A n \in C : ky[n] = k => Datum(C, ky, dt, k) = dt[n]
  <1>1. (\A n \in C : ky[n] # k) => Datum(C, ky, dt, k) = NoData
    BY DEF Datum
  <1>2. ASSUME NEW n \in C, ky[n] = k PROVE Datum(C, ky, dt, k) = dt[n]
    <2> DEFINE W == {m \in C : ky[m] = k}
    <2>1. W = {n}
      BY <1>2 DEF OneOf
    <2>2. (CHOOSE m \in W : TRUE) = n
      BY <2>1
    <2> QED
      BY <2>1, <2>2 DEF Datum
  <1> QED
    BY <1>1, <1>2

LEMMA DatumSame ==
    ASSUME NEW C, NEW ky, NEW dt, NEW D, NEW kz, NEW du, NEW k, OneOf(C, ky), OneOf(D, kz),
           \A n \in C : ky[n] = k => n \in D /\ kz[n] = k /\ du[n] = dt[n],
           \A n \in D : kz[n] = k => n \in C /\ ky[n] = k
    PROVE  Datum(D, kz, du, k) = Datum(C, ky, dt, k)
  <1>1. CASE \A n \in C : ky[n] # k
    <2>1. \A n \in D : kz[n] # k
      BY <1>1
    <2> QED
      BY <1>1, <2>1, DatumIs
  <1>2. CASE \E n \in C : ky[n] = k
    <2>1. PICK n \in C : ky[n] = k
      BY <1>2
    <2> QED
      BY <2>1, DatumIs
  <1> QED
    BY <1>1, <1>2

LEMMA ContentsAre ==
    /\ Contents = [t \in Minors |-> [k \in Keys |->
                      Datum(Chain(<<t, Bucket(k)>>), key, data, k)]]
    /\ Contents' = [t \in Minors |-> [k \in Keys |->
                      Datum(Reached(next', head'[<<t, Bucket(k)>>]), key', data', k)]]
  BY DEF Contents, With, Datum, Chain

LEMMA ContentsAt ==
    ASSUME NEW t \in Minors, NEW k \in Keys
    PROVE  /\ Contents[t][k] = Datum(Chain(<<t, Bucket(k)>>), key, data, k)
           /\ Contents'[t][k] = Datum(Reached(next', head'[<<t, Bucket(k)>>]), key', data', k)
           /\ <<t, Bucket(k)>> \in Places
  BY ContentsAre, KeyPlace

\* One entry changes at most.
LEMMA ContentsExcept ==
    ASSUME NEW t \in Minors, NEW k \in Keys, NEW d, Contents'[t][k] = d,
           \A s \in Minors, l \in Keys :
              ~(s = t /\ l = k) => Contents'[s][l] = Contents[s][l]
    PROVE  Contents' = [Contents EXCEPT ![t][k] = d]
  <1>1. \A s \in Minors : Contents[s] = [l \in Keys |-> Contents[s][l]]
    BY ContentsAre
  <1>2. Contents' = [s \in Minors |-> [l \in Keys |-> Contents'[s][l]]]
    BY ContentsAre
  <1>3. Contents = [s \in Minors |-> [l \in Keys |-> Contents[s][l]]]
    BY ContentsAre
  <1>4. [Contents EXCEPT ![t][k] = d]
           = [s \in Minors |-> [l \in Keys |-> IF s = t /\ l = k THEN d ELSE Contents[s][l]]]
    BY <1>3
  <1>5. Contents' = [s \in Minors |-> [l \in Keys |-> IF s = t /\ l = k THEN d ELSE Contents[s][l]]]
    BY <1>2
  <1> QED
    BY <1>4, <1>5

LEMMA ContentsKept ==
    ASSUME UNCHANGED <<head, key, data, next>>
    PROVE  UNCHANGED Contents
  BY DEF Contents, With, Chain

\* No bucket has a key twice.
LEMMA OneInChain ==
    ASSUME ListsInv
    PROVE  \A x \in Places : OneOf(Chain(x), key)
  BY DEF ListsInv, ChainOK, OneOf

LEMMA OneInChainNext ==
    ASSUME ListsInv'
    PROVE  \A x \in Places : OneOf(Reached(next', head'[x]), key')
  BY DEF ListsInv, ChainOK, OneOf, Chain

\* The call's entry, from what its loop met.
LEMMA MatchIs ==
    ASSUME DriverInv, NEW p \in Procs, KeyOK(p), job[p].op # "dump", Busy(p)
    PROVE  /\ job[p].place[1] \in Minors /\ job[p].key \in Keys
           /\ job[p].place = <<job[p].place[1], Bucket(job[p].key)>>
           /\ Match(p) = With(job[p].place[1], job[p].key)
           /\ Match(p) = {} => Contents[job[p].place[1]][job[p].key] = NoData
           /\ Found(p) => Contents[job[p].place[1]][job[p].key] = job[p].data
  <1>1. PICK t \in Minors, b \in 0..(Buckets - 1) : job[p].place = <<t, b>>
    BY AtWork DEF Places
  <1>2. job[p].place[1] = t /\ job[p].place[2] = b
    BY <1>1
  <1>3. PICK k \in Keys : k = job[p].key /\ b = Bucket(k)
    BY <1>2 DEF KeyOK
  <1>4. job[p].place = <<t, Bucket(k)>> /\ job[p].place \in Places
    BY <1>1, <1>3, KeyPlace
  <1>5. OneOf(Chain(job[p].place), key)
    BY <1>4, OneInChain DEF DriverInv
  <1>6. Contents[t][k] = Datum(Chain(job[p].place), key, data, k)
    BY <1>4, ContentsAt
  <1>7. Match(p) = {} => Contents[t][k] = NoData
    BY <1>3, <1>5, <1>6, DatumIs DEF Match
  <1>8. Found(p) => Contents[t][k] = job[p].data
    BY <1>3, <1>5, <1>6, DatumIs DEF Found, Match
  <1>9. Match(p) = With(t, k)
    BY <1>3, <1>4 DEF Match, With
  <1> QED
    BY <1>2, <1>3, <1>4, <1>7, <1>8, <1>9

\* A step that changes one bucket, for one key.
LEMMA OneBucket ==
    ASSUME ListsInv, ListsInv', NEW t \in Minors, NEW k \in Keys,
           NEW x, x = <<t, Bucket(k)>>,
           \A y \in Places \ {x} : Chain(y)' = Chain(y),
           \A y \in Places \ {x} : \A n \in Chain(y) : key'[n] = key[n] /\ data'[n] = data[n],
           \A n \in Chain(x) : key[n] # k => n \in Chain(x)' /\ key'[n] = key[n]
                                             /\ data'[n] = data[n],
           \A n \in Chain(x)' : key'[n] # k => n \in Chain(x) /\ key'[n] = key[n],
           NEW d, Contents'[t][k] = d
    PROVE  Contents' = [Contents EXCEPT ![t][k] = d]
  <1>1. ASSUME NEW s \in Minors, NEW l \in Keys, ~(s = t /\ l = k)
        PROVE  Contents'[s][l] = Contents[s][l]
    <2>0. PICK y \in Places : y = <<s, Bucket(l)>>
      BY ContentsAt
    <2>1. /\ Contents[s][l] = Datum(Chain(y), key, data, l)
          /\ Contents'[s][l] = Datum(Chain(y)', key', data', l)
      BY <2>0, ContentsAt DEF Chain
    <2>2. OneOf(Chain(y), key) /\ OneOf(Chain(y)', key')
      BY OneInChain, OneInChainNext DEF Chain
    <2>3. CASE y = x
      <3>1. l # k
        BY <1>1, <2>0, <2>3
      <3>2. /\ \A n \in Chain(y) : key[n] = l => n \in Chain(y)' /\ key'[n] = l
                                                 /\ data'[n] = data[n]
            /\ \A n \in Chain(y)' : key'[n] = l => n \in Chain(y) /\ key[n] = l
        BY <2>3, <3>1
      <3> QED
        BY <2>1, <2>2, <3>2, DatumSame
    <2>4. CASE y # x
      <3>1. /\ \A n \in Chain(y) : key[n] = l => n \in Chain(y)' /\ key'[n] = l
                                                 /\ data'[n] = data[n]
            /\ \A n \in Chain(y)' : key'[n] = l => n \in Chain(y) /\ key[n] = l
        BY <2>4
      <3> QED
        BY <2>1, <2>2, <3>1, DatumSame
    <2> QED
      BY <2>3, <2>4
  <1> QED
    BY <1>1, ContentsExcept

\* The call at work is one on a key.
LEMMA KeyCall ==
    ASSUME DriverInv, NEW p \in Procs, Busy(p), job[p].op # "dump",
           NEW t, t = job[p].place[1], NEW k, k = job[p].key
    PROVE  /\ t \in Minors /\ k \in Keys /\ job[p].place = <<t, Bucket(k)>>
           /\ <<t, Bucket(k)>> \in Places
           /\ job[p].op = "write" => job[p].data \in Values
  <1>1. KeyOK(p)
    BY AtWork DEF CallOK
  <1> QED
    BY <1>1, MatchIs, AtWork DEF KeyOK

LEMMA VisitUpdateEffect ==
    ASSUME DriverInv, DriverInv', NEW p \in Procs, VisitUpdate(p),
           NEW t, t = job[p].place[1], NEW k, k = job[p].key
    PROVE  Contents' = [Contents EXCEPT ![t][k] = job[p].data]
  <1>1. /\ pc[p] = "visit" /\ job[p].op = "write" /\ key[at[p]] = k
        /\ data' = [data EXCEPT ![at[p]] = job[p].data] /\ UNCHANGED <<head, key, next>>
    BY DEF VisitUpdate, Visiting
  <1>2. PICK x \in Places : x = <<t, Bucket(k)>> /\ x = job[p].place
    BY <1>1, KeyCall DEF Busy
  <1>3. /\ t \in Minors /\ k \in Keys /\ at[p] \in Chain(x) /\ at[p] \in Nodes
        /\ ListsInv /\ ListsInv' /\ data \in [Nodes -> Values \cup {0}]
        /\ \A y \in Places : Chain(y) \subseteq Nodes
    BY <1>1, <1>2, KeyCall, AtWork, TypesAre, Shape DEF DriverInv, Busy
  <1>4. \A y \in Places : Chain(y)' = Chain(y)
    BY <1>1, ChainsSame
  <1>5. /\ data'[at[p]] = job[p].data
        /\ \A n \in Nodes : n # at[p] => data'[n] = data[n]
    BY <1>1, <1>3
  <1>6. Contents'[t][k] = job[p].data
    <2>1. OneOf(Chain(x)', key')
      BY <1>3, OneInChainNext DEF Chain
    <2>2. PICK n : n = at[p]
      OBVIOUS
    <2>3. n \in Chain(x)' /\ key'[n] = k
      BY <1>1, <1>3, <1>4, <2>2
    <2>4. Datum(Chain(x)', key', data', k) = data'[n]
      BY <2>1, <2>3, DatumIs
    <2>5. Contents'[t][k] = Datum(Chain(x)', key', data', k)
      BY <1>2, <1>3, ContentsAt DEF Chain
    <2> QED
      BY <1>5, <2>2, <2>4, <2>5
  <1>7. \A y \in Places \ {x} : at[p] \notin Chain(y)
    BY <1>2, <1>3 DEF ListsInv
  <1>8. \A y \in Places \ {x} : \A n \in Chain(y) : key'[n] = key[n] /\ data'[n] = data[n]
    BY <1>1, <1>3, <1>5, <1>7
  <1>9. \A n \in Chain(x) : key[n] # k => n \in Chain(x)' /\ key'[n] = key[n] /\ data'[n] = data[n]
    BY <1>1, <1>3, <1>4, <1>5
  <1>10. \A n \in Chain(x)' : key'[n] # k => n \in Chain(x) /\ key'[n] = key[n]
    BY <1>1, <1>4
  <1> QED
    BY <1>2, <1>3, <1>4, <1>6, <1>8, <1>9, <1>10, OneBucket

LEMMA VisitDeleteEffect ==
    ASSUME DriverInv, DriverInv', NEW p \in Procs, Alone(p), VisitDelete(p),
           NEW t, t = job[p].place[1], NEW k, k = job[p].key
    PROVE  Contents' = [Contents EXCEPT ![t][k] = NoData]
  <1>1. /\ pc[p] = "visit" /\ job[p].op = "delete" /\ key[at[p]] = k
        /\ UNCHANGED <<key, data>>
    BY DEF VisitDelete, Visiting
  <1>2. PICK x \in Places : x = <<t, Bucket(k)>> /\ x = job[p].place
    BY <1>1, KeyCall DEF Busy
  <1>3. t \in Minors /\ k \in Keys /\ ListsInv /\ ListsInv'
    BY <1>1, KeyCall DEF DriverInv, Busy
  <1>4. PICK n : n = at[p]
    OBVIOUS
  <1>5. /\ Chain(x)' = Chain(x) \ {n} /\ n \in Chain(x)
        /\ \A y \in Places \ {x} : Chain(y)' = Chain(y)
    BY <1>2, <1>4, DeleteChains
  <1>6. \A m \in Chain(x)' : key'[m] # k
    BY <1>1, <1>2, <1>3, <1>4, <1>5 DEF ListsInv, ChainOK
  <1>7. Contents'[t][k] = NoData
    <2>1. OneOf(Chain(x)', key')
      BY <1>3, OneInChainNext DEF Chain
    <2>2. Datum(Chain(x)', key', data', k) = NoData
      BY <1>6, <2>1, DatumIs
    <2>3. Contents'[t][k] = Datum(Chain(x)', key', data', k)
      BY <1>2, <1>3, ContentsAt DEF Chain
    <2> QED
      BY <2>2, <2>3
  <1>8. \A m \in Chain(x) : key[m] # k => m \in Chain(x)' /\ key'[m] = key[m] /\ data'[m] = data[m]
    BY <1>1, <1>4, <1>5
  <1>9. \A m \in Chain(x)' : key'[m] # k => m \in Chain(x) /\ key'[m] = key[m]
    BY <1>1, <1>5
  <1> QED
    BY <1>1, <1>2, <1>3, <1>5, <1>7, <1>8, <1>9, OneBucket

LEMMA PublishEffect ==
    ASSUME DriverInv, DriverInv', NEW p \in Procs, Publish(p),
           NEW t, t = job[p].place[1], NEW k, k = job[p].key
    PROVE  Contents' = [Contents EXCEPT ![t][k] = job[p].data]
  <1>1. pc[p] = "publish" /\ UNCHANGED <<key, data, next>>
    BY DEF Publish
  <1>2. job[p].op = "write" /\ NodeOK(p)
    BY <1>1, AtWork DEF CallOK
  <1>3. PICK x \in Places : x = <<t, Bucket(k)>> /\ x = job[p].place
    BY <1>1, <1>2, KeyCall DEF Busy
  <1>4. t \in Minors /\ k \in Keys /\ ListsInv /\ ListsInv'
    BY <1>1, <1>2, KeyCall DEF DriverInv, Busy
  <1>5. PICK n : n = at[p]
    OBVIOUS
  <1>6. /\ Chain(x)' = Chain(x) \cup {n}
        /\ \A y \in Places \ {x} : Chain(y)' = Chain(y)
    BY <1>3, <1>5, PublishChains
  <1>7. key[n] = k /\ data[n] = job[p].data
    BY <1>2, <1>5 DEF NodeOK
  <1>8. Contents'[t][k] = job[p].data
    <2>1. OneOf(Chain(x)', key')
      BY <1>4, OneInChainNext DEF Chain
    <2>2. Datum(Chain(x)', key', data', k) = data'[n]
      BY <1>1, <1>6, <1>7, <2>1, DatumIs
    <2>3. Contents'[t][k] = Datum(Chain(x)', key', data', k)
      BY <1>3, <1>4, ContentsAt DEF Chain
    <2> QED
      BY <1>1, <1>7, <2>2, <2>3
  <1>9. \A m \in Chain(x) : key[m] # k => m \in Chain(x)' /\ key'[m] = key[m] /\ data'[m] = data[m]
    BY <1>1, <1>6
  <1>10. \A m \in Chain(x)' : key'[m] # k => m \in Chain(x) /\ key'[m] = key[m]
    BY <1>1, <1>6, <1>7
  <1> QED
    BY <1>1, <1>3, <1>4, <1>6, <1>8, <1>9, <1>10, OneBucket

LEMMA LinkEffect ==
    ASSUME DriverInv, DriverInv', NEW p \in Procs, Link(p)
    PROVE  UNCHANGED Contents
  <1>1. PICK n : n = used + 1
    OBVIOUS
  <1>2. /\ \A x \in Places : Chain(x)' = Chain(x)
        /\ \A x \in Places : \A m \in Chain(x) : key'[m] = key[m] /\ data'[m] = data[m]
    BY <1>1, LinkChains
  <1>3. ASSUME NEW s \in Minors, NEW l \in Keys PROVE Contents'[s][l] = Contents[s][l]
    <2>1. PICK y \in Places : y = <<s, Bucket(l)>>
      BY ContentsAt
    <2>2. /\ Contents[s][l] = Datum(Chain(y), key, data, l)
          /\ Contents'[s][l] = Datum(Chain(y)', key', data', l)
      BY <2>1, ContentsAt DEF Chain
    <2>3. OneOf(Chain(y), key) /\ OneOf(Chain(y)', key')
      BY OneInChain, OneInChainNext DEF Chain, DriverInv
    <2> QED
      BY <1>2, <2>2, <2>3, DatumSame
  <1>4. Contents' = [s \in Minors |-> [l \in Keys |-> Contents'[s][l]]]
    BY ContentsAre
  <1>5. Contents = [s \in Minors |-> [l \in Keys |-> Contents[s][l]]]
    BY ContentsAre
  <1> QED
    BY <1>3, <1>4, <1>5

\* At the end of its loop a read has what the table holds, and a deletion or an
\* update has been made.
LEMMA FinishEffect ==
    ASSUME DriverInv, NEW p \in Procs, Finish(p), job[p].op # "dump",
           NEW t, t = job[p].place[1], NEW k, k = job[p].key
    PROVE  /\ UNCHANGED Contents /\ t \in Minors /\ k \in Keys
           /\ job[p].op \in {"write", "delete", "read"}
           /\ job[p].op = "read" =>
                 answer' = <<k, Contents[t][k]>> /\ Contents[t][k] = job[p].data
           /\ job[p].op # "read" => UNCHANGED answer
           /\ job[p].op = "delete" => Contents[t][k] = NoData /\ With(t, k) = {}
           /\ job[p].op = "write" /\ job[p].count # 0 => Contents[t][k] = job[p].data
  <1>1. /\ pc[p] = "finish" /\ UNCHANGED <<head, key, data, next>>
        /\ answer' = IF job[p].op = "read" THEN <<job[p].key, job[p].data>> ELSE answer
    BY DEF Finish, listVars
  <1>2. LoopOK(p) /\ KeyOK(p) /\ job[p] \in Jobs
    BY <1>1, AtWork DEF CallOK, Busy
  <1>3. /\ t \in Minors /\ k \in Keys
        /\ Match(p) = With(t, k)
        /\ Match(p) = {} => Contents[t][k] = NoData
        /\ Found(p) => Contents[t][k] = job[p].data
    BY <1>1, <1>2, MatchIs DEF Busy
  <1>4. Left(p) = {}
    BY <1>1, <1>2, ReachedNull DEF LoopOK, Left
  <1>5. UNCHANGED Contents
    BY <1>1, ContentsKept
  <1>6. job[p].op \in {"write", "delete", "read"}
    BY <1>2 DEF Jobs, KeyOK
  <1> QED
    BY <1>1, <1>2, <1>3, <1>4, <1>5, <1>6 DEF LoopOK

-----------------------------------------------------------------------------
(* The program.                                                             *)

Want(t) == IF asked[t].data = 0 THEN NoData ELSE asked[t].data
Asks == [file : Files \X Minors, key : Keys, data : Values \cup {0}]

\* What the thread that holds the mutex wrote is in the table, then on its way
\* back.
AskedOK(t) ==
    /\ step[t] \in {"addBack", "operateBack"} =>
          /\ asked[t] \in Asks
          /\ IF Busy(t)
             THEN /\ job[t].op = (IF asked[t].data = 0 THEN "delete" ELSE "write")
                  /\ job[t].place[1] = current /\ job[t].key = asked[t].key
                  /\ job[t].data = asked[t].data
             ELSE Contents[current][asked[t].key] = Want(t)
    /\ step[t] \in {"countFill", "countOperate"} /\ asked[t] # Nothing =>
          /\ asked[t] \in Asks
          /\ IF Busy(t)
             THEN /\ job[t].op = "read" /\ job[t].place[1] = current
                  /\ job[t].key = asked[t].key
                  /\ Contents[current][asked[t].key] = Want(t)
             ELSE answer = <<asked[t].key, Want(t)>>
AskedInv == /\ asked \in [Threads -> Asks \cup {Nothing}]
            /\ \A t \in Threads : AskedOK(t)

LEMMA ThreadKeepsSane ==
    ASSUME Sane, AskedInv, NEW t \in Threads, ThreadStep(t)
    PROVE  Sane'
  <1> USE DEF Sane
  <1>0. t \in Procs
    BY Program
  <1>1. CASE Fill(t)
    <2>1. PICK l \in {"lockFill", "operate"} : Go(t, l)
      BY <1>1 DEF Fill
    <2>2. ~Busy(t) /\ l \in StepNames /\ l \notin Holding /\ step[t] \notin Holding
      BY <1>1, <2>1 DEF Fill, SerialInv, InCall, StepNames, Holding
    <2>3. mutex # t /\ mutex \in Threads \cup {Nobody} /\ UNCHANGED <<pc, mutex, stage, vars>>
      BY <1>1, <2>2 DEF Fill, SerialInv, vars, callVars
    <2> QED
      BY <1>1, <2>1, <2>2, <2>3, SerialMove, DriverStays DEF Fill
  <1>2. CASE Operate(t)
    <2>1. PICK l \in {"lockOperate", "ended"} : Go(t, l)
      BY <1>2 DEF Operate
    <2>2. ~Busy(t) /\ l \in StepNames /\ l \notin Holding /\ step[t] \notin Holding
      BY <1>2, <2>1 DEF Operate, SerialInv, InCall, StepNames, Holding
    <2>3. mutex # t /\ mutex \in Threads \cup {Nobody} /\ UNCHANGED <<pc, mutex, stage, vars>>
      BY <1>2, <2>2 DEF Operate, SerialInv, vars, callVars
    <2>4. stage = "join"
      BY <1>2, Joining DEF Operate
    <2> QED
      BY <2>1, <2>2, <2>3, <2>4, SerialMove, DriverStays
  <1>3. CASE Lock(t)
    <2>1. PICK l \in {"add", "choose"} : Go(t, l)
      BY <1>3 DEF Lock, Locked
    <2>2. ~Busy(t) /\ l \in StepNames /\ l \in Holding /\ stage = "join"
      BY <1>3, <2>1, Joining DEF Lock, SerialInv, InCall, StepNames, Holding
    <2>3. /\ mutex' = t /\ mutex = Nobody /\ UNCHANGED <<pc, stage, vars>>
      BY <1>3 DEF Lock, vars, callVars
    <2>4. \A s \in Threads \ {t} : mutex' = s <=> mutex = s
      BY <2>3, Program
    <2> QED
      BY <2>1, <2>2, <2>3, <2>4, SerialMove, DriverStays
  <1>4. CASE Change(t)
    <2>1. PICK l \in {"addBack", "operateBack"} : Go(t, l)
      BY <1>4 DEF Change
    <2>2. PICK m \in Minors, k \in Keys, d \in Values \cup {0} : Write(t, File(m), k, d)
      BY <1>4 DEF Change
    <2>3. step[t] \in Holding /\ pc[t] = "idle" /\ l \in InCall /\ UNCHANGED <<calls, mutex, stage>>
      BY <1>4, <2>1, <2>2 DEF Change, Write, Start, Holding, InCall
    <2>4. Quiet
      BY <2>3, HolderQuiet
    <2>5. DriverInv' /\ \E r : pc' = [pc EXCEPT ![t] = r]
      BY <1>0, <2>2, <2>3, <2>4, WriteKeeps
    <2> QED
      BY <2>1, <2>3, <2>5, SerialCall
  <1>5. CASE Search(t)
    <2>1. Go(t, "countOperate")
      BY <1>5 DEF Search
    <2>2. PICK m \in Minors, k \in Keys : Read(t, File(m), k)
      BY <1>5 DEF Search
    <2>3. /\ step[t] \in Holding /\ pc[t] = "idle" /\ "countOperate" \in InCall
          /\ UNCHANGED <<calls, mutex, stage>> /\ File(m) \in Files \X Minors
      BY <1>5, <2>1, <2>2, Program DEF Search, Read, Start, Holding, InCall, File
    <2>4. Quiet
      BY <2>3, HolderQuiet
    <2>5. DriverInv' /\ \E r : pc' = [pc EXCEPT ![t] = r]
      BY <1>0, <2>2, <2>3, <2>4, ReadKeeps
    <2> QED
      BY <2>1, <2>3, <2>5, SerialCall
  <1>6. CASE ReadBack(t)
    <2>1. PICK l \in {"countFill", "countOperate"} : Go(t, l)
      BY <1>6 DEF ReadBack
    <2>2. asked[t] \in Asks
      BY <1>6 DEF ReadBack, AskedInv, AskedOK
    <2>3. PICK f \in Files \X Minors, k \in Keys : f = asked[t].file /\ k = asked[t].key
      BY <2>2 DEF Asks
    <2>4. /\ step[t] \in Holding /\ pc[t] = "idle" /\ l \in InCall
          /\ UNCHANGED <<calls, mutex, stage>> /\ Read(t, f, k)
      BY <1>6, <2>1, <2>3 DEF ReadBack, Read, Start, Holding, InCall
    <2>5. Quiet
      BY <2>4, HolderQuiet
    <2>6. DriverInv' /\ \E r : pc' = [pc EXCEPT ![t] = r]
      BY <1>0, <2>4, <2>5, ReadKeeps
    <2> QED
      BY <2>1, <2>4, <2>6, SerialCall
  <1>7. CASE Count(t)
    <2>1. PICK l \in {"unlockFill", "unlockOperate"} : Go(t, l)
      BY <1>7 DEF Count
    <2>2. /\ ~Busy(t) /\ l \in StepNames /\ l \in Holding /\ step[t] \in Holding
          /\ stage = "join"
      BY <1>7, <2>1, Joining DEF Count, Busy, StepNames, Holding
    <2>3. mutex = t /\ UNCHANGED <<pc, mutex, stage, vars>>
      BY <1>7, <2>2 DEF Count, SerialInv, vars, callVars
    <2> QED
      BY <2>1, <2>2, <2>3, SerialMove, DriverStays
  <1>8. CASE Unlock(t)
    <2>1. PICK l \in {"fill", "operate"} : Go(t, l)
      BY <1>8 DEF Unlock
    <2>2. /\ ~Busy(t) /\ l \in StepNames /\ l \notin Holding /\ step[t] \in Holding
          /\ stage = "join"
      BY <1>8, <2>1, Joining DEF Unlock, SerialInv, InCall, StepNames, Holding
    <2>3. mutex = t /\ mutex' = Nobody /\ UNCHANGED <<pc, stage, vars>>
      BY <1>8, <2>2 DEF Unlock, SerialInv, vars, callVars
    <2>4. \A s \in Threads \ {t} : mutex' = s <=> mutex = s
      BY <2>3, Program
    <2> QED
      BY <2>1, <2>2, <2>3, <2>4, Program, SerialMove, DriverStays
  <1>9. CASE InDriver(t)
    <2>1. Proceed(t) /\ UNCHANGED <<calls, mutex, step, stage>>
      BY <1>9 DEF InDriver, testerVars
    <2>2. Busy(t) /\ \A q \in Procs : Busy(q)' => Busy(q)
      BY <1>0, <2>1, ProceedMoves
    <2>3. Alone(t)
      BY <1>0, <2>2, WhoWorks
    <2> QED
      BY <1>0, <2>1, <2>2, <2>3, ProceedKeeps, SerialKept
  <1> QED
    BY <1>1, <1>2, <1>3, <1>4, <1>5, <1>6, <1>7, <1>8, <1>9 DEF ThreadStep

LEMMA Bucket8IsOne == Bucket8 \in 0..(Buckets - 1)
  BY Sizes DEF Bucket8

LEMMA MainKeepsSane ==
    ASSUME Sane, MainStep \/ InDriver(Main)
    PROVE  Sane'
  <1> USE DEF Sane
  <1>1. CASE InDriver(Main)
    <2>1. Proceed(Main) /\ UNCHANGED <<calls, mutex, step, stage>>
      BY <1>1 DEF InDriver, testerVars
    <2>2. Busy(Main) /\ \A q \in Procs : Busy(q)' => Busy(q)
      BY <2>1, ProceedMoves, Program
    <2>3. Alone(Main)
      BY <2>2, WhoWorks, Program
    <2> QED
      BY <2>1, <2>2, <2>3, ProceedKeeps, SerialKept, Program
  <1>2. CASE MainStep
    <2>0. pc[Main] = "idle"
      BY <1>2 DEF MainStep
    <2>1. CASE OpenDevices
      <3>1. /\ stage \in {"open1", "open2"} /\ stage' \in {"open2", "join"}
            /\ UNCHANGED <<calls, mutex, step>>
        BY <2>1 DEF OpenDevices, Stage
      <3>2. PICK m \in Minors : Open(m, m)
        BY <2>1 DEF OpenDevices, Minors
      <3>3. Quiet
        BY <2>0, <3>1, MainQuiet
      <3>4. DriverInv' /\ Quiet'
        BY <3>1, <3>2, <3>3, OpenKeeps, Program
      <3>5. \A q \in Procs : ~Busy(q)'
        BY <3>4 DEF Quiet, Busy
      <3> QED
        BY <3>1, <3>4, <3>5, Program DEF SerialInv, StageNames
    <2>2. CASE Join
      <3>1. /\ stage' = "dump1" /\ \A t \in Threads : step[t] = "ended"
            /\ UNCHANGED <<vars, pc, mutex, step>>
        BY <2>2 DEF Join, Stage, vars, callVars
      <3> QED
        BY <2>0, <3>1, DriverStays, Program DEF SerialInv, StageNames, Busy
    <2>3. CASE DumpTables
      <3>1. /\ stage \in {"dump1", "dump2"} /\ stage' \in {"dump2", "close1"}
            /\ UNCHANGED <<calls, mutex, step>>
        BY <2>3 DEF DumpTables, Stage
      <3>2. PICK m \in Minors : Dump(Main, File(m), Bucket8)
        BY <2>3 DEF DumpTables, Minors
      <3>3. Quiet
        BY <2>0, <3>1, MainQuiet
      <3>4. DriverInv' /\ \E l : pc' = [pc EXCEPT ![Main] = l]
        BY <3>1, <3>2, <3>3, DumpKeeps, Program, Bucket8IsOne
      <3>5. \A q \in Threads : ~Busy(q)'
        BY <3>3, <3>4, Program DEF Quiet, Busy
      <3> QED
        BY <3>1, <3>4, <3>5 DEF SerialInv, StageNames
    <2>4. CASE CloseDevices
      <3>1. /\ stage \in {"close1", "close2"} /\ stage' \in {"close2", "done"}
            /\ UNCHANGED <<calls, mutex, step>>
        BY <2>4 DEF CloseDevices, Stage
      <3>2. PICK m \in Minors : Release(File(m))
        BY <2>4 DEF CloseDevices, Minors
      <3>3. Quiet
        BY <2>0, <3>1, MainQuiet
      <3>4. DriverInv' /\ Quiet'
        BY <3>1, <3>2, <3>3, ReleaseKeeps
      <3>5. \A q \in Procs : ~Busy(q)'
        BY <3>4 DEF Quiet, Busy
      <3> QED
        BY <3>1, <3>4, <3>5, Program DEF SerialInv, StageNames
    <2> QED
      BY <1>2, <2>1, <2>2, <2>3, <2>4 DEF MainStep
  <1> QED
    BY <1>1, <1>2

\* A thread that is not between a write and the printing of what it read back.
LEMMA AskedNothing ==
    ASSUME NEW t \in Threads, step[t] \notin InCall
    PROVE  AskedOK(t)
  BY DEF AskedOK, InCall

LEMMA AskedElsewhere ==
    ASSUME NEW t \in Threads, step'[t] \notin InCall
    PROVE  AskedOK(t)'
  BY DEF AskedOK, InCall

LEMMA AskedStays ==
    ASSUME NEW t \in Threads, AskedOK(t), UNCHANGED vars,
           step'[t] = step[t], asked'[t] = asked[t]
    PROVE  AskedOK(t)'
  <1>1. UNCHANGED <<head, key, data, next, current, answer, pc, job>>
    BY DEF vars, listVars, callVars
  <1>2. UNCHANGED Contents
    BY <1>1, ContentsKept
  <1> QED
    BY <1>1, <1>2 DEF AskedOK, Busy, Want

\* The call of a thread that holds the mutex, on its way.
LEMMA AskedInDriver ==
    ASSUME Sane, Sane', NEW t \in Threads, AskedOK(t), InDriver(t)
    PROVE  AskedOK(t)'
  <1> USE DEF Sane
  <1>1. /\ t \in Procs /\ Proceed(t) /\ UNCHANGED <<calls, mutex, step, stage, asked>>
    BY Program DEF InDriver, testerVars
  <1>2. /\ Busy(t) /\ Alone(t) /\ step[t] \in InCall /\ TypesInv /\ current \in Minors
        /\ job \in [Procs -> Jobs] /\ pc \in [Procs -> PcNames]
    BY <1>1, ProceedMoves, WhoWorks, Program, TypesAre DEF DriverInv
  <1> DEFINE Writes == step[t] \in {"addBack", "operateBack"}
             Reads == step[t] \in {"countFill", "countOperate"} /\ asked[t] # Nothing
  <1>3. CASE ~Writes /\ ~Reads
    BY <1>1, <1>3 DEF AskedOK
  <1>4. CASE Writes
    <2>1. /\ asked[t] \in Asks /\ ~Reads
          /\ job[t].op = (IF asked[t].data = 0 THEN "delete" ELSE "write")
          /\ job[t].place[1] = current /\ job[t].key = asked[t].key
          /\ job[t].data = asked[t].data
      BY <1>2, <1>4 DEF AskedOK
    <2>2. SUFFICES IF Busy(t)'
                   THEN /\ job'[t].op = job[t].op /\ current' = current
                        /\ job'[t].place = job[t].place /\ job'[t].key = job[t].key
                        /\ job'[t].data = job[t].data
                   ELSE Contents'[current'][asked[t].key] = Want(t)
      BY <1>1, <1>4, <2>1 DEF AskedOK, Want
    <2>3. asked[t].data # 0 => asked[t].data \in Values
      BY <2>1 DEF Asks
    <2>4. job[t].op # "dump" /\ job[t].op # "read"
      BY <2>1
    <2>5. PICK k \in Keys : k = asked[t].key
      BY <2>1 DEF Asks
    <2>6. PICK c \in Minors : c = current
      BY <1>2
    <2>7. CASE VisitOther(t)
      BY <1>2, <2>7 DEF VisitOther, Visit, Goto, Busy
    <2>8. CASE VisitUpdate(t)
      <3>1. job' = [job EXCEPT ![t].count = 1] /\ UNCHANGED current
        BY <2>8 DEF VisitUpdate
      <3>2. 1 \in 0..DumpMax
        BY Sizes
      <3>3. /\ job'[t].op = job[t].op /\ job'[t].key = job[t].key /\ job'[t].data = job[t].data
            /\ job'[t].place = job[t].place
        BY <1>1, <1>2, <3>1, <3>2, JobCounts
      <3>4. Busy(t)'
        BY <1>1, <1>2, <2>8 DEF VisitUpdate, Visit, Goto, Busy
      <3> QED
        BY <3>1, <3>3, <3>4
    <2>9. CASE VisitDelete(t)
      <3>1. UNCHANGED <<job, current>> /\ Visit(t, Null)
        BY <1>1, <1>2, <2>9, DeleteChains DEF VisitDelete
      <3>2. Busy(t)'
        BY <1>1, <1>2, <3>1 DEF Visit, Goto, Busy
      <3> QED
        BY <3>1, <3>2
    <2>10. CASE VisitRead(t) \/ VisitDump(t)
      BY <2>4, <2>10 DEF VisitRead, VisitDump, Visiting
    <2>11. CASE Finish(t)
      <3>1. CASE job[t].op = "write" /\ job[t].count = 0
        <4>1. UNCHANGED <<job, current>> /\ pc'[t] = "link"
          BY <1>1, <1>2, <2>11, <3>1 DEF Finish, Goto
        <4> QED
          BY <4>1 DEF Busy
      <3>2. CASE ~(job[t].op = "write" /\ job[t].count = 0)
        <4>1. UNCHANGED current /\ pc'[t] = "idle"
          BY <1>1, <1>2, <2>11, <3>2 DEF Finish, Return, Goto
        <4>2. UNCHANGED Contents
              /\ (job[t].op = "delete" => Contents[c][k] = NoData)
              /\ (job[t].op = "write" /\ job[t].count # 0 => Contents[c][k] = job[t].data)
          BY <1>1, <2>1, <2>4, <2>5, <2>6, <2>11, FinishEffect
        <4>3. Contents'[c][k] = Want(t)
          BY <2>1, <3>2, <4>2 DEF Want
        <4> QED
          BY <2>5, <2>6, <4>1, <4>3 DEF Busy
      <3> QED
        BY <3>1, <3>2
    <2>12. CASE Link(t)
      BY <1>1, <1>2, <2>12 DEF Link, Goto, Busy
    <2>13. CASE Publish(t)
      <3>1. UNCHANGED current /\ pc'[t] = "idle"
        BY <1>1, <1>2, <2>13 DEF Publish, Return, Goto
      <3>2. job[t].op = "write"
        BY <1>1, <2>13, AtWork DEF Publish, CallOK
      <3>3. Contents' = [Contents EXCEPT ![c][k] = job[t].data]
        BY <1>1, <2>1, <2>5, <2>6, <2>13, PublishEffect
      <3>4. Contents'[c][k] = job[t].data
        BY <3>3, ContentsAre
      <3>5. Contents'[c][k] = Want(t)
        BY <2>1, <3>2, <3>4 DEF Want
      <3> QED
        BY <2>5, <2>6, <3>1, <3>5 DEF Busy
    <2> HIDE DEF Writes, Reads
    <2> QED
      BY <1>1, <2>7, <2>8, <2>9, <2>10, <2>11, <2>12, <2>13 DEF Proceed
  <1>5. CASE Reads
    <2>1. /\ asked[t] \in Asks /\ ~Writes
          /\ job[t].op = "read" /\ job[t].place[1] = current /\ job[t].key = asked[t].key
          /\ Contents[current][asked[t].key] = Want(t)
      BY <1>2, <1>5 DEF AskedOK
    <2>2. SUFFICES IF Busy(t)'
                   THEN /\ job'[t].op = "read" /\ current' = current
                        /\ job'[t].place = job[t].place /\ job'[t].key = job[t].key
                        /\ UNCHANGED Contents
                   ELSE answer' = <<asked[t].key, Want(t)>>
      BY <1>1, <1>5, <2>1 DEF AskedOK, Want
    <2>3. PICK k \in Keys : k = asked[t].key
      BY <2>1 DEF Asks
    <2>4. PICK c \in Minors : c = current
      BY <1>2
    <2>5. CASE VisitOther(t)
      <3>1. UNCHANGED <<head, key, data, next>>
        BY <2>5 DEF VisitOther, listVars
      <3> QED
        BY <1>2, <2>1, <2>5, <3>1, ContentsKept DEF VisitOther, Visit, Goto, Busy
    <2>6. CASE VisitRead(t)
      <3>1. UNCHANGED <<head, key, data, next, current>>
        BY <2>6 DEF VisitRead, listVars
      <3>2. PICK d : d = data[at[t]]
        OBVIOUS
      <3>3. pc[t] = "visit" /\ job' = [job EXCEPT ![t].data = d]
        BY <2>6, <3>2 DEF VisitRead, Visiting
      <3>4. at[t] \in Nodes /\ data \in [Nodes -> Values \cup {0}]
        BY <1>1, <1>2, <3>3, AtWork, TypesAre
      <3>5. d \in Values \cup {0, NoData}
        BY <3>2, <3>4
      <3>6. /\ job'[t].op = job[t].op /\ job'[t].key = job[t].key
            /\ job'[t].place = job[t].place
        BY <1>1, <1>2, <3>3, <3>5, JobReads
      <3>7. Busy(t)'
        BY <1>1, <1>2, <2>6 DEF VisitRead, Visit, Goto, Busy
      <3> QED
        BY <2>1, <3>1, <3>6, <3>7, ContentsKept
    <2>7. CASE VisitUpdate(t) \/ VisitDelete(t) \/ VisitDump(t)
      BY <2>1, <2>7 DEF VisitUpdate, VisitDelete, VisitDump, Visiting
    <2>8. CASE Finish(t)
      <3>1. pc'[t] = "idle"
        BY <1>1, <1>2, <2>1, <2>8 DEF Finish, Return, Goto
      <3>2. answer' = <<k, Contents[c][k]>>
        BY <1>1, <2>1, <2>3, <2>4, <2>8, FinishEffect
      <3> QED
        BY <2>1, <2>3, <2>4, <3>1, <3>2 DEF Busy
    <2>9. CASE Link(t) \/ Publish(t)
      BY <1>1, <2>1, <2>9, AtWork DEF Link, Publish, CallOK
    <2> HIDE DEF Writes, Reads
    <2> QED
      BY <1>1, <2>5, <2>6, <2>7, <2>8, <2>9 DEF Proceed
  <1> QED
    BY <1>3, <1>4, <1>5

\* What one thread does while it holds the mutex is nothing to the others.
LEMMA AskedByOthers ==
    ASSUME SerialInv, AskedInv, NEW t \in Threads, UNCHANGED vars \/ step[t] \in Holding,
           NEW s \in Threads \ {t}, step'[s] = step[s], asked'[s] = asked[s]
    PROVE  AskedOK(s)'
  <1>1. CASE UNCHANGED vars
    BY <1>1, AskedStays DEF AskedInv
  <1>2. CASE step[t] \in Holding
    <2>1. mutex = t /\ s # t
      BY <1>2 DEF SerialInv
    <2>2. step[s] \notin Holding
      BY <2>1 DEF SerialInv
    <2>3. step'[s] \notin InCall
      BY <2>2 DEF InCall, Holding
    <2> QED
      BY <2>3, AskedElsewhere
  <1> QED
    BY <1>1, <1>2

LEMMA ThreadKeepsAsked ==
    ASSUME Sane, Sane', AskedInv, NEW t \in Threads, ThreadStep(t)
    PROVE  AskedInv'
  <1> USE DEF Sane
  <1>0. /\ t \in Procs /\ asked \in [Threads -> Asks \cup {Nothing}]
        /\ step \in [Threads -> StepNames] /\ current \in Minors
    BY Program, TypesAre DEF AskedInv, SerialInv, DriverInv
  <1>1. CASE Fill(t) \/ Operate(t) \/ Lock(t) \/ Unlock(t)
    <2>1. PICK l \in {"lockFill", "operate", "lockOperate", "ended", "add", "choose", "fill"} :
             Go(t, l)
      BY <1>1 DEF Fill, Operate, Lock, Locked, Unlock
    <2>2. UNCHANGED <<vars, asked>>
      BY <1>1 DEF Fill, Operate, Lock, Unlock
    <2>3. AskedOK(t)'
      BY <1>0, <2>1, AskedElsewhere DEF Go, InCall
    <2>4. \A s \in Threads \ {t} : AskedOK(s)'
      BY <1>0, <2>1, <2>2, AskedByOthers DEF Go
    <2> QED
      BY <1>0, <2>2, <2>3, <2>4 DEF AskedInv
  <1>2. CASE Count(t)
    <2>1. PICK l \in {"unlockFill", "unlockOperate"} : Go(t, l)
      BY <1>2 DEF Count
    <2>2. UNCHANGED vars /\ asked' = [asked EXCEPT ![t] = Nothing]
      BY <1>2 DEF Count
    <2>3. AskedOK(t)'
      BY <1>0, <2>1, AskedElsewhere DEF Go, InCall
    <2>4. \A s \in Threads \ {t} : AskedOK(s)'
      BY <1>0, <2>1, <2>2, AskedByOthers DEF Go
    <2>5. asked' \in [Threads -> Asks \cup {Nothing}]
      BY <1>0, <2>2
    <2> QED
      BY <2>3, <2>4, <2>5 DEF AskedInv
  <1>3. CASE Change(t)
    <2>1. PICK l \in {"addBack", "operateBack"} : Go(t, l) /\ step[t] \in Holding
      BY <1>3 DEF Change, Holding
    <2>2. PICK m \in Minors, k \in Keys, d \in Values \cup {0} :
             /\ Write(t, File(m), k, d)
             /\ asked' = [asked EXCEPT ![t] = [file |-> File(m), key |-> k, data |-> d]]
      BY <1>3 DEF Change
    <2>3. PICK a : a = [file |-> File(m), key |-> k, data |-> d]
      OBVIOUS
    <2>4. a \in Asks /\ a.key = k /\ a.data = d
      BY <2>3, Program DEF Asks, File
    <2>5. asked' \in [Threads -> Asks \cup {Nothing}] /\ asked'[t] = a
          /\ \A s \in Threads \ {t} : asked'[s] = asked[s]
      BY <1>0, <2>2, <2>3, <2>4
    <2>6. pc[t] = "idle" /\ UNCHANGED calls
      BY <1>3, <2>2 DEF Change, Write, Start
    <2>7. Quiet
      BY <2>1, <2>6, HolderQuiet
    <2>8. /\ pc'[t] # "idle" /\ UNCHANGED current
          /\ job'[t].op = IF d = 0 THEN "delete" ELSE "write"
          /\ job'[t].place[1] = current /\ job'[t].key = k /\ job'[t].data = d
      BY <1>0, <2>2, <2>6, <2>7, WriteKeeps
    <2>9. step'[t] = l /\ \A s \in Threads \ {t} : step'[s] = step[s]
      BY <1>0, <2>1 DEF Go
    <2>10. AskedOK(t)'
      BY <2>4, <2>5, <2>8, <2>9 DEF AskedOK, Busy
    <2>11. \A s \in Threads \ {t} : AskedOK(s)'
      BY <2>1, <2>5, <2>9, AskedByOthers
    <2> QED
      BY <2>5, <2>10, <2>11 DEF AskedInv
  <1>4. CASE Search(t)
    <2>1. /\ Go(t, "countOperate") /\ step[t] \in Holding
          /\ asked' = [asked EXCEPT ![t] = Nothing]
      BY <1>4 DEF Search, Holding
    <2>2. /\ asked' \in [Threads -> Asks \cup {Nothing}] /\ asked'[t] = Nothing
          /\ \A s \in Threads \ {t} : asked'[s] = asked[s] /\ step'[s] = step[s]
          /\ step'[t] = "countOperate"
      BY <1>0, <2>1 DEF Go
    <2>3. AskedOK(t)'
      BY <2>2 DEF AskedOK
    <2>4. \A s \in Threads \ {t} : AskedOK(s)'
      BY <2>1, <2>2, AskedByOthers
    <2> QED
      BY <2>2, <2>3, <2>4 DEF AskedInv
  <1>5. CASE ReadBack(t)
    <2>1. PICK l \in {"countFill", "countOperate"} : Go(t, l) /\ step[t] \in Holding
      BY <1>5 DEF ReadBack, Holding
    <2>2. step[t] \in {"addBack", "operateBack"} /\ UNCHANGED <<calls, asked>>
          /\ Read(t, asked[t].file, asked[t].key) /\ pc[t] = "idle"
      BY <1>5 DEF ReadBack, Read, Start
    <2>3. asked[t] \in Asks /\ Contents[current][asked[t].key] = Want(t)
      BY <2>2 DEF AskedInv, AskedOK, Busy
    <2>4. PICK f \in Files \X Minors, k \in Keys : f = asked[t].file /\ k = asked[t].key
      BY <2>3 DEF Asks
    <2>5. Quiet
      BY <2>1, <2>2, HolderQuiet
    <2>6. /\ pc'[t] # "idle" /\ UNCHANGED <<listVars, current>>
          /\ job'[t].op = "read" /\ job'[t].place[1] = current /\ job'[t].key = k
      BY <1>0, <2>2, <2>4, <2>5, ReadKeeps
    <2>7. UNCHANGED Contents
      BY <2>6, ContentsKept DEF listVars
    <2>8. step'[t] = l /\ \A s \in Threads \ {t} : step'[s] = step[s]
      BY <1>0, <2>1 DEF Go
    <2>9. AskedOK(t)'
      BY <2>2, <2>3, <2>4, <2>6, <2>7, <2>8 DEF AskedOK, Busy, Want
    <2>10. \A s \in Threads \ {t} : AskedOK(s)'
      BY <2>1, <2>2, <2>8, AskedByOthers
    <2> QED
      BY <1>0, <2>2, <2>9, <2>10 DEF AskedInv
  <1>6. CASE InDriver(t)
    <2>1. Proceed(t) /\ UNCHANGED <<step, asked>>
      BY <1>6 DEF InDriver, testerVars
    <2>2. Busy(t)
      BY <1>0, <2>1, ProceedMoves
    <2>3. step[t] \in Holding
      BY <2>2 DEF SerialInv, InCall, Holding
    <2>4. AskedOK(t)'
      BY <1>6, AskedInDriver DEF AskedInv
    <2>5. \A s \in Threads \ {t} : AskedOK(s)'
      BY <2>1, <2>3, AskedByOthers
    <2> QED
      BY <1>0, <2>1, <2>4, <2>5 DEF AskedInv
  <1> QED
    BY <1>1, <1>2, <1>3, <1>4, <1>5, <1>6 DEF ThreadStep

\* main is at work only before the threads start and after they have ended.
LEMMA MainKeepsAsked ==
    ASSUME Sane, AskedInv, MainStep \/ InDriver(Main)
    PROVE  AskedInv'
  <1> USE DEF Sane
  <1>1. UNCHANGED <<step, asked>>
    BY DEF MainStep, OpenDevices, Join, DumpTables, CloseDevices, InDriver, testerVars
  <1>2. ASSUME NEW t \in Threads PROVE step[t] \notin InCall
    <2>1. CASE stage # "join"
      BY <2>1 DEF SerialInv, InCall, StageNames
    <2>2. CASE Join
      BY <2>2 DEF Join, InCall
    <2>3. CASE InDriver(Main)
      <3>1. Busy(Main)
        BY <2>3, ProceedMoves, Program DEF InDriver
      <3> QED
        BY <2>1, <3>1 DEF SerialInv
    <2>4. CASE MainStep /\ ~Join
      BY <2>1, <2>4 DEF MainStep, OpenDevices, DumpTables, CloseDevices, Stage
    <2> QED
      BY <2>2, <2>3, <2>4
  <1>3. \A t \in Threads : AskedOK(t)'
    BY <1>1, <1>2, AskedElsewhere
  <1> QED
    BY <1>1, <1>3 DEF AskedInv

-----------------------------------------------------------------------------
(* The theorems about the tables.                                           *)

\* The inductive invariant.
Inv == RoomInv /\ Sane /\ AskedInv

LEMMA InvInit == TesterInit => Inv
  <1> SUFFICES ASSUME TesterInit PROVE Inv
    OBVIOUS
  <1>1. Init
    BY DEF TesterInit
  <1>2. RoomInv
    BY RoomInit
  <1>3. SerialInv
    BY <1>1, Program DEF TesterInit, Init, SerialInv, StepNames, StageNames, Holding, Busy
  <1>4. \A x \in Places : head[x] = Null /\ Chain(x) = {}
    BY <1>1, ReachedNull DEF Init, Chain
  <1>5. TypesInv
    <2>1. TypeOK
      <3>1. \A p \in Procs : job[p].count = 0
        BY <1>1 DEF Init, NoJob
      <3> QED
        BY <1>1, <3>1, Sizes DEF Init, TypeOK, Minors
    <2> QED
      BY <1>1, <2>1, NoJobIsOne DEF TypesInv, Init
  <1>6. ListsInv
    BY <1>4 DEF ListsInv, ChainOK
  <1>7. CallsInv
    BY <1>1 DEF Init, CallsInv, CallOK, Busy
  <1>8. AskedInv
    <2>1. \A t \in Threads : step[t] \notin InCall
      BY DEF TesterInit, InCall
    <2> QED
      BY <2>1, AskedNothing DEF TesterInit, AskedInv
  <1> QED
    BY <1>2, <1>3, <1>5, <1>6, <1>7, <1>8 DEF Inv, Sane, DriverInv

LEMMA InvNext == Inv /\ [TesterNext]_allVars => Inv'
  <1> SUFFICES ASSUME Inv, [TesterNext]_allVars PROVE Inv'
    OBVIOUS
  <1> USE DEF Inv
  <1>1. RoomInv'
    BY RoomNext
  <1>2. ASSUME NEW t \in Threads, ThreadStep(t) PROVE Sane' /\ AskedInv'
    BY <1>2, ThreadKeepsSane, ThreadKeepsAsked
  <1>3. CASE MainStep \/ InDriver(Main)
    BY <1>1, <1>3, MainKeepsSane, MainKeepsAsked
  <1>4. CASE Exited \/ UNCHANGED allVars
    <2>1. UNCHANGED <<vars, mutex, step, stage, asked>>
      BY <1>4 DEF Exited, allVars, testerVars
    <2>2. UNCHANGED pc
      BY <2>1 DEF vars, callVars
    <2>3. DriverInv'
      BY <2>1, DriverStays DEF Sane
    <2>4. SerialInv'
      BY <2>1, <2>2, SerialKept DEF Sane, Busy
    <2>5. AskedInv'
      BY <2>1, AskedStays DEF AskedInv
    <2> QED
      BY <1>1, <2>3, <2>4, <2>5 DEF Sane
  <1> QED
    BY <1>1, <1>2, <1>3, <1>4 DEF TesterNext

LEMMA InvHolds == TesterSpec => []Inv
  BY InvInit, InvNext, PTL DEF TesterSpec

\* Every variable has its type.  Hash_Driver.c:402: a dump never copies more
\* objects than its array holds.
THEOREM TesterTyped == TesterSpec => []TesterTypeOK
  <1>1. Inv => TesterTypeOK
    BY DEF Inv, RoomInv, StepsOK, Sane, SerialInv, StageNames, DriverInv, TypesInv, TesterTypeOK
  <1> QED
    BY <1>1, InvHolds, PTL

\* Hash_Driver.c:143 and 334: no key is twice in a bucket, and when no call is at
\* work every bucket is a doubly linked list of nodes that are not freed.
THEOREM ListsAlwaysSound == TesterSpec => []ListsSound
  <1>1. Inv => ListsSound
    <2> SUFFICES ASSUME Inv PROVE ListsSound
      OBVIOUS
    <2>1. TypesInv /\ ListsInv
      BY DEF Inv, Sane, DriverInv
    <2>2. ASSUME NEW t \in Minors, NEW k \in Keys PROVE Cardinality(With(t, k)) <= 1
      <3>1. OneOf(Chain(<<t, Bucket(k)>>), key)
        BY <2>1, OneInChain, KeyPlace
      <3>2. CASE With(t, k) = {}
        <4>1. Cardinality({}) = 0
          BY FS_EmptySet
        <4> QED
          BY <3>2, <4>1
      <3>3. CASE With(t, k) # {}
        <4>1. PICK n : n \in With(t, k)
          BY <3>3
        <4>2. With(t, k) = {n}
          BY <3>1, <4>1 DEF With, OneOf
        <4>3. Cardinality({n}) = 1
          BY FS_Singleton
        <4> QED
          BY <4>2, <4>3
      <3> QED
        BY <3>2, <3>3
    <2>3. ASSUME Quiet, NEW x \in Places, NEW n \in Chain(x)
          PROVE  /\ n \in live \cap linked
                 /\ IF pprev[n] = Null THEN head[x] = n
                    ELSE pprev[n] \in Chain(x) /\ next[pprev[n]] = n
      <3>1. n \in live \cap linked
        BY <2>1 DEF ListsInv, ChainOK
      <3>2. Linked(next, pprev, head[x])
        BY <2>1, <2>3, ListLinked DEF Quiet
      <3>3. next \in Pointers /\ pprev \in Pointers /\ head[x] \in Nodes \cup {Null}
        BY <2>1, Shape
      <3> QED
        BY <3>1, <3>2, <3>3, LinkedPlace DEF Chain
    <2> QED
      BY <2>2, <2>3 DEF ListsSound, OneNodePerKey
  <1> QED
    BY <1>1, InvHolds, PTL

\* Main.c:43 and 68: what a thread reads back is what it wrote.
THEOREM EachReadsItsOwn == TesterSpec => []ReadsOwnWrite
  <1>1. Inv => ReadsOwnWrite
    BY DEF Inv, AskedInv, AskedOK, ReadsOwnWrite, Want, Busy
  <1> QED
    BY <1>1, InvHolds, PTL

-----------------------------------------------------------------------------
(* The driver under the program is a pair of maps: each step of a call is   *)
(* one operation on a map, or changes nothing that shows.                   *)

LEMMA ProceedRefines ==
    ASSUME DriverInv, DriverInv', NEW p \in Procs, Alone(p), Proceed(p)
    PROVE  [Map!MapNext]_<<Contents, answer>>
  <1>0. SUFFICES ASSUME NEW t, t = job[p].place[1], NEW k, k = job[p].key, Busy(p)
                 PROVE  [Map!MapNext]_<<Contents, answer>>
    BY ProceedMoves
  <1>1. CASE VisitOther(p) \/ VisitRead(p) \/ VisitDump(p)
    <2>1. UNCHANGED <<head, key, data, next, answer>>
      BY <1>1 DEF VisitOther, VisitRead, VisitDump, listVars
    <2> QED
      BY <2>1, ContentsKept
  <1>2. CASE VisitUpdate(p)
    <2>1. job[p].op = "write" /\ UNCHANGED answer
      BY <1>2 DEF VisitUpdate, Visiting
    <2>2. t \in Minors /\ k \in Keys /\ job[p].data \in Values
      BY <1>0, <2>1, KeyCall
    <2>3. Contents' = [Contents EXCEPT ![t][k] = job[p].data]
      BY <1>0, <1>2, VisitUpdateEffect
    <2> QED
      BY <2>1, <2>2, <2>3 DEF Map!MapNext, Map!Put
  <1>3. CASE VisitDelete(p)
    <2>1. job[p].op = "delete" /\ UNCHANGED answer
      BY <1>3 DEF VisitDelete, Visiting
    <2>2. t \in Minors /\ k \in Keys
      BY <1>0, <2>1, KeyCall
    <2>3. Contents' = [Contents EXCEPT ![t][k] = NoData]
      BY ZenonT(60), <1>0, <1>3, VisitDeleteEffect
    <2> QED
      BY <2>1, <2>2, <2>3 DEF Map!MapNext, Map!Remove
  <1>4. CASE Finish(p)
    <2>1. CASE job[p].op = "dump"
      <3>1. UNCHANGED <<head, key, data, next, answer>>
        BY <1>4, <2>1 DEF Finish, listVars
      <3> QED
        BY <3>1, ContentsKept
    <2>2. CASE job[p].op # "dump"
      <3>1. /\ UNCHANGED Contents /\ t \in Minors /\ k \in Keys
            /\ job[p].op = "read" => answer' = <<k, Contents[t][k]>>
            /\ job[p].op # "read" => UNCHANGED answer
        BY <1>0, <1>4, <2>2, FinishEffect
      <3> QED
        BY <3>1 DEF Map!MapNext, Map!Search
    <2> QED
      BY <2>1, <2>2
  <1>5. CASE Link(p)
    BY <1>5, LinkEffect DEF Link
  <1>6. CASE Publish(p)
    <2>1. pc[p] = "publish" /\ UNCHANGED answer
      BY <1>6 DEF Publish
    <2>2. job[p].op = "write"
      BY <2>1, AtWork DEF CallOK
    <2>3. t \in Minors /\ k \in Keys /\ job[p].data \in Values
      BY <1>0, <2>2, KeyCall
    <2>4. Contents' = [Contents EXCEPT ![t][k] = job[p].data]
      BY <1>0, <1>6, PublishEffect
    <2> QED
      BY <2>1, <2>3, <2>4 DEF Map!MapNext, Map!Put
  <1> QED
    BY <1>1, <1>2, <1>3, <1>4, <1>5, <1>6 DEF Proceed

\* Opening a device, and releasing a file, empties one table.
LEMMA EmptiedRefines ==
    ASSUME NEW m \in Minors, head' = [x \in Places |-> IF x[1] = m THEN Null ELSE head[x]],
           UNCHANGED <<key, data, next, answer>>
    PROVE  [Map!MapNext]_<<Contents, answer>>
  <1>1. ASSUME NEW s \in Minors, NEW l \in Keys
        PROVE  Contents'[s][l] = IF s = m THEN NoData ELSE Contents[s][l]
    <2>1. PICK x \in Places : x = <<s, Bucket(l)>> /\ x[1] = s
      BY KeyPlace
    <2>2. /\ Contents[s][l] = Datum(Chain(x), key, data, l)
          /\ Contents'[s][l] = Datum(Chain(x)', key, data, l)
      BY <2>1, ContentsAt DEF Chain
    <2>3. Chain(x)' = IF s = m THEN {} ELSE Chain(x)
      BY <2>1, EmptiedChains
    <2>4. Datum({}, key, data, l) = NoData
      BY DEF Datum
    <2> QED
      BY <2>2, <2>3, <2>4
  <1>2. /\ Contents' = [s \in Minors |-> [l \in Keys |-> Contents'[s][l]]]
        /\ Contents = [s \in Minors |-> [l \in Keys |-> Contents[s][l]]]
        /\ \A s \in Minors : Contents[s] = [l \in Keys |-> Contents[s][l]]
    BY ContentsAre
  <1>3. Contents' = [Contents EXCEPT ![m] = [l \in Keys |-> NoData]]
    <2>1. Contents' = [s \in Minors |-> IF s = m THEN [l \in Keys |-> NoData] ELSE Contents[s]]
      BY <1>1, <1>2
    <2> QED
      BY <1>2, <2>1
  <1> QED
    BY <1>3 DEF Map!MapNext, Map!Empty

LEMMA ThreadRefines ==
    ASSUME Sane, Sane', NEW t \in Threads, ThreadStep(t)
    PROVE  [Map!MapNext]_<<Contents, answer>>
  <1>1. CASE Fill(t) \/ Operate(t) \/ Lock(t) \/ Count(t) \/ Unlock(t)
    <2>1. UNCHANGED <<head, key, data, next, answer>>
      BY <1>1 DEF Fill, Operate, Lock, Count, Unlock, vars, listVars
    <2> QED
      BY <2>1, ContentsKept
  <1>2. CASE Change(t) \/ Search(t) \/ ReadBack(t)
    <2>1. UNCHANGED <<head, key, data, next, answer>>
      BY <1>2 DEF Change, Search, ReadBack, Write, Read, Start, listVars
    <2> QED
      BY <2>1, ContentsKept
  <1>3. CASE InDriver(t)
    <2>1. t \in Procs /\ Proceed(t)
      BY <1>3, Program DEF InDriver
    <2>2. Alone(t)
      BY <2>1, ProceedMoves, WhoWorks DEF Sane
    <2> QED
      BY <2>1, <2>2, ProceedRefines DEF Sane
  <1> QED
    BY <1>1, <1>2, <1>3 DEF ThreadStep

LEMMA MainRefines ==
    ASSUME Sane, Sane', MainStep \/ InDriver(Main)
    PROVE  [Map!MapNext]_<<Contents, answer>>
  <1>1. CASE InDriver(Main)
    <2>1. Main \in Procs /\ Proceed(Main)
      BY <1>1, Program DEF InDriver
    <2>2. Alone(Main)
      BY <2>1, ProceedMoves, WhoWorks DEF Sane
    <2> QED
      BY <2>1, <2>2, ProceedRefines DEF Sane
  <1>2. CASE Join \/ DumpTables
    <2>1. UNCHANGED <<head, key, data, next, answer>>
      BY <1>2 DEF Join, DumpTables, Dump, Start, vars, listVars
    <2> QED
      BY <2>1, ContentsKept
  <1>3. CASE OpenDevices
    <2>1. PICK m \in Minors : Open(m, m)
      BY <1>3 DEF OpenDevices, Minors
    <2> QED
      BY <2>1, EmptiedRefines DEF Open
  <1>4. CASE CloseDevices
    <2>1. PICK m \in Minors : Release(File(m))
      BY <1>4 DEF CloseDevices, Minors
    <2>2. PICK c \in Minors : c = current
      BY TypesAre DEF Sane, DriverInv
    <2> QED
      BY <2>1, <2>2, EmptiedRefines DEF Release
  <1> QED
    BY <1>1, <1>2, <1>3, <1>4 DEF MainStep

LEMMA InitRefines == TesterInit => Map!MapInit
  <1> SUFFICES ASSUME TesterInit PROVE Map!MapInit
    OBVIOUS
  <1>1. Init
    BY DEF TesterInit
  <1>2. \A x \in Places : Chain(x) = {}
    BY <1>1, ReachedNull DEF Init, Chain
  <1>3. ASSUME NEW s \in Minors, NEW l \in Keys PROVE Contents[s][l] = NoData
    <2>1. Contents[s][l] = Datum(Chain(<<s, Bucket(l)>>), key, data, l)
      BY ContentsAt
    <2>2. Chain(<<s, Bucket(l)>>) = {}
      BY <1>2, ContentsAt
    <2> QED
      BY <2>1, <2>2 DEF Datum
  <1>4. Contents = [s \in Minors |-> [l \in Keys |-> Contents[s][l]]]
    BY ContentsAre
  <1>5. Contents = [s \in Minors |-> [l \in Keys |-> NoData]]
    BY <1>3, <1>4
  <1> QED
    BY <1>1, <1>5 DEF Init, Map!MapInit

LEMMA NextRefines ==
    Inv /\ Inv' /\ [TesterNext]_allVars => [Map!MapNext]_<<Contents, answer>>
  <1> SUFFICES ASSUME Inv, Inv', [TesterNext]_allVars
               PROVE  [Map!MapNext]_<<Contents, answer>>
    OBVIOUS
  <1> USE DEF Inv
  <1>1. ASSUME NEW t \in Threads, ThreadStep(t) PROVE [Map!MapNext]_<<Contents, answer>>
    BY <1>1, ThreadRefines
  <1>2. CASE MainStep \/ InDriver(Main)
    BY <1>2, MainRefines
  <1>3. CASE Exited \/ UNCHANGED allVars
    <2>1. UNCHANGED <<head, key, data, next, answer>>
      BY <1>3 DEF Exited, allVars, vars, listVars
    <2> QED
      BY <2>1, ContentsKept
  <1> QED
    BY <1>1, <1>2, <1>3 DEF TesterNext

\* Hash_Driver.c with the mutex of Main.c:37 around its calls is a pair of maps,
\* for any number of threads, keys, data, buckets and nodes.
THEOREM TablesAreMaps == TesterSpec => MapImplemented
  <1>1. Inv /\ Inv' /\ [TesterNext]_allVars => [Map!MapNext]_Map!mapVars
    BY NextRefines DEF Map!mapVars
  <1> QED
    BY <1>1, InitRefines, InvHolds, PTL DEF TesterSpec, MapImplemented, Map!MapSpec


-----------------------------------------------------------------------------
(* Calls take effect.                                                       *)

LEMMA FinishedCall ==
    ASSUME Inv, NEW p \in Procs, Finish(p),
           NEW t, t = job[p].place[1], NEW k, k = job[p].key
    PROVE  /\ job[p].op = "delete" => With(t, k) = {}
           /\ (job[p].op = "write" /\ pc'[p] = "idle") => Contents[t][k] = job[p].data
  <1>1. DriverInv /\ pc \in [Procs -> PcNames]
    BY TypesAre DEF Inv, Sane, DriverInv
  <1>2. CASE job[p].op = "delete"
    BY <1>1, <1>2, FinishEffect
  <1>3. CASE job[p].op = "write" /\ pc'[p] = "idle"
    <2>1. job[p].count # 0
      BY <1>1, <1>3 DEF Finish, Goto
    <2> QED
      BY <1>1, <1>3, <2>1, FinishEffect
  <1> QED
    BY <1>2, <1>3

LEMMA PublishedCall ==
    ASSUME Inv, Inv', NEW p \in Procs, Publish(p),
           NEW t, t = job[p].place[1], NEW k, k = job[p].key
    PROVE  Contents'[t][k] = job[p].data
  <1>1. DriverInv /\ DriverInv'
    BY DEF Inv, Sane
  <1>2. Contents' = [Contents EXCEPT ![t][k] = job[p].data]
    BY <1>1, PublishEffect
  <1>3. job[p].op = "write"
    BY <1>1, AtWork DEF Publish, CallOK
  <1>4. t \in Minors /\ k \in Keys
    BY <1>1, <1>3, KeyCall DEF Publish, Busy
  <1> QED
    BY <1>2, <1>4, ContentsAre

\* A write or a deletion that returns has changed the table it was made on, for
\* any number of threads: write of Hash_Driver.c, its loop and hash_add.
THEOREM WritesAndDeletionsDone == TesterSpec => CallsTakeEffect
  <1> DEFINE Done(p) ==
         /\ Finish(p) /\ job[p].op = "delete" => With(job[p].place[1], job[p].key) = {}
         /\ Finish(p) /\ job[p].op = "write" /\ pc'[p] = "idle" =>
               Contents[job[p].place[1]][job[p].key] = job[p].data
         /\ Publish(p) =>
               Contents'[job[p].place[1]][job[p].key] = job[p].data
  <1>1. ASSUME Inv, Inv', NEW p \in Procs PROVE Done(p)
    <2>1. PICK t, k : t = job[p].place[1] /\ k = job[p].key
      OBVIOUS
    <2>2. Finish(p) => /\ job[p].op = "delete" => With(t, k) = {}
                       /\ (job[p].op = "write" /\ pc'[p] = "idle") =>
                             Contents[t][k] = job[p].data
      BY <1>1, <2>1, FinishedCall
    <2>3. Publish(p) => Contents'[t][k] = job[p].data
      BY <1>1, <2>1, PublishedCall
    <2> QED
      BY <2>1, <2>2, <2>3
  <1>2. Inv /\ Inv' => [\A p \in Procs : Done(p)]_vars
    BY <1>1
  <1> QED
    BY <1>2, InvHolds, PTL DEF CallsTakeEffect
=============================================================================
