----------------------------- MODULE HashTable -----------------------------
(***************************************************************************)
(* The hash table driver, Hash_Driver.c: two device files, one table of    *)
(* buckets for each, buckets that are hlists of nodes.  The driver takes   *)
(* no lock, and which table an operation works on is decided by the global *)
(* current_dev_no, that is by the device opened last, not by the file.     *)
(*                                                                         *)
(* A step of a call visits one node of the bucket (unlinking it is part of *)
(* the visit); hash_add is two steps, the stores that tie the new node to  *)
(* the bucket and those that make it the first.  Here calls come from any  *)
(* number of threads in any order; module HashTester adds the program that *)
(* serialises them with a mutex, and the properties that needs.            *)
(***************************************************************************)
EXTENDS Integers, FiniteSets

CONSTANTS Procs,       \* threads that make calls
          Files,       \* open files; nothing limits how many a device has
          Keys, Values,
          Buckets,     \* how many buckets; hash_min(key, 7) is key % Buckets
          Dumpable,    \* buckets some key up to 128 falls in; not all do
          DumpMax,     \* objects a DUMP copies at most (8)
          MaxNodes,    \* bound: nodes that are ever linked
          MaxCalls     \* bound: calls made

ASSUME HashAssumption ==
    /\ Keys \subseteq Nat /\ Values \subseteq Nat \ {0}
    /\ Buckets \in Nat \ {0} /\ Dumpable \subseteq 0..(Buckets - 1) /\ DumpMax \in Nat \ {0}
    /\ MaxNodes \in Nat /\ MaxCalls \in Nat

NoData == -1           \* the answer of a search that finds nothing
Minors == {0, 1}
Nodes == 1..MaxNodes
Null == 0
Places == Minors \X (0..(Buckets - 1))
Bucket(k) == k % Buckets

VARIABLES
    opened,   \* the <<file, minor>> pairs open
    current,  \* MINOR(current_dev_no)
    head,     \* head[<<t, b>>]: the first node of bucket b of table t
    key, data, next, pprev,   \* the fields of the nodes; pprev Null is the head
    linked,   \* nodes whose pprev is set, that is not hlist_unhashed
    live,     \* nodes linked at some time and not freed
    pc,       \* "idle", "visit", "finish", "link" or "publish"
    at,       \* the node a call is about to visit
    job,      \* what a call was asked to do
    answer,   \* the latest <<key, datum>> a read gave (history)
    used,     \* nodes ever linked (bound)
    calls     \* calls made (bound)

listVars == <<head, key, data, next, pprev, linked, live>>
callVars == <<pc, at, job>>
vars == <<opened, current, listVars, callVars, answer, used, calls>>

NoJob == [op |-> "none", file |-> <<>>, place |-> <<0, 0>>, key |-> 0, data |-> 0,
          count |-> 0]

Init ==
    /\ opened = {} /\ current = 0
    /\ head = [x \in Places |-> Null]
    /\ key = [n \in Nodes |-> 0] /\ data = [n \in Nodes |-> 0]
    /\ next = [n \in Nodes |-> Null] /\ pprev = [n \in Nodes |-> Null]
    /\ linked = {} /\ live = {}
    /\ pc = [p \in Procs |-> "idle"] /\ at = [p \in Procs |-> Null]
    /\ job = [p \in Procs |-> NoJob]
    /\ answer = <<NoData, NoData>>
    /\ used = 0 /\ calls = 0

-----------------------------------------------------------------------------

Quiet == \A p \in Procs : pc[p] = "idle"
Goto(p, l) == pc' = [pc EXCEPT ![p] = l]
Return(p) == Goto(p, "idle") /\ job' = [job EXCEPT ![p] = NoJob]

\* The nodes that pointers nx lead to from m: those in every set that has m
\* and what its members point to.
Reached(nx, m) ==
    LET Closed(S) == m \in S \cup {Null} /\ \A n \in S : nx[n] \in S \cup {Null}
    IN  {n \in Nodes : \A S \in SUBSET Nodes : Closed(S) => n \in S}

\* The nodes of a bucket.
Chain(x) == Reached(next, head[x])

\* open: hash_init drops the heads of this table; nodes are not freed.
Open(f, m) ==
    /\ \A o \in opened : o[1] # f
    /\ opened' = opened \cup {<<f, m>>}
    /\ current' = m
    /\ head' = [x \in Places |-> IF x[1] = m THEN Null ELSE head[x]]
    /\ UNCHANGED <<key, data, next, pprev, linked, live, callVars, answer, used>>

\* No call is running on file o, and it is closed.
Close(o) ==
    /\ o \in opened /\ opened' = opened \ {o}
    /\ \A p \in Procs : pc[p] # "idle" => job[p].file # o

\* A faulty variant: the nodes are freed and left in their buckets.
ReleaseKeepingHeads(o) ==
    /\ Close(o)
    /\ live' = live \ UNION {Chain(x) : x \in {y \in Places : y[1] = current}}
    /\ UNCHANGED <<current, head, key, data, next, pprev, linked, callVars, answer, used>>

\* release: every node of the table of the device opened last is freed.
Release(o) ==
    /\ Close(o)
    /\ LET gone == UNION {Chain(x) : x \in {y \in Places : y[1] = current}} IN
          /\ live' = live \ gone
          /\ linked' = linked \ gone
    /\ head' = [x \in Places |-> IF x[1] = current THEN Null ELSE head[x]]
    /\ UNCHANGED <<current, key, data, next, pprev, callVars, answer, used>>

\* The table a call works on: never mind the file.
Table(f) == current

Start(p, j, first) ==
    /\ pc[p] = "idle"
    /\ job' = [job EXCEPT ![p] = j]
    /\ at' = [at EXCEPT ![p] = first]
    /\ Goto(p, IF first = Null THEN "finish" ELSE "visit")
    /\ UNCHANGED <<opened, current, listVars, answer, used>>

First(f, k) == head[<<Table(f), Bucket(k)>>]

\* write: a node is always allocated, also to delete (data 0) or to update;
\* one that is not linked is leaked, and as no pointer leads to it, it gets
\* no number here.
Write(p, f, k, d) ==
    Start(p, [op |-> IF d = 0 THEN "delete" ELSE "write", file |-> f,
              place |-> <<Table(f), Bucket(k)>>, key |-> k, data |-> d, count |-> 0],
          First(f, k))

Read(p, f, k) ==
    Start(p, [op |-> "read", file |-> f, place |-> <<Table(f), Bucket(k)>>,
              key |-> k, data |-> NoData, count |-> 0],
          First(f, k))

\* DUMP looks for a key that falls in the bucket and gives up beyond 128.
Dump(p, f, b) ==
    Start(p, [op |-> "dump", file |-> f, place |-> <<Table(f), b>>,
              key |-> 0, data |-> 0, count |-> 0],
          IF b \in Dumpable THEN head[<<Table(f), b>>] ELSE Null)

-----------------------------------------------------------------------------
(* The loops of write, read and DUMP over the nodes of a bucket.            *)

\* Go on to node n, or to what follows the loop.
Visit(p, n) ==
    /\ at' = [at EXCEPT ![p] = n]
    /\ Goto(p, IF n = Null THEN "finish" ELSE "visit")

Visiting(p, ops) == pc[p] = "visit" /\ job[p].op \in ops

VisitOther(p) ==
    /\ Visiting(p, {"write", "delete", "read"}) /\ key[at[p]] # job[p].key
    /\ Visit(p, next[at[p]])
    /\ UNCHANGED <<opened, current, listVars, job, answer, used>>

\* A faulty variant: the update does not note that it found the key.
VisitUpdateUnnoted(p) ==
    /\ Visiting(p, {"write"}) /\ key[at[p]] = job[p].key
    /\ data' = [data EXCEPT ![at[p]] = job[p].data]
    /\ Visit(p, next[at[p]])
    /\ UNCHANGED <<opened, current, head, key, next, pprev, linked, live, job, answer, used>>

VisitUpdate(p) ==
    /\ Visiting(p, {"write"}) /\ key[at[p]] = job[p].key
    /\ data' = [data EXCEPT ![at[p]] = job[p].data]
    /\ job' = [job EXCEPT ![p].count = 1]
    /\ Visit(p, next[at[p]])
    /\ UNCHANGED <<opened, current, head, key, next, pprev, linked, live, answer, used>>

\* hash_del resets the node's own pointers, so the loop ends at it; the node
\* is not freed.
VisitDelete(p) ==
    /\ Visiting(p, {"delete"}) /\ key[at[p]] = job[p].key
    /\ LET n == at[p]
           succ == next[n]
           pred == pprev[n]
       IN  IF n \in linked
           THEN /\ head' = IF pred = Null THEN [head EXCEPT ![job[p].place] = succ] ELSE head
                /\ next' = [m \in Nodes |-> IF m = n THEN Null
                                            ELSE IF m = pred THEN succ ELSE next[m]]
                /\ pprev' = [m \in Nodes |-> IF m = n THEN Null
                                             ELSE IF m = succ THEN pred ELSE pprev[m]]
                /\ linked' = linked \ {n}
                /\ Visit(p, Null)
           ELSE Visit(p, succ) /\ UNCHANGED <<head, next, pprev, linked>>
    /\ UNCHANGED <<opened, current, key, data, live, job, answer, used>>

\* The last node with the key decides.
VisitRead(p) ==
    /\ Visiting(p, {"read"}) /\ key[at[p]] = job[p].key
    /\ job' = [job EXCEPT ![p].data = data[at[p]]]
    /\ Visit(p, next[at[p]])
    /\ UNCHANGED <<opened, current, listVars, answer, used>>

\* A faulty variant: every object of the bucket is copied.
VisitDumpUnbounded(p) ==
    /\ Visiting(p, {"dump"})
    /\ job' = [job EXCEPT ![p].count = @ + 1]
    /\ Visit(p, next[at[p]])
    /\ UNCHANGED <<opened, current, listVars, answer, used>>

VisitDump(p) ==
    /\ Visiting(p, {"dump"})
    /\ IF job[p].count < DumpMax
       THEN job' = [job EXCEPT ![p].count = @ + 1] /\ Visit(p, next[at[p]])
       ELSE Visit(p, Null) /\ UNCHANGED job
    /\ UNCHANGED <<opened, current, listVars, answer, used>>

\* After the loop: a write that found nothing adds its node.
Finish(p) ==
    /\ pc[p] = "finish"
    /\ IF job[p].op = "write" /\ job[p].count = 0
       THEN Goto(p, "link") /\ UNCHANGED job
       ELSE Return(p)
    /\ answer' = IF job[p].op = "read" THEN <<job[p].key, job[p].data>> ELSE answer
    /\ UNCHANGED <<opened, current, listVars, at, used>>

NewNode == used + 1

\* A faulty variant: the new node is not tied to the rest of the bucket.
LinkForgotten(p) ==
    /\ pc[p] = "link" /\ Goto(p, "publish")
    /\ used < MaxNodes /\ used' = NewNode /\ live' = live \cup {NewNode}
    /\ at' = [at EXCEPT ![p] = NewNode]
    /\ key' = [key EXCEPT ![NewNode] = job[p].key]
    /\ data' = [data EXCEPT ![NewNode] = job[p].data]
    /\ UNCHANGED <<opened, current, head, next, pprev, linked, job, answer>>

\* A faulty variant: the node is made the first before it points to the first.
LinkAfterPublish(p) ==
    /\ pc[p] = "link" /\ Goto(p, "publish")
    /\ used < MaxNodes /\ used' = NewNode /\ live' = live \cup {NewNode}
    /\ at' = [at EXCEPT ![p] = NewNode]
    /\ key' = [key EXCEPT ![NewNode] = job[p].key]
    /\ data' = [data EXCEPT ![NewNode] = job[p].data]
    /\ head' = [head EXCEPT ![job[p].place] = NewNode]
    /\ next' = [next EXCEPT ![NewNode] = head'[job[p].place]]
    /\ UNCHANGED <<opened, current, pprev, linked, job, answer>>

\* hash_add: the node points to the first of the bucket and back ...
Link(p) ==
    /\ pc[p] = "link" /\ Goto(p, "publish")
    /\ used < MaxNodes /\ used' = NewNode /\ live' = live \cup {NewNode}
    /\ at' = [at EXCEPT ![p] = NewNode]
    /\ key' = [key EXCEPT ![NewNode] = job[p].key]
    /\ data' = [data EXCEPT ![NewNode] = job[p].data]
    /\ LET first == head[job[p].place] IN
          /\ next' = [next EXCEPT ![NewNode] = first]
          /\ pprev' = IF first = Null THEN pprev ELSE [pprev EXCEPT ![first] = NewNode]
    /\ UNCHANGED <<opened, current, head, linked, job, answer>>

\* ... and becomes the first itself.
Publish(p) ==
    /\ pc[p] = "publish" /\ Return(p)
    /\ head' = [head EXCEPT ![job[p].place] = at[p]]
    /\ pprev' = [pprev EXCEPT ![at[p]] = Null]
    /\ linked' = linked \cup {at[p]}
    /\ at' = [at EXCEPT ![p] = Null]
    /\ UNCHANGED <<opened, current, key, data, next, live, answer, used>>

Proceed(p) == \/ VisitOther(p) \/ VisitUpdate(p) \/ VisitDelete(p) \/ VisitRead(p)
              \/ VisitDump(p) \/ Finish(p) \/ Link(p) \/ Publish(p)

Call(p) ==
    \E o \in opened :
        \/ \E k \in Keys : \/ \E d \in Values \cup {0} : Write(p, o, k, d)
                          \/ Read(p, o, k)
        \/ \E b \in 0..(Buckets - 1) : Dump(p, o, b)

\* The bound: MaxCalls opens, releases and other calls are made.
Stopped == calls = MaxCalls /\ Quiet /\ UNCHANGED vars

Next == \/ /\ calls < MaxCalls /\ calls' = calls + 1
           /\ \/ \E f \in Files, m \in Minors : Open(f, m)
              \/ \E o \in opened : Release(o)
              \/ \E p \in Procs : Call(p)
        \/ \E p \in Procs : Proceed(p) /\ UNCHANGED calls
        \/ Stopped

Spec == Init /\ [][Next]_vars

\* A call that was made runs on.
FairSpec == Spec /\ \A p \in Procs : WF_vars(Proceed(p) /\ UNCHANGED calls)

-----------------------------------------------------------------------------
(* Properties.  The four from MapImplemented on hold of programs that make  *)
(* one call at a time; module HashTester checks them.                       *)

TypeOK ==
    /\ opened \subseteq Files \X Minors /\ current \in Minors
    /\ head \in [Places -> Nodes \cup {Null}]
    /\ key \in [Nodes -> Keys \cup {0}] /\ data \in [Nodes -> Values \cup {0}]
    /\ next \in [Nodes -> Nodes \cup {Null}] /\ pprev \in [Nodes -> Nodes \cup {Null}]
    /\ linked \subseteq Nodes /\ live \subseteq Nodes
    /\ pc \in [Procs -> {"idle", "visit", "finish", "link", "publish"}]
    /\ at \in [Procs -> Nodes \cup {Null}]
    /\ \A p \in Procs : job[p].count \in 0..DumpMax     \* object_array has no more
    /\ used \in 0..MaxNodes /\ calls \in 0..MaxCalls

\* Calls that do not wait for each other still find the end of their bucket:
\* no order of pointer stores closes a chain into a ring.
CallsReturn == \A p \in Procs : (pc[p] # "idle") ~> (pc[p] = "idle")

With(t, k) == {n \in Chain(<<t, Bucket(k)>>) : key[n] = k}

\* The tables as maps.
Contents == [t \in Minors |-> [k \in Keys |->
                IF With(t, k) = {} THEN NoData ELSE data[CHOOSE n \in With(t, k) : TRUE]]]

Map == INSTANCE KeyValueMap WITH Tables <- Minors, Absent <- NoData, map <- Contents

\* A program that makes one call at a time finds a pair of maps in the driver:
\* each call changes one key at one moment, and a read answers what the table
\* holds.
MapImplemented == Map!MapSpec

\* A call that changes a table has done so by the time it returns.
CallsTakeEffect ==
    [][\A p \in Procs :
         /\ Finish(p) /\ job[p].op = "delete" => With(job[p].place[1], job[p].key) = {}
         /\ Finish(p) /\ job[p].op = "write" /\ pc'[p] = "idle" =>
               Contents[job[p].place[1]][job[p].key] = job[p].data
         /\ Publish(p) =>
               Contents'[job[p].place[1]][job[p].key] = job[p].data]_vars

\* No key is twice in a table, so that one hash_del is enough to delete it
\* although the loop of write goes on as if there could be more.
OneNodePerKey == \A t \in Minors, k \in Keys : Cardinality(With(t, k)) <= 1

\* In a bucket no key is twice, and between calls the buckets are doubly linked
\* lists of nodes not yet freed.
ListsSound ==
    /\ OneNodePerKey
    /\ Quiet => \A x \in Places : \A n \in Chain(x) :
                    /\ n \in live \cap linked
                    /\ IF pprev[n] = Null THEN head[x] = n
                       ELSE pprev[n] \in Chain(x) /\ next[pprev[n]] = n

\* A call works on the table of the file it was made on: Main.c:236 prints
\* "IOCTL: HASH TABLE 1" over a dump made on the file of ht530-1.
FileIsolation == \A p \in Procs : pc[p] # "idle" => job[p].place[1] = job[p].file[2]
=============================================================================
