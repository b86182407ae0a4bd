---------------------------- MODULE KprobeTester ----------------------------
(***************************************************************************)
(* The test program of the Kprobe directory: the one of the hash table     *)
(* with a third device, /dev/Mprobe, and a first thread that makes one     *)
(* write on it.  That write plants a probe in the write of the hash table  *)
(* driver, which the other threads then hit while they hold the mutex.     *)
(***************************************************************************)
EXTENDS HashTester

CONSTANTS RingSize   \* SIZE_OF_BUFFER

VARIABLES
    kprobeStep,   \* the kprobe thread and its file: "open", "write", "ended", "closed"
    trapped,      \* the thread the handler runs in, or Nobody
    \* the variables of Mprobe
    loaded, files, call, mpc, hpc, hit, ring, mhead, tail, count, loss, slots, kp, probes, planted,
    seen, taken, lately, rings, orderly, reopened, overlaid, stray

\* The program makes three calls on the device, with insmod four, and as many
\* writes on the tables as MaxHits says.
M == INSTANCE Mprobe WITH
        Size <- RingSize, MaxFiles <- 1, MaxCalls <- 4,
        MaxHits <- MaxData + MaxOps + 2 * Cardinality(Threads),
        pc <- mpc, head <- mhead

mprobeVars == <<loaded, files, call, mpc, hpc, hit, ring, mhead, tail, count, loss, slots, kp,
                probes, planted, seen, taken, lately, rings, orderly, reopened,
                overlaid, stray>>
kprobeVars == <<kprobeStep, trapped, mprobeVars>>
programVars == <<allVars, kprobeVars>>

KprobeInit ==
    /\ TesterInit /\ M!Init
    /\ kprobeStep = "load" /\ trapped = Nobody

KprobeStage(from, to) == kprobeStep = from /\ kprobeStep' = to

-----------------------------------------------------------------------------
(* /dev/Mprobe in main and in the kprobe thread.                            *)

InsertMprobe ==
    /\ KprobeStage("load", "open") /\ M!Load
    /\ UNCHANGED <<allVars, trapped>>

\* main opens it after the tables, and then starts the threads.
OpenMprobe ==
    /\ stage = "join" /\ KprobeStage("open", "write") /\ M!Open
    /\ UNCHANGED <<allVars, trapped>>

KprobeThread ==
    /\ mpc = "idle" /\ KprobeStage("write", "ended")
    /\ M!Drop /\ call' = "write"
    /\ UNCHANGED <<allVars, trapped>>

\* The thread is joined when its write has returned; main closes the file last.
CloseMprobe ==
    /\ stage = "done" /\ KprobeStage("ended", "closed")
    /\ M!Drop /\ call' = "release"
    /\ UNCHANGED <<allVars, trapped>>

InMprobe ==
    /\ \/ M!Allocate \/ M!SetUp \/ M!FreeData \/ M!FreeRing \/ M!ForgetRing
       \/ M!Disarm \/ M!Await \/ M!Dropped \/ M!Plant
    /\ UNCHANGED <<allVars, kprobeStep, trapped>>

-----------------------------------------------------------------------------
(* The probe in the threads.                                                *)

\* The probed instruction is one of those a write may execute.
HitBy(t) ==
    /\ trapped = Nobody /\ trapped' = t
    /\ pc[t] \in {"visit", "finish", "link"} /\ job[t].op \in {"write", "delete"}
    /\ M!Hit
    /\ UNCHANGED <<allVars, kprobeStep>>

\* A thread whose handler has died is gone, with what it holds.
InHandler ==
    /\ M!Dies \/ M!Astray \/ M!Test \/ M!Store \/ M!Advance \/ M!Tally
    /\ trapped' = IF hpc' = "away" THEN Nobody ELSE trapped
    /\ UNCHANGED <<allVars, kprobeStep>>

Started == kprobeStep \in {"write", "ended"} /\ (kprobeStep = "write" => mpc = "idle")

Running(t) == Started /\ trapped # t /\ ThreadStep(t) /\ UNCHANGED kprobeVars

MainRuns ==
    /\ Started /\ (stage = "join" => kprobeStep = "ended" /\ mpc = "idle")
    /\ MainStep \/ InDriver(Main)
    /\ UNCHANGED kprobeVars

MainOpens == stage \in {"open1", "open2"} /\ MainStep /\ UNCHANGED kprobeVars

KprobeNext ==
    \/ InsertMprobe \/ OpenMprobe \/ KprobeThread \/ CloseMprobe \/ InMprobe
    \/ MainOpens \/ MainRuns \/ InHandler
    \/ \E t \in Threads : Running(t) \/ HitBy(t)

\* Everything that can go on does; whether a write executes the probed
\* instruction is up to its position.
KprobeSpec ==
    /\ KprobeInit /\ [][KprobeNext]_programVars
    /\ WF_programVars(InsertMprobe) /\ WF_programVars(OpenMprobe)
    /\ WF_programVars(KprobeThread) /\ WF_programVars(CloseMprobe)
    /\ WF_programVars(InMprobe) /\ WF_programVars(InHandler)
    /\ WF_programVars(MainOpens \/ MainRuns)
    /\ \A t \in Threads : WF_programVars(Running(t))

-----------------------------------------------------------------------------
(* Properties.                                                              *)

\* All threads are joined and the probe is removed with its file: Main.c:255
\* "JOIN - WAITING TO END".
ProbedProgramEnds == <>(kprobeStep = "closed" /\ mpc = "idle")
=============================================================================
