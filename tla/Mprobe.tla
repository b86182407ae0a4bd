------------------------------- MODULE Mprobe -------------------------------
(***************************************************************************)
(* The module Mprobe.c: one user program plants a probe in the write of    *)
(* the hash table driver and reads what the probe saw out of a ring        *)
(* buffer.  The handler runs in whoever executes the probed instruction,   *)
(* one at a time (the test program writes under a mutex), and beside the   *)
(* calls of the user program.  Both reach the ring through the global      *)
(* mprobe_output, which every mention of it loads anew.                    *)
(*                                                                         *)
(* A record has an address, a time, a pid and a value, but the handler     *)
(* copies as many bytes as a pointer has: only the address, which is the   *)
(* first field, gets into the slot.  The other fields of a slot are never  *)
(* written by anyone, and a slot is its address here.                      *)
(***************************************************************************)
EXTENDS Integers, Sequences, FiniteSets

CONSTANTS Size,        \* SIZE_OF_BUFFER
          MaxFiles,    \* files open at a time
          MaxCalls,    \* calls made (a bound of the model)
          MaxHits      \* probe hits (a bound of the model)

ASSUME MprobeAssumption == Size \in Nat /\ Size > 1 /\ MaxFiles \in Nat
                           /\ MaxCalls \in Nat /\ MaxHits \in Nat

VARIABLES
    loaded,        \* the module is in the kernel
    files,         \* open files
    call, pc,      \* the call under way and the next step of it
    hpc, hit,      \* where the handler is, and the probe that called it
    ring,          \* what mprobe_output points to, see Rings
    head, tail, count, loss,   \* the ring buffer
    slots,         \* kprobe_addr of each slot: a probe for its address, 0 if unset
    kp,            \* the probe kp points to, 0 for NULL
    probes,        \* kprobe structures allocated
    planted,       \* those registered
    seen, taken,   \* history: the probes stored in this ring, and how many reads
    lately,        \* calls and hits so far
    rings,         \* ring buffers allocated
    orderly,       \* the ring never overran and nothing was read that was not new
    reopened,      \* an open was made while another file was open
    overlaid,      \* an open was made while a probe was planted
    stray          \* the handler wrote where no ring buffer is

ringVars == <<head, tail, count, loss, slots, seen, taken, orderly>>
probeVars == <<kp, probes, planted>>
history == <<reopened, overlaid, rings>>
callVars == <<loaded, files, call, pc>>
vars == <<callVars, hpc, hit, ring, ringVars, probeVars, lately, history, stray>>

\* NULL, allocated but not set up, ready, its data freed, all of it freed.
Rings == {"none", "raw", "ready", "bare", "freed"}

Init ==
    /\ loaded = FALSE /\ files = 0 /\ call = "none" /\ pc = "idle"
    /\ hpc = "away" /\ hit = 0 /\ ring = "none"
    /\ head = 0 /\ tail = 0 /\ count = 0 /\ loss = 0
    /\ slots = [i \in 0..(Size - 1) |-> 0]
    /\ kp = 0 /\ probes = {} /\ planted = {}
    /\ seen = <<>> /\ taken = 0 /\ lately = [calls |-> 0, hits |-> 0]
    /\ rings = 0 /\ orderly = TRUE /\ reopened = FALSE /\ overlaid = FALSE /\ stray = FALSE

\* A faulty variant: the index does not wrap around.
AfterUnwrapped(i) == i + 1

After(i) == (i + 1) % Size
stored == Len(seen)
Unread == stored - taken

-----------------------------------------------------------------------------
(* The pre-handler.  It dies on a NULL pointer; through a pointer to freed  *)
(* or unset memory it finds anything and writes anywhere.  After it has died *)
(* the only processor counts as inside a probe, and further hits are passed  *)
(* over.                                                                    *)

Hit ==
    /\ hpc = "away" /\ lately.hits < MaxHits
    /\ hit' \in planted
    /\ lately' = [lately EXCEPT !.hits = @ + 1]
    /\ hpc' = "test"
    /\ UNCHANGED <<callVars, ring, ringVars, probeVars, history, stray>>

\* Each of the steps below begins with a load of mprobe_output.
Dies ==
    /\ hpc \in {"test", "store", "advance", "tally"}
    /\ ring = "none" \/ ~loaded
    /\ hpc' = "dead"
    /\ UNCHANGED <<callVars, hit, ring, ringVars, probeVars, lately, history, stray>>

Astray ==
    /\ loaded /\ ring \in {"raw", "bare", "freed"}
    /\ \/ hpc = "test" /\ hpc' \in {"away", "store"} /\ UNCHANGED stray
       \/ hpc = "store" /\ hpc' = "advance" /\ stray' = TRUE
       \/ hpc = "advance" /\ hpc' = "tally" /\ stray' = TRUE
       \/ hpc = "tally" /\ hpc' = "away" /\ stray' = TRUE
    /\ UNCHANGED <<callVars, hit, ring, ringVars, probeVars, lately, history>>

AtRing(from, to) == loaded /\ ring = "ready" /\ hpc = from /\ hpc' = to

Test ==
    /\ AtRing("test", "store")
    /\ UNCHANGED <<callVars, hit, ring, ringVars, probeVars, lately, history, stray>>

\* A faulty variant: a full ring takes no record.
StoreIfRoom ==
    /\ AtRing("store", IF After(tail) = head THEN "tally" ELSE "advance")
    /\ slots' = [slots EXCEPT ![tail] = hit]
    /\ orderly' = (orderly /\ Unread < Size)
    /\ UNCHANGED <<callVars, hit, ring, head, tail, count, loss, seen, taken, probeVars,
                   lately, history, stray>>

\* sizeof(mprobe_output) is that of a pointer: the address of the probe.
Store ==
    /\ AtRing("store", "advance")
    /\ slots' = [slots EXCEPT ![tail] = hit]
    /\ orderly' = (orderly /\ Unread < Size)
    /\ UNCHANGED <<callVars, hit, ring, head, tail, count, loss, seen, taken, probeVars,
                   lately, history, stray>>

Advance ==
    /\ AtRing("advance", "tally")
    /\ tail' = After(tail) /\ seen' = Append(seen, hit)
    /\ UNCHANGED <<callVars, hit, ring, head, count, loss, slots, taken, orderly, probeVars,
                   lately, history, stray>>

Tally ==
    /\ AtRing("tally", "away")
    /\ IF tail = head THEN loss' = loss + 1 /\ UNCHANGED count
                      ELSE count' = count + 1 /\ UNCHANGED loss
    /\ UNCHANGED <<callVars, hit, ring, head, tail, slots, seen, taken, orderly, probeVars,
                   lately, history, stray>>

Handler == Hit \/ Dies \/ Astray \/ Test \/ Store \/ Advance \/ Tally

-----------------------------------------------------------------------------
(* open, and the module itself.                                             *)

Begin(c, at) ==
    /\ loaded /\ pc = "idle" /\ lately.calls < MaxCalls
    /\ lately' = [lately EXCEPT !.calls = @ + 1]
    /\ call' = c /\ pc' = at

At(from, to) == pc = from /\ pc' = to /\ UNCHANGED <<loaded, files, call>>

\* What kp and mprobe_output pointed to is forgotten.
Open ==
    /\ Begin("open", "allocate") /\ files < MaxFiles
    /\ files' = files + 1
    /\ kp' = 0 /\ ring' = "none"
    /\ reopened' = (reopened \/ files > 0)
    /\ overlaid' = (overlaid \/ planted # {})
    /\ UNCHANGED <<loaded, hpc, hit, ringVars, probes, planted, rings, stray>>

Allocate ==
    /\ At("allocate", "setUp")
    /\ ring' = "raw" /\ rings' = rings + 1
    /\ UNCHANGED <<hpc, hit, ringVars, probeVars, lately, reopened, overlaid, stray>>

\* A handler past its store goes on with the indices of the new ring.
SetUp ==
    /\ At("setUp", "idle") /\ ring' = "ready"
    /\ head' = 0 /\ tail' = 0 /\ count' = 0 /\ loss' = 0
    /\ slots' = [i \in 0..(Size - 1) |-> 0]
    /\ seen' = <<>> /\ taken' = 0
    /\ orderly' = (hpc \in {"away", "test", "store", "dead"})
    /\ UNCHANGED <<hpc, hit, probeVars, lately, history, stray>>

Load ==
    /\ ~loaded /\ loaded' = TRUE
    /\ lately.calls < MaxCalls /\ lately' = [lately EXCEPT !.calls = @ + 1]
    /\ kp' = 0 /\ ring' = "none"
    /\ UNCHANGED <<files, call, pc, hpc, hit, ringVars, probes, planted, history, stray>>

\* rmmod waits for the files, and for no probe.
Unload ==
    /\ loaded /\ loaded' = FALSE /\ files = 0 /\ pc = "idle"
    /\ UNCHANGED <<files, call, pc, hpc, hit, ring, ringVars, probeVars, lately, history, stray>>

-----------------------------------------------------------------------------
(* release, ioctl and write begin with the same lines: ring and probe go.   *)

Drops == {"release", "unregister", "write"}

Drop ==
    /\ files > 0
    /\ \E c \in Drops : Begin(c, IF ring # "none" THEN "freeData" ELSE "disarm")
    /\ UNCHANGED <<loaded, files, hpc, hit, ring, ringVars, probeVars, history, stray>>

FreeData ==
    /\ At("freeData", "freeRing") /\ ring' = "bare"
    /\ UNCHANGED <<hpc, hit, ringVars, probeVars, lately, history, stray>>

FreeRing ==
    /\ At("freeRing", "forgetRing") /\ ring' = "freed" /\ rings' = rings - 1
    /\ UNCHANGED <<hpc, hit, ringVars, probeVars, lately, reopened, overlaid, stray>>

\* A faulty variant: the pointer to the freed ring stays.
KeepRing ==
    /\ At("forgetRing", "disarm")
    /\ UNCHANGED <<hpc, hit, ring, ringVars, probeVars, lately, history, stray>>

ForgetRing ==
    /\ At("forgetRing", "disarm") /\ ring' = "none"
    /\ UNCHANGED <<hpc, hit, ringVars, probeVars, lately, history, stray>>

\* A faulty variant: the probe is freed and not unregistered.
ForgetToDisarm ==
    /\ At("disarm", IF kp = 0 THEN "dropped" ELSE "await")
    /\ UNCHANGED <<hpc, hit, ring, ringVars, probeVars, lately, history, stray>>

Disarm ==
    /\ At("disarm", IF kp = 0 THEN "dropped" ELSE "await")
    /\ planted' = planted \ {kp}
    /\ UNCHANGED <<hpc, hit, ring, ringVars, kp, probes, lately, history, stray>>

\* unregister_kprobe returns when no handler runs any more.
Await ==
    /\ At("await", "dropped") /\ hpc \in {"away", "dead"}
    /\ probes' = probes \ {kp} /\ kp' = 0
    /\ UNCHANGED <<hpc, hit, ring, ringVars, planted, lately, history, stray>>

Dropped ==
    /\ pc = "dropped"
    /\ pc' = IF call = "write" THEN "plant" ELSE "idle"
    /\ files' = IF call = "release" THEN files - 1 ELSE files
    /\ UNCHANGED <<loaded, call, hpc, hit, ring, ringVars, probeVars, lately, history, stray>>

\* The rest of write: a new probe, the least that is free.  The call returns
\* 0 also when the probe was not registered.
Plant ==
    /\ At("plant", "idle")
    /\ \E p \in (1..(MaxCalls + 1)) \ probes :
          /\ 1..(p - 1) \subseteq probes
          /\ kp' = p /\ probes' = probes \cup {p}
          /\ planted' \in {planted, planted \cup {p}}
    /\ UNCHANGED <<hpc, hit, ring, ringVars, lately, history, stray>>

-----------------------------------------------------------------------------
(* read.                                                                    *)

\* Refused: no ring, no record counted, or the copy fails.
ReadFails ==
    /\ files > 0 /\ Begin("read", "idle")
    /\ UNCHANGED <<loaded, files, hpc, hit, ring, ringVars, probeVars, history, stray>>

Read ==
    /\ files > 0 /\ Begin("read", "advanceHead")
    /\ ring # "none" /\ count >= 1
    /\ orderly' = (orderly /\ Unread > 0)
    /\ UNCHANGED <<loaded, files, hpc, hit, ring, head, tail, count, loss, slots, seen, taken,
                   probeVars, history, stray>>

AdvanceHead ==
    /\ At("advanceHead", "idle")
    /\ head' = After(head) /\ taken' = taken + 1
    /\ UNCHANGED <<hpc, hit, ring, tail, count, loss, slots, seen, orderly, probeVars, lately,
                   history, stray>>

Caller ==
    \/ Open \/ Allocate \/ SetUp \/ Load \/ Unload
    \/ Drop \/ FreeData \/ FreeRing \/ ForgetRing \/ Disarm \/ Await \/ Dropped \/ Plant
    \/ ReadFails \/ Read \/ AdvanceHead

Stopped == pc = "idle" /\ hpc \in {"away", "dead"} /\ UNCHANGED vars

Next == Caller \/ Handler \/ Stopped
Spec == Init /\ [][Next]_vars

-----------------------------------------------------------------------------
(* Properties.                                                              *)

TypeOK ==
    /\ loaded \in BOOLEAN /\ files \in 0..MaxFiles
    /\ call \in Drops \cup {"none", "open", "read"}
    /\ pc \in {"idle", "allocate", "setUp", "freeData", "freeRing", "forgetRing", "disarm",
               "await", "dropped", "plant", "advanceHead"}
    /\ hpc \in {"away", "test", "store", "advance", "tally", "dead"}
    /\ ring \in Rings
    /\ head \in 0..(Size - 1) /\ tail \in 0..(Size - 1)
    /\ count \in Nat /\ loss \in Nat /\ slots \in [0..(Size - 1) -> 0..(MaxCalls + 1)]
    /\ {kp, hit} \subseteq 0..(MaxCalls + 1) /\ probes \subseteq 1..(MaxCalls + 1)
    /\ planted \subseteq 1..(MaxCalls + 1)
    /\ seen \in Seq(0..(MaxCalls + 1)) /\ taken \in Nat /\ rings \in Int
    /\ lately \in [calls : 0..MaxCalls, hits : 0..MaxHits]
    /\ {orderly, reopened, overlaid, stray} \subseteq BOOLEAN

\* The kernel never calls a probe whose structure is freed: whatever files
\* are opened, an armed kprobe (Mprobe.c:170, 208, 246) is disarmed before
\* its kfree, although open forgets kp and write replaces it.
PlantedIsAllocated == planted \subseteq probes

\* A probe that is planted while one file is used writes into no memory but
\* the ring's: write frees the ring and only then plants, so a hit finds NULL
\* (Mprobe.c:112) and dies, and does not store through a pointer to freed
\* memory.  Only an open over a planted probe (138) gives it a ring again,
\* which the next write, ioctl or release frees while the probe can be hit.
StraysOnlyIfOverlaid == stray => overlaid

\* After the last release nothing is left in the kernel, neither a ring, a
\* probe nor its structure, and the module can go, if files were not open at
\* the same time; the second open forgets what belongs to the first.
CleanClose ==
    files = 0 /\ pc = "idle" /\ ~reopened =>
        ring = "none" /\ rings = 0 /\ probes = {} /\ planted = {} /\ kp = 0

\* While the ring did not overrun and only new records were read, the slots
\* still to be read hold from head on the addresses of the probes that were hit
\* last, in that order and whichever probes they were (Mprobe.c:115-117, 189);
\* read does not refuse them (180); and each hit was counted once, as stored or
\* as lost.  Of time, pid and value it says nothing: they are not copied (115).
UnreadKept ==
    ring = "ready" /\ orderly =>
        /\ \A i \in 0..(Unread - 1) : slots[(head + i) % Size] = seen[taken + i + 1]
        /\ hpc # "tally" => count + loss = stored /\ (Unread > 0 => count >= 1)
=============================================================================
