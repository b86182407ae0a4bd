--------------------------- MODULE PlatformDriver ---------------------------
(***************************************************************************)
(* The platform edition of the sensor: platform_device.c brings devices,   *)
(* platform_driver.c brings the driver, either module may be loaded first  *)
(* and each may go before the other.  A shell loads and unloads them;      *)
(* meanwhile users open the devices' files, and anybody may use their      *)
(* sysfs attributes.  Kernel threads measure, interrupts come.             *)
(*                                                                         *)
(* The module is about what outlives what.  A module is loaded device by   *)
(* device, in several steps.  A call of a user is one step, but where two  *)
(* calls can meet with lasting effect: a release is two, before and after  *)
(* it has forgotten whose the last pin was (410), and two writes can pass  *)
(* one test of measurement_in_progress.  HcsrDriver and HcsrPins take the  *)
(* same functions of the first edition further apart.  Where the code uses *)
(* what is gone, the model notes the kind of fault and ends there.         *)
(*                                                                         *)
(* Left out: what the buffers hold and what irq_handler sums (both as in   *)
(* the first edition, see HcsrFifo and HcsrSampling), a kthread_run that   *)
(* fails, a kthread_stop (951) that comes just after its thread has ended  *)
(* (HcsrDriver has it), two releases beyond 949 at once, and numbers of    *)
(* pins the board does not have in sysfs stores.                           *)
(***************************************************************************)
EXTENDS Integers, FiniteSets

CONSTANTS Devices,    \* the platform devices, HCSR_0, HCSR_1, ...
          Pins,       \* the shield pins used
          Workers,    \* threads of hcsr04_thread_write
          MaxInt,     \* the largest int
          MaxFiles,   \* files open on a device
          MaxCalls,   \* calls of users and insmods (a bound of the model)
          Nobody, Gone

ASSUME PlatformAssumption ==
    /\ IsFiniteSet(Devices) /\ Pins \subseteq 0..13 /\ MaxFiles \in Nat
    /\ MaxInt \in Nat /\ MaxInt >= 3
    /\ Nobody \notin Devices /\ Gone \notin Devices /\ Nobody # Gone

VARIABLES
    driver,       \* platform_driver is loaded
    plugged,      \* devices on the platform bus
    bound,        \* devices probe has accepted
    shell,        \* what insmod or rmmod is at
    first, found, \* first, device_found
    class,        \* "none", "live" or "gone"
    attrs,        \* devices with a directory in sysfs, and an hcsr04_device
    old,          \* those that an earlier load of the driver left there
    listed,       \* devices with a misc device and a place in the list
    opened,       \* files on a device
    stale,        \* files on a device whose structure was freed
    closing,      \* the release between 409 and 410, and its last pin
    tasks,        \* devices whose tsk is a thread, not the memory of line 188
    measuring,    \* measurement_in_progress
    locked,       \* devices whose buffer_lock is held
    samples, total,   \* m; total_samples is not zero
    pinsSet, paramsSet,   \* are_pins_configured, are_m_delta_configured
    irqNo,        \* the echo pin of irq_no
    configured,   \* the device a pin is configured for; Gone: for none
    freedPins,    \* pins whose list node was freed
    taken,        \* GPIOs requested through the pin list
    exported,     \* GPIOs requested through sysfs
    claimed,      \* the device an echo pin's interrupt goes to
    worker,       \* what each thread is at
    faults,       \* kinds of use of what is gone, so far
    history,      \* what users and the shell did, so far
    calls         \* calls of users and insmods so far

moduleVars == <<driver, plugged, bound, shell, first, found, class>>
deviceVars == <<attrs, old, listed, opened, stale, closing>>
settings == <<measuring, samples, total, pinsSet, paramsSet, irqNo>>
pinVars == <<configured, freedPins, taken, exported, claimed>>
vars == <<moduleVars, deviceVars, settings, tasks, locked, pinVars, worker, faults, history, calls>>

NoValue == -1
Resting == [op |-> "none", left |-> {}, dev |-> Nobody, step |-> "next"]
Idle == [at |-> "idle", dev |-> Nobody]
Closed == [dev |-> Nobody, pin |-> NoValue]

\* The GPIOs of a pin: the Linux pin, level shifter and multiplexers of the
\* list, and the column of gpio_ctrl that the sysfs attributes use.
ListGpios == [p \in 0..13 |->
    CASE p = 0 -> {11, 32} [] p = 1 -> {12, 28, 45} [] p = 2 -> {61, 77} [] p = 3 -> {62, 76, 64}
      [] p = 4 -> {6, 36} [] p = 5 -> {0, 18, 66} [] p = 6 -> {1, 20, 68} [] p = 7 -> {38}
      [] p = 8 -> {40} [] p = 9 -> {4, 22, 70} [] p = 10 -> {10, 26, 74}
      [] p = 11 -> {5, 24, 44, 72} [] p = 12 -> {15, 42} [] p = 13 -> {7, 30, 46}]
CtrlGpios == [ListGpios EXCEPT ![2] = {34, 77, 13}, ![3] = {16, 76, 64, 14}]
EchoPins == {p \in Pins : p \notin {0, 1, 7, 8, 10, 12, 13}}

Init ==
    /\ driver = FALSE /\ plugged = {} /\ bound = {} /\ shell = Resting
    /\ first = TRUE /\ found = 0 /\ class = "none"
    /\ attrs = {} /\ old = {} /\ listed = {} /\ closing = Closed /\ tasks = {}
    /\ opened = [d \in Devices |-> 0] /\ stale = [d \in Devices |-> 0]
    /\ measuring = {} /\ locked = {}
    /\ samples = [d \in Devices |-> NoValue] /\ total = {}
    /\ pinsSet = {} /\ paramsSet = {} /\ irqNo = [d \in Devices |-> NoValue]
    /\ configured = [p \in Pins |-> Nobody] /\ freedPins = {}
    /\ taken = {} /\ exported = {} /\ claimed = [p \in Pins |-> Nobody]
    /\ worker = [w \in Workers |-> Idle]
    /\ faults = {} /\ history = {} /\ calls = 0

Fault(kinds) == faults' = faults \cup kinds
If(condition, set) == IF condition THEN set ELSE {}

\* The part of initialize_device that later calls can tell: also the lock is
\* made anew, irq_no forgotten, and tsk points to memory of the driver's own.
Initialize(d) ==
    /\ measuring' = measuring \ {d} /\ locked' = locked \ {d} /\ tasks' = tasks \ {d}
    /\ samples' = [samples EXCEPT ![d] = NoValue] /\ total' = total \ {d}
    /\ pinsSet' = pinsSet \ {d} /\ paramsSet' = paramsSet \ {d}
    /\ irqNo' = [irqNo EXCEPT ![d] = NoValue]

-----------------------------------------------------------------------------
(* The shell.  insmod and rmmod go from device to device.                   *)

Call == calls < MaxCalls /\ calls' = calls + 1

Command(op, set) ==
    /\ shell = Resting
    /\ shell' = [Resting EXCEPT !.op = op, !.left = set]

InsmodDriver ==
    /\ Call /\ ~driver
    /\ Command("insmod driver", plugged)
    /\ driver' = TRUE /\ first' = TRUE /\ found' = 0 /\ class' = "none"
    /\ configured' = [p \in Pins |-> Nobody] /\ freedPins' = {}
    /\ UNCHANGED <<plugged, bound, deviceVars, settings, tasks, locked, taken, exported, claimed, worker,
                   faults, history>>

InsmodDevice ==
    /\ Call /\ plugged = {}
    /\ Command("insmod device", Devices)
    /\ UNCHANGED <<driver, plugged, bound, first, found, class, deviceVars, settings, tasks, locked,
                   pinVars, worker, faults, history>>

\* An open file keeps the driver (fops.owner), and nothing keeps the devices.
Rmmod ==
    /\ \/ /\ driver /\ \A d \in Devices : opened[d] + stale[d] = 0
          /\ Command("rmmod driver", bound)
       \/ plugged # {} /\ Command("rmmod device", plugged)
    /\ UNCHANGED <<driver, plugged, bound, first, found, class, deviceVars, settings, tasks, locked,
                   pinVars, worker, faults, history, calls>>

\* What is done to a device first, as far as this command does it.
StepOf(op, d) ==
    CASE op = "insmod device" -> IF driver THEN "class" ELSE "next"
      [] op = "insmod driver" -> "class"
      [] op = "rmmod device" -> IF d \in bound THEN "destroy" ELSE "next"
      [] op = "rmmod driver" -> "destroy"

NextDevice ==
    /\ shell.op # "none" /\ shell.step = "next"
    /\ \E d \in shell.left :
          /\ shell' = [shell EXCEPT !.left = @ \ {d}, !.dev = d, !.step = StepOf(shell.op, d)]
          /\ plugged' = CASE shell.op = "insmod device" -> plugged \cup {d}
                          [] shell.op = "rmmod device" -> plugged \ {d}
                          [] OTHER -> plugged
    /\ UNCHANGED <<driver, bound, first, found, class, deviceVars, settings, tasks, locked, pinVars, worker,
                   faults, history, calls>>

\* With the driver's text go the functions of the directories that are left, and
\* the code under the threads that still run.
CommandDone ==
    /\ shell.op # "none" /\ shell.step = "next" /\ shell.left = {}
    /\ shell' = Resting
    /\ driver' = (driver /\ shell.op # "rmmod driver")
    /\ IF shell.op = "rmmod driver"
       THEN /\ old' = attrs
            /\ worker' = [w \in Workers |-> IF worker[w].at = "idle" THEN Idle
                                             ELSE [worker[w] EXCEPT !.dev = Gone]]
       ELSE UNCHANGED <<old, worker>>
    /\ UNCHANGED <<plugged, bound, first, found, class, attrs, listed, opened, stale, closing,
                   settings, tasks, locked, pinVars, faults, history, calls>>

At(from, to) == shell.step = from /\ shell' = [shell EXCEPT !.step = to]

\* Pdriver_probe.  The lists are made with the class, the first time.
ProbeClass ==
    /\ At("class", "directory")
    /\ found' = found + 1 /\ first' = FALSE
    /\ class' = IF first THEN "live" ELSE class
    /\ UNCHANGED <<driver, plugged, bound, deviceVars, settings, tasks, locked, pinVars, worker, faults,
                   history, calls>>

\* device_create, in a class that may be gone; an error pointer (a directory
\* of that name is still there) is not NULL, and device_create_file dies of it.
ProbeDirectory ==
    /\ At("directory", "register")
    /\ LET d == shell.dev IN
          /\ Fault(If(class # "live", {"class"}) \cup If(d \in attrs, {"directory"}))
          /\ attrs' = attrs \cup {d}
          /\ Initialize(d)
    /\ UNCHANGED <<driver, plugged, bound, first, found, class, old, listed, opened, stale, closing,
                   pinVars, worker, history, calls>>

\* misc_register and list_add, as one step; if the first fails, probe succeeds all the same.
ProbeRegister ==
    /\ At("register", "next")
    /\ \/ listed' = listed \cup {shell.dev} /\ UNCHANGED history
       \/ UNCHANGED listed /\ history' = history \cup {"unlisted"}
    /\ bound' = bound \cup {shell.dev}
    /\ UNCHANGED <<driver, plugged, first, found, class, attrs, old, opened, stale, closing,
                   settings, tasks, locked, pinVars, worker, faults, calls>>

\* What a removal is remembered by.
FilesOpen == If(\E d \in Devices : opened[d] > 0, {"unplugged"})

\* A faulty variant: the directory in sysfs stays.
DirectoryStays(freed) == attrs' = attrs

DestroyDirectory(freed) == attrs' = attrs \ freed

\* hcsr04_exit: a device of the list is taken out and freed under its files,
\* threads and interrupts; one that is not in the list stays as it is.  What
\* tsk points to is freed too, though it may be a thread's own structure.
RemoveDevice ==
    /\ At("destroy", "pins")
    /\ LET d == shell.dev
           freed == listed \cap {d}
       IN  /\ DestroyDirectory(freed) /\ listed' = listed \ freed
           /\ opened' = [e \in Devices |-> IF e \in freed THEN 0 ELSE opened[e]]
           /\ stale' = [e \in Devices |-> IF e \in freed THEN stale[e] + opened[e] ELSE stale[e]]
           /\ closing' = IF closing.dev \in freed THEN Closed ELSE closing
           /\ worker' = [w \in Workers |-> IF worker[w].dev \in freed
                                           THEN [worker[w] EXCEPT !.dev = Gone] ELSE worker[w]]
           /\ claimed' = [p \in Pins |-> IF claimed[p] \in freed THEN Gone ELSE claimed[p]]
           /\ bound' = bound \ {d}
           /\ Fault(If(freed \cap tasks # {}, {"task"}))
           /\ history' = history \cup FilesOpen
    /\ UNCHANGED <<driver, plugged, first, found, class, old, settings, tasks, locked, configured,
                   freedPins, taken, exported, calls>>

\* release_gpio_pins(NULL): the node of a configured pin is freed where it is
\* in the list, and the walk goes on through it.  With the last device the class
\* goes.  It is unregistered and then destroyed, which uses it once more after
\* it is freed (1364, 1365); that is so at every last removal and not noted as a
\* fault, or nothing after it would be seen.
RemovePins ==
    /\ At("pins", "next")
    /\ LET used == {p \in Pins : configured[p] # Nobody} IN
          /\ taken' = taken \ UNION {ListGpios[p] : p \in used}
          /\ configured' = [p \in Pins |-> Nobody]
          /\ freedPins' = freedPins \cup used
          /\ Fault(If(freedPins \cup used # {}, {"pins"}))
    /\ found' = found - 1
    /\ class' = IF found = 1 THEN "gone" ELSE class
    /\ history' = history \cup If(found = 1, {"emptied"}) \cup FilesOpen
    /\ UNCHANGED <<driver, plugged, bound, first, deviceVars, settings, tasks, locked, exported, claimed,
                   worker, calls>>

Shell == \/ InsmodDriver \/ InsmodDevice \/ Rmmod \/ NextDevice \/ CommandDone
         \/ ProbeClass \/ ProbeDirectory \/ ProbeRegister \/ RemoveDevice \/ RemovePins

-----------------------------------------------------------------------------
(* The device files.                                                        *)

\* A file of the device that is not being released.
HasFile(d) == opened[d] > 1 \/ (opened[d] = 1 /\ closing.dev # d)

Open(d) ==
    /\ Call /\ d \in listed /\ opened[d] < MaxFiles /\ shell.op # "rmmod driver"
    /\ opened' = [opened EXCEPT ![d] = @ + 1]
    /\ Initialize(d)
    /\ history' = history \cup If(opened[d] > 0, {"reopened"})
                          \cup If(\E w \in Workers : worker[w].dev = d, {"reset"})
    /\ UNCHANGED <<moduleVars, attrs, old, listed, stale, closing, pinVars, worker, faults>>

\* A call on a file whose device was freed, or what is left of a release of it.
UseStale(d) ==
    /\ Call /\ stale[d] > 0
    /\ stale' = [stale EXCEPT ![d] = @ - 1] /\ Fault({"file"})
    /\ UNCHANGED <<moduleVars, attrs, old, listed, opened, closing, settings, tasks, locked, pinVars, worker,
                   history>>

\* A faulty variant: the GPIOs taken before the one that fails are kept.
AttachKeeping(s, d, p, echo) ==
    LET new == s.configured[p] = Nobody
        fits == new => ListGpios[p] \cap (s.taken \cup exported) = {}
        t == IF new THEN [s EXCEPT !.taken = @ \cup (ListGpios[p] \ exported),
                                   !.configured[p] = IF fits THEN d ELSE Nobody] ELSE s
    IN  IF ~s.ok THEN s
        ELSE IF ~fits THEN [t EXCEPT !.ok = FALSE]
        ELSE IF p # echo THEN t
        ELSE IF t.claimed[p] # Nobody THEN [t EXCEPT !.ok = FALSE]
        ELSE [t EXCEPT !.claimed[p] = d, !.irq = p]

\* configure_pins for one pin: s is what the pins before it left.  A pin that
\* is configured, for whomever, is used as it is.
Attach(s, d, p, echo) ==
    LET new == s.configured[p] = Nobody
        fits == new => ListGpios[p] \cap (s.taken \cup exported) = {}
        t == IF new THEN [s EXCEPT !.taken = @ \cup ListGpios[p], !.configured[p] = d] ELSE s
    IN  IF ~s.ok \/ ~fits THEN [s EXCEPT !.ok = FALSE]
        ELSE IF p # echo THEN t
        ELSE IF t.claimed[p] # Nobody THEN [t EXCEPT !.ok = FALSE]
        ELSE [t EXCEPT !.claimed[p] = d, !.irq = p]

\* The list begins with the highest pin.
AttachBoth(s, d, trigger, echo) ==
    IF trigger > echo THEN Attach(Attach(s, d, trigger, echo), d, echo, echo)
    ELSE IF trigger < echo THEN Attach(Attach(s, d, echo, echo), d, trigger, echo)
    ELSE Attach(s, d, echo, echo)

\* A faulty variant: the interrupt is not freed.
UnclaimNothing(d) == [p \in Pins |-> claimed[p]]

Unclaim(d) == [p \in Pins |-> IF p = irqNo[d] THEN Nobody ELSE claimed[p]]

\* CONFIG_PINS.
ConfigPins(d) ==
    /\ Call /\ HasFile(d)
    /\ \E trigger \in Pins \ {13}, echo \in EchoPins :
          LET s == AttachBoth([configured |-> configured, taken |-> taken, claimed |-> Unclaim(d),
                               irq |-> NoValue, ok |-> TRUE], d, trigger, echo)
          IN  /\ configured' = s.configured /\ taken' = s.taken /\ claimed' = s.claimed
              /\ irqNo' = [irqNo EXCEPT ![d] = s.irq]
              /\ pinsSet' = pinsSet \cup If(s.ok, {d})
    /\ Fault(If(freedPins # {}, {"pins"}))
    /\ UNCHANGED <<moduleVars, deviceVars, measuring, samples, total, paramsSet, tasks, locked, freedPins,
                   exported, worker, history>>

\* int arithmetic of the kernel, which wraps.
Wrap(x) == IF x > MaxInt THEN x - 2 * (MaxInt + 1) ELSE x

\* What m makes of a measurement: samples are taken from 0 up to m + 2.
TakesSamples(m) == Wrap(m + 2) >= 0
TooLarge(m) == m > 0 /\ ~TakesSamples(m)

\* Any positive number is taken for m.
SetParameters(d) ==
    /\ Call /\ HasFile(d)
    /\ \E m \in {1, MaxInt} :
          /\ samples' = [samples EXCEPT ![d] = m] /\ paramsSet' = paramsSet \cup {d}
          /\ history' = history \cup If(TooLarge(m), {"overflow"})
    /\ UNCHANGED <<moduleVars, deviceVars, measuring, total, pinsSet, irqNo, tasks, locked, pinVars,
                   worker, faults>>

\* initiate_measurement; it waits for the lock.
StartThread(d) ==
    /\ d \notin locked
    /\ \E w \in Workers : worker[w] = Idle /\ worker' = [worker EXCEPT ![w] = [at |-> "start", dev |-> d]]
    /\ tasks' = tasks \cup {d}

Write(d) ==
    /\ Call /\ HasFile(d) /\ d \in pinsSet \cap paramsSet /\ d \notin measuring
    /\ measuring' = measuring \cup {d} /\ StartThread(d)
    /\ UNCHANGED <<moduleVars, deviceVars, samples, total, pinsSet, paramsSet, irqNo, locked,
                   pinVars, faults, history>>

\* The later of two writes that both pass the test (876) before either sets
\* measurement_in_progress (884); a file can be written by several threads.
WriteTwice(d) ==
    /\ Call /\ HasFile(d) /\ d \in pinsSet \cap paramsSet /\ d \in measuring
    /\ StartThread(d)
    /\ history' = history \cup {"twice"}
    /\ UNCHANGED <<moduleVars, deviceVars, settings, locked, pinVars, faults>>

\* A read of an empty buffer: measurement_in_progress is not set.
Read(d) ==
    /\ Call /\ HasFile(d) /\ d \in pinsSet \cap paramsSet /\ d \notin measuring
    /\ StartThread(d)
    /\ history' = history \cup {"read"}
    /\ UNCHANGED <<moduleVars, deviceVars, settings, locked, pinVars, faults>>

\* Of a device's pins the one release_gpio_pins comes to last.
LastOf(own) == IF own = {} THEN NoValue ELSE CHOOSE p \in own : \A q \in own : p <= q

\* A release until it has given back the device's last pin (409).  Where a
\* measurement is in progress, kthread_stop returns when the thread has ended,
\* which has cleared the flag by then; a thread that has just cleared it (805)
\* and is leaving is not waited for.
Release(d) ==
    /\ Call /\ HasFile(d) /\ closing = Closed /\ d \notin measuring
    /\ claimed' = Unclaim(d)
    /\ LET own == {p \in Pins : configured[p] = d} IN
          /\ taken' = taken \ UNION {ListGpios[p] : p \in own}
          /\ configured' = [p \in Pins |-> IF p \in own THEN Nobody ELSE configured[p]]
          /\ closing' = [dev |-> d, pin |-> LastOf(own)]
    /\ Fault(If(freedPins # {}, {"pins"}))
    /\ history' = history \cup If([at |-> "leave", dev |-> d] \in {worker[w] : w \in Workers}, {"leaving"})
    /\ UNCHANGED <<moduleVars, attrs, old, listed, opened, stale, settings, tasks, locked, freedPins,
                   exported, worker>>

\* Its rest.  A pin that was configured for somebody in between loses its owner (410).
Released(d) ==
    /\ closing.dev = d
    /\ closing' = Closed /\ opened' = [opened EXCEPT ![d] = @ - 1]
    /\ LET lost == {p \in Pins : p = closing.pin /\ configured[p] # Nobody} IN
          /\ configured' = [p \in Pins |-> IF p \in lost THEN Gone ELSE configured[p]]
          /\ history' = history \cup If(\E w \in Workers : worker[w].dev = d, {"reset"})
                                \cup If(lost # {}, {"overlap"})
    /\ Initialize(d)
    /\ UNCHANGED <<moduleVars, attrs, old, listed, stale, freedPins, taken, exported, claimed,
                   worker, faults, calls>>

-----------------------------------------------------------------------------
(* The sysfs attributes.  They can be used without a file, and as long as   *)
(* their directory is there, even if the driver they are of is not.         *)

Attribute(d) == Call /\ d \in attrs \ old

UseOrphan(d) ==
    /\ Call /\ d \in old /\ Fault({"text"})
    /\ UNCHANGED <<moduleVars, deviceVars, settings, tasks, locked, pinVars, worker, history>>

\* A faulty variant: a GPIO is used whether its request succeeds or not.
PinStoreUnasked(d) ==
    /\ Attribute(d)
    /\ \E p \in Pins : exported' = exported \cup CtrlGpios[p]
    /\ UNCHANGED <<moduleVars, deviceVars, settings, tasks, locked, configured, freedPins, taken, claimed,
                   worker, faults, history>>

\* trigger_pin and echo_pin: each GPIO of the column that is free is taken.
PinStore(d) ==
    /\ Attribute(d)
    /\ \E p \in Pins : exported' = exported \cup (CtrlGpios[p] \ taken)
    /\ UNCHANGED <<moduleVars, deviceVars, settings, tasks, locked, configured, freedPins, taken, claimed,
                   worker, faults, history>>

\* Any number is taken for m; with these two a thread takes no samples.
SamplesStore(d) ==
    /\ Attribute(d)
    /\ \E m \in {-3, MaxInt} :
          /\ samples' = [samples EXCEPT ![d] = m]
          /\ history' = history \cup If(m < -2, {"negative"}) \cup If(TooLarge(m), {"overflow"})
    /\ UNCHANGED <<moduleVars, deviceVars, measuring, total, pinsSet, paramsSet, irqNo, tasks, locked,
                   pinVars, worker, faults>>

\* Nothing need be configured.
Enable(d) ==
    /\ Attribute(d) /\ d \notin measuring
    /\ measuring' = measuring \cup {d} /\ StartThread(d)
    /\ history' = history \cup {"enabled"}
    /\ UNCHANGED <<moduleVars, deviceVars, samples, total, pinsSet, paramsSet, irqNo, locked,
                   pinVars, faults>>

-----------------------------------------------------------------------------
(* Threads and interrupts.                                                  *)

Measure(w) ==
    LET d == worker[w].dev IN
    /\ worker[w].at = "start" /\ d \in Devices /\ d \notin locked
    /\ locked' = locked \cup {d}
    /\ total' = total \cup If(TakesSamples(samples[d]), {d})
    /\ worker' = [worker EXCEPT ![w].at = "average"]
    /\ UNCHANGED <<moduleVars, deviceVars, measuring, samples, pinsSet, paramsSet, irqNo, tasks,
                   pinVars, faults, history, calls>>

\* The mean is stored and measurement_in_progress cleared, under the lock; a
\* thread that divides by zero dies with the lock.
Average(w) ==
    LET d == worker[w].dev IN
    /\ worker[w].at = "average" /\ d \in Devices
    /\ IF d \in total
       THEN /\ measuring' = measuring \ {d}
            /\ worker' = [worker EXCEPT ![w].at = "leave"] /\ UNCHANGED faults
       ELSE /\ Fault({"division"})
            /\ worker' = [worker EXCEPT ![w] = Idle] /\ UNCHANGED measuring
    /\ UNCHANGED <<moduleVars, deviceVars, samples, total, pinsSet, paramsSet, irqNo, tasks, locked,
                   pinVars, history, calls>>

\* spin_unlock, up and do_exit: until then the thread uses its device and the
\* driver's code, and nobody can tell from measurement_in_progress.
Leave(w) ==
    LET d == worker[w].dev IN
    /\ worker[w].at = "leave" /\ d \in Devices
    /\ locked' = locked \ {d}
    /\ worker' = [worker EXCEPT ![w] = Idle]
    /\ UNCHANGED <<moduleVars, deviceVars, settings, tasks, pinVars, faults, history, calls>>

\* The device of a thread is gone, or the code it runs.
Orphan(w) ==
    /\ worker[w].at # "idle"
    /\ worker[w].dev = Gone \/ ~driver
    /\ worker' = [worker EXCEPT ![w] = Idle] /\ Fault({"thread"})
    /\ UNCHANGED <<moduleVars, deviceVars, settings, tasks, locked, pinVars, history, calls>>

\* An edge on a pin whose interrupt was never freed.
Edge(p) ==
    /\ claimed[p] # Nobody /\ (claimed[p] = Gone \/ ~driver)
    /\ Fault({"interrupt"})
    /\ UNCHANGED <<moduleVars, deviceVars, settings, tasks, locked, pinVars, worker, history, calls>>

User(d) == \/ Open(d) \/ UseStale(d) \/ ConfigPins(d) \/ SetParameters(d) \/ Write(d)
           \/ WriteTwice(d) \/ Read(d) \/ Release(d) \/ Released(d) \/ UseOrphan(d) \/ PinStore(d)
           \/ SamplesStore(d) \/ Enable(d)

Thread(w) == Measure(w) \/ Average(w) \/ Leave(w) \/ Orphan(w)

\* After a fault anything may happen, and is not followed.
Stopped == (faults # {} \/ shell = Resting) /\ UNCHANGED vars

Next ==
    \/ /\ faults = {}
       /\ \/ Shell
          \/ \E d \in Devices : User(d)
          \/ \E w \in Workers : Thread(w)
          \/ \E p \in Pins : Edge(p)
    \/ Stopped

Spec == Init /\ [][Next]_vars

-----------------------------------------------------------------------------
(* Properties.                                                              *)

Commands == {"insmod driver", "insmod device", "rmmod driver", "rmmod device"}

TypeOK ==
    /\ driver \in BOOLEAN /\ first \in BOOLEAN /\ found \in 0..Cardinality(Devices)
    /\ plugged \subseteq Devices /\ bound \subseteq Devices
    /\ shell \in [op : Commands \cup {"none"}, left : SUBSET Devices,
                  dev : Devices \cup {Nobody},
                  step : {"next", "class", "directory", "register", "destroy", "pins"}]
    /\ class \in {"none", "live", "gone"}
    /\ attrs \subseteq Devices /\ listed \subseteq attrs /\ old \subseteq Devices
    /\ closing \in [dev : Devices \cup {Nobody}, pin : Pins \cup {NoValue}] /\ tasks \subseteq Devices
    /\ opened \in [Devices -> 0..MaxFiles] /\ stale \in [Devices -> Nat]
    /\ measuring \subseteq Devices /\ locked \subseteq Devices /\ total \subseteq Devices
    /\ samples \in [Devices -> {-3, NoValue, 1, MaxInt}]
    /\ pinsSet \subseteq Devices /\ paramsSet \subseteq Devices
    /\ irqNo \in [Devices -> Pins \cup {NoValue}]
    /\ configured \in [Pins -> Devices \cup {Nobody, Gone}] /\ freedPins \subseteq Pins
    /\ taken \cap exported = {}
    /\ claimed \in [Pins -> Devices \cup {Nobody, Gone}]
    /\ worker \in [Workers -> [at : {"idle", "start", "average", "leave"},
                              dev : Devices \cup {Nobody, Gone}]]

\* The GPIOs requested through the list of pins are those of the pins it has
\* configured, each pin configured for a device somebody has open
\* (platform_driver.c:386, 594): a failing CONFIG_PINS leaves nothing behind, a
\* last close gives back what the first open on took, and a removal that takes
\* a device from under its files goes on to its pins (1350).  Only a pin that
\* was configured between 409 and 410 of a release ("overlap") is nobody's.
PinsAccounted ==
    /\ taken = UNION {ListGpios[p] : p \in {q \in Pins : configured[q] # Nobody}}
    /\ \A p \in Pins : configured[p] \in Devices => opened[configured[p]] > 0 \/ shell.step = "pins"
    /\ (\E p \in Pins : configured[p] = Gone) => "overlap" \in history

\* What the code uses after it is gone, and what must have been done before:
\* files only if a device was unplugged while a file was open (1350), pins also
\* if a pin has lost its owner (410), interrupts if a second open forgot irq_no
\* (190), a thread's structure if the thread was started through sysfs (1172,
\* 1346), threads if nobody waits for them (924, 1172), if one of two writes
\* cleared the flag of both (876), or if a release came between the end of the
\* measurement and that of its thread (805-809); the class only after it was
\* emptied (1289, 1362), directories only after a registration failed (1268).
\* The divisor (803) is zero only if the device was initialised under the
\* thread, m was set below -2, or so high that m + 2 wraps (784, 1008).
FaultsHaveCause ==
    /\ "file" \in faults => "unplugged" \in history
    /\ "pins" \in faults => {"unplugged", "overlap"} \cap history # {}
    /\ "interrupt" \in faults => {"unplugged", "reopened"} \cap history # {}
    /\ "task" \in faults => {"unplugged", "enabled"} \cap history # {}
    /\ "thread" \in faults =>
          {"unplugged", "reopened", "read", "enabled", "twice", "leaving"} \cap history # {}
    /\ "class" \in faults => "emptied" \in history
    /\ {"directory", "text"} \cap faults # {} => "unlisted" \in history
    /\ "division" \in faults => {"reset", "negative", "overflow"} \cap history # {}

\* Once the driver is unloaded nothing of it is left: pins and interrupts are
\* given back, no thread runs and no directory is there, except for what a
\* user did that nobody undoes (see FaultsHaveCause).  The GPIOs of sysfs stay.
UnloadLeavesNothing ==
    ~driver =>
        /\ taken = {} /\ bound = {} /\ listed = {} /\ found = 0
        /\ \A d \in Devices : opened[d] = 0
        /\ {"reopened", "unplugged"} \cap history = {} => \A p \in Pins : claimed[p] = Nobody
        /\ {"reopened", "unplugged", "read", "enabled", "twice", "leaving"} \cap history = {} =>
              \A w \in Workers : worker[w] = Idle
        /\ "unlisted" \notin history => attrs = {}
=============================================================================
