# Specifications and proofs for linux_kernel_programing

The repository is a collection of Linux kernel modules for the Intel Galileo
board: a driver for the HC-SR04 distance sensor (and a second edition of it as
a platform driver), a hash table behind two character devices, a kprobe module,
system calls that plant stack-dumping probes, and two drivers for a WS2812 LED
strip. Each part has a user program that exercises it. Paths below are relative
to `src/`.

Here are TLA+ modules for the parts with a behaviour of their own, TLC configurations that
check them on small instances, and TLAPS proofs, in eight modules, of every safety property
that a passing run checks. `PROJECT.json` lists the runs, the theorems, the lines each
definition models, and for every property a small fault in the model that breaks it.

    tlc -workers 2 -config HcsrDriver.cfg HcsrDriver      # a run
    tlapm HcsrFifo_proofs.tla                             # the proofs of a module

## Inventory

| Part | State | Operations | What is hard |
|------|-------|------------|--------------|
| HC-SR04 driver (`user-space device interface for HC-SR04/HCSR_Driver.c`) | per device: five sample slots and an index, `buffer_lock`, `measurement_in_progress` (mip), the last kernel thread, flags for pins and parameters; for the echoes `irq_edge`, `rising_time`, sums and outliers, semaphore `read_lock`; per module: a table of the Gen2 pins, which of them are configured and by which device | open, two ioctls, write, read, release; a kernel thread per measurement; an interrupt handler | threads, callers and interrupts share all of it; the lock does not cover all of it; edges get lost while interrupts are off; calls fail half way |
| HC-SR04 platform driver and device (`Platform Driver and Device infrastructure for HC-SR04/`) | the same per device, a directory of sysfs attributes, the list of devices, a class made by the first probe; platform_device.c has its own list of devices | insmod and rmmod of both modules, with them probe and remove; sysfs stores, file operations | as above; devices, files, threads, interrupts, attributes and the class end at different times, and an open file holds the driver and not the device |
| Hash table driver (`Hash Table Driver/Hash_Driver.c`) | two tables of hlists, the number of the device opened last | open, write (add, update, delete), read, DUMP, release | no lock; nodes freed and unlinked while lists are walked; one global decides which table |
| Its test program (`Hash Table Driver/Main.c`) | two counters, one mutex | main and N threads | counters tested outside the mutex |
| Mprobe (`Kprobe/Mprobe.c`) | ring buffer, one kprobe | open, write (register), read, ioctl (unregister), release; the probe's handler | the probe fires at any time, in another thread; buffer and probe are replaced one after the other; a second open replaces both |
| Stack dump system calls (`Dynamic Stack Dumping using new syscalls/kernel files/dynamic_dump_stack.c`) | list of probes with owner and mode | insdump, rmdump, removal at exit; the probe's handler | probes outlive or precede their owners |
| WS2812 SPI driver (`SPI based driver for WS2812 LED Strip/spi_driver.c`) | frame, colour of one LED, spin lock, three GPIOs | open, write, RESET, release, load, unload | the lock covers write and nothing else |
| WS2812 bit-banging driver (`Bit Banging Approach to drive WS2812 based LED Strip/ws2812.c`) | the same | the same | the lock covers the transfer and nothing else |
| The rest | none to speak of | the test program of Mprobe (that of the hash table with one thread more), user programs that make a fixed sequence of calls, a copy of the hash table driver, kernel files with a few lines added, a timing experiment, makefiles | real time only |

The parts do not call each other, with one exception: Mprobe puts its probe on
the write operation of the hash table driver. Inside a part everything
interacts through shared memory: callers of the file operations with kernel
threads through `buffer_lock` and mip, kernel threads with the interrupt
handler through `read_lock` and the sums, callers with each other through
globals (`current_dev_no`, `single_led_data`).

What makes each part correct:

* sample buffer: samples come back whole, each once, newest first, and only the
  oldest is lost; this in spite of the wrap-around and of overlapping callers;
* pins: what a device requested it gives back, once, whatever failed; no interrupt
  stays claimed for a closed device;
* measurements: the lock excludes; calls return; a sample lands in the session
  that asked for it; what is averaged are echoes; an interrupt handler never
  waits;
* hash table: two maps; lists stay lists; a reader reads what it wrote;
* test program: bounded overshoot of the counters; it ends;
* LED strip: what the strip shows is what was asked for last, dark when nobody
  uses it; the pins survive RESET;
* platform driver: what is gone is not used; a failing call takes nothing; an
  unloaded driver leaves nothing behind;
* Mprobe: a probe is not freed while it is planted; the handler writes into the
  ring and nowhere else; records come in order; nothing is left after a close;
* stack dumps: a process dumps only what its mode allows.

The hazards, with their lines, are in `PROJECT.json`.

## Modules

    BoundedStack  <--refines--  HcsrFifo  <--refines--  HcsrDriver
                                   ^                        ^
                            HcsrFifo_proofs          HcsrDriver_proofs

    HcsrSampling  <--  HcsrSampling_proofs

    HcsrPins  <--  HcsrPins_proofs

    KeyValueMap  <--refines--  HashTable  <--extends--  HashTester  <--  HashTester_proofs

    HashTester  <--extends--  KprobeTester  --instance-->  Mprobe  <--  Mprobe_proofs

    MCPlatform  --extends-->  PlatformDriver  <--  PlatformDriver_proofs

    Ws2812  <--  Ws2812_proofs

### HcsrFifo, BoundedStack

`HcsrFifo` is `fifoWrite`, `fifoRead` and the loop of `hcsr04_write` that
clears, as single steps over `buffer` and `bufferIndex`. `BoundedStack` is what
they promise: a sequence, newest first, cut at `Size`. The refinement mapping
reads the slots backwards from the index.

### HcsrDriver

One device: its callers (`Procs`), the kernel threads that measure (`Workers`),
and what they share. A step is what nobody can cut in two: taking or leaving
`buffer_lock`, one store or test outside it, and each of the three stores of
`fifoWrite`. `pc[p]` is a caller's position, `wpc[w]` a thread's:

| Code | Actions |
|------|---------|
| `hcsr04_open` | `Open` (with `InitializeDevice`) |
| `CONFIG_PINS`, `SET_PARAMETERS` | `ConfigPins`, `SetParameters` |
| `hcsr04_write` | `Write`, `ClearSlot`, `ClearIndex`, `CheckMip`, `SetMip` |
| `initiate_measurement` | `StartLock`, `StartThread`, `StartFails`, `StartUnlock` |
| `hcsr04_read` | `Read`, `ReadLock`, `ReadSlot`, `ReadEmpty`, `AgainLock`, `ReadAgain` |
| `hcsr04_release` | `Release`, `RelCheck`, `RelStop`, `RelWait`, `RelInit` |
| `hcsr04_thread_write` | `WorkerLock`, `Trigger`, `Average`, `DivideByZero`, `StoreIndex`, `StoreDistance`, `StoreTsc`, `ResetMip`, `WorkerUnlock` |
| `irq_handler` | `Echo`, as far as the rest can tell: `total_samples` leaves zero |

`kthread_stop` (881) of a thread that is still running waits for it (`RelWait`). The thread
may have left through `do_exit` (734) just before: then a structure nobody holds is
used, and the caller goes on or dies (`RelStop`). A failing CONFIG_PINS leaves the
interrupt claimed or not, according to whether the echo pin or the trigger came first (513).

A record's distance and time are both the number of its measurement, so that a
record put together from two is one whose fields differ.

`InitializeDevice` makes the lock free whoever holds it, because the code calls
`spin_lock_init` there. `buffer_lock` itself is taken by its contract, mutual
exclusion. On a kernel built without SMP a spin lock only keeps interrupts and
preemption out; a thread that sleeps while holding it is then not excluded. The
code is written for the contract, and the model says what follows from it.

### HcsrSampling

The loop that triggers the sensor, the sensor, the interrupt line and
`irq_handler`. The thread measures with interrupts off, so an edge can find its
interrupt pending already and be lost, and a handler can run late: it reads the
clock itself (`rdtsc`, 450), when it runs. So a time is the phase of the line in which
the handler ran, counted in edges, and how long after the edge (`Delays`; within a
pulse it is over at the latest when the pulse is). A span from within a pulse to
the pause after it is the pulse's length, less the first delay and more the second. Any
other span contains a pause or more, and may be taken for any distance in `Pauses`: a small
one, because SET_PARAMETERS accepts every positive delta (938), and through the
`(int)` cast (465) also a negative one (`AsInt`). The sum of distances wraps likewise,
which `wrapped` remembers. `Triggers` is m + 2 and may be 0, for an m with which it wraps.
The semaphore counts, and the handler's `down_interruptible` is a guard: a run
that reached it at zero would be a handler asleep, which is
`SemaphoreNeverBlocks`.

`irq_edge` (452) is toggled and never compared with the pin. After an odd number of lost
edges rising and falling are turned around, and pauses are measured as if they were pulses,
until another is lost. `SamplesAreEchoes` says exactly that much: a sample is one whole
pulse if an even number of edges was lost before it and none in it, however short the pauses
are and however late the handler runs; and no time is counted in two samples.

### HcsrPins

The table of Gen2 pins (`configured`, `minor`: `is_pin_configured` and
`device_minor_number`), the pins and interrupt of each device (`trigger`, `echo`,
`irqNo`), and what the kernel keeps: the GPIOs requested, the handler of each
echo pin's interrupt. A step is one call of the GPIO or interrupt core, or one
store of the table:

| Code | Actions |
|------|---------|
| `hcsr04_open`, `hcsr04_release` | `Open`, `Release` |
| `CONFIG_PINS` | `Config`, and for each pin of `configure_pins` `CheckPin`, `Request` or `RequestFails` and `Undo`, `Mark`, `Own`, `AttachTrigger` |
| `configure_interrupt` | `AttachEcho`, `AttachFails` |
| `release_gpio_pins` | `PassPin`, or `FreePin`, `Free`, `Unmark`, `Disown` |
| `hcsr04_init`, `hcsr04_exit` | `Load`, `Unload` |

Each device has one file and one thread, as in Main.c; devices run at the same time. Taking
a pin over from another device is possible, as in the code. `Garbage` is what
`device_minor_number` holds before its first store: in the run the number of a device, or of
none. A release that takes such a number for its own is remembered (`mistaken`), for after
it GPIOs are freed that are not held. `Unload` reads on in list nodes it has freed, so it
may miss all pins but the first.

### HashTable, KeyValueMap, HashTester

`HashTable` is the driver node by node: a step of a call visits one node;
`hash_add` is two steps. `head`, `next` and `pprev` are the pointers, `live`
says what has not been freed, `current` is `MINOR(current_dev_no)`. `VisitDelete`
does what `hash_del` does to the pointers of its neighbours and to its own, in one
step, and the loop goes on from there as the code does. `Release` empties the current
table (332-338) in one step. Neither matters where calls come one at a time (`HashTester`,
`HashFiles`), nor does the second in `HashRace`, whose one file is released when no call is
on it; but `HashRace` does not interleave the stores of a `hash_del` with
another caller's. The tester opens each device once. `KeyValueMap` is a pair of maps.
`HashTester` adds `main` and its threads: `step[t]` and `stage` are their
positions, `mutex` is `common_mutex_lock`.

Nodes that `write` allocates and never links are leaked and appear nowhere, as
no pointer leads to them. Allocation does not fail in the model.

### Mprobe, KprobeTester

`Mprobe` is one user program and the handler of the probe, which runs in whoever
hits it. `ring` says what the global `mprobe_output` points to: nothing, a
structure not filled in yet, a ring, a ring without its data, freed memory.
Every mention of `mprobe_output` in the handler is a load, and a step:

| Code | Actions |
|------|---------|
| `mprobe_pre_handler` | `Hit`, then `Test`, `Store`, `Advance`, `Tally`; with a NULL pointer `Dies`; with one to no ring `Astray` |
| `mprobe_device_open` | `Open`, `Allocate`, `SetUp` |
| `mprobe_device_write` | `Drop`, `FreeData`, `FreeRing`, `ForgetRing`, `Disarm`, `Await`, `Dropped`, `Plant` |
| ioctl (`mprobe_device_unregister`), `mprobe_device_release` | the same without `Plant` |
| `mprobe_device_read` | `ReadFails`, or `Read` and `AdvanceHead` |
| `mprobe_driver_init`, `mprobe_driver_exit` | `Load`, `Unload` |

`kp` and `probes` are the pointer and the structures allocated, `planted` what
`register_kprobe` has armed: registering may fail, and unregistering waits for a handler
that is running (`Await`). `slots` is what arrives in the ring, and that is only the address
of the probe: line 115 copies `sizeof(mprobe_output)` bytes, the size of a pointer, under
the comment "Storing data in ring buffer" (111). Time stamp, pid and value of the declared
record (57-62; Main.c 31-36 reads the same four fields) are never written in any slot, and
the user reads in their place what the ring's memory held before. So the property about
unread records, `UnreadKept`, is about addresses: probes planted one after the other have
different ones. `seen` (the probes stored in this ring), `taken` and `orderly` (the ring
never overran and nothing was read twice) remember what happened, and are no variables of
the code. When a handler has died, the processor stays inside the kprobe (`current_kprobe`),
and the Galileo has one: a further hit is passed over.

`KprobeTester` puts the program of the directory together: `HashTester` (its
driver and main are the files of the hash table, with one device more) and an
instance of `Mprobe`. `HitBy` is a thread inside `ht530_drv_driver_write` at the
probed instruction; a thread whose handler dies takes the mutex with it.

### PlatformDriver

Both platform modules, their shell and the users of files and of sysfs. The module is about
what outlives what. A user's call is one step, because the same functions are taken
apart in `HcsrDriver` and `HcsrPins`, except where two calls meet with lasting effect:

* a release is two steps, until it has given back its last pin (`Release`, 409) and from
  where it forgets whose that pin was (`Released`, 410; `closing` in between). A CONFIG_PINS of
  another device in between (713, 714) leaves the pin configured for nobody;
* two writes that pass one test of measurement_in_progress (876, 884) are a `Write` and a
  `WriteTwice`;
* a thread is three steps: `Measure` takes the lock and counts samples, `Average` divides,
  stores and clears measurement_in_progress (803-805), `Leave` is what it still has to do
  with device and code after that (unlock, up, do_exit: 807-809). A release in between
  passes its test (949), and nobody waits for the thread any more.

| Code | Actions |
|------|---------|
| insmod and rmmod of platform_device.c, and of the driver | `InsmodDevice`, `InsmodDriver`, `Rmmod`, then for each device `NextDevice`, last `CommandDone` |
| `Pdriver_probe`, `hcsr04_init` | `ProbeClass`, `ProbeDirectory`, `ProbeRegister` |
| `Pdriver_remove`, `hcsr04_exit`, `release_gpio_pins(NULL)` | `RemoveDevice`, `RemovePins` |
| file operations | `Open`, `ConfigPins`, `SetParameters`, `Write`, `WriteTwice`, `Read`, `Release`, `Released`; on a device that is gone `UseStale` |
| sysfs | `PinStore`, `SamplesStore`, `Enable`; in a directory left by an earlier load of the driver `UseOrphan` |
| `hcsr04_thread_write` | `Measure`, `Average`, `Leave`; without device or driver `Orphan` |
| an interrupt on a pin | `Edge`, where its device or the driver is gone |

`attrs`, `old`, `listed`, `bound`, `opened`, `stale` and `plugged` are the lives of a
device: its structure with the sysfs directory, the directory when its functions are gone,
its place in the list with the misc device, probe's acceptance, files on it, files on it
after it was freed, its place on the platform bus. `tasks` says whose `tsk` is a thread and
not the memory that line 188 allocates: removal frees either (1346). `faults` is what was
used after it was gone, and `history` what was done that can lead to that. The model ends at
the first fault: in C anything may follow. `Attach` builds the effect of `configure_pins`
pin by pin, so that a request can fail after others were granted. Any positive number is
taken for m; m + 2 is computed in an `int` that wraps beyond `MaxInt` (`Wrap`), and a loop
up to a negative number takes no sample (`TakesSamples`), after which 803 divides by zero.

Left out are a `kthread_stop` (951) that comes just after its thread has ended (`HcsrDriver` has
it) and two releases beyond line 949 at the same time.

### Ws2812

Both strip drivers. A call is the sequence of its elementary steps (set the shared colour,
copy it into the frame, take the lock, send one LED, free or request one pin), built from
the functions of the driver, and a step takes the first of the sequence. So the two drivers
differ where their code differs: in the order of the steps and in what stands between `lock`
and `unlock`. Loading and unloading is one more actor, because the device can be opened
before the init function is through. The 24 bits of a colour are one store and one transfer.
Any `gpio_request` may fail, because this driver has the pin or, for a pin in `Contested`,
because somebody else has it or its controller refuses: then the SPI driver goes on without
the pin (spi_driver.c:85, ignored at 109 and 339), the other frees those it got before and
leaves the call (ws2812.c:123-149), and both report success. `refused` remembers the pins
last asked for in vain. A frame never drawn is `Blank` for the SPI driver: its zero bytes
are no bits to the strip, which then stays behind by one LED.

LED numbers are those of the strip: the code stores at whatever number the user gives
(spi_driver.c:214, ws2812.c:258), and what that overwrites is not modelled. A transfer
begins at the first LED (`BeginTransfer`), that is, the pause before it is long enough for
the strip to latch; between two transfers that wait for one another ws2812.c makes none
(191-202).

## Runs

| Run | Shows | Instance |
|-----|-------|----------|
| HcsrFifo | the slots are a bounded stack (`ImplementsStack`), because the used ones are one arc (`Contiguous`) | the real five slots, three samples; the state space is complete |
| HcsrDriver | `LockExclusion`; seen through the lock the driver's buffer is `HcsrFifo` (`FifoAtomic`); `CallsReturn`; `MipComesDown` | two callers, three kernel threads, two slots, four calls |
| HcsrSession | samples asked for by write stay in their session, with failing `kthread_run`, pins and echoes | one caller, six calls, with write, clear, release, open |
| HcsrSampling | the handler never waits; a sample is a whole pulse unless an odd number of edges was lost before it or any within it, and samples do not overlap (`SamplesAreEchoes`); a mean lies between accepted distances as long as the sum has not overflowed (`MeanInRange`) | three triggers, two measurements, distances below and above the limit, a handler on time or late, pauses taken for an accepted, a rejected and a negative distance, an `int` of -12 to 11 |
| HcsrPins | nothing is held for a closed device or freed without being held, however calls overlap (`PinsBelong`, `IrqsKnown`, `FreesWhatItHolds`); the flags tell what is requested if they do not (`FlagRightAlone`) | two devices, the pins of Main.c less one, unset owners, any request failing, four calls, module reloaded |
| HashTester | under the tester's mutex the lists are two maps, sound between calls, each thread reads its own write, the counters stay bounded, the program ends | two threads and main, two tables of one bucket for two keys, one round each and what overshoots |
| HashRace | without a mutex nodes get lost, but every call reaches the end of its bucket | two callers, one file, five calls |
| HashFiles | *violated* `FileIsolation`: calls work on the table opened last | two files |
| Mprobe | `PlantedIsAllocated`; the handler strays only where an open overlaid a planted probe (`StraysOnlyIfOverlaid`); `CleanClose`; the addresses not read yet are in the ring, in order, and each hit is counted (`UnreadKept`) | three files, a ring of two slots, eight calls, four hits |
| KprobeTester | *violated* `ProbedProgramEnds`: the first thread to hit the probe dies in the handler, with the mutex | two threads, one table entry each way, the ring of ten |
| Platform | GPIOs are those of configured pins of open devices (`PinsAccounted`); each use of what is gone has one of the causes named (`FaultsHaveCause`); `UnloadLeavesNothing` | two devices, IO2 and IO9, two threads, two files, seven calls and insmods together, 3 as the largest `int` |
| Ws2812 | `ShowsMemory`, `DrawnAsAsked`, `DarkWhenClosed` for both drivers; between calls the SPI driver lacks no pin but those it was refused, the other has all or none (`PinsKept`) | two processes and insmod, two LEDs, four calls, each pin refused or not |

Why the bounds are enough. Two slots wrap, overflow and empty like five (and `HcsrFifo` has
five). Two callers are enough for every pairwise race, and calls enough for each of them to
race with an earlier call's kernel thread and a later call; three threads with two callers
let one measurement run, one wait and one be started. Two measurements in `HcsrSampling`
show what the first leaves to the second; what must hold for any number of them is proved.
The pins of `HcsrPins` have one and three GPIOs: a request can fail at the first, in the
middle and at the last, and four calls let both devices configure and one configure again or
release. In one bucket two keys give lists of length zero to two, in which a node is first,
last, only, or between the head and another. In `Ws2812` the module's load is a call, so
four calls leave three that overlap; two LEDs tell a wrong place from a wrong colour. In
`Mprobe` two slots wrap, fill and overrun, three files overlay each other's probe, and eight
calls with four hits let a probe be hit before, between and after every step of the call
that removes it, and planted again. In `Platform` two devices make a first and a last
removal; seven calls load both modules, one of them once more, configure two devices, and
interrupt a measurement at each of its steps; two threads meet on one device. IO2 and IO9
can both be echo pins and have three GPIOs each, and IO2 has other GPIOs in sysfs than in
the list. What a pin configured for nobody does to a later removal, and what becomes of a
thread that a second write started, takes more calls than seven: the run shows that they
come about, and their consequences are covered by the proof. The largest `int` is 3, so that
3 + 2 wraps and 1 + 2 does not. In `HcsrSampling` a sum of a few distances passes 11.

`MaxCalls`, `MaxHits`, `MaxNodes` and `MaxRounds` bound what happens and are named in the
modules; `Word`, `MaxInt`, `Delays` and `Pauses` are the sizes of numbers, small in the runs
and arbitrary in the proofs. `Finished`, `Exited` and `Stopped` are the only ways to end, so
that TLC's deadlock check finds calls that hang. Two runs have that check off: in
HcsrSession a lock stays taken after a failed `kthread_run`, and calls do stop for good; in
KprobeTester a thread dies with the mutex, which is what it shows.

HcsrDriver's passing liveness run has no faults, one session and no
clearing, which is what its properties need: with a failing `kthread_run`
or a measurement without echo, the thread or caller that dies holds the lock
(`StartFails`, `DivideByZero`), and `CallsReturn` is false. These faults are in
HcsrSession.

### Fairness

* `HcsrDriver!Fairness`: a call or thread that can take a step takes it (the
  kernel schedules them); the sensor answers. Taking `buffer_lock` is strongly
  fair, because spin locks of this kernel are ticket locks and serve their
  waiters in turn. No call is ever owed: `Open`, `Write`, `Read`, `Release` and
  the ioctls have no fairness.
* `HashTester!FairTesterSpec`: threads are scheduled. A pthread mutex promises
  no order, so locking is only weakly fair; it is enough because every other
  thread runs out of rounds.
* `HashTable!FairSpec`: a call that was made runs on.
* `KprobeTester!KprobeSpec`: every thread of the program is scheduled, as in
  `HashTester`; a handler runs on. Nobody has to hit the probe (`HitBy` is not
  fair). It hits all the same in every write that reaches the probed
  instruction; the run shows what happens when one does.
* `HcsrSampling`, `HcsrPins`, `Mprobe`, `PlatformDriver` and `Ws2812` have no
  liveness property. That nothing hangs in them is the deadlock check.

## Proofs

TLAPS proves for all values of the constants:

* `HcsrFifo_proofs`: `TypeCorrect`, `ContiguousAlways` and `StackImplemented`.
  The invariant is the type and `Contiguous`; it is inductive. From
  `Size \in Nat \ {0}` and `NoValue \notin Sample` the proof shows what each
  operation does to the number of slots in use (`Depth`) and to the sequence
  they hold, and so that each step is a step of `BoundedStack`.
* `HcsrSampling_proofs`: `TypeCorrect`; `MeanAlwaysInRange`, by `MeanInv`: the
  sum lies between the number of samples times an accepted distance and times
  another; `SemaphoreAlwaysBalanced`, by an
  inequality that is inductive: a falling edge handled stands for two edges of
  the line, and there is no pulse without a trigger; from it
  `HandlerNeverWaits`; and `OnlyEchoesAccepted`, for whatever delays and pauses. It rests on
  `SamplesBehind`: the rising time is that of the edge handled last, which the balance
  numbers, 2 * (ups - readLock) + lost + 1, and every sample ends before it. So if an even number of
  edges was lost before, the edge that starts a sample is a rise, and if none was lost within it
  the one that ends it is the next fall. `MeanInRange` needs that the sum has not wrapped.
* `HashTester_proofs`, for any number of threads, keys, data, buckets and nodes:
  - `CountersAlwaysBounded`. The invariant `RoomInv` relates a counter to the threads that
    have passed its test and not counted yet: a counter at its limit plus the number of
    those threads is at most the limit plus all threads but one.
  - `ListsAlwaysSound`, `TesterTyped`. The nodes of a list (`Chain`) are the least set
    that holds the first and, with a node, the next (`Reached`), which needs no recursion;
    the lemmas about it say what linking a node in and unlinking one does to the set.
    `ListsInv` says that lists are apart, linked both ways, of allocated nodes, one per key;
    `CallsInv` that what a loop looks for is still ahead of it, or found
    (`LoopOK`), and that a node being added points to the first of its bucket, which
    points back (`NodeOK`). It is kept because one call is at work at a time
    (`SerialInv`): whoever is in a call holds the mutex, or is main when no thread runs.
  - `EachReadsItsOwn`, by `AskedInv`: what the thread that holds the mutex wrote is on its
    way into the table, in it, or on its way back.
  - `TablesAreMaps` is the refinement of `KeyValueMap`: the step that links, changes or
    unlinks a node is the one write of its key, the end of a read one read, and every
    other step a stutter. `WritesAndDeletionsDone` says that a call that returns has
    made its change.
* `Mprobe_proofs`: `MprobeTyped`, `PlantedStaysAllocated`, `HandlerStaysInRing`,
  `CloseLeavesNothing` and `UnreadAlwaysKept`, for every ring size and number of files,
  calls and hits. `PlantedInv` adds to `PlantedIsAllocated` that a call between
  unregistering and freeing has disarmed the very probe `kp` points to; a probe that an open
  forgot is never freed, because nothing points to it any more. `StrayInv` says that without
  overlaying at most the probe of `kp` is planted (`OneProbe`), and that where a probe is
  planted, or a handler still runs, there is no ring to be freed: `mprobe_output` is NULL
  then (`RingOrProbe`). `CloseInv` follows one file's call through what it has freed so far
  (`RingAt`) and says that ring and probe are reached by the pointers as long as files do
  not overlap (`AllReached`). `RecordsInv` says that the unread addresses lie from `head` to
  `tail`, in the order of the hits, and that the handler stores beside them; going round the
  ring is addition modulo its size (`Slot`).

* `HcsrDriver_proofs`: `TypeCorrect`, `LockAlwaysExcludes`, `FifoImplemented` and
  `SessionsAlwaysIsolated`, for every number of callers and kernel threads (finite),
  slots and calls.
  - `TypeCorrect` needs a count (`Counted`): the clock of the time stamps, the threads
    that still have to take a stamp and the callers that may still start one are together
    no more than the calls made; so are the sessions and the releases under way.
    Without it `clock + 1` could leave its range.
  - `LockAlwaysExcludes` is under `OneSession`: neither release nor open is called again.
    Both make the lock anew (`InitializeDevice`), and a lock made anew while a thread is
    inside excludes nobody: as an invariant of HcsrSession.cfg `LockExclusion` is violated.
    `LockInv` says that whoever is at a place between lock and unlock, caller or thread, is
    the holder, and `SessionInv` that a session is under way as long as anyone is at work.
  - `FifoImplemented` is under `OneSession` and `Appending`, i.e. without the clearing
    write, which writes the slots without the lock. `BufferInv` says that outside
    the slot being written the buffer holds whole records, that the first of
    a writer's two stores stays until the second, and that the indices
    move under the lock only; `Simulation` maps the unlock of a writer or reader to one
    operation of `HcsrFifo` and every other step to a stutter. With
    `StackImplemented` the driver's buffer is then a bounded stack.
  - `SessionsAlwaysIsolated` is under `OneWriter`: one thread, which writes, clears and
    releases, with every fault. `AskedInv` says that a kernel thread that has yet to
    clear mip is `tsk`, was started in this session, and mip is up; `WriterInv` that
    there is none where the writer has seen mip down or waited for `tsk`, and none while the
    device is closed. A thread that has cleared mip but not left the lock is not
    waited for; it stores nothing any more. With reads, or with two writers, the property is
    false: a read does not raise mip, and two writers start two threads of which one is `tsk`.

* `HcsrPins_proofs`: `TypeCorrect`, `IrqsAlwaysKnown`, `FreesOnlyHeld`, `PinsAlwaysBelong` and
  `FlagsRightAlone`, for any devices and pins of the board and any calls, failing in any
  way and, but for the last, overlapping.
  - `WalkInv` keeps each walk in its row of the table; `PairInv` says that a device
    being configured has both its pins.
  - `IrqInv`: a device knows the interrupt it claimed, except in a release, which gives it up
    first and clears `irq_no` last; the walk of CONFIG_PINS goes down and meets the
    echo pin once, so there is nothing to lose when it claims.
  - `HoldInv`: what a call holds is requested (`Held`) and held by one call (`HeldOnce`); what
    the table says a device owns is requested and held by no call, or on its way back
    (`Owned`). The flag plays no part: it may be cleared over GPIOs that are requested,
    which then are never freed. The table of GPIOs has none twice (`NoGpioTwice`).
  - `BelongInv`: a configured pin has an open owner, is about to get one, or lost it to an
    overlapping release; a release has left no pin behind it that is its own.
  - `AloneInv`: as long as calls did not overlap, a GPIO is requested exactly if its pin is
    configured and no call has it half way, or the call that has it holds it (`Accounted`).

* `PlatformDriver_proofs`: `PlatformTyped`, `PinsAlwaysAccounted`, `FaultsAlwaysHaveCause`
  and `NothingLeftUnloaded`, for any devices, pins, threads, files, calls and insmods. The
  invariant has a part for each kind of thing that can be left:
  - `ShellInv`: which devices a command has still to go to, and that one it is at
    is plugged and not bound while it is probed, bound while it is removed.
  - `FileInv`: an open file is on a listed device, a listed one is bound and has its
    directory; a directory outside the list, or one an earlier load left (`old`), needs a failed
    registration; the class is there from the first probe until the last removal.
  - `PinInv`: `PinsAccounted`, and that pins of a device without files are only there
    between the two steps of a removal under open files. Giving back one
    device's pins leaves the others' because no GPIO is on the list twice (`GpiosApart`).
    A pin is configured for nobody only after a release and a CONFIG_PINS overlapped.
  - `IrqInv`, `ThreadInv`: an interrupt claimed is the `irq_no` of an open device which is
    not the one being released, and a thread at work (`Works`) is the only one for an open
    device that is measuring, as long as no device was unplugged under its files or opened
    twice, and for threads as long as only writes, one at a time, started them. A thread
    that is leaving has its device as long as no release came between its last two steps.
  - `TaskInv`: `tsk` of a device without a file is a thread only if sysfs started one.
  - `TotalInv`: a thread that has added up has a total to divide by, unless the device was
    initialised under it, or m is such that no sample is taken. `CountInv`: `device_found`
    counts the bound devices and the one underway.

* `Ws2812_proofs`: `WsTyped`, `StripShowsMemory`, `StripDarkWhenClosed`,
  `AlwaysDrawnAsAsked` and `PinsAlwaysKept`, for any number of LEDs, colours, pins and
  processes and both drivers. A call is a sequence of steps; the proofs are about the
  set of those it has left (`Rest`), what each step demands of the ones after it (`Fits`)
  and what those left tell of the call (`CallShape`). That the scripts of
  the calls have these properties is shown once, script by script; then every step is an
  act, a request refused, or a call that begins (`NextIs`). The invariant `WsInv` has a
  part for each thing:
  - `LockInv`, `SendInv`: between its lock and its unlock a call holds the lock, in
    the SPI driver as long as it is a write that overlaps with writes only; one transfer
    at a time.
  - `ShowInv`: once no LED is blank, a call that has stored its colour will still send the frame,
    or the strip shows the frame, or a transfer under way has shown it up to its position. So the
    last transfer sends all that was stored, whatever overlapped.
  - `DarkInv`: where the shared colour, an LED in memory or one on the strip is not
    dark, a file is open that is not being released or whose release has yet to pass there.
  - `WantInv`: what an LED was last told is in memory or being drawn, and a call that no
    other disturbs draws its own colour.
  - `PinInv`: a pin not held was refused, or is still to be requested by the call that freed
    it; a call of the bit-banging driver that was refused one still has to free those it
    got.

Assumptions on constants are the `ASSUME` of each module: sizes and limits are numbers,
sets of threads, devices and files are finite, and model values like `Nobody`
are none of the things they stand beside. Three theorems have a premise of their own,
named above: `OneSession`, `Appending` and `OneWriter`.

Only model-checked: liveness (`CallsReturn` of `HcsrDriver` and `HashTable`,
`MipComesDown`, `ProgramEnds`), which rests on fairness and so on ENABLED, beyond this
prover; and the two properties that are violated.

## What the code does and its texts do not say

Runs of kind *violated* above, each with a quotation in `PROJECT.json`. TLC finds
three more in the models, though no run of the project is spent on them:

* HCSR_Driver.c:867: "Wait till measurement is complete" (859), but after it the
  record read before the wait is delivered, with SUCCESS and distance -1.
  `SuccessfulReadHasSample` as an invariant of HcsrDriver.cfg shows it;
* 854: a read starts a measurement without setting mip, so release ("Erasing data
  of %s and reinitializing it", 878) does not wait for its thread, and the sample
  lands in the next session. Add "read" to the `Calls` of HcsrSession.cfg and
  `SessionIsolation` is violated;
* 640: `configure_pins` tests the flag of a pin, requests its GPIOs and sets the
  flag, `release_gpio_pins` frees them and clears it, with no lock over the table ("1 if
  gpio_request has already been called. 0 otherwise or when gpio_free has been
  called", 121). When they overlap the flag is cleared over GPIOs just
  requested, which stay taken even after rmmod: `FlagMeansRequested` as an
  invariant of HcsrPins.cfg.

Also seen, and modelled as the code has it:

* HCSR_Driver.c:213, 221: a pin's `device_minor_number` is not set when its node is
  allocated. While a pin is configured for the first time, between 640 and 641, a
  release (338) of the device whose number was left in that memory frees its GPIOs,
  and the owner frees them again: `FreesWhatItHolds` without `~mistaken`;
* 60 "Circular FIFO Buffer": it is last in, first out;
* 748, 816: `initiate_measurement` returns 1 when `kthread_run` fails, past its
  unlock, and 0 when it worked; its callers take 0 for the failure, so that a
  write that started a measurement gives EINVAL back and one that could not
  gives SUCCESS;
* 771: every open re-initialises the device and its lock, also while another
  thread uses it; release does so as soon as mip is down, and mip comes down
  (731) before the lock is left (733);
* 729: the mean is over all samples since open, outliers included; 88 documents
  another one;
* 86: `outlier_lowest`, "Lowest distance measured", starts at 0, and only a distance that
  the `(int)` cast made negative is lower;
* 938: SET_PARAMETERS takes every positive m and delta: a pause may be as short as an echo,
  and for the two largest m the `m + 2` of line 707 wraps and no sample is taken;
* 881: `kthread_stop` on a thread that may have left through `do_exit` (734) already;
* 543: a pin configured by another device: "If no then return error" says the
  comment, the code logs it and takes the pin over;
* 801: the clearing loop runs without `buffer_lock` ("For syncing buffer write and
  read operations", 106), so it can leave a slot with the time of a sample whose distance was
  cleared; 807, 815: mip is tested and set outside any lock, so that two writers start two
  threads and the first to end clears mip while the second measures;
* 914: "Release the previous GPIOs held by device": only the interrupt is, the pins
  stay with the device until release (the call is commented out at 923);
* 771: a second open also forgets `irq_no`, so that the interrupt stays claimed; `HcsrPins` has
  one file per device and leaves this out;
* Hash_Driver.c:132: the comment speaks of the key being 0; the code tests the
  data;
* DUMP looks for a key of the bucket among 1 to 128 and rejects a bucket that has
  none; the test program's loops ask for bucket 8 each time;
* ws2812.c:123-149, 383-410: a RESET that is refused a GPIO frees those it got, leaves, and
  returns success; so the strip has no pins until a RESET that is not refused. Two
  overlapping RESETs refuse each other and can leave any of the pins free (`pinRace` in
  `PinsKept`);
* spi_driver.c:85: a refused GPIO is logged; the callers (109-111, 339-341) ignore it and
  report success;
* spi_driver.c: a write before the first RESET lights an LED at the wrong
  place, as `DrawnAsAsked` says by its premise.
* Mprobe.c:115: "Storing data in ring buffer" (111), but the copy has the size of a pointer,
  so of a record (57-62) only the address of the probe arrives, and time, pid and value,
  which the program prints, are never written; 118, 179: `count` goes up with each hit and
  never down, so reads past the last record succeed; a hit that fills the ring is tallied as
  a loss; 203: write frees the ring that open made, so in the program's own sequence (open,
  write) every hit dies; 298: unloading unregisters no probe (release has, if files did not
  overlap);
* platform_driver.c:1364: `class_unregister` and then `class_destroy`, which unregisters
  once more what is freed, at every last removal; the model leaves that out to see the rest;
* 1289: `first` is not set again, so platform_device unloaded and loaded under the same driver
  uses the destroyed class ("This insmod can be done in any order", Readme_Platform_Drivers:23);
* 1213: `device_create` is compared with NULL and returns an error pointer; 1268: a failing
  `misc_register` leaves the directory behind and probe succeeds;
* 1350: removing any device frees the GPIOs of all, and list nodes that stay linked; only the
  driver is held by an open file, and the device is freed under it;
* 1051: GPIOs requested by the sysfs stores are never freed, and the stores do not fail when
  a request does; a measurement enabled there uses the trigger pin of the ioctl, which
  sysfs does not set; `gpio_ctrl` and the list of pins disagree about IO2 and IO3;
* 924, 1172: threads started by a read, or through sysfs without a file, are waited for by
  nobody; neither is the first of two that were started by two writes past one test (876,
  884), nor any thread between 805, where it clears measurement_in_progress, and its
  `do_exit` (809): after close and rmmod it runs code that is gone;
* 784: for the two largest m, accepted at 1008 and 1107, m + 2 wraps, no sample is taken, and 803
  divides by zero with the lock held;
* 409: between the last `gpio_free` and 410, where the pin loses its owner, another device
  can configure the pin (713, 714), which then is nobody's, and whose node the next removal
  frees;
* 1346: `kfree(device->tsk)` frees a thread's `task_struct` after a measurement through sysfs.

## Not modelled

Allocation failures; registration of character devices and classes that fails (except
`misc_register` in the platform driver); message wording; in `PlatformDriver` the contents
of buffers, sums of echoes, a failing `kthread_run`, a `kthread_stop` just after its
thread's end and pin numbers beyond the tables; the reversal of an LED's bits, LED numbers
beyond the strip, and latch and bit timing of it; in ws2812.c the registers of the GPIO bank
(379), which other users of the bank write too; the busy waits of the trigger; the text and
the lists of a stack dump. The user programs with one thread make a fixed sequence of calls
that the models of their drivers allow. `Final.patch`, with the list of stack-dump probes,
is not in the repository. The copy of Hash_Driver.c beside Mprobe is the same file.

The stack dump system calls: insdump and rmdump keep their probes in a list whose
functions (adding, removing by number, removal at exit) are declared in syscalls.h
and defined in `Final.patch`. They decide what a property could be about: which probes a
number names, what an exit removes. What is in the repository is the check of the symbol
and of the mode.

## Plan

Done, in the order of importance: the sensor driver (buffer, device, sampling,
pins), the hash table and its tester, the strip drivers, the probe module with its
program, the platform edition of the sensor. What is left:

1. Proofs: `SessionsAlwaysIsolated` and `LockAlwaysExcludes` for more programs than
   they are proved for (ioctls between sessions are covered, several writers are not, and
   are not isolated); safety behind the liveness properties, i.e. that a call under way
   always has a step it can take when the lock is free.
2. The buffers in `PlatformDriver`, with the clearing write (871) beside a measurement.
3. The stack dump calls: insdump's checks and the handler's modes, with the list
   functions external.
