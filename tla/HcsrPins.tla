------------------------------ MODULE HcsrPins ------------------------------
(***************************************************************************)
(* The pins of the HC-SR04 devices of HCSR_Driver.c: CONFIG_PINS requests  *)
(* the GPIOs of a trigger and an echo pin and claims the echo pin's        *)
(* interrupt, release gives them back, unloading gives back what is left.  *)
(* The table of pins is shared by all devices and has no lock; the GPIO    *)
(* core, which grants a GPIO once, is the only arbiter.  A step is one     *)
(* call of the GPIO or interrupt core, or one load or store of the table.  *)
(*                                                                         *)
(* A device is used through one file and by one thread, as Main.c does;    *)
(* module HcsrDriver has the calls that overlap on one device.             *)
(***************************************************************************)
EXTENDS Integers, Sequences

CONSTANTS Devices,   \* minor numbers
          Pins,      \* Galileo pins in use
          Garbage,   \* what kmalloc's memory holds where device_minor_number will be
          Trouble,   \* what may fail for outside reasons: of "gpio", "irq"
          MaxCalls   \* bound: calls of CONFIG_PINS and release

\* The GPIOs of a Galileo pin, as they are requested: the pin itself, the
\* level shifter, two multiplexers.
Gen2 == [p \in 0..13 |->
    CASE p = 0 -> <<11, 32>> [] p = 1 -> <<12, 28, 45>> [] p = 2 -> <<61, 77>>
      [] p = 3 -> <<62, 76, 64>> [] p = 4 -> <<6, 36>> [] p = 5 -> <<0, 18, 66>>
      [] p = 6 -> <<1, 20, 68>> [] p = 7 -> <<38>> [] p = 8 -> <<40>> [] p = 9 -> <<4, 22, 70>>
      [] p = 10 -> <<10, 26, 74>> [] p = 11 -> <<5, 24, 44, 72>> [] p = 12 -> <<15, 42>>
      [] p = 13 -> <<7, 30, 46>>]

GpiosOf(p) == {Gen2[p][i] : i \in 1..Len(Gen2[p])}
Gpios == UNION {GpiosOf(p) : p \in Pins}

\* non_echo_pins: no interrupt on both edges.
IsEdgeInterruptible(p) == p \notin {0, 1, 7, 8, 10, 12}

NoPin == -1          \* NO_PIN and NO_VALUE

ASSUME PinsAssumption ==
    /\ Pins \subseteq 0..12 /\ Pins # {}        \* the range CONFIG_PINS accepts
    /\ NoPin \notin Devices /\ Garbage \subseteq Int /\ Garbage # {}
    /\ MaxCalls \in Nat

VARIABLES
    loaded,     \* is the module loaded?
    open,       \* devices that are open
    trigger, echo, irqNo, ready,    \* of each device; ready is are_pins_configured
    configured, minor,              \* of each pin: is_pin_configured, device_minor_number
    requested,  \* GPIOs the driver holds (kept by the GPIO core)
    handler,    \* the device that claimed each pin's interrupt (kept by the interrupt core)
    pc, work,   \* of each device: the step of its call, and the pin, the GPIO
                \* and the last GPIO to free that the call is at
    overlap,    \* history: two calls have overlapped
    unset,      \* history: the pins whose device_minor_number was not stored yet
    mistaken,   \* history: a release took such a number for its own
    calls       \* calls made (bound)

deviceVars == <<trigger, echo, irqNo, ready>>
tableVars == <<configured, minor>>
coreVars == <<requested, handler>>
history == <<overlap, unset, mistaken>>
moduleVars == <<loaded, open, history, calls>>
vars == <<moduleVars, deviceVars, tableVars, coreVars, pc, work>>

None == [d \in Devices |-> NoPin]

NoWork == [pin |-> NoPin, gpio |-> 0, last |-> 0]

\* populate_pin_data leaves device_minor_number as kmalloc returned it.
Init ==
    /\ loaded = TRUE /\ open = {}
    /\ trigger = None /\ echo = None /\ irqNo = None
    /\ ready = [d \in Devices |-> FALSE]
    /\ configured = [p \in Pins |-> FALSE]
    /\ \E garbage \in Garbage : minor = [p \in Pins |-> garbage]
    /\ requested = {} /\ handler = [p \in Pins |-> NoPin]
    /\ pc = [d \in Devices |-> "idle"] /\ work = [d \in Devices |-> NoWork]
    /\ overlap = FALSE /\ unset = Pins /\ mistaken = FALSE /\ calls = 0

-----------------------------------------------------------------------------
(* Small vocabulary.                                                        *)

Quiet == \A d \in Devices : pc[d] = "idle"
Highest(S) == CHOOSE p \in S : \A q \in S : q <= p

Begin(d) ==
    /\ calls < MaxCalls /\ calls' = calls + 1
    /\ d \in open /\ pc[d] = "idle"
    /\ overlap' = (overlap \/ ~Quiet) /\ UNCHANGED <<unset, mistaken>>

Goto(d, l) == pc' = [pc EXCEPT ![d] = l]
Then(d, l) == Goto(d, l) /\ UNCHANGED work
ToPin(d, l, p) == Goto(d, l) /\ work' = [work EXCEPT ![d] = [NoWork EXCEPT !.pin = p]]
ToGpio(d, l, last) ==
    Goto(d, l) /\ work' = [work EXCEPT ![d].gpio = 1, ![d].last = last]
ToNextGpio(d) == work' = [work EXCEPT ![d].gpio = @ + 1] /\ UNCHANGED pc
Done(d) == Goto(d, "idle") /\ work' = [work EXCEPT ![d] = NoWork]

Pin(d) == work[d].pin
Gpio(d) == Gen2[Pin(d)][work[d].gpio]

\* list_add puts a new pin first: walks go from IO13 down.
Left(d, S) == {p \in S : p < Pin(d)}

-----------------------------------------------------------------------------
(* open and CONFIG_PINS.                                                    *)

InitializeDevice(d) ==
    /\ trigger' = [trigger EXCEPT ![d] = NoPin] /\ echo' = [echo EXCEPT ![d] = NoPin]
    /\ irqNo' = [irqNo EXCEPT ![d] = NoPin] /\ ready' = [ready EXCEPT ![d] = FALSE]

Open(d) ==
    /\ loaded /\ d \notin open /\ pc[d] = "idle"
    /\ open' = open \cup {d}
    /\ InitializeDevice(d)
    /\ UNCHANGED <<loaded, history, calls, tableVars, coreVars, pc, work>>

\* A faulty variant: the earlier interrupt stays claimed.
ConfigKeepingIrq(d, t, e) ==
    /\ Begin(d) /\ IsEdgeInterruptible(e)
    /\ trigger' = [trigger EXCEPT ![d] = t] /\ echo' = [echo EXCEPT ![d] = e]
    /\ irqNo' = [irqNo EXCEPT ![d] = NoPin]
    /\ ToPin(d, "pin", Highest({t, e}))
    /\ UNCHANGED <<loaded, open, ready, tableVars, coreVars>>

\* An echo pin without interrupts is refused.  The interrupt claimed before
\* is given up, the pins claimed before are not.
Config(d, t, e) ==
    /\ Begin(d) /\ IsEdgeInterruptible(e)
    /\ IF echo[d] # NoPin /\ irqNo[d] # NoPin
       THEN /\ handler' = [handler EXCEPT ![irqNo[d]] = NoPin]
            /\ irqNo' = [irqNo EXCEPT ![d] = NoPin]
       ELSE UNCHANGED <<handler, irqNo>>
    /\ trigger' = [trigger EXCEPT ![d] = t] /\ echo' = [echo EXCEPT ![d] = e]
    /\ ToPin(d, "pin", Highest({t, e}))
    /\ UNCHANGED <<loaded, open, ready, tableVars, requested>>

\* configure_pins at one of the two pins.  One that is configured already,
\* whoever did it, only gets its direction anew.
CheckPin(d) ==
    /\ pc[d] = "pin"
    /\ IF configured[Pin(d)] THEN Then(d, "attach") ELSE ToGpio(d, "request", 0)
    /\ UNCHANGED <<moduleVars, deviceVars, tableVars, coreVars>>

\* pin_config: gpio_request succeeds if nobody holds the GPIO.
Request(d) ==
    /\ pc[d] = "request" /\ Gpio(d) \notin requested
    /\ requested' = requested \cup {Gpio(d)}
    /\ IF work[d].gpio = Len(Gen2[Pin(d)]) THEN ToPin(d, "mark", Pin(d)) ELSE ToNextGpio(d)
    /\ UNCHANGED <<moduleVars, deviceVars, tableVars, handler>>

\* CONFIG_PINS returns EINVAL, with the GPIOs of this pin freed again, and
\* are_pins_configured as it was.
RequestFails(d) ==
    /\ pc[d] = "request" /\ (Gpio(d) \in requested \/ "gpio" \in Trouble)
    /\ IF work[d].gpio = 1 THEN Done(d) ELSE ToGpio(d, "undo", work[d].gpio - 1)
    /\ UNCHANGED <<moduleVars, deviceVars, tableVars, coreVars>>

\* A faulty variant: the pin itself is freed, the rest is not.
UndoFirstOnly(d) ==
    /\ pc[d] = "undo" /\ requested' = requested \ {Gpio(d)}
    /\ Done(d)
    /\ UNCHANGED <<moduleVars, deviceVars, tableVars, handler>>

Undo(d) ==
    /\ pc[d] = "undo" /\ requested' = requested \ {Gpio(d)}
    /\ IF work[d].gpio = work[d].last THEN Done(d) ELSE ToNextGpio(d)
    /\ UNCHANGED <<moduleVars, deviceVars, tableVars, handler>>

Mark(d) ==
    /\ pc[d] = "mark" /\ Then(d, "own")
    /\ configured' = [configured EXCEPT ![Pin(d)] = TRUE]
    /\ UNCHANGED <<moduleVars, deviceVars, minor, coreVars>>

\* A faulty variant: nobody is noted as the owner.
OwnForgotten(d) ==
    /\ pc[d] = "own" /\ Then(d, "attach")
    /\ UNCHANGED <<moduleVars, deviceVars, tableVars, coreVars>>

Own(d) ==
    /\ pc[d] = "own" /\ Then(d, "attach")
    /\ minor' = [minor EXCEPT ![Pin(d)] = d] /\ unset' = unset \ {Pin(d)}
    /\ UNCHANGED <<loaded, open, overlap, mistaken, calls, deviceVars, configured, coreVars>>

\* On to the other pin, or the end: SUCCESS.
NextPin(d) ==
    LET left == Left(d, {trigger[d], echo[d]}) IN
    IF left = {}
    THEN Done(d) /\ ready' = [ready EXCEPT ![d] = TRUE]
    ELSE ToPin(d, "pin", Highest(left)) /\ UNCHANGED ready

\* The trigger pin needs nothing more.
AttachTrigger(d) ==
    /\ pc[d] = "attach" /\ Pin(d) # echo[d]
    /\ NextPin(d)
    /\ UNCHANGED <<moduleVars, trigger, echo, irqNo, tableVars, coreVars>>

\* A faulty variant: the GPIO is taken for its interrupt.
AttachEchoByGpio(d) ==
    /\ pc[d] = "attach" /\ Pin(d) = echo[d]
    /\ handler[Pin(d)] = NoPin
    /\ handler' = [handler EXCEPT ![Pin(d)] = d]
    /\ irqNo' = [irqNo EXCEPT ![d] = Gen2[Pin(d)][1]]
    /\ NextPin(d)
    /\ UNCHANGED <<moduleVars, trigger, echo, tableVars, requested>>

\* The interrupt of the echo pin, which cannot be shared.
AttachEcho(d) ==
    /\ pc[d] = "attach" /\ Pin(d) = echo[d]
    /\ handler[Pin(d)] = NoPin
    /\ handler' = [handler EXCEPT ![Pin(d)] = d]
    /\ irqNo' = [irqNo EXCEPT ![d] = Pin(d)]
    /\ NextPin(d)
    /\ UNCHANGED <<moduleVars, trigger, echo, tableVars, requested>>

AttachFails(d) ==
    /\ pc[d] = "attach" /\ Pin(d) = echo[d]
    /\ handler[Pin(d)] # NoPin \/ "irq" \in Trouble
    /\ Done(d)
    /\ UNCHANGED <<moduleVars, deviceVars, tableVars, coreVars>>

-----------------------------------------------------------------------------
(* release.                                                                 *)

\* The interrupt is given up; then the walk over all pins.
Release(d) ==
    /\ Begin(d)
    /\ handler' = IF irqNo[d] # NoPin THEN [handler EXCEPT ![irqNo[d]] = NoPin] ELSE handler
    /\ ToPin(d, "ours", Highest(Pins))
    /\ UNCHANGED <<loaded, open, deviceVars, tableVars, requested>>

\* At the end of the walk the device is initialised and the file is gone.
PassOn(d) ==
    LET left == Left(d, Pins) IN
    IF left = {}
    THEN Done(d) /\ InitializeDevice(d) /\ open' = open \ {d}
    ELSE ToPin(d, "ours", Highest(left)) /\ UNCHANGED <<deviceVars, open>>

\* A faulty variant: a pin is freed whoever configured it.
OursIfConfigured(d) == configured[Pin(d)]

Ours(d) == configured[Pin(d)] /\ minor[Pin(d)] = d

PassPin(d) ==
    /\ pc[d] = "ours" /\ ~Ours(d) /\ PassOn(d)
    /\ UNCHANGED <<loaded, history, calls, tableVars, coreVars>>

FreePin(d) ==
    /\ pc[d] = "ours" /\ Ours(d) /\ ToGpio(d, "free", Len(Gen2[Pin(d)]))
    /\ mistaken' = (mistaken \/ Pin(d) \in unset)
    /\ UNCHANGED <<loaded, open, overlap, unset, calls, deviceVars, tableVars, coreVars>>

Free(d) ==
    /\ pc[d] = "free" /\ requested' = requested \ {Gpio(d)}
    /\ IF work[d].gpio = work[d].last THEN ToPin(d, "unmark", Pin(d)) ELSE ToNextGpio(d)
    /\ UNCHANGED <<moduleVars, deviceVars, tableVars, handler>>

Unmark(d) ==
    /\ pc[d] = "unmark" /\ Then(d, "disown")
    /\ configured' = [configured EXCEPT ![Pin(d)] = FALSE]
    /\ UNCHANGED <<moduleVars, deviceVars, minor, coreVars>>

Disown(d) ==
    /\ pc[d] = "disown" /\ PassOn(d)
    /\ minor' = [minor EXCEPT ![Pin(d)] = NoPin] /\ unset' = unset \ {Pin(d)}
    /\ UNCHANGED <<loaded, overlap, mistaken, calls, configured, coreVars>>

-----------------------------------------------------------------------------
(* rmmod and insmod.                                                        *)

\* release_gpio_pins(NULL) frees each configured pin, and the memory of its
\* entry too, from which the walk then reads where to go on: it may get to
\* every pin or, with that memory used otherwise, be lost after the first.
Unload ==
    /\ loaded /\ open = {} /\ loaded' = FALSE
    /\ LET left == {p \in Pins : configured[p]} IN
       \E reached \in {left, IF left = {} THEN {} ELSE {Highest(left)}} :
          requested' = requested \ UNION {GpiosOf(p) : p \in reached}
    /\ UNCHANGED <<open, history, calls, deviceVars, tableVars, handler, pc, work>>

Load ==
    /\ ~loaded /\ loaded' = TRUE
    /\ trigger' = None /\ echo' = None /\ irqNo' = None
    /\ ready' = [d \in Devices |-> FALSE]
    /\ configured' = [p \in Pins |-> FALSE]
    /\ \E garbage \in Garbage : minor' = [p \in Pins |-> garbage]
    /\ unset' = Pins
    /\ UNCHANGED <<open, overlap, mistaken, calls, coreVars, pc, work>>

-----------------------------------------------------------------------------

Step(d) ==
    \/ CheckPin(d) \/ Request(d) \/ RequestFails(d) \/ Undo(d) \/ Mark(d) \/ Own(d)
    \/ AttachTrigger(d) \/ AttachEcho(d) \/ AttachFails(d)
    \/ PassPin(d) \/ FreePin(d) \/ Free(d) \/ Unmark(d) \/ Disown(d)

\* The bound: MaxCalls calls are made.
Stopped == calls = MaxCalls /\ Quiet /\ UNCHANGED vars

Next ==
    \/ \E d \in Devices : \/ Open(d) \/ Release(d) \/ Step(d)
                          \/ \E t, e \in Pins : Config(d, t, e)
    \/ Unload \/ Load
    \/ Stopped

Spec == Init /\ [][Next]_vars

-----------------------------------------------------------------------------
(* Properties.                                                              *)

TypeOK ==
    /\ {loaded, overlap, mistaken} \subseteq BOOLEAN /\ open \subseteq Devices /\ unset \subseteq Pins
    /\ \A f \in {trigger, echo, irqNo} : f \in [Devices -> Pins \cup {NoPin}]
    /\ ready \in [Devices -> BOOLEAN]
    /\ configured \in [Pins -> BOOLEAN] /\ minor \in [Pins -> Devices \cup Garbage \cup {NoPin}]
    /\ requested \subseteq Gpios /\ handler \in [Pins -> Devices \cup {NoPin}]
    /\ pc \in [Devices -> {"idle", "pin", "request", "undo", "mark", "own", "attach",
                           "ours", "free", "unmark", "disown"}]
    /\ work \in [Devices -> [pin : Pins \cup {NoPin}, gpio : 0..4, last : 0..4]]
    /\ calls \in 0..MaxCalls

\* is_pin_configured is "1 if gpio_request has already been called. 0
\* otherwise or when gpio_free has been called" (HCSR_Driver.c:121): between
\* calls the driver holds the GPIOs of the configured pins and no other.  False
\* if calls overlap, for the table of pins has no lock (line 640).
FlagMeansRequested ==
    loaded /\ Quiet => requested = UNION {GpiosOf(p) : p \in {q \in Pins : configured[q]}}

\* The flag is right as long as calls do not overlap, although requests and
\* claims of interrupts fail half way, pins are taken over from another
\* device, and the module goes and comes.
FlagRightAlone == ~overlap => FlagMeansRequested

\* The same of the owners: a configured pin is owned by an open device, which
\* will give it back, so that nothing is held when all files are closed.  If
\* calls overlap a pin may end up with no owner, but not with a closed one.
PinsBelong ==
    Quiet /\ loaded => \A p \in Pins : configured[p] =>
                          minor[p] \in open \/ (overlap /\ minor[p] = NoPin)

\* The interrupts claimed are those that devices know of and will free, so
\* that no handler runs for a closed device.
IrqsKnown ==
    Quiet => \A p \in Pins, d \in Devices : (handler[p] = d) <=> (irqNo[d] = p)

\* However calls overlap, gpio_free is called on GPIOs that are held.  It is not
\* so once a release met a pin between its two stores (HCSR_Driver.c:640, 641)
\* for the first time and took what kmalloc had left there for its own number.
FreesWhatItHolds ==
    [][\A d \in Devices : (Undo(d) \/ Free(d)) /\ ~mistaken => Gpio(d) \in requested]_vars
=============================================================================
