------------------------------- MODULE Ws2812 -------------------------------
(***************************************************************************)
(* The two drivers of the WS2812 strip.  spi_driver.c hands the frame      *)
(* buffer to the SPI controller and holds its spin lock over the whole of  *)
(* write, but not over the resets; ws2812.c toggles a pin itself and holds *)
(* its lock over the transfer only.  Both draw through one shared array    *)
(* for the colour of a single LED, and both give their GPIOs back and take *)
(* them again at RESET.                                                    *)
(*                                                                         *)
(* A call is the sequence of its elementary steps, pc[p]; the first is the *)
(* next to be taken.  insmod is one more actor: the device can be opened   *)
(* before the init function is through.  The 24 bits of a colour are stored *)
(* and sent as one here: a torn colour would be one more wrong colour.     *)
(***************************************************************************)
EXTENDS Integers, Sequences, FiniteSets

CONSTANTS Procs,     \* processes, each with a file of its own
          Insmod,    \* the process that loads and unloads the module
          Nobody,    \* the lock has no owner
          Leds,      \* how many LEDs
          Colours, Off, Blank,  \* Blank is the zero byte, no bit to the strip
          Unknown,   \* history: nobody can say what the LED should show
          Contested, \* pins that others of the kernel may hold, or refuse
          MaxCalls   \* bound: calls made, loading and unloading among them

ASSUME WsAssumption ==
    /\ Leds \in Nat \ {0} /\ Insmod \notin Procs /\ Nobody \notin Procs \cup {Insmod}
    /\ Off # Blank /\ Unknown \notin {Off, Blank} /\ Colours \cap {Off, Blank, Unknown} = {}
    /\ Contested \subseteq 1..3 /\ MaxCalls \in Nat

Actors == Procs \cup {Insmod}

VARIABLES
    driver,   \* which of the two it is
    stage,    \* of the module: "out", "in" or "going"
    files,    \* processes that have the device open
    pc, op,   \* the steps left of each call, and which call it is
    lock,     \* owner of spi_lock, or of lock
    single,   \* single_led_data
    leds,     \* leds_pixel_data
    sending,  \* who is in a transfer
    pos,      \* the LED of the strip the next bits go to
    shown,    \* what the strip shows
    pins,     \* GPIOs requested
    alone,    \* history: no conflicting call has run beside this one
    want,     \* history: what each LED was last told to show
    pinRace,  \* history: calls that take pins have overlapped
    refused,  \* history: pins last asked for in vain, though not held here
    calls     \* calls made (bound)

memory == <<single, leds>>
strip == <<sending, pos, shown>>
history == <<alone, want, pinRace, refused>>
vars == <<driver, stage, files, pc, op, lock, memory, strip, pins, history, calls>>

-----------------------------------------------------------------------------
(* The steps of the calls.                                                  *)

SetColor(colour) == <<<<"color", colour>>>>
CopyTo(led) == <<<<"copy", led>>>>
CopyToAll == [l \in 1..Leds |-> <<"copy", l>>]

\* A transfer; what was drawn is on the strip at its end.
Bits(drawn) == <<<<"begin">>>> \o [l \in 1..Leds |-> <<"send", l>>] \o <<<<"end", drawn>>>>
Locked(steps) == <<<<"lock">>>> \o steps \o <<<<"unlock">>>>

\* spi_write and spi_write_async_message; write_to_registers.
SpiTransfer(drawn) == Bits(drawn)
BangTransfer(drawn) == Locked(Bits(drawn))
Transfer(drawn) == IF driver = "spi" THEN SpiTransfer(drawn) ELSE BangTransfer(drawn)

\* A faulty variant: the memory is cleared and not sent.
ResetLedsMemoryOnly == SetColor(Off) \o CopyToAll

ResetLeds == SetColor(Off) \o CopyToAll \o Transfer([led \in 1..Leds |-> Off])

Drawn(led, colour) == [l \in {led} |-> colour]
SetLedRgb(led, colour) == SetColor(colour) \o CopyTo(led)
BangWrite(led, colour) == SetLedRgb(led, colour) \o BangTransfer(Drawn(led, colour))

\* A faulty variant: the SPI driver locks its transfer only, as the other does.
SpiWriteLockedTransfer(led, colour) ==
    SetLedRgb(led, colour) \o Locked(SpiTransfer(Drawn(led, colour)))

SpiWrite(led, colour) ==
    Locked(SetLedRgb(led, colour) \o SpiTransfer(Drawn(led, colour)))
WsWrite(led, colour) ==
    IF driver = "spi" THEN SpiWrite(led, colour) ELSE BangWrite(led, colour)

\* Pins 24, 44 and 72 or 12, 28 and 45, by their order in the calls that
\* request them.
Pins == 1..3
FreeOrder == IF driver = "spi" THEN <<2, 1, 3>> ELSE <<1, 2, 3>>
Free(order) == [i \in 1..Len(order) |-> <<"free", order[i]>>]
RequestAll == [i \in 1..3 |-> <<"request", i>>]

\* A faulty variant: the pins are requested before they are freed.
ResetGpiosSwapped == RequestAll \o Free(FreeOrder)

ResetGpios == Free(FreeOrder) \o RequestAll

WsRelease == ResetLeds

SpiInit == RequestAll \o <<<<"lockinit">>>>
BangInit == RequestAll \o ResetLeds
SpiExit == ResetLeds \o Free(<<1, 2, 3>>)
BangExit == Free(<<1, 2, 3>>)
InitSteps == IF driver = "spi" THEN SpiInit ELSE BangInit
ExitSteps == (IF driver = "spi" THEN SpiExit ELSE BangExit) \o <<<<"out">>>>

-----------------------------------------------------------------------------

Has(p, kind) == \E i \in 1..Len(pc[p]) : pc[p][i][1] = kind
Pinning(p) == Has(p, "free") \/ Has(p, "request")
Idle(p) == pc[p] = <<>>
Quiet == \A p \in Actors : Idle(p)

\* A static array is zero: no bits for the SPI driver, bits 0 for the other.
Fresh == [l \in 1..Leds |-> IF driver = "spi" THEN Blank ELSE Off]

Init ==
    /\ driver \in {"spi", "bitbang"}
    /\ stage = "out" /\ files = {}
    /\ pc = [p \in Actors |-> <<>>] /\ op = [p \in Actors |-> "none"]
    /\ lock = Nobody
    /\ single = Blank /\ leds = Fresh
    /\ sending = {} /\ pos = 1 /\ shown = [l \in 1..Leds |-> Off]
    /\ pins = {} /\ refused = {}
    /\ alone = [p \in Actors |-> TRUE] /\ pinRace = FALSE
    /\ want = [l \in 1..Leds |-> Unknown]
    /\ calls = 0

\* The writes of the SPI driver exclude each other, once the lock is
\* initialised; all other calls are in conflict.
Conflict(p, what) ==
    \/ p # Insmod /\ ~Idle(Insmod)
    \/ \E q \in Actors \ {p} :
          ~Idle(q) /\ ~(driver = "spi" /\ what = "write" /\ op[q] = "write" /\ alone[q])

Begin(p, what, steps) ==
    /\ calls < MaxCalls /\ calls' = calls + 1
    /\ Idle(p)
    /\ pc' = [pc EXCEPT ![p] = steps] /\ op' = [op EXCEPT ![p] = what]
    /\ IF Conflict(p, what)
       THEN /\ alone' = [q \in Actors |-> FALSE]
            /\ want' = [l \in 1..Leds |-> Unknown]
       ELSE alone' = [alone EXCEPT ![p] = TRUE] /\ UNCHANGED want
    /\ LET takes == \E i \in 1..Len(steps) : steps[i][1] = "request"
           other == \E q \in Actors \ {p} : Pinning(q)
       IN  pinRace' = IF takes THEN other ELSE pinRace
    /\ UNCHANGED <<driver, lock, strip, pins, refused>>

\* insmod and rmmod.
Insert ==
    /\ stage = "out" /\ stage' = "in"
    /\ Begin(Insmod, "init", InitSteps)
    /\ single' = Blank /\ leds' = Fresh
    /\ UNCHANGED files

Remove ==
    /\ stage = "in" /\ files = {} /\ stage' = "going"
    /\ Begin(Insmod, "exit", ExitSteps)
    /\ UNCHANGED <<memory, files>>

Open(p) ==
    /\ stage = "in" /\ p \notin files /\ Idle(p)
    /\ files' = files \cup {p}
    /\ UNCHANGED <<driver, stage, pc, op, lock, memory, strip, pins, history, calls>>

Write(p, led, colour) ==
    /\ p \in files /\ Begin(p, "write", WsWrite(led, colour))
    /\ UNCHANGED <<stage, files, memory>>

Reset(p) ==
    /\ p \in files /\ Begin(p, "reset", ResetLeds \o ResetGpios)
    /\ UNCHANGED <<stage, files, memory>>

\* The file is gone; the reset goes on as the last call on it.
Release(p) ==
    /\ p \in files /\ Begin(p, "release", WsRelease)
    /\ UNCHANGED <<stage, files, memory>>

-----------------------------------------------------------------------------
(* One action for each kind of step.                                        *)

Next1(p, kind) == pc[p] # <<>> /\ Head(pc[p])[1] = kind
Arg(p) == Head(pc[p])[2]

\* The call of p is over when no steps are left.
Over(p, rest) ==
    /\ pc' = [pc EXCEPT ![p] = rest]
    /\ op' = IF rest = <<>> THEN [op EXCEPT ![p] = "none"] ELSE op
    /\ files' = IF rest = <<>> /\ op[p] = "release" THEN files \ {p} ELSE files
    /\ UNCHANGED <<driver, calls>>
Pop(p) == Over(p, Tail(pc[p]))

\* A faulty variant: nobody waits for the lock.
LockWithoutWaiting(p) ==
    /\ Next1(p, "lock") /\ Pop(p)
    /\ lock' = p
    /\ UNCHANGED <<stage, memory, strip, pins, history>>

Lock(p) ==
    /\ Next1(p, "lock") /\ Pop(p)
    /\ lock = Nobody /\ lock' = p
    /\ UNCHANGED <<stage, memory, strip, pins, history>>

\* Unlock, and spin_lock_init, which comes after the device is there.
Unlock(p) ==
    /\ Next1(p, "unlock") \/ Next1(p, "lockinit")
    /\ Pop(p)
    /\ lock' = Nobody
    /\ UNCHANGED <<stage, memory, strip, pins, history>>

ColorStep(p) ==
    /\ Next1(p, "color") /\ Pop(p)
    /\ single' = Arg(p)
    /\ UNCHANGED <<stage, lock, leds, strip, pins, history>>

CopyStep(p) ==
    /\ Next1(p, "copy") /\ Pop(p)
    /\ leds' = [leds EXCEPT ![Arg(p)] = single]
    /\ UNCHANGED <<stage, lock, single, strip, pins, history>>

\* The SPI core makes one transfer at a time.  The pause before a transfer
\* makes the strip start over.
BeginTransfer(p) ==
    /\ Next1(p, "begin") /\ Pop(p)
    /\ driver = "spi" => sending = {}
    /\ sending' = sending \cup {p}
    /\ pos' = IF sending = {} THEN 1 ELSE pos
    /\ UNCHANGED <<stage, lock, memory, shown, pins, history>>

\* What comes after the last LED leaves the strip at its other end.
SendStep(p) ==
    /\ Next1(p, "send") /\ Pop(p)
    /\ LET bits == leds[Arg(p)] IN
       IF bits = Blank \/ pos > Leds
       THEN UNCHANGED <<shown, pos>>
       ELSE shown' = [shown EXCEPT ![pos] = bits] /\ pos' = pos + 1
    /\ UNCHANGED <<stage, lock, memory, sending, pins, history>>

EndTransfer(p) ==
    /\ Next1(p, "end") /\ Pop(p)
    /\ sending' = sending \ {p}
    /\ want' = IF alone[p] THEN [l \in 1..Leds |-> IF l \in DOMAIN Arg(p) THEN Arg(p)[l] ELSE want[l]]
                           ELSE want
    /\ UNCHANGED <<stage, lock, memory, pos, shown, pins, alone, pinRace, refused>>

FreePin(p) ==
    /\ Next1(p, "free") /\ Pop(p)
    /\ pins' = pins \ {Arg(p)}
    /\ UNCHANGED <<stage, lock, memory, strip, history>>

\* The request of p fails: the SPI driver goes on without the pin, the other
\* frees the pins it has got before and leaves the call.  Both return success.
GoWithoutPin(p) ==
    IF driver = "bitbang" THEN Over(p, Free([i \in 1..(Arg(p) - 1) |-> i])) ELSE Pop(p)

\* gpio_request fails if this driver has the pin, and may fail if it has not:
\* another driver holds it, or its controller refuses.
RequestPin(p) ==
    /\ Next1(p, "request")
    /\ \/ /\ Arg(p) \notin pins /\ Pop(p)
          /\ pins' = pins \cup {Arg(p)} /\ refused' = refused \ {Arg(p)}
       \/ /\ Arg(p) \in pins /\ GoWithoutPin(p)
          /\ UNCHANGED <<pins, refused>>
       \/ /\ Arg(p) \in Contested \ pins /\ GoWithoutPin(p)
          /\ refused' = refused \cup {Arg(p)} /\ UNCHANGED pins
    /\ UNCHANGED <<stage, lock, memory, strip, alone, want, pinRace>>

Unloaded(p) ==
    /\ Next1(p, "out") /\ Pop(p)
    /\ stage' = "out"
    /\ want' = [l \in 1..Leds |-> Unknown]
    /\ UNCHANGED <<lock, memory, strip, pins, alone, pinRace, refused>>

Step(p) ==
    \/ Lock(p) \/ Unlock(p) \/ ColorStep(p) \/ CopyStep(p) \/ BeginTransfer(p)
    \/ SendStep(p) \/ EndTransfer(p) \/ FreePin(p) \/ RequestPin(p) \/ Unloaded(p)

\* The bound: MaxCalls calls are made.
Stopped == calls = MaxCalls /\ Quiet /\ UNCHANGED vars

Next ==
    \/ Insert \/ Remove
    \/ \E p \in Procs : \/ Open(p) \/ Reset(p) \/ Release(p)
                        \/ \E l \in 1..Leds, c \in Colours \cup {Off} : Write(p, l, c)
    \/ \E p \in Actors : Step(p)
    \/ Stopped

Spec == Init /\ [][Next]_vars

-----------------------------------------------------------------------------
(* Properties.                                                              *)

TypeOK ==
    /\ driver \in {"spi", "bitbang"} /\ stage \in {"out", "in", "going"}
    /\ files \subseteq Procs
    /\ op \in [Actors -> {"none", "write", "reset", "release", "init", "exit"}]
    /\ lock \in Actors \cup {Nobody}
    /\ single \in Colours \cup {Off, Blank}
    /\ leds \in [1..Leds -> Colours \cup {Off, Blank}]
    /\ sending \subseteq Actors /\ Cardinality(sending) <= 1
    /\ pos \in 1..(Leds + 1)
    /\ shown \in [1..Leds -> Colours \cup {Off}]
    /\ pins \subseteq Pins /\ refused \subseteq Pins
    /\ want \in [1..Leds -> Colours \cup {Off, Unknown}]
    /\ calls \in 0..MaxCalls

\* Whoever stores into the frame sends the whole of it afterwards, so that the
\* last transfer leaves on the strip what is in memory, whatever overlapped.
ShowsMemory ==
    Quiet /\ stage = "in" /\ (\A l \in 1..Leds : leds[l] # Blank) => shown = leds

\* An LED is the colour it was last told, as long as no conflicting calls
\* overlap: the SPI driver's writes may, because of the lock.  Before every LED
\* has been drawn once, as RESET does, its strip is out of step with memory.
DrawnAsAsked ==
    Quiet /\ stage = "in" /\ (\A l \in 1..Leds : leds[l] # Blank) =>
        \A l \in 1..Leds : want[l] # Unknown =>
            leds[l] = want[l] /\ shown[l] = want[l]

\* With no file open the strip is dark: main.c ends with RESET and close.
DarkWhenClosed ==
    Quiet /\ files = {} => \A l \in 1..Leds : shown[l] = Off

\* Between calls the SPI driver lacks no pin but those it was refused, however
\* its RESETs overlap; the other, which undoes what it took, has all three or
\* after a refusal none, unless calls that take pins overlapped.
PinsKept ==
    Quiet /\ stage = "in" =>
        \/ driver = "spi" /\ pins = Pins \ refused
        \/ driver = "bitbang" /\ (pinRace \/ pins = Pins \/ (pins = {} /\ refused # {}))
=============================================================================
