---------------------------- MODULE Ws2812_proofs ----------------------------
(***************************************************************************)
(* For any LEDs and processes, either driver, and any number of calls that *)
(* overlap in any way: what is in the frame reaches the strip, the strip   *)
(* is dark when no file is open, an LED is the colour it was last told as  *)
(* long as calls do not conflict, and the pins survive RESET.              *)
(*                                                                         *)
(* A call is the sequence of the steps it has left.  What the proofs need  *)
(* of it is the set of these steps, the first of them, and what each step  *)
(* demands of those after it; that is shown of the scripts once.           *)
(***************************************************************************)
EXTENDS Ws2812, SequenceTheorems, FiniteSetTheorems, TLAPS

-----------------------------------------------------------------------------
(* The steps of a call, in their order.                                     *)

Tints == Colours \cup {Off}
Drawings == UNION {[D -> Tints] : D \in SUBSET (1..Leds)}
StepSet == {<<"lock">>, <<"unlock">>, <<"lockinit">>, <<"begin">>, <<"out">>}
           \cup ({"color"} \X Tints) \cup ({"copy", "send"} \X (1..Leds))
           \cup ({"end"} \X Drawings) \cup ({"free", "request"} \X Pins)

\* A step of that kind is among those of R.
Some(kind, R) == \E x \in R : x[1] = kind

\* What a step demands of those that come after it, R: a colour is copied to the
\* LEDs that are drawn and no other, what is copied is sent, the LEDs are
\* sent in their order, the lock is taken once, pins are freed before they are
\* requested, and requested in their order.
FitsDrawing(x, R) ==
    /\ x[1] \notin {"lock", "request"} => ~Some("color", R)
    /\ x[1] \notin {"lock", "request", "color", "copy"} => ~Some("copy", R) /\ ~Some("begin", R)
    /\ x[1] \in {"color", "copy"} => Some("begin", R) /\ Some("end", R)
    /\ x[1] = "color" => \A y \in R : y[1] = "end" => \A l \in DOMAIN y[2] :
                            y[2][l] = x[2] /\ <<"copy", l>> \in R
    /\ x[1] = "copy" => \A y \in R : y[1] = "end" => x[2] \in DOMAIN y[2]
FitsSending(x, R) ==
    /\ x[1] = "begin" => \A l \in 1..Leds : <<"send", l>> \in R
    /\ x[1] = "send" => \A l \in 1..Leds : <<"send", l>> \in R <=> x[2] < l
    /\ x[1] \in {"begin", "send"} => Some("end", R)
    /\ x[1] \in {"end", "unlock", "free", "out", "lockinit"} => ~Some("send", R) /\ ~Some("end", R)
FitsLocking(x, R) ==
    /\ x[1] = "lock" => Some("unlock", R)
    /\ x[1] \in {"begin", "send", "end", "unlock"} => ~Some("lock", R)
    /\ x[1] = "out" => R = {}
FitsPinning(x, R) ==
    /\ x[1] = "request" => ~Some("free", R) /\ \A i \in Pins : x[2] < i => <<"request", i>> \in R
    /\ x[1] = "request" /\ (Some("end", R) \/ Some("begin", R)) => Some("color", R) /\ Some("begin", R)
Fits(x, R) ==
    x \notin R /\ FitsDrawing(x, R) /\ FitsSending(x, R) /\ FitsLocking(x, R) /\ FitsPinning(x, R)

\* The steps after the i-th of s.
After(s, i) == {s[j] : j \in (i + 1)..Len(s)}

\* Every step of s fits those after it, T being those after s.
FitWith(s, T) == \A i \in 1..Len(s) : Fits(s[i], After(s, i) \cup T)

\* The steps that a call has left.
Rest(p) == Range(pc[p])
Busy(p) == Rest(p) # {}

SeqInv == pc \in [Actors -> Seq(StepSet)] /\ \A p \in Actors : FitWith(pc[p], {})

-----------------------------------------------------------------------------
(* The calls.                                                               *)

CallKinds == {"none", "write", "reset", "release", "init", "exit"}

\* What the steps left of a call tell of it.
CallShape(what, drv, R) ==
    /\ what = "release" /\ Some("color", R) => \A l \in 1..Leds : <<"copy", l>> \in R
    /\ what = "release" /\ Some("copy", R) => \A l \in 1..Leds : <<"send", l>> \in R
    /\ \A x \in R : x[1] = "color" /\ x[2] # Off => what = "write"
    /\ <<"out">> \in R <=> what = "exit"
    /\ <<"lockinit">> \in R => what = "init" /\ drv = "spi"
    /\ drv = "bitbang" /\ Some("end", R) => <<"unlock">> \in R
    /\ drv = "spi" /\ what = "write" /\ Some("end", R) => <<"unlock">> \in R
    /\ drv = "spi" /\ what # "write" => <<"lock">> \notin R /\ <<"unlock">> \notin R
    /\ drv = "spi" /\ <<"lock">> \in R => Some("color", R)
    /\ what \in {"write", "release"} => ~Some("free", R) /\ ~Some("request", R)
    /\ what = "exit" => ~Some("request", R)

\* What holds of a call at its beginning, and not later.
CallStart(what, drv, R) ==
    /\ Some("copy", R) \/ Some("begin", R) \/ Some("end", R) => Some("color", R) /\ Some("begin", R)
    /\ <<"unlock">> \in R => <<"lock">> \in R
    /\ what = "reset" => \A i \in Pins : <<"free", i>> \in R /\ <<"request", i>> \in R
    /\ what = "init" => ~Some("free", R) /\ \A i \in Pins : <<"request", i>> \in R
    /\ what = "exit" => \A i \in Pins : <<"free", i>> \in R
    /\ what = "release" => Some("color", R) /\ \A l \in 1..Leds : <<"send", l>> \in R

CallInv ==
    /\ driver \in {"spi", "bitbang"} /\ stage \in {"out", "in", "going"} /\ files \subseteq Procs
    /\ op \in [Actors -> CallKinds] /\ alone \in [Actors -> BOOLEAN]
    /\ \A p \in Actors : op[p] = "none" <=> ~Busy(p)
    /\ \A p \in Procs : op[p] \in {"none", "write", "reset", "release"} /\ (Busy(p) => p \in files)
    /\ op[Insmod] \in {"none", "init", "exit"} /\ (op[Insmod] = "exit" <=> stage = "going")
    /\ stage = "out" => ~Busy(Insmod)
    /\ stage # "in" => files = {}
    /\ \A p \in Actors : CallShape(op[p], driver, Rest(p))

-----------------------------------------------------------------------------
(* Conflicts, the lock and the transfers.                                   *)

\* A call is between its lock and its unlock.
Inside(p) == <<"unlock">> \in Rest(p) /\ <<"lock">> \notin Rest(p)

\* Calls that overlap are all in conflict or all writes of the SPI driver.
AloneInv ==
    /\ \A p, q \in Actors : Busy(p) /\ Busy(q) => (alone[p] <=> alone[q])
    /\ \A p, q \in Actors : Busy(p) /\ Busy(q) /\ p # q /\ alone[p] => driver = "spi" /\ op[p] = "write"

LockInv ==
    /\ lock \in Actors \cup {Nobody}
    /\ driver = "spi" => \A p \in Actors : <<"lock">> \in Rest(p) => Head(pc[p]) = <<"lock">>
    /\ \A p \in Actors : Inside(p) /\ (driver = "bitbang" \/ alone[p]) => lock = p

\* One transfer at a time.
SendInv ==
    /\ sending \subseteq Actors
    /\ \A p \in Actors : p \in sending <=> Some("end", Rest(p)) /\ ~Some("begin", Rest(p))
    /\ \A p \in sending : ~Some("lock", Rest(p))
    /\ \A p, q \in sending : p = q
    /\ pos \in 1..(Leds + 1)

-----------------------------------------------------------------------------
(* Memory and strip.                                                        *)

\* A call has stored its colour and will send it.
Coming(p) == Some("begin", Rest(p)) /\ ~Some("color", Rest(p))

\* The next LED to be sent is the next of the strip.
OnTrack(p) == \A l \in 1..Leds : <<"send", l>> \in Rest(p) <=> pos <= l

ShowInv ==
    (\A l \in 1..Leds : leds[l] # Blank) =>
        \/ \E p \in Actors : Coming(p)
        \/ sending = {} /\ \A l \in 1..Leds : shown[l] = leds[l]
        \/ \E p \in sending : OnTrack(p) /\ \A l \in 1..Leds : l < pos => shown[l] = leds[l]

DataType ==
    /\ single \in Tints \cup {Blank} /\ leds \in [1..Leds -> Tints \cup {Blank}]
    /\ shown \in [1..Leds -> Tints]

\* A device is open that has not begun its release, or whose release will still
\* reach what is not dark.
DarkInv ==
    /\ single \notin {Off, Blank} => \E p \in files : op[p] # "release" \/ Some("color", Rest(p))
    /\ \A l \in 1..Leds : leds[l] \notin {Off, Blank} =>
          \E p \in files : op[p] # "release" \/ <<"copy", l>> \in Rest(p)
    /\ \A l \in 1..Leds : shown[l] # Off =>
          \E p \in files : op[p] # "release" \/ <<"send", l>> \in Rest(p)
    /\ \A p \in Actors : Some("copy", Rest(p)) /\ ~Some("color", Rest(p)) => single # Blank
    /\ \A p \in Actors, l \in 1..Leds :
          op[p] = "release" /\ <<"copy", l>> \notin Rest(p) => leds[l] # Blank
    /\ \A p \in sending : op[p] = "release" => OnTrack(p)

\* A call under way draws l, and its colour is stored.
Drawing(p, l) == ~Some("color", Rest(p)) /\ \E x \in Rest(p) : x[1] = "end" /\ l \in DOMAIN x[2]

\* What an LED was last told is in memory, or being drawn anew; a call that no
\* other disturbs has in memory what it draws.
WantInv ==
    /\ want \in [1..Leds -> Tints \cup {Unknown}]
    /\ stage = "out" => \A l \in 1..Leds : want[l] = Unknown
    /\ \A p \in Actors : Busy(p) /\ ~alone[p] => \A l \in 1..Leds : want[l] = Unknown
    /\ \A l \in 1..Leds : want[l] # Unknown => leds[l] = want[l] \/ \E p \in Actors : Drawing(p, l)
    /\ \A p \in Actors : alone[p] /\ ~Some("color", Rest(p)) =>
          \A x \in Rest(p) : x[1] = "end" => \A l \in DOMAIN x[2] :
              IF <<"copy", l>> \in Rest(p) THEN single = x[2][l] ELSE leds[l] = x[2][l]

-----------------------------------------------------------------------------
(* Pins.                                                                    *)

TakesPins(p) == Some("free", Rest(p)) \/ Some("request", Rest(p))

\* p has freed some pins, or will, and has some yet to request.
Retakes(p) ==
    /\ Some("request", Rest(p))
    /\ \A i \in Pins :
          /\ <<"free", i>> \in Rest(p) => <<"request", i>> \in Rest(p)
          /\ <<"request", i>> \in Rest(p) \/ i \in pins
          /\ <<"request", i>> \in Rest(p) /\ i \in pins => <<"free", i>> \in Rest(p)

\* p was refused a pin and gives back what it had got.
GivesBack(p) ==
    ~Some("request", Rest(p)) /\ refused # {} /\ \A i \in pins : <<"free", i>> \in Rest(p)

AllOrNone == pins = Pins \/ (pins = {} /\ refused # {})

PinInv ==
    /\ pins \subseteq Pins /\ refused \subseteq Pins /\ pins \cap refused = {}
    /\ driver = "spi" /\ stage = "in" => \A i \in Pins :
          i \in pins \/ i \in refused \/ \E p \in Actors : <<"request", i>> \in Rest(p)
    /\ driver = "spi" => \A p \in Actors, i \in Pins :
          op[p] # "exit" /\ <<"free", i>> \in Rest(p) => <<"request", i>> \in Rest(p)
    /\ driver = "bitbang" /\ stage = "out" => pins = {}
    /\ driver = "bitbang" /\ stage = "going" => \A i \in pins : <<"free", i>> \in Rest(Insmod)
    /\ driver = "bitbang" /\ stage = "in" /\ ~pinRace =>
          /\ \A p, q \in Actors : TakesPins(p) /\ TakesPins(q) => p = q
          /\ (\A p \in Actors : ~TakesPins(p)) => AllOrNone
          /\ \A p \in Actors : TakesPins(p) => Retakes(p) \/ GivesBack(p)

-----------------------------------------------------------------------------
(* Sequences of steps.                                                      *)

LEMMA StepKinds ==
    ASSUME NEW x \in StepSet
    PROVE  /\ x[1] \in {"lock", "unlock", "lockinit", "begin", "out", "color", "copy", "send", "end",
                        "free", "request"}
           /\ x[1] \in {"lock", "unlock", "lockinit", "begin", "out"} => x = <<x[1]>>
           /\ x[1] \in {"color", "copy", "send", "end", "free", "request"} => x = <<x[1], x[2]>>
           /\ x[1] = "color" => x[2] \in Tints
           /\ x[1] \in {"copy", "send"} => x[2] \in 1..Leds
           /\ x[1] = "end" => x[2] \in Drawings
           /\ x[1] \in {"free", "request"} => x[2] \in Pins
<1>1. CASE x \in {<<"lock">>, <<"unlock">>, <<"lockinit">>, <<"begin">>, <<"out">>}
  BY <1>1
<1>2. CASE x \in {"color"} \X Tints
  BY <1>2
<1>3. CASE x \in {"copy", "send"} \X (1..Leds)
  BY <1>3
<1>4. CASE x \in {"end"} \X Drawings
  BY <1>4
<1>5. CASE x \in {"free", "request"} \X Pins
  BY <1>5
<1> QED
  BY <1>1, <1>2, <1>3, <1>4, <1>5 DEF StepSet

LEMMA RangeOf ==
    ASSUME NEW s \in Seq(StepSet)
    PROVE  /\ Range(s) = {s[i] : i \in 1..Len(s)} /\ Range(s) \subseteq StepSet
           /\ Range(s) = {} <=> s = <<>>
<1>1. Range(s) = {s[i] : i \in 1..Len(s)} /\ Range(s) \subseteq StepSet
  BY RangeEquality, RangeOfSeq
<1>2. s # <<>> => 1 \in 1..Len(s)
  OBVIOUS
<1>3. s = <<>> => 1..Len(s) = {}
  OBVIOUS
<1> QED
  BY <1>1, <1>2, <1>3

\* What is left of a call after its first step.
LEMMA Advance ==
    ASSUME NEW s \in Seq(StepSet), FitWith(s, {}), s # <<>>
    PROVE  /\ Tail(s) \in Seq(StepSet) /\ FitWith(Tail(s), {})
           /\ Head(s) \in Range(s) /\ Head(s) \in StepSet
           /\ Range(Tail(s)) = Range(s) \ {Head(s)}
           /\ Fits(Head(s), Range(Tail(s)))
<1>1. /\ Len(s) \in Nat \ {0} /\ Head(s) = s[1]
      /\ Tail(s) \in Seq(StepSet) /\ Len(Tail(s)) = Len(s) - 1
      /\ \A i \in 1..Len(Tail(s)) : Tail(s)[i] = s[i + 1]
  BY HeadTailProperties
<1>2. \A i \in 1..Len(Tail(s)) : i + 1 \in 1..Len(s) /\ After(Tail(s), i) = After(s, i + 1)
  <2> SUFFICES ASSUME NEW i \in 1..Len(Tail(s))
               PROVE  i + 1 \in 1..Len(s) /\ After(Tail(s), i) = After(s, i + 1)
    OBVIOUS
  <2>1. \A x \in After(Tail(s), i) : x \in After(s, i + 1)
    <3> SUFFICES ASSUME NEW j \in (i + 1)..Len(Tail(s)) PROVE Tail(s)[j] \in After(s, i + 1)
      BY DEF After
    <3>1. j \in 1..Len(Tail(s)) /\ j + 1 \in ((i + 1) + 1)..Len(s)
      BY <1>1
    <3> QED
      BY <1>1, <3>1 DEF After
  <2>2. \A x \in After(s, i + 1) : x \in After(Tail(s), i)
    <3> SUFFICES ASSUME NEW j \in ((i + 1) + 1)..Len(s) PROVE s[j] \in After(Tail(s), i)
      BY DEF After
    <3>1. j - 1 \in (i + 1)..Len(Tail(s)) /\ j - 1 \in 1..Len(Tail(s)) /\ (j - 1) + 1 = j
      BY <1>1
    <3>2. Tail(s)[j - 1] = s[j]
      BY <1>1, <3>1
    <3> QED
      BY <3>1, <3>2 DEF After
  <2> QED
    BY <1>1, <2>1, <2>2
<1>3. FitWith(Tail(s), {})
  BY <1>1, <1>2 DEF FitWith
<1>4. Range(Tail(s)) = After(s, 1)
  <2>0. Range(Tail(s)) = {Tail(s)[j] : j \in 1..Len(Tail(s))}
    BY <1>1, RangeOf
  <2>1. \A x \in Range(Tail(s)) : x \in After(s, 1)
    <3> SUFFICES ASSUME NEW j \in 1..Len(Tail(s)) PROVE Tail(s)[j] \in After(s, 1)
      BY <2>0
    <3>1. j + 1 \in (1 + 1)..Len(s) /\ Tail(s)[j] = s[j + 1]
      BY <1>1
    <3> QED
      BY <3>1 DEF After
  <2>2. \A x \in After(s, 1) : x \in Range(Tail(s))
    <3> SUFFICES ASSUME NEW j \in (1 + 1)..Len(s) PROVE s[j] \in Range(Tail(s))
      BY DEF After
    <3>1. j - 1 \in 1..Len(Tail(s)) /\ (j - 1) + 1 = j
      BY <1>1
    <3>2. Tail(s)[j - 1] = s[j]
      BY <1>1, <3>1
    <3> QED
      BY <2>0, <3>1, <3>2
  <2> QED
    BY <2>1, <2>2
<1>5. 1 \in 1..Len(s) /\ Head(s) \in Range(s) /\ Head(s) \in StepSet
  BY <1>1, RangeOf
<1>6. Fits(s[1], After(s, 1) \cup {})
  BY <1>5 DEF FitWith
<1>7. Fits(Head(s), After(s, 1))
  <2>1. After(s, 1) \cup {} = After(s, 1)
    OBVIOUS
  <2> QED
    BY <1>1, <1>6, <2>1
<1>8. Range(s) = {Head(s)} \cup After(s, 1)
  <2>1. \A j \in 1..Len(s) : j = 1 \/ j \in (1 + 1)..Len(s)
    BY <1>1
  <2>2. \A j \in (1 + 1)..Len(s) : j \in 1..Len(s)
    BY <1>1
  <2> QED
    BY <1>1, <1>5, <2>1, <2>2, RangeOf DEF After
<1>9. Head(s) \notin After(s, 1)
  BY <1>7 DEF Fits
<1> QED
  BY <1>1, <1>3, <1>4, <1>5, <1>7, <1>8, <1>9

\* A script is put together from its parts.
LEMMA Join ==
    ASSUME NEW s \in Seq(StepSet), NEW t \in Seq(StepSet), NEW T,
           FitWith(s, Range(t) \cup T), FitWith(t, T)
    PROVE  s \o t \in Seq(StepSet) /\ Range(s \o t) = Range(s) \cup Range(t) /\ FitWith(s \o t, T)
<1>1. /\ Len(s) \in Nat /\ Len(t) \in Nat /\ Len(s \o t) = Len(s) + Len(t)
      /\ \A i \in 1..(Len(s) + Len(t)) : (s \o t)[i] = IF i <= Len(s) THEN s[i] ELSE t[i - Len(s)]
      /\ s \o t \in Seq(StepSet)
  BY ConcatProperties
<1>2. Range(s \o t) = Range(s) \cup Range(t)
  BY RangeConcatenation
<1>3. ASSUME NEW i \in 1..Len(s) PROVE Fits((s \o t)[i], After(s \o t, i) \cup T)
  <2>1. (s \o t)[i] = s[i] /\ i \in 1..(Len(s) + Len(t))
    BY <1>1
  <2>2. \A x \in After(s \o t, i) : x \in After(s, i) \cup Range(t)
    <3> SUFFICES ASSUME NEW j \in (i + 1)..Len(s \o t) PROVE (s \o t)[j] \in After(s, i) \cup Range(t)
      BY DEF After
    <3>1. j \in 1..(Len(s) + Len(t))
      BY <1>1
    <3>2. CASE j <= Len(s)
      BY <1>1, <3>1, <3>2 DEF After
    <3>3. CASE ~(j <= Len(s))
      <4>1. j - Len(s) \in 1..Len(t)
        BY <1>1, <3>1, <3>3
      <4> QED
        BY <1>1, <3>1, <3>3, <4>1, RangeOf
    <3> QED
      BY <3>2, <3>3
  <2>3. \A x \in After(s, i) : x \in After(s \o t, i)
    <3> SUFFICES ASSUME NEW j \in (i + 1)..Len(s) PROVE s[j] \in After(s \o t, i)
      BY DEF After
    <3>1. j \in (i + 1)..Len(s \o t) /\ (s \o t)[j] = s[j]
      BY <1>1
    <3> QED
      BY <3>1 DEF After
  <2>4. \A x \in Range(t) : x \in After(s \o t, i)
    <3> SUFFICES ASSUME NEW j \in 1..Len(t) PROVE t[j] \in After(s \o t, i)
      BY RangeOf
    <3>1. /\ Len(s) + j \in (i + 1)..Len(s \o t) /\ Len(s) + j \in 1..(Len(s) + Len(t))
          /\ ~(Len(s) + j <= Len(s)) /\ (Len(s) + j) - Len(s) = j
      BY <1>1
    <3>2. (s \o t)[Len(s) + j] = t[j]
      BY <1>1, <3>1
    <3> QED
      BY <3>1, <3>2 DEF After
  <2>5. After(s \o t, i) \cup T = After(s, i) \cup (Range(t) \cup T)
    BY <2>2, <2>3, <2>4
  <2>6. Fits(s[i], After(s, i) \cup (Range(t) \cup T))
    BY DEF FitWith
  <2> QED
    BY <2>1, <2>5, <2>6
<1>4. ASSUME NEW i \in 1..Len(t) PROVE Fits((s \o t)[Len(s) + i], After(s \o t, Len(s) + i) \cup T)
  <2>0. /\ Len(s) + i \in 1..(Len(s) + Len(t)) /\ ~(Len(s) + i <= Len(s)) /\ (Len(s) + i) - Len(s) = i
    BY <1>1
  <2>1. (s \o t)[Len(s) + i] = t[i]
    BY <1>1, <2>0
  <2>2. \A x \in After(s \o t, Len(s) + i) : x \in After(t, i)
    <3> SUFFICES ASSUME NEW j \in ((Len(s) + i) + 1)..Len(s \o t) PROVE (s \o t)[j] \in After(t, i)
      BY DEF After
    <3>1. j \in 1..(Len(s) + Len(t)) /\ ~(j <= Len(s)) /\ j - Len(s) \in (i + 1)..Len(t)
      BY <1>1
    <3> QED
      BY <1>1, <3>1 DEF After
  <2>3. \A x \in After(t, i) : x \in After(s \o t, Len(s) + i)
    <3> SUFFICES ASSUME NEW j \in (i + 1)..Len(t) PROVE t[j] \in After(s \o t, Len(s) + i)
      BY DEF After
    <3>1. /\ Len(s) + j \in ((Len(s) + i) + 1)..Len(s \o t) /\ Len(s) + j \in 1..(Len(s) + Len(t))
          /\ ~(Len(s) + j <= Len(s)) /\ (Len(s) + j) - Len(s) = j
      BY <1>1
    <3>2. (s \o t)[Len(s) + j] = t[j]
      BY <1>1, <3>1
    <3> QED
      BY <3>1, <3>2 DEF After
  <2>4. After(s \o t, Len(s) + i) \cup T = After(t, i) \cup T
    BY <2>2, <2>3
  <2> QED
    BY <2>1, <2>4 DEF FitWith
<1>5. \A i \in 1..Len(s \o t) : i \in 1..Len(s) \/ \E j \in 1..Len(t) : i = Len(s) + j
  <2> SUFFICES ASSUME NEW i \in 1..Len(s \o t), i \notin 1..Len(s) PROVE \E j \in 1..Len(t) : i = Len(s) + j
    OBVIOUS
  <2>1. i - Len(s) \in 1..Len(t) /\ i = Len(s) + (i - Len(s))
    BY <1>1
  <2> QED
    BY <2>1
<1>6. FitWith(s \o t, T)
  BY <1>3, <1>4, <1>5 DEF FitWith
<1> QED
  BY <1>1, <1>2, <1>6

-----------------------------------------------------------------------------
(* The scripts.                                                             *)

LEMMA OneStep ==
    ASSUME NEW x \in StepSet, NEW T, Fits(x, T)
    PROVE  <<x>> \in Seq(StepSet) /\ Range(<<x>>) = {x} /\ FitWith(<<x>>, T)
<1>1. <<x>> \in Seq(StepSet) /\ Len(<<x>>) = 1 /\ <<x>>[1] = x
  OBVIOUS
<1>2. After(<<x>>, 1) = {}
  BY <1>1 DEF After
<1>3. After(<<x>>, 1) \cup T = T
  BY <1>2
<1>4. \A i \in 1..1 : i = 1
  OBVIOUS
<1>5. FitWith(<<x>>, T)
  BY <1>1, <1>3, <1>4 DEF FitWith
<1>6. Range(<<x>>) = {<<x>>[i] : i \in 1..1}
  BY <1>1, RangeOf
<1> QED
  BY <1>1, <1>4, <1>5, <1>6

AllCopies == {<<"copy", l>> : l \in 1..Leds}
AllSends == {<<"send", l>> : l \in 1..Leds}

LEMMA CopiesFit ==
    ASSUME NEW T, ~Some("color", T), ~Some("copy", T), Some("begin", T), Some("end", T),
           \A y \in T : y[1] = "end" => DOMAIN y[2] = 1..Leds
    PROVE  CopyToAll \in Seq(StepSet) /\ Range(CopyToAll) = AllCopies /\ FitWith(CopyToAll, T)
<1>0. Leds \in Nat
  BY WsAssumption
<1>1. \A l \in 1..Leds : <<"copy", l>> \in StepSet
  BY DEF StepSet
<1>2. /\ CopyToAll \in Seq(StepSet) /\ Len(CopyToAll) = Leds
      /\ \A i \in 1..Leds : CopyToAll[i] = <<"copy", i>>
  BY <1>0, <1>1 DEF CopyToAll
<1>3. Range(CopyToAll) = AllCopies
  <2>1. Range(CopyToAll) = {CopyToAll[i] : i \in 1..Leds}
    BY <1>2, RangeOf
  <2> QED
    BY <1>2, <2>1 DEF AllCopies
<1>4. ASSUME NEW i \in 1..Leds PROVE Fits(CopyToAll[i], After(CopyToAll, i) \cup T)
  <2>1. \A y \in After(CopyToAll, i) : y[1] = "copy" /\ y # <<"copy", i>>
    BY <1>0, <1>2 DEF After
  <2>2. <<"copy", i>> \notin T
    BY DEF Some
  <2>3. <<"copy", i>>[1] = "copy" /\ <<"copy", i>>[2] = i
    OBVIOUS
  <2> DEFINE R == After(CopyToAll, i) \cup T
  <2>4. \A y \in R : y \in T \/ (y[1] = "copy" /\ y # <<"copy", i>>)
    BY <2>1
  <2>5. \A y \in T : y \in R
    OBVIOUS
  <2> HIDE DEF R
  <2>6. Fits(<<"copy", i>>, R)
    <3>1. <<"copy", i>> \notin R
      BY <2>2, <2>4
    <3>2. FitsDrawing(<<"copy", i>>, R)
      BY <2>3, <2>4, <2>5 DEF FitsDrawing, Some
    <3>3. FitsSending(<<"copy", i>>, R) /\ FitsLocking(<<"copy", i>>, R) /\ FitsPinning(<<"copy", i>>, R)
      BY <2>3 DEF FitsSending, FitsLocking, FitsPinning
    <3> QED
      BY <3>1, <3>2, <3>3 DEF Fits
  <2> QED
    BY <1>2, <2>6 DEF R
<1> QED
  BY <1>2, <1>3, <1>4 DEF FitWith

Sends == [l \in 1..Leds |-> <<"send", l>>]
BitSteps(drawn) == {<<"begin">>} \cup AllSends \cup {<<"end", drawn>>}

LEMMA SendsFit ==
    ASSUME NEW T, Some("end", T), \A y \in T : y[1] \in {"end", "unlock", "free", "request", "out"}
    PROVE  Sends \in Seq(StepSet) /\ Range(Sends) = AllSends /\ FitWith(Sends, T)
<1>0. Leds \in Nat
  BY WsAssumption
<1>1. \A l \in 1..Leds : <<"send", l>> \in StepSet
  BY DEF StepSet
<1>2. /\ Sends \in Seq(StepSet) /\ Len(Sends) = Leds
      /\ \A i \in 1..Leds : Sends[i] = <<"send", i>>
  BY <1>0, <1>1 DEF Sends
<1>3. Range(Sends) = AllSends
  <2>1. Range(Sends) = {Sends[i] : i \in 1..Leds}
    BY <1>2, RangeOf
  <2> QED
    BY <1>2, <2>1 DEF AllSends
<1>4. ASSUME NEW i \in 1..Leds PROVE Fits(Sends[i], After(Sends, i) \cup T)
  <2> DEFINE R == After(Sends, i) \cup T
  <2>1. \A y \in R : y \in T \/ \E l \in 1..Leds : y = <<"send", l>> /\ i < l
    <3>1. \A l \in (i + 1)..Leds : l \in 1..Leds /\ i < l
      BY <1>0
    <3>2. \A y \in After(Sends, i) : \E l \in (i + 1)..Leds : y = Sends[l]
      BY <1>2 DEF After
    <3> QED
      BY <1>2, <3>1, <3>2
  <2>2. \A l \in 1..Leds : i < l => <<"send", l>> \in R
    <3> SUFFICES ASSUME NEW l \in 1..Leds, i < l PROVE <<"send", l>> \in After(Sends, i)
      OBVIOUS
    <3>1. l \in (i + 1)..Len(Sends) /\ Sends[l] = <<"send", l>>
      BY <1>0, <1>2
    <3> QED
      BY <3>1 DEF After
  <2>3. \A l \in 1..Leds : <<"send", l>>[1] = "send" /\ <<"send", l>>[2] = l
    OBVIOUS
  <2>4. \A l \in 1..Leds : <<"send", l>> \notin T
    BY <2>3
  <2>5. \A y \in T : y \in R
    OBVIOUS
  <2>6. ~(i < i)
    BY <1>0
  <2> HIDE DEF R
  <2>7. \A l \in 1..Leds : <<"send", l>> \in R <=> i < l
    BY <2>1, <2>2, <2>3, <2>4
  <2>8. \A y \in R : y[1] \in {"send", "end", "unlock", "free", "request", "out"}
    BY <2>1, <2>3
  <2>9. Some("end", R)
    BY <2>5 DEF Some
  <2>10. FitsDrawing(<<"send", i>>, R)
    BY <2>3, <2>8 DEF FitsDrawing, Some
  <2>11. FitsSending(<<"send", i>>, R)
    BY <2>3, <2>7, <2>9 DEF FitsSending
  <2>12. FitsLocking(<<"send", i>>, R) /\ FitsPinning(<<"send", i>>, R)
    BY <2>3, <2>8 DEF FitsLocking, FitsPinning, Some
  <2>13. Fits(<<"send", i>>, R)
    BY <2>6, <2>7, <2>10, <2>11, <2>12 DEF Fits
  <2> QED
    BY <1>2, <2>13 DEF R
<1> QED
  BY <1>2, <1>3, <1>4 DEF FitWith

LEMMA BitsFit ==
    ASSUME NEW drawn \in Drawings, NEW T, \A y \in T : y[1] \in {"unlock", "free", "request", "out"}
    PROVE  Bits(drawn) \in Seq(StepSet) /\ Range(Bits(drawn)) = BitSteps(drawn) /\ FitWith(Bits(drawn), T)
<1> DEFINE e == <<"end", drawn>>
           b == <<"begin">>
<1>1. e \in StepSet /\ b \in StepSet /\ e[1] = "end" /\ e[2] = drawn /\ b[1] = "begin"
  BY DEF StepSet
<1> HIDE DEF e, b
<1>2. <<e>> \in Seq(StepSet) /\ Range(<<e>>) = {e} /\ FitWith(<<e>>, T)
  <2>1. Fits(e, T)
    <3>1. e \notin T
      BY <1>1
    <3>2. FitsDrawing(e, T) /\ FitsSending(e, T) /\ FitsLocking(e, T) /\ FitsPinning(e, T)
      BY <1>1 DEF FitsDrawing, FitsSending, FitsLocking, FitsPinning, Some
    <3> QED
      BY <3>1, <3>2 DEF Fits
  <2> QED
    BY <1>1, <2>1, OneStep
<1>3. Sends \in Seq(StepSet) /\ Range(Sends) = AllSends /\ FitWith(Sends, {e} \cup T)
  <2>1. Some("end", {e} \cup T) /\ \A y \in {e} \cup T : y[1] \in {"end", "unlock", "free", "request", "out"}
    BY <1>1 DEF Some
  <2> QED
    BY <2>1, SendsFit
<1>4. <<b>> \in Seq(StepSet) /\ Range(<<b>>) = {b} /\ FitWith(<<b>>, AllSends \cup ({e} \cup T))
  <2> DEFINE R == AllSends \cup ({e} \cup T)
  <2>1. \A l \in 1..Leds : <<"send", l>> \in R
    BY DEF AllSends
  <2>2. \A y \in R : y[1] \in {"send", "end", "unlock", "free", "request", "out"}
    BY <1>1 DEF AllSends
  <2>3. e \in R
    OBVIOUS
  <2> HIDE DEF R
  <2>4. Fits(b, R)
    <3>1. b \notin R
      BY <1>1, <2>2
    <3>2. FitsDrawing(b, R) /\ FitsLocking(b, R) /\ FitsPinning(b, R)
      BY <1>1, <2>2 DEF FitsDrawing, FitsLocking, FitsPinning, Some
    <3>3. FitsSending(b, R)
      BY <1>1, <2>1, <2>3 DEF FitsSending, Some
    <3> QED
      BY <3>1, <3>2, <3>3 DEF Fits
  <2> QED
    BY <1>1, <2>4, OneStep DEF R
<1>5. <<b>> \o Sends \in Seq(StepSet) /\ Range(<<b>> \o Sends) = {b} \cup AllSends
      /\ FitWith(<<b>> \o Sends, {e} \cup T)
  BY <1>3, <1>4, Join
<1>6. (<<b>> \o Sends) \o <<e>> \in Seq(StepSet)
      /\ Range((<<b>> \o Sends) \o <<e>>) = ({b} \cup AllSends) \cup {e}
      /\ FitWith((<<b>> \o Sends) \o <<e>>, T)
  BY <1>2, <1>5, Join
<1> QED
  BY <1>6 DEF Bits, Sends, BitSteps, e, b

LEMMA LockedFit ==
    ASSUME NEW s \in Seq(StepSet), NEW T, \A y \in T : y[1] \in {"free", "request", "out"},
           \A y \in Range(s) : y[1] # "lock", FitWith(s, {<<"unlock">>} \cup T)
    PROVE  /\ Locked(s) \in Seq(StepSet) /\ FitWith(Locked(s), T)
           /\ Range(Locked(s)) = {<<"lock">>, <<"unlock">>} \cup Range(s)
<1> DEFINE k == <<"lock">>
           u == <<"unlock">>
<1>1. k \in StepSet /\ u \in StepSet /\ k[1] = "lock" /\ u[1] = "unlock"
  BY DEF StepSet
<1> HIDE DEF k, u
<1>2. <<u>> \in Seq(StepSet) /\ Range(<<u>>) = {u} /\ FitWith(<<u>>, T)
  <2>1. u \notin T
    BY <1>1
  <2>2. FitsDrawing(u, T) /\ FitsSending(u, T) /\ FitsLocking(u, T) /\ FitsPinning(u, T)
    BY <1>1 DEF FitsDrawing, FitsSending, FitsLocking, FitsPinning, Some
  <2> QED
    BY <1>1, <2>1, <2>2, OneStep DEF Fits
<1>3. <<k>> \in Seq(StepSet) /\ Range(<<k>>) = {k} /\ FitWith(<<k>>, Range(s) \cup ({u} \cup T))
  <2> DEFINE R == Range(s) \cup ({u} \cup T)
  <2>1. \A y \in R : y[1] # "lock"
    BY <1>1
  <2>2. u \in R
    OBVIOUS
  <2> HIDE DEF R
  <2>3. k \notin R
    BY <1>1, <2>1
  <2>4. FitsDrawing(k, R) /\ FitsSending(k, R) /\ FitsLocking(k, R) /\ FitsPinning(k, R)
    BY <1>1, <2>1, <2>2 DEF FitsDrawing, FitsSending, FitsLocking, FitsPinning, Some
  <2> QED
    BY <1>1, <2>3, <2>4, OneStep DEF Fits, R
<1>4. FitWith(s, {u} \cup T)
  BY DEF u
<1>5. <<k>> \o s \in Seq(StepSet) /\ Range(<<k>> \o s) = {k} \cup Range(s)
      /\ FitWith(<<k>> \o s, {u} \cup T)
  BY <1>3, <1>4, Join
<1>6. (<<k>> \o s) \o <<u>> \in Seq(StepSet)
      /\ Range((<<k>> \o s) \o <<u>>) = ({k} \cup Range(s)) \cup {u}
      /\ FitWith((<<k>> \o s) \o <<u>>, T)
  BY ZenonT(60), <1>2, <1>5, Join
<1> QED
  BY <1>6 DEF Locked, k, u

LEMMA LockedAloneFit ==
    ASSUME NEW s \in Seq(StepSet), \A y \in Range(s) : y[1] # "lock", FitWith(s, {<<"unlock">>})
    PROVE  /\ Locked(s) \in Seq(StepSet) /\ FitWith(Locked(s), {})
           /\ Range(Locked(s)) = {<<"lock">>, <<"unlock">>} \cup Range(s)
<1>1. PICK T : T = {}
  OBVIOUS
<1>2. {<<"unlock">>} \cup T = {<<"unlock">>} /\ \A y \in T : y[1] \in {"free", "request", "out"}
  BY <1>1
<1>3. FitWith(s, {<<"unlock">>} \cup T)
  BY <1>2
<1>4. /\ Locked(s) \in Seq(StepSet) /\ FitWith(Locked(s), T)
      /\ Range(Locked(s)) = {<<"lock">>, <<"unlock">>} \cup Range(s)
  BY <1>2, <1>3, LockedFit
<1> QED
  BY <1>1, <1>4

TransferSteps(drawn) ==
    BitSteps(drawn) \cup IF driver = "spi" THEN {} ELSE {<<"lock">>, <<"unlock">>}

LEMMA BitKinds ==
    ASSUME NEW drawn \in Drawings
    PROVE  \A y \in BitSteps(drawn) : /\ y[1] \in {"begin", "send", "end"}
                                      /\ y[1] = "end" => y = <<"end", drawn>>
BY DEF BitSteps, AllSends

LEMMA TransferFit ==
    ASSUME NEW drawn \in Drawings, NEW T, \A y \in T : y[1] \in {"free", "request", "out"}
    PROVE  /\ Transfer(drawn) \in Seq(StepSet) /\ FitWith(Transfer(drawn), T)
           /\ Range(Transfer(drawn)) = TransferSteps(drawn)
<1>1. CASE driver = "spi"
  <2>1. \A y \in T : y[1] \in {"unlock", "free", "request", "out"}
    OBVIOUS
  <2> QED
    BY <1>1, <2>1, BitsFit DEF Transfer, SpiTransfer, TransferSteps
<1>2. CASE driver # "spi"
  <2>1. \A y \in {<<"unlock">>} \cup T : y[1] \in {"unlock", "free", "request", "out"}
    OBVIOUS
  <2>2. /\ Bits(drawn) \in Seq(StepSet) /\ Range(Bits(drawn)) = BitSteps(drawn)
        /\ FitWith(Bits(drawn), {<<"unlock">>} \cup T)
    BY <2>1, BitsFit
  <2>3. \A y \in Range(Bits(drawn)) : y[1] # "lock"
    BY <2>2, BitKinds
  <2> QED
    BY <1>2, <2>2, <2>3, LockedFit DEF Transfer, BangTransfer, TransferSteps
<1> QED
  BY <1>1, <1>2

\* What draws: a colour, its copies, and what sends them.
LEMMA ColorFit ==
    ASSUME NEW c \in Tints, NEW T, ~Some("color", T), Some("begin", T), Some("end", T),
           \A y \in T : y[1] = "end" => \A l \in DOMAIN y[2] : y[2][l] = c /\ <<"copy", l>> \in T
    PROVE  /\ SetColor(c) \in Seq(StepSet) /\ Range(SetColor(c)) = {<<"color", c>>}
           /\ FitWith(SetColor(c), T)
<1> DEFINE x == <<"color", c>>
<1>1. x \in StepSet /\ x[1] = "color" /\ x[2] = c
  BY DEF StepSet
<1> HIDE DEF x
<1>2. x \notin T
  BY <1>1 DEF Some
<1>3. FitsDrawing(x, T) /\ FitsSending(x, T) /\ FitsLocking(x, T) /\ FitsPinning(x, T)
  BY <1>1 DEF FitsDrawing, FitsSending, FitsLocking, FitsPinning
<1> QED
  BY <1>1, <1>2, <1>3, OneStep DEF Fits, SetColor, x

LEMMA CopyFit ==
    ASSUME NEW led \in 1..Leds, NEW T, ~Some("color", T), ~Some("copy", T), Some("begin", T), Some("end", T),
           \A y \in T : y[1] = "end" => led \in DOMAIN y[2]
    PROVE  /\ CopyTo(led) \in Seq(StepSet) /\ Range(CopyTo(led)) = {<<"copy", led>>}
           /\ FitWith(CopyTo(led), T)
<1> DEFINE x == <<"copy", led>>
<1>1. x \in StepSet /\ x[1] = "copy" /\ x[2] = led
  BY DEF StepSet
<1> HIDE DEF x
<1>2. x \notin T
  BY <1>1 DEF Some
<1>3. FitsDrawing(x, T) /\ FitsSending(x, T) /\ FitsLocking(x, T) /\ FitsPinning(x, T)
  BY <1>1 DEF FitsDrawing, FitsSending, FitsLocking, FitsPinning
<1> QED
  BY <1>1, <1>2, <1>3, OneStep DEF Fits, CopyTo, x

Dark == [led \in 1..Leds |-> Off]
ResetSteps == {<<"color", Off>>} \cup AllCopies \cup TransferSteps(Dark)

LEMMA ResetLedsFit ==
    ASSUME NEW T, \A y \in T : y[1] \in {"free", "request", "out"}
    PROVE  /\ ResetLeds \in Seq(StepSet) /\ FitWith(ResetLeds, T) /\ Range(ResetLeds) = ResetSteps
<1>0. Dark \in Drawings /\ Off \in Tints /\ DOMAIN Dark = 1..Leds /\ \A l \in 1..Leds : Dark[l] = Off
  <2>1. Dark \in [1..Leds -> Tints] /\ 1..Leds \in SUBSET (1..Leds)
    BY DEF Dark, Tints
  <2> QED
    BY <2>1 DEF Drawings, Dark, Tints
<1>1. /\ Transfer(Dark) \in Seq(StepSet) /\ FitWith(Transfer(Dark), T)
      /\ Range(Transfer(Dark)) = TransferSteps(Dark)
  BY <1>0, TransferFit
<1>2. /\ \A y \in TransferSteps(Dark) : y[1] \in {"lock", "unlock", "begin", "send", "end"}
      /\ \A y \in TransferSteps(Dark) : y[1] = "end" => y = <<"end", Dark>>
      /\ <<"begin">> \in TransferSteps(Dark) /\ <<"end", Dark>> \in TransferSteps(Dark)
  BY <1>0, BitKinds DEF TransferSteps, BitSteps
<1> DEFINE R == TransferSteps(Dark) \cup T
<1>3. /\ \A y \in R : y[1] \in {"lock", "unlock", "begin", "send", "end", "free", "request", "out"}
      /\ \A y \in R : y[1] = "end" => y = <<"end", Dark>>
      /\ <<"begin">> \in R /\ <<"end", Dark>> \in R
  BY <1>2
<1>4. <<"begin">>[1] = "begin" /\ <<"end", Dark>>[1] = "end" /\ <<"end", Dark>>[2] = Dark
  OBVIOUS
<1> HIDE DEF R
<1>5. CopyToAll \in Seq(StepSet) /\ Range(CopyToAll) = AllCopies /\ FitWith(CopyToAll, R)
  <2>1. ~Some("color", R) /\ ~Some("copy", R) /\ Some("begin", R) /\ Some("end", R)
    BY <1>3, <1>4 DEF Some
  <2>2. \A y \in R : y[1] = "end" => DOMAIN y[2] = 1..Leds
    BY <1>0, <1>3, <1>4
  <2> QED
    BY <2>1, <2>2, CopiesFit
<1> DEFINE Q == AllCopies \cup R
<1>6. /\ SetColor(Off) \in Seq(StepSet) /\ Range(SetColor(Off)) = {<<"color", Off>>}
      /\ FitWith(SetColor(Off), Q)
  <2>1. \A y \in Q : y \in R \/ \E l \in 1..Leds : y = <<"copy", l>>
    BY DEF AllCopies
  <2>2. \A l \in 1..Leds : <<"copy", l>> \in Q /\ <<"copy", l>>[1] = "copy"
    BY DEF AllCopies
  <2>3. \A y \in R : y \in Q
    OBVIOUS
  <2> HIDE DEF Q
  <2>4. ~Some("color", Q) /\ Some("begin", Q) /\ Some("end", Q)
    BY <1>3, <1>4, <2>1, <2>2, <2>3 DEF Some
  <2>5. \A y \in Q : y[1] = "end" => y[2] = Dark
    BY <1>3, <1>4, <2>1, <2>2
  <2>6. \A y \in Q : y[1] = "end" => \A l \in DOMAIN y[2] : y[2][l] = Off /\ <<"copy", l>> \in Q
    BY <1>0, <2>2, <2>5
  <2> QED
    BY <1>0, <2>4, <2>6, ColorFit
<1>7. /\ SetColor(Off) \o CopyToAll \in Seq(StepSet)
      /\ Range(SetColor(Off) \o CopyToAll) = {<<"color", Off>>} \cup AllCopies
      /\ FitWith(SetColor(Off) \o CopyToAll, R)
  BY <1>5, <1>6, Join
<1>8. /\ (SetColor(Off) \o CopyToAll) \o Transfer(Dark) \in Seq(StepSet)
      /\ Range((SetColor(Off) \o CopyToAll) \o Transfer(Dark))
            = ({<<"color", Off>>} \cup AllCopies) \cup TransferSteps(Dark)
      /\ FitWith((SetColor(Off) \o CopyToAll) \o Transfer(Dark), T)
  BY <1>1, <1>7, Join DEF R
<1> QED
  BY <1>8 DEF ResetLeds, ResetSteps, Dark

DrawnSteps(led, c) == {<<"color", c>>, <<"copy", led>>, <<"lock">>, <<"unlock">>} \cup BitSteps(Drawn(led, c))

LEMMA DrawnIs ==
    ASSUME NEW led \in 1..Leds, NEW c \in Tints
    PROVE  Drawn(led, c) \in Drawings /\ DOMAIN Drawn(led, c) = {led} /\ Drawn(led, c)[led] = c
<1>1. Drawn(led, c) \in [{led} -> Tints] /\ {led} \in SUBSET (1..Leds)
  BY DEF Drawn
<1> QED
  BY <1>1 DEF Drawings, Drawn

\* A colour and its copy before a transfer R of what they draw.
LEMMA SetLedRgbFit ==
    ASSUME NEW led \in 1..Leds, NEW c \in Tints, NEW R,
           \A y \in R : y[1] \in {"lock", "unlock", "begin", "send", "end"},
           \A y \in R : y[1] = "end" => y = <<"end", Drawn(led, c)>>,
           <<"begin">> \in R, <<"end", Drawn(led, c)>> \in R
    PROVE  /\ SetLedRgb(led, c) \in Seq(StepSet) /\ FitWith(SetLedRgb(led, c), R)
           /\ Range(SetLedRgb(led, c)) = {<<"color", c>>, <<"copy", led>>}
<1>1. <<"begin">>[1] = "begin" /\ <<"end", Drawn(led, c)>>[1] = "end"
      /\ <<"end", Drawn(led, c)>>[2] = Drawn(led, c) /\ <<"copy", led>>[1] = "copy"
  OBVIOUS
<1>0. DOMAIN Drawn(led, c) = {led} /\ Drawn(led, c)[led] = c
  BY DrawnIs
<1>2. \A y \in R : y[1] = "end" => y[2] = Drawn(led, c)
  BY <1>1
<1>3. ~Some("color", R) /\ ~Some("copy", R) /\ Some("begin", R) /\ Some("end", R)
  BY <1>1 DEF Some
<1>4. /\ CopyTo(led) \in Seq(StepSet) /\ Range(CopyTo(led)) = {<<"copy", led>>}
      /\ FitWith(CopyTo(led), R)
  <2>1. \A y \in R : y[1] = "end" => led \in DOMAIN y[2]
    BY <1>0, <1>2
  <2> QED
    BY <1>3, <2>1, CopyFit
<1> DEFINE Q == {<<"copy", led>>} \cup R
<1>5. /\ SetColor(c) \in Seq(StepSet) /\ Range(SetColor(c)) = {<<"color", c>>}
      /\ FitWith(SetColor(c), Q)
  <2>1. ~Some("color", Q) /\ Some("begin", Q) /\ Some("end", Q)
    BY <1>1, <1>3 DEF Some
  <2>2. \A y \in Q : y[1] = "end" => y[2] = Drawn(led, c)
    BY <1>1, <1>2
  <2>3. \A y \in Q : y[1] = "end" => \A l \in DOMAIN y[2] : y[2][l] = c /\ <<"copy", l>> \in Q
    BY <1>0, <2>2
  <2> QED
    BY <2>1, <2>3, ColorFit
<1>6. /\ SetColor(c) \o CopyTo(led) \in Seq(StepSet)
      /\ Range(SetColor(c) \o CopyTo(led)) = {<<"color", c>>} \cup {<<"copy", led>>}
      /\ FitWith(SetColor(c) \o CopyTo(led), R)
  BY <1>4, <1>5, Join
<1>7. Range(SetColor(c) \o CopyTo(led)) = {<<"color", c>>, <<"copy", led>>}
  BY <1>6
<1> QED
  BY <1>6, <1>7 DEF SetLedRgb

LEMMA WriteFit ==
    ASSUME NEW led \in 1..Leds, NEW c \in Tints
    PROVE  /\ WsWrite(led, c) \in Seq(StepSet) /\ FitWith(WsWrite(led, c), {})
           /\ Range(WsWrite(led, c)) = DrawnSteps(led, c)
<1> DEFINE d == Drawn(led, c)
<1>1. d \in Drawings
  BY DrawnIs
<1>2. /\ \A y \in BitSteps(d) : y[1] \in {"begin", "send", "end"}
      /\ \A y \in BitSteps(d) : y[1] = "end" => y = <<"end", d>>
      /\ <<"begin">> \in BitSteps(d) /\ <<"end", d>> \in BitSteps(d)
  BY <1>1, BitKinds DEF BitSteps
<1>3. \A y \in {<<"unlock">>} : y[1] = "unlock"
  OBVIOUS
<1>4. /\ Bits(d) \in Seq(StepSet) /\ Range(Bits(d)) = BitSteps(d) /\ FitWith(Bits(d), {<<"unlock">>})
  BY <1>1, <1>3, BitsFit
<1>6. CASE driver = "spi"
  <2> DEFINE R == BitSteps(d) \cup {<<"unlock">>}
  <2>1. /\ \A y \in R : y[1] \in {"lock", "unlock", "begin", "send", "end"}
        /\ \A y \in R : y[1] = "end" => y = <<"end", d>>
        /\ <<"begin">> \in R /\ <<"end", d>> \in R
    BY <1>2, <1>3
  <2> HIDE DEF R
  <2>2. /\ SetLedRgb(led, c) \in Seq(StepSet) /\ FitWith(SetLedRgb(led, c), R)
        /\ Range(SetLedRgb(led, c)) = {<<"color", c>>, <<"copy", led>>}
    BY <2>1, SetLedRgbFit
  <2> DEFINE s == SetLedRgb(led, c) \o Bits(d)
  <2>3. /\ s \in Seq(StepSet) /\ Range(s) = {<<"color", c>>, <<"copy", led>>} \cup BitSteps(d)
        /\ FitWith(s, {<<"unlock">>})
    BY <1>4, <2>2, Join DEF R
  <2> HIDE DEF s
  <2>4. \A y \in Range(s) : y[1] # "lock"
    BY <1>2, <2>3
  <2>5. /\ Locked(s) \in Seq(StepSet) /\ FitWith(Locked(s), {})
        /\ Range(Locked(s)) = {<<"lock">>, <<"unlock">>} \cup Range(s)
    BY <2>3, <2>4, LockedAloneFit
  <2> QED
    BY <1>6, <2>3, <2>5 DEF WsWrite, SpiWrite, SpiTransfer, DrawnSteps, s
<1>7. CASE driver # "spi"
  <2>1. \A y \in Range(Bits(d)) : y[1] # "lock"
    BY <1>2, <1>4
  <2>2. /\ Locked(Bits(d)) \in Seq(StepSet) /\ FitWith(Locked(Bits(d)), {})
        /\ Range(Locked(Bits(d))) = {<<"lock">>, <<"unlock">>} \cup BitSteps(d)
    BY <1>4, <2>1, LockedAloneFit
  <2> DEFINE R == {<<"lock">>, <<"unlock">>} \cup BitSteps(d)
  <2>3. /\ \A y \in R : y[1] \in {"lock", "unlock", "begin", "send", "end"}
        /\ \A y \in R : y[1] = "end" => y = <<"end", d>>
        /\ <<"begin">> \in R /\ <<"end", d>> \in R /\ R \cup {} = R
    BY <1>2
  <2> HIDE DEF R
  <2>4. /\ SetLedRgb(led, c) \in Seq(StepSet) /\ FitWith(SetLedRgb(led, c), R)
        /\ Range(SetLedRgb(led, c)) = {<<"color", c>>, <<"copy", led>>}
    BY <2>3, SetLedRgbFit
  <2>5. /\ SetLedRgb(led, c) \o Locked(Bits(d)) \in Seq(StepSet)
        /\ Range(SetLedRgb(led, c) \o Locked(Bits(d))) = {<<"color", c>>, <<"copy", led>>} \cup R
        /\ FitWith(SetLedRgb(led, c) \o Locked(Bits(d)), {})
    BY <2>2, <2>3, <2>4, Join DEF R
  <2> QED
    BY <1>7, <2>5 DEF WsWrite, BangWrite, BangTransfer, DrawnSteps, R
<1> QED
  BY <1>6, <1>7

AllFrees == {<<"free", i>> : i \in Pins}
AllRequests == {<<"request", i>> : i \in Pins}

LEMMA FreesFit ==
    ASSUME NEW order \in Seq(Pins), \A i, j \in 1..Len(order) : order[i] = order[j] => i = j,
           NEW T, \A y \in T : y[1] \in {"request", "out"}
    PROVE  /\ Free(order) \in Seq(StepSet) /\ FitWith(Free(order), T)
           /\ Range(Free(order)) = {<<"free", order[i]>> : i \in 1..Len(order)}
<1>1. \A i \in 1..Len(order) : <<"free", order[i]>> \in StepSet
  BY DEF StepSet
<1>2. /\ Free(order) \in Seq(StepSet) /\ Len(Free(order)) = Len(order) /\ Len(order) \in Nat
      /\ \A i \in 1..Len(order) : Free(order)[i] = <<"free", order[i]>>
  BY <1>1 DEF Free
<1>3. Range(Free(order)) = {Free(order)[i] : i \in 1..Len(order)}
  BY <1>2, RangeOf
<1>4. ASSUME NEW i \in 1..Len(order) PROVE Fits(Free(order)[i], After(Free(order), i) \cup T)
  <2> DEFINE R == After(Free(order), i) \cup T
             x == <<"free", order[i]>>
  <2>1. x[1] = "free" /\ x[2] = order[i]
    OBVIOUS
  <2>2. \A y \in After(Free(order), i) : \E j \in (i + 1)..Len(order) : y = Free(order)[j]
    BY <1>2 DEF After
  <2>3. \A j \in (i + 1)..Len(order) : j \in 1..Len(order) /\ j # i
    BY <1>2
  <2>4. \A y \in R : y[1] \in {"free", "request", "out"} /\ y # x
    BY <1>2, <2>1, <2>2, <2>3
  <2> HIDE DEF R, x
  <2>5. x \notin R
    BY <2>4
  <2>6. FitsDrawing(x, R) /\ FitsSending(x, R) /\ FitsLocking(x, R) /\ FitsPinning(x, R)
    BY <2>1, <2>4 DEF FitsDrawing, FitsSending, FitsLocking, FitsPinning, Some
  <2>7. Fits(x, R)
    BY <2>5, <2>6 DEF Fits
  <2> QED
    BY <1>2, <2>7 DEF R, x
<1>5. FitWith(Free(order), T)
  BY <1>2, <1>4 DEF FitWith
<1>6. Range(Free(order)) = {<<"free", order[i]>> : i \in 1..Len(order)}
  <2>1. Range(Free(order)) = {Free(order)[i] : i \in 1..Len(order)}
    BY <1>2, <1>3
  <2>2. \A x \in Range(Free(order)) : \E i \in 1..Len(order) : x = <<"free", order[i]>>
    <3> TAKE x \in Range(Free(order))
    <3>1. PICK i \in 1..Len(order) : x = Free(order)[i]
      BY <2>1
    <3>2. Free(order)[i] = <<"free", order[i]>>
      BY <1>2
    <3> QED
      BY <3>1, <3>2
  <2>3. \A i \in 1..Len(order) : <<"free", order[i]>> \in Range(Free(order))
    BY <1>2, <2>1
  <2> QED
    BY <2>2, <2>3
<1> QED
  BY <1>2, <1>5, <1>6

\* The two orders in which all three are freed.
LEMMA AllFreesFit ==
    ASSUME NEW order \in {<<1, 2, 3>>, <<2, 1, 3>>}, NEW T, \A y \in T : y[1] \in {"request", "out"}
    PROVE  /\ Free(order) \in Seq(StepSet) /\ FitWith(Free(order), T) /\ Range(Free(order)) = AllFrees
<1>1. /\ order \in Seq(Pins) /\ Len(order) = 3
      /\ \A i, j \in 1..3 : order[i] = order[j] => i = j
      /\ \A i \in Pins : \E j \in 1..3 : order[j] = i
      /\ \A j \in 1..3 : order[j] \in Pins
  <2>1. CASE order = <<1, 2, 3>>
    BY <2>1 DEF Pins
  <2>2. CASE order = <<2, 1, 3>>
    BY <2>2 DEF Pins
  <2> QED
    BY <2>1, <2>2
<1>2. /\ Free(order) \in Seq(StepSet) /\ FitWith(Free(order), T)
      /\ Range(Free(order)) = {<<"free", order[i]>> : i \in 1..3}
  BY <1>1, FreesFit
<1>3. {<<"free", order[i]>> : i \in 1..3} = AllFrees
  BY <1>1 DEF AllFrees
<1> QED
  BY <1>2, <1>3

LEMMA RequestsFit ==
    ASSUME NEW T, ~Some("free", T), ~Some("request", T),
           Some("end", T) \/ Some("begin", T) => Some("color", T) /\ Some("begin", T)
    PROVE  RequestAll \in Seq(StepSet) /\ Range(RequestAll) = AllRequests /\ FitWith(RequestAll, T)
<1>1. \A i \in 1..3 : <<"request", i>> \in StepSet
  BY DEF StepSet, Pins
<1>2. /\ RequestAll \in Seq(StepSet) /\ Len(RequestAll) = 3
      /\ \A i \in 1..3 : RequestAll[i] = <<"request", i>>
  BY <1>1 DEF RequestAll
<1>3. Range(RequestAll) = AllRequests
  <2>1. Range(RequestAll) = {RequestAll[i] : i \in 1..3}
    BY <1>2, RangeOf
  <2> QED
    BY <1>2, <2>1 DEF AllRequests, Pins
<1>4. ASSUME NEW i \in 1..3 PROVE Fits(RequestAll[i], After(RequestAll, i) \cup T)
  <2> DEFINE R == After(RequestAll, i) \cup T
             x == <<"request", i>>
  <2>1. x[1] = "request" /\ x[2] = i
    OBVIOUS
  <2>2. \A y \in After(RequestAll, i) : \E j \in (i + 1)..3 : y = RequestAll[j]
    BY <1>2 DEF After
  <2>3. \A j \in (i + 1)..3 : j \in 1..3 /\ j # i
    OBVIOUS
  <2>4. \A y \in R : y \in T \/ (y[1] = "request" /\ y # x)
    BY <1>2, <2>1, <2>2, <2>3
  <2>5. \A y \in T : y \in R
    OBVIOUS
  <2>10. \A j \in Pins : i < j => <<"request", j>> \in R
    <3> SUFFICES ASSUME NEW j \in Pins, i < j PROVE <<"request", j>> \in R
      OBVIOUS
    <3>1. j \in (i + 1)..3 /\ j \in 1..3
      BY DEF Pins
    <3> QED
      BY <1>2, <3>1 DEF After
  <2> HIDE DEF R, x
  <2>6. x \notin R
    BY <2>1, <2>4 DEF Some
  <2>7. FitsDrawing(x, R) /\ FitsSending(x, R) /\ FitsLocking(x, R)
    BY <2>1 DEF FitsDrawing, FitsSending, FitsLocking
  <2>8. FitsPinning(x, R)
    BY <2>1, <2>4, <2>5, <2>10 DEF FitsPinning, Some
  <2>9. Fits(x, R)
    BY <2>6, <2>7, <2>8 DEF Fits
  <2> QED
    BY <1>2, <2>9 DEF R, x
<1> QED
  BY <1>2, <1>3, <1>4 DEF FitWith

-----------------------------------------------------------------------------
(* The calls.                                                               *)

\* A call of that name may begin with these steps.
Scripted(what, steps) ==
    /\ steps \in Seq(StepSet) /\ FitWith(steps, {}) /\ steps # <<>>
    /\ CallShape(what, driver, Range(steps)) /\ CallStart(what, driver, Range(steps))
    /\ driver = "spi" /\ <<"lock">> \in Range(steps) => Head(steps) = <<"lock">>

\* What is in the sets that scripts are made of.
LEMMA BitStepsAre ==
    ASSUME NEW drawn
    PROVE  /\ \A y \in BitSteps(drawn) : y[1] \in {"begin", "send", "end"}
           /\ <<"begin">> \in BitSteps(drawn) /\ \A l \in 1..Leds : <<"send", l>> \in BitSteps(drawn)
BY DEF BitSteps, AllSends

LEMMA ResetStepsAre ==
    /\ \A y \in ResetSteps : /\ y[1] \in {"color", "copy", "begin", "send", "end", "lock", "unlock"}
                             /\ y[1] = "color" => y[2] = Off
    /\ Some("color", ResetSteps) /\ Some("begin", ResetSteps)
    /\ \A l \in 1..Leds : <<"copy", l>> \in ResetSteps /\ <<"send", l>> \in ResetSteps
    /\ <<"lock">> \in ResetSteps <=> driver # "spi"
    /\ <<"unlock">> \in ResetSteps <=> driver # "spi"
<1>1. /\ \A y \in BitSteps(Dark) : y[1] \in {"begin", "send", "end"}
      /\ <<"begin">> \in BitSteps(Dark) /\ \A l \in 1..Leds : <<"send", l>> \in BitSteps(Dark)
  BY BitStepsAre
<1>2. <<"begin">>[1] = "begin" /\ <<"color", Off>>[1] = "color" /\ <<"color", Off>>[2] = Off
      /\ <<"lock">>[1] = "lock" /\ <<"unlock">>[1] = "unlock"
  OBVIOUS
<1>3. /\ \A y \in AllCopies : y[1] = "copy"
      /\ \A l \in 1..Leds : <<"copy", l>> \in AllCopies
  BY DEF AllCopies
<1> QED
  BY <1>1, <1>2, <1>3 DEF ResetSteps, TransferSteps, Some

LEMMA WriteScripted ==
    ASSUME NEW led \in 1..Leds, NEW c \in Tints
    PROVE  Scripted("write", WsWrite(led, c))
<1> DEFINE R == DrawnSteps(led, c)
<1>1. /\ WsWrite(led, c) \in Seq(StepSet) /\ FitWith(WsWrite(led, c), {})
      /\ Range(WsWrite(led, c)) = R
  BY WriteFit
<1>2. /\ \A y \in R : y[1] \in {"color", "copy", "begin", "send", "end", "lock", "unlock"}
      /\ <<"color", c>> \in R /\ <<"begin">> \in R /\ <<"lock">> \in R /\ <<"unlock">> \in R
  BY BitStepsAre DEF DrawnSteps
<1>3. <<"begin">>[1] = "begin" /\ <<"color", c>>[1] = "color"
      /\ <<"out">>[1] = "out" /\ <<"lockinit">>[1] = "lockinit"
  OBVIOUS
<1> HIDE DEF R
<1>4. CallShape("write", driver, R)
  BY <1>2, <1>3 DEF CallShape, Some
<1>5. CallStart("write", driver, R)
  BY <1>2, <1>3 DEF CallStart, Some
<1>6. WsWrite(led, c) # <<>>
  BY <1>1, <1>2, RangeOf
<1>7. driver = "spi" => Head(WsWrite(led, c)) = <<"lock">>
  <2> SUFFICES ASSUME driver = "spi" PROVE Head(WsWrite(led, c)) = <<"lock">>
    OBVIOUS
  <2>1. PICK t : t = SetLedRgb(led, c) \o SpiTransfer(Drawn(led, c))
    OBVIOUS
  <2>2. WsWrite(led, c) = <<<<"lock">>>> \o t \o <<<<"unlock">>>>
    BY <2>1 DEF WsWrite, SpiWrite, Locked
  <2> QED
    BY <2>2
<1> QED
  BY <1>1, <1>4, <1>5, <1>6, <1>7 DEF Scripted

LEMMA ReleaseScripted == Scripted("release", WsRelease)
<1>1. /\ ResetLeds \in Seq(StepSet) /\ FitWith(ResetLeds, {}) /\ Range(ResetLeds) = ResetSteps
  <2>1. PICK T : T = {}
    OBVIOUS
  <2>2. \A y \in T : y[1] \in {"free", "request", "out"}
    BY <2>1
  <2> QED
    BY <2>1, <2>2, ResetLedsFit
<1>2. <<"out">>[1] = "out" /\ <<"lockinit">>[1] = "lockinit"
  OBVIOUS
<1>3. CallShape("release", driver, ResetSteps)
  BY <1>2, ResetStepsAre DEF CallShape, Some
<1>4. CallStart("release", driver, ResetSteps)
  BY ResetStepsAre DEF CallStart
<1>5. ResetLeds # <<>>
  BY <1>1, ResetStepsAre, RangeOf DEF Some
<1> QED
  BY <1>1, <1>3, <1>4, <1>5, ResetStepsAre DEF Scripted, WsRelease

LEMMA PinStepsAre ==
    /\ \A y \in AllFrees : y[1] = "free"
    /\ \A y \in AllRequests : y[1] = "request"
    /\ \A i \in Pins : <<"free", i>> \in AllFrees /\ <<"request", i>> \in AllRequests
BY DEF AllFrees, AllRequests

LEMMA ResetScripted == Scripted("reset", ResetLeds \o ResetGpios)
<1>1. RequestAll \in Seq(StepSet) /\ Range(RequestAll) = AllRequests /\ FitWith(RequestAll, {})
  <2>1. PICK T : T = {}
    OBVIOUS
  <2> QED
    BY <2>1, RequestsFit DEF Some
<1>2. /\ Free(FreeOrder) \in Seq(StepSet) /\ Range(Free(FreeOrder)) = AllFrees
      /\ FitWith(Free(FreeOrder), AllRequests)
  <2>1. FreeOrder \in {<<1, 2, 3>>, <<2, 1, 3>>}
    BY DEF FreeOrder
  <2>2. \A y \in AllRequests : y[1] \in {"request", "out"}
    BY PinStepsAre
  <2> QED
    BY <2>1, <2>2, AllFreesFit
<1>3. /\ Free(FreeOrder) \o RequestAll \in Seq(StepSet)
      /\ Range(Free(FreeOrder) \o RequestAll) = AllFrees \cup AllRequests
      /\ FitWith(Free(FreeOrder) \o RequestAll, {})
  <2>1. AllRequests \cup {} = AllRequests
    OBVIOUS
  <2> QED
    BY <1>1, <1>2, <2>1, Join
<1>4. /\ ResetLeds \in Seq(StepSet) /\ Range(ResetLeds) = ResetSteps
      /\ FitWith(ResetLeds, AllFrees \cup AllRequests)
  <2>1. \A y \in AllFrees \cup AllRequests : y[1] \in {"free", "request", "out"}
    BY PinStepsAre
  <2> QED
    BY <2>1, ResetLedsFit
<1> DEFINE R == ResetSteps \cup (AllFrees \cup AllRequests)
<1>5. /\ ResetLeds \o ResetGpios \in Seq(StepSet) /\ Range(ResetLeds \o ResetGpios) = R
      /\ FitWith(ResetLeds \o ResetGpios, {})
  <2>1. (AllFrees \cup AllRequests) \cup {} = AllFrees \cup AllRequests
    OBVIOUS
  <2> QED
    BY <1>3, <1>4, <2>1, Join DEF ResetGpios
<1>6. /\ \A y \in R : /\ y[1] \in {"color", "copy", "begin", "send", "end", "lock", "unlock", "free", "request"}
                      /\ y[1] = "color" => y[2] = Off
      /\ Some("color", R) /\ Some("begin", R)
      /\ <<"lock">> \in R <=> driver # "spi"
      /\ <<"unlock">> \in R <=> driver # "spi"
      /\ \A i \in Pins : <<"free", i>> \in R /\ <<"request", i>> \in R
  <2>1. <<"lock">>[1] = "lock" /\ <<"unlock">>[1] = "unlock"
    OBVIOUS
  <2> QED
    BY <2>1, ResetStepsAre, PinStepsAre DEF Some
<1>7. <<"out">>[1] = "out" /\ <<"lockinit">>[1] = "lockinit"
  OBVIOUS
<1> HIDE DEF R
<1>8. CallShape("reset", driver, R)
  BY <1>6, <1>7 DEF CallShape, Some
<1>9. CallStart("reset", driver, R)
  BY <1>6 DEF CallStart
<1>10. ResetLeds \o ResetGpios # <<>>
  BY <1>5, <1>6, RangeOf DEF Some
<1> QED
  BY <1>5, <1>6, <1>8, <1>9, <1>10 DEF Scripted

LEMMA InitScripted == Scripted("init", InitSteps)
<1>1. CASE driver = "spi"
  <2> DEFINE x == <<"lockinit">>
  <2>1. x \in StepSet /\ x[1] = "lockinit" /\ x = <<"lockinit">>
    BY DEF StepSet
  <2> HIDE DEF x
  <2>2. <<x>> \in Seq(StepSet) /\ Range(<<x>>) = {x} /\ FitWith(<<x>>, {})
    <3>1. Fits(x, {})
      BY <2>1 DEF Fits, FitsDrawing, FitsSending, FitsLocking, FitsPinning, Some
    <3> QED
      BY <2>1, <3>1, OneStep
  <2>3. RequestAll \in Seq(StepSet) /\ Range(RequestAll) = AllRequests /\ FitWith(RequestAll, {x})
    <3>1. ~Some("free", {x}) /\ ~Some("request", {x}) /\ ~Some("end", {x}) /\ ~Some("begin", {x})
      BY <2>1 DEF Some
    <3> QED
      BY <3>1, RequestsFit
  <2> DEFINE R == AllRequests \cup {x}
  <2>4. /\ InitSteps \in Seq(StepSet) /\ Range(InitSteps) = R /\ FitWith(InitSteps, {})
    <3>1. Range(<<x>>) \cup {} = {x}
      BY <2>2
    <3>2. FitWith(RequestAll, Range(<<x>>) \cup {})
      BY <2>3, <3>1
    <3>3. /\ RequestAll \o <<x>> \in Seq(StepSet) /\ FitWith(RequestAll \o <<x>>, {})
          /\ Range(RequestAll \o <<x>>) = Range(RequestAll) \cup Range(<<x>>)
      BY <2>2, <2>3, <3>2, Join
    <3>4. InitSteps = RequestAll \o <<x>>
      BY <1>1, <2>1 DEF InitSteps, SpiInit
    <3> QED
      BY <2>2, <2>3, <3>3, <3>4
  <2>5. /\ \A y \in R : y[1] \in {"request", "lockinit"}
        /\ x \in R
        /\ \A i \in Pins : <<"request", i>> \in R
    BY <2>1, PinStepsAre
  <2>6. <<"out">>[1] = "out" /\ <<"lock">>[1] = "lock" /\ <<"unlock">>[1] = "unlock"
    OBVIOUS
  <2> HIDE DEF R
  <2>7. CallShape("init", driver, R)
    BY <1>1, <2>5, <2>6 DEF CallShape, Some
  <2>8. CallStart("init", driver, R)
    BY <2>5, <2>6 DEF CallStart, Some
  <2>9. InitSteps # <<>>
    <3>1. R # {}
      BY <2>5
    <3> QED
      BY <2>4, <3>1, RangeOf
  <2>10. <<"lock">> \notin R
    BY <2>5, <2>6
  <2> QED
    BY <2>4, <2>7, <2>8, <2>9, <2>10 DEF Scripted
<1>2. CASE driver # "spi"
  <2>1. ResetLeds \in Seq(StepSet) /\ FitWith(ResetLeds, {}) /\ Range(ResetLeds) = ResetSteps
    <3>1. PICK T : T = {}
      OBVIOUS
    <3> QED
      BY <3>1, ResetLedsFit
  <2>2. RequestAll \in Seq(StepSet) /\ Range(RequestAll) = AllRequests /\ FitWith(RequestAll, ResetSteps)
    <3>1. ~Some("free", ResetSteps) /\ ~Some("request", ResetSteps)
          /\ Some("color", ResetSteps) /\ Some("begin", ResetSteps)
      BY ResetStepsAre DEF Some
    <3> QED
      BY <3>1, RequestsFit
  <2> DEFINE R == AllRequests \cup ResetSteps
  <2>3. InitSteps \in Seq(StepSet) /\ Range(InitSteps) = R /\ FitWith(InitSteps, {})
    <3>1. ResetSteps \cup {} = ResetSteps
      OBVIOUS
    <3> QED
      BY <1>2, <2>1, <2>2, <3>1, Join DEF InitSteps, BangInit
  <2>4. /\ \A y \in R : /\ y[1] \in {"color", "copy", "begin", "send", "end", "lock", "unlock", "request"}
                        /\ y[1] = "color" => y[2] = Off
        /\ Some("color", R) /\ Some("begin", R) /\ <<"lock">> \in R /\ <<"unlock">> \in R
        /\ \A i \in Pins : <<"request", i>> \in R
    BY <1>2, ResetStepsAre, PinStepsAre DEF Some
  <2>5. <<"out">>[1] = "out" /\ <<"lockinit">>[1] = "lockinit"
    OBVIOUS
  <2> HIDE DEF R
  <2>6. CallShape("init", driver, R)
    BY <1>2, <2>4, <2>5 DEF CallShape, Some
  <2>7. CallStart("init", driver, R)
    BY <2>4 DEF CallStart, Some
  <2>8. InitSteps # <<>>
    BY <2>3, <2>4, RangeOf
  <2> QED
    BY <1>2, <2>3, <2>6, <2>7, <2>8 DEF Scripted
<1> QED
  BY <1>1, <1>2

LEMMA ExitScripted == Scripted("exit", ExitSteps)
<1> DEFINE x == <<"out">>
<1>1. x \in StepSet /\ x[1] = "out" /\ x = <<"out">>
  BY DEF StepSet
<1> HIDE DEF x
<1>2. <<x>> \in Seq(StepSet) /\ Range(<<x>>) = {x} /\ FitWith(<<x>>, {})
  <2>1. Fits(x, {})
    BY <1>1 DEF Fits, FitsDrawing, FitsSending, FitsLocking, FitsPinning, Some
  <2> QED
    BY <1>1, <2>1, OneStep
<1>3. {x} \cup {} = {x} /\ \A y \in {x} : y[1] \in {"request", "out"}
  BY <1>1
<1>4. /\ Free(<<1, 2, 3>>) \in Seq(StepSet) /\ FitWith(Free(<<1, 2, 3>>), {x})
      /\ Range(Free(<<1, 2, 3>>)) = AllFrees
  BY <1>3, AllFreesFit
<1>5. <<"out">>[1] = "out" /\ <<"lockinit">>[1] = "lockinit"
      /\ <<"lock">>[1] = "lock" /\ <<"unlock">>[1] = "unlock"
  OBVIOUS
<1>6. CASE driver = "spi"
  <2>1. ResetLeds \in Seq(StepSet) /\ FitWith(ResetLeds, AllFrees \cup {x}) /\ Range(ResetLeds) = ResetSteps
    <3>1. \A y \in AllFrees \cup {x} : y[1] \in {"free", "request", "out"}
      BY <1>1, PinStepsAre
    <3> QED
      BY <3>1, ResetLedsFit
  <2>2. /\ ResetLeds \o Free(<<1, 2, 3>>) \in Seq(StepSet)
        /\ Range(ResetLeds \o Free(<<1, 2, 3>>)) = ResetSteps \cup AllFrees
        /\ FitWith(ResetLeds \o Free(<<1, 2, 3>>), {x})
    BY <1>4, <2>1, Join
  <2> DEFINE R == (ResetSteps \cup AllFrees) \cup {x}
  <2>3. ExitSteps \in Seq(StepSet) /\ Range(ExitSteps) = R /\ FitWith(ExitSteps, {})
    BY ZenonT(60), <1>1, <1>2, <1>3, <1>6, <2>2, Join DEF ExitSteps, SpiExit
  <2>4. /\ \A y \in R : /\ y[1] \in {"color", "copy", "begin", "send", "end", "free", "out"}
                        /\ y[1] = "color" => y[2] = Off
        /\ Some("color", R) /\ Some("begin", R) /\ <<"out">> \in R
        /\ \A i \in Pins : <<"free", i>> \in R
    <3>1. \A y \in ResetSteps : y[1] \notin {"lock", "unlock"}
      <4>1. \A y \in ResetSteps : y[1] = "lock" => y = <<"lock">>
        BY <1>6, BitStepsAre DEF ResetSteps, TransferSteps, AllCopies
      <4>2. \A y \in ResetSteps : y[1] = "unlock" => y = <<"unlock">>
        BY <1>6, BitStepsAre DEF ResetSteps, TransferSteps, AllCopies
      <4> QED
        BY <1>6, <4>1, <4>2, ResetStepsAre
    <3> QED
      BY <1>1, <3>1, ResetStepsAre, PinStepsAre DEF Some
  <2> HIDE DEF R
  <2>5. CallShape("exit", driver, R)
    BY <1>5, <1>6, <2>4 DEF CallShape, Some
  <2>6. CallStart("exit", driver, R)
    BY <1>5, <2>4 DEF CallStart
  <2>7. ExitSteps # <<>>
    BY <2>3, <2>4, RangeOf
  <2>8. <<"lock">> \notin R
    BY <1>5, <2>4
  <2> QED
    BY <2>3, <2>5, <2>6, <2>7, <2>8 DEF Scripted
<1>7. CASE driver # "spi"
  <2> DEFINE R == AllFrees \cup {x}
  <2>1. ExitSteps \in Seq(StepSet) /\ Range(ExitSteps) = R /\ FitWith(ExitSteps, {})
    BY ZenonT(60), <1>1, <1>2, <1>3, <1>4, <1>7, Join DEF ExitSteps, BangExit
  <2>2. /\ \A y \in R : y[1] \in {"free", "out"}
        /\ <<"out">> \in R /\ \A i \in Pins : <<"free", i>> \in R
    BY <1>1, PinStepsAre
  <2> HIDE DEF R
  <2>3. CallShape("exit", driver, R)
    BY <1>5, <1>7, <2>2 DEF CallShape, Some
  <2>4. CallStart("exit", driver, R)
    BY <1>5, <2>2 DEF CallStart, Some
  <2>5. ExitSteps # <<>>
    BY <2>1, <2>2, RangeOf
  <2> QED
    BY <1>7, <2>1, <2>3, <2>4, <2>5 DEF Scripted
<1> QED
  BY <1>6, <1>7

-----------------------------------------------------------------------------
(* What a step of the program does, variable by variable.                   *)

\* The call of p has gone on, and is over when no steps are left.
Onward(p) ==
    /\ \A q \in Actors \ {p} : pc'[q] = pc[q] /\ Rest(q)' = Rest(q) /\ op'[q] = op[q]
    /\ op' \in [Actors -> CallKinds]
    /\ op'[p] = IF Rest(p)' = {} THEN "none" ELSE op[p]
    /\ files' = IF Rest(p)' = {} /\ op[p] = "release" THEN files \ {p} ELSE files
    /\ driver' = driver /\ calls' = calls /\ alone' = alone /\ pinRace' = pinRace

\* p has taken its next step, x.
Taken(p, x) ==
    /\ x = Head(pc[p]) /\ x \in Rest(p) /\ x \in StepSet
    /\ Rest(p)' = Rest(p) \ {x} /\ Fits(x, Rest(p)')

Effect(p, x) ==
    /\ stage' = IF x[1] = "out" THEN "out" ELSE stage
    /\ lock' = IF x[1] = "lock" THEN p ELSE IF x[1] \in {"unlock", "lockinit"} THEN Nobody ELSE lock
    /\ x[1] = "lock" => lock = Nobody
    /\ single' = IF x[1] = "color" THEN x[2] ELSE single
    /\ leds' = IF x[1] = "copy" THEN [leds EXCEPT ![x[2]] = single] ELSE leds
    /\ sending' = IF x[1] = "begin" THEN sending \cup {p}
                  ELSE IF x[1] = "end" THEN sending \ {p} ELSE sending
    /\ x[1] = "begin" /\ driver = "spi" => sending = {}
    /\ x[1] = "begin" => pos' = (IF sending = {} THEN 1 ELSE pos)
    /\ x[1] # "send" => shown' = shown
    /\ x[1] \notin {"begin", "send"} => pos' = pos
    /\ x[1] = "send" =>
          \/ (leds[x[2]] = Blank \/ pos > Leds) /\ shown' = shown /\ pos' = pos
          \/ leds[x[2]] # Blank /\ ~(pos > Leds) /\ shown' = [shown EXCEPT ![pos] = leds[x[2]]] /\ pos' = pos + 1
    /\ x[1] # "request" => pins' = (IF x[1] = "free" THEN pins \ {x[2]} ELSE pins) /\ refused' = refused
    /\ x[1] = "request" =>
          \/ x[2] \notin pins /\ pins' = pins \cup {x[2]} /\ refused' = refused \ {x[2]}
          \/ driver = "spi" /\ x[2] \in pins /\ pins' = pins /\ refused' = refused
          \/ driver = "spi" /\ x[2] \notin pins /\ pins' = pins /\ refused' = refused \cup {x[2]}
    /\ x[1] = "out" => want' = [l \in 1..Leds |-> Unknown]
    /\ x[1] = "end" /\ alone[p] =>
          want' = [l \in 1..Leds |-> IF l \in DOMAIN x[2] THEN x[2][l] ELSE want[l]]
    /\ x[1] # "out" /\ (x[1] # "end" \/ ~alone[p]) => want' = want

Acts(p, x) == Onward(p) /\ Taken(p, x) /\ Effect(p, x)

\* A request that fails makes the bit-banging driver free what it had requested
\* before, and ends its call.
Quits(p, x) ==
    /\ Onward(p) /\ driver = "bitbang"
    /\ x \in Rest(p) /\ x \in StepSet /\ x[1] = "request"
    /\ refused' = IF x[2] \in pins THEN refused ELSE refused \cup {x[2]}
    /\ Fits(x, Rest(p) \ {x}) /\ \A y \in Rest(p)' : y[1] = "free"
    /\ \A i \in Pins : i < x[2] => <<"free", i>> \in Rest(p)'
    /\ UNCHANGED <<stage, lock, memory, strip, pins, want>>

\* A call begins.
Begins(p, what) ==
    /\ \A q \in Actors \ {p} : pc'[q] = pc[q] /\ Rest(q)' = Rest(q) /\ op'[q] = op[q]
    /\ ~Busy(p) /\ Busy(p)' /\ what # "none" /\ op' \in [Actors -> CallKinds] /\ op'[p] = what
    /\ CallShape(what, driver, Rest(p)') /\ CallStart(what, driver, Rest(p)')
    /\ driver = "spi" /\ <<"lock">> \in Rest(p)' => Head(pc'[p]) = <<"lock">>
    /\ what = "init" => p = Insmod /\ stage = "out" /\ stage' = "in" /\ single' = Blank /\ leds' = Fresh
    /\ what # "init" => UNCHANGED memory
    /\ what = "exit" => p = Insmod /\ stage = "in" /\ files = {} /\ stage' = "going"
    /\ what \notin {"init", "exit"} => p \in files /\ stage' = stage
    /\ \/ alone' = [q \in Actors |-> FALSE] /\ want' = [l \in 1..Leds |-> Unknown]
       \/ /\ alone' = [alone EXCEPT ![p] = TRUE] /\ want' = want
          /\ \A q \in Actors \ {p} : Busy(q) =>
                driver = "spi" /\ what = "write" /\ op[q] = "write" /\ alone[q]
    /\ pinRace' = IF Some("request", Rest(p)') THEN \E q \in Actors \ {p} : TakesPins(q) ELSE pinRace
    /\ UNCHANGED <<driver, files, lock, strip, pins, refused>> /\ calls' \in 0..MaxCalls

LEMMA RestIs ==
    ASSUME SeqInv
    PROVE  \A p \in Actors : /\ pc[p] \in Seq(StepSet) /\ FitWith(pc[p], {})
                             /\ Idle(p) <=> ~Busy(p)
                             /\ \A kind : Has(p, kind) <=> Some(kind, Rest(p))
<1> SUFFICES ASSUME NEW p \in Actors, NEW kind
             PROVE  /\ pc[p] \in Seq(StepSet) /\ FitWith(pc[p], {})
                    /\ Idle(p) <=> ~Busy(p)
                    /\ Has(p, kind) <=> Some(kind, Rest(p))
  OBVIOUS
<1>1. pc[p] \in Seq(StepSet) /\ FitWith(pc[p], {})
  BY DEF SeqInv
<1>2. Rest(p) = {pc[p][i] : i \in 1..Len(pc[p])} /\ (Rest(p) = {} <=> pc[p] = <<>>)
  BY <1>1, RangeOf DEF Rest
<1> QED
  BY <1>1, <1>2 DEF Idle, Busy, Has, Some

LEMMA GoesOn ==
    ASSUME SeqInv, op \in [Actors -> CallKinds], UNCHANGED <<alone, pinRace>>, NEW p \in Actors,
           NEW rest \in Seq(StepSet), FitWith(rest, {}), Over(p, rest)
    PROVE  Onward(p) /\ Rest(p)' = Range(rest) /\ SeqInv'
<1>1. pc' \in [Actors -> Seq(StepSet)] /\ pc'[p] = rest /\ \A q \in Actors \ {p} : pc'[q] = pc[q]
  BY DEF SeqInv, Over
<1>2. SeqInv'
  BY <1>1 DEF SeqInv
<1>3. Rest(p)' = Range(rest) /\ \A q \in Actors \ {p} : Rest(q)' = Rest(q)
  BY <1>1 DEF Rest
<1>4. rest = <<>> <=> Rest(p)' = {}
  BY <1>3, RangeOf
<1>5. op' = (IF rest = <<>> THEN [op EXCEPT ![p] = "none"] ELSE op)
      /\ files' = (IF rest = <<>> /\ op[p] = "release" THEN files \ {p} ELSE files)
      /\ driver' = driver /\ calls' = calls
  BY DEF Over
<1>6. op' \in [Actors -> CallKinds] /\ op'[p] = (IF rest = <<>> THEN "none" ELSE op[p])
      /\ \A q \in Actors \ {p} : op'[q] = op[q]
  BY <1>5 DEF CallKinds
<1> QED
  BY <1>1, <1>2, <1>3, <1>4, <1>5, <1>6 DEF Onward

LEMMA PopTakes ==
    ASSUME SeqInv, op \in [Actors -> CallKinds], UNCHANGED <<alone, pinRace>>, NEW p \in Actors,
           pc[p] # <<>>, Pop(p)
    PROVE  Onward(p) /\ Taken(p, Head(pc[p])) /\ SeqInv'
<1>1. pc[p] \in Seq(StepSet) /\ FitWith(pc[p], {})
  BY DEF SeqInv
<1>2. /\ Tail(pc[p]) \in Seq(StepSet) /\ FitWith(Tail(pc[p]), {})
      /\ Head(pc[p]) \in Rest(p) /\ Head(pc[p]) \in StepSet
      /\ Range(Tail(pc[p])) = Rest(p) \ {Head(pc[p])}
      /\ Fits(Head(pc[p]), Range(Tail(pc[p])))
  BY <1>1, Advance DEF Rest
<1>3. PICK rest : rest = Tail(pc[p])
  OBVIOUS
<1>4. Onward(p) /\ Rest(p)' = Range(rest) /\ SeqInv'
  BY <1>2, <1>3, GoesOn DEF Pop
<1> QED
  BY <1>2, <1>3, <1>4 DEF Taken

\* Every step of a call is one of the two.
LEMMA StepIs ==
    ASSUME SeqInv, driver \in {"spi", "bitbang"}, op \in [Actors -> CallKinds], NEW p \in Actors, Step(p)
    PROVE  SeqInv' /\ \E x \in StepSet : Acts(p, x) \/ Quits(p, x)
<1> DEFINE x == Head(pc[p])
<1>0. driver \in {"spi", "bitbang"}
  OBVIOUS
<1>1. pc[p] # <<>> /\ UNCHANGED <<alone, pinRace>>
  BY DEF Step, Lock, Unlock, ColorStep, CopyStep, BeginTransfer, SendStep, EndTransfer, FreePin, RequestPin,
         Unloaded, Next1, history
<1>2. ASSUME Pop(p) PROVE Onward(p) /\ Taken(p, x) /\ SeqInv' /\ x \in StepSet
  BY <1>1, <1>2, PopTakes DEF Taken
<1>3. Lock(p) => Effect(p, x) /\ Pop(p)
  BY DEF Lock, Next1, Effect, memory, strip, history
<1>4. Unlock(p) => Effect(p, x) /\ Pop(p)
  BY DEF Unlock, Next1, Effect, memory, strip, history
<1>5. ColorStep(p) => Effect(p, x) /\ Pop(p)
  BY DEF ColorStep, Next1, Arg, Effect, strip, history
<1>6. CopyStep(p) => Effect(p, x) /\ Pop(p)
  BY DEF CopyStep, Next1, Arg, Effect, strip, history
<1>7. BeginTransfer(p) => Effect(p, x) /\ Pop(p)
  BY DEF BeginTransfer, Next1, Effect, memory, history
<1>8. ASSUME SendStep(p) PROVE Effect(p, x) /\ Pop(p)
  <2>1. /\ x[1] = "send" /\ Pop(p)
        /\ UNCHANGED <<stage, lock, memory, sending, pins, history>>
        /\ IF leds[x[2]] = Blank \/ pos > Leds THEN UNCHANGED <<shown, pos>>
           ELSE shown' = [shown EXCEPT ![pos] = leds[x[2]]] /\ pos' = pos + 1
    BY <1>8 DEF SendStep, Next1, Arg
  <2> HIDE DEF x
  <2> QED
    BY <2>1 DEF Effect, memory, history
<1>9. EndTransfer(p) => Effect(p, x) /\ Pop(p)
  BY DEF EndTransfer, Next1, Arg, Effect, memory
<1>10. FreePin(p) => Effect(p, x) /\ Pop(p)
  BY DEF FreePin, Next1, Arg, Effect, memory, strip, history
<1>11. ASSUME RequestPin(p) PROVE (Effect(p, x) /\ Pop(p)) \/ (driver = "bitbang" /\ GoWithoutPin(p))
  <2>1. x[1] = "request" /\ UNCHANGED <<stage, lock, memory, strip, alone, want, pinRace>>
    BY <1>11 DEF RequestPin, Next1
  <2>2. \/ x[2] \notin pins /\ Pop(p) /\ pins' = pins \cup {x[2]} /\ refused' = refused \ {x[2]}
        \/ x[2] \in pins /\ GoWithoutPin(p) /\ pins' = pins /\ refused' = refused
        \/ x[2] \notin pins /\ GoWithoutPin(p) /\ pins' = pins /\ refused' = refused \cup {x[2]}
    BY <1>11 DEF RequestPin, Arg
  <2>3. (driver # "bitbang" /\ GoWithoutPin(p)) => (driver = "spi" /\ Pop(p))
    BY <1>0 DEF GoWithoutPin
  <2> HIDE DEF x
  <2> QED
    BY <2>1, <2>2, <2>3 DEF Effect, memory, strip
<1>12. Unloaded(p) => Effect(p, x) /\ Pop(p)
  BY DEF Unloaded, Next1, Effect, memory, strip
<1>13. ASSUME RequestPin(p), driver = "bitbang", GoWithoutPin(p), ~Pop(p) \/ ~Effect(p, x)
       PROVE  Quits(p, x) /\ SeqInv' /\ x \in StepSet
  <2>1. pc[p] \in Seq(StepSet) /\ FitWith(pc[p], {})
    BY DEF SeqInv
  <2>2. x \in Rest(p) /\ x \in StepSet /\ Fits(x, Rest(p) \ {x}) /\ x[1] = "request"
    BY <1>1, <1>13, <2>1, Advance DEF Rest, RequestPin, Next1
  <2>3. x[2] \in Pins
    BY <2>2, StepKinds
  <2> DEFINE k == x[2] - 1
             order == [i \in 1..k |-> i]
  <2>4. /\ k \in Nat /\ \A i \in 1..k : i \in Pins
        /\ order \in Seq(Pins) /\ Len(order) = k /\ \A i \in 1..k : order[i] = i
    BY <2>3 DEF Pins
  <2>5. /\ Free(order) \in Seq(StepSet) /\ FitWith(Free(order), {})
        /\ Range(Free(order)) = {<<"free", order[i]>> : i \in 1..Len(order)}
    <3>1. PICK T : T = {}
      OBVIOUS
    <3>2. /\ Free(order) \in Seq(StepSet) /\ FitWith(Free(order), T)
          /\ Range(Free(order)) = {<<"free", order[i]>> : i \in 1..Len(order)}
      <4>1. \A i, j \in 1..Len(order) : order[i] = order[j] => i = j
        BY <2>4
      <4>2. \A y \in T : y[1] \in {"request", "out"}
        BY <3>1
      <4> HIDE DEF order
      <4> QED
        BY <2>4, <4>1, <4>2, FreesFit
    <3> HIDE DEF order
    <3> QED
      BY <3>1, <3>2
  <2>6. PICK rest : rest = Free(order)
    OBVIOUS
  <2>7. Over(p, rest) /\ UNCHANGED <<stage, lock, memory, strip, want>>
    BY <1>13, <2>6 DEF RequestPin, GoWithoutPin, Arg
  <2>8. Onward(p) /\ Rest(p)' = Range(rest) /\ SeqInv'
    BY <1>1, <2>5, <2>6, <2>7, GoesOn
  <2>9. pins' = pins /\ refused' = IF x[2] \in pins THEN refused ELSE refused \cup {x[2]}
    <3>1. \/ x[2] \notin pins /\ Pop(p) /\ pins' = pins \cup {x[2]} /\ refused' = refused \ {x[2]}
          \/ x[2] \in pins /\ pins' = pins /\ refused' = refused
          \/ x[2] \notin pins /\ pins' = pins /\ refused' = refused \cup {x[2]}
      BY <1>13 DEF RequestPin, Arg
    <3>2. x[1] = "request" /\ UNCHANGED <<stage, lock, memory, strip, alone, want, pinRace>>
      BY <1>13 DEF RequestPin, Next1
    <3>3. ~(x[2] \notin pins /\ Pop(p) /\ pins' = pins \cup {x[2]} /\ refused' = refused \ {x[2]})
      <4> HIDE DEF x
      <4> QED
        BY <1>13, <3>2 DEF Effect, memory, strip
    <3> QED
      BY <3>1, <3>3
  <2>10. \A y \in Rest(p)' : y[1] = "free"
    BY <2>5, <2>6, <2>8
  <2>11. \A i \in Pins : i < x[2] => <<"free", i>> \in Rest(p)'
    <3> SUFFICES ASSUME NEW i \in Pins, i < x[2] PROVE <<"free", i>> \in Rest(p)'
      OBVIOUS
    <3>1. i \in 1..k
      BY <2>3 DEF Pins
    <3> QED
      BY <2>4, <2>5, <2>6, <2>8, <3>1
  <2> QED
    BY <1>13, <2>2, <2>7, <2>8, <2>9, <2>10, <2>11 DEF Quits
<1> HIDE DEF x
<1>14. ASSUME Effect(p, x), Pop(p) PROVE SeqInv' /\ x \in StepSet /\ Acts(p, x)
  BY <1>2, <1>14 DEF Acts
<1>15. CASE RequestPin(p)
  <2>1. CASE Pop(p) /\ Effect(p, x)
    BY <1>14, <2>1
  <2>2. CASE ~Pop(p) \/ ~Effect(p, x)
    BY <1>11, <1>13, <1>15, <2>2
  <2> QED
    BY <2>1, <2>2
<1>16. CASE ~RequestPin(p)
  <2>1. Effect(p, x) /\ Pop(p)
    BY <1>3, <1>4, <1>5, <1>6, <1>7, <1>8, <1>9, <1>10, <1>12, <1>16 DEF Step
  <2> QED
    BY <1>14, <2>1
<1> QED
  BY <1>15, <1>16

LEMMA BeginIs ==
    ASSUME SeqInv, op \in [Actors -> CallKinds], calls \in 0..MaxCalls,
           NEW p \in Actors, NEW what \in CallKinds \ {"none"}, NEW steps,
           Begin(p, what, steps), Scripted(what, steps),
           what = "init" => p = Insmod /\ stage = "out" /\ stage' = "in" /\ single' = Blank /\ leds' = Fresh,
           what # "init" => UNCHANGED memory,
           what = "exit" => p = Insmod /\ stage = "in" /\ files = {} /\ stage' = "going",
           what \notin {"init", "exit"} => p \in files /\ stage' = stage,
           files' = files
    PROVE  SeqInv' /\ Begins(p, what)
<1>1. steps \in Seq(StepSet) /\ FitWith(steps, {}) /\ steps # <<>>
  BY DEF Scripted
<1>2. pc' = [pc EXCEPT ![p] = steps] /\ op' = [op EXCEPT ![p] = what] /\ Idle(p)
  BY DEF Begin
<1>3. pc' \in [Actors -> Seq(StepSet)] /\ pc'[p] = steps /\ \A q \in Actors \ {p} : pc'[q] = pc[q]
  BY <1>1, <1>2 DEF SeqInv
<1>4. SeqInv'
  BY <1>1, <1>3 DEF SeqInv
<1>5. Rest(p)' = Range(steps) /\ \A q \in Actors \ {p} : Rest(q)' = Rest(q)
  BY <1>3 DEF Rest
<1>6. ~Busy(p) /\ Busy(p)'
  <2>1. Range(steps) # {}
    BY <1>1, RangeOf
  <2> QED
    BY <1>2, <1>5, <2>1, RestIs DEF Busy
<1>7. op' \in [Actors -> CallKinds] /\ op'[p] = what /\ \A q \in Actors \ {p} : op'[q] = op[q]
  BY <1>2
<1>8. /\ CallShape(what, driver, Rest(p)') /\ CallStart(what, driver, Rest(p)')
      /\ driver = "spi" /\ <<"lock">> \in Rest(p)' => Head(pc'[p]) = <<"lock">>
  BY <1>3, <1>5 DEF Scripted
<1>9. \/ alone' = [q \in Actors |-> FALSE] /\ want' = [l \in 1..Leds |-> Unknown]
      \/ /\ alone' = [alone EXCEPT ![p] = TRUE] /\ want' = want
         /\ \A q \in Actors \ {p} : Busy(q) =>
               driver = "spi" /\ what = "write" /\ op[q] = "write" /\ alone[q]
  BY RestIs DEF Begin, Conflict
<1>10. (\E i \in 1..Len(steps) : steps[i][1] = "request") <=> Some("request", Range(steps))
  BY <1>1, RangeOf DEF Some
<1>11. \A q \in Actors : Pinning(q) <=> TakesPins(q)
  BY RestIs DEF Pinning, TakesPins
<1>12. pinRace' = IF Some("request", Rest(p)') THEN \E q \in Actors \ {p} : TakesPins(q) ELSE pinRace
  BY <1>5, <1>10, <1>11 DEF Begin
<1>13. UNCHANGED <<driver, files, lock, strip, pins, refused>> /\ calls' \in 0..MaxCalls
  BY WsAssumption DEF Begin
<1> QED
  BY <1>3, <1>4, <1>5, <1>6, <1>7, <1>8, <1>9, <1>12, <1>13 DEF Begins

\* Nothing is done to the device.
Opens(p) ==
    /\ stage = "in" /\ p \in Procs /\ files' = files \cup {p} /\ ~Busy(p)
    /\ UNCHANGED <<driver, stage, pc, op, lock, memory, strip, pins, history, calls>>

LEMMA NextIs ==
    ASSUME SeqInv, CallInv, calls \in 0..MaxCalls, [Next]_vars
    PROVE  /\ SeqInv'
           /\ \/ \E p \in Actors, x \in StepSet : Acts(p, x) \/ Quits(p, x)
              \/ \E p \in Actors, what \in CallKinds : Begins(p, what)
              \/ \E p \in Actors : Opens(p)
              \/ UNCHANGED vars
<1>0. /\ op \in [Actors -> CallKinds] /\ driver \in {"spi", "bitbang"}
      /\ Insmod \in Actors /\ \A p \in Procs : p \in Actors
  BY DEF CallInv, Actors
<1>1. CASE Insert
  <2>1. SeqInv' /\ Begins(Insmod, "init")
    BY <1>0, <1>1, BeginIs, InitScripted DEF Insert, CallKinds
  <2> QED
    BY <1>0, <2>1 DEF CallKinds
<1>2. CASE Remove
  <2>1. SeqInv' /\ Begins(Insmod, "exit")
    BY <1>0, <1>2, BeginIs, ExitScripted DEF Remove, CallKinds
  <2> QED
    BY <1>0, <2>1 DEF CallKinds
<1>3. ASSUME NEW p \in Procs, Open(p) PROVE SeqInv' /\ Opens(p)
  <2>1. SeqInv'
    BY <1>3 DEF Open, SeqInv
  <2> QED
    BY <1>0, <1>3, <2>1, RestIs DEF Open, Opens
<1>4. ASSUME NEW p \in Procs, Reset(p) PROVE SeqInv' /\ Begins(p, "reset")
  BY <1>0, <1>4, BeginIs, ResetScripted DEF Reset, CallKinds
<1>5. ASSUME NEW p \in Procs, Release(p) PROVE SeqInv' /\ Begins(p, "release")
  BY <1>0, <1>5, BeginIs, ReleaseScripted DEF Release, CallKinds
<1>6. ASSUME NEW p \in Procs, NEW l \in 1..Leds, NEW c \in Colours \cup {Off}, Write(p, l, c)
      PROVE  SeqInv' /\ Begins(p, "write")
  <2>1. Scripted("write", WsWrite(l, c))
    BY WriteScripted DEF Tints
  <2> QED
    BY <1>0, <1>6, <2>1, BeginIs DEF Write, CallKinds
<1>7. ASSUME NEW p \in Actors, Step(p)
      PROVE  SeqInv' /\ \E x \in StepSet : Acts(p, x) \/ Quits(p, x)
  BY <1>0, <1>7, StepIs
<1>8. CASE UNCHANGED vars
  BY <1>8 DEF SeqInv, vars
<1>9. CASE Stopped
  BY <1>8, <1>9 DEF Stopped
<1>10. {"write", "reset", "release"} \subseteq CallKinds
  BY DEF CallKinds
<1> QED
  BY <1>0, <1>1, <1>2, <1>3, <1>4, <1>5, <1>6, <1>7, <1>8, <1>9, <1>10 DEF Next

-----------------------------------------------------------------------------
(* The calls go on.                                                         *)

LEMMA SomeLess ==
    ASSUME NEW R, NEW x \in R
    PROVE  \A kind : /\ Some(kind, R \ {x}) => Some(kind, R)
                     /\ x[1] # kind /\ Some(kind, R) => Some(kind, R \ {x})
BY DEF Some

LEMMA ShapeGoesOn ==
    ASSUME NEW what, NEW drv, NEW R, NEW x \in R, NEW R1, R1 = R \ {x}, Fits(x, R1), CallShape(what, drv, R),
           drv = "spi" /\ <<"lock">> \in R => x = <<"lock">>
    PROVE  CallShape(IF R1 = {} THEN "none" ELSE what, drv, R1)
<1>1. \A kind : /\ Some(kind, R1) => Some(kind, R)
                /\ x[1] # kind /\ Some(kind, R) => Some(kind, R1)
  BY SomeLess
<1>2. \A y \in R1 : y \in R
  OBVIOUS
<1>3. \A y \in R : y # x => y \in R1
  OBVIOUS
<1>4. x \notin R1
  OBVIOUS
<1>5. /\ \A l : <<"copy", l>>[1] = "copy" /\ <<"send", l>>[1] = "send"
      /\ <<"out">>[1] = "out" /\ <<"lock">>[1] = "lock" /\ <<"unlock">>[1] = "unlock"
  OBVIOUS
<1>6. CASE R1 = {}
  BY <1>6 DEF CallShape, Some
<1>7. CASE R1 # {}
  <2>1. what = "release" /\ Some("color", R1) => \A l \in 1..Leds : <<"copy", l>> \in R1
    BY <1>1, <1>3, <1>5 DEF CallShape, Fits, FitsDrawing
  <2>2. what = "release" /\ Some("copy", R1) => \A l \in 1..Leds : <<"send", l>> \in R1
    BY <1>1, <1>3, <1>5 DEF CallShape, Fits, FitsDrawing
  <2>3. \A y \in R1 : y[1] = "color" /\ y[2] # Off => what = "write"
    BY <1>2 DEF CallShape
  <2>4. <<"out">> \in R1 <=> what = "exit"
    BY <1>2, <1>3, <1>5, <1>7 DEF CallShape, Fits, FitsLocking
  <2>5. <<"lockinit">> \in R1 => what = "init" /\ drv = "spi"
    BY <1>2 DEF CallShape
  <2>6. /\ drv = "bitbang" /\ Some("end", R1) => <<"unlock">> \in R1
        /\ drv = "spi" /\ what = "write" /\ Some("end", R1) => <<"unlock">> \in R1
    BY <1>1, <1>3, <1>5 DEF CallShape, Fits, FitsSending
  <2>7. drv = "spi" /\ what # "write" => <<"lock">> \notin R1 /\ <<"unlock">> \notin R1
    BY <1>2 DEF CallShape
  <2>8. drv = "spi" /\ <<"lock">> \in R1 => Some("color", R1)
    BY <1>2, <1>4
  <2>9. what \in {"write", "release"} => ~Some("free", R1) /\ ~Some("request", R1)
    BY <1>1 DEF CallShape
  <2>10. what = "exit" => ~Some("request", R1)
    BY <1>1 DEF CallShape
  <2> QED
    BY <1>7, <2>1, <2>2, <2>3, <2>4, <2>5, <2>6, <2>7, <2>8, <2>9, <2>10 DEF CallShape
<1> QED
  BY <1>6, <1>7

\* A call that frees the pins it has got was to take them.
LEMMA ShapeQuits ==
    ASSUME NEW what, NEW R, NEW x \in R, x[1] = "request", NEW R1, \A y \in R1 : y[1] = "free",
           CallShape(what, "bitbang", R)
    PROVE  what \notin {"write", "release", "exit"} /\ CallShape(IF R1 = {} THEN "none" ELSE what, "bitbang", R1)
<1>1. what \notin {"write", "release", "exit"}
  BY DEF CallShape, Some
<1>2. <<"out">>[1] = "out" /\ <<"lockinit">>[1] = "lockinit"
  OBVIOUS
<1>3. CallShape(IF R1 = {} THEN "none" ELSE what, "bitbang", R1)
  BY <1>1, <1>2 DEF CallShape, Some
<1> QED
  BY <1>1, <1>3

LEMMA CallActs ==
    ASSUME CallInv, LockInv, NEW p \in Actors, NEW x \in StepSet, Acts(p, x)
    PROVE  CallInv'
<1> DEFINE R == Rest(p)
<1>1. /\ x = Head(pc[p]) /\ x \in R /\ Rest(p)' = R \ {x} /\ Fits(x, Rest(p)')
      /\ stage' = IF x[1] = "out" THEN "out" ELSE stage
  BY DEF Acts, Taken, Effect
<1>2. /\ \A q \in Actors \ {p} : Rest(q)' = Rest(q) /\ op'[q] = op[q]
      /\ op' \in [Actors -> CallKinds]
      /\ op'[p] = IF Rest(p)' = {} THEN "none" ELSE op[p]
      /\ files' = IF Rest(p)' = {} /\ op[p] = "release" THEN files \ {p} ELSE files
      /\ driver' = driver /\ alone' = alone
  BY DEF Acts, Onward
<1>3. Busy(p) /\ op[p] # "none" /\ CallShape(op[p], driver, R)
  BY <1>1 DEF CallInv, Busy
<1>4. CallShape(op'[p], driver', Rest(p)')
  <2>1. driver = "spi" /\ <<"lock">> \in R => x = <<"lock">>
    BY <1>1 DEF LockInv
  <2>2. PICK R1 : R1 = R \ {x}
    OBVIOUS
  <2>3. CallShape(IF R1 = {} THEN "none" ELSE op[p], driver, R1)
    BY <1>1, <1>3, <2>1, <2>2, ShapeGoesOn
  <2> QED
    BY <1>1, <1>2, <2>2, <2>3
<1>5. \A q \in Actors : CallShape(op'[q], driver', Rest(q)')
  BY <1>2, <1>4 DEF CallInv
<1>6. \A q \in Actors : op'[q] = "none" <=> ~Busy(q)'
  BY <1>2, <1>3 DEF CallInv, Busy
<1>7. Insmod \notin Procs /\ Insmod \in Actors /\ (p \in Procs \/ p = Insmod) /\ \A q \in Procs : q \in Actors
  BY WsAssumption DEF Actors
<1>8. \A q \in Procs : op'[q] \in {"none", "write", "reset", "release"} /\ (Busy(q)' => q \in files')
  <2> SUFFICES ASSUME NEW q \in Procs
               PROVE  op'[q] \in {"none", "write", "reset", "release"} /\ (Busy(q)' => q \in files')
    OBVIOUS
  <2>1. op[q] \in {"none", "write", "reset", "release"} /\ (Busy(q) => q \in files)
    BY DEF CallInv
  <2>2. CASE q = p
    BY <1>2, <1>3, <2>1, <2>2 DEF Busy
  <2>3. CASE q # p
    BY <1>2, <1>7, <2>1, <2>3 DEF Busy
  <2> QED
    BY <2>2, <2>3
<1>9. x[1] = "out" => x = <<"out">> /\ Rest(p)' = {} /\ op[p] = "exit" /\ p = Insmod /\ stage = "going"
  <2> SUFFICES ASSUME x[1] = "out" PROVE x = <<"out">> /\ Rest(p)' = {} /\ op[p] = "exit" /\ p = Insmod /\ stage = "going"
    OBVIOUS
  <2>1. x = <<"out">>
    BY StepKinds
  <2>2. Rest(p)' = {}
    BY <1>1 DEF Fits, FitsLocking
  <2>3. op[p] = "exit"
    BY <1>1, <1>3, <2>1 DEF CallShape
  <2>4. p = Insmod
    BY <1>7, <2>3 DEF CallInv
  <2> QED
    BY <2>1, <2>2, <2>3, <2>4 DEF CallInv
<1>10. x[1] # "out" /\ op[p] = "exit" => Rest(p)' # {}
  <2> SUFFICES ASSUME x[1] # "out", op[p] = "exit" PROVE <<"out">> \in R \ {x}
    BY <1>1
  <2>1. <<"out">> \in R /\ <<"out">>[1] = "out"
    BY <1>3 DEF CallShape
  <2> QED
    BY <2>1
<1>11. op'[Insmod] \in {"none", "init", "exit"} /\ (op'[Insmod] = "exit" <=> stage' = "going")
  <2>1. op[Insmod] \in {"none", "init", "exit"} /\ (op[Insmod] = "exit" <=> stage = "going")
    BY DEF CallInv
  <2>2. CASE p = Insmod
    <3>1. CASE x[1] = "out"
      BY <1>1, <1>2, <1>9, <2>2, <3>1
    <3>2. CASE x[1] # "out"
      BY <1>1, <1>2, <1>10, <2>1, <2>2, <3>2
    <3> QED
      BY <3>1, <3>2
  <2>3. CASE p # Insmod
    BY <1>1, <1>2, <1>7, <1>9, <2>1, <2>3
  <2> QED
    BY <2>2, <2>3
<1>12. stage' = "out" => ~Busy(Insmod)'
  <2>1. CASE x[1] = "out"
    BY <1>9, <2>1 DEF Busy
  <2>2. CASE x[1] # "out" /\ p = Insmod
    BY <1>1, <1>3, <2>2 DEF CallInv
  <2>3. CASE x[1] # "out" /\ p # Insmod
    BY <1>1, <1>2, <1>7, <2>3 DEF CallInv, Busy
  <2> QED
    BY <2>1, <2>2, <2>3
<1>13. stage' \in {"out", "in", "going"} /\ files' \subseteq Procs /\ (stage' # "in" => files' = {})
  <2>1. stage \in {"out", "in", "going"} /\ files \subseteq Procs /\ (stage # "in" => files = {})
    BY DEF CallInv
  <2> QED
    BY <1>1, <1>2, <1>9, <2>1
<1> QED
  BY <1>2, <1>5, <1>6, <1>8, <1>11, <1>12, <1>13 DEF CallInv

LEMMA CallQuits ==
    ASSUME CallInv, NEW p \in Actors, NEW x \in StepSet, Quits(p, x)
    PROVE  CallInv'
<1>1. /\ x \in Rest(p) /\ x[1] = "request" /\ \A y \in Rest(p)' : y[1] = "free"
      /\ stage' = stage /\ driver = "bitbang"
  BY DEF Quits
<1>2. /\ \A q \in Actors \ {p} : Rest(q)' = Rest(q) /\ op'[q] = op[q]
      /\ op' \in [Actors -> CallKinds]
      /\ op'[p] = IF Rest(p)' = {} THEN "none" ELSE op[p]
      /\ files' = IF Rest(p)' = {} /\ op[p] = "release" THEN files \ {p} ELSE files
      /\ driver' = driver /\ alone' = alone
  BY DEF Quits, Onward
<1>3. Busy(p) /\ op[p] # "none" /\ CallShape(op[p], "bitbang", Rest(p))
  BY <1>1 DEF CallInv, Busy
<1>4. op[p] \notin {"write", "release", "exit"} /\ CallShape(op'[p], driver', Rest(p)')
  <2>1. PICK R1 : R1 = Rest(p)'
    OBVIOUS
  <2>2. /\ op[p] \notin {"write", "release", "exit"}
        /\ CallShape(IF R1 = {} THEN "none" ELSE op[p], "bitbang", R1)
    BY <1>1, <1>3, <2>1, ShapeQuits
  <2> QED
    BY <1>1, <1>2, <2>1, <2>2
<1>5. \A q \in Actors : CallShape(op'[q], driver', Rest(q)')
  BY <1>2, <1>4 DEF CallInv
<1>6. files' = files
  BY <1>2, <1>4
<1>7. Insmod \notin Procs /\ Insmod \in Actors /\ \A q \in Procs : q \in Actors
  BY WsAssumption DEF Actors
<1>8. \A q \in Actors : (op'[q] = "none" <=> ~Busy(q)') /\ (Busy(q)' => Busy(q)) /\ op'[q] \in {op[q], "none"}
  BY <1>2, <1>3 DEF CallInv, Busy
<1>9. \A q \in Procs : op'[q] \in {"none", "write", "reset", "release"} /\ (Busy(q)' => q \in files')
  BY <1>6, <1>7, <1>8 DEF CallInv
<1>10. op'[Insmod] \in {"none", "init", "exit"} /\ (op'[Insmod] = "exit" <=> stage' = "going")
  BY <1>1, <1>2, <1>4, <1>7, <1>8 DEF CallInv
<1> QED
  BY <1>1, <1>2, <1>5, <1>6, <1>7, <1>8, <1>9, <1>10 DEF CallInv

LEMMA CallBegins ==
    ASSUME CallInv, NEW p \in Actors, NEW what \in CallKinds, Begins(p, what)
    PROVE  CallInv'
<1>1. /\ \A q \in Actors \ {p} : Rest(q)' = Rest(q) /\ op'[q] = op[q]
      /\ ~Busy(p) /\ Busy(p)' /\ what # "none" /\ op' \in [Actors -> CallKinds] /\ op'[p] = what
      /\ CallShape(what, driver, Rest(p)') /\ driver' = driver /\ files' = files
      /\ what = "init" => p = Insmod /\ stage = "out" /\ stage' = "in"
      /\ what = "exit" => p = Insmod /\ stage = "in" /\ files = {} /\ stage' = "going"
      /\ what \notin {"init", "exit"} => p \in files /\ stage' = stage
  BY DEF Begins
<1>2. Insmod \notin Procs /\ Insmod \in Actors /\ \A q \in Procs : q \in Actors
  BY WsAssumption DEF Actors
<1>3. alone' \in [Actors -> BOOLEAN]
  BY DEF Begins, CallInv
<1>4. \A q \in Actors : CallShape(op'[q], driver', Rest(q)')
  BY <1>1 DEF CallInv
<1>5. \A q \in Actors : op'[q] = "none" <=> ~Busy(q)'
  BY <1>1 DEF CallInv, Busy
<1>6. \A q \in Procs : op'[q] \in {"none", "write", "reset", "release"} /\ (Busy(q)' => q \in files')
  <2> SUFFICES ASSUME NEW q \in Procs
               PROVE  op'[q] \in {"none", "write", "reset", "release"} /\ (Busy(q)' => q \in files')
    OBVIOUS
  <2>1. op[q] \in {"none", "write", "reset", "release"} /\ (Busy(q) => q \in files) /\ files \subseteq Procs
    BY DEF CallInv
  <2>2. CASE q = p
    BY <1>1, <1>2, <2>2 DEF CallKinds
  <2>3. CASE q # p
    BY <1>1, <1>2, <2>1, <2>3 DEF Busy
  <2> QED
    BY <2>2, <2>3
<1>7. /\ stage \in {"out", "in", "going"} /\ files \subseteq Procs /\ (stage # "in" => files = {})
      /\ op[Insmod] \in {"none", "init", "exit"} /\ (op[Insmod] = "exit" <=> stage = "going")
      /\ stage = "out" => ~Busy(Insmod)
  BY DEF CallInv
<1>8. op'[Insmod] \in {"none", "init", "exit"} /\ (op'[Insmod] = "exit" <=> stage' = "going")
  <2>1. CASE p = Insmod
    BY <1>1, <1>2, <1>7, <2>1
  <2>2. CASE p # Insmod
    BY <1>1, <1>2, <1>7, <2>2
  <2> QED
    BY <2>1, <2>2
<1>9. /\ stage' \in {"out", "in", "going"} /\ (stage' # "in" => files' = {})
      /\ stage' = "out" => ~Busy(Insmod)'
  <2>1. what \in {"init", "exit"} => stage' # "out"
    BY <1>1
  <2>2. what \notin {"init", "exit"} => p # Insmod /\ stage' = stage
    BY <1>1, <1>2, <1>7
  <2>3. p # Insmod => Rest(Insmod)' = Rest(Insmod)
    BY <1>1, <1>2
  <2> QED
    BY <1>1, <1>7, <2>1, <2>2, <2>3 DEF Busy
<1> QED
  BY <1>1, <1>3, <1>4, <1>5, <1>6, <1>7, <1>8, <1>9 DEF CallInv

LEMMA CallOpens ==
    ASSUME CallInv, NEW p \in Actors, Opens(p)
    PROVE  CallInv'
<1>1. /\ UNCHANGED <<driver, stage, pc, op, alone>> /\ stage = "in" /\ files' = files \cup {p} /\ p \in Procs
  BY DEF Opens, history
<1>2. \A q \in Actors : Rest(q)' = Rest(q) /\ Busy(q)' = Busy(q)
  BY <1>1 DEF Rest, Busy
<1>3. Insmod \in Actors /\ \A q \in Procs : q \in Actors
  BY DEF Actors
<1> QED
  BY <1>1, <1>2, <1>3 DEF CallInv

-----------------------------------------------------------------------------
(* Conflicts and the lock.                                                  *)

LEMMA AloneActs ==
    ASSUME CallInv, CallInv', AloneInv, NEW p \in Actors, Onward(p), Busy(p)
    PROVE  AloneInv'
<1>1. alone' = alone /\ driver' = driver /\ \A q \in Actors : Busy(q)' => Busy(q) /\ op'[q] = op[q]
  BY DEF Onward, Busy
<1> QED
  BY <1>1 DEF AloneInv

LEMMA AloneBegins ==
    ASSUME CallInv, AloneInv, NEW p \in Actors, NEW what \in CallKinds, Begins(p, what)
    PROVE  AloneInv'
<1>1. /\ driver' = driver /\ op'[p] = what /\ ~Busy(p)
      /\ \A q \in Actors \ {p} : (Busy(q)' <=> Busy(q)) /\ op'[q] = op[q]
  BY DEF Begins, Busy
<1>2. CASE alone' = [q \in Actors |-> FALSE]
  BY <1>2 DEF AloneInv
<1>3. CASE /\ alone' = [alone EXCEPT ![p] = TRUE]
           /\ \A q \in Actors \ {p} : Busy(q) =>
                 driver = "spi" /\ what = "write" /\ op[q] = "write" /\ alone[q]
  <2>1. alone'[p] = TRUE /\ \A q \in Actors \ {p} : alone'[q] = alone[q]
    BY <1>3 DEF CallInv
  <2>2. \A q \in Actors : Busy(q)' => alone'[q]
    BY <1>1, <1>3, <2>1
  <2>3. ASSUME NEW q \in Actors, NEW r \in Actors, Busy(q)', Busy(r)', q # r
        PROVE  driver' = "spi" /\ op'[q] = "write"
    <3>1. \E s \in Actors \ {p} : Busy(s)
      BY <1>1, <2>3
    <3>2. driver = "spi" /\ what = "write"
      BY <1>3, <3>1
    <3> QED
      BY <1>1, <1>3, <2>3, <3>2
  <2> QED
    BY <2>2, <2>3 DEF AloneInv
<1> QED
  BY <1>2, <1>3 DEF Begins

LEMMA AloneOpens ==
    ASSUME AloneInv, NEW p \in Actors, Opens(p)
    PROVE  AloneInv'
<1>1. UNCHANGED <<driver, op, alone>> /\ \A q \in Actors : Busy(q)' <=> Busy(q)
  BY DEF Opens, history, Rest, Busy
<1> QED
  BY <1>1 DEF AloneInv

\* Of two calls that do not conflict one only is in its critical section.
LEMMA Exclusive ==
    ASSUME CallInv, AloneInv, LockInv, NEW p \in Actors, NEW q \in Actors, p # q, Busy(p), alone[q],
           Some("end", Rest(p)), Some("end", Rest(q)),
           <<"lock">> \notin Rest(p), <<"lock">> \notin Rest(q)
    PROVE  FALSE
<1>1. Busy(q) /\ driver = "spi" /\ op[q] = "write" /\ alone[p]
  BY DEF Busy, Some, AloneInv
<1>2. op[p] = "write"
  BY <1>1 DEF AloneInv
<1>3. <<"unlock">> \in Rest(p) /\ <<"unlock">> \in Rest(q)
  BY <1>1, <1>2 DEF CallInv, CallShape
<1>4. lock = p /\ lock = q
  BY <1>1, <1>3 DEF LockInv, Inside
<1> QED
  BY <1>4

LEMMA LockActs ==
    ASSUME CallInv, AloneInv, LockInv, NEW p \in Actors, NEW x \in StepSet, Acts(p, x)
    PROVE  LockInv'
<1>1. /\ x = Head(pc[p]) /\ x \in Rest(p) /\ Rest(p)' = Rest(p) \ {x} /\ Fits(x, Rest(p)')
      /\ lock' = IF x[1] = "lock" THEN p ELSE IF x[1] \in {"unlock", "lockinit"} THEN Nobody ELSE lock
      /\ x[1] = "lock" => lock = Nobody
  BY DEF Acts, Taken, Effect
<1>2. /\ \A q \in Actors \ {p} : Rest(q)' = Rest(q) /\ pc'[q] = pc[q] /\ (Inside(q)' <=> Inside(q))
      /\ driver' = driver /\ alone' = alone
  BY DEF Acts, Onward, Inside
<1>3. Busy(p) /\ CallShape(op[p], driver, Rest(p))
  BY <1>1 DEF CallInv, Busy
<1>4. /\ <<"lock">>[1] = "lock" /\ <<"unlock">>[1] = "unlock"
      /\ x[1] = "lock" => x = <<"lock">>
      /\ x[1] = "unlock" => x = <<"unlock">>
      /\ x[1] = "lockinit" => x = <<"lockinit">>
  BY StepKinds
<1>5. lock' \in Actors \cup {Nobody}
  BY <1>1 DEF LockInv
<1>6. ASSUME driver = "spi", NEW q \in Actors, <<"lock">> \in Rest(q)' PROVE Head(pc'[q]) = <<"lock">>
  <2>1. q # p
    BY <1>1, <1>6 DEF LockInv
  <2> QED
    BY <1>2, <1>6, <2>1 DEF LockInv
<1>7. ASSUME NEW q \in Actors, Inside(q)', driver = "bitbang" \/ alone[q] PROVE lock' = q
  <2>1. CASE q = p
    <3>1. <<"unlock">> \in Rest(p) /\ x # <<"unlock">> /\ <<"lock">> \notin Rest(p) \ {x}
      BY <1>1, <1>7, <2>1 DEF Inside
    <3>2. CASE x[1] = "lock"
      BY <1>1, <2>1, <3>2
    <3>3. CASE x[1] # "lock"
      <4>1. Inside(p)
        BY <1>4, <3>1, <3>3 DEF Inside
      <4>2. lock = p
        BY <1>7, <2>1, <4>1 DEF LockInv
      <4>3. x[1] # "lockinit"
        <5> SUFFICES ASSUME x[1] = "lockinit" PROVE FALSE
          OBVIOUS
        <5>1. op[p] = "init" /\ driver = "spi"
          BY <1>1, <1>3, <1>4 DEF CallShape
        <5> QED
          BY <1>3, <3>1, <5>1 DEF CallShape
      <4> QED
        BY <1>1, <1>4, <2>1, <3>1, <3>3, <4>2, <4>3
    <3> QED
      BY <3>2, <3>3
  <2>2. CASE q # p
    <3>1. Inside(q) /\ lock = q /\ Busy(q)
      BY <1>2, <1>7, <2>2 DEF LockInv, Inside, Busy
    <3>2. x[1] # "lock"
      BY <1>1, <3>1, WsAssumption DEF Actors
    <3>3. x[1] # "unlock"
      <4> SUFFICES ASSUME x[1] = "unlock" PROVE FALSE
        OBVIOUS
      <4>1. Inside(p)
        BY <1>1, <1>4 DEF Inside, Fits, FitsLocking, Some
      <4>2. driver = "bitbang" \/ alone[p]
        BY <1>3, <1>7, <3>1 DEF AloneInv
      <4> QED
        BY <2>2, <3>1, <4>1, <4>2 DEF LockInv
    <3>4. x[1] # "lockinit"
      <4> SUFFICES ASSUME x[1] = "lockinit" PROVE FALSE
        OBVIOUS
      <4>1. op[p] = "init" /\ driver = "spi"
        BY <1>1, <1>3, <1>4 DEF CallShape
      <4>2. alone[p] /\ alone[q]
        BY <1>3, <1>7, <3>1, <4>1 DEF AloneInv
      <4>3. op[p] = "write"
        BY <1>3, <2>2, <3>1, <4>2 DEF AloneInv
      <4> QED
        BY <4>1, <4>3
    <3> QED
      BY <1>1, <3>1, <3>2, <3>3, <3>4
  <2> QED
    BY <2>1, <2>2
<1> QED
  BY <1>2, <1>5, <1>6, <1>7 DEF LockInv

LEMMA LockQuits ==
    ASSUME LockInv, NEW p \in Actors, NEW x \in StepSet, Quits(p, x)
    PROVE  LockInv'
<1>1. /\ driver = "bitbang" /\ \A y \in Rest(p)' : y[1] = "free"
      /\ lock' = lock /\ driver' = driver /\ alone' = alone
      /\ \A q \in Actors \ {p} : Inside(q)' <=> Inside(q)
  BY DEF Quits, Onward, Inside
<1>2. ~Inside(p)'
  <2>1. <<"unlock">>[1] = "unlock"
    OBVIOUS
  <2> QED
    BY <1>1, <2>1 DEF Inside
<1> QED
  BY <1>1, <1>2 DEF LockInv

LEMMA LockBegins ==
    ASSUME CallInv, LockInv, NEW p \in Actors, NEW what \in CallKinds, Begins(p, what)
    PROVE  LockInv'
<1>1. /\ \A q \in Actors \ {p} : Rest(q)' = Rest(q) /\ pc'[q] = pc[q] /\ (Inside(q)' <=> Inside(q))
      /\ lock' = lock /\ driver' = driver /\ CallStart(what, driver, Rest(p)')
      /\ driver = "spi" /\ <<"lock">> \in Rest(p)' => Head(pc'[p]) = <<"lock">>
      /\ alone' = [q \in Actors |-> FALSE] \/ alone' = [alone EXCEPT ![p] = TRUE]
  BY DEF Begins, Inside
<1>2. ~Inside(p)'
  BY <1>1 DEF Inside, CallStart
<1>3. \A q \in Actors \ {p} : alone'[q] => alone[q]
  BY <1>1 DEF CallInv
<1> QED
  BY <1>1, <1>2, <1>3 DEF LockInv

LEMMA LockOpens ==
    ASSUME LockInv, NEW p \in Actors, Opens(p)
    PROVE  LockInv'
<1>1. UNCHANGED <<driver, alone, lock, pc>> /\ \A q \in Actors : Rest(q)' = Rest(q) /\ (Inside(q)' <=> Inside(q))
  BY DEF Opens, history, Rest, Inside
<1> QED
  BY <1>1 DEF LockInv

-----------------------------------------------------------------------------
(* The transfers.                                                           *)

LEMMA SendActs ==
    ASSUME CallInv, LockInv, SendInv, NEW p \in Actors, NEW x \in StepSet, Acts(p, x)
    PROVE  SendInv'
<1>1. /\ x \in Rest(p) /\ Rest(p)' = Rest(p) \ {x} /\ Fits(x, Rest(p)')
      /\ \A q \in Actors \ {p} : Rest(q)' = Rest(q)
  BY DEF Acts, Taken, Onward
<1>2. /\ sending' = IF x[1] = "begin" THEN sending \cup {p} ELSE IF x[1] = "end" THEN sending \ {p} ELSE sending
      /\ x[1] = "begin" /\ driver = "spi" => sending = {}
      /\ x[1] = "begin" => pos' = (IF sending = {} THEN 1 ELSE pos)
      /\ x[1] \notin {"begin", "send"} => pos' = pos
      /\ x[1] = "send" => pos' = pos \/ (~(pos > Leds) /\ pos' = pos + 1)
  BY DEF Acts, Effect
<1>3. \A kind : /\ Some(kind, Rest(p)') => Some(kind, Rest(p))
                /\ x[1] # kind /\ Some(kind, Rest(p)) => Some(kind, Rest(p)')
  <2>1. PICK R : R = Rest(p)
    OBVIOUS
  <2>2. \A kind : /\ Some(kind, R \ {x}) => Some(kind, R)
                  /\ x[1] # kind /\ Some(kind, R) => Some(kind, R \ {x})
    BY <1>1, <2>1, SomeLess
  <2> QED
    BY <1>1, <2>1, <2>2
<1>4. pos' \in 1..(Leds + 1)
  BY <1>2, WsAssumption DEF SendInv
<1>5. p \in sending' <=> Some("end", Rest(p)') /\ ~Some("begin", Rest(p)')
  <2>1. CASE x[1] = "begin"
    BY <1>1, <1>2, <2>1 DEF Fits, FitsDrawing, FitsSending
  <2>2. CASE x[1] = "end"
    BY <1>1, <1>2, <2>2 DEF Fits, FitsSending
  <2>3. CASE x[1] \notin {"begin", "end"}
    BY <1>2, <1>3, <2>3 DEF SendInv
  <2> QED
    BY <2>1, <2>2, <2>3
<1>6. \A q \in Actors : q \in sending' <=> Some("end", Rest(q)') /\ ~Some("begin", Rest(q)')
  BY <1>1, <1>2, <1>5 DEF SendInv
<1>7. \A q \in sending' : ~Some("lock", Rest(q)')
  <2>1. p \in sending' => ~Some("lock", Rest(p)')
    BY <1>1, <1>2, <1>3 DEF SendInv, Fits, FitsLocking
  <2>2. \A q \in sending' : q # p => q \in sending /\ q \in Actors
    BY <1>2 DEF SendInv
  <2> QED
    BY <1>1, <2>1, <2>2 DEF SendInv
<1>8. x[1] = "begin" => sending = {}
  <2> SUFFICES ASSUME x[1] = "begin", driver = "bitbang", NEW q \in sending PROVE FALSE
    BY <1>2 DEF CallInv
  <2>1. q # p /\ q \in Actors
    BY <1>1 DEF SendInv, Some
  <2>2. Some("end", Rest(q)) /\ ~Some("lock", Rest(q))
    BY <2>1 DEF SendInv
  <2>3. Some("end", Rest(p)) /\ ~Some("lock", Rest(p))
    BY <1>1, <1>3 DEF Fits, FitsSending, FitsLocking
  <2>4. Inside(p) /\ Inside(q)
    <3>1. <<"lock">>[1] = "lock"
      OBVIOUS
    <3> QED
      BY <2>1, <2>2, <2>3, <3>1 DEF Inside, CallInv, CallShape, Some
  <2> QED
    BY <2>1, <2>4 DEF LockInv
<1>9. \A q, r \in sending' : q = r
  BY <1>2, <1>8 DEF SendInv
<1>10. sending' \subseteq Actors
  BY <1>2 DEF SendInv
<1> QED
  BY <1>4, <1>6, <1>7, <1>9, <1>10 DEF SendInv

\* The call that ends so had not sent anything.
LEMMA QuitsEarly ==
    ASSUME NEW p \in Actors, NEW x \in StepSet, Quits(p, x)
    PROVE  /\ Some("end", Rest(p)) \/ Some("begin", Rest(p)) => Some("color", Rest(p)) /\ Some("begin", Rest(p))
           /\ \A y \in Rest(p)' : y[1] = "free"
           /\ ~Some("free", Rest(p))
<1>1. PICK R : R = Rest(p) \ {x}
  OBVIOUS
<1>2. x \in Rest(p) /\ x[1] = "request" /\ Fits(x, R) /\ \A y \in Rest(p)' : y[1] = "free"
  BY <1>1 DEF Quits
<1>3. \A kind : /\ Some(kind, R) => Some(kind, Rest(p))
                /\ x[1] # kind /\ Some(kind, Rest(p)) => Some(kind, R)
  BY <1>1, <1>2, SomeLess
<1> QED
  BY <1>2, <1>3 DEF Fits, FitsPinning

LEMMA SendQuits ==
    ASSUME SendInv, NEW p \in Actors, NEW x \in StepSet, Quits(p, x)
    PROVE  SendInv'
<1>1. /\ sending' = sending /\ pos' = pos /\ \A q \in Actors \ {p} : Rest(q)' = Rest(q)
  BY DEF Quits, Onward, strip
<1>2. p \notin sending
  BY QuitsEarly DEF SendInv
<1>3. ~Some("end", Rest(p)')
  BY QuitsEarly DEF Some
<1>4. \A q \in sending : q \in Actors \ {p}
  BY <1>2 DEF SendInv
<1> QED
  BY <1>1, <1>2, <1>3, <1>4 DEF SendInv

LEMMA SendBegins ==
    ASSUME SendInv, NEW p \in Actors, NEW what \in CallKinds, Begins(p, what)
    PROVE  SendInv'
<1>1. /\ sending' = sending /\ pos' = pos /\ \A q \in Actors \ {p} : Rest(q)' = Rest(q)
      /\ ~Busy(p) /\ CallStart(what, driver, Rest(p)')
  BY DEF Begins, strip
<1>2. p \notin sending
  BY <1>1 DEF SendInv, Busy, Some
<1>3. Some("end", Rest(p)') => Some("begin", Rest(p)')
  BY <1>1 DEF CallStart
<1>4. \A q \in sending : q \in Actors \ {p}
  BY <1>2 DEF SendInv
<1> QED
  BY <1>1, <1>2, <1>3, <1>4 DEF SendInv

LEMMA SendOpens ==
    ASSUME SendInv, NEW p \in Actors, Opens(p)
    PROVE  SendInv'
<1>1. sending' = sending /\ pos' = pos /\ \A q \in Actors : Rest(q)' = Rest(q)
  BY DEF Opens, strip, Rest
<1>2. \A q \in sending : q \in Actors
  BY DEF SendInv
<1> QED
  BY <1>1, <1>2 DEF SendInv

-----------------------------------------------------------------------------
(* Memory and strip.                                                        *)

LEMMA TypeActs ==
    ASSUME SendInv, DataType, NEW p \in Actors, NEW x \in StepSet, Acts(p, x)
    PROVE  DataType'
<1>1. single' \in Tints \cup {Blank}
  BY StepKinds DEF DataType, Acts, Effect
<1>2. leds' \in [1..Leds -> Tints \cup {Blank}]
  BY DEF DataType, Acts, Effect
<1>3. shown' \in [1..Leds -> Tints]
  <2>1. CASE x[1] = "send"
    <3>1. x[2] \in 1..Leds
      BY <2>1, StepKinds
    <3>2. leds[x[2]] # Blank => leds[x[2]] \in Tints
      BY <3>1 DEF DataType
    <3> QED
      BY <2>1, <3>2 DEF DataType, Acts, Effect
  <2>2. CASE x[1] # "send"
    BY <2>2 DEF DataType, Acts, Effect
  <2> QED
    BY <2>1, <2>2
<1> QED
  BY <1>1, <1>2, <1>3 DEF DataType

LEMMA TypeBegins ==
    ASSUME DataType, NEW p \in Actors, NEW what \in CallKinds, Begins(p, what)
    PROVE  DataType'
<1>1. shown' = shown
  BY DEF Begins, strip
<1>2. CASE what = "init"
  BY <1>1, <1>2 DEF Begins, DataType, Fresh, Tints
<1>3. CASE what # "init"
  BY <1>1, <1>3 DEF Begins, DataType, memory
<1> QED
  BY <1>2, <1>3

\* The transfer that is on track sends the next LED of the strip.
LEMMA SendsNext ==
    ASSUME SendInv, NEW p \in Actors, NEW x \in StepSet, x[1] = "send", Acts(p, x)
    PROVE  /\ x[2] \in 1..Leds /\ p \in sending /\ sending' = sending
           /\ OnTrack(p) => /\ pos = x[2]
                            /\ leds[x[2]] # Blank => OnTrack(p)' /\ pos' = pos + 1
                                                     /\ shown' = [shown EXCEPT ![pos] = leds[x[2]]]
<1>1. /\ x \in Rest(p) /\ Rest(p)' = Rest(p) \ {x} /\ Fits(x, Rest(p)') /\ sending' = sending
      /\ \/ (leds[x[2]] = Blank \/ pos > Leds) /\ shown' = shown /\ pos' = pos
         \/ leds[x[2]] # Blank /\ ~(pos > Leds) /\ shown' = [shown EXCEPT ![pos] = leds[x[2]]] /\ pos' = pos + 1
  BY DEF Acts, Taken, Effect
<1>2. x = <<"send", x[2]>> /\ x[2] \in 1..Leds
  BY StepKinds
<1>3. p \in sending
  BY <1>1 DEF SendInv, Fits, FitsDrawing, FitsSending, Some
<1>4. pos \in 1..(Leds + 1) /\ Leds \in Nat
  BY WsAssumption DEF SendInv
<1>5. ASSUME OnTrack(p) PROVE pos = x[2]
  <2>1. pos <= x[2]
    BY <1>1, <1>2, <1>5 DEF OnTrack
  <2>2. ~(pos < x[2])
    <3> SUFFICES ASSUME pos < x[2] PROVE FALSE
      OBVIOUS
    <3>1. pos \in 1..Leds /\ pos <= pos
      BY <1>2, <1>4
    <3>2. <<"send", pos>> \in Rest(p)
      BY <1>5, <3>1 DEF OnTrack
    <3>3. <<"send", pos>> # x
      <4>1. <<"send", pos>>[2] = pos /\ pos # x[2]
        BY <1>2, <1>4
      <4> QED
        BY <4>1
    <3>4. <<"send", pos>> \in Rest(p)'
      BY <1>1, <3>2, <3>3
    <3>5. x[2] < pos
      BY <1>1, <3>1, <3>4 DEF Fits, FitsSending
    <3> QED
      BY <1>2, <1>4, <3>5
  <2> QED
    BY <1>2, <1>4, <2>1, <2>2
<1>6. ASSUME OnTrack(p), leds[x[2]] # Blank
      PROVE  OnTrack(p)' /\ pos' = pos + 1 /\ shown' = [shown EXCEPT ![pos] = leds[x[2]]]
  <2>1. pos = x[2] /\ ~(pos > Leds)
    BY <1>2, <1>5, <1>6, WsAssumption
  <2>2. pos' = pos + 1 /\ shown' = [shown EXCEPT ![pos] = leds[x[2]]]
    BY <1>1, <1>6, <2>1
  <2>3. \A l \in 1..Leds : <<"send", l>> \in Rest(p)' <=> x[2] < l
    BY <1>1 DEF Fits, FitsSending
  <2>4. \A l \in 1..Leds : x[2] < l <=> pos + 1 <= l
    BY <1>4, <2>1
  <2>5. \A l \in 1..Leds : <<"send", l>> \in Rest(p)' <=> pos' <= l
    BY <2>2, <2>3, <2>4
  <2> QED
    BY <2>2, <2>5 DEF OnTrack
<1> QED
  BY <1>1, <1>2, <1>3, <1>5, <1>6

\* A transfer begins with the first LED, all alone.
LEMMA BeginsAtFirst ==
    ASSUME SendInv, SendInv', NEW p \in Actors, NEW x \in StepSet, x[1] = "begin", Acts(p, x)
    PROVE  sending = {} /\ sending' = {p} /\ pos' = 1 /\ OnTrack(p)'
<1>1. /\ x \in Rest(p) /\ Fits(x, Rest(p)') /\ sending' = sending \cup {p}
      /\ pos' = (IF sending = {} THEN 1 ELSE pos)
  BY DEF Acts, Taken, Effect
<1>2. p \notin sending
  BY <1>1 DEF SendInv, Some
<1>3. sending = {}
  BY <1>1, <1>2 DEF SendInv
<1>4. \A l \in 1..Leds : <<"send", l>> \in Rest(p)'
  BY <1>1 DEF Fits, FitsSending
<1>5. \A l \in 1..Leds : 1 <= l
  OBVIOUS
<1> QED
  BY <1>1, <1>3, <1>4, <1>5 DEF OnTrack

\* The other calls see nothing of a step in what they have left.
LEMMA OthersKeep ==
    ASSUME NEW p \in Actors, \A q \in Actors \ {p} : Rest(q)' = Rest(q)
    PROVE  \A q \in Actors \ {p} : /\ Coming(q)' <=> Coming(q)
                                   /\ pos' = pos => (OnTrack(q)' <=> OnTrack(q))
BY DEF Coming, OnTrack

LEMMA ShowActs ==
    ASSUME SendInv, SendInv', DataType, ShowInv, NEW p \in Actors, NEW x \in StepSet, Acts(p, x)
    PROVE  ShowInv'
<1>0. SUFFICES ASSUME \A l \in 1..Leds : leds'[l] # Blank
               PROVE  \/ \E q \in Actors : Coming(q)'
                      \/ sending' = {} /\ \A l \in 1..Leds : shown'[l] = leds'[l]
                      \/ \E q \in sending' : OnTrack(q)' /\ \A l \in 1..Leds : l < pos' => shown'[l] = leds'[l]
  BY DEF ShowInv
<1>1. /\ x \in Rest(p) /\ Rest(p)' = Rest(p) \ {x} /\ Fits(x, Rest(p)')
      /\ \A q \in Actors \ {p} : Rest(q)' = Rest(q)
  BY DEF Acts, Taken, Onward
<1>2. /\ leds' = IF x[1] = "copy" THEN [leds EXCEPT ![x[2]] = single] ELSE leds
      /\ sending' = IF x[1] = "begin" THEN sending \cup {p} ELSE IF x[1] = "end" THEN sending \ {p} ELSE sending
      /\ x[1] # "send" => shown' = shown
      /\ x[1] \notin {"begin", "send"} => pos' = pos
  BY DEF Acts, Effect
<1>3. \A kind : /\ Some(kind, Rest(p)') => Some(kind, Rest(p))
                /\ x[1] # kind /\ Some(kind, Rest(p)) => Some(kind, Rest(p)')
  <2>1. PICK R : R = Rest(p)
    OBVIOUS
  <2>2. \A kind : /\ Some(kind, R \ {x}) => Some(kind, R)
                  /\ x[1] # kind /\ Some(kind, R) => Some(kind, R \ {x})
    BY <1>1, <2>1, SomeLess
  <2> QED
    BY <1>1, <2>1, <2>2
<1>4. \A q \in Actors \ {p} : (Coming(q)' <=> Coming(q)) /\ (pos' = pos => (OnTrack(q)' <=> OnTrack(q)))
  BY <1>1, OthersKeep
<1>5. CASE x[1] \in {"color", "copy"}
  <2>1. Coming(p)'
    BY <1>1, <1>5 DEF Coming, Fits, FitsDrawing
  <2> QED
    BY <2>1
<1>6. CASE x[1] = "begin"
  <2>1. sending' = {p} /\ pos' = 1 /\ OnTrack(p)'
    BY <1>6, BeginsAtFirst
  <2>2. \A l \in 1..Leds : ~(l < 1)
    OBVIOUS
  <2> QED
    BY <2>1, <2>2
<1>7. x[1] \notin {"color", "copy"} =>
          \/ \E q \in Actors : Coming(q)
          \/ sending = {} /\ \A l \in 1..Leds : shown[l] = leds[l]
          \/ \E q \in sending : OnTrack(q) /\ \A l \in 1..Leds : l < pos => shown[l] = leds[l]
  BY <1>0, <1>2 DEF ShowInv
<1>8. x[1] # "begin" /\ Coming(p) => Coming(p)'
  BY <1>3 DEF Coming
<1>9. x[1] # "begin" /\ (\E q \in Actors : Coming(q)) => \E q \in Actors : Coming(q)'
  BY <1>4, <1>8
<1>10. CASE x[1] = "send"
  <2>1. x[2] \in 1..Leds /\ p \in sending /\ sending' = sending
    BY <1>10, SendsNext
  <2>2. leds' = leds /\ leds[x[2]] # Blank
    BY <1>0, <1>2, <1>10, <2>1
  <2>3. ASSUME OnTrack(p), \A l \in 1..Leds : l < pos => shown[l] = leds[l]
        PROVE  OnTrack(p)' /\ \A l \in 1..Leds : l < pos' => shown'[l] = leds'[l]
    <3>1. pos = x[2] /\ OnTrack(p)' /\ pos' = pos + 1 /\ shown' = [shown EXCEPT ![pos] = leds[x[2]]]
      BY <1>10, <2>2, <2>3, SendsNext
    <3>2. \A l \in 1..Leds : l < pos' => l < pos \/ l = pos
      BY <2>1, <3>1
    <3> QED
      BY <2>2, <2>3, <3>1, <3>2 DEF DataType
  <2>4. \A q \in sending : q = p
    BY <2>1 DEF SendInv
  <2> QED
    BY <1>7, <1>9, <1>10, <2>1, <2>3, <2>4
<1>11. CASE x[1] = "end"
  <2>1. p \in sending
    BY <1>1, <1>3, <1>11 DEF SendInv, Fits, FitsDrawing, Some
  <2>2. sending' = {} /\ \A q \in sending : q = p
    BY <1>2, <1>11, <2>1 DEF SendInv
  <2>3. ~Some("send", Rest(p))
    BY <1>1, <1>3, <1>11 DEF Fits, FitsSending
  <2>4. ASSUME OnTrack(p) PROVE \A l \in 1..Leds : l < pos
    <3> SUFFICES ASSUME NEW l \in 1..Leds PROVE l < pos
      OBVIOUS
    <3>1. <<"send", l>> \notin Rest(p)
      BY <2>3 DEF Some
    <3>2. ~(pos <= l)
      BY <2>4, <3>1 DEF OnTrack
    <3> QED
      BY <3>2 DEF SendInv
  <2> QED
    BY <1>2, <1>7, <1>9, <1>11, <2>1, <2>2, <2>4
<1>12. CASE x[1] \notin {"color", "copy", "begin", "send", "end"}
  <2>1. sending' = sending /\ leds' = leds /\ shown' = shown /\ pos' = pos
    BY <1>2, <1>12
  <2>2. \A l \in 1..Leds : <<"send", l>> \in Rest(p)' <=> <<"send", l>> \in Rest(p)
    <3>1. \A l \in 1..Leds : <<"send", l>> # x
      BY <1>12
    <3> QED
      BY <1>1, <3>1
  <2>3. OnTrack(p)' <=> OnTrack(p)
    BY <2>1, <2>2 DEF OnTrack
  <2>4. \A q \in sending : q \in Actors
    BY DEF SendInv
  <2> QED
    BY <1>4, <1>7, <1>9, <1>12, <2>1, <2>3, <2>4
<1> QED
  BY <1>5, <1>6, <1>10, <1>11, <1>12

LEMMA ShowQuits ==
    ASSUME SendInv, ShowInv, NEW p \in Actors, NEW x \in StepSet, Quits(p, x)
    PROVE  ShowInv'
<1>1. /\ UNCHANGED <<single, leds, sending, pos, shown>> /\ \A q \in Actors \ {p} : Rest(q)' = Rest(q)
  BY DEF Quits, Onward, memory, strip
<1>2. \A q \in Actors \ {p} : (Coming(q)' <=> Coming(q)) /\ (pos' = pos => (OnTrack(q)' <=> OnTrack(q)))
  BY <1>1, OthersKeep
<1>3. ~Coming(p) /\ p \notin sending
  BY QuitsEarly DEF Coming, SendInv
<1>4. \A q \in sending : q \in Actors \ {p}
  BY <1>3 DEF SendInv
<1> QED
  BY <1>1, <1>2, <1>3, <1>4 DEF ShowInv

LEMMA ShowOpens ==
    ASSUME SendInv, ShowInv, NEW p \in Actors, Opens(p)
    PROVE  ShowInv'
<1>1. UNCHANGED <<single, leds, sending, pos, shown>> /\ \A q \in Actors : Rest(q)' = Rest(q)
  BY DEF Opens, memory, strip, Rest
<1>2. \A q \in Actors : (Coming(q)' <=> Coming(q)) /\ (OnTrack(q)' <=> OnTrack(q))
  BY <1>1 DEF Coming, OnTrack
<1>3. \A q \in sending : q \in Actors
  BY DEF SendInv
<1> QED
  BY <1>1, <1>2, <1>3 DEF ShowInv

\* At insmod nothing goes on, and the strip is dark as no file is open.
LEMMA InsertedIdle ==
    ASSUME CallInv, stage = "out"
    PROVE  files = {} /\ \A q \in Actors : ~Busy(q) /\ op[q] = "none"
<1>1. files = {} /\ ~Busy(Insmod) /\ \A q \in Procs : Busy(q) => q \in files
  BY DEF CallInv
<1>2. \A q \in Actors : q \in Procs \/ q = Insmod
  BY DEF Actors
<1> QED
  BY <1>1, <1>2 DEF CallInv

LEMMA ShowBegins ==
    ASSUME CallInv, SendInv, DarkInv, ShowInv, NEW p \in Actors, NEW what \in CallKinds, Begins(p, what)
    PROVE  ShowInv'
<1>1. /\ UNCHANGED <<sending, pos, shown>> /\ \A q \in Actors \ {p} : Rest(q)' = Rest(q)
      /\ ~Busy(p)
      /\ what = "init" => stage = "out" /\ leds' = Fresh
      /\ what # "init" => leds' = leds
  BY DEF Begins, memory, strip
<1>2. \A q \in Actors \ {p} : (Coming(q)' <=> Coming(q)) /\ (pos' = pos => (OnTrack(q)' <=> OnTrack(q)))
  BY <1>1, OthersKeep
<1>3. ~Coming(p) /\ p \notin sending
  BY <1>1 DEF Coming, SendInv, Busy, Some
<1>4. \A q \in sending : q \in Actors \ {p}
  BY <1>3 DEF SendInv
<1>5. CASE what # "init"
  BY <1>1, <1>2, <1>3, <1>4, <1>5 DEF ShowInv
<1>6. CASE what = "init"
  <2>1. files = {} /\ \A q \in Actors : ~Busy(q)
    BY <1>1, <1>6, InsertedIdle
  <2>2. sending = {}
    BY <2>1 DEF SendInv, Busy, Some
  <2>3. \A l \in 1..Leds : shown[l] = Off
    BY <2>1 DEF DarkInv
  <2>4. CASE driver = "bitbang"
    <3>1. \A l \in 1..Leds : leds'[l] = Off
      BY <1>1, <1>6, <2>4 DEF Fresh
    <3> QED
      BY <1>1, <2>2, <2>3, <3>1 DEF ShowInv
  <2>5. CASE driver # "bitbang"
    <3>1. 1 \in 1..Leds /\ leds'[1] = Blank
      BY <1>1, <1>6, <2>5, WsAssumption DEF Fresh, CallInv
    <3> QED
      BY <3>1 DEF ShowInv
  <2> QED
    BY <2>4, <2>5
<1> QED
  BY <1>5, <1>6

-----------------------------------------------------------------------------
(* Darkness.                                                                *)

LEMMA DarkActs ==
    ASSUME CallInv, CallInv', SendInv, SendInv', DataType, DarkInv,
           NEW p \in Actors, NEW x \in StepSet, Acts(p, x)
    PROVE  DarkInv'
<1>1. /\ x \in Rest(p) /\ Rest(p)' = Rest(p) \ {x} /\ Fits(x, Rest(p)') /\ x \notin Rest(p)'
      /\ \A q \in Actors \ {p} : Rest(q)' = Rest(q) /\ op'[q] = op[q]
      /\ op'[p] = IF Rest(p)' = {} THEN "none" ELSE op[p]
      /\ files' = IF Rest(p)' = {} /\ op[p] = "release" THEN files \ {p} ELSE files
  BY DEF Acts, Taken, Onward
<1>2. /\ single' = IF x[1] = "color" THEN x[2] ELSE single
      /\ leds' = IF x[1] = "copy" THEN [leds EXCEPT ![x[2]] = single] ELSE leds
      /\ sending' = IF x[1] = "begin" THEN sending \cup {p} ELSE IF x[1] = "end" THEN sending \ {p} ELSE sending
      /\ x[1] # "send" => shown' = shown
      /\ x[1] \notin {"begin", "send"} => pos' = pos
      /\ x[1] = "send" =>
            \/ shown' = shown
            \/ ~(pos > Leds) /\ shown' = [shown EXCEPT ![pos] = leds[x[2]]]
  BY DEF Acts, Effect
<1>3. \A kind : /\ Some(kind, Rest(p)') => Some(kind, Rest(p))
                /\ x[1] # kind /\ Some(kind, Rest(p)) => Some(kind, Rest(p)')
  <2>1. PICK R : R = Rest(p)
    OBVIOUS
  <2>2. \A kind : /\ Some(kind, R \ {x}) => Some(kind, R)
                  /\ x[1] # kind /\ Some(kind, R) => Some(kind, R \ {x})
    BY <1>1, <2>1, SomeLess
  <2> QED
    BY <1>1, <2>1, <2>2
<1>4. Busy(p) /\ CallShape(op[p], driver, Rest(p)) /\ files \subseteq Procs /\ Procs \subseteq Actors
  BY <1>1 DEF CallInv, Busy, Actors
<1>5. /\ x = <<x[1], x[2]>> \/ x[1] \notin {"color", "copy", "send"}
      /\ x[1] = "color" => x[2] \in Tints
      /\ x[1] \in {"copy", "send"} => x[2] \in 1..Leds
      /\ Blank \notin Tints /\ Off \in Tints
  BY StepKinds, WsAssumption DEF Tints
\* A file that is not being released stays so, and a step not taken is still to come.
<1>6. \A q \in files : op[q] # "release" => q \in files' /\ op'[q] # "release"
  BY <1>1, <1>4
<1>7. \A q \in files : \A y : y \in Rest(q) /\ (q # p \/ y # x) => q \in files' /\ y \in Rest(q)'
  BY <1>1, <1>4
<1>8. ASSUME NEW q \in files, Some("color", Rest(q)), q # p \/ x[1] # "color"
      PROVE  q \in files' /\ Some("color", Rest(q)')
  BY <1>7, <1>8 DEF Some
<1>9. single' \notin {Off, Blank} => \E q \in files' : op'[q] # "release" \/ Some("color", Rest(q)')
  <2> SUFFICES ASSUME single' \notin {Off, Blank}
               PROVE  \E q \in files' : op'[q] # "release" \/ Some("color", Rest(q)')
    OBVIOUS
  <2>1. CASE x[1] = "color"
    <3>1. op[p] = "write"
      BY <1>1, <1>2, <1>4, <2>1 DEF CallShape
    <3>2. p \in files
      <4>1. p \in Procs
        BY <3>1 DEF CallInv, Actors
      <4> QED
        BY <1>4, <4>1 DEF CallInv
    <3> QED
      BY <1>6, <3>1, <3>2
  <2>2. CASE x[1] # "color"
    <3>1. PICK q \in files : op[q] # "release" \/ Some("color", Rest(q))
      BY <1>2, <2>2 DEF DarkInv
    <3> QED
      BY <1>6, <1>8, <2>2, <3>1
  <2> QED
    BY <2>1, <2>2
<1>10. ASSUME NEW l \in 1..Leds, leds'[l] \notin {Off, Blank}
       PROVE  \E q \in files' : op'[q] # "release" \/ <<"copy", l>> \in Rest(q)'
  <2>1. CASE x = <<"copy", l>>
    <3>1. x[1] = "copy" /\ x[2] = l
      BY <2>1
    <3>2. leds'[l] = single
      BY <1>2, <3>1 DEF DataType
    <3>3. PICK q \in files : op[q] # "release" \/ Some("color", Rest(q))
      BY <1>10, <3>2 DEF DarkInv
    <3>4. CASE op[q] = "release"
      <4>1. q # p
        BY <1>1, <1>3, <3>1, <3>3, <3>4 DEF Fits, FitsDrawing
      <4>2. <<"copy", l>> \in Rest(q)
        BY <1>4, <3>3, <3>4 DEF CallInv, CallShape
      <4> QED
        BY <1>7, <4>1, <4>2
    <3> QED
      BY <1>6, <3>3, <3>4
  <2>2. CASE x # <<"copy", l>>
    <3>1. leds'[l] = leds[l]
      BY <1>2, <1>5, <2>2 DEF DataType
    <3>2. PICK q \in files : op[q] # "release" \/ <<"copy", l>> \in Rest(q)
      BY <1>10, <3>1 DEF DarkInv
    <3> QED
      BY <1>6, <1>7, <2>2, <3>2
  <2> QED
    BY <2>1, <2>2
\* The step that lights an LED.
<1>11. ASSUME x[1] = "send", leds[x[2]] # Off, leds[x[2]] # Blank, NEW l \in 1..Leds
       PROVE  \E q \in files' : op'[q] # "release" \/ <<"send", l>> \in Rest(q)'
  <2>1. x[2] \in 1..Leds
    BY <1>5, <1>11
  <2>2. PICK q \in files : op[q] # "release" \/ <<"copy", x[2]>> \in Rest(q)
    BY <1>11, <2>1 DEF DarkInv
  <2>3. CASE op[q] = "release"
    <3>1. Some("copy", Rest(q))
      <4>1. <<"copy", x[2]>>[1] = "copy"
        OBVIOUS
      <4> QED
        BY <2>2, <2>3, <4>1 DEF Some
    <3>2. q # p
      BY <1>1, <1>3, <1>11, <3>1 DEF Fits, FitsDrawing
    <3>3. <<"send", l>> \in Rest(q)
      BY <1>4, <2>3, <3>1 DEF CallInv, CallShape
    <3> QED
      BY <1>7, <3>2, <3>3
  <2> QED
    BY <1>6, <2>2, <2>3
\* A release is on track, and has stored in every LED it is to send.
<1>12. ASSUME x[1] = "send", op[p] = "release"
       PROVE  /\ p \in sending /\ pos = x[2] /\ leds[x[2]] # Blank /\ OnTrack(p)'
              /\ shown' = [shown EXCEPT ![pos] = leds[x[2]]]
  <2>1. x[2] \in 1..Leds /\ p \in sending
    BY <1>12, SendsNext
  <2>2. <<"copy", x[2]>> \notin Rest(p)
    <3>1. <<"copy", x[2]>>[1] = "copy"
      OBVIOUS
    <3>2. ~Some("copy", Rest(p))
      BY <1>1, <1>3, <1>12 DEF Fits, FitsDrawing
    <3> QED
      BY <3>1, <3>2 DEF Some
  <2>3. leds[x[2]] # Blank /\ OnTrack(p)
    BY <1>12, <2>1, <2>2 DEF DarkInv
  <2> QED
    BY <1>12, <2>1, <2>3, SendsNext
<1>13. ASSUME NEW l \in 1..Leds, shown'[l] # Off
       PROVE  \E q \in files' : op'[q] # "release" \/ <<"send", l>> \in Rest(q)'
  <2>1. CASE x[1] = "send" /\ leds[x[2]] \notin {Off, Blank}
    BY <1>11, <2>1
  <2>2. CASE ~(x[1] = "send" /\ leds[x[2]] \notin {Off, Blank})
    <3>1. shown'[l] = shown[l]
      <4>1. CASE x[1] = "send" /\ leds[x[2]] = Blank
        <5>1. shown' = shown
          BY <4>1 DEF Acts, Effect
        <5> QED
          BY <5>1
      <4>2. CASE x[1] = "send" /\ leds[x[2]] = Off
        <5>1. shown' = shown \/ shown' = [shown EXCEPT ![pos] = Off]
          BY <1>2, <4>2
        <5> QED
          BY <1>13, <5>1 DEF DataType
      <4>3. CASE x[1] # "send"
        BY <1>2, <4>3
      <4> QED
        BY <2>2, <4>1, <4>2, <4>3
    <3>2. PICK q \in files : op[q] # "release" \/ <<"send", l>> \in Rest(q)
      BY <1>13, <3>1 DEF DarkInv
    <3>3. CASE op[q] = "release"
      <4>1. q # p \/ <<"send", l>> # x
        <5> SUFFICES ASSUME q = p, x = <<"send", l>> PROVE FALSE
          OBVIOUS
        <5>1. x[1] = "send" /\ x[2] = l
          OBVIOUS
        <5>2. shown'[l] = leds[l] /\ leds[l] # Blank
          BY <1>12, <3>3, <5>1 DEF DataType
        <5> QED
          BY <1>13, <2>2, <5>1, <5>2
      <4> QED
        BY <1>7, <3>2, <3>3, <4>1
    <3> QED
      BY <1>6, <3>2, <3>3
  <2> QED
    BY <2>1, <2>2
<1>14. \A q \in Actors : Some("copy", Rest(q)') /\ ~Some("color", Rest(q)') => single' # Blank
  <2>1. CASE x[1] = "color"
    BY <1>2, <1>5, <2>1
  <2>2. CASE x[1] # "color"
    <3>1. Some("copy", Rest(p)') /\ ~Some("color", Rest(p)') => single # Blank
      BY <1>3, <2>2 DEF DarkInv
    <3> QED
      BY <1>1, <1>2, <2>2, <3>1 DEF DarkInv
  <2> QED
    BY <2>1, <2>2
<1>15. ASSUME NEW q \in Actors, NEW l \in 1..Leds, op'[q] = "release", <<"copy", l>> \notin Rest(q)'
       PROVE  leds'[l] # Blank
  <2>1. op[q] = "release"
    BY <1>1, <1>15
  <2>2. CASE x = <<"copy", l>>
    <3>1. x[1] = "copy" /\ x[2] = l
      BY <2>2
    <3>2. Some("copy", Rest(p)) /\ ~Some("color", Rest(p))
      BY <1>1, <1>3, <3>1 DEF Fits, FitsDrawing, Some
    <3>3. leds'[l] = single
      BY <1>2, <3>1 DEF DataType
    <3> QED
      BY <3>2, <3>3 DEF DarkInv
  <2>3. CASE x # <<"copy", l>>
    <3>1. leds'[l] = leds[l]
      BY <1>2, <1>5, <2>3 DEF DataType
    <3>2. <<"copy", l>> \notin Rest(q)
      BY <1>1, <1>15, <2>3
    <3> QED
      BY <2>1, <3>1, <3>2 DEF DarkInv
  <2> QED
    BY <2>2, <2>3
<1>16. ASSUME NEW q \in sending', op'[q] = "release" PROVE OnTrack(q)'
  <2>1. q \in Actors /\ op[q] = "release"
    BY <1>1, <1>16 DEF SendInv
  <2>2. CASE x[1] = "begin"
    <3>1. sending' = {p} /\ OnTrack(p)'
      BY <2>2, BeginsAtFirst
    <3>2. q = p
      BY <1>16, <3>1
    <3> QED
      BY <3>1, <3>2
  <2>3. CASE x[1] = "send"
    <3>1. p \in sending /\ sending' = sending
      BY <2>3, SendsNext
    <3>2. q = p
      BY <1>16, <3>1 DEF SendInv
    <3> QED
      BY <1>12, <2>1, <2>3, <3>2
  <2>4. CASE x[1] \notin {"begin", "send"}
    <3>1. q \in sending /\ pos' = pos
      BY <1>2, <1>16, <2>4
    <3>2. \A l \in 1..Leds : <<"send", l>> \in Rest(q)' <=> <<"send", l>> \in Rest(q)
      <4>1. \A l \in 1..Leds : <<"send", l>> # x
        BY <2>4
      <4> QED
        BY <1>1, <2>1, <4>1
    <3>3. OnTrack(q)
      BY <2>1, <3>1 DEF DarkInv
    <3> QED
      BY <3>1, <3>2, <3>3 DEF OnTrack
  <2> QED
    BY <2>2, <2>3, <2>4
<1> QED
  BY <1>9, <1>10, <1>13, <1>14, <1>15, <1>16 DEF DarkInv

LEMMA DarkQuits ==
    ASSUME CallInv, SendInv, DarkInv, NEW p \in Actors, NEW x \in StepSet, Quits(p, x)
    PROVE  DarkInv'
<1>1. /\ UNCHANGED <<single, leds, sending, pos, shown>>
      /\ \A q \in Actors \ {p} : Rest(q)' = Rest(q) /\ op'[q] = op[q]
      /\ op'[p] = IF Rest(p)' = {} THEN "none" ELSE op[p]
      /\ files' = IF Rest(p)' = {} /\ op[p] = "release" THEN files \ {p} ELSE files
      /\ \A y \in Rest(p)' : y[1] = "free"
      /\ x \in Rest(p) /\ x[1] = "request"
  BY DEF Quits, Onward, memory, strip
<1>2. op[p] # "release" /\ op'[p] # "release" /\ files' = files /\ files \subseteq Actors
  BY <1>1 DEF CallInv, CallShape, Some, Actors
<1>3. p \notin sending /\ \A q \in sending : q \in Actors
  BY QuitsEarly DEF SendInv
<1>4. single' \notin {Off, Blank} => \E q \in files' : op'[q] # "release" \/ Some("color", Rest(q)')
  BY <1>1, <1>2 DEF DarkInv
<1>5. \A l \in 1..Leds : leds'[l] \notin {Off, Blank} =>
         \E q \in files' : op'[q] # "release" \/ <<"copy", l>> \in Rest(q)'
  BY ZenonT(60), <1>1, <1>2 DEF DarkInv
<1>6. \A l \in 1..Leds : shown'[l] # Off =>
         \E q \in files' : op'[q] # "release" \/ <<"send", l>> \in Rest(q)'
  BY ZenonT(60), <1>1, <1>2 DEF DarkInv
<1>7. \A q \in Actors : Some("copy", Rest(q)') /\ ~Some("color", Rest(q)') => single' # Blank
  <2>1. ~Some("copy", Rest(p)')
    BY <1>1 DEF Some
  <2> QED
    BY <1>1, <2>1 DEF DarkInv
<1>8. \A q \in Actors, l \in 1..Leds :
         op'[q] = "release" /\ <<"copy", l>> \notin Rest(q)' => leds'[l] # Blank
  BY <1>1, <1>2 DEF DarkInv
<1>9. \A q \in sending' : op'[q] = "release" => OnTrack(q)'
  <2> SUFFICES ASSUME NEW q \in sending, op'[q] = "release" PROVE OnTrack(q)'
    BY <1>1
  <2>1. q \in Actors \ {p} /\ Rest(q)' = Rest(q) /\ op[q] = "release" /\ pos' = pos
    BY <1>1, <1>3
  <2>2. OnTrack(q)
    BY <2>1 DEF DarkInv
  <2> QED
    BY <2>1, <2>2 DEF OnTrack
<1> QED
  BY <1>4, <1>5, <1>6, <1>7, <1>8, <1>9 DEF DarkInv

LEMMA DarkBegins ==
    ASSUME CallInv, SendInv, DarkInv, NEW p \in Actors, NEW what \in CallKinds, Begins(p, what)
    PROVE  DarkInv'
<1>1. /\ UNCHANGED <<files, sending, pos, shown>>
      /\ \A q \in Actors \ {p} : Rest(q)' = Rest(q) /\ op'[q] = op[q]
      /\ ~Busy(p) /\ op'[p] = what
      /\ CallShape(what, driver, Rest(p)') /\ CallStart(what, driver, Rest(p)')
      /\ what = "init" => stage = "out" /\ single' = Blank /\ leds' = Fresh
      /\ what # "init" => single' = single /\ leds' = leds
  BY DEF Begins, memory, strip
<1>2. op[p] = "none" /\ p \notin sending /\ files \subseteq Actors /\ \A q \in sending : q \in Actors
  BY <1>1 DEF CallInv, SendInv, Busy, Some, Actors
<1>3. what = "release" => /\ Some("color", Rest(p)')
                          /\ \A l \in 1..Leds : <<"copy", l>> \in Rest(p)' /\ <<"send", l>> \in Rest(p)'
  BY <1>1 DEF CallShape, CallStart
<1>4. Some("copy", Rest(p)') => Some("color", Rest(p)')
  BY <1>1 DEF CallStart
<1>5. what = "init" => \A q \in Actors : ~Busy(q) /\ op[q] = "none"
  BY <1>1, InsertedIdle
<1>6. \A l \in 1..Leds : Fresh[l] \in {Off, Blank}
  BY DEF Fresh
<1>7. single' \notin {Off, Blank} => \E q \in files' : op'[q] # "release" \/ Some("color", Rest(q)')
  <2> SUFFICES ASSUME single' \notin {Off, Blank}
               PROVE  \E q \in files' : op'[q] # "release" \/ Some("color", Rest(q)')
    OBVIOUS
  <2>1. PICK q \in files : op[q] # "release" \/ Some("color", Rest(q))
    BY <1>1 DEF DarkInv
  <2>2. CASE q = p
    BY <1>1, <1>3, <2>2
  <2>3. CASE q # p
    BY <1>1, <1>2, <2>1, <2>3
  <2> QED
    BY <2>2, <2>3
<1>8. ASSUME NEW l \in 1..Leds, leds'[l] \notin {Off, Blank}
      PROVE  \E q \in files' : op'[q] # "release" \/ <<"copy", l>> \in Rest(q)'
  <2>1. PICK q \in files : op[q] # "release" \/ <<"copy", l>> \in Rest(q)
    BY <1>1, <1>6, <1>8 DEF DarkInv
  <2>2. CASE q = p
    BY <1>1, <1>3, <2>2
  <2>3. CASE q # p
    BY <1>1, <1>2, <2>1, <2>3
  <2> QED
    BY <2>2, <2>3
<1>9. ASSUME NEW l \in 1..Leds, shown'[l] # Off
      PROVE  \E q \in files' : op'[q] # "release" \/ <<"send", l>> \in Rest(q)'
  <2>1. PICK q \in files : op[q] # "release" \/ <<"send", l>> \in Rest(q)
    BY <1>1, <1>9 DEF DarkInv
  <2>2. CASE q = p
    BY <1>1, <1>3, <2>2
  <2>3. CASE q # p
    BY <1>1, <1>2, <2>1, <2>3
  <2> QED
    BY <2>2, <2>3
<1>10. \A q \in Actors : Some("copy", Rest(q)') /\ ~Some("color", Rest(q)') => single' # Blank
  <2> SUFFICES ASSUME NEW q \in Actors \ {p}, Some("copy", Rest(q)'), ~Some("color", Rest(q)')
               PROVE  single' # Blank
    BY <1>4
  <2>1. Some("copy", Rest(q)) /\ ~Some("color", Rest(q))
    BY <1>1
  <2>2. what # "init"
    BY <1>5, <2>1 DEF Busy, Some
  <2> QED
    BY <1>1, <2>1, <2>2 DEF DarkInv
<1>11. ASSUME NEW q \in Actors, NEW l \in 1..Leds, op'[q] = "release", <<"copy", l>> \notin Rest(q)'
       PROVE  leds'[l] # Blank
  <2>1. q # p
    BY <1>1, <1>3, <1>11
  <2>2. op[q] = "release" /\ <<"copy", l>> \notin Rest(q)
    BY <1>1, <1>11, <2>1
  <2>3. what # "init"
    BY <1>5, <2>2
  <2> QED
    BY <1>1, <2>2, <2>3 DEF DarkInv
<1>12. \A q \in sending' : op'[q] = "release" => OnTrack(q)'
  <2>1. \A q \in sending : q \in Actors \ {p}
    BY <1>2
  <2>2. \A q \in sending : OnTrack(q)' <=> OnTrack(q)
    BY <1>1, <2>1 DEF OnTrack
  <2> QED
    BY <1>1, <2>1, <2>2 DEF DarkInv
<1> QED
  BY <1>7, <1>8, <1>9, <1>10, <1>11, <1>12 DEF DarkInv

LEMMA DarkOpens ==
    ASSUME CallInv, SendInv, DarkInv, NEW p \in Actors, Opens(p)
    PROVE  DarkInv'
<1>1. /\ UNCHANGED <<single, leds, sending, pos, shown, op>> /\ files' = files \cup {p}
      /\ \A q \in Actors : Rest(q)' = Rest(q)
  BY DEF Opens, memory, strip, Rest
<1>2. files \subseteq Actors /\ \A q \in sending : q \in Actors
  BY DEF CallInv, SendInv, Actors
<1>3. \A q \in sending : OnTrack(q)' <=> OnTrack(q)
  BY <1>1, <1>2 DEF OnTrack
<1> QED
  BY <1>1, <1>2, <1>3 DEF DarkInv

-----------------------------------------------------------------------------
(* What was drawn.                                                          *)

LEMMA WantActs ==
    ASSUME CallInv, CallInv', AloneInv, LockInv, DataType, WantInv, NEW p \in Actors, NEW x \in StepSet, Acts(p, x)
    PROVE  WantInv'
<1>1. /\ x = Head(pc[p]) /\ x \in Rest(p) /\ Rest(p)' = Rest(p) \ {x} /\ Fits(x, Rest(p)') /\ x \notin Rest(p)'
      /\ \A q \in Actors \ {p} : Rest(q)' = Rest(q)
      /\ alone' = alone
  BY DEF Acts, Taken, Onward
<1>2. /\ stage' = IF x[1] = "out" THEN "out" ELSE stage
      /\ single' = IF x[1] = "color" THEN x[2] ELSE single
      /\ leds' = IF x[1] = "copy" THEN [leds EXCEPT ![x[2]] = single] ELSE leds
      /\ x[1] = "out" => want' = [l \in 1..Leds |-> Unknown]
      /\ x[1] = "end" /\ alone[p] =>
            want' = [l \in 1..Leds |-> IF l \in DOMAIN x[2] THEN x[2][l] ELSE want[l]]
      /\ x[1] # "out" /\ (x[1] # "end" \/ ~alone[p]) => want' = want
  BY DEF Acts, Effect
<1>3. \A kind : /\ Some(kind, Rest(p)') => Some(kind, Rest(p))
                /\ x[1] # kind /\ Some(kind, Rest(p)) => Some(kind, Rest(p)')
  <2>1. PICK R : R = Rest(p)
    OBVIOUS
  <2>2. \A kind : /\ Some(kind, R \ {x}) => Some(kind, R)
                  /\ x[1] # kind /\ Some(kind, R) => Some(kind, R \ {x})
    BY <1>1, <2>1, SomeLess
  <2> QED
    BY <1>1, <2>1, <2>2
<1>4. /\ x[1] \in {"copy", "send"} => x[2] \in 1..Leds
      /\ x[1] = "copy" => x = <<"copy", x[2]>>
      /\ x[1] = "lock" => x = <<"lock">>
      /\ <<"lock">>[1] = "lock" /\ \A l \in 1..Leds : <<"copy", l>>[1] = "copy" /\ <<"copy", l>>[2] = l
  BY StepKinds
<1>5. Busy(p) /\ alone \in [Actors -> BOOLEAN]
  BY <1>1 DEF Busy, CallInv
<1>6. x[1] = "end" => x[2] \in Drawings /\ \A l \in DOMAIN x[2] : l \in 1..Leds /\ x[2][l] \in Tints
  BY StepKinds DEF Drawings
<1>7. want' \in [1..Leds -> Tints \cup {Unknown}]
  BY <1>2, <1>6 DEF WantInv
\* While one of these steps is taken no call beside it has a colour stored.
<1>8. ASSUME x[1] \in {"color", "copy"}, NEW q \in Actors \ {p}, alone[q], ~Some("color", Rest(q))
      PROVE  ~Some("end", Rest(q))
  <2> SUFFICES ASSUME Some("end", Rest(q)) PROVE FALSE
    OBVIOUS
  <2>1. Some("end", Rest(p))
    BY <1>1, <1>3, <1>8 DEF Fits, FitsDrawing
  <2>2. driver = "spi"
    BY <1>5, <1>8 DEF AloneInv, Busy, Some
  <2>3. <<"lock">> \notin Rest(p)
    BY <1>1, <1>4, <1>8, <2>2 DEF LockInv
  <2>4. <<"lock">> \notin Rest(q)
    BY <1>8, <2>2 DEF CallInv, CallShape
  <2> QED
    BY <1>5, <1>8, <2>1, <2>3, <2>4, Exclusive
<1>9. stage' = "out" => \A l \in 1..Leds : want'[l] = Unknown
  <2>1. CASE x[1] = "out"
    BY <1>2, <2>1
  <2>2. CASE x[1] # "out"
    <3>1. stage # "out"
      BY <1>5, InsertedIdle
    <3> QED
      BY <1>2, <2>2, <3>1
  <2> QED
    BY <2>1, <2>2
<1>10. ASSUME NEW q \in Actors, Busy(q)', ~alone'[q], NEW l \in 1..Leds PROVE want'[l] = Unknown
  <2>1. Busy(q) /\ ~alone[q]
    BY <1>1, <1>5, <1>10 DEF Busy
  <2>2. want[l] = Unknown /\ ~alone[p]
    BY <1>5, <2>1 DEF WantInv, AloneInv
  <2> QED
    BY <1>2, <2>2
\* In memory is what a call alone has drawn when its transfer ends.
<1>11. ASSUME x[1] = "end", alone[p], NEW l \in DOMAIN x[2] PROVE leds[l] = x[2][l] /\ leds' = leds
  <2>1. ~Some("color", Rest(p)) /\ ~Some("copy", Rest(p))
    BY <1>1, <1>3, <1>11 DEF Fits, FitsDrawing
  <2>2. <<"copy", l>> \notin Rest(p)
    BY <1>4, <1>6, <1>11, <2>1 DEF Some
  <2> QED
    BY <1>1, <1>2, <1>11, <2>1, <2>2 DEF WantInv
<1>12. ASSUME NEW l \in 1..Leds, want'[l] # Unknown, leds'[l] # want'[l] PROVE \E q \in Actors : Drawing(q, l)'
  <2>1. x[1] # "out"
    BY <1>2, <1>12
  <2>2. ~(x[1] = "end" /\ alone[p] /\ l \in DOMAIN x[2])
    BY <1>2, <1>11, <1>12
  <2>3. want'[l] = want[l]
    BY <1>2, <2>1, <2>2
  <2>4. CASE x[1] = "copy" /\ x[2] = l
    <3>1. ~Some("color", Rest(p)') /\ \E y \in Rest(p)' : y[1] = "end" /\ l \in DOMAIN y[2]
      BY <1>1, <2>4 DEF Fits, FitsDrawing, Some
    <3> QED
      BY <3>1 DEF Drawing
  <2>5. CASE ~(x[1] = "copy" /\ x[2] = l)
    <3>1. leds'[l] = leds[l]
      BY <1>2, <1>4, <2>5 DEF DataType
    <3>2. PICK q \in Actors : Drawing(q, l)
      BY <1>12, <2>3, <3>1 DEF WantInv
    <3>3. CASE q # p
      BY <1>1, <3>2, <3>3 DEF Drawing
    <3>4. CASE q = p
      <4>1. PICK y \in Rest(p) : y[1] = "end" /\ l \in DOMAIN y[2]
        BY <3>2, <3>4 DEF Drawing
      <4>2. ~Some("color", Rest(p)')
        BY <1>3, <3>2, <3>4 DEF Drawing
      <4>3. y # x
        <5> SUFFICES ASSUME y = x PROVE FALSE
          OBVIOUS
        <5>1. ~alone[p]
          BY <2>2, <4>1
        <5> QED
          BY <1>5, <1>12, <2>3, <5>1 DEF WantInv
      <4> QED
        BY <1>1, <4>1, <4>2, <4>3 DEF Drawing
    <3> QED
      BY <3>3, <3>4
  <2> QED
    BY <2>4, <2>5
<1>13. ASSUME NEW q \in Actors, alone'[q], ~Some("color", Rest(q)'), NEW y \in Rest(q)', y[1] = "end",
              NEW l \in DOMAIN y[2]
       PROVE  IF <<"copy", l>> \in Rest(q)' THEN single' = y[2][l] ELSE leds'[l] = y[2][l]
  <2>1. CASE q # p
    <3>1. alone[q] /\ ~Some("color", Rest(q)) /\ y \in Rest(q)
      BY <1>1, <1>13, <2>1
    <3>2. x[1] \notin {"color", "copy"}
      BY <1>8, <1>13, <2>1, <3>1 DEF Some
    <3>3. single' = single /\ leds' = leds /\ Rest(q)' = Rest(q)
      BY <1>1, <1>2, <2>1, <3>2
    <3> QED
      BY <1>13, <3>1, <3>3 DEF WantInv
  <2>2. CASE q = p /\ x[1] = "color"
    BY <1>1, <1>2, <1>13, <2>2 DEF Fits, FitsDrawing
  <2>3. CASE q = p /\ x[1] # "color"
    <3>1. alone[p] /\ ~Some("color", Rest(p)) /\ y \in Rest(p) /\ single' = single
      BY <1>1, <1>2, <1>3, <1>13, <2>3
    <3>2. IF <<"copy", l>> \in Rest(p) THEN single = y[2][l] ELSE leds[l] = y[2][l]
      BY <1>13, <3>1 DEF WantInv
    <3>3. CASE x = <<"copy", l>>
      <4>1. x[1] = "copy" /\ x[2] = l
        BY <3>3
      <4>2. leds'[l] = single
        BY <1>2, <1>4, <4>1 DEF DataType
      <4> QED
        BY <1>1, <2>3, <3>2, <3>3, <4>2
    <3>4. CASE x # <<"copy", l>>
      <4>1. <<"copy", l>> \in Rest(p)' <=> <<"copy", l>> \in Rest(p)
        BY <1>1, <3>4
      <4>2. ~(x[1] = "copy" /\ x[2] = l)
        BY <1>4, <3>4
      <4>3. leds'[l] = leds[l]
        BY <1>2, <1>4, <4>2 DEF DataType
      <4> QED
        BY <2>3, <3>1, <3>2, <4>1, <4>3
    <3> QED
      BY <3>3, <3>4
  <2> QED
    BY <2>1, <2>2, <2>3
<1> QED
  BY <1>7, <1>9, <1>10, <1>12, <1>13 DEF WantInv

LEMMA WantQuits ==
    ASSUME CallInv, AloneInv, WantInv, NEW p \in Actors, NEW x \in StepSet, Quits(p, x)
    PROVE  WantInv'
<1>1. /\ UNCHANGED <<stage, single, leds, want, alone>> /\ \A q \in Actors \ {p} : Rest(q)' = Rest(q)
      /\ \A y \in Rest(p)' : y[1] = "free"
      /\ x \in Rest(p)
  BY DEF Quits, Onward, memory
<1>2. \A l \in 1..Leds : ~Drawing(p, l)
  BY QuitsEarly DEF Drawing, Some
<1>3. \A q \in Actors \ {p}, l \in 1..Leds : Drawing(q, l)' <=> Drawing(q, l)
  BY <1>1 DEF Drawing
<1>4. \A q \in Actors : Busy(q)' => Busy(q)
  BY <1>1 DEF Busy
<1>5. \A y \in Rest(p)' : y[1] # "end"
  BY <1>1
<1>6. \A l \in 1..Leds : want'[l] # Unknown => leds'[l] = want'[l] \/ \E q \in Actors : Drawing(q, l)'
  BY <1>1, <1>2, <1>3 DEF WantInv
<1>7. ASSUME NEW q \in Actors, alone'[q], ~Some("color", Rest(q)'), NEW y \in Rest(q)', y[1] = "end",
              NEW l \in DOMAIN y[2]
       PROVE  IF <<"copy", l>> \in Rest(q)' THEN single' = y[2][l] ELSE leds'[l] = y[2][l]
  BY <1>1, <1>5, <1>7 DEF WantInv
<1> QED
  BY <1>1, <1>4, <1>6, <1>7 DEF WantInv

LEMMA WantBegins ==
    ASSUME CallInv, WantInv, NEW p \in Actors, NEW what \in CallKinds, Begins(p, what)
    PROVE  WantInv'
<1>1. /\ \A q \in Actors \ {p} : Rest(q)' = Rest(q)
      /\ ~Busy(p) /\ CallStart(what, driver, Rest(p)')
      /\ what = "init" => stage = "out" /\ stage' = "in"
      /\ what # "init" => single' = single /\ leds' = leds
      /\ what = "exit" => stage' = "going"
      /\ what \notin {"init", "exit"} => p \in files /\ stage' = stage
  BY DEF Begins, memory
<1>2. Some("end", Rest(p)') => Some("color", Rest(p)')
  BY <1>1 DEF CallStart
<1>3. stage' # "out"
  BY <1>1 DEF CallInv
<1>4. what = "init" => \A q \in Actors : Rest(q) = {}
  BY <1>1, InsertedIdle DEF Busy
<1>5. CASE alone' = [q \in Actors |-> FALSE] /\ want' = [l \in 1..Leds |-> Unknown]
  BY <1>3, <1>5 DEF WantInv
<1>6. CASE alone' = [alone EXCEPT ![p] = TRUE] /\ want' = want
  <2>1. alone'[p] = TRUE /\ \A q \in Actors \ {p} : alone'[q] = alone[q]
    BY <1>6 DEF CallInv
  <2>2. ASSUME NEW q \in Actors, Busy(q)', ~alone'[q], NEW l \in 1..Leds PROVE want'[l] = Unknown
    <3>1. q # p /\ Busy(q) /\ ~alone[q]
      BY <1>1, <2>1, <2>2 DEF Busy
    <3> QED
      BY <1>6, <3>1 DEF WantInv
  <2>3. ASSUME NEW l \in 1..Leds, want'[l] # Unknown, leds'[l] # want'[l] PROVE \E q \in Actors : Drawing(q, l)'
    <3>1. what # "init"
      BY <1>1, <1>6, <2>3 DEF WantInv
    <3>2. PICK q \in Actors : Drawing(q, l)
      BY <1>1, <1>6, <2>3, <3>1 DEF WantInv
    <3>3. q # p
      BY <1>1, <3>2 DEF Drawing, Busy
    <3> QED
      BY <1>1, <3>2, <3>3 DEF Drawing
  <2>4. ASSUME NEW q \in Actors, alone'[q], ~Some("color", Rest(q)'), NEW y \in Rest(q)', y[1] = "end",
                NEW l \in DOMAIN y[2]
         PROVE  IF <<"copy", l>> \in Rest(q)' THEN single' = y[2][l] ELSE leds'[l] = y[2][l]
    <3>1. q # p
      BY <1>2, <2>4 DEF Some
    <3>2. alone[q] /\ ~Some("color", Rest(q)) /\ y \in Rest(q) /\ Rest(q)' = Rest(q)
      BY <1>1, <2>1, <2>4, <3>1
    <3>3. what # "init"
      BY <1>4, <3>2
    <3> QED
      BY <1>1, <2>4, <3>2, <3>3 DEF WantInv
  <2>5. want' \in [1..Leds -> Tints \cup {Unknown}]
    BY <1>6 DEF WantInv
  <2> QED
    BY <1>3, <2>2, <2>3, <2>4, <2>5 DEF WantInv
<1> QED
  BY <1>5, <1>6 DEF Begins

LEMMA WantOpens ==
    ASSUME WantInv, NEW p \in Actors, Opens(p)
    PROVE  WantInv'
<1>1. /\ UNCHANGED <<stage, single, leds, want, alone>> /\ \A q \in Actors : Rest(q)' = Rest(q)
  BY DEF Opens, memory, history, Rest
<1>2. \A q \in Actors : (Busy(q)' <=> Busy(q)) /\ \A l \in 1..Leds : Drawing(q, l)' <=> Drawing(q, l)
  BY <1>1 DEF Busy, Drawing
<1> QED
  BY <1>1, <1>2 DEF WantInv

-----------------------------------------------------------------------------
(* Pins.                                                                    *)

LEMMA PinActs ==
    ASSUME CallInv, CallInv', PinInv, NEW p \in Actors, NEW x \in StepSet, Acts(p, x)
    PROVE  PinInv'
<1>1. /\ x \in Rest(p) /\ Rest(p)' = Rest(p) \ {x} /\ Fits(x, Rest(p)') /\ x \notin Rest(p)'
      /\ \A q \in Actors \ {p} : Rest(q)' = Rest(q) /\ op'[q] = op[q]
      /\ op'[p] = IF Rest(p)' = {} THEN "none" ELSE op[p]
      /\ driver' = driver /\ pinRace' = pinRace
  BY DEF Acts, Taken, Onward
<1>2. /\ stage' = IF x[1] = "out" THEN "out" ELSE stage
      /\ x[1] # "request" => pins' = (IF x[1] = "free" THEN pins \ {x[2]} ELSE pins) /\ refused' = refused
      /\ x[1] = "request" =>
            \/ x[2] \notin pins /\ pins' = pins \cup {x[2]} /\ refused' = refused \ {x[2]}
            \/ driver = "spi" /\ x[2] \in pins /\ pins' = pins /\ refused' = refused
            \/ driver = "spi" /\ x[2] \notin pins /\ pins' = pins /\ refused' = refused \cup {x[2]}
  BY DEF Acts, Effect
<1>3. Busy(p) /\ CallShape(op[p], driver, Rest(p)) /\ Insmod \in Actors /\ (p \in Procs \/ p = Insmod)
  BY <1>1 DEF CallInv, Busy, Actors
<1>4. /\ x[1] \in {"free", "request"} => x = <<x[1], x[2]>> /\ x[2] \in Pins
      /\ x[1] = "out" => x = <<"out">>
  BY StepKinds
<1>5. \A i : /\ <<"free", i>>[1] = "free" /\ <<"free", i>>[2] = i
             /\ <<"request", i>>[1] = "request" /\ <<"request", i>>[2] = i
  OBVIOUS
\* A step not taken is still to come.
<1>6. \A q \in Actors : \A y : /\ y \in Rest(q)' => y \in Rest(q)
                               /\ y \in Rest(q) /\ (q # p \/ y # x) => y \in Rest(q)'
  BY <1>1
<1>7. \A q \in Actors : TakesPins(q)' => TakesPins(q)
  BY <1>6 DEF TakesPins, Some
<1>8. pins' \subseteq Pins /\ refused' \subseteq Pins /\ pins' \cap refused' = {}
  BY <1>2, <1>4 DEF PinInv
<1>9. stage # "out" /\ (stage = "going" => op[p] = "exit" /\ p = Insmod)
  <2>1. stage # "out"
    BY <1>3, InsertedIdle
  <2>2. stage = "going" => files = {}
    BY DEF CallInv
  <2> QED
    BY <1>3, <2>1, <2>2 DEF CallInv
<1>10. x[1] = "request" => stage = "in" /\ \A i \in Pins : <<"free", i>> \notin Rest(p)
  <2> SUFFICES ASSUME x[1] = "request" PROVE stage = "in" /\ \A i \in Pins : <<"free", i>> \notin Rest(p)
    OBVIOUS
  <2>1. op[p] # "exit"
    BY <1>1, <1>3 DEF CallShape, Some
  <2>2. ~Some("free", Rest(p)')
    BY <1>1 DEF Fits, FitsPinning
  <2>3. \A i \in Pins : <<"free", i>> \notin Rest(p)
    <3>1. \A i : <<"free", i>> # x
      BY <1>5
    <3> QED
      BY <1>1, <1>5, <2>2, <3>1 DEF Some
  <2> QED
    BY <1>9, <2>1, <2>3 DEF CallInv
<1>11. ASSUME driver = "spi", NEW q \in Actors, NEW i \in Pins, op'[q] # "exit", <<"free", i>> \in Rest(q)'
       PROVE  <<"request", i>> \in Rest(q)'
  <2>1. op[q] # "exit" \/ (q = p /\ Rest(p)' = {})
    BY <1>1, <1>11
  <2>2. <<"request", i>> \in Rest(q)
    BY <1>6, <1>11, <2>1 DEF PinInv
  <2>3. q # p \/ <<"request", i>> # x
    <3> SUFFICES ASSUME q = p, x = <<"request", i>> PROVE FALSE
      OBVIOUS
    <3>1. x[1] = "request"
      BY <1>5
    <3> QED
      BY <1>6, <1>10, <1>11, <3>1
  <2> QED
    BY <1>6, <2>2, <2>3
<1>12. ASSUME driver = "spi", stage' = "in", NEW i \in Pins
       PROVE  i \in pins' \/ i \in refused' \/ \E q \in Actors : <<"request", i>> \in Rest(q)'
  <2>1. stage = "in"
    BY <1>2, <1>12
  <2>2. CASE x = <<"free", i>>
    <3>1. op[p] # "exit"
      BY <1>3, <2>1 DEF CallInv
    <3>2. <<"request", i>> \in Rest(p)
      BY <1>1, <1>12, <2>2, <3>1 DEF PinInv
    <3>3. <<"request", i>> # x
      BY <1>5, <2>2
    <3> QED
      BY <1>6, <3>2, <3>3
  <2>3. CASE x = <<"request", i>>
    <3>1. x[1] = "request" /\ x[2] = i
      BY <1>5, <2>3
    <3> QED
      BY <1>2, <3>1
  <2>4. CASE x # <<"free", i>> /\ x # <<"request", i>>
    <3>1. (i \in pins => i \in pins') /\ (i \in refused => i \in refused')
      BY <1>2, <1>4, <2>4
    <3> QED
      BY <1>6, <1>12, <2>1, <2>4, <3>1 DEF PinInv
  <2> QED
    BY <2>2, <2>3, <2>4
<1>13. ASSUME driver = "bitbang", stage' = "out" PROVE pins' = {}
  <2>1. x[1] = "out"
    BY <1>2, <1>9, <1>13
  <2>2. x = <<"out">> /\ Rest(p)' = {}
    BY <1>1, <1>4, <2>1 DEF Fits, FitsLocking
  <2>3. op[p] = "exit" /\ p = Insmod /\ stage = "going"
    BY <1>1, <1>3, <2>2 DEF CallShape, CallInv
  <2>4. \A i \in pins : <<"free", i>> \in Rest(Insmod)
    BY <1>13, <2>3 DEF PinInv
  <2>5. \A i : <<"free", i>> # x
    BY <1>5, <2>1
  <2> QED
    BY <1>1, <1>2, <2>1, <2>2, <2>3, <2>4, <2>5
<1>14. ASSUME driver = "bitbang", stage' = "going", NEW i \in pins' PROVE <<"free", i>> \in Rest(Insmod)'
  <2>1. stage = "going" /\ p = Insmod /\ x[1] # "request"
    BY <1>2, <1>9, <1>10, <1>14
  <2>2. i \in pins /\ x # <<"free", i>>
    BY <1>2, <1>5, <1>14, <2>1
  <2> QED
    BY <1>6, <1>14, <2>1, <2>2 DEF PinInv
<1>15. ASSUME driver = "bitbang", stage' = "in", ~pinRace'
       PROVE  /\ \A q, r \in Actors : TakesPins(q)' /\ TakesPins(r)' => q = r
              /\ (\A q \in Actors : ~TakesPins(q)') => AllOrNone'
              /\ \A q \in Actors : TakesPins(q)' => Retakes(q)' \/ GivesBack(q)'
  <2>1. /\ stage = "in" /\ ~pinRace
        /\ \A q, r \in Actors : TakesPins(q) /\ TakesPins(r) => q = r
        /\ (\A q \in Actors : ~TakesPins(q)) => AllOrNone
        /\ \A q \in Actors : TakesPins(q) => Retakes(q) \/ GivesBack(q)
    BY <1>1, <1>2, <1>15 DEF PinInv
  <2>2. CASE x[1] \in {"free", "request"}
    <3>1. TakesPins(p)
      BY <1>1, <2>2 DEF TakesPins, Some
    <3>2. \A q \in Actors : TakesPins(q)' => q = p
      BY <1>7, <2>1, <3>1
    <3>3. CASE Retakes(p)
      <4>1. ASSUME NEW i \in Pins
            PROVE  /\ <<"free", i>> \in Rest(p)' => <<"request", i>> \in Rest(p)'
                   /\ <<"request", i>> \in Rest(p)' \/ i \in pins'
                   /\ <<"request", i>> \in Rest(p)' /\ i \in pins' => <<"free", i>> \in Rest(p)'
        <5>1. /\ <<"free", i>> \in Rest(p) => <<"request", i>> \in Rest(p)
              /\ <<"request", i>> \in Rest(p) \/ i \in pins
              /\ <<"request", i>> \in Rest(p) /\ i \in pins => <<"free", i>> \in Rest(p)
          BY <3>3 DEF Retakes
        <5>2. CASE x[1] = "free"
          <6>1. x # <<"request", i>>
            BY <1>5, <5>2
          <6>2. x = <<"free", i>> <=> x[2] = i
            BY <1>4, <1>5, <5>2
          <6>3. pins' = pins \ {x[2]}
            BY <1>2, <5>2
          <6> QED
            BY <1>1, <5>1, <6>1, <6>2, <6>3
        <5>3. CASE x[1] = "request"
          <6>1. <<"free", i>> \notin Rest(p) /\ <<"free", i>> \notin Rest(p)'
            BY <1>6, <1>10, <5>3
          <6>2. x = <<"request", i>> <=> x[2] = i
            BY <1>4, <1>5, <5>3
          <6>3. pins' = pins \cup {x[2]}
            BY <1>2, <1>15, <5>3
          <6> QED
            BY <1>1, <5>1, <6>1, <6>2, <6>3
        <5> QED
          BY <2>2, <5>2, <5>3
      <4>2. CASE Some("request", Rest(p)')
        <5>1. Retakes(p)'
          BY <4>1, <4>2 DEF Retakes
        <5> QED
          BY <3>2, <4>2, <5>1 DEF TakesPins
      <4>3. CASE ~Some("request", Rest(p)')
        <5>1. \A i \in Pins : <<"request", i>> \notin Rest(p)'
          BY <1>5, <4>3 DEF Some
        <5>2. pins' = Pins
          BY <1>8, <4>1, <5>1
        <5>3. ~TakesPins(p)'
          <6>1. x[1] = "request"
            <7> SUFFICES ASSUME x[1] # "request" PROVE FALSE
              OBVIOUS
            <7>1. PICK y \in Rest(p) : y[1] = "request"
              BY <3>3 DEF Retakes, Some
            <7>2. y \in Rest(p)'
              BY <1>6, <7>1
            <7> QED
              BY <4>3, <7>1, <7>2 DEF Some
          <6>2. ~Some("free", Rest(p)')
            BY <1>1, <6>1 DEF Fits, FitsPinning
          <6> QED
            BY <4>3, <6>2 DEF TakesPins
        <5> QED
          BY <3>2, <5>2, <5>3 DEF AllOrNone
      <4> QED
        BY <4>2, <4>3
    <3>4. CASE GivesBack(p)
      <4>1. x[1] = "free" /\ refused' = refused /\ pins' = pins \ {x[2]}
        BY <1>1, <1>2, <2>2, <3>4 DEF GivesBack, Some
      <4>2. GivesBack(p)'
        <5>1. ~Some("request", Rest(p)')
          BY <1>1, <3>4 DEF GivesBack, Some
        <5>2. \A i \in pins' : <<"free", i>> \in Rest(p)'
          BY <1>4, <1>5, <1>6, <3>4, <4>1 DEF GivesBack
        <5> QED
          BY <3>4, <4>1, <5>1, <5>2 DEF GivesBack
      <4>3. ~TakesPins(p)' => AllOrNone'
        BY <1>5, <4>2 DEF TakesPins, Some, GivesBack, AllOrNone
      <4> QED
        BY <3>2, <4>2, <4>3
    <3> QED
      BY <2>1, <3>1, <3>3, <3>4
  <2>3. CASE x[1] \notin {"free", "request"}
    <3>1. pins' = pins /\ refused' = refused /\ \A i : x # <<"free", i>> /\ x # <<"request", i>>
      BY <1>2, <1>5, <2>3
    <3>2. \A q \in Actors, i \in Pins : /\ <<"free", i>> \in Rest(q)' <=> <<"free", i>> \in Rest(q)
                                        /\ <<"request", i>> \in Rest(q)' <=> <<"request", i>> \in Rest(q)
      BY <1>6, <3>1
    <3>3. /\ \A q \in Actors : TakesPins(q)' <=> TakesPins(q)
          /\ \A q \in Actors : Some("request", Rest(q)') <=> Some("request", Rest(q))
      <4>1. \A q \in Actors : \A y : y[1] \in {"free", "request"} /\ y \in Rest(q) => y \in Rest(q)'
        BY <1>6, <2>3
      <4>2. \A q \in Actors : Some("request", Rest(q)') <=> Some("request", Rest(q))
        BY <1>6, <4>1 DEF Some
      <4> QED
        BY <1>7, <4>1, <4>2 DEF TakesPins, Some
    <3>4. \A q \in Actors : (Retakes(q)' <=> Retakes(q)) /\ (GivesBack(q)' <=> GivesBack(q))
      <4> SUFFICES ASSUME NEW q \in Actors
                   PROVE  (Retakes(q)' <=> Retakes(q)) /\ (GivesBack(q)' <=> GivesBack(q))
        OBVIOUS
      <4>1. \A i \in pins : i \in Pins
        BY DEF PinInv
      <4>2. Retakes(q)' <=> Retakes(q)
        BY <3>1, <3>2, <3>3 DEF Retakes
      <4>3. GivesBack(q)' <=> GivesBack(q)
        BY <3>1, <3>2, <3>3, <4>1 DEF GivesBack
      <4> QED
        BY <4>2, <4>3
    <3> QED
      BY <2>1, <3>1, <3>3, <3>4 DEF AllOrNone
  <2> QED
    BY <2>2, <2>3
<1>16. driver' = "spi" /\ stage' = "in" =>
          \A i \in Pins : i \in pins' \/ i \in refused' \/ \E q \in Actors : <<"request", i>> \in Rest(q)'
  BY <1>1, <1>12
<1>17. driver' = "spi" => \A q \in Actors, i \in Pins :
          op'[q] # "exit" /\ <<"free", i>> \in Rest(q)' => <<"request", i>> \in Rest(q)'
  BY <1>1, <1>11
<1> QED
  BY <1>1, <1>8, <1>13, <1>14, <1>15, <1>16, <1>17 DEF PinInv

LEMMA PinQuits ==
    ASSUME CallInv, PinInv, NEW p \in Actors, NEW x \in StepSet, Quits(p, x)
    PROVE  PinInv'
<1>1. /\ UNCHANGED <<stage, pins, driver, pinRace>> /\ driver = "bitbang"
      /\ x \in Rest(p) /\ x[1] = "request" /\ Fits(x, Rest(p) \ {x})
      /\ refused' = IF x[2] \in pins THEN refused ELSE refused \cup {x[2]}
      /\ \A i \in Pins : i < x[2] => <<"free", i>> \in Rest(p)'
      /\ \A q \in Actors \ {p} : Rest(q)' = Rest(q)
  BY DEF Quits, Onward
<1>2. x[2] \in Pins /\ x = <<"request", x[2]>>
  BY <1>1, StepKinds
<1>3. TakesPins(p) /\ \A i : <<"free", i>> \notin Rest(p)
  <2>1. \A i : <<"free", i>>[1] = "free"
    OBVIOUS
  <2> QED
    BY <1>1, <2>1, QuitsEarly DEF TakesPins, Some
<1>4. refused' \subseteq Pins /\ pins' \cap refused' = {}
  BY <1>1, <1>2 DEF PinInv
<1>5. stage # "going"
  <2> SUFFICES ASSUME stage = "going" PROVE FALSE
    OBVIOUS
  <2>1. p = Insmod /\ op[p] = "exit" /\ CallShape(op[p], driver, Rest(p))
    BY <1>1 DEF CallInv, Busy, Actors
  <2> QED
    BY <1>1, <2>1 DEF CallShape, Some
<1>6. ASSUME stage = "in", ~pinRace
      PROVE  /\ \A q, r \in Actors : TakesPins(q)' /\ TakesPins(r)' => q = r
             /\ (\A q \in Actors : ~TakesPins(q)') => AllOrNone'
             /\ \A q \in Actors : TakesPins(q)' => Retakes(q)' \/ GivesBack(q)'
  <2>1. /\ \A q, r \in Actors : TakesPins(q) /\ TakesPins(r) => q = r
        /\ Retakes(p) \/ GivesBack(p)
    BY <1>1, <1>3, <1>6 DEF PinInv
  <2>2. Retakes(p)
    BY <1>1, <2>1 DEF GivesBack, Some
  <2>3. x[2] \notin pins /\ refused' # {}
    BY <1>1, <1>2, <1>3, <2>2 DEF Retakes
\* The pins after x[2] are still to be requested, so that none of them is held.
  <2>4. \A i \in pins : i \in Pins /\ i < x[2]
    <3> SUFFICES ASSUME NEW i \in pins PROVE i \in Pins /\ i < x[2]
      OBVIOUS
    <3>1. i \in Pins /\ <<"request", i>> \notin Rest(p)
      BY <1>3, <2>2 DEF Retakes, PinInv
    <3>2. ~(x[2] < i)
      BY <1>1, <3>1 DEF Fits, FitsPinning
    <3> QED
      BY <1>2, <2>3, <3>1, <3>2 DEF Pins
  <2>5. ~Some("request", Rest(p)')
    BY QuitsEarly DEF Some
  <2>6. GivesBack(p)'
    BY <1>1, <2>3, <2>4, <2>5 DEF GivesBack
  <2>7. \A q \in Actors \ {p} : ~TakesPins(q)'
    BY <1>1, <1>3, <2>1 DEF TakesPins
  <2>8. ~TakesPins(p)' => AllOrNone'
    <3>1. \A i : <<"free", i>>[1] = "free"
      OBVIOUS
    <3> QED
      BY <2>6, <3>1 DEF TakesPins, Some, GivesBack, AllOrNone
  <2> QED
    BY <2>6, <2>7, <2>8
<1> QED
  BY <1>1, <1>4, <1>5, <1>6 DEF PinInv

LEMMA PinBegins ==
    ASSUME CallInv, PinInv, NEW p \in Actors, NEW what \in CallKinds, Begins(p, what)
    PROVE  PinInv'
<1>1. /\ UNCHANGED <<driver, pins, refused>>
      /\ \A q \in Actors \ {p} : Rest(q)' = Rest(q) /\ op'[q] = op[q]
      /\ ~Busy(p) /\ what # "none" /\ op'[p] = what
      /\ CallShape(what, driver, Rest(p)') /\ CallStart(what, driver, Rest(p)')
      /\ what = "init" => p = Insmod /\ stage = "out" /\ stage' = "in"
      /\ what = "exit" => p = Insmod /\ stage = "in" /\ stage' = "going"
      /\ what \notin {"init", "exit"} => p \in files /\ stage' = stage
      /\ pinRace' = IF Some("request", Rest(p)') THEN \E q \in Actors \ {p} : TakesPins(q) ELSE pinRace
  BY DEF Begins
<1>2. Rest(p) = {} /\ ~TakesPins(p) /\ Insmod \in Actors
  BY <1>1 DEF Busy, TakesPins, Some, Actors
<1>3. \A q \in Actors \ {p} : TakesPins(q)' <=> TakesPins(q)
  BY <1>1 DEF TakesPins
<1>4. \A i : <<"free", i>>[1] = "free" /\ <<"request", i>>[1] = "request"
  OBVIOUS
<1>5. stage' # "out" /\ pins \subseteq Pins /\ refused \subseteq Pins /\ pins \cap refused = {}
      /\ (what \notin {"init", "exit"} => stage = "in")
  BY <1>1 DEF CallInv, PinInv
<1>6. ASSUME driver = "spi", stage' = "in", NEW i \in Pins
      PROVE  i \in pins' \/ i \in refused' \/ \E q \in Actors : <<"request", i>> \in Rest(q)'
  <2>1. CASE what = "init"
    BY <1>1, <2>1 DEF CallStart
  <2>2. CASE what # "init"
    <3>1. stage = "in"
      BY <1>1, <1>5, <1>6, <2>2
    <3> QED
      BY <1>1, <1>2, <1>6, <3>1 DEF PinInv
  <2> QED
    BY <2>1, <2>2
<1>7. ASSUME driver = "spi", NEW q \in Actors, NEW i \in Pins, op'[q] # "exit", <<"free", i>> \in Rest(q)'
      PROVE  <<"request", i>> \in Rest(q)'
  <2>1. CASE q = p
    <3>1. what = "reset"
      BY <1>1, <1>4, <1>7, <2>1 DEF CallShape, CallStart, CallKinds, Some
    <3> QED
      BY <1>1, <2>1, <3>1 DEF CallStart
  <2>2. CASE q # p
    BY <1>1, <1>7, <2>2 DEF PinInv
  <2> QED
    BY <2>1, <2>2
<1>8. ASSUME driver = "bitbang", stage' = "going", NEW i \in pins' PROVE <<"free", i>> \in Rest(Insmod)'
  <2>1. what = "exit" /\ p = Insmod
    BY <1>1, <1>5, <1>8
  <2> QED
    BY <1>1, <1>5, <1>8, <2>1 DEF CallStart
<1>9. ASSUME driver = "bitbang", stage' = "in", ~pinRace'
      PROVE  /\ \A q, r \in Actors : TakesPins(q)' /\ TakesPins(r)' => q = r
             /\ (\A q \in Actors : ~TakesPins(q)') => AllOrNone'
             /\ \A q \in Actors : TakesPins(q)' => Retakes(q)' \/ GivesBack(q)'
  <2>1. CASE Some("request", Rest(p)')
    <3>1. \A q \in Actors : TakesPins(q)' => q = p
      BY <1>1, <1>3, <1>9, <2>1
    <3>2. TakesPins(p)'
      BY <2>1 DEF TakesPins
    <3>3. what \in {"reset", "init"}
      BY <1>1, <2>1 DEF CallShape, CallKinds
    <3>4. what = "init" => pins = {} /\ ~Some("free", Rest(p)')
      BY <1>1, <1>9 DEF PinInv, CallStart
    <3>5. \A i \in Pins : <<"request", i>> \in Rest(p)' /\ (what = "reset" => <<"free", i>> \in Rest(p)')
      BY <1>1, <3>3 DEF CallStart
    <3>6. \A i \in Pins : /\ <<"request", i>> \in Rest(p)'
                          /\ i \in pins' => <<"free", i>> \in Rest(p)'
      BY <1>1, <3>3, <3>4, <3>5
    <3>7. Retakes(p)'
      BY <2>1, <3>6 DEF Retakes
    <3> QED
      BY <3>1, <3>2, <3>7
  <2>2. CASE ~Some("request", Rest(p)')
    <3>1. what \in {"write", "release"}
      <4>1. 1 \in Pins
        BY DEF Pins
      <4>2. what \notin {"reset", "init"}
        BY <1>1, <1>4, <2>2, <4>1 DEF CallStart, Some
      <4>3. what # "exit"
        BY <1>1, <1>9
      <4> QED
        BY <1>1, <4>2, <4>3 DEF CallKinds
    <3>2. ~TakesPins(p)'
      BY <1>1, <3>1 DEF TakesPins, CallShape
    <3>3. stage = "in" /\ ~pinRace
      BY <1>1, <1>5, <1>9, <2>2, <3>1
    <3>4. /\ \A q, r \in Actors : TakesPins(q) /\ TakesPins(r) => q = r
          /\ (\A q \in Actors : ~TakesPins(q)) => AllOrNone
          /\ \A q \in Actors : TakesPins(q) => Retakes(q) \/ GivesBack(q)
      BY <1>9, <3>3 DEF PinInv
    <3>5. \A q \in Actors : TakesPins(q)' <=> TakesPins(q)
      BY <1>2, <1>3, <3>2
    <3>6. \A q \in Actors \ {p} : (Retakes(q)' <=> Retakes(q)) /\ (GivesBack(q)' <=> GivesBack(q))
      BY <1>1 DEF Retakes, GivesBack
    <3>7. AllOrNone' <=> AllOrNone
      BY <1>1 DEF AllOrNone
    <3> QED
      BY <3>2, <3>4, <3>5, <3>6, <3>7
  <2> QED
    BY <2>1, <2>2
<1>10. driver' = "spi" /\ stage' = "in" =>
          \A i \in Pins : i \in pins' \/ i \in refused' \/ \E q \in Actors : <<"request", i>> \in Rest(q)'
  BY <1>1, <1>6
<1>11. driver' = "spi" => \A q \in Actors, i \in Pins :
          op'[q] # "exit" /\ <<"free", i>> \in Rest(q)' => <<"request", i>> \in Rest(q)'
  BY <1>1, <1>7
<1> QED
  BY <1>1, <1>5, <1>8, <1>9, <1>10, <1>11 DEF PinInv

LEMMA PinOpens ==
    ASSUME PinInv, NEW p \in Actors, Opens(p)
    PROVE  PinInv'
<1>1. UNCHANGED <<driver, stage, op, pins, refused, pinRace>> /\ \A q \in Actors : Rest(q)' = Rest(q)
  BY DEF Opens, history, Rest
<1>2. /\ \A q \in Actors : TakesPins(q)' <=> TakesPins(q)
      /\ \A q \in Actors : (Retakes(q)' <=> Retakes(q)) /\ (GivesBack(q)' <=> GivesBack(q))
      /\ AllOrNone' <=> AllOrNone
      /\ Insmod \in Actors
  BY <1>1 DEF TakesPins, Retakes, GivesBack, AllOrNone, Actors
<1> QED
  BY <1>1, <1>2 DEF PinInv

-----------------------------------------------------------------------------
(* The theorems.                                                            *)

WsInv ==
    /\ SeqInv /\ CallInv /\ AloneInv /\ LockInv /\ SendInv
    /\ DataType /\ ShowInv /\ DarkInv /\ WantInv /\ PinInv
    /\ calls \in 0..MaxCalls

LEMMA InitInv == Init => WsInv
<1> SUFFICES ASSUME Init PROVE WsInv
  OBVIOUS
<1>1. \A p \in Actors : /\ pc[p] = <<>> /\ Rest(p) = {} /\ ~Busy(p)
                        /\ op[p] = "none" /\ alone[p] = TRUE
  <2>1. \A p \in Actors : pc[p] = <<>> /\ op[p] = "none" /\ alone[p] = TRUE
    BY DEF Init
  <2>2. <<>> \in Seq(StepSet)
    OBVIOUS
  <2> QED
    BY <2>1, <2>2, RangeOf DEF Rest, Busy
<1>2. Insmod \in Actors /\ \A p \in Procs : p \in Actors
  BY DEF Actors
<1>3. SeqInv
  <2>1. pc \in [Actors -> Seq(StepSet)]
    BY DEF Init
  <2>2. 1..Len(<<>>) = {}
    OBVIOUS
  <2> QED
    BY <1>1, <2>1, <2>2 DEF SeqInv, FitWith
<1>4. CallInv
  <2>1. \A p \in Actors : CallShape(op[p], driver, Rest(p))
    BY <1>1 DEF CallShape, Some
  <2> QED
    BY <1>1, <1>2, <2>1 DEF Init, CallInv, CallKinds
<1>5. AloneInv /\ LockInv /\ SendInv
  BY <1>1, WsAssumption DEF Init, AloneInv, LockInv, SendInv, Inside, Some
<1>6. DataType
  BY WsAssumption DEF Init, DataType, Fresh, Tints
<1>7. ShowInv
  <2>1. sending = {} /\ \A l \in 1..Leds : shown[l] = Off
    BY DEF Init
  <2>2. CASE driver = "bitbang"
    BY <2>1, <2>2 DEF Init, Fresh, ShowInv
  <2>3. CASE driver # "bitbang"
    <3>1. 1 \in 1..Leds /\ leds[1] = Blank
      BY <2>3, WsAssumption DEF Init, Fresh
    <3> QED
      BY <3>1 DEF ShowInv
  <2> QED
    BY <2>2, <2>3
<1>8. DarkInv
  BY <1>1, WsAssumption DEF Init, DarkInv, Fresh, Some
<1>9. WantInv
  BY <1>1 DEF Init, WantInv, Drawing
<1>10. PinInv
  BY <1>1, <1>2 DEF Init, PinInv, TakesPins, Some
<1>11. calls \in 0..MaxCalls
  BY WsAssumption DEF Init
<1> QED
  BY <1>3, <1>4, <1>5, <1>6, <1>7, <1>8, <1>9, <1>10, <1>11 DEF WsInv

LEMMA NextInv == WsInv /\ [Next]_vars => WsInv'
<1> SUFFICES ASSUME WsInv, [Next]_vars PROVE WsInv'
  OBVIOUS
<1>0. /\ SeqInv /\ CallInv /\ AloneInv /\ LockInv /\ SendInv
      /\ DataType /\ ShowInv /\ DarkInv /\ WantInv /\ PinInv
      /\ calls \in 0..MaxCalls
  BY DEF WsInv
<1>1. /\ SeqInv'
      /\ \/ \E p \in Actors, x \in StepSet : Acts(p, x) \/ Quits(p, x)
         \/ \E p \in Actors, what \in CallKinds : Begins(p, what)
         \/ \E p \in Actors : Opens(p)
         \/ UNCHANGED vars
  BY <1>0, NextIs
<1>2. ASSUME NEW p \in Actors, NEW x \in StepSet, Acts(p, x) PROVE WsInv'
  <2>1. CallInv'
    BY <1>0, <1>2, CallActs
  <2>2. AloneInv'
    BY <1>0, <1>2, <2>1, AloneActs DEF Acts, Taken, Busy
  <2>3. LockInv' /\ SendInv'
    BY <1>0, <1>2, LockActs, SendActs
  <2>4. DataType' /\ ShowInv' /\ DarkInv'
    BY <1>0, <1>2, <2>1, <2>3, TypeActs, ShowActs, DarkActs
  <2>5. WantInv' /\ PinInv'
    BY <1>0, <1>2, <2>1, WantActs, PinActs
  <2>6. calls' \in 0..MaxCalls
    BY <1>0, <1>2 DEF Acts, Onward
  <2> QED
    BY <1>1, <2>1, <2>2, <2>3, <2>4, <2>5, <2>6 DEF WsInv
<1>3. ASSUME NEW p \in Actors, NEW x \in StepSet, Quits(p, x) PROVE WsInv'
  <2>1. CallInv'
    BY <1>0, <1>3, CallQuits
  <2>2. AloneInv'
    BY <1>0, <1>3, <2>1, AloneActs DEF Quits, Busy
  <2>3. LockInv' /\ SendInv' /\ ShowInv' /\ DarkInv'
    BY <1>0, <1>3, LockQuits, SendQuits, ShowQuits, DarkQuits
  <2>4. WantInv' /\ PinInv'
    BY <1>0, <1>3, WantQuits, PinQuits
  <2>5. DataType'
    BY <1>0, <1>3 DEF Quits, memory, strip, DataType
  <2>6. calls' \in 0..MaxCalls
    BY <1>0, <1>3 DEF Quits, Onward
  <2> QED
    BY <1>1, <2>1, <2>2, <2>3, <2>4, <2>5, <2>6 DEF WsInv
<1>4. ASSUME NEW p \in Actors, NEW what \in CallKinds, Begins(p, what) PROVE WsInv'
  <2>1. CallInv' /\ AloneInv' /\ LockInv' /\ SendInv'
    BY <1>0, <1>4, CallBegins, AloneBegins, LockBegins, SendBegins
  <2>2. DataType' /\ ShowInv' /\ DarkInv' /\ WantInv' /\ PinInv'
    BY <1>0, <1>4, TypeBegins, ShowBegins, DarkBegins, WantBegins, PinBegins
  <2>3. calls' \in 0..MaxCalls
    BY <1>4 DEF Begins
  <2> QED
    BY <1>1, <2>1, <2>2, <2>3 DEF WsInv
<1>5. ASSUME NEW p \in Actors, Opens(p) PROVE WsInv'
  <2>1. CallInv' /\ AloneInv' /\ LockInv' /\ SendInv'
    BY <1>0, <1>5, CallOpens, AloneOpens, LockOpens, SendOpens
  <2>2. ShowInv' /\ DarkInv' /\ WantInv' /\ PinInv'
    BY <1>0, <1>5, ShowOpens, DarkOpens, WantOpens, PinOpens
  <2>3. DataType' /\ calls' \in 0..MaxCalls
    BY <1>0, <1>5 DEF Opens, memory, strip, DataType
  <2> QED
    BY <1>1, <2>1, <2>2, <2>3 DEF WsInv
<1>6. CASE UNCHANGED vars
  <2>1. UNCHANGED <<driver, stage, files, pc, op, lock, single, leds, sending, pos, shown, pins, alone, want,
                    pinRace, refused, calls>>
    BY <1>6 DEF vars, memory, strip, history
  <2>2. \A p \in Actors : Rest(p)' = Rest(p)
    BY <2>1 DEF Rest
  <2>3. CallInv' /\ AloneInv' /\ LockInv' /\ SendInv'
    <3>1. \A p \in Actors : (Busy(p)' <=> Busy(p)) /\ (Inside(p)' <=> Inside(p))
      BY <2>2 DEF Busy, Inside
    <3>2. Insmod \in Actors /\ \A p \in Procs : p \in Actors
      BY DEF Actors
    <3>3. CallInv'
      BY <1>0, <2>1, <2>2, <3>1, <3>2 DEF CallInv
    <3>4. AloneInv' /\ LockInv'
      BY <1>0, <2>1, <2>2, <3>1 DEF AloneInv, LockInv
    <3>5. SendInv'
      BY <1>0, <2>1, <2>2 DEF SendInv
    <3> QED
      BY <3>3, <3>4, <3>5
  <2>4. ShowInv' /\ DarkInv'
    <3>1. files \subseteq Actors /\ sending \subseteq Actors
      BY <1>0 DEF CallInv, SendInv, Actors
    <3>2. \A p \in Actors : (OnTrack(p)' <=> OnTrack(p)) /\ (Coming(p)' <=> Coming(p))
      BY <2>1, <2>2 DEF OnTrack, Coming
    <3>3. ShowInv'
      BY <1>0, <2>1, <3>1, <3>2 DEF ShowInv
    <3>4. DarkInv'
      BY <1>0, <2>1, <2>2, <3>1, <3>2 DEF DarkInv
    <3> QED
      BY <3>3, <3>4
  <2>5. WantInv'
    <3>1. \A p \in Actors : (Busy(p)' <=> Busy(p)) /\ \A l \in 1..Leds : Drawing(p, l)' <=> Drawing(p, l)
      BY <2>2 DEF Busy, Drawing
    <3> QED
      BY <1>0, <2>1, <2>2, <3>1 DEF WantInv
  <2>6. PinInv'
    <3>1. /\ \A p \in Actors : TakesPins(p)' <=> TakesPins(p)
          /\ \A p \in Actors : (Retakes(p)' <=> Retakes(p)) /\ (GivesBack(p)' <=> GivesBack(p))
          /\ AllOrNone' <=> AllOrNone
          /\ Insmod \in Actors
      BY <2>1, <2>2 DEF TakesPins, Retakes, GivesBack, AllOrNone, Actors
    <3> QED
      BY <1>0, <2>1, <2>2, <3>1 DEF PinInv
  <2>7. DataType'
    BY <1>0, <2>1 DEF DataType
  <2> QED
    BY <1>0, <1>1, <2>1, <2>3, <2>4, <2>5, <2>6, <2>7 DEF WsInv
<1> QED
  BY <1>1, <1>2, <1>3, <1>4, <1>5, <1>6

LEMMA InvariantOfSpec == Spec => []WsInv
<1>1. Init => WsInv
  BY InitInv
<1>2. WsInv /\ [Next]_vars => WsInv'
  BY NextInv
<1> QED
  BY <1>1, <1>2, PTL DEF Spec

\* Nothing is left of a call when all is quiet.
LEMMA QuietRests ==
    ASSUME WsInv, Quiet
    PROVE  /\ \A p \in Actors : Rest(p) = {} /\ ~Busy(p)
           /\ sending = {}
<1>1. \A p \in Actors : Rest(p) = {} /\ ~Busy(p)
  BY RestIs DEF WsInv, Quiet, Busy
<1> QED
  BY <1>1 DEF WsInv, SendInv, Some

\* The types of the state: one transfer at most is under way, and the strip is
\* never sent more than it has LEDs (spi_write, write_to_registers).
THEOREM WsTyped == Spec => []TypeOK
<1>1. WsInv => TypeOK
  <2> SUFFICES ASSUME WsInv PROVE TypeOK
    OBVIOUS
  <2>1. Cardinality(sending) <= 1
    <3>1. CASE sending = {}
      BY <3>1, FS_EmptySet
    <3>2. CASE sending # {}
      <4>1. PICK p \in sending : TRUE
        BY <3>2
      <4>2. sending = {p}
        BY <4>1 DEF WsInv, SendInv
      <4>3. Cardinality({p}) = 1
        BY FS_Singleton
      <4> QED
        BY <4>2, <4>3
    <3> QED
      BY <3>1, <3>2
  <2> QED
    BY <2>1 DEF WsInv, CallInv, CallKinds, LockInv, SendInv, DataType, Tints, WantInv, PinInv, TypeOK
<1> QED
  BY <1>1, InvariantOfSpec, PTL

\* When no call is under way the strip shows what is in leds_pixel_data, however
\* the calls before overlapped, once no LED of it is a zero byte (reset_leds,
\* the writes and the release of either driver).
THEOREM StripShowsMemory == Spec => []ShowsMemory
<1>1. WsInv => ShowsMemory
  <2> SUFFICES ASSUME WsInv, Quiet, \A l \in 1..Leds : leds[l] # Blank PROVE shown = leds
    BY DEF ShowsMemory
  <2>1. sending = {} /\ \A p \in Actors : ~Coming(p)
    BY QuietRests DEF Coming, Some
  <2>2. \A l \in 1..Leds : shown[l] = leds[l]
    BY <2>1 DEF WsInv, ShowInv
  <2>3. shown \in [1..Leds -> Tints] /\ leds \in [1..Leds -> Tints \cup {Blank}]
    BY DEF WsInv, DataType
  <2>4. shown = [l \in 1..Leds |-> shown[l]] /\ leds = [l \in 1..Leds |-> leds[l]]
    BY <2>3
  <2>5. [l \in 1..Leds |-> shown[l]] = [l \in 1..Leds |-> leds[l]]
    BY <2>2
  <2> QED
    BY <2>4, <2>5
<1> QED
  BY <1>1, InvariantOfSpec, PTL

\* With no file open the strip is dark (ws_release of either driver): of
\* releases that overlap with other calls the last one darkens every LED.
THEOREM StripDarkWhenClosed == Spec => []DarkWhenClosed
<1>1. WsInv => DarkWhenClosed
  BY DEF WsInv, DarkInv, DarkWhenClosed
<1> QED
  BY <1>1, InvariantOfSpec, PTL

\* An LED is the colour it was last told as long as calls do not conflict; the
\* writes of the SPI driver do not, for its lock.
THEOREM AlwaysDrawnAsAsked == Spec => []DrawnAsAsked
<1>1. WsInv => DrawnAsAsked
  <2> SUFFICES ASSUME WsInv, Quiet, \A l \in 1..Leds : leds[l] # Blank, NEW l \in 1..Leds, want[l] # Unknown
               PROVE  leds[l] = want[l] /\ shown[l] = want[l]
    BY DEF DrawnAsAsked
  <2>1. sending = {} /\ \A p \in Actors : ~Coming(p) /\ ~Drawing(p, l)
    BY QuietRests DEF Coming, Drawing, Some
  <2>2. shown[l] = leds[l]
    BY <2>1 DEF WsInv, ShowInv
  <2> QED
    BY <2>1, <2>2 DEF WsInv, WantInv
<1> QED
  BY <1>1, InvariantOfSpec, PTL

\* Between calls no pin is lost that was granted: RESET takes back all it gave,
\* but for the pins refused (reset_gpios of the SPI driver, which goes on
\* without them); the other driver's RESET has all three, or after a refusal has
\* given back what it had got, unless calls that take pins overlapped.
THEOREM PinsAlwaysKept == Spec => []PinsKept
<1>1. WsInv => PinsKept
  <2> SUFFICES ASSUME WsInv, Quiet, stage = "in"
               PROVE  \/ driver = "spi" /\ pins = Pins \ refused
                      \/ driver = "bitbang" /\ (pinRace \/ AllOrNone)
    BY DEF PinsKept, AllOrNone
  <2>1. /\ \A p \in Actors : Rest(p) = {} /\ ~TakesPins(p)
        /\ driver \in {"spi", "bitbang"}
        /\ pins \subseteq Pins /\ refused \subseteq Pins /\ pins \cap refused = {}
    BY QuietRests DEF TakesPins, Some, WsInv, CallInv, PinInv
  <2>2. CASE driver = "spi"
    <3>1. \A i \in Pins : i \in pins \/ i \in refused
      BY <2>1, <2>2 DEF WsInv, PinInv
    <3> QED
      BY <2>1, <2>2, <3>1
  <2>3. CASE driver = "bitbang"
    BY <2>1, <2>3 DEF WsInv, PinInv
  <2> QED
    BY <2>1, <2>2, <2>3
<1> QED
  BY <1>1, InvariantOfSpec, PTL
=============================================================================
