\* Two processes, two LEDs, one colour and off; both drivers.
CONSTANTS
    Procs = {p1, p2}
    Insmod = Insmod
    Nobody = Nobody
    Leds = 2
    Colours = {red}
    Off = Off
    Blank = Blank
    Unknown = Unknown
    Contested = {1, 2, 3}
    MaxCalls = 4
SPECIFICATION Spec
INVARIANTS TypeOK ShowsMemory DrawnAsAsked DarkWhenClosed PinsKept
