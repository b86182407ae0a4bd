\* The devices, pins and GPIOs of Main.c, less one trigger pin.
\* What memory holds is the number of a device, or of none.
CONSTANTS
    Devices = {1, 2}
    Pins = {6, 8, 9}
    Garbage = {1, 99}
    Trouble = {"gpio", "irq"}
    MaxCalls = 4
SPECIFICATION Spec
INVARIANTS TypeOK FlagRightAlone PinsBelong IrqsKnown
PROPERTIES FreesWhatItHolds
