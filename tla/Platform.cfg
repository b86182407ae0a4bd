\* Two devices, two pins, two threads; the driver loaded again, or the devices.
CONSTANTS
    Devices = {d1, d2}
    Pins = {2, 9}
    Workers = {w1, w2}
    MaxInt = 3
    MaxFiles = 2
    MaxCalls = 7
    Nobody = Nobody
    Gone = Gone
SPECIFICATION Spec
SYMMETRY DeviceSymmetry
INVARIANTS TypeOK   
