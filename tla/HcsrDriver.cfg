\* Two threads of one program that read and append; everything works.
CONSTANTS
    Procs = {p1, p2}
    Workers = {w1, w2, w3}
    Size = 2
    Triggers = 2
    Operations = {0}
    Calls = {"read", "write"}
    Faults = {}
    MaxCalls = 4
    None = None
SPECIFICATION FairSpec
INVARIANTS TypeOK LockExclusion
PROPERTIES FifoAtomic CallsReturn MipComesDown
