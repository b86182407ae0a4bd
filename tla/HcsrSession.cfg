\* A thread that writes, clears and releases, with every fault: after an ERR_PTR
\* or a dead thread calls may stop for good, so deadlock is expected.
CONSTANTS
    Procs = {p1}
    Workers = {w1, w2, w3, w4}
    Size = 2
    Triggers = 2
    Operations = {0, 1}
    Calls = {"write", "release"}
    Faults = {"kthread", "config", "echo"}
    MaxCalls = 6
    None = None
SPECIFICATION Spec
INVARIANTS SessionIsolation
CHECK_DEADLOCK FALSE
