\* Both files open, as in the tester.
CONSTANTS
    Procs = {p1}
    Files = {f1, f2}
    Keys = {1, 2, 3}
    Values = {5, 6}
    Buckets = 2
    Dumpable = {0, 1}
    DumpMax = 1
    MaxNodes = 3
    MaxCalls = 4
SPECIFICATION Spec
INVARIANTS FileIsolation
