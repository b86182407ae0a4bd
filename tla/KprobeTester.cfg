CONSTANTS
    Threads = {t1, t2}
    Main = main
    Procs = {t1, t2, main}
    Files = {0, 1}
    Keys = {1}
    Values = {5}
    Buckets = 1
    Dumpable = {0}
    DumpMax = 1
    MaxNodes = 3
    MaxCalls = 0
    MaxData = 1
    MaxOps = 1
    Nobody = Nobody
    RingSize = 10
SPECIFICATION KprobeSpec
PROPERTIES ProbedProgramEnds
CHECK_DEADLOCK FALSE
