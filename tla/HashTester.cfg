\* Two threads; two tables of one bucket that both keys fall in.
CONSTANTS
    Threads = {t1, t2}
    Main = main
    Procs = {t1, t2, main}
    Files = {0, 1}
    Keys = {1, 2}
    Values = {5, 6}
    Buckets = 1
    Dumpable = {0}
    DumpMax = 1
    MaxNodes = 3
    MaxCalls = 0
    MaxData = 1
    MaxOps = 1
    Nobody = Nobody
SPECIFICATION FairTesterSpec
INVARIANTS TesterTypeOK ListsSound ReadsOwnWrite CountersBounded
PROPERTIES MapImplemented CallsTakeEffect ProgramEnds
