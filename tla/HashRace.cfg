\* Two callers that do not wait for each other, on one file: a release waits
\* for the calls on its file, so no node is freed under them.
CONSTANTS
    Procs = {p1, p2}
    Files = {f1}
    Keys = {1, 3}
    Values = {5}
    Buckets = 2
    Dumpable = {0}
    DumpMax = 1
    MaxNodes = 5
    MaxCalls = 5
SPECIFICATION FairSpec
PROPERTIES CallsReturn
