\* Three files, a ring of two slots, four hits.
CONSTANTS
    Size = 2
    MaxFiles = 3
    MaxCalls = 8
    MaxHits = 4
SPECIFICATION Spec
INVARIANTS TypeOK PlantedIsAllocated StraysOnlyIfOverlaid CleanClose UnreadKept
