\* Two measurements of three triggers; edges may be lost, handlers may be late.
CONSTANTS
    Distances = {1, 6}
    Limit = 4
    Delays = {0, 2}
    Pauses = {4, 9, 21}
    Word = 12
    Triggers = 3
    MaxRounds = 2
SPECIFICATION Spec
INVARIANTS TypeOK SemaphoreNeverBlocks SamplesAreEchoes MeanInRange
