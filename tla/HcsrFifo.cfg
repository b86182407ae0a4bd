\* The real number of slots; three samples that may be written repeatedly.
CONSTANTS
    Size = 5
    Sample = {s1, s2, s3}
    NoValue = NoValue
SPECIFICATION Spec
INVARIANTS TypeOK Contiguous
PROPERTY ImplementsStack
CHECK_DEADLOCK TRUE
