CONSTANTS
    Words = {met, latch}
    Readers = {r1}
    Depth = 4
    RetryLimit = 2
    MaxVersion = 8
SPECIFICATION Spec
INVARIANTS TypeOK ReadConsistent GivesUpOnlyUnderStorm
CHECK_DEADLOCK FALSE
