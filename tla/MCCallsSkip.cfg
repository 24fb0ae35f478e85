\* What a skipped error leaves of the calls it interrupts.
CONSTANTS
    NPages = 5
    ArgPages = 1
    MaxGosub = 2
    MaxTemps = 2
    MaxActs = 5
    MaxInterrupts = 0
SPECIFICATION Spec
INVARIANT SkipRecovers
CHECK_DEADLOCK FALSE
