\* Subs, functions, errors and interrupts on a heap that runs out.
CONSTANTS
    NPages = 5
    ArgPages = 2
    MaxGosub = 2
    MaxTemps = 2
    MaxActs = 6
    MaxInterrupts = 1
SPECIFICATION Spec
INVARIANTS TypeOK PagesAreFound HeldIsLive TempsLast TempsEnd MemIsCurrent CallDepth ErrorModeKept
PROPERTY CallsFindAllocator
CHECK_DEADLOCK FALSE
