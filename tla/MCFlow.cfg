CONSTANTS
    Vars = {"i", "j", "n", "ij", "ji"}
    Within <- MCWithin
    Programs <- MCPrograms
    MAXFORLOOPS = 2
    MAXDOLOOPS = 2
    MAXGOSUB = 7
    Fuel = 80
    VM_MAX_FOR = 100
    VM_MAX_GOSUB = 8
    VM_MAX_CALL = 8
    MaxExits = 8
    MaxConts = 8
    VmFuel = 200
SPECIFICATION Spec
INVARIANTS LoopsLive StructuredRuns RejectsMisplaced SameOutput
CHECK_DEADLOCK FALSE
