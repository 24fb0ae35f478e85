CONSTANTS
    Vars = {"i", "j", "n"}
    Within <- MCWithin
    Programs <- ExitPrograms
    MAXFORLOOPS = 2
    MAXDOLOOPS = 2
    MAXGOSUB = 7
    Fuel = 80
    VM_MAX_FOR = 2
    VM_MAX_GOSUB = 8
    VM_MAX_CALL = 8
    MaxExits = 8
    MaxConts = 8
    VmFuel = 200
SPECIFICATION Spec
INVARIANT ForStackHolds
CHECK_DEADLOCK FALSE
