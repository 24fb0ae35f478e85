\* Three clients on two connection slots and one request slot, two hang-ups.
CONSTANTS
    a = a
    b = b
    t = t
    HttpClients = {a, b}
    TelnetClients = {t}
    NoClient = NoClient
    MaxConns = 2
    MaxPcb = 1
    ReadBuffer = 2
    MaxSegments <- Segments
    MaxHangups = 2
    MaxRuns = 1
SPECIFICATION FairSpec
CHECK_DEADLOCK FALSE
INVARIANTS TypeOK PatientAnswers RequestsAreSeparate ConsoleIsTelnet NoOrphan
PROPERTY RequestsAreServed
