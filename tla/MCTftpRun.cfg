\* RUN while a transfer is active.
CONSTANTS
    r = r
    w = w
    x = x
    NoPeer = NoPeer
    Peers = {w}
    Mode <- PlainMode
    Asked <- NoOption
    Upload <- PlainUpload
    Served <- ServedFile
    BlockSize = 2
    MinBlock = 1
    BlockMod = 8
    MaxOpenFiles = 1
    MaxDups = 0
    MaxIoErrors = 0
    MaxRetries = 0
    MaxResets = 1
SPECIFICATION Spec
CHECK_DEADLOCK FALSE
INVARIANT SessionOwnsItsFile
