\* Transfers past the block number wrap on a reliable network.
CONSTANTS
    r = r
    w = w
    x = x
    NoPeer = NoPeer
    Peers = {r, w, x}
    Mode <- PlainMode
    Asked <- SmallUpload
    Upload <- WrapUpload
    Served <- WholeBlocks
    BlockSize = 2
    MinBlock = 1
    BlockMod = 3
    MaxOpenFiles = 2
    MaxDups = 0
    MaxIoErrors = 0
    MaxRetries = 0
    MaxResets = 0
SPECIFICATION FairSpec
CHECK_DEADLOCK FALSE
PROPERTY TransferCompletes
