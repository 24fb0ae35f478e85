\* A reader and a writer over a network that repeats and reorders, with failing
\* file system calls, RUN and OPTION TFTP OFF: at most two mishaps in all.
CONSTANTS
    r = r
    w = w
    x = x
    NoPeer = NoPeer
    Peers = {r, w}
    Mode <- PlainMode
    Asked <- LargeDownload
    Upload <- PlainUpload
    Served <- ServedFile
    BlockSize = 2
    MinBlock = 1
    BlockMod = 8
    MaxOpenFiles = 2
    MaxDups = 1
    MaxIoErrors = 1
    MaxRetries = 1
    MaxResets = 1
SPECIFICATION Spec
CHECK_DEADLOCK FALSE
INVARIANTS TypeOK NoStrandedFile UploadIsWhole DownloadIsPrefix
CONSTRAINT FewMishaps
