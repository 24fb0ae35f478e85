------------------------------- MODULE MCTftp -------------------------------
(* Instances of TftpServer for TLC: r reads, w writes, x sends requests that *)
(* do not parse.  Blocks are at most two bytes.                              *)
EXTENDS TftpServer, FiniteSetsExt, TLC

CONSTANTS r, w, x

Modes == r :> "read" @@ w :> "write" @@ x :> "bad"
Uploads == r :> <<>> @@ w :> <<11, 12, 13>> @@ x :> <<>>
WrappingUploads == r :> <<>> @@ w :> <<11, 12, 13, 14, 15>> @@ x :> <<>>

PlainMode == [p \in Peers |-> Modes[p]]
PlainUpload == [p \in Peers |-> Uploads[p]]
WrapUpload == [p \in Peers |-> WrappingUploads[p]]

\* No options; or only the writer negotiates a blksize of one byte; or only the
\* reader one above the maximum, which the server cuts down.
NoOption == [p \in Peers |-> 0]
SmallUpload == [p \in Peers |-> IF p = w THEN 1 ELSE 0]
LargeDownload == [p \in Peers |-> IF p = r THEN 3 ELSE 0]

\* Bound: duplicates, failing calls, resets and repeated requests together.
FewMishaps == dups + ioerrors + resets + MapThenSumSet(LAMBDA p : client[p].tries, Peers) <= 2

ServedFile == <<1, 2, 3>>
WholeBlocks == <<1, 2, 3, 4>>
=============================================================================
