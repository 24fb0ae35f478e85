----------------------------- MODULE MCDisplay -----------------------------
(* Instances of DisplayMerge for TLC.                                        *)
EXTENDS DisplayMerge

\* One rectangle is plain; one starts in column 255, which is also the word
\* that stops a merge, and is 3 rows high, which is also a command.
TwoRects == {<<10, 10, 40, 20>>, <<255, 40, 20, 3>>}
=============================================================================
