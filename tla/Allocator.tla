----------------------------- MODULE Allocator -----------------------------
(***************************************************************************)
(* What the BASIC heap promises its callers: memory that is handed out     *)
(* overlaps nothing that is still in use, and stays the caller's, whole,   *)
(* until the caller gives it back.                                         *)
(***************************************************************************)
EXTENDS Naturals

CONSTANT NPages     \* pages of the heap
VARIABLE blocks     \* what is in use: records of the first page and the length

Extent(b) == b.at .. b.at + b.pages - 1

AllocInit == blocks = {}

\* Some pages next to each other that nobody uses.
Get(b) ==
    /\ b.pages > 0
    /\ Extent(b) \subseteq 0 .. NPages - 1
    /\ \A c \in blocks : Extent(b) \cap Extent(c) = {}
    /\ blocks' = blocks \cup {b}

\* Any blocks are given back; the others keep their place and their length.
Release(S) == blocks' = blocks \ S

AllocNext ==
    \/ \E at \in 0 .. NPages - 1, pages \in 1 .. NPages : Get([at |-> at, pages |-> pages])
    \/ \E S \in SUBSET blocks : Release(S)

AllocSpec == AllocInit /\ [][AllocNext]_blocks
=============================================================================
