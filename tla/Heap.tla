-------------------------------- MODULE Heap --------------------------------
(***************************************************************************)
(* The heap of MMBasic (core/mmbasic/Memory.c) without PSRAM: a map of two *)
(* bits for each page says whether it is used and whether it is the last   *)
(* of its block.  A caller holds only the address of a block; its length   *)
(* is found by following the map to the next page marked last.             *)
(***************************************************************************)
EXTENDS Integers

CONSTANT NPages     \* heap_memory_size / PAGESIZE

ASSUME HeapAssumption == NPages \in Nat

VARIABLES
    bits,      \* mmap: "free", "used" (PUSED) or "last" (PUSED | PLAST) for each page
    live       \* history: addresses handed out and not given back since InitHeap

heapVars == <<bits, live>>

\* An address is the number of its page; MMHeap is page 0.
Pages == 0 .. NPages - 1
NoAddr == -1

-----------------------------------------------------------------------------
(* Memory.c *)

Fits(s, k) == k > 0 /\ s + k <= NPages /\ \A p \in s .. s + k - 1 : bits[p] = "free"

\* The pages s .. s + k - 1 become a block.
Take(s, k) ==
    /\ bits' = [p \in Pages |-> IF p = s + k - 1 THEN "last"
                                ELSE IF p \in s .. s + k - 2 THEN "used" ELSE bits[p]]
    /\ live' = live \cup {s}

\* mutant: the used page where the count starts again is counted
GetMemory_CountsUsed(s, k) ==
    /\ s + k <= NPages
    /\ \A p \in s .. s + k - 2 : bits[p] = "free"
    /\ \A t \in Pages : t + k <= NPages /\ (\A p \in t .. t + k - 2 : bits[p] = "free") => t <= s
    /\ Take(s, k)

\* GetMemory and TryGetMemory look from the top down.
GetMemory(s, k) ==
    /\ Fits(s, k)
    /\ \A t \in Pages : Fits(t, k) => t <= s
    /\ Take(s, k)

\* GetSystemMemory looks from the bottom up and never at the last page.
GetSystemMemory(s, k) ==
    /\ Fits(s, k) /\ s + k < NPages
    /\ \A t \in Pages : Fits(t, k) /\ t + k < NPages => s <= t
    /\ Take(s, k)

\* e is where a walk from a ends: at the first page marked last.
WalkEnds(a, e) == a <= e /\ bits[e] = "last" /\ \A p \in a .. e - 1 : bits[p] # "last"

\* MemSize, in pages.
MemSize(a) == (CHOOSE e \in Pages : WalkEnds(a, e)) - a + 1

\* The pages FreeMemory(a) marks free.
Walk(a) == {p \in Pages : a <= p /\ \A q \in a .. p - 1 : bits[q] # "last"}

\* mutant: the page marked last stays used
FreeMemory_StopsEarly(S) ==
    /\ bits' = [p \in Pages |-> IF \E a \in S : p \in Walk(a) /\ (p = a \/ bits[p] # "last")
                                THEN "free" ELSE bits[p]]
    /\ live' = live \ S

\* FreeMemory and FreeMemorySafe, of each address in S.
FreeMemory(S) ==
    /\ bits' = [p \in Pages |-> IF \E a \in S : p \in Walk(a) THEN "free" ELSE bits[p]]
    /\ live' = live \ S

InitHeap ==
    /\ bits' = [p \in Pages |-> "free"]
    /\ live' = {}

-----------------------------------------------------------------------------
HeapInit == bits = [p \in Pages |-> "free"] /\ live = {}

\* Callers free what they were given.
HeapNext ==
    \/ \E s \in Pages, k \in 1 .. NPages : GetMemory(s, k) \/ GetSystemMemory(s, k)
    \/ \E S \in SUBSET live : FreeMemory(S)
    \/ InitHeap

HeapSpec == HeapInit /\ [][HeapNext]_heapVars

\* The pages a .. e are one block.
Block(a, e) == a <= e /\ bits[e] = "last" /\ \A p \in a .. e - 1 : bits[p] = "used"

\* Every page the map shows as used is in a block somebody can give back, so a
\* program that frees what it allocated can go on for ever: FreeMemory finds the
\* same end of a block as GetMemory and GetSystemMemory marked.
NoPageLost ==
    \A p \in Pages : bits[p] # "free" => \E a \in live, e \in Pages : Block(a, e) /\ p \in a .. e

\* The map and the addresses in use tell the blocks of the allocator, and what
\* GetMemory, GetSystemMemory and FreeMemory do to it is what Allocator promises.
Blocks == {[at |-> a, pages |-> MemSize(a)] : a \in live}
Abstract == INSTANCE Allocator WITH blocks <- Blocks
HeapImplementsAllocator == Abstract!AllocSpec
=============================================================================
