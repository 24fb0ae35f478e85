---------------------------- MODULE Heap_proofs ----------------------------
(***************************************************************************)
(* The page map of the BASIC heap loses no page and implements Allocator,  *)
(* for heaps of every size.                                                *)
(***************************************************************************)
EXTENDS Heap, TLAPS

-----------------------------------------------------------------------------
(* The inductive invariant: every address handed out starts a whole block,  *)
(* and the blocks lie apart.                                               *)

HeapType == bits \in [Pages -> {"free", "used", "last"}] /\ live \subseteq Pages
Whole == \A a \in live : \E e \in Pages : Block(a, e)
Apart == \A a, b \in live, e \in Pages : a < b /\ Block(a, e) => e < b
HeapInv == HeapType /\ Whole /\ Apart /\ NoPageLost

-----------------------------------------------------------------------------
(* What a walk over a map finds.                                           *)

\* In any map, a block has one end.
LEMMA EndUnique ==
    ASSUME NEW m, NEW a \in Int, NEW e \in Int, NEW f \in Int,
           a <= e, m[e] = "last", \A p \in a .. e - 1 : m[p] = "used",
           a <= f, m[f] = "last", \A p \in a .. f - 1 : m[p] # "last"
    PROVE  e = f
<1>1. CASE e < f
  <2>1. e \in a .. f - 1
    BY <1>1
  <2> QED
    BY <2>1
<1>2. CASE f < e
  <2>1. f \in a .. e - 1
    BY <1>2
  <2>2. m[f] = "used"
    BY <2>1
  <2> QED
    BY <2>2
<1> QED
  BY <1>1, <1>2

\* In any map, MemSize finds the end of a block.
LEMMA WalkFindsEnd ==
    ASSUME NEW m, NEW a \in Pages, NEW e \in Pages,
           a <= e, m[e] = "last", \A p \in a .. e - 1 : m[p] = "used"
    PROVE  (CHOOSE f \in Pages : a <= f /\ m[f] = "last" /\ \A p \in a .. f - 1 : m[p] # "last") = e
<1> DEFINE Ends(f) == a <= f /\ m[f] = "last" /\ \A p \in a .. f - 1 : m[p] # "last"
<1>1. Ends(e)
  OBVIOUS
<1>2. ASSUME NEW f \in Pages, Ends(f) PROVE f = e
  <2>1. a \in Int /\ e \in Int /\ f \in Int
    BY HeapAssumption DEF Pages
  <2> QED
    BY <1>2, <2>1, EndUnique
<1> HIDE DEF Ends
<1>3. (CHOOSE f \in Pages : Ends(f)) = e
  BY <1>1, <1>2
<1> QED
  BY <1>3 DEF Ends

\* FreeMemory frees the pages of the block.
LEMMA WalkIsBlock ==
    ASSUME NEW a \in Pages, NEW e \in Pages, Block(a, e)
    PROVE  Walk(a) = a .. e
<1>1. a \in Int /\ e \in Int /\ \A p \in Pages : p \in Int
  BY HeapAssumption DEF Pages
<1>2. ASSUME NEW p \in Walk(a) PROVE p \in a .. e
  <2>1. p \in Pages /\ a <= p /\ \A q \in a .. p - 1 : bits[q] # "last"
    BY <1>2 DEF Walk
  <2>2. CASE e < p
    BY <1>1, <2>1, <2>2 DEF Block
  <2> QED
    BY <1>1, <2>1, <2>2
<1>3. ASSUME NEW p \in a .. e PROVE p \in Walk(a)
  <2>1. p \in Pages /\ a <= p
    BY <1>1, <1>3, HeapAssumption DEF Pages
  <2>2. \A q \in a .. p - 1 : bits[q] = "used"
    BY <1>1, <1>3 DEF Block
  <2> QED
    BY <2>1, <2>2 DEF Walk
<1> QED
  BY <1>2, <1>3

\* No page of a block is free.
LEMMA BlockIsUsed ==
    ASSUME NEW a \in Pages, NEW e \in Pages, Block(a, e), NEW p \in a .. e
    PROVE  p \in Pages /\ bits[p] # "free"
BY HeapAssumption DEF Pages, Block

\* Two steps of the map that keep what it says of a block keep its length.
LEMMA SameBlock ==
    ASSUME NEW a \in Pages, NEW e \in Pages, Block(a, e),
           \A p \in a .. e : bits'[p] = bits[p]
    PROVE  Block(a, e)' /\ MemSize(a) = e - a + 1 /\ MemSize(a)' = e - a + 1
<1>1. a \in Int /\ e \in Int /\ a <= e
  BY HeapAssumption DEF Pages, Block
<1>2. Block(a, e)'
  <2>1. bits'[e] = "last"
    BY <1>1 DEF Block
  <2>2. \A p \in a .. e - 1 : bits'[p] = "used"
    BY <1>1 DEF Block
  <2> QED
    BY <1>1, <2>1, <2>2 DEF Block
<1>3. MemSize(a) = e - a + 1
  BY WalkFindsEnd, <1>1 DEF MemSize, WalkEnds, Block
<1>4. MemSize(a)' = e - a + 1
  BY WalkFindsEnd, <1>1, <1>2 DEF MemSize, WalkEnds, Block, Pages
<1> QED
  BY <1>2, <1>3, <1>4

-----------------------------------------------------------------------------
(* GetMemory and GetSystemMemory *)

LEMMA TakeKeeps ==
    ASSUME HeapInv, NEW s \in Pages, NEW k \in 1 .. NPages, Fits(s, k), Take(s, k),
           NEW a \in live, NEW e \in Pages, Block(a, e)
    PROVE  \A p \in a .. e : bits'[p] = bits[p] /\ p \notin s .. s + k - 1
<1> SUFFICES ASSUME NEW p \in a .. e
             PROVE  bits'[p] = bits[p] /\ p \notin s .. s + k - 1
  OBVIOUS
<1>1. a \in Pages
  BY DEF HeapInv, HeapType
<1>2. p \in Pages /\ bits[p] # "free"
  BY <1>1, BlockIsUsed
<1>3. p \notin s .. s + k - 1
  BY <1>2 DEF Fits
<1>4. s \in Int /\ k \in Int /\ p \in Int
  BY HeapAssumption, <1>2 DEF Pages
<1>5. p # s + k - 1 /\ p \notin s .. s + k - 2
  BY <1>3, <1>4, k >= 1
<1> QED
  BY <1>2, <1>3, <1>5 DEF Take

LEMMA TakeBlock ==
    ASSUME HeapInv, NEW s \in Pages, NEW k \in 1 .. NPages, Fits(s, k), Take(s, k)
    PROVE  /\ s + k - 1 \in Pages
           /\ Block(s, s + k - 1)'
           /\ MemSize(s)' = k
           /\ \A p \in Pages \ (s .. s + k - 1) : bits'[p] = bits[p]
<1>1. s \in Int /\ k \in Int /\ k >= 1 /\ s + k - 1 \in Pages
  BY HeapAssumption DEF Pages, Fits
<1>2. bits'[s + k - 1] = "last"
  BY <1>1 DEF Take
<1>3. \A p \in s .. s + k - 2 : bits'[p] = "used"
  BY <1>1, HeapAssumption DEF Take, Pages
<1>4. Block(s, s + k - 1)'
  BY <1>1, <1>2, <1>3 DEF Block
<1>5. MemSize(s)' = k
  <2> DEFINE e == s + k - 1
  <2>1. s <= e /\ e \in Pages /\ bits'[e] = "last" /\ \A p \in s .. e - 1 : bits'[p] = "used"
    BY <1>1, <1>2, <1>3
  <2>2. e - s + 1 = k
    BY <1>1
  <2> HIDE DEF e
  <2>3. MemSize(s)' = e - s + 1
    BY <2>1, WalkFindsEnd DEF MemSize, WalkEnds, Pages
  <2> QED
    BY <2>2, <2>3
<1>6. \A p \in Pages \ (s .. s + k - 1) : bits'[p] = bits[p]
  BY <1>1 DEF Take, Pages
<1> QED
  BY <1>1, <1>4, <1>5, <1>6

LEMMA TakeInv ==
    ASSUME HeapInv, NEW s \in Pages, NEW k \in 1 .. NPages, Fits(s, k), Take(s, k)
    PROVE  HeapInv'
<1> DEFINE e == s + k - 1
<1>1. e \in Pages /\ Block(s, e)' /\ \A p \in Pages \ (s .. e) : bits'[p] = bits[p]
  BY TakeBlock
<1>2. \A a \in live, f \in Pages : Block(a, f) =>
          Block(a, f)' /\ \A p \in a .. f : p \notin s .. e
  BY TakeKeeps, SameBlock DEF HeapInv, HeapType
<1>3. live' = live \cup {s} /\ live \subseteq Pages
  BY DEF Take, HeapInv, HeapType
<1>4. \A p \in Pages : p \in Int
  BY HeapAssumption DEF Pages
<1>5. s <= e /\ e \in Int
  BY <1>1, <1>4, k \in Int /\ k >= 1, HeapAssumption DEF Pages
<1> HIDE DEF e
<1>6. HeapType'
  BY <1>3 DEF HeapInv, HeapType, Take, Pages
<1>7. Whole'
  <2> SUFFICES ASSUME NEW a \in live' PROVE \E f \in Pages : Block(a, f)'
    BY DEF Whole, Pages
  <2>1. CASE a = s
    BY <1>1, <2>1
  <2>2. CASE a \in live
    BY <1>2, <2>2 DEF HeapInv, Whole
  <2> QED
    BY <1>3, <2>1, <2>2
<1>8. \A a \in live', f \in Pages : Block(a, f)' => (f = e /\ a = s) \/ (a \in live /\ Block(a, f))
  <2> SUFFICES ASSUME NEW a \in live', NEW f \in Pages, Block(a, f)'
               PROVE  (f = e /\ a = s) \/ (a \in live /\ Block(a, f))
    OBVIOUS
  <2>0. a \in Int /\ f \in Int
    BY <1>3, <1>4
  <2>1. CASE a = s
    <3>1. e = f
      BY <1>1, <1>5, <2>0, <2>1, EndUnique DEF Block
    <3> QED
      BY <2>1, <3>1
  <2>2. CASE a \in live
    <3>1. PICK g \in Pages : Block(a, g)
      BY <2>2 DEF HeapInv, Whole
    <3>2. Block(a, g)'
      BY <1>2, <2>2, <3>1
    <3>3. g = f
      BY <1>4, <2>0, <3>2, EndUnique DEF Block
    <3> QED
      BY <2>2, <3>1, <3>3
  <2> QED
    BY <1>3, <2>1, <2>2
<1>9. Apart'
  <2> SUFFICES ASSUME NEW a \in live', NEW b \in live', NEW f \in Pages, a < b, Block(a, f)'
               PROVE  f < b
    BY DEF Apart, Pages
  <2>0. a \in Int /\ b \in Int /\ f \in Int
    BY <1>3, <1>4
  <2>1. CASE a = s /\ f = e /\ b \in live
    <3>1. PICK g \in Pages : Block(b, g)
      BY <2>1 DEF HeapInv, Whole
    <3>2. b \in b .. g
      BY <1>4, <2>0, <3>1 DEF Block
    <3>3. b \notin s .. e
      BY <1>2, <2>1, <3>1, <3>2
    <3> QED
      BY <1>5, <2>0, <2>1, <3>3
  <2>2. CASE a \in live /\ Block(a, f) /\ b \in live
    BY <2>2 DEF HeapInv, Apart
  <2>3. CASE a \in live /\ Block(a, f) /\ b = s
    <3>1. s \in s .. e
      BY <1>4, <1>5
    <3>2. s \notin a .. f
      BY <1>2, <2>3, <3>1
    <3> QED
      BY <2>0, <2>3, <3>2
  <2> QED
    BY <1>3, <1>8, <2>0, <2>1, <2>2, <2>3
<1>10. NoPageLost'
  <2> SUFFICES ASSUME NEW p \in Pages, bits'[p] # "free"
               PROVE  \E a \in live', f \in Pages : Block(a, f)' /\ p \in a .. f
    BY DEF NoPageLost, Pages
  <2>1. CASE p \in s .. e
    BY <1>1, <1>3, <2>1
  <2>2. CASE p \notin s .. e
    <3>1. PICK a \in live, f \in Pages : Block(a, f) /\ p \in a .. f
      BY <1>1, <2>2 DEF HeapInv, NoPageLost
    <3> QED
      BY <1>2, <1>3, <3>1
  <2> QED
    BY <2>1, <2>2
<1> QED
  BY <1>6, <1>7, <1>9, <1>10 DEF HeapInv

-----------------------------------------------------------------------------
(* FreeMemory *)

LEMMA FreeKeeps ==
    ASSUME HeapInv, NEW S \in SUBSET live, FreeMemory(S),
           NEW a \in live \ S, NEW e \in Pages, Block(a, e)
    PROVE  \A p \in a .. e : bits'[p] = bits[p]
<1> SUFFICES ASSUME NEW p \in a .. e PROVE bits'[p] = bits[p]
  OBVIOUS
<1>1. live \subseteq Pages /\ \A q \in Pages : q \in Int
  BY HeapAssumption DEF HeapInv, HeapType, Pages
<1>2. p \in Pages
  BY <1>1, BlockIsUsed
<1>3. ASSUME NEW x \in S, p \in Walk(x) PROVE FALSE
  <2>1. PICK f \in Pages : Block(x, f)
    BY DEF HeapInv, Whole
  <2>2. p \in x .. f
    BY <1>1, <1>3, <2>1, WalkIsBlock
  <2>3. x # a /\ x \in Int /\ a \in Int /\ e \in Int /\ f \in Int
    BY <1>1
  <2>4. CASE x < a
    <3>1. f < a
      BY <2>1, <2>4 DEF HeapInv, Apart
    <3> QED
      BY <2>2, <2>3, <3>1
  <2>5. CASE a < x
    <3>1. e < x
      BY <2>5 DEF HeapInv, Apart
    <3> QED
      BY <2>2, <2>3, <3>1
  <2> QED
    BY <2>3, <2>4, <2>5
<1> QED
  BY <1>2, <1>3 DEF FreeMemory

\* No block appears when others are freed.
LEMMA FreeBlocks ==
    ASSUME HeapInv, NEW S \in SUBSET live, FreeMemory(S), NEW a \in live', NEW e \in Pages
    PROVE  Block(a, e)' <=> Block(a, e)
<1>1. a \in live \ S /\ live \subseteq Pages /\ \A q \in Pages : q \in Int
  BY HeapAssumption DEF FreeMemory, HeapInv, HeapType, Pages
<1>2. PICK g \in Pages : Block(a, g)
  BY <1>1 DEF HeapInv, Whole
<1>3. Block(a, g)'
  BY <1>1, <1>2, FreeKeeps, SameBlock
<1>4. Block(a, e) => e = g
  BY <1>1, <1>2, EndUnique DEF Block
<1>5. Block(a, e)' => e = g
  BY <1>1, <1>3, EndUnique DEF Block
<1> QED
  BY <1>2, <1>3, <1>4, <1>5

LEMMA FreeInv ==
    ASSUME HeapInv, NEW S \in SUBSET live, FreeMemory(S)
    PROVE  HeapInv'
<1>1. live' = live \ S /\ live \subseteq Pages
  BY DEF FreeMemory, HeapInv, HeapType
<1>2. HeapType'
  BY <1>1 DEF HeapInv, HeapType, FreeMemory, Pages
<1>3. Whole'
  BY <1>1, FreeBlocks DEF HeapInv, Whole, Pages
<1>4. Apart'
  <2> SUFFICES ASSUME NEW a \in live', NEW b \in live', NEW f \in Pages, a < b, Block(a, f)'
               PROVE  f < b
    BY DEF Apart, Pages
  <2>1. Block(a, f)
    BY FreeBlocks
  <2> QED
    BY <1>1, <2>1 DEF HeapInv, Apart
<1>5. NoPageLost'
  <2> SUFFICES ASSUME NEW p \in Pages, bits'[p] # "free"
               PROVE  \E a \in live', f \in Pages : Block(a, f)' /\ p \in a .. f
    BY DEF NoPageLost, Pages
  <2>1. bits[p] # "free" /\ \A x \in S : p \notin Walk(x)
    BY DEF FreeMemory
  <2>2. PICK a \in live, f \in Pages : Block(a, f) /\ p \in a .. f
    BY <2>1 DEF HeapInv, NoPageLost
  <2>3. a \notin S
    BY <1>1, <2>1, <2>2, WalkIsBlock
  <2> QED
    BY <1>1, <2>2, <2>3, FreeBlocks
<1> QED
  BY <1>2, <1>3, <1>4, <1>5 DEF HeapInv

-----------------------------------------------------------------------------
(* The specification *)

LEMMA InitInv == HeapInit => HeapInv
BY DEF HeapInit, HeapInv, HeapType, Whole, Apart, NoPageLost

LEMMA ResetInv == InitHeap => HeapInv'
BY DEF InitHeap, HeapInv, HeapType, Whole, Apart, NoPageLost, Pages

LEMMA StepInv == HeapInv /\ [HeapNext]_heapVars => HeapInv'
<1> SUFFICES ASSUME HeapInv, [HeapNext]_heapVars PROVE HeapInv'
  OBVIOUS
<1>1. ASSUME NEW s \in Pages, NEW k \in 1 .. NPages, GetMemory(s, k) \/ GetSystemMemory(s, k)
      PROVE  HeapInv'
  BY <1>1, TakeInv DEF GetMemory, GetSystemMemory
<1>2. ASSUME NEW S \in SUBSET live, FreeMemory(S) PROVE HeapInv'
  BY <1>2, FreeInv
<1>3. CASE InitHeap
  BY <1>3, ResetInv
<1>4. CASE UNCHANGED heapVars
  BY <1>4 DEF heapVars, HeapInv, HeapType, Whole, Apart, NoPageLost, Block, Pages
<1> QED
  BY <1>1, <1>2, <1>3, <1>4 DEF HeapNext

LEMMA HeapCorrect == HeapSpec => []HeapInv
BY InitInv, StepInv, PTL DEF HeapSpec

\* Every page that GetMemory, GetSystemMemory and FreeMemory leave marked as used
\* is in a block an owner can give back, for a heap of any size.
THEOREM HeapLosesNoPage == HeapSpec => []NoPageLost
<1>1. HeapInv => NoPageLost
  BY DEF HeapInv
<1> QED
  BY HeapCorrect, <1>1, PTL

-----------------------------------------------------------------------------
(* Refinement *)

LEMMA TakeIsGet ==
    ASSUME HeapInv, NEW s \in Pages, NEW k \in 1 .. NPages, Fits(s, k), Take(s, k)
    PROVE  Abstract!Get([at |-> s, pages |-> k])
<1> DEFINE b == [at |-> s, pages |-> k]
<1>1. s \in Int /\ k \in Int /\ k > 0 /\ NPages \in Int
  BY HeapAssumption DEF Pages
<1>2. b.at .. b.at + b.pages - 1 \subseteq 0 .. NPages - 1
  BY <1>1 DEF Fits, Pages
<1>3. \A a \in live : \E e \in Pages :
          Block(a, e) /\ MemSize(a) = e - a + 1 /\ MemSize(a)' = MemSize(a)
          /\ \A p \in a .. e : p \notin s .. s + k - 1
  <2> SUFFICES ASSUME NEW a \in live PROVE \E e \in Pages :
          Block(a, e) /\ MemSize(a) = e - a + 1 /\ MemSize(a)' = MemSize(a)
          /\ \A p \in a .. e : p \notin s .. s + k - 1
    OBVIOUS
  <2>1. PICK e \in Pages : Block(a, e)
    BY DEF HeapInv, Whole
  <2>2. \A p \in a .. e : bits'[p] = bits[p] /\ p \notin s .. s + k - 1
    BY <2>1, TakeKeeps
  <2>3. MemSize(a) = e - a + 1 /\ MemSize(a)' = e - a + 1
    BY <2>1, <2>2, SameBlock DEF HeapInv, HeapType
  <2> QED
    BY <2>1, <2>2, <2>3
<1>4. ASSUME NEW c \in Blocks
      PROVE  (b.at .. b.at + b.pages - 1) \cap (c.at .. c.at + c.pages - 1) = {}
  <2>1. PICK a \in live : c = [at |-> a, pages |-> MemSize(a)]
    BY <1>4 DEF Blocks
  <2>2. PICK e \in Pages : MemSize(a) = e - a + 1 /\ \A p \in a .. e : p \notin s .. s + k - 1
    BY <1>3
  <2>3. a \in Int /\ e \in Int
    BY HeapAssumption DEF HeapInv, HeapType, Pages
  <2>4. c.at .. c.at + c.pages - 1 = a .. e
    BY <2>1, <2>2, <2>3
  <2> QED
    BY <2>2, <2>4
<1>5. Blocks' = Blocks \cup {b}
  <2>1. live' = live \cup {s} /\ MemSize(s)' = k
    BY TakeBlock DEF Take
  <2>2. \A a \in live : MemSize(a)' = MemSize(a)
    BY <1>3
  <2>3. Blocks' = {[at |-> a, pages |-> MemSize(a)'] : a \in live'}
    BY DEF Blocks
  <2> QED
    BY <2>1, <2>2, <2>3 DEF Blocks
<1> QED
  BY <1>1, <1>2, <1>4, <1>5 DEF Abstract!Get, Abstract!Extent

LEMMA FreeIsRelease ==
    ASSUME HeapInv, NEW S \in SUBSET live, FreeMemory(S)
    PROVE  \E R \in SUBSET Blocks : Blocks' = Blocks \ R
<1> DEFINE R == {[at |-> a, pages |-> MemSize(a)] : a \in S}
<1>1. live' = live \ S
  BY DEF FreeMemory
<1>2. \A a \in live \ S : MemSize(a)' = MemSize(a)
  <2> SUFFICES ASSUME NEW a \in live \ S PROVE MemSize(a)' = MemSize(a)
    OBVIOUS
  <2>1. PICK e \in Pages : Block(a, e)
    BY DEF HeapInv, Whole
  <2> QED
    BY <2>1, FreeKeeps, SameBlock DEF HeapInv, HeapType
<1>3. Blocks' = {[at |-> a, pages |-> MemSize(a)'] : a \in live'}
  BY DEF Blocks
<1>4. Blocks' = {[at |-> a, pages |-> MemSize(a)] : a \in live \ S}
  BY <1>1, <1>2, <1>3
<1>5. R \in SUBSET Blocks
  BY DEF Blocks
<1>6. Blocks' = Blocks \ R
  <2>1. \A c : c \in Blocks \ R <=> \E a \in live \ S : c = [at |-> a, pages |-> MemSize(a)]
    BY DEF Blocks
  <2> QED
    BY <1>4, <2>1
<1> QED
  BY <1>5, <1>6

LEMMA StepRefines ==
    HeapInv /\ [HeapNext]_heapVars => [Abstract!AllocNext]_Blocks
<1> SUFFICES ASSUME HeapInv, [HeapNext]_heapVars PROVE Abstract!AllocNext \/ Blocks' = Blocks
  OBVIOUS
<1>1. ASSUME NEW s \in Pages, NEW k \in 1 .. NPages, GetMemory(s, k) \/ GetSystemMemory(s, k)
      PROVE  Abstract!AllocNext
  <2>1. Abstract!Get([at |-> s, pages |-> k])
    BY <1>1, TakeIsGet DEF GetMemory, GetSystemMemory
  <2> QED
    BY <2>1 DEF Abstract!AllocNext, Pages
<1>2. ASSUME NEW S \in SUBSET live, FreeMemory(S) PROVE Abstract!AllocNext
  BY <1>2, FreeIsRelease DEF Abstract!AllocNext, Abstract!Release
<1>3. CASE InitHeap
  <2>1. Blocks' = {} /\ Blocks \in SUBSET Blocks
    BY <1>3 DEF InitHeap, Blocks
  <2> QED
    BY <2>1 DEF Abstract!AllocNext, Abstract!Release
<1>4. CASE UNCHANGED heapVars
  BY <1>4 DEF heapVars, Blocks, MemSize, WalkEnds, Pages
<1> QED
  BY <1>1, <1>2, <1>3, <1>4 DEF HeapNext

\* The heap hands out memory that overlaps nothing in use, and no call changes a
\* block that its owner did not free: the map of two bits a page, with searches
\* from both ends, implements the allocator, for a heap of any size.
THEOREM HeapRefines == HeapSpec => HeapImplementsAllocator
<1>1. HeapInit => Abstract!AllocInit
  BY DEF HeapInit, Abstract!AllocInit, Blocks
<1> QED
  BY HeapCorrect, <1>1, StepRefines, PTL
     DEF HeapSpec, HeapImplementsAllocator, Abstract!AllocSpec
=============================================================================
