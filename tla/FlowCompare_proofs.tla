------------------------- MODULE FlowCompare_proofs -------------------------
(***************************************************************************)
(* The loop stacks of the interpreter, for every program: what NEXT, LOOP, *)
(* EXIT and CONTINUE follow is live however the program jumps.             *)
(***************************************************************************)
EXTENDS FlowCompare, TLAPS, SequenceTheorems, WellFoundedInduction

ForLoop == [var : Vars \X Nat, level : Nat, forptr : Nat, nextptr : Nat, to : Int, step : Int]
DoLoop == [test : Tests, c : Condition, doptr : Nat, loopptr : Nat, level : Nat]

\* The conditions of LoopsLive on a FOR stack, when the variables in table
\* exist and the program runs at the given level.  A loop's variable is a
\* global or one of the loop's own level: it goes no earlier than the loop.
ForRight(stack, table, level) ==
    /\ stack \in Seq(ForLoop)
    /\ Len(stack) <= MAXFORLOOPS
    /\ \A i \in DOMAIN stack :
         /\ stack[i].var \in table
         /\ stack[i].var[2] = 0 \/ stack[i].var[2] = stack[i].level
         /\ stack[i].level <= level
         /\ prog[stack[i].nextptr].op = "next"
    /\ \A i, k \in DOMAIN stack :
         i < k => /\ stack[i].level <= stack[k].level
                  /\ stack[i].level = stack[k].level => stack[i].var # stack[k].var

DoRight(stack, level) ==
    /\ stack \in Seq(DoLoop)
    /\ Len(stack) <= MAXDOLOOPS
    /\ \A i \in DOMAIN stack :
         /\ stack[i].level <= level
         /\ prog[stack[i].loopptr].op = "loop"
    /\ \A i, k \in DOMAIN stack : i < k => stack[i].doptr # stack[k].doptr

FlowInv ==
    /\ prog \in Programs
    /\ gosubstack \in Seq(Nat)
    /\ \A v \in Vars : <<v, 0>> \in DOMAIN g_vartbl
    /\ ForRight(g_forstack, DOMAIN g_vartbl, g_LocalIndex)
    /\ DoRight(g_dostack, g_LocalIndex)

\* t is s with entries left out.
Part(t, s) ==
    /\ Len(t) <= Len(s)
    /\ \E f \in [DOMAIN t -> DOMAIN s] :
         /\ \A i \in DOMAIN t : t[i] = s[f[i]]
         /\ \A i, k \in DOMAIN t : i < k => f[i] < f[k]

-----------------------------------------------------------------------------
(***************************************************************************)
(* Facts about the operators.                                              *)
(***************************************************************************)

\* A non-empty set of line or stack numbers has a first element.
LEMMA FirstIsLeast ==
    ASSUME NEW S, S \subseteq Nat, S # {}
    PROVE  First(S) \in S /\ \A r \in S : First(S) <= r
<1> DEFINE R == OpToRel(<, Nat)
<1>1. IsWellFoundedOn(R, Nat)
  BY NatLessThanWellFounded
<1>2. \E q \in S : \A r \in S : ~ (<<r, q>> \in R)
  <2> HIDE DEF R
  <2> QED BY <1>1, WFMin
<1>3. PICK q \in S : \A r \in S : ~ (<<r, q>> \in R)
  BY <1>2
<1>4. ASSUME NEW r \in S
      PROVE  q <= r
  <2>1. q \in Nat /\ r \in Nat /\ <<r, q>> \in Nat \X Nat
    OBVIOUS
  <2>2. ~ (r < q)
    BY <1>3, <2>1 DEF OpToRel
  <2> QED BY <2>1, <2>2
<1> QED BY <1>4 DEF First

\* A non-empty set of stack indices has a last element.
LEMMA FinalIsGreatest ==
    ASSUME NEW n \in Nat, NEW S, S \subseteq 1 .. n, S # {}
    PROVE  Final(S) \in S
<1> DEFINE T == {n - q : q \in S}
<1>1. T \subseteq Nat /\ T # {}
  <2>1. T \subseteq Nat
    OBVIOUS
  <2>2. PICK q : q \in S
    OBVIOUS
  <2>3. n - q \in T
    BY <2>2
  <2> QED BY <2>1, <2>3
<1>2. First(T) \in T /\ \A t \in T : First(T) <= t
  <2> HIDE DEF T
  <2> QED BY <1>1, FirstIsLeast
<1>3. PICK q \in S : First(T) = n - q
  BY <1>2
<1>4. \A r \in S : n - q <= n - r
  BY <1>2, <1>3
<1>5. \A r \in S : r <= q
  <2> SUFFICES ASSUME NEW r \in S PROVE r <= q
    OBVIOUS
  <2>1. r \in Int /\ q \in Int /\ n - q <= n - r
    BY <1>4
  <2> QED BY <2>1
<1> QED BY <1>5 DEF Final

\* Leaving out the end of a stack, or one entry.
LEMMA PrefixIsPart ==
    ASSUME NEW E, NEW s \in Seq(E), NEW n \in 0 .. Len(s)
    PROVE  /\ SubSeq(s, 1, n) \in Seq(E) /\ Len(SubSeq(s, 1, n)) = n
           /\ \A i \in 1 .. n : SubSeq(s, 1, n)[i] = s[i]
           /\ Part(SubSeq(s, 1, n), s)
<1> DEFINE t == SubSeq(s, 1, n)
<1>1. Len(s) \in Nat /\ DOMAIN s = 1 .. Len(s) /\ n \in Nat
  BY LenProperties
<1>2. \A i \in 1 .. n : s[i] \in E
  BY <1>1, ElementOfSeq
<1>3. /\ t \in Seq(E) /\ Len(t) = IF 1 <= n THEN n - 1 + 1 ELSE 0
      /\ \A i \in 1 .. n - 1 + 1 : t[i] = s[1 + i - 1]
  BY <1>1, <1>2, SubSeqProperties
<1>4. (IF 1 <= n THEN n - 1 + 1 ELSE 0) = n /\ n - 1 + 1 = n
  BY <1>1
<1>5. \A i \in Int : 1 + i - 1 = i
  OBVIOUS
<1> HIDE DEF t
<1>6. Len(t) = n /\ \A i \in 1 .. n : t[i] = s[i]
  BY <1>3, <1>4, <1>5
<1>7. DOMAIN t = 1 .. n
  BY <1>3, <1>6, LenProperties
<1> DEFINE f == [i \in DOMAIN t |-> i]
<1>8. f \in [DOMAIN t -> DOMAIN s] /\ \A i \in DOMAIN t : f[i] = i
  BY <1>1, <1>7
<1> HIDE DEF f
<1>9. Part(t, s)
  BY <1>1, <1>6, <1>7, <1>8 DEF Part
<1> QED BY <1>3, <1>6, <1>9 DEF t

LEMMA RemoveIsPart ==
    ASSUME NEW E, NEW s \in Seq(E), NEW j \in 1 .. Len(s)
    PROVE  /\ RemoveAt(s, j) \in Seq(E)
           /\ Part(RemoveAt(s, j), s)
           /\ \A i \in DOMAIN RemoveAt(s, j) :
                \E k \in DOMAIN s : k # j /\ RemoveAt(s, j)[i] = s[k]
<1> DEFINE a == SubSeq(s, 1, j - 1)
           b == SubSeq(s, j + 1, Len(s))
           t == RemoveAt(s, j)
<1>1. Len(s) \in Nat /\ DOMAIN s = 1 .. Len(s) /\ j \in Nat /\ j <= Len(s) /\ 1 <= j
  BY LenProperties
<1>2. a \in Seq(E) /\ Len(a) = j - 1 /\ \A i \in 1 .. j - 1 : a[i] = s[i]
  <2>1. j - 1 \in 0 .. Len(s)
    BY <1>1
  <2> QED BY <2>1, PrefixIsPart
<1>3. b \in Seq(E) /\ Len(b) = Len(s) - j /\ \A i \in 1 .. Len(s) - j : b[i] = s[i + j]
  <2> DEFINE h == j + 1
             n == Len(s)
  <2>1. \A i \in h .. n : s[i] \in E
    BY <1>1, ElementOfSeq
  <2>2. h \in Int /\ n \in Int /\ h <= n + 1 /\ 1 <= h
    BY <1>1
  <2>3. n - h + 1 = Len(s) - j /\ \A i \in Int : h + i - 1 = i + j
    BY <1>1
  <2>4. b = SubSeq(s, h, n)
    OBVIOUS
  <2> HIDE DEF b, h, n
  <2>5. /\ b \in Seq(E) /\ Len(b) = (IF h <= n THEN n - h + 1 ELSE 0)
        /\ \A i \in 1 .. n - h + 1 : b[i] = s[h + i - 1]
    BY <2>1, <2>2, <2>4, SubSeqProperties
  <2>6. (IF h <= n THEN n - h + 1 ELSE 0) = n - h + 1
    BY <2>2
  <2>7. Len(b) = n - h + 1
    BY <2>5, <2>6
  <2>8. ASSUME NEW i \in 1 .. n - h + 1
        PROVE  b[i] = s[i + j]
    <3>1. b[i] = s[h + i - 1] /\ i \in Int
      BY <2>5
    <3>2. h + i - 1 = i + j
      BY <2>3, <3>1
    <3> QED BY <3>1, <3>2
  <2>9. 1 .. Len(s) - j = 1 .. n - h + 1
    BY <2>3
  <2> QED BY <2>3, <2>5, <2>7, <2>8, <2>9
<1>4. t = a \o b
  BY DEF RemoveAt
<1> HIDE DEF a, b, t
<1>5. /\ t \in Seq(E) /\ Len(t) = Len(a) + Len(b)
      /\ \A i \in 1 .. Len(a) + Len(b) : t[i] = IF i <= Len(a) THEN a[i] ELSE b[i - Len(a)]
  BY <1>2, <1>3, <1>4, ConcatProperties
<1>6. Len(a) + Len(b) = Len(s) - 1 /\ DOMAIN t = 1 .. Len(s) - 1
  <2>1. Len(a) + Len(b) = Len(s) - 1
    BY <1>1, <1>2, <1>3
  <2> QED BY <1>5, <2>1, LenProperties
<1> DEFINE f == [i \in DOMAIN t |-> IF i < j THEN i ELSE i + 1]
<1>7. ASSUME NEW i \in DOMAIN t
      PROVE  f[i] \in DOMAIN s /\ f[i] # j /\ t[i] = s[f[i]]
  <2>1. i \in 1 .. Len(a) + Len(b) /\ i \in Nat
    BY <1>6
  <2>2. CASE i < j
    <3>1. i \in 1 .. j - 1 /\ i <= Len(a) /\ i \in 1 .. Len(s)
      BY <1>1, <1>2, <1>6, <2>2
    <3>2. t[i] = a[i] /\ a[i] = s[i]
      BY <1>2, <1>5, <2>1, <3>1
    <3> QED BY <1>1, <2>2, <3>1, <3>2
  <2>3. CASE ~ (i < j)
    <3>1. /\ ~ (i <= Len(a)) /\ i - Len(a) \in 1 .. Len(s) - j
          /\ (i - Len(a)) + j = i + 1 /\ i + 1 \in 1 .. Len(s) /\ i + 1 # j
      BY <1>1, <1>2, <1>6, <2>1, <2>3
    <3>2. t[i] = b[i - Len(a)]
      BY <1>5, <2>1, <3>1
    <3>3. b[i - Len(a)] = s[i + 1]
      BY <1>3, <3>1
    <3> QED BY <1>1, <2>3, <3>1, <3>2, <3>3
  <2> QED BY <2>2, <2>3
<1>8. \A i, k \in DOMAIN t : i < k => f[i] < f[k]
  <2>1. \A i, k \in DOMAIN t :
          i < k => (IF i < j THEN i ELSE i + 1) < (IF k < j THEN k ELSE k + 1)
    BY <1>1, <1>6
  <2> QED BY <2>1
<1>9. f \in [DOMAIN t -> DOMAIN s]
  BY <1>7
<1> HIDE DEF f
<1>10. Len(t) <= Len(s)
  BY <1>1, <1>5, <1>6
<1>11. Part(t, s)
  BY <1>7, <1>8, <1>9, <1>10 DEF Part
<1>12. \A i \in DOMAIN t : \E k \in DOMAIN s : k # j /\ t[i] = s[k]
  BY <1>7
<1> QED BY <1>5, <1>11, <1>12 DEF t

LEMMA PartOfSelf ==
    ASSUME NEW E, NEW s \in Seq(E)
    PROVE  Part(s, s)
<1>1. Len(s) \in Nat
  BY LenProperties
<1> DEFINE f == [i \in DOMAIN s |-> i]
<1>2. f \in [DOMAIN s -> DOMAIN s] /\ \A i \in DOMAIN s : f[i] = i
  OBVIOUS
<1> HIDE DEF f
<1> QED BY <1>1, <1>2 DEF Part

\* Front, and Without: the first entry of S goes.
LEMMA FrontIsPart ==
    ASSUME NEW E, NEW s \in Seq(E), s # <<>>
    PROVE  /\ Front(s) \in Seq(E) /\ Part(Front(s), s)
           /\ Len(s) \in Nat \ {0} /\ Len(Front(s)) = Len(s) - 1
<1>1. Len(s) \in Nat /\ Len(s) # 0
  BY LenProperties, EmptySeq
<1>2. Len(s) - 1 \in 0 .. Len(s)
  BY <1>1
<1> QED BY <1>1, <1>2, PrefixIsPart DEF Front

LEMMA WithoutIsPart ==
    ASSUME NEW E, NEW s \in Seq(E), NEW S, S \subseteq DOMAIN s
    PROVE  /\ Without(s, S) \in Seq(E) /\ Part(Without(s, S), s)
           /\ \A i \in DOMAIN Without(s, S) :
                \E k \in DOMAIN s : (S = {} \/ k # First(S)) /\ Without(s, S)[i] = s[k]
           /\ S # {} => First(S) \in S
<1>1. CASE S = {}
  BY <1>1, PartOfSelf DEF Without
<1>2. CASE S # {}
  <2>1. DOMAIN s = 1 .. Len(s) /\ Len(s) \in Nat
    BY LenProperties
  <2>2. First(S) \in S
    BY <1>2, <2>1, FirstIsLeast
  <2>3. First(S) \in 1 .. Len(s)
    BY <2>1, <2>2
  <2>4. Without(s, S) = RemoveAt(s, First(S))
    BY <1>2 DEF Without
  <2> QED BY <1>2, <2>2, <2>3, <2>4, RemoveIsPart
<1> QED BY <1>1, <1>2

\* What ClearVars keeps of a stack lies below the level it clears.
LEMMA TrimIsPart ==
    ASSUME NEW E, NEW s \in Seq(E), NEW level \in Nat, \A i \in DOMAIN s : s[i].level \in Nat
    PROVE  /\ Trim(s, level) \in Seq(E) /\ Part(Trim(s, level), s)
           /\ \A i \in DOMAIN Trim(s, level) : Trim(s, level)[i].level < level
<1> DEFINE deep == {i \in DOMAIN s : s[i].level >= level}
<1>1. DOMAIN s = 1 .. Len(s) /\ Len(s) \in Nat
  BY LenProperties
<1>2. \A i \in DOMAIN s : i \notin deep => s[i].level < level
  <2> SUFFICES ASSUME NEW i \in DOMAIN s, i \notin deep PROVE s[i].level < level
    OBVIOUS
  <2>1. ~ (s[i].level >= level) /\ s[i].level \in Nat
    OBVIOUS
  <2> QED BY <2>1
<1>3. CASE deep = {}
  <2>1. Trim(s, level) = s
    BY <1>3 DEF Trim
  <2> HIDE DEF deep
  <2> QED BY <1>2, <1>3, <2>1, PartOfSelf
<1>4. CASE deep # {}
  <2> DEFINE n == First(deep) - 1
             t == SubSeq(s, 1, n)
  <2>1. deep \subseteq Nat
    BY <1>1
  <2>2. Trim(s, level) = t
    BY <1>4 DEF Trim
  <2>3. deep \subseteq DOMAIN s
    OBVIOUS
  <2> HIDE DEF deep
  <2>4. First(deep) \in deep /\ \A r \in deep : First(deep) <= r
    BY <1>4, <2>1, FirstIsLeast
  <2>5. First(deep) \in 1 .. Len(s)
    BY <1>1, <2>3, <2>4
  <2>6. n \in 0 .. Len(s) /\ n \in Nat /\ n < First(deep)
    BY <1>1, <2>5
  <2>7. \A i \in 1 .. n : i \in DOMAIN s /\ i \notin deep
    <3> SUFFICES ASSUME NEW i \in 1 .. n PROVE i \in DOMAIN s /\ i \notin deep
      OBVIOUS
    <3>1. i \in Nat /\ First(deep) \in Nat /\ i < First(deep)
      BY <2>5, <2>6
    <3>2. i \notin deep
      BY <2>4, <3>1
    <3>3. i \in 1 .. Len(s)
      BY <1>1, <2>6
    <3> QED BY <1>1, <3>2, <3>3
  <2> HIDE DEF n
  <2>8. t \in Seq(E) /\ Len(t) = n /\ Part(t, s) /\ \A i \in 1 .. n : t[i] = s[i]
    BY <2>6, PrefixIsPart
  <2> HIDE DEF t
  <2>9. DOMAIN t = 1 .. n
    BY <2>8, LenProperties
  <2>10. \A i \in DOMAIN t : t[i].level < level
    BY <1>2, <2>7, <2>8, <2>9
  <2> QED BY <2>2, <2>8, <2>10
<1> QED BY <1>3, <1>4

-----------------------------------------------------------------------------
(***************************************************************************)
(* Leaving out entries, and pushing one, keeps a stack right.              *)
(***************************************************************************)
LEMMA ForPart ==
    ASSUME NEW stack, NEW table, NEW level \in Nat, ForRight(stack, table, level),
           NEW t \in Seq(ForLoop), Part(t, stack), NEW table2, NEW level2 \in Nat,
           \A i \in DOMAIN t : t[i].level <= level2 /\ t[i].var \in table2
    PROVE  ForRight(t, table2, level2)
<1>1. PICK f \in [DOMAIN t -> DOMAIN stack] :
        /\ \A i \in DOMAIN t : t[i] = stack[f[i]]
        /\ \A i, k \in DOMAIN t : i < k => f[i] < f[k]
  BY DEF Part
<1>2. Len(t) <= MAXFORLOOPS
  <2>1. Len(t) \in Nat /\ Len(stack) \in Nat
    BY LenProperties DEF ForRight
  <2>2. Len(t) <= Len(stack) /\ Len(stack) <= MAXFORLOOPS /\ MAXFORLOOPS \in Nat
    BY LimitsAssumption DEF Part, ForRight
  <2> QED BY <2>1, <2>2
<1>3. \A i \in DOMAIN t :
        /\ t[i].var[2] = 0 \/ t[i].var[2] = t[i].level
        /\ prog[t[i].nextptr].op = "next"
  BY <1>1 DEF ForRight
<1>4. ASSUME NEW i \in DOMAIN t, NEW k \in DOMAIN t, i < k
      PROVE  /\ t[i].level <= t[k].level
             /\ t[i].level = t[k].level => t[i].var # t[k].var
  <2>1. f[i] \in DOMAIN stack /\ f[k] \in DOMAIN stack /\ f[i] < f[k]
    BY <1>1, <1>4
  <2>2. t[i] = stack[f[i]] /\ t[k] = stack[f[k]]
    BY <1>1
  <2> QED BY <2>1, <2>2 DEF ForRight
<1> QED BY <1>2, <1>3, <1>4 DEF ForRight

LEMMA DoPart ==
    ASSUME NEW stack, NEW level \in Nat, DoRight(stack, level),
           NEW t \in Seq(DoLoop), Part(t, stack), NEW level2 \in Nat,
           \A i \in DOMAIN t : t[i].level <= level2
    PROVE  DoRight(t, level2)
<1>1. PICK f \in [DOMAIN t -> DOMAIN stack] :
        /\ \A i \in DOMAIN t : t[i] = stack[f[i]]
        /\ \A i, k \in DOMAIN t : i < k => f[i] < f[k]
  BY DEF Part
<1>2. Len(t) <= MAXDOLOOPS
  <2>1. Len(t) \in Nat /\ Len(stack) \in Nat
    BY LenProperties DEF DoRight
  <2>2. Len(t) <= Len(stack) /\ Len(stack) <= MAXDOLOOPS /\ MAXDOLOOPS \in Nat
    BY LimitsAssumption DEF Part, DoRight
  <2> QED BY <2>1, <2>2
<1>3. \A i \in DOMAIN t : prog[t[i].loopptr].op = "loop"
  BY <1>1 DEF DoRight
<1>4. ASSUME NEW i \in DOMAIN t, NEW k \in DOMAIN t, i < k
      PROVE  t[i].doptr # t[k].doptr
  <2>1. f[i] \in DOMAIN stack /\ f[k] \in DOMAIN stack /\ f[i] < f[k]
    BY <1>1, <1>4
  <2>2. t[i] = stack[f[i]] /\ t[k] = stack[f[k]]
    BY <1>1
  <2> QED BY <2>1, <2>2 DEF DoRight
<1> QED BY <1>2, <1>3, <1>4 DEF DoRight

\* The entries of a part are entries of the stack.
LEMMA PartEntries ==
    ASSUME NEW t, NEW stack, Part(t, stack)
    PROVE  \A i \in DOMAIN t : \E k \in DOMAIN stack : t[i] = stack[k]
BY DEF Part

LEMMA ForPush ==
    ASSUME NEW stack, NEW table, NEW level \in Nat, ForRight(stack, table, level),
           Len(stack) < MAXFORLOOPS, NEW e \in ForLoop, e.level = level,
           e.var \in table, e.var[2] = 0 \/ e.var[2] = level,
           prog[e.nextptr].op = "next",
           \A i \in DOMAIN stack : ~ (stack[i].var = e.var /\ stack[i].level = level)
    PROVE  ForRight(Append(stack, e), table, level)
<1> DEFINE t == Append(stack, e)
           n == Len(stack)
<1>1. stack \in Seq(ForLoop) /\ n \in Nat /\ DOMAIN stack = 1 .. n
  BY LenProperties DEF ForRight
<1>2. /\ t \in Seq(ForLoop) /\ Len(t) = n + 1
      /\ \A i \in 1 .. n : t[i] = stack[i]
      /\ t[n + 1] = e
  BY <1>1, AppendProperties
<1> HIDE DEF t
<1>3. DOMAIN t = 1 .. n + 1
  BY <1>2, LenProperties
<1>4. Len(t) <= MAXFORLOOPS
  <2>1. n < MAXFORLOOPS /\ MAXFORLOOPS \in Nat
    BY LimitsAssumption
  <2> HIDE DEF n
  <2> QED BY <1>1, <1>2, <2>1
<1>5. \A i \in DOMAIN t : i \in DOMAIN stack \/ i = n + 1
  BY <1>1, <1>3
<1>6. \A i \in DOMAIN t : i \in DOMAIN stack => t[i] = stack[i]
  BY <1>1, <1>2
<1> HIDE DEF n
<1>7. ASSUME NEW i \in DOMAIN t
      PROVE  /\ t[i].var \in table
             /\ t[i].var[2] = 0 \/ t[i].var[2] = t[i].level
             /\ t[i].level <= level
             /\ prog[t[i].nextptr].op = "next"
  <2>1. CASE i \in DOMAIN stack
    BY <1>6, <2>1 DEF ForRight
  <2>2. CASE i = n + 1
    BY <1>2, <2>2
  <2> QED BY <1>5, <2>1, <2>2
<1>8. ASSUME NEW i \in DOMAIN t, NEW k \in DOMAIN t, i < k
      PROVE  /\ t[i].level <= t[k].level
             /\ t[i].level = t[k].level => t[i].var # t[k].var
  <2>1. i \in DOMAIN stack
    BY <1>1, <1>3, <1>8
  <2>2. CASE k \in DOMAIN stack
    BY <1>6, <1>8, <2>1, <2>2 DEF ForRight
  <2>3. CASE k = n + 1
    <3>1. t[k] = e /\ t[i] = stack[i]
      BY <1>2, <1>6, <2>1, <2>3
    <3>2. stack[i].level <= level
      BY <2>1 DEF ForRight
    <3> QED BY <2>1, <3>1, <3>2
  <2> QED BY <1>5, <2>2, <2>3
<1>9. ForRight(t, table, level)
  BY <1>2, <1>4, <1>7, <1>8 DEF ForRight
<1> QED BY <1>9 DEF t

LEMMA DoPush ==
    ASSUME NEW stack, NEW level \in Nat, DoRight(stack, level),
           Len(stack) < MAXDOLOOPS, NEW e \in DoLoop, e.level = level,
           prog[e.loopptr].op = "loop",
           \A i \in DOMAIN stack : stack[i].doptr # e.doptr
    PROVE  DoRight(Append(stack, e), level)
<1> DEFINE t == Append(stack, e)
           n == Len(stack)
<1>1. stack \in Seq(DoLoop) /\ n \in Nat /\ DOMAIN stack = 1 .. n
  BY LenProperties DEF DoRight
<1>2. /\ t \in Seq(DoLoop) /\ Len(t) = n + 1
      /\ \A i \in 1 .. n : t[i] = stack[i]
      /\ t[n + 1] = e
  BY <1>1, AppendProperties
<1> HIDE DEF t
<1>3. DOMAIN t = 1 .. n + 1
  BY <1>2, LenProperties
<1>4. Len(t) <= MAXDOLOOPS
  <2>1. n < MAXDOLOOPS /\ MAXDOLOOPS \in Nat
    BY LimitsAssumption
  <2> HIDE DEF n
  <2> QED BY <1>1, <1>2, <2>1
<1>5. \A i \in DOMAIN t : i \in DOMAIN stack \/ i = n + 1
  BY <1>1, <1>3
<1>6. \A i \in DOMAIN t : i \in DOMAIN stack => t[i] = stack[i]
  BY <1>1, <1>2
<1> HIDE DEF n
<1>7. ASSUME NEW i \in DOMAIN t
      PROVE  t[i].level <= level /\ prog[t[i].loopptr].op = "loop"
  <2>1. CASE i \in DOMAIN stack
    BY <1>6, <2>1 DEF DoRight
  <2>2. CASE i = n + 1
    BY <1>2, <2>2
  <2> QED BY <1>5, <2>1, <2>2
<1>8. ASSUME NEW i \in DOMAIN t, NEW k \in DOMAIN t, i < k
      PROVE  t[i].doptr # t[k].doptr
  <2>1. i \in DOMAIN stack
    BY <1>1, <1>3, <1>8
  <2>2. CASE k \in DOMAIN stack
    BY <1>6, <1>8, <2>1, <2>2 DEF DoRight
  <2>3. CASE k = n + 1
    BY <1>2, <1>6, <2>1, <2>3
  <2> QED BY <1>5, <2>2, <2>3
<1>9. DoRight(t, level)
  BY <1>2, <1>4, <1>7, <1>8 DEF DoRight
<1> QED BY <1>9 DEF t

-----------------------------------------------------------------------------
(***************************************************************************)
(* The statements.                                                         *)
(***************************************************************************)
LEMMA StepRight ==
    ASSUME FlowInv, prog' = prog, gosubstack' \in Seq(Nat),
           \A v \in Vars : <<v, 0>> \in DOMAIN g_vartbl',
           ForRight(g_forstack', DOMAIN g_vartbl', Len(gosubstack')),
           DoRight(g_dostack', Len(gosubstack'))
    PROVE  FlowInv'
BY DEF FlowInv, ForRight, DoRight, g_LocalIndex

\* Statements that leave the stacks alone; they may make a variable.
LEMMA SameLoops ==
    ASSUME FlowInv, UNCHANGED <<prog, g_forstack, g_dostack, gosubstack>>,
           DOMAIN g_vartbl \subseteq DOMAIN g_vartbl'
    PROVE  FlowInv'
<1>1. ForRight(g_forstack, DOMAIN g_vartbl', Len(gosubstack))
  BY DEF FlowInv, ForRight, g_LocalIndex
<1>2. \A v \in Vars : <<v, 0>> \in DOMAIN g_vartbl'
  BY DEF FlowInv
<1> QED BY <1>1, <1>2, StepRight DEF FlowInv, g_LocalIndex

LEMMA ErrorRight == ASSUME FlowInv, prog' = prog, error PROVE FlowInv'
BY SameLoops DEF error, SameData, SameStacks

\* What holds when a statement is executed.
LEMMA Facts ==
    ASSUME FlowInv
    PROVE  /\ g_LocalIndex \in Nat /\ Len(prog) \in Nat /\ Lines = 1 .. Len(prog)
           /\ Running => nextstmt \in Nat /\ nextstmt + 1 \in Nat /\ WellFormed(cmd)
<1>1. prog \in Seq(Range(prog))
  BY ProgramsAssumption DEF FlowInv
<1>2. Len(prog) \in Nat /\ Lines = 1 .. Len(prog)
  BY <1>1, LenProperties DEF Lines
<1>3. g_LocalIndex \in Nat
  BY LenProperties DEF FlowInv, g_LocalIndex
<1>4. ASSUME Running
      PROVE  nextstmt \in Nat /\ nextstmt + 1 \in Nat /\ WellFormed(cmd)
  <2>1. nextstmt \in Lines
    BY <1>4 DEF Running
  <2>2. nextstmt \in Nat /\ nextstmt + 1 \in Nat
    BY <1>2, <2>1
  <2>3. /\ WellFormed(prog[nextstmt])
        /\ prog[nextstmt].op = "ifthen" => WellFormed(prog[nextstmt].then)
    BY <2>1, ProgramsAssumption DEF FlowInv, Lines
  <2>4. WellFormed(cmd)
    BY <2>3 DEF cmd
  <2> QED BY <2>2, <2>4
<1> QED BY <1>2, <1>3, <1>4

\* findvar finds a variable that exists, of this level or the global one.
LEMMA FindvarRight ==
    ASSUME FlowInv, NEW v \in Vars
    PROVE  /\ findvar(v) \in DOMAIN g_vartbl /\ findvar(v) \in Vars \X Nat
           /\ findvar(v)[2] = 0 \/ findvar(v)[2] = g_LocalIndex
BY Facts DEF FlowInv, findvar

\* The NEXT and the LOOP that the searches find.
LEMMA MatchRight ==
    ASSUME FlowInv, Running
    PROVE  /\ \A v : MatchingNext(nextstmt, v) # {} =>
                LET q == First(MatchingNext(nextstmt, v))
                IN  q \in Nat /\ prog[q].op = "next"
           /\ MatchingLoop(nextstmt) # {} =>
                LET q == First(MatchingLoop(nextstmt))
                IN  q \in Nat /\ prog[q].op = "loop"
<1>1. nextstmt \in Nat /\ Len(prog) \in Nat
  BY Facts
<1>2. nextstmt + 1 .. Len(prog) \subseteq Nat
  BY <1>1
<1>3. ASSUME NEW v, MatchingNext(nextstmt, v) # {}
      PROVE  LET q == First(MatchingNext(nextstmt, v))
             IN  q \in Nat /\ prog[q].op = "next"
  <2> DEFINE S == MatchingNext(nextstmt, v)
  <2>1. S \subseteq Nat /\ \A q \in S : prog[q].op = "next"
    BY <1>2 DEF MatchingNext
  <2> HIDE DEF S
  <2>2. First(S) \in S
    BY <1>3, <2>1, FirstIsLeast DEF S
  <2>3. First(S) \in Nat /\ prog[First(S)].op = "next"
    BY <2>1, <2>2
  <2> QED BY <2>3 DEF S
<1>4. ASSUME MatchingLoop(nextstmt) # {}
      PROVE  LET q == First(MatchingLoop(nextstmt))
             IN  q \in Nat /\ prog[q].op = "loop"
  <2> DEFINE S == MatchingLoop(nextstmt)
  <2>1. S \subseteq Nat /\ \A q \in S : prog[q].op = "loop"
    BY <1>2 DEF MatchingLoop
  <2> HIDE DEF S
  <2>2. First(S) \in S
    BY <1>4, <2>1, FirstIsLeast DEF S
  <2>3. First(S) \in Nat /\ prog[First(S)].op = "loop"
    BY <2>1, <2>2
  <2> QED BY <2>3 DEF S
<1> QED BY <1>3, <1>4

\* The FOR stack with entries left out, at the same level.
LEMMA ForLess ==
    ASSUME FlowInv, NEW t \in Seq(ForLoop), Part(t, g_forstack)
    PROVE  ForRight(t, DOMAIN g_vartbl, g_LocalIndex)
<1>1. ForRight(g_forstack, DOMAIN g_vartbl, g_LocalIndex) /\ g_LocalIndex \in Nat
  BY Facts DEF FlowInv
<1>2. \A i \in DOMAIN t : t[i].level <= g_LocalIndex /\ t[i].var \in DOMAIN g_vartbl
  BY <1>1, PartEntries DEF ForRight
<1> QED BY <1>1, <1>2, ForPart

LEMMA DoLess ==
    ASSUME FlowInv, NEW t \in Seq(DoLoop), Part(t, g_dostack)
    PROVE  DoRight(t, g_LocalIndex)
<1>1. DoRight(g_dostack, g_LocalIndex) /\ g_LocalIndex \in Nat
  BY Facts DEF FlowInv
<1>2. \A i \in DOMAIN t : t[i].level <= g_LocalIndex
  BY <1>1, PartEntries DEF DoRight
<1> QED BY <1>1, <1>2, DoPart

\* Statements that change one of the stacks at the same level.
LEMMA ForStackRight ==
    ASSUME FlowInv, UNCHANGED <<prog, g_dostack, gosubstack>>,
           ForRight(g_forstack', DOMAIN g_vartbl, g_LocalIndex),
           DOMAIN g_vartbl' = DOMAIN g_vartbl
    PROVE  FlowInv'
<1>1. \A v \in Vars : <<v, 0>> \in DOMAIN g_vartbl'
  BY DEF FlowInv
<1>2. ForRight(g_forstack', DOMAIN g_vartbl', Len(gosubstack'))
  BY DEF g_LocalIndex
<1> QED BY <1>1, <1>2, StepRight DEF FlowInv, g_LocalIndex

LEMMA DoStackRight ==
    ASSUME FlowInv, UNCHANGED <<prog, g_forstack, gosubstack, g_vartbl>>,
           DoRight(g_dostack', g_LocalIndex)
    PROVE  FlowInv'
BY StepRight DEF FlowInv, g_LocalIndex

LEMMA ForStep == ASSUME FlowInv, prog' = prog, cmd_for PROVE FlowInv'
<1> DEFINE s == cmd
           v == findvar(s.v)
           same == {i \in DOMAIN g_forstack :
                      g_forstack[i].var = v /\ g_forstack[i].level = g_LocalIndex}
           stack == Without(g_forstack, same)
           nexts == MatchingNext(nextstmt, s.v)
           loop == [var |-> v, level |-> g_LocalIndex, forptr |-> nextstmt + 1,
                    nextptr |-> First(nexts), to |-> s.b, step |-> s.s]
<1>1. /\ Running /\ s.op = "for" /\ nextstmt + 1 \in Nat /\ g_LocalIndex \in Nat
      /\ s.v \in Vars /\ s.a \in Int /\ s.b \in Int /\ s.s \in Int
  BY Facts DEF cmd_for, Executing, WellFormed
<1>2. /\ v \in DOMAIN g_vartbl /\ v \in Vars \X Nat
      /\ v[2] = 0 \/ v[2] = g_LocalIndex
  BY <1>1, FindvarRight
<1>3. ForRight(g_forstack, DOMAIN g_vartbl, g_LocalIndex) /\ g_forstack \in Seq(ForLoop)
  BY DEF FlowInv, ForRight
<1>4. CASE Len(stack) >= MAXFORLOOPS \/ nexts = {}
  BY <1>4, ErrorRight DEF cmd_for
<1>5. CASE ~ (Len(stack) >= MAXFORLOOPS) /\ nexts # {}
  <2>1. /\ g_vartbl' = [g_vartbl EXCEPT ![v] = s.a]
        /\ g_forstack' = stack \/ g_forstack' = Append(stack, loop)
        /\ UNCHANGED <<g_dostack, gosubstack>>
    BY <1>5 DEF cmd_for
  <2>2. DOMAIN g_vartbl' = DOMAIN g_vartbl
    BY <2>1
  <2>3. First(nexts) \in Nat /\ prog[First(nexts)].op = "next"
    BY <1>1, <1>5, MatchRight
  <2>4. loop \in ForLoop /\ loop.level = g_LocalIndex /\ loop.var = v /\ loop.nextptr = First(nexts)
    BY <1>1, <1>2, <2>3 DEF ForLoop
  <2>5. same \subseteq DOMAIN g_forstack
    OBVIOUS
  <2>6. \A k \in DOMAIN g_forstack :
          g_forstack[k].var = v /\ g_forstack[k].level = g_LocalIndex => k \in same
    OBVIOUS
  <2>7. \A k \in same : g_forstack[k].var = v /\ g_forstack[k].level = g_LocalIndex
    OBVIOUS
  <2> HIDE DEF loop, nexts, v, same
  <2>8. /\ stack \in Seq(ForLoop) /\ Part(stack, g_forstack)
        /\ \A i \in DOMAIN stack :
             \E k \in DOMAIN g_forstack :
               (same = {} \/ k # First(same)) /\ stack[i] = g_forstack[k]
        /\ same # {} => First(same) \in same
    BY <1>3, <2>5, WithoutIsPart
  <2> HIDE DEF stack
  <2>9. ForRight(stack, DOMAIN g_vartbl, g_LocalIndex)
    BY <2>8, ForLess
  <2>10. ASSUME NEW k \in same, NEW l \in same
         PROVE  k = l
    <3>1. k \in DOMAIN g_forstack /\ l \in DOMAIN g_forstack
      BY <2>5
    <3>2. k \in Nat /\ l \in Nat
      <4>1. DOMAIN g_forstack = 1 .. Len(g_forstack) /\ Len(g_forstack) \in Nat
        BY <1>3, LenProperties
      <4> QED BY <3>1, <4>1
    <3>3. ~ (k < l) /\ ~ (l < k)
      BY <1>3, <2>7, <3>1 DEF ForRight
    <3> QED BY <3>2, <3>3
  <2>11. ASSUME NEW i \in DOMAIN stack
         PROVE  ~ (stack[i].var = v /\ stack[i].level = g_LocalIndex)
    <3>1. PICK k \in DOMAIN g_forstack :
            (same = {} \/ k # First(same)) /\ stack[i] = g_forstack[k]
      BY <2>8
    <3>2. k \notin same
      BY <2>8, <2>10, <3>1
    <3> QED BY <2>6, <3>1, <3>2
  <2>12. Len(stack) < MAXFORLOOPS
    <3>1. Len(stack) \in Nat /\ MAXFORLOOPS \in Nat
      BY <2>8, LenProperties, LimitsAssumption
    <3> QED BY <1>5, <3>1
  <2>13. ForRight(Append(stack, loop), DOMAIN g_vartbl, g_LocalIndex)
    BY <1>1, <1>2, <2>3, <2>4, <2>9, <2>11, <2>12, ForPush
  <2>14. ForRight(g_forstack', DOMAIN g_vartbl, g_LocalIndex)
    BY <2>1, <2>9, <2>13
  <2> QED BY <2>1, <2>2, <2>14, ForStackRight
<1> QED BY <1>4, <1>5

LEMMA NextStep == ASSUME FlowInv, prog' = prog, cmd_next PROVE FlowInv'
<1> DEFINE listed == {findvar(v) : v \in Range(cmd.vs)}
           them == IF vtbl = {} THEN listed ELSE vtbl
           found == {i \in DOMAIN g_forstack :
                        IF listed = {} THEN g_forstack[i].nextptr = nextstmt
                                       ELSE g_forstack[i].var \in them}
           i == IF listed = {} THEN First(found) ELSE Final(found)
           loop == g_forstack[i]
           val == g_vartbl[loop.var] + loop.step
<1>1. g_forstack \in Seq(ForLoop)
  BY DEF FlowInv, ForRight
<1>2. CASE found = {}
  BY <1>2, ErrorRight DEF cmd_next
<1>3. CASE found # {}
  <2>1. /\ g_vartbl' = [g_vartbl EXCEPT ![loop.var] = val]
        /\ g_forstack' = RemoveAt(g_forstack, i) \/ UNCHANGED g_forstack
        /\ UNCHANGED <<g_dostack, gosubstack>>
    BY <1>3 DEF cmd_next
  <2>2. DOMAIN g_vartbl' = DOMAIN g_vartbl
    BY <2>1
  <2>3. DOMAIN g_forstack = 1 .. Len(g_forstack) /\ Len(g_forstack) \in Nat
    BY <1>1, LenProperties
  <2>4. found \subseteq 1 .. Len(g_forstack)
    BY <2>3
  <2> HIDE DEF found
  <2>5. found \subseteq Nat
    BY <2>3, <2>4
  <2>6. First(found) \in found /\ Final(found) \in found
    BY <1>3, <2>3, <2>4, <2>5, FirstIsLeast, FinalIsGreatest
  <2>7. i \in 1 .. Len(g_forstack)
    BY <2>4, <2>6
  <2> HIDE DEF i
  <2>8. RemoveAt(g_forstack, i) \in Seq(ForLoop) /\ Part(RemoveAt(g_forstack, i), g_forstack)
    BY <1>1, <2>7, RemoveIsPart
  <2>9. ForRight(RemoveAt(g_forstack, i), DOMAIN g_vartbl, g_LocalIndex)
    BY <2>8, ForLess
  <2>10. ForRight(g_forstack', DOMAIN g_vartbl, g_LocalIndex)
    BY <2>1, <2>9 DEF FlowInv
  <2> QED BY <2>1, <2>2, <2>10, ForStackRight
<1> QED BY <1>2, <1>3

LEMMA ExitForStep == ASSUME FlowInv, prog' = prog, cmd_exitfor PROVE FlowInv'
<1>1. CASE g_forstack = <<>>
  BY <1>1, ErrorRight DEF cmd_exitfor
<1>2. CASE g_forstack # <<>>
  <2>1. g_forstack' = Front(g_forstack) /\ UNCHANGED <<g_dostack, gosubstack, g_vartbl>>
    BY <1>2 DEF cmd_exitfor, SameData
  <2>2. Front(g_forstack) \in Seq(ForLoop) /\ Part(Front(g_forstack), g_forstack)
    BY <1>2, FrontIsPart DEF FlowInv, ForRight
  <2>3. ForRight(g_forstack', DOMAIN g_vartbl, g_LocalIndex)
    BY <2>1, <2>2, ForLess
  <2> QED BY <2>1, <2>3, ForStackRight
<1> QED BY <1>1, <1>2

LEMMA DoStep == ASSUME FlowInv, prog' = prog, cmd_do PROVE FlowInv'
<1> DEFINE s == cmd
           same == {i \in DOMAIN g_dostack : g_dostack[i].doptr = nextstmt + 1}
           stack == Without(g_dostack, same)
           loops == MatchingLoop(nextstmt)
           loop == [test |-> s.test, c |-> s.c, doptr |-> nextstmt + 1,
                    loopptr |-> First(loops), level |-> g_LocalIndex]
           wrong == \/ s.test = "until"
                    \/ Len(stack) >= MAXDOLOOPS
                    \/ loops = {}
                    \/ s.test = "while" /\ prog[First(loops)].test # "none"
<1>1. /\ Running /\ nextstmt + 1 \in Nat /\ g_LocalIndex \in Nat
      /\ s.test \in Tests /\ s.c \in Condition
  BY Facts DEF cmd_do, Executing, WellFormed
<1>2. DoRight(g_dostack, g_LocalIndex) /\ g_dostack \in Seq(DoLoop)
  BY DEF FlowInv, DoRight
<1>3. CASE wrong
  BY <1>3, ErrorRight DEF cmd_do
<1>4. CASE ~wrong
  <2>1. /\ g_dostack' = stack \/ g_dostack' = Append(stack, loop)
        /\ UNCHANGED <<g_forstack, gosubstack, g_vartbl>>
    BY <1>4 DEF cmd_do, SameData
  <2>2. ~ (Len(stack) >= MAXDOLOOPS) /\ loops # {}
    BY <1>4
  <2>3. First(loops) \in Nat /\ prog[First(loops)].op = "loop"
    BY <1>1, <2>2, MatchRight
  <2>4. /\ loop \in DoLoop /\ loop.level = g_LocalIndex /\ loop.doptr = nextstmt + 1
        /\ loop.loopptr = First(loops)
    BY <1>1, <2>3 DEF DoLoop
  <2>5. same \subseteq DOMAIN g_dostack
    OBVIOUS
  <2>6. \A k \in DOMAIN g_dostack : g_dostack[k].doptr = loop.doptr <=> k \in same
    BY <2>4
  <2> HIDE DEF wrong, loop, loops, same
  <2>7. /\ stack \in Seq(DoLoop) /\ Part(stack, g_dostack)
        /\ \A i \in DOMAIN stack :
             \E k \in DOMAIN g_dostack :
               (same = {} \/ k # First(same)) /\ stack[i] = g_dostack[k]
        /\ same # {} => First(same) \in same
    BY <1>2, <2>5, WithoutIsPart
  <2> HIDE DEF stack
  <2>8. DoRight(stack, g_LocalIndex)
    BY <2>7, DoLess
  <2>9. ASSUME NEW k \in same, NEW l \in same
        PROVE  k = l
    <3>1. k \in DOMAIN g_dostack /\ l \in DOMAIN g_dostack
      BY <2>5
    <3>2. k \in Nat /\ l \in Nat
      <4>1. DOMAIN g_dostack = 1 .. Len(g_dostack) /\ Len(g_dostack) \in Nat
        BY <1>2, LenProperties
      <4> QED BY <3>1, <4>1
    <3>3. ~ (k < l) /\ ~ (l < k)
      BY <1>2, <2>6, <3>1 DEF DoRight
    <3> QED BY <3>2, <3>3
  <2>10. ASSUME NEW i \in DOMAIN stack
         PROVE  stack[i].doptr # loop.doptr
    <3>1. PICK k \in DOMAIN g_dostack :
            (same = {} \/ k # First(same)) /\ stack[i] = g_dostack[k]
      BY <2>7
    <3>2. k \notin same
      BY <2>7, <2>9, <3>1
    <3> QED BY <2>6, <3>1, <3>2
  <2>11. Len(stack) < MAXDOLOOPS
    <3>1. Len(stack) \in Nat /\ MAXDOLOOPS \in Nat
      BY <2>7, LenProperties, LimitsAssumption
    <3> QED BY <2>2, <3>1
  <2>12. DoRight(Append(stack, loop), g_LocalIndex)
    BY <1>1, <2>3, <2>4, <2>8, <2>10, <2>11, DoPush
  <2>13. DoRight(g_dostack', g_LocalIndex)
    BY <2>1, <2>8, <2>12
  <2> QED BY <2>1, <2>13, DoStackRight
<1> QED BY <1>3, <1>4

LEMMA LoopStep == ASSUME FlowInv, prog' = prog, cmd_loop PROVE FlowInv'
<1> DEFINE found == {i \in DOMAIN g_dostack : g_dostack[i].loopptr = nextstmt}
           j == First(found)
<1>1. g_dostack \in Seq(DoLoop)
  BY DEF FlowInv, DoRight
<1>2. CASE found = {}
  BY <1>2, ErrorRight DEF cmd_loop
<1>3. CASE found # {}
  <2>1. /\ UNCHANGED g_dostack \/ g_dostack' = SubSeq(g_dostack, 1, j - 1)
        /\ UNCHANGED <<g_forstack, gosubstack, g_vartbl>>
    BY <1>3 DEF cmd_loop, SameData
  <2>2. DOMAIN g_dostack = 1 .. Len(g_dostack) /\ Len(g_dostack) \in Nat
    BY <1>1, LenProperties
  <2>3. found \subseteq 1 .. Len(g_dostack)
    BY <2>2
  <2> HIDE DEF found
  <2>4. found \subseteq Nat
    BY <2>2, <2>3
  <2>5. j \in 1 .. Len(g_dostack)
    BY <1>3, <2>3, <2>4, FirstIsLeast
  <2> HIDE DEF j
  <2> DEFINE n == j - 1
             t == SubSeq(g_dostack, 1, n)
  <2>6. n \in 0 .. Len(g_dostack)
    BY <2>2, <2>5
  <2> HIDE DEF n
  <2>7. t \in Seq(DoLoop) /\ Part(t, g_dostack)
    BY <1>1, <2>6, PrefixIsPart
  <2>8. DoRight(t, g_LocalIndex)
    <3> HIDE DEF t
    <3> QED BY <2>7, DoLess
  <2>9. DoRight(g_dostack', g_LocalIndex)
    BY <2>1, <2>8 DEF n, FlowInv
  <2> QED BY <2>1, <2>9, DoStackRight
<1> QED BY <1>2, <1>3

LEMMA ExitDoStep == ASSUME FlowInv, prog' = prog, cmd_exit PROVE FlowInv'
<1>1. CASE g_dostack = <<>>
  BY <1>1, ErrorRight DEF cmd_exit
<1>2. CASE g_dostack # <<>>
  <2>1. g_dostack' = Front(g_dostack) /\ UNCHANGED <<g_forstack, gosubstack, g_vartbl>>
    BY <1>2 DEF cmd_exit, SameData
  <2>2. Front(g_dostack) \in Seq(DoLoop) /\ Part(Front(g_dostack), g_dostack)
    BY <1>2, FrontIsPart DEF FlowInv, DoRight
  <2>3. DoRight(g_dostack', g_LocalIndex)
    BY <2>1, <2>2, DoLess
  <2> QED BY <2>1, <2>3, DoStackRight
<1> QED BY <1>1, <1>2

\* Every entry has a level.
LEMMA Levels ==
    ASSUME FlowInv
    PROVE  /\ g_forstack \in Seq(ForLoop) /\ g_dostack \in Seq(DoLoop)
           /\ \A i \in DOMAIN g_forstack : g_forstack[i].level \in Nat
           /\ \A i \in DOMAIN g_dostack : g_dostack[i].level \in Nat
<1>1. g_forstack \in Seq(ForLoop) /\ g_dostack \in Seq(DoLoop)
  BY DEF FlowInv, ForRight, DoRight
<1>2. \A i \in DOMAIN g_forstack : g_forstack[i] \in ForLoop
  BY <1>1, ElementOfSeq, LenProperties
<1>3. \A i \in DOMAIN g_dostack : g_dostack[i] \in DoLoop
  BY <1>1, ElementOfSeq, LenProperties
<1> QED BY <1>1, <1>2, <1>3 DEF ForLoop, DoLoop

\* GOSUB and calls: the loops in effect belong to the levels below.
LEMMA EnterStep ==
    ASSUME FlowInv, prog' = prog, Running, NEW S, NEW d, EnterAt(S, d)
    PROVE  FlowInv'
<1>1. CASE error
  BY <1>1, ErrorRight
<1>2. CASE ~error
  <2>1. /\ gosubstack' = Append(gosubstack, nextstmt + 1)
        /\ UNCHANGED <<g_forstack, g_dostack, g_vartbl>>
    BY <1>2 DEF EnterAt, SameData
  <2>2. nextstmt + 1 \in Nat /\ g_LocalIndex \in Nat /\ gosubstack \in Seq(Nat)
    BY Facts DEF FlowInv
  <2> DEFINE r == nextstmt + 1
             t == Append(gosubstack, r)
  <2>3. t \in Seq(Nat) /\ Len(t) = g_LocalIndex + 1
    <3> HIDE DEF r
    <3> QED BY <2>2, AppendProperties DEF g_LocalIndex, r
  <2> HIDE DEF t
  <2>4. gosubstack' = t
    BY <2>1 DEF t
  <2>5. ForRight(g_forstack, DOMAIN g_vartbl, g_LocalIndex) /\ DoRight(g_dostack, g_LocalIndex)
    BY DEF FlowInv
  <2>6. \A n \in Nat : n <= g_LocalIndex => n <= Len(t)
    BY <2>2, <2>3
  <2>7. /\ \A i \in DOMAIN g_forstack : g_forstack[i].level <= Len(t)
        /\ \A i \in DOMAIN g_dostack : g_dostack[i].level <= Len(t)
    BY <2>5, <2>6, Levels DEF ForRight, DoRight
  <2>8. ForRight(g_forstack, DOMAIN g_vartbl, Len(t)) /\ DoRight(g_dostack, Len(t))
    BY <2>5, <2>7 DEF ForRight, DoRight
  <2> QED BY <2>1, <2>3, <2>4, <2>8, StepRight DEF FlowInv
<1> QED BY <1>1, <1>2

\* RETURN takes the loops and the variables of its level along.
LEMMA ReturnStep == ASSUME FlowInv, prog' = prog, cmd_return PROVE FlowInv'
<1>1. CASE gosubstack = <<>>
  BY <1>1, ErrorRight DEF cmd_return
<1>2. CASE gosubstack # <<>>
  <2> DEFINE level == g_LocalIndex
             below == level - 1
             table == {y \in DOMAIN g_vartbl : y[2] < level}
             fs == Trim(g_forstack, level)
             ds == Trim(g_dostack, level)
             gs == Front(gosubstack)
  <2>1. /\ g_vartbl' = [x \in table |-> g_vartbl[x]]
        /\ g_forstack' = fs /\ g_dostack' = ds /\ gosubstack' = gs
    BY <1>2 DEF cmd_return, ClearVars
  <2>2. gs \in Seq(Nat) /\ level \in Nat \ {0} /\ Len(gs) = below
    BY <1>2, FrontIsPart DEF FlowInv, g_LocalIndex
  <2>3. DOMAIN g_vartbl' = table
    BY <2>1
  <2>4. ForRight(g_forstack, DOMAIN g_vartbl, level) /\ DoRight(g_dostack, level)
    BY DEF FlowInv
  <2>5. /\ g_forstack \in Seq(ForLoop) /\ g_dostack \in Seq(DoLoop)
        /\ \A i \in DOMAIN g_forstack : g_forstack[i].level \in Nat
        /\ \A i \in DOMAIN g_dostack : g_dostack[i].level \in Nat
    BY Levels
  <2>6. \A v \in Vars : <<v, 0>> \in table
    <3> SUFFICES ASSUME NEW v \in Vars PROVE <<v, 0>> \in table
      OBVIOUS
    <3>1. <<v, 0>> \in DOMAIN g_vartbl /\ <<v, 0>>[2] = 0
      BY DEF FlowInv
    <3>2. 0 < level
      <4> HIDE DEF level
      <4> QED BY <2>2
    <3> HIDE DEF level
    <3> QED BY <3>1, <3>2
  <2>7. \A y \in DOMAIN g_vartbl : y[2] < level => y \in table
    OBVIOUS
  <2> HIDE DEF level, table, gs
  <2>8. below \in Nat /\ \A n \in Nat : n < level => n <= below
    BY <2>2
  <2>9. /\ fs \in Seq(ForLoop) /\ Part(fs, g_forstack)
        /\ \A i \in DOMAIN fs : fs[i].level < level
    BY <2>2, <2>5, TrimIsPart
  <2>10. /\ ds \in Seq(DoLoop) /\ Part(ds, g_dostack)
         /\ \A i \in DOMAIN ds : ds[i].level < level
    BY <2>2, <2>5, TrimIsPart
  <2> HIDE DEF fs, ds, below
  <2>11. ASSUME NEW i \in DOMAIN fs
         PROVE  fs[i].level <= below /\ fs[i].var \in table
    <3>1. PICK k \in DOMAIN g_forstack : fs[i] = g_forstack[k]
      BY <2>9, PartEntries
    <3>2. fs[i].level \in Nat /\ fs[i].level < level
      BY <2>5, <2>9, <3>1
    <3>3. fs[i].var \in DOMAIN g_vartbl /\ (fs[i].var[2] = 0 \/ fs[i].var[2] = fs[i].level)
      BY <2>4, <3>1 DEF ForRight
    <3>4. 0 < level
      BY <2>2
    <3>5. fs[i].var[2] < level
      BY <3>2, <3>3, <3>4
    <3> QED BY <2>7, <2>8, <3>2, <3>3, <3>5
  <2>12. ASSUME NEW i \in DOMAIN ds
         PROVE  ds[i].level <= below
    <3>1. PICK k \in DOMAIN g_dostack : ds[i] = g_dostack[k]
      BY <2>10, PartEntries
    <3> QED BY <2>5, <2>8, <2>10, <3>1
  <2>13. level \in Nat
    BY <2>2
  <2>14. ForRight(fs, table, below)
    BY <2>4, <2>8, <2>9, <2>11, <2>13, ForPart
  <2>15. DoRight(ds, below)
    BY <2>4, <2>8, <2>10, <2>12, <2>13, DoPart
  <2>16. /\ ForRight(g_forstack', DOMAIN g_vartbl', Len(gosubstack'))
         /\ DoRight(g_dostack', Len(gosubstack')) /\ gosubstack' \in Seq(Nat)
         /\ \A v \in Vars : <<v, 0>> \in DOMAIN g_vartbl'
    BY <2>1, <2>2, <2>3, <2>6, <2>14, <2>15
  <2> QED BY <2>16, StepRight
<1> QED BY <1>1, <1>2

LEMMA ExecuteRight == ASSUME FlowInv, prog' = prog, ExecuteProgram PROVE FlowInv'
<1>1. CASE cmd_continue \/ cmd_if \/ SkipLine \/ cmd_else \/ cmd_select \/ cmd_case
             \/ cmd_goto \/ cmd_subfun \/ cmd_print \/ NoCommand \/ cmd_end \/ OutOfFuel
  <2>1. error \/ UNCHANGED <<g_forstack, g_dostack, gosubstack, g_vartbl>>
    BY <1>1 DEF cmd_continue, cmd_if, SkipLine, cmd_else, cmd_select, cmd_case, cmd_goto,
                cmd_subfun, cmd_print, NoCommand, cmd_end, OutOfFuel, SameData, SameStacks
  <2> QED BY <2>1, ErrorRight, SameLoops
<1>2. CASE cmd_inc
  <2>1. UNCHANGED <<g_forstack, g_dostack, gosubstack>> /\ DOMAIN g_vartbl' = DOMAIN g_vartbl
    BY <1>2 DEF cmd_inc, SameStacks
  <2> QED BY <2>1, SameLoops
<1>3. CASE cmd_local
  <2> DEFINE x == <<cmd.v, g_LocalIndex>>
  <2>1. CASE x \in DOMAIN g_vartbl
    BY <1>3, <2>1, ErrorRight DEF cmd_local
  <2>2. CASE x \notin DOMAIN g_vartbl
    <3>1. /\ g_vartbl' = [y \in DOMAIN g_vartbl \cup {x} |-> IF y = x THEN 0 ELSE g_vartbl[y]]
          /\ UNCHANGED <<g_forstack, g_dostack, gosubstack>>
      BY <1>3, <2>2 DEF cmd_local, SameStacks
    <3>2. DOMAIN g_vartbl' = DOMAIN g_vartbl \cup {x}
      BY <3>1
    <3>3. DOMAIN g_vartbl \subseteq DOMAIN g_vartbl'
      BY <3>2
    <3> QED BY <3>1, <3>3, SameLoops
  <2> QED BY <2>1, <2>2
<1>4. CASE cmd_gosub \/ DefinedSubFun
  <2>1. Running /\ (EnterAt(LabelLines(cmd.l), 0) \/ EnterAt(SubLines, 1))
    BY <1>4 DEF cmd_gosub, DefinedSubFun, Executing
  <2> QED BY <2>1, EnterStep
<1>5. CASE cmd_on
  <2> DEFINE S == LabelLines(cmd.ls[Value(cmd.v)])
  <2>1. /\ Running
        /\ EnterAt(S, 0) \/ UNCHANGED <<g_forstack, g_dostack, gosubstack, g_vartbl>>
    BY <1>5 DEF cmd_on, Executing, error, SameData, SameStacks
  <2> HIDE DEF S
  <2> QED BY <2>1, EnterStep, SameLoops
<1> QED BY <1>1, <1>2, <1>3, <1>4, <1>5, ForStep, NextStep, ExitForStep, DoStep, LoopStep,
           ExitDoStep, ReturnStep DEF ExecuteProgram

-----------------------------------------------------------------------------
LEMMA InitFlow == Init => FlowInv
<1> SUFFICES ASSUME Init PROVE FlowInv
  OBVIOUS
<1>1. /\ prog \in Programs /\ gosubstack = <<>> /\ g_forstack = <<>> /\ g_dostack = <<>>
      /\ g_vartbl = [x \in Vars \X {0} |-> 0]
  BY DEF Init, InterpInit
<1>2. \A E : <<>> \in Seq(E)
  BY EmptySeq
<1>3. Len(<<>>) = 0 /\ DOMAIN <<>> = {} /\ 0 <= MAXFORLOOPS /\ 0 <= MAXDOLOOPS
  BY LimitsAssumption
<1>4. ForRight(<<>>, DOMAIN g_vartbl, g_LocalIndex) /\ DoRight(<<>>, g_LocalIndex)
  BY <1>2, <1>3 DEF ForRight, DoRight
<1>5. \A v \in Vars : <<v, 0>> \in DOMAIN g_vartbl
  BY <1>1
<1> QED BY <1>1, <1>2, <1>4, <1>5 DEF FlowInv

LEMMA NextFlow == FlowInv /\ [Next]_vars => FlowInv'
<1> SUFFICES ASSUME FlowInv, [Next]_vars PROVE FlowInv'
  OBVIOUS
<1>1. CASE Interpret
  BY <1>1, ExecuteRight DEF Interpret
<1>2. CASE StartVm \/ RunVm \/ UNCHANGED vars
  <2>1. UNCHANGED <<prog, g_forstack, g_dostack, gosubstack, g_vartbl>>
    BY <1>2 DEF StartVm, RunVm, vars, ivars
  <2> QED BY <2>1, SameLoops
<1> QED BY <1>1, <1>2 DEF Next

LEMMA FlowInvIsLoopsLive == FlowInv => LoopsLive
<1> SUFFICES ASSUME FlowInv PROVE LoopsLive
  OBVIOUS
<1>1. /\ ForRight(g_forstack, DOMAIN g_vartbl, g_LocalIndex) /\ DoRight(g_dostack, g_LocalIndex)
  BY DEF FlowInv
<1>2. /\ DOMAIN g_forstack = 1 .. Len(g_forstack) /\ Len(g_forstack) \in Nat
      /\ DOMAIN g_dostack = 1 .. Len(g_dostack) /\ Len(g_dostack) \in Nat
  BY <1>1, LenProperties DEF ForRight, DoRight
<1>3. \A i \in DOMAIN g_forstack : \A k \in i + 1 .. Len(g_forstack) :
        k \in DOMAIN g_forstack /\ i < k
  BY <1>2
<1>4. \A i \in DOMAIN g_dostack : \A k \in i + 1 .. Len(g_dostack) :
        k \in DOMAIN g_dostack /\ i < k
  BY <1>2
<1> QED BY <1>1, <1>3, <1>4 DEF LoopsLive, ForRight, DoRight

\* The interpreter's loop stacks never overflow and hold live loops only, in
\* every program, however it jumps in and out of loops, routines and calls:
\* the pointers that NEXT, LOOP, EXIT and CONTINUE follow are those of a loop
\* whose variable exists and whose NEXT or LOOP is there (cmd_for, cmd_next,
\* cmd_do, cmd_loop, cmd_exit, cmd_return and ClearVars).
THEOREM LoopsStayLive == Spec => []LoopsLive
BY InitFlow, NextFlow, FlowInvIsLoopsLive, PTL DEF Spec

=============================================================================
