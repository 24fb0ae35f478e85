-------------------------- MODULE SerialPort_proofs --------------------------
(***************************************************************************)
(* What SerialPort guarantees for buffers of any size: the bytes keep      *)
(* their order on the line and for the program, whatever the handler       *)
(* interrupts.                                                             *)
(***************************************************************************)
EXTENDS SerialPort, TLAPS, SequenceTheorems

-----------------------------------------------------------------------------
(* The inductive invariant.                                                *)

Below(s, n) == \A i \in DOMAIN s : s[i] <= n

\* Bytes that are on the line or queued, and the last byte that was queued.
Queued == wire \o Items(tx, TxSize)
Stored == IF pc \in {"room", "sample", "store", "advance"} THEN puts - 1 ELSE puts

\* What is queued grows by the next byte, which Store puts where Advance
\* expects it; the buffer is empty while the port is closed or being opened,
\* and starts at 0 once Ctrl-C has reset its head.
WireInv ==
    /\ Increasing(Queued) /\ Below(Queued, Stored)
    /\ "cleared" \notin windows => UpTo(Queued, Stored)
    /\ pc \in {"room", "sample", "store", "advance"} => puts >= 1
    /\ pc = "advance" => tx.buf[tx.head] = puts /\ ~Full(tx, TxSize)
    /\ pc \in {"closed", "settle"} => tx.head = tx.tail
    /\ pc = "abort" => tx.head = 0 /\ "cleared" \in windows

\* Bytes read or in the buffer, the last byte the handler took, and the buffer
\* as it is once GetStore has stored the tail.
Seen == got \o Items(rx, RxSize)
Taken == IF uart.rx = 0 THEN arrived ELSE arrived - 1
Left == [rx EXCEPT !.tail = (reg + 1) % RxSize]
Held == pc \in {"load", "tail"}

\* Between GetChar and GetStore the byte in hand comes before every byte that
\* will be left, although the handler may have dropped the byte meanwhile.
ReadOrder ==
    /\ pc # "tail" => Increasing(Seen) /\ Below(Seen, Taken)
    /\ pc = "load" => /\ Increasing(Append(got, char)) /\ char <= Taken
                      /\ rx.head # rx.tail /\ \A i \in DOMAIN Items(rx, RxSize) : char <= Items(rx, RxSize)[i]
    /\ pc = "tail" => /\ Increasing(Append(got, char) \o Items(Left, RxSize))
                      /\ Below(Append(got, char) \o Items(Left, RxSize), Taken)

\* Nothing is missing: the byte in hand is still the first in the buffer.
ReadAll ==
    /\ UpTo(Seen, Taken)
    /\ Held => rx.head # rx.tail /\ char = rx.buf[rx.tail]
    /\ pc = "tail" => reg = rx.tail

ReadInv ==
    /\ uart.rx \in {0, arrived}
    /\ pc = "closed" => uart.rx = 0 /\ rx.head = rx.tail
    /\ "break" \notin windows => ReadOrder
    /\ "dropped" \notin windows => ReadAll

SerialInv == TypeOK /\ WireInv /\ ReadInv
-----------------------------------------------------------------------------
(* Ring positions.                                                         *)

\* A position and its successor, without the division.
LEMMA Wrap ==
    ASSUME NEW n \in Nat, n > 0, NEW a \in 0 .. 2 * n - 1
    PROVE  a % n = IF a < n THEN a ELSE a - n
<1>1. CASE a < n
  BY <1>1
<1>2. CASE a >= n
  <2>1. a = n * 1 + (a - n) /\ a - n \in 0 .. n - 1
    BY <1>2
  <2> QED
    BY <1>2, <2>1
<1> QED
  BY <1>1, <1>2

\* The position after k.
Succ(k, n) == IF k + 1 < n THEN k + 1 ELSE 0

LEMMA SuccIs ==
    ASSUME NEW n \in Nat, n > 1, NEW k \in 0 .. n - 1
    PROVE  (k + 1) % n = Succ(k, n) /\ Succ(k, n) \in 0 .. n - 1
<1> DEFINE a == k + 1
<1>1. a \in 0 .. 2 * n - 1
  OBVIOUS
<1>2. Succ(k, n) = (IF a < n THEN a ELSE a - n) /\ Succ(k, n) \in 0 .. n - 1
  BY DEF Succ
<1> HIDE DEF a
<1>3. a % n = Succ(k, n)
  BY <1>1, <1>2, Wrap
<1> QED
  BY <1>2, <1>3 DEF a

Ring(n) == [buf : [0 .. n - 1 -> Nat], head : 0 .. n - 1, tail : 0 .. n - 1]

\* How many cells lie from t up to h, and which is the i-th of them.
Distance(t, h, n) == IF h >= t THEN h - t ELSE h + n - t
Cell(t, i, n) == IF t + i - 1 < n THEN t + i - 1 ELSE t + i - 1 - n

LEMMA Distances ==
    ASSUME NEW n \in Nat, n > 1, NEW t \in 0 .. n - 1, NEW h \in 0 .. n - 1
    PROVE  /\ Distance(t, h, n) \in 0 .. n - 1
           /\ Distance(t, h, n) = 0 <=> t = h
           /\ Succ(h, n) # t => Distance(t, Succ(h, n), n) = Distance(t, h, n) + 1
           /\ t # h => Distance(Succ(t, n), h, n) = Distance(t, h, n) - 1
           /\ Cell(t, 1, n) = t /\ Cell(t, Distance(t, h, n) + 1, n) = h
BY DEF Distance, Cell, Succ

LEMMA Cells ==
    ASSUME NEW n \in Nat, n > 1, NEW t \in 0 .. n - 1, NEW h \in 0 .. n - 1,
           NEW i \in 1 .. Distance(t, h, n)
    PROVE  /\ Cell(t, i, n) \in 0 .. n - 1 /\ Cell(t, i, n) # h
           /\ i + 1 \in 1 .. Distance(t, h, n) => Cell(Succ(t, n), i, n) = Cell(t, i + 1, n)
BY DEF Distance, Cell, Succ

\* How many bytes a ring holds, and where the i-th of them is.
Count(r, n) == Distance(r.tail, r.head, n)
Pos(r, n, i) == Cell(r.tail, i, n)

LEMMA RingFields ==
    ASSUME NEW n \in Nat, n > 1, NEW r \in Ring(n)
    PROVE  /\ n \in Nat /\ n > 1
           /\ r.head \in 0 .. n - 1 /\ r.tail \in 0 .. n - 1 /\ r.buf \in [0 .. n - 1 -> Nat]
BY DEF Ring

LEMMA ItemsAre ==
    ASSUME NEW n \in Nat, n > 1, NEW r \in Ring(n)
    PROVE  /\ Count(r, n) \in 0 .. n - 1
           /\ Items(r, n) \in Seq(Nat) /\ Len(Items(r, n)) = Count(r, n)
           /\ \A i \in 1 .. Count(r, n) : /\ Pos(r, n, i) \in 0 .. n - 1
                                          /\ Items(r, n)[i] = r.buf[Pos(r, n, i)]
<1>1. /\ n \in Nat /\ n > 1
      /\ r.head \in 0 .. n - 1 /\ r.tail \in 0 .. n - 1 /\ r.buf \in [0 .. n - 1 -> Nat]
  BY RingFields
<1>2. Count(r, n) \in 0 .. n - 1
  BY <1>1 DEF Count, Distance
<1>3. (r.head + n - r.tail) % n = Count(r, n)
  <2> DEFINE a == r.head + n - r.tail
  <2>1. a \in 0 .. 2 * n - 1
    BY <1>1
  <2>2. Count(r, n) = IF a < n THEN a ELSE a - n
    BY <1>1 DEF Count, Distance
  <2> HIDE DEF a
  <2>3. n > 0
    BY <1>1
  <2>4. a % n = IF a < n THEN a ELSE a - n
    BY <1>1, <2>1, <2>3, Wrap
  <2> QED
    BY <2>2, <2>4 DEF a
<1>4. ASSUME NEW i \in 1 .. Count(r, n)
      PROVE  (r.tail + i - 1) % n = Pos(r, n, i) /\ Pos(r, n, i) \in 0 .. n - 1
  <2> DEFINE a == r.tail + i - 1
  <2>1. a \in 0 .. 2 * n - 1
    BY SMTT(30), <1>1, <1>2
  <2>2. Pos(r, n, i) = IF a < n THEN a ELSE a - n
    BY <1>1 DEF Pos, Cell
  <2> HIDE DEF a
  <2>3. n > 0
    BY <1>1
  <2>4. a % n = IF a < n THEN a ELSE a - n
    BY <1>1, <2>1, <2>3, Wrap
  <2>5. Pos(r, n, i) \in 0 .. n - 1
    BY <1>1, <2>1, <2>2
  <2> QED
    BY <2>2, <2>4, <2>5 DEF a
<1>5. Items(r, n) = [i \in 1 .. Count(r, n) |-> r.buf[Pos(r, n, i)]]
  BY <1>3, <1>4 DEF Items
<1>6. \A i \in 1 .. Count(r, n) : r.buf[Pos(r, n, i)] \in Nat
  BY <1>1, <1>4
<1>7. Items(r, n) \in Seq(Nat) /\ Len(Items(r, n)) = Count(r, n)
  BY <1>2, <1>5, <1>6
<1> QED
  BY <1>2, <1>4, <1>5, <1>7

\* Two sequences with the same length and the same members are equal.
LEMMA SameSeq ==
    ASSUME NEW s \in Seq(Nat), NEW t \in Seq(Nat), Len(s) = Len(t),
           \A i \in 1 .. Len(s) : s[i] = t[i]
    PROVE  s = t
BY SMTT(30)

\* A ring whose ends meet holds nothing.
LEMMA ItemsEmpty ==
    ASSUME NEW n \in Nat, n > 1, NEW r \in Ring(n)
    PROVE  r.head = r.tail <=> Items(r, n) = <<>>
<1>1. Count(r, n) = 0 <=> r.head = r.tail
  <2>1. n \in Nat /\ n > 1 /\ r.head \in 0 .. n - 1 /\ r.tail \in 0 .. n - 1
    BY RingFields
  <2> QED
    BY ZenonT(40), <2>1, Distances DEF Count
<1>2. Items(r, n) \in Seq(Nat) /\ Len(Items(r, n)) = Count(r, n)
  BY ItemsAre
<1> QED
  BY <1>1, <1>2

\* The cell at the head is free: writing it changes nothing that is queued.
LEMMA ItemsWrite ==
    ASSUME NEW n \in Nat, n > 1, NEW r \in Ring(n), NEW c \in Nat,
           NEW w \in Ring(n), w.head = r.head, w.tail = r.tail, w.buf = [r.buf EXCEPT ![r.head] = c]
    PROVE  Items(w, n) = Items(r, n) /\ w.buf[w.head] = c
<1>1. /\ n \in Nat /\ n > 1
      /\ r.head \in 0 .. n - 1 /\ r.tail \in 0 .. n - 1 /\ r.buf \in [0 .. n - 1 -> Nat]
  BY RingFields
<1>2. w.head = r.head /\ w.tail = r.tail /\ w.buf = [r.buf EXCEPT ![r.head] = c] /\ w \in Ring(n)
  OBVIOUS
<1>3. w.buf[w.head] = c
  BY <1>1, <1>2
<1>4. Count(w, n) = Count(r, n)
  BY <1>2 DEF Count
<1>5. ASSUME NEW i \in 1 .. Count(r, n)
      PROVE  Items(w, n)[i] = Items(r, n)[i]
  <2>1. Pos(r, n, i) # r.head /\ Pos(w, n, i) = Pos(r, n, i)
    BY <1>1, <1>2, Cells DEF Pos, Count
  <2>2. Items(r, n)[i] = r.buf[Pos(r, n, i)] /\ Pos(r, n, i) \in 0 .. n - 1
    BY ItemsAre
  <2>3. Items(w, n)[i] = w.buf[Pos(w, n, i)]
    BY ZenonT(40), <1>2, <1>4, ItemsAre
  <2> QED
    BY <1>1, <1>2, <2>1, <2>2, <2>3
<1>6. Items(w, n) = Items(r, n)
  BY <1>2, <1>4, <1>5, ItemsAre, SameSeq
<1> QED
  BY <1>2, <1>3, <1>6

\* Advancing the head of a ring with room queues the byte it is on.
LEMMA ItemsAdvance ==
    ASSUME NEW n \in Nat, n > 1, NEW r \in Ring(n), ~Full(r, n),
           NEW a \in Ring(n), a.head = Succ(r.head, n), a.tail = r.tail, a.buf = r.buf
    PROVE  Items(a, n) = Append(Items(r, n), r.buf[r.head])
<1>1. /\ n \in Nat /\ n > 1
      /\ r.head \in 0 .. n - 1 /\ r.tail \in 0 .. n - 1 /\ r.buf \in [0 .. n - 1 -> Nat]
  BY RingFields
<1>2. (r.head + 1) % n = Succ(r.head, n) /\ Succ(r.head, n) \in 0 .. n - 1
  BY <1>1, SuccIs
<1>3. a.head = Succ(r.head, n) /\ a.tail = r.tail /\ a.buf = r.buf /\ a \in Ring(n)
  BY <1>2
<1>4. Succ(r.head, n) # r.tail
  BY <1>2 DEF Full
<1>5. Count(a, n) = Count(r, n) + 1
  <2>1. Distance(r.tail, Succ(r.head, n), n) = Distance(r.tail, r.head, n) + 1
    BY ZenonT(40), <1>1, <1>4, Distances
  <2> QED
    BY <1>3, <2>1 DEF Count
<1>6. Items(r, n) \in Seq(Nat) /\ Len(Items(r, n)) = Count(r, n) /\ Count(r, n) \in Nat
  BY ItemsAre
<1>7. Items(a, n) \in Seq(Nat) /\ Len(Items(a, n)) = Count(a, n)
  BY <1>3, ItemsAre
<1>8. ASSUME NEW i \in 1 .. Count(r, n)
      PROVE  Items(a, n)[i] = Items(r, n)[i]
  <2>1. Pos(a, n, i) = Pos(r, n, i) /\ i \in 1 .. Count(a, n)
    BY <1>1, <1>3, <1>5, <1>6 DEF Pos
  <2> QED
    BY <1>3, <2>1, ItemsAre
<1>9. Items(a, n)[Count(r, n) + 1] = r.buf[r.head]
  <2>1. Pos(a, n, Count(r, n) + 1) = r.head
    <3>1. Cell(r.tail, Distance(r.tail, r.head, n) + 1, n) = r.head
      BY ZenonT(40), <1>1, Distances
    <3> QED
      BY <1>3, <3>1 DEF Pos, Count
  <2>2. Count(r, n) + 1 \in 1 .. Count(a, n)
    BY <1>5, <1>6
  <2> QED
    BY <1>3, <2>1, <2>2, ItemsAre
<1>10. r.buf[r.head] \in Nat
  BY <1>1
<1>11. Items(a, n) = Append(Items(r, n), r.buf[r.head])
  BY <1>5, <1>6, <1>7, <1>8, <1>9, <1>10
<1> QED
  BY <1>3, <1>11

LEMMA DistanceTake ==
    ASSUME NEW n \in Nat, n > 1, NEW r \in Ring(n), r.head # r.tail
    PROVE  /\ Distance(Succ(r.tail, n), r.head, n) = Distance(r.tail, r.head, n) - 1
           /\ Distance(r.tail, r.head, n) >= 1
<1> DEFINE t == r.tail
           h == r.head
<1>1. t \in 0 .. n - 1 /\ h \in 0 .. n - 1 /\ t # h
  BY RingFields
<1> HIDE DEF t, h
<1>2. Distance(Succ(t, n), h, n) = Distance(t, h, n) - 1 /\ Distance(t, h, n) >= 1
  BY <1>1 DEF Distance, Succ
<1> QED
  BY <1>2 DEF t, h

\* Advancing the tail takes the first byte off.
LEMMA ItemsTake ==
    ASSUME NEW n \in Nat, n > 1, NEW r \in Ring(n), r.head # r.tail,
           NEW d \in Ring(n), d.tail = Succ(r.tail, n), d.head = r.head, d.buf = r.buf
    PROVE  /\ Items(d, n) = Tail(Items(r, n)) /\ ~Full(d, n)
           /\ Items(r, n) # <<>> /\ Items(r, n)[1] = r.buf[r.tail]
<1>1. /\ n \in Nat /\ n > 1
      /\ r.head \in 0 .. n - 1 /\ r.tail \in 0 .. n - 1 /\ r.buf \in [0 .. n - 1 -> Nat]
  BY RingFields
<1>3. d.tail = Succ(r.tail, n) /\ d.head = r.head /\ d.buf = r.buf /\ d \in Ring(n)
  OBVIOUS
<1>4. Count(d, n) = Count(r, n) - 1 /\ Count(r, n) >= 1
  <2>1. /\ Distance(Succ(r.tail, n), r.head, n) = Distance(r.tail, r.head, n) - 1
        /\ Distance(r.tail, r.head, n) >= 1
    BY DistanceTake
  <2> QED
    BY <1>3, <2>1 DEF Count
<1>5. Items(r, n) \in Seq(Nat) /\ Len(Items(r, n)) = Count(r, n) /\ Count(r, n) \in Nat
  BY ItemsAre
<1>6. Items(d, n) \in Seq(Nat) /\ Len(Items(d, n)) = Count(d, n)
  BY <1>3, ItemsAre
<1>7. ASSUME NEW i \in 1 .. Count(d, n)
      PROVE  Items(d, n)[i] = Items(r, n)[i + 1]
  <2>1. Pos(d, n, i) = Pos(r, n, i + 1) /\ i + 1 \in 1 .. Count(r, n)
    <3>1. i \in 1 .. Distance(r.tail, r.head, n) /\ i + 1 \in 1 .. Distance(r.tail, r.head, n)
      BY <1>4, <1>5 DEF Count
    <3>2. Cell(Succ(r.tail, n), i, n) = Cell(r.tail, i + 1, n)
      BY <1>1, <3>1, Cells
    <3> QED
      BY <1>3, <3>1, <3>2 DEF Pos, Count
  <2> QED
    BY <1>3, <2>1, ItemsAre
<1>8. Items(r, n)[1] = r.buf[r.tail]
  <2>1. Pos(r, n, 1) = r.tail /\ 1 \in 1 .. Count(r, n)
    <3>1. Cell(r.tail, 1, n) = r.tail
      BY <1>1, Distances
    <3> QED
      BY <1>4, <1>5, <3>1 DEF Pos
  <2> QED
    BY <2>1, ItemsAre
<1>9. Items(d, n) = Tail(Items(r, n)) /\ Items(r, n) # <<>>
  BY <1>4, <1>5, <1>6, <1>7
<1>10. ~Full(d, n)
  <2>1. (d.head + 1) % n = Succ(d.head, n)
    BY <1>1, <1>3, SuccIs
  <2>2. Succ(r.head, n) # Succ(r.tail, n)
    BY SMTT(30), <1>1 DEF Succ
  <2> QED
    BY <1>3, <2>1, <2>2 DEF Full
<1> QED
  BY <1>8, <1>9, <1>10
-----------------------------------------------------------------------------
(* Sequences of bytes.                                                     *)

LEMMA ShiftOne ==
    ASSUME NEW h \in Seq(Nat), NEW q \in Seq(Nat), q # <<>>
    PROVE  Append(h, q[1]) \o Tail(q) = h \o q
BY SMTT(30)

LEMMA ConcatAppend ==
    ASSUME NEW h \in Seq(Nat), NEW q \in Seq(Nat), NEW c \in Nat
    PROVE  h \o Append(q, c) = Append(h \o q, c)
OBVIOUS

LEMMA UpToAppend ==
    ASSUME NEW s \in Seq(Nat), NEW n \in Nat, UpTo(s, n)
    PROVE  UpTo(Append(s, n + 1), n + 1)
BY DEF UpTo

\* Order and bounds hold for less of the second part, and for a larger bound.
LEMMA ShorterTail ==
    ASSUME NEW h \in Seq(Nat), NEW p \in Seq(Nat), NEW q \in Seq(Nat), NEW m \in Int, NEW k \in Int,
           Len(p) <= Len(q), \A i \in 1 .. Len(p) : p[i] = q[i],
           Increasing(h \o q), Below(h \o q, m), m <= k
    PROVE  Increasing(h \o p) /\ Below(h \o p, k)
<1> DEFINE s == h \o p
           t == h \o q
<1>1. s \in Seq(Nat) /\ t \in Seq(Nat) /\ Len(s) = Len(h) + Len(p) /\ Len(t) = Len(h) + Len(q)
  OBVIOUS
<1>2. ASSUME NEW i \in 1 .. Len(s)
      PROVE  i \in 1 .. Len(t) /\ s[i] = t[i]
  OBVIOUS
<1>3. Increasing(t) /\ Below(t, m)
  OBVIOUS
<1> HIDE DEF s, t
<1>4. DOMAIN s = 1 .. Len(s) /\ DOMAIN t = 1 .. Len(t)
  BY <1>1
<1>5. Increasing(s)
  BY <1>2, <1>3, <1>4 DEF Increasing
<1>6. Below(s, k)
  <2> SUFFICES ASSUME NEW i \in 1 .. Len(s) PROVE s[i] <= k
    BY <1>4 DEF Below
  <2>1. i \in DOMAIN t /\ s[i] = t[i]
    BY <1>2, <1>4
  <2>2. t[i] <= m
    BY <1>3, <2>1 DEF Below
  <2>3. t[i] \in Nat
    BY SMTT(30), <1>1, <2>1
  <2> QED
    BY <2>1, <2>2, <2>3
<1> QED
  BY <1>5, <1>6 DEF s

LEMMA BelowAppend ==
    ASSUME NEW s \in Seq(Nat), NEW m \in Int, NEW c \in Nat, Below(s, m), m <= c
    PROVE  Below(Append(s, c), c)
BY DEF Below

LEMMA IncreasingNext ==
    ASSUME NEW s \in Seq(Nat), NEW m \in Int, NEW c \in Nat, Increasing(s), Below(s, m), m < c
    PROVE  Increasing(Append(s, c))
BY DEF Below, Increasing

LEMMA NatElement ==
    ASSUME NEW s \in Seq(Nat), NEW i \in 1 .. Len(s)
    PROVE  s[i] \in Nat
OBVIOUS

LEMMA NatSeq ==
    ASSUME NEW m \in Nat, NEW s \in Seq(0 .. m)
    PROVE  s \in Seq(Nat)
OBVIOUS

\* What a full ring holds once its head is reset is the start of what it held.
LEMMA ItemsReset ==
    ASSUME NEW n \in Nat, n > 1, NEW r \in Ring(n), Full(r, n),
           NEW z \in Ring(n), z.head = 0, z.tail = r.tail, z.buf = r.buf
    PROVE  /\ Len(Items(z, n)) <= Len(Items(r, n))
           /\ \A i \in 1 .. Len(Items(z, n)) : Items(z, n)[i] = Items(r, n)[i]
<1>1. /\ n \in Nat /\ n > 1
      /\ r.head \in 0 .. n - 1 /\ r.tail \in 0 .. n - 1 /\ r.buf \in [0 .. n - 1 -> Nat]
  BY RingFields
<1>2. z.head = 0 /\ z.tail = r.tail /\ z.buf = r.buf /\ z \in Ring(n)
  OBVIOUS
<1>3. r.tail = Succ(r.head, n)
  <2>1. (r.head + 1) % n = Succ(r.head, n)
    BY <1>1, SuccIs
  <2> QED
    BY <2>1 DEF Full
<1>4. Distance(r.tail, 0, n) <= Distance(r.tail, r.head, n)
  BY <1>1, <1>3 DEF Distance, Succ
<1>5. Count(z, n) <= Count(r, n)
  BY <1>2, <1>4 DEF Count
<1>6. Count(z, n) \in 0 .. n - 1 /\ Len(Items(z, n)) = Count(z, n)
  BY <1>2, ItemsAre
<1>7. Count(r, n) \in 0 .. n - 1 /\ Len(Items(r, n)) = Count(r, n)
  BY ItemsAre
<1>8. ASSUME NEW i \in 1 .. Count(z, n)
      PROVE  Items(z, n)[i] = Items(r, n)[i]
  <2>1. i \in 1 .. Count(r, n) /\ Pos(z, n, i) = Pos(r, n, i)
    BY <1>2, <1>5, <1>6, <1>7 DEF Pos
  <2>2. Items(r, n)[i] = r.buf[Pos(r, n, i)]
    BY <2>1, ItemsAre
  <2>3. Items(z, n)[i] = z.buf[Pos(z, n, i)]
    BY <1>2, ItemsAre
  <2> QED
    BY <1>2, <2>1, <2>2, <2>3
<1> QED
  BY <1>2, <1>5, <1>6, <1>7, <1>8
-----------------------------------------------------------------------------
(* Types.                                                                  *)

TxRing == [buf : [0 .. TxSize - 1 -> 0 .. MaxPuts], head : 0 .. TxSize - 1, tail : 0 .. TxSize - 1]
RxRing == [buf : [0 .. RxSize - 1 -> 0 .. MaxArrivals], head : 0 .. RxSize - 1, tail : 0 .. RxSize - 1]

LEMMA Sizes ==
    /\ TxSize \in Nat /\ TxSize > 1 /\ RxSize \in Nat /\ RxSize > 1
    /\ MaxPuts \in Nat /\ MaxGets \in Nat /\ MaxArrivals \in Nat
    /\ 0 \in 0 .. TxSize - 1 /\ 0 \in 0 .. RxSize - 1
    /\ 0 \in 0 .. MaxPuts /\ 0 \in 0 .. MaxGets /\ 0 \in 0 .. MaxArrivals
BY SerialAssumption

\* The type of each variable by itself.
LEMMA Types ==
    ASSUME TypeOK
    PROVE  /\ tx \in TxRing /\ rx \in RxRing /\ uart \in UartType
           /\ char \in 0 .. MaxArrivals /\ reg \in 0 .. RxSize - 1
           /\ puts \in 0 .. MaxPuts /\ gets \in 0 .. MaxGets /\ arrived \in 0 .. MaxArrivals
           /\ wire \in Seq(0 .. MaxPuts) /\ got \in Seq(0 .. MaxArrivals)
           /\ empty \in BOOLEAN /\ abort \in BOOLEAN
BY DEF TypeOK, TxRing, RxRing

LEMMA EmptyRings == EmptyRing(TxSize) \in TxRing /\ EmptyRing(RxSize) \in RxRing
BY Sizes DEF EmptyRing, TxRing, RxRing

LEMMA OffTyped ==
    /\ Off \in UartType /\ [Off EXCEPT !.rxie = TRUE] \in UartType
    /\ Off.rx = 0 /\ [Off EXCEPT !.rxie = TRUE].rx = 0
<1>1. Off \in UartType /\ Off.rx = 0
  BY Sizes DEF Off, UartType
<1> QED
  BY <1>1 DEF UartType

LEMMA EnablesTyped ==
    ASSUME uart \in UartType, NEW r \in BOOLEAN, NEW t \in BOOLEAN
    PROVE  /\ Enables(r, t) \in UartType /\ [Enables(r, t) EXCEPT !.force = TRUE] \in UartType
           /\ Enables(r, t).rx = uart.rx /\ [Enables(r, t) EXCEPT !.force = TRUE].rx = uart.rx
BY DEF Enables, UartType

\* What the handler leaves of the receive buffer, the transmit buffer and the UART.
LEMMA HandlerTyped ==
    ASSUME TypeOK, NEW brk \in BOOLEAN, on_uart_irq(brk)
    PROVE  TypeOK'
<1>0. /\ tx \in TxRing /\ rx \in RxRing /\ uart \in UartType /\ wire \in Seq(0 .. MaxPuts)
  BY Types
<1>1. rx' \in RxRing
  <2>1. CASE uart.rx = 0
    BY <1>0, <2>1 DEF on_uart_irq
  <2>2. CASE uart.rx # 0
    <3> DEFINE stored == [rx EXCEPT !.buf[rx.head] = uart.rx]
    <3>1. stored \in RxRing
      BY <1>0 DEF RxRing, UartType
    <3>2. rx.head \in 0 .. RxSize - 1 /\ rx.tail \in 0 .. RxSize - 1
      BY <1>0 DEF RxRing
    <3>3. (rx.head + 1) % RxSize \in 0 .. RxSize - 1 /\ (rx.tail + 1) % RxSize \in 0 .. RxSize - 1
      BY <3>2, Sizes, SuccIs
    <3>4. rx' = Received(uart.rx, brk)
      BY <2>2 DEF on_uart_irq
    <3>5. \/ rx' = [stored EXCEPT !.head = rx.tail]
          \/ rx' = [stored EXCEPT !.head = (rx.head + 1) % RxSize,
                                  !.tail = IF (rx.head + 1) % RxSize = rx.tail
                                           THEN (rx.tail + 1) % RxSize ELSE rx.tail]
      BY <3>4 DEF Received
    <3> HIDE DEF stored
    <3>6. [stored EXCEPT !.head = rx.tail] \in RxRing
      BY <3>1, <3>2 DEF RxRing
    <3>7. ASSUME NEW h \in 0 .. RxSize - 1, NEW l \in 0 .. RxSize - 1
          PROVE  [stored EXCEPT !.head = h, !.tail = l] \in RxRing
      BY <3>1 DEF RxRing
    <3> QED
      BY <3>2, <3>3, <3>5, <3>6, <3>7
  <2> QED
    BY <2>1, <2>2
<1> DEFINE u == [uart EXCEPT !.rx = 0, !.force = FALSE]
<1>2. u \in UartType
  <2>1. ASSUME NEW z \in 0 .. MaxArrivals
        PROVE  [uart EXCEPT !.rx = z, !.force = FALSE] \in UartType
    BY <1>0 DEF UartType
  <2> QED
    BY <2>1, Sizes
<1>3. Transmit(u)
  BY DEF on_uart_irq
<1> HIDE DEF u
<1>4. uart' \in UartType
  <2>1. \/ uart' = u \/ uart' = [u EXCEPT !.busy = TRUE, !.txris = FALSE]
        \/ uart' = [u EXCEPT !.rxie = TRUE, !.txie = FALSE]
    BY <1>3 DEF Transmit
  <2> QED
    BY <1>2, <2>1 DEF UartType
<1>5. tx' \in TxRing /\ wire' \in Seq(0 .. MaxPuts)
  <2>1. \/ tx' = tx /\ wire' = wire
        \/ wire' = Append(wire, tx.buf[tx.tail]) /\ tx' = [tx EXCEPT !.tail = (tx.tail + 1) % TxSize]
    BY <1>3 DEF Transmit
  <2>2. tx.tail \in 0 .. TxSize - 1 /\ tx.buf[tx.tail] \in 0 .. MaxPuts
    BY <1>0 DEF TxRing
  <2>3. (tx.tail + 1) % TxSize \in 0 .. TxSize - 1
    BY <2>2, Sizes, SuccIs
  <2>4. [tx EXCEPT !.tail = (tx.tail + 1) % TxSize] \in TxRing
    BY <1>0, <2>3 DEF TxRing
  <2>5. Append(wire, tx.buf[tx.tail]) \in Seq(0 .. MaxPuts)
    BY <1>0, <2>2
  <2> QED
    BY <1>0, <2>1, <2>4, <2>5
<1>6. abort' \in BOOLEAN /\ windows' \subseteq {"dropped", "cleared", "wake", "break"}
  BY DEF on_uart_irq, TypeOK
<1> QED
  BY <1>1, <1>4, <1>5, <1>6 DEF on_uart_irq, TypeOK, TxRing, RxRing, program

LEMMA InitTyped == Init => TypeOK
<1> SUFFICES ASSUME Init PROVE TypeOK
  OBVIOUS
<1>1. tx \in TxRing /\ rx \in RxRing /\ uart \in UartType
  BY EmptyRings, OffTyped DEF Init
<1>2. wire \in Seq(0 .. MaxPuts) /\ got \in Seq(0 .. MaxArrivals)
  BY DEF Init
<1>3. /\ char \in 0 .. MaxArrivals /\ reg \in 0 .. RxSize - 1
      /\ puts \in 0 .. MaxPuts /\ gets \in 0 .. MaxGets /\ arrived \in 0 .. MaxArrivals
  BY Sizes DEF Init
<1> QED
  BY <1>1, <1>2, <1>3 DEF Init, TypeOK, TxRing, RxRing

LEMMA NextTyped == TypeOK /\ [Next]_vars => TypeOK'
<1> SUFFICES ASSUME TypeOK, [Next]_vars PROVE TypeOK'
  OBVIOUS
<1>0. /\ tx \in TxRing /\ rx \in RxRing /\ uart \in UartType
      /\ char \in 0 .. MaxArrivals /\ reg \in 0 .. RxSize - 1
      /\ puts \in 0 .. MaxPuts /\ gets \in 0 .. MaxGets /\ arrived \in 0 .. MaxArrivals
      /\ wire \in Seq(0 .. MaxPuts) /\ got \in Seq(0 .. MaxArrivals)
      /\ empty \in BOOLEAN /\ abort \in BOOLEAN
  BY Types
<1>1. CASE UNCHANGED vars
  BY <1>1 DEF vars, program, history, TypeOK
<1>2. CASE SerialOpen
  <2>1. tx' \in TxRing /\ rx' \in RxRing /\ uart' \in UartType
    BY <1>2, EmptyRings, OffTyped DEF SerialOpen
  <2> QED
    BY <1>2, <2>1 DEF SerialOpen, TypeOK, TxRing, RxRing, history
<1>3. CASE SerialClose
  <2>1. tx' \in TxRing /\ rx' \in RxRing /\ uart' \in UartType
    BY <1>3, EmptyRings, OffTyped DEF SerialClose
  <2> QED
    BY <1>3, <2>1 DEF SerialClose, TypeOK, TxRing, RxRing
<1>4. CASE PutBegin
  <2>1. puts' \in 0 .. MaxPuts
    BY <1>0, <1>4, Sizes DEF PutBegin
  <2> QED
    BY <1>4, <2>1 DEF PutBegin, TypeOK
<1>5. CASE GetBegin
  <2>1. gets' \in 0 .. MaxGets
    BY <1>0, <1>5, Sizes DEF GetBegin
  <2>2. uart' \in UartType
    BY <1>0, <1>5, EnablesTyped DEF GetBegin
  <2> QED
    BY <1>5, <2>1, <2>2 DEF GetBegin, TypeOK
<1>6. CASE SerialRxStatus
  <2>1. uart' \in UartType
    BY <1>0, <1>6, EnablesTyped DEF SerialRxStatus
  <2> QED
    BY <1>6, <2>1 DEF SerialRxStatus, TypeOK, program, history
<1>7. CASE Settle
  <2>1. tx' \in TxRing /\ rx' \in RxRing
    BY <1>0, <1>7, Sizes DEF Settle, TxRing, RxRing
  <2> QED
    BY <1>7, <2>1 DEF Settle, TypeOK, TxRing, RxRing
<1>8. CASE Room
  BY <1>0, <1>8 DEF Room, TypeOK, history
<1>9. CASE AbortHead
  <2>1. tx' \in TxRing
    BY <1>0, <1>9, Sizes DEF AbortHead, TxRing
  <2> QED
    BY <1>9, <2>1 DEF AbortHead, TypeOK, TxRing
<1>10. CASE AbortTail
  <2>1. tx' \in TxRing
    BY <1>0, <1>10, Sizes DEF AbortTail, TxRing
  <2> QED
    BY <1>10, <2>1 DEF AbortTail, TypeOK, TxRing, history
<1>11. CASE Store
  <2>1. tx' \in TxRing
    BY <1>0, <1>11 DEF Store, TxRing
  <2> QED
    BY <1>11, <2>1 DEF Store, TypeOK, TxRing, history
<1>12. CASE Advance
  <2>1. tx.head \in 0 .. TxSize - 1
    BY <1>0 DEF TxRing
  <2>2. (tx.head + 1) % TxSize \in 0 .. TxSize - 1
    BY <2>1, Sizes, SuccIs
  <2>3. tx' \in TxRing
    BY <1>0, <1>12, <2>2 DEF Advance, TxRing
  <2> QED
    BY <1>12, <2>3 DEF Advance, TypeOK, TxRing
<1>13. CASE Kick
  <2>1. uart' \in UartType
    BY <1>0, <1>13, EnablesTyped DEF Kick
  <2> QED
    BY <1>13, <2>1 DEF Kick, TypeOK, history
<1>14. CASE GetNothing
  <2>1. uart' \in UartType
    BY <1>0, <1>14, EnablesTyped DEF GetNothing
  <2> QED
    BY <1>14, <2>1 DEF GetNothing, TypeOK, history
<1>15. CASE GetChar
  <2>1. char' \in 0 .. MaxArrivals
    BY <1>0, <1>15 DEF GetChar, RxRing
  <2> QED
    BY <1>15, <2>1 DEF GetChar, TypeOK, history
<1>16. CASE GetLoad
  <2>1. reg' \in 0 .. RxSize - 1
    BY <1>0, <1>16 DEF GetLoad, RxRing
  <2> QED
    BY <1>16, <2>1 DEF GetLoad, TypeOK, history
<1>17. CASE GetStore
  <2>1. (reg + 1) % RxSize \in 0 .. RxSize - 1
    BY <1>0, Sizes, SuccIs
  <2>2. rx' \in RxRing
    BY <1>0, <1>17, <2>1 DEF GetStore, RxRing
  <2>3. uart' \in UartType
    BY <1>0, <1>17, EnablesTyped DEF GetStore
  <2>4. got' \in Seq(0 .. MaxArrivals)
    BY <1>0, <1>17 DEF GetStore
  <2>5. char' \in 0 .. MaxArrivals /\ reg' \in 0 .. RxSize - 1
    BY <1>17, Sizes DEF GetStore
  <2> QED
    BY <1>17, <2>2, <2>3, <2>4, <2>5 DEF GetStore, TypeOK, RxRing
<1>18. CASE Handler
  BY <1>18, HandlerTyped DEF Handler
<1>19. CASE Sent
  <2>1. uart' \in UartType
    BY <1>0, <1>19 DEF Sent, UartType
  <2> QED
    BY <1>19, <2>1 DEF Sent, TypeOK, program, history
<1>20. CASE Arrive
  <2>1. arrived' \in 0 .. MaxArrivals
    BY SMTT(30), <1>0, <1>20, Sizes DEF Arrive
  <2>2. uart' \in UartType
    BY <1>0, <1>20, <2>1 DEF Arrive, UartType
  <2> QED
    BY <1>20, <2>1, <2>2 DEF Arrive, TypeOK, program
<1>21. CASE CtrlC
  BY <1>21 DEF CtrlC, TypeOK, program, history
<1> QED
  BY <1>1, <1>2, <1>3, <1>4, <1>5, <1>6, <1>7, <1>8, <1>9, <1>10, <1>11, <1>12, <1>13, <1>14,
     <1>15, <1>16, <1>17, <1>18, <1>19, <1>20, <1>21 DEF Next, Resume

-----------------------------------------------------------------------------
(* The bytes on the line.                                                  *)

LEMMA TxRings ==
    ASSUME NEW r \in TxRing
    PROVE  /\ TxSize \in Nat /\ TxSize > 1 /\ r \in Ring(TxSize)
           /\ Items(r, TxSize) \in Seq(Nat)
<1>1. TxSize \in Nat /\ TxSize > 1
  BY Sizes
<1>2. r \in Ring(TxSize)
  BY Sizes DEF TxRing, Ring
<1> QED
  BY <1>1, <1>2, ItemsAre

LEMMA TxTypes ==
    ASSUME TypeOK
    PROVE  /\ TxSize \in Nat /\ TxSize > 1 /\ tx \in Ring(TxSize) /\ wire \in Seq(Nat)
           /\ Items(tx, TxSize) \in Seq(Nat) /\ Queued \in Seq(Nat)
           /\ puts \in Nat /\ Stored \in Int
<1>1. /\ TxSize \in Nat /\ TxSize > 1 /\ tx \in Ring(TxSize)
      /\ Items(tx, TxSize) \in Seq(Nat)
  BY Types, TxRings
<1>2. wire \in Seq(Nat)
  BY Sizes, Types, NatSeq
<1>3. puts \in Nat /\ Stored \in Int
  BY Types DEF Stored
<1> QED
  BY <1>1, <1>2, <1>3 DEF Queued

\* A step that leaves the queue as it is, and what counts as queued.
LEMMA QueueKept ==
    ASSUME WireInv, Queued' = Queued, Stored' = Stored, windows \subseteq windows'
    PROVE  /\ Increasing(Queued') /\ Below(Queued', Stored')
           /\ "cleared" \notin windows' => UpTo(Queued', Stored')
BY DEF WireInv

\* A step that clears some of the queue.
LEMMA QueueCleared ==
    ASSUME TypeOK, TypeOK', WireInv, wire' = wire, Stored <= Stored',
           Len(Items(tx', TxSize)) <= Len(Items(tx, TxSize)),
           \A i \in 1 .. Len(Items(tx', TxSize)) : Items(tx', TxSize)[i] = Items(tx, TxSize)[i]
    PROVE  Increasing(Queued') /\ Below(Queued', Stored')
<1> DEFINE q == Items(tx, TxSize)
           z == Items(tx', TxSize)
<1>1. q \in Seq(Nat) /\ z \in Seq(Nat) /\ wire \in Seq(Nat) /\ Stored \in Int /\ Stored' \in Int
  <2>1. tx' \in TxRing /\ puts' \in 0 .. MaxPuts
    BY DEF TypeOK, TxRing
  <2>2. z \in Seq(Nat)
    BY <2>1, TxRings
  <2>3. Stored' \in Int
    BY <2>1 DEF Stored
  <2> QED
    BY <2>2, <2>3, TxTypes
<1>2. Queued = wire \o q /\ Queued' = wire \o z
  BY DEF Queued
<1> HIDE DEF q, z
<1>3. Len(z) <= Len(q) /\ \A i \in 1 .. Len(z) : z[i] = q[i]
  BY DEF q, z
<1>4. Increasing(wire \o q) /\ Below(wire \o q, Stored)
  BY <1>2 DEF WireInv
<1> QED
  BY <1>1, <1>2, <1>3, <1>4, ShorterTail

\* Steps that have nothing to do with sending.
LEMMA WireUntouched ==
    ASSUME WireInv, UNCHANGED <<tx, wire, puts, windows>>,
           \/ pc' = pc
           \/ pc \in {"idle", "kick", "get", "load", "tail"} /\ pc' \in {"idle", "kick", "get", "load", "tail"}
    PROVE  WireInv'
<1>1. Queued' = Queued /\ Stored' = Stored
  BY DEF Queued, Stored
<1>2. /\ Increasing(Queued') /\ Below(Queued', Stored')
      /\ "cleared" \notin windows' => UpTo(Queued', Stored')
  BY <1>1, QueueKept
<1> QED
  BY <1>2 DEF WireInv

\* An empty ring, however it came to be empty.
LEMMA TxEmpty ==
    ASSUME NEW r \in TxRing, r.head = r.tail
    PROVE  Items(r, TxSize) = <<>>
BY TxRings, ItemsEmpty

LEMMA SendWire ==
    ASSUME TypeOK, TypeOK', WireInv,
           SerialOpen \/ SerialClose \/ PutBegin \/ Settle \/ Room \/ AbortHead \/ AbortTail
             \/ Store \/ Advance
    PROVE  WireInv'
<1>0. /\ TxSize \in Nat /\ TxSize > 1 /\ tx \in Ring(TxSize) /\ wire \in Seq(Nat)
      /\ Items(tx, TxSize) \in Seq(Nat) /\ Queued \in Seq(Nat)
      /\ puts \in Nat /\ Stored \in Int
  BY TxTypes
<1>00. tx \in TxRing /\ tx' \in TxRing /\ windows \subseteq windows'
  BY DEF TypeOK, TxRing, SerialOpen, SerialClose, PutBegin, Settle, Room, AbortHead, AbortTail,
         Store, Advance, history
<1>1. ASSUME tx.head = tx.tail, tx'.head = tx'.tail, wire' = wire
      PROVE  Queued' = Queued
  BY <1>00, <1>1, TxEmpty DEF Queued
<1>2. CASE SerialOpen
  <2>1. tx.head = tx.tail /\ tx'.head = tx'.tail
    BY <1>2 DEF SerialOpen, At, WireInv, EmptyRing
  <2>2. Queued' = Queued /\ Stored' = Stored
    BY <1>1, <1>2, <2>1 DEF SerialOpen, At, Stored, history
  <2>3. /\ Increasing(Queued') /\ Below(Queued', Stored')
        /\ "cleared" \notin windows' => UpTo(Queued', Stored')
    BY <1>00, <2>2, QueueKept
  <2> QED
    BY <1>2, <2>1, <2>3 DEF SerialOpen, WireInv
<1>3. CASE SerialClose
  <2>1. tx'.head = tx'.tail
    BY <1>3 DEF SerialClose, EmptyRing
  <2>2. Items(tx', TxSize) = <<>>
    BY <1>00, <2>1, TxEmpty
  <2>3. Stored' = Stored
    BY <1>3 DEF SerialClose, At, Stored
  <2>4. Increasing(Queued') /\ Below(Queued', Stored')
    BY <1>0, <1>3, <2>2, <2>3, QueueCleared DEF SerialClose
  <2> QED
    BY <1>3, <2>1, <2>4 DEF SerialClose, WireInv
<1>4. CASE PutBegin
  <2>1. Queued' = Queued /\ Stored' = Stored
    BY <1>0, <1>4 DEF PutBegin, At, Queued, Stored
  <2>2. /\ Increasing(Queued') /\ Below(Queued', Stored')
        /\ "cleared" \notin windows' => UpTo(Queued', Stored')
    BY <1>00, <2>1, QueueKept
  <2> QED
    BY <1>0, <1>4, <2>2 DEF PutBegin, WireInv
<1>5. CASE Settle
  <2>1. tx.head = tx.tail
    BY <1>5 DEF Settle, At, WireInv
  <2>2. tx'.head = tx'.tail
    BY <1>00, <1>5 DEF Settle, TxRing
  <2>3. Queued' = Queued /\ Stored' = Stored
    BY <1>1, <1>5, <2>1, <2>2 DEF Settle, At, Stored
  <2>4. /\ Increasing(Queued') /\ Below(Queued', Stored')
        /\ "cleared" \notin windows' => UpTo(Queued', Stored')
    BY <1>00, <2>3, QueueKept
  <2> QED
    BY <1>5, <2>4 DEF Settle, WireInv
<1>6. CASE Room
  <2>1. Queued' = Queued /\ Stored' = Stored /\ puts >= 1 /\ pc' = "store" /\ UNCHANGED puts
    BY <1>6 DEF Room, At, Queued, Stored, history, WireInv
  <2>2. /\ Increasing(Queued') /\ Below(Queued', Stored')
        /\ "cleared" \notin windows' => UpTo(Queued', Stored')
    BY <1>00, <2>1, QueueKept
  <2> QED
    BY <2>1, <2>2 DEF WireInv
<1>7. CASE AbortHead
  <2>1. /\ Full(tx, TxSize) /\ tx'.head = 0 /\ tx'.tail = tx.tail /\ tx'.buf = tx.buf
        /\ tx' \in Ring(TxSize)
    BY <1>00, <1>7, TxRings DEF AbortHead, TxRing
  <2>2. /\ Len(Items(tx', TxSize)) <= Len(Items(tx, TxSize))
        /\ \A i \in 1 .. Len(Items(tx', TxSize)) : Items(tx', TxSize)[i] = Items(tx, TxSize)[i]
    BY <1>0, <2>1, ItemsReset
  <2>3. Stored <= Stored'
    BY <1>0, <1>7 DEF AbortHead, At, Stored
  <2>4. Increasing(Queued') /\ Below(Queued', Stored')
    BY <1>7, <2>2, <2>3, QueueCleared DEF AbortHead
  <2> QED
    BY <1>7, <2>1, <2>4 DEF AbortHead, WireInv
<1>8. CASE AbortTail
  <2>1. tx'.head = tx'.tail
    BY <1>00, <1>8 DEF AbortTail, At, WireInv, TxRing
  <2>2. Items(tx', TxSize) = <<>>
    BY <1>00, <2>1, TxEmpty
  <2>3. Stored' = Stored
    BY <1>8 DEF AbortTail, At, Stored, history
  <2>4. Increasing(Queued') /\ Below(Queued', Stored')
    <3>1. wire' = wire /\ Stored <= Stored'
      BY <1>0, <1>8, <2>3 DEF AbortTail, history
    <3>2. /\ Len(Items(tx', TxSize)) <= Len(Items(tx, TxSize))
          /\ \A i \in 1 .. Len(Items(tx', TxSize)) : Items(tx', TxSize)[i] = Items(tx, TxSize)[i]
      BY <1>0, <2>2
    <3> QED
      BY <3>1, <3>2, QueueCleared
  <2> QED
    BY <1>8, <2>4 DEF AbortTail, At, WireInv, history
<1>9. CASE Store
  <2>1. tx' = [tx EXCEPT !.buf[tx.head] = puts]
    BY <1>9 DEF Store
  <2>2. /\ tx'.head = tx.head /\ tx'.tail = tx.tail /\ tx'.buf = [tx.buf EXCEPT ![tx.head] = puts]
        /\ tx' \in Ring(TxSize)
    <3>1. tx' \in Ring(TxSize)
      BY <1>00, TxRings
    <3>2. /\ tx'.head = tx.head /\ tx'.tail = tx.tail
          /\ tx'.buf = [tx.buf EXCEPT ![tx.head] = puts]
      BY <1>00, <2>1 DEF TxRing
    <3> QED
      BY <3>1, <3>2
  <2>22. Items(tx', TxSize) = Items(tx, TxSize) /\ tx'.buf[tx'.head] = puts
    <3>1. TxSize \in Nat /\ TxSize > 1 /\ tx \in Ring(TxSize) /\ puts \in Nat
      BY <1>0
    <3>2. tx' \in Ring(TxSize) /\ tx'.head = tx.head /\ tx'.tail = tx.tail
      BY <2>2
    <3>3. tx'.buf = [tx.buf EXCEPT ![tx.head] = puts]
      BY <2>2
    <3> QED
      BY <3>1, <3>2, <3>3, ItemsWrite
  <2>3. Queued' = Queued /\ Stored' = Stored
    BY <1>9, <2>22 DEF Store, At, Queued, Stored, history
  <2>4. ~Full(tx', TxSize)
    BY <1>9, <2>2 DEF Store, Full
  <2>5. /\ Increasing(Queued') /\ Below(Queued', Stored')
        /\ "cleared" \notin windows' => UpTo(Queued', Stored')
    BY <1>00, <2>3, QueueKept
  <2> QED
    BY <1>9, <2>22, <2>4, <2>5 DEF Store, At, WireInv, history
<1>10. CASE Advance
  <2>1. /\ tx' = [tx EXCEPT !.head = (tx.head + 1) % TxSize] /\ wire' = wire /\ puts' = puts
        /\ pc = "advance" /\ pc' = "kick"
    BY <1>10 DEF Advance, At
  <2>2. ~Full(tx, TxSize) /\ tx.buf[tx.head] = puts /\ puts >= 1
    BY <2>1 DEF WireInv
  <2>3. Items(tx', TxSize) = Append(Items(tx, TxSize), puts)
    <3>1. /\ tx'.head = (tx.head + 1) % TxSize /\ tx'.tail = tx.tail /\ tx'.buf = tx.buf
          /\ tx' \in Ring(TxSize)
      BY <1>00, <2>1, TxRings DEF TxRing
    <3>3. tx.head \in 0 .. TxSize - 1
      BY <1>00 DEF TxRing
    <3>4. tx'.head = Succ(tx.head, TxSize)
      BY <1>0, <3>1, <3>3, SuccIs
    <3>2. Items(tx', TxSize) = Append(Items(tx, TxSize), tx.buf[tx.head])
      BY <1>0, <2>2, <3>1, <3>4, ItemsAdvance
    <3> QED
      BY <2>2, <3>2
  <2>4. Queued' = Append(Queued, puts)
    <3>1. wire \o Append(Items(tx, TxSize), puts) = Append(wire \o Items(tx, TxSize), puts)
      BY <1>0, ConcatAppend
    <3> QED
      BY <2>1, <2>3, <3>1 DEF Queued
  <2>5. Stored = puts - 1 /\ Stored' = puts /\ Stored < puts /\ Stored <= puts
    BY <1>0, <2>1 DEF Stored
  <2>6. Increasing(Queued) /\ Below(Queued, Stored)
    BY DEF WireInv
  <2>7. Increasing(Queued') /\ Below(Queued', Stored')
    BY <1>0, <2>4, <2>5, <2>6, IncreasingNext, BelowAppend
  <2>8. "cleared" \notin windows' => UpTo(Queued', Stored')
    <3> SUFFICES ASSUME "cleared" \notin windows' PROVE UpTo(Queued', Stored')
      OBVIOUS
    <3>1. UpTo(Queued, Stored) /\ Stored \in Nat /\ Stored + 1 = puts
      BY <1>0, <1>00, <2>2, <2>5 DEF WireInv
    <3>2. UpTo(Append(Queued, Stored + 1), Stored + 1)
      BY <1>0, <3>1, UpToAppend
    <3> QED
      BY <2>4, <2>5, <3>1, <3>2
  <2> QED
    BY <2>1, <2>7, <2>8 DEF WireInv
<1> QED
  BY <1>2, <1>3, <1>4, <1>5, <1>6, <1>7, <1>8, <1>9, <1>10

\* The handler moves the first byte of the queue to the line.
LEMMA HandlerWire ==
    ASSUME TypeOK, TypeOK', WireInv, NEW brk \in BOOLEAN, on_uart_irq(brk)
    PROVE  WireInv'
<1>0. /\ TxSize \in Nat /\ TxSize > 1 /\ tx \in Ring(TxSize) /\ wire \in Seq(Nat)
      /\ Items(tx, TxSize) \in Seq(Nat)
  BY TxTypes
<1>00. tx' \in Ring(TxSize)
  <2>1. tx' \in TxRing
    BY DEF TypeOK, TxRing
  <2> QED
    BY <2>1, TxRings
<1>1. windows \subseteq windows' /\ pc' = pc /\ puts' = puts
  BY DEF on_uart_irq, program
<1>2. Stored' = Stored
  BY <1>1 DEF Stored
<1>3. CASE UNCHANGED <<tx, wire>>
  <2>1. Queued' = Queued
    BY <1>3 DEF Queued
  <2>2. /\ Increasing(Queued') /\ Below(Queued', Stored')
        /\ "cleared" \notin windows' => UpTo(Queued', Stored')
    BY <1>1, <1>2, <2>1, QueueKept
  <2> QED
    BY <1>1, <1>3, <2>2 DEF WireInv
<1>4. CASE /\ tx.head # tx.tail /\ wire' = Append(wire, tx.buf[tx.tail])
           /\ tx' = [tx EXCEPT !.tail = (tx.tail + 1) % TxSize]
  <2>4. tx'.head = tx.head /\ tx'.buf = tx.buf /\ tx'.tail = Succ(tx.tail, TxSize)
    <3>1. tx'.head = tx.head /\ tx'.buf = tx.buf /\ tx'.tail = (tx.tail + 1) % TxSize
      BY <1>0, <1>4 DEF Ring
    <3>2. tx.tail \in 0 .. TxSize - 1
      BY <1>0 DEF Ring
    <3> QED
      BY <1>0, <3>1, <3>2, SuccIs
  <2>1. /\ Items(tx', TxSize) = Tail(Items(tx, TxSize)) /\ ~Full(tx', TxSize)
        /\ Items(tx, TxSize) # <<>> /\ Items(tx, TxSize)[1] = tx.buf[tx.tail]
    BY <1>0, <1>00, <1>4, <2>4, ItemsTake
  <2>2. Queued' = Queued
    BY <1>0, <1>4, <2>1, ShiftOne DEF Queued
  <2>3. /\ Increasing(Queued') /\ Below(Queued', Stored')
        /\ "cleared" \notin windows' => UpTo(Queued', Stored')
    BY <1>1, <1>2, <2>2, QueueKept
  <2> QED
    BY <1>1, <1>4, <2>1, <2>3, <2>4 DEF WireInv
<1> QED
  BY <1>3, <1>4 DEF on_uart_irq, Transmit

LEMMA InitWire == Init => WireInv
<1> SUFFICES ASSUME Init PROVE WireInv
  OBVIOUS
<1>1. tx \in TxRing /\ tx.head = tx.tail
  BY EmptyRings DEF Init, EmptyRing
<1>2. Queued = <<>>
  BY <1>1, TxEmpty DEF Init, Queued
<1>3. Stored = 0
  BY DEF Init, Stored
<1> QED
  BY <1>1, <1>2, <1>3 DEF Init, WireInv, Increasing, Below, UpTo

LEMMA NextWire ==
    ASSUME TypeOK, TypeOK', WireInv, [Next]_vars
    PROVE  WireInv'
<1>1. CASE UNCHANGED vars
  BY <1>1, WireUntouched DEF vars, program, history
<1>2. CASE GetBegin
  BY <1>2, WireUntouched DEF GetBegin, At
<1>3. CASE SerialRxStatus \/ Sent \/ Arrive \/ CtrlC
  BY <1>3, WireUntouched DEF SerialRxStatus, Sent, Arrive, CtrlC, program, history
<1>4. CASE Kick \/ GetNothing \/ GetChar \/ GetLoad
  BY <1>4, WireUntouched DEF Kick, GetNothing, GetChar, GetLoad, At, history
<1>5. CASE GetStore
  BY <1>5, WireUntouched DEF GetStore, At
<1> QED
  BY <1>1, <1>2, <1>3, <1>4, <1>5, SendWire, HandlerWire DEF Next, Resume, Handler
-----------------------------------------------------------------------------
(* The bytes the program reads.                                            *)

\* A byte is stored and the head advanced, whatever the tail: a full ring
\* becomes an empty one.
LEMMA ItemsPush ==
    ASSUME NEW n \in Nat, n > 1, NEW r \in Ring(n), NEW c \in Nat,
           NEW w \in Ring(n), w.head = Succ(r.head, n), w.tail = r.tail,
           w.buf = [r.buf EXCEPT ![r.head] = c]
    PROVE  /\ Full(r, n) => Items(w, n) = <<>>
           /\ ~Full(r, n) => Items(w, n) = Append(Items(r, n), c)
<1>1. /\ n \in Nat /\ n > 1
      /\ r.head \in 0 .. n - 1 /\ r.tail \in 0 .. n - 1 /\ r.buf \in [0 .. n - 1 -> Nat]
  BY RingFields
<1>2. (r.head + 1) % n = Succ(r.head, n)
  BY <1>1, SuccIs
<1>3. CASE Full(r, n)
  <2>1. w.head = w.tail
    BY <1>2, <1>3 DEF Full
  <2> QED
    BY <1>3, <2>1, ItemsEmpty
<1>4. CASE ~Full(r, n)
  <2> DEFINE m == [r EXCEPT !.buf = w.buf]
  <2>1. m \in Ring(n) /\ m.head = r.head /\ m.tail = r.tail /\ m.buf = w.buf
    BY DEF Ring
  <2> HIDE DEF m
  <2>2. m.buf = [r.buf EXCEPT ![r.head] = c]
    BY <2>1
  <2>3. Items(m, n) = Items(r, n) /\ m.buf[m.head] = c
    BY <2>1, <2>2, ItemsWrite
  <2>4. ~Full(m, n)
    BY <1>4, <2>1 DEF Full
  <2>5. w.head = Succ(m.head, n) /\ w.tail = m.tail /\ w.buf = m.buf
    BY <2>1
  <2>6. Items(w, n) = Append(Items(m, n), m.buf[m.head])
    BY <2>1, <2>4, <2>5, ItemsAdvance
  <2> QED
    BY <1>4, <2>3, <2>6
<1> QED
  BY <1>3, <1>4

\* The handler's way with a full ring: the oldest byte makes room.
LEMMA ItemsPushOut ==
    ASSUME NEW n \in Nat, n > 1, NEW r \in Ring(n), NEW c \in Nat, Full(r, n),
           NEW w \in Ring(n), w.head = Succ(r.head, n), w.tail = Succ(r.tail, n),
           w.buf = [r.buf EXCEPT ![r.head] = c]
    PROVE  Items(r, n) # <<>> /\ Items(w, n) = Append(Tail(Items(r, n)), c)
<1>1. /\ n \in Nat /\ n > 1
      /\ r.head \in 0 .. n - 1 /\ r.tail \in 0 .. n - 1 /\ r.buf \in [0 .. n - 1 -> Nat]
  BY RingFields
<1>2. (r.head + 1) % n = Succ(r.head, n) /\ Succ(r.tail, n) \in 0 .. n - 1
  BY <1>1, SuccIs
<1>3. r.head # r.tail
  <2>1. Succ(r.head, n) # r.head
    BY <1>1 DEF Succ
  <2> QED
    BY <1>2, <2>1 DEF Full
<1> DEFINE d == [r EXCEPT !.tail = Succ(r.tail, n)]
<1>4. d \in Ring(n) /\ d.head = r.head /\ d.tail = Succ(r.tail, n) /\ d.buf = r.buf
  BY <1>2 DEF Ring
<1> HIDE DEF d
<1>5. Items(d, n) = Tail(Items(r, n)) /\ ~Full(d, n) /\ Items(r, n) # <<>>
  BY <1>3, <1>4, ItemsTake
<1>6. w.head = Succ(d.head, n) /\ w.tail = d.tail /\ w.buf = [d.buf EXCEPT ![d.head] = c]
  BY <1>4
<1>7. ~Full(d, n) => Items(w, n) = Append(Items(d, n), c)
  BY <1>4, <1>6, ItemsPush
<1> QED
  BY <1>5, <1>7

\* Order and bounds, with a later byte at the end.
LEMMA OrderAppend ==
    ASSUME NEW h \in Seq(Nat), NEW q \in Seq(Nat), NEW m \in Int, NEW c \in Nat,
           Increasing(h \o q), Below(h \o q, m), m < c
    PROVE  Increasing(h \o Append(q, c)) /\ Below(h \o Append(q, c), c)
<1> DEFINE s == h \o q
<1>1. s \in Seq(Nat) /\ Increasing(s) /\ Below(s, m)
  OBVIOUS
<1>2. h \o Append(q, c) = Append(s, c)
  BY ConcatAppend
<1> HIDE DEF s
<1>3. m <= c
  OBVIOUS
<1>4. Increasing(Append(s, c)) /\ Below(Append(s, c), c)
  BY <1>1, <1>3, IncreasingNext, BelowAppend
<1> QED
  BY <1>2, <1>4

\* Order and bounds, without the first byte of the second part.
LEMMA OrderTail ==
    ASSUME NEW h \in Seq(Nat), NEW q \in Seq(Nat), q # <<>>, NEW m \in Int,
           Increasing(h \o q), Below(h \o q, m)
    PROVE  Increasing(h \o Tail(q)) /\ Below(h \o Tail(q), m)
<1> DEFINE s == h \o Tail(q)
           t == h \o q
           f(i) == IF i <= Len(h) THEN i ELSE i + 1
<1>1. /\ s \in Seq(Nat) /\ t \in Seq(Nat) /\ Len(h) \in Nat /\ Len(s) \in Nat
      /\ Len(t) = Len(s) + 1
  OBVIOUS
<1>2. ASSUME NEW i \in 1 .. Len(s)
      PROVE  f(i) \in 1 .. Len(t) /\ s[i] = t[f(i)]
  OBVIOUS
<1>3. Increasing(t) /\ Below(t, m)
  OBVIOUS
<1>4. ASSUME NEW i \in 1 .. Len(s), NEW j \in 1 .. Len(s), i < j
      PROVE  f(i) < f(j)
  BY <1>1, <1>4
<1> HIDE DEF s, t, f
<1>5. DOMAIN s = 1 .. Len(s) /\ DOMAIN t = 1 .. Len(t)
  BY <1>1
<1>6. Increasing(s)
  BY <1>2, <1>3, <1>4, <1>5 DEF Increasing
<1>7. Below(s, m)
  BY <1>2, <1>3, <1>5 DEF Below
<1> QED
  BY <1>6, <1>7 DEF s

\* Order and bounds of the first part alone.
LEMMA OrderFirst ==
    ASSUME NEW h \in Seq(Nat), NEW q \in Seq(Nat), NEW m \in Int, NEW k \in Int,
           Increasing(h \o q), Below(h \o q, m), m <= k
    PROVE  Increasing(h) /\ Below(h, k)
<1> DEFINE p == <<>>
<1>1. /\ p \in Seq(Nat) /\ h \o p = h /\ Len(p) <= Len(q)
      /\ \A i \in 1 .. Len(p) : p[i] = q[i]
  OBVIOUS
<1> HIDE DEF p
<1>2. Increasing(h \o p) /\ Below(h \o p, k)
  BY <1>1, ShorterTail
<1> QED
  BY <1>1, <1>2

\* The first byte of the second part, in hand.
LEMMA OrderHand ==
    ASSUME NEW h \in Seq(Nat), NEW q \in Seq(Nat), q # <<>>, NEW m \in Int,
           Increasing(h \o q), Below(h \o q, m)
    PROVE  /\ Increasing(Append(h, q[1])) /\ q[1] <= m
           /\ \A i \in DOMAIN q : q[1] <= q[i]
<1> DEFINE t == h \o q
           s == Append(h, q[1])
<1>1. t \in Seq(Nat) /\ s \in Seq(Nat) /\ Len(t) = Len(h) + Len(q) /\ Len(s) = Len(h) + 1 /\ Len(q) >= 1
  OBVIOUS
<1>2. /\ \A i \in 1 .. Len(s) : s[i] = t[i]
      /\ \A i \in 1 .. Len(q) : q[i] = t[Len(h) + i]
  OBVIOUS
<1>3. Increasing(t) /\ Below(t, m)
  OBVIOUS
<1> HIDE DEF t, s
<1>4. DOMAIN s = 1 .. Len(s) /\ DOMAIN t = 1 .. Len(t) /\ DOMAIN q = 1 .. Len(q)
  BY <1>1
<1>5. Increasing(s)
  BY SMTT(30), <1>1, <1>2, <1>3, <1>4 DEF Increasing
<1>0. Len(h) \in Nat /\ Len(q) \in Nat /\ Len(h) + 1 \in 1 .. Len(t) /\ 1 \in 1 .. Len(q)
  BY SMTT(30), <1>1
<1>6. q[1] <= m
  <2>1. q[1] = t[Len(h) + 1]
    BY <1>0, <1>2
  <2>2. t[Len(h) + 1] <= m
    BY <1>0, <1>3, <1>4 DEF Below
  <2> QED
    BY <2>1, <2>2
<1>7. ASSUME NEW i \in 1 .. Len(q)
      PROVE  q[1] <= q[i]
  <2>1. q[1] = t[Len(h) + 1] /\ q[i] = t[Len(h) + i] /\ q[i] \in Nat /\ q[1] \in Nat
    BY SMTT(30), <1>0, <1>2
  <2>2. Len(h) + 1 \in DOMAIN t /\ Len(h) + i \in DOMAIN t
    BY SMTT(30), <1>1, <1>4
  <2>3. CASE i = 1
    BY <2>1, <2>3
  <2>4. CASE i > 1
    <3>1. Len(h) + 1 < Len(h) + i
      BY <1>0, <2>4
    <3>2. t[Len(h) + 1] < t[Len(h) + i]
      BY <1>3, <2>2, <3>1 DEF Increasing
    <3> QED
      BY <2>1, <3>2
  <2> QED
    BY <2>3, <2>4
<1> QED
  BY <1>4, <1>5, <1>6, <1>7 DEF s

\* A byte in hand that comes before what is in the buffer takes the place of
\* the first byte there.
LEMMA OrderSwap ==
    ASSUME NEW h \in Seq(Nat), NEW q \in Seq(Nat), q # <<>>, NEW m \in Int, NEW c \in Nat,
           Increasing(h \o q), Below(h \o q, m), Increasing(Append(h, c)), c <= m, c <= q[1]
    PROVE  Increasing(Append(h, c) \o Tail(q)) /\ Below(Append(h, c) \o Tail(q), m)
<1> DEFINE t == h \o q
           a == Append(h, c)
           s == Append(h, c) \o Tail(q)
           l == Len(h)
<1>1. /\ t \in Seq(Nat) /\ s \in Seq(Nat) /\ a \in Seq(Nat) /\ l \in Nat
      /\ Len(t) = l + Len(q) /\ Len(s) = Len(t) /\ Len(a) = l + 1 /\ Len(q) >= 1
  OBVIOUS
<1>2. /\ \A i \in 1 .. Len(s) : i # l + 1 => s[i] = t[i]
      /\ s[l + 1] = c /\ \A i \in 1 .. l + 1 : s[i] = a[i]
      /\ t[l + 1] = q[1]
  OBVIOUS
<1>3. Increasing(t) /\ Below(t, m) /\ Increasing(a)
  OBVIOUS
<1> HIDE DEF t, s, a, l
<1>4. DOMAIN s = 1 .. Len(s) /\ DOMAIN t = 1 .. Len(t) /\ DOMAIN a = 1 .. Len(a)
  BY <1>1
<1>5. ASSUME NEW i \in 1 .. Len(s), NEW j \in 1 .. Len(s), i < j
      PROVE  s[i] < s[j]
  <2>1. CASE j = l + 1
    <3>1. i \in 1 .. Len(a) /\ j \in 1 .. Len(a) /\ s[i] = a[i] /\ s[j] = a[j]
      BY <1>1, <1>2, <1>5, <2>1
    <3>2. a[i] < a[j]
      BY <1>3, <1>4, <1>5, <3>1 DEF Increasing
    <3> QED
      BY <3>1, <3>2
  <2>2. CASE j # l + 1 /\ i # l + 1
    BY <1>1, <1>2, <1>3, <1>4, <1>5, <2>2 DEF Increasing
  <2>3. CASE j # l + 1 /\ i = l + 1
    <3>0. i \in 1 .. Len(t) /\ j \in 1 .. Len(t)
      BY <1>1
    <3>3. t[i] \in Nat /\ t[j] \in Nat
      BY <1>1, <3>0, NatElement
    <3>1. t[i] < t[j]
      BY <1>3, <1>4, <1>5, <3>0 DEF Increasing
    <3>2. s[j] = t[j] /\ s[i] = c /\ c <= t[i]
      BY <1>1, <1>2, <2>3
    <3> QED
      BY <3>1, <3>2, <3>3
  <2> QED
    BY <2>1, <2>2, <2>3
<1>6. Increasing(s)
  BY <1>4, <1>5 DEF Increasing
<1>7. Below(s, m)
  BY <1>1, <1>2, <1>3, <1>4 DEF Below
<1> QED
  BY <1>6, <1>7 DEF s

LEMMA RxRings ==
    ASSUME NEW r \in RxRing
    PROVE  /\ RxSize \in Nat /\ RxSize > 1 /\ r \in Ring(RxSize)
           /\ Items(r, RxSize) \in Seq(Nat)
<1>1. RxSize \in Nat /\ RxSize > 1
  BY Sizes
<1>2. r \in Ring(RxSize)
  BY Sizes DEF RxRing, Ring
<1> QED
  BY <1>1, <1>2, ItemsAre

LEMMA LeftRing ==
    ASSUME NEW r \in RxRing, NEW k \in 0 .. RxSize - 1,
           NEW l, l = [r EXCEPT !.tail = (k + 1) % RxSize]
    PROVE  /\ l \in Ring(RxSize) /\ l.head = r.head /\ l.buf = r.buf /\ l.tail = Succ(k, RxSize)
           /\ Items(l, RxSize) \in Seq(Nat)
<1>1. (k + 1) % RxSize = Succ(k, RxSize) /\ Succ(k, RxSize) \in 0 .. RxSize - 1
  BY Sizes, SuccIs
<1>2. l \in RxRing /\ l.head = r.head /\ l.buf = r.buf /\ l.tail = Succ(k, RxSize)
  BY <1>1 DEF RxRing
<1> QED
  BY <1>2, RxRings

LEMMA RxTypes ==
    ASSUME TypeOK
    PROVE  /\ RxSize \in Nat /\ RxSize > 1 /\ rx \in Ring(RxSize) /\ got \in Seq(Nat)
           /\ Items(rx, RxSize) \in Seq(Nat) /\ Seen \in Seq(Nat)
           /\ arrived \in Nat /\ char \in Nat /\ uart.rx \in Nat /\ Taken \in Int
           /\ Append(got, char) \in Seq(Nat)
<1>1. /\ RxSize \in Nat /\ RxSize > 1 /\ rx \in Ring(RxSize)
      /\ Items(rx, RxSize) \in Seq(Nat)
  BY Types, RxRings
<1>2. got \in Seq(Nat)
  BY Sizes, Types, NatSeq
<1>3. arrived \in Nat /\ char \in Nat /\ uart.rx \in Nat
  BY Sizes, Types DEF UartType
<1>4. Taken \in Int
  BY <1>3 DEF Taken
<1> QED
  BY <1>1, <1>2, <1>3, <1>4 DEF Seen

\* A ring whose ends meet, as the program sees it.
LEMMA RxEmpty ==
    ASSUME NEW r \in RxRing
    PROVE  r.head = r.tail <=> Items(r, RxSize) = <<>>
BY RxRings, ItemsEmpty

\* Steps that have nothing to do with receiving.
LEMMA ReadUntouched ==
    ASSUME ReadInv, UNCHANGED <<rx, got, char, reg>>, Taken' = Taken, windows \subseteq windows',
           uart'.rx \in {0, arrived'}, pc' = "closed" => uart'.rx = 0,
           \/ pc' = pc
           \/ pc \notin {"closed", "load", "tail"} /\ pc' \notin {"closed", "load", "tail"}
    PROVE  ReadInv'
<1>1. Seen' = Seen /\ Left' = Left
  BY DEF Seen, Left
<1>2. "break" \notin windows' => ReadOrder'
  BY <1>1 DEF ReadInv, ReadOrder
<1>3. "dropped" \notin windows' => ReadAll'
  BY <1>1 DEF ReadInv, ReadAll, Held
<1> QED
  BY <1>2, <1>3 DEF ReadInv

\* A step that throws away what is in the buffer.
LEMMA ReadCleared ==
    ASSUME TypeOK, TypeOK', ReadInv, "break" \notin windows, pc # "tail", got' = got,
           Items(rx', RxSize) = <<>>, Taken <= Taken'
    PROVE  Seen' = got /\ Increasing(Seen') /\ Below(Seen', Taken')
<1>1. got \in Seq(Nat) /\ Items(rx, RxSize) \in Seq(Nat) /\ Taken \in Int
  BY RxTypes
<1>2. Taken' \in Int
  BY SMTT(30) DEF TypeOK, Taken
<1>3. Seen' = got
  BY <1>1 DEF Seen
<1>4. Increasing(got \o Items(rx, RxSize)) /\ Below(got \o Items(rx, RxSize), Taken)
  BY DEF ReadInv, ReadOrder, Seen
<1>5. Increasing(got) /\ Below(got, Taken')
  BY <1>1, <1>2, <1>4, OrderFirst
<1> QED
  BY <1>3, <1>5

LEMMA OpenRead ==
    ASSUME TypeOK, TypeOK', ReadInv, SerialOpen \/ Settle \/ SerialClose
    PROVE  ReadInv'
<1>0. rx \in RxRing /\ rx' \in RxRing /\ arrived \in Nat /\ uart.rx \in Nat /\ got \in Seq(Nat)
  <2>1. rx \in RxRing /\ rx' \in RxRing
    BY DEF TypeOK, RxRing
  <2> QED
    BY <2>1, RxTypes
<1>1. CASE SerialOpen
  <2>1. uart.rx = 0 /\ uart'.rx = 0 /\ rx.head = rx.tail /\ rx'.head = rx'.tail
    BY <1>1, OffTyped DEF SerialOpen, At, ReadInv, EmptyRing
  <2>2. Items(rx', RxSize) = <<>> /\ Items(rx, RxSize) = <<>>
    BY <1>0, <2>1, RxEmpty
  <2>3. /\ pc = "closed" /\ pc' = "settle" /\ UNCHANGED <<got, arrived, windows>>
    BY <1>1 DEF SerialOpen, At, history
  <2>4. Seen' = Seen /\ Taken' = Taken
    BY <2>1, <2>2, <2>3 DEF Seen, Taken
  <2>5. "break" \notin windows' => ReadOrder'
    BY <2>3, <2>4 DEF ReadInv, ReadOrder
  <2>6. "dropped" \notin windows' => ReadAll'
    BY <2>3, <2>4 DEF ReadInv, ReadAll, Held
  <2> QED
    BY <2>1, <2>3, <2>5, <2>6 DEF ReadInv
<1>2. CASE Settle
  <2>1. /\ pc = "settle" /\ pc' = "idle" /\ UNCHANGED <<uart, got, arrived>>
        /\ windows \subseteq windows'
        /\ rx.head # rx.tail => "dropped" \in windows'
    BY <1>2 DEF Settle, At
  <2>2. rx'.head = rx'.tail
    BY <1>0, <1>2 DEF Settle, RxRing
  <2>3. Items(rx', RxSize) = <<>>
    BY <1>0, <2>2, RxEmpty
  <2>4. Taken' = Taken /\ Taken <= Taken'
    BY <1>0, <2>1 DEF Taken
  <2>5. "break" \notin windows' => ReadOrder'
    BY <2>1, <2>3, <2>4, ReadCleared DEF ReadOrder
  <2>6. "dropped" \notin windows' => ReadAll'
    <3> SUFFICES ASSUME "dropped" \notin windows' PROVE ReadAll'
      OBVIOUS
    <3>1. Items(rx, RxSize) = <<>> /\ ReadAll
      BY <1>0, <2>1, RxEmpty DEF ReadInv
    <3>2. Seen' = Seen
      BY <2>1, <2>3, <3>1 DEF Seen
    <3> QED
      BY <2>1, <2>4, <3>1, <3>2 DEF ReadAll, Held
  <2> QED
    BY <2>1, <2>5, <2>6 DEF ReadInv
<1>3. CASE SerialClose
  <2>1. /\ pc = "idle" /\ pc' = "closed" /\ UNCHANGED <<got, arrived>>
        /\ windows \subseteq windows' /\ "dropped" \in windows'
    BY <1>3 DEF SerialClose, At
  <2>2. rx'.head = rx'.tail /\ uart'.rx = 0
    BY <1>3, OffTyped DEF SerialClose, EmptyRing
  <2>3. Items(rx', RxSize) = <<>>
    BY <1>0, <2>2, RxEmpty
  <2>4. Taken <= Taken'
    BY <1>0, <2>1, <2>2 DEF Taken
  <2>5. "break" \notin windows' => ReadOrder'
    BY <2>1, <2>3, <2>4, ReadCleared DEF ReadOrder
  <2> QED
    BY <2>1, <2>2, <2>5 DEF ReadInv
<1> QED
  BY <1>1, <1>2, <1>3

\* The program takes a byte.
LEMMA GetRead ==
    ASSUME TypeOK, TypeOK', ReadInv, GetChar \/ GetLoad \/ GetStore
    PROVE  ReadInv'
<1>0. /\ RxSize \in Nat /\ RxSize > 1 /\ rx \in Ring(RxSize) /\ got \in Seq(Nat)
      /\ Items(rx, RxSize) \in Seq(Nat) /\ Seen \in Seq(Nat)
      /\ arrived \in Nat /\ char \in Nat /\ uart.rx \in Nat /\ Taken \in Int
      /\ Append(got, char) \in Seq(Nat)
  BY RxTypes
<1>00. rx \in RxRing /\ reg \in 0 .. RxSize - 1 /\ rx.tail \in 0 .. RxSize - 1
  BY DEF TypeOK, RxRing
<1> DEFINE q == Items(rx, RxSize)
<1>1. ASSUME rx.head # rx.tail, NEW l, l = [rx EXCEPT !.tail = (rx.tail + 1) % RxSize]
      PROVE  Items(l, RxSize) = Tail(q) /\ q # <<>> /\ q[1] = rx.buf[rx.tail]
  <2>1. /\ l \in Ring(RxSize) /\ l.head = rx.head /\ l.buf = rx.buf
        /\ l.tail = Succ(rx.tail, RxSize)
    BY <1>00, <1>1, LeftRing
  <2> QED
    BY <1>0, <1>1, <2>1, ItemsTake
<1>2. Seen = got \o q
  BY DEF Seen
<1>3. CASE GetChar
  <2>1. /\ pc = "get" /\ pc' = "load" /\ rx.head # rx.tail /\ char' = rx.buf[rx.tail]
        /\ UNCHANGED <<rx, uart, got, arrived, windows, reg>>
    BY <1>3 DEF GetChar, At, history
  <2>2. q # <<>> /\ q[1] = char'
    BY <1>1, <2>1
  <2>3. Seen' = Seen /\ Taken' = Taken
    BY <2>1 DEF Seen, Taken
  <2>4. "break" \notin windows => ReadOrder'
    <3> SUFFICES ASSUME "break" \notin windows PROVE ReadOrder'
      OBVIOUS
    <3>1. Increasing(Seen) /\ Below(Seen, Taken)
      BY <2>1 DEF ReadInv, ReadOrder
    <3>2. Increasing(got \o q) /\ Below(got \o q, Taken)
      BY <1>2, <3>1
    <3>3. /\ Increasing(Append(got, q[1])) /\ q[1] <= Taken
          /\ \A i \in DOMAIN q : q[1] <= q[i]
      BY <1>0, <2>2, <3>2, OrderHand
    <3> QED
      BY <2>1, <2>2, <2>3, <3>1, <3>3 DEF ReadOrder
  <2>5. "dropped" \notin windows => ReadAll'
    BY <2>1, <2>3 DEF ReadInv, ReadAll, Held
  <2> QED
    BY <2>1, <2>4, <2>5 DEF ReadInv
<1>4. CASE GetLoad
  <2>1. /\ pc = "load" /\ pc' = "tail" /\ reg' = rx.tail
        /\ UNCHANGED <<rx, uart, got, arrived, windows, char>>
    BY <1>4 DEF GetLoad, At, history
  <2>2. Seen' = Seen /\ Taken' = Taken /\ Left' = [rx EXCEPT !.tail = (rx.tail + 1) % RxSize]
    BY <2>1 DEF Seen, Taken, Left
  <2>3. "break" \notin windows => ReadOrder'
    <3> SUFFICES ASSUME "break" \notin windows PROVE ReadOrder'
      OBVIOUS
    <3>1. /\ Increasing(got \o q) /\ Below(got \o q, Taken)
          /\ Increasing(Append(got, char)) /\ char <= Taken
          /\ rx.head # rx.tail /\ \A i \in DOMAIN q : char <= q[i]
      BY <1>2, <2>1 DEF ReadInv, ReadOrder
    <3>2. Items(Left', RxSize) = Tail(q) /\ q # <<>>
      BY <1>1, <2>2, <3>1
    <3>3. char <= q[1]
      BY <1>0, <3>1, <3>2
    <3>4. Increasing(Append(got, char) \o Tail(q)) /\ Below(Append(got, char) \o Tail(q), Taken)
      BY <1>0, <3>1, <3>2, <3>3, OrderSwap
    <3> QED
      BY <2>1, <2>2, <3>2, <3>4 DEF ReadOrder
  <2>4. "dropped" \notin windows => ReadAll'
    BY <2>1, <2>2 DEF ReadInv, ReadAll, Held
  <2> QED
    BY <2>1, <2>3, <2>4 DEF ReadInv
<1>5. CASE GetStore
  <2>1. /\ pc = "tail" /\ pc' = "idle" /\ rx' = Left /\ got' = Append(got, char)
        /\ UNCHANGED <<arrived, windows>>
    BY <1>5 DEF GetStore, At, Left
  <2>2. uart'.rx = uart.rx
    BY <1>5, Types, EnablesTyped DEF GetStore
  <2>3. Taken' = Taken /\ Seen' = Append(got, char) \o Items(Left, RxSize)
    BY <2>1, <2>2 DEF Taken, Seen
  <2>4. "break" \notin windows => ReadOrder'
    BY <2>1, <2>3 DEF ReadInv, ReadOrder
  <2>5. "dropped" \notin windows => ReadAll'
    <3> SUFFICES ASSUME "dropped" \notin windows PROVE ReadAll'
      OBVIOUS
    <3>1. /\ UpTo(Seen, Taken) /\ rx.head # rx.tail /\ char = rx.buf[rx.tail]
          /\ Left = [rx EXCEPT !.tail = (rx.tail + 1) % RxSize]
      BY <2>1 DEF ReadInv, ReadAll, Held, Left
    <3>2. Items(Left, RxSize) = Tail(q) /\ q # <<>> /\ q[1] = char
      BY <1>1, <3>1
    <3>3. Append(got, char) \o Tail(q) = got \o q
      BY <1>0, <3>2, ShiftOne
    <3>4. Seen' = Seen
      BY <1>2, <2>3, <3>2, <3>3
    <3> QED
      BY <2>1, <2>3, <3>1, <3>4 DEF ReadAll, Held
  <2> QED
    BY <2>1, <2>2, <2>4, <2>5 DEF ReadInv
<1> QED
  BY <1>3, <1>4, <1>5

\* What the handler makes of the buffer when a byte has come and it is not Ctrl-C.
LEMMA ReceivedItems ==
    ASSUME TypeOK, TypeOK', uart.rx # 0, on_uart_irq(FALSE)
    PROVE  /\ rx'.head = Succ(rx.head, RxSize) /\ rx'.buf = [rx.buf EXCEPT ![rx.head] = uart.rx]
           /\ ~Full(rx, RxSize) => /\ rx'.tail = rx.tail
                                   /\ Items(rx', RxSize) = Append(Items(rx, RxSize), uart.rx)
           /\ Full(rx, RxSize) => /\ Items(rx, RxSize) # <<>>
                                  /\ Items(rx', RxSize) = Append(Tail(Items(rx, RxSize)), uart.rx)
<1>0. RxSize \in Nat /\ RxSize > 1 /\ rx \in Ring(RxSize) /\ uart.rx \in Nat
  BY RxTypes
<1>00. rx \in RxRing /\ rx' \in RxRing
  BY DEF TypeOK, RxRing
<1>000. rx' \in Ring(RxSize)
  BY <1>00, RxRings
<1>1. rx.head \in 0 .. RxSize - 1 /\ rx.tail \in 0 .. RxSize - 1
  BY <1>00 DEF RxRing
<1>2. /\ (rx.head + 1) % RxSize = Succ(rx.head, RxSize) /\ (rx.tail + 1) % RxSize = Succ(rx.tail, RxSize)
  BY <1>0, <1>1, SuccIs
<1>3. rx' = [[rx EXCEPT !.buf[rx.head] = uart.rx]
               EXCEPT !.head = Succ(rx.head, RxSize),
                      !.tail = IF Succ(rx.head, RxSize) = rx.tail THEN Succ(rx.tail, RxSize) ELSE rx.tail]
  BY <1>2 DEF on_uart_irq, Received
<1>4. Full(rx, RxSize) <=> Succ(rx.head, RxSize) = rx.tail
  BY <1>2 DEF Full
<1>5. /\ rx'.head = Succ(rx.head, RxSize) /\ rx'.buf = [rx.buf EXCEPT ![rx.head] = uart.rx]
      /\ rx'.tail = IF Full(rx, RxSize) THEN Succ(rx.tail, RxSize) ELSE rx.tail
  BY <1>00, <1>3, <1>4 DEF RxRing
<1>6. CASE Full(rx, RxSize)
  BY <1>0, <1>000, <1>5, <1>6, ItemsPushOut
<1>7. CASE ~Full(rx, RxSize)
  BY <1>0, <1>000, <1>5, <1>7, ItemsPush
<1> QED
  BY <1>5, <1>6, <1>7

\* The handler takes a byte from the UART.
LEMMA HandlerRead ==
    ASSUME TypeOK, TypeOK', ReadInv, NEW brk \in BOOLEAN, on_uart_irq(brk)
    PROVE  ReadInv'
<1>0. /\ RxSize \in Nat /\ RxSize > 1 /\ rx \in Ring(RxSize) /\ got \in Seq(Nat)
      /\ Items(rx, RxSize) \in Seq(Nat)
      /\ arrived \in Nat /\ char \in Nat /\ uart.rx \in Nat /\ Taken \in Int
      /\ Append(got, char) \in Seq(Nat)
  BY RxTypes
<1>1. /\ UNCHANGED <<pc, char, reg, got, arrived>> /\ windows \subseteq windows'
      /\ uart.rx # 0 /\ Full(rx, RxSize) => "dropped" \in windows'
      /\ brk => "dropped" \in windows'
      /\ brk /\ pc \in {"load", "tail"} => "break" \in windows'
      /\ brk => uart.rx # 0
  BY DEF on_uart_irq, program
<1>2. uart'.rx = 0
  <2> DEFINE u == [uart EXCEPT !.rx = 0, !.force = FALSE]
  <2>1. u.rx = 0 /\ DOMAIN u = {"rx", "busy", "txris", "rxie", "txie", "force"}
    BY Types DEF UartType
  <2>2. Transmit(u)
    BY DEF on_uart_irq
  <2> HIDE DEF u
  <2> QED
    BY <2>1, <2>2 DEF Transmit
<1>3. Taken' = arrived
  BY <1>1, <1>2 DEF Taken
<1>4. CASE uart.rx = 0
  <2>1. rx' = rx /\ Taken' = Taken
    BY <1>3, <1>4 DEF on_uart_irq, Taken
  <2> QED
    BY <1>1, <1>2, <2>1, ReadUntouched
<1>5. CASE uart.rx # 0
  <2> DEFINE c == uart.rx
  <2>1. c = arrived /\ Taken = c - 1 /\ Taken' = c /\ Taken < c /\ Taken <= Taken' /\ pc # "closed"
    BY <1>0, <1>3, <1>5 DEF ReadInv, Taken
  <2>2. CASE brk
    <3>1. rx'.head = rx'.tail
      <4>1. rx \in RxRing
        BY Types
      <4> QED
        BY <1>5, <2>2, <4>1 DEF on_uart_irq, Received, RxRing
    <3>2. Items(rx', RxSize) = <<>>
      <4>1. rx' \in RxRing
        BY DEF TypeOK, RxRing
      <4> QED
        BY <3>1, <4>1, RxEmpty
    <3>3. "break" \notin windows' => ReadOrder'
      BY <1>1, <2>1, <2>2, <3>2, ReadCleared DEF ReadOrder
    <3> QED
      BY <1>1, <1>2, <2>1, <2>2, <3>3 DEF ReadInv
  <2>3. CASE ~brk
    <3> DEFINE q == Items(rx, RxSize)
               k == IF Full(rx, RxSize) THEN Tail(q) ELSE q
               w == Items(rx', RxSize)
    <3>0. on_uart_irq(FALSE)
      BY <2>3
    <3>1. /\ rx'.head = Succ(rx.head, RxSize) /\ rx'.buf = [rx.buf EXCEPT ![rx.head] = c]
          /\ ~Full(rx, RxSize) => rx'.tail = rx.tail /\ w = Append(q, c)
          /\ Full(rx, RxSize) => q # <<>> /\ w = Append(Tail(q), c)
      BY <1>5, <3>0, ReceivedItems
    <3>2. w = Append(k, c) /\ k \in Seq(Nat) /\ \A i \in DOMAIN k : \E j \in DOMAIN q : k[i] = q[j]
      <4>1. CASE Full(rx, RxSize)
        <5>1. \A i \in DOMAIN Tail(q) : i + 1 \in DOMAIN q /\ Tail(q)[i] = q[i + 1]
          BY <1>0, <3>1, <4>1
        <5> QED
          BY <1>0, <3>1, <4>1, <5>1
      <4>2. CASE ~Full(rx, RxSize)
        BY <1>0, <3>1, <4>2
      <4> QED
        BY <4>1, <4>2
    <3>3. rx'.head # rx'.tail
      <4>1. rx' \in RxRing
        BY DEF TypeOK, RxRing
      <4>2. w # <<>>
        BY <1>0, <3>2
      <4> QED
        BY <4>1, <4>2, RxEmpty
    <3>4. "break" \notin windows' => ReadOrder'
      <4> SUFFICES ASSUME "break" \notin windows' PROVE ReadOrder'
        OBVIOUS
      <4>0. ReadOrder
        BY <1>1 DEF ReadInv
      <4>1. pc # "tail" => Increasing(Seen') /\ Below(Seen', Taken')
        <5> SUFFICES ASSUME pc # "tail" PROVE Increasing(Seen') /\ Below(Seen', Taken')
          OBVIOUS
        <5>1. Increasing(got \o q) /\ Below(got \o q, Taken)
          BY <4>0 DEF ReadOrder, Seen
        <5>2. Increasing(got \o k) /\ Below(got \o k, Taken)
          BY <1>0, <3>1, <5>1, OrderTail
        <5>3. Increasing(got \o Append(k, c)) /\ Below(got \o Append(k, c), c)
          <6> HIDE DEF k, c
          <6> QED
            BY <1>0, <2>1, <3>2, <5>2, OrderAppend
        <5>4. Seen' = got \o Append(k, c)
          BY <1>1, <3>2 DEF Seen
        <5> QED
          BY <2>1, <5>3, <5>4
      <4>2. pc = "load" => /\ Increasing(Append(got, char)) /\ char <= Taken'
                           /\ \A i \in DOMAIN w : char <= w[i]
        <5> SUFFICES ASSUME pc = "load"
                     PROVE  /\ Increasing(Append(got, char)) /\ char <= Taken'
                            /\ \A i \in DOMAIN w : char <= w[i]
          OBVIOUS
        <5>1. Increasing(Append(got, char)) /\ char <= Taken /\ \A i \in DOMAIN q : char <= q[i]
          BY <4>0 DEF ReadOrder
        <5>2. char <= c
          BY <1>0, <2>1, <5>1
        <5>3. \A i \in DOMAIN k : char <= k[i]
          BY <3>2, <5>1
        <5> HIDE DEF k, c, q
        <5>4. \A i \in DOMAIN Append(k, c) : char <= Append(k, c)[i]
          BY <2>1, <1>0, <3>2, <5>2, <5>3
        <5> QED
          BY <2>1, <3>2, <5>1, <5>2, <5>4
      <4>3. pc = "tail" => /\ Increasing(Append(got, char) \o Items(Left', RxSize))
                           /\ Below(Append(got, char) \o Items(Left', RxSize), Taken')
        <5> SUFFICES ASSUME pc = "tail"
                     PROVE  /\ Increasing(Append(got, char) \o Items(Left', RxSize))
                            /\ Below(Append(got, char) \o Items(Left', RxSize), Taken')
          OBVIOUS
        <5> DEFINE h == Append(got, char)
                   l == Items(Left, RxSize)
        <5>1. Increasing(h \o l) /\ Below(h \o l, Taken)
          BY <4>0 DEF ReadOrder
        <5>2. /\ Left \in Ring(RxSize) /\ Left.head = rx.head /\ Left.buf = rx.buf
              /\ Left.tail = Succ(reg, RxSize) /\ l \in Seq(Nat)
          <6>1. rx \in RxRing /\ reg \in 0 .. RxSize - 1
            BY Types
          <6> QED
            BY <6>1, LeftRing DEF Left
        <5>3. /\ Left' \in Ring(RxSize) /\ Left'.head = rx'.head /\ Left'.buf = rx'.buf
              /\ Left'.tail = Succ(reg, RxSize)
          <6>1. rx' \in RxRing /\ reg \in 0 .. RxSize - 1
            BY DEF TypeOK, RxRing
          <6>2. Left' = [rx' EXCEPT !.tail = (reg + 1) % RxSize]
            BY <1>1 DEF Left
          <6> QED
            BY <6>1, <6>2, LeftRing
        <5>4. /\ Left'.head = Succ(Left.head, RxSize) /\ Left'.tail = Left.tail
              /\ Left'.buf = [Left.buf EXCEPT ![Left.head] = c]
          BY <3>1, <5>2, <5>3
        <5>5. /\ Full(Left, RxSize) => Items(Left', RxSize) = <<>>
              /\ ~Full(Left, RxSize) => Items(Left', RxSize) = Append(l, c)
          BY SMTT(30), <1>0, <5>2, <5>3, <5>4, ItemsPush
        <5> HIDE DEF h, l, c
        <5>6. h \in Seq(Nat) /\ c \in Nat
          BY <1>0 DEF h, c
        <5>7. CASE Full(Left, RxSize)
          <6>1. Taken' \in Int
            BY <2>1, <5>6
          <6>2. Increasing(h) /\ Below(h, Taken')
            BY <1>0, <2>1, <5>1, <5>2, <5>6, <6>1, OrderFirst
          <6>3. h \o Items(Left', RxSize) = h
            BY <5>5, <5>6, <5>7
          <6> QED
            BY <6>2, <6>3 DEF h
        <5>8. CASE ~Full(Left, RxSize)
          <6>1. Increasing(h \o Append(l, c)) /\ Below(h \o Append(l, c), c)
            BY <1>0, <2>1, <5>1, <5>2, <5>6, OrderAppend
          <6> QED
            BY <2>1, <5>5, <5>8, <6>1 DEF h
        <5> QED
          BY <5>7, <5>8
      <4> QED
        BY <1>1, <3>3, <4>1, <4>2, <4>3 DEF ReadOrder
    <3>5. "dropped" \notin windows' => ReadAll'
      <4> SUFFICES ASSUME "dropped" \notin windows' PROVE ReadAll'
        OBVIOUS
      <4>1. ~Full(rx, RxSize) /\ ReadAll
        BY <1>1, <1>5 DEF ReadInv
      <4>2. rx'.tail = rx.tail /\ w = Append(q, c)
        BY <3>1, <4>1
      <4>3. UpTo(Seen', Taken')
        <5>1. UpTo(got \o q, Taken) /\ Taken \in Nat /\ c = Taken + 1
          BY <1>0, <1>5, <2>1, <4>1 DEF ReadAll, Seen
        <5>2. got \o q \in Seq(Nat)
          BY <1>0
        <5>3. got \o Append(q, c) = Append(got \o q, c)
          BY <1>0, ConcatAppend
        <5>4. UpTo(Append(got \o q, Taken + 1), Taken + 1)
          BY <5>1, <5>2, UpToAppend
        <5>5. Seen' = got \o Append(q, c)
          BY <1>1, <4>2 DEF Seen
        <5> QED
          BY <2>1, <5>1, <5>3, <5>4, <5>5
      <4>4. Held => rx'.buf[rx'.tail] = rx.buf[rx.tail]
        <5>1. Held => rx.head # rx.tail
          BY <4>1 DEF ReadAll
        <5>2. rx.tail \in 0 .. RxSize - 1 /\ rx.buf \in [0 .. RxSize - 1 -> Nat]
          BY <1>0 DEF Ring
        <5> QED
          BY <3>1, <4>2, <5>1, <5>2
      <4> QED
        BY <1>1, <3>3, <4>1, <4>2, <4>3, <4>4 DEF ReadAll, Held
    <3> QED
      BY <1>1, <1>2, <2>1, <3>4, <3>5 DEF ReadInv
  <2> QED
    BY <2>2, <2>3
<1> QED
  BY <1>4, <1>5

LEMMA InitRead == Init => ReadInv
<1> SUFFICES ASSUME Init PROVE ReadInv
  OBVIOUS
<1>1. rx \in RxRing /\ rx.head = rx.tail
  BY EmptyRings DEF Init, EmptyRing
<1>2. Items(rx, RxSize) = <<>>
  BY <1>1, RxEmpty
<1>3. Seen = <<>>
  BY <1>2 DEF Init, Seen
<1>4. uart.rx = 0 /\ Taken = 0
  BY OffTyped DEF Init, Taken
<1> QED
  BY <1>1, <1>3, <1>4 DEF Init, ReadInv, ReadOrder, ReadAll, Held, Increasing, Below, UpTo

LEMMA NextRead ==
    ASSUME TypeOK, TypeOK', ReadInv, [Next]_vars
    PROVE  ReadInv'
<1>0. uart.rx \in {0, arrived} /\ uart.rx \in Nat /\ arrived \in Nat
  BY RxTypes DEF ReadInv
<1>1. ASSUME UNCHANGED <<rx, got, char, reg, arrived>>, uart'.rx = uart.rx, windows \subseteq windows',
             \/ pc' = pc
             \/ pc \notin {"closed", "load", "tail"} /\ pc' \notin {"closed", "load", "tail"}
      PROVE  ReadInv'
  <2>1. Taken' = Taken
    BY <1>1 DEF Taken
  <2>2. pc' = "closed" => uart'.rx = 0
    BY <1>1 DEF ReadInv
  <2>3. uart'.rx \in {0, arrived'}
    BY <1>0, <1>1
  <2> QED
    BY <1>1, <2>1, <2>2, <2>3, ReadUntouched
<1>2. CASE UNCHANGED vars
  BY <1>1, <1>2 DEF vars, program, history
<1>3. CASE PutBegin
  BY <1>1, <1>3 DEF PutBegin, At
<1>4. CASE GetBegin
  <2>1. uart'.rx = uart.rx
    BY <1>4, Types, EnablesTyped DEF GetBegin
  <2>2. /\ UNCHANGED <<rx, got, char, reg, arrived, windows>>
        /\ pc \notin {"closed", "load", "tail"} /\ pc' \notin {"closed", "load", "tail"}
    BY <1>4 DEF GetBegin, At
  <2> QED
    BY <1>1, <2>1, <2>2
<1>5. CASE SerialRxStatus
  <2>1. uart'.rx = uart.rx
    BY <1>5, Types, EnablesTyped DEF SerialRxStatus
  <2> QED
    BY <1>1, <1>5, <2>1 DEF SerialRxStatus, program, history
<1>6. CASE Room \/ AbortHead \/ AbortTail \/ Store \/ Advance
  BY <1>1, <1>6 DEF Room, AbortHead, AbortTail, Store, Advance, At, history
<1>7. CASE Kick \/ GetNothing
  <2>1. uart'.rx = uart.rx
    BY <1>7, Types, EnablesTyped DEF Kick, GetNothing
  <2>2. /\ UNCHANGED <<rx, got, char, reg, arrived, windows>>
        /\ pc \notin {"closed", "load", "tail"} /\ pc' \notin {"closed", "load", "tail"}
    BY <1>7 DEF Kick, GetNothing, At, history
  <2> QED
    BY <1>1, <2>1, <2>2
<1>8. CASE Sent
  <2>1. uart'.rx = uart.rx
    BY <1>8, Types DEF Sent, UartType
  <2> QED
    BY <1>1, <1>8, <2>1 DEF Sent, program, history
<1>9. CASE Arrive
  <2>1. /\ uart'.rx = arrived' /\ arrived' = arrived + 1 /\ uart.rx = 0 /\ pc # "closed"
        /\ UNCHANGED <<pc, rx, got, char, reg, windows>>
    BY <1>9, Types DEF Arrive, UartType, program
  <2>2. Taken' = Taken
    BY <1>0, <2>1 DEF Taken
  <2> QED
    BY <2>1, <2>2, ReadUntouched
<1>10. CASE CtrlC
  BY <1>1, <1>10 DEF CtrlC, program, history
<1> QED
  BY <1>2, <1>3, <1>4, <1>5, <1>6, <1>7, <1>8, <1>9, <1>10, OpenRead, GetRead, HandlerRead
     DEF Next, Resume, Handler
-----------------------------------------------------------------------------
(* Theorems.                                                               *)

\* The two rings are typed, the bytes sent are in order on their way to the
\* line, and the bytes received on their way to the program, after every step
\* of SerialPutchar, SerialGetchar and on_uart_irq.
THEOREM SerialInvariant == Spec => []SerialInv
<1>1. Init => SerialInv
  BY InitTyped, InitWire, InitRead DEF SerialInv
<1>2. SerialInv /\ [Next]_vars => SerialInv'
  <2> SUFFICES ASSUME SerialInv, [Next]_vars PROVE SerialInv'
    OBVIOUS
  <2>1. TypeOK /\ WireInv /\ ReadInv
    BY DEF SerialInv
  <2>2. TypeOK'
    BY <2>1, NextTyped
  <2>3. WireInv'
    BY <2>1, <2>2, NextWire
  <2>4. ReadInv'
    BY <2>1, <2>2, NextRead
  <2> QED
    BY <2>2, <2>3, <2>4 DEF SerialInv
<1> QED
  BY <1>1, <1>2, PTL DEF Spec

\* No index of Serial.c runs past the end of its buffer, and every variable has
\* its type, for buffers of any size.
THEOREM SerialTypeCorrect == Spec => []TypeOK
<1>1. SerialInv => TypeOK
  BY DEF SerialInv
<1> QED
  BY <1>1, SerialInvariant, PTL

\* What SerialPutchar queued leaves the UART in its order, each byte once and
\* none missing unless Ctrl-C or CLOSE cleared the buffer, however on_uart_irq
\* interrupts it.
THEOREM LineKeepsOrder == Spec => []WireInOrder
<1>1. SerialInv => WireInOrder
  BY DEF SerialInv, WireInv, WireInOrder, Queued, Stored
<1> QED
  BY <1>1, SerialInvariant, PTL

\* What on_uart_irq received reaches SerialGetchar in its order, no byte twice,
\* although both move the tail; unless Ctrl-C came while a byte was taken.  None
\* is missing unless the buffer overflowed or was cleared.
THEOREM ReaderKeepsOrder == Spec => []ReadInOrder
<1>1. SerialInv => ReadInOrder
  BY DEF SerialInv, ReadInv, ReadOrder, ReadAll, ReadInOrder, Seen, Taken
<1> QED
  BY <1>1, SerialInvariant, PTL
=============================================================================
