------------------------------ MODULE BatchProof ------------------------------
(***************************************************************************)
(* What the operations on batches do to batches of any length.             *)
(*                                                                         *)
(* DataProto: the order of the rows that fit relies on, and that nothing   *)
(* is lost on the way to the ranks and back.                               *)
(*                                                                         *)
(* Karmarkar and Karp's partition, for any lengths and any number of       *)
(* parts.  A heap of states holds every index once; merging two states     *)
(* keeps that, keeps the parts as long as each other if they were, and     *)
(* does not make the largest difference of two sums larger than it was in  *)
(* one of them (the differences of two decreasing sequences of sums, one   *)
(* taken backwards, cancel).  After as many turns as there are states      *)
(* less one, a single state is left: its parts partition the indices, none *)
(* of them is empty, and the assertions of get_seqlen_balanced_partitions  *)
(* hold.                                                                   *)
(*                                                                         *)
(* Dispatch: which chunk a rank of a layout gets in each mode, which ranks *)
(* are collected, and in which order.                                      *)
(***************************************************************************)
EXTENDS Dispatch, SeqlenBalancing, FiniteSetTheorems, SequenceTheorems, TLAPS

-----------------------------------------------------------------------------
\* Division with remainder, for the indices of a batch of blocks.

\* The quotient and the remainder of a number that is written with them.
LEMMA DivModUnique ==
  ASSUME NEW m \in Nat, NEW q \in Nat, NEW r \in Nat, r < m
  PROVE  (q * m + r) \div m = q /\ (q * m + r) % m = r
<1> DEFINE x == q * m + r
<1>1. x \in Nat /\ m > 0
  OBVIOUS
<1>2. x = m * (x \div m) + (x % m) /\ 0 <= x % m /\ x % m < m /\ x \div m \in Int
  BY <1>1
<1>3. CASE x \div m = q
  BY <1>1, <1>2, <1>3
<1>4. CASE x \div m > q
  BY <1>1, <1>2, <1>4
<1>5. CASE x \div m < q
  BY <1>1, <1>2, <1>5
<1> QED BY <1>2, <1>3, <1>4, <1>5

\* A number below a * b has a quotient by b below a.
LEMMA DivBelow ==
  ASSUME NEW a \in Nat, NEW b \in Nat, NEW x \in Nat, x < a * b
  PROVE  /\ b > 0 /\ x \div b \in Nat /\ x \div b < a
         /\ x % b \in Nat /\ x % b < b /\ x = (x \div b) * b + (x % b)
<1>1. b > 0
  OBVIOUS
<1>2. x = b * (x \div b) + (x % b) /\ 0 <= x % b /\ x % b < b /\ x \div b \in Int
  BY <1>1
<1>3. x \div b >= 0
  BY <1>1, <1>2
<1>4. x \div b < a
  BY <1>1, <1>2
<1> QED BY <1>1, <1>2, <1>3, <1>4

-----------------------------------------------------------------------------
\* The order of rows in fit: generation works on blocks, the rest on neighbours.

\* The permutation by which fit brings the answers of n blocks of m prompts next to
\* each other takes the index of the j-th answer to prompt i to that answer.
LEMMA TransposeAt ==
  ASSUME NEW m \in Nat, NEW n \in Nat, NEW k \in 1..(n * m)
  PROVE  /\ n > 0 /\ m > 0
         /\ Transpose(n, m)[k] \in 1..(n * m)
         /\ (Transpose(n, m)[k] - 1) % m = (k - 1) \div n
         /\ (Transpose(n, m)[k] - 1) \div m = (k - 1) % n
<1> DEFINE q == (k - 1) \div n
           r == (k - 1) % n
<1>1. n * m \in Nat /\ n * m = m * n /\ k - 1 \in Nat /\ k - 1 < m * n
  OBVIOUS
<1>2. n > 0 /\ q \in Nat /\ q < m /\ r \in Nat /\ r < n
  BY <1>1, DivBelow
<1>3. Transpose(n, m)[k] = r * m + q + 1
  BY DEF Transpose
<1>4. r * m + q \in Nat
  BY <1>2
<1> HIDE DEF q, r
<1>5. (r * m + q) \div m = r /\ (r * m + q) % m = q
  BY <1>2, DivModUnique
<1> USE DEF q, r
<1>6. Transpose(n, m)[k] - 1 = r * m + q
  BY <1>3, <1>4
<1>7. r * m + q < n * m
  <2>1. r + 1 <= n
    BY <1>2
  <2>2. (r + 1) * m <= n * m
    BY <2>1, <1>2
  <2>3. (r + 1) * m = r * m + m
    BY <1>2
  <2> QED BY <2>2, <2>3, <1>2, <1>4
<1> QED BY <1>1, <1>2, <1>3, <1>4, <1>5, <1>6, <1>7

\* fit has the batch answered as n blocks (repeat with interleave=False) and reorders
\* the answers by Transpose: they are then in the order of the batch with every row n
\* times in place (repeat with interleave=True), with which they are united.
THEOREM BlocksMeetNeighbours ==
  ASSUME NEW S, NEW b \in Seq(S), NEW n \in Nat
  PROVE  Reorder(Tile(b, n), Transpose(n, Len(b))) = Repeat(b, n)
<1> DEFINE m == Len(b)
           T == Transpose(n, m)
<1>1. m \in Nat /\ n * m \in Nat /\ n * m = m * n
  OBVIOUS
<1>2. Len(T) = n * m /\ T = [i \in 1..(n * m) |-> T[i]]
  BY <1>1 DEF Transpose
<1>3. ASSUME NEW i \in 1..(n * m)
      PROVE  Tile(b, n)[T[i]] = b[((i - 1) \div n) + 1]
  <2>1. T[i] \in 1..(m * n) /\ (T[i] - 1) % m = (i - 1) \div n
    BY <1>1, TransposeAt
  <2> QED BY <2>1 DEF Tile
<1>4. Reorder(Tile(b, n), T) = [i \in 1..(n * m) |-> Tile(b, n)[T[i]]]
  BY <1>2 DEF Reorder
<1>5. [i \in 1..(n * m) |-> Tile(b, n)[T[i]]] = [i \in 1..(n * m) |-> b[((i - 1) \div n) + 1]]
  BY <1>3
<1> QED BY <1>1, <1>4, <1>5 DEF Repeat

\* Micro-batches of like length are computed in another order and put back by
\* get_reverse_idx: what is reordered by a permutation comes back as it was.
THEOREM ReverseIdxReverts ==
  ASSUME NEW S, NEW b \in Seq(S), NEW idx \in Seq(1..Len(b)), Len(idx) = Len(b),
         \A p \in 1..Len(b) : \E i \in 1..Len(b) : idx[i] = p
  PROVE  Reorder(Reorder(b, idx), ReverseIdx(idx)) = b
<1> DEFINE R == ReverseIdx(idx)
<1>1. /\ Len(R) = Len(b)
      /\ \A p \in 1..Len(b) : R[p] \in 1..Len(b) /\ idx[R[p]] = p
  <2>1. R = [p \in 1..Len(b) |-> CHOOSE i \in 1..Len(b) : idx[i] = p]
    BY DEF ReverseIdx
  <2>2. Len(R) = Len(b)
    BY <2>1
  <2>3. ASSUME NEW p \in 1..Len(b)
        PROVE  R[p] \in 1..Len(b) /\ idx[R[p]] = p
    <3>1. R[p] = CHOOSE i \in 1..Len(b) : idx[i] = p
      BY <2>1
    <3>2. \E i \in 1..Len(b) : idx[i] = p
      OBVIOUS
    <3> QED BY <3>1, <3>2, Zenon
  <2> QED BY <2>2, <2>3
<1>2. Reorder(b, idx) = [i \in 1..Len(b) |-> b[idx[i]]]
  BY DEF Reorder
<1> HIDE DEF R
<1>3. Reorder(Reorder(b, idx), R) = [p \in 1..Len(b) |-> Reorder(b, idx)[R[p]]]
  BY <1>1 DEF Reorder
<1>4. ASSUME NEW p \in 1..Len(b)
      PROVE  Reorder(b, idx)[R[p]] = b[p]
  <2>1. R[p] \in 1..Len(b) /\ idx[R[p]] = p
    BY <1>1
  <2>2. Reorder(b, idx)[R[p]] = b[idx[R[p]]]
    BY <1>2, <2>1
  <2> QED BY <2>1, <2>2
<1>5. Reorder(Reorder(b, idx), R) = [p \in 1..Len(b) |-> b[p]]
  BY <1>3, <1>4
<1>6. b = [p \in 1..Len(b) |-> b[p]]
  OBVIOUS
<1> QED BY <1>5, <1>6 DEF R

-----------------------------------------------------------------------------
\* To the ranks and back.

\* The parts that chunk makes are of one length, and concat puts the batch together
\* again: dispatch and collect lose nothing and mix nothing up.
THEOREM ConcatAfterChunk ==
  ASSUME NEW S, NEW b \in Seq(S), NEW k \in Nat \ {0}, CanChunk(b, k)
  PROVE  Concat(Chunk(b, k)) = b
<1> DEFINE size == Len(b) \div k
           parts == Chunk(b, k)
<1>1. size \in Nat /\ Len(b) = k * size
  BY DEF CanChunk
<1>2. parts = [c \in 1..k |-> [i \in 1..size |-> b[(c - 1) * size + i]]]
  BY DEF Chunk
<1>3. Len(parts) = k /\ Len(parts[1]) = size
  BY <1>1, <1>2
<1>4. ASSUME NEW i \in 1..Len(b)
      PROVE  parts[((i - 1) \div size) + 1][((i - 1) % size) + 1] = b[i]
  <2> DEFINE q == (i - 1) \div size
             r == (i - 1) % size
  <2>1. i - 1 \in Nat /\ i - 1 < k * size
    BY <1>1
  <2>2. q \in Nat /\ q < k /\ r \in Nat /\ r < size /\ i - 1 = q * size + r
    BY <2>1, <1>1, DivBelow
  <2>3. q + 1 \in 1..k /\ r + 1 \in 1..size
    BY <2>2
  <2>4. parts[q + 1][r + 1] = b[((q + 1) - 1) * size + (r + 1)]
    BY <1>2, <2>3
  <2>5. ((q + 1) - 1) * size + (r + 1) = i
    <3> HIDE DEF q, r, size
    <3>1. (q + 1) - 1 = q
      BY <2>2
    <3> QED BY <3>1, <2>2, <1>1
  <2> QED BY <2>4, <2>5
<1>5. Concat(parts) = [i \in 1..Len(b) |-> parts[((i - 1) \div size) + 1][((i - 1) % size) + 1]]
  BY <1>1, <1>3 DEF Concat
<1>6. b = [i \in 1..Len(b) |-> b[i]]
  OBVIOUS
<1> QED BY <1>4, <1>5, <1>6

\* The padding of a batch to a number of ranks makes its length divisible, by less
\* rows than there are ranks, and unpad_dataproto takes away just that.
THEOREM UnpadAfterPad ==
  ASSUME NEW S, NEW b \in Seq(S), NEW d \in Nat \ {0}
  PROVE  /\ PadSize(b, d) \in 0..(d - 1)
         /\ CanChunk(PadToDivisor(b, d), d)
         /\ Unpad(PadToDivisor(b, d), PadSize(b, d)) = b
<1> DEFINE m == Len(b)
           r == m % d
           pad == PadSize(b, d)
<1>1. m \in Nat /\ r \in 0..(d - 1) /\ m = (m \div d) * d + r /\ m \div d \in Nat
  OBVIOUS
<1>2. pad = (d - r) % d
  BY DEF PadSize
<1>3. pad \in 0..(d - 1)
  BY <1>1, <1>2
<1>4. (m + pad) % d = 0
  <2>1. CASE r = 0
    <3>1. (d - r) % d = 0
      BY <2>1
    <3> QED BY <2>1, <1>1, <1>2, <3>1
  <2>2. CASE r > 0
    <3>1. (d - r) % d = d - r
      BY <2>2, <1>1
    <3>2. pad = d - r
      BY <3>1, <1>1, <1>2
    <3>3. PICK q \in Nat : q = (m \div d) + 1
      BY <1>1
    <3>4. m + pad = q * d + 0
      BY <3>2, <3>3, <1>1
    <3>5. (q * d + 0) % d = 0
      BY DivModUnique
    <3> QED BY <3>4, <3>5
  <2> QED BY <2>1, <2>2, <1>1
<1>5. PadToDivisor(b, d) = [i \in 1..(m + pad) |-> b[((i - 1) % m) + 1]]
  BY DEF PadToDivisor
<1>6. Len(PadToDivisor(b, d)) = m + pad
  BY <1>3, <1>5
<1>7. ASSUME NEW i \in 1..m
      PROVE  PadToDivisor(b, d)[i] = b[i]
  <2>1. (0 * m + (i - 1)) % m = i - 1
    BY DivModUnique
  <2>2. ((i - 1) % m) + 1 = i
    BY <2>1
  <2> QED BY <2>2, <1>3, <1>5
<1>8. Unpad(PadToDivisor(b, d), pad) = [i \in 1..m |-> PadToDivisor(b, d)[i]]
  <2>1. (m + pad) - pad = m /\ m \in 0..(m + pad)
    BY <1>3
  <2>2. PadToDivisor(b, d) \in Seq(S)
    <3>1. ASSUME NEW i \in 1..(m + pad)
          PROVE  b[((i - 1) % m) + 1] \in S
      <4>1. m > 0
        BY <1>2, <1>3, <1>1
      <4>2. (i - 1) % m \in 0..(m - 1)
        BY <4>1, <1>3
      <4> QED BY <4>2
    <3>2. m + pad \in Nat
      BY <1>1, <1>3
    <3> HIDE DEF pad, m
    <3>3. [i \in 1..(m + pad) |-> b[((i - 1) % m) + 1]] \in [1..(m + pad) -> S]
      BY <3>1
    <3>4. [1..(m + pad) -> S] \subseteq Seq(S)
      BY <3>2
    <3> QED BY <1>5, <3>3, <3>4
  <2> HIDE DEF pad
  <2> QED BY <2>1, <2>2, <1>6 DEF Unpad
<1>9. b = [i \in 1..m |-> b[i]]
  OBVIOUS
<1> QED BY <1>3, <1>4, <1>6, <1>7, <1>8, <1>9 DEF CanChunk

-----------------------------------------------------------------------------
\* Counting up, and functions defined by it

\* A set of naturals that is not empty has a least element.
LEMMA LeastOf ==
  ASSUME NEW S \in SUBSET Nat, S # {}
  PROVE  \E m \in S : \A n \in S : m <= n
<1>1. PICK m \in S : \A n \in S : ~(<<n, m>> \in OpToRel(<, Nat))
  BY NatLessThanWellFounded, WFMin, Zenon
<1>2. \A n \in S : ~(n < m)
  BY <1>1 DEF OpToRel
<1> QED
  BY <1>2

\* What holds at the first place and goes on from each place to the next holds up to
\* the last.
LEMMA CountUp ==
  ASSUME NEW n \in Nat, NEW G, 0 \in G, \A i \in 0..(n - 1) : i \in G => i + 1 \in G
  PROVE  \A i \in 0..n : i \in G
<1> SUFFICES ASSUME NEW i \in 0..n, i \notin G PROVE FALSE
  OBVIOUS
<1> DEFINE B == {j \in 0..n : j \notin G}
<1>1. B \in SUBSET Nat /\ B # {}
  OBVIOUS
<1>2. PICK m \in B : \A j \in B : m <= j
  BY <1>1, LeastOf
<1>3. m \in 0..n /\ m \notin G /\ m # 0
  BY <1>2
<1>4. m - 1 \in 0..(n - 1) /\ m - 1 \in 0..n /\ ~(m <= m - 1) /\ (m - 1) + 1 = m
  BY <1>3
<1>5. m - 1 \in G
  BY <1>2, <1>4
<1> QED
  BY <1>3, <1>4, <1>5

\* A function is defined by its first value and a step from each value to the next.
StepsOf(S, n) == [S \X (1..n) -> S]
Follows(f, S, a, n, g) == f \in [0..n -> S] /\ f[0] = a /\ \A i \in 1..n : f[i] = g[<<f[i - 1], i>>]

\* There is such a function.
LEMMA Recursion ==
  ASSUME NEW S, NEW a \in S, NEW n \in Nat, NEW g \in StepsOf(S, n)
  PROVE  \E f : Follows(f, S, a, n, g)
<1> USE DEF StepsOf
<1> DEFINE Upto(m, f) == Follows(f, S, a, m, g)
           G == {m \in 0..n : \E f : Upto(m, f)}
<1>1. 0 \in G
  <2> DEFINE h == [i \in 0..0 |-> a]
  <2>1. h \in [0..0 -> S] /\ h[0] = a
    OBVIOUS
  <2>2. Upto(0, h)
    BY <2>1 DEF Follows
  <2> HIDE DEF h
  <2>3. \E f : Upto(0, f)
    BY <2>2, Zenon
  <2>4. 0 \in 0..n
    OBVIOUS
  <2> QED
    BY <2>3, <2>4
<1>2. ASSUME NEW m \in 0..(n - 1), m \in G
      PROVE  m + 1 \in G
  <2>0. PICK f : Upto(m, f)
    BY <1>2
  <2>1. f \in [0..m -> S] /\ f[0] = a /\ \A i \in 1..m : f[i] = g[<<f[i - 1], i>>]
    BY <2>0 DEF Follows
  <2> DEFINE h == [i \in 0..(m + 1) |-> IF i = m + 1 THEN g[<<f[m], m + 1>>] ELSE f[i]]
  <2>2. m \in Nat /\ m + 1 \in 1..n /\ f[m] \in S
    BY <2>1
  <2>3. g[<<f[m], m + 1>>] \in S
    BY <2>2
  <2>4. h \in [0..(m + 1) -> S]
    BY <2>1, <2>2, <2>3
  <2>5. h[0] = a
    BY <2>1, <2>2
  <2>6. ASSUME NEW i \in 1..(m + 1) PROVE h[i] = g[<<h[i - 1], i>>]
    <3>1. CASE i = m + 1
      <4>1. h[i - 1] = f[m] /\ h[i] = g[<<f[m], m + 1>>]
        BY <2>2, <3>1
      <4> QED
        BY <4>1, <3>1
    <3>2. CASE i # m + 1
      <4>1. i \in 1..m /\ h[i] = f[i] /\ h[i - 1] = f[i - 1]
        BY <2>2, <3>2
      <4> QED
        BY <4>1, <2>1
    <3> QED
      BY <3>1, <3>2
  <2>7. Upto(m + 1, h)
    BY <2>4, <2>5, <2>6 DEF Follows
  <2> HIDE DEF h
  <2> QED
    BY <2>7, <2>2
<1> HIDE DEF G
<1>3. n \in G
  BY <1>1, <1>2, CountUp
<1> QED
  BY <1>3 DEF G

-----------------------------------------------------------------------------
\* Sorting

\* t holds each of 1..n once.
Permutes(t, n) ==
  /\ t \in [1..n -> 1..n]
  /\ \A i, j \in 1..n : t[i] = t[j] => i = j
  /\ \A x \in 1..n : \E i \in 1..n : t[i] = x

\* A number is put into a list at one place, which is one of the list's or behind it.
Inserted(u, t, x, k) ==
  /\ u \in Seq(Nat \cup {x}) /\ Len(u) = Len(t) + 1
  /\ u[k + 1] = x
  /\ \A j \in 1..k : u[j] = t[j]
  /\ \A j \in (k + 2)..(Len(t) + 1) : u[j] = t[j - 1]

\* Insert puts x behind those that stay before it.
LEMMA InsertedAt ==
  ASSUME NEW t \in Seq(Nat), NEW x, NEW stay
  PROVE  \E k \in 0..Len(t) : /\ k = Cardinality({m \in 1..Len(t) : <<t[m], x>> \in stay})
                             /\ Inserted(Insert(t, x, stay), t, x, k)
<1> DEFINE n == Len(t)
           M == {m \in 1..n : <<t[m], x>> \in stay}
           k == Cardinality(M)
           u == Insert(t, x, stay)
<1>0. n \in Nat
  OBVIOUS
<1>1. IsFiniteSet(1..n) /\ Cardinality(1..n) = n
  <2> HIDE DEF n
  <2> QED
    BY <1>0, FS_Interval
<1>2. M \in SUBSET (1..n)
  OBVIOUS
<1>3. IsFiniteSet(M) /\ k <= n
  BY <1>1, <1>2, FS_Subset
<1>4. k \in Nat
  BY <1>3, FS_CardinalityType
<1>5. u = [j \in 1..(n + 1) |-> IF j <= k THEN t[j] ELSE IF j = k + 1 THEN x ELSE t[j - 1]]
  BY DEF Insert
<1> HIDE DEF k, u
<1>6. k \in 0..n
  BY <1>3, <1>4
<1>7. \A j \in 1..(n + 1) : u[j] \in Nat \cup {x}
  BY <1>5, <1>6
<1>8. u \in Seq(Nat \cup {x}) /\ Len(u) = n + 1
  BY <1>0, <1>5, <1>7
<1>9. u[k + 1] = x
  BY <1>5, <1>6
<1>10. \A j \in 1..k : u[j] = t[j]
  BY <1>5, <1>6
<1>11. \A j \in (k + 2)..(n + 1) : u[j] = t[j - 1]
  BY <1>5, <1>6
<1>12. Inserted(u, t, x, k)
  BY <1>8, <1>9, <1>10, <1>11 DEF Inserted
<1> QED
  BY <1>6, <1>12 DEF k, u

\* What is inserted is there, and all that was.
LEMMA InsertPermutes ==
  ASSUME NEW n \in Nat, NEW t, Permutes(t, n), NEW stay
  PROVE  Permutes(Insert(t, n + 1, stay), n + 1)
<1> DEFINE x == n + 1
           u == Insert(t, x, stay)
<1>1. t \in [1..n -> 1..n]
  BY DEF Permutes
<1>2. t \in Seq(Nat) /\ Len(t) = n
  BY <1>1
<1>3. PICK k \in 0..n : Inserted(u, t, x, k)
  <2>1. \E k \in 0..Len(t) : Inserted(u, t, x, k)
    BY <1>2, InsertedAt
  <2> QED
    BY <2>1, <1>2
<1> HIDE DEF u
<1>4. \A j \in 1..(n + 1) : (j <= k /\ j \in 1..n) \/ j = k + 1 \/ (j > k + 1 /\ j - 1 \in 1..n)
  OBVIOUS
<1>5. \A i \in 1..n : t[i] \in 1..n
  BY <1>1
<1>6. u \in [1..(n + 1) -> 1..(n + 1)]
  <2>1. u \in Seq(Nat) /\ Len(u) = n + 1
    BY <1>2, <1>3 DEF Inserted
  <2>2. ASSUME NEW j \in 1..(n + 1) PROVE u[j] \in 1..(n + 1)
    <3>1. CASE j <= k
      BY <1>3, <1>4, <1>5, <3>1 DEF Inserted
    <3>2. CASE j = k + 1
      BY <1>3, <3>2 DEF Inserted
    <3>3. CASE j > k + 1
      <4>1. j - 1 \in 1..n /\ j \in (k + 2)..(n + 1)
        BY <3>3
      <4>2. u[j] = t[j - 1]
        BY <4>1, <1>2, <1>3 DEF Inserted
      <4> QED
        BY <4>1, <4>2, <1>5
    <3> QED
      BY <3>1, <3>2, <3>3
  <2> QED
    BY <2>1, <2>2
<1>7. ASSUME NEW i \in 1..(n + 1), NEW j \in 1..(n + 1), u[i] = u[j] PROVE i = j
  <2>1. \A a, b \in 1..n : t[a] = t[b] => a = b
    BY DEF Permutes
  <2> DEFINE v(a) == IF a <= k THEN a ELSE a - 1
  <2>2. ASSUME NEW a \in 1..(n + 1), a # k + 1
        PROVE  v(a) \in 1..n /\ u[a] = t[v(a)] /\ u[a] # n + 1
    <3>1. v(a) \in 1..n
      BY <2>2
    <3>2. u[a] = t[v(a)]
      <4>1. a \in 1..k \/ a \in (k + 2)..(n + 1)
        BY <2>2
      <4> QED
        BY <1>2, <1>3, <4>1 DEF Inserted
    <3>3. t[v(a)] \in 1..n
      BY <3>1, <1>5
    <3> QED
      BY <3>1, <3>2, <3>3
  <2>3. u[k + 1] = n + 1 /\ k + 1 \in 1..(n + 1)
    BY <1>3 DEF Inserted
  <2>4. CASE i = k + 1 \/ j = k + 1
    BY <2>4, <1>7, <2>2, <2>3
  <2>5. CASE i # k + 1 /\ j # k + 1
    <3>1. v(i) \in 1..n /\ v(j) \in 1..n /\ t[v(i)] = t[v(j)]
      BY <2>2, <2>5, <1>7
    <3>2. v(i) = v(j)
      BY <3>1, <2>1
    <3> QED
      BY <3>2, <2>5
  <2> QED
    BY <2>4, <2>5
<1>8. ASSUME NEW y \in 1..(n + 1) PROVE \E i \in 1..(n + 1) : u[i] = y
  <2>1. CASE y = n + 1
    <3>1. u[k + 1] = y /\ k + 1 \in 1..(n + 1)
      BY <1>3, <2>1 DEF Inserted
    <3> QED
      BY <3>1
  <2>2. CASE y # n + 1
    <3>1. y \in 1..n
      BY <2>2
    <3>2. PICK i \in 1..n : t[i] = y
      BY <3>1 DEF Permutes
    <3>3. CASE i <= k
      <4>1. u[i] = y /\ i \in 1..(n + 1)
        BY <1>3, <3>2, <3>3 DEF Inserted
      <4> QED
        BY <4>1
    <3>4. CASE i > k
      <4>1. i + 1 \in (k + 2)..(n + 1) /\ i + 1 \in 1..(n + 1) /\ (i + 1) - 1 = i
        BY <3>4
      <4>2. u[i + 1] = y
        BY <1>2, <1>3, <3>2, <4>1 DEF Inserted
      <4> QED
        BY <4>1, <4>2
    <3> QED
      BY <3>3, <3>4
  <2> QED
    BY <2>1, <2>2
<1> QED
  BY <1>6, <1>7, <1>8 DEF Permutes, u

\* The numbers inserted one after the other.
LEMMA SortedInTurn ==
  ASSUME NEW n \in Nat, NEW stay
  PROVE  \E f : /\ f[0] = <<>> /\ f[n] = SortedPositions(n, stay)
                /\ \A i \in 1..n : f[i] = Insert(f[i - 1], i, stay)
                /\ \A i \in 0..n : f[i] \in Seq(Nat) /\ Permutes(f[i], i)
<1> DEFINE S == Seq(Nat)
           g == [y \in S \X (1..n) |-> Insert(y[1], y[2], stay)]
<1>1. ASSUME NEW t \in S, NEW x \in 1..n PROVE Insert(t, x, stay) \in S
  <2>1. PICK k \in 0..Len(t) : Inserted(Insert(t, x, stay), t, x, k)
    BY InsertedAt
  <2>2. Nat \cup {x} = Nat
    OBVIOUS
  <2> QED
    BY <2>1, <2>2 DEF Inserted
<1>2. g \in [S \X (1..n) -> S]
  BY <1>1
<1>3. <<>> \in S
  OBVIOUS
<1>4. PICK f : f \in [0..n -> S] /\ f[0] = <<>> /\ \A i \in 1..n : f[i] = g[<<f[i - 1], i>>]
  <2>1. g \in StepsOf(S, n)
    BY <1>2 DEF StepsOf
  <2>2. PICK f : Follows(f, S, <<>>, n, g)
    <3> HIDE DEF g, S
    <3> QED
      BY <2>1, <1>3, Recursion
  <2> QED
    BY <2>2, Zenon DEF Follows
<1>5. \A i \in 1..n : f[i] = Insert(f[i - 1], i, stay)
  <2> TAKE i \in 1..n
  <2>1. i - 1 \in 0..n
    OBVIOUS
  <2>2. f[i - 1] \in S
    BY <2>1, <1>4
  <2>3. g[<<f[i - 1], i>>] = Insert(f[i - 1], i, stay)
    BY <2>2
  <2> QED
    BY <2>3, <1>4
<1>6. f = [i \in 0..n |-> IF i = 0 THEN <<>> ELSE Insert(f[i - 1], i, stay)]
  <2>1. f = [i \in 0..n |-> f[i]]
    BY <1>4
  <2>2. \A i \in 0..n : f[i] = IF i = 0 THEN <<>> ELSE Insert(f[i - 1], i, stay)
    BY <1>4, <1>5
  <2> QED
    BY <2>1, <2>2, Zenon
<1> DEFINE c == CHOOSE h : h = [i \in 0..n |-> IF i = 0 THEN <<>> ELSE Insert(h[i - 1], i, stay)]
<1>7. c = [i \in 0..n |-> IF i = 0 THEN <<>> ELSE Insert(c[i - 1], i, stay)]
  BY <1>6, Zenon
<1>8. SortedPositions(n, stay) = c[n]
  BY DEF SortedPositions
<1> HIDE DEF c
<1>9. c[0] = <<>> /\ \A i \in 1..n : c[i] = Insert(c[i - 1], i, stay)
  <2>1. c[0] = <<>>
    BY <1>7
  <2>2. ASSUME NEW i \in 1..n PROVE c[i] = Insert(c[i - 1], i, stay)
    <3>1. i \in 0..n /\ i # 0
      OBVIOUS
    <3> QED
      BY <3>1, <1>7
  <2> QED
    BY <2>1, <2>2
<1>10. \A i \in 0..n : Permutes(c[i], i)
  <2> DEFINE G == {i \in 0..n : Permutes(c[i], i)}
  <2>1. 0 \in G
    <3> DEFINE e == <<>>
    <3>1. e \in [1..0 -> 1..0] /\ 1..0 = {}
      OBVIOUS
    <3> HIDE DEF e
    <3>2. Permutes(e, 0)
      BY <3>1, Zenon DEF Permutes
    <3>3. Permutes(c[0], 0) /\ 0 \in 0..n
      BY <3>2, <1>9 DEF e
    <3> QED
      BY <3>3
  <2>2. ASSUME NEW i \in 0..(n - 1), i \in G PROVE i + 1 \in G
    <3>1. i \in Nat /\ Permutes(c[i], i) /\ i + 1 \in 1..n /\ (i + 1) - 1 = i
      BY <2>2
    <3>2. c[i + 1] = Insert(c[i], i + 1, stay)
      BY <3>1, <1>9
    <3>3. Permutes(c[i + 1], i + 1)
      BY <3>1, <3>2, InsertPermutes
    <3> QED
      BY <3>1, <3>3
  <2> HIDE DEF G
  <2>3. \A i \in 0..n : i \in G
    BY <2>1, <2>2, CountUp
  <2> QED
    BY <2>3 DEF G
<1>11. \A i \in 0..n : c[i] \in Seq(Nat)
  <2> TAKE i \in 0..n
  <2> DEFINE t == c[i]
  <2>1. Permutes(t, i) /\ i \in Nat
    BY <1>10
  <2> HIDE DEF t
  <2>2. t \in [1..i -> 1..i]
    BY <2>1 DEF Permutes
  <2>3. t \in Seq(Nat)
    BY <2>1, <2>2
  <2> QED
    BY <2>3 DEF t
<1> QED
  BY <1>8, <1>9, <1>10, <1>11

\* All the numbers are sorted, none is lost and none comes twice.
LEMMA SortPermutes ==
  ASSUME NEW n \in Nat, NEW stay
  PROVE  Permutes(SortedPositions(n, stay), n)
<1>1. PICK f : f[n] = SortedPositions(n, stay) /\ \A i \in 0..n : Permutes(f[i], i)
  BY SortedInTurn
<1> QED
  BY <1>1

\* The pairs that stay order 1..n, if of any two one stays before the other and this
\* goes on from pair to pair.
Orders(stay, n) ==
  /\ \A a, b \in 1..n : <<a, b>> \in stay \/ <<b, a>> \in stay
  /\ \A a, b, c \in 1..n : <<a, b>> \in stay /\ <<b, c>> \in stay => <<a, c>> \in stay

InOrder(t, m, stay) == \A i, j \in 1..m : i < j => <<t[i], t[j]>> \in stay

\* What is inserted comes behind all that stay before it, and before all others.
LEMMA InsertOrders ==
  ASSUME NEW n \in Nat, NEW stay, Orders(stay, n), NEW m \in 0..(n - 1),
         NEW t \in Seq(Nat), Permutes(t, m), InOrder(t, m, stay)
  PROVE  InOrder(Insert(t, m + 1, stay), m + 1, stay)
<1> DEFINE x == m + 1
           u == Insert(t, x, stay)
           M == {l \in 1..m : <<t[l], x>> \in stay}
<1>1. m \in Nat /\ x \in 1..n /\ Len(t) = m /\ \A l \in 1..m : t[l] \in 1..n
  <2>1. t \in [1..m -> 1..m]
    BY DEF Permutes
  <2> QED
    BY <2>1
<1>2. PICK k \in 0..m : k = Cardinality(M) /\ Inserted(u, t, x, k)
  <2>1. PICK k \in 0..Len(t) : /\ k = Cardinality({l \in 1..Len(t) : <<t[l], x>> \in stay})
                               /\ Inserted(Insert(t, x, stay), t, x, k)
    <3> HIDE DEF x
    <3> QED
      BY InsertedAt
  <2> QED
    BY <2>1, <1>1
<1>3. ASSUME NEW l \in 1..m, NEW h \in 1..l, <<t[l], x>> \in stay
      PROVE  <<t[h], x>> \in stay
  <2>1. h \in 1..m /\ (h = l \/ h < l)
    OBVIOUS
  <2>2. h < l => <<t[h], t[l]>> \in stay
    BY <2>1 DEF InOrder
  <2>3. t[h] \in 1..n /\ t[l] \in 1..n
    BY <1>1, <2>1
  <2> QED
    BY <1>1, <1>3, <2>1, <2>2, <2>3 DEF Orders
<1>4. \A l \in 1..m : <<t[l], x>> \in stay <=> l <= k
  <2>1. IsFiniteSet(M)
    <3>1. IsFiniteSet(1..m)
      BY FS_Interval
    <3>2. M \in SUBSET (1..m)
      OBVIOUS
    <3> QED
      BY <3>1, <3>2, FS_Subset
  <2>2. ASSUME NEW l \in 1..m, <<t[l], x>> \in stay PROVE l <= k
    <3>1. 1..l \in SUBSET M
      BY <1>3, <2>2
    <3>2. IsFiniteSet(1..l) /\ Cardinality(1..l) = l
      <4>1. 1 \in Int /\ l \in Int /\ l >= 1
        OBVIOUS
      <4>2. IsFiniteSet(1..l) /\ Cardinality(1..l) = IF 1 > l THEN 0 ELSE l - 1 + 1
        BY <4>1, FS_Interval
      <4> QED
        BY <4>1, <4>2
    <3> HIDE DEF M
    <3>3. Cardinality(1..l) <= Cardinality(M)
      BY <2>1, <3>1, FS_Subset
    <3> QED
      BY <1>2, <3>2, <3>3
  <2>3. ASSUME NEW l \in 1..m, <<t[l], x>> \notin stay PROVE k < l
    <3>1. M \in SUBSET (1..(l - 1))
      <4> SUFFICES ASSUME NEW h \in M PROVE h \in 1..(l - 1)
        OBVIOUS
      <4>1. h \in 1..m /\ <<t[h], x>> \in stay
        OBVIOUS
      <4>2. ~(l \in 1..h)
        BY <1>3, <2>3, <4>1
      <4> QED
        BY <4>1, <4>2
    <3>2. IsFiniteSet(1..(l - 1)) /\ Cardinality(1..(l - 1)) = l - 1
      <4>1. 1 \in Int /\ l - 1 \in Int /\ l - 1 >= 0
        OBVIOUS
      <4>2. IsFiniteSet(1..(l - 1)) /\ Cardinality(1..(l - 1)) = IF 1 > l - 1 THEN 0 ELSE (l - 1) - 1 + 1
        BY <4>1, FS_Interval
      <4> QED
        BY <4>1, <4>2
    <3> HIDE DEF M
    <3>3. Cardinality(M) <= Cardinality(1..(l - 1))
      BY <3>1, <3>2, FS_Subset
    <3> QED
      BY <1>2, <3>2, <3>3
  <2> QED
    BY <2>2, <2>3
<1> HIDE DEF u, M
<1>5. /\ u[k + 1] = x /\ \A j \in 1..k : u[j] = t[j]
      /\ \A j \in (k + 2)..(m + 1) : u[j] = t[j - 1]
  BY <1>1, <1>2 DEF Inserted
<1>6. SUFFICES ASSUME NEW i \in 1..(m + 1), NEW j \in 1..(m + 1), i < j
               PROVE  <<u[i], u[j]>> \in stay
  BY DEF InOrder, u
<1>7. CASE j <= k
  <2>1. i \in 1..k /\ j \in 1..k /\ i \in 1..m /\ j \in 1..m
    BY <1>6, <1>7
  <2> QED
    BY <1>5, <1>6, <2>1 DEF InOrder
<1>8. CASE j = k + 1
  <2>1. i \in 1..k /\ i \in 1..m /\ i <= k
    BY <1>6, <1>8
  <2> QED
    BY <1>4, <1>5, <1>8, <2>1
<1>9. CASE j > k + 1
  <2>1. j \in (k + 2)..(m + 1) /\ j - 1 \in 1..m /\ ~(j - 1 <= k)
    BY <1>9
  <2>2. u[j] = t[j - 1] /\ t[j - 1] \in 1..n
    BY <1>1, <1>5, <2>1
  <2>3. CASE i <= k
    <3>1. i \in 1..k /\ i \in 1..m /\ i < j - 1
      BY <1>6, <1>9, <2>3
    <3> QED
      BY <1>5, <2>1, <2>2, <3>1 DEF InOrder
  <2>4. CASE i = k + 1
    <3>1. <<t[j - 1], x>> \notin stay
      BY <1>4, <2>1
    <3>2. <<x, t[j - 1]>> \in stay
      BY <1>1, <2>2, <3>1 DEF Orders
    <3> QED
      BY <1>5, <2>2, <2>4, <3>2
  <2>5. CASE i > k + 1
    <3>1. i \in (k + 2)..(m + 1) /\ i - 1 \in 1..m /\ i - 1 < j - 1
      BY <1>6, <2>5
    <3> QED
      BY <1>5, <2>1, <2>2, <3>1 DEF InOrder
  <2> QED
    BY <2>3, <2>4, <2>5
<1> QED
  BY <1>7, <1>8, <1>9

\* The numbers come out in order.
LEMMA SortOrders ==
  ASSUME NEW n \in Nat, NEW stay, Orders(stay, n)
  PROVE  InOrder(SortedPositions(n, stay), n, stay)
<1>1. PICK f : /\ f[0] = <<>> /\ f[n] = SortedPositions(n, stay)
               /\ \A i \in 1..n : f[i] = Insert(f[i - 1], i, stay)
               /\ \A i \in 0..n : f[i] \in Seq(Nat) /\ Permutes(f[i], i)
  BY SortedInTurn
<1> DEFINE G == {i \in 0..n : InOrder(f[i], i, stay)}
<1>2. 0 \in G
  BY DEF InOrder
<1>3. ASSUME NEW m \in 0..(n - 1), m \in G PROVE m + 1 \in G
  <2>1. m \in 0..n /\ m + 1 \in 1..n /\ m + 1 \in 0..n /\ (m + 1) - 1 = m
    OBVIOUS
  <2>2. f[m + 1] = Insert(f[m], m + 1, stay) /\ f[m] \in Seq(Nat) /\ Permutes(f[m], m) /\ InOrder(f[m], m, stay)
    BY <1>1, <1>3, <2>1
  <2>3. InOrder(f[m + 1], m + 1, stay)
    BY <2>2, InsertOrders
  <2> QED
    BY <2>1, <2>3
<1> HIDE DEF G
<1>4. n \in G
  BY <1>2, <1>3, CountUp
<1> QED
  BY <1>1, <1>4 DEF G

\* d is s in another order.
Rearranged(d, s, p, n) == Permutes(p, n) /\ d = [i \in 1..n |-> s[p[i]]]

\* A sequence sorted is the same one in another order.
LEMMA SortedIs ==
  ASSUME NEW s, NEW n \in Nat, Len(s) = n, NEW stay
  PROVE  \E p : Rearranged(Sorted(s, stay), s, p, n) /\ (Orders(stay, n) => InOrder(p, n, stay))
<1>1. Sorted(s, stay) = [i \in 1..n |-> s[SortedPositions(n, stay)[i]]]
  BY DEF Sorted
<1>2. Rearranged(Sorted(s, stay), s, SortedPositions(n, stay), n)
  BY <1>1, SortPermutes DEF Rearranged
<1> QED
  BY <1>2, SortOrders

-----------------------------------------------------------------------------
\* The order of Sets

ItemPairs == (Nat \X Nat)
Sets == [sum : Nat, items : Seq(ItemPairs)]

\* Less is an order of items.
LEMMA LessOrders ==
  ASSUME NEW x \in ItemPairs, NEW y \in ItemPairs, NEW z \in ItemPairs
  PROVE  /\ ~(Less(x, y) /\ Less(y, x))
         /\ Less(x, y) \/ Less(y, x) \/ x = y
         /\ Less(x, z) => Less(x, y) \/ Less(y, z)
<1>1. /\ x = <<x[1], x[2]>> /\ y = <<y[1], y[2]>>
      /\ x[1] \in Nat /\ x[2] \in Nat /\ y[1] \in Nat /\ y[2] \in Nat /\ z[1] \in Nat /\ z[2] \in Nat
  BY DEF ItemPairs
<1>2. x[1] = y[1] /\ x[2] = y[2] => x = y
  BY <1>1
<1> QED
  BY <1>1, <1>2 DEF Less

\* s and t have the same items before i.
SameTo(s, t, i) == \A j \in 1..(i - 1) : s.items[j] = t.items[j]

\* Below, level by level.
BelowBy(s, t) ==
  \/ s.sum < t.sum
  \/ s.sum = t.sum /\ Len(s.items) < Len(t.items)
  \/ /\ s.sum = t.sum /\ Len(s.items) = Len(t.items)
     /\ \E i \in 1..Len(s.items) : Less(s.items[i], t.items[i]) /\ SameTo(s, t, i)

\* Below, by its three cases.
LEMMA BelowIs ==
  ASSUME NEW s \in Sets, NEW t \in Sets
  PROVE  Below(s, t) <=> BelowBy(s, t)
<1>1. DOMAIN s.items = 1..Len(s.items)
  BY DEF Sets
<1> QED
  BY <1>1, Zenon DEF Below, BelowBy, SameTo

\* Items are equal up to a first difference.
LEMMA FirstDifference ==
  ASSUME NEW s \in Sets, NEW t \in Sets, Len(s.items) = Len(t.items), NEW n \in 0..Len(s.items)
  PROVE  \/ \A i \in 1..n : s.items[i] = t.items[i]
         \/ \E i \in 1..n : s.items[i] # t.items[i] /\ SameTo(s, t, i)
<1> DEFINE D == {i \in 1..n : s.items[i] # t.items[i]}
<1>1. CASE D = {}
  BY <1>1
<1>2. CASE D # {}
  <2>1. D \in SUBSET Nat
    BY DEF Sets
  <2>2. PICK i \in D : \A j \in D : i <= j
    BY <1>2, <2>1, LeastOf
  <2>3. i \in 1..n /\ s.items[i] # t.items[i]
    OBVIOUS
  <2>4. \A j \in 1..(i - 1) : j \in 1..n /\ ~(i <= j)
    BY <2>3
  <2>5. SameTo(s, t, i)
    BY <2>2, <2>4 DEF SameTo
  <2> QED
    BY <2>3, <2>5
<1> QED
  BY <1>1, <1>2

\* Sets none of which is below the other have equal items.
LEMMA BelowTotal ==
  ASSUME NEW s \in Sets, NEW t \in Sets, ~Below(s, t), ~Below(t, s)
  PROVE  s.sum = t.sum /\ s.items = t.items
<1>1. /\ s.sum \in Nat /\ t.sum \in Nat /\ s.items \in Seq(ItemPairs) /\ t.items \in Seq(ItemPairs)
      /\ Len(s.items) \in Nat /\ Len(t.items) \in Nat
  BY DEF Sets
<1>2. ~BelowBy(s, t) /\ ~BelowBy(t, s)
  BY BelowIs
<1>3. s.sum = t.sum /\ Len(s.items) = Len(t.items)
  BY <1>1, <1>2 DEF BelowBy
<1>4. ASSUME NEW i \in 1..Len(s.items), s.items[i] # t.items[i], SameTo(s, t, i) PROVE FALSE
  <2>1. s.items[i] \in ItemPairs /\ t.items[i] \in ItemPairs
    BY <1>1, <1>3
  <2>2. Less(s.items[i], t.items[i]) \/ Less(t.items[i], s.items[i])
    BY <1>4, <2>1, LessOrders
  <2>3. SameTo(t, s, i)
    BY <1>4 DEF SameTo
  <2>4. i \in 1..Len(t.items)
    BY <1>3
  <2>5. CASE Less(s.items[i], t.items[i])
    BY <2>5, <1>2, <1>3, <1>4, Zenon DEF BelowBy
  <2>6. CASE Less(t.items[i], s.items[i])
    BY <2>6, <1>2, <1>3, <2>3, <2>4, Zenon DEF BelowBy
  <2> QED
    BY <2>2, <2>5, <2>6
<1>5. Len(s.items) \in 0..Len(s.items)
  BY <1>1
<1>6. \A i \in 1..Len(s.items) : s.items[i] = t.items[i]
  BY <1>3, <1>4, <1>5, FirstDifference
<1> QED
  BY <1>1, <1>3, <1>6

\* Of two Sets at most one is below the other.
LEMMA BelowAsymmetric ==
  ASSUME NEW s \in Sets, NEW t \in Sets, Below(s, t)
  PROVE  ~Below(t, s)
<1>1. /\ s.sum \in Nat /\ t.sum \in Nat /\ s.items \in Seq(ItemPairs) /\ t.items \in Seq(ItemPairs)
      /\ Len(s.items) \in Nat /\ Len(t.items) \in Nat
  BY DEF Sets
<1>2. BelowBy(s, t)
  BY BelowIs
<1> SUFFICES ASSUME BelowBy(t, s) PROVE FALSE
  BY BelowIs
<1>3. s.sum = t.sum /\ Len(s.items) = Len(t.items)
  BY <1>1, <1>2 DEF BelowBy
<1>4. PICK i \in 1..Len(s.items) : Less(s.items[i], t.items[i]) /\ SameTo(s, t, i)
  BY <1>1, <1>2, <1>3 DEF BelowBy
<1>5. PICK j \in 1..Len(s.items) : Less(t.items[j], s.items[j]) /\ SameTo(t, s, j)
  BY <1>1, <1>3 DEF BelowBy
<1>6. \A l \in 1..Len(s.items) : s.items[l] \in ItemPairs /\ t.items[l] \in ItemPairs
  BY <1>1, <1>3
<1>7. \A l \in 1..Len(s.items) : ~Less(s.items[l], s.items[l]) /\ ~Less(t.items[l], t.items[l]) /\ ~(Less(s.items[l], t.items[l]) /\ Less(t.items[l], s.items[l]))
  BY <1>6, LessOrders
<1>8. CASE i < j
  <2>1. i \in 1..(j - 1)
    BY <1>8
  <2> QED
    BY <1>4, <1>5, <1>7, <2>1 DEF SameTo
<1>9. CASE j < i
  <2>1. j \in 1..(i - 1)
    BY <1>9
  <2> QED
    BY <1>4, <1>5, <1>7, <2>1 DEF SameTo
<1>10. CASE i = j
  BY <1>4, <1>5, <1>7, <1>10
<1> QED
  BY <1>8, <1>9, <1>10

\* What is between two Sets is above the one or below the other.
LEMMA BelowBetween ==
  ASSUME NEW s \in Sets, NEW t \in Sets, NEW u \in Sets, Below(s, u)
  PROVE  Below(s, t) \/ Below(t, u)
<1>1. /\ s.sum \in Nat /\ t.sum \in Nat /\ u.sum \in Nat
      /\ s.items \in Seq(ItemPairs) /\ t.items \in Seq(ItemPairs) /\ u.items \in Seq(ItemPairs)
      /\ Len(s.items) \in Nat /\ Len(t.items) \in Nat /\ Len(u.items) \in Nat
  BY DEF Sets
<1>2. BelowBy(s, u)
  BY BelowIs
<1> SUFFICES ASSUME ~BelowBy(s, t), ~BelowBy(t, u) PROVE FALSE
  BY BelowIs
<1>3. s.sum = u.sum /\ t.sum = u.sum /\ Len(s.items) = Len(t.items) /\ Len(s.items) = Len(u.items)
  BY <1>1, <1>2 DEF BelowBy
<1>4. PICK i \in 1..Len(s.items) : Less(s.items[i], u.items[i]) /\ SameTo(s, u, i)
  BY <1>1, <1>2, <1>3 DEF BelowBy
<1>5. \A l \in 1..Len(s.items) : s.items[l] \in ItemPairs /\ t.items[l] \in ItemPairs /\ u.items[l] \in ItemPairs
  <2>1. \A l \in 1..Len(s.items) : s.items[l] \in ItemPairs
    BY <1>1
  <2>2. \A l \in 1..Len(t.items) : t.items[l] \in ItemPairs
    BY <1>1
  <2>3. \A l \in 1..Len(u.items) : u.items[l] \in ItemPairs
    BY <1>1
  <2> QED
    BY <1>3, <2>1, <2>2, <2>3
<1>6. i \in 1..Len(t.items) /\ i - 1 \in 0..Len(s.items)
  BY <1>3
<1>7. \/ \A j \in 1..(i - 1) : s.items[j] = t.items[j]
      \/ \E j \in 1..(i - 1) : s.items[j] # t.items[j] /\ SameTo(s, t, j)
  BY <1>3, <1>6, FirstDifference
<1>8. CASE \A j \in 1..(i - 1) : s.items[j] = t.items[j]
  <2>1. SameTo(s, t, i) /\ SameTo(t, u, i)
    BY <1>4, <1>8 DEF SameTo
  <2>2. Less(s.items[i], t.items[i]) \/ Less(t.items[i], u.items[i])
    BY <1>4, <1>5, LessOrders
  <2> QED
    BY <2>1, <2>2, <1>3, <1>6, Zenon DEF BelowBy
<1>9. CASE \E j \in 1..(i - 1) : s.items[j] # t.items[j] /\ SameTo(s, t, j)
  <2>1. PICK j \in 1..(i - 1) : s.items[j] # t.items[j] /\ SameTo(s, t, j)
    BY <1>9
  <2>2. j \in 1..Len(s.items) /\ j \in 1..Len(t.items) /\ \A l \in 1..(j - 1) : l \in 1..(i - 1)
    BY <1>6, <2>1
  <2>3. s.items[j] = u.items[j] /\ SameTo(t, u, j)
    BY <1>4, <2>1, <2>2 DEF SameTo
  <2>4. Less(s.items[j], t.items[j]) \/ Less(t.items[j], s.items[j])
    BY <1>5, <2>1, <2>2, LessOrders
  <2>5. CASE Less(s.items[j], t.items[j])
    BY <1>3, <2>1, <2>2, <2>5, Zenon DEF BelowBy
  <2>6. CASE Less(t.items[j], s.items[j])
    BY <1>3, <2>2, <2>3, <2>6, Zenon DEF BelowBy
  <2> QED
    BY <2>4, <2>5, <2>6
<1> QED
  BY <1>7, <1>8, <1>9

\* Below is transitive.
LEMMA BelowTransitive ==
  ASSUME NEW s \in Sets, NEW t \in Sets, NEW u \in Sets, Below(s, t), Below(t, u)
  PROVE  Below(s, u)
<1>1. Below(s, u) \/ Below(u, t)
  BY BelowBetween
<1>2. ~Below(u, t)
  BY BelowAsymmetric
<1> QED
  BY <1>1, <1>2

-----------------------------------------------------------------------------
\* Sums of lengths

\* f sums up the lengths of part.
Sums(f, lens, part, n) ==
  /\ f \in [0..n -> Nat] /\ f[0] = 0 /\ \A i \in 1..n : f[i] = f[i - 1] + lens[part[i]]

\* TokensOf adds the lengths of a part up, one after the other.
LEMMA TokensInTurn ==
  ASSUME NEW lens, NEW part, NEW n \in Nat, Len(part) = n, \A i \in 1..n : lens[part[i]] \in Nat
  PROVE  \E f : Sums(f, lens, part, n) /\ f[n] = TokensOf(lens, part)
<1> DEFINE g == [y \in Nat \X (1..n) |-> y[1] + lens[part[y[2]]]]
<1>1. g \in StepsOf(Nat, n)
  BY DEF StepsOf
<1>2. PICK f : Follows(f, Nat, 0, n, g)
  <2> HIDE DEF g
  <2>1. 0 \in Nat
    OBVIOUS
  <2> QED
    BY <1>1, <2>1, Recursion
<1>3. \A i \in 1..n : f[i] = f[i - 1] + lens[part[i]]
  <2> TAKE i \in 1..n
  <2>1. i - 1 \in 0..n /\ f[i - 1] \in Nat
    BY <1>2 DEF Follows
  <2>2. f[i] = g[<<f[i - 1], i>>]
    BY <1>2 DEF Follows
  <2> QED
    BY <2>1, <2>2
<1>4. f \in [0..n -> Nat] /\ f[0] = 0
  BY <1>2 DEF Follows
<1> DEFINE tokens == CHOOSE t : t = [i \in 0..n |-> IF i = 0 THEN 0 ELSE t[i - 1] + lens[part[i]]]
<1>5. TokensOf(lens, part) = tokens[n]
  BY DEF TokensOf
<1>6. f = [i \in 0..n |-> IF i = 0 THEN 0 ELSE f[i - 1] + lens[part[i]]]
  BY <1>3, <1>4
<1>7. tokens = [i \in 0..n |-> IF i = 0 THEN 0 ELSE tokens[i - 1] + lens[part[i]]]
  BY <1>6, Zenon
<1> HIDE DEF tokens
<1> DEFINE B == {i \in 0..n : tokens[i] = f[i]}
<1>8. 0 \in B
  BY <1>4, <1>7
<1>9. ASSUME NEW i \in 0..(n - 1), i \in B PROVE i + 1 \in B
  <2>1. i + 1 \in 1..n /\ (i + 1) - 1 = i /\ i + 1 \in 0..n /\ i + 1 # 0
    OBVIOUS
  <2>2. tokens[i + 1] = tokens[(i + 1) - 1] + lens[part[i + 1]]
    BY <1>7, <2>1
  <2>3. f[i + 1] = f[(i + 1) - 1] + lens[part[i + 1]]
    BY <1>3, <2>1
  <2> QED
    BY <1>9, <2>1, <2>2, <2>3
<1> HIDE DEF B
<1>10. \A i \in 0..n : i \in B
  BY <1>8, <1>9, CountUp
<1>11. tokens[n] = f[n]
  BY <1>10 DEF B
<1> QED
  BY <1>3, <1>4, <1>5, <1>11 DEF Sums

\* A part of m indices that have lengths, and w, which is u and then v.
Measured(lens, u, m) == m \in Nat /\ Len(u) = m /\ \A i \in 1..m : lens[u[i]] \in Nat
Appended(w, u, m, v, n) ==
  Len(w) = m + n /\ (\A i \in 1..m : w[i] = u[i]) /\ \A i \in 1..n : w[m + i] = v[i]

\* The tokens of two parts one after the other.
LEMMA TokensConcat ==
  ASSUME NEW lens, NEW u, NEW m, Measured(lens, u, m), NEW v, NEW n, Measured(lens, v, n),
         NEW w, Appended(w, u, m, v, n)
  PROVE  TokensOf(lens, w) = TokensOf(lens, u) + TokensOf(lens, v)
<1>0. /\ m \in Nat /\ Len(u) = m /\ (\A i \in 1..m : lens[u[i]] \in Nat)
      /\ n \in Nat /\ Len(v) = n /\ (\A i \in 1..n : lens[v[i]] \in Nat)
      /\ Len(w) = m + n /\ (\A i \in 1..m : w[i] = u[i]) /\ \A i \in 1..n : w[m + i] = v[i]
  BY DEF Measured, Appended
<1>1. PICK f : Sums(f, lens, u, m) /\ f[m] = TokensOf(lens, u)
  BY <1>0, TokensInTurn
<1>2. PICK g : Sums(g, lens, v, n) /\ g[n] = TokensOf(lens, v)
  BY <1>0, TokensInTurn
<1>3. \A i \in 1..(m + n) : lens[w[i]] \in Nat
  <2> TAKE i \in 1..(m + n)
  <2>1. CASE i <= m
    BY <1>0, <2>1
  <2>2. CASE i > m
    <3>1. i - m \in 1..n /\ m + (i - m) = i
      BY <1>0, <2>2
    <3>2. w[m + (i - m)] = v[i - m]
      BY <1>0, <3>1
    <3> QED
      BY <1>0, <3>1, <3>2
  <2> QED
    BY <1>0, <2>1, <2>2
<1>4. m + n \in Nat
  BY <1>0
<1>5. PICK h : Sums(h, lens, w, m + n) /\ h[m + n] = TokensOf(lens, w)
  BY <1>0, <1>3, <1>4, TokensInTurn
<1>6. /\ f \in [0..m -> Nat] /\ f[0] = 0 /\ \A i \in 1..m : f[i] = f[i - 1] + lens[u[i]]
      /\ g \in [0..n -> Nat] /\ g[0] = 0 /\ \A i \in 1..n : g[i] = g[i - 1] + lens[v[i]]
      /\ h[0] = 0 /\ \A i \in 1..(m + n) : h[i] = h[i - 1] + lens[w[i]]
  BY <1>1, <1>2, <1>5 DEF Sums
<1>7. h[m] = f[m]
  <2> DEFINE B == {i \in 0..m : h[i] = f[i]}
  <2>1. 0 \in B
    BY <1>0, <1>6
  <2>2. ASSUME NEW i \in 0..(m - 1), i \in B PROVE i + 1 \in B
    <3>1. i + 1 \in 1..m /\ i + 1 \in 1..(m + n) /\ (i + 1) - 1 = i /\ i + 1 \in 0..m
      BY <1>0
    <3>2. h[i + 1] = h[i] + lens[w[i + 1]] /\ f[i + 1] = f[i] + lens[u[i + 1]] /\ w[i + 1] = u[i + 1]
      BY <1>0, <1>6, <3>1
    <3> QED
      BY <1>0, <2>2, <3>1, <3>2
  <2> HIDE DEF B
  <2>3. \A i \in 0..m : i \in B
    BY <1>0, <2>1, <2>2, CountUp
  <2> QED
    BY <1>0, <2>3 DEF B
<1>8. h[m + n] = f[m] + g[n]
  <2> DEFINE B == {i \in 0..n : h[m + i] = f[m] + g[i]}
  <2>1. 0 \in B
    BY <1>0, <1>6, <1>7
  <2>2. ASSUME NEW i \in 0..(n - 1), i \in B PROVE i + 1 \in B
    <3>1. /\ i + 1 \in 1..n /\ m + (i + 1) \in 1..(m + n) /\ (m + (i + 1)) - 1 = m + i /\ i + 1 \in 0..n
          /\ (i + 1) - 1 = i /\ i \in 0..n
      BY <1>0
    <3>2. /\ h[m + (i + 1)] = h[m + i] + lens[w[m + (i + 1)]] /\ g[i + 1] = g[i] + lens[v[i + 1]]
          /\ w[m + (i + 1)] = v[i + 1] /\ lens[v[i + 1]] \in Nat
      BY <1>0, <1>6, <3>1
    <3>3. h[m + i] = f[m] + g[i] /\ f[m] \in Nat /\ g[i] \in Nat
      BY <1>0, <1>6, <2>2, <3>1
    <3> QED
      BY <1>0, <3>1, <3>2, <3>3
  <2> HIDE DEF B
  <2>3. \A i \in 0..n : i \in B
    BY <1>0, <2>1, <2>2, CountUp
  <2> QED
    BY <1>0, <2>3 DEF B
<1> QED
  BY <1>1, <1>2, <1>5, <1>6, <1>8

-----------------------------------------------------------------------------
\* Sums of sets of lengths

\* f sums up the lengths of S among the first n.
SetSums(f, lens, S, n) ==
  /\ f \in [0..n -> Nat] /\ f[0] = 0
  /\ \A i \in 1..n : f[i] = f[i - 1] + IF i \in S THEN lens[i] ELSE 0

\* There is such a sum.
LEMMA SetInTurn ==
  ASSUME NEW n \in Nat, NEW lens, \A i \in 1..n : lens[i] \in Nat, NEW S
  PROVE  \E f : SetSums(f, lens, S, n)
<1> DEFINE g == [y \in Nat \X (1..n) |-> y[1] + IF y[2] \in S THEN lens[y[2]] ELSE 0]
<1>1. g \in StepsOf(Nat, n)
  BY DEF StepsOf
<1>2. PICK f : Follows(f, Nat, 0, n, g)
  <2> HIDE DEF g
  <2>1. 0 \in Nat
    OBVIOUS
  <2> QED
    BY <1>1, <2>1, Recursion
<1>3. \A i \in 1..n : f[i] = f[i - 1] + IF i \in S THEN lens[i] ELSE 0
  <2> TAKE i \in 1..n
  <2>1. i - 1 \in 0..n /\ f[i - 1] \in Nat
    BY <1>2 DEF Follows
  <2>2. f[i] = g[<<f[i - 1], i>>]
    BY <1>2 DEF Follows
  <2> QED
    BY <2>1, <2>2
<1> QED
  BY <1>2, <1>3 DEF Follows, SetSums

\* The sum of a set with one more index.
LEMMA SetSumAdd ==
  ASSUME NEW n \in Nat, NEW lens, \A i \in 1..n : lens[i] \in Nat,
         NEW S, NEW x \in 1..n, x \notin S, NEW f, NEW g,
         SetSums(f, lens, S, n), SetSums(g, lens, S \cup {x}, n)
  PROVE  g[n] = f[n] + lens[x]
<1>1. /\ f \in [0..n -> Nat] /\ f[0] = 0 /\ \A i \in 1..n : f[i] = f[i - 1] + IF i \in S THEN lens[i] ELSE 0
      /\ g \in [0..n -> Nat] /\ g[0] = 0
      /\ \A i \in 1..n : g[i] = g[i - 1] + IF i \in S \cup {x} THEN lens[i] ELSE 0
  BY DEF SetSums
<1> DEFINE B == {i \in 0..n : g[i] = f[i] + IF x <= i THEN lens[x] ELSE 0}
<1>2. 0 \in B
  BY <1>1
<1>3. ASSUME NEW i \in 0..(n - 1), i \in B PROVE i + 1 \in B
  <2>1. i + 1 \in 1..n /\ (i + 1) - 1 = i /\ i + 1 \in 0..n /\ i \in 0..n
    OBVIOUS
  <2>2. /\ f[i + 1] = f[i] + IF i + 1 \in S THEN lens[i + 1] ELSE 0
        /\ g[i + 1] = g[i] + IF i + 1 \in S \cup {x} THEN lens[i + 1] ELSE 0
    BY <1>1, <2>1
  <2>3. f[i] \in Nat /\ g[i] \in Nat /\ lens[i + 1] \in Nat /\ lens[x] \in Nat
    BY <1>1, <2>1
  <2>4. g[i] = f[i] + IF x <= i THEN lens[x] ELSE 0
    BY <1>3
  <2>5. CASE x = i + 1
    <3>1. ~(x <= i) /\ x <= i + 1 /\ i + 1 \notin S /\ i + 1 \in S \cup {x}
      BY <2>5
    <3>2. f[i + 1] = f[i] /\ g[i + 1] = g[i] + lens[i + 1] /\ g[i] = f[i]
      BY <2>2, <2>3, <2>4, <3>1
    <3>3. g[i + 1] = f[i + 1] + lens[x]
      BY <2>5, <3>2
    <3> QED
      BY <2>1, <3>1, <3>3
  <2>6. CASE x # i + 1
    <3>1. (x <= i + 1 <=> x <= i) /\ (i + 1 \in S \cup {x} <=> i + 1 \in S)
      BY <2>6
    <3> DEFINE d == IF i + 1 \in S THEN lens[i + 1] ELSE 0
               c == IF x <= i THEN lens[x] ELSE 0
    <3>2. d \in Nat /\ c \in Nat
      BY <2>3
    <3>3. f[i + 1] = f[i] + d /\ g[i + 1] = g[i] + d /\ g[i] = f[i] + c
      BY <2>2, <2>4, <3>1
    <3>4. c = IF x <= i + 1 THEN lens[x] ELSE 0
      BY <3>1
    <3> HIDE DEF c, d
    <3>5. g[i + 1] = f[i + 1] + c
      BY <2>3, <3>2, <3>3
    <3> QED
      BY <2>1, <3>4, <3>5
  <2> QED
    BY <2>5, <2>6
<1> HIDE DEF B
<1>4. \A i \in 0..n : i \in B
  BY <1>2, <1>3, CountUp
<1>5. n \in B
  BY <1>4
<1> QED
  BY <1>5 DEF B

\* Indices, of which none comes twice.
Distinct(u, m, n) ==
  Len(u) = m /\ (\A i \in 1..m : u[i] \in 1..n) /\ \A i, j \in 1..m : u[i] = u[j] => i = j

\* The tokens of a part are those of the set of its indices.
LEMMA TokensOfSet ==
  ASSUME NEW n \in Nat, NEW lens, \A i \in 1..n : lens[i] \in Nat,
         NEW u, NEW m \in Nat, Distinct(u, m, n), NEW g, SetSums(g, lens, {u[i] : i \in 1..m}, n)
  PROVE  TokensOf(lens, u) = g[n]
<1>1. Len(u) = m /\ (\A i \in 1..m : u[i] \in 1..n) /\ \A i, j \in 1..m : u[i] = u[j] => i = j
  BY DEF Distinct
<1>2. \A i \in 1..m : lens[u[i]] \in Nat
  BY <1>1
<1>3. PICK f : Sums(f, lens, u, m) /\ f[m] = TokensOf(lens, u)
  BY <1>1, <1>2, TokensInTurn
<1>4. f \in [0..m -> Nat] /\ f[0] = 0 /\ \A i \in 1..m : f[i] = f[i - 1] + lens[u[i]]
  BY <1>3 DEF Sums
<1> DEFINE S(i) == {u[j] : j \in 1..i}
           B == {i \in 0..m : \A h : SetSums(h, lens, S(i), n) => h[n] = f[i]}
<1>5. 0 \in B
  <2> SUFFICES ASSUME NEW h, SetSums(h, lens, S(0), n)
               PROVE  h[n] = 0
    BY <1>4
  <2>1. S(0) = {}
    OBVIOUS
  <2>2. h \in [0..n -> Nat] /\ h[0] = 0 /\ \A i \in 1..n : h[i] = h[i - 1] + IF i \in S(0) THEN lens[i] ELSE 0
    BY DEF SetSums
  <2>3. \A i \in 1..n : h[i] = h[i - 1] + 0
    BY <2>1, <2>2
  <2> DEFINE D == {i \in 0..n : h[i] = 0}
  <2>4. 0 \in D
    BY <2>2
  <2>5. ASSUME NEW i \in 0..(n - 1), i \in D PROVE i + 1 \in D
    <3>1. i + 1 \in 1..n /\ (i + 1) - 1 = i /\ i + 1 \in 0..n
      OBVIOUS
    <3>2. h[i + 1] = h[(i + 1) - 1] + 0
      BY <2>3, <3>1
    <3> QED
      BY <2>5, <3>1, <3>2
  <2> HIDE DEF D
  <2>6. \A i \in 0..n : i \in D
    BY <2>4, <2>5, CountUp
  <2>7. n \in D
    BY <2>6
  <2> QED
    BY <2>7 DEF D
<1>6. ASSUME NEW i \in 0..(m - 1), i \in B PROVE i + 1 \in B
  <2>1. i + 1 \in 1..m /\ (i + 1) - 1 = i /\ i + 1 \in 0..m
    OBVIOUS
  <2> SUFFICES ASSUME NEW h, SetSums(h, lens, S(i + 1), n)
               PROVE  h[n] = f[i + 1]
    BY <2>1
  <2> DEFINE x == u[i + 1]
             T == S(i)
  <2>2. x \in 1..n
    BY <1>1, <2>1
  <2>3. x \notin T
    <3> SUFFICES ASSUME NEW j \in 1..i, u[j] = u[i + 1] PROVE FALSE
      OBVIOUS
    <3>1. j \in 1..m
      BY <2>1
    <3>2. j = i + 1
      BY <1>1, <2>1, <3>1
    <3> QED
      BY <3>2
  <2>4. S(i + 1) = T \cup {x}
    <3>1. 1..(i + 1) = (1..i) \cup {i + 1}
      OBVIOUS
    <3> QED
      BY <3>1
  <2>5. PICK e : SetSums(e, lens, T, n)
    <3> HIDE DEF T
    <3> QED
      BY SetInTurn
  <2>6. SetSums(h, lens, T \cup {x}, n)
    BY <2>4
  <2>7. e[n] = f[i]
    BY <1>6, <2>5
  <2> HIDE DEF T, x
  <2>8. h[n] = e[n] + lens[x]
    BY <2>2, <2>3, <2>5, <2>6, SetSumAdd
  <2>9. f[i + 1] = f[i] + lens[x]
    BY <1>4, <2>1 DEF x
  <2> QED
    BY <2>7, <2>8, <2>9
<1> HIDE DEF B
<1>7. \A i \in 0..m : i \in B
  BY <1>5, <1>6, CountUp
<1>8. m \in B
  BY <1>7
<1> QED
  BY <1>3, <1>8 DEF B

\* The first m elements are the same, in whatever order.
SameElements(u, v, m) ==
  (\A i \in 1..m : \E j \in 1..m : u[i] = v[j]) /\ \A j \in 1..m : \E i \in 1..m : u[i] = v[j]

\* Parts with the same indices have the same tokens, in whatever order.
LEMMA TokensReordered ==
  ASSUME NEW n \in Nat, NEW lens, \A i \in 1..n : lens[i] \in Nat,
         NEW u, NEW v, NEW m \in Nat, Distinct(u, m, n), Distinct(v, m, n), SameElements(u, v, m)
  PROVE  TokensOf(lens, u) = TokensOf(lens, v)
<1> DEFINE S == {u[i] : i \in 1..m}
           T == {v[i] : i \in 1..m}
<1>1. S = T
  BY DEF SameElements
<1>2. PICK g : SetSums(g, lens, S, n)
  <2> HIDE DEF S
  <2> QED
    BY SetInTurn
<1>3. TokensOf(lens, u) = g[n]
  BY <1>2, TokensOfSet
<1>4. SetSums(g, lens, T, n)
  BY <1>1, <1>2
<1>5. TokensOf(lens, v) = g[n]
  BY <1>4, TokensOfSet
<1> QED
  BY <1>3, <1>5

-----------------------------------------------------------------------------
\* States

\* At its b-th place the a-th Set of st holds the index x.
At(st, a, b, x) == a \in 1..Len(st) /\ b \in 1..Len(st[a].items) /\ st[a].items[b][1] = x
Holds(st, x) == \E a, b \in Nat : At(st, a, b, x)
Once(st) == \A x : \A a, b, c, d \in Nat : At(st, a, b, x) /\ At(st, c, d, x) => a = c /\ b = d

\* The indices in a Set.
ItemIndices(s) == [b \in 1..Len(s.items) |-> s.items[b][1]]

\* The items of s are indices with their lengths, which it has the sum of; without any
\* the sum is zero.
SetIn(s, lens) ==
  /\ s \in Sets
  /\ \A b \in 1..Len(s.items) : s.items[b][1] \in 1..Len(lens) /\ s.items[b][2] = lens[s.items[b][1]]
  /\ Len(s.items) = 0 => s.sum = 0
  /\ s.sum = TokensOf(lens, ItemIndices(s))

SetsIn(st, k, lens) ==
  /\ st \in Seq(Sets) /\ Len(st) = k
  /\ \A a \in 1..k : SetIn(st[a], lens)

\* The largest comes first.
Falling(st) == \A a, b \in 1..Len(st) : a < b => ~Below(st[a], st[b])

\* Sorting Sets by size.
LEMMA DecreasingIs ==
  ASSUME NEW k \in Nat, NEW lens, NEW s, SetsIn(s, k, lens)
  PROVE  /\ SetsIn(Decreasing(s), k, lens) /\ Falling(Decreasing(s))
         /\ \E p : Rearranged(Decreasing(s), s, p, k)
<1> DEFINE stay == {q \in Pairs(k) : ~Below(s[q[1]], s[q[2]])}
<1>1. s \in Seq(Sets) /\ Len(s) = k /\ \A a \in 1..k : s[a] \in Sets /\ SetIn(s[a], lens)
  BY DEF SetsIn
<1>2. Decreasing(s) = Sorted(s, stay)
  BY <1>1 DEF Decreasing
<1>3. \A a, b \in 1..k : <<a, b>> \in stay <=> ~Below(s[a], s[b])
  BY DEF Pairs
<1>4. Orders(stay, k)
  <2>1. ASSUME NEW a \in 1..k, NEW b \in 1..k PROVE <<a, b>> \in stay \/ <<b, a>> \in stay
    <3>1. s[a] \in Sets /\ s[b] \in Sets
      BY <1>1
    <3>2. ~(Below(s[a], s[b]) /\ Below(s[b], s[a]))
      BY <3>1, BelowAsymmetric
    <3> QED
      BY <1>3, <3>2
  <2>2. ASSUME NEW a \in 1..k, NEW b \in 1..k, NEW c \in 1..k, <<a, b>> \in stay, <<b, c>> \in stay
        PROVE  <<a, c>> \in stay
    <3>1. s[a] \in Sets /\ s[b] \in Sets /\ s[c] \in Sets
      BY <1>1
    <3>2. ~Below(s[a], s[b]) /\ ~Below(s[b], s[c])
      BY <1>3, <2>2
    <3>3. ~Below(s[a], s[c])
      BY <3>1, <3>2, BelowBetween
    <3> QED
      BY <1>3, <3>3
  <2> QED
    BY <2>1, <2>2 DEF Orders
<1> HIDE DEF stay
<1>5. PICK p : Rearranged(Sorted(s, stay), s, p, k) /\ InOrder(p, k, stay)
  BY <1>1, <1>4, SortedIs
<1> DEFINE d == Decreasing(s)
<1>6. d = [a \in 1..k |-> s[p[a]]] /\ Rearranged(d, s, p, k)
  BY <1>2, <1>5 DEF Rearranged
<1>7. \A a \in 1..k : p[a] \in 1..k
  <2>1. p \in [1..k -> 1..k]
    BY <1>5 DEF Permutes, Rearranged
  <2> QED
    BY <2>1
<1> HIDE DEF d
<1>8. \A a \in 1..k : d[a] = s[p[a]] /\ d[a] \in Sets /\ SetIn(d[a], lens)
  BY <1>1, <1>6, <1>7
<1>9. d \in Seq(Sets) /\ Len(d) = k
  BY <1>6, <1>8
<1>10. SetsIn(d, k, lens)
  BY <1>8, <1>9 DEF SetsIn
<1>11. ASSUME NEW a \in 1..k, NEW b \in 1..k, a < b PROVE ~Below(d[a], d[b])
  <2>1. <<p[a], p[b]>> \in stay
    BY <1>5, <1>11 DEF InOrder
  <2>2. ~Below(s[p[a]], s[p[b]])
    BY <1>3, <1>7, <2>1
  <2> QED
    BY <1>8, <2>2
<1>12. Falling(d)
  BY <1>9, <1>11 DEF Falling
<1> QED
  BY <1>5, <1>6, <1>10, <1>12 DEF d

\* Two Sets in one.
JoinOf(j, s, t) ==
  /\ j.items = s.items \o t.items /\ j.sum = s.sum + t.sum
  /\ Len(j.items) = Len(s.items) + Len(t.items)

\* Two Sets joined are a Set of the same lengths.
LEMMA JoinIn ==
  ASSUME NEW lens, NEW s, NEW t, SetIn(s, lens), SetIn(t, lens)
  PROVE  SetIn(Join(s, t), lens) /\ JoinOf(Join(s, t), s, t)
<1> DEFINE j == Join(s, t)
           A == s.items
           B == t.items
<1>1. s \in Sets /\ t \in Sets
  BY DEF SetIn
<1>2. A \in Seq(ItemPairs) /\ B \in Seq(ItemPairs) /\ s.sum \in Nat /\ t.sum \in Nat
  BY <1>1 DEF Sets
<1>3. j.items = A \o B /\ j.sum = s.sum + t.sum /\ j = [sum |-> s.sum + t.sum, items |-> A \o B]
  BY DEF Join
<1>4. /\ \A b \in 1..Len(A) : A[b][1] \in 1..Len(lens) /\ A[b][2] = lens[A[b][1]]
      /\ \A b \in 1..Len(B) : B[b][1] \in 1..Len(lens) /\ B[b][2] = lens[B[b][1]]
      /\ (Len(A) = 0 => s.sum = 0) /\ (Len(B) = 0 => t.sum = 0)
  BY DEF SetIn
<1> HIDE DEF A, B, j
<1>5. A \o B \in Seq(ItemPairs) /\ Len(A \o B) = Len(A) + Len(B) /\ Len(A) \in Nat /\ Len(B) \in Nat
  BY <1>2
<1>6. j \in Sets
  BY <1>2, <1>3, <1>5 DEF Sets
<1>7. ASSUME NEW b \in 1..Len(A \o B)
      PROVE  (A \o B)[b][1] \in 1..Len(lens) /\ (A \o B)[b][2] = lens[(A \o B)[b][1]]
  <2>1. CASE b <= Len(A)
    <3>1. b \in 1..Len(A) /\ (A \o B)[b] = A[b]
      BY <1>2, <1>5, <2>1
    <3> QED
      BY <1>4, <3>1
  <2>2. CASE b > Len(A)
    <3>1. b - Len(A) \in 1..Len(B) /\ (A \o B)[b] = B[b - Len(A)]
      BY <1>2, <1>5, <2>2
    <3> QED
      BY <1>4, <3>1
  <2> QED
    BY <1>5, <2>1, <2>2
<1>8. Len(j.items) = 0 => j.sum = 0
  BY <1>2, <1>3, <1>4, <1>5
<1>11. j.sum = TokensOf(lens, ItemIndices(j))
  <2> DEFINE u == ItemIndices(s)
             v == ItemIndices(t)
             w == ItemIndices(j)
             m == Len(A)
             n == Len(B)
  <2>1. Len(u) = m /\ \A b \in 1..m : u[b] = A[b][1] /\ A[b][2] = lens[u[b]]
    BY <1>4, <1>5 DEF ItemIndices, A
  <2>2. Len(v) = n /\ \A b \in 1..n : v[b] = B[b][1] /\ B[b][2] = lens[v[b]]
    BY <1>4, <1>5 DEF ItemIndices, B
  <2>3. w = [b \in 1..(m + n) |-> (A \o B)[b][1]]
    BY <1>3, <1>5 DEF ItemIndices
  <2>4. m \in Nat /\ n \in Nat /\ Len(w) = m + n
    BY <1>5, <2>3
  <2>5. \A b \in 1..m : lens[u[b]] \in Nat /\ w[b] = u[b]
    <3> TAKE b \in 1..m
    <3>1. b \in 1..(m + n) /\ (A \o B)[b] = A[b] /\ A[b] \in ItemPairs
      BY <1>2, <2>4
    <3>2. A[b][2] \in Nat
      BY <3>1 DEF ItemPairs
    <3>3. w[b] = (A \o B)[b][1]
      BY <2>3, <3>1
    <3> HIDE DEF u, w, m
    <3> QED
      BY <2>1, <3>1, <3>2, <3>3
  <2>6. \A b \in 1..n : lens[v[b]] \in Nat /\ w[m + b] = v[b]
    <3> TAKE b \in 1..n
    <3>1. m + b \in 1..(m + n) /\ (A \o B)[m + b] = B[b] /\ B[b] \in ItemPairs
      BY <1>2, <2>4
    <3>2. B[b][2] \in Nat
      BY <3>1 DEF ItemPairs
    <3>3. w[m + b] = (A \o B)[m + b][1]
      BY <2>3, <3>1
    <3> HIDE DEF v, w, m, n
    <3> QED
      BY <2>2, <3>1, <3>2, <3>3
  <2>7. s.sum = TokensOf(lens, u) /\ t.sum = TokensOf(lens, v)
    BY DEF SetIn
  <2> HIDE DEF u, v, w, m, n
  <2>8. TokensOf(lens, w) = TokensOf(lens, u) + TokensOf(lens, v)
    <3>1. Measured(lens, u, m) /\ Measured(lens, v, n)
      BY <2>1, <2>2, <2>4, <2>5, <2>6 DEF Measured
    <3>2. Appended(w, u, m, v, n)
      BY <2>4, <2>5, <2>6 DEF Appended
    <3> QED
      BY <3>1, <3>2, TokensConcat
  <2> QED
    BY <1>3, <2>7, <2>8 DEF w
<1>9. SetIn(j, lens)
  BY <1>3, <1>6, <1>7, <1>8, <1>11 DEF SetIn
<1>10. JoinOf(j, s, t)
  BY <1>3, <1>5, Zenon DEF JoinOf, A, B
<1> QED
  BY <1>9, <1>10 DEF j

\* Before it is sorted: the Sets of one with those of the other the other way round.
Joined(s, t, k) == [a \in 1..k |-> Join(s[a], t[k + 1 - a])]

\* The Sets joined crosswise are Sets of the same lengths, and Merge sorts them.
LEMMA JoinedIn ==
  ASSUME NEW k \in Nat, NEW lens, NEW s, NEW t, SetsIn(s, k, lens), SetsIn(t, k, lens)
  PROVE  /\ SetsIn(Joined(s, t, k), k, lens) /\ Merge(s, t) = Decreasing(Joined(s, t, k))
         /\ \A a \in 1..k : k + 1 - a \in 1..k /\ JoinOf(Joined(s, t, k)[a], s[a], t[k + 1 - a])
<1> DEFINE j == Joined(s, t, k)
<1>1. Len(s) = k
  BY DEF SetsIn
<1>2. ASSUME NEW a \in 1..k
      PROVE  k + 1 - a \in 1..k /\ SetIn(j[a], lens) /\ JoinOf(j[a], s[a], t[k + 1 - a])
  <2>1. k + 1 - a \in 1..k
    OBVIOUS
  <2>2. SetIn(s[a], lens) /\ SetIn(t[k + 1 - a], lens)
    BY <2>1 DEF SetsIn
  <2>3. j[a] = Join(s[a], t[k + 1 - a])
    BY DEF Joined
  <2> HIDE DEF j
  <2> QED
    BY <2>1, <2>2, <2>3, JoinIn
<1>3. \A a \in 1..k : j[a] \in Sets
  BY <1>2 DEF SetIn
<1>4. j \in Seq(Sets) /\ Len(j) = k
  BY <1>3 DEF Joined
<1>5. Merge(s, t) = Decreasing(j)
  BY <1>1 DEF Merge, Joined
<1> QED
  BY <1>2, <1>4, <1>5 DEF SetsIn

\* What a sequence of Sets holds does not depend on their order.
LEMMA AtPermuted ==
  ASSUME NEW k \in Nat, NEW lens, NEW s, SetsIn(s, k, lens), NEW p, NEW d, Rearranged(d, s, p, k)
  PROVE  /\ \A a, b, x : At(d, a, b, x) => a \in 1..k /\ At(s, p[a], b, x)
         /\ \A a, b, x : At(s, a, b, x) => \E c \in 1..k : p[c] = a /\ At(d, c, b, x)
<1>0. Permutes(p, k) /\ d = [a \in 1..k |-> s[p[a]]]
  BY DEF Rearranged
<1>1. Len(s) = k /\ Len(d) = k
  BY <1>0 DEF SetsIn
<1>2. \A a \in 1..k : d[a] = s[p[a]] /\ p[a] \in 1..k
  <2>1. p \in [1..k -> 1..k]
    BY <1>0 DEF Permutes
  <2> QED
    BY <1>0, <2>1
<1>3. ASSUME NEW a, NEW b, NEW x, At(d, a, b, x) PROVE a \in 1..k /\ At(s, p[a], b, x)
  <2>1. a \in 1..k /\ b \in 1..Len(d[a].items) /\ d[a].items[b][1] = x
    BY <1>1, <1>3 DEF At
  <2>2. d[a] = s[p[a]] /\ p[a] \in 1..k
    BY <1>2, <2>1
  <2> QED
    BY <1>1, <2>1, <2>2 DEF At
<1>4. ASSUME NEW a, NEW b, NEW x, At(s, a, b, x)
      PROVE  \E c \in 1..k : p[c] = a /\ At(d, c, b, x)
  <2>1. a \in 1..k /\ b \in 1..Len(s[a].items) /\ s[a].items[b][1] = x
    BY <1>1, <1>4 DEF At
  <2>2. PICK c \in 1..k : p[c] = a
    BY <1>0, <2>1 DEF Permutes
  <2>3. d[c] = s[a]
    BY <1>2, <2>2
  <2>4. At(d, c, b, x)
    BY <1>1, <2>1, <2>3 DEF At
  <2> QED
    BY <2>2, <2>4
<1> QED
  BY <1>3, <1>4

\* A Set of a merged state has the items of two.
LEMMA AtJoined ==
  ASSUME NEW k \in Nat, NEW lens, NEW s, NEW t, SetsIn(s, k, lens), SetsIn(t, k, lens)
  PROVE  /\ \A a, b, x : At(Joined(s, t, k), a, b, x) =>
                \/ At(s, a, b, x) /\ b <= Len(s[a].items)
                \/ At(t, k + 1 - a, b - Len(s[a].items), x) /\ b > Len(s[a].items)
         /\ \A a, b, x : At(s, a, b, x) => At(Joined(s, t, k), a, b, x)
         /\ \A a, b, x : At(t, a, b, x) => At(Joined(s, t, k), k + 1 - a, Len(s[k + 1 - a].items) + b, x)
<1> DEFINE j == Joined(s, t, k)
<1>1. Len(s) = k /\ Len(t) = k /\ SetsIn(j, k, lens) /\ Len(j) = k
  <2>1. SetsIn(j, k, lens)
    BY JoinedIn
  <2> QED
    BY <2>1 DEF SetsIn
<1>2. \A a \in 1..k : k + 1 - a \in 1..k /\ j[a].items = s[a].items \o t[k + 1 - a].items
  <2>1. \A a \in 1..k : k + 1 - a \in 1..k /\ JoinOf(j[a], s[a], t[k + 1 - a])
    BY JoinedIn
  <2> QED
    BY <2>1 DEF JoinOf
<1> HIDE DEF j
<1>3. \A a \in 1..k : s[a].items \in Seq(ItemPairs) /\ t[a].items \in Seq(ItemPairs)
  BY DEF SetsIn, SetIn, Sets
<1>4. ASSUME NEW a \in 1..k
      PROVE  /\ Len(j[a].items) = Len(s[a].items) + Len(t[k + 1 - a].items)
             /\ Len(s[a].items) \in Nat /\ Len(t[k + 1 - a].items) \in Nat
             /\ \A b \in 1..Len(s[a].items) : j[a].items[b] = s[a].items[b]
             /\ \A b \in 1..Len(t[k + 1 - a].items) : j[a].items[Len(s[a].items) + b] = t[k + 1 - a].items[b]
  <2> DEFINE A == s[a].items
             B == t[k + 1 - a].items
             J == j[a].items
  <2>1. J = A \o B /\ A \in Seq(ItemPairs) /\ B \in Seq(ItemPairs)
    BY <1>2, <1>3
  <2> HIDE DEF A, B, J
  <2>2. /\ Len(J) = Len(A) + Len(B) /\ Len(A) \in Nat /\ Len(B) \in Nat
        /\ \A b \in 1..Len(A) : J[b] = A[b]
        /\ \A b \in 1..Len(B) : J[Len(A) + b] = B[b]
    BY <2>1
  <2> QED
    BY <2>2 DEF A, B, J
<1>5. ASSUME NEW a, NEW b, NEW x, At(j, a, b, x)
      PROVE  \/ At(s, a, b, x) /\ b <= Len(s[a].items)
             \/ At(t, k + 1 - a, b - Len(s[a].items), x) /\ b > Len(s[a].items)
  <2>1. a \in 1..k /\ b \in 1..Len(j[a].items) /\ j[a].items[b][1] = x
    BY <1>1, <1>5 DEF At
  <2> DEFINE m == Len(s[a].items)
             l == Len(t[k + 1 - a].items)
  <2>2. /\ b \in 1..(m + l) /\ m \in Nat /\ l \in Nat /\ k + 1 - a \in 1..k
        /\ \A c \in 1..m : j[a].items[c] = s[a].items[c]
        /\ \A c \in 1..l : j[a].items[m + c] = t[k + 1 - a].items[c]
    BY <1>2, <1>4, <2>1
  <2> HIDE DEF m, l
  <2>3. CASE b <= m
    <3>1. b \in 1..m /\ s[a].items[b][1] = x
      BY <2>1, <2>2, <2>3
    <3> QED
      BY <1>1, <2>1, <2>3, <3>1 DEF At, m
  <2>4. CASE b > m
    <3>1. b - m \in 1..l /\ m + (b - m) = b
      BY <2>2, <2>4
    <3>2. t[k + 1 - a].items[b - m][1] = x
      BY <2>1, <2>2, <3>1
    <3> QED
      BY <1>1, <2>2, <2>4, <3>1, <3>2 DEF At, m, l
  <2> QED
    BY <2>2, <2>3, <2>4
<1>6. ASSUME NEW a, NEW b, NEW x, At(s, a, b, x) PROVE At(j, a, b, x)
  <2>1. a \in 1..k /\ b \in 1..Len(s[a].items) /\ s[a].items[b][1] = x
    BY <1>1, <1>6 DEF At
  <2> DEFINE m == Len(s[a].items)
             l == Len(t[k + 1 - a].items)
             n == Len(j[a].items)
  <2>3. m \in Nat /\ l \in Nat /\ n = m + l /\ b \in 1..m /\ j[a].items[b] = s[a].items[b]
    BY <1>4, <2>1
  <2> HIDE DEF m, l, n
  <2>4. b \in 1..n
    BY <2>3
  <2>2. b \in 1..Len(j[a].items) /\ j[a].items[b] = s[a].items[b]
    BY <2>3, <2>4 DEF n
  <2> QED
    BY <1>1, <2>1, <2>2 DEF At
<1>7. ASSUME NEW a, NEW b, NEW x, At(t, a, b, x)
      PROVE  At(j, k + 1 - a, Len(s[k + 1 - a].items) + b, x)
  <2>1. a \in 1..k /\ b \in 1..Len(t[a].items) /\ t[a].items[b][1] = x
    BY <1>1, <1>7 DEF At
  <2> DEFINE c == k + 1 - a
  <2>2. c \in 1..k /\ k + 1 - c = a
    BY <2>1
  <2> HIDE DEF c
  <2> DEFINE m == Len(s[c].items)
             l == Len(t[k + 1 - c].items)
             n == Len(j[c].items)
  <2>4. /\ m \in Nat /\ l \in Nat /\ n = m + l
        /\ \A d \in 1..l : j[c].items[m + d] = t[k + 1 - c].items[d]
    BY <1>4, <2>2
  <2>5. b \in 1..l
    BY <2>1, <2>2
  <2> HIDE DEF m, l, n
  <2>6. m + b \in 1..n /\ j[c].items[m + b] = t[k + 1 - c].items[b]
    BY <2>4, <2>5
  <2>3. /\ Len(s[c].items) + b \in 1..Len(j[c].items)
        /\ j[c].items[Len(s[c].items) + b] = t[a].items[b]
    BY <2>2, <2>6 DEF m, n
  <2> QED
    BY <1>1, <2>1, <2>2, <2>3 DEF At, c
<1> QED
  BY <1>5, <1>6, <1>7 DEF j

-----------------------------------------------------------------------------
\* Merging two states

\* A state: its Sets from the largest on, with no item twice and not without any.
StateIn(st, k, lens) == SetsIn(st, k, lens) /\ Falling(st) /\ Once(st) /\ \E x : Holds(st, x)

\* Apart: no item is in both.
Apart(s, t) == \A x : ~(Holds(s, x) /\ Holds(t, x))

\* Places are numbers.
LEMMA AtNat ==
  ASSUME NEW k \in Nat, NEW lens, NEW s, SetsIn(s, k, lens), NEW a, NEW b, NEW x, At(s, a, b, x)
  PROVE  a \in Nat /\ b \in Nat /\ a \in 1..k /\ b \in 1..Len(s[a].items) /\ x \in 1..Len(lens) /\ Holds(s, x)
<1>1. a \in 1..k /\ b \in 1..Len(s[a].items) /\ s[a].items[b][1] = x
  BY DEF At, SetsIn
<1>2. SetIn(s[a], lens)
  BY <1>1 DEF SetsIn
<1>3. x \in 1..Len(lens)
  BY <1>1, <1>2 DEF SetIn
<1>4. a \in Nat /\ b \in Nat
  BY <1>1
<1> QED
  BY <1>1, <1>3, <1>4 DEF Holds

\* The items of the merged state are those of the two.
LEMMA JoinedHolds ==
  ASSUME NEW k \in Nat, NEW lens, NEW s, NEW t, SetsIn(s, k, lens), SetsIn(t, k, lens),
         Once(s), Once(t), Apart(s, t)
  PROVE  /\ Once(Joined(s, t, k))
         /\ \A x : Holds(Joined(s, t, k), x) <=> Holds(s, x) \/ Holds(t, x)
<1> DEFINE j == Joined(s, t, k)
<1>1. SetsIn(j, k, lens)
  BY JoinedIn
<1>2. /\ \A a, b, x : At(j, a, b, x) =>
                \/ At(s, a, b, x) /\ b <= Len(s[a].items)
                \/ At(t, k + 1 - a, b - Len(s[a].items), x) /\ b > Len(s[a].items)
      /\ \A a, b, x : At(s, a, b, x) => At(j, a, b, x)
      /\ \A a, b, x : At(t, a, b, x) => At(j, k + 1 - a, Len(s[k + 1 - a].items) + b, x)
  BY AtJoined
<1> HIDE DEF j
<1>3. ASSUME NEW x, Holds(j, x) PROVE Holds(s, x) \/ Holds(t, x)
  <2>1. PICK a, b : At(j, a, b, x)
    BY <1>3 DEF Holds
  <2> QED
    BY <1>2, <2>1, AtNat
<1>4. ASSUME NEW x, Holds(s, x) \/ Holds(t, x) PROVE Holds(j, x)
  <2>1. \E a, b : At(j, a, b, x)
    BY <1>2, <1>4 DEF Holds
  <2> QED
    BY <1>1, <2>1, AtNat
<1>5. ASSUME NEW a \in Nat, NEW b \in Nat, NEW c \in Nat, NEW d \in Nat, NEW x, At(j, a, b, x), At(j, c, d, x)
      PROVE  a = c /\ b = d
  <2> DEFINE m == Len(s[a].items)
             l == Len(s[c].items)
  <2>0. m \in Nat /\ l \in Nat
    <3>1. a \in 1..k /\ c \in 1..k
      BY <1>1, <1>5, AtNat
    <3>2. s[a].items \in Seq(ItemPairs) /\ s[c].items \in Seq(ItemPairs)
      BY <3>1 DEF SetsIn, SetIn, Sets
    <3> QED
      BY <3>2
  <2>1. /\ At(s, a, b, x) \/ (At(t, k + 1 - a, b - m, x) /\ b > m)
        /\ At(s, c, d, x) \/ (At(t, k + 1 - c, d - l, x) /\ d > l)
    BY <1>2, <1>5
  <2>2. CASE At(s, a, b, x) /\ At(s, c, d, x)
    BY <2>2 DEF Once
  <2>3. CASE At(t, k + 1 - a, b - m, x) /\ At(t, k + 1 - c, d - l, x)
    <3>1. k + 1 - a \in Nat /\ b - m \in Nat /\ k + 1 - c \in Nat /\ d - l \in Nat
      BY <2>3, AtNat
    <3>2. k + 1 - a = k + 1 - c /\ b - m = d - l
      <4> DEFINE e == k + 1 - a
                 f == b - m
                 g == k + 1 - c
                 h == d - l
      <4>1. e \in Nat /\ f \in Nat /\ g \in Nat /\ h \in Nat /\ At(t, e, f, x) /\ At(t, g, h, x)
        BY <2>3, <3>1
      <4> HIDE DEF e, f, g, h
      <4>2. e = g /\ f = h
        BY <4>1 DEF Once
      <4> QED
        BY <4>2 DEF e, f, g, h
    <3>3. a = c
      BY <3>2
    <3>4. m = l
      BY <3>3
    <3> QED
      BY <2>0, <3>2, <3>3, <3>4
  <2>4. CASE At(s, a, b, x) /\ At(t, k + 1 - c, d - l, x)
    BY <2>4, AtNat DEF Apart
  <2>5. CASE At(t, k + 1 - a, b - m, x) /\ At(s, c, d, x)
    BY <2>5, AtNat DEF Apart
  <2> QED
    BY <2>1, <2>2, <2>3, <2>4, <2>5
<1>6. Once(j)
  BY <1>5 DEF Once
<1> QED
  BY <1>3, <1>4, <1>6 DEF j

\* Sorting Sets moves no item out of them.
LEMMA DecreasingHolds ==
  ASSUME NEW k \in Nat, NEW lens, NEW s, SetsIn(s, k, lens), Once(s)
  PROVE  /\ Once(Decreasing(s)) /\ \A x : Holds(Decreasing(s), x) <=> Holds(s, x)
<1>1. PICK p : Rearranged(Decreasing(s), s, p, k)
  BY DecreasingIs
<1>2. SetsIn(Decreasing(s), k, lens)
  BY DecreasingIs
<1> DEFINE d == Decreasing(s)
<1>3. /\ \A a, b, x : At(d, a, b, x) => a \in 1..k /\ At(s, p[a], b, x)
      /\ \A a, b, x : At(s, a, b, x) => \E c \in 1..k : p[c] = a /\ At(d, c, b, x)
  <2>1. Rearranged(d, s, p, k)
    BY <1>1
  <2> HIDE DEF d
  <2> QED
    BY <1>1, <2>1, AtPermuted
<1> HIDE DEF d
<1>4. ASSUME NEW a \in Nat, NEW b \in Nat, NEW c \in Nat, NEW e \in Nat, NEW x, At(d, a, b, x), At(d, c, e, x)
      PROVE  a = c /\ b = e
  <2>1. a \in 1..k /\ c \in 1..k /\ At(s, p[a], b, x) /\ At(s, p[c], e, x)
    BY <1>3, <1>4
  <2>2. p[a] \in Nat /\ p[c] \in Nat
    BY <2>1, AtNat
  <2>3. p[a] = p[c] /\ b = e
    BY <2>1, <2>2 DEF Once
  <2> QED
    BY <1>1, <2>1, <2>3 DEF Permutes, Rearranged
<1>5. ASSUME NEW x, Holds(d, x) PROVE Holds(s, x)
  <2>1. PICK a, b : At(d, a, b, x)
    BY <1>5 DEF Holds
  <2> QED
    BY <1>3, <2>1, AtNat
<1>6. ASSUME NEW x, Holds(s, x) PROVE Holds(d, x)
  <2>1. \E a, b : At(d, a, b, x)
    BY <1>3, <1>6 DEF Holds
  <2>2. SetsIn(d, k, lens)
    BY <1>2 DEF d
  <2> QED
    BY <2>1, <2>2, AtNat
<1>7. Once(d)
  BY <1>4 DEF Once
<1> QED
  BY <1>5, <1>6, <1>7 DEF d

\* The merged state is one.
LEMMA MergeIs ==
  ASSUME NEW k \in Nat, NEW lens, NEW s, NEW t, StateIn(s, k, lens), StateIn(t, k, lens), Apart(s, t)
  PROVE  /\ StateIn(Merge(s, t), k, lens)
         /\ \A x : Holds(Merge(s, t), x) <=> Holds(s, x) \/ Holds(t, x)
<1> DEFINE j == Joined(s, t, k)
           m == Merge(s, t)
<1>1. SetsIn(s, k, lens) /\ SetsIn(t, k, lens) /\ Once(s) /\ Once(t) /\ \E x : Holds(s, x)
  BY DEF StateIn
<1>2. SetsIn(j, k, lens) /\ m = Decreasing(j)
  BY <1>1, JoinedIn
<1>3. Once(j) /\ \A x : Holds(j, x) <=> Holds(s, x) \/ Holds(t, x)
  BY <1>1, JoinedHolds
<1> HIDE DEF j, m
<1>4. SetsIn(m, k, lens) /\ Falling(m)
  BY <1>2, DecreasingIs
<1>5. Once(m) /\ \A x : Holds(m, x) <=> Holds(j, x)
  BY <1>2, <1>3, DecreasingHolds
<1> QED
  BY <1>1, <1>3, <1>4, <1>5 DEF StateIn, m

-----------------------------------------------------------------------------
\* How many items the Sets of a state have, and how far their sums are apart

Sized(st, c) == \A a \in 1..Len(st) : Len(st[a].items) = c

\* While there are Sets without items, no Set has two.
Filled(st) == (\E a \in 1..Len(st) : Len(st[a].items) = 0) => \A a \in 1..Len(st) : Len(st[a].items) <= 1

\* No two sums are farther apart than g.
Spreads(st, g) == \A a, b \in 1..Len(st) : st[a].sum - st[b].sum <= g

\* The sums fall, and behind an empty Set there are only such.
LEMMA FallingIs ==
  ASSUME NEW k \in Nat, NEW lens, NEW s, SetsIn(s, k, lens), Falling(s),
         NEW a \in 1..k, NEW b \in a..k
  PROVE  /\ s[a].sum \in Nat /\ s[b].sum \in Nat /\ s[a].sum >= s[b].sum
         /\ Len(s[a].items) \in Nat /\ Len(s[b].items) \in Nat
         /\ Len(s[a].items) = 0 => Len(s[b].items) = 0
<1>1. SetIn(s[a], lens) /\ SetIn(s[b], lens) /\ Len(s) = k
  BY DEF SetsIn
<1>2. /\ s[a] \in Sets /\ s[b] \in Sets /\ Len(s[a].items) = 0 => s[a].sum = 0
  BY <1>1 DEF SetIn
<1>3. /\ s[a].sum \in Nat /\ s[b].sum \in Nat
      /\ s[a].items \in Seq(ItemPairs) /\ s[b].items \in Seq(ItemPairs)
  BY <1>1 DEF SetIn, Sets
<1>4. Len(s[a].items) \in Nat /\ Len(s[b].items) \in Nat
  BY <1>3
<1>5. CASE a = b
  BY <1>3, <1>4, <1>5
<1>6. CASE a # b
  <2>1. a < b /\ b \in 1..Len(s) /\ a \in 1..Len(s)
    BY <1>1, <1>6
  <2>2. ~Below(s[a], s[b])
    BY <2>1 DEF Falling
  <2>3. ~(s[a].sum < s[b].sum) /\ ~(s[a].sum = s[b].sum /\ Len(s[a].items) < Len(s[b].items))
    BY <2>2 DEF Below
  <2>4. Len(s[a].items) = 0 => s[a].sum = 0
    BY <1>1 DEF SetIn
  <2> QED
    BY <1>3, <1>4, <2>3, <2>4
<1> QED
  BY <1>5, <1>6

\* What a Set of the merged state is made of.
LEMMA MergeAt ==
  ASSUME NEW k \in Nat, NEW lens, NEW s, NEW t, SetsIn(s, k, lens), SetsIn(t, k, lens)
  PROVE  /\ Len(Merge(s, t)) = k
         /\ \A a \in 1..k : \E c \in 1..k : k + 1 - c \in 1..k /\ JoinOf(Merge(s, t)[a], s[c], t[k + 1 - c])
<1> DEFINE j == Joined(s, t, k)
           m == Merge(s, t)
<1>1. SetsIn(j, k, lens) /\ m = Decreasing(j)
  BY JoinedIn
<1>2. \A a \in 1..k : k + 1 - a \in 1..k /\ JoinOf(j[a], s[a], t[k + 1 - a])
  BY JoinedIn
<1> HIDE DEF j, m
<1>3. PICK p : Permutes(p, k) /\ m = [a \in 1..k |-> j[p[a]]]
  <2>1. PICK p : Rearranged(m, j, p, k)
    BY <1>1, DecreasingIs
  <2> QED
    BY <2>1 DEF Rearranged
<1>4. \A a \in 1..k : p[a] \in 1..k /\ m[a] = j[p[a]]
  <2>1. p \in [1..k -> 1..k]
    BY <1>3 DEF Permutes
  <2> QED
    BY <1>3, <2>1
<1>5. Len(m) = k
  BY <1>3
<1>6. ASSUME NEW a \in 1..k PROVE \E c \in 1..k : k + 1 - c \in 1..k /\ JoinOf(m[a], s[c], t[k + 1 - c])
  <2>1. p[a] \in 1..k /\ k + 1 - p[a] \in 1..k /\ JoinOf(m[a], s[p[a]], t[k + 1 - p[a]])
    BY <1>2, <1>4
  <2> QED
    BY <2>1
<1> QED
  BY <1>5, <1>6 DEF m

\* Merging adds numbers of items.
LEMMA MergeSized ==
  ASSUME NEW k \in Nat, NEW lens, NEW s, NEW t, SetsIn(s, k, lens), SetsIn(t, k, lens),
         NEW c, NEW d, Sized(s, c), Sized(t, d)
  PROVE  Sized(Merge(s, t), c + d)
<1>1. Len(s) = k /\ Len(t) = k
  BY DEF SetsIn
<1>2. /\ Len(Merge(s, t)) = k
      /\ \A a \in 1..k : \E e \in 1..k : k + 1 - e \in 1..k /\ JoinOf(Merge(s, t)[a], s[e], t[k + 1 - e])
  BY MergeAt
<1>3. ASSUME NEW a \in 1..k PROVE Len(Merge(s, t)[a].items) = c + d
  <2>1. PICK e \in 1..k : k + 1 - e \in 1..k /\ JoinOf(Merge(s, t)[a], s[e], t[k + 1 - e])
    BY <1>2
  <2>2. Len(s[e].items) = c /\ Len(t[k + 1 - e].items) = d
    BY <1>1, <2>1 DEF Sized
  <2> QED
    BY <2>1, <2>2 DEF JoinOf
<1> QED
  BY <1>2, <1>3 DEF Sized

\* The largest with the smallest: an empty Set of the merged state is one of both, and
\* then neither had two items in a Set, nor has one that gets an item of each.
LEMMA MergeFilled ==
  ASSUME NEW k \in Nat, NEW lens, NEW s, NEW t, SetsIn(s, k, lens), SetsIn(t, k, lens),
         Falling(s), Falling(t), Filled(s), Filled(t)
  PROVE  Filled(Merge(s, t))
<1>1. Len(s) = k /\ Len(t) = k
  BY DEF SetsIn
<1>2. /\ Len(Merge(s, t)) = k
      /\ \A a \in 1..k : \E e \in 1..k : k + 1 - e \in 1..k /\ JoinOf(Merge(s, t)[a], s[e], t[k + 1 - e])
  BY MergeAt
<1>3. \A a \in 1..k : Len(s[a].items) \in Nat /\ Len(t[a].items) \in Nat
  <2> TAKE a \in 1..k
  <2>1. a \in a..k
    OBVIOUS
  <2> QED
    BY <2>1, FallingIs
<1>4. SUFFICES ASSUME NEW a \in 1..k, Len(Merge(s, t)[a].items) = 0, NEW b \in 1..k
               PROVE  Len(Merge(s, t)[b].items) <= 1
  BY <1>2 DEF Filled
<1>5. PICK c \in 1..k : k + 1 - c \in 1..k /\ Len(s[c].items) = 0 /\ Len(t[k + 1 - c].items) = 0
  <2>1. PICK e \in 1..k : k + 1 - e \in 1..k /\ JoinOf(Merge(s, t)[a], s[e], t[k + 1 - e])
    BY <1>2
  <2>2. Len(s[e].items) + Len(t[k + 1 - e].items) = 0
    BY <1>4, <2>1 DEF JoinOf
  <2>3. Len(s[e].items) = 0 /\ Len(t[k + 1 - e].items) = 0
    <3> DEFINE x == Len(s[e].items)
               y == Len(t[k + 1 - e].items)
    <3>1. x \in Nat /\ y \in Nat /\ x + y = 0
      BY <1>3, <2>1, <2>2
    <3> HIDE DEF x, y
    <3>2. x = 0 /\ y = 0
      BY <3>1
    <3> QED
      BY <3>2 DEF x, y
  <2> QED
    BY <2>1, <2>3
<1>6. PICK e \in 1..k : k + 1 - e \in 1..k /\ JoinOf(Merge(s, t)[b], s[e], t[k + 1 - e])
  BY <1>2
<1>7. Len(Merge(s, t)[b].items) = Len(s[e].items) + Len(t[k + 1 - e].items)
  BY <1>6 DEF JoinOf
<1>8. Len(s[e].items) <= 1 /\ Len(t[k + 1 - e].items) <= 1
  BY <1>1, <1>5, <1>6 DEF Filled
<1>9. CASE e >= c
  <2>1. e \in c..k
    BY <1>9
  <2>2. Len(s[e].items) = 0
    BY <1>5, <2>1, FallingIs
  <2> QED
    BY <1>3, <1>6, <1>7, <1>8, <2>2
<1>10. CASE e < c
  <2>1. k + 1 - e \in (k + 1 - c)..k
    BY <1>10, <1>6
  <2>2. Len(t[k + 1 - e].items) = 0
    BY <1>5, <2>1, FallingIs
  <2> QED
    BY <1>3, <1>6, <1>7, <1>8, <2>2
<1> QED
  BY <1>9, <1>10

\* The largest with the smallest: differences cancel out.
LEMMA MergeSpreads ==
  ASSUME NEW k \in Nat, NEW lens, NEW s, NEW t, SetsIn(s, k, lens), SetsIn(t, k, lens),
         Falling(s), Falling(t), NEW g \in Nat, Spreads(s, g), Spreads(t, g)
  PROVE  Spreads(Merge(s, t), g)
<1>1. Len(s) = k /\ Len(t) = k
  BY DEF SetsIn
<1>2. /\ Len(Merge(s, t)) = k
      /\ \A a \in 1..k : \E e \in 1..k : k + 1 - e \in 1..k /\ JoinOf(Merge(s, t)[a], s[e], t[k + 1 - e])
  BY MergeAt
<1>3. SUFFICES ASSUME NEW a \in 1..k, NEW b \in 1..k
               PROVE  Merge(s, t)[a].sum - Merge(s, t)[b].sum <= g
  BY <1>2 DEF Spreads
<1>4. PICK c \in 1..k : k + 1 - c \in 1..k /\ JoinOf(Merge(s, t)[a], s[c], t[k + 1 - c])
  BY <1>2
<1>5. PICK e \in 1..k : k + 1 - e \in 1..k /\ JoinOf(Merge(s, t)[b], s[e], t[k + 1 - e])
  BY <1>2
<1> DEFINE u == s[c].sum
           v == s[e].sum
           w == t[k + 1 - c].sum
           x == t[k + 1 - e].sum
<1>6. Merge(s, t)[a].sum = u + w /\ Merge(s, t)[b].sum = v + x
  BY <1>4, <1>5 DEF JoinOf
<1>7. u - v <= g /\ w - x <= g
  BY <1>1, <1>4, <1>5 DEF Spreads
<1>8. CASE c <= e
  <2>1. e \in c..k /\ k + 1 - c \in (k + 1 - e)..k
    BY <1>8, <1>4, <1>5
  <2>2. u \in Nat /\ v \in Nat /\ u >= v
    BY <2>1, FallingIs
  <2>3. w \in Nat /\ x \in Nat /\ x >= w
    BY <1>5, <2>1, FallingIs
  <2> HIDE DEF u, v, w, x
  <2> QED
    BY <1>6, <1>7, <2>2, <2>3
<1>9. CASE e < c
  <2>1. c \in e..k /\ k + 1 - e \in (k + 1 - c)..k
    BY <1>9, <1>4, <1>5
  <2>2. u \in Nat /\ v \in Nat /\ v >= u
    BY <2>1, FallingIs
  <2>3. w \in Nat /\ x \in Nat /\ w >= x
    BY <1>4, <2>1, FallingIs
  <2> HIDE DEF u, v, w, x
  <2> QED
    BY <1>6, <1>7, <2>2, <2>3
<1> QED
  BY <1>8, <1>9

-----------------------------------------------------------------------------
\* The heap

\* A finite set on which a relation is a strict order has a first element: one with as
\* few before it as any has none before it.
StrictOn(R, H) ==
  /\ \A x \in H : <<x, x>> \notin R
  /\ \A x, y \in H : x # y => <<x, y>> \in R \/ <<y, x>> \in R
  /\ \A x, y, z \in H : <<x, y>> \in R /\ <<y, z>> \in R => <<x, z>> \in R

\* A finite set in a strict order has a first element.
LEMMA FirstOf ==
  ASSUME NEW H, IsFiniteSet(H), H # {}, NEW R, StrictOn(R, H)
  PROVE  \E x \in H : \A y \in H \ {x} : <<x, y>> \in R
<1> DEFINE Pre(x) == {y \in H : <<y, x>> \in R}
           C == {Cardinality(Pre(x)) : x \in H}
<1>1. \A x \in H : IsFiniteSet(Pre(x))
  BY FS_Subset
<1>2. \A x \in H : Cardinality(Pre(x)) \in Nat
  BY <1>1, FS_CardinalityType
<1>3. C \in SUBSET Nat /\ C # {}
  BY <1>2
<1>4. PICK m \in C : \A n \in C : m <= n
  BY <1>3, LeastOf
<1>5. PICK x \in H : m = Cardinality(Pre(x))
  BY <1>4
<1>6. ASSUME NEW y \in H, <<y, x>> \in R PROVE FALSE
  <2>1. Pre(y) \in SUBSET Pre(x)
    BY <1>6 DEF StrictOn
  <2>2. y \in Pre(x) /\ y \notin Pre(y)
    BY <1>6 DEF StrictOn
  <2>3. m <= Cardinality(Pre(y))
    BY <1>4
  <2>4. IsFiniteSet(Pre(x)) /\ Cardinality(Pre(x)) \in Nat /\ Cardinality(Pre(y)) \in Nat
    BY <1>1, <1>2
  <2> HIDE DEF Pre, C
  <2>5. Cardinality(Pre(y)) <= Cardinality(Pre(x)) /\ (Cardinality(Pre(x)) = Cardinality(Pre(y)) => Pre(x) = Pre(y))
    BY <2>1, <2>4, FS_Subset
  <2> QED
    BY <1>5, <2>2, <2>3, <2>4, <2>5
<1>7. ASSUME NEW y \in H \ {x} PROVE <<x, y>> \in R
  <2>1. <<x, y>> \in R \/ <<y, x>> \in R
    BY DEF StrictOn
  <2> QED
    BY <2>1, <1>6
<1> QED
  BY <1>7

\* States with no item in two of them.
HeapIn(H, k, lens) ==
  /\ IsFiniteSet(H)
  /\ \A st \in H : StateIn(st, k, lens)
  /\ \A s, t \in H : s # t => Apart(s, t)

\* The first Set of a state has an item.
LEMMA FirstSet ==
  ASSUME NEW k \in Nat, NEW lens, NEW s, StateIn(s, k, lens)
  PROVE  /\ k > 0 /\ s[1] \in Sets /\ Spread(s) \in Int
         /\ \E x : At(s, 1, 1, x) /\ Holds(s, x) /\ x = s[1].items[1][1]
<1>1. SetsIn(s, k, lens) /\ Falling(s)
  BY DEF StateIn
<1>2. PICK x, a, b : At(s, a, b, x)
  BY DEF StateIn, Holds
<1>3. a \in 1..k /\ b \in 1..Len(s[a].items) /\ Len(s) = k
  BY <1>1, <1>2, AtNat DEF SetsIn
<1>4. k > 0 /\ 1 \in 1..k /\ a \in 1..k /\ k \in 1..k
  BY <1>3
<1>5. Len(s[1].items) \in Nat /\ Len(s[a].items) \in Nat /\ (Len(s[1].items) = 0 => Len(s[a].items) = 0)
  BY <1>1, <1>4, FallingIs
<1>6. 1 \in 1..Len(s[1].items)
  BY <1>3, <1>5
<1>7. At(s, 1, 1, s[1].items[1][1])
  BY <1>3, <1>4, <1>6 DEF At
<1>8. s[1] \in Sets
  BY <1>1, <1>4 DEF SetsIn, SetIn
<1>9. s[1].sum \in Nat /\ s[k].sum \in Nat
  BY <1>1, <1>4, FallingIs
<1>10. Spread(s) \in Int
  BY <1>3, <1>9 DEF Spread
<1>11. Holds(s, s[1].items[1][1])
  BY <1>1, <1>7, AtNat
<1> QED
  BY <1>4, <1>7, <1>8, <1>10, <1>11

\* Before is a strict order of the states of a heap.
LEMMA BeforeIsStrict ==
  ASSUME NEW k \in Nat, NEW lens, NEW H, HeapIn(H, k, lens)
  PROVE  StrictOn({q \in H \X H : Before(q[1], q[2])}, H)
<1> DEFINE R == {q \in H \X H : Before(q[1], q[2])}
<1>1. \A s, t \in H : <<s, t>> \in R <=> Before(s, t)
  OBVIOUS
<1>2. \A s \in H : s[1] \in Sets /\ Spread(s) \in Int
  BY FirstSet DEF HeapIn
<1>3. ASSUME NEW s \in H PROVE ~Before(s, s)
  <2>1. ~Below(s[1], s[1])
    BY <1>2, BelowAsymmetric
  <2> QED
    BY <1>2, <2>1 DEF Before
<1>4. ASSUME NEW s \in H, NEW t \in H, s # t PROVE Before(s, t) \/ Before(t, s)
  <2>1. s[1].items # t[1].items
    <3>1. PICK x : Holds(s, x) /\ x = s[1].items[1][1]
      BY FirstSet DEF HeapIn
    <3>2. PICK y : Holds(t, y) /\ y = t[1].items[1][1]
      BY FirstSet DEF HeapIn
    <3>3. Apart(s, t)
      BY <1>4 DEF HeapIn
    <3>4. x # y
      BY <3>1, <3>2, <3>3 DEF Apart
    <3> QED
      BY <3>1, <3>2, <3>4
  <2>2. Below(s[1], t[1]) \/ Below(t[1], s[1])
    BY <1>2, <2>1, BelowTotal
  <2> QED
    BY <1>2, <2>2 DEF Before
<1>5. ASSUME NEW s \in H, NEW t \in H, NEW u \in H, Before(s, t), Before(t, u) PROVE Before(s, u)
  <2>1. s[1] \in Sets /\ t[1] \in Sets /\ u[1] \in Sets /\ Spread(s) \in Int /\ Spread(t) \in Int /\ Spread(u) \in Int
    BY <1>2
  <2>2. Below(u[1], t[1]) /\ Below(t[1], s[1]) => Below(u[1], s[1])
    BY <2>1, BelowTransitive
  <2> QED
    BY <1>5, <2>1, <2>2 DEF Before
<1> HIDE DEF R
<1>6. StrictOn(R, H)
  BY <1>1, <1>3, <1>4, <1>5 DEF StrictOn
<1> QED
  BY <1>6 DEF R

\* What is popped is in the heap.
LEMMA PopIn ==
  ASSUME NEW k \in Nat, NEW lens, NEW H, HeapIn(H, k, lens), H # {}
  PROVE  Pop(H) \in H
<1> DEFINE R == {q \in H \X H : Before(q[1], q[2])}
<1>1. StrictOn(R, H) /\ IsFiniteSet(H)
  BY BeforeIsStrict DEF HeapIn
<1>2. \A s, t \in H : <<s, t>> \in R => Before(s, t)
  OBVIOUS
<1> HIDE DEF R
<1>3. \E x \in H : \A y \in H \ {x} : <<x, y>> \in R
  BY <1>1, FirstOf
<1>4. \E x \in H : \A y \in H \ {x} : Before(x, y)
  BY <1>2, <1>3
<1> QED
  BY <1>4, Zenon DEF Pop

\* A heap without one state is one.
LEMMA HeapWithout ==
  ASSUME NEW k, NEW lens, NEW H, HeapIn(H, k, lens), NEW s \in H
  PROVE  HeapIn(H \ {s}, k, lens) /\ Cardinality(H \ {s}) = Cardinality(H) - 1 /\ Cardinality(H) \in Nat
<1>1. IsFiniteSet(H)
  BY DEF HeapIn
<1>2. IsFiniteSet(H \ {s}) /\ Cardinality(H \ {s}) = Cardinality(H) - 1
  BY <1>1, FS_RemoveElement
<1>3. Cardinality(H) \in Nat
  BY <1>1, FS_CardinalityType
<1> QED
  BY <1>2, <1>3 DEF HeapIn

HeapHolds(H, x) == \E st \in H : Holds(st, x)

\* The two first of H have become one.
Turned(G, H, s, t) ==
  /\ s \in H /\ t \in H /\ s # t
  /\ G = (H \ {s, t}) \cup {Merge(s, t)}

\* A turn of the loop leaves a heap with a state less and the same items.
LEMMA TurnIs ==
  ASSUME NEW k \in Nat, NEW lens, NEW H, HeapIn(H, k, lens), Cardinality(H) > 1
  PROVE  /\ \E s, t : Turned(MergeFirstTwo(H), H, s, t)
         /\ HeapIn(MergeFirstTwo(H), k, lens)
         /\ Cardinality(MergeFirstTwo(H)) = Cardinality(H) - 1
         /\ \A x : HeapHolds(MergeFirstTwo(H), x) <=> HeapHolds(H, x)
<1> DEFINE s == Pop(H)
           I == H \ {s}
           t == Pop(I)
           J == I \ {t}
           m == Merge(s, t)
           G == MergeFirstTwo(H)
<1>1. IsFiniteSet(H) /\ Cardinality(H) \in Nat /\ H # {}
  <2>1. IsFiniteSet(H)
    BY DEF HeapIn
  <2> QED
    BY <2>1, FS_CardinalityType, FS_EmptySet
<1>2. s \in H
  BY <1>1, PopIn
<1> HIDE DEF s
<1>3. HeapIn(I, k, lens) /\ Cardinality(I) = Cardinality(H) - 1
  BY <1>2, HeapWithout
<1>4. I # {}
  BY <1>1, <1>3, FS_EmptySet
<1>5. t \in I
  <2> HIDE DEF I
  <2> QED
    BY <1>3, <1>4, PopIn
<1>6. t \in H /\ s # t
  BY <1>5
<1> HIDE DEF t
<1>7. HeapIn(J, k, lens) /\ Cardinality(J) = Cardinality(I) - 1
  <2> HIDE DEF I
  <2> QED
    BY <1>3, <1>5, HeapWithout
<1>8. StateIn(s, k, lens) /\ StateIn(t, k, lens) /\ Apart(s, t)
  BY <1>2, <1>6 DEF HeapIn
<1>9. StateIn(m, k, lens) /\ \A x : Holds(m, x) <=> Holds(s, x) \/ Holds(t, x)
  BY <1>8, MergeIs
<1>10. G = J \cup {m} /\ G = (H \ {s, t}) \cup {m}
  BY Zenon DEF MergeFirstTwo, s, t
<1>11. \A u \in J : u \in H /\ u # s /\ u # t
  OBVIOUS
<1> HIDE DEF m, G, I, J
<1>12. \A u \in J : Apart(u, m) /\ Apart(m, u)
  <2> TAKE u \in J
  <2>1. Apart(u, s) /\ Apart(u, t)
    BY <1>2, <1>6, <1>11 DEF HeapIn
  <2> QED
    BY <1>9, <2>1 DEF Apart
<1>13. m \notin J
  BY <1>9, <1>12 DEF Apart, StateIn
<1>14. IsFiniteSet(G) /\ Cardinality(G) = Cardinality(J) + 1
  BY <1>7, <1>10, <1>13, FS_AddElement DEF HeapIn
<1>15. HeapIn(G, k, lens)
  BY <1>7, <1>9, <1>10, <1>12, <1>14 DEF HeapIn
<1>16. Cardinality(G) = Cardinality(H) - 1
  BY <1>1, <1>3, <1>7, <1>14
<1>17. ASSUME NEW x PROVE HeapHolds(G, x) <=> HeapHolds(H, x)
  <2>1. ASSUME NEW u \in H, Holds(u, x) PROVE \E v \in G : Holds(v, x)
    BY <1>9, <1>10, <2>1
  <2>2. ASSUME NEW u \in G, Holds(u, x) PROVE \E v \in H : Holds(v, x)
    BY <1>2, <1>6, <1>9, <1>10, <1>11, <2>2
  <2> QED
    BY <2>1, <2>2 DEF HeapHolds
<1>18. Turned(G, H, s, t)
  BY <1>2, <1>6, <1>10 DEF Turned, m
<1> QED
  BY <1>15, <1>16, <1>17, <1>18 DEF G

-----------------------------------------------------------------------------
\* The states the heap starts with

\* The items are the indices with their lengths, in the order of p, the shortest first.
ItemsBy(items, lens, p, n) ==
  /\ Permutes(p, n)
  /\ items \in Seq(ItemPairs) /\ Len(items) = n
  /\ \A i \in 1..n : p[i] \in 1..n /\ items[i] = <<p[i], lens[p[i]]>>
  /\ \A i, j \in 1..n : i < j => lens[p[i]] <= lens[p[j]]

\* The items sorted: a permutation of the indices, with lengths that do not decrease.
LEMMA SortedItemsAre ==
  ASSUME NEW lens \in Seq(Nat), NEW n, n = Len(lens)
  PROVE  n \in Nat /\ \E p : ItemsBy(SortedItems(lens), lens, p, n)
<1> DEFINE s == [i \in 1..n |-> <<i, lens[i]>>]
           stay == {q \in Pairs(n) : lens[q[1]] <= lens[q[2]]}
           d == SortedItems(lens)
<1>1. n \in Nat /\ \A i \in 1..n : lens[i] \in Nat
  OBVIOUS
<1>2. s \in Seq(ItemPairs) /\ Len(s) = n /\ \A i \in 1..n : s[i] = <<i, lens[i]>>
  BY <1>1 DEF ItemPairs
<1>3. d = Sorted(s, stay)
  BY DEF SortedItems
<1>4. \A a, b \in 1..n : <<a, b>> \in stay <=> lens[a] <= lens[b]
  BY DEF Pairs
<1> HIDE DEF s, stay, d
<1>5. Orders(stay, n)
  <2>1. ASSUME NEW a \in 1..n, NEW b \in 1..n PROVE <<a, b>> \in stay \/ <<b, a>> \in stay
    BY <1>1, <1>4
  <2>2. ASSUME NEW a \in 1..n, NEW b \in 1..n, NEW c \in 1..n, <<a, b>> \in stay, <<b, c>> \in stay
        PROVE  <<a, c>> \in stay
    <3>1. lens[a] \in Nat /\ lens[b] \in Nat /\ lens[c] \in Nat /\ lens[a] <= lens[b] /\ lens[b] <= lens[c]
      BY <1>1, <1>4, <2>2
    <3>2. lens[a] <= lens[c]
      BY <3>1
    <3> QED
      BY <1>4, <3>2
  <2> QED
    BY <2>1, <2>2 DEF Orders
<1>6. PICK p : Rearranged(Sorted(s, stay), s, p, n) /\ InOrder(p, n, stay)
  BY <1>1, <1>2, <1>5, SortedIs
<1>7. Permutes(p, n) /\ d = [i \in 1..n |-> s[p[i]]]
  BY <1>3, <1>6 DEF Rearranged
<1>8. \A i \in 1..n : p[i] \in 1..n
  <2>1. p \in [1..n -> 1..n]
    BY <1>7 DEF Permutes
  <2> QED
    BY <2>1
<1>9. \A i \in 1..n : d[i] = <<p[i], lens[p[i]]>> /\ d[i] \in ItemPairs
  <2> TAKE i \in 1..n
  <2>1. p[i] \in 1..n /\ d[i] = s[p[i]]
    BY <1>7, <1>8
  <2>2. s[p[i]] = <<p[i], lens[p[i]]>> /\ lens[p[i]] \in Nat /\ p[i] \in Nat
    BY <1>1, <1>2, <2>1
  <2> QED
    BY <2>1, <2>2 DEF ItemPairs
<1>10. d \in Seq(ItemPairs) /\ Len(d) = n
  BY <1>1, <1>7, <1>9
<1>11. \A i, j \in 1..n : i < j => lens[p[i]] <= lens[p[j]]
  BY <1>4, <1>6, <1>8 DEF InOrder
<1>12. ItemsBy(d, lens, p, n)
  BY <1>7, <1>8, <1>9, <1>10, <1>11 DEF ItemsBy
<1> QED
  BY <1>1, <1>12 DEF d

\* Of sorted, the m items behind the c-th.
Slice(items, sorted, c, m) ==
  items \in Seq(ItemPairs) /\ Len(items) = m /\ \A a \in 1..m : items[a] = sorted[c + a]

\* How even a state is: its Sets have equally many items, or one at most while there
\* are empty ones, and their sums are no farther apart than g.
Even(st, equalSize, g) ==
  /\ equalSize => \E c \in Nat : Sized(st, c)
  /\ Filled(st)
  /\ Spreads(st, g)

\* Of how much the sums in a state that starts with such items differ at most.
Gap(lens, p, c, m, k, g) ==
  \A a, b \in 1..k :
    (IF a <= m THEN lens[p[c + a]] ELSE 0) - (IF b <= m THEN lens[p[c + b]] ELSE 0) <= g

HoldsFrom(st, p, c, m) == \A x : Holds(st, x) <=> \E a \in 1..m : p[c + a] = x

\* A state made of a slice of the sorted items is a state, as even as the slice, and
\* holds its indices.
LEMMA StartIs ==
  ASSUME NEW lens \in Seq(Nat), NEW n, n = Len(lens), NEW k \in Nat, NEW p, NEW sorted,
         ItemsBy(sorted, lens, p, n), NEW c \in Nat, NEW m \in 1..k, c + m <= n,
         NEW items, Slice(items, sorted, c, m), NEW g, Gap(lens, p, c, m, k, g)
  PROVE  /\ StateIn(State(items, k), k, lens)
         /\ Even(State(items, k), m = k, g)
         /\ HoldsFrom(State(items, k), p, c, m)
<1> DEFINE s == [i \in 1..k |-> IF i <= Len(items) THEN [sum |-> items[i][2], items |-> <<items[i]>>] ELSE EmptySet]
           d == State(items, k)
<1>1. n \in Nat /\ \A i \in 1..n : lens[i] \in Nat
  OBVIOUS
<1>2. \A a \in 1..m : /\ c + a \in 1..n /\ p[c + a] \in 1..n
                      /\ items[a] = <<p[c + a], lens[p[c + a]]>> /\ items[a] \in ItemPairs
  <2> TAKE a \in 1..m
  <2>1. c + a \in 1..n
    BY <1>1
  <2>2. items[a] = sorted[c + a] /\ items \in Seq(ItemPairs) /\ Len(items) = m
    BY DEF Slice
  <2>3. p[c + a] \in 1..n /\ sorted[c + a] = <<p[c + a], lens[p[c + a]]>>
    BY <2>1 DEF ItemsBy
  <2>4. items[a] \in ItemPairs
    BY <2>2
  <2> QED
    BY <2>1, <2>2, <2>3, <2>4
<1>3. Len(items) = m
  BY DEF Slice
<1>4. ASSUME NEW a \in 1..k, a <= m
      PROVE  /\ a \in 1..m /\ s[a].sum = lens[p[c + a]] /\ s[a].items = <<items[a]>> /\ Len(s[a].items) = 1
             /\ s[a] \in Sets /\ SetIn(s[a], lens)
  <2>1. a \in 1..m
    BY <1>4
  <2>2. s[a] = [sum |-> items[a][2], items |-> <<items[a]>>]
    BY <1>3, <1>4
  <2> HIDE DEF s
  <2>3. items[a] = <<p[c + a], lens[p[c + a]]>> /\ items[a] \in ItemPairs /\ p[c + a] \in 1..n /\ lens[p[c + a]] \in Nat
    BY <1>1, <1>2, <2>1
  <2>4. s[a].sum = lens[p[c + a]] /\ s[a].items = <<items[a]>> /\ Len(s[a].items) = 1 /\ s[a].items[1] = items[a]
    BY <2>2, <2>3
  <2>5. <<items[a]>> \in Seq(ItemPairs)
    BY <2>3
  <2>6. s[a] \in Sets
    BY <2>2, <2>3, <2>5 DEF Sets
  <2> DEFINE y == s[a]
             u == ItemIndices(y)
  <2>8. u = [b \in 1..1 |-> y.items[b][1]]
    BY <2>4 DEF ItemIndices
  <2>9. Len(u) = 1 /\ u[1] = p[c + a]
    BY <2>3, <2>4, <2>8
  <2>10. y.sum = TokensOf(lens, u)
    <3> HIDE DEF u, y
    <3>1. \A i \in 1..1 : lens[u[i]] \in Nat
      BY <2>3, <2>9
    <3>2. PICK f : Sums(f, lens, u, 1) /\ f[1] = TokensOf(lens, u)
      BY <2>9, <3>1, TokensInTurn
    <3>3. f[1] = f[1 - 1] + lens[u[1]] /\ f[0] = 0
      BY <3>2 DEF Sums
    <3> QED
      BY <2>3, <2>4, <2>9, <3>2, <3>3 DEF y
  <2>7. SetIn(y, lens)
    <3>1. y.items[1][1] \in 1..Len(lens) /\ y.items[1][2] = lens[y.items[1][1]]
      BY <2>3, <2>4
    <3>2. y \in Sets /\ Len(y.items) = 1
      BY <2>4, <2>6
    <3>3. y.sum = TokensOf(lens, ItemIndices(y))
      BY <2>10
    <3> HIDE DEF y, u
    <3> QED
      BY <3>1, <3>2, <3>3 DEF SetIn
  <2> QED
    BY <2>1, <2>4, <2>6, <2>7
<1>5. ASSUME NEW a \in 1..k, a > m
      PROVE  s[a].sum = 0 /\ s[a].items = <<>> /\ Len(s[a].items) = 0 /\ s[a] \in Sets /\ SetIn(s[a], lens)
  <2>1. s[a] = EmptySet
    BY <1>3, <1>5
  <2> HIDE DEF s
  <2>2. s[a].sum = 0 /\ s[a].items = <<>> /\ Len(s[a].items) = 0
    BY <2>1 DEF EmptySet
  <2>3. s[a] \in Sets
    BY <2>1 DEF EmptySet, Sets
  <2> DEFINE y == s[a]
             u == ItemIndices(y)
  <2>4. Len(u) = 0
    BY <2>2 DEF ItemIndices
  <2>5. y.sum = TokensOf(lens, u)
    <3> HIDE DEF u, y
    <3> DEFINE z == 0
    <3>1. \A i \in 1..z : lens[u[i]] \in Nat
      OBVIOUS
    <3>2. z \in Nat /\ Len(u) = z
      BY <2>4
    <3>3. z = 0
      OBVIOUS
    <3> HIDE DEF z
    <3>4. PICK f : Sums(f, lens, u, z) /\ f[z] = TokensOf(lens, u)
      BY <3>1, <3>2, TokensInTurn
    <3> QED
      BY <2>2, <3>3, <3>4 DEF Sums, y
  <2> QED
    BY <2>2, <2>3, <2>5 DEF SetIn
<1>6. \A a \in 1..k : a <= m \/ a > m
  OBVIOUS
<1>7. s \in Seq(Sets) /\ Len(s) = k
  <2>1. \A a \in 1..k : s[a] \in Sets
    BY <1>4, <1>5, <1>6
  <2>2. s \in [1..k -> Sets]
    BY <2>1
  <2> HIDE DEF s
  <2> QED
    BY <2>2
<1>8. d = Decreasing(s)
  BY DEF State
<1> HIDE DEF s, d
<1>9. SetsIn(s, k, lens)
  BY <1>4, <1>5, <1>6, <1>7 DEF SetsIn
<1>10. \A a, b, x : At(s, a, b, x) <=> a \in 1..m /\ b = 1 /\ x = p[c + a]
  <2> TAKE a, b, x
  <2>1. ASSUME At(s, a, b, x) PROVE a \in 1..m /\ b = 1 /\ x = p[c + a]
    <3>1. a \in 1..k /\ b \in 1..Len(s[a].items) /\ s[a].items[b][1] = x
      BY <1>7, <2>1 DEF At
    <3>2. a <= m
      BY <1>5, <1>6, <3>1
    <3>3. a \in 1..m /\ Len(s[a].items) = 1 /\ s[a].items = <<items[a]>>
      BY <1>4, <3>1, <3>2
    <3>4. b = 1 /\ s[a].items[b] = items[a]
      BY <3>1, <3>3
    <3> QED
      BY <1>2, <3>1, <3>3, <3>4
  <2>2. ASSUME a \in 1..m, b = 1, x = p[c + a] PROVE At(s, a, b, x)
    <3>1. a \in 1..k /\ a <= m
      BY <2>2
    <3>2. Len(s[a].items) = 1 /\ s[a].items = <<items[a]>>
      BY <1>4, <3>1
    <3>3. b \in 1..Len(s[a].items) /\ s[a].items[b] = items[a]
      BY <2>2, <3>2
    <3> QED
      BY <1>2, <1>7, <2>2, <3>1, <3>3 DEF At
  <2> QED
    BY <2>1, <2>2
<1>11. \A x : Holds(s, x) <=> \E a \in 1..m : p[c + a] = x
  <2> TAKE x
  <2>1. ASSUME NEW a \in 1..m, p[c + a] = x PROVE Holds(s, x)
    <3>1. a \in Nat /\ 1 \in Nat /\ At(s, a, 1, x)
      BY <1>10, <2>1
    <3> QED
      BY <3>1 DEF Holds
  <2>2. ASSUME Holds(s, x) PROVE \E a \in 1..m : p[c + a] = x
    BY <1>10, <2>2 DEF Holds
  <2> QED
    BY <2>1, <2>2
<1>12. Once(s)
  <2>1. ASSUME NEW a, NEW b, NEW e, NEW f, NEW x, At(s, a, b, x), At(s, e, f, x)
        PROVE  a = e /\ b = f
    <3>1. a \in 1..m /\ e \in 1..m /\ b = 1 /\ f = 1 /\ p[c + a] = p[c + e]
      BY <1>10, <2>1
    <3>2. c + a \in 1..n /\ c + e \in 1..n
      BY <1>2, <3>1
    <3>3. c + a = c + e
      BY <3>1, <3>2 DEF ItemsBy, Permutes
    <3> QED
      BY <3>1, <3>3
  <2> QED
    BY <2>1 DEF Once
<1>13. SetsIn(d, k, lens) /\ Falling(d)
  BY <1>8, <1>9, DecreasingIs
<1>14. Once(d) /\ \A x : Holds(d, x) <=> Holds(s, x)
  BY <1>8, <1>9, <1>12, DecreasingHolds
<1>15. StateIn(d, k, lens)
  <2>1. 1 \in 1..m
    OBVIOUS
  <2>2. \E x : Holds(d, x)
    BY <1>11, <1>14, <2>1
  <2> QED
    BY <1>13, <1>14, <2>2 DEF StateIn
<1>16. PICK q : q \in [1..k -> 1..k] /\ d = [a \in 1..k |-> s[q[a]]]
  <2>1. PICK q : Rearranged(Decreasing(s), s, q, k)
    BY <1>9, DecreasingIs
  <2> QED
    BY <1>8, <2>1 DEF Rearranged, Permutes
<1>17. Len(d) = k /\ \A a \in 1..k : d[a] = s[q[a]] /\ q[a] \in 1..k
  BY <1>16
<1>18. Even(d, m = k, g)
  <2>1. ASSUME m = k PROVE Sized(d, 1)
    <3>1. \A a \in 1..k : Len(d[a].items) = 1
      <4> TAKE a \in 1..k
      <4>1. q[a] \in 1..k /\ q[a] <= m /\ d[a] = s[q[a]]
        BY <1>17, <2>1
      <4> QED
        BY <1>4, <4>1
    <3> QED
      BY <1>17, <3>1 DEF Sized
  <2>2. Filled(d)
    <3>1. \A a \in 1..k : Len(d[a].items) <= 1
      <4> TAKE a \in 1..k
      <4>1. q[a] \in 1..k /\ d[a] = s[q[a]]
        BY <1>17
      <4>2. Len(s[q[a]].items) = 0 \/ Len(s[q[a]].items) = 1
        BY <1>4, <1>5, <1>6, <4>1
      <4>3. Len(d[a].items) = Len(s[q[a]].items)
        BY <4>1
      <4> DEFINE y == Len(d[a].items)
      <4>4. y = 0 \/ y = 1
        BY <4>2, <4>3
      <4> HIDE DEF y
      <4>5. y <= 1
        BY <4>4
      <4> QED
        BY <4>5 DEF y
    <3> QED
      BY <1>17, <3>1 DEF Filled
  <2>3. Spreads(d, g)
    <3>1. \A a \in 1..k : s[a].sum = IF a <= m THEN lens[p[c + a]] ELSE 0
      BY <1>4, <1>5, <1>6
    <3>2. ASSUME NEW a \in 1..k, NEW b \in 1..k PROVE d[a].sum - d[b].sum <= g
      <4>1. q[a] \in 1..k /\ q[b] \in 1..k /\ d[a] = s[q[a]] /\ d[b] = s[q[b]]
        BY <1>17
      <4>2. (IF q[a] <= m THEN lens[p[c + q[a]]] ELSE 0) - (IF q[b] <= m THEN lens[p[c + q[b]]] ELSE 0) <= g
        BY <4>1 DEF Gap
      <4> QED
        BY <3>1, <4>1, <4>2
    <3> QED
      BY <1>17, <3>2 DEF Spreads
  <2> QED
    BY <2>1, <2>2, <2>3 DEF Even
<1> QED
  BY <1>11, <1>14, <1>15, <1>18 DEF HoldsFrom, d

-----------------------------------------------------------------------------
\* The heap at the start

\* H has a state for each i of I, which starts with the m items of sorted behind the
\* C[i]-th; each item is in one of them.
Starts(H, I, C, T, m, n, sorted, k) ==
  /\ IsFiniteSet(I) /\ I # {} /\ H = {State(T[i], k) : i \in I}
  /\ \A i \in I : C[i] \in Nat /\ C[i] + m <= n /\ Slice(T[i], sorted, C[i], m)
  /\ \A i, j \in I : \A a, b \in 1..m : C[i] + a = C[j] + b => i = j
  /\ \A y \in 1..n : \E i \in I : \E a \in 1..m : C[i] + a = y

\* A heap of states as even as g allows, that holds the indices 1..n.
HeapOf(H, k, lens, equalSize, g) ==
  /\ HeapIn(H, k, lens) /\ H # {}
  /\ \A st \in H : Even(st, equalSize, g)
  /\ \A x : HeapHolds(H, x) <=> x \in 1..Len(lens)

\* Slices that cover the items give a heap that holds all indices.
LEMMA HeapStarts ==
  ASSUME NEW lens \in Seq(Nat), NEW n, n = Len(lens), NEW k \in Nat, NEW p, NEW sorted,
         ItemsBy(sorted, lens, p, n), NEW m \in 1..k, NEW H, NEW I, NEW C, NEW T,
         Starts(H, I, C, T, m, n, sorted, k),
         NEW g, \A i \in I : Gap(lens, p, C[i], m, k, g)
  PROVE  HeapOf(H, k, lens, m = k, g)
<1>0. n \in Nat
  OBVIOUS
<1>1. ASSUME NEW i \in I
      PROVE  /\ StateIn(State(T[i], k), k, lens) /\ Even(State(T[i], k), m = k, g)
             /\ \A x : Holds(State(T[i], k), x) <=> \E a \in 1..m : p[C[i] + a] = x
  <2> DEFINE c == C[i]
             t == T[i]
  <2>1. c \in Nat /\ c + m <= n /\ Slice(t, sorted, c, m) /\ Gap(lens, p, c, m, k, g)
    BY DEF Starts
  <2> HIDE DEF c, t
  <2>2. StateIn(State(t, k), k, lens)
    BY <2>1, StartIs
  <2>3. Even(State(t, k), m = k, g)
    BY <2>1, StartIs
  <2>4. HoldsFrom(State(t, k), p, c, m)
    BY <2>1, StartIs
  <2> QED
    BY <2>2, <2>3, <2>4 DEF HoldsFrom, c, t
<1>2. IsFiniteSet(I) /\ I # {} /\ H = {State(T[i], k) : i \in I}
  BY DEF Starts
<1>3. IsFiniteSet(H) /\ H # {}
  <2> DEFINE f == [i \in I |-> State(T[i], k)]
  <2>1. f \in Surjection(I, H)
    BY <1>2 DEF Surjection
  <2>2. H # {}
    BY <1>2
  <2> HIDE DEF f
  <2> QED
    BY <1>2, <2>1, <2>2, FS_Surjection
<1>4. \A st \in H : \E i \in I : st = State(T[i], k)
  BY <1>2
<1>5. \A i \in I : State(T[i], k) \in H
  BY <1>2
<1>6. \A i \in I : \A a \in 1..m : C[i] + a \in 1..n
  <2> TAKE i \in I
  <2> TAKE a \in 1..m
  <2>1. C[i] \in Nat /\ C[i] + m <= n
    BY DEF Starts
  <2> QED
    BY <1>0, <2>1
<1>7. p \in [1..n -> 1..n] /\ (\A i, j \in 1..n : p[i] = p[j] => i = j) /\ \A x \in 1..n : \E i \in 1..n : p[i] = x
  BY DEF ItemsBy, Permutes
<1>8. ASSUME NEW s \in H, NEW t \in H, s # t PROVE Apart(s, t)
  <2>1. PICK i \in I : s = State(T[i], k)
    BY <1>4
  <2>2. PICK j \in I : t = State(T[j], k)
    BY <1>4
  <2>3. ASSUME NEW x, Holds(s, x), Holds(t, x) PROVE FALSE
    <3>1. PICK a \in 1..m : p[C[i] + a] = x
      BY <1>1, <2>1, <2>3
    <3>2. PICK b \in 1..m : p[C[j] + b] = x
      BY <1>1, <2>2, <2>3
    <3>3. C[i] + a = C[j] + b
      BY <1>6, <1>7, <3>1, <3>2
    <3>4. i = j
      BY <3>3 DEF Starts
    <3> QED
      BY <1>8, <2>1, <2>2, <3>4
  <2> QED
    BY <2>3 DEF Apart
<1>9. \A st \in H : StateIn(st, k, lens) /\ Even(st, m = k, g)
  BY <1>1, <1>4
<1>10. HeapIn(H, k, lens)
  BY <1>3, <1>8, <1>9 DEF HeapIn
<1>11. ASSUME NEW x, HeapHolds(H, x) PROVE x \in 1..n
  <2>1. PICK st \in H : Holds(st, x)
    BY <1>11 DEF HeapHolds
  <2>2. PICK i \in I : st = State(T[i], k)
    BY <1>4
  <2>3. PICK a \in 1..m : p[C[i] + a] = x
    BY <1>1, <2>1, <2>2
  <2> QED
    BY <1>6, <1>7, <2>3
<1>12. ASSUME NEW x \in 1..n PROVE HeapHolds(H, x)
  <2>1. PICK y \in 1..n : p[y] = x
    BY <1>7
  <2>2. PICK i \in I : \E a \in 1..m : C[i] + a = y
    BY DEF Starts
  <2>3. \E a \in 1..m : p[C[i] + a] = x
    BY <2>1, <2>2
  <2>4. Holds(State(T[i], k), x)
    BY <1>1, <2>3
  <2> QED
    BY <1>5, <2>4 DEF HeapHolds
<1> QED
  BY <1>3, <1>9, <1>10, <1>11, <1>12 DEF HeapOf

\* By how much the sums of the Sets that the loop starts with differ at most in a state.
Gaps(lens, p, k, equalSize, g) ==
  IF equalSize THEN \A j \in 0..((Len(lens) \div k) - 1) : Gap(lens, p, k * j, k, k, g)
               ELSE \A i \in 1..Len(lens) : Gap(lens, p, i - 1, 1, k, g)

\* Consecutive items.
LEMMA SubSeqIsSlice ==
  ASSUME NEW s \in Seq(ItemPairs), NEW c \in Nat, NEW k \in Nat, k > 0, c + k <= Len(s)
  PROVE  Slice(SubSeq(s, c + 1, c + k), s, c, k)
<1> DEFINE lo == c + 1
           hi == c + k
           t == SubSeq(s, lo, hi)
<1>1. lo \in Int /\ hi \in Int /\ lo <= hi /\ hi - lo + 1 = k /\ \A i \in lo..hi : s[i] \in ItemPairs
  OBVIOUS
<1>2. \A i \in 1..k : lo + i - 1 = c + i
  OBVIOUS
<1> HIDE DEF lo, hi
<1>3. t \in Seq(ItemPairs)
  BY <1>1, SubSeqProperties
<1>4. Len(t) = IF lo <= hi THEN hi - lo + 1 ELSE 0
  BY <1>1, SubSeqProperties
<1>5. \A i \in 1..(hi - lo + 1) : t[i] = s[lo + i - 1]
  BY <1>1, SubSeqProperties
<1>6. Len(t) = k /\ \A i \in 1..k : t[i] = s[c + i]
  BY <1>1, <1>2, <1>4, <1>5
<1> QED
  BY <1>3, <1>6 DEF Slice, lo, hi

\* The initial states are as even as their items allow.
LEMMA InitialHeap ==
  ASSUME NEW lens \in Seq(Nat), NEW n, n = Len(lens), NEW k \in 1..n, NEW equalSize \in BOOLEAN,
         equalSize => n % k = 0, NEW p, ItemsBy(SortedItems(lens), lens, p, n),
         NEW g, Gaps(lens, p, k, equalSize, g)
  PROVE  HeapOf(InitialStates(lens, k, equalSize), k, lens, equalSize, g)
<1> DEFINE sorted == SortedItems(lens)
           H == InitialStates(lens, k, equalSize)
<1>0. n \in Nat /\ k \in Nat /\ k > 0 /\ sorted \in Seq(ItemPairs) /\ Len(sorted) = n
  BY DEF ItemsBy
<1>1. CASE equalSize
  <2> DEFINE h == n \div k
             I == 0..(h - 1)
             C == [j \in I |-> k * j]
             T == [j \in I |-> SubSeq(sorted, k * j + 1, k * j + k)]
  <2>1. h \in Nat /\ n = k * h
    BY <1>0, <1>1
  <2>2. h > 0
    BY <1>0, <2>1
  <2>3. H = {State(SubSeq(sorted, k * j + 1, k * j + k), k) : j \in I}
    BY <1>1 DEF InitialStates
  <2>4. H = {State(T[j], k) : j \in I}
    BY <2>3
  <2> HIDE DEF H, h, sorted
  <2>5. IsFiniteSet(I) /\ I # {}
    <3>1. 0 \in I
      BY <2>1, <2>2
    <3>2. 0 \in Int /\ h - 1 \in Int
      BY <2>1
    <3> QED
      BY <3>1, <3>2, FS_Interval
  <2>6. ASSUME NEW j \in I PROVE C[j] \in Nat /\ C[j] + k <= n /\ Slice(T[j], sorted, C[j], k)
    <3>1. j \in Nat /\ j + 1 <= h /\ k * j \in Nat
      BY <1>0, <2>1
    <3>2. k * (j + 1) <= k * h
      BY <1>0, <2>1, <3>1
    <3>3. k * (j + 1) = k * j + k
      BY <1>0, <3>1
    <3> DEFINE c == k * j
               t == SubSeq(sorted, c + 1, c + k)
    <3>4. c \in Nat /\ c + k <= n /\ C[j] = c /\ T[j] = t
      BY <2>1, <3>1, <3>2, <3>3
    <3> HIDE DEF c
    <3>6. Slice(t, sorted, c, k)
      BY <1>0, <3>4, SubSeqIsSlice
    <3> QED
      BY <3>4, <3>6
  <2>7. ASSUME NEW i \in I, NEW j \in I, NEW a \in 1..k, NEW b \in 1..k, C[i] + a = C[j] + b PROVE i = j
    <3>1. i \in Nat /\ j \in Nat /\ a - 1 \in Nat /\ b - 1 \in Nat /\ a - 1 < k /\ b - 1 < k
      BY <1>0, <2>1
    <3>2. i * k + (a - 1) = j * k + (b - 1)
      BY <1>0, <2>7, <3>1
    <3>3. (i * k + (a - 1)) \div k = i /\ (j * k + (b - 1)) \div k = j
      BY <1>0, <3>1, DivModUnique
    <3> QED
      BY <3>2, <3>3
  <2>8. ASSUME NEW y \in 1..n PROVE \E i \in I : \E a \in 1..k : C[i] + a = y
    <3>1. y - 1 \in Nat /\ y - 1 < h * k
      BY <1>0, <2>1
    <3> DEFINE i == (y - 1) \div k
               a == (y - 1) % k
    <3>2. i \in Nat /\ i < h /\ a \in Nat /\ a < k /\ y - 1 = i * k + a
      BY <1>0, <2>1, <3>1, DivBelow
    <3> HIDE DEF i, a
    <3>3. i \in I /\ a + 1 \in 1..k /\ k * i + (a + 1) = y
      BY <1>0, <2>1, <3>2
    <3> QED
      BY <3>3
  <2>9. Starts(H, I, C, T, k, n, sorted, k)
    BY <2>4, <2>5, <2>6, <2>7, <2>8 DEF Starts
  <2>10. \A j \in I : Gap(lens, p, C[j], k, k, g)
    BY <1>1 DEF Gaps, h
  <2> HIDE DEF I, C, T
  <2>11. k \in 1..k
    BY <1>0
  <2>12. ItemsBy(sorted, lens, p, n)
    BY DEF sorted
  <2>13. HeapOf(H, k, lens, k = k, g)
    BY <1>0, <2>9, <2>10, <2>11, <2>12, HeapStarts
  <2>14. (k = k) = equalSize
    BY <1>1
  <2> QED
    BY <2>13, <2>14 DEF H
<1>2. CASE ~equalSize
  <2> DEFINE I == 1..n
             C == [i \in I |-> i - 1]
             T == [i \in I |-> <<sorted[i]>>]
  <2>1. H = {State(T[i], k) : i \in I}
    BY <1>2 DEF InitialStates
  <2> HIDE DEF H, sorted
  <2>2. IsFiniteSet(I) /\ I # {}
    <3>1. 1 \in I
      BY <1>0
    <3>2. 1 \in Int /\ n \in Int
      BY <1>0
    <3> QED
      BY <3>1, <3>2, FS_Interval
  <2>3. ASSUME NEW i \in I PROVE C[i] \in Nat /\ C[i] + 1 <= n /\ Slice(T[i], sorted, C[i], 1)
    <3>1. C[i] \in Nat /\ C[i] + 1 = i /\ C[i] + 1 <= n
      BY <1>0
    <3>2. T[i] = <<sorted[i]>> /\ sorted[i] \in ItemPairs
      BY <1>0
    <3>3. T[i] \in Seq(ItemPairs) /\ Len(T[i]) = 1 /\ T[i][1] = sorted[i]
      BY <3>2
    <3> HIDE DEF T, C
    <3>4. \A a \in 1..1 : T[i][a] = sorted[C[i] + a]
      BY <3>1, <3>3
    <3> QED
      BY <3>1, <3>3, <3>4 DEF Slice
  <2>4. ASSUME NEW i \in I, NEW j \in I, NEW a \in 1..1, NEW b \in 1..1, C[i] + a = C[j] + b PROVE i = j
    BY <2>4
  <2>5. ASSUME NEW y \in 1..n PROVE \E i \in I : \E a \in 1..1 : C[i] + a = y
    <3>1. y \in I /\ 1 \in 1..1 /\ C[y] + 1 = y
      OBVIOUS
    <3> QED
      BY <3>1
  <2>6. Starts(H, I, C, T, 1, n, sorted, k)
    BY <2>1, <2>2, <2>3, <2>4, <2>5 DEF Starts
  <2>7. \A j \in I : Gap(lens, p, C[j], 1, k, g)
    BY <1>2 DEF Gaps
  <2> HIDE DEF I, C, T
  <2>8. 1 \in 1..k /\ ItemsBy(sorted, lens, p, n)
    BY <1>0 DEF sorted
  <2>9. HeapOf(H, k, lens, 1 = k, g)
    BY <1>0, <2>6, <2>7, <2>8, HeapStarts
  <2> QED
    BY <1>2, <2>9 DEF HeapOf, Even, H
<1> QED
  BY <1>1, <1>2

-----------------------------------------------------------------------------
\* The loop

\* A turn leaves the states as even as they were.
LEMMA TurnEven ==
  ASSUME NEW k \in Nat, NEW lens, NEW equalSize, NEW g \in Nat, NEW H,
         HeapOf(H, k, lens, equalSize, g), Cardinality(H) > 1
  PROVE  /\ HeapOf(MergeFirstTwo(H), k, lens, equalSize, g)
         /\ Cardinality(MergeFirstTwo(H)) = Cardinality(H) - 1
<1> DEFINE G == MergeFirstTwo(H)
<1>1. HeapIn(H, k, lens) /\ (\A st \in H : Even(st, equalSize, g)) /\ \A x : HeapHolds(H, x) <=> x \in 1..Len(lens)
  BY DEF HeapOf
<1>2. PICK s, t : Turned(G, H, s, t)
  BY <1>1, TurnIs
<1>3. HeapIn(G, k, lens)
  BY <1>1, TurnIs
<1>4. Cardinality(G) = Cardinality(H) - 1
  BY <1>1, TurnIs
<1>5. \A x : HeapHolds(G, x) <=> HeapHolds(H, x)
  BY <1>1, TurnIs
<1> HIDE DEF G
<1>6. s \in H /\ t \in H /\ G = (H \ {s, t}) \cup {Merge(s, t)}
  BY <1>2 DEF Turned
<1>7. StateIn(s, k, lens) /\ StateIn(t, k, lens) /\ Even(s, equalSize, g) /\ Even(t, equalSize, g)
  BY <1>1, <1>6 DEF HeapIn
<1>8. SetsIn(s, k, lens) /\ Falling(s) /\ SetsIn(t, k, lens) /\ Falling(t)
  BY <1>7 DEF StateIn
<1> DEFINE m == Merge(s, t)
<1>9. equalSize => \E c \in Nat : Sized(m, c)
  <2> SUFFICES ASSUME equalSize PROVE \E c \in Nat : Sized(m, c)
    OBVIOUS
  <2>1. PICK c \in Nat : Sized(s, c)
    BY <1>7 DEF Even
  <2>2. PICK d \in Nat : Sized(t, d)
    BY <1>7 DEF Even
  <2>3. Sized(m, c + d) /\ c + d \in Nat
    BY <1>8, <2>1, <2>2, MergeSized
  <2> QED
    BY <2>3
<1>10. Filled(m)
  BY <1>7, <1>8, MergeFilled DEF Even
<1>11. Spreads(m, g)
  BY <1>7, <1>8, MergeSpreads DEF Even
<1>12. Even(m, equalSize, g)
  BY <1>9, <1>10, <1>11 DEF Even
<1>13. (\A st \in G : Even(st, equalSize, g)) /\ G # {}
  BY <1>1, <1>6, <1>12
<1> QED
  BY <1>1, <1>3, <1>4, <1>5, <1>13 DEF HeapOf, G

\* What the loop leaves, for the state that remains.
PartsOf(sets, k) == [i \in 1..k |-> [j \in 1..Len(sets[i].items) |-> sets[i].items[j][1]]]

\* One state remains, and it is as even as the first ones and holds all indices.
LEMMA LoopEnds ==
  ASSUME NEW k \in Nat, NEW lens, NEW equalSize, NEW g \in Nat,
         HeapOf(InitialStates(lens, k, equalSize), k, lens, equalSize, g)
  PROVE  \E sets : /\ KarmarkarKarp(lens, k, equalSize) = PartsOf(sets, k)
                   /\ HeapOf({sets}, k, lens, equalSize, g)
<1> DEFINE heap == InitialStates(lens, k, equalSize)
           turns == Cardinality(heap) - 1
           S == {H \in SUBSET Seq(Sets) : HeapOf(H, k, lens, equalSize, g)}
           step == [y \in S \X (1..turns) |-> IF Cardinality(y[1]) > 1 THEN MergeFirstTwo(y[1]) ELSE y[1]]
<1>1. IsFiniteSet(heap) /\ heap # {} /\ HeapOf(heap, k, lens, equalSize, g)
  BY DEF HeapOf, HeapIn
<1> HIDE DEF heap
<1>2. Cardinality(heap) \in Nat /\ Cardinality(heap) # 0
  BY <1>1, FS_CardinalityType, FS_EmptySet
<1>3. turns \in Nat /\ Cardinality(heap) = turns + 1
  BY <1>2
<1> HIDE DEF turns
<1>4. ASSUME NEW H, HeapOf(H, k, lens, equalSize, g) PROVE H \in S
  <2>1. ASSUME NEW st \in H PROVE st \in Seq(Sets)
    BY <1>4 DEF HeapOf, HeapIn, StateIn, SetsIn
  <2> QED
    BY <1>4, <2>1
<1>5. \A H \in S : HeapOf(H, k, lens, equalSize, g)
  OBVIOUS
<1>6. heap \in S
  BY <1>1, <1>4
<1> HIDE DEF S
<1>7. ASSUME NEW H \in S, Cardinality(H) > 1
      PROVE  MergeFirstTwo(H) \in S /\ Cardinality(MergeFirstTwo(H)) = Cardinality(H) - 1
  <2>1. HeapOf(H, k, lens, equalSize, g)
    BY <1>5
  <2>2. HeapOf(MergeFirstTwo(H), k, lens, equalSize, g) /\ Cardinality(MergeFirstTwo(H)) = Cardinality(H) - 1
    BY <1>7, <2>1, TurnEven
  <2> QED
    BY <1>4, <2>2
<1>8. step \in StepsOf(S, turns)
  BY <1>7 DEF StepsOf
<1>9. PICK f : Follows(f, S, heap, turns, step)
  <2> HIDE DEF step
  <2> QED
    BY <1>3, <1>6, <1>8, Recursion
<1>10. f \in [0..turns -> S] /\ f[0] = heap /\ \A i \in 1..turns : f[i] = step[<<f[i - 1], i>>]
  BY <1>9 DEF Follows
<1>11. ASSUME NEW i \in 1..turns
       PROVE  f[i - 1] \in S /\ f[i] = IF Cardinality(f[i - 1]) > 1 THEN MergeFirstTwo(f[i - 1]) ELSE f[i - 1]
  <2>1. i - 1 \in 0..turns
    BY <1>3
  <2>2. f[i - 1] \in S
    BY <1>10, <2>1
  <2> QED
    BY <1>10, <2>2
<1> HIDE DEF step
<1>12. \A i \in 0..turns : Cardinality(f[i]) = turns + 1 - i
  <2> DEFINE B == {i \in 0..turns : Cardinality(f[i]) = turns + 1 - i}
  <2>1. 0 \in B
    BY <1>3, <1>10
  <2>2. ASSUME NEW i \in 0..(turns - 1), i \in B PROVE i + 1 \in B
    <3>1. i + 1 \in 1..turns /\ (i + 1) - 1 = i /\ Cardinality(f[i]) = turns + 1 - i /\ Cardinality(f[i]) > 1
      BY <1>3, <2>2
    <3>2. f[i] \in S /\ f[i + 1] = MergeFirstTwo(f[i])
      BY <1>11, <3>1
    <3>3. Cardinality(f[i + 1]) = Cardinality(f[i]) - 1
      BY <1>7, <3>1, <3>2
    <3> QED
      BY <1>3, <3>1, <3>3
  <2> HIDE DEF B
  <2>3. \A i \in 0..turns : i \in B
    BY <1>3, <2>1, <2>2, CountUp
  <2> QED
    BY <2>3 DEF B
<1>13. \A i \in 1..turns : f[i] = MergeFirstTwo(f[i - 1])
  <2> TAKE i \in 1..turns
  <2>1. i - 1 \in 0..turns /\ turns + 1 - (i - 1) > 1
    BY <1>3
  <2> QED
    BY <1>11, <1>12, <2>1
<1>14. f = [i \in 0..turns |-> IF i = 0 THEN heap ELSE MergeFirstTwo(f[i - 1])]
  <2>1. f = [i \in 0..turns |-> f[i]]
    BY <1>10
  <2>2. \A i \in 0..turns : f[i] = IF i = 0 THEN heap ELSE MergeFirstTwo(f[i - 1])
    BY <1>3, <1>10, <1>13
  <2> QED
    BY <2>1, <2>2, Zenon
<1> DEFINE c == CHOOSE h : h = [i \in 0..turns |-> IF i = 0 THEN heap ELSE MergeFirstTwo(h[i - 1])]
<1>15. c = [i \in 0..turns |-> IF i = 0 THEN heap ELSE MergeFirstTwo(c[i - 1])]
  BY <1>14, Zenon
<1> DEFINE sets == CHOOSE st \in c[turns] : TRUE
<1>16. KarmarkarKarp(lens, k, equalSize) = PartsOf(sets, k)
  BY DEF KarmarkarKarp, PartsOf, turns, heap
<1> HIDE DEF c
<1>17. c[0] = heap /\ \A i \in 1..turns : c[i] = MergeFirstTwo(c[i - 1])
  <2>1. c[0] = heap
    BY <1>3, <1>15
  <2>2. ASSUME NEW i \in 1..turns PROVE c[i] = MergeFirstTwo(c[i - 1])
    <3>1. i \in 0..turns /\ i # 0
      BY <1>3
    <3> QED
      BY <1>15, <3>1
  <2> QED
    BY <2>1, <2>2
<1>18. \A i \in 0..turns : c[i] = f[i]
  <2> DEFINE B == {i \in 0..turns : c[i] = f[i]}
  <2>1. 0 \in B
    BY <1>3, <1>10, <1>17
  <2>2. ASSUME NEW i \in 0..(turns - 1), i \in B PROVE i + 1 \in B
    <3>1. i + 1 \in 1..turns /\ i + 1 \in 0..turns /\ (i + 1) - 1 = i /\ c[i] = f[i]
      BY <1>3, <2>2
    <3> QED
      BY <1>13, <1>17, <3>1
  <2> HIDE DEF B
  <2>3. \A i \in 0..turns : i \in B
    BY <1>3, <2>1, <2>2, CountUp
  <2> QED
    BY <2>3 DEF B
<1>19. c[turns] \in S /\ Cardinality(c[turns]) = 1
  <2>1. turns \in 0..turns
    BY <1>3
  <2>2. c[turns] = f[turns] /\ f[turns] \in S /\ Cardinality(f[turns]) = turns + 1 - turns
    BY <1>10, <1>12, <1>18, <2>1
  <2> QED
    BY <1>3, <2>2
<1>20. HeapOf(c[turns], k, lens, equalSize, g) /\ IsFiniteSet(c[turns])
  BY <1>5, <1>19 DEF HeapOf, HeapIn
<1>21. PICK st : c[turns] = {st}
  BY <1>19, <1>20, FS_Singleton
<1>22. sets = st
  BY <1>21
<1>23. HeapOf({sets}, k, lens, equalSize, g)
  BY <1>20, <1>21, <1>22
<1> QED
  BY <1>16, <1>23

-----------------------------------------------------------------------------
\* The partitions

\* parts are k sequences in which each of 1..n comes once.
Partition(parts, n, k) ==
  /\ parts \in Seq(Seq(1..n)) /\ Len(parts) = k
  /\ \A x \in 1..n : \E i \in 1..k : \E j \in 1..Len(parts[i]) : parts[i][j] = x
  /\ \A i, h \in 1..k : \A j \in 1..Len(parts[i]), l \in 1..Len(parts[h]) :
       parts[i][j] = parts[h][l] => i = h /\ j = l

SizesOf(parts, sets, k) == \A i \in 1..k : Len(parts[i]) = Len(sets[i].items)

\* What the last state holds, part by part.
LEMMA PartsPartition ==
  ASSUME NEW k \in Nat, NEW lens \in Seq(Nat), NEW n, n = Len(lens), NEW equalSize, NEW g, NEW sets,
         HeapOf({sets}, k, lens, equalSize, g)
  PROVE  /\ Partition(PartsOf(sets, k), n, k) /\ SetsIn(sets, k, lens) /\ Even(sets, equalSize, g)
         /\ SizesOf(PartsOf(sets, k), sets, k)
<1> DEFINE parts == PartsOf(sets, k)
<1>1. StateIn(sets, k, lens) /\ Even(sets, equalSize, g) /\ \A x : HeapHolds({sets}, x) <=> x \in 1..n
  BY DEF HeapOf, HeapIn
<1>2. \A x : Holds(sets, x) <=> x \in 1..n
  BY <1>1 DEF HeapHolds
<1>3. SetsIn(sets, k, lens) /\ Once(sets)
  BY <1>1 DEF StateIn
<1>4. Len(sets) = k /\ \A i \in 1..k : SetIn(sets[i], lens)
  BY <1>3 DEF SetsIn
<1>5. ASSUME NEW i \in 1..k
      PROVE  /\ parts[i] \in Seq(1..n) /\ Len(parts[i]) = Len(sets[i].items) /\ Len(parts[i]) \in Nat
             /\ \A j \in 1..Len(parts[i]) : At(sets, i, j, parts[i][j])
             /\ \A j, x : At(sets, i, j, x) => j \in 1..Len(parts[i]) /\ parts[i][j] = x
  <2> DEFINE m == Len(sets[i].items)
             t == parts[i]
  <2>1. sets[i].items \in Seq(ItemPairs)
    BY <1>4 DEF SetIn, Sets
  <2>2. m \in Nat
    BY <2>1
  <2>3. t = [j \in 1..m |-> sets[i].items[j][1]]
    BY DEF PartsOf
  <2>4. \A j \in 1..m : sets[i].items[j][1] \in 1..n
    BY <1>4 DEF SetIn
  <2> HIDE DEF t, m
  <2>5. t \in Seq(1..n) /\ Len(t) = m
    BY <2>2, <2>3, <2>4
  <2>6. \A j \in 1..m : t[j] = sets[i].items[j][1]
    BY <2>3
  <2>7. \A j \in 1..m : At(sets, i, j, t[j])
    BY <1>4, <2>6 DEF At, m
  <2>8. \A j, x : At(sets, i, j, x) => j \in 1..m /\ t[j] = x
    BY <1>4, <2>6 DEF At, m
  <2> QED
    BY <2>2, <2>5, <2>7, <2>8 DEF t, m
<1>6. parts \in Seq(Seq(1..n)) /\ Len(parts) = k
  <2>1. parts = [i \in 1..k |-> parts[i]]
    BY DEF PartsOf
  <2> HIDE DEF parts
  <2>2. parts \in [1..k -> Seq(1..n)]
    BY <2>1, <1>5
  <2> QED
    BY <2>2
<1> HIDE DEF parts
<1>7. ASSUME NEW x \in 1..n PROVE \E i \in 1..k : \E j \in 1..Len(parts[i]) : parts[i][j] = x
  <2>1. PICK i, j : At(sets, i, j, x)
    BY <1>2 DEF Holds
  <2>2. i \in 1..k
    BY <1>4, <2>1 DEF At
  <2>3. j \in 1..Len(parts[i]) /\ parts[i][j] = x
    BY <1>5, <2>1, <2>2, Zenon
  <2> QED
    BY <2>2, <2>3
<1>8. ASSUME NEW i \in 1..k, NEW h \in 1..k, NEW j \in 1..Len(parts[i]), NEW l \in 1..Len(parts[h]),
             parts[i][j] = parts[h][l]
      PROVE  i = h /\ j = l
  <2> DEFINE x == parts[i][j]
  <2>1. At(sets, i, j, x) /\ At(sets, h, l, x)
    BY <1>5, <1>8
  <2>2. i \in Nat /\ j \in Nat /\ h \in Nat /\ l \in Nat
    BY <1>5
  <2> HIDE DEF x
  <2> QED
    BY <1>3, <2>1, <2>2 DEF Once
<1>9. Partition(parts, n, k)
  BY <1>6, <1>7, <1>8 DEF Partition
<1> QED
  BY <1>1, <1>3, <1>5, <1>9 DEF SizesOf, parts

\* No part is empty, if there are no fewer items than parts and while one is empty none
\* has two.
LEMMA NoneEmpty ==
  ASSUME NEW n \in Nat, NEW k \in 1..n, NEW parts, Partition(parts, n, k),
         (\E a \in 1..k : Len(parts[a]) = 0) => \A a \in 1..k : Len(parts[a]) <= 1
  PROVE  \A i \in 1..k : Len(parts[i]) > 0
<1>0. \A i \in 1..k : Len(parts[i]) \in Nat
  BY DEF Partition
<1> SUFFICES ASSUME NEW a \in 1..k, Len(parts[a]) = 0 PROVE FALSE
  BY <1>0
<1>1. \A i \in 1..k : Len(parts[i]) <= 1
  OBVIOUS
<1> DEFINE T == (1..k) \ {a}
           f == [x \in 1..n |-> CHOOSE i \in 1..k : \E j \in 1..Len(parts[i]) : parts[i][j] = x]
<1>2. ASSUME NEW x \in 1..n
      PROVE  f[x] \in T /\ parts[f[x]][1] = x /\ 1 \in 1..Len(parts[f[x]])
  <2>1. f[x] = CHOOSE i \in 1..k : \E j \in 1..Len(parts[i]) : parts[i][j] = x
    OBVIOUS
  <2>2. \E i \in 1..k : \E j \in 1..Len(parts[i]) : parts[i][j] = x
    BY DEF Partition
  <2> DEFINE i == f[x]
  <2> HIDE DEF f
  <2>3. i \in 1..k /\ \E j \in 1..Len(parts[i]) : parts[i][j] = x
    BY <2>1, <2>2, Zenon
  <2> HIDE DEF i
  <2>4. PICK j \in 1..Len(parts[i]) : parts[i][j] = x
    BY <2>3
  <2>5. j = 1 /\ i # a
    <3>1. Len(parts[i]) \in Nat /\ Len(parts[i]) <= 1
      BY <1>0, <1>1, <2>3
    <3> QED
      BY <2>4, <3>1
  <2> QED
    BY <2>3, <2>4, <2>5 DEF i
<1> HIDE DEF f
<1>3. f \in [1..n -> T]
  BY <1>2 DEF f
<1>4. \A x, y \in 1..n : f[x] = f[y] => x = y
  <2> TAKE x \in 1..n
  <2> TAKE y \in 1..n
  <2>1. parts[f[x]][1] = x /\ parts[f[y]][1] = y
    BY <1>2
  <2> QED
    BY <2>1
<1>5. f \in Injection(1..n, T)
  BY <1>3, <1>4 DEF Injection, IsInjective
<1>6. IsFiniteSet(1..k) /\ Cardinality(1..k) = k /\ Cardinality(1..n) = n
  <2>1. 1 \in Int /\ k \in Int /\ n \in Int /\ k >= 1 /\ n >= 1
    OBVIOUS
  <2>2. IsFiniteSet(1..k) /\ Cardinality(1..k) = IF 1 > k THEN 0 ELSE k - 1 + 1
    BY <2>1, FS_Interval
  <2>3. Cardinality(1..n) = IF 1 > n THEN 0 ELSE n - 1 + 1
    BY <2>1, FS_Interval
  <2> QED
    BY <2>1, <2>2, <2>3
<1>7. IsFiniteSet(T) /\ Cardinality(T) = k - 1
  BY <1>6, FS_RemoveElement
<1> HIDE DEF T
<1>8. Cardinality(1..n) <= Cardinality(T)
  BY <1>5, <1>7, FS_Injection
<1> QED
  BY <1>6, <1>7, <1>8

AllOf(parts, k, c) == \A a \in 1..k : Len(parts[a]) = c

\* Parts of one length divide the items.
LEMMA EqualParts ==
  ASSUME NEW n \in Nat, NEW k \in 1..n, NEW parts, Partition(parts, n, k), NEW c \in Nat,
         AllOf(parts, k, c)
  PROVE  c * k = n
<1> DEFINE S == (1..k) \X (1..c)
           f == [y \in S |-> parts[y[1]][y[2]]]
<1> USE DEF AllOf
<1>1. \A i \in 1..k : \A j \in 1..c : parts[i][j] \in 1..n
  <2> TAKE i \in 1..k
  <2> TAKE j \in 1..c
  <2>1. parts[i] \in Seq(1..n) /\ j \in 1..Len(parts[i])
    BY DEF Partition
  <2> QED
    BY <2>1
<1>2. f \in [S -> 1..n]
  BY <1>1
<1>3. \A i \in 1..k : \A j \in 1..c : <<i, j>> \in S /\ f[<<i, j>>] = parts[i][j]
  OBVIOUS
<1>4. \A y \in S : \E i \in 1..k : \E j \in 1..c : y = <<i, j>>
  OBVIOUS
<1> HIDE DEF f, S
<1>5. ASSUME NEW y \in S, NEW z \in S, f[y] = f[z] PROVE y = z
  <2>1. PICK i \in 1..k, j \in 1..c : y = <<i, j>>
    BY <1>4
  <2>2. PICK h \in 1..k, l \in 1..c : z = <<h, l>>
    BY <1>4
  <2>3. parts[i][j] = parts[h][l] /\ j \in 1..Len(parts[i]) /\ l \in 1..Len(parts[h])
    BY <1>3, <1>5, <2>1, <2>2
  <2>4. i = h /\ j = l
    BY <2>3 DEF Partition
  <2> QED
    BY <2>1, <2>2, <2>4
<1>6. ASSUME NEW x \in 1..n PROVE \E y \in S : f[y] = x
  <2>1. PICK i \in 1..k : \E j \in 1..Len(parts[i]) : parts[i][j] = x
    BY DEF Partition
  <2>2. PICK j \in 1..c : parts[i][j] = x
    BY <2>1
  <2> QED
    BY <1>3, <2>2
<1>7. f \in Bijection(S, 1..n)
  BY <1>2, <1>5, <1>6 DEF Bijection, Injection, IsInjective, Surjection
<1>8. ExistsBijection(S, 1..n)
  BY <1>7 DEF ExistsBijection
<1>9. /\ IsFiniteSet(1..k) /\ Cardinality(1..k) = k /\ Cardinality(1..n) = n
      /\ IsFiniteSet(1..c) /\ Cardinality(1..c) = c
  <2>1. 1 \in Int /\ k \in Int /\ n \in Int /\ c \in Int /\ k >= 1 /\ n >= 1 /\ c >= 0
    OBVIOUS
  <2>2. IsFiniteSet(1..k) /\ Cardinality(1..k) = IF 1 > k THEN 0 ELSE k - 1 + 1
    BY <2>1, FS_Interval
  <2>3. Cardinality(1..n) = IF 1 > n THEN 0 ELSE n - 1 + 1
    BY <2>1, FS_Interval
  <2>4. IsFiniteSet(1..c) /\ Cardinality(1..c) = IF 1 > c THEN 0 ELSE c - 1 + 1
    BY <2>1, FS_Interval
  <2> QED
    BY <2>1, <2>2, <2>3, <2>4
<1>10. IsFiniteSet(S) /\ Cardinality(S) = k * c
  <2>1. IsFiniteSet(S) /\ Cardinality(S) = Cardinality(1..k) * Cardinality(1..c)
    BY <1>9, FS_Product DEF S
  <2> QED
    BY <1>9, <2>1
<1>11. Cardinality(1..n) = Cardinality(S)
  BY <1>8, <1>10, FS_Bijection
<1>12. k * c = c * k
  OBVIOUS
<1> QED
  BY <1>9, <1>10, <1>11, <1>12

UpTo(lens, i, g) == \A j \in 1..i : lens[j] <= g

\* Lengths have a bound.
LEMMA Bounded ==
  ASSUME NEW lens \in Seq(Nat)
  PROVE  \E g \in Nat : \A i \in 1..Len(lens) : lens[i] <= g
<1> DEFINE n == Len(lens)
           B == {i \in 0..n : \E g \in Nat : UpTo(lens, i, g)}
<1>1. n \in Nat /\ \A i \in 1..n : lens[i] \in Nat
  OBVIOUS
<1> HIDE DEF n
<1>2. 0 \in B
  <2>1. 0 \in 0..n /\ 0 \in Nat /\ UpTo(lens, 0, 0)
    BY <1>1 DEF UpTo
  <2> QED
    BY <2>1
<1>3. ASSUME NEW i \in 0..(n - 1), i \in B PROVE i + 1 \in B
  <2>1. PICK g \in Nat : \A j \in 1..i : lens[j] <= g
    BY <1>3 DEF UpTo
  <2>2. i + 1 \in 1..n /\ lens[i + 1] \in Nat
    BY <1>1
  <2> DEFINE h == g + lens[i + 1]
  <2>3. h \in Nat
    BY <2>2
  <2>4. \A j \in 1..(i + 1) : lens[j] <= h
    <3> TAKE j \in 1..(i + 1)
    <3>1. j \in 1..i \/ j = i + 1
      OBVIOUS
    <3>2. j \in 1..n /\ lens[j] \in Nat
      BY <1>1, <2>2
    <3> QED
      BY <2>1, <2>2, <3>1, <3>2
  <2> HIDE DEF h
  <2>5. UpTo(lens, i + 1, h) /\ i + 1 \in 0..n
    BY <1>1, <2>2, <2>4 DEF UpTo
  <2> QED
    BY <2>3, <2>5
<1> HIDE DEF B
<1>4. \A i \in 0..n : i \in B
  BY <1>1, <1>2, <1>3, CountUp
<1>5. n \in 0..n
  BY <1>1
<1>6. PICK g \in Nat : UpTo(lens, n, g)
  BY <1>4, <1>5 DEF B
<1> QED
  BY <1>6 DEF UpTo, n

\* The bound on the lengths bounds the gaps.
LEMMA BoundedGaps ==
  ASSUME NEW lens \in Seq(Nat), NEW n, n = Len(lens), NEW k \in 1..n, NEW equalSize,
         equalSize => n % k = 0, NEW sorted, NEW p, ItemsBy(sorted, lens, p, n),
         NEW g \in Nat, \A i \in 1..n : lens[i] <= g
  PROVE  Gaps(lens, p, k, equalSize, g)
<1>0. n \in Nat /\ k \in Nat /\ k > 0 /\ (\A i \in 1..n : lens[i] \in Nat) /\ \A i \in 1..n : p[i] \in 1..n
  BY DEF ItemsBy
<1>1. ASSUME NEW c \in Nat, NEW m \in 1..k, c + m <= n PROVE Gap(lens, p, c, m, k, g)
  <2> DEFINE v(a) == IF a <= m THEN lens[p[c + a]] ELSE 0
  <2>1. ASSUME NEW a \in 1..k PROVE v(a) \in Nat /\ v(a) <= g
    <3>1. CASE a <= m
      <4>1. c + a \in 1..n
        BY <1>0, <1>1, <3>1
      <4>2. p[c + a] \in 1..n
        BY <1>0, <4>1
      <4>3. lens[p[c + a]] \in Nat /\ lens[p[c + a]] <= g
        BY <1>0, <4>2
      <4> QED
        BY <3>1, <4>3
    <3>2. CASE ~(a <= m)
      BY <3>2
    <3> QED
      BY <3>1, <3>2
  <2>2. \A a, b \in 1..k : v(a) - v(b) <= g
    <3> TAKE a \in 1..k
    <3> TAKE b \in 1..k
    <3> DEFINE y == v(a)
               z == v(b)
    <3>1. y \in Nat /\ y <= g /\ z \in Nat
      BY <2>1
    <3> HIDE DEF y, z
    <3>2. y - z <= g
      BY <3>1
    <3> QED
      BY <3>2 DEF y, z
  <2> QED
    BY <2>2 DEF Gap
<1>2. CASE equalSize
  <2> DEFINE h == n \div k
  <2>0. n \in Nat /\ k \in Nat /\ k > 0 /\ n % k = 0
    BY <1>0, <1>2
  <2>1. h \in Nat /\ n = k * h
    BY <2>0
  <2> HIDE DEF h
  <2>2. ASSUME NEW j \in 0..(h - 1) PROVE Gap(lens, p, k * j, k, k, g)
    <3>1. j \in Nat /\ j + 1 <= h /\ k * j \in Nat
      BY <1>0, <2>1
    <3>2. k * (j + 1) <= k * h /\ k * (j + 1) = k * j + k
      BY <1>0, <2>1, <3>1
    <3> DEFINE c == k * j
    <3>3. c \in Nat /\ c + k <= n /\ k \in 1..k
      BY <1>0, <2>1, <3>1, <3>2
    <3> HIDE DEF c
    <3>4. Gap(lens, p, c, k, k, g)
      BY <1>1, <3>3
    <3> QED
      BY <3>4 DEF c
  <2> QED
    BY <1>2, <2>2 DEF Gaps, h
<1>3. CASE ~equalSize
  <2>1. ASSUME NEW i \in 1..n PROVE Gap(lens, p, i - 1, 1, k, g)
    <3>1. i - 1 \in Nat /\ 1 \in 1..k /\ (i - 1) + 1 <= n
      BY <1>0
    <3> QED
      BY <1>1, <3>1
  <2> QED
    BY <1>3, <2>1 DEF Gaps
<1> QED
  BY <1>2, <1>3

\* The heap comes down to one state.
LEMMA LastState ==
  ASSUME NEW lens \in Seq(Nat), NEW n, n = Len(lens), NEW k \in 1..n, NEW equalSize \in BOOLEAN,
         equalSize => n % k = 0
  PROVE  \E sets : /\ KarmarkarKarp(lens, k, equalSize) = PartsOf(sets, k)
                   /\ \E g \in Nat : HeapOf({sets}, k, lens, equalSize, g)
<1>1. PICK p : ItemsBy(SortedItems(lens), lens, p, n)
  BY SortedItemsAre
<1>2. PICK g \in Nat : \A i \in 1..n : lens[i] <= g
  BY Bounded
<1>3. Gaps(lens, p, k, equalSize, g)
  BY <1>1, <1>2, BoundedGaps
<1>4. HeapOf(InitialStates(lens, k, equalSize), k, lens, equalSize, g)
  BY <1>1, <1>3, InitialHeap
<1>5. k \in Nat
  OBVIOUS
<1> QED
  BY <1>4, <1>5, LoopEnds

\* What karmarkar_karp returns.
LEMMA PartsAre ==
  ASSUME NEW lens \in Seq(Nat), NEW n, n = Len(lens), NEW k \in 1..n, NEW equalSize \in BOOLEAN,
         equalSize => n % k = 0
  PROVE  /\ Partition(KarmarkarKarp(lens, k, equalSize), n, k)
         /\ \A i \in 1..k : Len(KarmarkarKarp(lens, k, equalSize)[i]) > 0
         /\ equalSize => \A i \in 1..k : Len(KarmarkarKarp(lens, k, equalSize)[i]) * k = n
<1> DEFINE parts == KarmarkarKarp(lens, k, equalSize)
<1>0. k \in Nat /\ n \in Nat
  OBVIOUS
<1>1. PICK sets : parts = PartsOf(sets, k) /\ \E g \in Nat : HeapOf({sets}, k, lens, equalSize, g)
  BY LastState
<1>2. PICK g \in Nat : HeapOf({sets}, k, lens, equalSize, g)
  BY <1>1
<1> HIDE DEF parts
<1>3. Partition(parts, n, k) /\ SetsIn(sets, k, lens) /\ Even(sets, equalSize, g)
  BY <1>0, <1>1, <1>2, PartsPartition
<1>4. \A i \in 1..k : Len(parts[i]) = Len(sets[i].items)
  <2>1. SizesOf(PartsOf(sets, k), sets, k)
    BY <1>0, <1>2, PartsPartition
  <2> QED
    BY <1>1, <2>1 DEF SizesOf
<1>5. Len(sets) = k
  BY <1>3 DEF SetsIn
<1>6. (\E a \in 1..k : Len(parts[a]) = 0) => \A a \in 1..k : Len(parts[a]) <= 1
  BY <1>3, <1>4, <1>5 DEF Even, Filled
<1>7. \A i \in 1..k : Len(parts[i]) > 0
  BY <1>0, <1>3, <1>6, NoneEmpty
<1>8. ASSUME equalSize PROVE \A i \in 1..k : Len(parts[i]) * k = n
  <2>1. PICK c \in Nat : Sized(sets, c)
    BY <1>3, <1>8 DEF Even
  <2>2. \A i \in 1..k : Len(parts[i]) = c
    BY <1>4, <1>5, <2>1 DEF Sized
  <2>3. Partition(parts, n, k) /\ n \in Nat
    BY <1>0, <1>3
  <2>4. c * k = n
    <3>1. AllOf(parts, k, c)
      BY <2>2 DEF AllOf
    <3> QED
      BY <2>3, <3>1, EqualParts
  <2> QED
    BY <2>2, <2>4
<1> QED
  BY <1>3, <1>7, <1>8 DEF parts

\* The assertions of get_seqlen_balanced_partitions and of karmarkar_karp on their
\* results hold of any lengths: no part is empty, all have one size with equal_size, and
\* they have the indices of all the lengths between them.
THEOREM PartitionsAsAsserted ==
  ASSUME NEW lens \in Seq(Nat), NEW k \in 1..Len(lens), NEW equalSize \in BOOLEAN,
         equalSize => Len(lens) % k = 0
  PROVE  CanBalance(lens, k, equalSize)
<1> DEFINE n == Len(lens)
           parts == KarmarkarKarp(lens, k, equalSize)
<1>0. n \in Nat /\ k \in Nat /\ n >= k /\ k \in 1..n /\ n = Len(lens)
  OBVIOUS
<1> HIDE DEF n
<1>1. Partition(parts, n, k)
  BY <1>0, PartsAre
<1>2. \A i \in 1..k : Len(parts[i]) > 0
  BY <1>0, PartsAre
<1>3. equalSize => \A i \in 1..k : Len(parts[i]) * k = n
  BY <1>0, PartsAre
<1> HIDE DEF parts
<1>4. UNION {ToSet(parts[i]) : i \in 1..k} = 1..n
  <2>1. ASSUME NEW i \in 1..k PROVE ToSet(parts[i]) = {parts[i][j] : j \in 1..Len(parts[i])}
    <3>1. parts[i] \in Seq(1..n)
      BY <1>1 DEF Partition
    <3>2. DOMAIN parts[i] = 1..Len(parts[i])
      BY <3>1
    <3> QED
      BY <3>2 DEF ToSet
  <2>2. ASSUME NEW i \in 1..k, NEW x \in ToSet(parts[i]) PROVE x \in 1..n
    <3>1. PICK j \in 1..Len(parts[i]) : x = parts[i][j]
      BY <2>1, <2>2
    <3>2. parts[i] \in Seq(1..n)
      BY <1>1 DEF Partition
    <3> DEFINE y == parts[i]
    <3>3. y \in Seq(1..n) /\ j \in 1..Len(y) /\ x = y[j]
      BY <3>1, <3>2
    <3> HIDE DEF y
    <3> QED
      BY <1>0, <3>3
  <2>3. ASSUME NEW x \in 1..n PROVE \E i \in 1..k : x \in ToSet(parts[i])
    <3>1. PICK i \in 1..k : \E j \in 1..Len(parts[i]) : parts[i][j] = x
      BY <1>1 DEF Partition
    <3> QED
      BY <2>1, <3>1
  <2> QED
    BY <2>2, <2>3
<1>5. parts = KarmarkarKarp(lens, k, equalSize)
  BY DEF parts
<1> QED
  BY <1>0, <1>2, <1>3, <1>4, <1>5 DEF CanBalance

-----------------------------------------------------------------------------
\* The partitions sorted, and put one after the other

\* An index has one place.
LEMMA OnePlace ==
  ASSUME NEW n, NEW k, NEW parts, Partition(parts, n, k), NEW i \in 1..k, NEW h \in 1..k,
         NEW j \in 1..Len(parts[i]), NEW l \in 1..Len(parts[h]), parts[i][j] = parts[h][l]
  PROVE  i = h /\ j = l
<1>1. \A a, b \in 1..k : \A c \in 1..Len(parts[a]), d \in 1..Len(parts[b]) :
        parts[a][c] = parts[b][d] => a = b /\ c = d
  BY Zenon DEF Partition
<1> QED
  BY <1>1, Zenon

\* The same indices in each part, in some order.
SameParts(d, parts, k) ==
  \A i \in 1..k :
    /\ Len(d[i]) = Len(parts[i])
    /\ \E p : Permutes(p, Len(parts[i])) /\ \A j \in 1..Len(parts[i]) : d[i][j] = parts[i][p[j]]

\* Sorting the parts leaves them parts.
LEMMA PartsSorted ==
  ASSUME NEW k \in Nat, NEW n \in Nat, NEW parts, NEW stay, Partition(parts, n, k),
         NEW d, d = [i \in 1..k |-> Sorted(parts[i], stay[i])]
  PROVE  Partition(d, n, k) /\ SameParts(d, parts, k)
<1>0. parts \in Seq(Seq(1..n)) /\ Len(parts) = k
  BY DEF Partition
<1>1. ASSUME NEW i \in 1..k
      PROVE  /\ d[i] \in Seq(1..n) /\ Len(d[i]) = Len(parts[i]) /\ Len(parts[i]) \in Nat
             /\ \E p : Permutes(p, Len(parts[i])) /\ \A j \in 1..Len(parts[i]) : p[j] \in 1..Len(parts[i]) /\ d[i][j] = parts[i][p[j]]
  <2> DEFINE s == parts[i]
             m == Len(s)
             t == d[i]
             y == stay[i]
  <2>1. s \in Seq(1..n) /\ m \in Nat
    BY <1>0
  <2>2. t = Sorted(s, y)
    OBVIOUS
  <2>3. m = Len(s)
    OBVIOUS
  <2> HIDE DEF m, s, t, y
  <2>4. PICK p : Rearranged(Sorted(s, y), s, p, m)
    BY <2>1, <2>3, SortedIs
  <2>5. Permutes(p, m) /\ t = [j \in 1..m |-> s[p[j]]]
    BY <2>2, <2>4 DEF Rearranged
  <2>6. \A j \in 1..m : p[j] \in 1..m
    <3>1. p \in [1..m -> 1..m]
      BY <2>5 DEF Permutes
    <3> QED
      BY <3>1
  <2>7. \A j \in 1..m : t[j] = s[p[j]] /\ s[p[j]] \in 1..n
    <3> TAKE j \in 1..m
    <3>1. p[j] \in 1..Len(s) /\ t[j] = s[p[j]]
      BY <2>3, <2>5, <2>6
    <3> DEFINE y1 == p[j]
    <3>2. s[y1] \in 1..n
      <4>1. y1 \in 1..Len(s)
        BY <3>1
      <4> HIDE DEF y1
      <4> QED
        BY <2>1, <4>1
    <3> QED
      BY <3>1, <3>2
  <2>8. t \in Seq(1..n) /\ Len(t) = m
    <3>1. t \in [1..m -> 1..n]
      BY <2>5, <2>7
    <3> QED
      BY <2>1, <3>1
  <2> QED
    BY <2>1, <2>5, <2>6, <2>7, <2>8 DEF m, s, t
<1>2. d \in Seq(Seq(1..n)) /\ Len(d) = k
  <2>1. \A i \in 1..k : d[i] \in Seq(1..n)
    BY <1>1
  <2>2. d \in [1..k -> Seq(1..n)]
    BY <2>1
  <2> QED
    BY <2>2
<1>3. ASSUME NEW x \in 1..n PROVE \E i \in 1..k : \E j \in 1..Len(d[i]) : d[i][j] = x
  <2>1. PICK i \in 1..k : \E j \in 1..Len(parts[i]) : parts[i][j] = x
    BY DEF Partition
  <2>2. PICK j \in 1..Len(parts[i]) : parts[i][j] = x
    BY <2>1
  <2>3. PICK p : Permutes(p, Len(parts[i])) /\ \A l \in 1..Len(parts[i]) : p[l] \in 1..Len(parts[i]) /\ d[i][l] = parts[i][p[l]]
    BY <1>1
  <2>4. PICK l \in 1..Len(parts[i]) : p[l] = j
    BY <2>3 DEF Permutes
  <2>5. d[i][l] = x /\ Len(d[i]) = Len(parts[i])
    BY <1>1, <2>2, <2>3, <2>4
  <2> QED
    BY <2>5
<1>4. ASSUME NEW i \in 1..k, NEW h \in 1..k, NEW j \in 1..Len(d[i]), NEW l \in 1..Len(d[h]), d[i][j] = d[h][l]
      PROVE  i = h /\ j = l
  <2>1. PICK p : Permutes(p, Len(parts[i])) /\ \A a \in 1..Len(parts[i]) : p[a] \in 1..Len(parts[i]) /\ d[i][a] = parts[i][p[a]]
    BY <1>1
  <2>2. PICK q : Permutes(q, Len(parts[h])) /\ \A a \in 1..Len(parts[h]) : q[a] \in 1..Len(parts[h]) /\ d[h][a] = parts[h][q[a]]
    BY <1>1
  <2>3. j \in 1..Len(parts[i]) /\ l \in 1..Len(parts[h])
    BY <1>1
  <2>4. i = h /\ p[j] = q[l]
    <3>1. d[i][j] = parts[i][p[j]] /\ p[j] \in 1..Len(parts[i])
      BY <2>1, <2>3, Zenon
    <3>2. d[h][l] = parts[h][q[l]] /\ q[l] \in 1..Len(parts[h])
      BY <2>2, <2>3, Zenon
    <3>3. parts[i][p[j]] = parts[h][q[l]]
      BY <1>4, <3>1, <3>2
    <3> DEFINE y == p[j]
               z == q[l]
    <3>4. y \in 1..Len(parts[i]) /\ z \in 1..Len(parts[h]) /\ parts[i][y] = parts[h][z]
      BY <3>1, <3>2, <3>3
    <3> HIDE DEF y, z
    <3>5. i = h /\ y = z
      <4>1. \A e, f \in 1..k : \A b \in 1..Len(parts[e]), c \in 1..Len(parts[f]) :
              parts[e][b] = parts[f][c] => e = f /\ b = c
        BY Zenon DEF Partition
      <4> QED
        BY <3>4, <4>1, Zenon
    <3> QED
      BY <3>5 DEF y, z
  <2>5. d[i][j] = parts[i][p[j]] /\ d[i][l] = parts[i][p[l]] /\ p[j] \in 1..Len(parts[i]) /\ p[l] \in 1..Len(parts[i]) /\ l \in 1..Len(parts[i])
    BY <2>1, <2>3, <2>4
  <2>6. parts[i][p[j]] = parts[i][p[l]]
    BY <1>4, <2>4, <2>5
  <2>7. p[j] = p[l]
    <3> DEFINE y == p[j]
               z == p[l]
    <3>1. y \in 1..Len(parts[i]) /\ z \in 1..Len(parts[i]) /\ parts[i][y] = parts[i][z]
      BY <2>5, <2>6
    <3> HIDE DEF y, z
    <3>2. y = z
      BY <3>1, OnePlace
    <3> QED
      BY <3>2 DEF y, z
  <2> QED
    BY <2>1, <2>3, <2>4, <2>5, <2>7 DEF Permutes
<1>5. SameParts(d, parts, k)
  <2> SUFFICES ASSUME NEW i \in 1..k
               PROVE  /\ Len(d[i]) = Len(parts[i])
                      /\ \E p : Permutes(p, Len(parts[i])) /\ \A j \in 1..Len(parts[i]) : d[i][j] = parts[i][p[j]]
    BY Zenon DEF SameParts
  <2>1. PICK p : Permutes(p, Len(parts[i])) /\ \A j \in 1..Len(parts[i]) : p[j] \in 1..Len(parts[i]) /\ d[i][j] = parts[i][p[j]]
    BY <1>1
  <2>2. \A j \in 1..Len(parts[i]) : d[i][j] = parts[i][p[j]]
    BY <2>1
  <2>3. Len(d[i]) = Len(parts[i])
    BY <1>1
  <2> QED
    BY <2>1, <2>2, <2>3, Zenon
<1>6. Partition(d, n, k)
  BY <1>1, <1>2, <1>3, <1>4 DEF Partition
<1> QED
  BY <1>5, <1>6

\* What get_seqlen_balanced_partitions returns.
LEMMA BalancedAre ==
  ASSUME NEW lens \in Seq(Nat), NEW n, n = Len(lens), NEW k \in 1..n, NEW equalSize \in BOOLEAN,
         equalSize => n % k = 0
  PROVE  /\ Partition(BalancedPartitions(lens, k, equalSize), n, k)
         /\ \A i \in 1..k : Len(BalancedPartitions(lens, k, equalSize)[i]) > 0
         /\ equalSize => \A i \in 1..k : Len(BalancedPartitions(lens, k, equalSize)[i]) * k = n
<1> DEFINE parts == KarmarkarKarp(lens, k, equalSize)
           d == BalancedPartitions(lens, k, equalSize)
           stay == [i \in 1..k |-> {p \in Pairs(Len(parts[i])) : parts[i][p[1]] <= parts[i][p[2]]}]
<1>0. k \in Nat /\ n \in Nat
  OBVIOUS
<1>1. d = [i \in 1..k |-> Sorted(parts[i], {p \in Pairs(Len(parts[i])) : parts[i][p[1]] <= parts[i][p[2]]})]
  BY DEF BalancedPartitions
<1> HIDE DEF d
<1>2. Partition(parts, n, k)
  BY PartsAre
<1>3. \A i \in 1..k : Len(parts[i]) > 0
  BY PartsAre
<1>4. equalSize => \A i \in 1..k : Len(parts[i]) * k = n
  BY PartsAre
<1> HIDE DEF parts
<1>5. d = [i \in 1..k |-> Sorted(parts[i], stay[i])]
  BY <1>1
<1> HIDE DEF stay
<1>6. Partition(d, n, k)
  BY <1>0, <1>2, <1>5, PartsSorted
<1>7. SameParts(d, parts, k)
  BY <1>0, <1>2, <1>5, PartsSorted
<1>8. \A i \in 1..k : Len(d[i]) = Len(parts[i])
  BY <1>7 DEF SameParts
<1> QED
  BY <1>3, <1>4, <1>6, <1>8 DEF d

-----------------------------------------------------------------------------
\* Sequences one after the other

\* O[i] is where the i-th of the sequences ends in u.
Laid(u, seqs, k, O) ==
  /\ O \in [0..k -> Nat] /\ O[0] = 0 /\ Len(u) = O[k]
  /\ \A i \in 1..k : O[i] = O[i - 1] + Len(seqs[i])
  /\ \A i \in 1..k : \A j \in 1..Len(seqs[i]) : O[i - 1] + j \in 1..Len(u) /\ u[O[i - 1] + j] = seqs[i][j]
  /\ \A x \in 1..Len(u) : \E i \in 1..k : \E j \in 1..Len(seqs[i]) : x = O[i - 1] + j

\* The first m of the sequences, one after the other.
LaidUpTo(u, seqs, m, O) ==
  /\ Len(u) = O[m]
  /\ \A i \in 1..m : \A j \in 1..Len(seqs[i]) : O[i - 1] + j \in 1..Len(u) /\ u[O[i - 1] + j] = seqs[i][j]
  /\ \A x \in 1..Len(u) : \E i \in 1..m : \E j \in 1..Len(seqs[i]) : x = O[i - 1] + j

\* f has the first of them put one after the other.
InTurn(f, seqs, k, S) ==
  /\ f \in [0..k -> Seq(S)] /\ f[0] = <<>> /\ f[k] = FlattenSeq(seqs)
  /\ \A i \in 1..k : f[i] = f[i - 1] \o seqs[i]

\* FlattenSeq puts the sequences one after the other.
LEMMA FlattenInTurn ==
  ASSUME NEW S, NEW seqs \in Seq(Seq(S)), NEW k, k = Len(seqs)
  PROVE  \E f : InTurn(f, seqs, k, S)
<1>0. k \in Nat /\ \A i \in 1..k : seqs[i] \in Seq(S)
  OBVIOUS
<1> DEFINE T == Seq(S)
           g == [y \in T \X (1..k) |-> y[1] \o seqs[y[2]]]
<1>1. g \in StepsOf(T, k)
  BY <1>0 DEF StepsOf
<1>2. <<>> \in T
  OBVIOUS
<1>3. PICK f : Follows(f, T, <<>>, k, g)
  <2> HIDE DEF g, T
  <2> QED
    BY <1>0, <1>1, <1>2, Recursion
<1>4. f \in [0..k -> T] /\ f[0] = <<>> /\ \A i \in 1..k : f[i] = g[<<f[i - 1], i>>]
  BY <1>3, Zenon DEF Follows
<1>5. \A i \in 1..k : f[i] = f[i - 1] \o seqs[i]
  <2> TAKE i \in 1..k
  <2>1. i - 1 \in 0..k
    BY <1>0
  <2>2. f[i - 1] \in T
    BY <1>4, <2>1
  <2> QED
    BY <1>4, <2>2
<1> HIDE DEF g
<1>6. CASE k = 0
  <2>1. seqs = <<>>
    BY <1>6, EmptySeq
  <2>2. FlattenSeq(seqs) = seqs
    BY <1>6, Zenon DEF FlattenSeq
  <2> QED
    BY <1>4, <1>5, <1>6, <2>1, <2>2 DEF InTurn
<1>7. CASE k # 0
  <2> DEFINE F == [i \in 1..k |-> f[i]]
             c == CHOOSE h : h = [i \in 1..k |-> IF i = 1 THEN seqs[i] ELSE h[i - 1] \o seqs[i]]
  <2>1. \A i \in 1..k : F[i] = IF i = 1 THEN seqs[i] ELSE F[i - 1] \o seqs[i]
    <3> TAKE i \in 1..k
    <3>1. CASE i = 1
      <4>1. f[1] = f[0] \o seqs[1] /\ seqs[1] \in Seq(S)
        <5>1. 1 \in 1..k /\ 1 - 1 = 0
          BY <1>0, <1>7
        <5>2. f[1] = f[1 - 1] \o seqs[1]
          BY <1>5, <5>1
        <5> QED
          BY <1>0, <5>1, <5>2
      <4>2. <<>> \o seqs[1] = seqs[1]
        BY <4>1
      <4> QED
        BY <1>4, <3>1, <4>1, <4>2
    <3>2. CASE i # 1
      <4>1. i - 1 \in 1..k
        BY <1>0, <3>2
      <4> QED
        BY <1>5, <3>2, <4>1
    <3> QED
      BY <3>1, <3>2
  <2>2. F = [i \in 1..k |-> F[i]]
    OBVIOUS
  <2> HIDE DEF F
  <2>3. F = [i \in 1..k |-> IF i = 1 THEN seqs[i] ELSE F[i - 1] \o seqs[i]]
    BY <2>1, <2>2, Zenon
  <2>4. c = [i \in 1..k |-> IF i = 1 THEN seqs[i] ELSE c[i - 1] \o seqs[i]]
    BY <2>3, Zenon
  <2>5. FlattenSeq(seqs) = c[k]
    BY <1>7 DEF FlattenSeq
  <2> HIDE DEF c
  <2>6. \A i \in 1..k : c[i] = IF i = 1 THEN seqs[i] ELSE c[i - 1] \o seqs[i]
    BY <2>4
  <2>7. k \in 1..k /\ k - 1 \in Nat
    BY <1>0, <1>7
  <2> DEFINE B == {i \in 0..(k - 1) : c[i + 1] = F[i + 1]}
  <2>8. 0 \in B
    <3>1. 1 \in 1..k /\ 0 \in 0..(k - 1)
      BY <2>7
    <3>2. c[1] = seqs[1] /\ F[1] = seqs[1]
      BY <2>1, <2>6, <3>1
    <3> QED
      BY <3>1, <3>2
  <2>9. ASSUME NEW i \in 0..((k - 1) - 1), i \in B PROVE i + 1 \in B
    <3>1. (i + 1) + 1 \in 1..k /\ (i + 1) + 1 # 1 /\ ((i + 1) + 1) - 1 = i + 1 /\ i + 1 \in 0..(k - 1) /\ c[i + 1] = F[i + 1]
      BY <2>7, <2>9
    <3>2. c[(i + 1) + 1] = c[i + 1] \o seqs[(i + 1) + 1]
      BY <2>6, <3>1
    <3>3. F[(i + 1) + 1] = F[i + 1] \o seqs[(i + 1) + 1]
      BY <2>1, <3>1
    <3> QED
      BY <3>1, <3>2, <3>3
  <2> HIDE DEF B
  <2>10. \A i \in 0..(k - 1) : i \in B
    BY <2>7, <2>8, <2>9, CountUp
  <2>11. c[k] = F[k]
    <3>1. k - 1 \in 0..(k - 1) /\ (k - 1) + 1 = k
      BY <2>7
    <3>2. c[(k - 1) + 1] = F[(k - 1) + 1]
      BY <2>10, <3>1 DEF B
    <3> QED
      BY <3>1, <3>2
  <2>12. F[k] = f[k]
    BY <2>7 DEF F
  <2> QED
    BY <1>4, <1>5, <2>5, <2>11, <2>12 DEF InTurn
<1> QED
  BY <1>6, <1>7

\* Where the sequences are.
LEMMA FlattenLaid ==
  ASSUME NEW S, NEW seqs \in Seq(Seq(S)), NEW k, k = Len(seqs)
  PROVE  FlattenSeq(seqs) \in Seq(S) /\ \E O : Laid(FlattenSeq(seqs), seqs, k, O)
<1>0. k \in Nat /\ \A i \in 1..k : seqs[i] \in Seq(S) /\ Len(seqs[i]) \in Nat
  OBVIOUS
<1>1. PICK f : /\ f \in [0..k -> Seq(S)] /\ f[0] = <<>> /\ f[k] = FlattenSeq(seqs)
               /\ \A i \in 1..k : f[i] = f[i - 1] \o seqs[i]
  <2>1. PICK f : InTurn(f, seqs, k, S)
    BY FlattenInTurn
  <2> QED
    BY <2>1, Zenon DEF InTurn
<1> DEFINE O == [i \in 0..k |-> Len(f[i])]
<1>2. \A i \in 0..k : f[i] \in Seq(S) /\ Len(f[i]) \in Nat /\ O[i] = Len(f[i])
  BY <1>1
<1>3. O \in [0..k -> Nat] /\ O[0] = 0
  BY <1>0, <1>1, <1>2
<1> HIDE DEF O
<1>4. ASSUME NEW i \in 1..k
      PROVE  /\ i - 1 \in 0..k /\ i \in 0..k /\ O[i] = O[i - 1] + Len(seqs[i]) /\ O[i - 1] \in Nat /\ O[i] \in Nat
             /\ \A x \in 1..O[i - 1] : f[i][x] = f[i - 1][x]
             /\ \A j \in 1..Len(seqs[i]) : f[i][O[i - 1] + j] = seqs[i][j]
  <2> DEFINE s == f[i - 1]
             t == seqs[i]
             u == f[i]
  <2>1. i - 1 \in 0..k /\ i \in 0..k
    BY <1>0
  <2>2. s \in Seq(S) /\ t \in Seq(S) /\ u = s \o t /\ O[i - 1] = Len(s) /\ O[i] = Len(u)
    BY <1>0, <1>1, <1>2, <2>1
  <2> HIDE DEF s, t, u
  <2>3. /\ Len(u) = Len(s) + Len(t) /\ Len(s) \in Nat /\ Len(u) \in Nat
        /\ \A x \in 1..Len(s) : u[x] = s[x]
        /\ \A j \in 1..Len(t) : u[Len(s) + j] = t[j]
    BY <2>2
  <2> QED
    BY <2>1, <2>2, <2>3 DEF s, t, u
<1> DEFINE B == {m \in 0..k : LaidUpTo(f[m], seqs, m, O)}
<1>5. 0 \in B
  <2>1. Len(f[0]) = 0 /\ O[0] = 0 /\ 0 \in 0..k
    BY <1>0, <1>1, <1>3
  <2>2. LaidUpTo(f[0], seqs, 0, O)
    BY <2>1 DEF LaidUpTo
  <2> QED
    BY <2>1, <2>2
<1>6. ASSUME NEW m \in 0..(k - 1), m \in B PROVE m + 1 \in B
  <2> DEFINE n == m + 1
             u == f[m]
             v == f[n]
  <2>1. n \in 1..k /\ n \in 0..k /\ m \in 0..k /\ n - 1 = m /\ LaidUpTo(u, seqs, m, O) /\ m \in Nat
    BY <1>0, <1>6
  <2>2. /\ O[n] = O[m] + Len(seqs[n]) /\ O[m] \in Nat /\ O[n] \in Nat /\ Len(seqs[n]) \in Nat
        /\ \A x \in 1..O[m] : v[x] = u[x]
        /\ \A j \in 1..Len(seqs[n]) : v[O[m] + j] = seqs[n][j]
        /\ Len(v) = O[n] /\ Len(u) = O[m]
    <3>1. n - 1 = m
      BY <2>1
    <3> QED
      BY <1>0, <1>2, <1>4, <2>1
  <2>3. \A i \in 1..n : i \in 1..m \/ i = n
    BY <2>1
  <2> HIDE DEF n, u, v
  <2>4. ASSUME NEW i \in 1..n, NEW j \in 1..Len(seqs[i]) PROVE O[i - 1] + j \in 1..Len(v) /\ v[O[i - 1] + j] = seqs[i][j]
    <3>1. CASE i = n
      <4>1. O[m] + j \in 1..Len(v) /\ v[O[m] + j] = seqs[n][j]
        <5>1. j \in 1..Len(seqs[n])
          BY <3>1
        <5>2. v[O[m] + j] = seqs[n][j]
          BY <2>2, <5>1
        <5>3. O[m] + j \in 1..Len(v)
          BY <2>2, <5>1
        <5> QED
          BY <5>2, <5>3
      <4> QED
        BY <2>1, <3>1, <4>1
    <3>2. CASE i \in 1..m
      <4> DEFINE x == O[i - 1] + j
      <4>1. x \in 1..Len(u) /\ u[x] = seqs[i][j]
        BY <2>1, <2>4, <3>2 DEF LaidUpTo
      <4> HIDE DEF x
      <4>2. x \in 1..O[m] /\ x \in 1..Len(v)
        BY <2>2, <4>1
      <4>3. v[x] = seqs[i][j]
        BY <2>2, <4>1, <4>2
      <4> QED
        BY <4>2, <4>3 DEF x
    <3> QED
      BY <2>3, <3>1, <3>2
  <2>5. ASSUME NEW x \in 1..Len(v) PROVE \E i \in 1..n : \E j \in 1..Len(seqs[i]) : x = O[i - 1] + j
    <3>1. CASE x <= O[m]
      <4>1. x \in 1..Len(u)
        BY <2>2, <3>1
      <4>2. PICK i \in 1..m : \E j \in 1..Len(seqs[i]) : x = O[i - 1] + j
        BY <2>1, <4>1 DEF LaidUpTo
      <4>3. i \in 1..n
        BY <2>1 DEF n
      <4> QED
        BY <4>2, <4>3
    <3>2. CASE x > O[m]
      <4>1. x - O[m] \in 1..Len(seqs[n]) /\ x = O[n - 1] + (x - O[m]) /\ n \in 1..n
        BY <2>1, <2>2, <3>2
      <4> QED
        BY <4>1
    <3> QED
      BY <2>2, <3>1, <3>2
  <2>6. LaidUpTo(v, seqs, n, O)
    BY <2>2, <2>4, <2>5 DEF LaidUpTo
  <2> QED
    BY <2>1, <2>6 DEF n, v
<1> HIDE DEF B
<1>7. \A m \in 0..k : m \in B
  BY <1>0, <1>5, <1>6, CountUp
<1>8. k \in 0..k
  BY <1>0
<1>9. LaidUpTo(f[k], seqs, k, O)
  BY <1>7, <1>8 DEF B
<1>10. Laid(f[k], seqs, k, O)
  BY <1>3, <1>4, <1>9 DEF Laid, LaidUpTo
<1>11. f[k] \in Seq(S)
  BY <1>1, <1>8
<1> QED
  BY <1>1, <1>10, <1>11

\* All the parts one after the other are all the indices in some order.
LEMMA PartsPermute ==
  ASSUME NEW n \in Nat, NEW k \in Nat, NEW parts, Partition(parts, n, k)
  PROVE  Len(FlattenSeq(parts)) = n /\ Permutes(FlattenSeq(parts), n)
<1> DEFINE u == FlattenSeq(parts)
           m == Len(u)
<1>1. parts \in Seq(Seq(1..n)) /\ Len(parts) = k
  BY DEF Partition
<1>2. u \in Seq(1..n) /\ \E O : Laid(u, parts, k, O)
  BY <1>1, FlattenLaid
<1>3. PICK O : Laid(u, parts, k, O)
  BY <1>2
<1> HIDE DEF u
<1>4. m \in Nat /\ \A x \in 1..m : u[x] \in 1..n
  BY <1>2
<1>5. ASSUME NEW x \in 1..m, NEW y \in 1..m, u[x] = u[y] PROVE x = y
  <2>1. PICK i \in 1..k : \E j \in 1..Len(parts[i]) : x = O[i - 1] + j
    BY <1>3 DEF Laid
  <2>5. PICK j \in 1..Len(parts[i]) : x = O[i - 1] + j
    BY <2>1
  <2>2. PICK h \in 1..k : \E l \in 1..Len(parts[h]) : y = O[h - 1] + l
    BY <1>3 DEF Laid
  <2>6. PICK l \in 1..Len(parts[h]) : y = O[h - 1] + l
    BY <2>2
  <2>3. u[x] = parts[i][j] /\ u[y] = parts[h][l]
    BY <1>3, <2>5, <2>6 DEF Laid
  <2>4. i = h /\ j = l
    <3>1. parts[i][j] = parts[h][l]
      BY <1>5, <2>3
    <3>2. \A e, f \in 1..k : \A b \in 1..Len(parts[e]), c \in 1..Len(parts[f]) :
            parts[e][b] = parts[f][c] => e = f /\ b = c
      BY Zenon DEF Partition
    <3> QED
      BY <3>1, <3>2, Zenon
  <2> QED
    BY <2>4, <2>5, <2>6
<1>6. ASSUME NEW y \in 1..n PROVE \E x \in 1..m : u[x] = y
  <2>1. PICK i \in 1..k : \E j \in 1..Len(parts[i]) : parts[i][j] = y
    BY DEF Partition
  <2>2. PICK j \in 1..Len(parts[i]) : parts[i][j] = y
    BY <2>1
  <2>3. O[i - 1] + j \in 1..m /\ u[O[i - 1] + j] = parts[i][j]
    BY <1>3 DEF Laid
  <2> QED
    BY <2>2, <2>3
<1>7. u \in [1..m -> 1..n]
  BY <1>2, <1>4
<1>8. u \in Bijection(1..m, 1..n)
  BY <1>5, <1>6, <1>7 DEF Bijection, Injection, IsInjective, Surjection
<1>9. IsFiniteSet(1..m) /\ Cardinality(1..m) = m /\ Cardinality(1..n) = n
  <2>1. 1 \in Int /\ m \in Int /\ n \in Int /\ m >= 0 /\ n >= 0
    BY <1>4
  <2> HIDE DEF m
  <2>2. IsFiniteSet(1..m) /\ Cardinality(1..m) = IF 1 > m THEN 0 ELSE m - 1 + 1
    BY <2>1, FS_Interval
  <2>3. Cardinality(1..n) = IF 1 > n THEN 0 ELSE n - 1 + 1
    BY <2>1, FS_Interval
  <2> QED
    BY <2>1, <2>2, <2>3
<1>10. m = n
  <2>1. ExistsBijection(1..m, 1..n)
    BY <1>8 DEF ExistsBijection
  <2>2. Cardinality(1..n) = Cardinality(1..m)
    BY <1>9, <2>1, FS_Bijection
  <2> QED
    BY <1>9, <2>2
<1>11. Permutes(u, n)
  BY <1>5, <1>6, <1>7, <1>10 DEF Permutes
<1> QED
  BY <1>10, <1>11 DEF u

\* Each row gets a place of its own when the batch is put in the order of the partitions
\* (reorder of _balance_batch, and the concatenated micro-batches that get_reverse_idx
\* takes apart again): whatever the lengths, none is lost and none comes twice.
THEOREM BalancingPermutes ==
  ASSUME NEW lens \in Seq(Nat), NEW k \in 1..Len(lens), NEW equalSize \in BOOLEAN,
         equalSize => Len(lens) % k = 0
  PROVE  /\ Len(FlattenSeq(BalancedPartitions(lens, k, equalSize))) = Len(lens)
         /\ Permutes(FlattenSeq(BalancedPartitions(lens, k, equalSize)), Len(lens))
<1> DEFINE n == Len(lens)
           d == BalancedPartitions(lens, k, equalSize)
<1>1. n \in Nat /\ k \in Nat /\ k \in 1..n /\ n = Len(lens)
  OBVIOUS
<1> HIDE DEF n
<1>2. Partition(d, n, k)
  BY <1>1, BalancedAre
<1> HIDE DEF d
<1>3. Len(FlattenSeq(d)) = n /\ Permutes(FlattenSeq(d), n)
  BY <1>1, <1>2, PartsPermute
<1> QED
  BY <1>3 DEF d, n

-----------------------------------------------------------------------------
\* How even the partitions are

\* No two of the k parts differ in their tokens by more than g.
EvenParts(parts, lens, k, g) ==
  \A i, j \in 1..k : TokensOf(lens, parts[i]) - TokensOf(lens, parts[j]) <= g

\* The parts of an even state are even.
LEMMA PartsEven ==
  ASSUME NEW lens, NEW k \in Nat, NEW equalSize, NEW g, NEW sets, HeapOf({sets}, k, lens, equalSize, g)
  PROVE  EvenParts(PartsOf(sets, k), lens, k, g)
<1>1. StateIn(sets, k, lens) /\ Even(sets, equalSize, g)
  BY DEF HeapOf, HeapIn
<1>2. Len(sets) = k /\ (\A i \in 1..k : SetIn(sets[i], lens)) /\ Spreads(sets, g)
  BY <1>1 DEF StateIn, SetsIn, Even
<1>3. ASSUME NEW i \in 1..k PROVE TokensOf(lens, PartsOf(sets, k)[i]) = sets[i].sum
  <2>1. PartsOf(sets, k)[i] = ItemIndices(sets[i])
    BY DEF PartsOf, ItemIndices
  <2>2. sets[i].sum = TokensOf(lens, ItemIndices(sets[i]))
    BY <1>2 DEF SetIn
  <2> QED
    BY <2>1, <2>2
<1>4. \A i, j \in 1..k : sets[i].sum - sets[j].sum <= g
  BY <1>2 DEF Spreads
<1> DEFINE parts == PartsOf(sets, k)
<1>5. \A i \in 1..k : TokensOf(lens, parts[i]) = sets[i].sum
  BY <1>3
<1> HIDE DEF parts
<1>6. EvenParts(parts, lens, k, g)
  BY <1>4, <1>5 DEF EvenParts
<1> QED
  BY <1>6 DEF parts

\* The same parts have the same tokens.
LEMMA SameTokens ==
  ASSUME NEW lens \in Seq(Nat), NEW n, n = Len(lens), NEW k \in Nat, NEW parts, Partition(parts, n, k),
         NEW d, Partition(d, n, k), SameParts(d, parts, k), NEW i \in 1..k
  PROVE  TokensOf(lens, d[i]) = TokensOf(lens, parts[i])
<1>0. n \in Nat /\ \A x \in 1..n : lens[x] \in Nat
  OBVIOUS
<1> DEFINE u == d[i]
           v == parts[i]
           m == Len(v)
<1>1. PICK p : Permutes(p, m) /\ \A j \in 1..m : u[j] = v[p[j]]
  BY DEF SameParts
<1>2. v \in Seq(1..n) /\ u \in Seq(1..n) /\ Len(u) = m
  BY DEF Partition, SameParts
<1>3. /\ \A a, b \in 1..Len(u) : u[a] = u[b] => a = b
      /\ \A a, b \in 1..Len(v) : v[a] = v[b] => a = b
  <2>1. /\ \A e, f \in 1..k : \A b \in 1..Len(parts[e]), c \in 1..Len(parts[f]) :
             parts[e][b] = parts[f][c] => e = f /\ b = c
        /\ \A e, f \in 1..k : \A b \in 1..Len(d[e]), c \in 1..Len(d[f]) :
             d[e][b] = d[f][c] => e = f /\ b = c
    BY Zenon DEF Partition
  <2> QED
    BY <2>1, Zenon
<1> HIDE DEF u, v
<1>4. m \in Nat /\ Len(v) = m /\ (\A a \in 1..m : u[a] \in 1..n) /\ \A a \in 1..m : v[a] \in 1..n
  <2>1. m \in Nat /\ \A a \in 1..m : v[a] \in 1..n
    BY <1>2
  <2>2. \A a \in 1..Len(u) : u[a] \in 1..n
    BY <1>2
  <2> QED
    BY <1>2, <2>1, <2>2
<1> HIDE DEF m
<1>5. Distinct(u, m, n) /\ Distinct(v, m, n)
  BY <1>2, <1>3, <1>4 DEF Distinct
<1>6. SameElements(u, v, m)
  <2>1. ASSUME NEW a \in 1..m PROVE \E b \in 1..m : u[a] = v[b]
    BY <1>1 DEF Permutes
  <2>2. ASSUME NEW b \in 1..m PROVE \E a \in 1..m : u[a] = v[b]
    BY <1>1 DEF Permutes
  <2> QED
    BY <2>1, <2>2 DEF SameElements
<1>7. TokensOf(lens, u) = TokensOf(lens, v)
  BY <1>0, <1>4, <1>5, <1>6, TokensReordered
<1> QED
  BY <1>7 DEF u, v

\* The partitions differ no more in their tokens than the items that the states of the
\* heap start with: what the merging of the largest with the smallest is for.
THEOREM PartitionsEven ==
  ASSUME NEW lens \in Seq(Nat), NEW n, n = Len(lens), NEW k \in 1..n, NEW equalSize \in BOOLEAN,
         equalSize => n % k = 0, NEW p, ItemsBy(SortedItems(lens), lens, p, n),
         NEW g \in Nat, Gaps(lens, p, k, equalSize, g)
  PROVE  EvenParts(BalancedPartitions(lens, k, equalSize), lens, k, g)
<1> DEFINE parts == KarmarkarKarp(lens, k, equalSize)
           d == BalancedPartitions(lens, k, equalSize)
           stay == [i \in 1..k |-> {q \in Pairs(Len(parts[i])) : parts[i][q[1]] <= parts[i][q[2]]}]
<1>0. k \in Nat /\ n \in Nat
  OBVIOUS
<1>1. HeapOf(InitialStates(lens, k, equalSize), k, lens, equalSize, g)
  BY InitialHeap
<1>2. PICK sets : parts = PartsOf(sets, k) /\ HeapOf({sets}, k, lens, equalSize, g)
  BY <1>0, <1>1, LoopEnds
<1>3. EvenParts(parts, lens, k, g)
  BY <1>0, <1>2, PartsEven
<1>4. d = [i \in 1..k |-> Sorted(parts[i], {q \in Pairs(Len(parts[i])) : parts[i][q[1]] <= parts[i][q[2]]})]
  BY DEF BalancedPartitions
<1> HIDE DEF d
<1>5. Partition(parts, n, k)
  BY PartsAre
<1> HIDE DEF parts
<1>6. d = [i \in 1..k |-> Sorted(parts[i], stay[i])]
  BY <1>4
<1> HIDE DEF stay
<1>7. Partition(d, n, k)
  BY <1>0, <1>5, <1>6, PartsSorted
<1>8. SameParts(d, parts, k)
  BY <1>0, <1>5, <1>6, PartsSorted
<1>9. \A i \in 1..k : TokensOf(lens, d[i]) = TokensOf(lens, parts[i])
  <2> TAKE i \in 1..k
  <2> QED
    BY <1>0, <1>5, <1>7, <1>8, SameTokens
<1>10. EvenParts(d, lens, k, g)
  BY <1>3, <1>9 DEF EvenParts
<1> QED
  BY <1>10 DEF d

\* Without equal sizes the partitions differ by no more than a length.
LEMMA BoundedParts ==
  ASSUME NEW lens \in Seq(Nat), NEW n, n = Len(lens), NEW k \in 1..n,
         NEW g \in Nat, \A i \in 1..n : lens[i] <= g
  PROVE  EvenParts(BalancedPartitions(lens, k, FALSE), lens, k, g)
<1>1. PICK p : ItemsBy(SortedItems(lens), lens, p, n)
  BY SortedItemsAre
<1>2. Gaps(lens, p, k, FALSE, g)
  BY <1>1, BoundedGaps
<1> QED
  BY <1>1, <1>2, PartitionsEven

-----------------------------------------------------------------------------
\* Lengths in order, and parts laid out

\* A number of rows that divides.
LEMMA DividesIs ==
  ASSUME NEW n \in Nat, NEW k \in Nat \ {0}, n % k = 0, NEW h, h = n \div k
  PROVE  h \in Nat /\ n = k * h
<1>1. h \in Nat /\ n = k * h + (n % k)
  OBVIOUS
<1>2. k * h \in Nat
  BY <1>1
<1> QED
  BY <1>1, <1>2

\* Equal multiples of a positive number.
LEMMA SameFactor ==
  ASSUME NEW k \in Nat \ {0}, NEW l \in Nat, NEW c \in Nat, l * k = k * c
  PROVE  l = c
<1>1. k * (l - c) = 0
  OBVIOUS
<1>2. l - c >= 1 => k * (l - c) > 0
  OBVIOUS
<1>3. l - c <= -1 => k * (l - c) < 0
  OBVIOUS
<1> QED
  BY <1>1, <1>2, <1>3

\* p goes through the n lengths by increasing length.
Rising(lens, p, n) == Permutes(p, n) /\ \A i, j \in 1..n : i < j => lens[p[i]] <= lens[p[j]]

\* At the same place no order has a larger length than another: the lengths before it
\* would not fit in.
LEMMA NotLarger ==
  ASSUME NEW lens \in Seq(Nat), NEW n, n = Len(lens), NEW p, NEW r,
         Rising(lens, p, n), Rising(lens, r, n), NEW i \in 1..n
  PROVE  lens[r[i]] <= lens[p[i]]
<1>0. n \in Nat /\ \A j \in 1..n : lens[j] \in Nat
  OBVIOUS
<1>1. /\ p \in [1..n -> 1..n] /\ (\A a, b \in 1..n : p[a] = p[b] => a = b)
      /\ \A a, b \in 1..n : a < b => lens[p[a]] <= lens[p[b]]
  BY DEF Rising, Permutes
<1>2. /\ r \in [1..n -> 1..n] /\ (\A x \in 1..n : \E j \in 1..n : r[j] = x)
      /\ \A a, b \in 1..n : a < b => lens[r[a]] <= lens[r[b]]
  BY DEF Rising, Permutes
<1>3. p[i] \in 1..n /\ r[i] \in 1..n /\ lens[p[i]] \in Nat /\ lens[r[i]] \in Nat
  BY <1>0, <1>1, <1>2
<1> SUFFICES ASSUME lens[p[i]] < lens[r[i]]
             PROVE  FALSE
  BY <1>3
<1> DEFINE f == [b \in 1..i |-> CHOOSE j \in 1..n : r[j] = p[b]]
           T == 1..(i - 1)
<1>4. ASSUME NEW b \in 1..i PROVE f[b] \in T /\ r[f[b]] = p[b]
  <2>1. b \in 1..n /\ p[b] \in 1..n /\ lens[p[b]] \in Nat
    <3>1. b \in 1..n
      OBVIOUS
    <3>2. p[b] \in 1..n
      BY <1>1, <3>1
    <3> QED
      BY <1>0, <3>1, <3>2
  <2>2. f[b] = CHOOSE j \in 1..n : r[j] = p[b]
    OBVIOUS
  <2>3. \E j \in 1..n : r[j] = p[b]
    BY <1>2, <2>1
  <2> DEFINE j == f[b]
  <2> HIDE DEF f
  <2>4. j \in 1..n /\ r[j] = p[b]
    BY <2>2, <2>3, Zenon
  <2> HIDE DEF j
  <2>5. lens[r[j]] < lens[r[i]]
    <3>1. b = i \/ lens[p[b]] <= lens[p[i]]
      BY <1>1, <2>1
    <3> QED
      BY <1>3, <2>1, <2>4, <3>1
  <2>6. j < i
    <3>1. r[j] \in 1..n /\ lens[r[j]] \in Nat
      BY <1>0, <1>2, <2>4
    <3>2. i < j => lens[r[i]] <= lens[r[j]]
      BY <1>2, <2>4
    <3> QED
      BY <1>3, <2>4, <2>5, <3>1, <3>2
  <2> QED
    BY <2>4, <2>6 DEF j
<1>5. f \in Injection(1..i, T)
  <2> HIDE DEF T
  <2>1. f \in [1..i -> T]
    BY <1>4
  <2> HIDE DEF f
  <2>2. \A a, b \in 1..i : f[a] = f[b] => a = b
    <3> TAKE a \in 1..i
    <3> TAKE b \in 1..i
    <3>1. r[f[a]] = p[a] /\ r[f[b]] = p[b] /\ a \in 1..n /\ b \in 1..n
      BY <1>4
    <3> QED
      BY <1>1, <3>1
  <2> QED
    BY <2>1, <2>2 DEF Injection, IsInjective
<1>6. IsFiniteSet(T) /\ Cardinality(T) = i - 1 /\ Cardinality(1..i) = i
  <2>1. 1 \in Int /\ i \in Int /\ i - 1 \in Int /\ i >= 1
    OBVIOUS
  <2>2. Cardinality(1..i) = IF 1 > i THEN 0 ELSE i - 1 + 1
    BY <2>1, FS_Interval
  <2>3. IsFiniteSet(T) /\ Cardinality(T) = IF 1 > i - 1 THEN 0 ELSE (i - 1) - 1 + 1
    BY <2>1, FS_Interval
  <2> QED
    BY <2>1, <2>2, <2>3
<1> HIDE DEF f, T
<1>7. Cardinality(1..i) <= Cardinality(T)
  BY <1>5, <1>6, FS_Injection
<1> QED
  BY <1>6, <1>7

\* All orders by length have the same lengths.
SameLengths(lens, r, p, n) == \A i \in 1..n : lens[r[i]] = lens[p[i]]

\* Two orders by length go through equal lengths.
LEMMA RisingAlike ==
  ASSUME NEW lens \in Seq(Nat), NEW n, n = Len(lens), NEW p, NEW r, Rising(lens, p, n), Rising(lens, r, n)
  PROVE  SameLengths(lens, r, p, n)
<1> SUFFICES ASSUME NEW i \in 1..n
             PROVE  lens[r[i]] = lens[p[i]]
  BY DEF SameLengths
<1>1. lens[r[i]] <= lens[p[i]]
  BY NotLarger
<1>2. lens[p[i]] <= lens[r[i]]
  BY NotLarger
<1>3. p[i] \in 1..n /\ r[i] \in 1..n
  BY DEF Rising, Permutes
<1>4. lens[p[i]] \in Nat /\ lens[r[i]] \in Nat
  <2>1. \A j \in 1..n : lens[j] \in Nat
    OBVIOUS
  <2> QED
    BY <1>3, <2>1
<1> QED
  BY <1>1, <1>2, <1>4

\* The lengths are those of others, in another order.
Shuffled(other, lens, u, n) == Permutes(u, n) /\ \A i \in 1..n : other[i] = lens[u[i]]

\* What goes through the others by length goes through these by length.
LEMMA RisingThrough ==
  ASSUME NEW n \in Nat, NEW lens, NEW other, NEW u, Shuffled(other, lens, u, n), NEW q, Rising(other, q, n)
  PROVE  Rising(lens, [i \in 1..n |-> u[q[i]]], n)
<1> DEFINE r == [i \in 1..n |-> u[q[i]]]
<1>1. /\ q \in [1..n -> 1..n] /\ (\A a, b \in 1..n : q[a] = q[b] => a = b)
      /\ (\A x \in 1..n : \E a \in 1..n : q[a] = x)
      /\ \A a, b \in 1..n : a < b => other[q[a]] <= other[q[b]]
  BY DEF Rising, Permutes
<1>2. /\ u \in [1..n -> 1..n] /\ (\A a, b \in 1..n : u[a] = u[b] => a = b)
      /\ (\A x \in 1..n : \E a \in 1..n : u[a] = x) /\ \A i \in 1..n : other[i] = lens[u[i]]
  BY DEF Shuffled, Permutes
<1>3. \A i \in 1..n : q[i] \in 1..n
  BY <1>1
<1>4. \A i \in 1..n : u[i] \in 1..n
  BY <1>2
<1>5. r \in [1..n -> 1..n]
  BY <1>3, <1>4
<1>6. \A i \in 1..n : r[i] = u[q[i]]
  OBVIOUS
<1> HIDE DEF r
<1>7. ASSUME NEW a \in 1..n, NEW b \in 1..n, r[a] = r[b] PROVE a = b
  <2>1. u[q[a]] = u[q[b]]
    BY <1>6, <1>7
  <2>2. q[a] = q[b]
    BY <1>2, <1>3, <2>1
  <2> QED
    BY <1>1, <2>2
<1>8. ASSUME NEW x \in 1..n PROVE \E a \in 1..n : r[a] = x
  <2>1. PICK b \in 1..n : u[b] = x
    BY <1>2
  <2>2. PICK a \in 1..n : q[a] = b
    BY <1>1
  <2> QED
    BY <1>6, <2>1, <2>2
<1>9. \A i \in 1..n : other[q[i]] = lens[r[i]]
  BY <1>2, <1>3, <1>6
<1>10. \A a, b \in 1..n : a < b => lens[r[a]] <= lens[r[b]]
  BY <1>1, <1>9
<1>11. Rising(lens, r, n)
  BY <1>5, <1>7, <1>8, <1>10 DEF Rising, Permutes
<1> QED
  BY <1>11 DEF r

\* Sorted, they are the same lengths.
LEMMA SortedAlike ==
  ASSUME NEW lens \in Seq(Nat), NEW n, n = Len(lens), NEW p, Rising(lens, p, n),
         NEW other \in Seq(Nat), Len(other) = n, NEW u, Shuffled(other, lens, u, n), NEW i \in 1..n
  PROVE  SortedItems(other)[i][2] = lens[p[i]]
<1> DEFINE s == SortedItems(other)
<1>0. n \in Nat /\ \A j \in 1..n : lens[j] \in Nat
  OBVIOUS
<1>1. PICK q : ItemsBy(s, other, q, n)
  BY SortedItemsAre
<1> HIDE DEF s
<1>2. Rising(other, q, n)
  BY <1>1 DEF ItemsBy, Rising
<1> DEFINE r == [j \in 1..n |-> u[q[j]]]
<1>3. Rising(lens, r, n)
  BY <1>0, <1>2, RisingThrough
<1>4. r[i] = u[q[i]]
  OBVIOUS
<1> HIDE DEF r
<1>5. lens[r[i]] = lens[p[i]]
  <2>1. SameLengths(lens, r, p, n)
    BY <1>3, RisingAlike
  <2> QED
    BY <2>1 DEF SameLengths
<1>6. q[i] \in 1..n /\ s[i] = <<q[i], other[q[i]]>>
  BY <1>1 DEF ItemsBy
<1>7. s[i][2] = other[q[i]]
  BY <1>6
<1>8. other[q[i]] = lens[u[q[i]]]
  BY <1>6 DEF Shuffled
<1> QED
  BY <1>4, <1>5, <1>7, <1>8 DEF s

\* Parts of the same lengths, each by its own numbers.
Alike(one, u, other, v, m) == \A i \in 1..m : one[u[i]] = other[v[i]]

\* They have as many tokens.
LEMMA TokensAlike ==
  ASSUME NEW one, NEW u, NEW other, NEW v, NEW m, Measured(one, u, m), Measured(other, v, m),
         Alike(one, u, other, v, m)
  PROVE  TokensOf(one, u) = TokensOf(other, v)
<1>1. m \in Nat /\ Len(u) = m /\ (\A i \in 1..m : one[u[i]] \in Nat)
      /\ Len(v) = m /\ (\A i \in 1..m : other[v[i]] \in Nat)
  BY DEF Measured
<1>2. PICK f : Sums(f, one, u, m) /\ f[m] = TokensOf(one, u)
  BY <1>1, TokensInTurn
<1>3. PICK g : Sums(g, other, v, m) /\ g[m] = TokensOf(other, v)
  BY <1>1, TokensInTurn
<1>4. f[0] = 0 /\ \A i \in 1..m : f[i] = f[i - 1] + one[u[i]]
  BY <1>2 DEF Sums
<1>5. g[0] = 0 /\ \A i \in 1..m : g[i] = g[i - 1] + other[v[i]]
  BY <1>3 DEF Sums
<1> DEFINE G == {i \in 0..m : f[i] = g[i]}
<1>6. 0 \in G
  BY <1>1, <1>4, <1>5
<1>7. ASSUME NEW i \in 0..(m - 1), i \in G PROVE i + 1 \in G
  <2>1. i + 1 \in 1..m /\ (i + 1) - 1 = i /\ i + 1 \in 0..m
    BY <1>1
  <2>2. f[i + 1] = f[i] + one[u[i + 1]] /\ g[i + 1] = g[i] + other[v[i + 1]] /\ f[i] = g[i]
    BY <1>4, <1>5, <1>7, <2>1
  <2>3. one[u[i + 1]] = other[v[i + 1]]
    BY <2>1 DEF Alike
  <2> QED
    BY <2>1, <2>2, <2>3
<1> HIDE DEF G
<1>8. \A i \in 0..m : i \in G
  BY <1>1, <1>6, <1>7, CountUp
<1>9. f[m] = g[m]
  BY <1>1, <1>8 DEF G
<1> QED
  BY <1>2, <1>3, <1>9

\* Sequences of one length c, laid one after the other.
Blockwise(u, seqs, k, c) == \A i \in 1..k : \A j \in 1..c : u[(i - 1) * c + j] = seqs[i][j]

\* FlattenSeq lays sequences of one length in blocks of that length.
LEMMA FlattenBlocks ==
  ASSUME NEW S, NEW seqs \in Seq(Seq(S)), NEW k, k = Len(seqs), NEW c \in Nat, AllOf(seqs, k, c)
  PROVE  Blockwise(FlattenSeq(seqs), seqs, k, c)
<1> DEFINE u == FlattenSeq(seqs)
<1>1. PICK O : Laid(u, seqs, k, O)
  BY FlattenLaid
<1>2. k \in Nat /\ \A i \in 1..k : Len(seqs[i]) = c
  BY DEF AllOf
<1> HIDE DEF u
<1>3. /\ O[0] = 0 /\ (\A i \in 1..k : O[i] = O[i - 1] + Len(seqs[i]))
      /\ \A i \in 1..k : \A j \in 1..Len(seqs[i]) : u[O[i - 1] + j] = seqs[i][j]
  BY <1>1 DEF Laid
<1> DEFINE G == {i \in 0..k : O[i] = i * c}
<1>4. 0 \in G
  BY <1>2, <1>3
<1>5. ASSUME NEW i \in 0..(k - 1), i \in G PROVE i + 1 \in G
  <2>1. i + 1 \in 1..k /\ (i + 1) - 1 = i /\ i + 1 \in 0..k /\ i \in Nat
    BY <1>2
  <2>2. O[i + 1] = O[i] + c /\ O[i] = i * c
    BY <1>2, <1>3, <1>5, <2>1
  <2>3. (i + 1) * c = i * c + c
    BY <2>1
  <2> QED
    BY <2>1, <2>2, <2>3
<1> HIDE DEF G
<1>6. \A i \in 0..k : i \in G
  BY <1>2, <1>4, <1>5, CountUp
<1>7. ASSUME NEW i \in 1..k, NEW j \in 1..c PROVE u[(i - 1) * c + j] = seqs[i][j]
  <2>1. i - 1 \in 0..k
    BY <1>2
  <2>2. O[i - 1] = (i - 1) * c
    BY <1>6, <2>1 DEF G
  <2>3. u[O[i - 1] + j] = seqs[i][j]
    BY <1>2, <1>3
  <2> QED
    BY <2>2, <2>3
<1> QED
  BY <1>7 DEF Blockwise, u

Modes == {"DP_COMPUTE_PROTO", "MEGATRON_COMPUTE_PROTO", "MEGATRON_PP_AS_DP_PROTO"}

-----------------------------------------------------------------------------
\* Sizes

\* Positive factors have a positive product.
LEMMA ProductPos ==
  ASSUME NEW a \in Nat \ {0}, NEW b \in Nat \ {0}
  PROVE  a * b \in Nat \ {0}
OBVIOUS

\* The products of the sizes of a layout, in the orders the ranks are numbered with.
LEMMA Products ==
  ASSUME NEW t \in Nat \ {0}, NEW c \in Nat \ {0}, NEW d \in Nat \ {0}, NEW p \in Nat \ {0}
  PROVE  /\ t * c \in Nat \ {0} /\ t * c * d \in Nat \ {0} /\ t * c * d * p \in Nat \ {0}
         /\ d * p \in Nat \ {0} /\ d * p * c \in Nat \ {0} /\ c * d \in Nat \ {0}
         /\ t * c * d * p = t * (d * p * c) /\ t * c * d * p = p * (t * c * d)
         /\ t * c * d * p = (t * c * p) * d
<1>1. t * c \in Nat \ {0} /\ d * p \in Nat \ {0} /\ c * d \in Nat \ {0}
  BY ProductPos
<1>2. t * c * d \in Nat \ {0} /\ d * p * c \in Nat \ {0}
  BY <1>1, ProductPos
<1>3. t * c * d * p \in Nat \ {0}
  BY <1>2, ProductPos
<1> QED
  BY <1>1, <1>2, <1>3

\* A multiple divides, without a remainder.
LEMMA MultipleDivides ==
  ASSUME NEW a \in Nat, NEW b \in Nat \ {0}
  PROVE  (a * b) % b = 0 /\ (a * b) \div b = a
<1>1. (a * b + 0) \div b = a /\ (a * b + 0) % b = 0
  BY DivModUnique
<1>2. a * b + 0 = a * b
  OBVIOUS
<1> QED
  BY <1>1, <1>2

\* The world and the chunks.
LEMMA WorldIs ==
  ASSUME NEW layout \in Layouts, NEW mode \in Modes
  PROVE  /\ WorldSize(layout) \in Nat \ {0} /\ NumChunks(mode, layout) \in Nat \ {0}
         /\ \E m \in Nat \ {0} : WorldSize(layout) = m * NumChunks(mode, layout)
         /\ IsFiniteSet(RanksOf(layout)) /\ Cardinality(RanksOf(layout)) = WorldSize(layout)
         /\ 0 \in RanksOf(layout)
<1> DEFINE t == layout.tp
           c == layout.cp
           d == layout.dp
           p == layout.pp
           W == WorldSize(layout)
<1>1. t \in Nat \ {0} /\ c \in Nat \ {0} /\ d \in Nat \ {0} /\ p \in Nat \ {0}
  BY DEF Layouts
<1>2. W = t * c * d * p /\ RanksOf(layout) = 0..(W - 1)
  BY DEF WorldSize, RanksOf
<1>3. /\ mode = "DP_COMPUTE_PROTO" => NumChunks(mode, layout) = W
      /\ mode = "MEGATRON_COMPUTE_PROTO" => NumChunks(mode, layout) = d
      /\ mode = "MEGATRON_PP_AS_DP_PROTO" => NumChunks(mode, layout) = d * p * c
  BY DEF NumChunks
<1> HIDE DEF t, c, d, p, W
<1>4. /\ t * c \in Nat \ {0} /\ t * c * d \in Nat \ {0} /\ t * c * d * p \in Nat \ {0}
      /\ d * p \in Nat \ {0} /\ d * p * c \in Nat \ {0} /\ c * d \in Nat \ {0}
      /\ t * c * d * p = t * (d * p * c) /\ t * c * d * p = p * (t * c * d)
      /\ t * c * d * p = (t * c * p) * d
  BY <1>1, Products
<1>5. t * c * p \in Nat \ {0}
  BY <1>1, <1>4, ProductPos
<1>6. W \in Nat \ {0}
  BY <1>2, <1>4
<1>7. IsFiniteSet(RanksOf(layout)) /\ Cardinality(RanksOf(layout)) = W /\ 0 \in RanksOf(layout)
  <2>1. 0 \in Int /\ W - 1 \in Int /\ W - 1 >= 0
    BY <1>6
  <2>2. IsFiniteSet(0..(W - 1)) /\ Cardinality(0..(W - 1)) = IF 0 > W - 1 THEN 0 ELSE (W - 1) - 0 + 1
    BY <2>1, FS_Interval
  <2> QED
    BY <1>2, <1>6, <2>1, <2>2
<1> DEFINE C == NumChunks(mode, layout)
<1>8. C \in Nat \ {0} /\ \E m \in Nat \ {0} : W = m * C
  <2>1. CASE mode = "DP_COMPUTE_PROTO"
    <3>1. C = W /\ W = 1 * W /\ 1 \in Nat \ {0}
      BY <1>3, <1>6, <2>1
    <3> QED
      BY <1>6, <3>1
  <2>2. CASE mode = "MEGATRON_COMPUTE_PROTO"
    <3>1. C = d /\ W = (t * c * p) * d
      BY <1>2, <1>3, <1>4, <2>2
    <3> QED
      BY <1>1, <1>5, <3>1
  <2>3. CASE mode = "MEGATRON_PP_AS_DP_PROTO"
    <3>1. C = d * p * c /\ W = t * (d * p * c)
      BY <1>2, <1>3, <1>4, <2>3
    <3> QED
      BY <1>1, <1>4, <3>1
  <2> QED
    BY <2>1, <2>2, <2>3 DEF Modes
<1> QED
  BY <1>6, <1>7, <1>8 DEF W

\* Two digits make a number below the product.
LEMMA TwoDigits ==
  ASSUME NEW a \in Nat \ {0}, NEW b \in Nat \ {0}, NEW x \in 0..(a - 1), NEW y \in 0..(b - 1)
  PROVE  x * b + y \in 0..(a * b - 1)
<1>1. x + 1 <= a /\ x \in Nat /\ y \in Nat /\ y + 1 <= b
  OBVIOUS
<1>2. (x + 1) * b <= a * b
  BY <1>1
<1>3. (x + 1) * b = x * b + b /\ x * b \in Nat /\ a * b \in Nat
  BY <1>1
<1> DEFINE v == x * b
           w == a * b
<1>4. v \in Nat /\ w \in Nat /\ v + b <= w
  BY <1>2, <1>3
<1> HIDE DEF v, w
<1>5. v + y \in 0..(w - 1)
  BY <1>1, <1>4
<1> QED
  BY <1>5 DEF v, w

\* A rank is passed one of the chunks.
LEMMA ChunkIn ==
  ASSUME NEW layout \in Layouts, NEW mode \in Modes, NEW r \in RanksOf(layout)
  PROVE  ChunkOf(mode, layout, r) \in 0..(NumChunks(mode, layout) - 1)
<1> DEFINE t == layout.tp
           c == layout.cp
           d == layout.dp
           p == layout.pp
<1>1. t \in Nat \ {0} /\ c \in Nat \ {0} /\ d \in Nat \ {0} /\ p \in Nat \ {0}
  BY DEF Layouts
<1> DEFINE C == CpRank(layout, r)
           D == DpRank(layout, r)
           P == PpRank(layout, r)
           tc == t * c
           tcd == t * c * d
<1>2. C = (r \div t) % c /\ D = (r \div (t * c)) % d /\ P = r \div (t * c * d)
  BY DEF CpRank, DpRank, PpRank
<1>3. r \in 0..(t * c * d * p - 1)
  BY DEF RanksOf, WorldSize
<1> HIDE DEF t, c, d, p, C, D, P
<1>4. tc \in Nat \ {0} /\ tcd \in Nat \ {0} /\ t * c * d * p = p * (t * c * d) /\ t * c * d * p \in Nat
  BY <1>1, Products
<1>5. r \in Nat /\ r < p * tcd
  BY <1>3, <1>4
<1> HIDE DEF tc, tcd
<1>6. C \in 0..(c - 1)
  <2>1. r \div t \in Nat
    BY <1>1, <1>5
  <2> QED
    BY <1>1, <1>2, <2>1
<1>7. D \in 0..(d - 1)
  <2>1. D = (r \div tc) % d /\ r \div tc \in Nat
    BY <1>2, <1>4, <1>5 DEF tc
  <2> QED
    BY <1>1, <2>1
<1>8. P \in 0..(p - 1)
  <2>1. r \div tcd \in Nat /\ r \div tcd < p
    BY <1>1, <1>4, <1>5, DivBelow
  <2> QED
    BY <1>1, <1>2, <2>1 DEF tcd
<1>9. CASE mode = "DP_COMPUTE_PROTO"
  BY <1>9 DEF ChunkOf, NumChunks, RanksOf
<1>10. CASE mode = "MEGATRON_COMPUTE_PROTO"
  BY <1>7, <1>10 DEF ChunkOf, NumChunks, D, d
<1>11. CASE mode = "MEGATRON_PP_AS_DP_PROTO"
  <2>1. ChunkOf(mode, layout, r) = (C * d + D) * p + P /\ NumChunks(mode, layout) = d * p * c
    BY <1>11 DEF ChunkOf, NumChunks, C, D, P, c, d, p
  <2> DEFINE x == C * d + D
             cd == c * d
  <2>2. x \in 0..(cd - 1)
    BY <1>1, <1>6, <1>7, TwoDigits
  <2>3. cd \in Nat \ {0}
    BY <1>1, Products
  <2> HIDE DEF x, cd
  <2>4. x * p + P \in 0..(cd * p - 1)
    BY <1>1, <1>8, <2>2, <2>3, TwoDigits
  <2>5. cd * p = d * p * c
    BY <1>1 DEF cd
  <2> QED
    BY <2>1, <2>4, <2>5 DEF x
<1> QED
  BY <1>9, <1>10, <1>11 DEF Modes

-----------------------------------------------------------------------------
\* Collecting

\* F goes through the ranks that are collected from, m of them, upwards.
Enumerates(F, mode, layout, m) ==
  /\ F \in [1..m -> Collecting(mode, layout)]
  /\ \A i, j \in 1..m : i < j => F[i] < F[j]
  /\ \A r \in Collecting(mode, layout) : \E i \in 1..m : F[i] = r

\* Then there are m, and F says which is the i-th.
LEMMA CollectedIs ==
  ASSUME NEW layout, NEW mode, NEW m \in Nat, NEW F, Enumerates(F, mode, layout, m)
  PROVE  /\ Cardinality(Collecting(mode, layout)) = m
         /\ \A i \in 1..m : CollectedRank(mode, layout, i) = F[i]
<1> DEFINE C == Collecting(mode, layout)
<1>1. C \subseteq Nat /\ C \subseteq Int
  BY DEF Collecting, RanksOf
<1>2. /\ F \in [1..m -> C] /\ \A i, j \in 1..m : i < j => F[i] < F[j]
      /\ \A r \in C : \E i \in 1..m : F[i] = r
  BY DEF Enumerates
<1>3. \A i \in 1..m : CollectedRank(mode, layout, i) = CHOOSE r \in C : Cardinality({q \in C : q < r}) = i - 1
  BY DEF CollectedRank
<1> HIDE DEF C
<1>4. \A i, j \in 1..m : F[i] = F[j] => i = j
  <2> SUFFICES ASSUME NEW i \in 1..m, NEW j \in 1..m, F[i] = F[j], i # j
               PROVE  FALSE
    OBVIOUS
  <2>1. F[i] \in Int /\ F[j] \in Int
    BY <1>1, <1>2
  <2>2. i < j \/ j < i
    OBVIOUS
  <2> QED
    BY <1>2, <2>1, <2>2
<1>5. \A i, j \in 1..m : F[i] < F[j] <=> i < j
  <2> SUFFICES ASSUME NEW i \in 1..m, NEW j \in 1..m
               PROVE  F[i] < F[j] <=> i < j
    OBVIOUS
  <2>1. F[i] \in Int /\ F[j] \in Int
    BY <1>1, <1>2
  <2>2. i < j \/ j < i \/ i = j
    OBVIOUS
  <2> QED
    BY <1>2, <2>1, <2>2
<1>6. Cardinality(C) = m
  <2>1. F \in Bijection(1..m, C)
    BY <1>2, <1>4 DEF Bijection, Injection, IsInjective, Surjection
  <2>2. ExistsBijection(1..m, C)
    BY <2>1 DEF ExistsBijection
  <2>3. Cardinality(1..m) = IF 1 > m THEN 0 ELSE m - 1 + 1
    BY FS_Interval
  <2>4. IsFiniteSet(1..m)
    BY FS_Interval
  <2>5. IsFiniteSet(C) /\ Cardinality(1..m) = Cardinality(C)
    BY <2>2, <2>4, FS_Bijection
  <2> QED
    BY <2>3, <2>5
<1>7. ASSUME NEW i \in 1..m
      PROVE  Cardinality({q \in C : q < F[i]}) = i - 1
  <2> DEFINE B == {q \in C : q < F[i]}
             G == [j \in 1..(i - 1) |-> F[j]]
  <2>1. 1..(i - 1) \subseteq 1..m
    OBVIOUS
  <2>2. G \in [1..(i - 1) -> B]
    <3>1. \A j \in 1..(i - 1) : F[j] \in C /\ F[j] < F[i]
      BY <1>2, <2>1
    <3> QED
      BY <3>1
  <2>3. \A j, l \in 1..(i - 1) : G[j] = G[l] => j = l
    BY <1>4, <2>1
  <2>4. \A q \in B : \E j \in 1..(i - 1) : G[j] = q
    <3> SUFFICES ASSUME NEW q \in C, q < F[i]
                 PROVE  \E j \in 1..(i - 1) : F[j] = q
      OBVIOUS
    <3>1. PICK j \in 1..m : F[j] = q
      BY <1>2
    <3>2. j < i
      BY <1>5, <3>1
    <3> QED
      BY <3>1, <3>2
  <2> HIDE DEF B, G
  <2>5. G \in Bijection(1..(i - 1), B)
    BY <2>2, <2>3, <2>4 DEF Bijection, Injection, IsInjective, Surjection
  <2>6. ExistsBijection(1..(i - 1), B)
    BY <2>5 DEF ExistsBijection
  <2> DEFINE e == i - 1
  <2>7. e \in Nat /\ ExistsBijection(1..e, B)
    BY <2>6
  <2> HIDE DEF e
  <2>8. Cardinality(1..e) = IF 1 > e THEN 0 ELSE e - 1 + 1
    BY <2>7, FS_Interval
  <2>9. IsFiniteSet(1..e)
    BY <2>7, FS_Interval
  <2>10. Cardinality(1..e) = Cardinality(B)
    BY <2>7, <2>9, FS_Bijection
  <2>11. Cardinality(B) = e
    BY <2>7, <2>8, <2>10
  <2> QED
    BY <2>11 DEF B, e
<1>8. ASSUME NEW i \in 1..m
      PROVE  CollectedRank(mode, layout, i) = F[i]
  <2> DEFINE z == CHOOSE r \in C : Cardinality({q \in C : q < r}) = i - 1
  <2>1. F[i] \in C /\ Cardinality({q \in C : q < F[i]}) = i - 1
    BY <1>2, <1>7
  <2>2. z \in C /\ Cardinality({q \in C : q < z}) = i - 1
    BY <2>1, Zenon
  <2>3. z = CollectedRank(mode, layout, i)
    BY <1>3, Zenon
  <2> HIDE DEF z
  <2>4. PICK j \in 1..m : F[j] = z
    BY <1>2, <2>2
  <2>5. Cardinality({q \in C : q < z}) = j - 1
    BY <1>7, <2>4
  <2>6. i = j
    BY <2>2, <2>5
  <2> QED
    BY <2>3, <2>4, <2>6
<1> QED
  BY <1>6, <1>8 DEF C

-----------------------------------------------------------------------------
\* Division by a product is division by one factor and then by the other.
LEMMA DivDiv ==
  ASSUME NEW r \in Nat, NEW a \in Nat \ {0}, NEW b \in Nat \ {0}
  PROVE  r \div (a * b) = (r \div a) \div b
<1> DEFINE q == r \div a
           w == r % a
           x == q \div b
           z == q % b
<1>1. r = a * q + w /\ q \in Nat /\ w \in Nat /\ w + 1 <= a
  OBVIOUS
<1> HIDE DEF q, w
<1>2. q = b * x + z /\ x \in Nat /\ z \in Nat /\ z + 1 <= b
  BY <1>1
<1> HIDE DEF x, z
<1> DEFINE ab == a * b
           y == a * z + w
<1>3. ab \in Nat /\ y \in Nat
  BY <1>1, <1>2
<1>4. y < ab
  <2>1. a * (z + 1) <= a * b
    BY <1>2
  <2>2. a * (z + 1) = a * z + a /\ a * z \in Nat
    BY <1>2
  <2> QED
    BY <1>1, <1>2, <1>3, <2>1, <2>2
<1>5. r = x * ab + y
  <2>1. a * q = a * (b * x) + a * z
    BY <1>1, <1>2
  <2>2. a * (b * x) = x * (a * b) /\ a * (b * x) \in Nat /\ a * z \in Nat
    BY <1>2
  <2> QED
    BY <1>1, <2>1, <2>2
<1> HIDE DEF ab, y
<1>6. (x * ab + y) \div ab = x
  BY <1>2, <1>3, <1>4, DivModUnique
<1> QED
  BY <1>5, <1>6 DEF ab, x, q

\* At most one of the sizes that a batch is split over is more than one.
OneAxis(layout) ==
  \/ layout.cp = 1 /\ layout.dp = 1
  \/ layout.cp = 1 /\ layout.pp = 1
  \/ layout.dp = 1 /\ layout.pp = 1

InTurns(mode, layout) == mode = "MEGATRON_PP_AS_DP_PROTO" => OneAxis(layout)

\* The ranks that are collected from, one for each chunk, and whether the i-th is the one
\* with the i-th chunk.
Collects(F, mode, layout) ==
  /\ Enumerates(F, mode, layout, NumChunks(mode, layout))
  /\ InTurns(mode, layout) =>
       \A i \in 1..NumChunks(mode, layout) : ChunkOf(mode, layout, F[i]) = i - 1

\* DP_COMPUTE_PROTO: all ranks.
LEMMA CollectsDp ==
  ASSUME NEW layout \in Layouts, NEW mode, mode = "DP_COMPUTE_PROTO"
  PROVE  \E F : Collects(F, mode, layout)
<1> DEFINE W == WorldSize(layout)
           F == [i \in 1..W |-> i - 1]
<1>1. W \in Nat \ {0}
  BY WorldIs DEF Modes
<1>2. Collecting(mode, layout) = 0..(W - 1) /\ NumChunks(mode, layout) = W
  BY DEF Collecting, IsCollected, RanksOf, NumChunks
<1>3. \A i \in 1..W : ChunkOf(mode, layout, F[i]) = i - 1
  BY DEF ChunkOf
<1> HIDE DEF W
<1>4. F \in [1..W -> 0..(W - 1)] /\ \A i, j \in 1..W : i < j => F[i] < F[j]
  BY <1>1
<1>5. \A r \in 0..(W - 1) : \E i \in 1..W : F[i] = r
  <2> TAKE r \in 0..(W - 1)
  <2>1. r + 1 \in 1..W /\ F[r + 1] = r
    BY <1>1
  <2> QED
    BY <2>1
<1> HIDE DEF F
<1>6. Collects(F, mode, layout)
  BY <1>2, <1>3, <1>4, <1>5 DEF Collects, Enumerates
<1> QED
  BY <1>6

\* MEGATRON_PP_AS_DP_PROTO: one of each tensor parallel group.
LEMMA CollectsAll ==
  ASSUME NEW layout \in Layouts, NEW mode, mode = "MEGATRON_PP_AS_DP_PROTO"
  PROVE  \E F : Collects(F, mode, layout)
<1> DEFINE t == layout.tp
           c == layout.cp
           d == layout.dp
           p == layout.pp
           m == NumChunks(mode, layout)
           F == [i \in 1..m |-> (i - 1) * t]
<1>1. t \in Nat \ {0} /\ c \in Nat \ {0} /\ d \in Nat \ {0} /\ p \in Nat \ {0}
  BY DEF Layouts
<1>2. m = d * p * c /\ RanksOf(layout) = 0..(t * c * d * p - 1)
  BY DEF NumChunks, RanksOf, WorldSize
<1>3. \A r : r \in Collecting(mode, layout) <=> r \in RanksOf(layout) /\ r % t = 0
  BY DEF Collecting, IsCollected, TpRank
<1>4. \A r : ChunkOf(mode, layout, r) =
              (((r \div t) % c) * d + ((r \div (t * c)) % d)) * p + (r \div (t * c * d))
  BY DEF ChunkOf, CpRank, DpRank, PpRank
<1>5. OneAxis(layout) <=> \/ c = 1 /\ d = 1
                          \/ c = 1 /\ p = 1
                          \/ d = 1 /\ p = 1
  BY DEF OneAxis
<1> HIDE DEF t, c, d, p, m
<1>6. m \in Nat \ {0} /\ t * c * d * p = t * (d * p * c) /\ t * c \in Nat \ {0}
  BY <1>1, <1>2, Products
<1> DEFINE mt == m * t
<1>7. mt = t * c * d * p /\ mt \in Nat
  BY <1>1, <1>2, <1>6
<1>8. ASSUME NEW i \in 1..m
      PROVE  /\ F[i] = (i - 1) * t /\ F[i] \in Nat
             /\ F[i] % t = 0 /\ F[i] \div t = i - 1 /\ F[i] \in Collecting(mode, layout)
  <2>1. i - 1 \in 0..(m - 1) /\ 0 \in 0..(t - 1)
    BY <1>1, <1>6
  <2>2. (i - 1) * t + 0 \in 0..(m * t - 1)
    BY <1>1, <1>6, <2>1, TwoDigits
  <2> DEFINE x == i - 1
  <2>3. x \in Nat
    BY <2>1
  <2> HIDE DEF x
  <2>4. (x * t) % t = 0 /\ (x * t) \div t = x /\ x * t \in Nat
    BY <1>1, <2>3, MultipleDivides
  <2>5. F[i] = x * t
    BY DEF x
  <2>6. x * t \in 0..(mt - 1)
    BY <1>1, <2>2, <2>3 DEF x
  <2>7. F[i] \in RanksOf(layout)
    BY <1>2, <1>7, <2>5, <2>6
  <2> HIDE DEF F
  <2> QED
    BY <1>3, <2>4, <2>5, <2>7 DEF x
<1>9. ASSUME NEW i \in 1..m, NEW j \in 1..m, i < j
      PROVE  F[i] < F[j]
  <2>1. i - 1 \in Nat /\ j - 1 \in Nat /\ i - 1 + 1 <= j - 1
    BY <1>6, <1>9
  <2> DEFINE x == i - 1
             y == j - 1
  <2>2. x \in Nat /\ y \in Nat /\ x + 1 <= y
    BY <2>1
  <2>3. F[i] = x * t /\ F[j] = y * t
    OBVIOUS
  <2> HIDE DEF x, y, F
  <2>4. (x + 1) * t <= y * t
    BY <1>1, <2>2
  <2>5. (x + 1) * t = x * t + t /\ x * t \in Nat /\ y * t \in Nat
    BY <1>1, <2>2
  <2> QED
    BY <1>1, <2>3, <2>4, <2>5
<1>10. ASSUME NEW r \in Collecting(mode, layout)
       PROVE  \E i \in 1..m : F[i] = r
  <2>1. r \in Nat /\ r < mt /\ r % t = 0
    BY <1>2, <1>3, <1>7
  <2>2. r \div t \in Nat /\ r \div t < m
    BY <1>1, <1>6, <2>1, DivBelow
  <2>3. r = (r \div t) * t
    BY <1>1, <2>1
  <2> DEFINE i == (r \div t) + 1
  <2>4. i \in 1..m /\ i - 1 = r \div t
    BY <1>6, <2>2
  <2>5. F[i] = (r \div t) * t
    BY <2>4
  <2> QED
    BY <2>3, <2>4, <2>5
<1>11. ASSUME OneAxis(layout), NEW i \in 1..m
       PROVE  ChunkOf(mode, layout, F[i]) = i - 1
  <2> DEFINE r == F[i]
             y == i - 1
  <2>1. r \in Nat /\ r \div t = y /\ y \in Nat /\ y < d * p * c
    BY <1>2, <1>6, <1>8
  <2>2. ChunkOf(mode, layout, r) = (((r \div t) % c) * d + ((r \div (t * c)) % d)) * p + (r \div (t * c * d))
    BY <1>4
  <2> HIDE DEF r, y, F
  <2>3. r \div (t * c) = y \div c
    BY <1>1, <2>1, DivDiv
  <2> DEFINE tc == t * c
  <2>4. r \div (tc * d) = (r \div tc) \div d
    BY <1>1, <1>6, <2>1, DivDiv
  <2>5. ChunkOf(mode, layout, r) = ((y % c) * d + ((y \div c) % d)) * p + ((y \div c) \div d)
    BY <2>1, <2>2, <2>3, <2>4
  <2>6. CASE c = 1 /\ d = 1
    <3>1. y % 1 = 0 /\ y \div 1 = y /\ (0 * 1 + 0) * p + y = y
      BY <1>1, <2>1
    <3> QED
      BY <2>5, <2>6, <3>1 DEF r, y
  <2>7. CASE c = 1 /\ p = 1
    <3>1. y < d
      BY <1>1, <2>1, <2>7
    <3>2. y % 1 = 0 /\ y \div 1 = y /\ y % d = y /\ y \div d = 0
      BY <1>1, <2>1, <3>1
    <3>3. (0 * d + y) * 1 + 0 = y
      BY <1>1, <2>1
    <3> QED
      BY <2>5, <2>7, <3>2, <3>3 DEF r, y
  <2>8. CASE d = 1 /\ p = 1
    <3>1. y < c
      BY <1>1, <2>1, <2>8
    <3>2. y % c = y /\ y \div c = 0 /\ 0 % 1 = 0 /\ 0 \div 1 = 0
      BY <1>1, <2>1, <3>1
    <3>3. (y * 1 + 0) * 1 + 0 = y
      BY <2>1
    <3> QED
      BY <2>5, <2>8, <3>2, <3>3 DEF r, y
  <2> QED
    BY <1>5, <1>11, <2>6, <2>7, <2>8
<1>12. F \in [1..m -> Collecting(mode, layout)]
  <2>1. \A i \in 1..m : (i - 1) * t \in Collecting(mode, layout)
    BY <1>8
  <2> QED
    BY <2>1
<1> HIDE DEF F
<1>13. Enumerates(F, mode, layout, m)
  BY <1>9, <1>10, <1>12 DEF Enumerates
<1>14. Collects(F, mode, layout)
  BY <1>11, <1>13 DEF Collects, InTurns, m
<1> QED
  BY <1>14

\* MEGATRON_COMPUTE_PROTO: of each data parallel group one of the last stage.
LEMMA CollectsLast ==
  ASSUME NEW layout \in Layouts, NEW mode, mode = "MEGATRON_COMPUTE_PROTO"
  PROVE  \E F : Collects(F, mode, layout)
<1> DEFINE t == layout.tp
           c == layout.cp
           d == layout.dp
           p == layout.pp
           tc == t * c
           F == [i \in 1..d |-> ((p - 1) * d + (i - 1)) * tc]
<1>1. t \in Nat \ {0} /\ c \in Nat \ {0} /\ d \in Nat \ {0} /\ p \in Nat \ {0}
  BY DEF Layouts
<1>2. NumChunks(mode, layout) = d /\ RanksOf(layout) = 0..(t * c * d * p - 1)
  BY DEF NumChunks, RanksOf, WorldSize
<1>3. \A r : r \in Collecting(mode, layout) <=>
              r \in RanksOf(layout) /\ r % t = 0 /\ (r \div t) % c = 0 /\ r \div (t * c * d) = p - 1
  BY DEF Collecting, IsCollected, TpRank, CpRank, PpRank
<1>4. \A r : ChunkOf(mode, layout, r) = (r \div (t * c)) % d
  BY DEF ChunkOf, DpRank
<1> HIDE DEF t, c, d, p
<1>5. t * c \in Nat \ {0} /\ t * c * d * p \in Nat \ {0}
  BY <1>1, Products
<1>6. \A r \in Nat : /\ r \div (t * c * d) = (r \div tc) \div d
                     /\ r \div tc = (r \div t) \div c
  <2> TAKE r \in Nat
  <2>1. tc \in Nat \ {0}
    BY <1>5
  <2>2. r \div tc = (r \div t) \div c
    BY <1>1, DivDiv
  <2> HIDE DEF tc
  <2>3. r \div (tc * d) = (r \div tc) \div d
    BY <1>1, <2>1, DivDiv
  <2> QED
    BY <2>2, <2>3 DEF tc
<1> DEFINE y(i) == (p - 1) * d + (i - 1)
           pd == p * d
<1>7. pd \in Nat \ {0} /\ pd * tc = t * c * d * p /\ tc \in Nat \ {0}
  BY <1>1, <1>5, ProductPos
<1>8. ASSUME NEW i \in 1..d
      PROVE  /\ y(i) \in 0..(pd - 1) /\ y(i) \div d = p - 1 /\ y(i) % d = i - 1
  <2>1. p - 1 \in 0..(p - 1) /\ i - 1 \in 0..(d - 1) /\ p - 1 \in Nat /\ i - 1 \in Nat /\ i - 1 < d
    BY <1>1
  <2> DEFINE u == p - 1
             v == i - 1
  <2>2. u \in 0..(p - 1) /\ v \in 0..(d - 1) /\ u \in Nat /\ v \in Nat /\ v < d
    BY <2>1
  <2> HIDE DEF u, v
  <2>3. u * d + v \in 0..(p * d - 1)
    BY <1>1, <2>2, TwoDigits
  <2>4. (u * d + v) \div d = u /\ (u * d + v) % d = v
    BY <1>1, <2>2, DivModUnique
  <2> QED
    BY <2>3, <2>4 DEF u, v
<1>9. ASSUME NEW i \in 1..d
      PROVE  F[i] = y(i) * tc /\ y(i) \in Nat /\ F[i] \in Nat /\ F[i] \div tc = y(i) /\ F[i] \in Collecting(mode, layout)
  <2> DEFINE x == y(i)
  <2>1. x \in 0..(pd - 1) /\ x \div d = p - 1
    BY <1>8
  <2>2. F[i] = x * tc
    OBVIOUS
  <2> HIDE DEF x, F, y
  <2>3. x \in Nat /\ 0 \in 0..(tc - 1)
    BY <1>7, <2>1
  <2> HIDE DEF pd, tc
  <2>4. x * tc + 0 \in 0..(pd * tc - 1)
    BY <1>7, <2>1, <2>3, TwoDigits
  <2>5. (x * tc) \div tc = x
    BY <1>7, <2>3, MultipleDivides
  <2>6. x * tc \in Nat /\ x * tc \in RanksOf(layout)
    BY <1>2, <1>7, <2>3, <2>4
  <2> DEFINE xc == x * c
  <2>7. x * tc = xc * t /\ xc \in Nat
    BY <1>1, <2>3 DEF tc
  <2> HIDE DEF xc
  <2>8. (xc * t) % t = 0 /\ (xc * t) \div t = xc
    BY <1>1, <2>7, MultipleDivides
  <2>9. xc % c = 0
    BY <1>1, <2>3, MultipleDivides DEF xc
  <2>10. (x * tc) \div (t * c * d) = x \div d
    BY <1>6, <2>5, <2>6
  <2>11. x * tc \in Collecting(mode, layout)
    BY <1>3, <2>1, <2>6, <2>7, <2>8, <2>9, <2>10
  <2> QED
    BY <2>2, <2>3, <2>5, <2>6, <2>11 DEF x
<1>10. ASSUME NEW i \in 1..d, NEW j \in 1..d, i < j
       PROVE  F[i] < F[j]
  <2> DEFINE x == y(i)
             z == y(j)
  <2>1. F[i] = x * tc /\ F[j] = z * tc /\ x \in Nat /\ z \in Nat
    BY <1>9
  <2>2. x + 1 <= z
    <3>1. (p - 1) * d \in Nat
      BY <1>1
    <3> DEFINE e == (p - 1) * d
    <3>2. e \in Nat /\ x = e + (i - 1) /\ z = e + (j - 1)
      BY <3>1
    <3> HIDE DEF e, x, z
    <3> QED
      BY <1>10, <3>2
  <2> HIDE DEF x, z, F, y, tc
  <2>3. (x + 1) * tc <= z * tc
    BY <1>7, <2>1, <2>2
  <2>4. (x + 1) * tc = x * tc + tc /\ x * tc \in Nat /\ z * tc \in Nat
    BY <1>7, <2>1
  <2> QED
    BY <1>7, <2>1, <2>3, <2>4
<1>11. ASSUME NEW r \in Collecting(mode, layout)
       PROVE  \E i \in 1..d : F[i] = r
  <2>1. r \in Nat /\ r % t = 0 /\ (r \div t) % c = 0 /\ r \div (t * c * d) = p - 1
    BY <1>2, <1>3, <1>5
  <2> DEFINE a == r \div t
             q == a \div c
  <2>2. a \in Nat /\ r = a * t
    BY <1>1, <2>1
  <2>3. a % c = 0
    BY <2>1
  <2> HIDE DEF a
  <2>4. q \in Nat /\ a = q * c
    BY <1>1, <2>2, <2>3
  <2>5. q \div d = p - 1
    BY <1>6, <2>1 DEF a
  <2> HIDE DEF q
  <2>6. r = q * tc
    BY <1>1, <2>2, <2>4
  <2> DEFINE i == (q % d) + 1
  <2>7. i \in 1..d /\ q = (p - 1) * d + (i - 1)
    BY <1>1, <2>4, <2>5
  <2> HIDE DEF i, tc
  <2>8. F[i] = q * tc
    BY <2>7
  <2> QED
    BY <2>6, <2>7, <2>8
<1>12. ASSUME NEW i \in 1..d
       PROVE  ChunkOf(mode, layout, F[i]) = i - 1
  BY <1>4, <1>8, <1>9
<1>13. F \in [1..d -> Collecting(mode, layout)]
  <2>1. \A i \in 1..d : ((p - 1) * d + (i - 1)) * tc \in Collecting(mode, layout)
    BY <1>9
  <2> QED
    BY <2>1
<1> HIDE DEF F
<1>14. Enumerates(F, mode, layout, d)
  BY <1>10, <1>11, <1>13 DEF Enumerates
<1>15. Collects(F, mode, layout)
  BY <1>2, <1>12, <1>14 DEF Collects
<1> QED
  BY <1>15

\* One rank is collected from for each chunk, and unless a batch is split over several
\* of the sizes and goes to all the stages, they come in the order of the chunks.
LEMMA CollectedAre ==
  ASSUME NEW layout \in Layouts, NEW mode \in Modes, NEW m, m = NumChunks(mode, layout)
  PROVE  /\ Cardinality(Collecting(mode, layout)) = m
         /\ \A i \in 1..m : CollectedRank(mode, layout, i) \in RanksOf(layout)
         /\ \A i \in 1..m : CollectedRank(mode, layout, i) \in Collecting(mode, layout)
         /\ \A i, j \in 1..m : CollectedRank(mode, layout, i) = CollectedRank(mode, layout, j) => i = j
         /\ \A r \in Collecting(mode, layout) : \E i \in 1..m : CollectedRank(mode, layout, i) = r
         /\ InTurns(mode, layout) => \A i \in 1..m : ChunkOf(mode, layout, CollectedRank(mode, layout, i)) = i - 1
<1>1. PICK F : Collects(F, mode, layout)
  BY CollectsDp, CollectsAll, CollectsLast DEF Modes
<1>2. Enumerates(F, mode, layout, m)
  BY <1>1 DEF Collects
<1>3. m \in Nat
  BY WorldIs
<1>4. Cardinality(Collecting(mode, layout)) = m /\ \A i \in 1..m : CollectedRank(mode, layout, i) = F[i]
  BY <1>2, <1>3, CollectedIs
<1>5. \A i \in 1..m : F[i] \in Collecting(mode, layout) /\ F[i] \in RanksOf(layout)
  BY <1>2 DEF Enumerates, Collecting
<1>6. InTurns(mode, layout) => \A i \in 1..m : ChunkOf(mode, layout, F[i]) = i - 1
  BY <1>1 DEF Collects
<1>7. \A i, j \in 1..m : F[i] = F[j] => i = j
  <2>1. \A i \in 1..m : F[i] \in Int
    BY <1>5 DEF RanksOf
  <2>2. \A i, j \in 1..m : i < j => F[i] < F[j]
    BY <1>2 DEF Enumerates
  <2>3. \A i, j \in 1..m : i < j \/ j < i \/ i = j
    OBVIOUS
  <2> QED
    BY <2>1, <2>2, <2>3
<1>8. \A r \in Collecting(mode, layout) : \E i \in 1..m : F[i] = r
  BY <1>2 DEF Enumerates
<1> QED
  BY <1>4, <1>5, <1>6, <1>7, <1>8

-----------------------------------------------------------------------------
\* Chunks

\* u is a sequence of m.
Listed(u, m) == m \in Nat /\ u = [i \in 1..m |-> u[i]]

\* Its length and its domain.
LEMMA ListedIs ==
  ASSUME NEW u, NEW m, Listed(u, m)
  PROVE  m \in Nat /\ Len(u) = m /\ DOMAIN u = 1..m
<1>1. m \in Nat /\ u = [i \in 1..m |-> u[i]]
  BY DEF Listed
<1> DEFINE v == [i \in 1..m |-> u[i]]
<1>2. Len(v) = m /\ DOMAIN v = 1..m
  BY <1>1
<1> HIDE DEF v
<1>3. u = v
  BY <1>1 DEF v
<1> QED
  BY <1>1, <1>2, <1>3

\* A place in k blocks of size.
LEMMA PlaceIs ==
  ASSUME NEW k \in Nat \ {0}, NEW size \in Nat, NEW i \in 1..(k * size)
  PROVE  \E c \in 1..k : \E x \in 1..size : /\ i = (c - 1) * size + x
                                            /\ (i - 1) \div size = c - 1 /\ (i - 1) % size = x - 1
<1> DEFINE j == i - 1
           ks == k * size
<1>1. ks \in Nat /\ j \in Nat /\ j < ks /\ i = j + 1
  OBVIOUS
<1>2. size # 0
  <2>1. size = 0 => ks = 0
    OBVIOUS
  <2> QED
    BY <1>1, <2>1
<1>3. j \in Nat /\ j < k * size
  BY <1>1
<1> HIDE DEF j, ks
<1>4. j \div size \in Nat /\ j \div size < k
  BY <1>2, <1>3, DivBelow
<1>5. j = (j \div size) * size + (j % size) /\ j % size \in Nat /\ j % size < size
  BY <1>2, <1>3
<1> DEFINE c == (j \div size) + 1
           x == (j % size) + 1
<1>6. c \in 1..k /\ x \in 1..size /\ c - 1 = j \div size /\ x - 1 = j % size
  BY <1>4, <1>5
<1>7. i = (c - 1) * size + x
  BY <1>1, <1>5, <1>6
<1> QED
  BY <1>6, <1>7 DEF j

\* A place of a block is one of them all.
LEMMA PlaceIn ==
  ASSUME NEW k \in Nat \ {0}, NEW size \in Nat, NEW c \in 1..k, NEW x \in 1..size
  PROVE  /\ (c - 1) * size + x \in 1..(k * size)
         /\ ((c - 1) * size + x - 1) \div size = c - 1 /\ ((c - 1) * size + x - 1) % size = x - 1
<1> DEFINE a == c - 1
           y == x - 1
<1>1. a \in 0..(k - 1) /\ y \in 0..(size - 1) /\ size \in Nat \ {0} /\ a \in Nat /\ y \in Nat /\ y < size
  OBVIOUS
<1>2. c = a + 1 /\ x = y + 1
  OBVIOUS
<1> HIDE DEF a, y
<1>3. a * size + y \in 0..(k * size - 1)
  BY <1>1, TwoDigits
<1>4. (a * size + y) \div size = a /\ (a * size + y) % size = y
  BY <1>1, DivModUnique
<1> DEFINE v == a * size
           w == k * size
<1>5. v \in Nat /\ w \in Nat /\ v + y \in 0..(w - 1) /\ (v + y) \div size = a /\ (v + y) % size = y
  BY <1>1, <1>3, <1>4
<1>6. c - 1 = a /\ x - 1 = y
  BY <1>1, <1>2
<1> HIDE DEF v, w
<1>7. v + x \in 1..w /\ v + x - 1 = v + y
  BY <1>1, <1>2, <1>5
<1> QED
  BY <1>5, <1>6, <1>7 DEF v, w

\* u has the k parts of size one after the other.
InBlocks(u, parts, k, size) ==
  /\ Listed(u, k * size)
  /\ \A i \in 1..(k * size) : \E c \in 1..k : \E x \in 1..size :
       i = (c - 1) * size + x /\ u[i] = parts[c][x]
  /\ \A c \in 1..k : \A x \in 1..size : u[(c - 1) * size + x] = parts[c][x]

\* Parts of one length, concatenated, follow each other in blocks of that length.
LEMMA ConcatIs ==
  ASSUME NEW parts, NEW k \in Nat \ {0}, NEW size \in Nat, Len(parts) = k, Len(parts[1]) = size
  PROVE  InBlocks(Concat(parts), parts, k, size)
<1> DEFINE u == Concat(parts)
           ks == k * size
<1>1. u = [i \in 1..ks |-> parts[((i - 1) \div size) + 1][((i - 1) % size) + 1]]
  BY DEF Concat
<1>2. ks \in Nat
  OBVIOUS
<1> HIDE DEF u, ks
<1>3. Listed(u, ks)
  <2>1. \A i \in 1..ks : u[i] = parts[((i - 1) \div size) + 1][((i - 1) % size) + 1]
    BY <1>1
  <2>2. u = [i \in 1..ks |-> u[i]]
    BY <1>1, <2>1
  <2> QED
    BY <1>2, <2>2 DEF Listed
<1>4. ASSUME NEW i \in 1..ks
      PROVE  \E c \in 1..k : \E x \in 1..size : i = (c - 1) * size + x /\ u[i] = parts[c][x]
  <2>1. i \in 1..(k * size)
    BY DEF ks
  <2>2. PICK c \in 1..k : \E x \in 1..size : /\ i = (c - 1) * size + x
                                             /\ (i - 1) \div size = c - 1 /\ (i - 1) % size = x - 1
    BY <2>1, PlaceIs
  <2>3. PICK x \in 1..size : /\ i = (c - 1) * size + x
                             /\ (i - 1) \div size = c - 1 /\ (i - 1) % size = x - 1
    BY <2>2
  <2>4. u[i] = parts[((i - 1) \div size) + 1][((i - 1) % size) + 1]
    BY <1>1
  <2>5. ((i - 1) \div size) + 1 = c /\ ((i - 1) % size) + 1 = x
    BY <2>3
  <2>6. u[i] = parts[c][x]
    BY <2>4, <2>5
  <2> QED
    BY <2>3, <2>6
<1>5. ASSUME NEW c \in 1..k, NEW x \in 1..size
      PROVE  u[(c - 1) * size + x] = parts[c][x]
  <2> DEFINE i == (c - 1) * size + x
  <2>1. i \in 1..ks /\ (i - 1) \div size = c - 1 /\ (i - 1) % size = x - 1
    BY PlaceIn DEF ks
  <2> HIDE DEF i
  <2>2. u[i] = parts[((i - 1) \div size) + 1][((i - 1) % size) + 1]
    BY <1>1, <2>1
  <2>3. ((i - 1) \div size) + 1 = c /\ ((i - 1) % size) + 1 = x
    BY <2>1
  <2>4. u[i] = parts[c][x]
    BY <2>2, <2>3
  <2> QED
    BY <2>4 DEF i
<1> QED
  BY <1>3, <1>4, <1>5 DEF InBlocks, ks, u

\* The k chunks of b, each of size.
Chunked(d, b, k, size) ==
  /\ d = [c \in 1..k |-> d[c]]
  /\ \A c \in 1..k : Listed(d[c], size) /\ \A x \in 1..size : d[c][x] = b[(c - 1) * size + x]

\* What chunk returns.
LEMMA ChunkIs ==
  ASSUME NEW b, NEW k \in Nat \ {0}, NEW size \in Nat, Len(b) = k * size
  PROVE  Chunked(Chunk(b, k), b, k, size)
<1> DEFINE d == Chunk(b, k)
           n == size * k
<1>1. n \div k = size /\ n = k * size
  BY MultipleDivides
<1>2. Len(b) \div k = size
  BY <1>1
<1>3. d = [c \in 1..k |-> [i \in 1..size |-> b[(c - 1) * size + i]]]
  BY <1>2 DEF Chunk
<1> HIDE DEF d
<1>4. ASSUME NEW c \in 1..k
      PROVE  Listed(d[c], size) /\ \A x \in 1..size : d[c][x] = b[(c - 1) * size + x]
  <2>1. d[c] = [i \in 1..size |-> b[(c - 1) * size + i]]
    BY <1>3
  <2>2. \A x \in 1..size : d[c][x] = b[(c - 1) * size + x]
    BY <2>1
  <2>3. d[c] = [i \in 1..size |-> d[c][i]]
    BY <2>1, <2>2
  <2> QED
    BY <2>2, <2>3 DEF Listed
<1>5. d = [c \in 1..k |-> d[c]]
  BY <1>3
<1> QED
  BY <1>4, <1>5 DEF Chunked, d

-----------------------------------------------------------------------------
\* Dispatching and collecting

\* Each rank is passed its chunk of b.
Dispatched(given, mode, layout, b, size) ==
  /\ given = [r \in RanksOf(layout) |-> given[r]]
  /\ \A r \in RanksOf(layout) :
       /\ Listed(given[r], size)
       /\ \A x \in 1..size : /\ ChunkOf(mode, layout, r) * size + x \in 1..(NumChunks(mode, layout) * size)
                             /\ given[r][x] = b[ChunkOf(mode, layout, r) * size + x]

\* Each rank is sent the chunk of its number.
LEMMA DispatchIs ==
  ASSUME NEW layout \in Layouts, NEW mode \in Modes, NEW b, NEW size \in Nat,
         Len(b) = NumChunks(mode, layout) * size
  PROVE  Dispatched(DispatchProto(mode, layout, b), mode, layout, b, size)
<1> DEFINE k == NumChunks(mode, layout)
           d == Chunk(b, k)
           given == DispatchProto(mode, layout, b)
<1>1. k \in Nat \ {0}
  BY WorldIs
<1>2. given = [r \in RanksOf(layout) |-> d[ChunkOf(mode, layout, r) + 1]]
  BY DEF DispatchProto
<1>3. Len(b) = k * size
  OBVIOUS
<1> HIDE DEF k, d, given
<1>4. Chunked(d, b, k, size)
  BY <1>1, <1>3, ChunkIs DEF d
<1>5. ASSUME NEW r \in RanksOf(layout)
      PROVE  /\ Listed(given[r], size)
             /\ \A x \in 1..size : /\ ChunkOf(mode, layout, r) * size + x \in 1..(k * size)
                                   /\ given[r][x] = b[ChunkOf(mode, layout, r) * size + x]
  <2> DEFINE e == ChunkOf(mode, layout, r)
             c == e + 1
  <2>1. e \in 0..(k - 1)
    BY ChunkIn DEF k
  <2>2. given[r] = d[c]
    BY <1>2
  <2> HIDE DEF e
  <2>3. c \in 1..k /\ c - 1 = e
    BY <1>1, <2>1
  <2> HIDE DEF c
  <2>4. Listed(d[c], size) /\ \A x \in 1..size : d[c][x] = b[(c - 1) * size + x]
    BY <1>4, <2>3 DEF Chunked
  <2>5. \A x \in 1..size : (c - 1) * size + x \in 1..(k * size)
    BY <1>1, <2>3, PlaceIn
  <2> QED
    BY <2>2, <2>3, <2>4, <2>5 DEF e
<1>6. given = [r \in RanksOf(layout) |-> given[r]]
  BY <1>2
<1> QED
  BY <1>5, <1>6 DEF Dispatched, given, k

\* u is collected: each row is one that a rank returned, and if the ranks come
\* in the order of the chunks, the j-th one is for the j-th row dispatched.  No row
\* of a rank that is collected from comes twice.
Gathered(u, returned, mode, layout, size) ==
  /\ Listed(u, NumChunks(mode, layout) * size)
  /\ \A j \in 1..(NumChunks(mode, layout) * size) : \E r \in RanksOf(layout) : \E x \in 1..size :
       /\ u[j] = returned[r][x]
       /\ InTurns(mode, layout) => ChunkOf(mode, layout, r) * size + x = j
  /\ \A i, j \in 1..(NumChunks(mode, layout) * size) :
       \E q, r \in Collecting(mode, layout) : \E x, y \in 1..size :
         /\ u[i] = returned[q][x] /\ u[j] = returned[r][y]
         /\ q = r /\ x = y => i = j

\* What is collected are rows of the ranks, in the order of the chunks if that is the
\* order of the ranks.
LEMMA CollectIs ==
  ASSUME NEW layout \in Layouts, NEW mode \in Modes, NEW size \in Nat, NEW returned,
         \A r \in RanksOf(layout) : Listed(returned[r], size)
  PROVE  Gathered(CollectProto(mode, layout, returned), returned, mode, layout, size)
<1> DEFINE k == NumChunks(mode, layout)
           u == CollectProto(mode, layout, returned)
           parts == [i \in 1..k |-> returned[CollectedRank(mode, layout, i)]]
<1>1. k \in Nat \ {0}
  BY WorldIs
<1>2. Cardinality(Collecting(mode, layout)) = k
  BY CollectedAre
<1>3. \A i \in 1..k : CollectedRank(mode, layout, i) \in RanksOf(layout)
  BY CollectedAre
<1>4. InTurns(mode, layout) => \A i \in 1..k : ChunkOf(mode, layout, CollectedRank(mode, layout, i)) = i - 1
  BY CollectedAre
<1>5. u = Concat(parts)
  BY <1>2 DEF CollectProto
<1> HIDE DEF k, u
<1>6. Len(parts) = k /\ \A i \in 1..k : parts[i] = returned[CollectedRank(mode, layout, i)]
  BY <1>1
<1> HIDE DEF parts
<1>7. Len(parts[1]) = size
  <2>1. 1 \in 1..k
    BY <1>1
  <2>2. Listed(parts[1], size)
    BY <1>3, <1>6, <2>1
  <2> QED
    BY <2>2, ListedIs
<1>8. InBlocks(u, parts, k, size)
  BY <1>1, <1>5, <1>6, <1>7, ConcatIs
<1>9. ASSUME NEW j \in 1..(k * size)
      PROVE  \E r \in RanksOf(layout) : \E x \in 1..size :
               /\ u[j] = returned[r][x]
               /\ InTurns(mode, layout) => ChunkOf(mode, layout, r) * size + x = j
  <2>1. PICK c \in 1..k : \E x \in 1..size : j = (c - 1) * size + x /\ u[j] = parts[c][x]
    BY <1>8 DEF InBlocks
  <2>2. PICK x \in 1..size : j = (c - 1) * size + x /\ u[j] = parts[c][x]
    BY <2>1
  <2> DEFINE r == CollectedRank(mode, layout, c)
  <2>3. r \in RanksOf(layout) /\ parts[c] = returned[r] /\ (InTurns(mode, layout) => ChunkOf(mode, layout, r) = c - 1)
    BY <1>3, <1>4, <1>6
  <2> HIDE DEF r
  <2> QED
    BY <2>2, <2>3
<1>10. /\ \A i \in 1..k : CollectedRank(mode, layout, i) \in Collecting(mode, layout)
       /\ \A i, j \in 1..k : CollectedRank(mode, layout, i) = CollectedRank(mode, layout, j) => i = j
  BY CollectedAre DEF k
<1>11. ASSUME NEW i \in 1..(k * size), NEW j \in 1..(k * size)
       PROVE  \E q, r \in Collecting(mode, layout) : \E x, y \in 1..size :
                /\ u[i] = returned[q][x] /\ u[j] = returned[r][y]
                /\ q = r /\ x = y => i = j
  <2>1. PICK b \in 1..k, x \in 1..size : i = (b - 1) * size + x /\ u[i] = parts[b][x]
    BY <1>8 DEF InBlocks
  <2>2. PICK c \in 1..k, y \in 1..size : j = (c - 1) * size + y /\ u[j] = parts[c][y]
    BY <1>8 DEF InBlocks
  <2> DEFINE q == CollectedRank(mode, layout, b)
             r == CollectedRank(mode, layout, c)
  <2>3. q \in Collecting(mode, layout) /\ r \in Collecting(mode, layout) /\ (q = r => b = c)
    BY <1>10
  <2>4. u[i] = returned[q][x] /\ u[j] = returned[r][y]
    BY <1>6, <2>1, <2>2
  <2> HIDE DEF q, r
  <2>5. q = r /\ x = y => i = j
    BY <2>1, <2>2, <2>3
  <2> QED
    BY <2>3, <2>4, <2>5
<1> QED
  BY <1>8, <1>9, <1>11 DEF Gathered, InBlocks, u, k
================================================================================
