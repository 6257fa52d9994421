---------------------------- MODULE BatchFlowProof ----------------------------
(***************************************************************************)
(* Proofs about the way of a batch through fit and _validate, for any job: *)
(* any number of prompts and samples, any answers, layout of the ranks,    *)
(* backend, mini- and micro-batches.                                       *)
(*                                                                         *)
(* The inductive invariant, FlowInv, says which phases a job comes         *)
(* through, which columns the batch has in each of them, that the ranks    *)
(* were sent the chunks of the batch or of the prompts, that what they     *)
(* have generated answers what they were sent, and that a plan of          *)
(* micro-batches is the one the rows of the mini-batch give.  What raises  *)
(* is an assertion on one of these: the lemmas show, operation by          *)
(* operation, that the sizes divide, the columns differ or agree and the   *)
(* partitions are partitions, except where the job itself rules it out.    *)
(* The balance of the ranks and of the micro-batches follows from that of  *)
(* the partitions: the rows of a part are those a rank is given, and in    *)
(* whatever order the rows are, they have the same lengths once sorted.    *)
(*                                                                         *)
(* For the refinement of SampleFlow the rows are taken as a set of         *)
(* samples: their inputs keep them apart (RowsInv), so a prompt has as     *)
(* many samples as rows, and each of the driver's steps that changes the   *)
(* batch is the step of the abstract specification of the same purpose.    *)
(*                                                                         *)
(* What goes into the gradients is counted position by position            *)
(* (TrainInv): dispatch spreads the samples over the ranks that count,     *)
(* each at one position of one of them, and a position has gone in as      *)
(* often as its mini-batch has been done, and once more if its micro-batch *)
(* of the present plan has been.                                           *)
(***************************************************************************)
EXTENDS BatchFlow, BatchProof

-----------------------------------------------------------------------------
\* Rounding up

\* The quotient rounded up: so many blocks of b hold a, and one less do not.
LEMMA CeilDivIs ==
  ASSUME NEW a \in Nat, NEW b \in Nat \ {0}, NEW q, q = CeilDiv(a, b)
  PROVE  /\ q \in Nat /\ a <= q * b /\ q * b < a + b
         /\ a > 0 => q > 0
         /\ \A c \in Nat : a <= c * b => q <= c
<1>1. q = (a + b - 1) \div b
  BY DEF CeilDiv
<1> DEFINE e == a + b - 1
           w == e % b
<1>2. e \in Nat /\ e = b * q + w /\ w \in Nat /\ w < b /\ q \in Nat
  BY <1>1
<1> HIDE DEF w
<1> DEFINE qb == q * b
<1>3. qb \in Nat /\ e = qb + w
  BY <1>2
<1>4. a <= qb /\ qb < a + b
  <2> HIDE DEF qb
  <2> QED
    BY <1>2, <1>3
<1>5. a > 0 => q > 0
  <2>1. q = 0 => qb = 0
    BY <1>2
  <2> QED
    BY <1>2, <1>4, <2>1
<1>6. ASSUME NEW c \in Nat, a <= c * b PROVE q <= c
  <2>1. q * b < c * b + b
    BY <1>2, <1>3, <1>4, <1>6
  <2> SUFFICES ASSUME q >= c + 1
               PROVE  FALSE
    BY <1>2
  <2>2. q * b >= (c + 1) * b
    BY <1>2
  <2>3. (c + 1) * b = c * b + b /\ c * b \in Nat /\ q * b \in Nat
    BY <1>2
  <2> QED
    BY <2>1, <2>2, <2>3
<1> QED
  BY <1>2, <1>4, <1>5, <1>6

-----------------------------------------------------------------------------
\* Sums of lengths

\* The sum of n lengths from a to b is from n * a to n * b.
LEMMA TokensBetween ==
  ASSUME NEW lens, NEW part, NEW n \in Nat, Len(part) = n, NEW a \in Nat, NEW b \in Nat,
         \A i \in 1..n : lens[part[i]] \in a..b
  PROVE  TokensOf(lens, part) \in Nat /\ n * a <= TokensOf(lens, part) /\ TokensOf(lens, part) <= n * b
<1>1. \A i \in 1..n : lens[part[i]] \in Nat
  OBVIOUS
<1>2. PICK f : Sums(f, lens, part, n) /\ f[n] = TokensOf(lens, part)
  BY <1>1, TokensInTurn
<1>3. f \in [0..n -> Nat] /\ f[0] = 0 /\ \A i \in 1..n : f[i] = f[i - 1] + lens[part[i]]
  BY <1>2 DEF Sums
<1> DEFINE B == {i \in 0..n : i * a <= f[i] /\ f[i] <= i * b}
<1>4. 0 \in B
  BY <1>3
<1>5. ASSUME NEW i \in 0..(n - 1), i \in B PROVE i + 1 \in B
  <2>1. i + 1 \in 1..n /\ (i + 1) - 1 = i /\ i + 1 \in 0..n /\ i \in Nat /\ i \in 0..n
    OBVIOUS
  <2>2. f[i + 1] = f[i] + lens[part[i + 1]] /\ lens[part[i + 1]] \in a..b
    BY <1>3, <2>1
  <2>3. i * a <= f[i] /\ f[i] <= i * b /\ f[i] \in Nat
    BY <1>3, <1>5, <2>1
  <2>4. (i + 1) * a = i * a + a /\ (i + 1) * b = i * b + b /\ i * a \in Nat /\ i * b \in Nat
    BY <2>1
  <2> DEFINE ia == i * a
             ib == i * b
             l == lens[part[i + 1]]
  <2>5. ia <= f[i] /\ f[i] <= ib /\ l \in a..b /\ ia \in Nat /\ ib \in Nat /\ f[i + 1] = f[i] + l
    BY <2>2, <2>3, <2>4
  <2>6. (i + 1) * a = ia + a /\ (i + 1) * b = ib + b
    BY <2>4
  <2> HIDE DEF ia, ib, l
  <2>7. ia + a <= f[i + 1] /\ f[i + 1] <= ib + b
    BY <2>3, <2>5
  <2> QED
    BY <2>1, <2>6, <2>7
<1> HIDE DEF B
<1>6. \A i \in 0..n : i \in B
  BY <1>4, <1>5, CountUp
<1>7. n * a <= f[n] /\ f[n] <= n * b /\ f[n] \in Nat
  BY <1>3, <1>6 DEF B
<1> QED
  BY <1>2, <1>7

-----------------------------------------------------------------------------
\* torch's split

\* The length of the c-th block of n rows.
BlockLen(n, size, c) == IF c * size < n THEN size ELSE n - (c - 1) * size

\* d has the blocks of rows.
Splitted(d, rows, n, size, k) ==
  /\ Listed(d, k)
  /\ \A c \in 1..k :
       /\ BlockLen(n, size, c) \in Nat \ {0} /\ Listed(d[c], BlockLen(n, size, c))
       /\ \A j \in 1..BlockLen(n, size, c) :
            (c - 1) * size + j \in 1..n /\ d[c][j] = rows[(c - 1) * size + j]

\* A stretch of a sequence.
LEMMA SubSeqIs ==
  ASSUME NEW rows, NEW n, Listed(rows, n), NEW lo \in 1..n, NEW hi \in lo..n
  PROVE  /\ Listed(SubSeq(rows, lo, hi), hi - lo + 1)
         /\ \A j \in 1..(hi - lo + 1) : SubSeq(rows, lo, hi)[j] = rows[lo + j - 1]
<1> DEFINE S == {rows[i] : i \in 1..n}
           u == SubSeq(rows, lo, hi)
           m == hi - lo + 1
<1>1. n \in Nat /\ Len(rows) = n /\ DOMAIN rows = 1..n /\ rows = [i \in 1..n |-> rows[i]]
  BY ListedIs DEF Listed
<1>2. rows \in Seq(S)
  <2>1. \A i \in 1..n : rows[i] \in S
    OBVIOUS
  <2> HIDE DEF S
  <2>2. rows \in [1..n -> S]
    BY <1>1, <2>1
  <2> QED
    BY <1>1, <2>2
<1>3. lo \in 1..(Len(rows) + 1) /\ hi \in (lo - 1)..Len(rows) /\ m \in Nat
  BY <1>1
<1> HIDE DEF S
<1>4. u \in Seq(S)
  BY <1>2, <1>3, SubSeqProperties
<1>5. Len(u) = IF lo <= hi THEN hi - lo + 1 ELSE 0
  BY <1>2, <1>3, SubSeqProperties
<1>6. \A i \in 1..(hi - lo + 1) : u[i] = rows[lo + i - 1]
  BY <1>2, <1>3, SubSeqProperties
<1>7. Len(u) = m
  BY <1>1, <1>5
<1> HIDE DEF u
<1>8. u = [i \in 1..m |-> u[i]]
  BY <1>3, <1>4, <1>7
<1> QED
  BY <1>3, <1>6, <1>8 DEF Listed, u

\* The blocks have size rows each, the last one what is left.
LEMMA BlockLenIs ==
  ASSUME NEW n \in Nat, NEW size \in Nat \ {0}, NEW c \in 1..CeilDiv(n, size)
  PROVE  /\ BlockLen(n, size, c) \in Nat \ {0} /\ (c - 1) * size \in Nat /\ c * size \in Nat
         /\ (c - 1) * size + BlockLen(n, size, c) = IF c * size < n THEN c * size ELSE n
         /\ (c - 1) * size + size = c * size
<1> DEFINE k == CeilDiv(n, size)
           e == (c - 1) * size
           f == c * size
<1>1. k \in Nat /\ k * size < n + size
  BY CeilDivIs
<1> HIDE DEF k
<1>2. c \in 1..k
  BY DEF k
<1>3. e \in Nat /\ f \in Nat /\ f = e + size
  <2>1. c - 1 \in Nat /\ c = (c - 1) + 1 /\ c \in Nat
    BY <1>1, <1>2
  <2> DEFINE x == c - 1
  <2>2. x \in Nat /\ c = x + 1
    BY <2>1
  <2> HIDE DEF x
  <2>3. x * size \in Nat /\ (x + 1) * size = x * size + size
    BY <2>2
  <2> QED
    BY <2>1, <2>2, <2>3 DEF x
<1>4. f <= k * size
  BY <1>1, <1>2
<1>5. k * size \in Nat
  BY <1>1
<1> DEFINE ks == k * size
<1>6. ks \in Nat /\ f <= ks /\ ks < n + size
  BY <1>1, <1>4, <1>5
<1>7. BlockLen(n, size, c) = IF f < n THEN size ELSE n - e
  BY DEF BlockLen
<1> HIDE DEF e, f, ks
<1>8. e < n
  BY <1>3, <1>6
<1>9. BlockLen(n, size, c) \in Nat \ {0} /\ e + BlockLen(n, size, c) = IF f < n THEN f ELSE n
  BY <1>3, <1>7, <1>8
<1> QED
  BY <1>3, <1>9 DEF e, f

\* What split returns.
LEMMA SplitIs ==
  ASSUME NEW rows, NEW n, Listed(rows, n), NEW size \in Nat \ {0}
  PROVE  Splitted(Split(rows, size), rows, n, size, CeilDiv(n, size))
<1> DEFINE k == CeilDiv(n, size)
           d == Split(rows, size)
<1>1. n \in Nat /\ Len(rows) = n
  BY ListedIs
<1>2. k \in Nat
  BY <1>1, CeilDivIs
<1>3. d = [c \in 1..k |-> SubSeq(rows, (c - 1) * size + 1, IF c * size < n THEN c * size ELSE n)]
  BY <1>1 DEF Split
<1> HIDE DEF d, k
<1>4. Listed(d, k)
  <2>1. \A c \in 1..k : d[c] = SubSeq(rows, (c - 1) * size + 1, IF c * size < n THEN c * size ELSE n)
    BY <1>3
  <2>2. d = [c \in 1..k |-> d[c]]
    BY <1>3, <2>1
  <2> QED
    BY <1>2, <2>2 DEF Listed
<1>5. ASSUME NEW c \in 1..k
      PROVE  /\ BlockLen(n, size, c) \in Nat \ {0} /\ Listed(d[c], BlockLen(n, size, c))
             /\ \A j \in 1..BlockLen(n, size, c) :
                  (c - 1) * size + j \in 1..n /\ d[c][j] = rows[(c - 1) * size + j]
  <2> DEFINE e == (c - 1) * size
             f == c * size
             m == BlockLen(n, size, c)
             lo == e + 1
             hi == IF f < n THEN f ELSE n
  <2>1. m \in Nat \ {0} /\ e \in Nat /\ f \in Nat /\ e + m = (IF f < n THEN f ELSE n)
    BY <1>1, BlockLenIs DEF k
  <2>2. d[c] = SubSeq(rows, lo, hi)
    BY <1>3
  <2> HIDE DEF e, f, m
  <2>3. hi \in Nat /\ e + m = hi /\ hi <= n
    BY <1>1, <2>1
  <2> HIDE DEF hi
  <2>4. lo \in 1..n /\ hi \in lo..n /\ hi - lo + 1 = m
    BY <1>1, <2>1, <2>3
  <2> HIDE DEF lo
  <2>5. /\ Listed(SubSeq(rows, lo, hi), hi - lo + 1)
        /\ \A j \in 1..(hi - lo + 1) : SubSeq(rows, lo, hi)[j] = rows[lo + j - 1]
    BY <2>4, SubSeqIs, SMTT(60)
  <2>6. \A j \in 1..m : e + j \in 1..n /\ lo + j - 1 = e + j
    BY <1>1, <2>1, <2>3 DEF lo
  <2>7. Listed(d[c], m) /\ \A j \in 1..m : d[c][j] = rows[e + j]
    BY <2>2, <2>4, <2>5, <2>6
  <2> QED
    BY <2>1, <2>6, <2>7 DEF e, m
<1> QED
  BY <1>4, <1>5 DEF Splitted, d, k

\* What is listed is a sequence of whatever its elements are in.
LEMMA ListedSeq ==
  ASSUME NEW u, NEW m, Listed(u, m), NEW S, \A i \in 1..m : u[i] \in S
  PROVE  u \in Seq(S)
<1>1. m \in Nat /\ u = [i \in 1..m |-> u[i]]
  BY DEF Listed
<1>2. u \in [1..m -> S]
  BY <1>1
<1> QED
  BY <1>1, <1>2

\* The blocks one after the other are the rows again.
LEMMA FlattenSplit ==
  ASSUME NEW rows, NEW n, Listed(rows, n), NEW size \in Nat \ {0}
  PROVE  /\ Len(FlattenSeq(Split(rows, size))) = n
         /\ \A i \in 1..n : FlattenSeq(Split(rows, size))[i] = rows[i]
         /\ FlattenSeq(Split(rows, size)) \in Seq({rows[i] : i \in 1..n})
<1> DEFINE k == CeilDiv(n, size)
           d == Split(rows, size)
           S == {rows[i] : i \in 1..n}
           u == FlattenSeq(d)
<1>1. n \in Nat
  BY ListedIs
<1>2. k \in Nat /\ n <= k * size /\ (n > 0 => k > 0) /\ \A c \in 1..k : BlockLen(n, size, c) \in Nat \ {0}
  BY <1>1, CeilDivIs, BlockLenIs
<1>3. \A c \in 1..k : /\ (c - 1) * size \in Nat /\ c * size \in Nat
                      /\ (c - 1) * size + BlockLen(n, size, c) = IF c * size < n THEN c * size ELSE n
  BY <1>1, BlockLenIs
<1>4. Splitted(d, rows, n, size, k)
  BY SplitIs
<1> HIDE DEF k, d, S
<1>5. Listed(d, k)
  BY <1>4 DEF Splitted
<1>6. Len(d) = k
  BY <1>5, ListedIs
<1>7. \A c \in 1..k : d[c] \in Seq(S) /\ Len(d[c]) = BlockLen(n, size, c)
  <2> TAKE c \in 1..k
  <2> DEFINE m == BlockLen(n, size, c)
  <2>1. Listed(d[c], m)
    BY <1>4 DEF Splitted
  <2>2. \A j \in 1..m : (c - 1) * size + j \in 1..n /\ d[c][j] = rows[(c - 1) * size + j]
    BY <1>4 DEF Splitted
  <2>3. \A j \in 1..m : d[c][j] \in S
    BY <2>2 DEF S
  <2> HIDE DEF m
  <2>4. d[c] \in Seq(S)
    BY <2>1, <2>3, ListedSeq
  <2>5. Len(d[c]) = m
    BY <2>1, ListedIs
  <2> QED
    BY <2>4, <2>5 DEF m
<1>8. d \in Seq(Seq(S))
  <2> DEFINE T == Seq(S)
  <2>1. \A c \in 1..k : d[c] \in T
    BY <1>7
  <2> HIDE DEF T
  <2>2. d \in Seq(T)
    BY <1>5, <2>1, ListedSeq
  <2> QED
    BY <2>2 DEF T
<1>9. u \in Seq(S) /\ \E O : Laid(u, d, k, O)
  BY <1>6, <1>8, FlattenLaid
<1> HIDE DEF u
<1>10. PICK O : Laid(u, d, k, O)
  BY <1>9
<1> DEFINE E(c) == IF c * size < n THEN c * size ELSE n
           B == {c \in 0..k : O[c] = E(c)}
<1>11. 0 \in B
  <2>1. 0 * size = 0 /\ E(0) = 0
    BY <1>1
  <2> QED
    BY <1>2, <1>10, <2>1 DEF Laid
<1>12. ASSUME NEW c \in 0..(k - 1), c \in B PROVE c + 1 \in B
  <2>1. c + 1 \in 1..k /\ (c + 1) - 1 = c /\ c + 1 \in 0..k
    BY <1>2
  <2>2. O[c + 1] = O[c] + BlockLen(n, size, c + 1)
    BY <1>7, <1>10, <2>1 DEF Laid
  <2>3. O[c] = E(c)
    BY <1>12
  <2>4. c * size \in Nat /\ c * size + BlockLen(n, size, c + 1) = E(c + 1)
    BY <1>3, <2>1
  <2>5. c * size < n
    <3>1. BlockLen(n, size, c + 1) \in Nat \ {0} /\ E(c + 1) <= n
      BY <1>1, <1>2, <1>3, <2>1
    <3> DEFINE l == BlockLen(n, size, c + 1)
               v == c * size
               w == E(c + 1)
    <3>2. l \in Nat \ {0} /\ w <= n /\ v \in Nat /\ v + l = w
      BY <2>4, <3>1
    <3> HIDE DEF l, v, w
    <3>3. v < n
      BY <1>1, <3>2
    <3> QED
      BY <3>3 DEF v
  <2>6. O[c + 1] = E(c + 1)
    BY <2>2, <2>3, <2>4, <2>5
  <2> QED
    BY <2>1, <2>6
<1> HIDE DEF B
<1>13. \A c \in 0..k : c \in B
  BY <1>2, <1>11, <1>12, CountUp
<1>14. \A c \in 0..k : O[c] = E(c)
  BY <1>13 DEF B
<1>15. Len(u) = n
  <2>1. Len(u) = O[k] /\ k \in 0..k
    BY <1>2, <1>10 DEF Laid
  <2>2. k * size \in Nat
    BY <1>2
  <2> QED
    BY <1>1, <1>2, <1>14, <2>1, <2>2
<1>16. ASSUME NEW x \in 1..n
       PROVE  u[x] = rows[x]
  <2>1. x \in 1..Len(u)
    BY <1>15
  <2>2. PICK c \in 1..k : \E j \in 1..Len(d[c]) : x = O[c - 1] + j
    BY <1>10, <2>1 DEF Laid
  <2>3. PICK j \in 1..Len(d[c]) : x = O[c - 1] + j
    BY <2>2
  <2>4. u[O[c - 1] + j] = d[c][j]
    BY <1>10 DEF Laid
  <2>5. j \in 1..BlockLen(n, size, c)
    BY <1>7
  <2>6. (c - 1) * size + j \in 1..n /\ d[c][j] = rows[(c - 1) * size + j]
    BY <1>4, <2>5 DEF Splitted
  <2>7. O[c - 1] = (c - 1) * size
    <3>1. c - 1 \in 0..k /\ O[c - 1] = E(c - 1)
      BY <1>2, <1>14
    <3>2. (c - 1) * size < n
      <4> DEFINE v == (c - 1) * size
      <4>1. v \in Nat /\ v + j \in 1..n /\ j \in Nat /\ j >= 1
        BY <1>2, <1>3, <2>5, <2>6
      <4> HIDE DEF v
      <4>2. v < n
        BY <1>1, <4>1
      <4> QED
        BY <4>2 DEF v
    <3> QED
      BY <3>1, <3>2
  <2> QED
    BY <2>3, <2>4, <2>6, <2>7
<1> QED
  BY <1>9, <1>15, <1>16 DEF u, d, S

\* u has the k of d q times.
Repeated(u, d, k, q) ==
  /\ Len(u) = q * k
  /\ \A m \in 1..(q * k) : ((m - 1) % k) + 1 \in 1..k /\ u[m] = d[((m - 1) % k) + 1]

\* The same k things several times, one after the other.
LEMMA FlattenRepeated ==
  ASSUME NEW T, NEW d \in Seq(T), NEW k, k = Len(d), NEW q \in Nat \ {0},
         NEW s, s = [e \in 1..q |-> d], NEW u, u = FlattenSeq(s)
  PROVE  Repeated(u, d, k, q)
<1> DEFINE S == Seq(T)
<1>1. k \in Nat /\ d \in S
  OBVIOUS
<1>2. s \in Seq(S) /\ Len(s) = q /\ \A e \in 1..q : s[e] = d
  <2> HIDE DEF S
  <2>1. s \in [1..q -> S]
    BY <1>1
  <2> QED
    BY <2>1
<1> HIDE DEF S
<1>3. s \in Seq(Seq(T))
  BY <1>2 DEF S
<1>4. \E O : Laid(u, s, q, O)
  BY <1>2, <1>3, FlattenLaid
<1>5. PICK O : Laid(u, s, q, O)
  BY <1>4
<1>6. \A e \in 1..q : O[e] = O[e - 1] + k
  BY <1>2, <1>5 DEF Laid
<1> DEFINE B == {e \in 0..q : O[e] = e * k}
<1>7. 0 \in B
  BY <1>1, <1>5 DEF Laid
<1>8. ASSUME NEW e \in 0..(q - 1), e \in B PROVE e + 1 \in B
  <2>1. e + 1 \in 1..q /\ (e + 1) - 1 = e /\ e + 1 \in 0..q
    OBVIOUS
  <2>2. O[e + 1] = O[e] + k /\ O[e] = e * k
    BY <1>6, <1>8, <2>1
  <2>3. (e + 1) * k = e * k + k
    BY <1>1
  <2> QED
    BY <2>1, <2>2, <2>3
<1> HIDE DEF B
<1>9. \A e \in 0..q : e \in B
  BY <1>7, <1>8, CountUp
<1>10. \A e \in 0..q : O[e] = e * k
  BY <1>9 DEF B
<1>11. Len(u) = q * k
  BY <1>5, <1>10 DEF Laid
<1>12. ASSUME NEW m \in 1..(q * k)
       PROVE  ((m - 1) % k) + 1 \in 1..k /\ u[m] = d[((m - 1) % k) + 1]
  <2>1. PICK e \in 1..q : \E x \in 1..k : /\ m = (e - 1) * k + x
                                          /\ (m - 1) \div k = e - 1 /\ (m - 1) % k = x - 1
    BY <1>1, PlaceIs
  <2>2. PICK x \in 1..k : m = (e - 1) * k + x /\ (m - 1) % k = x - 1
    BY <2>1
  <2>3. O[e - 1] = (e - 1) * k
    BY <1>10
  <2>4. x \in 1..Len(s[e])
    BY <1>2
  <2>5. u[O[e - 1] + x] = s[e][x]
    BY <1>5, <2>4 DEF Laid
  <2>6. u[m] = d[x]
    BY <1>2, <2>2, <2>3, <2>5
  <2> QED
    BY <2>2, <2>6
<1> QED
  BY <1>11, <1>12 DEF Repeated

\* The mini-batches of rows: in each epoch the same blocks.
MinisOf(u, rows, n, size, epochs) ==
  /\ Len(u) = epochs * CeilDiv(n, size)
  /\ \A m \in 1..(epochs * CeilDiv(n, size)) :
       /\ ((m - 1) % CeilDiv(n, size)) + 1 \in 1..CeilDiv(n, size)
       /\ u[m] = Split(rows, size)[((m - 1) % CeilDiv(n, size)) + 1]

\* The mini-batches of all epochs, one epoch after the other.
LEMMA EpochsAre ==
  ASSUME NEW rows, NEW n, Listed(rows, n), NEW size \in Nat \ {0}, NEW epochs \in Nat \ {0}
  PROVE  MinisOf(FlattenSeq([e \in 1..epochs |-> Split(rows, size)]), rows, n, size, epochs)
<1> DEFINE k == CeilDiv(n, size)
           d == Split(rows, size)
           T == {d[c] : c \in 1..k}
           s == [e \in 1..epochs |-> d]
           u == FlattenSeq(s)
<1>1. Splitted(d, rows, n, size, k)
  BY SplitIs
<1> HIDE DEF d, k
<1>2. Listed(d, k)
  BY <1>1 DEF Splitted
<1>3. \A c \in 1..k : d[c] \in T
  OBVIOUS
<1> HIDE DEF T
<1>4. d \in Seq(T) /\ k = Len(d)
  BY <1>2, <1>3, ListedSeq, ListedIs
<1>5. Repeated(u, d, k, epochs)
  BY <1>4, FlattenRepeated
<1> HIDE DEF u
<1>6. MinisOf(u, rows, n, size, epochs)
  BY <1>5 DEF MinisOf, Repeated, d, k
<1> QED
  BY <1>6 DEF u, s, d

\* A set of numbers that is finite and not empty has a largest.
LEMMA LargestOf ==
  ASSUME NEW S, S \subseteq Nat, IsFiniteSet(S), S # {}
  PROVE  \E x \in S : \A y \in S : y <= x
<1> DEFINE R == {p \in S \X S : p[1] > p[2]}
<1>1. \A x, y \in S : <<x, y>> \in R <=> x > y
  OBVIOUS
<1>2. S \subseteq Int
  OBVIOUS
<1> HIDE DEF R
<1>3. StrictOn(R, S)
  <2>1. \A x \in S : <<x, x>> \notin R
    BY <1>1, <1>2
  <2>2. \A x, y \in S : x # y => <<x, y>> \in R \/ <<y, x>> \in R
    BY <1>1, <1>2
  <2>3. \A x, y, z \in S : <<x, y>> \in R /\ <<y, z>> \in R => <<x, z>> \in R
    BY <1>1, <1>2
  <2> QED
    BY <2>1, <2>2, <2>3 DEF StrictOn
<1>0. IsFiniteSet(S) /\ S # {}
  OBVIOUS
<1>6. \E x \in S : \A y \in S \ {x} : <<x, y>> \in R
  BY <1>0, <1>3, FirstOf
<1>4. PICK x \in S : \A y \in S \ {x} : <<x, y>> \in R
  BY <1>6
<1>5. \A y \in S : y <= x
  <2> TAKE y \in S
  <2>1. CASE y = x
    BY <1>2, <2>1
  <2>2. CASE y # x
    <3>1. <<x, y>> \in R
      BY <1>4, <2>2
    <3> QED
      BY <1>1, <1>2, <3>1
  <2> QED
    BY <2>1, <2>2
<1> QED
  BY <1>5

-----------------------------------------------------------------------------
\* The invariant

World == WorldSize(setup.layout)
Samples == setup.prompts * setup.n
ModeHere == ModeOf(phase)

\* What the driver has generated for: all prompts, or the samples of one.
Tiled == Tile(Prompts, setup.n)
Requests ==
  IF phase = "resample" THEN SubSeq(batch, (group - 1) * setup.n + 1, group * setup.n)
  ELSE IF setup.validate THEN PadToDivisor(Tiled, World) ELSE Tiled

\* The columns of the batch in a phase.
SampleKeys == {"prompt", "input", "responses"}
ReferenceKeys == IF setup.reference THEN {"ref_log_prob"} ELSE {}
ValueKeys == IF setup.critic THEN {"values"} ELSE {}

Generated == {"reward", "groups", "resample", "balance"}
Sampled == Generated \cup ColumnMethods \cup UpdateMethods \cup {"advantages", "over"}

KeysAt(p) ==
  IF p \in Generated \/ (p = "over" /\ setup.validate) THEN SampleKeys
  ELSE SampleKeys \cup {"score"} \cup
       (IF p = "compute_log_prob" THEN {} ELSE {"old_log_probs"}) \cup
       (IF p \in {"compute_log_prob", "compute_ref_log_prob"} THEN {} ELSE ReferenceKeys) \cup
       (IF p \in ColumnMethods THEN {} ELSE ValueKeys) \cup
       (IF p \in ColumnMethods \cup {"advantages"} THEN {} ELSE {"advantages"})

\* An answer is no longer than the model may answer.
Fits(answer) == answer.len \in Nat /\ PromptLen + answer.len <= Width(setup)
SampleRows(b, K) ==
  Listed(b, Samples) /\ \A i \in 1..Samples : DOMAIN b[i] = K /\ Fits(b[i].input)

\* Three quarters of the limit do not hold a row.
Tight == setup.critic /\ setup.dynamic /\ (setup.maxTokens * setup.sp * 3) \div 4 < Width(setup)

BatchIs ==
  /\ phase = "begin" => batch = <<>>
  /\ phase = "generate_sequences" => batch = IF setup.validate THEN Tiled ELSE Prompts
  /\ phase \in Sampled => SampleRows(batch, KeysAt(phase))
  /\ phase = "raised" => \/ SampleRows(batch, SampleKeys) /\ setup.polaris /\ setup.n % World # 0
                         \/ SampleRows(batch, KeysAt("compute_values")) /\ Tight

\* Which phases a job comes through.
PathIs ==
  /\ setup \in Setups
  /\ phase \in {"begin", "generate_sequences", "raised"} \cup Sampled
  /\ phase \in {"groups", "resample"} => setup.polaris
  /\ phase \in (Sampled \ {"reward", "over"}) \cup {"raised"} => ~setup.validate
  /\ phase = "compute_ref_log_prob" => setup.reference
  /\ phase \in {"compute_values", "update_critic"} => setup.critic
  /\ phase \in UpdateMethods \cup {"advantages"} => ~Tight

GroupIs ==
  /\ group \in 1..(setup.prompts + 1)
  /\ phase = "resample" => group <= setup.prompts

RewardsAre ==
  IF phase \in {"begin", "generate_sequences", "reward"} THEN rewards = <<>>
  ELSE Listed(rewards, Samples) /\ \A i \in 1..Samples : rewards[i] \in {0, 1}

RanksAre == sent = [r \in Ranks |-> sent[r]] /\ out = [r \in Ranks |-> out[r]]

PlanIs ==
  IF plan = <<>> THEN forwards = 0
  ELSE DOMAIN plan = Ranks /\ \A r \in Ranks : Len(plan[r]) \in Nat /\ forwards \in 0..Len(plan[r])

\* What a rank has generated answers what it was sent, row by row.
Answers(y, x) ==
  /\ DOMAIN y = {"input", "responses"} /\ y.responses = y.input
  /\ y.input.to = x.prompt /\ y.input.again = ("input" \in DOMAIN x) /\ Fits(y.input)
Replies(b, rows) == Listed(b, Len(rows)) /\ \A i \in 1..Len(rows) : Answers(b[i], rows[i])

\* Where an engine computed the answer to row x of the rows of rank r.
Place(r, size, x) ==
  IF setup.backend = "fsdp" THEN <<r - (r % setup.tp), (r % setup.tp) * size + x>>
                            ELSE <<r - (r % setup.layout.tp), x>>
Returns(b, r) ==
  /\ Replies(b, sent[r])
  /\ \A x \in 1..Len(sent[r]) : b[x].input.at = Place(r, Len(sent[r]), x)

GenerationIs ==
  Generating =>
    /\ CanChunk(Requests, NumChunks(ModeHere, setup.layout))
    /\ sent = DispatchProto(ModeHere, setup.layout, Requests)
    /\ \A r \in Ranks : out[r] = <<>> \/ Returns(out[r], r)

\* The rows of a rank in a call for the batch.
Share == Samples \div NumChunks(ModeHere, setup.layout)

\* What a column holds for a row: what is computed of the row's own input.  The
\* values that a critic computes in micro-batches by tokens are masked out of order.
ValueOf(key, input) == IF key = "values" THEN [of |-> input, upTo |-> input.len] ELSE input
With(row, key, value) == [k \in DOMAIN row \cup {key} |-> IF k = key THEN value ELSE row[k]]
InOrderOf(key) == key # "values" \/ ~setup.dynamic
ColumnRows(b, rows, key) ==
  /\ Listed(b, Share)
  /\ \A i \in 1..Share : /\ DOMAIN b[i] = {key}
                         /\ InOrderOf(key) => b[i][key] = ValueOf(key, rows[i].input)

\* The micro-batches of all ranks, and whether there is a mini-batch left.
Planned == [r \in Ranks |-> MicroBatches(r)]
MinisLeft == \A r \in Ranks : mini < Len(MiniBatches(r))

CallIs ==
  phase \in ColumnMethods \cup UpdateMethods =>
    /\ sent = DispatchProto(ModeHere, setup.layout, batch)
    /\ mini \in Nat
    /\ plan # <<>> =>
         /\ plan = Planned
         /\ setup.dynamic => MaxTokens >= Width(setup)
         /\ MinisLeft
    /\ phase \in ColumnMethods =>
         mini = 0 /\ \A r \in Ranks : out[r] # <<>> => plan # <<>> /\ ColumnRows(out[r], sent[r], KeyOf(phase))

FlowInv ==
  /\ PathIs /\ BatchIs /\ GroupIs /\ RewardsAre /\ RanksAre /\ PlanIs /\ GenerationIs /\ CallIs

-----------------------------------------------------------------------------
\* The job

\* What the assumption says of the job.
Job(s) ==
  /\ s.prompts \in Nat \ {0} /\ s.n \in Nat \ {0} /\ s.tp \in Nat \ {0} /\ s.sp \in Nat \ {0}
  /\ s.maxTokens \in Nat \ {0} /\ s.microSize \in Nat \ {0}
  /\ s.miniSize \in Nat \ {0} /\ s.epochs \in Nat \ {0}
  /\ s.layout \in Layouts /\ s.backend \in {"fsdp", "megatron"}
  /\ s.backend = "megatron" => s.tp = 1 /\ s.sp = 1 /\ ~s.dynamic /\ ~s.polaris
  /\ WorldSize(s.layout) % s.tp = 0 /\ WorldSize(s.layout) % s.sp = 0
  /\ s.validate \/ (s.prompts * s.n) % WorldSize(s.layout) = 0
  /\ s.dynamic => s.maxTokens >= Width(s)

\* What the assumption says of the job at hand.
LEMMA JobIs ==
  ASSUME PathIs
  PROVE  Job(setup)
BY SetupAssumption DEF PathIs, Job

\* The width is that of the longest answer.
LEMMA WidthIs ==
  ASSUME PathIs
  PROVE  /\ Width(setup) \in Nat \ {0}
         /\ \A a \in setup.replies : a[1] \in Nat /\ PromptLen + a[1] <= Width(setup)
<1> DEFINE A == setup.replies
           S == {a[1] : a \in A}
           f == [a \in A |-> a[1]]
<1>1. IsFiniteSet(A) /\ A # {} /\ A \subseteq Nat \X BOOLEAN
  BY SetupAssumption DEF PathIs
<1>2. Width(setup) = PromptLen + CHOOSE n \in S : \A a \in A : a[1] <= n
  BY DEF Width
<1> HIDE DEF A
<1>3. \A a \in A : a[1] \in Nat
  BY <1>1
<1>4. f \in Surjection(A, S)
  BY DEF Surjection
<1>5. S # {}
  BY <1>1
<1>6. S \subseteq Nat
  BY <1>3
<1>7. \A a \in A : a[1] \in S
  OBVIOUS
<1>8. \A x \in S : \E a \in A : x = a[1]
  OBVIOUS
<1> HIDE DEF S, f
<1>9. IsFiniteSet(S)
  BY <1>1, <1>4, FS_Surjection
<1>10. \E x \in S : \A y \in S : y <= x
  BY <1>5, <1>6, <1>9, LargestOf
<1>11. \E n \in S : \A a \in A : a[1] <= n
  BY <1>7, <1>10
<1> DEFINE m == CHOOSE n \in S : \A a \in A : a[1] <= n
<1>12. m \in S /\ \A a \in A : a[1] <= m
  BY <1>11, Zenon
<1>13. Width(setup) = PromptLen + m
  BY <1>2, Zenon
<1> HIDE DEF m
<1>14. PromptLen = 1 /\ m \in Nat
  BY <1>6, <1>12 DEF PromptLen
<1> QED
  BY <1>3, <1>12, <1>13, <1>14 DEF A

\* There are ranks and samples, and in training the samples divide over the ranks.
LEMMA WorldHere ==
  ASSUME PathIs
  PROVE  World \in Nat \ {0} /\ Samples \in Nat \ {0} /\ (~setup.validate => Samples % World = 0)
<1>1. Job(setup)
  BY JobIs
<1>2. setup.layout \in Layouts /\ setup.prompts \in Nat \ {0} /\ setup.n \in Nat \ {0}
      /\ (setup.validate \/ (setup.prompts * setup.n) % WorldSize(setup.layout) = 0)
  BY <1>1 DEF Job
<1>3. WorldSize(setup.layout) \in Nat \ {0}
  BY <1>2, WorldIs DEF Modes
<1>4. setup.prompts * setup.n \in Nat \ {0}
  BY <1>2, ProductPos
<1> QED
  BY <1>2, <1>3, <1>4 DEF World, Samples

\* A method has one of the three modes.
LEMMA ModeIn ==
  ASSUME NEW method
  PROVE  ModeOf(method) \in Modes
BY DEF ModeOf, Modes

\* What divides over the ranks divides over the chunks of any mode.
LEMMA ChunksDivide ==
  ASSUME NEW layout \in Layouts, NEW mode \in Modes, NEW n \in Nat, n % WorldSize(layout) = 0
  PROVE  n % NumChunks(mode, layout) = 0
<1> DEFINE W == WorldSize(layout)
           k == NumChunks(mode, layout)
<1>1. W \in Nat \ {0} /\ k \in Nat \ {0}
  BY WorldIs
<1>2. \E m \in Nat \ {0} : W = m * k
  BY WorldIs
<1> HIDE DEF W, k
<1>3. PICK m \in Nat \ {0} : W = m * k
  BY <1>2
<1> DEFINE q == n \div W
           qm == q * m
<1>4. n % W = 0
  BY DEF W
<1>5. n = q * W /\ q \in Nat
  BY <1>1, <1>4
<1> HIDE DEF q
<1>6. n = qm * k /\ qm \in Nat
  BY <1>1, <1>3, <1>5
<1> HIDE DEF qm
<1>7. (qm * k) % k = 0
  BY <1>1, <1>6, MultipleDivides
<1>8. n % k = 0
  BY <1>6, <1>7
<1> QED
  BY <1>8 DEF k

-----------------------------------------------------------------------------
\* A call

\* The chunks are sent, and nothing of the call is done.
Sends(method, waiting, b) ==
  /\ phase' = waiting
  /\ sent' = DispatchProto(ModeOf(method), setup.layout, b)
  /\ out' = NoRows /\ mini' = 0 /\ plan' = <<>> /\ forwards' = 0

\* A call is sent, or chunk raises.
LEMMA SendsIt ==
  ASSUME NEW method, NEW waiting, NEW b, Send(method, waiting, b)
  PROVE  \/ CanChunk(b, NumChunks(ModeOf(method), setup.layout)) /\ Sends(method, waiting, b)
         \/ ~CanChunk(b, NumChunks(ModeOf(method), setup.layout)) /\ phase' = "raised" /\ UNCHANGED <<sent, out, call>>
BY DEF Send, Sends

\* After a call is sent no rank has answered or begun.
LEMMA SendsRanks ==
  ASSUME setup' = setup, NEW method, NEW waiting, NEW b, Sends(method, waiting, b)
  PROVE  RanksAre' /\ PlanIs' /\ \A r \in Ranks : out'[r] = <<>>
<1>1. Ranks' = Ranks
  BY DEF Ranks
<1>2. sent' = [r \in Ranks |-> sent'[r]]
  BY DEF Sends, DispatchProto, Ranks
<1>3. out' = [r \in Ranks |-> out'[r]] /\ \A r \in Ranks : out'[r] = <<>>
  BY DEF Sends, NoRows
<1>4. plan' = <<>> /\ forwards' = 0
  BY DEF Sends
<1> QED
  BY <1>1, <1>2, <1>3, <1>4 DEF RanksAre, PlanIs

-----------------------------------------------------------------------------
\* What is asked of the model

\* The prompts, block by block.
LEMMA TiledIs ==
  ASSUME PathIs
  PROVE  /\ Listed(Tiled, Samples)
         /\ \A i \in 1..Samples : ((i - 1) % setup.prompts) + 1 \in 1..setup.prompts
                                  /\ Tiled[i] = [prompt |-> ((i - 1) % setup.prompts) + 1]
<1> DEFINE p == setup.prompts
           n == setup.n
           t == Tiled
           N == Samples
<1>1. p \in Nat \ {0} /\ n \in Nat \ {0} /\ N \in Nat \ {0}
  BY JobIs, WorldHere DEF Job
<1>2. N = p * n
  BY DEF Samples
<1>3. Prompts = [i \in 1..p |-> [prompt |-> i]]
  BY DEF Prompts
<1> HIDE DEF p, n, N
<1>4. Len(Prompts) = p
  BY <1>1, <1>3
<1>5. t = [i \in 1..N |-> Prompts[((i - 1) % p) + 1]]
  BY <1>2, <1>4 DEF Tiled, Tile, p, n
<1> HIDE DEF t
<1>6. \A i \in 1..N : ((i - 1) % p) + 1 \in 1..p
  BY <1>1
<1>7. \A i \in 1..N : t[i] = [prompt |-> ((i - 1) % p) + 1]
  BY <1>3, <1>5, <1>6
<1>8. t = [i \in 1..N |-> t[i]]
  BY <1>5
<1> QED
  BY <1>1, <1>6, <1>7, <1>8 DEF Listed, t, p, N

\* How much _validate pads.
Padding == IF setup.validate THEN PadSize(Tiled, World) ELSE 0
Asked == IF setup.validate THEN PadToDivisor(Tiled, World) ELSE Tiled

\* The padded requests divide over the ranks, and the requests come first in them.
LEMMA AskedIs ==
  ASSUME PathIs
  PROVE  /\ Padding \in Nat /\ Listed(Asked, Samples + Padding) /\ (Samples + Padding) % World = 0
         /\ \A i \in 1..Samples : Asked[i] = Tiled[i]
<1> DEFINE t == Tiled
           N == Samples
           W == World
           S == {t[i] : i \in 1..N}
           u == PadToDivisor(t, W)
           pad == PadSize(t, W)
<1>1. N \in Nat \ {0} /\ W \in Nat \ {0} /\ (~setup.validate => N % W = 0)
  BY WorldHere
<1>2. Listed(t, N)
  BY TiledIs
<1> HIDE DEF t, N, W
<1>3. Len(t) = N
  BY <1>2, ListedIs
<1>4. t \in Seq(S)
  <2>1. \A i \in 1..N : t[i] \in S
    OBVIOUS
  <2> HIDE DEF S
  <2> QED
    BY <1>2, <2>1, ListedSeq
<1> HIDE DEF S
<1>5. CASE setup.validate
  <2>1. pad \in 0..(W - 1)
    BY <1>1, <1>4, UnpadAfterPad
  <2>2. CanChunk(u, W)
    BY <1>1, <1>4, UnpadAfterPad
  <2>3. u = [i \in 1..(N + pad) |-> t[((i - 1) % N) + 1]]
    BY <1>3 DEF PadToDivisor
  <2> HIDE DEF u, pad
  <2>4. pad \in Nat /\ N + pad \in Nat
    BY <1>1, <2>1
  <2>5. u = [i \in 1..(N + pad) |-> u[i]]
    BY <2>3
  <2>6. Listed(u, N + pad)
    BY <2>4, <2>5 DEF Listed
  <2>7. Len(u) = N + pad
    BY <2>6, ListedIs
  <2>8. (N + pad) % W = 0
    BY <2>2, <2>7 DEF CanChunk
  <2>9. \A i \in 1..N : u[i] = t[i]
    <3> TAKE i \in 1..N
    <3>1. i \in 1..(N + pad)
      BY <1>1, <2>4
    <3>2. i - 1 \in 0..(N - 1) /\ (i - 1) % N = i - 1
      BY <1>1
    <3> QED
      BY <2>3, <3>1, <3>2
  <2>10. Padding = pad /\ Asked = u
    BY <1>5 DEF Padding, Asked, pad, u, t, W
  <2> QED
    BY <2>4, <2>6, <2>8, <2>9, <2>10 DEF t, N, W
<1>6. CASE ~setup.validate
  <2>1. Padding = 0 /\ Asked = t
    BY <1>6 DEF Padding, Asked, t
  <2>2. N + 0 = N
    BY <1>1
  <2> QED
    BY <1>1, <1>2, <1>6, <2>1, <2>2 DEF t, N, W
<1> QED
  BY <1>5, <1>6

\* It can be chunked.
LEMMA AskedChunks ==
  ASSUME PathIs, NEW method
  PROVE  CanChunk(Asked, NumChunks(ModeOf(method), setup.layout))
<1> DEFINE m == Samples + Padding
           mode == ModeOf(method)
           L == setup.layout
           k == NumChunks(mode, L)
<1>1. Samples \in Nat
  BY WorldHere
<1>2. Padding \in Nat /\ Listed(Asked, m) /\ m % World = 0
  BY AskedIs
<1>3. mode \in Modes
  BY ModeIn
<1>4. L \in Layouts
  BY JobIs DEF Job
<1>5. m \in Nat /\ m % WorldSize(L) = 0
  BY <1>1, <1>2 DEF World
<1> HIDE DEF m, L, mode
<1>6. m % k = 0
  BY <1>3, <1>4, <1>5, ChunksDivide
<1>7. Len(Asked) = m
  BY <1>2, ListedIs
<1> QED
  BY <1>6, <1>7 DEF CanChunk, mode, L

\* The batch of samples can be chunked.
LEMMA SamplesChunk ==
  ASSUME PathIs, ~setup.validate, NEW method, NEW b, Listed(b, Samples)
  PROVE  CanChunk(b, NumChunks(ModeOf(method), setup.layout))
<1> DEFINE mode == ModeOf(method)
           L == setup.layout
           N == Samples
           k == NumChunks(mode, L)
<1>1. N \in Nat /\ N % World = 0
  BY WorldHere
<1>2. mode \in Modes
  BY ModeIn
<1>3. L \in Layouts
  BY JobIs DEF Job
<1>4. N % WorldSize(L) = 0
  BY <1>1 DEF World
<1>5. Len(b) = N
  BY ListedIs
<1> HIDE DEF N, L, mode
<1>6. N % k = 0
  BY <1>1, <1>2, <1>3, <1>4, ChunksDivide
<1> QED
  BY <1>5, <1>6 DEF CanChunk, mode, L

\* What the ranks have got.
LEMMA SentIs ==
  ASSUME NEW layout \in Layouts, NEW mode \in Modes, NEW b, NEW n \in Nat \ {0}, Listed(b, n),
         NEW k, k = NumChunks(mode, layout), n % k = 0
  PROVE  /\ Dispatched(DispatchProto(mode, layout, b), mode, layout, b, n \div k)
         /\ n \div k \in Nat \ {0} /\ n = k * (n \div k)
<1> DEFINE size == n \div k
<1>1. k \in Nat \ {0}
  BY WorldIs
<1>2. n = k * size /\ size \in Nat
  BY <1>1
<1>3. size # 0
  <2>1. size = 0 => k * size = 0
    BY <1>1
  <2> QED
    BY <1>2, <2>1
<1> HIDE DEF size
<1>4. Len(b) = n
  BY ListedIs
<1>5. Len(b) = NumChunks(mode, layout) * size
  BY <1>2, <1>4
<1>6. Dispatched(DispatchProto(mode, layout, b), mode, layout, b, size)
  BY <1>2, <1>5, DispatchIs
<1> QED
  BY <1>2, <1>3, <1>6 DEF size

-----------------------------------------------------------------------------
\* The invariant at the start and in the generation

\* At the start.
LEMMA FlowInit ==
  ASSUME Init
  PROVE  FlowInv
<1>1. setup \in Setups /\ phase = "begin" /\ batch = <<>> /\ group = 1 /\ rewards = <<>>
      /\ sent = NoRows /\ out = NoRows /\ plan = <<>> /\ forwards = 0
  BY DEF Init
<1>2. PathIs
  BY <1>1 DEF PathIs, Sampled, Generated, ColumnMethods, UpdateMethods
<1>3. BatchIs
  BY <1>1 DEF BatchIs, Sampled, Generated, ColumnMethods, UpdateMethods
<1>4. GroupIs
  <2>1. setup.prompts \in Nat \ {0}
    BY <1>2, JobIs DEF Job
  <2> QED
    BY <1>1, <2>1 DEF GroupIs
<1>5. RewardsAre
  BY <1>1 DEF RewardsAre
<1>6. RanksAre /\ PlanIs
  BY <1>1 DEF RanksAre, PlanIs, NoRows
<1>7. GenerationIs /\ CallIs
  BY <1>1 DEF GenerationIs, CallIs, Generating, ColumnMethods, UpdateMethods
<1> QED
  BY <1>2, <1>3, <1>4, <1>5, <1>6, <1>7 DEF FlowInv

\* The ranks' rows, mini-batches and micro-batches do not change in a mini-batch.
LEMMA SameData ==
  ASSUME setup' = setup, phase' = phase, sent' = sent, mini' = mini
  PROVE  /\ MaxTokens' = MaxTokens /\ Planned' = Planned /\ (MinisLeft' <=> MinisLeft)
         /\ \A r : DataOf(r)' = DataOf(r) /\ MiniBatch(r)' = MiniBatch(r) /\ MiniBatches(r)' = MiniBatches(r)
<1>1. MaxTokens' = MaxTokens /\ Ranks' = Ranks
  BY DEF MaxTokens, Ranks
<1>2. \A r : DataOf(r)' = DataOf(r)
  BY DEF DataOf, SpGroup
<1>3. \A r : MiniBatches(r)' = MiniBatches(r)
  BY <1>2 DEF MiniBatches
<1>4. \A r : MiniBatch(r)' = MiniBatch(r)
  BY <1>3 DEF MiniBatch
<1>5. \A r : NumMicroBatches(r)' = NumMicroBatches(r)
  BY <1>1, <1>4 DEF NumMicroBatches
<1>6. \A r : MicroBatches(r)' = MicroBatches(r)
  BY <1>4, <1>5 DEF MicroBatches
<1>7. Planned' = Planned
  BY <1>1, <1>6 DEF Planned
<1>8. MinisLeft' <=> MinisLeft
  BY <1>1, <1>3 DEF MinisLeft
<1> QED
  BY <1>1, <1>2, <1>3, <1>4, <1>7, <1>8

\* Nothing of the flow changes.
LEMMA FlowStays ==
  ASSUME FlowInv, UNCHANGED vars
  PROVE  FlowInv'
<1>1. /\ setup' = setup /\ phase' = phase /\ batch' = batch /\ group' = group /\ rewards' = rewards
      /\ sent' = sent /\ out' = out /\ mini' = mini /\ plan' = plan /\ forwards' = forwards
  BY DEF vars, call
<1>2. World' = World /\ Samples' = Samples /\ Ranks' = Ranks /\ Tiled' = Tiled
      /\ Prompts' = Prompts /\ ModeHere' = ModeHere /\ (Tight' <=> Tight)
  BY <1>1 DEF World, Samples, Ranks, Tiled, Prompts, ModeHere, ModeOf, Tight
<1>3. PathIs'
  BY <1>1, <1>2 DEF FlowInv, PathIs
<1>4. BatchIs'
  BY <1>1, <1>2 DEF FlowInv, BatchIs, SampleRows, Fits, KeysAt, ReferenceKeys, ValueKeys
<1>5. GroupIs' /\ RewardsAre' /\ RanksAre' /\ PlanIs'
  BY <1>1, <1>2 DEF FlowInv, GroupIs, RewardsAre, RanksAre, PlanIs
<1>6. GenerationIs'
  BY <1>1, <1>2 DEF FlowInv, GenerationIs, Generating, Requests, Returns, Replies, Answers, Fits, Place
<1>7. CallIs'
  <2>1. MaxTokens' = MaxTokens /\ Planned' = Planned /\ (MinisLeft' <=> MinisLeft)
    BY <1>1, SameData
  <2>2. Share' = Share
    BY <1>1, <1>2 DEF Share
  <2> QED
    BY <1>1, <1>2, <2>1, <2>2 DEF FlowInv, CallIs, ColumnRows, InOrderOf
<1> QED
  BY <1>3, <1>4, <1>5, <1>6, <1>7 DEF FlowInv

\* Begin keeps the invariant: the padded requests divide over the ranks, so the call
\* is sent.
LEMMA FlowBegin ==
  ASSUME FlowInv, Begin
  PROVE  FlowInv'
<1> DEFINE m == "generate_sequences"
<1>1. /\ phase = "begin" /\ PathIs /\ GroupIs /\ RewardsAre
      /\ setup' = setup /\ group' = group /\ rewards' = rewards
      /\ batch' = (IF setup.validate THEN Tiled ELSE Prompts)
      /\ Send(m, m, Asked)
  BY DEF FlowInv, Begin, Asked, Tiled, World
<1>2. CanChunk(Asked, NumChunks(ModeOf(m), setup.layout))
  BY <1>1, AskedChunks
<1>3. Sends(m, m, Asked)
  BY <1>1, <1>2, SendsIt
<1>4. phase' = m /\ sent' = DispatchProto(ModeOf(m), setup.layout, Asked)
  BY <1>3 DEF Sends
<1>5. RanksAre' /\ PlanIs' /\ \A r \in Ranks : out'[r] = <<>>
  BY <1>1, <1>3, SendsRanks
<1>6. PathIs'
  BY <1>1, <1>4 DEF PathIs, Sampled, Generated, ColumnMethods, UpdateMethods
<1>7. BatchIs'
  BY <1>1, <1>4 DEF BatchIs, Sampled, Generated, ColumnMethods, UpdateMethods, Tiled, Prompts
<1>8. GroupIs' /\ RewardsAre'
  BY <1>1, <1>4 DEF GroupIs, RewardsAre
<1>9. GenerationIs'
  <2>1. Requests' = Asked
    BY <1>1, <1>4 DEF Requests, Asked, Tiled, Prompts, World
  <2>2. ModeHere' = ModeOf(m) /\ Ranks' = Ranks
    BY <1>1, <1>4 DEF ModeHere, ModeOf, Ranks
  <2> QED
    BY <1>1, <1>2, <1>4, <1>5, <2>1, <2>2 DEF GenerationIs
<1>10. CallIs'
  BY <1>4 DEF CallIs, ColumnMethods, UpdateMethods
<1> QED
  BY <1>5, <1>6, <1>7, <1>8, <1>9, <1>10 DEF FlowInv

\* The samples of a prompt.
LEMMA GroupIn ==
  ASSUME NEW p \in Nat \ {0}, NEW n \in Nat \ {0}, NEW g \in 1..p
  PROVE  /\ (g - 1) * n + 1 \in 1..(p * n) /\ g * n \in ((g - 1) * n + 1)..(p * n)
         /\ g * n - ((g - 1) * n + 1) + 1 = n
         /\ (g - 1) * n \in Nat
<1> DEFINE x == g - 1
           a == x * n
           b == g * n
           c == p * n
<1>1. x \in Nat /\ g = x + 1 /\ g <= p
  OBVIOUS
<1>2. b = a + n
  <2> HIDE DEF x
  <2>1. (x + 1) * n = x * n + n
    BY <1>1
  <2> QED
    BY <1>1, <2>1
<1>3. a \in Nat /\ b \in Nat /\ c \in Nat
  BY <1>1
<1>4. b <= c
  BY <1>1
<1> HIDE DEF a, b, c
<1>5. a + 1 \in 1..c /\ b \in (a + 1)..c /\ b - (a + 1) + 1 = n
  BY <1>2, <1>3, <1>4
<1> QED
  BY <1>3, <1>5 DEF a, b, c, x

\* The samples of the prompt whose turn it is are n rows of the batch.
LEMMA SubSeqListed ==
  ASSUME PathIs, GroupIs, BatchIs, phase \in {"groups", "resample"}, group <= setup.prompts
  PROVE  Listed(SubSeq(batch, (group - 1) * setup.n + 1, group * setup.n), setup.n)
<1> DEFINE p == setup.prompts
           n == setup.n
           lo == (group - 1) * n + 1
           hi == group * n
<1>1. p \in Nat \ {0} /\ n \in Nat \ {0}
  BY JobIs DEF Job
<1>2. group \in 1..p
  BY <1>1 DEF GroupIs
<1>3. Listed(batch, p * n)
  BY DEF BatchIs, Sampled, Generated, SampleRows, Samples
<1> HIDE DEF p, n
<1>4. lo \in 1..(p * n) /\ hi \in lo..(p * n) /\ hi - lo + 1 = n
  BY <1>1, <1>2, GroupIn
<1> DEFINE N == p * n
<1>5. lo \in 1..N /\ hi \in lo..N /\ Listed(batch, N)
  BY <1>3, <1>4
<1> HIDE DEF lo, hi, N
<1>6. Listed(SubSeq(batch, lo, hi), hi - lo + 1)
  BY <1>5, SubSeqIs
<1> QED
  BY <1>4, <1>6 DEF lo, hi, n

\* In the generation every rank has rows, of what is asked.
LEMMA GenerationSizes ==
  ASSUME FlowInv, Generating
  PROVE  \E size \in Nat \ {0} :
           /\ Dispatched(sent, ModeHere, setup.layout, Requests, size)
           /\ Listed(Requests, NumChunks(ModeHere, setup.layout) * size)
<1> DEFINE L == setup.layout
           mode == ModeHere
           k == NumChunks(mode, L)
           b == Requests
<1>1. PathIs /\ BatchIs /\ GroupIs
  BY DEF FlowInv
<1>2. Job(setup)
  BY <1>1, JobIs
<1>3. L \in Layouts /\ mode \in Modes
  BY <1>2, ModeIn DEF Job, ModeHere
<1>4. CanChunk(b, k) /\ sent = DispatchProto(mode, L, b)
  BY DEF FlowInv, GenerationIs
<1>5. \E n \in Nat \ {0} : Listed(b, n)
  <2>1. CASE phase = "resample"
    <3>1. b = SubSeq(batch, (group - 1) * setup.n + 1, group * setup.n)
      BY <2>1 DEF Requests
    <3>2. group <= setup.prompts /\ phase \in {"groups", "resample"}
      BY <1>1, <2>1 DEF GroupIs
    <3>3. Listed(b, setup.n)
      BY <1>1, <3>1, <3>2, SubSeqListed
    <3> QED
      BY <1>2, <3>3 DEF Job
  <2>2. CASE phase # "resample"
    <3>1. b = Asked
      BY <2>2 DEF Requests, Asked
    <3> DEFINE m == Samples + Padding
    <3>2. Listed(Asked, m) /\ Padding \in Nat /\ Samples \in Nat \ {0}
      BY <1>1, AskedIs, WorldHere
    <3>3. m \in Nat \ {0}
      BY <3>2
    <3> HIDE DEF m
    <3> QED
      BY <3>1, <3>2, <3>3
  <2> QED
    BY <2>1, <2>2
<1> HIDE DEF L, mode, k, b
<1>6. PICK n \in Nat \ {0} : Listed(b, n)
  BY <1>5
<1>7. Len(b) = n
  BY <1>6, ListedIs
<1>8. n % k = 0 /\ k = NumChunks(mode, L)
  BY <1>4, <1>7 DEF CanChunk, k
<1>9. /\ Dispatched(DispatchProto(mode, L, b), mode, L, b, n \div k)
      /\ n \div k \in Nat \ {0} /\ n = k * (n \div k)
  BY <1>3, <1>6, <1>8, SentIs
<1> DEFINE size == n \div k
<1>10. size \in Nat \ {0} /\ Dispatched(sent, mode, L, b, size) /\ Listed(b, k * size)
  BY <1>4, <1>6, <1>9
<1> HIDE DEF size
<1> QED
  BY <1>10 DEF L, mode, k, b

\* The ranks of a tensor parallel group have the same chunk.
LEMMA SameChunk ==
  ASSUME NEW layout \in Layouts, NEW mode \in Modes, mode # "DP_COMPUTE_PROTO",
         NEW r \in Nat, NEW q \in Nat, r \div layout.tp = q \div layout.tp
  PROVE  ChunkOf(mode, layout, r) = ChunkOf(mode, layout, q)
<1> DEFINE t == layout.tp
           c == layout.cp
           d == layout.dp
           tc == t * c
<1>1. t \in Nat \ {0} /\ c \in Nat \ {0} /\ d \in Nat \ {0}
  BY DEF Layouts
<1>2. tc \in Nat \ {0}
  BY <1>1, ProductPos
<1>3. r \div t = q \div t
  OBVIOUS
<1> HIDE DEF t, c, d
<1>4. r \div tc = q \div tc
  <2>1. r \div (t * c) = (r \div t) \div c
    BY <1>1, DivDiv
  <2>2. q \div (t * c) = (q \div t) \div c
    BY <1>1, DivDiv
  <2> QED
    BY <1>3, <2>1, <2>2
<1>5. r \div (tc * d) = q \div (tc * d)
  <2> HIDE DEF tc
  <2>1. r \div (tc * d) = (r \div tc) \div d
    BY <1>1, <1>2, DivDiv
  <2>2. q \div (tc * d) = (q \div tc) \div d
    BY <1>1, <1>2, DivDiv
  <2> QED
    BY <1>4, <2>1, <2>2
<1>6. /\ CpRank(layout, r) = CpRank(layout, q) /\ DpRank(layout, r) = DpRank(layout, q)
      /\ PpRank(layout, r) = PpRank(layout, q)
  BY <1>3, <1>4, <1>5 DEF CpRank, DpRank, PpRank, t, c, d
<1> QED
  BY <1>6 DEF ChunkOf, Modes

\* The model's answers to rows.
AnswersTo(rows, r, reply) ==
  [i \in 1..Len(rows) |-> [input |-> Answer(rows[i], <<r, i>>, reply[i]),
                           responses |-> Answer(rows[i], <<r, i>>, reply[i])]]

\* The answers answer the rows, and none is longer than an answer may be.
LEMMA AnswersFit ==
  ASSUME PathIs, NEW rows, NEW m, Listed(rows, m), NEW r, NEW reply \in [1..m -> setup.replies]
  PROVE  /\ Replies(AnswersTo(rows, r, reply), rows) /\ Listed(AnswersTo(rows, r, reply), m)
         /\ \A i \in 1..m : AnswersTo(rows, r, reply)[i].input.at = <<r, i>>
<1> DEFINE u == AnswersTo(rows, r, reply)
<1>1. m \in Nat /\ Len(rows) = m
  BY ListedIs
<1>2. u = [i \in 1..m |-> [input |-> Answer(rows[i], <<r, i>>, reply[i]),
                           responses |-> Answer(rows[i], <<r, i>>, reply[i])]]
  BY <1>1 DEF AnswersTo
<1> HIDE DEF u
<1>3. ASSUME NEW i \in 1..m
      PROVE  Answers(u[i], rows[i]) /\ u[i].input.at = <<r, i>>
  <2> DEFINE a == Answer(rows[i], <<r, i>>, reply[i])
             e == reply[i]
  <2>1. e \in setup.replies
    OBVIOUS
  <2>2. /\ a.to = rows[i].prompt /\ a.len = e[1]
        /\ a.at = <<r, i>> /\ a.again = ("input" \in DOMAIN rows[i])
    BY DEF Answer
  <2> HIDE DEF e
  <2>3. e[1] \in Nat /\ PromptLen + e[1] <= Width(setup)
    BY <2>1, WidthIs
  <2>4. u[i] = [input |-> a, responses |-> a]
    BY <1>2
  <2> HIDE DEF a
  <2>5. DOMAIN u[i] = {"input", "responses"} /\ u[i].input = a /\ u[i].responses = a
    BY <2>4
  <2> QED
    BY <2>2, <2>3, <2>5 DEF Answers, Fits
<1>4. Listed(u, m)
  <2>1. u = [i \in 1..m |-> u[i]]
    BY <1>2
  <2> QED
    BY <1>1, <2>1 DEF Listed
<1> QED
  BY <1>1, <1>3, <1>4 DEF Replies, u

\* The i-th rank of the engine whose first is r.
InEngine(W, t, r, i) ==
  r + i - 1 \in 0..(W - 1) /\ (r + i - 1) % t = i - 1 /\ (r + i - 1) \div t = r \div t /\ r - (r % t) = r

\* The ranks of an engine are ranks, and are in that engine.
LEMMA EngineRanks ==
  ASSUME NEW W \in Nat \ {0}, NEW t \in Nat \ {0}, W % t = 0, NEW r \in 0..(W - 1), r = r - (r % t) + 1 - 1,
         NEW i \in 1..t
  PROVE  InEngine(W, t, r, i)
<1> DEFINE a == r \div t
           g == W \div t
           at == a * t
           gt == g * t
           e == i - 1
<1>1. r % t = 0
  <2>1. r % t \in Nat
    OBVIOUS
  <2> QED
    BY <2>1
<1>2. r = at /\ W = gt /\ a \in Nat /\ g \in Nat /\ e \in Nat /\ e < t /\ r + i - 1 = r + e
  BY <1>1
<1>3. a < g
  <2>1. r < g * t /\ r \in Nat
    BY <1>2
  <2> QED
    BY <1>2, <2>1, DivBelow
<1> HIDE DEF a, g, e
<1>4. (a * t + e) \div t = a /\ (a * t + e) % t = e
  BY <1>2, DivModUnique
<1>5. a \in 0..(g - 1) /\ e \in 0..(t - 1) /\ g \in Nat \ {0}
  BY <1>2, <1>3
<1>6. a * t + e \in 0..(g * t - 1)
  BY <1>5, TwoDigits
<1>7. at + e \in 0..(gt - 1) /\ (at + e) \div t = a /\ (at + e) % t = e
  BY <1>4, <1>6
<1> HIDE DEF at, gt
<1>8. r + i - 1 = at + e
  BY <1>2
<1> QED
  BY <1>1, <1>2, <1>7, <1>8 DEF a, e, InEngine

\* An engine of FSDP answers each of its ranks the rows it was sent.
LEMMA FsdpReplies ==
  ASSUME PathIs, setup.backend = "fsdp", NEW size \in Nat,
         \A q \in Ranks : Listed(sent[q], size),
         NEW r \in Ranks, r = Engine(r)[1],
         NEW reply \in [1..Len(EngineRows(r)) -> setup.replies],
         NEW q \in Ranks, q \in ToSet(Engine(r))
  PROVE  Returns(EngineReturns(r, q, AnswersTo(EngineRows(r), r, reply)), q)
<1> DEFINE t == setup.tp
           W == World
           E == Engine(r)
           rows == EngineRows(r)
           parts == [i \in DOMAIN E |-> sent[E[i]]]
           u == AnswersTo(rows, r, reply)
           d == Chunk(u, t)
<1>1. t \in Nat \ {0} /\ W \in Nat \ {0} /\ W % t = 0 /\ Ranks = 0..(W - 1)
  BY JobIs, WorldHere DEF Job, World, Ranks, RanksOf
<1>2. E = [i \in 1..t |-> r - (r % t) + i - 1]
  BY DEF Engine
<1>3. rows = Concat(parts)
  BY DEF EngineRows
<1>4. EngineReturns(r, q, u) = d[(q % t) + 1]
  BY DEF EngineReturns
<1> HIDE DEF t, W, E, rows
<1>5. r = r - (r % t) + 1 - 1
  BY <1>1, <1>2 DEF E
<1>6. \A i \in 1..t : r + i - 1 \in Ranks /\ (r + i - 1) % t = i - 1 /\ r - (r % t) = r
  <2>1. r \in 0..(W - 1)
    BY <1>1
  <2> TAKE i \in 1..t
  <2>2. r = r - (r % t) + 1 - 1 /\ W \in Nat \ {0} /\ t \in Nat \ {0} /\ W % t = 0
    BY <1>1, <1>5
  <2>3. InEngine(W, t, r, i)
    BY <2>1, <2>2, EngineRanks
  <2> QED
    BY <1>1, <2>3 DEF InEngine
<1>7. \A i \in 1..t : E[i] = r + i - 1
  BY <1>2, <1>6
<1>8. PICK i \in 1..t : q = E[i]
  BY <1>2 DEF ToSet, E
<1>9. q % t = i - 1 /\ q = r + i - 1
  BY <1>6, <1>7, <1>8
<1>10. Len(parts) = t /\ \A j \in 1..t : parts[j] = sent[E[j]] /\ Listed(parts[j], size)
  <2>1. DOMAIN E = 1..t
    BY <1>2
  <2>2. \A j \in 1..t : E[j] \in Ranks
    BY <1>6, <1>7
  <2> QED
    BY <1>1, <2>1, <2>2
<1> HIDE DEF parts
<1>11. Len(parts[1]) = size
  <2>1. Listed(parts[1], size)
    BY <1>1, <1>10
  <2> QED
    BY <2>1, ListedIs
<1>12. InBlocks(rows, parts, t, size)
  BY <1>1, <1>3, <1>10, <1>11, ConcatIs
<1> DEFINE n == t * size
<1>13. Listed(rows, n)
  BY <1>12 DEF InBlocks
<1>14. reply \in [1..n -> setup.replies]
  <2>1. Len(rows) = n
    BY <1>13, ListedIs
  <2> QED
    BY <2>1 DEF rows
<1> HIDE DEF u, n
<1>15. Replies(u, rows) /\ Listed(u, n) /\ \A y \in 1..n : u[y].input.at = <<r, y>>
  BY <1>13, <1>14, AnswersFit DEF u
<1>16. Len(u) = t * size /\ Len(rows) = n
  BY <1>13, <1>15, ListedIs DEF n
<1> HIDE DEF d
<1>17. Chunked(d, u, t, size)
  BY <1>1, <1>16, ChunkIs DEF d
<1>18. Listed(d[i], size) /\ \A x \in 1..size : d[i][x] = u[(i - 1) * size + x]
  BY <1>17 DEF Chunked
<1>19. \A x \in 1..size : /\ (i - 1) * size + x \in 1..n
                          /\ rows[(i - 1) * size + x] = sent[q][x]
  <2> TAKE x \in 1..size
  <2>1. (i - 1) * size + x \in 1..n
    BY <1>1, PlaceIn DEF n
  <2>2. rows[(i - 1) * size + x] = parts[i][x]
    BY <1>12 DEF InBlocks
  <2>3. parts[i] = sent[q]
    BY <1>8, <1>10
  <2> QED
    BY <2>1, <2>2, <2>3
<1>20. \A x \in 1..size : Answers(d[i][x], sent[q][x]) /\ d[i][x].input.at = <<r, (i - 1) * size + x>>
  <2> TAKE x \in 1..size
  <2> DEFINE y == (i - 1) * size + x
  <2>1. y \in 1..n /\ rows[y] = sent[q][x] /\ d[i][x] = u[y]
    BY <1>18, <1>19
  <2>3. y = (i - 1) * size + x
    OBVIOUS
  <2> HIDE DEF y
  <2>2. Answers(u[y], rows[y]) /\ u[y].input.at = <<r, y>>
    BY <1>15, <1>16, <2>1 DEF Replies
  <2> QED
    BY <2>1, <2>2, <2>3
<1>21. Len(sent[q]) = size
  <2>1. Listed(sent[q], size)
    OBVIOUS
  <2> QED
    BY <2>1, ListedIs
<1>22. Replies(d[i], sent[q])
  BY <1>18, <1>20, <1>21 DEF Replies
<1>23. (q % t) + 1 = i /\ i - 1 = q % t /\ q - (q % t) = r
  BY <1>1, <1>9
<1>24. EngineReturns(r, q, u) = d[i]
  BY <1>4, <1>23
<1>25. \A x \in 1..size : d[i][x].input.at = Place(q, size, x)
  BY <1>20, <1>23 DEF Place, t
<1> QED
  BY <1>21, <1>22, <1>24, <1>25 DEF u, rows, Returns

\* The ranks of an engine of Megatron were sent the same.
LEMMA MegatronReplies ==
  ASSUME PathIs, setup.backend = "megatron", NEW mode \in Modes, mode # "DP_COMPUTE_PROTO",
         NEW b, sent = DispatchProto(mode, setup.layout, b),
         NEW size, \A q \in Ranks : Listed(sent[q], size),
         NEW r \in Ranks, r = Engine(r)[1],
         NEW reply \in [1..Len(EngineRows(r)) -> setup.replies],
         NEW q \in Ranks, q \in ToSet(Engine(r))
  PROVE  Returns(EngineReturns(r, q, AnswersTo(EngineRows(r), r, reply)), q)
<1> DEFINE L == setup.layout
           t == L.tp
           E == Engine(r)
           rows == EngineRows(r)
           u == AnswersTo(rows, r, reply)
<1>1. L \in Layouts
  BY JobIs DEF Job
<1>2. t \in Nat \ {0}
  BY <1>1 DEF Layouts
<1>3. Ranks = RanksOf(L) /\ Ranks \subseteq Nat
  BY DEF Ranks, RanksOf
<1>4. E = [i \in 1..t |-> r - (r % t) + i - 1]
  BY DEF Engine, TpRank
<1>5. rows = sent[r] /\ EngineReturns(r, q, u) = u
  BY DEF EngineRows, EngineReturns
<1> HIDE DEF t, E, rows, u
<1>6. r % t = 0
  <2>1. r = r - (r % t) + 1 - 1 /\ r \in Nat
    BY <1>2, <1>3, <1>4 DEF E
  <2>2. r % t \in Nat
    BY <1>2, <2>1
  <2> QED
    BY <2>1, <2>2
<1>7. PICK i \in 1..t : q = E[i]
  BY <1>4 DEF ToSet, E
<1>8. q \div t = r \div t
  <2> DEFINE a == r \div t
             e == i - 1
  <2>1. r = a * t /\ a \in Nat /\ e \in Nat /\ e < t
    BY <1>2, <1>3, <1>6
  <2>2. q = a * t + e
    BY <1>2, <1>4, <1>6, <1>7, <2>1
  <2> HIDE DEF a, e
  <2>3. (a * t + e) \div t = a
    BY <1>2, <2>1, DivModUnique
  <2> QED
    BY <2>2, <2>3 DEF a
<1>9. ChunkOf(mode, L, r) = ChunkOf(mode, L, q)
  BY <1>1, <1>3, <1>8, SameChunk DEF t
<1>10. sent[q] = sent[r]
  BY <1>3, <1>9 DEF DispatchProto
<1>11. Listed(rows, size)
  BY <1>5
<1>12. Len(rows) = size
  BY <1>11, ListedIs
<1>13. reply \in [1..size -> setup.replies]
  BY <1>12 DEF rows
<1>14. Replies(u, rows) /\ \A x \in 1..size : u[x].input.at = <<r, x>>
  BY <1>11, <1>13, AnswersFit DEF u
<1>15. q - (q % t) = r
  <2> DEFINE a == r \div t
             e == i - 1
  <2>1. r = a * t /\ a \in Nat /\ e \in Nat /\ e < t
    BY <1>2, <1>3, <1>6
  <2>2. q = a * t + e
    BY <1>2, <1>4, <1>6, <1>7, <2>1
  <2> HIDE DEF a, e
  <2>3. (a * t + e) % t = e
    BY <1>2, <2>1, DivModUnique
  <2> DEFINE at == a * t
  <2>4. r = at /\ q = at + e /\ (at + e) % t = e /\ r \in Nat
    BY <1>3, <2>1, <2>2, <2>3
  <2> HIDE DEF at
  <2> QED
    BY <2>1, <2>4
<1>16. \A x \in 1..size : u[x].input.at = Place(q, size, x)
  BY <1>14, <1>15 DEF Place, t
<1>17. Len(sent[q]) = size
  BY <1>5, <1>10, <1>12
<1> QED
  BY <1>5, <1>10, <1>14, <1>16, <1>17 DEF u, rows, Returns

-----------------------------------------------------------------------------
\* The invariant in the generation

\* What the job alone decides.
LEMMA SameJob ==
  ASSUME setup' = setup
  PROVE  /\ World' = World /\ Samples' = Samples /\ Ranks' = Ranks /\ Tiled' = Tiled
         /\ Prompts' = Prompts /\ (Tight' <=> Tight)
BY DEF World, Samples, Ranks, Tiled, Prompts, Tight

\* The driver does nothing.
LEMMA DriverStays ==
  ASSUME FlowInv, setup' = setup, phase' = phase, batch' = batch, group' = group, rewards' = rewards
  PROVE  PathIs' /\ BatchIs' /\ GroupIs' /\ RewardsAre'
<1>1. World' = World /\ Samples' = Samples /\ Tiled' = Tiled /\ Prompts' = Prompts /\ (Tight' <=> Tight)
  BY SameJob
<1>2. PathIs'
  BY <1>1 DEF FlowInv, PathIs
<1>3. BatchIs'
  BY <1>1 DEF FlowInv, BatchIs, SampleRows, Fits, KeysAt, ReferenceKeys, ValueKeys
<1>4. GroupIs' /\ RewardsAre'
  BY <1>1 DEF FlowInv, GroupIs, RewardsAre
<1> QED
  BY <1>2, <1>3, <1>4

\* An engine generates the answers to what its ranks were sent.
LEMMA EngineReplies ==
  ASSUME FlowInv, Generating, NEW r \in Ranks, r = Engine(r)[1],
         NEW reply \in [1..Len(EngineRows(r)) -> setup.replies],
         NEW q \in Ranks, q \in ToSet(Engine(r))
  PROVE  Returns(EngineReturns(r, q, AnswersTo(EngineRows(r), r, reply)), q)
<1> DEFINE mode == ModeHere
           b == Requests
<1>1. PathIs
  BY DEF FlowInv
<1>2. PICK size \in Nat \ {0} : Dispatched(sent, mode, setup.layout, b, size)
  BY GenerationSizes
<1>3. mode \in Modes
  BY ModeIn DEF ModeHere
<1>4. \A x \in Ranks : Listed(sent[x], size)
  BY <1>2 DEF Dispatched, Ranks
<1>5. sent = DispatchProto(mode, setup.layout, b)
  BY DEF FlowInv, GenerationIs
<1>6. CASE setup.backend = "fsdp"
  <2>1. size \in Nat
    OBVIOUS
  <2> QED
    BY <1>1, <1>4, <1>6, <2>1, FsdpReplies
<1>7. CASE setup.backend = "megatron"
  <2>1. mode # "DP_COMPUTE_PROTO"
    BY <1>7 DEF ModeHere, ModeOf
  <2> HIDE DEF mode, b
  <2> QED
    BY <1>1, <1>3, <1>4, <1>5, <1>7, <2>1, MegatronReplies
<1>8. setup.backend \in {"fsdp", "megatron"}
  BY <1>1, JobIs DEF Job
<1> QED
  BY <1>6, <1>7, <1>8

\* A rank that generates keeps the invariant: what it returns answers what it was
\* sent.
LEMMA FlowGenerate ==
  ASSUME FlowInv, NEW r \in Ranks, GenerateSequences(r)
  PROVE  FlowInv'
<1>1. /\ Generating /\ r = Engine(r)[1]
      /\ setup' = setup /\ phase' = phase /\ batch' = batch /\ group' = group /\ rewards' = rewards
      /\ sent' = sent /\ mini' = mini /\ plan' = plan /\ forwards' = forwards
  BY DEF GenerateSequences, call
<1>2. PICK reply \in [1..Len(EngineRows(r)) -> setup.replies] :
        out' = [q \in Ranks |-> IF q \in ToSet(Engine(r))
                                THEN EngineReturns(r, q, AnswersTo(EngineRows(r), r, reply)) ELSE out[q]]
  BY DEF GenerateSequences, AnswersTo
<1>3. \A q \in Ranks : out'[q] = out[q] \/ Returns(out'[q], q)
  <2> TAKE q \in Ranks
  <2>1. CASE q \in ToSet(Engine(r))
    <3>1. Returns(EngineReturns(r, q, AnswersTo(EngineRows(r), r, reply)), q)
      BY <1>1, <2>1, EngineReplies
    <3> QED
      BY <1>2, <2>1, <3>1
  <2>2. CASE q \notin ToSet(Engine(r))
    BY <1>2, <2>2
  <2> QED
    BY <2>1, <2>2
<1>4. World' = World /\ Ranks' = Ranks /\ Tiled' = Tiled
  BY <1>1, SameJob
<1>5. PathIs' /\ BatchIs' /\ GroupIs' /\ RewardsAre'
  BY <1>1, DriverStays
<1>6. RanksAre'
  BY <1>1, <1>2, <1>4 DEF FlowInv, RanksAre
<1>7. PlanIs'
  BY <1>1, <1>4 DEF FlowInv, PlanIs
<1>8. GenerationIs'
  <2>1. Requests' = Requests /\ ModeHere' = ModeHere
    BY <1>1, <1>4 DEF Requests, ModeHere, ModeOf
  <2>2. /\ CanChunk(Requests, NumChunks(ModeHere, setup.layout))
        /\ sent = DispatchProto(ModeHere, setup.layout, Requests)
        /\ \A q \in Ranks : out[q] = <<>> \/ Returns(out[q], q)
    BY <1>1 DEF FlowInv, GenerationIs
  <2>3. ASSUME NEW q \in Ranks
        PROVE  out'[q] = <<>> \/ Returns(out'[q], q)
    BY <1>3, <2>2
  <2>4. \A b, q : Returns(b, q)' <=> Returns(b, q)
    BY <1>1 DEF Returns, Replies, Answers, Fits, Place
  <2> QED
    BY <1>1, <1>4, <2>1, <2>2, <2>3, <2>4 DEF GenerationIs
<1>9. CallIs'
  BY <1>1 DEF CallIs, Generating, ColumnMethods, UpdateMethods
<1> QED
  BY <1>5, <1>6, <1>7, <1>8, <1>9 DEF FlowInv

\* The columns of both, row by row; they share none.
United(u, b, c, n, K, L) ==
  /\ Listed(u, n)
  /\ \A i \in 1..n : /\ DOMAIN u[i] = K \cup L
                     /\ \A k \in K : u[i][k] = b[i][k]
                     /\ \A k \in L : u[i][k] = c[i][k]
                     /\ u[i] = [k \in K \cup L |-> IF k \in K THEN b[i][k] ELSE c[i][k]]

Columns(b, n, K) == Listed(b, n) /\ \A i \in 1..n : DOMAIN b[i] = K

\* Batches with different columns can be united.
LEMMA UnionIs ==
  ASSUME NEW n, NEW K, NEW L, K \cap L = {}, NEW b, NEW c, Columns(b, n, K), Columns(c, n, L)
  PROVE  CanUnion(b, c) /\ United(Union(b, c), b, c, n, K, L)
<1> DEFINE u == Union(b, c)
<1>1. Listed(b, n) /\ Listed(c, n) /\ \A i \in 1..n : DOMAIN b[i] = K /\ DOMAIN c[i] = L
  BY DEF Columns
<1>2. n \in Nat /\ Len(b) = n /\ Len(c) = n
  BY <1>1, ListedIs
<1>3. CanUnion(b, c)
  BY <1>1, <1>2 DEF CanUnion
<1>4. u = [i \in 1..n |-> [k \in DOMAIN b[i] \cup DOMAIN c[i] |-> IF k \in DOMAIN b[i] THEN b[i][k] ELSE c[i][k]]]
  BY <1>2 DEF Union
<1> HIDE DEF u
<1>5. Listed(u, n)
  BY <1>2, <1>4 DEF Listed
<1>6. ASSUME NEW i \in 1..n
      PROVE  u[i] = [k \in K \cup L |-> IF k \in K THEN b[i][k] ELSE c[i][k]]
  BY <1>1, <1>4
<1>7. ASSUME NEW i \in 1..n
      PROVE  /\ DOMAIN u[i] = K \cup L
             /\ \A k \in K : u[i][k] = b[i][k]
             /\ \A k \in L : u[i][k] = c[i][k]
             /\ u[i] = [k \in K \cup L |-> IF k \in K THEN b[i][k] ELSE c[i][k]]
  BY <1>6
<1> QED
  BY <1>3, <1>5, <1>7 DEF United, u

Reordered(u, b, idx, m) == Listed(u, m) /\ \A i \in 1..m : u[i] = b[idx[i]]

\* Rows in another order.
LEMMA ReorderIs ==
  ASSUME NEW b, NEW idx, NEW m \in Nat, Len(idx) = m
  PROVE  Reordered(Reorder(b, idx), b, idx, m)
<1>1. Reorder(b, idx) = [i \in 1..m |-> b[idx[i]]]
  BY DEF Reorder
<1> QED
  BY <1>1 DEF Reordered, Listed

-----------------------------------------------------------------------------
\* The answers collected

\* The answers to rows, row by row where the outputs are taken in the order of the
\* chunks; no two were computed at the same place.
AnswersOf(c, rows, n) ==
  /\ Listed(rows, n) /\ Listed(c, n)
  /\ \A j \in 1..n : /\ DOMAIN c[j] = {"input", "responses"} /\ c[j].responses = c[j].input /\ Fits(c[j].input)
                     /\ InTurns(ModeHere, setup.layout) =>
                          /\ c[j].input.to = rows[j].prompt
                          /\ c[j].input.again = ("input" \in DOMAIN rows[j])
  /\ \A i, j \in 1..n : c[i].input.at = c[j].input.at => i = j

\* A row answered with the row of a rank.
LEMMA RankAnswers ==
  ASSUME NEW size \in Nat, NEW r \in Ranks, Listed(sent[r], size), Returns(out[r], r)
  PROVE  /\ Listed(out[r], size)
         /\ \A x \in 1..size : Answers(out[r][x], sent[r][x]) /\ out[r][x].input.at = Place(r, size, x)
<1>1. Len(sent[r]) = size
  BY ListedIs
<1> QED
  BY <1>1 DEF Replies, Returns

\* A place is given by its block and what is left over.
LEMMA SamePlace ==
  ASSUME PathIs, NEW size \in Nat \ {0}, NEW q \in Ranks, NEW r \in Ranks, NEW x \in 1..size, NEW y \in 1..size,
         Place(q, size, x) = Place(r, size, y), NEW mode \in Modes,
         mode = "DP_COMPUTE_PROTO" <=> setup.backend = "fsdp"
  PROVE  /\ ChunkOf(mode, setup.layout, q) = ChunkOf(mode, setup.layout, r) /\ x = y
         /\ {q, r} \subseteq Collecting(mode, setup.layout) /\ mode # "MEGATRON_COMPUTE_PROTO" => q = r
<1> DEFINE L == setup.layout
<1>1. L \in Layouts /\ setup.tp \in Nat \ {0} /\ setup.backend \in {"fsdp", "megatron"}
  BY JobIs DEF Job
<1>2. q \in Nat /\ r \in Nat
  BY DEF Ranks, RanksOf
<1>3. CASE setup.backend = "fsdp"
  <2> DEFINE t == setup.tp
             u == q % t
             v == r % t
  <2>1. q - u = r - v /\ u * size + x = v * size + y /\ t \in Nat \ {0}
    BY <1>1, <1>3 DEF Place
  <2>2. u \in Nat /\ v \in Nat
    BY <1>2, <2>1
  <2> HIDE DEF u, v
  <2> DEFINE a == x - 1
             b == y - 1
             us == u * size
             vs == v * size
  <2>3. a \in Nat /\ b \in Nat /\ a < size /\ b < size /\ us \in Nat /\ vs \in Nat
    BY <2>2
  <2>4. us + a = vs + b
    <3>1. us + x = vs + y
      BY <2>1
    <3> HIDE DEF us, vs
    <3> QED
      BY <2>3, <3>1
  <2> HIDE DEF a, b
  <2>5. (u * size + a) \div size = u /\ (u * size + a) % size = a
    BY <2>2, <2>3, DivModUnique
  <2>6. (v * size + b) \div size = v /\ (v * size + b) % size = b
    BY <2>2, <2>3, DivModUnique
  <2>7. u = v /\ a = b
    BY <2>4, <2>5, <2>6
  <2>8. q = r /\ x = y
    BY <1>2, <2>1, <2>2, <2>7 DEF a, b
  <2> QED
    BY <2>8
<1>4. CASE setup.backend = "megatron"
  <2> DEFINE t == L.tp
  <2>1. t \in Nat \ {0}
    BY <1>1 DEF Layouts
  <2>2. q - (q % t) = r - (r % t) /\ x = y
    BY <1>4 DEF Place
  <2>3. mode # "DP_COMPUTE_PROTO"
    BY <1>4
  <2> HIDE DEF t
  <2> DEFINE a == q \div t
             b == r \div t
             at == a * t
             bt == b * t
  <2>4. a \in Nat /\ b \in Nat /\ q % t \in Nat /\ r % t \in Nat
    BY <1>2, <2>1
  <2>5. q = at + (q % t) /\ r = bt + (r % t) /\ at \in Nat /\ bt \in Nat
    BY <1>2, <2>1
  <2> HIDE DEF a, b
  <2>6. at = bt
    <3> HIDE DEF at, bt
    <3> QED
      BY <2>2, <2>4, <2>5
  <2>7. (a * t + 0) \div t = a /\ (b * t + 0) \div t = b
    <3> DEFINE z == 0
    <3>1. z \in Nat /\ z < t
      BY <2>1
    <3>2. z = 0
      OBVIOUS
    <3> HIDE DEF z
    <3>3. (a * t + z) \div t = a /\ (b * t + z) \div t = b
      BY <2>1, <2>4, <3>1, DivModUnique
    <3> QED
      BY <3>2, <3>3
  <2>8. a = b
    BY <2>6, <2>7
  <2>9. q \div L.tp = r \div L.tp
    BY <2>8 DEF a, b, t
  <2>11. {q, r} \subseteq Collecting(mode, L) /\ mode # "MEGATRON_COMPUTE_PROTO" => q = r
    <3> SUFFICES ASSUME q \in Collecting(mode, L), r \in Collecting(mode, L), mode # "MEGATRON_COMPUTE_PROTO"
                 PROVE  q = r
      OBVIOUS
    <3>1. mode = "MEGATRON_PP_AS_DP_PROTO"
      BY <2>3 DEF Modes
    <3>2. q % t = 0 /\ r % t = 0
      BY <3>1 DEF Collecting, IsCollected, TpRank, t
    <3> QED
      BY <1>2, <2>2, <3>2
  <2> HIDE DEF L
  <2>10. ChunkOf(mode, L, q) = ChunkOf(mode, L, r)
    BY <1>1, <1>2, <2>3, <2>9, SameChunk
  <2> QED
    BY <2>2, <2>10, <2>11 DEF L
<1> QED
  BY <1>1, <1>3, <1>4

\* What is collected once all ranks have answered.
LEMMA GenerationCollected ==
  ASSUME FlowInv, Generating, Answered
  PROVE  \E n \in Nat : AnswersOf(CollectProto(ModeHere, setup.layout, out), Requests, n)
<1> DEFINE mode == ModeHere
           L == setup.layout
           b == Requests
           k == NumChunks(mode, L)
           c == CollectProto(mode, L, out)
<1>1. PathIs
  BY DEF FlowInv
<1>2. mode \in Modes /\ L \in Layouts
  BY <1>1, ModeIn, JobIs DEF ModeHere, Job
<1>3. PICK size \in Nat \ {0} : Dispatched(sent, mode, L, b, size) /\ Listed(b, k * size)
  BY GenerationSizes
<1>4. Ranks = RanksOf(L)
  BY DEF Ranks
<1>5. \A r \in Ranks : Returns(out[r], r)
  BY DEF FlowInv, GenerationIs, Answered
<1>6. \A r \in RanksOf(L) : Listed(sent[r], size)
  BY <1>3 DEF Dispatched
<1>7. \A r \in RanksOf(L) :
        /\ Listed(out[r], size)
        /\ \A x \in 1..size : Answers(out[r][x], sent[r][x]) /\ out[r][x].input.at = Place(r, size, x)
  <2> TAKE r \in RanksOf(L)
  <2>1. size \in Nat /\ Listed(sent[r], size) /\ Returns(out[r], r) /\ r \in Ranks
    BY <1>4, <1>5, <1>6
  <2> QED
    BY <2>1, RankAnswers
<1>20. mode = "DP_COMPUTE_PROTO" <=> setup.backend = "fsdp"
  BY DEF ModeHere, ModeOf
<1>22. mode # "MEGATRON_COMPUTE_PROTO"
  <2>1. phase = "resample" => setup.backend = "fsdp"
    BY <1>1, JobIs DEF PathIs, Job
  <2> QED
    BY <2>1 DEF ModeHere, ModeOf, Generating
<1> HIDE DEF mode, b, k
<1>21. \A q, r \in RanksOf(L) : \A x, y \in 1..size :
         Place(q, size, x) = Place(r, size, y) =>
           /\ x = y
           /\ {q, r} \subseteq Collecting(mode, L) => q = r
  BY <1>1, <1>2, <1>4, <1>20, <1>22, SamePlace
<1> HIDE DEF L
<1>8. Gathered(c, out, mode, L, size)
  <2>1. \A r \in RanksOf(L) : Listed(out[r], size)
    BY <1>7
  <2> QED
    BY <1>2, <1>3, <2>1, CollectIs
<1> HIDE DEF c
<1> DEFINE n == k * size
<1>9. Listed(c, n) /\ Listed(b, n)
  BY <1>3, <1>8 DEF Gathered, k
<1>10. ASSUME NEW j \in 1..n
       PROVE  /\ DOMAIN c[j] = {"input", "responses"} /\ c[j].responses = c[j].input /\ Fits(c[j].input)
              /\ InTurns(mode, L) => c[j].input.to = b[j].prompt /\ c[j].input.again = ("input" \in DOMAIN b[j])
  <2>1. PICK r \in RanksOf(L), x \in 1..size :
          c[j] = out[r][x] /\ (InTurns(mode, L) => ChunkOf(mode, L, r) * size + x = j)
    BY <1>8 DEF Gathered, k
  <2>2. Answers(out[r][x], sent[r][x]) /\ out[r][x].input.at = Place(r, size, x)
    BY <1>7
  <2>3. sent[r][x] = b[ChunkOf(mode, L, r) * size + x]
    BY <1>3 DEF Dispatched
  <2> QED
    BY <2>1, <2>2, <2>3 DEF Answers
<1>11. n \in Nat
  BY <1>9, ListedIs
<1> HIDE DEF n
<1>12. ASSUME NEW i \in 1..n, NEW j \in 1..n, c[i].input.at = c[j].input.at
       PROVE  i = j
  <2>1. PICK q \in Collecting(mode, L), r \in Collecting(mode, L), x \in 1..size, y \in 1..size :
          /\ c[i] = out[q][x] /\ c[j] = out[r][y]
          /\ q = r /\ x = y => i = j
    BY <1>8 DEF Gathered, n, k
  <2>2. q \in RanksOf(L) /\ r \in RanksOf(L)
    BY DEF Collecting
  <2>3. Place(q, size, x) = Place(r, size, y)
    BY <1>7, <1>12, <2>1, <2>2
  <2> QED
    BY <1>21, <2>1, <2>2, <2>3
<1>13. AnswersOf(c, b, n)
  BY <1>9, <1>10, <1>12 DEF AnswersOf, mode, L
<1> QED
  BY <1>11, <1>13 DEF c, mode, L, b

\* The samples of a prompt are the n neighbouring rows, with their answers where the
\* outputs are taken in the order of the chunks.
Neighbours(b) ==
  \A i \in 1..Samples :
    /\ b[i].prompt = ((i - 1) \div setup.n) + 1
    /\ InTurns(ModeOf("generate_sequences"), setup.layout) => b[i].input.to = b[i].prompt

\* No two rows have the same input, none has been generated again, and each is its response.
Own(b) == \A i, j \in 1..Samples : b[i].input = b[j].input => i = j
First(b) == \A i \in 1..Samples : b[i].responses = b[i].input
Fresh(b, g) == \A i \in 1..Samples : i > (g - 1) * setup.n => ~b[i].responses.again

\* How fit and _validate order what has been generated.
Indices == Transpose(setup.n, setup.prompts)

\* The repeated rows of the batch.
LEMMA RowsAre ==
  ASSUME PathIs, NEW rows, rows = (IF setup.validate THEN Reorder(Tiled, Indices) ELSE Repeat(Prompts, setup.n))
  PROVE  /\ Columns(rows, Samples, {"prompt"})
         /\ \A i \in 1..Samples : rows[i].prompt = ((i - 1) \div setup.n) + 1
<1> DEFINE p == setup.prompts
           n == setup.n
           N == Samples
           S == {[prompt |-> x] : x \in 1..p}
<1>1. p \in Nat \ {0} /\ n \in Nat \ {0} /\ N \in Nat \ {0}
  BY JobIs, WorldHere DEF Job
<1>2. N = p * n
  BY DEF Samples
<1>3. Prompts = [i \in 1..p |-> [prompt |-> i]]
  BY DEF Prompts
<1> HIDE DEF p, n, N
<1>4. Prompts \in Seq(S) /\ Len(Prompts) = p
  <2>1. \A i \in 1..p : Prompts[i] \in S
    BY <1>3
  <2>2. Listed(Prompts, p)
    <3>1. Prompts = [i \in 1..p |-> Prompts[i]]
      BY <1>3
    <3> QED
      BY <1>1, <3>1 DEF Listed
  <2> HIDE DEF S
  <2> QED
    BY <2>1, <2>2, ListedSeq, ListedIs
<1>5. rows = Repeat(Prompts, n)
  <2>1. Reorder(Tile(Prompts, n), Transpose(n, Len(Prompts))) = Repeat(Prompts, n)
    <3> HIDE DEF S
    <3>1. n \in Nat
      BY <1>1
    <3> QED
      BY <1>4, <3>1, BlocksMeetNeighbours
  <2> QED
    BY <1>4, <2>1 DEF Tiled, Indices, n, p
<1>6. rows = [i \in 1..N |-> Prompts[((i - 1) \div n) + 1]]
  BY <1>2, <1>4, <1>5 DEF Repeat
<1>7. ASSUME NEW i \in 1..N
      PROVE  rows[i] = [prompt |-> ((i - 1) \div n) + 1]
  <2> DEFINE x == (i - 1) \div n
  <2>1. i - 1 \in Nat /\ i - 1 < p * n
    BY <1>1, <1>2
  <2>2. x \in Nat /\ x < p
    <3> HIDE DEF x
    <3>1. (i - 1) \div n \in Nat /\ (i - 1) \div n < p
      BY <1>1, <2>1, DivBelow
    <3> QED
      BY <3>1 DEF x
  <2> HIDE DEF x
  <2>3. x + 1 \in 1..p
    BY <1>1, <2>2
  <2>4. rows[i] = Prompts[x + 1]
    BY <1>6 DEF x
  <2> QED
    BY <1>3, <2>3, <2>4 DEF x
<1>8. Listed(rows, N)
  <2>1. rows = [i \in 1..N |-> rows[i]]
    BY <1>6
  <2> QED
    BY <1>1, <2>1 DEF Listed
<1>9. \A i \in 1..N : DOMAIN rows[i] = {"prompt"} /\ rows[i].prompt = ((i - 1) \div n) + 1
  <2> TAKE i \in 1..N
  <2> DEFINE x == ((i - 1) \div n) + 1
  <2>1. rows[i] = [prompt |-> x]
    BY <1>7
  <2> HIDE DEF x
  <2>2. DOMAIN rows[i] = {"prompt"} /\ rows[i].prompt = x
    BY <2>1
  <2> QED
    BY <2>2 DEF x
<1> QED
  BY <1>8, <1>9 DEF Columns, N, n

\* Different numbers have different places once the blocks are dealt crosswise.
LEMMA TransposeInjective ==
  ASSUME NEW n \in Nat \ {0}, NEW p \in Nat \ {0}, NEW i \in 1..(n * p), NEW j \in 1..(n * p),
         Transpose(n, p)[i] = Transpose(n, p)[j]
  PROVE  i = j
<1> DEFINE np == n * p
           T == Transpose(n, p)
           x == i - 1
           y == j - 1
<1>1. (T[i] - 1) % p = x \div n /\ (T[i] - 1) \div p = x % n
  BY TransposeAt
<1>2. (T[j] - 1) % p = y \div n /\ (T[j] - 1) \div p = y % n
  BY TransposeAt
<1>3. T[i] = T[j] /\ np \in Nat
  OBVIOUS
<1> HIDE DEF np, T
<1>4. x \in Nat /\ y \in Nat
  BY <1>3 DEF np
<1>5. x \div n = y \div n /\ x % n = y % n
  BY <1>1, <1>2, <1>3
<1> HIDE DEF x, y
<1>6. x = n * (x \div n) + (x % n) /\ y = n * (y \div n) + (y % n)
  BY <1>4
<1>7. x = y
  BY <1>5, <1>6
<1> QED
  BY <1>7, <1>3 DEF x, y, np

\* The answers without those to the padding, brought into this order.
LEMMA AnswersAre ==
  ASSUME PathIs, phase = "generate_sequences", NEW c, AnswersOf(c, Asked, Samples + Padding),
         NEW answers, answers = Unpad(c, Padding), NEW columns, columns = Reorder(answers, Indices)
  PROVE  /\ Len(answers) = Samples
         /\ Columns(columns, Samples, {"input", "responses"})
         /\ \A i \in 1..Samples :
              /\ Fits(columns[i].input)
              /\ InTurns(ModeOf("generate_sequences"), setup.layout) =>
                   columns[i].input.to = ((i - 1) \div setup.n) + 1 /\ ~columns[i].input.again
         /\ First(columns)
         /\ Own(columns)
<1> DEFINE p == setup.prompts
           n == setup.n
           N == Samples
           pad == Padding
           m == N + pad
           T == Transpose(n, p)
           np == n * p
           turns == InTurns(ModeOf("generate_sequences"), setup.layout)
<1>1. p \in Nat \ {0} /\ n \in Nat \ {0} /\ N \in Nat \ {0}
  BY JobIs, WorldHere DEF Job
<1>2. N = p * n /\ turns = InTurns(ModeHere, setup.layout)
  BY DEF Samples, ModeHere
<1>3. pad \in Nat /\ \A i \in 1..N : Asked[i] = Tiled[i]
  BY AskedIs
<1>4. \A i \in 1..N : Tiled[i] = [prompt |-> ((i - 1) % p) + 1]
  BY TiledIs
<1> HIDE DEF p, n, N, pad, turns
<1>5. np = N
  BY <1>1, <1>2
<1>6. /\ Listed(c, m)
      /\ \A j \in 1..m : /\ DOMAIN c[j] = {"input", "responses"} /\ c[j].responses = c[j].input /\ Fits(c[j].input)
                         /\ turns => c[j].input.to = Asked[j].prompt /\ c[j].input.again = ("input" \in DOMAIN Asked[j])
      /\ \A i, j \in 1..m : c[i].input.at = c[j].input.at => i = j
  BY <1>2 DEF AnswersOf, N, pad
<1>7. Listed(answers, N) /\ \A j \in 1..N : j \in 1..m /\ answers[j] = c[j]
  <2>1. Len(c) = m
    BY <1>6, ListedIs
  <2>2. answers = SubSeq(c, 1, N)
    BY <1>1, <1>3, <2>1 DEF Unpad, pad
  <2>3. 1 \in 1..m /\ N \in 1..m /\ N - 1 + 1 = N
    BY <1>1, <1>3
  <2> HIDE DEF m
  <2>4. Listed(SubSeq(c, 1, N), N - 1 + 1) /\ \A j \in 1..(N - 1 + 1) : SubSeq(c, 1, N)[j] = c[1 + j - 1]
    BY <1>6, <2>3, SubSeqIs
  <2>5. \A j \in 1..N : 1 + j - 1 = j
    BY <1>1
  <2>6. \A j \in 1..N : j \in 1..m
    BY <1>1, <1>3 DEF m
  <2> QED
    BY <2>2, <2>3, <2>4, <2>5, <2>6
<1>8. Len(answers) = N
  BY <1>7, ListedIs
<1>9. Len(T) = N
  BY <1>1, <1>5 DEF Transpose
<1>10. \A i \in 1..N : T[i] \in 1..N /\ (T[i] - 1) % p = (i - 1) \div n
  <2> TAKE i \in 1..N
  <2>1. p \in Nat /\ n \in Nat /\ i \in 1..np
    BY <1>1, <1>5
  <2>2. T[i] \in 1..np /\ (T[i] - 1) % p = (i - 1) \div n
    BY <2>1, TransposeAt
  <2> QED
    BY <1>5, <2>2
<1>15. \A i, j \in 1..N : T[i] = T[j] => i = j
  <2> TAKE i, j \in 1..N
  <2>1. n \in Nat \ {0} /\ p \in Nat \ {0} /\ i \in 1..(n * p) /\ j \in 1..(n * p)
    BY <1>1, <1>5
  <2> QED
    BY <2>1, TransposeInjective DEF T
<1> HIDE DEF T, m, np
<1>11. Reordered(columns, answers, T, N)
  <2>1. columns = Reorder(answers, T)
    BY DEF Indices, T, n, p
  <2>2. N \in Nat
    BY <1>1
  <2> QED
    BY <1>9, <2>1, <2>2, ReorderIs
<1>12. ASSUME NEW i \in 1..N
       PROVE  /\ DOMAIN columns[i] = {"input", "responses"} /\ Fits(columns[i].input)
              /\ columns[i].responses = columns[i].input
              /\ turns => columns[i].input.to = ((i - 1) \div n) + 1 /\ ~columns[i].input.again
  <2>1. columns[i] = answers[T[i]]
    BY <1>11 DEF Reordered
  <2>2. T[i] \in 1..N /\ (T[i] - 1) % p = (i - 1) \div n
    BY <1>10
  <2> DEFINE j == T[i]
  <2>3. j \in 1..N /\ (j - 1) % p = (i - 1) \div n /\ columns[i] = answers[j]
    BY <2>1, <2>2
  <2> HIDE DEF j
  <2>4. columns[i] = c[j] /\ j \in 1..m
    BY <1>7, <2>3
  <2>5. Asked[j].prompt = ((j - 1) % p) + 1 /\ "input" \notin DOMAIN Asked[j]
    <3> DEFINE x == ((j - 1) % p) + 1
    <3>1. Asked[j] = [prompt |-> x]
      BY <1>3, <1>4, <2>3
    <3> HIDE DEF x
    <3>2. Asked[j].prompt = x /\ "input" \notin DOMAIN Asked[j]
      BY <3>1
    <3> QED
      BY <3>2 DEF x
  <2>6. Asked[j].prompt = ((i - 1) \div n) + 1
    BY <2>3, <2>5
  <2> QED
    BY <1>6, <2>4, <2>5, <2>6
<1>13. Listed(columns, N)
  BY <1>11 DEF Reordered
<1>14. ASSUME NEW i \in 1..N, NEW j \in 1..N, columns[i].input = columns[j].input
       PROVE  i = j
  <2>1. columns[i] = answers[T[i]] /\ columns[j] = answers[T[j]]
    BY <1>11 DEF Reordered
  <2>2. T[i] \in 1..N /\ T[j] \in 1..N
    BY <1>10
  <2>3. columns[i] = c[T[i]] /\ columns[j] = c[T[j]] /\ T[i] \in 1..m /\ T[j] \in 1..m
    BY <1>7, <2>1, <2>2
  <2>4. c[T[i]].input.at = c[T[j]].input.at
    BY <1>14, <2>3
  <2>5. T[i] = T[j]
    BY <1>6, <1>14, <2>3, <2>4
  <2> QED
    BY <1>15, <2>5
<1> QED
  BY <1>8, <1>12, <1>13, <1>14 DEF Columns, N, n, turns, Own, First

\* While the driver works on its own.
Calls == {"generate_sequences", "resample"} \cup ColumnMethods \cup UpdateMethods

\* A step of the driver that makes no call disturbs nothing of a call.
LEMMA NoCall ==
  ASSUME FlowInv, setup' = setup, UNCHANGED <<sent, out, call>>, phase' \notin Calls
  PROVE  RanksAre' /\ PlanIs' /\ GenerationIs' /\ CallIs'
<1>1. Ranks' = Ranks
  BY DEF Ranks
<1>2. RanksAre'
  BY <1>1 DEF FlowInv, RanksAre
<1>3. PlanIs'
  BY <1>1 DEF FlowInv, PlanIs, call
<1> QED
  BY <1>2, <1>3 DEF GenerationIs, CallIs, Calls, Generating

\* The batch that fit and _validate go on with.
LEMMA GenerationUnited ==
  ASSUME FlowInv, CollectGeneration
  PROVE  /\ phase' = "reward" /\ SampleRows(batch', SampleKeys)
         /\ Neighbours(batch') /\ First(batch')
         /\ Own(batch')
         /\ InTurns(ModeOf("generate_sequences"), setup.layout) => Fresh(batch', group)
<1> DEFINE m == "generate_sequences"
           p == setup.prompts
           n == setup.n
           N == Samples
           c == CollectProto(ModeHere, setup.layout, out)
           padding == IF setup.validate THEN PadSize(batch, WorldSize(setup.layout)) ELSE 0
           answers == Unpad(Collected(m), padding)
           indices == Transpose(setup.n, Len(answers) \div setup.n)
           rows == IF setup.validate THEN Reorder(batch, indices) ELSE Repeat(batch, setup.n)
           columns == Reorder(answers, indices)
<1>1. /\ phase = m /\ Answered
      /\ IF CanUnion(rows, columns) THEN phase' = "reward" /\ batch' = Union(rows, columns)
         ELSE phase' = "raised" /\ UNCHANGED batch
  BY DEF CollectGeneration
<1>2. PathIs /\ BatchIs
  BY DEF FlowInv
<1>3. batch = IF setup.validate THEN Tiled ELSE Prompts
  BY <1>1, <1>2 DEF BatchIs
<1>4. padding = Padding
  BY <1>3 DEF Padding, World
<1>5. Collected(m) = c
  BY <1>1 DEF Collected, ModeHere
<1>6. AnswersOf(c, Asked, N + Padding)
  <2>1. Requests = Asked
    BY <1>1 DEF Requests, Asked
  <2>2. PICK x \in Nat : AnswersOf(c, Requests, x)
    BY <1>1, GenerationCollected DEF Generating
  <2>3. Len(Asked) = x
    BY <2>1, <2>2, ListedIs DEF AnswersOf
  <2>4. Listed(Asked, N + Padding)
    BY <1>2, AskedIs
  <2>5. Len(Asked) = N + Padding
    BY <2>4, ListedIs
  <2> QED
    BY <2>1, <2>2, <2>3, <2>5
<1> HIDE DEF c, padding, N
<1>7. answers = Unpad(c, Padding)
  BY <1>4, <1>5
<1> HIDE DEF answers
<1>8. AnswersOf(c, Asked, Samples + Padding)
  BY <1>6 DEF N
<1>9. Len(answers) = N
  BY <1>1, <1>2, <1>7, <1>8, AnswersAre DEF N
<1>10. indices = Indices
  <2>1. N = p * n /\ p \in Nat \ {0} /\ n \in Nat \ {0}
    BY <1>2, JobIs DEF Job, N, Samples
  <2> HIDE DEF p, n
  <2>2. (p * n) \div n = p
    BY <2>1, MultipleDivides
  <2> QED
    BY <1>9, <2>1, <2>2 DEF Indices, p, n
<1> HIDE DEF indices
<1>11. columns = Reorder(answers, Indices)
  BY <1>10
<1> HIDE DEF columns
<1>12. /\ Columns(columns, Samples, {"input", "responses"})
       /\ \A i \in 1..Samples :
            /\ Fits(columns[i].input)
            /\ InTurns(ModeOf("generate_sequences"), setup.layout) =>
                 columns[i].input.to = ((i - 1) \div setup.n) + 1 /\ ~columns[i].input.again
       /\ First(columns)
       /\ Own(columns)
  BY <1>1, <1>2, <1>7, <1>8, <1>11, AnswersAre
<1>13. rows = IF setup.validate THEN Reorder(Tiled, Indices) ELSE Repeat(Prompts, setup.n)
  BY <1>3, <1>10
<1> HIDE DEF rows
<1>14. /\ Columns(rows, Samples, {"prompt"})
       /\ \A i \in 1..Samples : rows[i].prompt = ((i - 1) \div setup.n) + 1
  BY <1>2, <1>13, RowsAre
<1> DEFINE K == {"prompt"}
           L == {"input", "responses"}
           u == Union(rows, columns)
<1>15. K \cap L = {} /\ K \cup L = SampleKeys
  BY DEF SampleKeys
<1>16. CanUnion(rows, columns) /\ United(u, rows, columns, Samples, K, L)
  <2>1. Columns(rows, Samples, K) /\ Columns(columns, Samples, L) /\ K \cap L = {}
    BY <1>12, <1>14, <1>15
  <2> HIDE DEF K, L
  <2> QED
    BY <2>1, UnionIs
<1>17. phase' = "reward" /\ batch' = u
  BY <1>1, <1>16
<1> HIDE DEF u
<1>18. Listed(u, Samples) /\ \A i \in 1..Samples : DOMAIN u[i] = SampleKeys
  BY <1>15, <1>16 DEF United
<1>19. \A i \in 1..Samples : u[i].prompt = rows[i].prompt /\ u[i].input = columns[i].input /\ u[i].responses = columns[i].responses
  BY <1>16 DEF United
<1>20. SampleRows(u, SampleKeys)
  BY <1>12, <1>18, <1>19 DEF SampleRows
<1>21. Neighbours(u)
  BY <1>12, <1>14, <1>19 DEF Neighbours
<1>22. First(u)
  BY <1>12, <1>19 DEF First
<1>23. Own(u)
  BY <1>12, <1>19 DEF Own
<1>24. InTurns(ModeOf("generate_sequences"), setup.layout) => Fresh(u, group)
  <2>1. SUFFICES ASSUME InTurns(ModeOf("generate_sequences"), setup.layout)
                 PROVE  Fresh(u, group)
    OBVIOUS
  <2>2. \A i \in 1..Samples : ~u[i].responses.again
    BY <1>12, <1>19, <2>1 DEF First
  <2> QED
    BY <2>2 DEF Fresh
<1> QED
  BY <1>17, <1>20, <1>21, <1>22, <1>23, <1>24

\* Collecting the generation keeps the invariant: the union with the prompts has the
\* columns of a batch of samples.
LEMMA FlowCollectGeneration ==
  ASSUME FlowInv, CollectGeneration
  PROVE  FlowInv'
<1>1. /\ phase = "generate_sequences" /\ setup' = setup /\ group' = group /\ rewards' = rewards
      /\ UNCHANGED <<sent, out, call>>
  BY DEF CollectGeneration
<1>2. phase' = "reward" /\ SampleRows(batch', SampleKeys)
  BY GenerationUnited
<1>3. World' = World /\ Samples' = Samples
  BY <1>1, SameJob
<1>4. PathIs'
  BY <1>1, <1>2 DEF FlowInv, PathIs, Sampled, Generated, ColumnMethods, UpdateMethods
<1>5. BatchIs'
  <2>1. SampleRows(batch, SampleKeys)'
    BY <1>1, <1>2, <1>3 DEF SampleRows, Fits
  <2>2. KeysAt(phase)' = SampleKeys
    BY <1>2 DEF KeysAt, Generated
  <2> QED
    BY <1>2, <2>1, <2>2 DEF BatchIs
<1>6. GroupIs' /\ RewardsAre'
  BY <1>1, <1>2 DEF FlowInv, GroupIs, RewardsAre
<1>7. RanksAre' /\ PlanIs' /\ GenerationIs' /\ CallIs'
  BY <1>1, <1>2, NoCall DEF Calls, ColumnMethods, UpdateMethods
<1> QED
  BY <1>4, <1>5, <1>6, <1>7 DEF FlowInv

\* Reward keeps the invariant: one reward of 0 or 1 for each sample.
LEMMA FlowReward ==
  ASSUME FlowInv, Reward
  PROVE  FlowInv'
<1>1. /\ phase = "reward" /\ setup' = setup /\ batch' = batch /\ group' = group
      /\ phase' = (IF setup.validate THEN "over" ELSE IF setup.polaris THEN "groups" ELSE "balance")
      /\ rewards' = [i \in 1..Len(batch) |-> Grade(batch[i].prompt, batch[i].responses)]
      /\ UNCHANGED <<sent, out, call>>
  BY DEF Reward
<1>2. World' = World /\ Samples' = Samples
  BY <1>1, SameJob
<1>3. SampleRows(batch, SampleKeys)
  BY <1>1 DEF FlowInv, BatchIs, KeysAt, Sampled, Generated
<1>4. PathIs'
  BY <1>1 DEF FlowInv, PathIs, Sampled, Generated, ColumnMethods, UpdateMethods
<1>5. BatchIs'
  <2>1. SampleRows(batch, SampleKeys)'
    BY <1>1, <1>2, <1>3 DEF SampleRows, Fits
  <2>2. KeysAt(phase)' = SampleKeys /\ phase' \notin {"begin", "generate_sequences", "raised"}
    BY <1>1 DEF KeysAt, Generated
  <2> QED
    BY <2>1, <2>2 DEF BatchIs
<1>6. GroupIs'
  BY <1>1 DEF FlowInv, GroupIs
<1>7. RewardsAre'
  <2>1. Len(batch) = Samples /\ Samples \in Nat
    BY <1>3, ListedIs DEF SampleRows
  <2>2. rewards' = [i \in 1..Samples |-> rewards'[i]] /\ \A i \in 1..Samples : rewards'[i] \in {0, 1}
    BY <1>1, <2>1 DEF Grade
  <2> QED
    BY <1>1, <1>2, <2>1, <2>2 DEF RewardsAre, Listed
<1>8. RanksAre' /\ PlanIs' /\ GenerationIs' /\ CallIs'
  BY <1>1, NoCall DEF Calls, ColumnMethods, UpdateMethods
<1> QED
  BY <1>4, <1>5, <1>6, <1>7, <1>8 DEF FlowInv

-----------------------------------------------------------------------------
\* The invariant in the resampling

\* The samples of a prompt are sent, or cannot be shared equally by the ranks.
LEMMA GroupSends ==
  ASSUME FlowInv, phase = "groups", group <= setup.prompts, NEW b,
         b = SubSeq(batch, (group - 1) * setup.n + 1, group * setup.n),
         Send("generate_sequences", "resample", b)
  PROVE  \/ /\ CanChunk(b, NumChunks(ModeOf("resample"), setup.layout))
            /\ Sends("resample", "resample", b)
         \/ phase' = "raised" /\ setup.n % World # 0 /\ UNCHANGED <<sent, out, call>>
<1> DEFINE m == "generate_sequences"
<1>1. PathIs /\ BatchIs /\ GroupIs
  BY DEF FlowInv
<1>2. setup.backend = "fsdp"
  BY <1>1, JobIs DEF Job, PathIs
<1>3. ModeOf(m) = "DP_COMPUTE_PROTO" /\ ModeOf("resample") = "DP_COMPUTE_PROTO"
  BY <1>2 DEF ModeOf
<1>4. NumChunks(ModeOf(m), setup.layout) = World
  BY <1>3 DEF NumChunks, World
<1>5. Listed(b, setup.n)
  BY <1>1, SubSeqListed
<1>6. Len(b) = setup.n
  BY <1>5, ListedIs
<1>7. CASE CanChunk(b, NumChunks(ModeOf(m), setup.layout)) /\ Sends(m, "resample", b)
  BY <1>3, <1>7 DEF Sends
<1>8. CASE ~CanChunk(b, NumChunks(ModeOf(m), setup.layout)) /\ phase' = "raised" /\ UNCHANGED <<sent, out, call>>
  BY <1>4, <1>6, <1>8 DEF CanChunk
<1> QED
  BY <1>7, <1>8, SendsIt

\* NextGroup keeps the invariant: the samples of a prompt are sent, or the ranks
\* cannot share them.
LEMMA FlowNextGroup ==
  ASSUME FlowInv, NextGroup
  PROVE  FlowInv'
<1> DEFINE b == SubSeq(batch, (group - 1) * setup.n + 1, group * setup.n)
<1>1. /\ phase = "groups" /\ setup' = setup /\ batch' = batch /\ rewards' = rewards
      /\ \/ group <= setup.prompts /\ Send("generate_sequences", "resample", b) /\ group' = group
         \/ group <= setup.prompts /\ group' = group + 1 /\ phase' = phase /\ UNCHANGED <<sent, out, call>>
         \/ phase' = "balance" /\ group' = group /\ UNCHANGED <<sent, out, call>>
  BY DEF NextGroup
<1>2. World' = World /\ Samples' = Samples /\ Ranks' = Ranks
  BY <1>1, SameJob
<1>3. PathIs /\ setup.polaris /\ ~setup.validate /\ SampleRows(batch, SampleKeys) /\ GroupIs /\ RewardsAre
  BY <1>1 DEF FlowInv, PathIs, BatchIs, Sampled, Generated, KeysAt
<1>4. SampleRows(batch, SampleKeys)'
  BY <1>1, <1>2, <1>3 DEF SampleRows, Fits
<1>5. setup.prompts \in Nat
  BY <1>3, JobIs DEF Job
<1>6. CASE phase' \in {"groups", "balance", "resample"}
  <2>1. PathIs'
    BY <1>1, <1>3, <1>6 DEF PathIs, Sampled, Generated, ColumnMethods, UpdateMethods
  <2>2. BatchIs'
    <3>1. KeysAt(phase)' = SampleKeys
      BY <1>6 DEF KeysAt, Generated
    <3> QED
      BY <1>4, <1>6, <3>1 DEF BatchIs
  <2>3. RewardsAre'
    BY <1>1, <1>2, <1>3, <1>6 DEF RewardsAre
  <2>4. CASE phase' # "resample"
    <3>1. UNCHANGED <<sent, out, call>>
      BY <1>1, <2>4, <1>3, <1>6 DEF Send
    <3>2. GroupIs'
      BY <1>1, <1>3, <1>5, <2>4, <1>6 DEF GroupIs, Send
    <3>3. RanksAre' /\ PlanIs' /\ GenerationIs' /\ CallIs'
      BY <1>1, <1>6, <2>4, <3>1, NoCall DEF Calls, ColumnMethods, UpdateMethods
    <3> QED
      BY <2>1, <2>2, <2>3, <3>2, <3>3 DEF FlowInv
  <2>5. CASE phase' = "resample"
    <3>1. group <= setup.prompts /\ group' = group
      BY <1>1, <2>5
    <3>2. Send("generate_sequences", "resample", b)
      BY <1>1, <2>5
    <3>3. /\ CanChunk(b, NumChunks(ModeOf("resample"), setup.layout))
          /\ Sends("resample", "resample", b)
      BY <1>1, <2>5, <3>1, <3>2, GroupSends
    <3>4. GroupIs'
      BY <1>1, <1>3, <3>1 DEF GroupIs
    <3>5. RanksAre' /\ PlanIs' /\ \A r \in Ranks : out'[r] = <<>>
      BY <1>1, <3>3, SendsRanks
    <3>6. GenerationIs'
      <4>1. Requests' = b /\ ModeHere' = ModeOf("resample")
        BY <1>1, <2>5, <3>1 DEF Requests, ModeHere, ModeOf
      <4>2. sent' = DispatchProto(ModeOf("resample"), setup.layout, b)
        BY <3>3 DEF Sends
      <4> QED
        BY <1>1, <1>2, <3>3, <3>5, <4>1, <4>2 DEF GenerationIs
    <3>7. CallIs'
      BY <2>5 DEF CallIs, ColumnMethods, UpdateMethods
    <3> QED
      BY <2>1, <2>2, <2>3, <3>4, <3>5, <3>6, <3>7 DEF FlowInv
  <2> QED
    BY <2>4, <2>5
<1>7. CASE phase' \notin {"groups", "balance", "resample"}
  <2>1. group <= setup.prompts /\ Send("generate_sequences", "resample", b) /\ group' = group
    BY <1>1, <1>7
  <2>2. phase' = "raised" /\ setup.n % World # 0 /\ UNCHANGED <<sent, out, call>>
    BY <1>1, <1>7, <2>1, GroupSends DEF Sends
  <2>3. PathIs'
    BY <1>1, <1>3, <2>2 DEF PathIs, Sampled, Generated, ColumnMethods, UpdateMethods
  <2>4. BatchIs'
    BY <1>1, <1>2, <1>3, <1>4, <2>2 DEF BatchIs, Sampled, Generated, ColumnMethods, UpdateMethods
  <2>5. GroupIs' /\ RewardsAre'
    BY <1>1, <1>2, <1>3, <2>1, <2>2 DEF GroupIs, RewardsAre
  <2>6. RanksAre' /\ PlanIs' /\ GenerationIs' /\ CallIs'
    BY <1>1, <2>2, NoCall DEF Calls, ColumnMethods, UpdateMethods
  <2> QED
    BY <2>3, <2>4, <2>5, <2>6 DEF FlowInv
<1> QED
  BY <1>6, <1>7

\* The answers collected in the resampling are to the samples of the prompt, which have
\* been answered before.
LEMMA GroupAnswers ==
  ASSUME FlowInv, phase = "resample", Answered, NEW i \in GroupRows(group),
         NEW a, a = Collected("generate_sequences")[i - (group - 1) * setup.n].responses
  PROVE  i \in 1..Samples /\ a.to = batch[i].prompt /\ a.again
<1> DEFINE p == setup.prompts
           n == setup.n
           N == Samples
           lo == (group - 1) * n + 1
           hi == group * n
           x == i - (lo - 1)
           c == Collected("generate_sequences")
           b == Requests
           R == CollectProto(ModeHere, setup.layout, out)
<1>1. PathIs /\ BatchIs /\ GroupIs
  BY DEF FlowInv
<1>2. p \in Nat \ {0} /\ n \in Nat \ {0} /\ N = p * n /\ group \in 1..p
  BY <1>1, JobIs DEF Job, Samples, GroupIs
<1>3. SampleRows(batch, SampleKeys)
  BY <1>1 DEF BatchIs, Sampled, Generated, KeysAt
<1>4. Listed(batch, N)
  BY <1>3 DEF SampleRows
<1>5. b = SubSeq(batch, lo, hi)
  BY DEF Requests
<1>6. setup.backend = "fsdp"
  BY <1>1, JobIs DEF Job, PathIs
<1>7. c = R /\ InTurns(ModeHere, setup.layout)
  BY <1>6 DEF Collected, ModeHere, ModeOf, InTurns
<1>8. \E m \in Nat : AnswersOf(R, b, m)
  BY GenerationCollected DEF Generating
<1>9. GroupRows(group) = lo..hi /\ lo - 1 = (group - 1) * n
  <2>1. (group - 1) * n \in Int
    BY <1>2
  <2> QED
    BY <2>1 DEF GroupRows
<1> HIDE DEF p, n, R
<1>10. lo \in 1..(p * n) /\ hi \in lo..(p * n) /\ hi - lo + 1 = n
  BY <1>2, GroupIn
<1> HIDE DEF lo, hi, N, b, c
<1>11. lo \in 1..N /\ hi \in lo..N /\ N \in Nat
  BY <1>2, <1>4, <1>10, ListedIs
<1>12. i \in lo..hi
  BY <1>9
<1>13. x \in 1..n /\ lo + x - 1 = i /\ i \in 1..N
  BY <1>10, <1>11, <1>12
<1> HIDE DEF x
<1>14. Listed(b, n) /\ b[x] = batch[i]
  <2>1. Listed(SubSeq(batch, lo, hi), hi - lo + 1) /\ \A j \in 1..(hi - lo + 1) : SubSeq(batch, lo, hi)[j] = batch[lo + j - 1]
    BY <1>4, <1>11, SubSeqIs
  <2> QED
    BY <1>5, <1>10, <1>13, <2>1
<1>15. PICK m \in Nat : AnswersOf(R, b, m)
  BY <1>8
<1>16. m = n
  <2>1. Listed(b, m)
    BY <1>15 DEF AnswersOf
  <2> QED
    BY <1>14, <2>1, ListedIs
<1>17. c[x].responses = c[x].input /\ c[x].input.to = b[x].prompt /\ c[x].input.again = ("input" \in DOMAIN b[x])
  BY <1>7, <1>13, <1>15, <1>16 DEF AnswersOf
<1>18. "input" \in DOMAIN batch[i]
  BY <1>3, <1>13 DEF SampleRows, SampleKeys, N
<1>19. i - (group - 1) * setup.n = x
  BY <1>9 DEF x, n
<1>20. a = c[x].responses
  BY <1>19 DEF c
<1> QED
  BY <1>13, <1>14, <1>17, <1>18, <1>20 DEF N

\* What WriteBack does to a row, and what it keeps: its columns, its prompt and its input.
LEMMA WrittenBack ==
  ASSUME FlowInv, WriteBack
  PROVE  /\ Listed(batch, Samples) /\ Listed(batch', Samples)
         /\ \A i \in 1..Samples : /\ DOMAIN batch'[i] = DOMAIN batch[i]
                                  /\ batch'[i].input = batch[i].input /\ batch'[i].prompt = batch[i].prompt
         /\ GroupRows(group) \subseteq 1..Samples
         /\ \A i \in 1..Samples :
              IF i \in GroupRows(group)
              THEN /\ batch'[i] = [batch[i] EXCEPT !.responses = batch'[i].responses]
                   /\ batch'[i].responses.to = batch[i].prompt /\ batch'[i].responses.again
              ELSE batch'[i] = batch[i]
<1>1. SampleRows(batch, SampleKeys)
  BY DEF FlowInv, WriteBack, BatchIs, Sampled, Generated, KeysAt
<1>2. Listed(batch, Samples) /\ Len(batch) = Samples /\ Samples \in Nat
  BY <1>1, ListedIs DEF SampleRows
<1> DEFINE c == Collected("generate_sequences")
           first == (group - 1) * setup.n
<1>3. batch' = [i \in 1..Samples |-> IF i \in GroupRows(group)
                                     THEN [batch[i] EXCEPT !.responses = c[i - first].responses] ELSE batch[i]]
  BY <1>2 DEF WriteBack
<1>6. \A i \in GroupRows(group) : /\ i \in 1..Samples
                                  /\ c[i - first].responses.to = batch[i].prompt /\ c[i - first].responses.again
  <2> TAKE i \in GroupRows(group)
  <2>1. phase = "resample" /\ Answered
    BY DEF WriteBack
  <2> QED
    BY <2>1, GroupAnswers
<1> HIDE DEF c, first
<1>4. ASSUME NEW i \in 1..Samples
      PROVE  /\ DOMAIN batch'[i] = DOMAIN batch[i]
             /\ batch'[i].input = batch[i].input /\ batch'[i].prompt = batch[i].prompt
             /\ IF i \in GroupRows(group)
                THEN /\ batch'[i] = [batch[i] EXCEPT !.responses = batch'[i].responses]
                     /\ batch'[i].responses.to = batch[i].prompt /\ batch'[i].responses.again
                ELSE batch'[i] = batch[i]
  <2>1. DOMAIN batch[i] = {"prompt", "input", "responses"}
    BY <1>1 DEF SampleRows, SampleKeys
  <2>2. CASE i \in GroupRows(group)
    <3> DEFINE e == c[i - first].responses
    <3>1. batch'[i] = [batch[i] EXCEPT !.responses = e]
      BY <1>3, <2>2
    <3>2. e.to = batch[i].prompt /\ e.again
      BY <1>6, <2>2
    <3> HIDE DEF e
    <3>3. batch'[i].responses = e
      BY <2>1, <3>1
    <3> QED
      BY <2>1, <2>2, <3>1, <3>2, <3>3
  <2>3. CASE i \notin GroupRows(group)
    BY <1>3, <2>3
  <2> QED
    BY <2>2, <2>3
<1>5. Listed(batch', Samples)
  <2>1. batch' = [i \in 1..Samples |-> batch'[i]]
    BY <1>3
  <2> QED
    BY <1>2, <2>1 DEF Listed
<1> QED
  BY <1>2, <1>4, <1>5, <1>6

\* WriteBack keeps the invariant: the rows of the prompt are replaced by rows of the
\* same columns.
LEMMA FlowWriteBack ==
  ASSUME FlowInv, WriteBack
  PROVE  FlowInv'
<1>1. /\ phase = "resample" /\ setup' = setup /\ rewards' = rewards /\ group' = group + 1
      /\ phase' = "groups" /\ UNCHANGED <<sent, out, call>>
  BY DEF WriteBack
<1>2. World' = World /\ Samples' = Samples
  BY <1>1, SameJob
<1>3. PathIs /\ GroupIs /\ RewardsAre /\ SampleRows(batch, SampleKeys)
  BY <1>1 DEF FlowInv, BatchIs, Sampled, Generated, KeysAt
<1>4. PathIs'
  BY <1>1, <1>3 DEF PathIs, Sampled, Generated, ColumnMethods, UpdateMethods
<1>5. BatchIs'
  <2>1. SampleRows(batch, SampleKeys)'
    BY <1>1, <1>2, <1>3, WrittenBack DEF SampleRows, Fits
  <2>2. KeysAt(phase)' = SampleKeys
    BY <1>1 DEF KeysAt, Generated
  <2> QED
    BY <1>1, <2>1, <2>2 DEF BatchIs
<1>6. GroupIs'
  <2>1. setup.prompts \in Nat
    BY <1>3, JobIs DEF Job
  <2> QED
    BY <1>1, <1>3, <2>1 DEF GroupIs
<1>7. RewardsAre'
  BY <1>1, <1>2, <1>3 DEF RewardsAre
<1>8. RanksAre' /\ PlanIs' /\ GenerationIs' /\ CallIs'
  BY <1>1, NoCall DEF Calls, ColumnMethods, UpdateMethods
<1> QED
  BY <1>4, <1>5, <1>6, <1>7, <1>8 DEF FlowInv

-----------------------------------------------------------------------------
\* The invariant in the calls for the batch

\* A call for the batch, just sent.
LEMMA CallBegins ==
  ASSUME setup' = setup, NEW method \in ColumnMethods \cup UpdateMethods, NEW b, batch' = b,
         Sends(method, method, b)
  PROVE  RanksAre' /\ PlanIs' /\ GenerationIs' /\ CallIs'
<1>1. phase' = method /\ sent' = DispatchProto(ModeOf(method), setup.layout, b) /\ mini' = 0 /\ plan' = <<>>
  BY DEF Sends
<1>2. RanksAre' /\ PlanIs' /\ \A r \in Ranks : out'[r] = <<>>
  BY SendsRanks
<1>3. Ranks' = Ranks
  BY SameJob
<1>4. ModeHere' = ModeOf(method)
  BY <1>1 DEF ModeHere, ModeOf
<1>5. GenerationIs'
  BY <1>1 DEF GenerationIs, Generating, ColumnMethods, UpdateMethods
<1>6. CallIs'
  BY <1>1, <1>2, <1>3, <1>4 DEF CallIs
<1> QED
  BY <1>2, <1>5, <1>6

\* The tokens of the rows are numbers.
LEMMA LensAre ==
  ASSUME PathIs, NEW b, NEW n, Listed(b, n), \A i \in 1..n : Fits(b[i].input), NEW lens, lens = Lens(b)
  PROVE  /\ lens \in Seq(Nat) /\ Len(lens) = n /\ n \in Nat
         /\ \A i \in 1..n : lens[i] \in 1..Width(setup)
<1>1. Len(b) = n /\ n \in Nat
  BY ListedIs
<1>2. lens = [i \in 1..n |-> Tokens(b[i])]
  BY <1>1 DEF Lens
<1>3. Width(setup) \in Nat
  BY WidthIs
<1>4. \A i \in 1..n : lens[i] \in 1..Width(setup)
  BY <1>2, <1>3 DEF Tokens, Fits, PromptLen
<1>5. \A i \in 1..n : lens[i] \in Nat
  BY <1>3, <1>4
<1>6. Listed(lens, n)
  <2>1. lens = [i \in 1..n |-> lens[i]]
    BY <1>2
  <2> QED
    BY <1>1, <2>1 DEF Listed
<1>7. lens \in Seq(Nat) /\ Len(lens) = n
  BY <1>5, <1>6, ListedSeq, ListedIs
<1> QED
  BY <1>1, <1>4, <1>7

\* Balancing puts the scored rows in another order.
LEMMA BalanceKeeps ==
  ASSUME FlowInv, phase = "balance", NEW lens, lens = Lens(batch), setup.balance
  PROVE  /\ CanBalance(lens, World, TRUE)
         /\ Len(FlattenSeq(BalancedPartitions(lens, World, TRUE))) = Samples
         /\ Permutes(FlattenSeq(BalancedPartitions(lens, World, TRUE)), Samples)
<1>1. PathIs /\ SampleRows(batch, SampleKeys)
  BY DEF FlowInv, BatchIs, Sampled, Generated, KeysAt
<1>2. ~setup.validate
  BY DEF FlowInv, PathIs, Sampled, Generated
<1>3. World \in Nat \ {0} /\ Samples \in Nat \ {0} /\ Samples % World = 0
  BY <1>1, <1>2, WorldHere
<1>4. Listed(batch, Samples) /\ \A i \in 1..Samples : Fits(batch[i].input)
  BY <1>1 DEF SampleRows
<1>5. lens \in Seq(Nat) /\ Len(lens) = Samples
  BY <1>1, <1>4, LensAre
<1>6. World \in 1..Len(lens) /\ Len(lens) % World = 0
  <2> DEFINE N == Samples
             W == World
             q == N \div W
  <2>1. N = q * W /\ q \in Nat /\ N \in Nat \ {0} /\ W \in Nat \ {0}
    BY <1>3
  <2> HIDE DEF N, W, q
  <2>2. q # 0
    BY <2>1
  <2>3. W <= N
    BY <2>1, <2>2
  <2> QED
    BY <1>3, <1>5, <2>1, <2>3 DEF N, W
<1>7. CanBalance(lens, World, TRUE)
  BY <1>5, <1>6, PartitionsAsAsserted
<1>8. /\ Len(FlattenSeq(BalancedPartitions(lens, World, TRUE))) = Len(lens)
      /\ Permutes(FlattenSeq(BalancedPartitions(lens, World, TRUE)), Len(lens))
  BY <1>5, <1>6, BalancingPermutes
<1> QED
  BY <1>5, <1>7, <1>8

\* The scored batch has the columns of the next call.
LEMMA ScoredIs ==
  ASSUME FlowInv, phase = "balance"
  PROVE  SampleRows(Scored, KeysAt("compute_log_prob"))
<1>1. SampleRows(batch, SampleKeys)
  BY DEF FlowInv, BatchIs, Sampled, Generated, KeysAt
<1>2. Listed(batch, Samples) /\ Len(batch) = Samples /\ Samples \in Nat
  BY <1>1, ListedIs DEF SampleRows
<1>3. KeysAt("compute_log_prob") = SampleKeys \cup {"score"}
  BY DEF KeysAt, Generated, ColumnMethods
<1> DEFINE s == Scored
<1>4. s = [i \in 1..Samples |-> [k \in DOMAIN batch[i] \cup {"score"} |-> IF k = "score" THEN rewards[i] ELSE batch[i][k]]]
  BY <1>2 DEF Scored
<1> HIDE DEF s
<1>5. Listed(s, Samples)
  <2>1. s = [i \in 1..Samples |-> s[i]]
    BY <1>4
  <2> QED
    BY <1>2, <2>1 DEF Listed
<1>6. ASSUME NEW i \in 1..Samples
      PROVE  DOMAIN s[i] = SampleKeys \cup {"score"} /\ s[i].input = batch[i].input
  <2>1. DOMAIN batch[i] = SampleKeys
    BY <1>1 DEF SampleRows
  <2>2. s[i] = [k \in SampleKeys \cup {"score"} |-> IF k = "score" THEN rewards[i] ELSE batch[i][k]]
    BY <1>4, <2>1
  <2>3. "input" \in SampleKeys \cup {"score"} /\ "input" # "score"
    BY DEF SampleKeys
  <2> QED
    BY <2>2, <2>3
<1> QED
  BY <1>1, <1>3, <1>5, <1>6 DEF SampleRows, s

\* What fit goes on with after balancing, and the call for it.
LEMMA BalanceSends ==
  ASSUME FlowInv, Balance
  PROVE  /\ SampleRows(batch', KeysAt("compute_log_prob"))
         /\ Send("compute_log_prob", "compute_log_prob", batch')
<1> DEFINE lens == Lens(batch)
           k == World
           idx == FlattenSeq(BalancedPartitions(lens, k, TRUE))
           s == Scored
<1>1. phase = "balance"
  BY DEF Balance
<1>2. IF setup.balance /\ ~CanBalance(lens, k, TRUE) THEN phase' = "raised" /\ UNCHANGED <<batch, sent, out, call>>
      ELSE /\ batch' = IF setup.balance THEN Reorder(s, idx) ELSE s
           /\ Send("compute_log_prob", "compute_log_prob", IF setup.balance THEN Reorder(s, idx) ELSE s)
  BY DEF Balance, World, Lens
<1>3. SampleRows(s, KeysAt("compute_log_prob"))
  BY <1>1, ScoredIs
<1> HIDE DEF s
<1>4. CASE ~setup.balance
  BY <1>2, <1>3, <1>4
<1>5. CASE setup.balance
  <2>1. CanBalance(lens, k, TRUE) /\ Len(idx) = Samples /\ Permutes(idx, Samples)
    BY <1>1, <1>5, BalanceKeeps
  <2> HIDE DEF lens, k, idx
  <2>2. batch' = Reorder(s, idx) /\ Send("compute_log_prob", "compute_log_prob", batch')
    BY <1>2, <1>5, <2>1
  <2>3. Samples \in Nat
    BY WorldHere DEF FlowInv
  <2>4. Reordered(Reorder(s, idx), s, idx, Samples)
    BY <2>1, <2>3, ReorderIs
  <2>5. \A i \in 1..Samples : idx[i] \in 1..Samples
    BY <2>1 DEF Permutes
  <2>6. SampleRows(batch', KeysAt("compute_log_prob"))
    BY <1>3, <2>2, <2>4, <2>5 DEF SampleRows, Reordered
  <2> QED
    BY <2>2, <2>6
<1> QED
  BY <1>4, <1>5

\* A call for the batch of samples with the columns it has got until then.
LEMMA CallFor ==
  ASSUME FlowInv, setup' = setup, group' = group, rewards' = rewards, ~setup.validate, Listed(rewards, Samples),
         \A i \in 1..Samples : rewards[i] \in {0, 1},
         NEW method \in ColumnMethods \cup UpdateMethods,
         method = "compute_ref_log_prob" => setup.reference,
         method \in {"compute_values", "update_critic"} => setup.critic,
         method \in UpdateMethods => ~Tight,
         SampleRows(batch', KeysAt(method)), Send(method, method, batch')
  PROVE  FlowInv'
<1>1. PathIs /\ GroupIs
  BY DEF FlowInv
<1>2. Listed(batch', Samples)
  BY DEF SampleRows
<1> DEFINE b == batch'
<1>3. CanChunk(b, NumChunks(ModeOf(method), setup.layout))
  <2>1. Listed(b, Samples)
    BY <1>2
  <2> HIDE DEF b
  <2> QED
    BY <1>1, <2>1, SamplesChunk
<1>4. Sends(method, method, b)
  BY <1>3 DEF Send, Sends
<1>5. RanksAre' /\ PlanIs' /\ GenerationIs' /\ CallIs'
  <2>1. batch' = b
    OBVIOUS
  <2> HIDE DEF b
  <2> QED
    BY <1>4, <2>1, CallBegins
<1>6. phase' = method
  BY <1>4 DEF Sends
<1>7. World' = World /\ Samples' = Samples /\ (Tight' <=> Tight)
  BY SameJob
<1>8. PathIs'
  BY <1>1, <1>6, <1>7 DEF PathIs, Sampled, Generated, ColumnMethods, UpdateMethods
<1>9. BatchIs'
  <2>1. SampleRows(batch, KeysAt(method))'
    BY <1>7 DEF SampleRows, Fits, KeysAt, ReferenceKeys, ValueKeys
  <2> QED
    BY <1>6, <2>1 DEF BatchIs, ColumnMethods, UpdateMethods
<1>10. GroupIs' /\ RewardsAre'
  BY <1>1, <1>6, <1>7 DEF GroupIs, RewardsAre, ColumnMethods, UpdateMethods
<1> QED
  BY <1>5, <1>8, <1>9, <1>10 DEF FlowInv

\* Balance keeps the invariant: balancing permutes the rows, and no assertion fails.
LEMMA FlowBalance ==
  ASSUME FlowInv, Balance
  PROVE  FlowInv'
<1>1. /\ phase = "balance" /\ setup' = setup /\ group' = group /\ rewards' = rewards
  BY DEF Balance
<1>2. ~setup.validate /\ Listed(rewards, Samples) /\ \A i \in 1..Samples : rewards[i] \in {0, 1}
  BY <1>1 DEF FlowInv, PathIs, Sampled, Generated, RewardsAre
<1> DEFINE m == "compute_log_prob"
<1>3. m \in ColumnMethods \cup UpdateMethods /\ m \notin UpdateMethods
      /\ m \notin {"compute_values", "update_critic", "compute_ref_log_prob"}
  BY DEF ColumnMethods, UpdateMethods
<1>4. SampleRows(batch', KeysAt(m)) /\ Send(m, m, batch')
  BY BalanceSends
<1> HIDE DEF m
<1> QED
  BY <1>1, <1>2, <1>3, <1>4, CallFor

\* What a rank has of the batch.
LEMMA ShareIs ==
  ASSUME PathIs, ~setup.validate
  PROVE  Share \in Nat /\ NumChunks(ModeHere, setup.layout) * Share = Samples
         /\ NumChunks(ModeHere, setup.layout) \in Nat \ {0} /\ ModeHere \in Modes /\ setup.layout \in Layouts
<1> DEFINE L == setup.layout
           mode == ModeHere
           k == NumChunks(mode, L)
           N == Samples
<1>1. N \in Nat /\ N % World = 0
  BY WorldHere
<1>2. mode \in Modes
  BY ModeIn DEF ModeHere
<1>3. L \in Layouts
  BY JobIs DEF Job
<1>4. N % WorldSize(L) = 0
  BY <1>1 DEF World
<1>5. Share = N \div k
  BY DEF Share
<1> HIDE DEF N, L, mode
<1>6. N % k = 0 /\ k \in Nat \ {0}
  BY <1>1, <1>2, <1>3, <1>4, ChunksDivide, WorldIs
<1> HIDE DEF k
<1>7. N \div k \in Nat /\ k * (N \div k) = N
  BY <1>1, <1>6
<1> QED
  BY <1>2, <1>3, <1>5, <1>6, <1>7 DEF k, N, L, mode

\* The driver in the calls for the batch.
LEMMA InCall ==
  ASSUME FlowInv, phase \in ColumnMethods \cup UpdateMethods \cup {"advantages"}
  PROVE  /\ PathIs /\ ~setup.validate /\ SampleRows(batch, KeysAt(phase))
         /\ Listed(rewards, Samples) /\ \A i \in 1..Samples : rewards[i] \in {0, 1}
BY DEF FlowInv, PathIs, BatchIs, RewardsAre, Sampled, Generated, ColumnMethods, UpdateMethods

\* A column collected has an element for each row of the batch, which holds what is
\* computed of that row.
LEMMA ColumnCollected ==
  ASSUME FlowInv, phase \in ColumnMethods, Answered,
         NEW c, c = CollectProto(ModeHere, setup.layout, out), NEW key, key = KeyOf(phase)
  PROVE  /\ Columns(c, Samples, {key})
         /\ InOrderOf(key) => \A j \in 1..Samples : c[j][key] = ValueOf(key, batch[j].input)
<1> DEFINE L == setup.layout
           mode == ModeHere
           k == NumChunks(mode, L)
<1>1. PathIs /\ ~setup.validate /\ SampleRows(batch, KeysAt(phase))
  BY InCall
<1>2. Share \in Nat /\ k * Share = Samples /\ mode \in Modes /\ L \in Layouts
  BY <1>1, ShareIs
<1>3. \A r \in Ranks : ColumnRows(out[r], sent[r], key)
  BY DEF FlowInv, CallIs, Answered
<1>4. Ranks = RanksOf(L) /\ sent = DispatchProto(mode, L, batch)
  BY DEF Ranks, FlowInv, CallIs
<1>11. InTurns(mode, L)
  BY DEF InTurns, ModeHere, ModeOf, ColumnMethods
<1>12. c = CollectProto(mode, L, out)
  OBVIOUS
<1>9. Len(batch) = k * Share
  <2>1. Len(batch) = Samples
    BY <1>1, ListedIs DEF SampleRows
  <2> QED
    BY <1>2, <2>1
<1> HIDE DEF L, mode
<1>10. Dispatched(sent, mode, L, batch, Share)
  BY <1>2, <1>4, <1>9, DispatchIs
<1> HIDE DEF k
<1>5. \A r \in RanksOf(L) : Listed(out[r], Share) /\ \A i \in 1..Share : DOMAIN out[r][i] = {key}
  BY <1>3, <1>4 DEF ColumnRows
<1>6. Gathered(c, out, mode, L, Share)
  <2>1. \A r \in RanksOf(L) : Listed(out[r], Share)
    BY <1>5
  <2> QED
    BY <1>2, <1>12, <2>1, CollectIs
<1>7. Listed(c, Samples)
  BY <1>2, <1>6 DEF Gathered, k
<1>8. ASSUME NEW j \in 1..Samples
      PROVE  DOMAIN c[j] = {key} /\ (InOrderOf(key) => c[j][key] = ValueOf(key, batch[j].input))
  <2>1. PICK r \in RanksOf(L), x \in 1..Share : c[j] = out[r][x] /\ ChunkOf(mode, L, r) * Share + x = j
    BY <1>2, <1>6, <1>11 DEF Gathered, k
  <2>2. sent[r][x] = batch[ChunkOf(mode, L, r) * Share + x]
    BY <1>10 DEF Dispatched
  <2>3. sent[r][x] = batch[j]
    BY <2>1, <2>2
  <2>4. DOMAIN out[r][x] = {key} /\ (InOrderOf(key) => out[r][x][key] = ValueOf(key, sent[r][x].input))
    BY <1>3, <1>4 DEF ColumnRows
  <2> QED
    BY <2>1, <2>3, <2>4
<1> QED
  BY <1>7, <1>8 DEF Columns

\* The driver after the last call, or between the columns and the updates.
LEMMA NoMoreCall ==
  ASSUME FlowInv, setup' = setup, group' = group, rewards' = rewards, ~setup.validate, Listed(rewards, Samples),
         \A i \in 1..Samples : rewards[i] \in {0, 1}, UNCHANGED <<sent, out, call>>,
         phase' \in {"advantages", "over"}, phase' = "advantages" => ~Tight,
         SampleRows(batch', KeysAt(phase'))
  PROVE  FlowInv'
<1>1. PathIs /\ GroupIs
  BY DEF FlowInv
<1>2. RanksAre' /\ PlanIs' /\ GenerationIs' /\ CallIs'
  BY NoCall DEF Calls, ColumnMethods, UpdateMethods
<1>3. World' = World /\ Samples' = Samples /\ (Tight' <=> Tight)
  BY SameJob
<1>4. PathIs'
  BY <1>1, <1>3 DEF PathIs, Sampled, Generated, ColumnMethods, UpdateMethods
<1>5. BatchIs'
  <2>1. SampleRows(batch, KeysAt(phase))'
    BY <1>3 DEF SampleRows, Fits, KeysAt, ReferenceKeys, ValueKeys
  <2> QED
    BY <2>1 DEF BatchIs
<1>6. GroupIs' /\ RewardsAre'
  BY <1>1, <1>3 DEF GroupIs, RewardsAre
<1> QED
  BY <1>2, <1>4, <1>5, <1>6 DEF FlowInv

\* The method called after the phase, if any.
Following == CASE phase = "compute_log_prob" -> AfterOldLogProb
               [] phase = "compute_ref_log_prob" -> AfterReference
               [] phase = "compute_values" -> AfterColumns

\* What follows a column, and the columns the batch then has.
LEMMA FollowingIs ==
  ASSUME PathIs, phase \in ColumnMethods
  PROVE  /\ Following \in {"compute_ref_log_prob", "compute_values", "advantages"}
         /\ Following = "compute_ref_log_prob" => setup.reference
         /\ Following = "compute_values" => setup.critic
         /\ Following = "advantages" => ~setup.critic \/ phase = "compute_values"
         /\ KeyOf(phase) \notin KeysAt(phase)
         /\ KeysAt(phase) \cup {KeyOf(phase)} = KeysAt(Following)
<1>1. CASE phase = "compute_log_prob"
  <2>1. Following = AfterOldLogProb /\ KeyOf(phase) = "old_log_probs"
    BY <1>1 DEF Following, KeyOf
  <2>2. KeysAt(phase) = SampleKeys \cup {"score"}
    BY <1>1 DEF KeysAt, Generated, ColumnMethods
  <2>3. CASE setup.reference
    BY <2>1, <2>2, <2>3 DEF AfterOldLogProb, KeysAt, Generated, ColumnMethods, SampleKeys
  <2>4. CASE ~setup.reference /\ setup.critic
    BY <2>1, <2>2, <2>4
       DEF AfterOldLogProb, AfterReference, KeysAt, Generated, ColumnMethods, SampleKeys, ReferenceKeys
  <2>5. CASE ~setup.reference /\ ~setup.critic
    BY <2>1, <2>2, <2>5 DEF AfterOldLogProb, AfterReference, AfterColumns, KeysAt, Generated, ColumnMethods,
                            SampleKeys, ReferenceKeys, ValueKeys
  <2> QED
    BY <2>3, <2>4, <2>5
<1>2. CASE phase = "compute_ref_log_prob"
  <2>1. Following = AfterReference /\ KeyOf(phase) = "ref_log_prob" /\ setup.reference
    BY <1>2 DEF Following, KeyOf, PathIs
  <2>2. KeysAt(phase) = SampleKeys \cup {"score", "old_log_probs"}
    BY <1>2 DEF KeysAt, Generated, ColumnMethods
  <2>3. CASE setup.critic
    BY <2>1, <2>2, <2>3 DEF AfterReference, KeysAt, Generated, ColumnMethods, SampleKeys, ReferenceKeys
  <2>4. CASE ~setup.critic
    BY <2>1, <2>2, <2>4 DEF AfterReference, AfterColumns, KeysAt, Generated, ColumnMethods, SampleKeys,
                            ReferenceKeys, ValueKeys
  <2> QED
    BY <2>3, <2>4
<1>3. CASE phase = "compute_values"
  <2>1. Following = AfterColumns /\ KeyOf(phase) = "values" /\ setup.critic
    BY <1>3 DEF Following, KeyOf, PathIs
  <2>2. KeysAt(phase) = SampleKeys \cup {"score", "old_log_probs"} \cup ReferenceKeys
    BY <1>3 DEF KeysAt, Generated, ColumnMethods
  <2> QED
    BY <1>3, <2>1, <2>2 DEF AfterColumns, KeysAt, Generated, ColumnMethods, SampleKeys, ReferenceKeys, ValueKeys
<1> QED
  BY <1>1, <1>2, <1>3 DEF ColumnMethods

\* The batch with the column.
LEMMA ColumnUnited ==
  ASSUME FlowInv, CollectColumn
  PROVE  /\ SampleRows(batch', KeysAt(Following))
         /\ IF Following = "advantages" THEN phase' = Following /\ UNCHANGED <<sent, out, call>>
                                        ELSE Send(Following, Following, batch')
         /\ InOrderOf(KeyOf(phase)) =>
              \A i \in 1..Samples :
                batch'[i] = With(batch[i], KeyOf(phase), ValueOf(KeyOf(phase), batch[i].input))
         /\ \A i \in 1..Samples : batch'[i].input = batch[i].input
<1> DEFINE c == CollectProto(ModeHere, setup.layout, out)
           u == Union(batch, c)
           K == KeysAt(phase)
           key == KeyOf(phase)
           L == {key}
<1>1. phase \in ColumnMethods /\ Answered
  BY DEF CollectColumn
<1>2. Collected(phase) = c
  BY DEF Collected, ModeHere
<1>3. IF ~CanUnion(batch, c) THEN phase' = "raised" /\ UNCHANGED <<batch, sent, out, call>>
      ELSE /\ batch' = u
           /\ IF Following = "advantages" THEN phase' = Following /\ UNCHANGED <<sent, out, call>>
                                          ELSE Send(Following, Following, u)
  BY <1>2 DEF CollectColumn, Following
<1>4. PathIs /\ SampleRows(batch, K)
  BY <1>1, InCall
<1>5. /\ Columns(c, Samples, L)
      /\ InOrderOf(key) => \A j \in 1..Samples : c[j][key] = ValueOf(key, batch[j].input)
  BY <1>1, ColumnCollected
<1>6. Columns(batch, Samples, K)
  BY <1>4 DEF Columns, SampleRows
<1>7. K \cap L = {} /\ K \cup L = KeysAt(Following)
  BY <1>1, <1>4, FollowingIs
<1>8. "input" \in K
  BY DEF KeysAt, SampleKeys
<1>11. key \notin K /\ L = {key}
  BY <1>1, <1>4, FollowingIs
<1> HIDE DEF c, K, L, key
<1>9. CanUnion(batch, c) /\ United(u, batch, c, Samples, K, L)
  BY <1>5, <1>6, <1>7, UnionIs
<1>10. SampleRows(u, KeysAt(Following)) /\ \A i \in 1..Samples : u[i].input = batch[i].input
  <2> HIDE DEF u
  <2>1. \A i \in 1..Samples : u[i].input = batch[i].input
    BY <1>8, <1>9 DEF United
  <2> QED
    BY <1>4, <1>7, <1>9, <2>1 DEF SampleRows, United
<1>12. InOrderOf(key) => \A i \in 1..Samples : u[i] = With(batch[i], key, ValueOf(key, batch[i].input))
  <2> HIDE DEF u
  <2> SUFFICES ASSUME InOrderOf(key), NEW i \in 1..Samples
               PROVE  u[i] = With(batch[i], key, ValueOf(key, batch[i].input))
    OBVIOUS
  <2>1. u[i] = [k \in K \cup L |-> IF k \in K THEN batch[i][k] ELSE c[i][k]]
    BY <1>9 DEF United
  <2>2. DOMAIN batch[i] = K
    BY <1>4 DEF SampleRows
  <2>3. c[i][key] = ValueOf(key, batch[i].input)
    BY <1>5
  <2>4. With(batch[i], key, ValueOf(key, batch[i].input))
          = [k \in K \cup {key} |-> IF k = key THEN ValueOf(key, batch[i].input) ELSE batch[i][k]]
    BY <2>2 DEF With
  <2> QED
    BY <1>11, <2>1, <2>3, <2>4
<1> QED
  BY <1>3, <1>9, <1>10, <1>12 DEF key

\* Collecting a column keeps the invariant: the union adds it to every sample, and the
\* next call is sent.
LEMMA FlowCollectColumn ==
  ASSUME FlowInv, CollectColumn
  PROVE  FlowInv'
<1> DEFINE m == Following
<1>1. /\ phase \in ColumnMethods /\ Answered /\ setup' = setup /\ group' = group /\ rewards' = rewards
  BY DEF CollectColumn
<1>2. /\ PathIs /\ ~setup.validate /\ Listed(rewards, Samples)
      /\ \A i \in 1..Samples : rewards[i] \in {0, 1}
  BY <1>1, InCall
<1>3. SampleRows(batch', KeysAt(m))
      /\ IF m = "advantages" THEN phase' = m /\ UNCHANGED <<sent, out, call>> ELSE Send(m, m, batch')
  BY ColumnUnited
<1>4. /\ m \in {"compute_ref_log_prob", "compute_values", "advantages"}
      /\ m = "compute_ref_log_prob" => setup.reference
      /\ m = "compute_values" => setup.critic
      /\ m = "advantages" => ~setup.critic \/ phase = "compute_values"
  BY <1>1, <1>2, FollowingIs
<1> HIDE DEF m
<1>5. CASE m = "advantages"
  <2>1. ~Tight
    <3>1. CASE ~setup.critic
      BY <3>1 DEF Tight
    <3>2. CASE phase = "compute_values"
      <4>1. 0 \in Ranks
        BY <1>2, JobIs, WorldIs, ModeIn DEF Ranks, Job
      <4>2. plan # <<>>
        BY <1>1, <4>1 DEF FlowInv, CallIs, Answered
      <4>3. setup.dynamic => MaxTokens >= Width(setup)
        BY <1>1, <4>2 DEF FlowInv, CallIs
      <4>4. MaxTokens = (setup.maxTokens * setup.sp * 3) \div 4
        BY <3>2 DEF MaxTokens
      <4>5. setup.maxTokens \in Nat \ {0} /\ setup.sp \in Nat \ {0}
        BY <1>2, JobIs DEF Job
      <4>6. MaxTokens \in Int /\ Width(setup) \in Nat
        <5> DEFINE x == setup.maxTokens * setup.sp
        <5>1. x \in Nat
          BY <4>5, ProductPos
        <5> HIDE DEF x
        <5>2. MaxTokens = (x * 3) \div 4
          BY <4>4 DEF x
        <5>3. MaxTokens \in Int
          BY <5>1, <5>2
        <5> QED
          BY <1>2, <5>3, WidthIs
      <4>7. Tight => MaxTokens < Width(setup) /\ setup.dynamic
        BY <4>4 DEF Tight
      <4> QED
        BY <4>3, <4>6, <4>7
    <3> QED
      BY <1>4, <1>5, <3>1, <3>2
  <2> QED
    BY <1>1, <1>2, <1>3, <1>5, <2>1, NoMoreCall
<1>6. CASE m # "advantages"
  <2>1. m \in ColumnMethods \cup UpdateMethods /\ m \notin UpdateMethods /\ m # "update_critic"
    BY <1>4, <1>6 DEF ColumnMethods, UpdateMethods
  <2>2. Send(m, m, batch')
    BY <1>3, <1>6
  <2> QED
    BY <1>1, <1>2, <1>3, <1>4, <2>1, <2>2, CallFor
<1> QED
  BY <1>5, <1>6

\* The batch with the advantages, and what follows.
LEMMA AdvantagesAdded ==
  ASSUME FlowInv, ComputeAdvantage
  PROVE  /\ SampleRows(batch', KeysAt("update_actor"))
         /\ IF setup.critic THEN Send("update_critic", "update_critic", batch')
            ELSE IF setup.warmup THEN phase' = "over" /\ UNCHANGED <<sent, out, call>>
            ELSE Send("update_actor", "update_actor", batch')
         /\ \A i \in 1..Samples : /\ batch'[i] = With(batch[i], "advantages", Advantage(batch, i))
                                  /\ batch'[i].input = batch[i].input
<1> DEFINE K == KeysAt("advantages")
           b == [i \in 1..Len(batch) |->
                  [k \in DOMAIN batch[i] \cup {"advantages"} |->
                    IF k = "advantages" THEN Advantage(batch, i) ELSE batch[i][k]]]
<1>1. /\ phase = "advantages" /\ batch' = b
      /\ IF setup.critic THEN Send("update_critic", "update_critic", b)
         ELSE IF setup.warmup THEN phase' = "over" /\ UNCHANGED <<sent, out, call>>
         ELSE Send("update_actor", "update_actor", b)
  BY DEF ComputeAdvantage
<1>2. SampleRows(batch, K)
  BY <1>1, InCall
<1>3. Len(batch) = Samples /\ Samples \in Nat
  BY <1>2, ListedIs DEF SampleRows
<1>4. K \cup {"advantages"} = KeysAt("update_actor") /\ "input" \in K /\ "input" # "advantages"
  BY DEF KeysAt, SampleKeys, Generated, ColumnMethods, UpdateMethods
<1> HIDE DEF K
<1>5. b = [i \in 1..Samples |-> [k \in DOMAIN batch[i] \cup {"advantages"} |->
                                  IF k = "advantages" THEN Advantage(batch, i) ELSE batch[i][k]]]
  BY <1>3
<1> HIDE DEF b
<1>6. ASSUME NEW i \in 1..Samples
      PROVE  /\ DOMAIN b[i] = KeysAt("update_actor") /\ b[i].input = batch[i].input
             /\ b[i] = With(batch[i], "advantages", Advantage(batch, i))
  <2>1. DOMAIN batch[i] = K
    BY <1>2 DEF SampleRows
  <2>2. b[i] = [k \in K \cup {"advantages"} |-> IF k = "advantages" THEN Advantage(batch, i) ELSE batch[i][k]]
    BY <1>5, <2>1
  <2>3. b[i] = With(batch[i], "advantages", Advantage(batch, i))
    BY <2>1, <2>2 DEF With
  <2> QED
    BY <1>4, <2>2, <2>3
<1>7. Listed(b, Samples)
  <2>1. b = [i \in 1..Samples |-> b[i]]
    BY <1>5
  <2> QED
    BY <1>3, <2>1 DEF Listed
<1>8. SampleRows(b, KeysAt("update_actor"))
  BY <1>2, <1>6, <1>7 DEF SampleRows
<1> QED
  BY <1>1, <1>6, <1>8

\* Updates add no column.
LEMMA UpdateKeys ==
  ASSUME ~setup.validate
  PROVE  KeysAt("update_critic") = KeysAt("update_actor") /\ KeysAt("over") = KeysAt("update_actor")
BY DEF KeysAt, Generated, ColumnMethods, UpdateMethods

\* ComputeAdvantage keeps the invariant: it adds the last column.
LEMMA FlowComputeAdvantage ==
  ASSUME FlowInv, ComputeAdvantage
  PROVE  FlowInv'
<1>1. phase = "advantages" /\ setup' = setup /\ group' = group /\ rewards' = rewards
  BY DEF ComputeAdvantage
<1>2. /\ PathIs /\ ~setup.validate /\ Listed(rewards, Samples)
      /\ \A i \in 1..Samples : rewards[i] \in {0, 1}
  BY <1>1, InCall
<1>3. ~Tight
  BY <1>1, <1>2 DEF PathIs
<1>4. SampleRows(batch', KeysAt("update_actor"))
      /\ IF setup.critic THEN Send("update_critic", "update_critic", batch')
         ELSE IF setup.warmup THEN phase' = "over" /\ UNCHANGED <<sent, out, call>>
         ELSE Send("update_actor", "update_actor", batch')
  BY AdvantagesAdded
<1>5. KeysAt("update_critic") = KeysAt("update_actor") /\ KeysAt("over") = KeysAt("update_actor")
  BY <1>2, UpdateKeys
<1>6. CASE Send("update_critic", "update_critic", batch') /\ setup.critic
  <2> DEFINE m == "update_critic"
  <2>1. m \in ColumnMethods \cup UpdateMethods /\ m # "compute_ref_log_prob" /\ Send(m, m, batch')
        /\ SampleRows(batch', KeysAt(m))
    BY <1>4, <1>5, <1>6 DEF UpdateMethods
  <2> HIDE DEF m
  <2> QED
    BY <1>1, <1>2, <1>3, <1>6, <2>1, CallFor
<1>7. CASE Send("update_actor", "update_actor", batch')
  <2> DEFINE m == "update_actor"
  <2>1. m \in ColumnMethods \cup UpdateMethods /\ m \notin {"compute_ref_log_prob", "compute_values", "update_critic"}
        /\ Send(m, m, batch') /\ SampleRows(batch', KeysAt(m))
    BY <1>4, <1>7 DEF UpdateMethods
  <2> HIDE DEF m
  <2> QED
    BY <1>1, <1>2, <1>3, <2>1, CallFor
<1>8. CASE phase' = "over" /\ UNCHANGED <<sent, out, call>>
  BY <1>1, <1>2, <1>4, <1>5, <1>8, NoMoreCall
<1> QED
  BY <1>4, <1>6, <1>7, <1>8

\* CollectUpdate keeps the invariant.
LEMMA FlowCollectUpdate ==
  ASSUME FlowInv, CollectUpdate
  PROVE  FlowInv'
<1>1. /\ phase \in UpdateMethods /\ setup' = setup /\ batch' = batch /\ group' = group /\ rewards' = rewards
      /\ \/ Send("update_actor", "update_actor", batch)
         \/ phase' = "over" /\ UNCHANGED <<sent, out, call>>
  BY DEF CollectUpdate
<1>2. /\ PathIs /\ ~setup.validate /\ Listed(rewards, Samples) /\ SampleRows(batch, KeysAt(phase))
      /\ \A i \in 1..Samples : rewards[i] \in {0, 1}
  BY <1>1, InCall
<1>3. ~Tight
  BY <1>1, <1>2 DEF PathIs
<1>4. KeysAt("update_critic") = KeysAt("update_actor") /\ KeysAt("over") = KeysAt("update_actor")
  BY <1>2, UpdateKeys
<1>5. SampleRows(batch', KeysAt("update_actor"))
  BY <1>1, <1>2, <1>4 DEF UpdateMethods
<1>6. CASE Send("update_actor", "update_actor", batch)
  <2> DEFINE m == "update_actor"
  <2>1. m \in ColumnMethods \cup UpdateMethods /\ m \notin {"compute_ref_log_prob", "compute_values", "update_critic"}
        /\ Send(m, m, batch') /\ SampleRows(batch', KeysAt(m))
    BY <1>1, <1>5, <1>6 DEF UpdateMethods
  <2> HIDE DEF m
  <2> QED
    BY <1>1, <1>2, <1>3, <2>1, CallFor
<1>7. CASE phase' = "over" /\ UNCHANGED <<sent, out, call>>
  BY <1>1, <1>2, <1>4, <1>5, <1>7, NoMoreCall
<1> QED
  BY <1>1, <1>6, <1>7

-----------------------------------------------------------------------------
\* The rows of a rank

InCalls == phase \in ColumnMethods \cup UpdateMethods

\* In a call for the batch every rank was sent a chunk of it, and the chunks are
\* equal.
LEMMA CallSent ==
  ASSUME FlowInv, InCalls
  PROVE  Dispatched(sent, ModeHere, setup.layout, batch, Share) /\ Share \in Nat \ {0}
<1>1. PathIs /\ ~setup.validate /\ SampleRows(batch, KeysAt(phase))
  BY InCall DEF InCalls
<1>2. sent = DispatchProto(ModeHere, setup.layout, batch)
  BY DEF FlowInv, CallIs, InCalls
<1> DEFINE L == setup.layout
           mode == ModeHere
           k == NumChunks(mode, L)
<1>3. Share \in Nat /\ k * Share = Samples /\ mode \in Modes /\ L \in Layouts /\ k \in Nat \ {0}
  BY <1>1, ShareIs
<1>4. Len(batch) = Samples /\ Samples \in Nat \ {0}
  BY <1>1, ListedIs, WorldHere DEF SampleRows
<1>5. Share # 0
  <2> HIDE DEF k
  <2> DEFINE x == Share
  <2>1. k * x = Samples /\ x \in Nat
    BY <1>3
  <2> HIDE DEF x
  <2>2. x # 0
    BY <1>3, <1>4, <2>1
  <2> QED
    BY <2>2 DEF x
<1>6. Len(batch) = NumChunks(mode, L) * Share
  BY <1>3, <1>4
<1> HIDE DEF L, mode
<1>7. Dispatched(DispatchProto(mode, L, batch), mode, L, batch, Share)
  BY <1>3, <1>6, DispatchIs
<1> QED
  BY <1>2, <1>3, <1>5, <1>7 DEF L, mode

\* How many rows a rank works on, with those of its Ulysses group.
Rows == setup.sp * Share

\* n rows of the batch.
RowsOf(rows, n) == Listed(rows, n) /\ \A i \in 1..n : \E j \in 1..Samples : rows[i] = batch[j]

\* Such rows are no longer than a row may be.
LEMMA RowsFit ==
  ASSUME SampleRows(batch, KeysAt(phase)), NEW rows, NEW n, RowsOf(rows, n)
  PROVE  Listed(rows, n) /\ \A i \in 1..n : Fits(rows[i].input)
BY DEF RowsOf, SampleRows

\* What a rank works on are rows of the batch, on every rank equally many.
LEMMA DataIs ==
  ASSUME FlowInv, InCalls, NEW r \in Ranks
  PROVE  /\ RowsOf(DataOf(r), Rows) /\ Rows \in Nat \ {0}
         /\ \A c \in 1..setup.sp : \A x \in 1..Share :
              /\ r - (r % setup.sp) + c - 1 \in Ranks
              /\ DataOf(r)[(c - 1) * Share + x] = sent[r - (r % setup.sp) + c - 1][x]
<1> DEFINE s == setup.sp
           W == World
           parts == [i \in 1..s |-> sent[SpGroup(r)[i]]]
           base == r - (r % s)
           d == DataOf(r)
           size == Share
           n == s * size
<1>1. PathIs /\ ~setup.validate
  BY InCall DEF InCalls
<1>2. s \in Nat \ {0} /\ W \in Nat \ {0} /\ W % s = 0 /\ Ranks = 0..(W - 1)
  BY <1>1, JobIs, WorldHere DEF Job, World, Ranks, RanksOf
<1>3. Dispatched(sent, ModeHere, setup.layout, batch, size) /\ size \in Nat \ {0}
  BY CallSent
<1>4. d = Concat(parts)
  BY DEF DataOf
<1>5. \A i \in 1..s : SpGroup(r)[i] = base + i - 1
  BY DEF SpGroup
<1> HIDE DEF s, W, size
<1>6. base \in 0..(W - 1) /\ base = base - (base % s) + 1 - 1
  <2> DEFINE a == r \div s
             at == a * s
  <2>1. r \in Nat /\ r \in 0..(W - 1)
    BY <1>2
  <2>2. base = at /\ a \in Nat /\ at \in Nat
    BY <1>2, <2>1
  <2> HIDE DEF a
  <2>3. (a * s) % s = 0
    BY <1>2, <2>2, MultipleDivides
  <2>4. at % s = 0
    BY <2>2, <2>3
  <2>5. base <= r
    BY <1>2, <2>1
  <2> HIDE DEF at, base
  <2> QED
    BY <1>2, <2>1, <2>2, <2>4, <2>5
<1> HIDE DEF base
<1>7. \A i \in 1..s : base + i - 1 \in Ranks
  <2> TAKE i \in 1..s
  <2>1. InEngine(W, s, base, i)
    BY <1>2, <1>6, EngineRanks
  <2> QED
    BY <1>2, <2>1 DEF InEngine
<1>8. \A i \in 1..s : parts[i] = sent[base + i - 1] /\ Listed(parts[i], size)
  <2> TAKE i \in 1..s
  <2>1. parts[i] = sent[base + i - 1]
    BY <1>5
  <2>2. Listed(sent[base + i - 1], size)
    BY <1>3, <1>7 DEF Dispatched, Ranks
  <2> QED
    BY <2>1, <2>2
<1>9. Len(parts) = s
  BY <1>2
<1> HIDE DEF parts
<1>10. Len(parts[1]) = size
  <2>1. Listed(parts[1], size)
    BY <1>2, <1>8
  <2> QED
    BY <2>1, ListedIs
<1>11. InBlocks(d, parts, s, size)
  <2>1. InBlocks(Concat(parts), parts, s, size)
    BY <1>2, <1>3, <1>9, <1>10, ConcatIs
  <2> QED
    BY <1>4, <2>1
<1> HIDE DEF d
<1>12. ASSUME NEW i \in 1..n
       PROVE  \E j \in 1..Samples : d[i] = batch[j]
  <2>1. PICK c \in 1..s, x \in 1..size : d[i] = parts[c][x]
    BY <1>11 DEF InBlocks
  <2> DEFINE q == base + c - 1
             j == ChunkOf(ModeHere, setup.layout, q) * size + x
  <2>2. q \in Ranks /\ d[i] = sent[q][x]
    BY <1>7, <1>8, <2>1
  <2> HIDE DEF q
  <2>3. sent[q][x] = batch[j] /\ j \in 1..(NumChunks(ModeHere, setup.layout) * size)
    BY <1>3, <2>2 DEF Dispatched, Ranks
  <2>4. NumChunks(ModeHere, setup.layout) * size = Samples
    BY <1>1, ShareIs DEF size
  <2> QED
    BY <2>2, <2>3, <2>4
<1>13. n \in Nat \ {0}
  BY <1>2, <1>3, ProductPos
<1>14. Listed(d, n)
  BY <1>11 DEF InBlocks
<1>15. \A c \in 1..s : \A x \in 1..size :
         base + c - 1 \in Ranks /\ d[(c - 1) * size + x] = sent[base + c - 1][x]
  <2> TAKE c \in 1..s
  <2> TAKE x \in 1..size
  <2>1. d[(c - 1) * size + x] = parts[c][x]
    BY <1>11 DEF InBlocks
  <2> QED
    BY <1>7, <1>8, <2>1
<1> HIDE DEF n
<1>16. RowsOf(d, n)
  BY <1>12, <1>14 DEF RowsOf
<1> QED
  BY <1>13, <1>15, <1>16 DEF Rows, n, s, size, d, base

\* An update goes through its rows in so many mini-batches; which of the rows are in
\* the present one.
Blocks == CeilDiv(Rows, setup.miniSize)
MiniLen == BlockLen(Rows, setup.miniSize, (mini % Blocks) + 1)
MiniPlace(j) == (mini % Blocks) * setup.miniSize + j

\* An update has one list of mini-batches per rank, all of the same sizes.
LEMMA MinisAre ==
  ASSUME FlowInv, phase \in UpdateMethods
  PROVE  /\ setup.miniSize \in Nat \ {0} /\ setup.epochs \in Nat \ {0}
         /\ Rows \in Nat \ {0} /\ Blocks \in Nat \ {0}
         /\ \A r \in Ranks : MinisOf(MiniBatches(r), DataOf(r), Rows, setup.miniSize, setup.epochs)
<1> DEFINE size == setup.miniSize
           epochs == setup.epochs
           N == Rows
<1>1. InCalls /\ PathIs
  BY InCall DEF InCalls
<1>2. size \in Nat \ {0} /\ epochs \in Nat \ {0}
  BY <1>1, JobIs DEF Job
<1>3. 0 \in Ranks
  BY <1>1, JobIs, WorldIs, ModeIn DEF Ranks, Job
<1>4. N \in Nat \ {0}
  BY <1>1, <1>3, DataIs DEF N
<1>5. Blocks = CeilDiv(N, size)
  BY DEF Blocks
<1>6. \A r \in Ranks : MiniBatches(r) = FlattenSeq([e \in 1..epochs |-> Split(DataOf(r), size)])
  BY DEF MiniBatches, ColumnMethods, UpdateMethods
<1> HIDE DEF size, epochs, N
<1>7. \A r \in Ranks : MinisOf(MiniBatches(r), DataOf(r), N, size, epochs)
  <2> TAKE r \in Ranks
  <2> DEFINE d == DataOf(r)
  <2>1. Listed(d, N)
    BY <1>1, DataIs DEF RowsOf, N
  <2> HIDE DEF d
  <2>2. MinisOf(FlattenSeq([e \in 1..epochs |-> Split(d, size)]), d, N, size, epochs)
    BY <1>2, <2>1, EpochsAre
  <2> QED
    BY <1>6, <2>2 DEF d
<1>8. Blocks \in Nat /\ Blocks > 0
  <2>1. N \in Nat /\ N > 0
    BY <1>4
  <2> QED
    BY <1>2, <1>5, <2>1, CeilDivIs
<1> QED
  BY <1>2, <1>4, <1>7, <1>8 DEF size, epochs, N

\* The present mini-batch of a rank is a block of its rows.
LEMMA MiniBlock ==
  ASSUME FlowInv, phase \in UpdateMethods, MinisLeft
  PROVE  /\ (mini % Blocks) + 1 \in 1..Blocks /\ MiniLen \in Nat \ {0}
         /\ \A r \in Ranks : /\ Listed(MiniBatch(r), MiniLen)
                             /\ \A j \in 1..MiniLen : /\ MiniPlace(j) \in 1..Rows
                                                      /\ MiniBatch(r)[j] = DataOf(r)[MiniPlace(j)]
<1> DEFINE size == setup.miniSize
           epochs == setup.epochs
           N == Rows
           k == Blocks
           c == (mini % k) + 1
           n == MiniLen
<1>1. InCalls /\ PathIs /\ mini \in Nat
  BY InCall DEF InCalls, FlowInv, CallIs
<1>2. /\ size \in Nat \ {0} /\ epochs \in Nat \ {0} /\ N \in Nat \ {0} /\ k \in Nat \ {0}
      /\ \A r \in Ranks : MinisOf(MiniBatches(r), DataOf(r), N, size, epochs)
  BY MinisAre
<1>3. k = CeilDiv(N, size)
  BY DEF Blocks
<1>4. 0 \in Ranks
  BY <1>1, JobIs, WorldIs, ModeIn DEF Ranks, Job
<1> HIDE DEF size, epochs, N, k
<1>5. mini + 1 \in 1..(epochs * k)
  <2>1. Len(MiniBatches(0)) = epochs * k /\ mini < Len(MiniBatches(0))
    BY <1>2, <1>3, <1>4 DEF MinisOf, MinisLeft
  <2> DEFINE ek == epochs * k
  <2>2. ek \in Nat /\ mini < ek
    BY <1>2, <2>1
  <2> HIDE DEF ek
  <2>3. mini + 1 \in 1..ek
    BY <1>1, <2>2
  <2> QED
    BY <2>3 DEF ek
<1>6. \A r \in Ranks : c \in 1..k /\ MiniBatch(r) = Split(DataOf(r), size)[c]
  <2> DEFINE m == mini + 1
  <2>1. m \in 1..(epochs * k)
    BY <1>5
  <2>2. m - 1 = mini
    BY <1>1
  <2> HIDE DEF m
  <2>3. ((m - 1) % k) + 1 = c
    BY <2>2
  <2> TAKE r \in Ranks
  <2>4. MiniBatch(r) = MiniBatches(r)[m]
    BY DEF MiniBatch, m
  <2>5. ((m - 1) % k) + 1 \in 1..k /\ MiniBatches(r)[m] = Split(DataOf(r), size)[((m - 1) % k) + 1]
    BY <1>2, <1>3, <2>1 DEF MinisOf
  <2> QED
    BY <2>3, <2>4, <2>5
<1>7. c \in 1..k /\ mini % k = c - 1
  <2>1. c \in 1..k
    BY <1>4, <1>6
  <2>2. mini % k \in 0..(k - 1)
    BY <1>1, <1>2
  <2> QED
    BY <2>1, <2>2
<1>8. n = BlockLen(N, size, c) /\ \A j : MiniPlace(j) = (c - 1) * size + j
  BY <1>7 DEF MiniLen, MiniPlace, N, size, k
<1> HIDE DEF c, n
<1>9. n \in Nat \ {0}
  BY <1>2, <1>3, <1>7, <1>8, BlockLenIs
<1>10. ASSUME NEW r \in Ranks
       PROVE  /\ Listed(MiniBatch(r), n)
              /\ \A j \in 1..n : MiniPlace(j) \in 1..N /\ MiniBatch(r)[j] = DataOf(r)[MiniPlace(j)]
  <2> DEFINE d == DataOf(r)
             S == Split(d, size)
  <2>1. Listed(d, N)
    BY <1>1, DataIs DEF RowsOf, N
  <2>2. MiniBatch(r) = S[c]
    BY <1>6
  <2> HIDE DEF d
  <2>3. Splitted(S, d, N, size, k)
    BY <1>2, <1>3, <2>1, SplitIs
  <2> HIDE DEF S
  <2>4. /\ Listed(S[c], n)
        /\ \A j \in 1..n : (c - 1) * size + j \in 1..N /\ S[c][j] = d[(c - 1) * size + j]
    BY <1>7, <1>8, <2>3 DEF Splitted
  <2> QED
    BY <1>8, <2>2, <2>4 DEF d
<1> QED
  BY <1>7, <1>9, <1>10 DEF n, N, k, c

\* The mini-batch that all ranks work on: equally many rows on each.
LEMMA MiniIs ==
  ASSUME FlowInv, InCalls, MinisLeft
  PROVE  \E n \in Nat \ {0} : \A r \in Ranks : RowsOf(MiniBatch(r), n)
<1>1. PathIs
  BY InCall DEF InCalls
<1>2. mini \in Nat /\ (phase \in ColumnMethods => mini = 0)
  BY DEF FlowInv, CallIs, InCalls
<1>3. CASE phase \in ColumnMethods
  <2>1. ASSUME NEW r \in Ranks
        PROVE  RowsOf(MiniBatch(r), Rows)
    <3>1. MiniBatch(r) = DataOf(r)
      BY <1>2, <1>3 DEF MiniBatch, MiniBatches
    <3> QED
      BY <3>1, DataIs
  <2>2. 0 \in Ranks
    BY <1>1, JobIs, WorldIs, ModeIn DEF Ranks, Job
  <2>3. Rows \in Nat \ {0}
    BY <2>2, DataIs
  <2> QED
    BY <2>1, <2>3
<1>4. CASE phase \notin ColumnMethods
  <2> DEFINE n == MiniLen
  <2>1. /\ n \in Nat \ {0}
        /\ \A r \in Ranks : /\ Listed(MiniBatch(r), n)
                            /\ \A j \in 1..n : /\ MiniPlace(j) \in 1..Rows
                                               /\ MiniBatch(r)[j] = DataOf(r)[MiniPlace(j)]
    BY <1>4, MiniBlock DEF InCalls
  <2> HIDE DEF n
  <2>2. ASSUME NEW r \in Ranks
        PROVE  RowsOf(MiniBatch(r), n)
    <3>1. RowsOf(DataOf(r), Rows)
      BY DataIs
    <3>2. \A j \in 1..n : \E x \in 1..Samples : MiniBatch(r)[j] = batch[x]
      BY <2>1, <3>1 DEF RowsOf
    <3> QED
      BY <2>1, <3>2 DEF RowsOf
  <2> QED
    BY <2>1, <2>2
<1> QED
  BY <1>3, <1>4

-----------------------------------------------------------------------------
\* The micro-batches of a rank

\* A limit that does not hold a row is that of the critic, of a job whose three
\* quarters are too few.
LEMMA MaxTokensIs ==
  ASSUME PathIs
  PROVE  /\ MaxTokens \in Nat
         /\ setup.dynamic /\ ~(MaxTokens >= Width(setup)) => Tight /\ phase \in {"compute_values", "update_critic"}
<1> DEFINE x == setup.maxTokens * setup.sp
           w == Width(setup)
<1>1. setup.maxTokens \in Nat \ {0} /\ setup.sp \in Nat \ {0} /\ (setup.dynamic => setup.maxTokens >= w)
  BY JobIs DEF Job
<1>2. w \in Nat
  BY WidthIs
<1>3. x \in Nat /\ x >= setup.maxTokens
  BY <1>1
<1>4. CASE phase \in {"compute_values", "update_critic"}
  <2>1. MaxTokens = (x * 3) \div 4
    BY <1>4 DEF MaxTokens
  <2>2. Tight <=> setup.critic /\ setup.dynamic /\ (x * 3) \div 4 < w
    BY DEF Tight
  <2>3. setup.critic
    BY <1>4 DEF PathIs
  <2> HIDE DEF x, w
  <2>4. (x * 3) \div 4 \in Nat
    BY <1>3
  <2>5. ~(MaxTokens >= w) => MaxTokens < w
    BY <1>2, <2>1, <2>4
  <2> QED
    BY <1>4, <2>1, <2>2, <2>3, <2>4, <2>5 DEF w
<1>5. CASE phase \notin {"compute_values", "update_critic"}
  <2>1. MaxTokens = x
    BY <1>5 DEF MaxTokens
  <2> HIDE DEF x, w
  <2>2. setup.dynamic => MaxTokens >= w
    BY <1>1, <1>2, <1>3, <2>1
  <2> QED
    BY <1>3, <2>1, <2>2 DEF w
<1> QED
  BY <1>4, <1>5

\* What a rank wants to split its rows into is no more than they are, for a row keeps
\* to the limit.
LEMMA WantedIs ==
  ASSUME PathIs, MaxTokens >= Width(setup), NEW n \in Nat \ {0}, NEW lens, Len(lens) = n,
         \A i \in 1..n : lens[i] \in 1..Width(setup)
  PROVE  WantedMicroBatches(lens, MaxTokens) \in 1..n
<1> DEFINE part == [i \in 1..n |-> i]
           t == TokensOf(lens, part)
           w == Width(setup)
           m == MaxTokens
           q == CeilDiv(t, m)
<1>1. WantedMicroBatches(lens, MaxTokens) = q
  BY DEF WantedMicroBatches
<1>2. w \in Nat \ {0} /\ m \in Nat /\ m >= w
  BY WidthIs, MaxTokensIs
<1> HIDE DEF w, m
<1>3. t \in Nat /\ n * 1 <= t /\ t <= n * w
  <2>1. Len(part) = n /\ \A i \in 1..n : lens[part[i]] \in 1..w
    BY DEF w
  <2> HIDE DEF part
  <2>2. n \in Nat /\ 1 \in Nat /\ w \in Nat
    BY <1>2
  <2> QED
    BY <2>1, <2>2, TokensBetween
<1> HIDE DEF t
<1>4. t > 0 /\ m \in Nat \ {0}
  BY <1>2, <1>3
<1>5. t <= n * m
  <2>1. n * w <= n * m
    BY <1>2
  <2> QED
    BY <1>2, <1>3, <2>1
<1>6. q \in Nat /\ q > 0 /\ q <= n
  <2> HIDE DEF q
  <2>1. q = CeilDiv(t, m)
    BY DEF q
  <2>2. q \in Nat /\ (t > 0 => q > 0) /\ \A c \in Nat : t <= c * m => q <= c
    BY <1>3, <1>4, <2>1, CeilDivIs
  <2> QED
    BY <1>4, <1>5, <2>2
<1> QED
  BY <1>1, <1>6

\* No rank wants more than k micro-batches.
Enough(k) == \A q \in Ranks : WantedMicroBatches(Lens(MiniBatch(q)), MaxTokens) <= k

\* The number that is agreed on is one to which the rows can be partitioned, and no rank
\* wants more.
LEMMA NumMicroBatchesIs ==
  ASSUME FlowInv, InCalls, MaxTokens >= Width(setup), NEW n \in Nat \ {0},
         \A q \in Ranks : RowsOf(MiniBatch(q), n), NEW r \in Ranks
  PROVE  NumMicroBatches(r) \in 1..n /\ Enough(NumMicroBatches(r))
<1> DEFINE f == [q \in Ranks |-> WantedMicroBatches(Lens(MiniBatch(q)), MaxTokens)]
           S == {WantedMicroBatches(Lens(MiniBatch(q)), MaxTokens) : q \in Ranks}
<1>1. PathIs /\ SampleRows(batch, KeysAt(phase))
  BY InCall DEF InCalls
<1>2. \A q \in Ranks : WantedMicroBatches(Lens(MiniBatch(q)), MaxTokens) \in 1..n
  <2> TAKE q \in Ranks
  <2> DEFINE b == MiniBatch(q)
             lens == Lens(b)
  <2>1. RowsOf(b, n)
    OBVIOUS
  <2> HIDE DEF b
  <2>2. Listed(b, n) /\ \A i \in 1..n : Fits(b[i].input)
    BY <1>1, <2>1, RowsFit
  <2> HIDE DEF lens
  <2>3. Len(lens) = n /\ \A i \in 1..n : lens[i] \in 1..Width(setup)
    BY <1>1, <2>2, LensAre DEF lens
  <2>4. WantedMicroBatches(lens, MaxTokens) \in 1..n
    BY <1>1, <2>3, WantedIs
  <2> QED
    BY <2>4 DEF lens, b
<1>3. IsFiniteSet(Ranks)
  BY <1>1, JobIs, WorldIs, ModeIn DEF Ranks, Job
<1>4. f \in Surjection(Ranks, S)
  BY DEF Surjection
<1>5. S # {} /\ S \subseteq 1..n
  BY <1>2
<1>6. NumMicroBatches(r) = CHOOSE x \in S : \A y \in S : y <= x
  BY DEF NumMicroBatches
<1>11. \A q \in Ranks : WantedMicroBatches(Lens(MiniBatch(q)), MaxTokens) \in S
  OBVIOUS
<1> HIDE DEF f, S
<1>7. IsFiniteSet(S)
  BY <1>3, <1>4, FS_Surjection
<1>8. S \subseteq Nat
  BY <1>5
<1>9. \E x \in S : \A y \in S : y <= x
  BY <1>5, <1>7, <1>8, LargestOf
<1> DEFINE c == CHOOSE x \in S : \A y \in S : y <= x
<1>10. c \in S /\ \A y \in S : y <= c
  BY <1>9, Zenon
<1>12. NumMicroBatches(r) = c
  BY <1>6
<1> HIDE DEF c
<1> DEFINE w == NumMicroBatches(r)
<1>13. w = c
  BY <1>12
<1> HIDE DEF w
<1>14. Enough(w)
  BY <1>10, <1>11, <1>13 DEF Enough
<1>15. w \in 1..n
  BY <1>5, <1>10, <1>13
<1> QED
  BY <1>14, <1>15 DEF w

\* With such a limit rearrange_micro_batches can do its work, and it partitions the rows.
LEMMA Rearranges ==
  ASSUME FlowInv, InCalls, MinisLeft, MaxTokens >= Width(setup), NEW r \in Ranks
  PROVE  /\ CanRearrange(r)
         /\ \E n \in Nat \ {0} : \E k \in 1..n : \E lens \in Seq(Nat) :
              /\ Len(lens) = n /\ RowsOf(MiniBatch(r), n) /\ lens = Lens(MiniBatch(r))
              /\ k = NumMicroBatches(r)
<1>1. PathIs /\ SampleRows(batch, KeysAt(phase))
  BY InCall DEF InCalls
<1>2. PICK n \in Nat \ {0} : \A q \in Ranks : RowsOf(MiniBatch(q), n)
  BY MiniIs
<1> DEFINE k == NumMicroBatches(r)
           b == MiniBatch(r)
           lens == Lens(b)
<1>3. k \in 1..n
  BY <1>2, NumMicroBatchesIs
<1>4. RowsOf(b, n)
  BY <1>2
<1>5. lens \in Seq(Nat) /\ Len(lens) = n
  <2> HIDE DEF b
  <2>1. Listed(b, n) /\ \A i \in 1..n : Fits(b[i].input)
    BY <1>1, <1>4, RowsFit
  <2> HIDE DEF lens
  <2> QED
    BY <1>1, <2>1, LensAre DEF lens
<1>6. CanBalance(lens, k, FALSE)
  <2> HIDE DEF lens, k
  <2> QED
    BY <1>3, <1>5, PartitionsAsAsserted
<1>7. CanRearrange(r)
  BY <1>6 DEF CanRearrange
<1> QED
  BY <1>3, <1>4, <1>5, <1>7

\* How many micro-batches there are is a number, whatever they hold.
LEMMA MicroBatchesAre ==
  ASSUME FlowInv, InCalls, MinisLeft, setup.dynamic => MaxTokens >= Width(setup), NEW r \in Ranks
  PROVE  /\ Len(MicroBatches(r)) \in Nat
         /\ \E n \in Nat \ {0} : RowsOf(MiniBatch(r), n) /\ Len(FlattenSeq(MicroBatches(r))) = n
                                 /\ Permutes(FlattenSeq(MicroBatches(r)), n)
                                 /\ (~setup.dynamic => \A i \in 1..n : FlattenSeq(MicroBatches(r))[i] = i)
<1> DEFINE b == MiniBatch(r)
<1>1. CASE setup.dynamic
  <2>a. \E n \in Nat \ {0} : \E k \in 1..n : \E lens \in Seq(Nat) :
          Len(lens) = n /\ RowsOf(b, n) /\ lens = Lens(b) /\ k = NumMicroBatches(r)
    BY <1>1, Rearranges
  <2>b. PICK n \in Nat \ {0} : \E k \in 1..n : \E lens \in Seq(Nat) :
          Len(lens) = n /\ RowsOf(b, n) /\ lens = Lens(b) /\ k = NumMicroBatches(r)
    BY <2>a
  <2>1. PICK k \in 1..n, lens \in Seq(Nat) :
          Len(lens) = n /\ RowsOf(b, n) /\ lens = Lens(b) /\ k = NumMicroBatches(r)
    BY <2>b
  <2> DEFINE parts == BalancedPartitions(lens, k, FALSE)
  <2>2. MicroBatches(r) = parts
    BY <1>1, <2>1 DEF MicroBatches
  <2>3. Partition(parts, n, k)
    BY <2>1, BalancedAre
  <2>4. Len(FlattenSeq(parts)) = n /\ Permutes(FlattenSeq(parts), n)
    <3>1. Len(FlattenSeq(parts)) = Len(lens) /\ Permutes(FlattenSeq(parts), Len(lens))
      BY <2>1, BalancingPermutes
    <3> QED
      BY <2>1, <3>1
  <2> HIDE DEF parts
  <2>5. Len(parts) \in Nat
    BY <2>3 DEF Partition
  <2> QED
    BY <1>1, <2>1, <2>2, <2>4, <2>5
<1>2. CASE ~setup.dynamic
  <2>1. PICK n \in Nat \ {0} : \A q \in Ranks : RowsOf(MiniBatch(q), n)
    BY MiniIs
  <2> DEFINE rows == [i \in 1..n |-> i]
             size == setup.microSize
             d == Split(rows, size)
  <2>2. Len(b) = n
    BY <2>1, ListedIs DEF RowsOf
  <2>3. MicroBatches(r) = d
    BY <1>2, <2>2 DEF MicroBatches
  <2>4. size \in Nat \ {0}
    BY JobIs DEF FlowInv, Job
  <2>5. Listed(rows, n) /\ n \in Nat
    BY DEF Listed
  <2> HIDE DEF rows, size
  <2>6. Splitted(d, rows, n, size, CeilDiv(n, size))
    BY <2>4, <2>5, SplitIs
  <2>7. /\ Len(FlattenSeq(d)) = n
        /\ \A i \in 1..n : FlattenSeq(d)[i] = rows[i]
        /\ FlattenSeq(d) \in Seq({rows[i] : i \in 1..n})
    BY <2>4, <2>5, FlattenSplit
  <2>8. Len(d) \in Nat
    BY <2>6, ListedIs DEF Splitted
  <2> HIDE DEF d
  <2> DEFINE u == FlattenSeq(d)
  <2>9. \A i \in 1..n : u[i] = i
    BY <2>7 DEF rows
  <2>10. u \in [1..n -> 1..n]
    <3>1. DOMAIN u = 1..n /\ u = [i \in 1..n |-> u[i]]
      <4> DEFINE S == {rows[i] : i \in 1..n}
      <4>1. u \in Seq(S) /\ Len(u) = n
        BY <2>7
      <4> HIDE DEF u, S
      <4> QED
        BY <4>1
    <3> HIDE DEF u
    <3> QED
      BY <2>9, <3>1
  <2>11. Permutes(u, n)
    <3> HIDE DEF u
    <3> QED
      BY <2>9, <2>10 DEF Permutes
  <2> QED
    BY <1>2, <2>1, <2>3, <2>7, <2>8, <2>9, <2>11
<1> QED
  BY <1>1, <1>2

-----------------------------------------------------------------------------
\* The invariant in the ranks' work

\* PlanMicroBatches keeps the invariant: it raises only where the limit is too tight.
LEMMA FlowPlan ==
  ASSUME FlowInv, PlanMicroBatches
  PROVE  FlowInv'
<1>1. /\ InCalls /\ ~Answered /\ plan = <<>> /\ MinisLeft
      /\ setup' = setup /\ batch' = batch /\ group' = group /\ rewards' = rewards
      /\ sent' = sent /\ out' = out /\ mini' = mini /\ forwards' = forwards
      /\ IF setup.dynamic /\ \E r \in Ranks : ~CanRearrange(r) THEN phase' = "raised" /\ plan' = plan
         ELSE plan' = Planned /\ phase' = phase
  BY DEF PlanMicroBatches, Working, InCalls, MinisLeft, Planned
<1>2. /\ PathIs /\ ~setup.validate /\ SampleRows(batch, KeysAt(phase))
      /\ Listed(rewards, Samples) /\ \A i \in 1..Samples : rewards[i] \in {0, 1}
  BY <1>1, InCall DEF InCalls
<1>3. World' = World /\ Samples' = Samples /\ Ranks' = Ranks /\ (Tight' <=> Tight)
  BY <1>1, SameJob
<1>4. 0 \in Ranks
  BY <1>2, JobIs, WorldIs, ModeIn DEF Ranks, Job
<1>5. CASE setup.dynamic /\ \E r \in Ranks : ~CanRearrange(r)
  <2>1. ~(MaxTokens >= Width(setup))
    BY <1>1, <1>5, Rearranges
  <2>2. Tight /\ phase \in {"compute_values", "update_critic"}
    BY <1>2, <1>5, <2>1, MaxTokensIs
  <2>3. phase = "compute_values"
    BY <1>2, <2>2 DEF PathIs, UpdateMethods
  <2>4. phase' = "raised" /\ plan' = plan
    BY <1>1, <1>5
  <2>5. PathIs'
    BY <1>1, <1>2, <2>4 DEF PathIs, Sampled, Generated, ColumnMethods, UpdateMethods
  <2>6. BatchIs'
    <3>1. SampleRows(batch, KeysAt("compute_values"))'
      BY <1>1, <1>2, <1>3, <2>3 DEF SampleRows, Fits, KeysAt, ReferenceKeys, ValueKeys
    <3> QED
      BY <1>3, <2>2, <2>4, <3>1 DEF BatchIs, Sampled, Generated, ColumnMethods, UpdateMethods
  <2>7. GroupIs' /\ RewardsAre'
    BY <1>1, <1>2, <1>3, <2>4 DEF FlowInv, GroupIs, RewardsAre
  <2>8. RanksAre' /\ PlanIs' /\ GenerationIs' /\ CallIs'
    BY <1>1, <2>4, NoCall DEF Calls, call, ColumnMethods, UpdateMethods
  <2> QED
    BY <2>5, <2>6, <2>7, <2>8 DEF FlowInv
<1>6. CASE ~(setup.dynamic /\ \E r \in Ranks : ~CanRearrange(r))
  <2>1. plan' = Planned /\ phase' = phase
    BY <1>1, <1>6
  <2>2. setup.dynamic => MaxTokens >= Width(setup)
    BY <1>4, <1>6 DEF CanRearrange
  <2>3. PathIs' /\ BatchIs' /\ GroupIs' /\ RewardsAre'
    BY <1>1, <2>1, DriverStays
  <2>4. RanksAre'
    BY <1>1, <1>3 DEF FlowInv, RanksAre
  <2>5. PlanIs'
    <3>1. forwards' = 0
      BY <1>1 DEF FlowInv, PlanIs
    <3>2. \A r \in Ranks : Len(plan'[r]) \in Nat
      <4> TAKE r \in Ranks
      <4>1. plan'[r] = MicroBatches(r)
        BY <2>1 DEF Planned
      <4>2. Len(MicroBatches(r)) \in Nat
        BY <1>1, <2>2, MicroBatchesAre
      <4> QED
        BY <4>1, <4>2
    <3>3. DOMAIN plan' = Ranks
      BY <2>1 DEF Planned
    <3> QED
      BY <1>3, <3>1, <3>2, <3>3 DEF PlanIs
  <2>6. GenerationIs'
    BY <1>1, <2>1 DEF GenerationIs, Generating, InCalls, ColumnMethods, UpdateMethods
  <2>7. CallIs'
    <3>1. MaxTokens' = MaxTokens /\ Planned' = Planned /\ (MinisLeft' <=> MinisLeft)
      BY <1>1, <2>1, SameData
    <3>2. ModeHere' = ModeHere /\ Share' = Share
      BY <1>1, <1>3, <2>1 DEF Share, ModeHere, ModeOf
    <3>3. plan' # <<>>
      BY <1>4, <2>1 DEF Planned
    <3> QED
      BY <1>1, <1>3, <2>1, <2>2, <3>1, <3>2, <3>3 DEF FlowInv, CallIs, ColumnRows, InOrderOf
  <2> QED
    BY <2>3, <2>4, <2>5, <2>6, <2>7 DEF FlowInv
<1> QED
  BY <1>5, <1>6

\* Forward keeps the invariant: no rank goes beyond its micro-batches.
LEMMA FlowForward ==
  ASSUME FlowInv, Forward
  PROVE  FlowInv'
<1>1. /\ InCalls /\ plan # <<>> /\ \A r \in Ranks : forwards < Len(plan[r])
      /\ setup' = setup /\ phase' = phase /\ batch' = batch /\ group' = group /\ rewards' = rewards
      /\ sent' = sent /\ out' = out /\ mini' = mini /\ plan' = plan /\ forwards' = forwards + 1
  BY DEF Forward, Working, InCalls
<1>2. Ranks' = Ranks /\ Samples' = Samples
  BY <1>1, SameJob
<1>3. PathIs' /\ BatchIs' /\ GroupIs' /\ RewardsAre'
  BY <1>1, DriverStays
<1>4. RanksAre'
  BY <1>1, <1>2 DEF FlowInv, RanksAre
<1>5. PlanIs'
  <2>1. DOMAIN plan = Ranks /\ \A r \in Ranks : Len(plan[r]) \in Nat /\ forwards \in 0..Len(plan[r])
    BY <1>1 DEF FlowInv, PlanIs
  <2>2. \A r \in Ranks : forwards + 1 \in 0..Len(plan[r])
    BY <1>1, <2>1
  <2> QED
    BY <1>1, <1>2, <2>1, <2>2 DEF PlanIs
<1>6. GenerationIs'
  BY <1>1 DEF GenerationIs, Generating, InCalls, ColumnMethods, UpdateMethods
<1>7. CallIs'
  <2>1. MaxTokens' = MaxTokens /\ Planned' = Planned /\ (MinisLeft' <=> MinisLeft)
    BY <1>1, SameData
  <2>2. ModeHere' = ModeHere /\ Share' = Share
    BY <1>1, <1>2 DEF Share, ModeHere, ModeOf
  <2> QED
    BY <1>1, <1>2, <2>1, <2>2 DEF FlowInv, CallIs, ColumnRows, InOrderOf
<1> QED
  BY <1>3, <1>4, <1>5, <1>6, <1>7 DEF FlowInv

\* OptimizerStep keeps the invariant.
LEMMA FlowOptimizerStep ==
  ASSUME FlowInv, OptimizerStep
  PROVE  FlowInv'
<1>1. /\ phase \in UpdateMethods
      /\ setup' = setup /\ phase' = phase /\ batch' = batch /\ group' = group /\ rewards' = rewards
      /\ sent' = sent /\ out' = out /\ mini' = mini + 1 /\ plan' = <<>> /\ forwards' = 0
  BY DEF OptimizerStep
<1>2. Ranks' = Ranks
  BY <1>1, SameJob
<1>3. PathIs' /\ BatchIs' /\ GroupIs' /\ RewardsAre'
  BY <1>1, DriverStays
<1>4. RanksAre' /\ PlanIs'
  BY <1>1, <1>2 DEF FlowInv, RanksAre, PlanIs
<1>5. GenerationIs'
  BY <1>1 DEF GenerationIs, Generating, UpdateMethods
<1>6. CallIs'
  <2>1. ModeHere' = ModeHere
    BY <1>1 DEF ModeHere, ModeOf
  <2> QED
    BY <1>1, <2>1 DEF FlowInv, CallIs, ColumnMethods, UpdateMethods
<1> QED
  BY <1>3, <1>4, <1>5, <1>6 DEF FlowInv

\* The column of a rank has one element for each of its rows, computed of that row.
LEMMA ColumnOfIs ==
  ASSUME FlowInv, phase \in ColumnMethods, plan # <<>>, NEW r \in Ranks
  PROVE  /\ Columns(ColumnOf(r), Rows, {KeyOf(phase)})
         /\ InOrderOf(KeyOf(phase)) =>
              \A x \in 1..Rows : ColumnOf(r)[x][KeyOf(phase)] = ValueOf(KeyOf(phase), DataOf(r)[x].input)
<1> DEFINE rows == MiniBatch(r)
           indices == FlattenSeq(plan[r])
           key == KeyOf(phase)
           results == [i \in 1..Len(indices) |-> [k \in {key} |-> ResultAt(rows, indices, i)]]
           K == {key}
<1>1. InCalls /\ MinisLeft /\ (setup.dynamic => MaxTokens >= Width(setup)) /\ plan = Planned /\ mini = 0
  BY DEF FlowInv, CallIs, InCalls
<1>2. plan[r] = MicroBatches(r)
  BY <1>1 DEF Planned
<1>3. PICK n \in Nat \ {0} : RowsOf(rows, n) /\ Len(indices) = n /\ Permutes(indices, n)
                                /\ (~setup.dynamic => \A i \in 1..n : indices[i] = i)
  BY <1>1, <1>2, MicroBatchesAre
<1>4. rows = DataOf(r)
  BY <1>1 DEF MiniBatch, MiniBatches
<1>5. n = Rows
  <2>1. RowsOf(rows, Rows)
    BY <1>1, <1>4, DataIs
  <2> HIDE DEF rows
  <2>2. Len(rows) = n
    BY <1>3, ListedIs DEF RowsOf
  <2>3. Len(rows) = Rows
    BY <2>1, ListedIs DEF RowsOf
  <2> QED
    BY <2>2, <2>3
<1>6. ColumnOf(r) = IF setup.dynamic THEN Reorder(results, ReverseIdx(indices)) ELSE results
  BY DEF ColumnOf
<1>11. key = "values" <=> phase = "compute_values"
  BY DEF KeyOf, ColumnMethods
<1>12. \A i \in 1..n : rows[i].input.len \in Int
  <2>1. PathIs /\ SampleRows(batch, KeysAt(phase))
    BY InCall
  <2>2. Listed(rows, n) /\ \A i \in 1..n : Fits(rows[i].input)
    <3> HIDE DEF rows
    <3> QED
      BY <1>3, <2>1, RowsFit
  <2> QED
    BY <2>2 DEF Fits
<1> HIDE DEF indices, rows, key
<1>13. ASSUME InOrderOf(key), NEW i \in 1..n
       PROVE  ResultAt(rows, indices, i) = ValueOf(key, rows[indices[i]].input)
  <2>1. CASE key = "values"
    <3>1. indices[i] = i
      BY <1>3, <1>13, <2>1 DEF InOrderOf
    <3> DEFINE e == rows[i].input
    <3>2. ResultAt(rows, indices, i) = [of |-> e, upTo |-> IF e.len < e.len THEN e.len ELSE e.len]
      BY <1>11, <2>1, <3>1 DEF ResultAt
    <3>3. ValueOf(key, rows[indices[i]].input) = [of |-> e, upTo |-> e.len]
      BY <2>1, <3>1 DEF ValueOf
    <3> HIDE DEF e
    <3> QED
      BY <3>2, <3>3
  <2>2. CASE key # "values"
    BY <1>11, <2>2 DEF ResultAt, ValueOf
  <2> QED
    BY <2>1, <2>2
<1>7. results = [i \in 1..n |-> [k \in K |-> ResultAt(rows, indices, i)]]
  BY <1>3
<1> HIDE DEF results, K
<1>8. Columns(results, n, K)
  <2>1. results = [i \in 1..n |-> results[i]] /\ \A i \in 1..n : DOMAIN results[i] = K
    BY <1>7
  <2> QED
    BY <2>1 DEF Columns, Listed
<1>14. ASSUME InOrderOf(key), NEW i \in 1..n
       PROVE  results[i][key] = ValueOf(key, rows[indices[i]].input)
  <2>1. results[i] = [k \in {key} |-> ResultAt(rows, indices, i)]
    BY <1>7 DEF K
  <2>2. results[i][key] = ResultAt(rows, indices, i)
    BY <2>1
  <2> QED
    BY <1>13, <1>14, <2>2
<1>9. CASE setup.dynamic
  <2> DEFINE idx == ReverseIdx(indices)
             u == Reorder(results, idx)
  <2>1. idx = [p \in 1..n |-> CHOOSE i \in 1..n : indices[i] = p]
    BY <1>3 DEF ReverseIdx
  <2>2. \A p \in 1..n : idx[p] \in 1..n /\ indices[idx[p]] = p
    <3> TAKE p \in 1..n
    <3>1. \E i \in 1..n : indices[i] = p
      BY <1>3, <1>9 DEF Permutes
    <3> DEFINE z == CHOOSE i \in 1..n : indices[i] = p
    <3>2. z \in 1..n /\ indices[z] = p
      BY <3>1, Zenon
    <3>3. idx[p] = z
      BY <2>1
    <3> HIDE DEF z
    <3> QED
      BY <3>2, <3>3
  <2> HIDE DEF idx
  <2>3. Len(idx) = n
    BY <2>1
  <2>4. Reordered(u, results, idx, n)
    <3>1. n \in Nat
      OBVIOUS
    <3> QED
      BY <2>3, <3>1, ReorderIs
  <2> HIDE DEF u
  <2>5. Columns(u, n, K)
    BY <1>8, <2>2, <2>4 DEF Columns, Reordered
  <2>6. ColumnOf(r) = u
    BY <1>6, <1>9 DEF u, idx
  <2>7. ASSUME InOrderOf(key), NEW x \in 1..n
        PROVE  u[x][key] = ValueOf(key, rows[x].input)
    <3>1. u[x] = results[idx[x]]
      BY <2>4 DEF Reordered
    <3>2. idx[x] \in 1..n /\ indices[idx[x]] = x
      BY <2>2
    <3>3. results[idx[x]][key] = ValueOf(key, rows[indices[idx[x]]].input)
      BY <1>14, <2>7, <3>2
    <3> QED
      BY <3>1, <3>2, <3>3
  <2> QED
    BY <1>4, <1>5, <2>5, <2>6, <2>7 DEF K, key
<1>10. CASE ~setup.dynamic
  <2>1. ASSUME InOrderOf(key), NEW x \in 1..n
        PROVE  results[x][key] = ValueOf(key, rows[x].input)
    BY <1>3, <1>10, <1>14, <2>1
  <2> QED
    BY <1>4, <1>5, <1>6, <1>8, <1>10, <2>1 DEF K, key
<1> QED
  BY <1>9, <1>10

\* The chunk a rank returns is as long as the one it was sent and has the one column
\* asked for.
LEMMA ReturnIs ==
  ASSUME FlowInv, phase \in ColumnMethods, plan # <<>>, NEW r \in Ranks
  PROVE  ColumnRows(Chunk(ColumnOf(r), setup.sp)[(r % setup.sp) + 1], sent[r], KeyOf(phase))
<1> DEFINE c == ColumnOf(r)
           s == setup.sp
           key == KeyOf(phase)
           K == {key}
           data == DataOf(r)
           d == Chunk(c, s)
           i == (r % s) + 1
           size == Share
           order == InOrderOf(key)
<1>1. Columns(c, Rows, K) /\ (order => \A x \in 1..Rows : c[x][key] = ValueOf(key, data[x].input))
  BY ColumnOfIs
<1>2. PathIs
  BY DEF FlowInv
<1>3. s \in Nat \ {0} /\ r \in Nat
  BY <1>2, JobIs DEF Job, Ranks, RanksOf
<1>4. size \in Nat
  BY CallSent DEF InCalls
<1>5. Rows = s * size
  BY DEF Rows
<1>12. \A e \in 1..s : \A x \in 1..size : data[(e - 1) * size + x] = sent[r - (r % s) + e - 1][x]
  BY DataIs DEF InCalls
<1>9. i \in 1..s /\ r - (r % s) + i - 1 = r
  <2>1. r % s \in 0..(s - 1)
    BY <1>3
  <2> HIDE DEF s
  <2> QED
    BY <1>3, <2>1
<1> HIDE DEF c, s, K, size, data, key, order
<1>6. Listed(c, Rows) /\ \A x \in 1..Rows : DOMAIN c[x] = K
  BY <1>1 DEF Columns
<1>7. Len(c) = s * size
  BY <1>5, <1>6, ListedIs
<1>8. Chunked(d, c, s, size)
  BY <1>3, <1>4, <1>7, ChunkIs
<1> HIDE DEF d, i
<1>13. \A x \in 1..size : data[(i - 1) * size + x] = sent[r][x]
  BY <1>9, <1>12
<1>10. Listed(d[i], size) /\ \A x \in 1..size : d[i][x] = c[(i - 1) * size + x]
  BY <1>8, <1>9 DEF Chunked
<1>11. \A x \in 1..size : DOMAIN d[i][x] = K /\ (order => d[i][x][key] = ValueOf(key, sent[r][x].input))
  <2> TAKE x \in 1..size
  <2> DEFINE y == (i - 1) * size + x
  <2>1. y \in 1..(s * size)
    BY <1>3, <1>4, <1>9, PlaceIn
  <2>2. d[i][x] = c[y] /\ data[y] = sent[r][x]
    BY <1>10, <1>13
  <2> HIDE DEF y
  <2>3. DOMAIN c[y] = K /\ (order => c[y][key] = ValueOf(key, data[y].input))
    BY <1>1, <1>5, <1>6, <2>1
  <2> QED
    BY <2>2, <2>3
<1> QED
  BY <1>10, <1>11 DEF ColumnRows, K, size, d, i, c, s, key, order

\* Return keeps the invariant.
LEMMA FlowReturn ==
  ASSUME FlowInv, NEW r \in Ranks, Return(r)
  PROVE  FlowInv'
<1>1. /\ InCalls
      /\ setup' = setup /\ phase' = phase /\ batch' = batch /\ group' = group /\ rewards' = rewards
      /\ sent' = sent /\ mini' = mini /\ plan' = plan /\ forwards' = forwards
      /\ \/ /\ phase \in ColumnMethods /\ plan # <<>>
            /\ out' = [out EXCEPT ![r] = Chunk(ColumnOf(r), setup.sp)[(r % setup.sp) + 1]]
         \/ /\ phase \in UpdateMethods
            /\ out' = [out EXCEPT ![r] = Metrics]
  BY DEF Return, Working, InCalls, call
<1>2. Ranks' = Ranks /\ Samples' = Samples
  BY <1>1, SameJob
<1>3. PathIs' /\ BatchIs' /\ GroupIs' /\ RewardsAre'
  BY <1>1, DriverStays
<1>4. out = [q \in Ranks |-> out[q]] /\ sent = [q \in Ranks |-> sent[q]]
  BY DEF FlowInv, RanksAre
<1>5. RanksAre'
  BY <1>1, <1>2, <1>4 DEF RanksAre
<1>6. PlanIs'
  BY <1>1, <1>2 DEF FlowInv, PlanIs
<1>7. GenerationIs'
  BY <1>1 DEF GenerationIs, Generating, InCalls, ColumnMethods, UpdateMethods
<1>8. CallIs'
  <2>1. MaxTokens' = MaxTokens /\ Planned' = Planned /\ (MinisLeft' <=> MinisLeft)
    BY <1>1, SameData
  <2>2. ModeHere' = ModeHere /\ Share' = Share /\ KeyOf(phase)' = KeyOf(phase)
    BY <1>1, <1>2 DEF Share, ModeHere, ModeOf
  <2>3. ASSUME phase \in ColumnMethods, NEW q \in Ranks, out'[q] # <<>>
        PROVE  plan # <<>> /\ ColumnRows(out'[q], sent[q], KeyOf(phase))
    <3>1. plan # <<>> /\ out' = [out EXCEPT ![r] = Chunk(ColumnOf(r), setup.sp)[(r % setup.sp) + 1]]
      BY <1>1, <2>3 DEF ColumnMethods, UpdateMethods
    <3>2. CASE q = r
      <4>1. out'[q] = Chunk(ColumnOf(r), setup.sp)[(r % setup.sp) + 1]
        BY <1>4, <3>1, <3>2
      <4>2. ColumnRows(Chunk(ColumnOf(r), setup.sp)[(r % setup.sp) + 1], sent[r], KeyOf(phase))
        BY <2>3, <3>1, ReturnIs
      <4> QED
        BY <3>1, <3>2, <4>1, <4>2
    <3>3. CASE q # r
      <4>1. out'[q] = out[q]
        BY <1>4, <3>1, <3>3
      <4> QED
        BY <2>3, <4>1, <3>1 DEF FlowInv, CallIs
    <3> QED
      BY <3>2, <3>3
  <2> QED
    BY <1>1, <1>2, <2>1, <2>2, <2>3 DEF FlowInv, CallIs, ColumnRows, InOrderOf
<1> QED
  BY <1>3, <1>5, <1>6, <1>7, <1>8 DEF FlowInv

\* Every step keeps the invariant.
LEMMA FlowNext ==
  ASSUME FlowInv, [Next]_vars
  PROVE  FlowInv'
<1>1. CASE Begin
  BY <1>1, FlowBegin
<1>2. CASE CollectGeneration
  BY <1>2, FlowCollectGeneration
<1>3. CASE Reward
  BY <1>3, FlowReward
<1>4. CASE NextGroup
  BY <1>4, FlowNextGroup
<1>5. CASE WriteBack
  BY <1>5, FlowWriteBack
<1>6. CASE Balance
  BY <1>6, FlowBalance
<1>7. CASE CollectColumn
  BY <1>7, FlowCollectColumn
<1>8. CASE ComputeAdvantage
  BY <1>8, FlowComputeAdvantage
<1>9. CASE CollectUpdate
  BY <1>9, FlowCollectUpdate
<1>10. CASE PlanMicroBatches
  BY <1>10, FlowPlan
<1>11. CASE Forward
  BY <1>11, FlowForward
<1>12. CASE OptimizerStep
  BY <1>12, FlowOptimizerStep
<1>13. ASSUME NEW r \in Ranks, GenerateSequences(r)
       PROVE  FlowInv'
  BY <1>13, FlowGenerate
<1>14. ASSUME NEW r \in Ranks, Return(r)
       PROVE  FlowInv'
  BY <1>14, FlowReturn
<1>15. CASE Over \/ UNCHANGED vars
  BY <1>15, FlowStays DEF Over
<1> QED
  BY <1>1, <1>2, <1>3, <1>4, <1>5, <1>6, <1>7, <1>8, <1>9, <1>10, <1>11, <1>12, <1>13, <1>14, <1>15
     DEF Next, Driver, Collective, Rank

\* FlowInv is an inductive invariant of the way of a batch through fit and _validate:
\* for every job, it holds in every reachable state.
THEOREM FlowInductive == Spec => []FlowInv
<1>1. Init => FlowInv
  BY FlowInit
<1>2. FlowInv /\ [Next]_vars => FlowInv'
  BY FlowNext
<1> QED
  BY <1>1, <1>2, PTL DEF Spec

-----------------------------------------------------------------------------
\* What it implies

\* How long the batch is, and that its rows have the same columns.
LEMMA BatchLen ==
  ASSUME FlowInv
  PROVE  \/ phase = "begin" /\ batch = <<>>
         \/ phase = "generate_sequences" /\ \E n \in {Samples, setup.prompts} : n \in Nat \ {0} /\ Columns(batch, n, {"prompt"})
         \/ phase \in Sampled /\ SampleRows(batch, KeysAt(phase))
         \/ phase = "raised" /\ \E p \in {"reward", "compute_values"} : SampleRows(batch, KeysAt(p))
<1>1. PathIs /\ BatchIs
  BY DEF FlowInv
<1>2. setup.prompts \in Nat \ {0} /\ Samples \in Nat \ {0}
  BY <1>1, JobIs, WorldHere DEF Job
<1>3. CASE phase = "generate_sequences" /\ setup.validate
  <2>1. batch = Tiled
    BY <1>1, <1>3 DEF BatchIs
  <2>2. \A i \in 1..Samples : DOMAIN Tiled[i] = {"prompt"}
    <3> TAKE i \in 1..Samples
    <3> DEFINE x == ((i - 1) % setup.prompts) + 1
    <3>1. Tiled[i] = [prompt |-> x]
      BY <1>1, TiledIs
    <3> HIDE DEF x
    <3> QED
      BY <3>1
  <2>3. Listed(Tiled, Samples)
    BY <1>1, TiledIs
  <2> QED
    BY <1>2, <1>3, <2>1, <2>2, <2>3 DEF Columns
<1>4. CASE phase = "generate_sequences" /\ ~setup.validate
  <2> DEFINE p == setup.prompts
  <2>1. batch = [i \in 1..p |-> [prompt |-> i]]
    BY <1>1, <1>4 DEF BatchIs, Prompts
  <2>2. p \in Nat
    BY <1>2
  <2> HIDE DEF p
  <2>3. batch = [i \in 1..p |-> batch[i]] /\ \A i \in 1..p : DOMAIN batch[i] = {"prompt"}
    BY <2>1
  <2>4. Columns(batch, p, {"prompt"})
    BY <2>2, <2>3 DEF Columns, Listed
  <2> QED
    BY <1>2, <1>4, <2>4 DEF p
<1>5. CASE phase = "raised"
  <2>1. KeysAt("reward") = SampleKeys
    BY DEF KeysAt, Generated
  <2> QED
    BY <1>1, <1>5, <2>1 DEF BatchIs
<1>6. CASE phase \in {"begin"} \cup Sampled
  BY <1>1, <1>6 DEF BatchIs
<1> QED
  BY <1>1, <1>3, <1>4, <1>5, <1>6 DEF PathIs

Shaped(n) ==
  /\ Len(batch) = n /\ n \in {0, setup.prompts, setup.prompts * setup.n}
  /\ \A i \in 1..Len(batch) : DOMAIN batch[i] = DOMAIN batch[1]

\* A batch with the same columns in all rows is of that shape.
LEMMA ColumnsShaped ==
  ASSUME NEW n, NEW K, Columns(batch, n, K), n \in {0, setup.prompts, setup.prompts * setup.n}
  PROVE  Shaped(n)
<1>1. Listed(batch, n) /\ \A i \in 1..n : DOMAIN batch[i] = K
  BY DEF Columns
<1>2. Len(batch) = n /\ n \in Nat
  BY <1>1, ListedIs
<1>3. ASSUME NEW i \in 1..n
      PROVE  DOMAIN batch[i] = DOMAIN batch[1]
  <2>1. 1 \in 1..n
    BY <1>2
  <2> QED
    BY <1>1, <2>1
<1> QED
  BY <1>2, <1>3 DEF Shaped

\* The invariant gives the batch its shape.
LEMMA BatchShaped ==
  ASSUME FlowInv
  PROVE  \E n : Shaped(n) /\ (phase \notin {"begin", "generate_sequences"} => n = Samples)
<1>1. CASE batch = <<>> /\ phase = "begin"
  BY <1>1 DEF Shaped
<1>2. CASE phase = "generate_sequences"
  <2>1. PICK n \in {Samples, setup.prompts} : Columns(batch, n, {"prompt"})
    BY <1>2, BatchLen DEF Sampled, Generated, ColumnMethods, UpdateMethods
  <2>2. Shaped(n)
    BY <2>1, ColumnsShaped DEF Samples
  <2> QED
    BY <1>2, <2>2
<1>3. ASSUME NEW p, SampleRows(batch, KeysAt(p))
      PROVE  Shaped(Samples)
  <2> DEFINE K == KeysAt(p)
  <2>1. Columns(batch, Samples, K)
    BY <1>3 DEF SampleRows, Columns
  <2> HIDE DEF K
  <2> QED
    BY <2>1, ColumnsShaped DEF Samples
<1> QED
  BY <1>1, <1>2, <1>3, BatchLen

\* The types follow from the invariant.
LEMMA FlowTypeIs ==
  ASSUME FlowInv
  PROVE  FlowTypeOK
<1>1. PathIs /\ GroupIs /\ RewardsAre /\ RanksAre /\ PlanIs
  BY DEF FlowInv
<1>2. PICK n : Shaped(n) /\ (phase \notin {"begin", "generate_sequences"} => n = Samples)
  BY BatchShaped
<1>3. rewards \in Seq({0, 1}) /\ Len(rewards) \in {0, Len(batch)}
  <2>1. CASE phase \in {"begin", "generate_sequences", "reward"}
    BY <1>1, <2>1 DEF RewardsAre
  <2>2. CASE phase \notin {"begin", "generate_sequences", "reward"}
    <3>1. Listed(rewards, Samples) /\ \A i \in 1..Samples : rewards[i] \in {0, 1}
      BY <1>1, <2>2 DEF RewardsAre
    <3>2. rewards \in Seq({0, 1}) /\ Len(rewards) = Samples
      BY <3>1, ListedSeq, ListedIs
    <3> QED
      BY <1>2, <2>2, <3>2 DEF Shaped
  <2> QED
    BY <2>1, <2>2
<1>4. phase \in {"begin", "generate_sequences", "reward", "groups", "resample", "balance",
                 "advantages", "over", "raised"} \cup ColumnMethods \cup UpdateMethods
  BY <1>1 DEF PathIs, Sampled, Generated
<1>5. DOMAIN sent = Ranks /\ DOMAIN out = Ranks
  <2>1. sent = [r \in Ranks |-> sent[r]] /\ out = [r \in Ranks |-> out[r]]
    BY <1>1 DEF RanksAre
  <2> QED
    BY <2>1
<1>6. (plan = <<>> \/ DOMAIN plan = Ranks) /\ \A r \in Ranks : plan # <<>> => forwards \in 0..Len(plan[r])
  BY <1>1 DEF PlanIs
<1> QED
  BY <1>1, <1>2, <1>3, <1>4, <1>5, <1>6 DEF FlowTypeOK, Shaped, PathIs, GroupIs

\* The driver's variables have the shapes the code gives them (FlowTypeOK), for every
\* job: a batch of all samples with the same columns in every row, a plan and a
\* position in it for each rank.
THEOREM FlowTyped == Spec => []FlowTypeOK
<1>1. FlowInv => FlowTypeOK
  BY FlowTypeIs
<1> QED
  BY <1>1, FlowInductive, PTL

\* The columns of a batch of samples, by its first row.
LEMMA RowsHave ==
  ASSUME PathIs, NEW K, SampleRows(batch, K)
  PROVE  batch # <<>> /\ DOMAIN batch[1] = K /\ Len(batch) = Samples
<1>1. Len(batch) = Samples /\ Samples \in Nat \ {0}
  BY WorldHere, ListedIs DEF SampleRows
<1>2. 1 \in 1..Samples
  BY <1>1
<1>3. batch # <<>>
  BY <1>1
<1> QED
  BY <1>1, <1>2, <1>3 DEF SampleRows

\* The invariant says where a job can have raised.
LEMMA RaisesThere ==
  ASSUME FlowInv
  PROVE  RaisesOnlyThere
<1>1. PathIs /\ BatchIs
  BY DEF FlowInv
<1>2. Cardinality(Ranks) = World
  BY <1>1, JobIs, WorldIs, ModeIn DEF Ranks, Job, World
<1>3. CASE phase = "raised" /\ SampleRows(batch, SampleKeys) /\ setup.polaris /\ setup.n % World # 0
  <2>1. ~Has("score")
    BY <1>1, <1>3, RowsHave DEF Has, SampleKeys
  <2> QED
    BY <1>2, <1>3, <2>1 DEF RaisesOnlyThere
<1>4. CASE phase = "raised" /\ SampleRows(batch, KeysAt("compute_values")) /\ Tight
  <2> DEFINE K == KeysAt("compute_values")
  <2>1. "old_log_probs" \in K /\ "values" \notin K
    BY DEF KeysAt, SampleKeys, ReferenceKeys, Generated, ColumnMethods
  <2>2. SampleRows(batch, K)
    BY <1>4
  <2> HIDE DEF K
  <2>3. Has("old_log_probs") /\ ~Has("values")
    BY <1>1, <2>1, <2>2, RowsHave DEF Has
  <2> QED
    BY <1>4, <2>3 DEF RaisesOnlyThere, Tight
<1>5. CASE phase # "raised"
  BY <1>5 DEF RaisesOnlyThere
<1> QED
  BY <1>1, <1>3, <1>4, <1>5 DEF BatchIs

\* No assertion of chunk, union, the partitions or rearrange_micro_batches ends a step
\* of any job, except where RaisesOnlyThere says: the resampling of n samples that the
\* ranks cannot share, and the critic's three quarters of the limit.
THEOREM RaisesNowhereElse == Spec => []RaisesOnlyThere
<1>1. FlowInv => RaisesOnlyThere
  BY RaisesThere
<1> QED
  BY <1>1, FlowInductive, PTL

-----------------------------------------------------------------------------
\* The samples of a prompt stay together

TogetherIs ==
  phase \in Generated \cup {"over", "raised"} /\ (setup.validate \/ ~Has("score")) => Neighbours(batch)

\* A batch that has been scored.
LEMMA ScoredHas ==
  ASSUME PathIs, NEW b, b = batch', NEW p, SampleRows(b, KeysAt(p)), "score" \in KeysAt(p)
  PROVE  Has("score")'
<1>1. Len(b) = Samples /\ Samples \in Nat \ {0} /\ \A i \in 1..Samples : DOMAIN b[i] = KeysAt(p)
  BY WorldHere, ListedIs DEF SampleRows
<1>2. 1 \in 1..Samples /\ b # <<>>
  BY <1>1
<1>3. "score" \in DOMAIN b[1]
  BY <1>1, <1>2
<1> QED
  BY <1>2, <1>3 DEF Has

\* Once its advantages are being computed, a batch in training has scores.
LEMMA ScoreKeys ==
  ASSUME ~setup.validate, NEW p, p \notin Generated
  PROVE  "score" \in KeysAt(p)
BY DEF KeysAt

\* Every step keeps the samples together until they are scored.
LEMMA TogetherNext ==
  ASSUME FlowInv, TogetherIs, [Next]_vars
  PROVE  TogetherIs'
<1>1. PathIs
  BY DEF FlowInv
<1>2. ASSUME setup' = setup, ~setup.validate, NEW p, p \notin Generated, SampleRows(batch', KeysAt(p))
      PROVE  TogetherIs'
  <2> DEFINE b == batch'
  <2>1. "score" \in KeysAt(p)
    BY <1>2, ScoreKeys
  <2>2. b = batch' /\ SampleRows(b, KeysAt(p))
    BY <1>2
  <2> HIDE DEF b
  <2>3. Has("score")'
    BY <1>1, <2>1, <2>2, ScoredHas
  <2> QED
    BY <1>2, <2>3 DEF TogetherIs
<1>3. ASSUME setup' = setup, Neighbours(batch')
      PROVE  TogetherIs'
  <2>1. Samples' = Samples /\ ModeOf("generate_sequences")' = ModeOf("generate_sequences")
    BY <1>3 DEF Samples, ModeOf
  <2>2. Neighbours(batch)'
    BY <1>3, <2>1 DEF Neighbours
  <2> QED
    BY <2>2 DEF TogetherIs
<1>4. ASSUME phase \in ColumnMethods \cup UpdateMethods \cup {"advantages"}
      PROVE  /\ ~setup.validate /\ SampleRows(batch, KeysAt(phase)) /\ phase \notin Generated
             /\ setup' = setup /\ batch' = batch => TogetherIs'
  <2>1. ~setup.validate /\ SampleRows(batch, KeysAt(phase))
    BY <1>4, InCall
  <2>2. phase \notin Generated
    BY <1>4 DEF Generated, ColumnMethods, UpdateMethods
  <2>3. ASSUME setup' = setup, batch' = batch
        PROVE  TogetherIs'
    BY <1>2, <2>1, <2>2, <2>3
  <2> QED
    BY <2>1, <2>2, <2>3
<1>5. CASE Begin
  <2> DEFINE m == "generate_sequences"
  <2>1. Send(m, m, Asked)
    BY <1>5 DEF Begin, Asked, Tiled, World
  <2>2. CanChunk(Asked, NumChunks(ModeOf(m), setup.layout))
    BY <1>1, AskedChunks
  <2>3. phase' = m
    BY <2>1, <2>2, SendsIt DEF Sends
  <2> QED
    BY <2>3 DEF TogetherIs, Generated
<1>6. CASE CollectGeneration
  BY <1>3, <1>6, GenerationUnited DEF CollectGeneration
<1>7. ASSUME phase \in {"reward", "groups", "resample"}, setup' = setup, batch' = batch
      PROVE  TogetherIs'
  <2>1. SampleRows(batch, SampleKeys)
    BY <1>7 DEF FlowInv, BatchIs, KeysAt, Sampled, Generated
  <2>2. ~Has("score")
    BY <1>1, <2>1, RowsHave DEF Has, SampleKeys
  <2>3. Neighbours(batch')
    BY <1>7, <2>2 DEF TogetherIs, Generated
  <2> QED
    BY <1>3, <1>7, <2>3
<1>8. CASE Reward \/ NextGroup
  BY <1>7, <1>8 DEF Reward, NextGroup
<1>9. CASE WriteBack
  <2>1. phase = "resample" /\ setup' = setup
    BY <1>9 DEF WriteBack
  <2>2. SampleRows(batch, SampleKeys)
    BY <2>1 DEF FlowInv, BatchIs, KeysAt, Sampled, Generated
  <2>3. ~Has("score")
    BY <1>1, <2>2, RowsHave DEF Has, SampleKeys
  <2>4. Neighbours(batch)
    BY <2>1, <2>3 DEF TogetherIs, Generated
  <2>5. Neighbours(batch')
    BY <1>9, <2>4, WrittenBack DEF Neighbours
  <2> QED
    BY <1>3, <2>1, <2>5
<1>10. CASE Balance
  <2>1. setup' = setup /\ ~setup.validate
    BY <1>1, <1>10 DEF Balance, PathIs, Sampled, Generated
  <2>2. SampleRows(batch', KeysAt("compute_log_prob")) /\ "compute_log_prob" \notin Generated
    BY <1>10, BalanceSends DEF Generated
  <2> QED
    BY <1>2, <2>1, <2>2
<1>11. CASE CollectColumn
  <2>1. phase \in ColumnMethods /\ setup' = setup
    BY <1>11 DEF CollectColumn
  <2>2. SampleRows(batch', KeysAt(Following))
    BY <1>11, ColumnUnited
  <2>3. Following \notin Generated
    BY <1>1, <2>1, FollowingIs DEF Generated
  <2> QED
    BY <1>2, <1>4, <2>1, <2>2, <2>3
<1>12. CASE ComputeAdvantage
  <2>1. phase = "advantages" /\ setup' = setup
    BY <1>12 DEF ComputeAdvantage
  <2>2. SampleRows(batch', KeysAt("update_actor")) /\ "update_actor" \notin Generated
    BY <1>12, AdvantagesAdded DEF Generated
  <2> QED
    BY <1>2, <1>4, <2>1, <2>2
<1>13. CASE CollectUpdate \/ PlanMicroBatches
  BY <1>4, <1>13 DEF CollectUpdate, PlanMicroBatches, Working
<1>14. ASSUME setup' = setup, batch' = batch, phase' = phase
       PROVE  TogetherIs'
  <2>1. Samples' = Samples /\ ModeOf("generate_sequences")' = ModeOf("generate_sequences")
    BY <1>14 DEF Samples, ModeOf
  <2>2. Neighbours(batch)' <=> Neighbours(batch)
    BY <1>14, <2>1 DEF Neighbours
  <2> QED
    BY <1>14, <2>2 DEF TogetherIs, Has
<1>15. CASE Forward \/ OptimizerStep \/ Over \/ UNCHANGED vars \/ \E r \in Ranks : Rank(r)
  BY <1>14, <1>15 DEF Forward, OptimizerStep, Over, vars, Rank, GenerateSequences, Return
<1> QED
  BY <1>5, <1>6, <1>8, <1>9, <1>10, <1>11, <1>12, <1>13, <1>15 DEF Next, Driver, Collective

\* While they are together, each row has the answer to its own prompt.
LEMMA TogetherThen ==
  ASSUME FlowInv, TogetherIs, InTurns(ModeOf("generate_sequences"), setup.layout)
  PROVE  GroupsTogether
<1> SUFFICES ASSUME Has("input"), setup.validate \/ ~Has("score")
             PROVE  \A i \in 1..Len(batch) :
                      /\ batch[i].prompt = ((i - 1) \div setup.n) + 1
                      /\ batch[i].input.to = batch[i].prompt
  BY DEF GroupsTogether
<1>1. PathIs
  BY DEF FlowInv
<1>2. phase # "begin"
  BY BatchLen DEF Has, Sampled, Generated, ColumnMethods, UpdateMethods
<1>3. phase # "generate_sequences"
  <2> SUFFICES ASSUME phase = "generate_sequences"
               PROVE  FALSE
    OBVIOUS
  <2>1. PICK n \in {Samples, setup.prompts} : n \in Nat \ {0} /\ Columns(batch, n, {"prompt"})
    BY BatchLen DEF Sampled, Generated, ColumnMethods, UpdateMethods
  <2>2. 1 \in 1..n
    BY <2>1
  <2>3. DOMAIN batch[1] = {"prompt"}
    BY <2>1, <2>2 DEF Columns
  <2> QED
    BY <2>3 DEF Has
<1>4. ASSUME phase \in ColumnMethods \cup UpdateMethods \cup {"advantages"}
      PROVE  FALSE
  <2>1. ~setup.validate /\ SampleRows(batch, KeysAt(phase))
    BY <1>4, InCall
  <2>2. "score" \in KeysAt(phase)
    BY <1>4, <2>1, ScoreKeys DEF Generated, ColumnMethods, UpdateMethods
  <2> DEFINE K == KeysAt(phase)
  <2>3. SampleRows(batch, K) /\ "score" \in K
    BY <2>1, <2>2
  <2> HIDE DEF K
  <2>4. Has("score")
    BY <1>1, <2>3, RowsHave DEF Has
  <2> QED
    BY <2>1, <2>4
<1>5. phase \in Generated \cup {"over", "raised"}
  BY <1>1, <1>2, <1>3, <1>4 DEF PathIs, Sampled
<1>6. Neighbours(batch)
  BY <1>5 DEF TogetherIs
<1>7. Len(batch) = Samples
  BY <1>1, <1>2, <1>3, BatchShaped DEF Shaped
<1> QED
  BY <1>6, <1>7 DEF Neighbours

\* From the union until the rows are balanced, the samples of a prompt are
\* neighbouring rows and each row has the answer to its own prompt (GroupsTogether),
\* for every job whose Megatron ranks are data parallel or pipeline parallel and not
\* both: with both, CollectedInOrder of the run step_pipeline is violated.
THEOREM SamplesStayTogether ==
  ASSUME \A s \in Setups : s.backend = "megatron" => OneAxis(s.layout)
  PROVE  Spec => []GroupsTogether
<1>1. Init => TogetherIs
  BY DEF Init, TogetherIs, Generated
<1>2. FlowInv /\ TogetherIs /\ [Next]_vars => TogetherIs'
  BY TogetherNext
<1>3. FlowInv => InTurns(ModeOf("generate_sequences"), setup.layout)
  <2> SUFFICES ASSUME FlowInv
               PROVE  InTurns(ModeOf("generate_sequences"), setup.layout)
    OBVIOUS
  <2>1. setup \in Setups /\ setup.backend \in {"fsdp", "megatron"}
    BY JobIs DEF FlowInv, PathIs, Job
  <2>2. CASE setup.backend = "fsdp"
    BY <2>2 DEF InTurns, ModeOf
  <2>3. CASE setup.backend = "megatron"
    BY <2>1, <2>3 DEF InTurns
  <2> QED
    BY <2>1, <2>2, <2>3
<1>4. FlowInv /\ TogetherIs => GroupsTogether
  BY <1>3, TogetherThen
<1> QED
  BY <1>1, <1>2, <1>4, FlowInductive, PTL DEF Spec

-----------------------------------------------------------------------------
\* Micro-batches

\* The largest of finitely many naturals.
LEMMA MaxIs ==
  ASSUME NEW S, S \subseteq Nat, IsFiniteSet(S), S # {}
  PROVE  Max(S) \in S /\ \A y \in S : y <= Max(S)
<1>1. PICK x \in S : \A y \in S : y <= x
  BY LargestOf
<1>2. \A y \in S : x >= y
  BY <1>1
<1> DEFINE m == Max(S)
<1>3. m \in S /\ \A y \in S : m >= y
  BY <1>2, Zenon DEF Max
<1> HIDE DEF m
<1>4. \A y \in S : y <= m
  BY <1>3
<1> QED
  BY <1>3, <1>4 DEF m

\* The elements of a sequence are finitely many.
LEMMA FiniteElements ==
  ASSUME NEW s, NEW n \in Nat, Len(s) = n, DOMAIN s = 1..n
  PROVE  IsFiniteSet(ToSet(s)) /\ (\A i \in 1..n : s[i] \in ToSet(s)) /\ \A x \in ToSet(s) : \E i \in 1..n : x = s[i]
<1> DEFINE f == [i \in 1..n |-> s[i]]
           S == ToSet(s)
<1>1. S = {s[i] : i \in 1..n}
  BY DEF ToSet
<1>2. f \in Surjection(1..n, S)
  BY <1>1 DEF Surjection
<1>3. 1 \in Int /\ n \in Int
  OBVIOUS
<1>4. IsFiniteSet(1..n)
  BY <1>3, FS_Interval
<1> HIDE DEF f, S
<1>5. IsFiniteSet(S)
  BY <1>2, <1>4, FS_Surjection
<1> QED
  BY <1>1, <1>5 DEF S

\* What MicroBatchesEven says of a rank's k micro-batches.
LeastAndLargest(parts, lens) ==
  \A i, j \in DOMAIN parts : TokensOf(lens, parts[i]) - TokensOf(lens, parts[j]) <= Max(ToSet(lens))
Covers(parts, lens) ==
  Len(FlattenSeq(parts)) = Len(lens) /\ ToSet(FlattenSeq(parts)) = 1..Len(lens)

\* It holds of the partitions of any lengths.
LEMMA MicroEven ==
  ASSUME NEW lens \in Seq(Nat), NEW n, n = Len(lens), NEW k \in 1..n
  PROVE  /\ LeastAndLargest(BalancedPartitions(lens, k, FALSE), lens)
         /\ Covers(BalancedPartitions(lens, k, FALSE), lens)
         /\ Len(BalancedPartitions(lens, k, FALSE)) = k
<1> DEFINE d == BalancedPartitions(lens, k, FALSE)
           g == Max(ToSet(lens))
           u == FlattenSeq(d)
<1>1. n \in Nat /\ n > 0 /\ DOMAIN lens = 1..n /\ \A i \in 1..n : lens[i] \in Nat
  OBVIOUS
<1>2. IsFiniteSet(ToSet(lens)) /\ (\A i \in 1..n : lens[i] \in ToSet(lens)) /\ \A x \in ToSet(lens) : \E i \in 1..n : x = lens[i]
  BY <1>1, FiniteElements
<1>3. ToSet(lens) \subseteq Nat /\ ToSet(lens) # {}
  BY <1>1, <1>2
<1>4. g \in ToSet(lens) /\ \A y \in ToSet(lens) : y <= g
  BY <1>2, <1>3, MaxIs
<1> HIDE DEF g
<1>5. g \in Nat /\ \A i \in 1..n : lens[i] <= g
  BY <1>2, <1>3, <1>4
<1>6. EvenParts(d, lens, k, g)
  BY <1>5, BoundedParts
<1>7. Partition(d, n, k)
  BY BalancedAre
<1>8. Len(u) = n /\ Permutes(u, n)
  <2>1. Len(u) = Len(lens) /\ Permutes(u, Len(lens))
    BY BalancingPermutes
  <2> QED
    BY <2>1
<1> HIDE DEF d
<1>9. Len(d) = k /\ DOMAIN d = 1..k
  BY <1>7 DEF Partition
<1>10. LeastAndLargest(d, lens)
  BY <1>6, <1>9 DEF LeastAndLargest, EvenParts, g
<1>11. ToSet(u) = 1..n
  <2> HIDE DEF u
  <2>1. DOMAIN u = 1..n /\ (\A i \in 1..n : u[i] \in 1..n) /\ \A x \in 1..n : \E i \in 1..n : u[i] = x
    BY <1>8 DEF Permutes
  <2> QED
    BY <2>1 DEF ToSet
<1>12. Covers(d, lens)
  BY <1>8, <1>11 DEF Covers, u
<1> QED
  BY <1>9, <1>10, <1>12 DEF d

\* The tokens of a rank's rows are within the limit on average.
LEMMA WithinLimit ==
  ASSUME FlowInv, InCalls, MaxTokens >= Width(setup), NEW r \in Ranks, NEW n \in Nat \ {0},
         RowsOf(MiniBatch(r), n), NEW k \in Nat, Enough(k)
  PROVE  RowTokens(MiniBatch(r)) <= k * MaxTokens
<1> DEFINE b == MiniBatch(r)
           lens == Lens(b)
           part == [i \in 1..n |-> i]
           t == TokensOf(lens, part)
           m == MaxTokens
           q == CeilDiv(t, m)
           w == Width(setup)
<1>1. PathIs /\ SampleRows(batch, KeysAt(phase))
  BY InCall DEF InCalls
<1>2. Listed(b, n) /\ \A i \in 1..n : Fits(b[i].input)
  <2> HIDE DEF b
  <2>1. RowsOf(b, n)
    BY DEF b
  <2> QED
    BY <1>1, <2>1, RowsFit
<1>3. Len(b) = n
  BY <1>2, ListedIs
<1>4. lens \in Seq(Nat) /\ Len(lens) = n /\ \A i \in 1..n : lens[i] \in 1..w
  <2> HIDE DEF b, lens
  <2>1. lens \in Seq(Nat) /\ Len(lens) = n /\ \A i \in 1..n : lens[i] \in 1..Width(setup)
    BY <1>1, <1>2, LensAre DEF lens
  <2> QED
    BY <2>1
<1>5. RowTokens(b) = t
  BY <1>3 DEF RowTokens
<1> HIDE DEF b
<1>6. WantedMicroBatches(lens, MaxTokens) = q
  BY <1>4 DEF WantedMicroBatches
<1>7. WantedMicroBatches(lens, MaxTokens) <= k
  BY DEF Enough, b
<1>8. w \in Nat \ {0} /\ m \in Nat \ {0}
  <2> HIDE DEF w, m
  <2>1. w \in Nat \ {0}
    BY <1>1, WidthIs DEF w
  <2>2. m \in Nat /\ m >= w
    BY <1>1, MaxTokensIs DEF m, w
  <2> QED
    BY <2>1, <2>2
<1> HIDE DEF lens, m, w
<1>9. t \in Nat
  <2>1. Len(part) = n /\ \A i \in 1..n : lens[part[i]] \in 1..w
    BY <1>4
  <2> HIDE DEF part
  <2> QED
    BY <1>8, <2>1, TokensBetween
<1> HIDE DEF t, q
<1>10. q \in Nat /\ t <= q * m
  <2>1. q = CeilDiv(t, m)
    BY DEF q
  <2> QED
    BY <1>8, <1>9, <2>1, CeilDivIs
<1>11. q <= k
  BY <1>6, <1>7 DEF m
<1>12. q * m <= k * m
  BY <1>8, <1>10, <1>11
<1>13. t <= k * m
  BY <1>8, <1>9, <1>10, <1>12
<1> QED
  BY <1>5, <1>13 DEF b, m

\* The invariant says what the micro-batches are, so they are even.
LEMMA MicroBatchesThen ==
  ASSUME FlowInv
  PROVE  MicroBatchesEven
<1> SUFFICES ASSUME setup.dynamic, plan # <<>>, Working, NEW r \in Ranks
             PROVE  LET lens == Lens(MiniBatch(r))
                        part(i) == TokensOf(lens, plan[r][i])
                    IN  /\ \A q \in Ranks : Len(plan[q]) = Len(plan[r])
                        /\ Len(FlattenSeq(plan[r])) = Len(lens) /\ ToSet(FlattenSeq(plan[r])) = 1..Len(lens)
                        /\ \A i, j \in DOMAIN plan[r] : part(i) - part(j) <= Max(ToSet(lens))
                        /\ RowTokens(MiniBatch(r)) <= Len(plan[r]) * MaxTokens
  BY DEF MicroBatchesEven
<1>1. InCalls /\ MinisLeft /\ MaxTokens >= Width(setup) /\ plan = Planned
  BY DEF FlowInv, CallIs, InCalls, Working
<1>2. PathIs /\ SampleRows(batch, KeysAt(phase))
  BY <1>1, InCall DEF InCalls
<1>3. PICK n \in Nat \ {0} : \A q \in Ranks : RowsOf(MiniBatch(q), n)
  BY <1>1, MiniIs
<1> DEFINE k == NumMicroBatches(r)
<1>4. k \in 1..n /\ Enough(k) /\ \A q \in Ranks : NumMicroBatches(q) = k
  <2>1. k \in 1..n /\ Enough(k)
    BY <1>1, <1>3, NumMicroBatchesIs
  <2>2. \A q \in Ranks : NumMicroBatches(q) = k
    BY DEF NumMicroBatches
  <2> QED
    BY <2>1, <2>2
<1> HIDE DEF k
<1>5. ASSUME NEW q \in Ranks
      PROVE  LET lens == Lens(MiniBatch(q))
             IN  LeastAndLargest(plan[q], lens) /\ Covers(plan[q], lens) /\ Len(plan[q]) = k
  <2> DEFINE b == MiniBatch(q)
             lens == Lens(b)
  <2>1. RowsOf(b, n)
    BY <1>3
  <2>2. plan[q] = BalancedPartitions(lens, k, FALSE)
    BY <1>1, <1>4 DEF Planned, MicroBatches
  <2> HIDE DEF b
  <2>3. Listed(b, n) /\ \A i \in 1..n : Fits(b[i].input)
    BY <1>2, <2>1, RowsFit
  <2> HIDE DEF lens
  <2>4. lens \in Seq(Nat) /\ Len(lens) = n
    BY <1>2, <2>3, LensAre DEF lens
  <2>5. /\ LeastAndLargest(BalancedPartitions(lens, k, FALSE), lens)
        /\ Covers(BalancedPartitions(lens, k, FALSE), lens)
        /\ Len(BalancedPartitions(lens, k, FALSE)) = k
    BY <1>4, <2>4, MicroEven
  <2> QED
    BY <2>2, <2>5 DEF lens, b
<1>6. \A q \in Ranks : Len(plan[q]) = k
  BY <1>5
<1>7. RowTokens(MiniBatch(r)) <= k * MaxTokens
  BY <1>1, <1>3, <1>4, WithinLimit
<1> QED
  BY <1>5, <1>6, <1>7 DEF LeastAndLargest, Covers

\* With use_dynamic_bsz, for every job, every rank goes through equally many
\* micro-batches, each of its rows is in one of them, they differ by no more than one
\* row's tokens, and on average they keep to the limit (MicroBatchesEven, what
\* rearrange_micro_batches and its all-reduce are for).
THEOREM MicroBatchesAreEven == Spec => []MicroBatchesEven
<1>1. FlowInv => MicroBatchesEven
  BY MicroBatchesThen
<1> QED
  BY <1>1, FlowInductive, PTL

-----------------------------------------------------------------------------
\* The rows that the ranks are given

\* Rows in whatever order have the gaps that the partition starts with.
LEMMA GapHere ==
  ASSUME NEW lens \in Seq(Nat), NEW n, n = Len(lens), NEW k \in 1..n, n % k = 0,
         NEW p, ItemsBy(SortedItems(lens), lens, p, n), NEW rows, Len(rows) = n,
         NEW other \in Seq(Nat), other = Lens(rows), Len(other) = n,
         NEW u, Shuffled(other, lens, u, n),
         NEW g, g = LargestGap(rows, k)
  PROVE  g \in Nat /\ Gaps(lens, p, k, TRUE, g)
<1> DEFINE s == SortedItems(other)
           H == n \div k
           v == [i \in 1..n |-> lens[p[i]]]
           d == [h \in 1..H |-> s[k * h][2] - s[k * (h - 1) + 1][2]]
           D == {d[h] : h \in 1..H}
<1>1. n \in Nat /\ k \in Nat \ {0} /\ (\A i \in 1..n : lens[i] \in Nat) /\ H \in Nat /\ n = k * H
  <2>1. n \in Nat /\ k \in Nat \ {0} /\ n % k = 0 /\ \A i \in 1..n : lens[i] \in Nat
    OBVIOUS
  <2>2. H \in Nat /\ n = k * H
    BY <2>1, DividesIs
  <2> QED
    BY <2>1, <2>2
<1>2. H > 0
  <2> HIDE DEF H
  <2>1. H = 0 => k * H = 0
    BY <1>1
  <2> QED
    BY <1>1, <2>1
<1>3. g = Max({s[k * h][2] - s[k * (h - 1) + 1][2] : h \in 1..H})
  BY DEF LargestGap
<1>4. Rising(lens, p, n)
  BY DEF Rising, ItemsBy
<1>5. \A i \in 1..n : s[i][2] = v[i]
  <2> TAKE i \in 1..n
  <2>1. s[i][2] = lens[p[i]]
    BY <1>4, SortedAlike
  <2> HIDE DEF s
  <2> QED
    BY <2>1
<1> HIDE DEF s
<1>6. \A i \in 1..n : p[i] \in 1..n
  BY DEF ItemsBy
<1>7. \A i \in 1..n : v[i] \in Nat /\ v[i] = lens[p[i]]
  BY <1>1, <1>6
<1>8. \A i, j \in 1..n : i <= j => v[i] <= v[j]
  <2>1. \A i, j \in 1..n : i < j => v[i] <= v[j]
    BY DEF ItemsBy
  <2> HIDE DEF v
  <2> TAKE i \in 1..n
  <2> TAKE j \in 1..n
  <2>2. v[i] \in Nat
    BY <1>7
  <2>3. CASE i = j
    BY <2>2, <2>3
  <2>4. CASE i < j
    BY <2>1, <2>4
  <2> QED
    BY <2>3, <2>4
<1> HIDE DEF v
<1>9. ASSUME NEW h \in 1..H
      PROVE  /\ k * h \in 1..n /\ k * (h - 1) + 1 \in 1..n /\ k * (h - 1) + 1 <= k * h
             /\ k * (h - 1) \in Nat /\ k * h = k * (h - 1) + k
  <2> DEFINE y == k * (h - 1)
             z == k * h
  <2>1. h - 1 \in Nat /\ h \in Nat /\ H - h \in Nat
    BY <1>1
  <2>2. y \in Nat /\ z \in Nat /\ z = y + k
    BY <1>1, <2>1
  <2> DEFINE w == k * (H - h)
  <2>3. n = z + w /\ w \in Nat
    <3>1. H = h + (H - h)
      BY <1>1
    <3> HIDE DEF H
    <3>2. k * H = k * h + k * (H - h)
      BY <1>1, <2>1, <3>1
    <3> QED
      BY <1>1, <2>1, <3>2
  <2> HIDE DEF y, z, w
  <2>4. z \in 1..n /\ y + 1 \in 1..n /\ y + 1 <= z
    BY <1>1, <2>2, <2>3
  <2> QED
    BY <2>2, <2>4 DEF y, z
<1>10. ASSUME NEW h \in 1..H
       PROVE  d[h] = v[k * h] - v[k * (h - 1) + 1] /\ d[h] \in Nat
  <2> DEFINE y == k * (h - 1) + 1
             z == k * h
  <2>1. y \in 1..n /\ z \in 1..n /\ y <= z
    BY <1>9
  <2>2. d[h] = s[z][2] - s[y][2]
    OBVIOUS
  <2> HIDE DEF y, z, d
  <2>3. d[h] = v[z] - v[y]
    BY <1>5, <2>1, <2>2
  <2>4. d[h] \in Nat
    <3>1. v[z] \in Nat /\ v[y] \in Nat /\ v[y] <= v[z]
      BY <1>7, <1>8, <2>1
    <3> QED
      BY <2>3, <3>1
  <2> QED
    BY <2>3, <2>4 DEF y, z
<1>11. {s[k * h][2] - s[k * (h - 1) + 1][2] : h \in 1..H} = D
  OBVIOUS
<1>12. IsFiniteSet(D)
  <2>1. d \in Surjection(1..H, D)
    BY DEF Surjection
  <2>2. IsFiniteSet(1..H)
    <3>1. 1 \in Int /\ H \in Int
      BY <1>1
    <3> QED
      BY <3>1, FS_Interval
  <2> HIDE DEF d, D
  <2> QED
    BY <2>1, <2>2, FS_Surjection
<1> HIDE DEF d, H
<1>13. D \subseteq Nat /\ D # {}
  <2>1. 1 \in 1..H
    BY <1>1, <1>2
  <2> QED
    BY <1>10, <2>1
<1>14. \A h \in 1..H : d[h] \in D
  OBVIOUS
<1> HIDE DEF D
<1>15. g \in D /\ \A y \in D : y <= g
  <2>1. g = Max(D)
    BY <1>3, <1>11, Zenon
  <2>2. Max(D) \in D /\ \A y \in D : y <= Max(D)
    BY <1>12, <1>13, MaxIs
  <2> QED
    BY <2>1, <2>2
<1>16. g \in Nat
  BY <1>13, <1>15
<1>17. ASSUME NEW j \in 0..(H - 1) PROVE Gap(lens, p, k * j, k, k, g)
  <2> DEFINE h == j + 1
             c == k * j
  <2>1. h \in 1..H /\ h - 1 = j
    BY <1>1
  <2>2. k * h \in 1..n /\ k * h = c + k /\ c \in Nat /\ c + 1 \in 1..n
    BY <1>9, <2>1
  <2>3. v[k * h] - v[c + 1] <= g
    BY <1>10, <1>14, <1>15, <2>1
  <2> HIDE DEF h, c
  <2>4. c + k \in 1..n /\ v[c + k] - v[c + 1] <= g
    BY <2>2, <2>3
  <2>5. ASSUME NEW a \in 1..k, NEW b \in 1..k PROVE lens[p[c + a]] - lens[p[c + b]] <= g
    <3>1. c + a \in 1..n /\ c + b \in 1..n /\ c + a <= c + k /\ c + 1 <= c + b
      BY <1>1, <2>2, <2>4
    <3>2. v[c + a] <= v[c + k] /\ v[c + 1] <= v[c + b]
      BY <1>8, <2>2, <2>4, <3>1
    <3>3. v[c + a] \in Nat /\ v[c + k] \in Nat /\ v[c + 1] \in Nat /\ v[c + b] \in Nat
      BY <1>7, <2>2, <2>4, <3>1
    <3>4. v[c + a] - v[c + b] <= g
      <4> DEFINE w == v[c + a]
                 x == v[c + b]
                 y == v[c + k]
                 z == v[c + 1]
      <4>1. w \in Nat /\ x \in Nat /\ y \in Nat /\ z \in Nat /\ w <= y /\ z <= x /\ y - z <= g
        BY <2>4, <3>2, <3>3
      <4> HIDE DEF w, x, y, z
      <4>2. w - x <= g
        BY <1>16, <4>1
      <4> QED
        BY <4>2 DEF w, x
    <3> QED
      BY <1>7, <3>1, <3>4
  <2>6. Gap(lens, p, c, k, k, g)
    BY <2>5 DEF Gap
  <2> QED
    BY <2>6 DEF c
<1>18. Gaps(lens, p, k, TRUE, g)
  BY <1>17 DEF Gaps, H
<1> QED
  BY <1>16, <1>18

\* Each of k ranks has the next c of the rows.
Dealt(given, rows, k, c) ==
  \A q \in 0..(k - 1) :
    /\ Listed(given[q], c)
    /\ \A x \in 1..c : q * c + x \in 1..(k * c) /\ given[q][x] = rows[q * c + x]

\* A rank that is given the rows of a partition has its tokens.
TokensDealt(given, lens, parts, k) ==
  \A q \in 0..(k - 1) : RowTokens(given[q]) = TokensOf(lens, parts[q + 1])

\* The rows are those of the partitions, rank by rank.
LEMMA DealtTokens ==
  ASSUME NEW lens \in Seq(Nat), NEW n, n = Len(lens), NEW k \in Nat, NEW c \in Nat, n = k * c,
         NEW parts, Partition(parts, n, k), AllOf(parts, k, c),
         NEW rows, NEW other \in Seq(Nat), other = Lens(rows), Len(rows) = n,
         Shuffled(other, lens, FlattenSeq(parts), n),
         NEW given, Dealt(given, rows, k, c)
  PROVE  TokensDealt(given, lens, parts, k)
<1> SUFFICES ASSUME NEW q \in 0..(k - 1)
             PROVE  RowTokens(given[q]) = TokensOf(lens, parts[q + 1])
  BY DEF TokensDealt
<1> DEFINE u == FlattenSeq(parts)
           b == given[q]
           L == Lens(b)
           id == [i \in 1..c |-> i]
           part == parts[q + 1]
<1>1. n \in Nat /\ q + 1 \in 1..k /\ (q + 1) - 1 = q
  OBVIOUS
<1>2. parts \in Seq(Seq(1..n)) /\ Len(parts) = k
  BY DEF Partition
<1>3. Blockwise(u, parts, k, c)
  BY <1>2, FlattenBlocks
<1>4. \A x \in 1..c : u[q * c + x] = part[x]
  BY <1>1, <1>3 DEF Blockwise
<1>5. Listed(b, c) /\ \A x \in 1..c : q * c + x \in 1..n /\ b[x] = rows[q * c + x]
  BY DEF Dealt
<1>6. \A i \in 1..n : other[i] = lens[u[i]] /\ other[i] = Tokens(rows[i]) /\ other[i] \in Nat
  <2>1. \A i \in 1..n : other[i] = lens[u[i]]
    BY DEF Shuffled
  <2>2. \A i \in 1..n : other[i] = Tokens(rows[i])
    BY DEF Lens
  <2>3. Len(other) = n
    BY <1>1 DEF Lens
  <2>4. \A i \in 1..n : other[i] \in Nat
    BY <2>3
  <2> QED
    BY <2>1, <2>2, <2>4
<1> HIDE DEF u, b, part
<1>7. Len(b) = c
  BY <1>5, ListedIs
<1>8. RowTokens(b) = TokensOf(L, id)
  BY <1>7 DEF RowTokens
<1>9. ASSUME NEW x \in 1..c PROVE L[x] = lens[part[x]] /\ L[x] \in Nat
  <2> DEFINE y == q * c + x
  <2>1. y \in 1..n /\ b[x] = rows[y] /\ u[y] = part[x]
    BY <1>4, <1>5
  <2> HIDE DEF y
  <2>2. L[x] = Tokens(b[x])
    BY <1>7 DEF Lens
  <2>3. L[x] = other[y] /\ other[y] = lens[u[y]] /\ other[y] \in Nat
    BY <1>6, <2>1, <2>2
  <2> QED
    BY <2>1, <2>3
<1>10. Len(part) = c
  BY <1>1 DEF AllOf, part
<1> HIDE DEF L
<1>11. Len(id) = c /\ \A x \in 1..c : id[x] = x
  OBVIOUS
<1> HIDE DEF id
<1>12. Measured(L, id, c)
  BY <1>9, <1>11 DEF Measured
<1>13. Measured(lens, part, c)
  <2>1. \A x \in 1..c : lens[part[x]] \in Nat
    BY <1>9
  <2> QED
    BY <1>10, <2>1 DEF Measured
<1>14. Alike(L, id, lens, part, c)
  BY <1>9, <1>11 DEF Alike
<1>15. TokensOf(L, id) = TokensOf(lens, part)
  BY <1>12, <1>13, <1>14, TokensAlike
<1> QED
  BY <1>8, <1>15 DEF b, part

\* Ranks dealt the rows of balanced partitions have about the same tokens.
DealtEvenly(given, rows, k) ==
  \A q, r \in 0..(k - 1) : RowTokens(given[q]) - RowTokens(given[r]) <= LargestGap(rows, k)

\* What the partitions promise of the lengths holds of the ranks.
LEMMA DealtBalanced ==
  ASSUME NEW lens \in Seq(Nat), NEW n, n = Len(lens), NEW k \in 1..n, NEW c \in Nat, n = k * c,
         NEW rows, NEW other \in Seq(Nat), other = Lens(rows), Len(rows) = n,
         Shuffled(other, lens, FlattenSeq(BalancedPartitions(lens, k, TRUE)), n),
         NEW given, Dealt(given, rows, k, c)
  PROVE  DealtEvenly(given, rows, k)
<1> DEFINE parts == BalancedPartitions(lens, k, TRUE)
           u == FlattenSeq(parts)
           g == LargestGap(rows, k)
<1>1. n \in Nat /\ k \in Nat \ {0} /\ n % k = 0
  <2>1. n \in Nat /\ k \in Nat \ {0}
    OBVIOUS
  <2>2. (c * k) % k = 0
    BY <2>1, MultipleDivides
  <2>3. c * k = k * c
    BY <2>1
  <2> QED
    BY <2>1, <2>2, <2>3
<1>2. PICK p : ItemsBy(SortedItems(lens), lens, p, n)
  BY SortedItemsAre
<1>3. Len(other) = n
  BY <1>1 DEF Lens
<1>4. g \in Nat /\ Gaps(lens, p, k, TRUE, g)
  BY <1>1, <1>2, <1>3, GapHere
<1>5. EvenParts(parts, lens, k, g)
  BY <1>1, <1>2, <1>4, PartitionsEven
<1>6. Partition(parts, n, k)
  BY <1>1, BalancedAre
<1>7. \A i \in 1..k : Len(parts[i]) * k = n
  BY <1>1, BalancedAre
<1> HIDE DEF g, parts
<1>8. AllOf(parts, k, c)
  <2> SUFFICES ASSUME NEW i \in 1..k PROVE Len(parts[i]) = c
    BY DEF AllOf
  <2> DEFINE l == Len(parts[i])
  <2>1. l \in Nat
    BY <1>6 DEF Partition
  <2>2. l * k = k * c
    BY <1>7
  <2> HIDE DEF l
  <2>3. l = c
    BY <1>1, <2>1, <2>2, SameFactor
  <2> QED
    BY <2>3 DEF l
<1>9. Shuffled(other, lens, FlattenSeq(parts), n)
  BY DEF parts
<1>10. TokensDealt(given, lens, parts, k)
  BY <1>1, <1>6, <1>8, <1>9, DealtTokens
<1>11. \A q \in 0..(k - 1) : q + 1 \in 1..k
  BY <1>1
<1>12. \A q, r \in 0..(k - 1) : TokensOf(lens, parts[q + 1]) - TokensOf(lens, parts[r + 1]) <= g
  BY <1>5, <1>11 DEF EvenParts
<1>13. \A q, r \in 0..(k - 1) : RowTokens(given[q]) - RowTokens(given[r]) <= g
  BY <1>10, <1>12 DEF TokensDealt
<1> QED
  BY <1>13 DEF DealtEvenly, g

-----------------------------------------------------------------------------
\* Balancing

\* Scored rows have their input.
LEMMA ScoredInputs ==
  ASSUME FlowInv, phase = "balance"
  PROVE  Len(batch) = Samples /\ \A i \in 1..Samples : Scored[i].input = batch[i].input
<1>1. SampleRows(batch, SampleKeys)
  BY DEF FlowInv, BatchIs, Sampled, Generated, KeysAt
<1>2. Listed(batch, Samples) /\ Len(batch) = Samples /\ Samples \in Nat
  BY <1>1, ListedIs DEF SampleRows
<1> DEFINE s == Scored
<1>3. s = [i \in 1..Samples |-> [k \in DOMAIN batch[i] \cup {"score"} |-> IF k = "score" THEN rewards[i] ELSE batch[i][k]]]
  BY <1>2 DEF Scored
<1> HIDE DEF s
<1>4. ASSUME NEW i \in 1..Samples PROVE s[i].input = batch[i].input
  <2>1. DOMAIN batch[i] = SampleKeys
    BY <1>1 DEF SampleRows
  <2>2. s[i] = [k \in SampleKeys \cup {"score"} |-> IF k = "score" THEN rewards[i] ELSE batch[i][k]]
    BY <1>3, <2>1
  <2>3. "input" \in SampleKeys \cup {"score"} /\ "input" # "score"
    BY DEF SampleKeys
  <2> QED
    BY <2>2, <2>3
<1> QED
  BY <1>2, <1>4 DEF s

\* The ranks after balancing.
LEMMA BalanceDeals ==
  ASSUME FlowInv, Balance, setup.balance, setup.backend = "fsdp"
  PROVE  DealtEvenly(sent', batch', World)
<1> DEFINE lens == Lens(batch)
           k == World
           n == Samples
           c == n \div k
           parts == BalancedPartitions(lens, k, TRUE)
           idx == FlattenSeq(parts)
           s == Scored
           b == Reorder(s, idx)
           m == "compute_log_prob"
           given == DispatchProto("DP_COMPUTE_PROTO", setup.layout, b)
           other == Lens(b)
<1>1. phase = "balance" /\ PathIs /\ SampleRows(batch, SampleKeys) /\ ~setup.validate
  <2>1. phase = "balance"
    BY DEF Balance
  <2> QED
    BY <2>1 DEF FlowInv, PathIs, BatchIs, Sampled, Generated, KeysAt
<1>2. k \in Nat \ {0} /\ n \in Nat \ {0} /\ n % k = 0
  BY <1>1, WorldHere
<1>3. c \in Nat /\ n = k * c
  <2> HIDE DEF n, k
  <2>1. n \in Nat
    BY <1>2
  <2> QED
    BY <1>2, <2>1, DividesIs
<1>4. c # 0
  <2> HIDE DEF c, n, k
  <2>1. c = 0 => k * c = 0
    BY <1>2
  <2> QED
    BY <1>2, <1>3, <2>1
<1>5. k \in 1..n
  <2> HIDE DEF c, n, k
  <2>1. k * c >= k * 1
    BY <1>2, <1>3, <1>4
  <2> QED
    BY <1>2, <1>3, <2>1
<1>6. CanBalance(lens, k, TRUE) /\ Len(idx) = n /\ Permutes(idx, n)
  BY <1>1, BalanceKeeps
<1>7. Listed(batch, n) /\ \A i \in 1..n : Fits(batch[i].input)
  BY <1>1 DEF SampleRows
<1>8. lens \in Seq(Nat) /\ Len(lens) = n
  BY <1>1, <1>7, LensAre
<1>9. \A i \in 1..n : lens[i] = PromptLen + batch[i].input.len
  <2>1. Len(batch) = n
    BY <1>7, ListedIs
  <2> HIDE DEF n
  <2> QED
    BY <2>1 DEF Lens, Tokens
<1>10. \A i \in 1..n : s[i].input = batch[i].input
  BY <1>1, ScoredInputs
<1>11. batch' = b /\ Send(m, m, b)
  <2>1. IF setup.balance /\ ~CanBalance(lens, k, TRUE) THEN phase' = "raised" /\ UNCHANGED <<batch, sent, out, call>>
        ELSE /\ batch' = IF setup.balance THEN b ELSE s
             /\ Send(m, m, IF setup.balance THEN b ELSE s)
    BY DEF Balance, World, Lens
  <2> HIDE DEF lens, k, b, s, m
  <2> QED
    BY <1>6, <2>1
<1> HIDE DEF s, lens, idx
<1>12. Reordered(b, s, idx, n)
  BY <1>2, <1>6, ReorderIs
<1>13. \A i \in 1..n : idx[i] \in 1..n
  BY <1>6 DEF Permutes
<1> HIDE DEF b
<1>14. Listed(b, n) /\ \A i \in 1..n : b[i] = s[idx[i]]
  BY <1>12 DEF Reordered
<1>15. \A i \in 1..n : b[i].input = batch[idx[i]].input
  BY <1>10, <1>13, <1>14
<1>16. Len(b) = n
  BY <1>14, ListedIs
<1>17. \A i \in 1..n : Fits(b[i].input)
  BY <1>7, <1>13, <1>15
<1>18. other \in Seq(Nat)
  BY <1>1, <1>14, <1>17, LensAre
<1>19. Shuffled(other, lens, idx, n)
  <2>1. \A i \in 1..n : other[i] = PromptLen + b[i].input.len
    <3> HIDE DEF n
    <3> QED
      BY <1>16 DEF Lens, Tokens
  <2> HIDE DEF other
  <2>2. ASSUME NEW i \in 1..n PROVE other[i] = lens[idx[i]]
    <3>1. other[i] = PromptLen + b[i].input.len
      BY <2>1
    <3>2. lens[idx[i]] = PromptLen + batch[idx[i]].input.len
      BY <1>9, <1>13
    <3> QED
      BY <1>15, <3>1, <3>2
  <2> QED
    BY <1>6, <2>2 DEF Shuffled
<1>20. setup.layout \in Layouts
  BY <1>1, JobIs DEF Job
<1>21. NumChunks("DP_COMPUTE_PROTO", setup.layout) = k /\ ModeOf(m) = "DP_COMPUTE_PROTO" /\ "DP_COMPUTE_PROTO" \in Modes
  BY DEF NumChunks, World, ModeOf, Modes
<1>22. CanChunk(b, k)
  BY <1>2, <1>16 DEF CanChunk
<1>23. sent' = given
  <2>1. \/ CanChunk(b, NumChunks(ModeOf(m), setup.layout)) /\ Sends(m, m, b)
        \/ ~CanChunk(b, NumChunks(ModeOf(m), setup.layout)) /\ phase' = "raised" /\ UNCHANGED <<sent, out, call>>
    <3> HIDE DEF m
    <3> QED
      BY <1>11, SendsIt
  <2>2. Sends(m, m, b)
    <3> HIDE DEF k, m
    <3> QED
      BY <1>21, <1>22, <2>1
  <2> HIDE DEF m
  <2> QED
    BY <1>21, <2>2 DEF Sends
<1>24. Dealt(given, b, k, c)
  <2> DEFINE mode == "DP_COMPUTE_PROTO"
             layout == setup.layout
  <2>1. Len(b) = NumChunks(mode, layout) * c
    BY <1>3, <1>16, <1>21
  <2>2. RanksOf(layout) = 0..(k - 1) /\ \A q \in RanksOf(layout) : ChunkOf(mode, layout, q) = q
    BY DEF RanksOf, ChunkOf, World
  <2> HIDE DEF given, k, c
  <2>3. mode \in Modes /\ NumChunks(mode, layout) = k
    BY <1>21
  <2>4. Dispatched(given, mode, layout, b, c)
    <3> HIDE DEF mode, layout
    <3> QED
      BY <1>3, <1>20, <2>1, <2>3, DispatchIs DEF given, mode, layout
  <2> HIDE DEF mode, layout
  <2> QED
    BY <2>2, <2>3, <2>4 DEF Dispatched, Dealt
<1> HIDE DEF other, given, k, n, c
<1>25. DealtEvenly(given, b, k)
  <2>1. Shuffled(other, lens, FlattenSeq(BalancedPartitions(lens, k, TRUE)), n)
    BY <1>19 DEF idx
  <2>2. other = Lens(b)
    BY DEF other
  <2> QED
    BY <1>3, <1>5, <1>8, <1>16, <1>18, <1>24, <2>1, <2>2, DealtBalanced
<1> QED
  BY <1>11, <1>23, <1>25 DEF k

\* The driver comes to the first call for the batch by balancing only.
LEMMA BalanceOnly ==
  ASSUME [Next]_vars, phase' = "compute_log_prob"
  PROVE  Balance \/ (phase' = phase /\ setup' = setup /\ batch' = batch /\ sent' = sent)
<1> DEFINE m == "compute_log_prob"
<1>0. \A w, b : Send(w, w, b) => phase' \in {w, "raised"}
  BY DEF Send
<1>1. CASE Begin
  BY <1>0, <1>1 DEF Begin
<1>2. CASE CollectGeneration
  <2>1. phase' \in {"reward", "raised"}
    BY <1>2 DEF CollectGeneration
  <2> QED
    BY <2>1
<1>3. CASE Reward
  BY <1>3 DEF Reward
<1>4. CASE NextGroup
  <2>1. /\ phase = "groups"
        /\ \/ \E b : Send("generate_sequences", "resample", b)
           \/ phase' = phase
           \/ phase' = "balance"
    BY <1>4 DEF NextGroup
  <2>2. phase' \in {"resample", "raised", "groups", "balance"}
    BY <2>1 DEF Send
  <2> QED
    BY <2>2
<1>5. CASE WriteBack
  BY <1>5 DEF WriteBack
<1>6. CASE Balance
  BY <1>6
<1>7. CASE CollectColumn
  <2>1. \/ phase' \in {"raised", "advantages"}
        \/ \E w \in {"compute_ref_log_prob", "compute_values"} : \E b : Send(w, w, b)
    BY <1>7 DEF CollectColumn, ColumnMethods, AfterOldLogProb, AfterReference, AfterColumns
  <2>2. phase' \in {"raised", "advantages", "compute_ref_log_prob", "compute_values"}
    BY <1>0, <2>1
  <2> QED
    BY <2>2
<1>8. CASE ComputeAdvantage
  <2>1. phase' = "over" \/ \E w \in {"update_critic", "update_actor"} : \E b : Send(w, w, b)
    BY <1>8 DEF ComputeAdvantage
  <2>2. phase' \in {"over", "raised", "update_critic", "update_actor"}
    BY <1>0, <2>1
  <2> QED
    BY <2>2
<1>9. CASE CollectUpdate
  <2>1. phase' = "over" \/ Send("update_actor", "update_actor", batch)
    BY <1>9 DEF CollectUpdate
  <2>2. phase' \in {"over", "raised", "update_actor"}
    BY <1>0, <2>1
  <2> QED
    BY <2>2
<1>10. CASE PlanMicroBatches
  <2>1. phase' = phase \/ phase' = "raised"
    BY <1>10 DEF PlanMicroBatches
  <2> QED
    BY <1>10, <2>1 DEF PlanMicroBatches
<1>11. CASE Forward
  BY <1>11 DEF Forward
<1>12. CASE OptimizerStep
  BY <1>12 DEF OptimizerStep
<1>13. CASE \E r \in Ranks : Rank(r)
  <2>1. PICK r \in Ranks : GenerateSequences(r) \/ Return(r)
    BY <1>13 DEF Rank
  <2> QED
    BY <2>1 DEF GenerateSequences, Return
<1>14. CASE Over \/ UNCHANGED vars
  BY <1>14 DEF Over, vars
<1> QED
  BY <1>1, <1>2, <1>3, <1>4, <1>5, <1>6, <1>7, <1>8, <1>9, <1>10, <1>11, <1>12, <1>13, <1>14
     DEF Next, Driver, Collective

\* Every step keeps the ranks balanced: balancing makes them so, and until the next
\* call neither the batch nor what was sent changes.
LEMMA RanksBalancedNext ==
  ASSUME FlowInv, RanksBalanced, [Next]_vars
  PROVE  RanksBalanced'
<1> SUFFICES ASSUME phase' = "compute_log_prob", setup'.balance, setup'.backend = "fsdp",
                    NEW q \in Ranks', NEW r \in Ranks'
             PROVE  RowTokens(sent'[q]) - RowTokens(sent'[r]) <= LargestGap(batch', Cardinality(Ranks'))
  BY DEF RanksBalanced
<1>1. CASE Balance
  <2>1. setup' = setup
    BY <1>1 DEF Balance
  <2>2. Ranks' = Ranks
    BY <2>1, SameJob
  <2>3. DealtEvenly(sent', batch', World)
    BY <1>1, <2>1, BalanceDeals
  <2>4. Ranks = 0..(World - 1)
    BY DEF Ranks, RanksOf, World
  <2>5. Cardinality(Ranks) = World
    BY JobIs, WorldIs, ModeIn DEF FlowInv, Ranks, Job, World
  <2>6. q \in 0..(World - 1) /\ r \in 0..(World - 1)
    BY <2>2, <2>4
  <2> QED
    BY <2>2, <2>3, <2>5, <2>6 DEF DealtEvenly
<1>2. CASE phase' = phase /\ setup' = setup /\ batch' = batch /\ sent' = sent
  <2>1. Ranks' = Ranks
    BY <1>2, SameJob
  <2> QED
    BY <1>2, <2>1 DEF RanksBalanced
<1> QED
  BY <1>1, <1>2, BalanceOnly

\* After _balance_batch, for every job, no rank has more tokens than another by more than
\* the lengths differ within one of the groups dealt out to the ranks (RanksBalanced, what
\* get_seqlen_balanced_partitions with equal sizes is for).
THEOREM RanksAreBalanced == Spec => []RanksBalanced
<1>1. Init => RanksBalanced
  BY DEF Init, RanksBalanced
<1>2. FlowInv /\ RanksBalanced /\ [Next]_vars => RanksBalanced'
  BY RanksBalancedNext
<1> QED
  BY <1>1, <1>2, FlowInductive, PTL DEF Spec

-----------------------------------------------------------------------------
\* The invariant of the samples: which row is which

\* The answers are collected in the order of the requests.
Turns == InTurns(ModeOf("generate_sequences"), setup.layout)

\* The rewards are those of the prompts and inputs.
Graded(scores, b) == \A i \in 1..Samples : scores[i] = Grade(b[i].prompt, b[i].input)

\* No two samples have the same input.
OwnIs == phase \in Sampled => Own(batch)

RowsInv ==
  /\ OwnIs
  /\ phase = "reward" => First(batch)
  /\ phase \in {"reward", "groups", "resample"} => Fresh(batch, group)
  /\ phase \in {"groups", "resample", "balance"} => Graded(rewards, batch)

\* The rows behind those of a prompt are those from the next prompt on.
LEMMA FreshLater ==
  ASSUME PathIs, NEW g \in Nat \ {0}, NEW b, Fresh(b, g)
  PROVE  Fresh(b, g + 1)
<1> DEFINE n == setup.n
           lo == (g - 1) * n
           hi == g * n
<1>1. n \in Nat /\ Samples \in Nat
  BY JobIs, WorldHere DEF Job
<1>2. lo \in Int /\ hi \in Int /\ hi = lo + n
  BY <1>1
<1>3. \A i \in 1..Samples : i > lo => ~b[i].responses.again
  BY DEF Fresh
<1> HIDE DEF lo, hi
<1>4. \A i \in 1..Samples : i > hi => ~b[i].responses.again
  BY <1>1, <1>2, <1>3
<1> QED
  BY <1>4 DEF Fresh, hi

\* The rows of a prompt, in numbers.
LEMMA NotOfGroup ==
  ASSUME PathIs, NEW g \in Nat \ {0}, NEW i \in 1..Samples, i > g * setup.n
  PROVE  i \notin GroupRows(g)
<1>1. setup.n \in Nat /\ Samples \in Nat
  BY JobIs, WorldHere DEF Job
<1> DEFINE hi == g * setup.n
<1>2. hi \in Int
  BY <1>1
<1> HIDE DEF hi
<1>3. i > hi => i \notin ((g - 1) * setup.n + 1)..hi
  BY <1>1, <1>2
<1> QED
  BY <1>3 DEF GroupRows, hi

\* Balancing scores the rows and puts them in some order.
Rebalanced(idx, b) ==
  /\ Permutes(idx, Samples)
  /\ \A i \in 1..Samples : b[i] = With(batch[idx[i]], "score", rewards[idx[i]])
\* Balance keeps every row, with its score, in some order.
LEMMA BalancedRows ==
  ASSUME FlowInv, Balance
  PROVE  \E idx : Rebalanced(idx, batch')
<1> DEFINE lens == Lens(batch)
           k == World
           idx == FlattenSeq(BalancedPartitions(lens, k, TRUE))
           s == Scored
<1>1. phase = "balance"
  BY DEF Balance
<1>2. IF setup.balance /\ ~CanBalance(lens, k, TRUE) THEN phase' = "raised" /\ UNCHANGED <<batch, sent, out, call>>
      ELSE batch' = IF setup.balance THEN Reorder(s, idx) ELSE s
  BY DEF Balance, World, Lens
<1>3. \A i \in 1..Samples : s[i] = With(batch[i], "score", rewards[i])
  <2>1. SampleRows(batch, SampleKeys)
    BY <1>1 DEF FlowInv, BatchIs, Sampled, Generated, KeysAt
  <2>2. Len(batch) = Samples
    BY <2>1, ListedIs DEF SampleRows
  <2> QED
    BY <2>2 DEF Scored, With
<1>4. Samples \in Nat
  BY WorldHere DEF FlowInv
<1> HIDE DEF s
<1>5. CASE ~setup.balance
  <2> DEFINE same == [i \in 1..Samples |-> i]
  <2>1. Permutes(same, Samples)
    BY DEF Permutes
  <2>2. Rebalanced(same, batch')
    BY <1>2, <1>3, <1>5, <2>1 DEF Rebalanced
  <2> QED
    BY <2>2
<1>6. CASE setup.balance
  <2>1. CanBalance(lens, k, TRUE) /\ Len(idx) = Samples /\ Permutes(idx, Samples)
    BY <1>1, <1>6, BalanceKeeps
  <2> HIDE DEF lens, k, idx
  <2>2. batch' = Reorder(s, idx)
    BY <1>2, <1>6, <2>1
  <2>3. Reordered(Reorder(s, idx), s, idx, Samples)
    BY <1>4, <2>1, ReorderIs
  <2>4. \A i \in 1..Samples : idx[i] \in 1..Samples
    BY <2>1 DEF Permutes
  <2>5. Rebalanced(idx, batch')
    BY <1>3, <2>1, <2>2, <2>3, <2>4 DEF Rebalanced, Reordered
  <2> QED
    BY <2>5
<1> QED
  BY <1>5, <1>6

\* Balance keeps the inputs apart.
LEMMA RebalancedOwn ==
  ASSUME FlowInv, Balance, Own(batch)
  PROVE  Own(batch')
<1>1. PICK idx : Rebalanced(idx, batch')
  BY BalancedRows
<1>2. SampleRows(batch, SampleKeys)
  BY DEF FlowInv, BatchIs, Sampled, Generated, KeysAt, Balance
<1>3. ASSUME NEW i \in 1..Samples
      PROVE  batch'[i].input = batch[idx[i]].input /\ idx[i] \in 1..Samples
  <2>1. idx[i] \in 1..Samples /\ batch'[i] = With(batch[idx[i]], "score", rewards[idx[i]])
    BY <1>1 DEF Rebalanced, Permutes
  <2>2. "input" \in DOMAIN batch[idx[i]] /\ "input" # "score"
    BY <1>2, <2>1 DEF SampleRows, SampleKeys
  <2> QED
    BY <2>1, <2>2 DEF With
<1>4. \A i, j \in 1..Samples : idx[i] = idx[j] => i = j
  BY <1>1 DEF Rebalanced, Permutes
<1> QED
  BY <1>3, <1>4 DEF Own

\* The rewards are taken from the responses, which are the inputs then.
LEMMA RewardGrades ==
  ASSUME FlowInv, RowsInv, Reward
  PROVE  Graded(rewards', batch)
<1>1. SampleRows(batch, SampleKeys) /\ First(batch)
  BY DEF FlowInv, BatchIs, Sampled, Generated, KeysAt, Reward, RowsInv
<1>2. Len(batch) = Samples
  BY <1>1, ListedIs DEF SampleRows
<1>3. rewards' = [i \in 1..Samples |-> Grade(batch[i].prompt, batch[i].responses)]
  BY <1>2 DEF Reward
<1> QED
  BY <1>1, <1>3 DEF Graded, First

\* Whoever writes answers back keeps prompts and inputs, and what follows fresh.
LEMMA WriteBackRows ==
  ASSUME FlowInv, RowsInv, WriteBack
  PROVE  /\ Own(batch') /\ Fresh(batch', group + 1) /\ Graded(rewards, batch')
         /\ \A i \in 1..Samples : batch'[i].input = batch[i].input
<1>1. phase = "resample" /\ PathIs /\ group \in Nat \ {0}
  <2>1. PathIs /\ GroupIs
    BY DEF FlowInv
  <2>2. setup.prompts \in Nat
    BY <2>1, JobIs DEF Job
  <2> QED
    BY <2>1, <2>2 DEF GroupIs, WriteBack
<1>2. Own(batch) /\ Fresh(batch, group) /\ Graded(rewards, batch)
  BY <1>1 DEF RowsInv, OwnIs, Sampled, Generated
<1>3. \A i \in 1..Samples : batch'[i].input = batch[i].input /\ batch'[i].prompt = batch[i].prompt
  BY WrittenBack
<1>4. \A i \in 1..Samples : i \notin GroupRows(group) => batch'[i] = batch[i]
  BY WrittenBack
<1>5. Own(batch') /\ Graded(rewards, batch')
  BY <1>2, <1>3 DEF Own, Graded
<1>6. Fresh(batch, group + 1)
  BY <1>1, <1>2, FreshLater
<1>7. Fresh(batch', group + 1)
  <2> SUFFICES ASSUME NEW i \in 1..Samples, i > ((group + 1) - 1) * setup.n
               PROVE  ~batch'[i].responses.again
    BY DEF Fresh
  <2>1. (group + 1) - 1 = group
    BY <1>1
  <2>2. i > group * setup.n
    BY <2>1
  <2>3. batch'[i] = batch[i]
    BY <1>1, <1>4, <2>2, NotOfGroup
  <2>4. ~batch[i].responses.again
    BY <1>6 DEF Fresh
  <2> QED
    BY <2>3, <2>4
<1> QED
  BY <1>3, <1>5, <1>7

\* Every step keeps the inputs apart.
LEMMA OwnNext ==
  ASSUME FlowInv, OwnIs, [Next]_vars
  PROVE  OwnIs'
<1>1. PathIs
  BY DEF FlowInv
<1>2. ASSUME setup' = setup, Own(batch')
      PROVE  OwnIs'
  <2>1. Samples' = Samples
    BY <1>2, SameJob
  <2> QED
    BY <1>2, <2>1 DEF OwnIs, Own
<1>3. ASSUME setup' = setup, phase' \notin Sampled
      PROVE  OwnIs'
  BY <1>3 DEF OwnIs
<1>4. ASSUME setup' = setup, phase \in Sampled,
             \A i \in 1..Samples : batch'[i].input = batch[i].input
      PROVE  OwnIs'
  BY <1>2, <1>4 DEF OwnIs, Own
<1>5. CASE Begin
  <2> DEFINE m == "generate_sequences"
  <2>1. Send(m, m, Asked) /\ setup' = setup
    BY <1>5 DEF Begin, Asked, Tiled, World
  <2>2. CanChunk(Asked, NumChunks(ModeOf(m), setup.layout))
    BY <1>1, AskedChunks
  <2>3. phase' = m
    BY <2>1, <2>2, SendsIt DEF Sends
  <2>4. m \notin Sampled
    BY DEF Sampled, Generated, ColumnMethods, UpdateMethods
  <2> QED
    BY <1>3, <2>1, <2>3, <2>4
<1>6. CASE CollectGeneration
  <2>1. setup' = setup
    BY <1>6 DEF CollectGeneration
  <2> QED
    BY <1>2, <1>6, <2>1, GenerationUnited
<1>7. CASE WriteBack
  <2>1. setup' = setup /\ phase \in Sampled
    BY <1>7 DEF WriteBack, Sampled, Generated
  <2> QED
    BY <1>4, <1>7, <2>1, WrittenBack
<1>8. CASE Balance
  <2>1. setup' = setup /\ phase \in Sampled
    BY <1>8 DEF Balance, Sampled, Generated
  <2> QED
    BY <1>2, <1>8, <2>1, RebalancedOwn DEF OwnIs
<1>9. CASE CollectColumn
  <2>1. setup' = setup /\ phase \in Sampled
    BY <1>9 DEF CollectColumn, Sampled
  <2> QED
    BY <1>4, <1>9, <2>1, ColumnUnited
<1>10. CASE ComputeAdvantage
  <2>1. setup' = setup /\ phase \in Sampled
    BY <1>10 DEF ComputeAdvantage, Sampled
  <2> QED
    BY <1>4, <1>10, <2>1, AdvantagesAdded
<1>11. ASSUME setup' = setup, batch' = batch, phase' \in Sampled => phase \in Sampled
       PROVE  OwnIs'
  <2>1. Samples' = Samples
    BY <1>11, SameJob
  <2> QED
    BY <1>11, <2>1 DEF OwnIs, Own
<1>12. CASE Reward
  BY <1>11, <1>12 DEF Reward, Sampled, Generated
<1>13. CASE NextGroup
  BY <1>11, <1>13 DEF NextGroup, Sampled, Generated
<1>14. CASE CollectUpdate
  BY <1>11, <1>14 DEF CollectUpdate, Sampled
<1>15. CASE PlanMicroBatches
  BY <1>11, <1>15 DEF PlanMicroBatches, Working, Sampled
<1>16. CASE Forward \/ OptimizerStep \/ Over \/ UNCHANGED vars \/ \E r \in Ranks : Rank(r)
  BY <1>11, <1>16 DEF Forward, OptimizerStep, Over, vars, Rank, GenerateSequences, Return
<1> QED
  BY <1>5, <1>6, <1>7, <1>8, <1>9, <1>10, <1>12, <1>13, <1>14, <1>15, <1>16 DEF Next, Driver, Collective

\* Every step keeps the samples apart, their answers fresh until the prompt has its
\* turn, and their rewards.
LEMMA RowsNext ==
  ASSUME FlowInv, RowsInv, Turns, [Next]_vars
  PROVE  RowsInv'
<1>1. PathIs /\ group \in Nat \ {0}
  <2>1. PathIs /\ GroupIs
    BY DEF FlowInv
  <2>2. setup.prompts \in Nat
    BY <2>1, JobIs DEF Job
  <2> QED
    BY <2>1, <2>2 DEF GroupIs
<1>0. OwnIs'
  BY OwnNext DEF RowsInv
<1>2. ASSUME setup' = setup
      PROVE  /\ First(batch)' <=> First(batch')
             /\ Fresh(batch, group)' <=> Fresh(batch', group')
             /\ Graded(rewards, batch)' <=> Graded(rewards', batch')
  <2>1. Samples' = Samples
    BY <1>2, SameJob
  <2> QED
    BY <1>2, <2>1 DEF First, Fresh, Graded, Grade
<1>3. ASSUME phase' \notin Generated
      PROVE  RowsInv'
  BY <1>0, <1>3 DEF RowsInv, Generated
<1>4. CASE Begin
  <2> DEFINE m == "generate_sequences"
  <2>1. Send(m, m, Asked)
    BY <1>4 DEF Begin, Asked, Tiled, World
  <2>2. CanChunk(Asked, NumChunks(ModeOf(m), setup.layout))
    BY <1>1, AskedChunks
  <2>3. phase' = m
    BY <2>1, <2>2, SendsIt DEF Sends
  <2> QED
    BY <1>3, <2>3 DEF Generated
<1>5. CASE CollectGeneration
  <2>1. phase' = "reward" /\ First(batch') /\ Fresh(batch', group)
    BY <1>5, GenerationUnited DEF Turns
  <2>2. setup' = setup /\ group' = group
    BY <1>5 DEF CollectGeneration
  <2> QED
    BY <1>0, <1>2, <2>1, <2>2 DEF RowsInv
<1>6. CASE Reward
  <2>1. /\ phase = "reward" /\ setup' = setup /\ batch' = batch /\ group' = group
        /\ phase' \in {"over", "groups", "balance"}
    BY <1>6 DEF Reward
  <2>2. Fresh(batch, group)
    BY <2>1 DEF RowsInv
  <2>3. Graded(rewards', batch)
    BY <1>6, RewardGrades
  <2> QED
    BY <1>0, <1>2, <2>1, <2>2, <2>3 DEF RowsInv
<1>7. CASE NextGroup
  <2> DEFINE b == SubSeq(batch, (group - 1) * setup.n + 1, group * setup.n)
  <2>1. /\ phase = "groups" /\ setup' = setup /\ batch' = batch /\ rewards' = rewards
        /\ \/ Send("generate_sequences", "resample", b) /\ group' = group
           \/ group' = group + 1 /\ phase' = phase
           \/ phase' = "balance" /\ group' = group
    BY <1>7 DEF NextGroup
  <2>2. Fresh(batch, group) /\ Graded(rewards, batch)
    BY <2>1 DEF RowsInv
  <2>3. phase' \in {"resample", "raised", "groups", "balance"} /\ group' \in {group, group + 1}
    BY <2>1 DEF Send
  <2>4. Fresh(batch, group')
    BY <1>1, <2>2, <2>3, FreshLater
  <2> QED
    BY <1>0, <1>2, <2>1, <2>2, <2>3, <2>4 DEF RowsInv
<1>8. CASE WriteBack
  <2>1. setup' = setup /\ rewards' = rewards /\ group' = group + 1 /\ phase' = "groups"
    BY <1>8 DEF WriteBack
  <2> QED
    BY <1>0, <1>2, <1>8, <2>1, WriteBackRows DEF RowsInv
<1>9. CASE Balance
  <2>1. Send("compute_log_prob", "compute_log_prob", batch')
    BY <1>9, BalanceSends
  <2>2. phase' \in {"compute_log_prob", "raised"}
    BY <2>1 DEF Send
  <2> QED
    BY <1>3, <2>2 DEF Generated
<1>11. CASE CollectColumn
  <2>1. phase \in ColumnMethods
    BY <1>11 DEF CollectColumn
  <2>2. IF Following = "advantages" THEN phase' = Following ELSE Send(Following, Following, batch')
    BY <1>11, ColumnUnited
  <2>3. Following \notin Generated
    BY <1>1, <2>1, FollowingIs DEF Generated
  <2>4. phase' \notin Generated
    BY <2>2, <2>3 DEF Send, Generated
  <2> QED
    BY <1>3, <2>4
<1>12. CASE ComputeAdvantage
  <2>1. phase' \notin Generated
    BY <1>12, AdvantagesAdded DEF Send, Generated
  <2> QED
    BY <1>3, <2>1
<1>13. CASE CollectUpdate
  <2>1. phase' \notin Generated
    BY <1>13 DEF CollectUpdate, Send, Generated
  <2> QED
    BY <1>3, <2>1
<1>14. CASE PlanMicroBatches
  <2>1. phase' \notin Generated
    BY <1>14 DEF PlanMicroBatches, Working, Generated, ColumnMethods, UpdateMethods
  <2> QED
    BY <1>3, <2>1
<1>15. ASSUME UNCHANGED <<setup, phase, batch, group, rewards>>
       PROVE  RowsInv'
  BY <1>0, <1>2, <1>15 DEF RowsInv
<1>16. CASE Forward \/ OptimizerStep \/ Over \/ UNCHANGED vars \/ \E r \in Ranks : Rank(r)
  BY <1>15, <1>16 DEF Forward, OptimizerStep, Over, vars, Rank, GenerateSequences, Return
<1> QED
  BY <1>4, <1>5, <1>6, <1>7, <1>8, <1>9, <1>11, <1>12, <1>13, <1>14, <1>16 DEF Next, Driver, Collective

-----------------------------------------------------------------------------
\* Rows as a set of samples

RowSet(b) == {b[i] : i \in 1..Samples}

\* Rows with different inputs are different samples, so they are as many as their places.
RowsAt(b, J) == {b[j] : j \in J}
\* As many samples as places.
LEMMA CountRows ==
  ASSUME PathIs, NEW b, Own(b), NEW J \in SUBSET (1..Samples)
  PROVE  Cardinality(RowsAt(b, J)) = Cardinality(J)
<1> DEFINE f == [j \in J |-> b[j]]
           T == {b[j] : j \in J}
<1>1. Samples \in Nat
  BY WorldHere
<1>2. IsFiniteSet(J)
  <2>1. IsFiniteSet(1..Samples)
    BY <1>1, FS_Interval
  <2> QED
    BY <2>1, FS_Subset
<1>3. \A i, j \in J : b[i] = b[j] => i = j
  BY DEF Own
<1>4. f \in Bijection(J, T)
  <2>1. f \in [J -> T]
    OBVIOUS
  <2>2. \A i, j \in J : f[i] = f[j] => i = j
    BY <1>3
  <2>3. \A t \in T : \E j \in J : f[j] = t
    OBVIOUS
  <2> HIDE DEF f
  <2> QED
    BY <2>1, <2>2, <2>3 DEF Bijection, Injection, Surjection, IsInjective
<1>5. ExistsBijection(J, T)
  BY <1>4 DEF ExistsBijection
<1>6. T = RowsAt(b, J)
  BY DEF RowsAt
<1> HIDE DEF T
<1> QED
  BY <1>2, <1>5, <1>6, FS_Bijection

\* A product of naturals is one.
LEMMA ProductNat ==
  ASSUME NEW a \in Nat, NEW b \in Nat
  PROVE  a * b \in Nat
OBVIOUS

\* A number is in the p-th block of n numbers as its quotient says.
LEMMA InBlock ==
  ASSUME NEW n \in Nat \ {0}, NEW p \in Nat \ {0}, NEW i \in Nat \ {0}
  PROVE  i \in ((p - 1) * n + 1)..(p * n) <=> ((i - 1) \div n) + 1 = p
<1> DEFINE lo == (p - 1) * n
           hi == p * n
           q == (i - 1) \div n
           r == (i - 1) % n
<1>1. lo \in Nat /\ hi = lo + n
  <2>1. lo \in Nat
    BY ProductNat
  <2> QED
    BY <2>1
<1>2. ASSUME i \in (lo + 1)..hi
      PROVE  q + 1 = p
  <2> DEFINE x == i - 1 - lo
             m == p - 1
  <2> HIDE DEF lo, hi
  <2>1. x \in Nat /\ x < n /\ i - 1 = lo + x
    BY <1>1, <1>2
  <2> HIDE DEF x
  <2>2. m \in Nat /\ lo = m * n
    BY DEF lo
  <2> HIDE DEF m
  <2>3. (m * n + x) \div n = m
    BY <2>1, <2>2, DivModUnique
  <2>4. q = m
    BY <2>1, <2>2, <2>3
  <2> QED
    BY <2>4 DEF m
<1>3. ASSUME q + 1 = p
      PROVE  i \in (lo + 1)..hi
  <2>1. i - 1 = n * q + r /\ r \in 0..(n - 1)
    OBVIOUS
  <2>2. q = p - 1
    BY <1>3
  <2>3. n * q = lo
    BY <2>2
  <2> HIDE DEF lo, hi, q, r
  <2> QED
    BY <1>1, <2>1, <2>3
<1> QED
  BY <1>2, <1>3

\* The rows of a prompt where the samples of each are together.
LEMMA RowsOfPrompt ==
  ASSUME PathIs, NEW p \in 1..setup.prompts
  PROVE  /\ GroupRows(p) \subseteq 1..Samples /\ Cardinality(GroupRows(p)) = setup.n
         /\ \A i \in 1..Samples : i \in GroupRows(p) <=> ((i - 1) \div setup.n) + 1 = p
<1> DEFINE n == setup.n
           P == setup.prompts
           lo == (p - 1) * n + 1
           hi == p * n
<1>1. n \in Nat \ {0} /\ P \in Nat \ {0} /\ Samples \in Nat /\ Samples = P * n
  BY JobIs, WorldHere DEF Job, Samples
<1>2. GroupRows(p) = lo..hi
  BY DEF GroupRows
<1>3. p \in 1..P
  OBVIOUS
<1> HIDE DEF n, P
<1>4. lo \in 1..(P * n) /\ hi \in lo..(P * n) /\ hi - lo + 1 = n
  BY <1>1, <1>3, GroupIn
<1>5. \A i \in 1..Samples : i \in lo..hi <=> ((i - 1) \div n) + 1 = p
  <2> TAKE i \in 1..Samples
  <2>1. i \in Nat \ {0} /\ p \in Nat \ {0}
    BY <1>1, <1>3
  <2> QED
    BY <1>1, <2>1, InBlock
<1> HIDE DEF lo, hi
<1>6. lo..hi \subseteq 1..Samples /\ lo \in Int /\ hi \in Int /\ lo <= hi
  BY <1>1, <1>4
<1>7. Cardinality(lo..hi) = n
  BY <1>4, <1>6, FS_Interval
<1> QED
  BY <1>2, <1>5, <1>6, <1>7 DEF n

\* Each prompt has its n samples.
LEMMA SamplesOfPrompt ==
  ASSUME PathIs, NEW b, Own(b), \A i \in 1..Samples : b[i].prompt = ((i - 1) \div setup.n) + 1,
         NEW p \in 1..setup.prompts
  PROVE  /\ Implemented!OfPrompt(RowSet(b), p) = RowsAt(b, GroupRows(p))
         /\ Cardinality(Implemented!OfPrompt(RowSet(b), p)) = setup.n
<1>1. /\ GroupRows(p) \subseteq 1..Samples /\ Cardinality(GroupRows(p)) = setup.n
      /\ \A i \in 1..Samples : i \in GroupRows(p) <=> b[i].prompt = p
  BY RowsOfPrompt
<1>2. Implemented!OfPrompt(RowSet(b), p) = RowsAt(b, GroupRows(p))
  BY <1>1 DEF Implemented!OfPrompt, RowSet, RowsAt
<1>3. Cardinality(RowsAt(b, GroupRows(p))) = setup.n
  BY <1>1, CountRows
<1> QED
  BY <1>2, <1>3

-----------------------------------------------------------------------------
\* The batch as SampleFlow has it

\* SampleFlow counts as this module does.
LEMMA SameCount == \A S : Implemented!Cardinality(S) = Cardinality(S)
BY DEF Implemented!Cardinality, Cardinality

Shows(b, key) == b # <<>> /\ key \in DOMAIN b[1]
SamplesOf(b) == IF Shows(b, "input") THEN ToSet(b) ELSE {}
StageOf(b) ==
  IF Shows(b, "advantages") THEN "advantages" ELSE IF Shows(b, "input") THEN "samples" ELSE "prompts"

\* A batch of samples, as the abstract samples and their stage.
LEMMA ShownIs ==
  ASSUME PathIs, NEW b, NEW K, SampleRows(b, K), "input" \in K
  PROVE  /\ SamplesOf(b) = RowSet(b)
         /\ StageOf(b) = IF "advantages" \in K THEN "advantages" ELSE "samples"
<1>1. Samples \in Nat \ {0} /\ Len(b) = Samples /\ DOMAIN b = 1..Samples
  BY WorldHere, ListedIs DEF SampleRows
<1>2. DOMAIN b[1] = K
  BY <1>1 DEF SampleRows
<1>3. b # <<>>
  BY <1>1
<1>4. ToSet(b) = RowSet(b)
  BY <1>1 DEF ToSet, RowSet
<1> QED
  BY <1>2, <1>3, <1>4 DEF SamplesOf, StageOf, Shows

\* Prompts alone are no samples yet.
LEMMA NotShown ==
  ASSUME NEW b, NEW n \in Nat \ {0}, Columns(b, n, {"prompt"})
  PROVE  SamplesOf(b) = {} /\ StageOf(b) = "prompts"
<1>1. DOMAIN b[1] = {"prompt"}
  BY DEF Columns
<1> QED
  BY <1>1 DEF SamplesOf, StageOf, Shows

\* A step that leaves the samples and the columns alone is no step of the abstract
\* one.
LEMMA AbstractStutter ==
  ASSUME setup' = setup, SamplesOf(batch') = SamplesOf(batch), StageOf(batch') = StageOf(batch)
  PROVE  UNCHANGED Implemented!sampleVars
BY DEF Implemented!sampleVars, SamplesOf, StageOf, Shows, Has

\* The samples of a batch with prompts and answers.
EachAnswered(S) ==
  /\ \A p \in 1..setup.prompts : Cardinality(Implemented!OfPrompt(S, p)) = setup.n
  /\ \A s \in S : /\ DOMAIN s = {"prompt", "input", "responses"} /\ s.prompt \in 1..setup.prompts
                  /\ s.input.to = s.prompt /\ s.responses = s.input
\* Samples of every prompt, each with its answer, are a Generate.
LEMMA AbstractGenerate ==
  ASSUME setup' = setup, StageOf(batch) = "prompts", StageOf(batch') = "samples", EachAnswered(SamplesOf(batch'))
  PROVE  Implemented!Generate
BY SameCount DEF Implemented!Generate, SamplesOf, StageOf, Shows, Has, EachAnswered, Implemented!OfPrompt

Replaced(S, T, p) ==
  /\ Cardinality(Implemented!OfPrompt(T, p)) = setup.n
  /\ S \ T = Implemented!OfPrompt(S, p)
  /\ \A s \in T \ S : /\ s.responses.to = p
                      /\ \E old \in Implemented!OfPrompt(S, p) : s = [old EXCEPT !.responses = s.responses]
\* New answers for the samples of one prompt are a Replace.
LEMMA AbstractReplace ==
  ASSUME setup' = setup, StageOf(batch) = "samples", StageOf(batch') = "samples",
         NEW p \in 1..setup.prompts, Replaced(SamplesOf(batch), SamplesOf(batch'), p)
  PROVE  Implemented!Replace
BY SameCount DEF Implemented!Replace, SamplesOf, StageOf, Shows, Has, Replaced, Implemented!OfPrompt

\* Scores by the first answers are a Rate.
LEMMA AbstractRate ==
  ASSUME setup' = setup, StageOf(batch) = "samples", StageOf(batch') = "samples",
         \A s \in SamplesOf(batch) : "score" \notin DOMAIN s,
         SamplesOf(batch') = {With(s, "score", Grade(s.prompt, s.input)) : s \in SamplesOf(batch)}
  PROVE  Implemented!Rate
BY DEF Implemented!Rate, Implemented!WithColumn, Implemented!Grade, With, Grade, SamplesOf, StageOf, Shows, Has

\* A column that says of each sample what its input gives is an Evaluate.
LEMMA AbstractEvaluate ==
  ASSUME setup' = setup, StageOf(batch) = "samples", StageOf(batch') = "samples",
         \A s \in SamplesOf(batch) : "score" \in DOMAIN s,
         NEW key \in {"old_log_probs", "ref_log_prob", "values"},
         SamplesOf(batch') = {With(s, key, ValueOf(key, s.input)) : s \in SamplesOf(batch)}
  PROVE  Implemented!Evaluate
<1> DEFINE S == SamplesOf(batch)
           T == SamplesOf(batch')
<1>1. CASE key = "values"
  <2>1. T = {With(s, "values", [of |-> s.input, upTo |-> s.input.len]) : s \in S}
    BY <1>1 DEF ValueOf
  <2> QED
    BY <2>1 DEF Implemented!Evaluate, Implemented!WithColumn, With, SamplesOf, StageOf, Shows, Has
<1>2. CASE key \in {"old_log_probs", "ref_log_prob"}
  <2>1. T = {With(s, key, s.input) : s \in S}
    BY <1>2 DEF ValueOf
  <2> QED
    BY <1>2, <2>1 DEF Implemented!Evaluate, Implemented!WithColumn, With, SamplesOf, StageOf, Shows, Has
<1> QED
  BY <1>1, <1>2

Compared(S, s) ==
  With(s, "advantages", [own |-> s.score,
    group |-> [ones |-> Cardinality({x \in S : x.prompt = s.prompt /\ x.score = 1}),
               of |-> Cardinality({x \in S : x.prompt = s.prompt})]])
\* Advantages among the samples of a prompt are a Compare.
LEMMA AbstractCompare ==
  ASSUME setup' = setup, StageOf(batch) = "samples", StageOf(batch') = "advantages",
         \A s \in SamplesOf(batch) : {"score", "old_log_probs"} \subseteq DOMAIN s,
         SamplesOf(batch') = {Compared(SamplesOf(batch), s) : s \in SamplesOf(batch)}
  PROVE  Implemented!Compare
<1> DEFINE S == SamplesOf(batch)
           T == SamplesOf(batch')
<1>2. \A s \in S : Compared(S, s) = Implemented!WithColumn(s, "advantages",
                    [own |-> s.score, group |-> Implemented!Scores(Implemented!OfPrompt(S, s.prompt))])
  <2> TAKE s \in S
  <2> DEFINE A == {y \in S : y.prompt = s.prompt}
             B == {x \in S : x.prompt = s.prompt /\ x.score = 1}
             v == [own |-> s.score, group |-> [ones |-> Cardinality(B), of |-> Cardinality(A)]]
  <2>1. {x \in A : x.score = 1} = B
    OBVIOUS
  <2>2. Implemented!OfPrompt(S, s.prompt) = A
    BY DEF Implemented!OfPrompt
  <2>3. Compared(S, s) = With(s, "advantages", v)
    BY DEF Compared
  <2> HIDE DEF A, B, S
  <2>4. Implemented!Scores(A) = [ones |-> Cardinality(B), of |-> Cardinality(A)]
    BY <2>1, SameCount DEF Implemented!Scores
  <2>5. Implemented!WithColumn(s, "advantages", v) = With(s, "advantages", v)
    BY DEF Implemented!WithColumn, With
  <2> QED
    BY <2>2, <2>3, <2>4, <2>5
<1>3. T = {Implemented!WithColumn(s, "advantages",
            [own |-> s.score, group |-> Implemented!Scores(Implemented!OfPrompt(S, s.prompt))]) : s \in S}
  BY <1>2
<1> QED
  BY <1>3 DEF Implemented!Compare, SamplesOf, StageOf, Shows, Has

-----------------------------------------------------------------------------
\* The driver's steps as SampleFlow's

\* Collecting the generation gives every prompt its n samples.
LEMMA GenerateStep ==
  ASSUME FlowInv, Turns, CollectGeneration
  PROVE  Implemented!Generate
<1>1. PathIs /\ phase = "generate_sequences" /\ setup' = setup
  BY DEF FlowInv, CollectGeneration
<1> DEFINE b == batch'
<1>2. SampleRows(b, SampleKeys) /\ Neighbours(b) /\ First(b) /\ Own(b)
  BY GenerationUnited DEF Turns
<1>3. StageOf(batch) = "prompts"
  <2>1. PICK n \in {Samples, setup.prompts} : n \in Nat \ {0} /\ Columns(batch, n, {"prompt"})
    BY <1>1, BatchLen DEF Sampled, Generated, ColumnMethods, UpdateMethods
  <2> QED
    BY <2>1, NotShown
<1>4. "input" \in SampleKeys /\ "advantages" \notin SampleKeys
  BY DEF SampleKeys
<1> HIDE DEF b
<1>5. SamplesOf(b) = RowSet(b) /\ StageOf(b) = "samples"
  BY <1>1, <1>2, <1>4, ShownIs
<1>6. EachAnswered(RowSet(b))
  <2>1. \A i \in 1..Samples : b[i].prompt = ((i - 1) \div setup.n) + 1 /\ b[i].input.to = b[i].prompt
    BY <1>2 DEF Neighbours, Turns
  <2>2. ASSUME NEW p \in 1..setup.prompts
        PROVE  Cardinality(Implemented!OfPrompt(RowSet(b), p)) = setup.n
    BY <1>1, <1>2, <2>1, SamplesOfPrompt
  <2>3. ASSUME NEW i \in 1..Samples
        PROVE  /\ DOMAIN b[i] = {"prompt", "input", "responses"} /\ b[i].prompt \in 1..setup.prompts
               /\ b[i].input.to = b[i].prompt /\ b[i].responses = b[i].input
    <3>1. setup.n \in Nat \ {0} /\ setup.prompts \in Nat \ {0} /\ Samples = setup.prompts * setup.n
      BY <1>1, JobIs DEF Job, Samples
    <3>2. i - 1 \in Nat /\ i - 1 < setup.prompts * setup.n
      BY <3>1
    <3>3. (i - 1) \div setup.n \in Nat /\ (i - 1) \div setup.n < setup.prompts
      BY <3>1, <3>2, DivBelow
    <3>4. b[i].prompt \in 1..setup.prompts
      BY <2>1, <3>1, <3>3
    <3> QED
      BY <1>2, <2>1, <3>4 DEF SampleRows, SampleKeys, First
  <2> QED
    BY <2>2, <2>3 DEF EachAnswered, RowSet
<1> QED
  BY <1>1, <1>3, <1>5, <1>6, AbstractGenerate DEF b

\* Writing a prompt's answers back replaces those of its samples and no others.
LEMMA ReplaceStep ==
  ASSUME FlowInv, TogetherIs, RowsInv, WriteBack
  PROVE  Implemented!Replace
<1> DEFINE b == batch'
           p == group
           G == GroupRows(p)
<1>1. phase = "resample" /\ setup' = setup /\ PathIs /\ GroupIs
  BY DEF FlowInv, WriteBack
<1>2. p \in 1..setup.prompts
  BY <1>1 DEF GroupIs
<1>3. SampleRows(batch, SampleKeys) /\ Own(batch) /\ Fresh(batch, p)
  BY <1>1 DEF FlowInv, BatchIs, KeysAt, RowsInv, OwnIs, Sampled, Generated
<1>4. \A i \in 1..Samples : batch[i].prompt = ((i - 1) \div setup.n) + 1
  <2>1. ~Has("score")
    BY <1>1, <1>3, RowsHave DEF Has, SampleKeys
  <2> QED
    BY <1>1, <2>1 DEF TogetherIs, Generated, Neighbours
<1>5. /\ Own(b) /\ Listed(b, Samples)
      /\ \A i \in 1..Samples : /\ DOMAIN b[i] = DOMAIN batch[i]
                               /\ b[i].input = batch[i].input /\ b[i].prompt = batch[i].prompt
      /\ \A i \in 1..Samples :
           IF i \in G
           THEN /\ b[i] = [batch[i] EXCEPT !.responses = b[i].responses]
                /\ b[i].responses.to = batch[i].prompt /\ b[i].responses.again
           ELSE b[i] = batch[i]
  BY WriteBackRows, WrittenBack
<1> HIDE DEF b, G, p
<1>6. /\ G \subseteq 1..Samples
      /\ \A i \in 1..Samples : i \in G <=> batch[i].prompt = p
  BY <1>1, <1>2, <1>4, RowsOfPrompt DEF G
<1>7. SampleRows(b, SampleKeys)
  BY <1>3, <1>5 DEF SampleRows
<1>8. "input" \in SampleKeys /\ "advantages" \notin SampleKeys
  BY DEF SampleKeys
<1>9. /\ SamplesOf(b) = RowSet(b) /\ StageOf(b) = "samples"
      /\ SamplesOf(batch) = RowSet(batch) /\ StageOf(batch) = "samples"
  BY <1>1, <1>3, <1>7, <1>8, ShownIs
<1>10. ASSUME NEW i \in G
       PROVE  /\ ~batch[i].responses.again /\ b[i].responses.again
              /\ b[i].responses.to = p /\ b[i] = [batch[i] EXCEPT !.responses = b[i].responses]
  <2>1. i \in 1..Samples
    BY <1>6
  <2>2. i > (p - 1) * setup.n
    <3> DEFINE lo == (p - 1) * setup.n
    <3>1. lo \in Int /\ Samples \in Nat
      BY <1>1, <1>2, JobIs, WorldHere DEF Job
    <3>2. i \in (lo + 1)..(p * setup.n)
      BY DEF G, GroupRows
    <3> HIDE DEF lo
    <3>3. i > lo
      BY <2>1, <3>1, <3>2
    <3> QED
      BY <3>3 DEF lo
  <2>3. ~batch[i].responses.again
    BY <1>3, <2>1, <2>2 DEF Fresh
  <2> QED
    BY <1>5, <1>6, <2>1, <2>3
<1>11. Implemented!OfPrompt(RowSet(batch), p) = {batch[i] : i \in G}
  BY <1>6 DEF Implemented!OfPrompt, RowSet
<1>12. RowSet(batch) \ RowSet(b) = {batch[i] : i \in G}
  <2>1. ASSUME NEW i \in G
        PROVE  batch[i] \in RowSet(batch) /\ batch[i] \notin RowSet(b)
    <3>1. batch[i] \in RowSet(batch)
      BY <1>6 DEF RowSet
    <3>2. ASSUME NEW j \in 1..Samples, b[j] = batch[i]
          PROVE  FALSE
      <4>1. b[j].prompt = batch[j].prompt /\ batch[i].prompt = p
        BY <1>5, <1>6
      <4>2. j \in G
        BY <1>6, <3>2, <4>1
      <4> QED
        BY <1>10, <3>2, <4>2
    <3> QED
      BY <3>1, <3>2 DEF RowSet
  <2>2. ASSUME NEW i \in 1..Samples, i \notin G
        PROVE  batch[i] \in RowSet(b)
    BY <1>5, <2>2 DEF RowSet
  <2> QED
    BY <2>1, <2>2 DEF RowSet
<1>13. Cardinality(Implemented!OfPrompt(RowSet(b), p)) = setup.n
  <2>1. \A i \in 1..Samples : b[i].prompt = ((i - 1) \div setup.n) + 1
    BY <1>4, <1>5
  <2> QED
    BY <1>1, <1>2, <1>5, <2>1, SamplesOfPrompt
<1>14. ASSUME NEW s \in RowSet(b) \ RowSet(batch)
       PROVE  /\ s.responses.to = p
              /\ \E old \in Implemented!OfPrompt(RowSet(batch), p) : s = [old EXCEPT !.responses = s.responses]
  <2>1. PICK i \in 1..Samples : s = b[i]
    BY DEF RowSet
  <2>2. i \in G
    BY <1>5, <2>1 DEF RowSet
  <2> QED
    BY <1>10, <1>11, <2>1, <2>2
<1>15. Replaced(RowSet(batch), RowSet(b), p)
  BY <1>11, <1>12, <1>13, <1>14 DEF Replaced
<1> QED
  BY <1>1, <1>2, <1>9, <1>15, AbstractReplace DEF b

\* Scoring and balancing give each sample the score of its own first answer.
LEMMA RateStep ==
  ASSUME FlowInv, RowsInv, Balance
  PROVE  Implemented!Rate
<1> DEFINE b == batch'
           K == KeysAt("compute_log_prob")
<1>1. phase = "balance" /\ setup' = setup /\ PathIs
  BY DEF FlowInv, Balance
<1>2. SampleRows(batch, SampleKeys) /\ Graded(rewards, batch)
  BY <1>1 DEF FlowInv, BatchIs, KeysAt, RowsInv, OwnIs, Sampled, Generated
<1>3. SampleRows(b, K) /\ \E idx : Rebalanced(idx, b)
  BY BalanceSends, BalancedRows
<1> HIDE DEF b
<1>4. /\ "input" \in SampleKeys /\ "advantages" \notin SampleKeys /\ "score" \notin SampleKeys
      /\ "input" \in K /\ "advantages" \notin K
  BY DEF SampleKeys, KeysAt, Generated, ColumnMethods, ReferenceKeys, ValueKeys
<1> HIDE DEF K
<1>5. /\ SamplesOf(b) = RowSet(b) /\ StageOf(b) = "samples"
      /\ SamplesOf(batch) = RowSet(batch) /\ StageOf(batch) = "samples"
  BY <1>1, <1>2, <1>3, <1>4, ShownIs
<1>6. \A s \in RowSet(batch) : "score" \notin DOMAIN s
  BY <1>2, <1>4 DEF SampleRows, RowSet
<1>7. PICK idx : Rebalanced(idx, b)
  BY <1>3
<1>8. ASSUME NEW i \in 1..Samples
      PROVE  /\ idx[i] \in 1..Samples
             /\ b[i] = With(batch[idx[i]], "score", Grade(batch[idx[i]].prompt, batch[idx[i]].input))
  <2>1. idx[i] \in 1..Samples /\ b[i] = With(batch[idx[i]], "score", rewards[idx[i]])
    BY <1>7 DEF Rebalanced, Permutes
  <2>2. rewards[idx[i]] = Grade(batch[idx[i]].prompt, batch[idx[i]].input)
    BY <1>2, <2>1 DEF Graded
  <2> QED
    BY <2>1, <2>2
<1>9. \A x \in 1..Samples : \E i \in 1..Samples : idx[i] = x
  BY <1>7 DEF Rebalanced, Permutes
<1>10. RowSet(b) = {With(s, "score", Grade(s.prompt, s.input)) : s \in RowSet(batch)}
  BY <1>8, <1>9 DEF RowSet
<1> QED
  BY <1>1, <1>5, <1>6, <1>10, AbstractRate DEF b

\* A critic that has answered had a limit that holds a row.
LEMMA AnsweredNotTight ==
  ASSUME FlowInv, phase = "compute_values", Answered
  PROVE  ~Tight
<1>1. PathIs /\ ~setup.validate
  BY InCall DEF ColumnMethods
<1>2. 0 \in Ranks
  BY <1>1, JobIs, WorldIs, ModeIn DEF Ranks, Job
<1>3. plan # <<>>
  BY <1>2 DEF FlowInv, CallIs, Answered, ColumnMethods
<1>4. setup.dynamic => MaxTokens >= Width(setup)
  BY <1>3 DEF FlowInv, CallIs, ColumnMethods
<1>5. MaxTokens = (setup.maxTokens * setup.sp * 3) \div 4
  BY DEF MaxTokens
<1>6. MaxTokens \in Int /\ Width(setup) \in Nat
  BY <1>1, MaxTokensIs, WidthIs
<1>7. Tight => MaxTokens < Width(setup) /\ setup.dynamic
  BY <1>5 DEF Tight
<1> QED
  BY <1>4, <1>6, <1>7

\* The union with a column gives each sample its own log probabilities or values.
LEMMA EvaluateStep ==
  ASSUME FlowInv, setup.critic /\ setup.dynamic => Tight, CollectColumn
  PROVE  Implemented!Evaluate
<1> DEFINE b == batch'
           K == KeysAt(phase)
           M == KeysAt(Following)
           key == KeyOf(phase)
<1>1. /\ phase \in ColumnMethods /\ Answered /\ setup' = setup
      /\ PathIs /\ ~setup.validate /\ SampleRows(batch, K)
  BY InCall DEF CollectColumn
<1>2. InOrderOf(key)
  <2>1. CASE phase = "compute_values"
    <3>1. setup.critic
      BY <1>1, <2>1 DEF PathIs
    <3>2. ~setup.dynamic
      BY <1>1, <2>1, <3>1, AnsweredNotTight
    <3> QED
      BY <3>2 DEF InOrderOf
  <2>2. CASE phase # "compute_values"
    BY <1>1, <2>2 DEF InOrderOf, KeyOf, ColumnMethods
  <2> QED
    BY <2>1, <2>2
<1>3. /\ SampleRows(b, M)
      /\ \A i \in 1..Samples : b[i] = With(batch[i], key, ValueOf(key, batch[i].input))
  BY <1>2, ColumnUnited
<1>4. key \in {"old_log_probs", "ref_log_prob", "values"}
  BY <1>1 DEF KeyOf, ColumnMethods
<1>5. "input" \in K /\ "score" \in K /\ "advantages" \notin K
  BY <1>1 DEF KeysAt, SampleKeys, Generated, ColumnMethods, ReferenceKeys, ValueKeys
<1>6. "input" \in M /\ "advantages" \notin M
  <2>1. Following \in {"compute_ref_log_prob", "compute_values", "advantages"}
    BY <1>1, FollowingIs
  <2> QED
    BY <1>1, <2>1 DEF KeysAt, SampleKeys, Generated, ColumnMethods, ReferenceKeys, ValueKeys
<1> HIDE DEF b, K, M, key
<1>7. /\ SamplesOf(b) = RowSet(b) /\ StageOf(b) = "samples"
      /\ SamplesOf(batch) = RowSet(batch) /\ StageOf(batch) = "samples"
  BY <1>1, <1>3, <1>5, <1>6, ShownIs
<1>8. \A s \in RowSet(batch) : "score" \in DOMAIN s
  BY <1>1, <1>5 DEF SampleRows, RowSet
<1>9. RowSet(b) = {With(s, key, ValueOf(key, s.input)) : s \in RowSet(batch)}
  BY <1>3 DEF RowSet
<1> QED
  BY <1>1, <1>4, <1>7, <1>8, <1>9, AbstractEvaluate DEF b

\* The rows counted and the samples counted.
LEMMA CountWhere ==
  ASSUME PathIs, NEW b, Own(b), NEW J, J \subseteq 1..Samples, NEW T, T \subseteq RowSet(b),
         \A j \in 1..Samples : j \in J <=> b[j] \in T
  PROVE  Cardinality(J) = Cardinality(T)
<1>1. T = RowsAt(b, J)
  BY DEF RowSet, RowsAt
<1> QED
  BY <1>1, CountRows

\* compute_advantage compares each sample with those of its prompt.
LEMMA CompareStep ==
  ASSUME FlowInv, RowsInv, ComputeAdvantage
  PROVE  Implemented!Compare
<1> DEFINE b == batch'
           K == KeysAt("advantages")
           M == KeysAt("update_actor")
<1>1. phase = "advantages" /\ setup' = setup /\ PathIs /\ SampleRows(batch, K) /\ ~setup.validate
  BY InCall DEF ComputeAdvantage
<1>2. Own(batch)
  BY <1>1 DEF RowsInv, OwnIs, Sampled
<1>3. /\ SampleRows(b, M)
      /\ \A i \in 1..Samples : b[i] = With(batch[i], "advantages", Advantage(batch, i))
  BY AdvantagesAdded
<1>4. "input" \in K /\ {"score", "old_log_probs"} \subseteq K /\ "advantages" \notin K
  BY <1>1 DEF KeysAt, SampleKeys, Generated, ColumnMethods, ReferenceKeys, ValueKeys
<1>5. "input" \in M /\ "advantages" \in M
  BY <1>1 DEF KeysAt, SampleKeys, Generated, ColumnMethods, UpdateMethods
<1> HIDE DEF b, K, M
<1>6. /\ SamplesOf(b) = RowSet(b) /\ StageOf(b) = "advantages"
      /\ SamplesOf(batch) = RowSet(batch) /\ StageOf(batch) = "samples"
  BY <1>1, <1>3, <1>4, <1>5, ShownIs
<1>7. \A s \in RowSet(batch) : {"score", "old_log_probs"} \subseteq DOMAIN s
  BY <1>1, <1>4 DEF SampleRows, RowSet
<1>8. ASSUME NEW i \in 1..Samples
      PROVE  b[i] = Compared(RowSet(batch), batch[i])
  <2> DEFINE S == RowSet(batch)
             p == batch[i].prompt
             J == {j \in 1..Samples : batch[j].prompt = p}
             J1 == {j \in J : batch[j].score = 1}
             A == {x \in S : x.prompt = p}
             A1 == {x \in S : x.prompt = p /\ x.score = 1}
  <2>1. Len(batch) = Samples
    BY <1>1, ListedIs DEF SampleRows
  <2>2. Advantage(batch, i) = [own |-> batch[i].score, group |-> [ones |-> Cardinality(J1), of |-> Cardinality(J)]]
    BY <2>1 DEF Advantage
  <2>3. Cardinality(J) = Cardinality(A)
    <3>1. J \subseteq 1..Samples /\ A \subseteq RowSet(batch) /\ \A j \in 1..Samples : j \in J <=> batch[j] \in A
      BY DEF RowSet
    <3> HIDE DEF J, A
    <3> QED
      BY <1>1, <1>2, <3>1, CountWhere
  <2>4. Cardinality(J1) = Cardinality(A1)
    <3>1. J1 \subseteq 1..Samples /\ A1 \subseteq RowSet(batch) /\ \A j \in 1..Samples : j \in J1 <=> batch[j] \in A1
      BY DEF RowSet
    <3> HIDE DEF J1, A1
    <3> QED
      BY <1>1, <1>2, <3>1, CountWhere
  <2>5. Compared(S, batch[i]) = With(batch[i], "advantages",
          [own |-> batch[i].score, group |-> [ones |-> Cardinality(A1), of |-> Cardinality(A)]])
    BY DEF Compared
  <2> HIDE DEF J, J1, A, A1
  <2> QED
    BY <1>3, <2>2, <2>3, <2>4, <2>5
<1>9. RowSet(b) = {Compared(RowSet(batch), s) : s \in RowSet(batch)}
  <2> DEFINE S == RowSet(batch)
  <2>1. \A i \in 1..Samples : b[i] = Compared(S, batch[i])
    BY <1>8
  <2>2. \A s \in S : \E i \in 1..Samples : s = batch[i]
    BY DEF RowSet
  <2>3. \A i \in 1..Samples : batch[i] \in S
    BY DEF RowSet
  <2> HIDE DEF S
  <2>4. {b[i] : i \in 1..Samples} = {Compared(S, s) : s \in S}
    BY <2>1, <2>2, <2>3
  <2> QED
    BY <2>4 DEF RowSet, S
<1> QED
  BY <1>1, <1>6, <1>7, <1>9, AbstractCompare DEF b

\* A step begins with its prompts.
LEMMA BeginStep ==
  ASSUME FlowInv, Begin
  PROVE  UNCHANGED Implemented!sampleVars
<1> DEFINE b == batch'
           p == setup.prompts
<1>1. phase = "begin" /\ setup' = setup /\ PathIs /\ batch = <<>>
  BY DEF FlowInv, Begin, BatchIs
<1>2. b = IF setup.validate THEN Tiled ELSE Prompts
  BY DEF Begin, Tiled
<1>3. p \in Nat \ {0} /\ Samples \in Nat \ {0}
  BY <1>1, JobIs, WorldHere DEF Job
<1> HIDE DEF b
<1>4. \E n \in Nat \ {0} : Columns(b, n, {"prompt"})
  <2>1. CASE setup.validate
    <3>1. Listed(b, Samples)
      BY <1>1, <1>2, <2>1, TiledIs
    <3>2. \A i \in 1..Samples : DOMAIN b[i] = {"prompt"}
      <4> TAKE i \in 1..Samples
      <4> DEFINE x == ((i - 1) % setup.prompts) + 1
      <4>1. b[i] = [prompt |-> x]
        BY <1>1, <1>2, <2>1, TiledIs
      <4> HIDE DEF x
      <4> QED
        BY <4>1
    <3> QED
      BY <1>3, <3>1, <3>2 DEF Columns
  <2>2. CASE ~setup.validate
    <3>1. b = [i \in 1..p |-> [prompt |-> i]]
      BY <1>2, <2>2 DEF Prompts
    <3> HIDE DEF p
    <3>2. b = [i \in 1..p |-> b[i]] /\ \A i \in 1..p : DOMAIN b[i] = {"prompt"}
      BY <3>1
    <3>3. Columns(b, p, {"prompt"})
      BY <1>3, <3>2 DEF Columns, Listed
    <3> QED
      BY <1>3, <3>3
  <2> QED
    BY <2>1, <2>2
<1>5. SamplesOf(b) = {} /\ StageOf(b) = "prompts"
  BY <1>4, NotShown
<1>6. SamplesOf(batch) = {} /\ StageOf(batch) = "prompts"
  BY <1>1 DEF SamplesOf, StageOf, Shows
<1> QED
  BY <1>1, <1>5, <1>6, AbstractStutter DEF b

\* At the start there are no samples.
LEMMA InitImplements == Init => Implemented!SInit
BY DEF Init, Implemented!SInit, Has

\* Every step of the code is one of the abstract specification or none.
LEMMA NextImplements ==
  ASSUME FlowInv, TogetherIs, RowsInv, Turns, setup.critic /\ setup.dynamic => Tight, [Next]_vars
  PROVE  [Implemented!SNext]_(Implemented!sampleVars)
<1>1. CASE Begin
  BY <1>1, BeginStep
<1>2. CASE CollectGeneration
  BY <1>2, GenerateStep DEF Implemented!SNext
<1>3. CASE WriteBack
  BY <1>3, ReplaceStep DEF Implemented!SNext
<1>4. CASE Balance
  BY <1>4, RateStep DEF Implemented!SNext
<1>5. CASE CollectColumn
  BY <1>5, EvaluateStep DEF Implemented!SNext
<1>6. CASE ComputeAdvantage
  BY <1>6, CompareStep DEF Implemented!SNext
<1>7. ASSUME setup' = setup, batch' = batch
      PROVE  UNCHANGED Implemented!sampleVars
  BY <1>7, AbstractStutter
<1>8. CASE Reward \/ NextGroup \/ CollectUpdate
  BY <1>7, <1>8 DEF Reward, NextGroup, CollectUpdate
<1>9. CASE Collective \/ Over \/ UNCHANGED vars
  BY <1>7, <1>9 DEF Collective, PlanMicroBatches, Forward, OptimizerStep, Over, vars
<1>10. CASE \E r \in Ranks : Rank(r)
  BY <1>7, <1>10 DEF Rank, GenerateSequences, Return
<1> QED
  BY <1>1, <1>2, <1>3, <1>4, <1>5, <1>6, <1>8, <1>9, <1>10 DEF Next, Driver

\* fit and _validate give each prompt its n samples, each sample the reward of its own
\* first answer, its own log probabilities and values, and an advantage among the
\* samples of its prompt (Implements, the refinement of SampleFlow), wherever the ranks
\* and the rows are sent, balanced, cut and put back.  The answers are collected in
\* order if no layout is data and pipeline parallel at once, and the critic does not put
\* its values out of order if it has micro-batches of one size: with token limits it
\* answers only where three quarters of the limit hold a row (CollectedInOrder and
\* ValuesMaskedOnResponse are violated by step_pipeline and step_values without that).
THEOREM FlowImplements ==
  ASSUME \A s \in Setups :
           /\ s.backend = "megatron" => OneAxis(s.layout)
           /\ s.critic /\ s.dynamic => (s.maxTokens * s.sp * 3) \div 4 < Width(s)
  PROVE  Spec => Implements
<1>1. Init => TogetherIs /\ RowsInv
  BY DEF Init, TogetherIs, RowsInv, OwnIs, Generated, Sampled, ColumnMethods, UpdateMethods
<1>2. FlowInv => Turns
  <2> SUFFICES ASSUME FlowInv
               PROVE  Turns
    OBVIOUS
  <2>1. setup \in Setups /\ setup.backend \in {"fsdp", "megatron"}
    BY JobIs DEF FlowInv, PathIs, Job
  <2>2. CASE setup.backend = "fsdp"
    BY <2>2 DEF Turns, InTurns, ModeOf
  <2>3. CASE setup.backend = "megatron"
    BY <2>1, <2>3 DEF Turns, InTurns
  <2> QED
    BY <2>1, <2>2, <2>3
<1>3. FlowInv => (setup.critic /\ setup.dynamic => Tight)
  BY DEF FlowInv, PathIs, Tight
<1>4. FlowInv /\ TogetherIs /\ RowsInv /\ [Next]_vars => TogetherIs' /\ RowsInv'
  BY <1>2, TogetherNext, RowsNext
<1>5. FlowInv /\ TogetherIs /\ RowsInv /\ [Next]_vars => [Implemented!SNext]_(Implemented!sampleVars)
  BY <1>2, <1>3, NextImplements
<1> QED
  BY <1>1, <1>4, <1>5, InitImplements, FlowInductive, PTL DEF Spec, Implements, Implemented!SSpec

-----------------------------------------------------------------------------
\* How often a row is in a sequence

Hits(s, v) == {t \in 1..Len(s) : s[t] = v}

\* They are a finite set of places.
LEMMA HitsAre ==
  ASSUME NEW S, NEW s \in Seq(S), NEW v
  PROVE  IsFiniteSet(Hits(s, v)) /\ Cardinality(Hits(s, v)) \in Nat
<1>1. Len(s) \in Nat
  OBVIOUS
<1>2. IsFiniteSet(1..Len(s))
  BY <1>1, FS_Interval
<1>3. Hits(s, v) \subseteq 1..Len(s)
  BY DEF Hits
<1>4. IsFiniteSet(Hits(s, v))
  BY <1>2, <1>3, FS_Subset
<1> QED
  BY <1>4, FS_CardinalityType

\* In a concatenation as often as in both parts.
LEMMA HitsConcat ==
  ASSUME NEW S, NEW a \in Seq(S), NEW b \in Seq(S), NEW v
  PROVE  Cardinality(Hits(a \o b, v)) = Cardinality(Hits(a, v)) + Cardinality(Hits(b, v))
<1> DEFINE A == Hits(a, v)
           B == Hits(b, v)
           n == Len(a)
           C == {n + t : t \in B}
           f == [t \in B |-> n + t]
           U == Hits(a \o b, v)
<1>1. n \in Nat /\ Len(b) \in Nat /\ Len(a \o b) = n + Len(b)
  OBVIOUS
<1>2. /\ \A t \in 1..n : (a \o b)[t] = a[t]
      /\ \A t \in 1..Len(b) : (a \o b)[n + t] = b[t]
  OBVIOUS
<1>3. IsFiniteSet(A) /\ IsFiniteSet(B) /\ Cardinality(A) \in Nat /\ Cardinality(B) \in Nat
  BY HitsAre
<1>4. B \subseteq 1..Len(b) /\ A \subseteq 1..n
  BY DEF Hits
<1>5. U = A \cup C
  <2>1. ASSUME NEW t \in 1..(n + Len(b)), t > n
        PROVE  t - n \in 1..Len(b) /\ t = n + (t - n)
    BY <1>1, <2>1
  <2>2. \A t \in 1..(n + Len(b)) : t \in 1..n \/ t > n
    BY <1>1
  <2>3. U \subseteq A \cup C
    <3> SUFFICES ASSUME NEW t \in U
                 PROVE  t \in A \cup C
      OBVIOUS
    <3>1. t \in 1..(n + Len(b)) /\ (a \o b)[t] = v
      BY <1>1 DEF Hits
    <3>2. CASE t \in 1..n
      BY <1>2, <3>1, <3>2 DEF Hits
    <3>3. CASE t > n
      <4> DEFINE x == t - n
      <4>1. x \in 1..Len(b) /\ t = n + x
        BY <2>1, <3>1, <3>3
      <4> HIDE DEF x
      <4>2. b[x] = v
        BY <1>2, <3>1, <4>1
      <4>3. x \in B
        BY <4>1, <4>2 DEF Hits
      <4> QED
        BY <4>1, <4>3
    <3> QED
      BY <2>2, <3>1, <3>2, <3>3
  <2>4. A \subseteq U
    BY <1>1, <1>2 DEF Hits
  <2>5. C \subseteq U
    <3> SUFFICES ASSUME NEW t \in B
                 PROVE  n + t \in U
      OBVIOUS
    <3>1. t \in 1..Len(b) /\ b[t] = v
      BY DEF Hits
    <3>2. n + t \in 1..Len(a \o b)
      BY <1>1, <3>1
    <3> QED
      BY <1>2, <3>1, <3>2 DEF Hits
  <2> QED
    BY <2>3, <2>4, <2>5
<1>6. A \cap C = {}
  BY <1>1, <1>4
<1>7. f \in Bijection(B, C)
  <2>1. f \in [B -> C] /\ \A x, y \in B : f[x] = f[y] => x = y
    BY <1>1, <1>4
  <2>2. \A z \in C : \E x \in B : f[x] = z
    OBVIOUS
  <2> HIDE DEF f
  <2> QED
    BY <2>1, <2>2 DEF Bijection, Injection, Surjection, IsInjective
<1>8. ExistsBijection(B, C)
  BY <1>7 DEF ExistsBijection
<1> HIDE DEF A, B, C, U
<1>9. IsFiniteSet(C) /\ Cardinality(C) = Cardinality(B)
  BY <1>3, <1>8, FS_Bijection
<1>10. Cardinality(A \cup C) = Cardinality(A) + Cardinality(C) - Cardinality(A \cap C)
  BY <1>3, <1>9, FS_Union
<1>11. Cardinality(A \cap C) = 0
  BY <1>6, FS_EmptySet
<1> QED
  BY <1>3, <1>5, <1>9, <1>10, <1>11 DEF A, B, U

\* u holds the n different rows of b, each of them e times, and nothing else.
EachTimes(u, b, n, e) ==
  /\ \A t \in 1..Len(u) : \E i \in 1..n : u[t] = b[i]
  /\ \A i, j \in 1..n : b[i] = b[j] => i = j
  /\ \A i \in 1..n : Cardinality(Hits(u, b[i])) = e

\* Then it is as long as that.
LEMMA HitsSum ==
  ASSUME NEW S, NEW u \in Seq(S), NEW n \in Nat, NEW e \in Nat, NEW b, EachTimes(u, b, n, e)
  PROVE  Len(u) = n * e
<1>0. /\ \A t \in 1..Len(u) : \E i \in 1..n : u[t] = b[i]
      /\ \A i, j \in 1..n : b[i] = b[j] => i = j
      /\ \A i \in 1..n : Cardinality(Hits(u, b[i])) = e
  BY DEF EachTimes
<1> DEFINE U(k) == {t \in 1..Len(u) : \E i \in 1..k : u[t] = b[i]}
           G == {k \in 0..n : IsFiniteSet(U(k)) /\ Cardinality(U(k)) = k * e}
<1>1. 0 \in G
  <2>1. U(0) = {}
    OBVIOUS
  <2>2. IsFiniteSet(U(0)) /\ Cardinality(U(0)) = 0
    BY <2>1, FS_EmptySet
  <2>3. 0 * e = 0 /\ 0 \in 0..n
    OBVIOUS
  <2> QED
    BY <2>2, <2>3
<1>2. ASSUME NEW k \in 0..(n - 1), k \in G
      PROVE  k + 1 \in G
  <2> DEFINE A == U(k)
             m == k + 1
             H == Hits(u, b[m])
  <2>1. m \in 1..n /\ m \in Nat /\ k \in Nat
    OBVIOUS
  <2>2. IsFiniteSet(A) /\ Cardinality(A) = k * e
    BY <1>2
  <2>3. IsFiniteSet(H) /\ Cardinality(H) = e
    BY <1>0, <2>1, HitsAre
  <2>4. U(m) = A \cup H
    <3>1. \A i \in 1..m : i \in 1..k \/ i = m
      BY <2>1
    <3>2. \A i \in 1..k : i \in 1..m
      BY <2>1
    <3>3. m \in 1..m
      BY <2>1
    <3> HIDE DEF m
    <3> QED
      BY <3>1, <3>2, <3>3 DEF Hits
  <2>5. A \cap H = {}
    <3> SUFFICES ASSUME NEW t \in 1..Len(u), NEW i \in 1..k, u[t] = b[i], u[t] = b[m]
                 PROVE  FALSE
      BY DEF Hits
    <3>1. i \in 1..n /\ i # m
      BY <2>1
    <3> QED
      BY <1>0, <2>1, <3>1
  <2> HIDE DEF A, H, m
  <2>6. IsFiniteSet(A \cup H) /\ Cardinality(A \cup H) = Cardinality(A) + Cardinality(H) - Cardinality(A \cap H)
    BY <2>2, <2>3, FS_Union
  <2>7. Cardinality(A \cap H) = 0
    BY <2>5, FS_EmptySet
  <2>8. k * e \in Nat /\ m * e = k * e + e
    BY DEF m
  <2>9. Cardinality(U(m)) = m * e
    <3> DEFINE ke == k * e
               me == m * e
    <3>1. Cardinality(A) = ke /\ ke \in Nat /\ me = ke + e
      BY <2>2, <2>8
    <3> HIDE DEF ke, me
    <3>2. Cardinality(A \cup H) = me
      BY <2>3, <2>6, <2>7, <3>1
    <3> QED
      BY <2>4, <3>2 DEF me
  <2>10. m \in 0..n
    BY <2>1
  <2> QED
    BY <2>4, <2>6, <2>9, <2>10 DEF m
<1> HIDE DEF G
<1>3. n \in G
  <2>1. \A i \in 0..(n - 1) : i \in G => i + 1 \in G
    BY <1>2
  <2>2. \A i \in 0..n : i \in G
    BY <1>1, <2>1, CountUp
  <2> QED
    BY <2>2
<1>4. U(n) = 1..Len(u)
  BY <1>0
<1>5. Cardinality(1..Len(u)) = n * e
  BY <1>3, <1>4 DEF G
<1>6. Cardinality(1..Len(u)) = Len(u)
  <2>1. Len(u) \in Nat /\ 1 \in Int
    OBVIOUS
  <2> DEFINE l == Len(u)
  <2> HIDE DEF l
  <2>2. l \in Nat
    BY <2>1 DEF l
  <2>3. Cardinality(1..l) = IF 1 > l THEN 0 ELSE l - 1 + 1
    BY <2>2, FS_Interval
  <2>4. Cardinality(1..l) = l
    BY <2>2, <2>3
  <2> QED
    BY <2>4 DEF l
<1> QED
  BY <1>5, <1>6

-----------------------------------------------------------------------------
\* Blocks of rows, gone through one after the other

\* How often block b of k blocks has been gone through after m of them, from 0.
Done(m, k, b) == (m \div k) + (IF m % k > b THEN 1 ELSE 0)

\* A mini-batch more is one more for the block it is.
LEMMA DoneIs ==
  ASSUME NEW k \in Nat \ {0}, NEW b \in 0..(k - 1), NEW m \in Nat
  PROVE  /\ Done(m, k, b) \in Nat
         /\ Done(m + 1, k, b) = Done(m, k, b) + (IF m % k = b THEN 1 ELSE 0)
<1> DEFINE q == m \div k
           x == m % k
           p == q + 1
           y == x + 1
           z == 0
<1>1. q \in Nat /\ x \in 0..(k - 1) /\ m = k * q + x
  OBVIOUS
<1>2. m = q * k + x /\ (q + 1) * k = q * k + k
  BY <1>1
<1> HIDE DEF q, x
<1>3. CASE x = k - 1
  <2>1. p \in Nat /\ z \in Nat /\ z < k
    BY <1>1
  <2>2. m + 1 = p * k + z
    <3> DEFINE qk == q * k
    <3>1. qk \in Nat /\ m = qk + x /\ p * k = qk + k
      BY <1>1, <1>2
    <3> HIDE DEF qk, p
    <3> QED
      BY <1>3, <3>1
  <2> HIDE DEF p, z
  <2>3. (p * k + z) \div k = p /\ (p * k + z) % k = z
    BY <2>1, DivModUnique
  <2>4. (m + 1) \div k = p /\ (m + 1) % k = 0
    BY <2>2, <2>3 DEF z
  <2> QED
    BY <1>1, <1>3, <2>4 DEF Done, p, q, x
<1>4. CASE x # k - 1
  <2>1. y \in Nat /\ y < k
    BY <1>1, <1>4
  <2>2. m + 1 = q * k + y
    <3> DEFINE qk == q * k
    <3>1. qk \in Nat /\ m = qk + x
      BY <1>1, <1>2
    <3> HIDE DEF qk
    <3> QED
      BY <1>1, <3>1
  <2> HIDE DEF y
  <2>3. (q * k + y) \div k = q /\ (q * k + y) % k = y
    BY <1>1, <2>1, DivModUnique
  <2>4. (m + 1) \div k = q /\ (m + 1) % k = y
    BY <2>2, <2>3
  <2> QED
    BY <1>1, <2>4 DEF Done, q, x, y
<1> QED
  BY <1>3, <1>4

\* After e rounds every block has been gone through e times.
LEMMA DoneEnds ==
  ASSUME NEW k \in Nat \ {0}, NEW b \in 0..(k - 1), NEW e \in Nat
  PROVE  Done(0, k, b) = 0 /\ Done(e * k, k, b) = e
<1>1. (e * k) % k = 0 /\ (e * k) \div k = e
  BY MultipleDivides
<1>2. 0 \div k = 0 /\ 0 % k = 0
  OBVIOUS
<1> DEFINE m == e * k
<1>3. m % k = 0 /\ m \div k = e
  BY <1>1
<1> HIDE DEF m
<1>4. Done(m, k, b) = e
  BY <1>3 DEF Done
<1> QED
  BY <1>2, <1>4 DEF Done, m

\* The block that a position is in, and the positions of a block.
LEMMA BlockOf ==
  ASSUME NEW n \in Nat \ {0}, NEW size \in Nat \ {0}
  PROVE  /\ \A y \in 1..n : /\ (y - 1) \div size \in 0..(CeilDiv(n, size) - 1)
                            /\ y - ((y - 1) \div size) * size \in 1..BlockLen(n, size, ((y - 1) \div size) + 1)
         /\ \A c \in 1..CeilDiv(n, size) : \A j \in 1..BlockLen(n, size, c) :
              (c - 1) * size + j \in 1..n /\ ((c - 1) * size + j - 1) \div size = c - 1
<1> DEFINE k == CeilDiv(n, size)
<1>1. k \in Nat /\ n <= k * size /\ k > 0
  BY CeilDivIs
<1> HIDE DEF k
<1>2. ASSUME NEW y \in 1..n
      PROVE  /\ (y - 1) \div size \in 0..(k - 1)
             /\ y - ((y - 1) \div size) * size \in 1..BlockLen(n, size, ((y - 1) \div size) + 1)
  <2> DEFINE z == y - 1
             b == z \div size
             bs == b * size
             ks == k * size
  <2>1. z \in Nat /\ y = z + 1 /\ ks \in Nat /\ z < ks
    BY <1>1
  <2>2. z < k * size
    BY <2>1
  <2> HIDE DEF z, ks
  <2>3. b \in Nat /\ b < k /\ z % size \in Nat /\ z % size < size /\ z = b * size + (z % size)
    BY <1>1, <2>1, <2>2, DivBelow
  <2> DEFINE c == b + 1
  <2>4. c \in 1..k /\ c - 1 = b
    BY <1>1, <2>3
  <2> HIDE DEF b
  <2>5. /\ BlockLen(n, size, c) \in Nat \ {0} /\ (c - 1) * size \in Nat /\ c * size \in Nat
        /\ (c - 1) * size + BlockLen(n, size, c) = IF c * size < n THEN c * size ELSE n
        /\ (c - 1) * size + size = c * size
    BY <2>4, BlockLenIs DEF k
  <2> DEFINE L == BlockLen(n, size, c)
             cs == c * size
  <2>6. bs \in Nat /\ L \in Nat /\ bs + L = (IF cs < n THEN cs ELSE n) /\ bs + size = cs /\ z = bs + (z % size)
    BY <2>3, <2>4, <2>5
  <2> HIDE DEF L, bs, cs, c
  <2>7. y - bs \in 1..L
    BY <2>1, <2>3, <2>6
  <2>8. b \in 0..(k - 1)
    BY <1>1, <2>3
  <2> QED
    BY <2>7, <2>8 DEF b, bs, c, L, z
<1>3. ASSUME NEW c \in 1..k, NEW j \in 1..BlockLen(n, size, c)
      PROVE  (c - 1) * size + j \in 1..n /\ ((c - 1) * size + j - 1) \div size = c - 1
  <2> DEFINE b == c - 1
             bs == b * size
             cs == c * size
             L == BlockLen(n, size, c)
  <2>1. /\ L \in Nat \ {0} /\ bs \in Nat /\ cs \in Nat /\ bs + L = (IF cs < n THEN cs ELSE n) /\ bs + size = cs
    BY BlockLenIs DEF k
  <2>2. b \in Nat /\ j \in 1..L
    BY <1>1
  <2> HIDE DEF b, L, cs
  <2> DEFINE w == j - 1
  <2>3. w \in Nat /\ w < size /\ j = w + 1 /\ bs + j \in 1..n
    <3> HIDE DEF bs
    <3> QED
      BY <2>1, <2>2
  <2> HIDE DEF w
  <2>4. (b * size + w) \div size = b
    BY <2>2, <2>3, DivModUnique
  <2>5. bs + j - 1 = b * size + w
    <3>1. bs + j - 1 = bs + w
      <4> HIDE DEF bs
      <4> QED
        BY <2>1, <2>3
    <3> QED
      BY <3>1
  <2> QED
    BY <2>3, <2>4, <2>5 DEF b
<1> QED
  BY <1>2, <1>3 DEF k

-----------------------------------------------------------------------------
\* Every sample is a row of one of the ranks that count

\* The sizes that an update works with are positive.
LEMMA RowsHere ==
  ASSUME PathIs, ~setup.validate
  PROVE  Share \in Nat \ {0} /\ Rows \in Nat \ {0} /\ Blocks \in Nat \ {0}
<1> DEFINE k == NumChunks(ModeHere, setup.layout)
           x == Share
<1>1. x \in Nat /\ k * x = Samples /\ k \in Nat \ {0} /\ Samples \in Nat \ {0}
  BY ShareIs, WorldHere
<1> HIDE DEF k, x
<1>2. x # 0
  BY <1>1
<1>3. setup.sp \in Nat \ {0} /\ setup.miniSize \in Nat \ {0}
  BY JobIs DEF Job
<1>4. Rows \in Nat \ {0}
  <2>1. Rows = setup.sp * x
    BY DEF Rows, x
  <2> QED
    BY <1>1, <1>2, <1>3, <2>1, ProductPos
<1>5. Blocks \in Nat /\ Blocks > 0
  <2> DEFINE n == Rows
             size == setup.miniSize
  <2>1. n \in Nat /\ n > 0 /\ size \in Nat \ {0} /\ Blocks = CeilDiv(n, size)
    BY <1>3, <1>4 DEF Blocks
  <2> HIDE DEF n, size
  <2> QED
    BY <2>1, CeilDivIs
<1> QED
  BY <1>1, <1>2, <1>4, <1>5 DEF x

\* The rank whose chunk is the c-th that r works on.
Giver(r, c) == r - (r % setup.sp) + c - 1
ChunkAt(r, c) == ChunkOf(ModeHere, setup.layout, Giver(r, c))

\* With FSDP the chunks are those of the Ulysses groups, each at the first rank of
\* one.
LEMMA FsdpChunks ==
  ASSUME PathIs, setup.backend = "fsdp"
  PROVE  /\ \A e \in 0..(NumChunks(ModeHere, setup.layout) - 1) : \E r \in Ranks : \E c \in 1..setup.sp :
              DataParallel(r) /\ ChunkAt(r, c) = e
         /\ \A q, r \in Ranks : \A b, c \in 1..setup.sp :
              DataParallel(q) /\ DataParallel(r) /\ ChunkAt(q, b) = ChunkAt(r, c) => q = r /\ b = c
<1> DEFINE s == setup.sp
           W == World
<1>1. s \in Nat \ {0} /\ W \in Nat \ {0} /\ Ranks = 0..(W - 1)
  BY JobIs, WorldHere DEF Job, World, Ranks, RanksOf
<1>2. NumChunks(ModeHere, setup.layout) = W
  BY DEF NumChunks, ModeHere, ModeOf, World
<1>3. \A r, c : ChunkAt(r, c) = r - (r % s) + c - 1
  BY DEF ChunkAt, ChunkOf, ModeHere, ModeOf, Giver
<1>4. \A r : DataParallel(r) <=> r % s = 0
  BY DEF DataParallel
<1> HIDE DEF s, W
<1>5. ASSUME NEW e \in 0..(W - 1)
      PROVE  \E r \in Ranks : \E c \in 1..s : DataParallel(r) /\ ChunkAt(r, c) = e
  <2> DEFINE a == e \div s
             x == e % s
             r == a * s
             c == x + 1
  <2>1. e \in Nat /\ a \in Nat /\ x \in 0..(s - 1) /\ r \in Nat /\ e = r + x
    BY <1>1
  <2> HIDE DEF a, x
  <2>2. r % s = 0
    BY <1>1, <2>1, MultipleDivides
  <2> HIDE DEF r
  <2>3. r \in Ranks /\ c \in 1..s /\ r - 0 + c - 1 = e
    BY <1>1, <2>1
  <2> HIDE DEF c
  <2> QED
    BY <1>3, <1>4, <2>2, <2>3
<1>6. ASSUME NEW q \in Ranks, NEW r \in Ranks, NEW b \in 1..s, NEW c \in 1..s,
             DataParallel(q), DataParallel(r), ChunkAt(q, b) = ChunkAt(r, c)
      PROVE  q = r /\ b = c
  <2> DEFINE i == q \div s
             j == r \div s
             x == b - 1
             y == c - 1
             is == i * s
             js == j * s
  <2>1. q \in Nat /\ r \in Nat /\ q % s = 0 /\ r % s = 0
    BY <1>1, <1>4, <1>6
  <2>2. i \in Nat /\ j \in Nat /\ q = is /\ r = js /\ is \in Nat /\ js \in Nat
    BY <1>1, <2>1
  <2>3. q - 0 + b - 1 = r - 0 + c - 1
    BY <1>3, <1>6, <2>1
  <2> HIDE DEF i, j
  <2>4. x \in Nat /\ y \in Nat /\ x < s /\ y < s /\ is + x = js + y
    <3> HIDE DEF is, js
    <3> QED
      BY <1>1, <2>1, <2>2, <2>3
  <2> HIDE DEF x, y
  <2>5. (i * s + x) \div s = i /\ (i * s + x) % s = x
    BY <1>1, <2>2, <2>4, DivModUnique
  <2>6. (j * s + y) \div s = j /\ (j * s + y) % s = y
    BY <1>1, <2>2, <2>4, DivModUnique
  <2>7. i = j /\ x = y
    BY <2>4, <2>5, <2>6
  <2> QED
    BY <1>1, <2>2, <2>7 DEF x, y
<1> QED
  BY <1>2, <1>5, <1>6 DEF s

\* With Megatron they are those of the ranks that return, one chunk each.
LEMMA MegatronChunks ==
  ASSUME PathIs, setup.backend = "megatron", phase \in UpdateMethods
  PROVE  /\ \A e \in 0..(NumChunks(ModeHere, setup.layout) - 1) : \E r \in Ranks : \E c \in 1..setup.sp :
              DataParallel(r) /\ ChunkAt(r, c) = e
         /\ \A q, r \in Ranks : \A b, c \in 1..setup.sp :
              DataParallel(q) /\ DataParallel(r) /\ ChunkAt(q, b) = ChunkAt(r, c) => q = r /\ b = c
<1> DEFINE L == setup.layout
           mode == ModeHere
           k == NumChunks(mode, L)
<1>1. setup.sp = 1 /\ L \in Layouts
  BY JobIs DEF Job
<1>2. mode = "MEGATRON_COMPUTE_PROTO" /\ mode \in Modes
  BY DEF ModeHere, ModeOf, UpdateMethods, Modes
<1>3. \A r \in Ranks : r \in Nat
  BY DEF Ranks, RanksOf
<1>4. \A r \in Ranks : DataParallel(r) <=> r \in Collecting(mode, L)
  BY <1>2 DEF DataParallel, Collecting, Ranks
<1>5. \A r \in Ranks : ChunkAt(r, 1) = ChunkOf(mode, L, r)
  <2> TAKE r \in Ranks
  <2>1. r - (r % 1) + 1 - 1 = r
    BY <1>3
  <2> QED
    BY <1>1, <2>1 DEF ChunkAt, Giver
<1> DEFINE F(i) == CollectedRank(mode, L, i)
<1>6. /\ \A i \in 1..k : F(i) \in RanksOf(L)
      /\ \A i \in 1..k : F(i) \in Collecting(mode, L)
      /\ \A r \in Collecting(mode, L) : \E i \in 1..k : F(i) = r
      /\ InTurns(mode, L) => \A i \in 1..k : ChunkOf(mode, L, F(i)) = i - 1
  BY <1>1, <1>2, CollectedAre
<1>7. \A i \in 1..k : ChunkOf(mode, L, F(i)) = i - 1
  BY <1>2, <1>6 DEF InTurns
<1>8. k \in Nat \ {0}
  BY <1>1, <1>2, WorldIs
<1>9. Ranks = RanksOf(L)
  BY DEF Ranks
<1> HIDE DEF F, k, mode, L
<1>10. ASSUME NEW e \in 0..(k - 1)
       PROVE  \E r \in Ranks : DataParallel(r) /\ ChunkAt(r, 1) = e
  <2> DEFINE i == e + 1
  <2>1. i \in 1..k /\ i - 1 = e
    BY <1>8
  <2> HIDE DEF i
  <2>2. F(i) \in Ranks /\ F(i) \in Collecting(mode, L) /\ ChunkOf(mode, L, F(i)) = e
    BY <1>6, <1>7, <1>9, <2>1
  <2> QED
    BY <1>4, <1>5, <2>2
<1>11. ASSUME NEW q \in Ranks, NEW r \in Ranks, DataParallel(q), DataParallel(r), ChunkAt(q, 1) = ChunkAt(r, 1)
       PROVE  q = r
  <2>1. PICK i \in 1..k : F(i) = q
    BY <1>4, <1>6, <1>11
  <2>2. PICK j \in 1..k : F(j) = r
    BY <1>4, <1>6, <1>11
  <2>3. i - 1 = j - 1
    BY <1>5, <1>7, <1>11, <2>1, <2>2
  <2> QED
    BY <1>8, <2>1, <2>2, <2>3
<1>12. \A c \in 1..setup.sp : c = 1
  BY <1>1
<1>13. 1 \in 1..setup.sp
  BY <1>1
<1> QED
  BY <1>10, <1>11, <1>12, <1>13 DEF k, mode, L

\* A place is one in a block.
InPlace(i, k, size) == \E c \in 1..k : \E x \in 1..size : i = (c - 1) * size + x
\* Every position is one.
LEMMA PlaceOf ==
  ASSUME NEW k \in Nat \ {0}, NEW size \in Nat, NEW i \in 1..(k * size)
  PROVE  InPlace(i, k, size)
<1>1. \E c \in 1..k : \E x \in 1..size : /\ i = (c - 1) * size + x
                                         /\ (i - 1) \div size = c - 1 /\ (i - 1) % size = x - 1
  BY PlaceIs
<1> QED
  BY <1>1 DEF InPlace

\* The sample at a position of what a rank works on.
RowAt(r, y) == DataOf(r)[y]

\* Every sample is at one of the positions of the ranks that count, and at one only.
RowsSpread ==
  /\ \A i \in 1..Samples : \E r \in Ranks : \E y \in 1..Rows : DataParallel(r) /\ RowAt(r, y) = batch[i]
  /\ \A r \in Ranks : \A y \in 1..Rows : RowAt(r, y) \in RowSet(batch)
  /\ \A q, r \in Ranks : \A x, y \in 1..Rows :
       DataParallel(q) /\ DataParallel(r) /\ RowAt(q, x) = RowAt(r, y) => q = r /\ x = y

\* The dispatch spreads the samples so.
LEMMA SpreadIs ==
  ASSUME FlowInv, OwnIs, phase \in UpdateMethods
  PROVE  RowsSpread
<1> DEFINE L == setup.layout
           mode == ModeHere
           k == NumChunks(mode, L)
           s == setup.sp
           n == Share
<1>1. InCalls /\ PathIs /\ ~setup.validate /\ Own(batch)
  BY InCall DEF InCalls, OwnIs, Sampled
<1>2. s \in Nat \ {0} /\ n \in Nat \ {0} /\ k \in Nat \ {0} /\ k * n = Samples /\ Rows = s * n
  BY <1>1, JobIs, RowsHere, ShareIs DEF Job, Rows
<1>3. /\ \A e \in 0..(k - 1) : \E r \in Ranks : \E c \in 1..s : DataParallel(r) /\ ChunkAt(r, c) = e
      /\ \A q, r \in Ranks : \A b, c \in 1..s :
           DataParallel(q) /\ DataParallel(r) /\ ChunkAt(q, b) = ChunkAt(r, c) => q = r /\ b = c
  <2>1. setup.backend \in {"fsdp", "megatron"}
    BY <1>1, JobIs DEF Job
  <2> QED
    BY <1>1, <2>1, FsdpChunks, MegatronChunks
<1>4. \A r \in Ranks : \A c \in 1..s : \A x \in 1..n :
        /\ ChunkAt(r, c) * n + x \in 1..Samples
        /\ RowAt(r, (c - 1) * n + x) = batch[ChunkAt(r, c) * n + x]
        /\ ChunkAt(r, c) \in 0..(k - 1)
  <2> TAKE r \in Ranks
  <2> TAKE c \in 1..s
  <2> TAKE x \in 1..n
  <2> DEFINE g == Giver(r, c)
  <2>1. g \in Ranks /\ RowAt(r, (c - 1) * n + x) = sent[g][x]
    BY <1>1, DataIs DEF RowAt, Giver
  <2>2. Dispatched(sent, mode, L, batch, n)
    BY <1>1, CallSent
  <2> HIDE DEF g
  <2>3. /\ ChunkOf(mode, L, g) * n + x \in 1..(k * n)
        /\ sent[g][x] = batch[ChunkOf(mode, L, g) * n + x]
    BY <2>1, <2>2 DEF Dispatched, Ranks
  <2>4. ChunkAt(r, c) = ChunkOf(mode, L, g)
    BY DEF ChunkAt, g
  <2>5. ChunkOf(mode, L, g) \in 0..(k - 1)
    BY <1>1, <2>1, ChunkIn, ShareIs DEF Ranks
  <2> QED
    BY <1>2, <2>1, <2>3, <2>4, <2>5
<1> HIDE DEF L, mode, k, s, n
<1>5. ASSUME NEW i \in 1..Samples
      PROVE  \E r \in Ranks : \E y \in 1..Rows : DataParallel(r) /\ RowAt(r, y) = batch[i]
  <2>1. i \in 1..(k * n)
    BY <1>2
  <2>a. InPlace(i, k, n)
    BY <1>2, <2>1, PlaceOf
  <2>2. PICK e \in 1..k, x \in 1..n : i = (e - 1) * n + x
    BY <2>a DEF InPlace
  <2> DEFINE d == e - 1
  <2>3. d \in 0..(k - 1) /\ i = d * n + x
    BY <1>2, <2>2
  <2> HIDE DEF d
  <2>4. PICK r \in Ranks, c \in 1..s : DataParallel(r) /\ ChunkAt(r, c) = d
    BY <1>3, <2>3
  <2> DEFINE y == (c - 1) * n + x
  <2>5. y \in 1..Rows
    BY <1>2, PlaceIn
  <2>6. RowAt(r, y) = batch[i]
    BY <1>4, <2>3, <2>4
  <2> HIDE DEF y
  <2> QED
    BY <2>4, <2>5, <2>6
<1>6. ASSUME NEW r \in Ranks, NEW y \in 1..Rows
      PROVE  \E c \in 1..s : \E x \in 1..n : y = (c - 1) * n + x
  <2>1. y \in 1..(s * n)
    BY <1>2
  <2>2. InPlace(y, s, n)
    BY <1>2, <2>1, PlaceOf
  <2> QED
    BY <2>2 DEF InPlace
<1>7. ASSUME NEW r \in Ranks, NEW y \in 1..Rows
      PROVE  RowAt(r, y) \in RowSet(batch)
  <2>1. PICK c \in 1..s, x \in 1..n : y = (c - 1) * n + x
    BY <1>6
  <2> DEFINE i == ChunkAt(r, c) * n + x
  <2>2. i \in 1..Samples /\ RowAt(r, y) = batch[i]
    BY <1>4, <2>1
  <2> HIDE DEF i
  <2> QED
    BY <2>2 DEF RowSet
<1>8. ASSUME NEW q \in Ranks, NEW r \in Ranks, NEW x \in 1..Rows, NEW y \in 1..Rows,
             DataParallel(q), DataParallel(r), RowAt(q, x) = RowAt(r, y)
      PROVE  q = r /\ x = y
  <2>1. PICK b \in 1..s, v \in 1..n : x = (b - 1) * n + v
    BY <1>6
  <2>2. PICK c \in 1..s, w \in 1..n : y = (c - 1) * n + w
    BY <1>6
  <2> DEFINE i == ChunkAt(q, b)
             j == ChunkAt(r, c)
             e == i + 1
             f == j + 1
  <2>3. i * n + v = j * n + w
    <3> DEFINE iv == i * n + v
               jw == j * n + w
    <3>1. iv \in 1..Samples /\ jw \in 1..Samples /\ batch[iv] = batch[jw]
      BY <1>4, <1>8, <2>1, <2>2
    <3> HIDE DEF iv, jw
    <3>2. iv = jw
      BY <1>1, <3>1 DEF Own
    <3> QED
      BY <3>2 DEF iv, jw
  <2>4. i \in 0..(k - 1) /\ j \in 0..(k - 1)
    BY <1>4
  <2>5. i = j => q = r /\ b = c
    BY <1>3, <1>8
  <2> HIDE DEF i, j
  <2>6. e \in 1..k /\ f \in 1..k /\ e - 1 = i /\ f - 1 = j
    BY <1>2, <2>4
  <2> HIDE DEF e, f
  <2> DEFINE g == (e - 1) * n + v
             h == (f - 1) * n + w
  <2>7. (g - 1) \div n = e - 1 /\ (g - 1) % n = v - 1
    BY <1>2, <2>6, PlaceIn
  <2>8. (h - 1) \div n = f - 1 /\ (h - 1) % n = w - 1
    BY <1>2, <2>6, PlaceIn
  <2>11. g = h
    BY <2>3, <2>6
  <2> HIDE DEF g, h
  <2>9. i = j /\ v - 1 = w - 1
    BY <2>6, <2>7, <2>8, <2>11
  <2>10. v = w
    BY <1>2, <2>9
  <2> QED
    BY <2>1, <2>2, <2>5, <2>9, <2>10
<1> QED
  BY <1>5, <1>7, <1>8 DEF RowsSpread

-----------------------------------------------------------------------------
\* The micro-batches hold each row of a mini-batch once

\* The blocks of a split put every position into one of them.
LEMMA SplitParts ==
  ASSUME NEW n \in Nat \ {0}, NEW size \in Nat \ {0}, NEW rows, rows = [i \in 1..n |-> i]
  PROVE  Partition(Split(rows, size), n, Len(Split(rows, size)))
<1> DEFINE d == Split(rows, size)
           k == CeilDiv(n, size)
<1>1. Listed(rows, n)
  BY DEF Listed
<1>2. Splitted(d, rows, n, size, k)
  BY <1>1, SplitIs
<1>3. k \in Nat
  BY CeilDivIs
<1>4. /\ \A y \in 1..n : /\ (y - 1) \div size \in 0..(k - 1)
                         /\ y - ((y - 1) \div size) * size \in 1..BlockLen(n, size, ((y - 1) \div size) + 1)
      /\ \A c \in 1..k : \A j \in 1..BlockLen(n, size, c) :
           (c - 1) * size + j \in 1..n /\ ((c - 1) * size + j - 1) \div size = c - 1
  BY BlockOf
<1> HIDE DEF d, k
<1>5. Listed(d, k) /\ Len(d) = k /\ DOMAIN d = 1..k
  BY <1>2, ListedIs DEF Splitted
<1>6. \A c \in 1..k : /\ Listed(d[c], BlockLen(n, size, c)) /\ Len(d[c]) = BlockLen(n, size, c)
                      /\ \A j \in 1..Len(d[c]) : d[c][j] = (c - 1) * size + j
  <2> TAKE c \in 1..k
  <2> DEFINE L == BlockLen(n, size, c)
  <2>1. Listed(d[c], L) /\ \A j \in 1..L : (c - 1) * size + j \in 1..n /\ d[c][j] = rows[(c - 1) * size + j]
    BY <1>2 DEF Splitted
  <2> HIDE DEF L
  <2>2. Len(d[c]) = L
    BY <2>1, ListedIs
  <2>3. \A i \in 1..n : rows[i] = i
    OBVIOUS
  <2>4. \A j \in 1..L : d[c][j] = (c - 1) * size + j
    BY <2>1, <2>3
  <2> QED
    BY <2>1, <2>2, <2>4 DEF L
<1>7. \A c \in 1..k : d[c] \in Seq(1..n)
  <2> TAKE c \in 1..k
  <2> DEFINE L == BlockLen(n, size, c)
  <2>1. L \in Nat /\ d[c] = [j \in 1..L |-> d[c][j]]
    BY <1>6 DEF Listed
  <2>2. \A j \in 1..L : d[c][j] \in 1..n
    BY <1>4, <1>6
  <2> HIDE DEF L
  <2> QED
    BY <2>1, <2>2
<1>8. d \in Seq(Seq(1..n))
  <2>1. k \in Nat /\ d = [c \in 1..k |-> d[c]]
    BY <1>5 DEF Listed
  <2> QED
    BY <1>7, <2>1
<1>9. \A x \in 1..n : \E i \in 1..k : \E j \in 1..Len(d[i]) : d[i][j] = x
  <2> TAKE x \in 1..n
  <2> DEFINE q == (x - 1) \div size
             b == q * size
             j == x - b
             c == q + 1
  <2>1. q \in 0..(k - 1) /\ j \in 1..BlockLen(n, size, c)
    BY <1>4
  <2>2. b \in Nat
    <3>1. q \in Nat
      BY <2>1
    <3> HIDE DEF q
    <3> QED
      BY <3>1
  <2> HIDE DEF q
  <2>3. c \in 1..k /\ c - 1 = q
    BY <1>3, <2>1
  <2>4. b + j = x
    <3> HIDE DEF b
    <3> QED
      BY <2>2
  <2>5. d[c][j] = (c - 1) * size + j /\ j \in 1..Len(d[c])
    BY <1>6, <2>1, <2>3
  <2>6. d[c][j] = b + j
    BY <2>3, <2>5
  <2> HIDE DEF b, c, j
  <2> QED
    BY <2>3, <2>4, <2>5, <2>6
<1>10. ASSUME NEW i \in 1..k, NEW h \in 1..k, NEW j \in 1..Len(d[i]), NEW l \in 1..Len(d[h]), d[i][j] = d[h][l]
       PROVE  i = h /\ j = l
  <2> DEFINE x == d[i][j]
  <2>1. x = (i - 1) * size + j /\ x = (h - 1) * size + l
    BY <1>6, <1>10
  <2>a. \A c \in 1..k : \A m \in 1..Len(d[c]) : \A z : z = (c - 1) * size + m => (z - 1) \div size = c - 1
    <3> TAKE c \in 1..k
    <3> TAKE m \in 1..Len(d[c])
    <3> DEFINE y == (c - 1) * size + m
    <3>a. m \in 1..BlockLen(n, size, c)
      BY <1>6
    <3>1. (y - 1) \div size = c - 1
      BY <1>4, <3>a
    <3> HIDE DEF y
    <3>2. \A z : z = y => (z - 1) \div size = c - 1
      BY <3>1
    <3> QED
      BY <3>2 DEF y
  <2>2. (x - 1) \div size = i - 1 /\ (x - 1) \div size = h - 1
    <3> HIDE DEF x
    <3>1. (x - 1) \div size = i - 1
      BY <2>1, <2>a
    <3>2. (x - 1) \div size = h - 1
      BY <2>1, <2>a
    <3> QED
      BY <3>1, <3>2
  <2> HIDE DEF x
  <2>3. i = h
    BY <1>3, <2>2
  <2> DEFINE b == (i - 1) * size
  <2>4. b \in Int /\ x = b + j /\ x = b + l
    BY <1>3, <2>1, <2>3
  <2> HIDE DEF b
  <2>5. j \in Int /\ l \in Int
    OBVIOUS
  <2> QED
    BY <2>3, <2>4, <2>5
<1>11. Partition(d, n, k)
  BY <1>5, <1>8, <1>9, <1>10 DEF Partition
<1> QED
  BY <1>5, <1>11 DEF d

\* The micro-batches of a rank in an update.
LEMMA PlanParts ==
  ASSUME FlowInv, phase \in UpdateMethods, plan # <<>>, NEW r \in Ranks
  PROVE  Partition(plan[r], MiniLen, Len(plan[r]))
<1> DEFINE n == MiniLen
           b == MiniBatch(r)
<1>1. InCalls /\ MinisLeft /\ (setup.dynamic => MaxTokens >= Width(setup)) /\ plan = Planned
  BY DEF FlowInv, CallIs, InCalls
<1>2. plan[r] = MicroBatches(r)
  BY <1>1 DEF Planned
<1>3. n \in Nat \ {0} /\ Len(b) = n
  BY <1>1, MiniBlock, ListedIs
<1> HIDE DEF n
<1>4. CASE setup.dynamic
  <2>a. \E m \in Nat \ {0} : \E k \in 1..m : \E lens \in Seq(Nat) :
          Len(lens) = m /\ RowsOf(b, m) /\ lens = Lens(b) /\ k = NumMicroBatches(r)
    BY <1>1, <1>4, Rearranges
  <2>1. PICK m \in Nat \ {0} : \E k \in 1..m : \E lens \in Seq(Nat) :
          Len(lens) = m /\ RowsOf(b, m) /\ lens = Lens(b) /\ k = NumMicroBatches(r)
    BY <2>a
  <2>2. PICK k \in 1..m, lens \in Seq(Nat) :
          Len(lens) = m /\ RowsOf(b, m) /\ lens = Lens(b) /\ k = NumMicroBatches(r)
    BY <2>1
  <2> DEFINE parts == BalancedPartitions(lens, k, FALSE)
  <2>3. plan[r] = parts
    BY <1>2, <1>4, <2>2 DEF MicroBatches
  <2>4. Partition(parts, m, k)
    BY <2>2, BalancedAre
  <2> HIDE DEF parts
  <2>5. m = n
    BY <1>3, <2>2, ListedIs DEF RowsOf
  <2>6. Len(parts) = k
    BY <2>4 DEF Partition
  <2> QED
    BY <2>3, <2>4, <2>5, <2>6 DEF n
<1>5. CASE ~setup.dynamic
  <2> DEFINE rows == [i \in 1..n |-> i]
  <2>1. plan[r] = Split(rows, setup.microSize)
    BY <1>2, <1>3, <1>5 DEF MicroBatches
  <2>2. setup.microSize \in Nat \ {0}
    BY JobIs DEF FlowInv, Job
  <2> HIDE DEF rows
  <2>3. rows = [i \in 1..n |-> i]
    BY DEF rows
  <2>4. Partition(Split(rows, setup.microSize), n, Len(Split(rows, setup.microSize)))
    BY <1>3, <2>2, <2>3, SplitParts
  <2> QED
    BY <2>1, <2>4 DEF n
<1> QED
  BY <1>4, <1>5

\* Position y of what rank r works on is in its micro-batch f.
PlannedAt(r, y, f) == \E j \in 1..Len(plan[r][f]) : MiniPlace(plan[r][f][j]) = y

\* In a plan the positions of the mini-batch are each in one micro-batch, at one
\* place, and no others are.
LEMMA PlanPlaces ==
  ASSUME FlowInv, phase \in UpdateMethods, plan # <<>>, NEW r \in Ranks
  PROVE  /\ Len(plan[r]) \in Nat /\ plan[r] \in Seq(Seq(1..MiniLen))
         /\ \A f \in 1..Len(plan[r]) : \A j \in 1..Len(plan[r][f]) :
              /\ MiniPlace(plan[r][f][j]) \in 1..Rows
              /\ MiniBatch(r)[plan[r][f][j]] = RowAt(r, MiniPlace(plan[r][f][j]))
         /\ \A f, g \in 1..Len(plan[r]) : \A j \in 1..Len(plan[r][f]), l \in 1..Len(plan[r][g]) :
              MiniPlace(plan[r][f][j]) = MiniPlace(plan[r][g][l]) => f = g /\ j = l
         /\ \A y \in 1..Rows :
              (\E f \in 1..Len(plan[r]) : PlannedAt(r, y, f)) <=> (y - 1) \div setup.miniSize = mini % Blocks
<1> DEFINE p == plan[r]
           k == Len(p)
           n == MiniLen
           N == Rows
           size == setup.miniSize
           q == mini % Blocks
           c == q + 1
           base == q * size
<1>1. Partition(p, n, k)
  BY PlanParts
<1>2. MinisLeft
  BY DEF FlowInv, CallIs
<1>3. /\ c \in 1..Blocks /\ n \in Nat \ {0}
      /\ \A j \in 1..n : MiniPlace(j) \in 1..N /\ MiniBatch(r)[j] = RowAt(r, MiniPlace(j))
  BY <1>2, MiniBlock DEF RowAt
<1>4. size \in Nat \ {0} /\ N \in Nat \ {0} /\ Blocks \in Nat \ {0} /\ mini \in Nat
  BY MinisAre DEF FlowInv, CallIs
<1>5. Blocks = CeilDiv(N, size) /\ n = BlockLen(N, size, c)
  BY DEF Blocks, MiniLen
<1>6. q \in Nat /\ c - 1 = q /\ base \in Nat
  <2>1. q \in Nat
    BY <1>4
  <2> HIDE DEF q
  <2> QED
    BY <1>4, <2>1
<1>7. \A j : MiniPlace(j) = base + j
  BY DEF MiniPlace
<1>8. /\ \A y \in 1..N : /\ (y - 1) \div size \in 0..(Blocks - 1)
                         /\ y - ((y - 1) \div size) * size \in 1..BlockLen(N, size, ((y - 1) \div size) + 1)
      /\ \A d \in 1..Blocks : \A j \in 1..BlockLen(N, size, d) :
           (d - 1) * size + j \in 1..N /\ ((d - 1) * size + j - 1) \div size = d - 1
  BY <1>4, <1>5, BlockOf
<1> HIDE DEF p, k, n, N, size, q, base
<1>9. p \in Seq(Seq(1..n)) /\ k \in Nat
  <2>1. p \in Seq(Seq(1..n))
    BY <1>1 DEF Partition
  <2> QED
    BY <2>1 DEF k
<1>10. ASSUME NEW f \in 1..k, NEW j \in 1..Len(p[f])
       PROVE  p[f][j] \in 1..n
  <2> DEFINE e == p[f]
             S == 1..n
  <2>1. e \in Seq(S) /\ j \in 1..Len(e)
    BY <1>9 DEF k
  <2> HIDE DEF e, S
  <2>2. e[j] \in S
    BY <2>1
  <2> QED
    BY <2>2 DEF e, S
<1>11. ASSUME NEW f \in 1..k, NEW g \in 1..k, NEW j \in 1..Len(p[f]), NEW l \in 1..Len(p[g]),
              MiniPlace(p[f][j]) = MiniPlace(p[g][l])
       PROVE  f = g /\ j = l
  <2>1. base + p[f][j] = base + p[g][l]
    BY <1>7, <1>11
  <2>2. p[f][j] \in Int /\ p[g][l] \in Int
    BY <1>10
  <2>3. p[f][j] = p[g][l]
    BY <1>6, <2>1, <2>2
  <2> QED
    BY <1>1, <2>3 DEF Partition
<1>12. ASSUME NEW f \in 1..k, NEW j \in 1..Len(p[f])
       PROVE  (MiniPlace(p[f][j]) - 1) \div size = q
  <2> DEFINE x == p[f][j]
  <2>1. x \in 1..BlockLen(N, size, c)
    BY <1>5, <1>10
  <2>2. ((c - 1) * size + x - 1) \div size = c - 1
    BY <1>3, <1>8, <2>1
  <2> HIDE DEF x, c
  <2>3. MiniPlace(x) = (c - 1) * size + x
    BY <1>6, <1>7 DEF base
  <2> DEFINE z == (c - 1) * size + x
  <2>5. (z - 1) \div size = c - 1 /\ MiniPlace(x) = z
    <3> DEFINE b == (c - 1) * size
    <3>3. b \in Int /\ x \in Int
      BY <1>4, <1>6, <1>10 DEF x, c
    <3>4. b + (x - 1) = z - 1
      <4> HIDE DEF b
      <4> QED
        BY <3>3 DEF b
    <3>1. (z - 1) \div size = c - 1
      BY <2>2, <3>4
    <3>2. MiniPlace(x) = z
      BY <2>3, Zenon
    <3> QED
      BY <3>1, <3>2, Zenon
  <2> HIDE DEF z
  <2>4. (MiniPlace(x) - 1) \div size = c - 1
    BY <2>5
  <2> QED
    BY <1>6, <2>4 DEF x
<1>13. ASSUME NEW y \in 1..N, (y - 1) \div size = q
       PROVE  \E f \in 1..k : \E j \in 1..Len(p[f]) : MiniPlace(p[f][j]) = y
  <2> DEFINE x == y - base
  <2>1. y - q * size \in 1..BlockLen(N, size, q + 1)
    BY <1>8, <1>13
  <2>2. x \in 1..n
    BY <1>5, <2>1 DEF base
  <2>3. MiniPlace(x) = y
    BY <1>6, <1>7
  <2> HIDE DEF x
  <2>4. PICK f \in 1..k : \E j \in 1..Len(p[f]) : p[f][j] = x
    BY <1>1, <2>2 DEF Partition
  <2> QED
    BY <2>3, <2>4
<1>14. \A y \in 1..N : (\E f \in 1..k : PlannedAt(r, y, f)) <=> (y - 1) \div size = q
  <2> TAKE y \in 1..N
  <2>1. \A f : PlannedAt(r, y, f) <=> \E j \in 1..Len(p[f]) : MiniPlace(p[f][j]) = y
    BY DEF PlannedAt, p
  <2> QED
    BY <1>12, <1>13, <2>1
<1>15. \A f \in 1..k : \A j \in 1..Len(p[f]) :
         MiniPlace(p[f][j]) \in 1..N /\ MiniBatch(r)[p[f][j]] = RowAt(r, MiniPlace(p[f][j]))
  BY <1>3, <1>10
<1>16. \A f, g \in 1..k : \A j \in 1..Len(p[f]), l \in 1..Len(p[g]) :
         MiniPlace(p[f][j]) = MiniPlace(p[g][l]) => f = g /\ j = l
  BY <1>11
<1> QED
  BY <1>9, <1>14, <1>15, <1>16 DEF p, k, n, N, size, q

\* The next micro-batches hold a row once if one of them is planned to hold its position.
LEMMA NextHits ==
  ASSUME FlowInv, OwnIs, phase \in UpdateMethods, plan # <<>>, \A r \in Ranks : forwards < Len(plan[r])
  PROVE  /\ NextRows \in Seq(RowSet(batch))
         /\ \A r \in Ranks : \A y \in 1..Rows : DataParallel(r) =>
              Cardinality(Hits(NextRows, RowAt(r, y))) = IF PlannedAt(r, y, forwards + 1) THEN 1 ELSE 0
<1> DEFINE f == forwards + 1
           W == World
           part(i) == plan[i - 1][f]
           seqs == [i \in 1..W |-> IF DataParallel(i - 1) THEN [j \in 1..Len(part(i)) |-> MiniBatch(i - 1)[part(i)[j]]] ELSE <<>>]
           S == RowSet(batch)
           u == NextRows
<1>1. PathIs
  BY DEF FlowInv
<1>2. W \in Nat \ {0} /\ Ranks = 0..(W - 1) /\ Cardinality(Ranks) = W
  <2>1. setup.layout \in Layouts
    BY <1>1, JobIs DEF Job
  <2>2. Cardinality(RanksOf(setup.layout)) = WorldSize(setup.layout)
    BY <2>1, WorldIs DEF Modes
  <2> QED
    BY <1>1, <2>2, WorldHere DEF World, Ranks, RanksOf
<1>3. u = FlattenSeq(seqs)
  <2>1. u = FlattenSeq([i \in 1..Cardinality(Ranks) |->
              IF DataParallel(i - 1) THEN [j \in 1..Len(part(i)) |-> MiniBatch(i - 1)[part(i)[j]]] ELSE <<>>])
    BY DEF NextRows
  <2> HIDE DEF W
  <2> QED
    BY <1>2, <2>1
<1>4. RowsSpread
  BY SpreadIs
<1>5. \A r \in Ranks : /\ Len(plan[r][f]) \in Nat /\ f \in 1..Len(plan[r])
                       /\ \A j \in 1..Len(plan[r][f]) :
                            /\ MiniPlace(plan[r][f][j]) \in 1..Rows
                            /\ MiniBatch(r)[plan[r][f][j]] = RowAt(r, MiniPlace(plan[r][f][j]))
  <2> TAKE r \in Ranks
  <2> DEFINE p == plan[r]
             n == MiniLen
  <2>1. Len(p) \in Nat /\ p \in Seq(Seq(1..n))
    BY PlanPlaces
  <2>2. forwards \in Nat /\ forwards < Len(p)
    BY DEF FlowInv, PlanIs
  <2>3. f \in 1..Len(p)
    BY <2>1, <2>2
  <2>4. Len(p[f]) \in Nat
    <3> HIDE DEF p, f, n
    <3> QED
      BY <2>1, <2>3
  <2> QED
    BY <2>3, <2>4, PlanPlaces
<1>6. ASSUME NEW r \in Ranks, NEW j \in 1..Len(plan[r][f]), NEW l \in 1..Len(plan[r][f]),
             MiniPlace(plan[r][f][j]) = MiniPlace(plan[r][f][l])
      PROVE  j = l
  <2>1. f \in 1..Len(plan[r])
    BY <1>5
  <2>2. \A d, e \in 1..Len(plan[r]) : \A a \in 1..Len(plan[r][d]), b \in 1..Len(plan[r][e]) :
          MiniPlace(plan[r][d][a]) = MiniPlace(plan[r][e][b]) => d = e /\ a = b
    BY PlanPlaces
  <2> HIDE DEF f
  <2> QED
    BY <1>6, <2>1, <2>2
<1> HIDE DEF f, W
<1>7. \A i \in 1..W : i - 1 \in Ranks
  BY <1>2
<1>8. \A i \in 1..W : \A j \in 1..Len(part(i)) : MiniBatch(i - 1)[part(i)[j]] \in S
  <2> TAKE i \in 1..W
  <2> TAKE j \in 1..Len(part(i))
  <2> DEFINE r == i - 1
  <2>1. r \in Ranks /\ j \in 1..Len(plan[r][f])
    BY <1>7
  <2> HIDE DEF r
  <2>2. MiniBatch(r)[plan[r][f][j]] \in S
    BY <1>4, <1>5, <2>1 DEF RowsSpread
  <2> QED
    BY <2>2 DEF r
<1>9. \A i \in 1..W : Len(part(i)) \in Nat
  BY <1>5, <1>7
<1>10. \A i \in 1..W : seqs[i] \in Seq(S)
  <2> TAKE i \in 1..W
  <2> DEFINE a == [j \in 1..Len(part(i)) |-> MiniBatch(i - 1)[part(i)[j]]]
  <2>1. a \in Seq(S)
    <3> DEFINE l == Len(part(i))
    <3>1. l \in Nat
      BY <1>9
    <3>2. \A j \in 1..l : MiniBatch(i - 1)[part(i)[j]] \in S
      BY <1>8
    <3> HIDE DEF l, S
    <3>3. [j \in 1..l |-> MiniBatch(i - 1)[part(i)[j]]] \in Seq(S)
      BY <3>1, <3>2
    <3> QED
      BY <3>3 DEF l
  <2>2. seqs[i] = IF DataParallel(i - 1) THEN a ELSE <<>>
    OBVIOUS
  <2> HIDE DEF a, seqs, S
  <2> QED
    BY <2>1, <2>2
<1>11. seqs \in Seq(Seq(S)) /\ W = Len(seqs)
  <2>1. W \in Nat /\ seqs = [i \in 1..W |-> seqs[i]]
    BY <1>2
  <2> HIDE DEF seqs, S
  <2> QED
    BY <1>10, <2>1
<1>12. \A r \in Ranks : seqs[r + 1] = IF DataParallel(r) THEN [j \in 1..Len(plan[r][f]) |-> MiniBatch(r)[plan[r][f][j]]] ELSE <<>>
  <2> TAKE r \in Ranks
  <2> DEFINE i == r + 1
  <2>1. i \in 1..W /\ i - 1 = r
    BY <1>2
  <2>2. seqs[i] = IF DataParallel(i - 1) THEN [j \in 1..Len(part(i)) |-> MiniBatch(i - 1)[part(i)[j]]] ELSE <<>>
    BY <2>1
  <2> HIDE DEF i
  <2> QED
    BY <2>1, <2>2 DEF i
<1> HIDE DEF seqs, S
<1>13. FlattenSeq(seqs) \in Seq(S) /\ \E O : Laid(FlattenSeq(seqs), seqs, W, O)
  BY <1>11, FlattenLaid
<1>14. PICK O : Laid(u, seqs, W, O)
  BY <1>3, <1>13
<1>15. u \in Seq(S)
  BY <1>3, <1>13
<1> HIDE DEF u
<1>16. ASSUME NEW r \in Ranks, DataParallel(r)
       PROVE  /\ Len(seqs[r + 1]) = Len(plan[r][f])
              /\ \A j \in 1..Len(plan[r][f]) : seqs[r + 1][j] = RowAt(r, MiniPlace(plan[r][f][j]))
  <2> DEFINE l == Len(plan[r][f])
             a == [j \in 1..l |-> MiniBatch(r)[plan[r][f][j]]]
  <2>1. seqs[r + 1] = a /\ l \in Nat
    BY <1>5, <1>12, <1>16
  <2>2. \A j \in 1..l : a[j] = RowAt(r, MiniPlace(plan[r][f][j]))
    BY <1>5
  <2>3. Len(a) = l
    BY <2>1
  <2> HIDE DEF a
  <2> QED
    BY <2>1, <2>2, <2>3
<1>17. ASSUME NEW t \in 1..Len(u)
       PROVE  \E q \in Ranks : \E j \in 1..Len(plan[q][f]) :
                DataParallel(q) /\ t = O[q] + j /\ u[t] = RowAt(q, MiniPlace(plan[q][f][j]))
  <2>a. PICK i \in 1..W : \E j \in 1..Len(seqs[i]) : t = O[i - 1] + j
    BY <1>14 DEF Laid
  <2>1. PICK j \in 1..Len(seqs[i]) : t = O[i - 1] + j
    BY <2>a
  <2>2. u[t] = seqs[i][j]
    BY <1>14, <2>1 DEF Laid
  <2> DEFINE q == i - 1
  <2>3. q \in Ranks /\ i = q + 1
    BY <1>2
  <2> HIDE DEF q
  <2>4. DataParallel(q)
    <3> SUFFICES ASSUME ~DataParallel(q)
                 PROVE  FALSE
      OBVIOUS
    <3>1. seqs[i] = <<>>
      BY <1>12, <2>3
    <3> QED
      BY <3>1
  <2>5. Len(seqs[i]) = Len(plan[q][f]) /\ \A l \in 1..Len(plan[q][f]) : seqs[i][l] = RowAt(q, MiniPlace(plan[q][f][l]))
    BY <1>16, <2>3, <2>4
  <2>6. O[i - 1] = O[q]
    BY DEF q
  <2> QED
    BY <2>1, <2>2, <2>3, <2>4, <2>5, <2>6
<1>18. ASSUME NEW r \in Ranks, DataParallel(r), NEW j \in 1..Len(plan[r][f])
       PROVE  O[r] + j \in 1..Len(u) /\ u[O[r] + j] = RowAt(r, MiniPlace(plan[r][f][j]))
  <2> DEFINE i == r + 1
  <2>1. i \in 1..W /\ i - 1 = r
    BY <1>2
  <2>2. Len(seqs[i]) = Len(plan[r][f]) /\ seqs[i][j] = RowAt(r, MiniPlace(plan[r][f][j]))
    BY <1>16, <1>18
  <2> HIDE DEF i
  <2>3. O[i - 1] + j \in 1..Len(u) /\ u[O[i - 1] + j] = seqs[i][j]
    BY <1>14, <2>1, <2>2 DEF Laid
  <2> QED
    BY <2>1, <2>2, <2>3
<1>19. ASSUME NEW r \in Ranks, NEW y \in 1..Rows, DataParallel(r)
       PROVE  Cardinality(Hits(u, RowAt(r, y))) = IF PlannedAt(r, y, f) THEN 1 ELSE 0
  <2> DEFINE H == Hits(u, RowAt(r, y))
  <2>1. \A t \in H : \E j \in 1..Len(plan[r][f]) : t = O[r] + j /\ MiniPlace(plan[r][f][j]) = y
    <3> TAKE t \in H
    <3>1. t \in 1..Len(u) /\ u[t] = RowAt(r, y)
      BY DEF Hits
    <3>2. PICK q \in Ranks : \E j \in 1..Len(plan[q][f]) :
            DataParallel(q) /\ t = O[q] + j /\ u[t] = RowAt(q, MiniPlace(plan[q][f][j]))
      BY <1>17, <3>1
    <3>3. PICK j \in 1..Len(plan[q][f]) :
            DataParallel(q) /\ t = O[q] + j /\ u[t] = RowAt(q, MiniPlace(plan[q][f][j]))
      BY <3>2
    <3>4. MiniPlace(plan[q][f][j]) \in 1..Rows
      BY <1>5
    <3>5. q = r /\ MiniPlace(plan[q][f][j]) = y
      BY <1>4, <1>19, <3>1, <3>3, <3>4 DEF RowsSpread
    <3> QED
      BY <3>3, <3>5
  <2>2. CASE PlannedAt(r, y, f)
    <3>1. PICK j \in 1..Len(plan[r][f]) : MiniPlace(plan[r][f][j]) = y
      BY <2>2 DEF PlannedAt
    <3>2. O[r] + j \in H
      BY <1>18, <1>19, <3>1 DEF Hits
    <3>3. H = {O[r] + j}
      BY <1>6, <2>1, <3>1, <3>2
    <3>4. Cardinality({O[r] + j}) = 1
      BY FS_Singleton
    <3> QED
      BY <2>2, <3>3, <3>4
  <2>3. CASE ~PlannedAt(r, y, f)
    <3>1. H = {}
      BY <2>1, <2>3 DEF PlannedAt
    <3> QED
      BY <2>3, <3>1, FS_EmptySet
  <2> QED
    BY <2>2, <2>3
<1> QED
  BY <1>15, <1>19 DEF u, S, f

-----------------------------------------------------------------------------
\* What has gone into the actor's gradients

\* Position y of rank r is in one of the micro-batches gone through.
Touched(r, y) == plan # <<>> /\ \E f \in 1..forwards : PlannedAt(r, y, f)

\* How often it has been gone through.
BlockAt(y) == (y - 1) \div setup.miniSize
Times(r, y) == Done(mini, Blocks, BlockAt(y)) + (IF Touched(r, y) THEN 1 ELSE 0)

TrainedSoFar ==
  /\ trained \in Seq(RowSet(batch))
  /\ \A r \in Ranks : \A y \in 1..Rows :
       DataParallel(r) => Cardinality(Hits(trained, RowAt(r, y))) = Times(r, y)
  /\ \A r \in Ranks : out[r] # <<>> => plan = <<>> /\ mini = setup.epochs * Blocks

TrainInv ==
  /\ phase \notin {"update_actor", "over", "raised"} => trained = <<>>
  /\ phase = "update_actor" => TrainedSoFar

\* What the ranks work on stays the same during a call.
LEMMA SameRows ==
  ASSUME setup' = setup, phase' = phase, batch' = batch, sent' = sent
  PROVE  /\ Ranks' = Ranks /\ Rows' = Rows /\ Blocks' = Blocks /\ RowSet(batch)' = RowSet(batch)
         /\ \A r : DataParallel(r)' <=> DataParallel(r)
         /\ \A r, y : RowAt(r, y)' = RowAt(r, y)
         /\ \A y : BlockAt(y)' = BlockAt(y)
         /\ mini' = mini => \A j : MiniPlace(j)' = MiniPlace(j)
<1>1. Ranks' = Ranks /\ Samples' = Samples
  BY DEF Ranks, Samples
<1>2. Rows' = Rows /\ Blocks' = Blocks
  BY <1>1 DEF Rows, Blocks, Share, ModeHere, ModeOf
<1>3. \A r, y : RowAt(r, y)' = RowAt(r, y)
  BY DEF RowAt, DataOf, SpGroup
<1> QED
  BY <1>1, <1>2, <1>3 DEF RowSet, DataParallel, BlockAt, MiniPlace

\* Nothing has been gone through when the call begins.
LEMMA TrainStarts ==
  ASSUME PathIs, ~setup.validate, phase \in {"advantages", "update_critic"}, trained = <<>>,
         setup' = setup, phase' = "update_actor", trained' = <<>>, mini' = 0, plan' = <<>>, out' = NoRows
  PROVE  TrainedSoFar'
<1>1. Ranks' = Ranks /\ Samples' = Samples
  BY DEF Ranks, Samples
<1>2. Rows' = Rows /\ Blocks' = Blocks
  BY <1>1 DEF Rows, Blocks, Share, ModeHere, ModeOf
<1>3. Rows \in Nat \ {0} /\ Blocks \in Nat \ {0} /\ setup.miniSize \in Nat \ {0}
  BY RowsHere, JobIs DEF Job
<1>4. \A y \in 1..Rows : BlockAt(y) \in 0..(Blocks - 1)
  BY <1>3, BlockOf DEF Blocks, BlockAt
<1>5. \A y \in 1..Rows : Done(0, Blocks, BlockAt(y)) = 0
  BY <1>3, <1>4, DoneEnds
<1>6. \A v : Cardinality(Hits(trained', v)) = 0
  <2> TAKE v
  <2>1. Hits(<<>>, v) = {}
    BY DEF Hits
  <2> QED
    BY <2>1, FS_EmptySet
<1>7. \A r \in Ranks : \A y \in 1..Rows : Times(r, y)' = 0
  <2> TAKE r \in Ranks
  <2> TAKE y \in 1..Rows
  <2>1. ~Touched(r, y)'
    BY DEF Touched
  <2>2. BlockAt(y)' = BlockAt(y)
    BY DEF BlockAt
  <2>3. Times(r, y)' = Done(0, Blocks, BlockAt(y)) + 0
    BY <1>2, <2>1, <2>2 DEF Times
  <2> QED
    BY <1>5, <2>3
<1>8. \A r \in Ranks : out'[r] = <<>>
  BY DEF NoRows
<1>9. trained' \in Seq(RowSet(batch)')
  OBVIOUS
<1>10. \A r \in Ranks : \A y \in 1..Rows : Cardinality(Hits(trained', RowAt(r, y)')) = Times(r, y)'
  BY <1>6, <1>7
<1> QED
  BY <1>1, <1>2, <1>8, <1>9, <1>10 DEF TrainedSoFar

\* All the mini-batches of an update.
LEMMA MinisLen ==
  ASSUME FlowInv, phase \in UpdateMethods, NEW r \in Ranks
  PROVE  Len(MiniBatches(r)) = setup.epochs * Blocks
<1>1. MinisOf(MiniBatches(r), DataOf(r), Rows, setup.miniSize, setup.epochs)
  BY MinisAre
<1> QED
  BY <1>1 DEF MinisOf, Blocks

\* PlanMicroBatches: a plan of which no micro-batch has been gone through.
LEMMA TrainPlan ==
  ASSUME FlowInv, phase = "update_actor", TrainedSoFar, PlanMicroBatches, phase' = phase
  PROVE  TrainedSoFar'
<1>1. /\ plan = <<>> /\ MinisLeft
      /\ setup' = setup /\ batch' = batch /\ sent' = sent /\ out' = out /\ mini' = mini
      /\ forwards' = forwards /\ trained' = trained
  BY DEF PlanMicroBatches, MinisLeft
<1>2. /\ Ranks' = Ranks /\ Rows' = Rows /\ Blocks' = Blocks /\ RowSet(batch)' = RowSet(batch)
      /\ \A r : DataParallel(r)' <=> DataParallel(r)
      /\ \A r, y : RowAt(r, y)' = RowAt(r, y)
      /\ \A y : BlockAt(y)' = BlockAt(y)
  BY <1>1, SameRows
<1>3. forwards = 0
  BY <1>1 DEF FlowInv, PlanIs
<1>4. \A r, y : ~Touched(r, y) /\ ~Touched(r, y)'
  BY <1>1, <1>3 DEF Touched
<1>5. \A r, y : Times(r, y)' = Times(r, y)
  BY <1>1, <1>2, <1>4 DEF Times
<1>6. \A r \in Ranks : out[r] = <<>>
  <2> SUFFICES ASSUME NEW r \in Ranks, out[r] # <<>>
               PROVE  FALSE
    OBVIOUS
  <2>1. mini = setup.epochs * Blocks
    BY DEF TrainedSoFar
  <2>2. mini < Len(MiniBatches(r)) /\ Len(MiniBatches(r)) = setup.epochs * Blocks
    BY <1>1, MinisLen DEF MinisLeft, UpdateMethods
  <2>3. mini \in Nat
    BY DEF FlowInv, CallIs, UpdateMethods
  <2> QED
    BY <2>1, <2>2, <2>3
<1> QED
  BY <1>1, <1>2, <1>5, <1>6 DEF TrainedSoFar

\* Forward: the rows of one more micro-batch of each rank.
LEMMA TrainForward ==
  ASSUME FlowInv, OwnIs, phase = "update_actor", TrainedSoFar, Forward
  PROVE  TrainedSoFar'
<1>1. /\ plan # <<>> /\ \A r \in Ranks : forwards < Len(plan[r])
      /\ setup' = setup /\ phase' = phase /\ batch' = batch /\ sent' = sent /\ out' = out
      /\ mini' = mini /\ plan' = plan /\ forwards' = forwards + 1 /\ trained' = trained \o NextRows
  BY DEF Forward
<1>2. /\ Ranks' = Ranks /\ Rows' = Rows /\ Blocks' = Blocks /\ RowSet(batch)' = RowSet(batch)
      /\ \A r : DataParallel(r)' <=> DataParallel(r)
      /\ \A r, y : RowAt(r, y)' = RowAt(r, y)
      /\ \A y : BlockAt(y)' = BlockAt(y)
      /\ \A j : MiniPlace(j)' = MiniPlace(j)
  BY <1>1, SameRows
<1>3. \A r \in Ranks : out'[r] = <<>>
  BY <1>1 DEF TrainedSoFar
<1> DEFINE S == RowSet(batch)
           f == forwards + 1
<1>4. /\ NextRows \in Seq(S)
      /\ \A r \in Ranks : \A y \in 1..Rows : DataParallel(r) =>
           Cardinality(Hits(NextRows, RowAt(r, y))) = IF PlannedAt(r, y, f) THEN 1 ELSE 0
  BY <1>1, NextHits DEF UpdateMethods
<1>5. trained \in Seq(S)
  BY DEF TrainedSoFar
<1>6. trained' \in Seq(S)
  <2> HIDE DEF S
  <2> QED
    BY <1>1, <1>4, <1>5
<1>7. forwards \in Nat
  <2>1. 0 \in Ranks
    BY JobIs, WorldIs, ModeIn DEF Ranks, Job, FlowInv
  <2> QED
    BY <1>1, <2>1 DEF FlowInv, PlanIs
<1>8. \A r, y, g : PlannedAt(r, y, g)' <=> PlannedAt(r, y, g)
  BY <1>1, <1>2 DEF PlannedAt
<1>9. ASSUME NEW r \in Ranks, NEW y \in 1..Rows
      PROVE  /\ Touched(r, y)' <=> Touched(r, y) \/ PlannedAt(r, y, f)
             /\ ~(Touched(r, y) /\ PlannedAt(r, y, f))
  <2>1. f \in Nat /\ forwards < f
    BY <1>7
  <2>2. \A g \in 1..f : g \in 1..forwards \/ g = f
    BY <1>7
  <2>3. f \in 1..f /\ \A g \in 1..forwards : g \in 1..f /\ g # f
    BY <1>7
  <2>4. Touched(r, y)' <=> \E g \in 1..f : PlannedAt(r, y, g)
    BY <1>1, <1>8 DEF Touched
  <2>5. Touched(r, y) <=> \E g \in 1..forwards : PlannedAt(r, y, g)
    BY <1>1 DEF Touched
  <2>6. f \in 1..Len(plan[r]) /\ \A g \in 1..forwards : g \in 1..Len(plan[r])
    <3>1. Len(plan[r]) \in Nat
      BY <1>1, PlanPlaces DEF UpdateMethods
    <3> QED
      BY <1>1, <1>7, <3>1
  <2>7. ASSUME NEW g \in 1..forwards, PlannedAt(r, y, g), PlannedAt(r, y, f)
        PROVE  FALSE
    <3>1. PICK j \in 1..Len(plan[r][g]) : MiniPlace(plan[r][g][j]) = y
      BY <2>7 DEF PlannedAt
    <3>2. PICK l \in 1..Len(plan[r][f]) : MiniPlace(plan[r][f][l]) = y
      BY <2>7 DEF PlannedAt
    <3>3. \A d, e \in 1..Len(plan[r]) : \A a \in 1..Len(plan[r][d]), b \in 1..Len(plan[r][e]) :
            MiniPlace(plan[r][d][a]) = MiniPlace(plan[r][e][b]) => d = e /\ a = b
      BY <1>1, PlanPlaces DEF UpdateMethods
    <3> HIDE DEF f
    <3>4. g \in 1..Len(plan[r]) /\ f \in 1..Len(plan[r])
      BY <2>6
    <3>5. \A a \in 1..Len(plan[r][g]), b \in 1..Len(plan[r][f]) :
            MiniPlace(plan[r][g][a]) = MiniPlace(plan[r][f][b]) => g = f
      BY <3>3, <3>4, Zenon
    <3>6. MiniPlace(plan[r][g][j]) = MiniPlace(plan[r][f][l])
      BY <3>1, <3>2
    <3>7. g = f
      BY <3>1, <3>2, <3>5, <3>6, Zenon
    <3> QED
      BY <2>3, <3>7
  <2> HIDE DEF f
  <2> QED
    BY <2>2, <2>3, <2>4, <2>5, <2>7
<1>10. ASSUME NEW r \in Ranks, NEW y \in 1..Rows, DataParallel(r)
       PROVE  Cardinality(Hits(trained', RowAt(r, y))) = Times(r, y)'
  <2> DEFINE v == RowAt(r, y)
             a == Cardinality(Hits(trained, v))
             b == Cardinality(Hits(NextRows, v))
             d == Done(mini, Blocks, BlockAt(y))
  <2>1. Cardinality(Hits(trained', v)) = a + b
    BY <1>1, <1>4, <1>5, HitsConcat
  <2>2. a = d + (IF Touched(r, y) THEN 1 ELSE 0)
    BY <1>10 DEF TrainedSoFar, Times
  <2>3. b = IF PlannedAt(r, y, f) THEN 1 ELSE 0
    BY <1>4, <1>10
  <2>4. Times(r, y)' = d + (IF Touched(r, y)' THEN 1 ELSE 0)
    BY <1>1, <1>2 DEF Times
  <2>5. d \in Nat
    <3>1. /\ setup.miniSize \in Nat \ {0} /\ Rows \in Nat \ {0} /\ Blocks \in Nat \ {0} /\ mini \in Nat
      BY MinisAre DEF FlowInv, CallIs, UpdateMethods
    <3>2. BlockAt(y) \in 0..(Blocks - 1)
      BY <3>1, BlockOf DEF Blocks, BlockAt
    <3> QED
      BY <3>1, <3>2, DoneIs
  <2>6. /\ Touched(r, y)' <=> Touched(r, y) \/ PlannedAt(r, y, f)
        /\ ~(Touched(r, y) /\ PlannedAt(r, y, f))
    BY <1>9
  <2> HIDE DEF a, b, d, v
  <2>7. CASE Touched(r, y)
    <3>1. a = d + 1 /\ b = 0 /\ Times(r, y)' = d + 1
      BY <2>2, <2>3, <2>4, <2>6, <2>7
    <3> QED
      BY <2>1, <2>5, <3>1 DEF v
  <2>8. CASE ~Touched(r, y) /\ PlannedAt(r, y, f)
    <3>1. a = d + 0 /\ b = 1 /\ Times(r, y)' = d + 1
      BY <2>2, <2>3, <2>4, <2>6, <2>8
    <3> QED
      BY <2>1, <2>5, <3>1 DEF v
  <2>9. CASE ~Touched(r, y) /\ ~PlannedAt(r, y, f)
    <3>1. a = d + 0 /\ b = 0 /\ Times(r, y)' = d + 0
      BY <2>2, <2>3, <2>4, <2>6, <2>9
    <3> QED
      BY <2>1, <2>5, <3>1 DEF v
  <2> QED
    BY <2>7, <2>8, <2>9
<1>11. trained' \in Seq(RowSet(batch)')
  BY <1>2, <1>6
<1> QED
  BY <1>2, <1>3, <1>10, <1>11 DEF TrainedSoFar

\* OptimizerStep: the block of the mini-batch is done once more.
LEMMA TrainOptimizerStep ==
  ASSUME FlowInv, phase = "update_actor", TrainedSoFar, OptimizerStep
  PROVE  TrainedSoFar'
<1>1. /\ plan # <<>> /\ \A r \in Ranks : forwards = Len(plan[r])
      /\ setup' = setup /\ phase' = phase /\ batch' = batch /\ sent' = sent /\ out' = out
      /\ mini' = mini + 1 /\ plan' = <<>> /\ trained' = trained
  BY DEF OptimizerStep
<1>2. /\ Ranks' = Ranks /\ Rows' = Rows /\ Blocks' = Blocks /\ RowSet(batch)' = RowSet(batch)
      /\ \A r : DataParallel(r)' <=> DataParallel(r)
      /\ \A r, y : RowAt(r, y)' = RowAt(r, y)
      /\ \A y : BlockAt(y)' = BlockAt(y)
  BY <1>1, SameRows
<1>3. \A r \in Ranks : out'[r] = <<>>
  BY <1>1 DEF TrainedSoFar
<1>4. /\ setup.miniSize \in Nat \ {0} /\ Rows \in Nat \ {0} /\ Blocks \in Nat \ {0} /\ mini \in Nat
  BY MinisAre DEF FlowInv, CallIs, UpdateMethods
<1>5. \A r \in Ranks : \A y \in 1..Rows : Touched(r, y) <=> BlockAt(y) = mini % Blocks
  <2> TAKE r \in Ranks
  <2> TAKE y \in 1..Rows
  <2>1. (\E f \in 1..Len(plan[r]) : PlannedAt(r, y, f)) <=> BlockAt(y) = mini % Blocks
    BY <1>1, PlanPlaces DEF UpdateMethods, BlockAt
  <2> QED
    BY <1>1, <2>1 DEF Touched
<1>6. \A r \in Ranks : \A y \in 1..Rows : Times(r, y)' = Times(r, y)
  <2> TAKE r \in Ranks
  <2> TAKE y \in 1..Rows
  <2> DEFINE b == BlockAt(y)
             d == Done(mini, Blocks, b)
             e == Done(mini + 1, Blocks, b)
  <2>1. b \in 0..(Blocks - 1)
    BY <1>4, BlockOf DEF Blocks, BlockAt
  <2>2. e = d + (IF mini % Blocks = b THEN 1 ELSE 0) /\ e \in Nat
    <3>1. mini + 1 \in Nat
      BY <1>4
    <3>2. e \in Nat
      BY <1>4, <2>1, <3>1, DoneIs
    <3>3. e = d + (IF mini % Blocks = b THEN 1 ELSE 0)
      BY <1>4, <2>1, DoneIs
    <3> QED
      BY <3>2, <3>3
  <2>3. Times(r, y) = d + (IF Touched(r, y) THEN 1 ELSE 0)
    BY DEF Times
  <2>4. Times(r, y)' = e + 0
    <3>1. ~Touched(r, y)'
      BY <1>1 DEF Touched
    <3> QED
      BY <1>1, <1>2, <3>1 DEF Times
  <2>5. Touched(r, y) <=> mini % Blocks = b
    BY <1>5
  <2> HIDE DEF b, d, e
  <2>6. Times(r, y) = e
    BY <2>2, <2>3, <2>5
  <2>7. e + 0 = e
    BY <2>2
  <2> QED
    BY <2>4, <2>6, <2>7
<1> QED
  BY <1>1, <1>2, <1>3, <1>6 DEF TrainedSoFar

\* Return: all the mini-batches of all epochs are done.
LEMMA TrainReturn ==
  ASSUME FlowInv, phase = "update_actor", TrainedSoFar, NEW q \in Ranks, Return(q)
  PROVE  TrainedSoFar'
<1>1. /\ plan = <<>> /\ mini = Len(MiniBatches(q)) /\ out' = [out EXCEPT ![q] = Metrics]
      /\ setup' = setup /\ phase' = phase /\ batch' = batch /\ sent' = sent
      /\ mini' = mini /\ plan' = plan /\ forwards' = forwards /\ trained' = trained
  BY DEF Return, ColumnMethods, call
<1>2. /\ Ranks' = Ranks /\ Rows' = Rows /\ Blocks' = Blocks /\ RowSet(batch)' = RowSet(batch)
      /\ \A r : DataParallel(r)' <=> DataParallel(r)
      /\ \A r, y : RowAt(r, y)' = RowAt(r, y)
      /\ \A y : BlockAt(y)' = BlockAt(y)
  BY <1>1, SameRows
<1>3. mini = setup.epochs * Blocks
  BY <1>1, MinisLen DEF UpdateMethods
<1>4. \A r, y : ~Touched(r, y) /\ ~Touched(r, y)'
  BY <1>1 DEF Touched
<1>5. \A r, y : Times(r, y)' = Times(r, y)
  BY <1>1, <1>2, <1>4 DEF Times
<1> QED
  BY <1>1, <1>2, <1>3, <1>5 DEF TrainedSoFar

\* Nothing changes.
LEMMA TrainStays ==
  ASSUME TrainedSoFar, UNCHANGED vars
  PROVE  TrainedSoFar'
<1>1. /\ setup' = setup /\ phase' = phase /\ batch' = batch /\ sent' = sent /\ out' = out
      /\ mini' = mini /\ plan' = plan /\ forwards' = forwards /\ trained' = trained
  BY DEF vars, call
<1>2. /\ Ranks' = Ranks /\ Rows' = Rows /\ Blocks' = Blocks /\ RowSet(batch)' = RowSet(batch)
      /\ \A r : DataParallel(r)' <=> DataParallel(r)
      /\ \A r, y : RowAt(r, y)' = RowAt(r, y)
      /\ \A y : BlockAt(y)' = BlockAt(y)
      /\ \A j : MiniPlace(j)' = MiniPlace(j)
  BY <1>1, SameRows
<1>3. \A r, y, f : PlannedAt(r, y, f)' <=> PlannedAt(r, y, f)
  BY <1>1, <1>2 DEF PlannedAt
<1>4. \A r, y : Touched(r, y)' <=> Touched(r, y)
  BY <1>1, <1>3 DEF Touched
<1>5. \A r, y : Times(r, y)' = Times(r, y)
  BY <1>1, <1>2, <1>4 DEF Times
<1> QED
  BY <1>1, <1>2, <1>5 DEF TrainedSoFar

\* Every step keeps what has gone into the gradients so.
LEMMA TrainNext ==
  ASSUME FlowInv, OwnIs, TrainInv, [Next]_vars
  PROVE  TrainInv'
<1>1. ASSUME trained' = <<>>, phase' # "update_actor"
      PROVE  TrainInv'
  BY <1>1 DEF TrainInv
<1>2. ASSUME phase' \in {"over", "raised"}
      PROVE  TrainInv'
  BY <1>2 DEF TrainInv
<1>3. ASSUME phase = "update_actor" => TrainedSoFar', phase' = phase, phase # "update_actor" => trained' = trained
      PROVE  TrainInv'
  BY <1>3 DEF TrainInv
<1>4. CASE Begin
  <2>1. trained = <<>> /\ trained' = trained
    BY <1>4 DEF Begin, TrainInv
  <2>2. phase' \in {"generate_sequences", "raised"}
    BY <1>4 DEF Begin, Send
  <2> QED
    BY <1>1, <2>1, <2>2
<1>5. CASE CollectGeneration \/ Reward \/ WriteBack
  <2>1. trained = <<>> /\ trained' = trained
    BY <1>5 DEF CollectGeneration, Reward, WriteBack, TrainInv
  <2>2. phase' # "update_actor"
    BY <1>5 DEF CollectGeneration, Reward, WriteBack
  <2> QED
    BY <1>1, <2>1, <2>2
<1>6. CASE NextGroup
  <2>1. trained = <<>> /\ trained' = trained
    BY <1>6 DEF NextGroup, TrainInv
  <2>2. phase' # "update_actor"
    BY <1>6 DEF NextGroup, Send
  <2> QED
    BY <1>1, <2>1, <2>2
<1>7. CASE Balance
  <2>1. trained = <<>> /\ trained' = trained
    BY <1>7 DEF Balance, TrainInv
  <2>2. phase' # "update_actor"
    BY <1>7 DEF Balance, Send
  <2> QED
    BY <1>1, <2>1, <2>2
<1>8. CASE CollectColumn
  <2>1. trained = <<>> /\ trained' = trained
    BY <1>8 DEF CollectColumn, ColumnMethods, TrainInv
  <2>2. phase' # "update_actor"
    <3> DEFINE next == CASE phase = "compute_log_prob" -> AfterOldLogProb
                         [] phase = "compute_ref_log_prob" -> AfterReference
                         [] phase = "compute_values" -> AfterColumns
               united == Union(batch, Collected(phase))
    <3>1. \/ phase' = "raised"
          \/ phase' = next
          \/ Send(next, next, united)
      BY <1>8 DEF CollectColumn
    <3>2. next \in {"compute_ref_log_prob", "compute_values", "advantages"}
      BY <1>8 DEF CollectColumn, ColumnMethods, AfterOldLogProb, AfterReference, AfterColumns
    <3> HIDE DEF next, united
    <3>3. Send(next, next, united) => phase' \in {next, "raised"}
      BY DEF Send
    <3> QED
      BY <3>1, <3>2, <3>3
  <2> QED
    BY <1>1, <2>1, <2>2
<1>9. ASSUME phase \in {"advantages", "update_critic"}, setup' = setup, trained' = trained,
             NEW b, Send("update_actor", "update_actor", b)
      PROVE  TrainInv'
  <2>1. trained = <<>>
    BY <1>9 DEF TrainInv
  <2>2. CASE phase' = "raised"
    BY <1>2, <2>2
  <2>3. CASE phase' # "raised"
    <3>1. phase' = "update_actor" /\ mini' = 0 /\ plan' = <<>> /\ out' = NoRows
      BY <1>9, <2>3 DEF Send
    <3>2. PathIs /\ ~setup.validate
      BY <1>9, InCall DEF UpdateMethods
    <3>3. TrainedSoFar'
      BY <1>9, <2>1, <3>1, <3>2, TrainStarts
    <3> QED
      BY <3>1, <3>3 DEF TrainInv
  <2> QED
    BY <2>2, <2>3
<1>10. CASE ComputeAdvantage
  <2> DEFINE b == [i \in 1..Len(batch) |->
                     [k \in DOMAIN batch[i] \cup {"advantages"} |->
                        IF k = "advantages" THEN Advantage(batch, i) ELSE batch[i][k]]]
  <2>1. /\ phase = "advantages" /\ setup' = setup /\ trained' = trained
        /\ \/ Send("update_critic", "update_critic", b)
           \/ phase' = "over"
           \/ Send("update_actor", "update_actor", b)
    BY <1>10 DEF ComputeAdvantage
  <2> HIDE DEF b
  <2>2. trained = <<>>
    BY <2>1 DEF TrainInv
  <2>3. CASE Send("update_critic", "update_critic", b)
    <3>1. phase' # "update_actor"
      BY <2>3 DEF Send
    <3> QED
      BY <1>1, <2>1, <2>2, <3>1
  <2> QED
    BY <1>2, <1>9, <2>1, <2>3
<1>11. CASE CollectUpdate
  <2>1. /\ setup' = setup /\ trained' = trained
        /\ \/ phase = "update_critic" /\ Send("update_actor", "update_actor", batch)
           \/ phase' = "over"
    BY <1>11 DEF CollectUpdate
  <2> QED
    BY <1>2, <1>9, <2>1
<1>12. CASE PlanMicroBatches
  <2>1. trained' = trained /\ (phase' = phase \/ phase' = "raised")
    BY <1>12 DEF PlanMicroBatches
  <2>2. ASSUME phase' = phase, phase = "update_actor"
        PROVE  TrainedSoFar'
    BY <1>12, <2>2, TrainPlan DEF TrainInv
  <2> QED
    BY <1>2, <1>3, <2>1, <2>2
<1>13. CASE Forward
  <2>1. phase' = phase /\ (phase # "update_actor" => trained' = trained)
    BY <1>13 DEF Forward
  <2>2. ASSUME phase = "update_actor"
        PROVE  TrainedSoFar'
    BY <1>13, <2>2, TrainForward DEF TrainInv
  <2> QED
    BY <1>3, <2>1, <2>2
<1>14. CASE OptimizerStep
  <2>1. phase' = phase /\ trained' = trained
    BY <1>14 DEF OptimizerStep
  <2>2. ASSUME phase = "update_actor"
        PROVE  TrainedSoFar'
    BY <1>14, <2>2, TrainOptimizerStep DEF TrainInv
  <2> QED
    BY <1>3, <2>1, <2>2
<1>15. ASSUME NEW r \in Ranks, GenerateSequences(r)
       PROVE  TrainInv'
  BY <1>3, <1>15 DEF GenerateSequences, Generating
<1>16. ASSUME NEW r \in Ranks, Return(r)
       PROVE  TrainInv'
  <2>1. phase' = phase /\ trained' = trained
    BY <1>16 DEF Return
  <2>2. ASSUME phase = "update_actor"
        PROVE  TrainedSoFar'
    BY <1>16, <2>2, TrainReturn DEF TrainInv
  <2> QED
    BY <1>3, <2>1, <2>2
<1>17. CASE Over \/ UNCHANGED vars
  <2>1. UNCHANGED vars
    BY <1>17 DEF Over
  <2>2. phase' = phase /\ trained' = trained
    BY <2>1 DEF vars
  <2>3. ASSUME phase = "update_actor"
        PROVE  TrainedSoFar'
    BY <2>1, <2>3, TrainStays DEF TrainInv
  <2> QED
    BY <1>3, <2>2, <2>3
<1> QED
  BY <1>4, <1>5, <1>6, <1>7, <1>8, <1>10, <1>11, <1>12, <1>13, <1>14, <1>15, <1>16, <1>17
     DEF Next, Driver, Collective, Rank

\* When the update has ended, every row of the batch has gone into the gradients once
\* per epoch, and nothing else has.
LEMMA TrainedThen ==
  ASSUME FlowInv, OwnIs, TrainInv
  PROVE  TrainedOnce
<1> SUFFICES ASSUME phase = "update_actor", Answered
             PROVE  /\ Len(trained) = Len(batch) * setup.epochs
                    /\ \A i \in 1..Len(batch) :
                         Cardinality({t \in 1..Len(trained) : trained[t] = batch[i]}) = setup.epochs
  BY DEF TrainedOnce
<1> DEFINE N == Samples
           e == setup.epochs
           S == RowSet(batch)
<1>1. PathIs /\ SampleRows(batch, KeysAt(phase)) /\ TrainedSoFar /\ RowsSpread /\ Own(batch)
  BY InCall, SpreadIs DEF UpdateMethods, TrainInv, OwnIs, Sampled
<1>2. Len(batch) = N /\ N \in Nat
  BY <1>1, ListedIs DEF SampleRows
<1>3. plan = <<>> /\ mini = e * Blocks
  <2>1. 0 \in Ranks
    BY <1>1, JobIs, WorldIs, ModeIn DEF Ranks, Job
  <2> QED
    BY <1>1, <2>1 DEF TrainedSoFar, Answered
<1>4. setup.miniSize \in Nat \ {0} /\ e \in Nat \ {0} /\ Rows \in Nat \ {0} /\ Blocks \in Nat \ {0}
  BY MinisAre DEF UpdateMethods
<1>5. \A r \in Ranks : \A y \in 1..Rows : Times(r, y) = e
  <2> TAKE r \in Ranks
  <2> TAKE y \in 1..Rows
  <2>1. BlockAt(y) \in 0..(Blocks - 1)
    BY <1>4, BlockOf DEF Blocks, BlockAt
  <2>2. Done(e * Blocks, Blocks, BlockAt(y)) = e
    BY <1>4, <2>1, DoneEnds
  <2>3. ~Touched(r, y)
    BY <1>3 DEF Touched
  <2>4. Times(r, y) = e + 0
    BY <1>3, <2>2, <2>3 DEF Times
  <2> QED
    BY <1>4, <2>4
<1>6. \A i \in 1..N : Cardinality(Hits(trained, batch[i])) = e
  <2> TAKE i \in 1..N
  <2>1. PICK r \in Ranks, y \in 1..Rows : DataParallel(r) /\ RowAt(r, y) = batch[i]
    BY <1>1 DEF RowsSpread
  <2>2. Cardinality(Hits(trained, RowAt(r, y))) = Times(r, y)
    BY <1>1, <2>1 DEF TrainedSoFar
  <2> QED
    BY <1>5, <2>1, <2>2
<1>7. trained \in Seq(S)
  BY <1>1 DEF TrainedSoFar
<1>8. \A t \in 1..Len(trained) : \E i \in 1..N : trained[t] = batch[i]
  <2> TAKE t \in 1..Len(trained)
  <2>1. trained[t] \in S
    <3> HIDE DEF S
    <3> QED
      BY <1>7
  <2> QED
    BY <2>1 DEF RowSet
<1>9. \A i, j \in 1..N : batch[i] = batch[j] => i = j
  BY <1>1 DEF Own
<1>11. e \in Nat
  BY <1>4
<1>12. EachTimes(trained, batch, N, e)
  BY <1>6, <1>8, <1>9 DEF EachTimes
<1> HIDE DEF N, S, e
<1>10. Len(trained) = N * e
  BY <1>2, <1>7, <1>11, <1>12, HitsSum
<1> QED
  BY <1>2, <1>6, <1>10 DEF Hits, e

\* An update of the actor goes through every row of the batch ppo_epochs times, each
\* time on exactly one of the ranks that count, however the rows are dispatched over
\* data, tensor and pipeline ranks, gathered in the Ulysses groups, cut into
\* mini-batches and split or partitioned into micro-batches (TrainedOnce of step_fsdp,
\* dp_actor.py and megatron_actor.py update_policy).
THEOREM RowsTrainedOnce == Spec => []TrainedOnce
<1>1. Init => OwnIs /\ TrainInv
  BY DEF Init, OwnIs, TrainInv, Sampled, Generated, ColumnMethods, UpdateMethods
<1>2. FlowInv /\ OwnIs /\ [Next]_vars => OwnIs'
  BY OwnNext
<1>3. FlowInv /\ OwnIs /\ TrainInv /\ [Next]_vars => TrainInv'
  BY TrainNext
<1>4. FlowInv /\ OwnIs /\ TrainInv => TrainedOnce
  BY TrainedThen
<1> QED
  BY <1>1, <1>2, <1>3, <1>4, FlowInductive, PTL DEF Spec
================================================================================
