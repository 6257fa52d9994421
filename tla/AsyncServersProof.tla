--------------------------- MODULE AsyncServersProof ---------------------------
(***************************************************************************)
(* Proofs about AsyncServers, for any number of servers, conversations,    *)
(* turns and batches and any size of the cache.                            *)
(***************************************************************************)
EXTENDS AsyncServers, TLAPS, FiniteSetTheorems, SequenceTheorems, WellFoundedInduction

-----------------------------------------------------------------------------
\* What the model is built from

\* A set of naturals that is not empty has a least element.
LEMMA NatMin ==
  ASSUME NEW S \in SUBSET Nat, S # {}
  PROVE  \E m \in S : \A n \in S : m <= n
<1>1. PICK m \in S : \A n \in S : ~(<<n, m>> \in OpToRel(<, Nat))
  BY NatLessThanWellFounded, WFMin, Zenon
<1>2. \A n \in S : ~(n < m)
  BY <1>1 DEF OpToRel
<1> QED
  BY <1>2

\* The entry at the top of the heap has a least weight.
LEMMA LeastIsLeast ==
  ASSUME count \in [Servers -> Nat]
  PROVE  Least \in Servers /\ \A t \in Servers : count[Least] <= count[t]
<1> DEFINE Weights == {count[s] : s \in Servers}
<1>1. 1 \in Servers
  BY SchedulerAssumption DEF Servers
<1>a. Weights \in SUBSET Nat /\ Weights # {}
  BY <1>1
<1>2. PICK m \in Weights : \A n \in Weights : m <= n
  <2> HIDE DEF Weights
  <2> QED
    BY <1>a, NatMin
<1> DEFINE Lightest == {s \in Servers : count[s] = m}
<1>3. Lightest \in SUBSET Nat /\ Lightest # {}
  BY <1>2 DEF Servers
<1> HIDE DEF Lightest
<1>4. PICK s \in Lightest : \A t \in Lightest : s <= t
  BY <1>3, NatMin
<1>5. s \in Servers /\ \A t \in Servers :
        count[s] < count[t] \/ (count[s] = count[t] /\ s <= t)
  BY <1>2, <1>4 DEF Lightest
<1> QED
  BY <1>5 DEF Least, Servers

\* What is left of a sequence when one element is removed.
LEMMA RemoveAtElements ==
  ASSUME NEW S, NEW q \in Seq(S), NEW i \in 1 .. Len(q)
  PROVE  /\ RemoveAt(q, i) \in Seq(S)
         /\ Len(RemoveAt(q, i)) = Len(q) - 1
         /\ \A j \in 1 .. Len(q) - 1 : RemoveAt(q, i)[j] = IF j < i THEN q[j] ELSE q[j + 1]
<1> DEFINE before == SubSeq(q, 1, i - 1)
           after  == SubSeq(q, i + 1, Len(q))
<1>1. before \in Seq(S) /\ Len(before) = i - 1 /\ \A j \in 1 .. i - 1 : before[j] = q[j]
  OBVIOUS
<1>2. after \in Seq(S) /\ Len(after) = Len(q) - i
      /\ \A j \in 1 .. Len(q) - i : after[j] = q[j + i]
  OBVIOUS
<1>3. RemoveAt(q, i) = before \o after
  BY DEF RemoveAt
<1> HIDE DEF before, after
<1>4. /\ before \o after \in Seq(S)
      /\ Len(before \o after) = Len(before) + Len(after)
      /\ \A j \in 1 .. Len(before) + Len(after) :
           (before \o after)[j] = IF j <= Len(before) THEN before[j] ELSE after[j - Len(before)]
  BY <1>1, <1>2, ConcatProperties
<1>5. Len(before) + Len(after) = Len(q) - 1
  BY <1>1, <1>2
<1>6. ASSUME NEW j \in 1 .. Len(q) - 1
      PROVE  RemoveAt(q, i)[j] = IF j < i THEN q[j] ELSE q[j + 1]
  <2>1. CASE j < i
    BY <2>1, <1>1, <1>3, <1>4, <1>5
  <2>2. CASE j >= i
    <3>1. j - (i - 1) \in 1 .. Len(q) - i
      BY <2>2
    <3>2. RemoveAt(q, i)[j] = after[j - (i - 1)]
      BY <2>2, <1>1, <1>3, <1>4, <1>5
    <3> QED
      BY <2>2, <3>1, <3>2, <1>2
  <2> QED
    BY <2>1, <2>2
<1> QED
  BY <1>3, <1>4, <1>5, <1>6

-----------------------------------------------------------------------------
\* Balance

\* The weights are numbers, and no two of them are further apart than one.
BInv == count \in [Servers -> Nat] /\ Balanced

\* A conversation is given to a server with the least weight, so none gets two ahead.
LEMMA SubmitKeepsBalance ==
  ASSUME BInv, NEW c \in Convs, SubmitFirst(c)
  PROVE  BInv'
<1>1. Least \in Servers /\ \A t \in Servers : count[Least] <= count[t]
  BY LeastIsLeast DEF BInv
<1>2. count' = [count EXCEPT ![Least] = @ + 1]
  BY DEF SubmitFirst
<1>3. count' \in [Servers -> Nat]
  BY <1>1, <1>2 DEF BInv
<1>4. Balanced'
  BY <1>1, <1>2 DEF BInv, Balanced, Servers
<1> QED
  BY <1>3, <1>4 DEF BInv, Servers

\* Only a conversation's first request changes the weights.
LEMMA NextKeepsBalance ==
  ASSUME BInv, [Next]_vars
  PROVE  BInv'
<1>1. ASSUME NEW c \in Convs, SubmitFirst(c) PROVE BInv'
  BY <1>1, SubmitKeepsBalance
<1>2. CASE UNCHANGED count
  BY <1>2 DEF BInv, Balanced, Servers
<1> QED
  BY <1>1, <1>2 DEF Next, Start, Chat, vars, chatVars, ChatNext, BeginGeneration, EndGeneration,
     Conversation, Answer, AnswerFails, CallbackReturns, CallbackRaises, ResubmitAgain,
     ResubmitLost

\* No server is ever given two conversations more than another, however the
\* conversations of any number of batches interleave.
THEOREM ConversationsBalanced == Spec => []Balanced
<1>1. Init => BInv
  BY DEF Init, ChatInit, BInv, Balanced, Servers
<1>2. BInv /\ [Next]_vars => BInv'
  BY NextKeepsBalance
<1>3. BInv => Balanced
  BY DEF BInv
<1> QED
  BY <1>1, <1>2, <1>3, PTL DEF Spec

-----------------------------------------------------------------------------
\* The cache

Entry == [id : Nat \X Convs \X Nat, address : Servers]

\* Of the entries q: they stand in the order of their batches, none is of a batch
\* to come, and no two are of the same conversation.
Ordered(q)    == \A i, j \in DOMAIN q : i <= j => q[i].id[1] <= q[j].id[1]
NoneLater(q)  == \A i \in DOMAIN q : q[i].id[1] <= batch
OnePerConv(q) == \A i, j \in DOMAIN q :
                   q[i].id[1] = q[j].id[1] /\ q[i].id[2] = q[j].id[2] => i = j
OfNow(q, c)   == {i \in DOMAIN q : q[i].id[1] = batch /\ q[i].id[2] = c}

CTyped ==
  /\ count \in [Servers -> Nat]
  /\ cache \in Seq(Entry)
  /\ size \in Nat \ {0} /\ Len(cache) <= size
  /\ batch \in Nat
  /\ turn \in [Convs -> Nat] /\ server \in [Convs -> 0 .. N]
  /\ at \in [Convs -> {"none", "created", "requested", "answered", "failed", "done"}]

\* A conversation without a request has no entry of this batch.
Fresh == \A c \in Convs : at[c] = "created" => turn[c] = 0 /\ OfNow(cache, c) = {}

\* The entry of a conversation's last request, if it is there, has its server.
Addressed == \A c \in Convs : \A i \in EntriesOf(c) : cache[i].address = server[c]

CInv ==
  /\ CTyped
  /\ Ordered(cache) /\ NoneLater(cache) /\ OnePerConv(cache)
  /\ Fresh
  /\ Addressed
  /\ Remembered

\* An entry of a conversation that has none makes a cache as large as a batch
\* evict nothing but an entry of an earlier batch.
LEMMA InsertKeeps ==
  ASSUME size \in Nat \ {0}, batch \in Nat,
         NEW q \in Seq(Entry), Len(q) <= size,
         Ordered(q), NoneLater(q), OnePerConv(q),
         NEW c \in Convs, OfNow(q, c) = {},
         NEW e \in Entry, e.id[1] = batch, e.id[2] = c
  PROVE  LET r == Insert(q, e) IN
         /\ r \in Seq(Entry) /\ Len(r) <= size
         /\ Ordered(r) /\ NoneLater(r) /\ OnePerConv(r)
         /\ Len(r) \in DOMAIN r /\ r[Len(r)] = e
         /\ \A i \in DOMAIN r : r[i] = e \/ \E j \in DOMAIN q : r[i] = q[j]
         /\ Cardinality(Convs) <= size =>
              \A i \in DOMAIN q : q[i].id[1] = batch => \E j \in DOMAIN r : r[j] = q[i]
<1> DEFINE longer == Append(q, e)
           r == Insert(q, e)
<1>1. /\ longer \in Seq(Entry) /\ Len(longer) = Len(q) + 1
      /\ \A i \in 1 .. Len(q) : longer[i] = q[i]
      /\ longer[Len(q) + 1] = e
  OBVIOUS
<1>2. Ordered(longer) /\ NoneLater(longer) /\ OnePerConv(longer)
  <2>1. DOMAIN longer = 1 .. Len(q) + 1 /\ DOMAIN q = 1 .. Len(q) /\ Len(q) \in Nat
    BY <1>1
  <2> HIDE DEF longer
  <2>2. \A i \in DOMAIN longer : i \in DOMAIN q \/ i = Len(q) + 1
    BY <2>1
  <2>3. ASSUME NEW i \in DOMAIN q
        PROVE  /\ longer[i] = q[i] /\ i < Len(q) + 1
               /\ q[i].id[1] <= batch /\ q[i].id[1] \in Nat
               /\ ~(q[i].id[1] = batch /\ q[i].id[2] = c)
    <3>1. longer[i] = q[i] /\ i < Len(q) + 1
      BY <1>1, <2>1
    <3>2. q[i] \in Entry
      OBVIOUS
    <3>3. q[i].id[1] \in Nat
      BY <3>2 DEF Entry
    <3>4. q[i].id[1] <= batch
      BY DEF NoneLater
    <3>5. ~(q[i].id[1] = batch /\ q[i].id[2] = c)
      BY DEF OfNow
    <3> QED
      BY <3>1, <3>3, <3>4, <3>5
  <2>5. Ordered(longer)
    BY <1>1, <2>1, <2>2, <2>3 DEF Ordered
  <2>6. NoneLater(longer)
    BY <1>1, <2>1, <2>2, <2>3 DEF NoneLater
  <2>7. OnePerConv(longer)
    <3> SUFFICES ASSUME NEW i \in DOMAIN longer, NEW j \in DOMAIN longer,
                        longer[i].id[1] = longer[j].id[1], longer[i].id[2] = longer[j].id[2]
                 PROVE  i = j
      BY DEF OnePerConv
    <3>1. CASE i \in DOMAIN q /\ j \in DOMAIN q
      BY <3>1, <2>3 DEF OnePerConv
    <3>2. CASE i = Len(q) + 1 /\ j \in DOMAIN q
      BY <3>2, <1>1, <2>3
    <3>3. CASE i \in DOMAIN q /\ j = Len(q) + 1
      BY <3>3, <1>1, <2>3
    <3> QED
      BY <3>1, <3>2, <3>3, <2>2
  <2> QED
    BY <2>5, <2>6, <2>7
<1>3. CASE Len(longer) <= size
  <2>1. r = longer
    BY <1>1, <1>3 DEF Insert
  <2>2. DOMAIN r = 1 .. Len(q) + 1 /\ DOMAIN q = 1 .. Len(q) /\ Len(r) = Len(q) + 1
    BY <2>1, <1>1
  <2> HIDE DEF longer, r
  <2> SUFFICES /\ r \in Seq(Entry) /\ Len(r) <= size
               /\ Ordered(r) /\ NoneLater(r) /\ OnePerConv(r)
               /\ Len(r) \in DOMAIN r /\ r[Len(r)] = e
               /\ \A i \in DOMAIN r : r[i] = e \/ \E j \in DOMAIN q : r[i] = q[j]
               /\ \A i \in DOMAIN q : q[i].id[1] = batch => \E j \in DOMAIN r : r[j] = q[i]
    BY DEF r
  <2>3. \A i \in DOMAIN r : r[i] = e \/ \E j \in DOMAIN q : r[i] = q[j]
    BY <1>1, <2>1, <2>2
  <2>4. \A i \in DOMAIN q : r[i] = q[i] /\ i \in DOMAIN r
    BY <1>1, <2>1, <2>2
  <2> QED
    BY <1>1, <1>2, <1>3, <2>1, <2>2, <2>3, <2>4
<1>4. CASE Len(longer) > size
  <2>1. r = Tail(longer)
    BY <1>1, <1>4 DEF Insert
  <2>2. longer # <<>> /\ Len(q) = size
    BY <1>1, <1>4
  <2>3. r \in Seq(Entry) /\ Len(r) = size /\ \A i \in 1 .. size : r[i] = longer[i + 1]
    BY <1>1, <2>1, <2>2, HeadTailProperties
  <2>4. DOMAIN r = 1 .. size /\ DOMAIN q = 1 .. size /\ DOMAIN longer = 1 .. size + 1
    BY <1>1, <2>2, <2>3
  <2> HIDE DEF longer, r
  <2> SUFFICES /\ r \in Seq(Entry) /\ Len(r) <= size
               /\ Ordered(r) /\ NoneLater(r) /\ OnePerConv(r)
               /\ Len(r) \in DOMAIN r /\ r[Len(r)] = e
               /\ \A i \in DOMAIN r : r[i] = e \/ \E j \in DOMAIN q : r[i] = q[j]
               /\ Cardinality(Convs) <= size =>
                    \A i \in DOMAIN q : q[i].id[1] = batch => \E j \in DOMAIN r : r[j] = q[i]
    BY DEF r
  <2>5. Ordered(r)
    <3> SUFFICES ASSUME NEW i \in DOMAIN r, NEW j \in DOMAIN r, i <= j
                 PROVE  r[i].id[1] <= r[j].id[1]
      BY DEF Ordered
    <3>1. i + 1 \in DOMAIN longer /\ j + 1 \in DOMAIN longer /\ i + 1 <= j + 1
          /\ r[i] = longer[i + 1] /\ r[j] = longer[j + 1]
      BY <2>3, <2>4
    <3> QED
      BY <3>1, <1>2 DEF Ordered
  <2>6. NoneLater(r)
    <3> SUFFICES ASSUME NEW i \in DOMAIN r
                 PROVE  r[i].id[1] <= batch
      BY DEF NoneLater
    <3>1. i + 1 \in DOMAIN longer /\ r[i] = longer[i + 1]
      BY <2>3, <2>4
    <3> QED
      BY <3>1, <1>2 DEF NoneLater
  <2>7. OnePerConv(r)
    <3> SUFFICES ASSUME NEW i \in DOMAIN r, NEW j \in DOMAIN r,
                        r[i].id[1] = r[j].id[1], r[i].id[2] = r[j].id[2]
                 PROVE  i = j
      BY DEF OnePerConv
    <3>1. i + 1 \in DOMAIN longer /\ j + 1 \in DOMAIN longer
          /\ r[i] = longer[i + 1] /\ r[j] = longer[j + 1]
      BY <2>3, <2>4
    <3>2. i + 1 = j + 1
      BY <3>1, <1>2, Zenon DEF OnePerConv
    <3> QED
      BY <3>2, <2>4
  <2>8. Len(r) \in DOMAIN r /\ r[Len(r)] = e
    BY <1>1, <2>2, <2>3, <2>4
  <2>9. ASSUME NEW i \in DOMAIN r
        PROVE  r[i] = e \/ \E j \in DOMAIN q : r[i] = q[j]
    <3>1. r[i] = longer[i + 1] /\ (i = size \/ i + 1 \in 1 .. size)
      BY <2>3, <2>4
    <3>2. CASE i = size
      BY <3>1, <3>2, <1>1, <2>2
    <3>3. CASE i + 1 \in 1 .. size
      BY <3>1, <3>3, <1>1, <2>2, <2>4
    <3> QED
      BY <3>1, <3>2, <3>3
  <2>10. ASSUME Cardinality(Convs) <= size PROVE q[1].id[1] # batch
    <3> SUFFICES ASSUME q[1].id[1] = batch PROVE FALSE
      OBVIOUS
    <3>1. \A i \in DOMAIN q : q[i].id[1] = batch /\ q[i].id[2] \in Convs
      <4>1. \A i \in DOMAIN q : 1 \in DOMAIN q /\ 1 <= i /\ q[i] \in Entry
        BY <2>4
      <4>2. \A i \in DOMAIN q : q[i].id[1] \in Nat /\ q[i].id[2] \in Convs
        BY <4>1 DEF Entry
      <4>3. \A i \in DOMAIN q : q[1].id[1] <= q[i].id[1] /\ q[i].id[1] <= batch
        BY <4>1 DEF Ordered, NoneLater
      <4> QED
        BY <4>2, <4>3
    <3> DEFINE f == [i \in 1 .. size |-> q[i].id[2]]
    <3>2. f \in [1 .. size -> Convs \ {c}]
      BY <3>1, <2>4 DEF OfNow
    <3>3. IsFiniteSet(1 .. size) /\ Cardinality(1 .. size) = size
      BY FS_Interval
    <3>4. IsFiniteSet(Convs \ {c}) /\ Cardinality(Convs \ {c}) = Cardinality(Convs) - 1
          /\ Cardinality(Convs) \in Nat
      BY FS_RemoveElement, FS_CardinalityType, SchedulerAssumption
    <3>5. Cardinality(Convs \ {c}) < Cardinality(1 .. size)
      BY <2>10, <3>3, <3>4
    <3>6. \E x, y \in 1 .. size : x # y /\ f[x] = f[y]
      <4> HIDE DEF f
      <4> QED
        BY <3>2, <3>3, <3>4, <3>5, FS_PigeonHole
    <3> QED
      BY <3>1, <3>6, <2>4 DEF OnePerConv
  <2>11. ASSUME Cardinality(Convs) <= size, NEW i \in DOMAIN q, q[i].id[1] = batch
         PROVE  \E j \in DOMAIN r : r[j] = q[i]
    <3>1. i # 1
      BY <2>10, <2>11
    <3>2. i - 1 \in 1 .. size /\ r[i - 1] = longer[i] /\ longer[i] = q[i]
      BY <3>1, <1>1, <2>2, <2>3, <2>4
    <3> QED
      BY <3>2, <2>4
  <2> QED
    BY <2>3, <2>5, <2>6, <2>7, <2>8, <2>9, <2>11
<1> QED
  BY <1>1, <1>3, <1>4

\* A request of c keeps the invariant, made from entries q that are those of the
\* cache but for c's own.
LEMMA SendKeeps ==
  ASSUME CInv, phase = "generating",
         NEW c \in Convs, NEW s \in Servers,
         NEW q \in Seq(Entry), Len(q) <= size,
         Ordered(q), NoneLater(q), OnePerConv(q), OfNow(q, c) = {},
         \A i \in DOMAIN q : \E j \in DOMAIN cache : q[i] = cache[j],
         \A i \in DOMAIN cache : cache[i].id[1] = batch /\ cache[i].id[2] # c
           => \E j \in DOMAIN q : q[j] = cache[i],
         Send(c, q, s), UNCHANGED <<size, phase, batch>>, count' \in [Servers -> Nat]
  PROVE  CInv'
<1> DEFINE e == [id |-> <<batch, c, turn[c] + 1>>, address |-> s]
           r == Insert(q, e)
<1>1. size \in Nat \ {0} /\ batch \in Nat /\ e \in Entry /\ e.id[1] = batch /\ e.id[2] = c
  BY DEF CInv, CTyped, Entry
<1>2. /\ r \in Seq(Entry) /\ Len(r) <= size
      /\ Ordered(r) /\ NoneLater(r) /\ OnePerConv(r)
      /\ Len(r) \in DOMAIN r /\ r[Len(r)] = e
      /\ \A i \in DOMAIN r : r[i] = e \/ \E j \in DOMAIN q : r[i] = q[j]
      /\ Cardinality(Convs) <= size =>
           \A i \in DOMAIN q : q[i].id[1] = batch => \E j \in DOMAIN r : r[j] = q[i]
  <2> HIDE DEF e
  <2> QED
    BY <1>1, InsertKeeps
<1>3. /\ cache' = r /\ size' = size /\ batch' = batch /\ phase' = phase
      /\ turn' = [turn EXCEPT ![c] = @ + 1] /\ server' = [server EXCEPT ![c] = s]
      /\ at' = [at EXCEPT ![c] = "requested"]
  BY DEF Send
<1>4. e.id = <<batch, c, turn[c] + 1>> /\ e.address = s
  OBVIOUS
<1> HIDE DEF e, r
<1>5. CTyped'
  <2>1. cache' \in Seq(Entry) /\ size' \in Nat \ {0} /\ Len(cache') <= size' /\ batch' \in Nat
    BY <1>1, <1>2, <1>3
  <2>2. turn' \in [Convs -> Nat] /\ server' \in [Convs -> 0 .. N]
        /\ at' \in [Convs -> {"none", "created", "requested", "answered", "failed", "done"}]
    BY <1>3 DEF CInv, CTyped, Servers
  <2> QED
    BY <2>1, <2>2 DEF CTyped, Entry, Servers
<1>6. Ordered(cache)' /\ NoneLater(cache)' /\ OnePerConv(cache)'
  BY <1>2, <1>3 DEF Ordered, NoneLater, OnePerConv
<1>7. Fresh'
  <2>a. ASSUME NEW d \in Convs, at'[d] = "created"
        PROVE  d # c /\ at[d] = "created" /\ turn'[d] = 0
    BY <2>a, <1>3 DEF CInv, CTyped, Fresh
  <2> SUFFICES ASSUME NEW d \in Convs, at'[d] = "created", NEW i \in DOMAIN r,
                      r[i].id[1] = batch, r[i].id[2] = d
               PROVE  FALSE
    BY <1>3, <2>a DEF Fresh, OfNow
  <2>1. d # c /\ at[d] = "created"
    BY <2>a
  <2>2. PICK k \in DOMAIN cache : r[i] = cache[k]
    BY <1>1, <1>2, <2>1
  <2> QED
    BY <2>1, <2>2 DEF CInv, Fresh, OfNow
<1>8. Remembered'
  <2> SUFFICES ASSUME Cardinality(Convs) <= size, NEW d \in Convs,
                      at'[d] \in {"requested", "answered"}
               PROVE  \E i \in DOMAIN r : r[i].id = <<batch, d, turn'[d]>> /\ r[i].address = server'[d]
    BY <1>3 DEF Remembered, EntriesOf, RequestId
  <2>1. CASE d = c
    BY <2>1, <1>2, <1>3, <1>4 DEF CInv, CTyped
  <2>2. CASE d # c
    <3>1. at[d] \in {"requested", "answered"} /\ turn'[d] = turn[d] /\ server'[d] = server[d]
      BY <2>2, <1>3 DEF CInv, CTyped
    <3>2. PICK i \in DOMAIN cache : cache[i].id = <<batch, d, turn[d]>> /\ cache[i].address = server[d]
      BY <3>1 DEF CInv, Remembered, EntriesOf, RequestId
    <3>3. cache[i].id[1] = batch /\ cache[i].id[2] # c
      BY <3>2, <2>2
    <3>4. PICK j \in DOMAIN q : q[j] = cache[i]
      BY <3>3
    <3>5. PICK k \in DOMAIN r : r[k] = q[j]
      BY <3>3, <3>4, <1>2
    <3> QED
      BY <3>1, <3>2, <3>4, <3>5
  <2> QED
    BY <2>1, <2>2
<1>9. Addressed'
  <2> SUFFICES ASSUME NEW d \in Convs, NEW i \in DOMAIN r, r[i].id = <<batch, d, turn'[d]>>
               PROVE  r[i].address = server'[d]
    BY <1>3 DEF Addressed, EntriesOf, RequestId
  <2>1. CASE d = c
    <3>1. r[i].id[1] = r[Len(r)].id[1] /\ r[i].id[2] = r[Len(r)].id[2]
      BY <2>1, <1>2, <1>4
    <3>2. i = Len(r)
      BY <3>1, <1>2 DEF OnePerConv
    <3> QED
      BY <3>2, <2>1, <1>2, <1>3, <1>4 DEF CInv, CTyped
  <2>2. CASE d # c
    <3>1. turn'[d] = turn[d] /\ server'[d] = server[d]
      BY <2>2, <1>3 DEF CInv, CTyped
    <3>2. r[i].id[2] = d /\ r[i] # e
      BY <2>2, <1>1
    <3>3. PICK k \in DOMAIN cache : r[i] = cache[k]
      BY <3>2, <1>2
    <3> QED
      BY <3>1, <3>3 DEF CInv, Addressed, EntriesOf, RequestId
  <2> QED
    BY <2>1, <2>2
<1> QED
  BY <1>5, <1>6, <1>7, <1>8, <1>9 DEF CInv

\* A first request is put on record, and no other running conversation's entry goes.
LEMMA SubmitFirstKeeps ==
  ASSUME CInv, NEW c \in Convs, SubmitFirst(c)
  PROVE  CInv'
<1>1. Least \in Servers
  BY LeastIsLeast DEF CInv, CTyped
<1>2. count' \in [Servers -> Nat]
  BY <1>1 DEF SubmitFirst, CInv, CTyped
<1>3. /\ phase = "generating" /\ at[c] = "created" /\ Send(c, cache, Least)
      /\ UNCHANGED <<size, phase, batch>>
  BY DEF SubmitFirst
<1>4. /\ cache \in Seq(Entry) /\ Len(cache) <= size
      /\ Ordered(cache) /\ NoneLater(cache) /\ OnePerConv(cache) /\ OfNow(cache, c) = {}
  BY <1>3 DEF CInv, CTyped, Fresh
<1> QED
  BY <1>1, <1>2, <1>3, <1>4, SendKeeps

\* A further request's entry takes the place of the one before, at the same server.
LEMMA ResubmitAgainKeeps ==
  ASSUME CInv, NEW c \in Convs, ResubmitAgain(c)
  PROVE  CInv'
<1>1. PICK i \in EntriesOf(c) : Send(c, RemoveAt(cache, i), cache[i].address)
  BY DEF ResubmitAgain
<1>2. phase = "generating" /\ UNCHANGED <<count, size, phase, batch>>
  BY DEF ResubmitAgain
<1>3. /\ cache \in Seq(Entry) /\ Len(cache) <= size /\ count' \in [Servers -> Nat]
      /\ Ordered(cache) /\ NoneLater(cache) /\ OnePerConv(cache)
      /\ size \in Nat \ {0}
  BY <1>2 DEF CInv, CTyped, Servers
<1>4. i \in 1 .. Len(cache) /\ cache[i].id[1] = batch /\ cache[i].id[2] = c
  BY <1>3 DEF EntriesOf, RequestId
<1>5. cache[i].address \in Servers
  <2>1. cache[i] \in Entry
    BY <1>3, <1>4
  <2> QED
    BY <2>1 DEF Entry
<1> DEFINE q == RemoveAt(cache, i)
           from(j) == IF j < i THEN j ELSE j + 1
<1>6. /\ q \in Seq(Entry) /\ Len(q) = Len(cache) - 1
      /\ \A j \in 1 .. Len(cache) - 1 : q[j] = IF j < i THEN cache[j] ELSE cache[j + 1]
  BY <1>3, <1>4, RemoveAtElements
<1> HIDE DEF q
<1>7. ASSUME NEW j \in DOMAIN q
      PROVE  from(j) \in DOMAIN cache /\ from(j) # i /\ q[j] = cache[from(j)]
             /\ j \in Nat /\ from(j) \in Nat
  <2>1. DOMAIN cache = 1 .. Len(cache) /\ Len(cache) \in Nat
    BY <1>3
  <2>2. j \in 1 .. Len(cache) - 1
    BY <1>6
  <2>3. i \in 1 .. Len(cache)
    BY <1>4
  <2>4. from(j) \in 1 .. Len(cache) /\ from(j) # i /\ j \in Nat
    BY <2>1, <2>2, <2>3
  <2>5. q[j] = cache[from(j)]
    BY <2>2, <1>6
  <2> QED
    BY <2>1, <2>4, <2>5
<1>8. \A j, k \in Nat : (j <= k => from(j) <= from(k)) /\ (from(j) = from(k) => j = k)
  BY <1>3, <1>4
<1> HIDE DEF from
<1>9. Ordered(q)
  BY <1>3, <1>7, <1>8 DEF Ordered
<1>10. NoneLater(q)
  BY <1>3, <1>7 DEF NoneLater
<1>11. OnePerConv(q)
  <2> SUFFICES ASSUME NEW j \in DOMAIN q, NEW k \in DOMAIN q,
                      q[j].id[1] = q[k].id[1], q[j].id[2] = q[k].id[2]
               PROVE  j = k
    BY DEF OnePerConv
  <2>1. from(j) = from(k)
    BY <1>3, <1>7 DEF OnePerConv
  <2> QED
    BY <2>1, <1>7, <1>8
<1>12. OfNow(q, c) = {}
  BY <1>3, <1>4, <1>7 DEF OfNow, OnePerConv
<1>13. \A j \in DOMAIN q : \E k \in DOMAIN cache : q[j] = cache[k]
  BY <1>7
<1>14. ASSUME NEW k \in DOMAIN cache, cache[k].id[1] = batch, cache[k].id[2] # c
       PROVE  \E j \in DOMAIN q : q[j] = cache[k]
  <2>1. k # i /\ k \in 1 .. Len(cache)
    BY <1>3, <1>4, <1>14
  <2>2. CASE k < i
    <3>1. k \in 1 .. Len(cache) - 1 /\ q[k] = cache[k]
      BY <2>1, <2>2, <1>3, <1>4, <1>6
    <3> QED
      BY <3>1, <1>6
  <2>3. CASE k > i
    <3>1. k - 1 \in 1 .. Len(cache) - 1 /\ q[k - 1] = cache[k]
      BY <2>1, <2>3, <1>3, <1>4, <1>6
    <3> QED
      BY <3>1, <1>6
  <2> QED
    BY <2>1, <2>2, <2>3, <1>4
<1>15. Len(q) <= size
  BY <1>3, <1>4, <1>6
<1>16. Send(c, q, cache[i].address)
  BY <1>1 DEF q
<1> QED
  BY <1>2, <1>3, <1>5, <1>6, <1>9, <1>10, <1>11, <1>12, <1>13, <1>14, <1>15, <1>16, SendKeeps

\* A new batch: no entry is of it.
LEMMA BeginKeeps ==
  ASSUME CInv, BeginGeneration
  PROVE  CInv'
<1>1. batch \in Nat /\ batch' = batch + 1 /\ UNCHANGED <<count, cache, size>>
      /\ at' = [c \in Convs |-> "created"]
      /\ turn' = [c \in Convs |-> 0] /\ server' = [c \in Convs |-> 0]
  BY DEF BeginGeneration, CInv, CTyped
<1>2. \A i \in DOMAIN cache : cache[i].id[1] \in Nat /\ cache[i].id[1] <= batch
  <2>1. \A i \in DOMAIN cache : cache[i] \in Entry
    BY DEF CInv, CTyped
  <2> QED
    BY <2>1 DEF Entry, CInv, NoneLater
<1>3. CTyped'
  BY <1>1, SchedulerAssumption DEF CInv, CTyped, Servers, Entry
<1>4. Ordered(cache)' /\ OnePerConv(cache)'
  BY <1>1 DEF CInv, Ordered, OnePerConv
<1>5. NoneLater(cache)'
  BY <1>1, <1>2 DEF NoneLater
<1>6. Fresh'
  BY <1>1, <1>2 DEF Fresh, OfNow
<1>7. Remembered'
  BY <1>1 DEF Remembered
<1>8. Addressed'
  <2> SUFFICES ASSUME NEW c \in Convs, NEW i \in DOMAIN cache, cache[i].id = <<batch + 1, c, turn'[c]>>
               PROVE  FALSE
    BY <1>1 DEF Addressed, EntriesOf, RequestId
  <2> QED
    BY <1>1, <1>2
<1> QED
  BY <1>3, <1>4, <1>5, <1>6, <1>7, <1>8 DEF CInv

\* A step that leaves the cache alone, and makes nothing of a conversation that has
\* not been submitted.
LEMMA OthersKeep ==
  ASSUME CInv, UNCHANGED <<count, cache, size, batch, turn, server>>,
         phase' = "generating" => phase = "generating",
         at' \in [Convs -> {"none", "created", "requested", "answered", "failed", "done"}],
         \A c \in Convs : at'[c] = "created" => at[c] = "created",
         \A c \in Convs : at'[c] \in {"requested", "answered"} => at[c] \in {"requested", "answered"}
  PROVE  CInv'
<1>1. CTyped'
  BY DEF CInv, CTyped, Servers, Entry
<1>2. Ordered(cache)' /\ OnePerConv(cache)' /\ NoneLater(cache)'
  BY DEF CInv, Ordered, OnePerConv, NoneLater
<1>3. Fresh'
  BY DEF CInv, Fresh, OfNow
<1>4. Remembered'
  BY DEF CInv, Remembered, EntriesOf, RequestId
<1>5. Addressed'
  BY DEF CInv, Addressed, EntriesOf, RequestId
<1> QED
  BY <1>1, <1>2, <1>3, <1>4, <1>5 DEF CInv

\* Every step keeps what is known of the cache: only requests change it.
LEMMA NextKeepsCache ==
  ASSUME CInv, [Next]_vars
  PROVE  CInv'
<1> USE DEF CInv, CTyped
<1>1. CASE BeginGeneration
  BY <1>1, BeginKeeps
<1>2. ASSUME NEW c \in Convs, SubmitFirst(c) PROVE CInv'
  BY <1>2, SubmitFirstKeeps
<1>3. ASSUME NEW c \in Convs, ResubmitAgain(c) PROVE CInv'
  BY <1>3, ResubmitAgainKeeps
<1>4. ASSUME NEW c \in Convs, Answer(c) \/ AnswerFails(c) \/ CallbackReturns(c) PROVE CInv'
  <2>1. UNCHANGED <<count, cache, size, batch, turn, server, phase>>
    BY <1>4 DEF Answer, AnswerFails, CallbackReturns
  <2>2. /\ at' \in [Convs -> {"none", "created", "requested", "answered", "failed", "done"}]
        /\ \A d \in Convs : at'[d] = "created" => at[d] = "created"
        /\ \A d \in Convs : at'[d] \in {"requested", "answered"} => at[d] \in {"requested", "answered"}
    BY <1>4 DEF Answer, AnswerFails, CallbackReturns
  <2> QED
    BY <2>1, <2>2, OthersKeep
<1>5. ASSUME NEW c \in Convs, CallbackRaises(c) \/ ResubmitLost(c) PROVE CInv'
  <2>1. UNCHANGED <<count, cache, size, batch, turn, server, at>> /\ phase' = "raised"
    BY <1>5 DEF CallbackRaises, ResubmitLost
  <2> QED
    BY <2>1, OthersKeep
<1>6. CASE EndGeneration
  <2>1. UNCHANGED <<count, cache, size, batch, turn, server, at>> /\ phase' = "between"
    BY <1>6 DEF EndGeneration
  <2> QED
    BY <2>1, OthersKeep
<1>7. CASE UNCHANGED chatVars
  <2>1. UNCHANGED <<count, cache, size, batch, turn, server, at, phase>>
    BY <1>7 DEF chatVars
  <2> QED
    BY <2>1, OthersKeep
<1> QED
  BY <1>1, <1>2, <1>3, <1>4, <1>5, <1>6, <1>7
     DEF Next, Start, Chat, vars, ChatNext, Conversation

\* The cache is empty before the first request.
LEMMA InitCInv ==
  ASSUME Init
  PROVE  CInv
<1>1. cache = <<>> /\ DOMAIN cache = {} /\ Len(cache) = 0 /\ cache \in Seq(Entry)
  BY DEF Init, ChatInit
<1>2. CTyped
  BY <1>1, SchedulerAssumption DEF Init, ChatInit, CTyped, Servers
<1>3. Ordered(cache) /\ NoneLater(cache) /\ OnePerConv(cache)
  BY <1>1 DEF Ordered, NoneLater, OnePerConv
<1>4. Fresh /\ Addressed /\ Remembered
  BY <1>1 DEF Init, ChatInit, Fresh, OfNow, Addressed, EntriesOf, Remembered
<1> QED
  BY <1>2, <1>3, <1>4 DEF CInv

\* A conversation in progress never loses its server: a cache as large as a batch
\* evicts entries of earlier batches only, whatever the interleaving.
THEOREM ConversationsRemembered == Spec => []Remembered
<1>1. Init => CInv
  BY InitCInv
<1>2. CInv /\ [Next]_vars => CInv'
  BY NextKeepsCache
<1>3. CInv => Remembered
  BY DEF CInv
<1> QED
  BY <1>1, <1>2, <1>3, PTL DEF Spec

\* Only two steps make a request; the second of them looks its server up.
LEMMA NextStaysOnServer ==
  ASSUME CInv, [Next]_vars, NEW c \in Convs, turn[c] > 0, turn'[c] > turn[c]
  PROVE  server'[c] = server[c]
<1> USE DEF CInv, CTyped
<1>1. CASE UNCHANGED turn
  BY <1>1
<1>2. CASE BeginGeneration
  BY <1>2 DEF BeginGeneration
<1>3. ASSUME NEW d \in Convs, SubmitFirst(d) PROVE server'[c] = server[c]
  <2>1. turn[d] = 0 /\ turn' = [turn EXCEPT ![d] = @ + 1]
        /\ server' = [server EXCEPT ![d] = Least]
    BY <1>3 DEF SubmitFirst, Send, Fresh
  <2> QED
    BY <2>1
<1>4. ASSUME NEW d \in Convs, ResubmitAgain(d) PROVE server'[c] = server[c]
  <2>1. PICK i \in EntriesOf(d) : Send(d, RemoveAt(cache, i), cache[i].address)
    BY <1>4 DEF ResubmitAgain
  <2>2. server' = [server EXCEPT ![d] = server[d]]
    BY <2>1 DEF Send, Addressed
  <2> QED
    BY <2>2
<1> QED
  BY <1>1, <1>2, <1>3, <1>4
     DEF Next, Start, Chat, vars, chatVars, ChatNext, Conversation, Answer, AnswerFails,
         CallbackReturns, CallbackRaises, ResubmitLost, EndGeneration

\* All requests of a conversation go to one server, whatever the size of the cache.
THEOREM ConversationsStay == Spec => StaysOnServer
<1>1. Init => CInv
  BY InitCInv
<1>2. CInv /\ [Next]_vars => CInv'
  BY NextKeepsCache
<1>3. CInv /\ [Next]_vars =>
        [\A c \in Convs : turn[c] > 0 /\ turn'[c] > turn[c] => server'[c] = server[c]]_chatVars
  BY NextStaysOnServer
<1> QED
  BY <1>1, <1>2, <1>3, PTL DEF Spec, StaysOnServer

-----------------------------------------------------------------------------
\* The start of the servers

\* A server that has a port has one of Ports, and a rank that is ready has a server
\* that was ready, with the address it told.
SInv ==
  /\ unready \subseteq Ranks /\ asked \subseteq unready
  /\ life \in [Ranks -> {"none", "created", "picked", "ready", "serving", "dead"}]
  /\ port \in [Ranks -> Ports \cup {NoPort}] /\ address \in [Ranks -> Ports \cup {NoPort}]
  /\ \A r \in Ranks : life[r] \notin {"none", "created"} => port[r] # NoPort
  /\ \A r \in Ranks \ unready :
       life[r] \in {"ready", "serving", "dead"} /\ address[r] = port[r]

\* A round leaves the servers alone that have told their addresses.
LEMMA NextKeepsAddresses ==
  ASSUME SInv, [Next]_vars
  PROVE  SInv'
<1> USE DEF SInv
<1>1. CASE UNCHANGED <<unready, asked, life, port, address>>
  BY <1>1
<1>2. ASSUME NEW r \in Ranks, Pick(r) PROVE SInv'
  BY <1>2, StartAssumption DEF Pick, NoPort
<1>3. ASSUME NEW r \in Ranks, SetReady(r) \/ Bind(r) PROVE SInv'
  BY <1>3 DEF SetReady, Bind
<1>4. CASE CreateRound
  BY <1>4 DEF CreateRound
<1>5. ASSUME NEW r \in asked, Ask(r) PROVE SInv'
  BY <1>5 DEF Ask
<1> QED
  BY <1>1, <1>2, <1>3, <1>4, <1>5
     DEF Next, Start, Chat, vars, startVars, StartNext, Manager, Server, RoundDone, InitEngines,
         StartThread, Up, RunThread, TakePort

\* The address of every rank that is ready is that of its server as it is now,
\* however many rounds the others have taken.
THEOREM AddressesAreCurrent == Spec => []AddressIsCurrent
<1>1. Init => SInv
  BY DEF Init, StartInit, SInv
<1>2. SInv /\ [Next]_vars => SInv'
  BY NextKeepsAddresses
<1>3. SInv => AddressIsCurrent
  BY DEF SInv, AddressIsCurrent
<1> QED
  BY <1>1, <1>2, <1>3, PTL DEF Spec

\* The rest of the variables of the start.
LInv ==
  /\ manager \in {"creating", "asking", "engines", "threading", "waiting", "up", "raised"}
  /\ taken \subseteq Foreign
  /\ thread \in {"none", "running", "looping", "dead"}

\* Every step of the start of the servers keeps it, and the chats leave it alone.
LEMMA NextKeepsStart ==
  ASSUME LInv, [Next]_vars
  PROVE  LInv'
<1> USE DEF LInv
<1>1. CASE UNCHANGED <<manager, taken, thread>>
  BY <1>1
<1>2. CASE TakePort
  BY <1>2 DEF TakePort
<1>3. CASE CreateRound \/ RoundDone \/ InitEngines \/ StartThread \/ Up
  BY <1>3 DEF CreateRound, RoundDone, InitEngines, StartThread, Up
<1>4. CASE RunThread
  BY <1>4 DEF RunThread
<1> QED
  BY <1>1, <1>2, <1>3, <1>4
     DEF Next, Start, Chat, vars, startVars, StartNext, Manager, Server, Ask, Pick, SetReady, Bind

\* No rank is asked that has told its address, and every variable of the start has
\* its type, in any number of rounds.
THEOREM StartTyped == Spec => []StartTypeOK
<1>1. Init => SInv /\ LInv
  BY DEF Init, StartInit, SInv, LInv
<1>2. SInv /\ LInv /\ [Next]_vars => (SInv /\ LInv)'
  BY NextKeepsAddresses, NextKeepsStart
<1>3. SInv /\ LInv => StartTypeOK
  BY DEF SInv, LInv, StartTypeOK
<1> QED
  BY <1>1, <1>2, <1>3, PTL DEF Spec

-----------------------------------------------------------------------------
\* The batches

\* A batch is generated with the engines awake, which CInv knows nothing of.
GInv ==
  /\ size \in CacheSizes
  /\ awake \in BOOLEAN /\ phase \in {"between", "generating", "raised"}
  /\ batch \in 0 .. MaxBatches
  /\ turn \in [Convs -> 0 .. MaxTurns]
  /\ phase = "generating" => awake
  /\ AsleepIdle

\* Every step keeps the batches and turns within their bounds, and engines that sleep idle.
LEMMA NextKeepsBatches ==
  ASSUME CInv, GInv, [Next]_vars
  PROVE  GInv'
<1>t. at \in [Convs -> {"none", "created", "requested", "answered", "failed", "done"}]
  BY DEF CInv, CTyped
<1>1. CASE BeginGeneration
  BY <1>1, SchedulerAssumption DEF BeginGeneration, GInv, AsleepIdle
<1>2. CASE EndGeneration
  BY <1>2 DEF EndGeneration, GInv, AsleepIdle
<1>3. ASSUME NEW c \in Convs, SubmitFirst(c) \/ ResubmitAgain(c) PROVE GInv'
  <2>1. /\ phase = "generating" /\ turn[c] < MaxTurns
        /\ turn' = [turn EXCEPT ![c] = @ + 1] /\ UNCHANGED <<size, awake, phase, batch>>
    <3>1. at[c] = "created" => turn[c] = 0
      BY DEF CInv, Fresh
    <3>2. CASE SubmitFirst(c)
      <4>1. at[c] = "created" /\ turn[c] < MaxTurns
        BY <3>1, <3>2, SchedulerAssumption DEF SubmitFirst
      <4> QED
        BY <3>2, <4>1 DEF SubmitFirst, Send
    <3>3. CASE ResubmitAgain(c)
      BY <3>3 DEF ResubmitAgain, Send
    <3> QED
      BY <1>3, <3>2, <3>3
  <2>2. turn' \in [Convs -> 0 .. MaxTurns]
    BY <2>1, SchedulerAssumption DEF GInv
  <2> QED
    BY <2>1, <2>2 DEF GInv, AsleepIdle
<1>4. ASSUME NEW c \in Convs,
             Answer(c) \/ AnswerFails(c) \/ CallbackReturns(c) \/ CallbackRaises(c) \/ ResubmitLost(c)
      PROVE GInv'
  <2>1. /\ phase = "generating" /\ phase' \in {phase, "raised"}
        /\ UNCHANGED <<size, awake, batch, turn>>
    BY <1>4 DEF Answer, AnswerFails, CallbackReturns, CallbackRaises, ResubmitLost
  <2> QED
    BY <2>1 DEF GInv, AsleepIdle
<1>5. CASE UNCHANGED chatVars
  BY <1>5 DEF chatVars, GInv, AsleepIdle
<1> QED
  BY <1>1, <1>2, <1>3, <1>4, <1>5 DEF Next, Start, Chat, vars, ChatNext, Conversation

\* In the beginning there is no batch.
LEMMA InitGInv ==
  ASSUME Init
  PROVE  GInv
<1>1. turn \in [Convs -> 0 .. MaxTurns] /\ 0 \in 0 .. MaxBatches
  BY SchedulerAssumption DEF Init, ChatInit
<1>2. \A c \in Convs : at[c] = "none"
  BY DEF Init, ChatInit
<1> QED
  BY <1>1, <1>2 DEF Init, ChatInit, GInv, AsleepIdle

\* The cache never outgrows its bound and no conversation its turns, and every
\* variable of the scheduler has its type.
THEOREM ChatTyped == Spec => []ChatTypeOK
<1>1. Init => CInv /\ GInv
  BY InitCInv, InitGInv
<1>2. CInv /\ GInv /\ [Next]_vars => (CInv /\ GInv)'
  BY NextKeepsCache, NextKeepsBatches
<1>3. CInv /\ GInv => ChatTypeOK
  <2>1. ASSUME CInv PROVE \A i \in DOMAIN cache : cache[i].address \in Servers
    <3>1. \A i \in DOMAIN cache : cache[i] \in Entry
      BY <2>1 DEF CInv, CTyped
    <3> QED
      BY <3>1 DEF Entry
  <2> QED
    BY <2>1 DEF CInv, CTyped, GInv, ChatTypeOK
<1> QED
  BY <1>1, <1>2, <1>3, PTL DEF Spec

\* The engines are never put to sleep under a request, whichever way a batch ends.
THEOREM EnginesSleepIdle == Spec => []AsleepIdle
<1>1. Init => CInv /\ GInv
  BY InitCInv, InitGInv
<1>2. CInv /\ GInv /\ [Next]_vars => (CInv /\ GInv)'
  BY NextKeepsCache, NextKeepsBatches
<1>3. GInv => AsleepIdle
  BY DEF GInv
<1> QED
  BY <1>1, <1>2, <1>3, PTL DEF Spec
================================================================================
