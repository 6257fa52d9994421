----------------------------- MODULE SeqlenBalancing -----------------------------
(***************************************************************************)
(* seqlen_balancing.py: the Karmarkar-Karp partition of sequence lengths,  *)
(* used to give every rank the same number of rows with about the same     *)
(* tokens, and to split the rows of a rank into micro-batches.             *)
(***************************************************************************)
EXTENDS Integers, Sequences, FiniteSets, SequencesExt

\* A Set of the code: its items, pairs of index and length, and their sum.
EmptySet == [sum |-> 0, items |-> <<>>]

Join(s, t) == [sum |-> s.sum + t.sum, items |-> s.items \o t.items]

Less(item1, item2) ==
  item1[1] < item2[1] \/ (item1[1] = item2[1] /\ item1[2] < item2[2])

\* Set.__lt__: by sum, then by number of items, then by the items themselves.
Below(s, t) ==
  \/ s.sum < t.sum
  \/ s.sum = t.sum /\ Len(s.items) < Len(t.items)
  \/ /\ s.sum = t.sum /\ Len(s.items) = Len(t.items)
     /\ \E i \in DOMAIN s.items :
          /\ Less(s.items[i], t.items[i])
          /\ \A j \in 1..(i - 1) : s.items[j] = t.items[j]

\* sorted of Python: of 1..n, the pairs of a smaller and a larger number that stay in
\* this order.  The numbers are inserted one after the other, each behind those that
\* stay before it.
Insert(t, x, stay) ==
  LET k == Cardinality({m \in 1..Len(t) : <<t[m], x>> \in stay})
  IN  [j \in 1..(Len(t) + 1) |-> IF j <= k THEN t[j] ELSE IF j = k + 1 THEN x ELSE t[j - 1]]

SortedPositions(n, stay) ==
  LET sort[i \in 0..n] == IF i = 0 THEN <<>> ELSE Insert(sort[i - 1], i, stay)
  IN  sort[n]

Pairs(n) == (1..n) \X (1..n)

Sorted(s, stay) ==
  LET p == SortedPositions(Len(s), stay)
  IN  [i \in 1..Len(s) |-> s[p[i]]]

\* A State of the code is a sequence of k Sets, the largest first.
Decreasing(sets) == Sorted(sets, {p \in Pairs(Len(sets)) : ~Below(sets[p[1]], sets[p[2]])})

State(items, k) ==
  Decreasing([i \in 1..k |->
    IF i <= Len(items) THEN [sum |-> items[i][2], items |-> <<items[i]>>] ELSE EmptySet])

\* Mutant: the largest of one with the largest of the other.
Merge_SameOrder(state, other) ==
  Decreasing([i \in 1..Len(state) |-> Join(state[i], other[i])])

\* State.merge: the largest of one with the smallest of the other.
Merge(state, other) ==
  LET k == Len(state)
  IN  Decreasing([i \in 1..k |-> Join(state[i], other[k + 1 - i])])

Spread(state) == state[1].sum - state[Len(state)].sum

\* State.__lt__: the state of the largest spread is popped first, then the one
\* whose first Set is largest.
Before(state, other) ==
  \/ Spread(state) > Spread(other)
  \/ Spread(state) = Spread(other) /\ Below(other[1], state[1])

Pop(heap) == CHOOSE state \in heap : \A other \in heap \ {state} : Before(state, other)

\* One turn of the loop: the first two states become one.
MergeFirstTwo(heap) ==
  LET state0 == Pop(heap)
      state1 == Pop(heap \ {state0})
  IN  (heap \ {state0, state1}) \cup {Merge(state0, state1)}

\* The indices, paired with their lengths, by increasing length, then index.
SortedItems(lens) ==
  Sorted([i \in 1..Len(lens) |-> <<i, lens[i]>>],
         {p \in Pairs(Len(lens)) : lens[p[1]] <= lens[p[2]]})

\* With equal_size every state starts with k consecutive items, otherwise with one.
InitialStates(lens, k, equalSize) ==
  LET sorted == SortedItems(lens)
  IN  IF equalSize
      THEN {State(SubSeq(sorted, k * g + 1, k * g + k), k) : g \in 0..((Len(lens) \div k) - 1)}
      ELSE {State(<<sorted[i]>>, k) : i \in 1..Len(lens)}

KarmarkarKarp(lens, k, equalSize) ==
  LET heap  == InitialStates(lens, k, equalSize)
      turns == Cardinality(heap) - 1
      after[i \in 0..turns] == IF i = 0 THEN heap ELSE MergeFirstTwo(after[i - 1])
      sets  == CHOOSE state \in after[turns] : TRUE
  IN  [i \in 1..k |-> [j \in 1..Len(sets[i].items) |-> sets[i].items[j][1]]]

\* get_seqlen_balanced_partitions: each partition sorted.
BalancedPartitions(lens, k, equalSize) ==
  LET parts == KarmarkarKarp(lens, k, equalSize)
  IN  [i \in 1..k |-> Sorted(parts[i], {p \in Pairs(Len(parts[i])) : parts[i][p[1]] <= parts[i][p[2]]})]

\* What its assertions, and those of karmarkar_karp, require.
CanBalance(lens, k, equalSize) ==
  /\ Len(lens) >= k
  /\ equalSize => Len(lens) % k = 0
  /\ LET parts == KarmarkarKarp(lens, k, equalSize)
     IN  /\ \A i \in 1..k : Len(parts[i]) > 0 /\ (equalSize => Len(parts[i]) * k = Len(lens))
         /\ UNION {ToSet(parts[i]) : i \in 1..k} = 1..Len(lens)

-----------------------------------------------------------------------------
\* Micro-batches

TokensOf(lens, part) ==
  LET tokens[i \in 0..Len(part)] == IF i = 0 THEN 0 ELSE tokens[i - 1] + lens[part[i]]
  IN  tokens[Len(part)]

CeilDiv(a, b) == (a + b - 1) \div b

\* What a rank would split its rows into on its own; rearrange_micro_batches takes
\* the largest number of any rank.
WantedMicroBatches(lens, maxTokenLen) == CeilDiv(TokensOf(lens, [i \in 1..Len(lens) |-> i]), maxTokenLen)
================================================================================
