-------------------------- MODULE NoisyTrainingProof ---------------------------
(***************************************************************************)
(* Proof that every pass through the policy runs under the noise it is     *)
(* asked to run under, for any job: any number of pools, nodes and         *)
(* processes, any steps, frequencies, window of the controller, mode of    *)
(* the rollout and number of starts.                                       *)
(*                                                                         *)
(* NoiseAsConfigured speaks of the next operation alone.  The inductive    *)
(* invariant has three more parts.  The calls of a step come in the order  *)
(* of fit, so that the critic's values, with which the controller is       *)
(* updated, come once in a step.  The controller's average is over the     *)
(* steps of this run before, and the noise of the step was made with its   *)
(* scale.  And each process keeps to a contract in all the calls it has    *)
(* received, of which the analyses of earlier steps may still be some.     *)
(*                                                                         *)
(* And proof that a checkpoint is found when the job is started again on   *)
(* the nodes it was on (FilesFound).  The files are there for the step the *)
(* tracker names because the driver writes it last, when every process has *)
(* saved: the invariant says, from the call that saves to the tracker,     *)
(* whose files are there and who has yet to save.                          *)
(*                                                                         *)
(* How to prove something of the calls of a process.  A contract is a      *)
(* record of the states of a process that matter, the moves the operations *)
(* make between them, the states in which an operation is right, and the   *)
(* states in which a process may be between its calls.  A process that     *)
(* Works finds every operation of the calls it has received right where it *)
(* is then.  It keeps doing so with every operation, with a call it        *)
(* raises in, and with a call it receives, if that call keeps to the       *)
(* contract too: what a step of the system has to be checked for is each   *)
(* method alone, wherever the other processes are in theirs.               *)
(*                                                                         *)
(* Moves and right states are sets, not operators: what is said here of a  *)
(* contract can then be cited for any.                                     *)
(***************************************************************************)
EXTENDS NoisyTraining, WellFoundedInduction, SequenceTheorems, TLAPS

-----------------------------------------------------------------------------
\* Lists of operations

\* f goes through the states that the first k operations of l lead to.
Paths(K, l, k) ==
  {f \in [0..k -> K.states] : \A i \in 1..k : <<l[i], f[i - 1], f[i]>> \in K.moves}

\* From the states of P, every operation of l finds a state it is right in, and the
\* last one leaves a state of Q.
Leads(K, l, P, Q) ==
  \A k \in 0..Len(l) : \A f \in Paths(K, l, k) : f[0] \in P =>
    IF k = Len(l) THEN f[k] \in Q ELSE <<l[k + 1], f[k]>> \in K.right

\* A set of naturals that is not empty has a least element.
LEMMA LeastOf ==
  ASSUME NEW S \in SUBSET Nat, S # {}
  PROVE  \E m \in S : \A n \in S : m <= n
<1>1. PICK m \in S : \A n \in S : ~(<<n, m>> \in OpToRel(<, Nat))
  BY NatLessThanWellFounded, WFMin, Zenon
<1>2. \A n \in S : ~(n < m)
  BY <1>1 DEF OpToRel
<1> QED
  BY <1>2

\* The first operation is right where the process is.
LEMMA LeadsHead ==
  ASSUME NEW K, NEW O, NEW l \in Seq(O), Len(l) > 0, NEW s \in K.states, NEW Q, Leads(K, l, {s}, Q)
  PROVE  <<l[1], s>> \in K.right
<1> DEFINE f == [i \in 0..0 |-> s]
<1>1. f \in Paths(K, l, 0) /\ f[0] = s
  BY DEF Paths
<1>2. 0 \in 0..Len(l) /\ 0 # Len(l) /\ 0 + 1 = 1
  OBVIOUS
<1> HIDE DEF f
<1> QED
  BY <1>1, <1>2 DEF Leads

\* After the first operation the rest still leads to the same states.
LEMMA LeadsTail ==
  ASSUME NEW K, NEW O, NEW l \in Seq(O), Len(l) > 0, NEW s \in K.states, NEW t \in K.states, NEW Q,
         Leads(K, l, {s}, Q), <<l[1], s, t>> \in K.moves
  PROVE  Leads(K, Tail(l), {t}, Q)
<1> SUFFICES ASSUME NEW k \in 0..Len(Tail(l)), NEW f \in Paths(K, Tail(l), k), f[0] = t
             PROVE  IF k = Len(Tail(l)) THEN f[k] \in Q ELSE <<Tail(l)[k + 1], f[k]>> \in K.right
  BY DEF Leads
<1>1. /\ Len(l) \in Nat /\ Len(Tail(l)) = Len(l) - 1 /\ k \in Nat
      /\ \A i \in 1..(Len(l) - 1) : Tail(l)[i] = l[i + 1]
  OBVIOUS
<1>2. /\ \A i \in 0..k : f[i] \in K.states
      /\ \A i \in 1..k : <<Tail(l)[i], f[i - 1], f[i]>> \in K.moves
  BY DEF Paths
<1> DEFINE g == [i \in 0..(k + 1) |-> IF i = 0 THEN s ELSE f[i - 1]]
<1>3. /\ g \in [0..(k + 1) -> K.states] /\ g[0] = s
      /\ \A i \in 0..k : g[i + 1] = f[i]
  <2>1. \A i \in 1..(k + 1) : i - 1 \in 0..k
    BY <1>1
  <2> QED
    BY <2>1, <1>1, <1>2
<1> HIDE DEF g
<1>4. ASSUME NEW i \in 1..(k + 1) PROVE <<l[i], g[i - 1], g[i]>> \in K.moves
  <2>1. CASE i = 1
    <3>1. g[1] = f[0] /\ g[0] = s
      BY <1>1, <1>3
    <3> QED
      BY <2>1, <3>1
  <2>2. CASE i # 1
    <3> DEFINE j == i - 1
    <3>1. j \in 1..k /\ j - 1 \in 0..k /\ j \in 0..k /\ j + 1 = i /\ (j - 1) + 1 = j /\ j \in 1..(Len(l) - 1)
      BY <2>2, <1>1
    <3>2. Tail(l)[j] = l[i] /\ g[j] = f[j - 1] /\ g[i] = f[j]
      BY <3>1, <1>1, <1>3
    <3>3. <<Tail(l)[j], f[j - 1], f[j]>> \in K.moves
      BY <3>1, <1>2
    <3> QED
      BY <3>2, <3>3
  <2> QED
    BY <2>1, <2>2
<1>5. g \in Paths(K, l, k + 1) /\ k + 1 \in 0..Len(l)
  BY <1>1, <1>3, <1>4 DEF Paths
<1>6. IF k + 1 = Len(l) THEN g[k + 1] \in Q ELSE <<l[(k + 1) + 1], g[k + 1]>> \in K.right
  BY <1>3, <1>5 DEF Leads
<1>7. g[k + 1] = f[k]
  BY <1>1, <1>3
<1> QED
  BY <1>1, <1>6, <1>7

\* Two lists, one after the other.
LEMMA LeadsConcat ==
  ASSUME NEW K, NEW O, NEW a \in Seq(O), NEW b \in Seq(O), NEW P, NEW Q, NEW U,
         Leads(K, a, P, Q), Leads(K, b, Q, U)
  PROVE  Leads(K, a \o b, P, U)
<1> DEFINE c == a \o b
<1>1. /\ Len(a) \in Nat /\ Len(b) \in Nat /\ Len(c) = Len(a) + Len(b)
      /\ \A i \in 1..Len(a) : c[i] = a[i]
      /\ \A i \in 1..Len(b) : c[Len(a) + i] = b[i]
  OBVIOUS
<1> HIDE DEF c
<1> SUFFICES ASSUME NEW k \in 0..Len(c), NEW f \in Paths(K, c, k), f[0] \in P
             PROVE  IF k = Len(c) THEN f[k] \in U ELSE <<c[k + 1], f[k]>> \in K.right
  BY DEF Leads, c
<1>2. /\ k \in Nat /\ f \in [0..k -> K.states]
      /\ \A i \in 1..k : <<c[i], f[i - 1], f[i]>> \in K.moves
  BY <1>1 DEF Paths
<1>3. CASE k < Len(a)
  <2>1. \A i \in 1..k : a[i] = c[i]
    BY <1>1, <1>2, <1>3
  <2>2. f \in Paths(K, a, k) /\ k \in 0..Len(a)
    BY <2>1, <1>1, <1>2, <1>3 DEF Paths
  <2>3. <<a[k + 1], f[k]>> \in K.right
    BY <2>2, <1>3 DEF Leads
  <2>4. k + 1 \in 1..Len(a) /\ k # Len(c)
    BY <1>1, <1>2, <1>3
  <2> QED
    BY <2>3, <2>4, <1>1
<1>4. CASE k >= Len(a)
  <2> DEFINE m == Len(a)
             g == [i \in 0..m |-> f[i]]
             n == k - m
             h == [i \in 0..n |-> f[m + i]]
  <2>1. m \in Nat /\ n \in 0..Len(b) /\ n \in Nat /\ m + n = k
    BY <1>1, <1>2, <1>4
  <2>2. g \in [0..m -> K.states] /\ h \in [0..n -> K.states]
    BY <2>1, <1>2
  <2>3. g \in Paths(K, a, m)
    <3>1. ASSUME NEW i \in 1..m PROVE <<a[i], g[i - 1], g[i]>> \in K.moves
      <4>1. i \in 1..k /\ i \in 0..m /\ i - 1 \in 0..m /\ c[i] = a[i]
        BY <1>1, <1>2, <1>4
      <4> QED
        BY <4>1, <1>2
    <3> HIDE DEF g
    <3> QED
      BY <3>1, <2>2 DEF Paths
  <2>4. f[m] \in Q
    <3>1. g[0] = f[0] /\ g[m] = f[m]
      BY <2>1
    <3> HIDE DEF g
    <3>2. m \in 0..Len(a)
      BY <2>1
    <3>3. g[m] \in Q
      BY <2>3, <3>1, <3>2 DEF Leads
    <3> QED
      BY <3>1, <3>3
  <2>5. h \in Paths(K, b, n)
    <3>1. ASSUME NEW i \in 1..n PROVE <<b[i], h[i - 1], h[i]>> \in K.moves
      <4> HIDE DEF m, n, h
      <4>0. i \in 1..Len(b)
        BY <2>1, <1>1
      <4>1. m + i \in 1..k /\ i \in 0..n /\ i - 1 \in 0..n /\ c[m + i] = b[i] /\ m + (i - 1) = (m + i) - 1
        BY <4>0, <2>1, <1>1 DEF m
      <4>2. <<c[m + i], f[(m + i) - 1], f[m + i]>> \in K.moves
        BY <4>1, <1>2
      <4>3. h[i] = f[m + i] /\ h[i - 1] = f[m + (i - 1)]
        BY <4>1 DEF h
      <4> QED
        BY <4>1, <4>2, <4>3
    <3> HIDE DEF h
    <3> QED
      BY <3>1, <2>2 DEF Paths
  <2>6. h[0] = f[m] /\ h[n] = f[k]
    BY <2>1
  <2> HIDE DEF h, n, m, g
  <2>7. IF n = Len(b) THEN h[n] \in U ELSE <<b[n + 1], h[n]>> \in K.right
    BY <2>1, <2>4, <2>5, <2>6 DEF Leads
  <2>8. CASE n = Len(b)
    <3>1. k = Len(c)
      BY <2>1, <2>8, <1>1 DEF m
    <3> QED
      BY <3>1, <2>6, <2>7, <2>8
  <2>9. CASE n # Len(b)
    <3>1. n + 1 \in 1..Len(b) /\ m + (n + 1) = k + 1 /\ k # Len(c)
      BY <2>1, <2>9, <1>1 DEF m
    <3>2. c[k + 1] = b[n + 1]
      BY <3>1, <1>1 DEF m
    <3> QED
      BY <3>1, <3>2, <2>6, <2>7, <2>9
  <2> QED
    BY <2>8, <2>9
<1> QED
  BY <1>1, <1>2, <1>3, <1>4

\* Operations that are right in every state of P, and stay in P.
LEMMA LeadsKeeps ==
  ASSUME NEW K, NEW O, NEW l \in Seq(O), NEW P,
         \A op \in O, s \in P : <<op, s>> \in K.right
                                /\ \A t \in K.states : <<op, s, t>> \in K.moves => t \in P
  PROVE  Leads(K, l, P, P)
<1> SUFFICES ASSUME NEW k \in 0..Len(l), NEW f \in Paths(K, l, k), f[0] \in P
             PROVE  IF k = Len(l) THEN f[k] \in P ELSE <<l[k + 1], f[k]>> \in K.right
  BY DEF Leads
<1>1. /\ Len(l) \in Nat /\ k \in Nat
      /\ \A i \in 1..k : <<l[i], f[i - 1], f[i]>> \in K.moves
      /\ \A i \in 1..Len(l) : l[i] \in O
      /\ \A i \in 0..k : f[i] \in K.states
  BY DEF Paths
<1>2. \A i \in 0..k : f[i] \in P
  <2> DEFINE B == {i \in 0..k : f[i] \notin P}
  <2> SUFFICES ASSUME B # {} PROVE FALSE
    OBVIOUS
  <2>1. B \in SUBSET Nat
    BY <1>1
  <2> HIDE DEF B
  <2>2. PICK m \in B : \A n \in B : m <= n
    BY <2>1, LeastOf
  <2>3. m \in 0..k /\ f[m] \notin P /\ m # 0
    BY <2>2 DEF B
  <2>4. m - 1 \in 0..k /\ m \in 1..k /\ m \in 1..Len(l) /\ ~(m <= m - 1)
    BY <2>3, <1>1
  <2>5. f[m - 1] \in P
    BY <2>2, <2>4 DEF B
  <2>6. <<l[m], f[m - 1], f[m]>> \in K.moves /\ l[m] \in O /\ f[m] \in K.states
    BY <2>3, <2>4, <1>1
  <2> QED
    BY <2>3, <2>5, <2>6
<1>3. f[k] \in P /\ (k # Len(l) => l[k + 1] \in O)
  BY <1>1, <1>2
<1> QED
  BY <1>3

\* A single operation.
LEMMA LeadsOne ==
  ASSUME NEW K, NEW op, NEW P, NEW Q,
         \A s \in P : /\ <<op, s>> \in K.right
                      /\ \A t \in K.states : <<op, s, t>> \in K.moves => t \in Q
  PROVE  Leads(K, <<op>>, P, Q)
<1> DEFINE l == <<op>>
<1>1. Len(l) = 1 /\ l[1] = op
  OBVIOUS
<1> HIDE DEF l
<1> SUFFICES ASSUME NEW k \in 0..Len(l), NEW f \in Paths(K, l, k), f[0] \in P
             PROVE  IF k = Len(l) THEN f[k] \in Q ELSE <<l[k + 1], f[k]>> \in K.right
  BY DEF Leads, l
<1>2. CASE k = 0
  BY <1>1, <1>2
<1>3. CASE k = 1
  <2>1. <<l[1], f[1 - 1], f[1]>> \in K.moves /\ f[1] \in K.states /\ 1 - 1 = 0
    BY <1>3 DEF Paths
  <2> QED
    BY <1>1, <1>3, <2>1
<1> QED
  BY <1>1, <1>2, <1>3

\* Two operations.
LEMMA LeadsTwo ==
  ASSUME NEW K, NEW op, NEW oq, NEW P, NEW Q, NEW U, Leads(K, <<op>>, P, Q), Leads(K, <<oq>>, Q, U)
  PROVE  Leads(K, <<op, oq>>, P, U)
<1> DEFINE O == {op, oq}
           a == <<op>>
           b == <<oq>>
           c == <<op, oq>>
           d == a \o b
<1>1. a \in Seq(O) /\ b \in Seq(O)
  OBVIOUS
<1>2. Leads(K, d, P, U)
  <2> HIDE DEF O, a, b
  <2>1. Leads(K, a, P, Q) /\ Leads(K, b, Q, U)
    BY DEF a, b
  <2> QED
    BY <1>1, <2>1, LeadsConcat
<1>3. Len(d) = 2 /\ d[1] = op /\ d[2] = oq
  OBVIOUS
<1>4. Len(c) = 2 /\ c[1] = op /\ c[2] = oq
  OBVIOUS
<1> HIDE DEF c, d, O
<1>5. \A k \in 0..2 : Paths(K, c, k) = Paths(K, d, k)
  BY <1>3, <1>4 DEF Paths
<1>6. \A k \in 0..2 : k # 2 => c[k + 1] = d[k + 1]
  BY <1>3, <1>4
<1>7. Leads(K, c, P, U)
  BY <1>2, <1>3, <1>4, <1>5, <1>6 DEF Leads
<1> QED
  BY <1>7 DEF c

\* No operation at all.
LEMMA LeadsNothing ==
  ASSUME NEW K, NEW P, NEW Q, P \subseteq Q
  PROVE  Leads(K, <<>>, P, Q)
<1>1. Len(<<>>) = 0
  OBVIOUS
<1> QED
  BY <1>1 DEF Leads, Paths

\* From fewer states, or to more of them.
LEMMA LeadsMore ==
  ASSUME NEW K, NEW l, NEW P, NEW Q, NEW A, NEW B, A \subseteq P, Q \subseteq B, Leads(K, l, P, Q)
  PROVE  Leads(K, l, A, B)
BY DEF Leads

-----------------------------------------------------------------------------
\* The calls of a process

\* Lists of at least one operation.  What is left of a process's calls when its
\* next operation is done.
Lists(O) == {l \in Seq(O) : Len(l) > 0}
RestOf(q) == IF Len(Head(q)) = 1 THEN Tail(q) ELSE <<Tail(Head(q))>> \o Tail(q)

\* Where a process is to be after its call at place p: the last call leaves it as
\* those before, or in a state of its own.
OfCall(K, q, p) == IF p = Len(q) THEN K.after ELSE K.idle

\* A process in state s with the calls q does every operation of them where it is
\* right, and is in such a state after each call.
Works(K, q, s) ==
  /\ Len(q) = 0 => s \in K.after
  /\ Len(q) > 0 => Leads(K, q[1], {s}, OfCall(K, q, 1))
  /\ \A p \in 2..Len(q) : Leads(K, q[p], K.idle, OfCall(K, q, p))

\* Two sequences, one after the other.
LEMMA ConcatIs ==
  ASSUME NEW S, NEW a \in Seq(S), NEW b \in Seq(S)
  PROVE  /\ Len(a) \in Nat /\ Len(b) \in Nat /\ a \o b \in Seq(S) /\ Len(a \o b) = Len(a) + Len(b)
         /\ \A i \in 1..Len(a) : (a \o b)[i] = a[i]
         /\ \A i \in 1..Len(b) : (a \o b)[Len(a) + i] = b[i]
OBVIOUS

\* A sequence with one element before it.
LEMMA ConsIs ==
  ASSUME NEW S, NEW x \in S, NEW u \in Seq(S)
  PROVE  /\ <<x>> \o u \in Seq(S) /\ Len(<<x>> \o u) = Len(u) + 1 /\ (<<x>> \o u)[1] = x
         /\ \A p \in 2..(Len(u) + 1) : (<<x>> \o u)[p] = u[p - 1]
<1>1. ASSUME NEW h \in Seq(S), Len(h) = 1, h[1] = x
      PROVE  /\ h \o u \in Seq(S) /\ Len(h \o u) = Len(u) + 1 /\ (h \o u)[1] = x
             /\ \A p \in 2..(Len(u) + 1) : (h \o u)[p] = u[p - 1]
  <2>1. /\ Len(u) \in Nat /\ h \o u \in Seq(S) /\ Len(h \o u) = 1 + Len(u)
        /\ (h \o u)[1] = x /\ \A i \in 1..Len(u) : (h \o u)[1 + i] = u[i]
    <3>1. Len(u) \in Nat /\ h \o u \in Seq(S)
      BY ConcatIs
    <3>2. Len(h \o u) = 1 + Len(u)
      <4>1. Len(h \o u) = Len(h) + Len(u)
        BY ConcatIs
      <4> QED
        BY <4>1, <1>1
    <3>3. (h \o u)[1] = x
      BY <1>1, ConcatIs
    <3>4. \A i \in 1..Len(u) : (h \o u)[1 + i] = u[i]
      <4>1. \A i \in 1..Len(u) : (h \o u)[Len(h) + i] = u[i]
        BY ConcatIs
      <4> QED
        BY <4>1, <1>1
    <3> QED
      BY <3>1, <3>2, <3>3, <3>4
  <2>2. \A p \in 2..(Len(u) + 1) : p - 1 \in 1..Len(u) /\ 1 + (p - 1) = p
    BY <2>1
  <2> QED
    BY <2>1, <2>2
<1>2. <<x>> \in Seq(S) /\ Len(<<x>>) = 1 /\ <<x>>[1] = x
  OBVIOUS
<1> QED
  BY <1>1, <1>2

\* What is left of the calls after an operation.
LEMMA RestIs ==
  ASSUME NEW O, NEW q \in Seq(Lists(O)), Len(q) > 0
  PROVE  /\ RestOf(q) \in Seq(Lists(O)) /\ q[1] \in Seq(O) /\ Head(q) = q[1] /\ Len(q[1]) \in Nat \ {0}
         /\ Head(Head(q)) = q[1][1] /\ q[1][1] \in O
         /\ Len(q[1]) = 1 => /\ Len(RestOf(q)) = Len(q) - 1
                             /\ \A p \in 1..(Len(q) - 1) : RestOf(q)[p] = q[p + 1]
         /\ Len(q[1]) # 1 => /\ Len(RestOf(q)) = Len(q) /\ RestOf(q)[1] = Tail(q[1])
                             /\ \A p \in 2..Len(q) : RestOf(q)[p] = q[p]
<1>1. /\ Head(q) = q[1] /\ Len(q) \in Nat \ {0} /\ q[1] \in Lists(O)
      /\ Tail(q) \in Seq(Lists(O)) /\ Len(Tail(q)) = Len(q) - 1
      /\ \A p \in 1..(Len(q) - 1) : Tail(q)[p] = q[p + 1]
  OBVIOUS
<1>2. q[1] \in Seq(O) /\ Len(q[1]) \in Nat \ {0}
  BY <1>1 DEF Lists
<1> DEFINE l == q[1]
<1> HIDE DEF l
<1>3. /\ Head(l) = l[1] /\ l[1] \in O /\ Tail(l) \in Seq(O) /\ Len(Tail(l)) = Len(l) - 1
      /\ Len(l) \in Nat \ {0} /\ l = q[1]
  BY <1>2 DEF l
<1>4. CASE Len(l) = 1
  BY <1>1, <1>2, <1>3, <1>4 DEF RestOf
<1>5. CASE Len(l) # 1
  <2>1. Tail(l) \in Lists(O)
    <3>1. \A n \in Nat \ {0} : n # 1 => n - 1 > 0
      OBVIOUS
    <3>2. Len(l) - 1 > 0
      BY <3>1, <1>3, <1>5
    <3> QED
      BY <3>2, <1>3 DEF Lists
  <2> DEFINE u == Tail(q)
             r == <<Tail(l)>> \o u
  <2>2. RestOf(q) = r
    BY <1>1, <1>3, <1>5 DEF RestOf
  <2>3. u \in Seq(Lists(O)) /\ Len(u) = Len(q) - 1 /\ Len(q) \in Nat
    BY <1>1
  <2>4. /\ r \in Seq(Lists(O)) /\ Len(r) = Len(u) + 1 /\ r[1] = Tail(l)
        /\ \A p \in 2..(Len(u) + 1) : r[p] = u[p - 1]
    <3> HIDE DEF u
    <3> QED
      BY <2>1, <2>3, ConsIs
  <2> HIDE DEF r
  <2>5. ASSUME NEW p \in 2..Len(q) PROVE r[p] = q[p]
    <3>1. p - 1 \in 1..(Len(q) - 1) /\ (p - 1) + 1 = p /\ p \in 2..(Len(u) + 1)
      BY <2>3
    <3> QED
      BY <3>1, <2>4, <1>1
  <2>6. Len(r) = Len(q)
    BY <2>3, <2>4
  <2> HIDE DEF u
  <2>7. Len(q[1]) # 1 /\ q[1][1] \in O /\ q[1] \in Seq(O) /\ Head(Head(q)) = q[1][1]
    BY <1>1, <1>2, <1>3, <1>5
  <2> QED
    BY <1>1, <1>3, <2>2, <2>4, <2>5, <2>6, <2>7
<1> QED
  BY <1>4, <1>5

\* The next operation is right where the process is.
LEMMA WorksNext ==
  ASSUME NEW K, NEW O, NEW q \in Seq(Lists(O)), Len(q) > 0, NEW s \in K.states, Works(K, q, s)
  PROVE  <<q[1][1], s>> \in K.right
<1>1. q[1] \in Seq(O) /\ Len(q[1]) > 0
  BY RestIs
<1>2. Leads(K, q[1], {s}, OfCall(K, q, 1))
  BY DEF Works
<1> QED
  BY <1>1, <1>2, LeadsHead

\* It does the next operation.
LEMMA WorksStep ==
  ASSUME NEW K, NEW O, NEW q \in Seq(Lists(O)), Len(q) > 0, NEW s \in K.states, NEW t \in K.states,
         Works(K, q, s), <<q[1][1], s, t>> \in K.moves
  PROVE  Works(K, RestOf(q), t)
<1> DEFINE r == RestOf(q)
           l == q[1]
           Q == OfCall(K, q, 1)
<1>1. /\ r \in Seq(Lists(O)) /\ l \in Seq(O) /\ Len(l) \in Nat \ {0} /\ Len(q) \in Nat \ {0}
      /\ Len(l) = 1 => Len(r) = Len(q) - 1 /\ \A p \in 1..(Len(q) - 1) : r[p] = q[p + 1]
      /\ Len(l) # 1 => Len(r) = Len(q) /\ r[1] = Tail(l) /\ \A p \in 2..Len(q) : r[p] = q[p]
  <2>1. Len(q) \in Nat \ {0}
    OBVIOUS
  <2> QED
    BY <2>1, RestIs
<1>2. Leads(K, l, {s}, Q)
  BY DEF Works
<1> HIDE DEF r, Q
<1>3. Leads(K, Tail(l), {t}, Q)
  <2> HIDE DEF l
  <2>1. <<l[1], s, t>> \in K.moves /\ Len(l) > 0 /\ l \in Seq(O)
    BY <1>1 DEF l
  <2> QED
    BY <1>2, <2>1, LeadsTail
<1> HIDE DEF l
<1>4. CASE Len(l) = 1
  <2>1. t \in Q
    <3>1. Len(Tail(l)) = 0 /\ 0 \in 0..Len(Tail(l))
      BY <1>1, <1>4
    <3> DEFINE f == [i \in 0..0 |-> t]
    <3>2. f \in Paths(K, Tail(l), 0) /\ f[0] = t
      BY DEF Paths
    <3> HIDE DEF f
    <3> QED
      BY <1>3, <3>1, <3>2 DEF Leads
  <2>2. /\ Len(r) = 0 <=> Len(q) = 1
        /\ \A p \in 1..Len(r) : p + 1 \in 2..Len(q) /\ r[p] = q[p + 1] /\ (p = Len(r) <=> p + 1 = Len(q))
    BY <1>1, <1>4
  <2>3. \A p \in 1..Len(r) : Leads(K, r[p], K.idle, OfCall(K, r, p))
    <3>1. \A p \in 2..Len(q) : Leads(K, q[p], K.idle, OfCall(K, q, p))
      BY DEF Works
    <3> QED
      BY <2>2, <3>1 DEF OfCall
  <2>4. Len(r) = 0 => t \in K.after
    BY <2>1, <2>2 DEF OfCall, Q
  <2>5. Len(r) > 0 => Leads(K, r[1], {t}, OfCall(K, r, 1))
    <3> SUFFICES ASSUME Len(r) > 0 PROVE Leads(K, r[1], {t}, OfCall(K, r, 1))
      OBVIOUS
    <3>1. 1 \in 1..Len(r) /\ Len(q) # 1
      BY <1>1, <2>2
    <3>2. t \in K.idle
      BY <2>1, <3>1 DEF OfCall, Q
    <3>3. Leads(K, r[1], K.idle, OfCall(K, r, 1))
      BY <2>3, <3>1
    <3> QED
      BY <3>2, <3>3 DEF Leads
  <2>6. \A p \in 2..Len(r) : p \in 1..Len(r)
    BY <1>1
  <2> QED
    BY <2>3, <2>4, <2>5, <2>6 DEF Works, r
<1>5. CASE Len(l) # 1
  <2>1. Len(r) = Len(q) /\ Len(r) > 0 /\ r[1] = Tail(l) /\ \A p \in 2..Len(q) : r[p] = q[p]
    BY <1>1, <1>5
  <2>2. \A p \in 2..Len(r) : Leads(K, r[p], K.idle, OfCall(K, r, p))
    BY <2>1 DEF Works, OfCall
  <2>3. Leads(K, r[1], {t}, OfCall(K, r, 1))
    BY <2>1, <1>3 DEF OfCall, Q
  <2> QED
    BY <2>1, <2>2, <2>3 DEF Works, r
<1> QED
  BY <1>4, <1>5

\* It drops the rest of a call.
LEMMA WorksDrop ==
  ASSUME NEW K, NEW O, NEW q \in Seq(Lists(O)), Len(q) > 0, NEW s, NEW t \in OfCall(K, q, 1),
         Works(K, q, s)
  PROVE  Works(K, Tail(q), t)
<1> DEFINE r == Tail(q)
<1>1. /\ Len(q) \in Nat \ {0} /\ Len(r) = Len(q) - 1
      /\ \A p \in 1..(Len(q) - 1) : r[p] = q[p + 1]
  OBVIOUS
<1> HIDE DEF r
<1>2. /\ Len(r) = 0 <=> Len(q) = 1
      /\ \A p \in 1..Len(r) : p + 1 \in 2..Len(q) /\ r[p] = q[p + 1] /\ (p = Len(r) <=> p + 1 = Len(q))
  BY <1>1
<1>3. \A p \in 1..Len(r) : Leads(K, r[p], K.idle, OfCall(K, r, p))
  <2>1. \A p \in 2..Len(q) : Leads(K, q[p], K.idle, OfCall(K, q, p))
    BY DEF Works
  <2> QED
    BY <1>2, <2>1 DEF OfCall
<1>4. Len(r) = 0 => t \in K.after
  BY <1>2 DEF OfCall
<1>5. Len(r) > 0 => Leads(K, r[1], {t}, OfCall(K, r, 1))
  <2> SUFFICES ASSUME Len(r) > 0 PROVE Leads(K, r[1], {t}, OfCall(K, r, 1))
    OBVIOUS
  <2>1. 1 \in 1..Len(r) /\ Len(q) # 1
    BY <1>1, <1>2
  <2>2. t \in K.idle
    BY <2>1 DEF OfCall
  <2>3. Leads(K, r[1], K.idle, OfCall(K, r, 1))
    BY <1>3, <2>1
  <2> QED
    BY <2>2, <2>3 DEF Leads
<1>6. \A p \in 2..Len(r) : p \in 1..Len(r)
  BY <1>1
<1> QED
  BY <1>3, <1>4, <1>5, <1>6 DEF Works, r

\* It receives one more call, which may leave it in other states than those before.
LEMMA WorksCall ==
  ASSUME NEW K, NEW L, NEW O, NEW q \in Seq(Lists(O)), NEW s, Works(K, q, s),
         K.after = K.idle,
         L.states = K.states, L.moves = K.moves, L.right = K.right, L.idle = K.idle,
         NEW l \in Lists(O), Leads(K, l, K.idle, L.after)
  PROVE  Works(L, Append(q, l), s)
<1> DEFINE r == Append(q, l)
<1>1. /\ Len(q) \in Nat /\ Len(r) = Len(q) + 1 /\ r[Len(q) + 1] = l
      /\ \A p \in 1..Len(q) : r[p] = q[p]
  OBVIOUS
<1> HIDE DEF r
<1>2. \A x, P, Q : Leads(L, x, P, Q) <=> Leads(K, x, P, Q)
  BY DEF Leads, Paths
<1>3. ASSUME NEW p \in 2..Len(r) PROVE Leads(L, r[p], L.idle, OfCall(L, r, p))
  <2>1. CASE p = Len(q) + 1
    BY <2>1, <1>1, <1>2 DEF OfCall
  <2>2. CASE p \in 2..Len(q)
    <3>1. Leads(K, q[p], K.idle, K.idle) /\ p # Len(r) /\ r[p] = q[p]
      BY <2>2, <1>1 DEF Works, OfCall
    <3> QED
      BY <3>1, <1>2 DEF OfCall
  <2> QED
    BY <1>1, <2>1, <2>2
<1>4. Leads(L, r[1], {s}, OfCall(L, r, 1))
  <2>1. CASE Len(q) = 0
    <3>1. r[1] = l /\ s \in K.idle /\ 1 = Len(r)
      BY <2>1, <1>1 DEF Works
    <3>2. Leads(K, l, {s}, L.after)
      BY <3>1 DEF Leads
    <3> QED
      BY <3>1, <3>2, <1>2 DEF OfCall
  <2>2. CASE Len(q) > 0
    <3>1. Leads(K, q[1], {s}, K.idle) /\ 1 # Len(r) /\ r[1] = q[1]
      BY <2>2, <1>1 DEF Works, OfCall
    <3> QED
      BY <3>1, <1>2 DEF OfCall
  <2> QED
    BY <2>1, <2>2, <1>1
<1>5. Len(r) # 0
  BY <1>1
<1> QED
  BY <1>3, <1>4, <1>5 DEF Works, r

\* What is right may change, as long as it stays so for the operations to come.
LEMMA WorksOther ==
  ASSUME NEW K, NEW L, NEW O, NEW q \in Seq(Lists(O)), NEW s, Works(K, q, s),
         L.states = K.states, L.moves = K.moves, L.idle = K.idle, L.after = K.after,
         \A p \in 1..Len(q) : \A i \in 1..Len(q[p]) : \A x \in K.states :
           <<q[p][i], x>> \in K.right => <<q[p][i], x>> \in L.right
  PROVE  Works(L, q, s)
<1>1. ASSUME NEW p \in 1..Len(q), NEW P, NEW Q, Leads(K, q[p], P, Q)
      PROVE  Leads(L, q[p], P, Q)
  <2> SUFFICES ASSUME NEW k \in 0..Len(q[p]), NEW f \in Paths(L, q[p], k), f[0] \in P
               PROVE  IF k = Len(q[p]) THEN f[k] \in Q ELSE <<q[p][k + 1], f[k]>> \in L.right
    BY DEF Leads
  <2>1. f \in Paths(K, q[p], k) /\ f[k] \in K.states
    <3>1. k \in 0..k
      BY RestIs
    <3> QED
      BY <3>1 DEF Paths
  <2>2. IF k = Len(q[p]) THEN f[k] \in Q ELSE <<q[p][k + 1], f[k]>> \in K.right
    BY <1>1, <2>1 DEF Leads
  <2>3. Len(q[p]) \in Nat
    BY DEF Lists
  <2>4. k # Len(q[p]) => k + 1 \in 1..Len(q[p])
    BY <2>3
  <2> QED
    BY <2>1, <2>2, <2>4
<1>2. Len(q) \in Nat /\ (Len(q) > 0 => 1 \in 1..Len(q)) /\ \A p \in 2..Len(q) : p \in 1..Len(q)
  OBVIOUS
<1>3. \A p : OfCall(L, q, p) = OfCall(K, q, p)
  BY DEF OfCall
<1>4. /\ Len(q) = 0 => s \in K.after
      /\ Len(q) > 0 => Leads(K, q[1], {s}, OfCall(K, q, 1))
      /\ \A p \in 2..Len(q) : Leads(K, q[p], K.idle, OfCall(K, q, p))
  BY DEF Works
<1>5. Len(q) > 0 => Leads(L, q[1], {s}, OfCall(L, q, 1))
  BY <1>1, <1>2, <1>3, <1>4
<1>6. \A p \in 2..Len(q) : Leads(L, q[p], L.idle, OfCall(L, q, p))
  BY <1>1, <1>2, <1>3, <1>4
<1> QED
  BY <1>4, <1>5, <1>6 DEF Works

\* A process without calls.
LEMMA WorksEmpty ==
  ASSUME NEW K, NEW q, Len(q) = 0, NEW s
  PROVE  Works(K, q, s) <=> s \in K.after
<1>1. ~(Len(q) > 0) /\ 2..Len(q) = {}
  OBVIOUS
<1> QED
  BY <1>1 DEF Works

-----------------------------------------------------------------------------
\* Operations and calls

CallNames ==
  {"init_critic", "init_actor", "init_engine", "generate", "resample", "validate", "wake_up", "sleep",
   "old_log_prob", "clean_log_prob", "analyze", "ref", "values", "update_critic", "update_actor",
   "save_actor", "save_critic", "load_actor", "load_critic", "track"}
\* The names of operations with a word for their argument, and of those that are
\* passes through a model.
WordOps ==
  {"load", "offload", "build", "build_engine", "build_manager", "start_engine", "wake", "sync", "to_gen",
   "sleep", "train", "to_train", "awake", "asleep", "unhook", "eval", "draw", "barrier"}
PassOps == {"generate", "forward", "update", "reference", "values", "update_critic"}
Parts == {"actor", "actor_optim", "critic", "critic_optim"}
Words == Parts \cup {"", "weights", "cache", "all", "before", "after", "loaded"}

\* Scales, noise, and what operations are for.
Scales == [of : Nat, over : SUBSET Nat]
Noises == SUBSET [kind : {"train", "validation"}, step : Nat, scale : Scales]
Whats == [for : CallNames, step : Nat]
Files == [role : Roles, step : Nat]
HookArgs == [where : {"actor", "engine"}, phase : {"eval", "train"}, noise : Noises]
Ops ==
  (WordOps \X Words) \cup (PassOps \X Whats) \cup ({"save", "restore"} \X Files) \cup ({"hook"} \X HookArgs)

\* A list of operations that leads the states of P to those of Q.
Does(K, l, P, Q) == l \in Seq(Ops) /\ Leads(K, l, P, Q)

\* Two lists of operations, one after the other.
LEMMA DoesConcat ==
  ASSUME NEW K, NEW a, NEW b, NEW P, NEW Q, NEW U, Does(K, a, P, Q), Does(K, b, Q, U)
  PROVE  Does(K, a \o b, P, U)
<1>1. a \in Seq(Ops) /\ b \in Seq(Ops) /\ Leads(K, a, P, Q) /\ Leads(K, b, Q, U)
  BY DEF Does
<1>2. a \o b \in Seq(Ops)
  BY <1>1
<1> QED
  BY <1>1, <1>2, LeadsConcat DEF Does

-----------------------------------------------------------------------------
\* Under which noise

\* Of a process: its hooks, and is its actor's module in training mode?
NoiseStates == [hooks : SUBSET HookArgs, training : BOOLEAN]

\* What an operation does to the hooks and the mode of the actor's module.
NoiseMoves ==
  {x \in Ops \X NoiseStates \X NoiseStates :
     /\ x[3].hooks = CASE x[1][1] = "hook" -> x[2].hooks \cup {x[1][2]} [] x[1][1] = "unhook" -> {}
                       [] OTHER -> x[2].hooks
     /\ x[3].training = CASE x[1][1] = "train" -> TRUE [] x[1][1] = "eval" -> FALSE
                          [] OTHER -> x[2].training}

\* Acting, of a state.
ActingIn(s, where) ==
  UNION {h.noise : h \in {k \in s.hooks :
    k.where = where /\ k.phase = IF where = "actor" /\ s.training THEN "train" ELSE "eval"}}

\* Where an operation is right: under the noise it is asked to run under; and hooks
\* are put where there are none.
NoiseRight ==
  {x \in Ops \X NoiseStates :
     /\ x[1][1] = "hook" => x[2].hooks = {}
     /\ x[1][1] = "generate" => ActingIn(x[2], "engine") = Asked(x[1][2])
     /\ x[1][1] \in {"forward", "update"} => ActingIn(x[2], "actor") = Asked(x[1][2])}

\* With these hooks; and in this mode.
Hooked(h) == {s \in NoiseStates : s.hooks = h}
InMode(h, m) == {s \in NoiseStates : s.hooks = h /\ s.training = m}

\* Between its calls a process has no hooks.
NoiseContract ==
  [states |-> NoiseStates, moves |-> NoiseMoves, right |-> NoiseRight, idle |-> Hooked({}), after |-> Hooked({})]

\* Operations that are no pass through the policy, and leave the hooks alone.
PlainOps == {op \in Ops : op[1] \notin {"hook", "unhook", "generate", "forward", "update"}}
\* Those that load no file.
FirmOps == {op \in PlainOps : op[1] # "restore"}

\* The parts of the contract, by name.
LEMMA NoiseContractIs ==
  /\ NoiseContract.states = NoiseStates /\ NoiseContract.moves = NoiseMoves
  /\ NoiseContract.right = NoiseRight /\ NoiseContract.idle = Hooked({}) /\ NoiseContract.after = Hooked({})
BY DEF NoiseContract

\* A list of plain operations leaves the hooks as they are.
LEMMA PlainKeep ==
  ASSUME NEW h, NEW l \in Seq(PlainOps)
  PROVE  Does(NoiseContract, l, Hooked(h), Hooked(h))
<1>1. ASSUME NEW op \in PlainOps, NEW s \in Hooked(h)
      PROVE  /\ <<op, s>> \in NoiseContract.right
             /\ \A t \in NoiseContract.states : <<op, s, t>> \in NoiseContract.moves => t \in Hooked(h)
  BY NoiseContractIs DEF PlainOps, Hooked, NoiseRight, NoiseMoves
<1>2. Leads(NoiseContract, l, Hooked(h), Hooked(h))
  BY <1>1, LeadsKeeps
<1>3. l \in Seq(Ops)
  <2>1. PlainOps \subseteq Ops
    BY DEF PlainOps
  <2> QED
    BY <2>1
<1> QED
  BY <1>2, <1>3 DEF Does

\* One operation.
LEMMA NoiseOne ==
  ASSUME NEW op \in Ops, NEW P, NEW Q, P \subseteq NoiseStates,
         \A s \in P : <<op, s>> \in NoiseRight /\ \A t \in NoiseStates : <<op, s, t>> \in NoiseMoves => t \in Q
  PROVE  Does(NoiseContract, <<op>>, P, Q)
<1>1. <<op>> \in Seq(Ops)
  OBVIOUS
<1>2. Leads(NoiseContract, <<op>>, P, Q)
  BY NoiseContractIs, LeadsOne
<1> QED
  BY <1>1, <1>2 DEF Does

\* A pass, behind the operation that sets the mode of the module, under the hooks h.
LEMMA NoisePass ==
  ASSUME NEW what \in Whats, NEW h, h \in SUBSET HookArgs,
         NEW mode \in {"train", "eval"}, NEW name \in {"forward", "update"},
         UNION {k.noise : k \in {j \in h : j.where = "actor" /\ j.phase = mode}} = Asked(what)
  PROVE  Does(NoiseContract, <<<<mode, "">>, <<name, what>>>>, Hooked(h), Hooked(h))
<1> DEFINE m == mode = "train"
           a == <<mode, "">>
           b == <<name, what>>
<1>1. a \in Ops /\ b \in Ops /\ a[1] = mode /\ b[1] = name /\ b[2] = what
  <2>1. mode \in WordOps /\ name \in PassOps /\ "" \in Words
    BY DEF WordOps, PassOps, Words
  <2> QED
    BY <2>1 DEF Ops
<1> HIDE DEF a, b
<1>2. Does(NoiseContract, <<a>>, Hooked(h), InMode(h, m))
  <2>1. \A s \in Hooked(h) : <<a, s>> \in NoiseRight
    BY <1>1 DEF Hooked, NoiseRight
  <2>2. \A s \in Hooked(h) : \A t \in NoiseStates : <<a, s, t>> \in NoiseMoves => t \in InMode(h, m)
    BY <1>1 DEF Hooked, NoiseMoves, InMode
  <2>3. Hooked(h) \subseteq NoiseStates
    BY DEF Hooked
  <2> QED
    BY <1>1, <2>1, <2>2, <2>3, NoiseOne
<1>3. Does(NoiseContract, <<b>>, InMode(h, m), Hooked(h))
  <2>1. ASSUME NEW s \in InMode(h, m) PROVE <<b, s>> \in NoiseRight
    <3>1. s.hooks = h /\ s.training = m /\ s \in NoiseStates
      BY DEF InMode
    <3>2. (IF "actor" = "actor" /\ s.training THEN "train" ELSE "eval") = mode
      BY <3>1
    <3>3. ActingIn(s, "actor") = Asked(b[2])
      BY <1>1, <3>1, <3>2 DEF ActingIn
    <3> QED
      BY <1>1, <3>1, <3>3 DEF NoiseRight
  <2>2. \A s \in InMode(h, m) : \A t \in NoiseStates : <<b, s, t>> \in NoiseMoves => t \in Hooked(h)
    BY <1>1 DEF Hooked, NoiseMoves, InMode
  <2>3. InMode(h, m) \subseteq NoiseStates
    BY DEF InMode
  <2> QED
    BY <1>1, <2>1, <2>2, <2>3, NoiseOne
<1>4. <<a, b>> \in Seq(Ops)
  BY <1>1
<1>5. Leads(NoiseContract, <<a, b>>, Hooked(h), Hooked(h))
  BY <1>2, <1>3, LeadsTwo DEF Does
<1> QED
  BY <1>4, <1>5 DEF Does, a, b

-----------------------------------------------------------------------------
\* The methods under their noise

\* The hooks there are while the noise is asked for.
HooksOf(where, ph, n) == IF n = {} THEN {} ELSE {[where |-> where, phase |-> ph, noise |-> n]}

\* They are hooks, and their noise in the mode they are for is n.
LEMMA HooksOfIs ==
  ASSUME NEW where \in {"actor", "engine"}, NEW ph \in {"eval", "train"}, NEW n \in Noises
  PROVE  /\ HooksOf(where, ph, n) \in SUBSET HookArgs
         /\ UNION {k.noise : k \in {j \in HooksOf(where, ph, n) : j.where = where /\ j.phase = ph}} = n
<1>1. CASE n = {}
  BY <1>1 DEF HooksOf
<1>2. CASE n # {}
  <2> DEFINE h == [where |-> where, phase |-> ph, noise |-> n]
  <2>1. h \in HookArgs /\ h.where = where /\ h.phase = ph /\ h.noise = n
    BY DEF HookArgs
  <2>2. HooksOf(where, ph, n) = {h}
    BY <1>2 DEF HooksOf
  <2> HIDE DEF h
  <2>3. {j \in {h} : j.where = where /\ j.phase = ph} = {h}
    BY <2>1
  <2>4. UNION {k.noise : k \in {h}} = n
    BY <2>1
  <2> QED
    BY <2>1, <2>2, <2>3, <2>4
<1> QED
  BY <1>1, <1>2

\* The hooks are put on and taken off again (hidden_noise of the workers).
LEMMA NoiseHook ==
  ASSUME NEW where \in {"actor", "engine"}, NEW ph \in {"eval", "train"}, NEW n \in Noises
  PROVE  /\ Does(NoiseContract, Hook(where, ph, n), Hooked({}), Hooked(HooksOf(where, ph, n)))
         /\ Does(NoiseContract, Unhook(n), Hooked(HooksOf(where, ph, n)), Hooked({}))
<1>1. CASE n = {}
  <2>1. Hook(where, ph, n) = <<>> /\ Unhook(n) = <<>> /\ HooksOf(where, ph, n) = {} /\ <<>> \in Seq(Ops)
    BY <1>1 DEF Hook, Unhook, HooksOf
  <2>2. Leads(NoiseContract, <<>>, Hooked({}), Hooked({}))
    BY LeadsNothing
  <2> QED
    BY <2>1, <2>2 DEF Does
<1>2. CASE n # {}
  <2> DEFINE h == [where |-> where, phase |-> ph, noise |-> n]
             a == <<"hook", h>>
             b == <<"unhook", "">>
  <2>1. h \in HookArgs /\ a \in Ops /\ b \in Ops /\ a[1] = "hook" /\ a[2] = h /\ b[1] = "unhook"
    BY DEF HookArgs, Ops, WordOps, PassOps, Words
  <2>2. Hook(where, ph, n) = <<a>> /\ Unhook(n) = <<b>> /\ HooksOf(where, ph, n) = {h}
    BY <1>2 DEF Hook, Unhook, HooksOf
  <2> HIDE DEF a, b, h
  <2>3. Does(NoiseContract, <<a>>, Hooked({}), Hooked({h}))
    <3>1. \A s \in Hooked({}) : <<a, s>> \in NoiseRight
      BY <2>1 DEF Hooked, NoiseRight
    <3>2. \A s \in Hooked({}) : \A t \in NoiseStates : <<a, s, t>> \in NoiseMoves => t \in Hooked({h})
      BY <2>1 DEF Hooked, NoiseMoves
    <3>3. Hooked({}) \subseteq NoiseStates
      BY DEF Hooked
    <3> QED
      BY <2>1, <3>1, <3>2, <3>3, NoiseOne
  <2>4. Does(NoiseContract, <<b>>, Hooked({h}), Hooked({}))
    <3>1. \A s \in Hooked({h}) : <<b, s>> \in NoiseRight
      BY <2>1 DEF Hooked, NoiseRight
    <3>2. \A s \in Hooked({h}) : \A t \in NoiseStates : <<b, s, t>> \in NoiseMoves => t \in Hooked({})
      BY <2>1 DEF Hooked, NoiseMoves
    <3>3. Hooked({h}) \subseteq NoiseStates
      BY DEF Hooked
    <3> QED
      BY <2>1, <3>1, <3>2, <3>3, NoiseOne
  <2> QED
    BY <2>2, <2>3, <2>4
<1> QED
  BY <1>1, <1>2

\* Loading and offloading a part of the model is plain, and loads no file.
LEMMA FirmParts ==
  ASSUME NEW part \in Parts
  PROVE  Load(part) \in Seq(FirmOps) /\ Offload(part) \in Seq(FirmOps)
<1>1. <<"load", part>> \in FirmOps /\ <<"offload", part>> \in FirmOps
  BY DEF FirmOps, PlainOps, Ops, WordOps, PassOps, Words
<1>2. <<>> \in Seq(FirmOps) /\ <<<<"load", part>>>> \in Seq(FirmOps) /\ <<<<"offload", part>>>> \in Seq(FirmOps)
  BY <1>1
<1> QED
  BY <1>2 DEF Load, Offload

\* Lists that load no file are plain.
LEMMA FirmPlain ==
  ASSUME NEW l \in Seq(FirmOps)
  PROVE  l \in Seq(PlainOps)
<1>1. FirmOps \subseteq PlainOps
  BY DEF FirmOps
<1> QED
  BY <1>1

\* Loading and offloading a part of the model is plain.
LEMMA PlainParts ==
  ASSUME NEW part \in Parts
  PROVE  Load(part) \in Seq(PlainOps) /\ Offload(part) \in Seq(PlainOps)
BY FirmParts, FirmPlain

\* Short lists are sequences.
LEMMA ShortLists ==
  ASSUME NEW S, NEW a \in S, NEW b \in S, NEW c \in S
  PROVE  <<a>> \in Seq(S) /\ <<a, b>> \in Seq(S) /\ <<a, b, c>> \in Seq(S)
OBVIOUS

\* Changing between training and rollout loads no file either.
LEMMA FirmSwitch ==
  /\ Enter \in Seq(FirmOps) /\ Exit \in Seq(FirmOps)
<1>1. /\ <<"wake", "weights">> \in FirmOps /\ <<"wake", "cache">> \in FirmOps /\ <<"wake", "all">> \in FirmOps
      /\ <<"sync", "">> \in FirmOps /\ <<"to_gen", "">> \in FirmOps
      /\ <<"sleep", "">> \in FirmOps /\ <<"train", "">> \in FirmOps /\ <<"to_train", "">> \in FirmOps
  BY DEF FirmOps, PlainOps, Ops, WordOps, PassOps, Words, Parts
<1>2. Load("actor") \in Seq(FirmOps) /\ Offload("actor") \in Seq(FirmOps)
  BY FirmParts DEF Parts
<1>3. /\ <<<<"wake", "weights">>, <<"sync", "">>>> \in Seq(FirmOps) /\ <<<<"wake", "cache">>>> \in Seq(FirmOps)
      /\ <<<<"wake", "all">>, <<"sync", "">>>> \in Seq(FirmOps) /\ <<<<"to_gen", "">>>> \in Seq(FirmOps)
      /\ <<<<"sleep", "">>, <<"train", "">>, <<"to_train", "">>>> \in Seq(FirmOps)
  BY <1>1, ShortLists, Zenon
<1>4. \A a, b \in Seq(FirmOps) : a \o b \in Seq(FirmOps)
  OBVIOUS
<1> DEFINE M == IF job.tags THEN <<<<"wake", "weights">>, <<"sync", "">>>> \o Offload("actor") \o <<<<"wake", "cache">>>>
                            ELSE <<<<"wake", "all">>, <<"sync", "">>>> \o Offload("actor")
<1>5. M \in Seq(FirmOps)
  <2>1. CASE job.tags
    BY <2>1, <1>2, <1>3, <1>4, Zenon
  <2>2. CASE ~job.tags
    BY <2>2, <1>2, <1>3, <1>4, Zenon
  <2> QED
    BY <2>1, <2>2
<1>6. Enter = (Load("actor") \o M) \o <<<<"to_gen", "">>>>
  BY DEF Enter
<1> HIDE DEF M
<1>7. Enter \in Seq(FirmOps)
  BY <1>2, <1>3, <1>4, <1>5, <1>6, Zenon
<1> QED
  BY <1>3, <1>7 DEF Exit

\* So is changing between training and rollout.
LEMMA PlainSwitch ==
  /\ Enter \in Seq(PlainOps) /\ Exit \in Seq(PlainOps)
BY FirmSwitch, FirmPlain

\* generate_sequences: the engine generates under the noise asked for, and
\* leaves no hook behind.
LEMMA NoiseGenerate ==
  ASSUME NEW n \in Noises, NEW what \in Whats, Asked(what) = n
  PROVE  Does(NoiseContract, GenerateSequences(n, what), Hooked({}), Hooked({}))
<1> DEFINE h == HooksOf("engine", "eval", n)
           g == <<"generate", what>>
           K == NoiseContract
<1>1. h \in SUBSET HookArgs /\ UNION {k.noise : k \in {j \in h : j.where = "engine" /\ j.phase = "eval"}} = n
  BY HooksOfIs
<1>2. g \in Ops /\ g[1] = "generate" /\ g[2] = what
  BY DEF Ops, WordOps, PassOps
<1> HIDE DEF g, h
<1>3. Does(K, <<g>>, Hooked(h), Hooked(h))
  <2>1. ASSUME NEW s \in Hooked(h) PROVE <<g, s>> \in NoiseRight
    <3>1. s.hooks = h /\ s \in NoiseStates
      BY DEF Hooked
    <3>2. (IF "engine" = "actor" /\ s.training THEN "train" ELSE "eval") = "eval"
      OBVIOUS
    <3>3. ActingIn(s, "engine") = n
      BY <1>1, <3>1, <3>2 DEF ActingIn
    <3> QED
      BY <1>2, <3>1, <3>3 DEF NoiseRight
  <2>2. \A s \in Hooked(h) : \A t \in NoiseStates : <<g, s, t>> \in NoiseMoves => t \in Hooked(h)
    BY <1>2 DEF Hooked, NoiseMoves
  <2>3. Hooked(h) \subseteq NoiseStates
    BY DEF Hooked
  <2> QED
    BY <1>2, <2>1, <2>2, <2>3, NoiseOne
<1>4. Does(K, Enter, Hooked({}), Hooked({})) /\ Does(K, Exit, Hooked({}), Hooked({}))
  BY PlainSwitch, PlainKeep
<1>5. Does(K, Hook("engine", "eval", n), Hooked({}), Hooked(h)) /\ Does(K, Unhook(n), Hooked(h), Hooked({}))
  BY NoiseHook DEF h
<1> HIDE DEF K
<1>6. Does(K, Enter \o Hook("engine", "eval", n), Hooked({}), Hooked(h))
  BY <1>4, <1>5, DoesConcat
<1>7. Does(K, Enter \o Hook("engine", "eval", n) \o <<g>>, Hooked({}), Hooked(h))
  BY <1>3, <1>6, DoesConcat
<1>8. Does(K, Enter \o Hook("engine", "eval", n) \o <<g>> \o Unhook(n), Hooked({}), Hooked({}))
  BY <1>5, <1>7, DoesConcat
<1>9. Does(K, Enter \o Hook("engine", "eval", n) \o <<g>> \o Unhook(n) \o Exit, Hooked({}), Hooked({}))
  BY <1>4, <1>8, DoesConcat
<1> QED
  BY <1>9 DEF GenerateSequences, g, K

\* compute_log_prob: the same of the actor, in evaluation mode.
LEMMA NoiseLogProb ==
  ASSUME NEW n \in Noises, NEW what \in Whats, Asked(what) = n
  PROVE  Does(NoiseContract, ComputeLogProb(n, what), Hooked({}), Hooked({}))
<1> DEFINE h == HooksOf("actor", "eval", n)
           p == <<<<"eval", "">>, <<"forward", what>>>>
           K == NoiseContract
<1>1. h \in SUBSET HookArgs /\ UNION {k.noise : k \in {j \in h : j.where = "actor" /\ j.phase = "eval"}} = n
  BY HooksOfIs
<1> HIDE DEF h
<1>2. Does(K, p, Hooked(h), Hooked(h))
  BY <1>1, NoisePass
<1>3. Does(K, Load("actor"), Hooked({}), Hooked({})) /\ Does(K, Offload("actor"), Hooked({}), Hooked({}))
  BY PlainParts, PlainKeep DEF Parts
<1>4. Does(K, Hook("actor", "eval", n), Hooked({}), Hooked(h)) /\ Does(K, Unhook(n), Hooked(h), Hooked({}))
  BY NoiseHook DEF h
<1> HIDE DEF K, p
<1>5. Does(K, Load("actor") \o Hook("actor", "eval", n), Hooked({}), Hooked(h))
  BY <1>3, <1>4, DoesConcat
<1>6. Does(K, Load("actor") \o Hook("actor", "eval", n) \o p, Hooked({}), Hooked(h))
  BY <1>2, <1>5, DoesConcat
<1>7. Does(K, Load("actor") \o Hook("actor", "eval", n) \o p \o Unhook(n), Hooked({}), Hooked({}))
  BY <1>4, <1>6, DoesConcat
<1>8. Does(K, Load("actor") \o Hook("actor", "eval", n) \o p \o Unhook(n) \o Offload("actor"), Hooked({}), Hooked({}))
  BY <1>3, <1>7, DoesConcat
<1> QED
  BY <1>8 DEF ComputeLogProb, p, K

\* analyze_generation_policy: no noise is asked for, and there is none.
LEMMA NoiseAnalyze ==
  ASSUME NEW what \in Whats, Asked(what) = {}
  PROVE  Does(NoiseContract, AnalyzeGenerationPolicy(what), Hooked({}), Hooked({}))
<1> DEFINE p == <<<<"eval", "">>, <<"forward", what>>>>
           K == NoiseContract
<1>1. Does(K, p, Hooked({}), Hooked({}))
  <2>1. {} \in SUBSET HookArgs /\ UNION {k.noise : k \in {j \in {} : j.where = "actor" /\ j.phase = "eval"}} = {}
    OBVIOUS
  <2> QED
    BY <2>1, NoisePass
<1>2. Does(K, Load("actor"), Hooked({}), Hooked({})) /\ Does(K, Offload("actor"), Hooked({}), Hooked({}))
  BY PlainParts, PlainKeep DEF Parts
<1> HIDE DEF K, p
<1>3. Does(K, Load("actor") \o p, Hooked({}), Hooked({}))
  BY <1>1, <1>2, DoesConcat
<1>4. Does(K, Load("actor") \o p \o Offload("actor"), Hooked({}), Hooked({}))
  BY <1>2, <1>3, DoesConcat
<1> QED
  BY <1>4 DEF AnalyzeGenerationPolicy, p, K

\* update_actor: the actor in training mode.
LEMMA NoiseUpdate ==
  ASSUME NEW n \in Noises, NEW what \in Whats, Asked(what) = n
  PROVE  Does(NoiseContract, UpdateActor(n, what), Hooked({}), Hooked({}))
<1> DEFINE h == HooksOf("actor", "train", n)
           p == <<<<"train", "">>, <<"update", what>>>>
           K == NoiseContract
           A == Load("actor") \o Load("actor_optim")
           H == Hook("actor", "train", n)
<1>1. h \in SUBSET HookArgs /\ UNION {k.noise : k \in {j \in h : j.where = "actor" /\ j.phase = "train"}} = n
  BY HooksOfIs
<1> HIDE DEF h
<1>2. Does(K, p, Hooked(h), Hooked(h))
  BY <1>1, NoisePass
<1>3. /\ Does(K, Load("actor"), Hooked({}), Hooked({})) /\ Does(K, Offload("actor"), Hooked({}), Hooked({}))
      /\ Does(K, Load("actor_optim"), Hooked({}), Hooked({}))
      /\ Does(K, Offload("actor_optim"), Hooked({}), Hooked({}))
  BY PlainParts, PlainKeep DEF Parts
<1>4. Does(K, H, Hooked({}), Hooked(h)) /\ Does(K, Unhook(n), Hooked(h), Hooked({}))
  BY NoiseHook DEF h
<1> HIDE DEF K, p, H
<1>5. Does(K, A, Hooked({}), Hooked({}))
  BY <1>3, DoesConcat
<1> HIDE DEF A
<1>6. Does(K, A \o H, Hooked({}), Hooked(h))
  BY <1>4, <1>5, DoesConcat
<1>7. Does(K, A \o H \o p, Hooked({}), Hooked(h))
  BY <1>2, <1>6, DoesConcat
<1>8. Does(K, A \o H \o p \o Unhook(n), Hooked({}), Hooked({}))
  BY <1>4, <1>7, DoesConcat
<1>9. Does(K, A \o H \o p \o Unhook(n) \o Offload("actor"), Hooked({}), Hooked({}))
  BY <1>3, <1>8, DoesConcat
<1>10. Does(K, A \o H \o p \o Unhook(n) \o Offload("actor") \o Offload("actor_optim"), Hooked({}), Hooked({}))
  BY <1>3, <1>9, DoesConcat
<1> QED
  BY <1>10 DEF UpdateActor, A, H, p, K

\* The operations of the other methods, of which loading a checkpoint alone loads files.
LEMMA FirmMethods ==
  ASSUME NEW w \in Workers, NEW what \in Whats, NEW s \in Nat, NEW role \in Roles
  PROVE  /\ InitActor \in Seq(FirmOps) /\ InitCritic \in Seq(FirmOps) /\ InitEngine \in Seq(FirmOps)
         /\ WakeUp(w) \in Seq(FirmOps) /\ Sleep(w) \in Seq(FirmOps)
         /\ ComputeRefLogProb(what) \in Seq(FirmOps) /\ ComputeValues(what) \in Seq(FirmOps)
         /\ UpdateCritic(what) \in Seq(FirmOps)
         /\ SaveCheckpoint(role, s) \in Seq(FirmOps)
<1> DEFINE P == FirmOps
<1>1. /\ <<"build", "actor">> \in P /\ <<"build", "critic">> \in P /\ <<"build_engine", "">> \in P
      /\ <<"build_manager", "">> \in P /\ <<"start_engine", "">> \in P
      /\ <<"awake", "">> \in P /\ <<"asleep", "">> \in P
  BY DEF FirmOps, PlainOps, Ops, WordOps, PassOps, Words, Parts
<1>2. /\ <<"reference", what>> \in P /\ <<"values", what>> \in P /\ <<"draw", "">> \in P
      /\ <<"update_critic", what>> \in P
  BY DEF FirmOps, PlainOps, Ops, WordOps, PassOps, Words
<1>3. /\ <<"barrier", "before">> \in P /\ <<"barrier", "after">> \in P
      /\ <<"save", [role |-> role, step |-> s]>> \in P
  <2>1. [role |-> role, step |-> s] \in Files
    BY DEF Files
  <2> QED
    BY <2>1 DEF FirmOps, PlainOps, Ops, WordOps, PassOps, Words
<1>4. /\ \A part \in Parts : Load(part) \in Seq(P) /\ Offload(part) \in Seq(P)
      /\ role \in Parts /\ Optim(role) \in Parts
  BY FirmParts DEF Parts, Roles, Optim
<1>5. \A a, b \in Seq(P) : a \o b \in Seq(P)
  OBVIOUS
<1>6. "actor" \in Parts /\ "actor_optim" \in Parts /\ "critic" \in Parts /\ "critic_optim" \in Parts
  BY DEF Parts
<1>7. <<>> \in Seq(P)
  OBVIOUS
<1> HIDE DEF P
<1>8. /\ <<<<"build", "actor">>>> \in Seq(P) /\ <<<<"build", "critic">>>> \in Seq(P)
      /\ <<<<"build_engine", "">>>> \in Seq(P) /\ <<<<"build_manager", "">>>> \in Seq(P)
      /\ <<<<"start_engine", "">>>> \in Seq(P)
      /\ <<<<"awake", "">>>> \in Seq(P) /\ <<<<"asleep", "">>>> \in Seq(P)
      /\ <<<<"reference", what>>>> \in Seq(P) /\ <<<<"values", what>>>> \in Seq(P)
      /\ <<<<"draw", "">>, <<"update_critic", what>>>> \in Seq(P)
      /\ <<<<"barrier", "before">>, <<"save", [role |-> role, step |-> s]>>, <<"barrier", "after">>>> \in Seq(P)
  BY <1>1, <1>2, <1>3, ShortLists, Zenon
<1>9. InitActor \in Seq(P) /\ InitCritic \in Seq(P) /\ InitEngine \in Seq(P)
  <2>1. (IF job.mode = "sync" THEN <<<<"build_engine", "">>>> ELSE <<>>) \in Seq(P)
    BY <1>7, <1>8, Zenon
  <2> QED
    BY <2>1, <1>4, <1>5, <1>6, <1>8, Zenon DEF InitActor, InitCritic, InitEngine
<1>10. Enter \o <<<<"awake", "">>>> \in Seq(P) /\ Exit \o <<<<"asleep", "">>>> \in Seq(P)
  BY <1>5, <1>8, FirmSwitch, Zenon DEF P
<1>11. WakeUp(w) \in Seq(P) /\ Sleep(w) \in Seq(P)
  BY <1>7, <1>10, Zenon DEF WakeUp, Sleep
<1>12. /\ ComputeRefLogProb(what) \in Seq(P) /\ ComputeValues(what) \in Seq(P)
       /\ UpdateCritic(what) \in Seq(P)
  BY <1>4, <1>5, <1>6, <1>8, Zenon DEF ComputeRefLogProb, ComputeValues, UpdateCritic
<1>13. SaveCheckpoint(role, s) \in Seq(P)
  BY <1>4, <1>5, <1>8, Zenon DEF SaveCheckpoint
<1> QED
  BY <1>9, <1>11, <1>12, <1>13 DEF P

\* The operations of the other methods.
LEMMA PlainMethods ==
  ASSUME NEW w \in Workers, NEW what \in Whats, NEW s \in Nat, NEW role \in Roles
  PROVE  /\ InitActor \in Seq(PlainOps) /\ InitCritic \in Seq(PlainOps) /\ InitEngine \in Seq(PlainOps)
         /\ WakeUp(w) \in Seq(PlainOps) /\ Sleep(w) \in Seq(PlainOps)
         /\ ComputeRefLogProb(what) \in Seq(PlainOps) /\ ComputeValues(what) \in Seq(PlainOps)
         /\ UpdateCritic(what) \in Seq(PlainOps)
         /\ SaveCheckpoint(role, s) \in Seq(PlainOps) /\ LoadCheckpoint(role, s) \in Seq(PlainOps)
<1>1. /\ InitActor \in Seq(PlainOps) /\ InitCritic \in Seq(PlainOps) /\ InitEngine \in Seq(PlainOps)
      /\ WakeUp(w) \in Seq(PlainOps) /\ Sleep(w) \in Seq(PlainOps)
      /\ ComputeRefLogProb(what) \in Seq(PlainOps) /\ ComputeValues(what) \in Seq(PlainOps)
      /\ UpdateCritic(what) \in Seq(PlainOps) /\ SaveCheckpoint(role, s) \in Seq(PlainOps)
  BY FirmMethods, FirmPlain
<1>2. LoadCheckpoint(role, s) \in Seq(PlainOps)
  <2> DEFINE P == PlainOps
  <2>1. <<"barrier", "loaded">> \in P /\ <<"restore", [role |-> role, step |-> s]>> \in P
    <3>1. [role |-> role, step |-> s] \in Files
      BY DEF Files
    <3> QED
      BY <3>1 DEF PlainOps, Ops, WordOps, PassOps, Words
  <2>2. /\ \A part \in Parts : Load(part) \in Seq(P) /\ Offload(part) \in Seq(P)
        /\ role \in Parts /\ Optim(role) \in Parts
    BY PlainParts DEF Parts, Roles, Optim
  <2>3. /\ \A a, b \in Seq(P) : a \o b \in Seq(P)
        /\ <<>> \in Seq(P)
    OBVIOUS
  <2> HIDE DEF P
  <2>4. <<<<"barrier", "loaded">>>> \in Seq(P) /\ <<<<"restore", [role |-> role, step |-> s]>>>> \in Seq(P)
    BY <2>1, ShortLists, Zenon
  <2>5. (IF role = "critic" THEN <<<<"barrier", "loaded">>>> ELSE <<>>) \in Seq(P)
    BY <2>3, <2>4, Zenon
  <2>6. LoadCheckpoint(role, s) \in Seq(P)
    BY <2>2, <2>3, <2>4, <2>5, Zenon DEF LoadCheckpoint
  <2> QED
    BY <2>6 DEF P
<1> QED
  BY <1>1, <1>2

\* Does the call find the noise in its meta_info that it is asked to work under?
FindsAsked(call) ==
  call \in {"old_log_prob", "clean_log_prob", "update_actor"} \/ (call \in {"generate", "resample", "validate"} /\ job.mode = "sync") =>
    NoiseOf(call) \in Noises /\ NoiseOf(call) = Asked([for |-> call, step |-> step])

\* Every method, in a call that finds the noise it is asked to work under.
LEMMA NoiseMethod ==
  ASSUME NEW call \in CallNames \ {"track"}, NEW w \in Workers, step \in Nat, tracked \in Nat, FindsAsked(call)
  PROVE  Does(NoiseContract, Method(call, w), Hooked({}), Hooked({}))
<1> DEFINE what == [for |-> call, step |-> step]
           n == NoiseOf(call)
           Fine(l) == Does(NoiseContract, l, Hooked({}), Hooked({}))
<1>1. what \in Whats /\ what.for = call
  BY DEF Whats
<1>2. "actor" \in Roles /\ "critic" \in Roles
  BY DEF Roles
<1> HIDE DEF what, n
<1>3. \A l \in Seq(PlainOps) : Fine(l)
  BY PlainKeep
<1> HIDE DEF Fine
<1>4. CASE call \in {"generate", "resample", "validate"} /\ job.mode = "sync"
  <2>1. n \in Noises /\ n = Asked(what)
    BY <1>4 DEF FindsAsked, what, n
  <2>2. Method(call, w) = GenerateSequences(n, what)
    BY <1>4 DEF Method, what, n
  <2> QED
    BY <2>1, <2>2, <1>1, NoiseGenerate
<1>5. CASE call \in {"generate", "resample", "validate"} /\ job.mode # "sync"
  <2> DEFINE g == <<"generate", what>>
  <2>1. Method(call, w) = <<g>>
    BY <1>5 DEF Method, Serve, what
  <2>2. Asked(what) = {}
    BY <1>1, <1>5 DEF Asked
  <2>3. g \in Ops /\ g[1] = "generate" /\ g[2] = what
    BY <1>1 DEF Ops, WordOps, PassOps
  <2> HIDE DEF g
  <2>4. \A s \in Hooked({}) : <<g, s>> \in NoiseRight
    BY <2>2, <2>3 DEF Hooked, NoiseRight, ActingIn
  <2>5. \A s \in Hooked({}) : \A t \in NoiseStates : <<g, s, t>> \in NoiseMoves => t \in Hooked({})
    BY <2>3 DEF Hooked, NoiseMoves
  <2>6. Hooked({}) \subseteq NoiseStates
    BY DEF Hooked
  <2> QED
    BY <2>1, <2>3, <2>4, <2>5, <2>6, NoiseOne
<1>6. CASE call \in {"old_log_prob", "clean_log_prob"}
  <2>1. n \in Noises /\ n = Asked(what)
    BY <1>6 DEF FindsAsked, what, n
  <2>2. Method(call, w) = ComputeLogProb(n, what)
    BY <1>6 DEF Method, what, n
  <2> QED
    BY <2>1, <2>2, <1>1, NoiseLogProb
<1>7. CASE call = "update_actor"
  <2>1. n \in Noises /\ n = Asked(what)
    BY <1>7 DEF FindsAsked, what, n
  <2>2. Method(call, w) = UpdateActor(n, what)
    BY <1>7 DEF Method, what, n
  <2> QED
    BY <2>1, <2>2, <1>1, NoiseUpdate
<1>8. CASE call = "analyze"
  <2>1. Asked(what) = {}
    BY <1>1, <1>8 DEF Asked
  <2>2. Method(call, w) = AnalyzeGenerationPolicy(what)
    BY <1>8 DEF Method, what
  <2> QED
    BY <2>1, <2>2, <1>1, NoiseAnalyze
<1>9. CASE call \in {"init_critic", "init_actor", "init_engine"}
  <2>1. Method(call, w) \in {InitCritic, InitActor, InitEngine}
    BY <1>9 DEF Method
  <2> QED
    BY <2>1, <1>1, <1>2, <1>3, PlainMethods DEF Fine
<1>10. CASE call \in {"wake_up", "sleep"}
  <2>1. Method(call, w) \in {WakeUp(w), Sleep(w)}
    BY <1>10 DEF Method
  <2> QED
    BY <2>1, <1>1, <1>2, <1>3, PlainMethods DEF Fine
<1>11. CASE call \in {"ref", "values", "update_critic"}
  <2>1. Method(call, w) \in {ComputeRefLogProb(what), ComputeValues(what), UpdateCritic(what)}
    BY <1>11 DEF Method, what
  <2> QED
    BY <2>1, <1>1, <1>2, <1>3, PlainMethods DEF Fine
<1>12. CASE call \in {"save_actor", "save_critic"}
  <2>1. Method(call, w) \in {SaveCheckpoint("actor", step), SaveCheckpoint("critic", step)}
    BY <1>12 DEF Method
  <2> QED
    BY <2>1, <1>1, <1>2, <1>3, PlainMethods DEF Fine
<1>13. CASE call \in {"load_actor", "load_critic"}
  <2>1. Method(call, w) \in {LoadCheckpoint("actor", tracked), LoadCheckpoint("critic", tracked)}
    BY <1>13 DEF Method
  <2> QED
    BY <2>1, <1>1, <1>2, <1>3, PlainMethods DEF Fine
<1> QED
  BY <1>4, <1>5, <1>6, <1>7, <1>8, <1>9, <1>10, <1>11, <1>12, <1>13 DEF CallNames

-----------------------------------------------------------------------------
\* The calls of a step, in their order

\* The place of a call in its step.
Rank(call) ==
  CASE call = "init_critic" -> 1 [] call = "init_actor" -> 2 [] call = "init_engine" -> 3
    [] call = "load_actor" -> 4 [] call = "load_critic" -> 5 [] call = "generate" -> 6 [] call = "resample" -> 7
    [] call = "old_log_prob" -> 8 [] call = "clean_log_prob" -> 9 [] call = "ref" -> 10
    [] call = "values" -> 11 [] call = "update_critic" -> 12 [] call = "update_actor" -> 13
    [] call = "validate" -> 14 [] call = "analyze" -> 15
    [] call = "save_actor" -> 16 [] call = "save_critic" -> 17 [] call = "track" -> 18
    [] OTHER -> 0

\* Calls from rank lo up to below rank hi, in the order of their ranks, but for
\* wake_up and sleep.
Between(l, lo, hi) ==
  /\ l \in Seq(CallNames)
  /\ \A i \in 1..Len(l) : Rank(l[i]) # 0 => Rank(l[i]) >= lo /\ Rank(l[i]) < hi
  /\ \A i, j \in 1..Len(l) : i < j /\ Rank(l[i]) # 0 /\ Rank(l[j]) # 0 => Rank(l[i]) < Rank(l[j])

\* Is the call still to come?
Has(l, call) == \E i \in 1..Len(l) : l[i] = call

\* Ranks are naturals.
LEMMA RankNat ==
  ASSUME NEW call
  PROVE  Rank(call) \in 0..18
BY DEF Rank

\* Two lists whose ranks follow each other.
LEMMA BetweenConcat ==
  ASSUME NEW a, NEW b, NEW lo \in Nat, NEW mid \in Nat, NEW hi \in Nat,
         Between(a, lo, mid), Between(b, mid, hi), lo <= mid, mid <= hi
  PROVE  Between(a \o b, lo, hi)
<1>1. a \in Seq(CallNames) /\ b \in Seq(CallNames)
  BY DEF Between
<1> DEFINE c == a \o b
<1>2. /\ Len(a) \in Nat /\ Len(b) \in Nat /\ c \in Seq(CallNames) /\ Len(c) = Len(a) + Len(b)
      /\ \A i \in 1..Len(a) : c[i] = a[i]
      /\ \A i \in 1..Len(b) : c[Len(a) + i] = b[i]
  BY <1>1
<1> HIDE DEF c
<1>3. ASSUME NEW i \in 1..Len(c)
      PROVE  (i \in 1..Len(a) /\ c[i] = a[i]) \/ (i > Len(a) /\ i - Len(a) \in 1..Len(b) /\ c[i] = b[i - Len(a)])
  <2>1. CASE i <= Len(a)
    BY <1>2, <2>1
  <2>2. CASE i > Len(a)
    <3>1. i - Len(a) \in 1..Len(b) /\ Len(a) + (i - Len(a)) = i
      BY <1>2, <2>2
    <3> QED
      BY <3>1, <2>2, <1>2
  <2> QED
    BY <1>2, <2>1, <2>2
<1>4. \A x : Rank(x) \in Int
  BY RankNat
<1>5. ASSUME NEW i \in 1..Len(c), Rank(c[i]) # 0 PROVE Rank(c[i]) >= lo /\ Rank(c[i]) < hi
  <2>1. CASE i \in 1..Len(a) /\ c[i] = a[i]
    <3>1. Rank(a[i]) >= lo /\ Rank(a[i]) < mid
      BY <2>1, <1>5 DEF Between
    <3> QED
      BY <3>1, <2>1, <1>4
  <2>2. CASE i - Len(a) \in 1..Len(b) /\ c[i] = b[i - Len(a)]
    <3>1. Rank(b[i - Len(a)]) >= mid /\ Rank(b[i - Len(a)]) < hi
      BY <2>2, <1>5 DEF Between
    <3> QED
      BY <3>1, <2>2, <1>4
  <2> QED
    BY <1>3, <2>1, <2>2
<1>6. ASSUME NEW i \in 1..Len(c), NEW j \in 1..Len(c), i < j, Rank(c[i]) # 0, Rank(c[j]) # 0
      PROVE  Rank(c[i]) < Rank(c[j])
  <2>1. CASE i \in 1..Len(a) /\ c[i] = a[i] /\ j \in 1..Len(a) /\ c[j] = a[j]
    BY <2>1, <1>6 DEF Between
  <2>2. CASE i \in 1..Len(a) /\ c[i] = a[i] /\ j - Len(a) \in 1..Len(b) /\ c[j] = b[j - Len(a)]
    <3>1. Rank(a[i]) < mid /\ Rank(b[j - Len(a)]) >= mid
      BY <2>2, <1>6 DEF Between
    <3> QED
      BY <3>1, <2>2, <1>4
  <2>3. CASE /\ i - Len(a) \in 1..Len(b) /\ c[i] = b[i - Len(a)]
             /\ j - Len(a) \in 1..Len(b) /\ c[j] = b[j - Len(a)]
    <3>1. i - Len(a) < j - Len(a)
      BY <1>2, <1>6
    <3> QED
      BY <3>1, <2>3, <1>6 DEF Between
  <2>4. ~(i > Len(a) /\ j <= Len(a))
    BY <1>2, <1>6
  <2> QED
    BY <1>2, <1>3, <2>1, <2>2, <2>3, <2>4
<1> QED
  BY <1>2, <1>5, <1>6 DEF Between, c

\* A list that may be left out.
LEMMA BetweenWhen ==
  ASSUME NEW l, NEW lo, NEW hi, NEW c, Between(l, lo, hi)
  PROVE  Between(When(c, l), lo, hi)
<1>1. Between(<<>>, lo, hi)
  BY DEF Between
<1> QED
  BY <1>1 DEF When

\* Wider bounds.
LEMMA BetweenMore ==
  ASSUME NEW l, NEW lo \in Nat, NEW hi \in Nat, NEW a \in Nat, NEW b \in Nat, a <= lo, hi <= b, Between(l, lo, hi)
  PROVE  Between(l, a, b)
<1>1. \A x : Rank(x) \in Int
  BY RankNat
<1> QED
  BY <1>1 DEF Between

\* One call.
LEMMA BetweenOne ==
  ASSUME NEW call \in CallNames
  PROVE  Between(<<call>>, Rank(call), Rank(call) + 1)
<1>1. Rank(call) \in Nat
  BY RankNat
<1> DEFINE l == <<call>>
<1>2. l \in Seq(CallNames) /\ Len(l) = 1 /\ l[1] = call
  OBVIOUS
<1> HIDE DEF l
<1>3. \A i \in 1..Len(l) : i = 1
  BY <1>2
<1> QED
  BY <1>1, <1>2, <1>3 DEF Between, l

\* The rest of the calls.
LEMMA BetweenTail ==
  ASSUME NEW l, NEW lo, NEW hi, Between(l, lo, hi), Len(l) > 0
  PROVE  /\ Between(Tail(l), lo, hi)
         /\ Rank(l[1]) # 0 => ~Has(Tail(l), l[1])
         /\ \A x : Has(Tail(l), x) => Has(l, x)
         /\ \A x : Has(l, x) /\ x # l[1] => Has(Tail(l), x)
         /\ Tail(l) \in Seq(CallNames) /\ Len(Tail(l)) = Len(l) - 1 /\ l[1] \in CallNames /\ l[1] = Head(l)
         /\ \A i \in 1..Len(Tail(l)) : Tail(l)[i] = l[i + 1]
<1> DEFINE t == Tail(l)
<1>1. l \in Seq(CallNames)
  BY DEF Between
<1>2. /\ t \in Seq(CallNames) /\ Len(l) \in Nat /\ Len(t) = Len(l) - 1 /\ l[1] \in CallNames /\ l[1] = Head(l)
      /\ \A i \in 1..Len(t) : t[i] = l[i + 1] /\ i + 1 \in 1..Len(l)
  BY <1>1
<1> HIDE DEF t
<1>3. \A x : Rank(x) \in Int
  BY RankNat
<1>4. Between(t, lo, hi)
  <2>1. \A i \in 1..Len(t) : Rank(t[i]) # 0 => Rank(t[i]) >= lo /\ Rank(t[i]) < hi
    BY <1>2 DEF Between
  <2>2. ASSUME NEW i \in 1..Len(t), NEW j \in 1..Len(t), i < j, Rank(t[i]) # 0, Rank(t[j]) # 0
        PROVE  Rank(t[i]) < Rank(t[j])
    <3>1. i + 1 < j + 1 /\ i + 1 \in 1..Len(l) /\ j + 1 \in 1..Len(l) /\ t[i] = l[i + 1] /\ t[j] = l[j + 1]
      BY <1>2, <2>2
    <3> QED
      BY <3>1, <2>2 DEF Between
  <2> QED
    BY <1>2, <2>1, <2>2 DEF Between
<1>5. Rank(l[1]) # 0 => ~Has(t, l[1])
  <2> SUFFICES ASSUME Rank(l[1]) # 0, NEW i \in 1..Len(t), t[i] = l[1] PROVE FALSE
    BY DEF Has
  <2>1. 1 \in 1..Len(l) /\ i + 1 \in 1..Len(l) /\ 1 < i + 1 /\ l[i + 1] = l[1]
    BY <1>2
  <2>2. Rank(l[1]) < Rank(l[i + 1])
    BY <2>1 DEF Between
  <2> QED
    BY <2>1, <2>2, <1>3
<1>6. \A x : Has(t, x) => Has(l, x)
  BY <1>2 DEF Has
<1>7. ASSUME NEW x, Has(l, x), x # l[1] PROVE Has(t, x)
  <2>1. PICK i \in 1..Len(l) : l[i] = x
    BY <1>7 DEF Has
  <2>2. i - 1 \in 1..Len(t) /\ (i - 1) + 1 = i
    BY <2>1, <1>2, <1>7
  <2>3. t[i - 1] = x
    BY <2>1, <2>2, <1>2
  <2> QED
    BY <2>2, <2>3 DEF Has
<1> QED
  BY <1>2, <1>4, <1>5, <1>6, <1>7 DEF t

\* A call comes once.
LEMMA BetweenFirst ==
  ASSUME NEW l, NEW lo, NEW hi, Between(l, lo, hi), Len(l) > 0, Rank(l[1]) # 0
  PROVE  ~Has(Tail(l), l[1])
BY BetweenTail, Zenon

\* The calls of two lists.
LEMMA HasConcat ==
  ASSUME NEW a \in Seq(CallNames), NEW b \in Seq(CallNames), NEW call
  PROVE  Has(a \o b, call) <=> Has(a, call) \/ Has(b, call)
<1> DEFINE c == a \o b
<1>1. /\ Len(a) \in Nat /\ Len(b) \in Nat /\ Len(c) = Len(a) + Len(b)
      /\ \A i \in 1..Len(a) : c[i] = a[i] /\ i \in 1..Len(c)
      /\ \A i \in 1..Len(b) : c[Len(a) + i] = b[i] /\ Len(a) + i \in 1..Len(c)
  OBVIOUS
<1> HIDE DEF c
<1>2. ASSUME NEW i \in 1..Len(c), c[i] = call PROVE Has(a, call) \/ Has(b, call)
  <2>1. CASE i <= Len(a)
    <3>1. i \in 1..Len(a)
      BY <2>1, <1>1
    <3> QED
      BY <3>1, <1>1, <1>2 DEF Has
  <2>2. CASE i > Len(a)
    <3>1. i - Len(a) \in 1..Len(b) /\ Len(a) + (i - Len(a)) = i
      BY <2>2, <1>1
    <3>2. b[i - Len(a)] = call
      BY <3>1, <1>1, <1>2
    <3> QED
      BY <3>1, <3>2 DEF Has
  <2> QED
    BY <1>1, <2>1, <2>2
<1>3. Has(a, call) => Has(c, call)
  BY <1>1 DEF Has
<1>4. Has(b, call) => Has(c, call)
  BY <1>1 DEF Has
<1>5. Has(c, call) => Has(a, call) \/ Has(b, call)
  BY <1>2 DEF Has
<1> QED
  BY <1>3, <1>4, <1>5 DEF c

\* The calls of a short list.
LEMMA HasShort ==
  ASSUME NEW a, NEW b, NEW c, NEW call
  PROVE  /\ ~Has(<<>>, call)
         /\ Has(<<a>>, call) <=> call = a
         /\ Has(<<a, b>>, call) <=> call \in {a, b}
         /\ Has(<<a, b, c>>, call) <=> call \in {a, b, c}
<1>1. ~Has(<<>>, call)
  BY DEF Has
<1>2. Has(<<a>>, call) <=> call = a
  BY DEF Has
<1>3. Has(<<a, b>>, call) <=> call \in {a, b}
  <2>1. Len(<<a, b>>) = 2 /\ <<a, b>>[1] = a /\ <<a, b>>[2] = b /\ 1..2 = {1, 2}
    OBVIOUS
  <2> QED
    BY <2>1 DEF Has
<1>4. Has(<<a, b, c>>, call) <=> call \in {a, b, c}
  <2>1. Len(<<a, b, c>>) = 3 /\ <<a, b, c>>[1] = a /\ <<a, b, c>>[2] = b /\ <<a, b, c>>[3] = c /\ 1..3 = {1, 2, 3}
    OBVIOUS
  <2> QED
    BY <2>1 DEF Has
<1> QED
  BY <1>1, <1>2, <1>3, <1>4

\* A rank is on one side of a bound.
LEMMA OutsideRanks ==
  ASSUME NEW lo \in Nat, NEW hi \in Nat, NEW r \in 0..18, r < lo \/ r >= hi
  PROVE  ~(r >= lo /\ r < hi)
OBVIOUS

\* A call of another rank is not among them.
LEMMA NotBetween ==
  ASSUME NEW l, NEW lo \in Nat, NEW hi \in Nat, Between(l, lo, hi), NEW x, Rank(x) # 0,
         Rank(x) < lo \/ Rank(x) >= hi
  PROVE  ~Has(l, x)
<1> SUFFICES ASSUME NEW i \in 1..Len(l), l[i] = x PROVE FALSE
  BY DEF Has
<1>1. Rank(x) >= lo /\ Rank(x) < hi
  BY DEF Between
<1>2. Rank(x) \in 0..18
  BY RankNat, Zenon
<1> QED
  BY <1>1, <1>2, OutsideRanks, Zenon

\* Two calls.
LEMMA BetweenTwo ==
  ASSUME NEW c \in CallNames, NEW d \in CallNames, Rank(c) < Rank(d)
  PROVE  Between(<<c, d>>, Rank(c), Rank(d) + 1)
<1> DEFINE l == <<c, d>>
<1>1. l \in Seq(CallNames) /\ Len(l) = 2 /\ l[1] = c /\ l[2] = d /\ 1..2 = {1, 2}
  OBVIOUS
<1> HIDE DEF l
<1>2. Rank(c) \in Nat /\ Rank(d) \in Nat
  BY RankNat
<1>3. \A i \in 1..Len(l) : Rank(l[i]) >= Rank(c) /\ Rank(l[i]) < Rank(d) + 1
  BY <1>1, <1>2
<1>4. \A i, j \in 1..Len(l) : i < j => Rank(l[i]) < Rank(l[j])
  BY <1>1, <1>2
<1> QED
  BY <1>1, <1>3, <1>4 DEF Between, l

\* A generation counts as its one call.
LEMMA GenerationIs ==
  ASSUME NEW call \in CallNames
  PROVE  Between(Generation(call), Rank(call), Rank(call) + 1)
<1>1. CASE job.mode = "sync"
  BY <1>1, BetweenOne DEF Generation
<1>2. CASE job.mode # "sync"
  <2> DEFINE l == <<"wake_up", call, "sleep">>
  <2>1. l \in Seq(CallNames) /\ Len(l) = 3 /\ l[1] = "wake_up" /\ l[2] = call /\ l[3] = "sleep"
    BY DEF CallNames
  <2>2. Generation(call) = l
    BY <1>2 DEF Generation
  <2> HIDE DEF l
  <2>3. Rank("wake_up") = 0 /\ Rank("sleep") = 0 /\ Rank(call) \in Nat
    BY RankNat DEF Rank
  <2>4. 1..Len(l) = {1, 2, 3}
    BY <2>1
  <2>5. \A i \in 1..Len(l) : Rank(l[i]) # 0 => i = 2
    BY <2>1, <2>3, <2>4
  <2>6. \A i \in 1..Len(l) : Rank(l[i]) # 0 => Rank(l[i]) >= Rank(call) /\ Rank(l[i]) < Rank(call) + 1
    BY <2>1, <2>3, <2>5
  <2>7. \A i, j \in 1..Len(l) : i < j /\ Rank(l[i]) # 0 /\ Rank(l[j]) # 0 => FALSE
    BY <2>5
  <2>8. Between(l, Rank(call), Rank(call) + 1)
    BY <2>1, <2>6, <2>7 DEF Between
  <2> QED
    BY <2>2, <2>8
<1> QED
  BY <1>1, <1>2

\* The calls of a validation.
LEMMA ValidationIs ==
  Between(Validation, 14, 16)
<1>1. Rank("validate") = 14 /\ Rank("analyze") = 15 /\ "validate" \in CallNames /\ "analyze" \in CallNames
  BY DEF Rank, CallNames
<1>2. Between(Generation("validate"), 14, 15) /\ Between(<<"analyze">>, 15, 16)
  BY <1>1, GenerationIs, BetweenOne
<1> DEFINE A == When(job.analysis /\ job.mode = "sync" /\ ~job.valNoise, <<"analyze">>)
<1>3. Between(A, 15, 16)
  BY <1>2, BetweenWhen
<1> HIDE DEF A
<1>4. Between(Generation("validate") \o A, 14, 16)
  BY <1>2, <1>3, BetweenConcat
<1> QED
  BY <1>4 DEF Validation, A

\* The calls of a step: the parameters' and the validation's, and a checkpoint, of
\* which the tracker comes with the files of every model.
LEMMA StepCallsIs ==
  ASSUME NEW s \in Nat, NEW again
  PROVE  /\ Between(StepCalls(s, again), 6, 19)
         /\ Has(StepCalls(s, again), "values") <=> job.critic
         /\ Has(StepCalls(s, again), "track") =>
              Has(StepCalls(s, again), "save_actor") /\ (job.critic => Has(StepCalls(s, again), "save_critic"))
<1> DEFINE G == Generation("generate")
           A == When(again, <<"resample">>)
           C == When(job.kl /\ job.apply = "all", <<"clean_log_prob">>)
           R == When(job.reference, <<"ref">>)
           V == When(job.critic, <<"values", "update_critic">>)
           U == When(job.warmup <= s, <<"update_actor">>)
           W == When(Due(s, job.testEvery), Validation)
           S == <<"save_actor">> \o When(job.critic, <<"save_critic">>) \o <<"track">>
           X == When(Due(s, job.saveEvery), S)
<1>1. /\ Rank("generate") = 6 /\ Rank("resample") = 7
      /\ Rank("old_log_prob") = 8 /\ Rank("clean_log_prob") = 9 /\ Rank("ref") = 10
      /\ Rank("values") = 11 /\ Rank("update_critic") = 12 /\ Rank("update_actor") = 13
      /\ Rank("save_actor") = 16 /\ Rank("save_critic") = 17 /\ Rank("track") = 18
  BY DEF Rank
<1>2. \A c \in CallNames : Between(<<c>>, Rank(c), Rank(c) + 1) /\ Between(Generation(c), Rank(c), Rank(c) + 1)
  BY BetweenOne, GenerationIs
<1>3. /\ Between(G, 6, 7) /\ Between(<<"resample">>, 7, 8)
      /\ Between(<<"old_log_prob">>, 8, 9) /\ Between(<<"clean_log_prob">>, 9, 10)
      /\ Between(<<"ref">>, 10, 11) /\ Between(<<"values">>, 11, 12) /\ Between(<<"update_critic">>, 12, 13)
      /\ Between(<<"update_actor">>, 13, 14) /\ Between(<<"save_actor">>, 16, 17)
      /\ Between(<<"save_critic">>, 17, 18) /\ Between(<<"track">>, 18, 19)
  BY <1>1, <1>2 DEF CallNames
<1>4. Between(<<"values", "update_critic">>, 11, 13)
  <2>1. "values" \in CallNames /\ "update_critic" \in CallNames
    BY DEF CallNames
  <2>2. Between(<<"values", "update_critic">>, Rank("values"), Rank("update_critic") + 1)
    BY <1>1, <2>1, BetweenTwo
  <2> QED
    BY <1>1, <2>2
<1>5. Between(S, 16, 19)
  <2>1. Between(When(job.critic, <<"save_critic">>), 17, 18)
    BY <1>3, BetweenWhen
  <2>2. Between(<<"save_actor">> \o When(job.critic, <<"save_critic">>), 16, 18)
    BY <2>1, <1>3, BetweenConcat
  <2> QED
    BY <2>2, <1>3, BetweenConcat
<1>6. /\ Between(A, 7, 8) /\ Between(C, 9, 10) /\ Between(R, 10, 11) /\ Between(V, 11, 13) /\ Between(U, 13, 14)
      /\ Between(W, 14, 16) /\ Between(X, 16, 19)
  BY <1>3, <1>4, <1>5, BetweenWhen, ValidationIs
<1> DEFINE l0 == G \o A
           l1 == l0 \o <<"old_log_prob">>
           l2 == l1 \o C
           l3 == l2 \o R
           l4 == l3 \o V
           l5 == l4 \o U
           l6 == l5 \o W
<1>7. StepCalls(s, again) = l6 \o X
  BY DEF StepCalls
<1>8. Has(V, "values") <=> job.critic
  BY HasShort DEF When
<1>9. Has(X, "track") => Has(X, "save_actor") /\ (job.critic => Has(X, "save_critic"))
  <2> DEFINE c == When(job.critic, <<"save_critic">>)
             a == <<"save_actor">> \o c
  <2>1. ~Due(s, job.saveEvery) => ~Has(X, "track")
    BY HasShort DEF When
  <2>2. Due(s, job.saveEvery) => X = S
    BY DEF When
  <2>3. job.critic => Has(c, "save_critic")
    BY HasShort DEF When
  <2>4. Has(<<"save_actor">>, "save_actor")
    BY HasShort
  <2>5. S = a \o <<"track">>
    OBVIOUS
  <2>6. /\ <<"save_actor">> \in Seq(CallNames) /\ c \in Seq(CallNames) /\ <<"track">> \in Seq(CallNames)
    <3>1. Between(c, 17, 18)
      BY <1>3, BetweenWhen
    <3> QED
      BY <3>1, <1>3 DEF Between
  <2> HIDE DEF c, X, S
  <2>7. a \in Seq(CallNames)
    BY <2>6
  <2>8. Has(a, "save_actor") /\ (job.critic => Has(a, "save_critic"))
    BY <2>3, <2>4, <2>6, HasConcat
  <2> HIDE DEF a
  <2>9. Has(S, "save_actor") /\ (job.critic => Has(S, "save_critic"))
    BY <2>5, <2>6, <2>7, <2>8, HasConcat
  <2> QED
    BY <2>1, <2>2, <2>9
<1> HIDE DEF G, A, C, R, V, U, W, S, X
<1>10. Between(l1, 6, 9)
  <2>1. Between(l0, 6, 8)
    BY <1>3, <1>6, BetweenConcat
  <2> HIDE DEF l0
  <2> QED
    BY <2>1, <1>3, BetweenConcat
<1> HIDE DEF l1
<1>11. Between(l2, 6, 10)
  BY <1>6, <1>10, BetweenConcat
<1> HIDE DEF l2
<1>12. Between(l3, 6, 11)
  BY <1>6, <1>11, BetweenConcat
<1> HIDE DEF l3
<1>13. Between(l4, 6, 13)
  BY <1>6, <1>12, BetweenConcat
<1>14. Has(l4, "values") <=> job.critic
  <2>1. Has(l4, "values") <=> Has(l3, "values") \/ Has(V, "values")
    BY <1>6, <1>12, HasConcat DEF Between
  <2>2. ~Has(l3, "values")
    BY <1>1, <1>12, NotBetween
  <2> QED
    BY <2>1, <2>2, <1>8
<1> HIDE DEF l4
<1>15. Between(l5, 6, 14)
  BY <1>6, <1>13, BetweenConcat
<1>16. Has(l5, "values") <=> job.critic
  <2>1. Has(l5, "values") <=> Has(l4, "values") \/ Has(U, "values")
    BY <1>6, <1>13, HasConcat DEF Between
  <2>2. ~Has(U, "values")
    BY <1>1, <1>6, NotBetween
  <2> QED
    BY <2>1, <2>2, <1>14
<1> HIDE DEF l5
<1>17. Between(l6, 6, 16)
  BY <1>6, <1>15, BetweenConcat
<1>18. Has(l6, "values") <=> job.critic
  <2>1. Has(l6, "values") <=> Has(l5, "values") \/ Has(W, "values")
    BY <1>6, <1>15, HasConcat DEF Between
  <2>2. ~Has(W, "values")
    BY <1>1, <1>6, NotBetween
  <2> QED
    BY <2>1, <2>2, <1>16
<1> HIDE DEF l6
<1>19. Between(l6 \o X, 6, 19)
  BY <1>6, <1>17, BetweenConcat
<1>20. Has(l6 \o X, "values") <=> job.critic
  <2>1. Has(l6 \o X, "values") <=> Has(l6, "values") \/ Has(X, "values")
    BY <1>6, <1>17, HasConcat DEF Between
  <2>2. ~Has(X, "values")
    BY <1>1, <1>6, NotBetween
  <2> QED
    BY <2>1, <2>2, <1>18
<1>21. Has(l6 \o X, "track") =>
         Has(l6 \o X, "save_actor") /\ (job.critic => Has(l6 \o X, "save_critic"))
  <2>1. \A x : Has(l6 \o X, x) <=> Has(l6, x) \/ Has(X, x)
    BY <1>6, <1>17, HasConcat DEF Between
  <2>2. ~Has(l6, "track")
    BY <1>1, <1>17, NotBetween
  <2> QED
    BY <2>1, <2>2, <1>9
<1> QED
  BY <1>7, <1>19, <1>20, <1>21

\* Before the first step: no call of the training itself, and the checkpoint that the
\* tracker names is loaded, if it names one.
LEMMA FirstCallsIs ==
  /\ Between(FirstCalls, 1, 16)
  /\ \A x : Has(FirstCalls, x) => ~(Rank(x) \in 6..13)
  /\ Has(FirstCalls, "load_actor") => tracked # 0
  /\ Has(FirstCalls, "load_critic") => tracked # 0 /\ job.critic
<1> DEFINE I1 == When(job.critic, <<"init_critic">>)
           I3 == When(job.mode = "async", <<"init_engine">>)
           L2 == When(job.critic, <<"load_critic">>)
           L == <<"load_actor">> \o L2
           V == When(job.valBefore, Validation)
           a == InitWorkers \o LoadCalls
<1>1. /\ Rank("init_critic") = 1 /\ Rank("init_actor") = 2 /\ Rank("init_engine") = 3
      /\ Rank("load_actor") = 4 /\ Rank("load_critic") = 5
  BY DEF Rank
<1>2. \A c \in CallNames : Between(<<c>>, Rank(c), Rank(c) + 1)
  BY BetweenOne
<1>3. /\ Between(<<"init_critic">>, 1, 2) /\ Between(<<"init_actor">>, 2, 3) /\ Between(<<"init_engine">>, 3, 4)
      /\ Between(<<"load_actor">>, 4, 5) /\ Between(<<"load_critic">>, 5, 6)
  BY <1>1, <1>2 DEF CallNames
<1>4. Between(I1, 1, 2) /\ Between(I3, 3, 4) /\ Between(L2, 5, 6) /\ Between(V, 14, 16)
  BY <1>3, BetweenWhen, ValidationIs
<1>5. InitWorkers = (I1 \o <<"init_actor">>) \o I3 /\ LoadCalls = When(tracked # 0, L) /\ FirstCalls = a \o V
  BY DEF InitWorkers, LoadCalls, FirstCalls
<1>6. /\ Has(L2, "load_critic") => job.critic
      /\ \A x : Has(LoadCalls, x) => tracked # 0 /\ Has(L, x)
  BY HasShort DEF LoadCalls, When
<1> HIDE DEF I1, I3, L2, V
<1>7. Between(I1 \o <<"init_actor">>, 1, 3)
  BY <1>3, <1>4, BetweenConcat
<1>8. Between((I1 \o <<"init_actor">>) \o I3, 1, 4)
  BY <1>7, <1>4, BetweenConcat
<1>9. Between(L, 4, 6)
  BY <1>3, <1>4, BetweenConcat
<1>10. Between(a, 1, 6)
  <2>1. Between(LoadCalls, 4, 6)
    BY <1>5, <1>9, BetweenWhen
  <2> QED
    BY <2>1, <1>5, <1>8, BetweenConcat
<1>11. /\ Has(a, "load_actor") => tracked # 0
       /\ Has(a, "load_critic") => tracked # 0 /\ job.critic
  <2>1. Between(InitWorkers, 1, 4) /\ Between(LoadCalls, 4, 6)
    BY <1>5, <1>8, <1>9, BetweenWhen
  <2>2. ~Has(InitWorkers, "load_actor") /\ ~Has(InitWorkers, "load_critic")
    BY <1>1, <2>1, NotBetween
  <2>3. \A x : Has(a, x) <=> Has(InitWorkers, x) \/ Has(LoadCalls, x)
    BY <2>1, HasConcat DEF Between
  <2>4. Has(L, "load_critic") => job.critic
    <3>1. ~Has(<<"load_actor">>, "load_critic")
      BY HasShort
    <3>2. <<"load_actor">> \in Seq(CallNames) /\ L2 \in Seq(CallNames)
      BY <1>3, <1>4 DEF Between
    <3> QED
      BY <1>6, <3>1, <3>2, HasConcat
  <2>5. \A x : Has(LoadCalls, x) => tracked # 0 /\ Has(L, x)
    BY <1>6
  <2> HIDE DEF a, L
  <2> QED
    BY <2>2, <2>3, <2>4, <2>5, Zenon
<1> HIDE DEF a
<1>12. Between(a, 1, 14)
  BY <1>10, BetweenMore
<1>13. Between(a \o V, 1, 16)
  BY <1>12, <1>4, BetweenConcat
<1>14. ASSUME NEW x, Has(a \o V, x) PROVE ~(Rank(x) \in 6..13)
  <2>1. a \in Seq(CallNames) /\ V \in Seq(CallNames)
    BY <1>4, <1>10 DEF Between
  <2>2. Has(a, x) \/ Has(V, x)
    BY <2>1, <1>14, HasConcat
  <2>3. Rank(x) \in 0..18
    BY RankNat
  <2>4. Has(a, x) => Rank(x) < 6
    BY <1>10, <2>3 DEF Between, Has
  <2>5. Has(V, x) => Rank(x) = 0 \/ Rank(x) >= 14
    BY <1>4, <2>3 DEF Between, Has
  <2> QED
    BY <2>2, <2>3, <2>4, <2>5
<1>15. /\ Has(a \o V, "load_actor") => tracked # 0
       /\ Has(a \o V, "load_critic") => tracked # 0 /\ job.critic
  <2>1. \A x : Has(a \o V, x) <=> Has(a, x) \/ Has(V, x)
    BY <1>4, <1>10, HasConcat DEF Between
  <2>2. ~Has(V, "load_actor") /\ ~Has(V, "load_critic")
    BY <1>1, <1>4, NotBetween
  <2> QED
    BY <1>11, <2>1, <2>2
<1> QED
  BY <1>5, <1>13, <1>14, <1>15

-----------------------------------------------------------------------------
\* What a process still has to do

\* What is left of analyses that the driver does not wait for.
AnalysisOps ==
  {op \in Ops : \/ op[1] \in {"load", "offload"} /\ op[2] = "actor"
                \/ op[1] = "eval"
                \/ op[1] = "forward" /\ op[2].for = "analyze"}
Left(q) == \A p \in 1..Len(q) : q[p] \in Seq(AnalysisOps)
LeftButLast(q) == \A p \in 1..(Len(q) - 1) : q[p] \in Seq(AnalysisOps)

\* What is left stays of the same kind while a process works it off.
LEMMA LeftRest ==
  ASSUME NEW q \in Seq(Lists(Ops)), Len(q) > 0
  PROVE  /\ Left(q) => Left(RestOf(q)) /\ Left(Tail(q))
         /\ LeftButLast(q) => LeftButLast(RestOf(q)) /\ LeftButLast(Tail(q))
<1>1. /\ RestOf(q) \in Seq(Lists(Ops)) /\ q[1] \in Seq(Ops) /\ Len(q[1]) \in Nat \ {0}
      /\ Len(q[1]) = 1 => /\ Len(RestOf(q)) = Len(q) - 1
                          /\ \A p \in 1..(Len(q) - 1) : RestOf(q)[p] = q[p + 1]
      /\ Len(q[1]) # 1 => /\ Len(RestOf(q)) = Len(q) /\ RestOf(q)[1] = Tail(q[1])
                          /\ \A p \in 2..Len(q) : RestOf(q)[p] = q[p]
  BY RestIs
<1>2. /\ Len(q) \in Nat \ {0} /\ Len(Tail(q)) = Len(q) - 1
      /\ \A p \in 1..(Len(q) - 1) : Tail(q)[p] = q[p + 1]
  OBVIOUS
<1>3. q[1] \in Seq(AnalysisOps) => Tail(q[1]) \in Seq(AnalysisOps)
  <2> DEFINE l == q[1]
  <2>1. Len(l) > 0
    BY <1>1
  <2> HIDE DEF l
  <2>2. l \in Seq(AnalysisOps) => Tail(l) \in Seq(AnalysisOps)
    <3>1. ASSUME NEW u \in Seq(AnalysisOps), Len(u) > 0 PROVE Tail(u) \in Seq(AnalysisOps)
      BY <3>1
    <3> QED
      BY <2>1, <3>1
  <2> QED
    BY <2>2 DEF l
<1>4. Left(q) => Left(Tail(q))
  BY <1>2 DEF Left
<1>5. LeftButLast(q) => LeftButLast(Tail(q))
  BY <1>2 DEF LeftButLast
<1> DEFINE r == RestOf(q)
<1> HIDE DEF r
<1>6. CASE Len(q[1]) = 1
  <2>1. Len(r) = Len(q) - 1 /\ \A p \in 1..(Len(q) - 1) : r[p] = q[p + 1] /\ p + 1 \in 1..Len(q)
    BY <1>1, <1>2, <1>6 DEF r
  <2>2. Left(q) => Left(r)
    BY <2>1, <1>2 DEF Left
  <2>3. LeftButLast(q) => LeftButLast(r)
    BY <2>1, <1>2 DEF LeftButLast
  <2> QED
    BY <1>4, <1>5, <2>2, <2>3 DEF r
<1>7. CASE Len(q[1]) # 1
  <2>1. Len(r) = Len(q) /\ r[1] = Tail(q[1]) /\ \A p \in 2..Len(q) : r[p] = q[p]
    BY <1>1, <1>7 DEF r
  <2>2. ASSUME NEW n \in Nat, n <= Len(q), \A p \in 1..n : q[p] \in Seq(AnalysisOps)
        PROVE  \A p \in 1..n : r[p] \in Seq(AnalysisOps)
    <3>1. SUFFICES ASSUME NEW p \in 1..n PROVE r[p] \in Seq(AnalysisOps)
      OBVIOUS
    <3>2. CASE p = 1
      BY <3>2, <2>1, <2>2, <1>3
    <3>3. CASE p # 1
      <4>1. p \in 2..Len(q)
        BY <3>3, <2>2, <1>2
      <4> QED
        BY <4>1, <2>1, <2>2
    <3> QED
      BY <3>2, <3>3
  <2>3. Left(q) => Left(r)
    BY <2>1, <2>2, <1>2 DEF Left
  <2>4. LeftButLast(q) => LeftButLast(r)
    <3>1. Len(q) - 1 \in Nat /\ Len(q) - 1 <= Len(q)
      BY <1>2
    <3> QED
      BY <2>1, <2>2, <3>1 DEF LeftButLast
  <2> QED
    BY <1>4, <1>5, <2>3, <2>4 DEF r
<1> QED
  BY <1>6, <1>7

\* A call is received after nothing but analyses.
LEMMA LeftAppend ==
  ASSUME NEW q \in Seq(Lists(Ops)), NEW l \in Lists(Ops), Left(q)
  PROVE  /\ Append(q, l) \in Seq(Lists(Ops))
         /\ LeftButLast(Append(q, l)) /\ (l \in Seq(AnalysisOps) => Left(Append(q, l)))
<1> DEFINE r == Append(q, l)
<1>1. /\ Len(q) \in Nat /\ r \in Seq(Lists(Ops)) /\ Len(r) = Len(q) + 1 /\ r[Len(q) + 1] = l
      /\ \A p \in 1..Len(q) : r[p] = q[p]
  OBVIOUS
<1> HIDE DEF r
<1>2. \A p \in 1..Len(r) : p = Len(q) + 1 \/ p \in 1..Len(q)
  BY <1>1
<1>3. LeftButLast(r)
  BY <1>1 DEF Left, LeftButLast
<1>4. l \in Seq(AnalysisOps) => Left(r)
  BY <1>1, <1>2 DEF Left
<1> QED
  BY <1>1, <1>3, <1>4 DEF r

\* Sequences and their lengths.
LEMMA EmptyQueue ==
  ASSUME NEW S, NEW q \in Seq(S)
  PROVE  /\ q = <<>> <=> Len(q) = 0
         /\ Len(q) \in Nat
         /\ Len(q) > 0 => Head(q) = q[1] /\ q[1] \in S /\ Tail(q) \in Seq(S)
BY EmptySeq, SMT

\* Analyses are lists of these operations.
LEMMA AnalyzeLeft ==
  ASSUME NEW what \in Whats, what.for = "analyze"
  PROVE  AnalyzeGenerationPolicy(what) \in Seq(AnalysisOps)
<1>1. /\ <<"load", "actor">> \in AnalysisOps /\ <<"offload", "actor">> \in AnalysisOps
      /\ <<"eval", "">> \in AnalysisOps /\ <<"forward", what>> \in AnalysisOps
  BY DEF AnalysisOps, Ops, WordOps, Words, Parts, PassOps
<1>2. /\ <<<<"load", "actor">>>> \in Seq(AnalysisOps) /\ <<<<"offload", "actor">>>> \in Seq(AnalysisOps)
      /\ <<<<"eval", "">>, <<"forward", what>>>> \in Seq(AnalysisOps)
  BY <1>1, ShortLists, Zenon
<1>3. Load("actor") \in Seq(AnalysisOps) /\ Offload("actor") \in Seq(AnalysisOps)
  <2>1. <<>> \in Seq(AnalysisOps)
    OBVIOUS
  <2> QED
    BY <2>1, <1>2, Zenon DEF Load, Offload
<1>4. \A a, b \in Seq(AnalysisOps) : a \o b \in Seq(AnalysisOps)
  OBVIOUS
<1> QED
  BY <1>2, <1>3, <1>4, Zenon DEF AnalyzeGenerationPolicy

-----------------------------------------------------------------------------
\* The steps of the processes

\* The state of a process, and its type.
NoiseState(w) == [hooks |-> hooks[w], training |-> training[w]]

WorkTyped ==
  /\ todo \in [Workers -> Seq(Lists(Ops))]
  /\ hooks \in [Workers -> SUBSET HookArgs] /\ training \in [Workers -> BOOLEAN]

\* The next operation, in the sequence of calls.
LEMMA OpIs ==
  ASSUME WorkTyped, NEW w \in Workers
  PROVE  /\ todo[w] \in Seq(Lists(Ops)) /\ Len(todo[w]) \in Nat
         /\ todo[w] = <<>> <=> Len(todo[w]) = 0
         /\ Op(w)[1] # "nothing" => Len(todo[w]) > 0
         /\ Len(todo[w]) > 0 => /\ Op(w) = todo[w][1][1] /\ Op(w) \in Ops /\ Rest(w) = RestOf(todo[w])
                                /\ Rest(w) \in Seq(Lists(Ops)) /\ Tail(todo[w]) \in Seq(Lists(Ops))
         /\ NoiseState(w) \in NoiseStates /\ NoiseState(w).hooks = hooks[w] /\ NoiseState(w).training = training[w]
<1>1. todo[w] \in Seq(Lists(Ops))
  BY DEF WorkTyped
<1> DEFINE q == todo[w]
<1>2. Len(q) \in Nat /\ (q = <<>> <=> Len(q) = 0)
  BY <1>1, EmptyQueue
<1>3. Len(q) > 0 => RestOf(q) \in Seq(Lists(Ops)) /\ Head(Head(q)) = q[1][1] /\ q[1][1] \in Ops
  BY <1>1, RestIs
<1>4. Len(q) > 0 => Tail(q) \in Seq(Lists(Ops))
  BY <1>1, EmptyQueue
<1>5. Rest(w) = RestOf(q)
  BY DEF Rest, RestOf
<1>6. NoiseState(w) \in NoiseStates /\ NoiseState(w).hooks = hooks[w] /\ NoiseState(w).training = training[w]
  BY DEF NoiseState, NoiseStates, WorkTyped
<1> DEFINE o == Op(w)
<1>7. /\ q = <<>> => o = <<"nothing", "">>
      /\ q # <<>> => o = Head(Head(q))
  BY DEF Op
<1> HIDE DEF q, o
<1>8. Len(q) > 0 => o = q[1][1] /\ o \in Ops
  <2>1. Len(q) > 0 => q # <<>>
    BY <1>2
  <2> QED
    BY <2>1, <1>3, <1>7
<1>9. o[1] # "nothing" => Len(q) > 0
  <2>1. <<"nothing", "">>[1] = "nothing"
    OBVIOUS
  <2>2. q = <<>> => o[1] = "nothing"
    BY <2>1, <1>7
  <2> QED
    BY <2>2, <1>2
<1> QED
  BY <1>1, <1>2, <1>3, <1>4, <1>5, <1>6, <1>8, <1>9 DEF q, o

\* What a step of the processes can do to one of them.
NoiseStays(w) == todo'[w] = todo[w] /\ hooks'[w] = hooks[w] /\ training'[w] = training[w]
NoiseDoes(w) ==
  /\ Len(todo[w]) > 0 /\ todo'[w] = RestOf(todo[w])
  /\ hooks'[w] \in SUBSET HookArgs /\ training'[w] \in BOOLEAN
  /\ <<todo[w][1][1], NoiseState(w), NoiseState(w)'>> \in NoiseMoves
NoiseDrops(w) ==
  /\ Len(todo[w]) > 0 /\ todo'[w] = Tail(todo[w])
  /\ hooks'[w] = {} /\ training'[w] = training[w]

\* What an operation that is neither of the hooks nor of the mode does: nothing.
LEMMA NoiseMoveIs ==
  ASSUME WorkTyped, NEW w \in Workers, Len(todo[w]) > 0,
         hooks'[w] = (CASE Op(w)[1] = "hook" -> hooks[w] \cup {Op(w)[2]} [] Op(w)[1] = "unhook" -> {}
                       [] OTHER -> hooks[w]),
         training'[w] = (CASE Op(w)[1] = "train" -> TRUE [] Op(w)[1] = "eval" -> FALSE
                          [] OTHER -> training[w]),
         todo'[w] = Rest(w)
  PROVE  NoiseDoes(w)
<1> DEFINE op == Op(w)
<1>1. op = todo[w][1][1] /\ op \in Ops /\ Rest(w) = RestOf(todo[w]) /\ NoiseState(w) \in NoiseStates
      /\ NoiseState(w).hooks = hooks[w] /\ NoiseState(w).training = training[w]
  BY OpIs
<1>2. op[1] = "hook" => op[2] \in HookArgs
  BY <1>1 DEF Ops, WordOps, PassOps
<1>3. hooks[w] \in SUBSET HookArgs /\ training[w] \in BOOLEAN
  BY DEF WorkTyped
<1>4. hooks'[w] \in SUBSET HookArgs /\ training'[w] \in BOOLEAN
  BY <1>2, <1>3
<1> DEFINE t == [hooks |-> hooks'[w], training |-> training'[w]]
<1>5. t = NoiseState(w)'
  BY DEF NoiseState
<1>6. t \in NoiseStates /\ t.hooks = hooks'[w] /\ t.training = training'[w]
  BY <1>4 DEF NoiseStates
<1> HIDE DEF t, op
<1>7. <<op, NoiseState(w), t>> \in NoiseMoves
  <2>1. t.hooks = CASE op[1] = "hook" -> NoiseState(w).hooks \cup {op[2]} [] op[1] = "unhook" -> {}
                       [] OTHER -> NoiseState(w).hooks
    BY <1>1, <1>6 DEF op
  <2>2. t.training = CASE op[1] = "train" -> TRUE [] op[1] = "eval" -> FALSE
                       [] OTHER -> NoiseState(w).training
    BY <1>1, <1>6 DEF op
  <2> QED
    BY <1>1, <1>6, <2>1, <2>2 DEF NoiseMoves
<1> QED
  BY <1>1, <1>4, <1>5, <1>7 DEF NoiseDoes, op

\* A step of the processes, of each process: it stays as it is, does its next
\* operation, or raises and drops the rest of its call.
LEMMA NoiseWork ==
  ASSUME WorkTyped, WorkNext
  PROVE  /\ job' = job
         /\ \A v \in Workers : NoiseStays(v) \/ NoiseDoes(v) \/ NoiseDrops(v)
         /\ DOMAIN todo' = Workers /\ DOMAIN hooks' = Workers /\ DOMAIN training' = Workers
         /\ todo' = [v \in Workers |-> todo'[v]] /\ hooks' = [v \in Workers |-> hooks'[v]]
         /\ training' = [v \in Workers |-> training'[v]]
<1>1. PICK w \in Workers : Local(w) \/ Together(w) \/ Fails(w)
  BY DEF WorkNext
<1>2. /\ todo = [v \in Workers |-> todo[v]] /\ hooks = [v \in Workers |-> hooks[v]]
      /\ training = [v \in Workers |-> training[v]]
  BY DEF WorkTyped
<1>3. Op(w)[1] # "nothing" => Len(todo[w]) > 0
  BY OpIs
<1>4. CASE Local(w)
  <2>1. Op(w)[1] # "nothing" /\ job' = job
    BY <1>4 DEF Local, startVars
  <2>2. /\ todo' = [todo EXCEPT ![w] = Rest(w)]
        /\ training' = [training EXCEPT ![w] =
             CASE Op(w)[1] = "train" -> TRUE [] Op(w)[1] = "eval" -> FALSE [] OTHER -> @]
        /\ hooks' = [hooks EXCEPT ![w] =
             CASE Op(w)[1] = "hook" -> @ \cup {Op(w)[2]} [] Op(w)[1] = "unhook" -> {} [] OTHER -> @]
    BY <1>4 DEF Local
  <2>3. NoiseDoes(w)
    BY <1>2, <1>3, <2>1, <2>2, NoiseMoveIs
  <2>4. \A v \in Workers : v # w => NoiseStays(v)
    BY <1>2, <2>2 DEF NoiseStays
  <2> QED
    BY <1>2, <2>1, <2>2, <2>3, <2>4
<1>5. CASE Together(w)
  <2>1. /\ todo' = [v \in Workers |-> IF v \in Partners(w) THEN Rest(v) ELSE todo[v]]
        /\ hooks' = hooks /\ training' = training /\ job' = job
        /\ Op(w)[1] \in Collective /\ \A v \in Partners(w) : Op(v) = Op(w)
    BY <1>5 DEF Together, startVars
  <2>2. \A v \in Workers : v \notin Partners(w) => NoiseStays(v)
    BY <2>1 DEF NoiseStays
  <2>3. ASSUME NEW v \in Workers, v \in Partners(w) PROVE NoiseDoes(v)
    <3>1. Op(v)[1] \in Collective
      BY <2>1, <2>3
    <3>2. Op(v)[1] \notin {"nothing", "hook", "unhook", "train", "eval"}
      BY <3>1 DEF Collective
    <3>3. Len(todo[v]) > 0
      BY <3>2, OpIs
    <3>4. todo'[v] = Rest(v) /\ hooks'[v] = hooks[v] /\ training'[v] = training[v]
      BY <2>1, <2>3
    <3> QED
      BY <3>2, <3>3, <3>4, NoiseMoveIs
  <2> QED
    BY <1>2, <2>1, <2>2, <2>3
<1>6. CASE Fails(w)
  <2>1. /\ todo' = [todo EXCEPT ![w] = Tail(@)] /\ hooks' = [hooks EXCEPT ![w] = {}]
        /\ training' = training /\ job' = job /\ Op(w)[1] # "nothing"
    BY <1>6 DEF Fails, startVars
  <2>2. NoiseDrops(w)
    BY <1>2, <1>3, <2>1 DEF NoiseDrops
  <2>3. \A v \in Workers : v # w => NoiseStays(v)
    BY <1>2, <2>1 DEF NoiseStays
  <2> QED
    BY <1>2, <2>1, <2>2, <2>3
<1> QED
  BY <1>1, <1>4, <1>5, <1>6

-----------------------------------------------------------------------------
\* The inductive invariant

\* The types of what the proof depends on; the calls are in order.
NoiseTyped ==
  /\ job \in Jobs /\ WorkTyped /\ step \in Nat /\ tracked \in Nat /\ first \in Nat \ {0}
  /\ waiting \in BOOLEAN /\ Between(calls, 1, 19)
  /\ noise \in Noises /\ nextScale \in Scales /\ ema \in SUBSET Nat

\* While the driver waits for no call, the processes have nothing but analyses left;
\* while it waits, nothing else but the last call of those that take part in it.
Control ==
  /\ phase = "starting" => ~waiting /\ ema = {} /\ nextScale = One /\ \A w \in Workers : Len(todo[w]) = 0
  /\ phase = "calling" /\ ~waiting => \A w \in Workers : Left(todo[w])
  /\ phase = "calling" /\ waiting =>
       /\ Len(calls) > 0 /\ calls[1] # "track"
       /\ \A w \in Workers :
            /\ LeftButLast(todo[w])
            /\ w \notin GroupOf(calls[1]) \/ calls[1] = "analyze" => Left(todo[w])

\* The noise of the step has its scale; until the critic has given its values, the
\* average is over the steps before.
Controller ==
  phase = "calling" =>
    /\ step >= first - 1
    /\ step < first => \A x : Has(calls, x) => ~(Rank(x) \in 6..13)
    /\ step >= first /\ job.apply # "none" =>
         noise = {[kind |-> "train", step |-> step, scale |-> ScaleOf(step)]}
    /\ job.adaptive /\ Has(calls, "values") => ema = first..(step - 1)
    /\ job.adaptive /\ ~Has(calls, "values") =>
         /\ ema = first..step
         /\ nextScale = IF step > first /\ ControllerActive(step + 1)
                        THEN [of |-> step, over |-> first..(step - 1)] ELSE One

\* Every process keeps to the contract in the calls it has received.
NoiseWorks == \A w \in Workers : Works(NoiseContract, todo[w], NoiseState(w))

\* The inductive invariant.
NoiseInv == NoiseTyped /\ Control /\ Controller /\ NoiseWorks

\* The contract depends on the job, the step and the first step of the run alone.
LEMMA ContractSame ==
  ASSUME job' = job, first' = first, step' = step
  PROVE  NoiseContract' = NoiseContract
<1>1. \A s : ScaleOf(s)' = ScaleOf(s)
  BY DEF ScaleOf
<1>2. ValidationNoise' = ValidationNoise
  BY DEF ValidationNoise
<1>3. \A what : Asked(what)' = Asked(what)
  BY <1>1, <1>2 DEF Asked
<1>4. NoiseRight' = NoiseRight
  BY <1>3 DEF NoiseRight, ActingIn
<1> QED
  BY <1>4 DEF NoiseContract

\* Only analyses are left: what is right for them is the same in every step.
LEMMA LeftAnyStep ==
  ASSUME NoiseTyped, job' = job, NEW w \in Workers, Left(todo[w]),
         Works(NoiseContract, todo[w], NoiseState(w))
  PROVE  Works(NoiseContract', todo[w], NoiseState(w))
<1>1. todo[w] \in Seq(Lists(Ops))
  BY OpIs DEF NoiseTyped
<1>2. ASSUME NEW op \in AnalysisOps, NEW x \in NoiseStates, <<op, x>> \in NoiseRight
      PROVE  <<op, x>> \in NoiseRight'
  <2>1. op \in Ops /\ op[1] \in {"load", "offload", "eval", "forward"}
    BY DEF AnalysisOps
  <2>2. CASE op[1] # "forward"
    BY <2>1, <2>2 DEF NoiseRight
  <2>3. CASE op[1] = "forward"
    <3>1. op[2].for = "analyze"
      BY <2>3 DEF AnalysisOps
    <3>2. Asked(op[2]) = {} /\ Asked(op[2])' = {}
      BY <3>1 DEF Asked
    <3> QED
      BY <1>2, <2>1, <2>3, <3>2 DEF NoiseRight, ActingIn
  <2> QED
    BY <2>2, <2>3
<1>3. /\ NoiseContract'.states = NoiseStates /\ NoiseContract'.moves = NoiseMoves
      /\ NoiseContract'.right = NoiseRight' /\ NoiseContract'.idle = Hooked({}) /\ NoiseContract'.after = Hooked({})
  BY DEF NoiseContract
<1>4. ASSUME NEW p \in 1..Len(todo[w]), NEW i \in 1..Len(todo[w][p])
      PROVE  todo[w][p][i] \in AnalysisOps
  BY DEF Left
<1> QED
  BY <1>1, <1>2, <1>3, <1>4, NoiseContractIs, WorksOther

\* The invariant holds in the beginning.
LEMMA NoiseInit ==
  ASSUME Init
  PROVE  NoiseInv
<1>1. job \in Jobs /\ step = 0 /\ tracked = 0 /\ first = 1 /\ waiting = FALSE /\ calls = <<>> /\ phase = "starting"
      /\ noise = {} /\ nextScale = One /\ ema = {}
      /\ todo = [w \in Workers |-> <<>>] /\ hooks = [w \in Workers |-> {}] /\ training = [w \in Workers |-> TRUE]
  BY DEF Init, WorkInit, FitInit
<1>2. <<>> \in Seq(Lists(Ops)) /\ Len(<<>>) = 0 /\ Between(<<>>, 1, 19)
  BY DEF Between
<1>3. noise \in Noises /\ nextScale \in Scales
  BY <1>1 DEF Noises, One, Scales
<1>4. WorkTyped
  BY <1>1, <1>2 DEF WorkTyped
<1>5. \A w \in Workers : Len(todo[w]) = 0 /\ NoiseState(w) \in Hooked({})
  BY <1>1, <1>2 DEF NoiseState, Hooked, NoiseStates
<1>6. NoiseWorks
  BY <1>5, WorksEmpty, NoiseContractIs DEF NoiseWorks
<1>7. NoiseTyped
  <2>1. Between(calls, 1, 19)
    BY <1>1, <1>2
  <2>2. job \in Jobs /\ waiting \in BOOLEAN
    BY <1>1
  <2>3. step \in Nat /\ tracked \in Nat /\ first \in Nat \ {0}
    BY <1>1
  <2>4. ema \in SUBSET Nat
    BY <1>1
  <2> QED
    BY <1>3, <1>4, <2>1, <2>2, <2>3, <2>4 DEF NoiseTyped
<1>8. Control
  BY <1>1, <1>5 DEF Control
<1>9. Controller
  BY <1>1 DEF Controller
<1> QED
  BY <1>6, <1>7, <1>8, <1>9 DEF NoiseInv

\* What the calls and their noise depend on stays as it is, or the run has ended.
LEMMA NoiseSame ==
  ASSUME NoiseInv, UNCHANGED <<job, todo, hooks, training, step, first, tracked, calls, waiting, noise, nextScale, ema>>,
         phase' = phase \/ phase' \in {"raised", "done"}
  PROVE  NoiseInv'
<1>1. Workers' = Workers
  BY DEF Workers, Pools, World, NoiseInv
<1>2. WorkTyped' = WorkTyped
  BY <1>1 DEF WorkTyped
<1>3. NoiseTyped'
  BY <1>2 DEF NoiseInv, NoiseTyped
<1>4. \A x : GroupOf(x)' = GroupOf(x)
  BY <1>1 DEF GroupOf, Group, Actors, PoolOf
<1>5. Control'
  BY <1>1, <1>4 DEF NoiseInv, Control
<1>6. Controller'
  <2>1. ScaleOf(step)' = ScaleOf(step) /\ ControllerActive(step + 1)' = ControllerActive(step + 1)
    BY DEF ScaleOf, ControllerActive
  <2> QED
    BY <2>1 DEF NoiseInv, Controller
<1>7. NoiseWorks'
  BY <1>1, ContractSame DEF NoiseInv, NoiseWorks, NoiseState
<1> QED
  BY <1>3, <1>5, <1>6, <1>7 DEF NoiseInv

\* The calls as a sequence.
LEMMA CallsEmpty ==
  ASSUME NoiseTyped
  PROVE  /\ calls = <<>> <=> Len(calls) = 0
         /\ Len(calls) \in Nat
         /\ Len(calls) > 0 => Head(calls) = calls[1] /\ calls[1] \in CallNames
BY EmptyQueue DEF NoiseTyped, Between

\* The steps of the processes.
LEMMA NoiseWorking ==
  ASSUME NoiseInv, Working
  PROVE  NoiseInv'
<1>1. /\ WorkNext /\ phase = "calling"
      /\ UNCHANGED <<phase, step, first, tracked, calls, waiting, noise, nextScale, ema>>
  BY DEF Working, fitVars, diskVars
<1>2. WorkTyped
  BY DEF NoiseInv, NoiseTyped
<1>3. /\ job' = job
      /\ \A v \in Workers : NoiseStays(v) \/ NoiseDoes(v) \/ NoiseDrops(v)
      /\ todo' = [v \in Workers |-> todo'[v]] /\ hooks' = [v \in Workers |-> hooks'[v]]
      /\ training' = [v \in Workers |-> training'[v]]
  BY <1>1, <1>2, NoiseWork
<1>4. Workers' = Workers
  BY <1>3 DEF Workers, Pools, World
<1>5. NoiseContract' = NoiseContract
  BY <1>1, <1>3, ContractSame
<1>6. ASSUME NEW v \in Workers
      PROVE  /\ todo'[v] \in Seq(Lists(Ops)) /\ hooks'[v] \in SUBSET HookArgs /\ training'[v] \in BOOLEAN
             /\ Left(todo[v]) => Left(todo'[v])
             /\ LeftButLast(todo[v]) => LeftButLast(todo'[v])
             /\ Works(NoiseContract, todo'[v], NoiseState(v)')
  <2>1. /\ todo[v] \in Seq(Lists(Ops)) /\ NoiseState(v) \in NoiseStates
        /\ Len(todo[v]) > 0 => RestOf(todo[v]) \in Seq(Lists(Ops)) /\ Tail(todo[v]) \in Seq(Lists(Ops))
    BY <1>2, OpIs
  <2>2. hooks[v] \in SUBSET HookArgs /\ training[v] \in BOOLEAN
    BY <1>2 DEF WorkTyped
  <2>3. Works(NoiseContract, todo[v], NoiseState(v))
    BY DEF NoiseInv, NoiseWorks
  <2>4. CASE NoiseStays(v)
    <3>1. NoiseState(v)' = NoiseState(v)
      BY <2>4 DEF NoiseStays, NoiseState
    <3> QED
      BY <2>1, <2>2, <2>3, <2>4, <3>1 DEF NoiseStays
  <2>5. CASE NoiseDoes(v)
    <3>1. NoiseState(v)' \in NoiseStates
      BY <2>5 DEF NoiseDoes, NoiseMoves
    <3>2. Works(NoiseContract, RestOf(todo[v]), NoiseState(v)')
      BY <2>1, <2>3, <2>5, <3>1, NoiseContractIs, WorksStep DEF NoiseDoes
    <3>3. (Left(todo[v]) => Left(RestOf(todo[v]))) /\ (LeftButLast(todo[v]) => LeftButLast(RestOf(todo[v])))
      BY <2>1, <2>5, LeftRest DEF NoiseDoes
    <3> QED
      BY <2>1, <2>5, <3>2, <3>3 DEF NoiseDoes
  <2>6. CASE NoiseDrops(v)
    <3>1. NoiseState(v)' \in Hooked({})
      BY <2>2, <2>6 DEF NoiseDrops, NoiseState, Hooked, NoiseStates
    <3>2. NoiseState(v)' \in OfCall(NoiseContract, todo[v], 1)
      BY <3>1, NoiseContractIs DEF OfCall
    <3>3. Works(NoiseContract, Tail(todo[v]), NoiseState(v)')
      BY <2>1, <2>3, <2>6, <3>2, WorksDrop DEF NoiseDrops
    <3>4. (Left(todo[v]) => Left(Tail(todo[v]))) /\ (LeftButLast(todo[v]) => LeftButLast(Tail(todo[v])))
      BY <2>1, <2>6, LeftRest DEF NoiseDrops
    <3> QED
      BY <2>1, <2>2, <2>6, <3>3, <3>4 DEF NoiseDrops
  <2> QED
    BY <1>3, <2>4, <2>5, <2>6
<1>7. WorkTyped'
  BY <1>3, <1>4, <1>6 DEF WorkTyped
<1>8. NoiseTyped'
  BY <1>1, <1>3, <1>7 DEF NoiseInv, NoiseTyped
<1>9. Control'
  <2>1. \A x : GroupOf(x)' = GroupOf(x)
    BY <1>3, <1>4 DEF GroupOf, Group, Actors, PoolOf
  <2>2. phase = "calling" /\ ~waiting => \A w \in Workers : Left(todo[w])
    BY DEF NoiseInv, Control
  <2>3. phase = "calling" /\ waiting =>
          /\ Len(calls) > 0 /\ calls[1] # "track"
          /\ \A w \in Workers :
               /\ LeftButLast(todo[w])
               /\ w \notin GroupOf(calls[1]) \/ calls[1] = "analyze" => Left(todo[w])
    BY DEF NoiseInv, Control
  <2> QED
    BY <1>1, <1>4, <1>6, <2>1, <2>2, <2>3 DEF Control
<1>10. Controller'
  <2>1. ScaleOf(step)' = ScaleOf(step) /\ ControllerActive(step + 1)' = ControllerActive(step + 1)
    BY <1>1, <1>3 DEF ScaleOf, ControllerActive
  <2> QED
    BY <1>1, <1>3, <2>1 DEF NoiseInv, Controller
<1>11. NoiseWorks'
  BY <1>4, <1>5, <1>6 DEF NoiseWorks
<1> QED
  BY <1>8, <1>9, <1>10, <1>11 DEF NoiseInv

\* A call finds the noise it is asked to work under.
LEMMA FindsIt ==
  ASSUME NoiseInv, phase = "calling", Len(calls) > 0, calls[1] # "track"
  PROVE  FindsAsked(calls[1])
<1> DEFINE call == calls[1]
           what == [for |-> call, step |-> step]
<1>1. what.for = call /\ what.step = step
  OBVIOUS
<1>2. Has(calls, call)
  <2>1. 1 \in 1..Len(calls)
    BY CallsEmpty DEF NoiseInv
  <2> QED
    BY <2>1 DEF Has
<1> HIDE DEF what, call
<1>3. call \in {"generate", "resample", "old_log_prob", "update_actor"} => step >= first
  <2>1. call \in {"generate", "resample", "old_log_prob", "update_actor"} => Rank(call) \in 6..13
    BY DEF Rank
  <2>2. step < first => ~(Rank(call) \in 6..13)
    BY <1>2 DEF NoiseInv, Controller
  <2>3. step \in Nat /\ first \in Nat
    BY DEF NoiseInv, NoiseTyped
  <2> QED
    BY <2>1, <2>2, <2>3
<1>4. /\ noise \in Noises /\ {} \in Noises
      /\ ValidationNoise \in Noises
  <2>1. noise \in Noises /\ step \in Nat
    BY DEF NoiseInv, NoiseTyped
  <2>2. One \in Scales
    BY DEF One, Scales
  <2> QED
    BY <2>1, <2>2 DEF Noises, ValidationNoise
<1> DEFINE asked == {[kind |-> "train", step |-> step, scale |-> ScaleOf(step)]}
<1>5. step >= first /\ job.apply # "none" => noise = asked
  BY DEF NoiseInv, Controller
<1> HIDE DEF asked
<1>6. CASE call = "generate" /\ job.mode = "sync"
  <2>1. NoiseOf(call) = IF job.apply \in {"all", "rollout_only"} THEN noise ELSE {}
    BY <1>6 DEF NoiseOf, ApplyToRollout
  <2>2. Asked(what) = IF job.apply \in {"all", "rollout_only"} THEN asked ELSE {}
    BY <1>1, <1>6 DEF Asked, asked
  <2>3. NoiseOf(call) = Asked(what) /\ NoiseOf(call) \in Noises
    BY <2>1, <2>2, <1>3, <1>4, <1>5, <1>6
  <2> QED
    BY <2>3 DEF FindsAsked, what, call
<1>7. CASE call = "validate" /\ job.mode = "sync"
  <2>1. NoiseOf(call) = Asked(what) /\ NoiseOf(call) \in Noises
    BY <1>1, <1>4, <1>7 DEF NoiseOf, Asked
  <2> QED
    BY <2>1 DEF FindsAsked, what, call
<1>8. CASE call = "old_log_prob" \/ (call = "resample" /\ job.mode = "sync")
  <2>1. NoiseOf(call) = IF job.apply \in {"all", "rollout_only"} THEN noise ELSE {}
    BY <1>8 DEF NoiseOf, ApplyToOldLogProb
  <2>2. Asked(what) = IF job.apply \in {"all", "rollout_only"} THEN asked ELSE {}
    BY <1>1, <1>8 DEF Asked, asked
  <2>3. NoiseOf(call) = Asked(what) /\ NoiseOf(call) \in Noises
    BY <2>1, <2>2, <1>3, <1>4, <1>5, <1>8
  <2> QED
    BY <2>3 DEF FindsAsked, what, call
<1>9. CASE call = "clean_log_prob"
  <2>1. NoiseOf(call) = Asked(what) /\ NoiseOf(call) \in Noises
    BY <1>1, <1>4, <1>9 DEF NoiseOf, Asked
  <2> QED
    BY <2>1 DEF FindsAsked, what, call
<1>10. CASE call = "update_actor"
  <2>1. NoiseOf(call) = IF job.apply \in {"all", "update_only"} THEN noise ELSE {}
    BY <1>10 DEF NoiseOf, ApplyToActorUpdate
  <2>2. Asked(what) = IF job.apply \in {"all", "update_only"} THEN asked ELSE {}
    BY <1>1, <1>10 DEF Asked, asked
  <2>3. NoiseOf(call) = Asked(what) /\ NoiseOf(call) \in Noises
    BY <2>1, <2>2, <1>3, <1>4, <1>5, <1>10
  <2> QED
    BY <2>3 DEF FindsAsked, what, call
<1> QED
  BY <1>6, <1>7, <1>8, <1>9, <1>10 DEF FindsAsked, call

\* A remote call.
LEMMA NoiseCall ==
  ASSUME NoiseInv, Call
  PROVE  NoiseInv'
<1> DEFINE call == calls[1]
<1>1. Len(calls) > 0 /\ Head(calls) = call /\ call \in CallNames /\ call # "track"
  BY CallsEmpty DEF Call, NoiseInv
<1>2. /\ phase = "calling" /\ ~waiting /\ waiting' = TRUE
      /\ UNCHANGED <<job, hooks, training, phase, calls, step, first, tracked, noise, ema, nextScale>>
      /\ todo' = [w \in Workers |->
           IF w \in GroupOf(call) /\ Method(call, w) # <<>> THEN Append(todo[w], Method(call, w)) ELSE todo[w]]
  BY <1>1 DEF Call, startVars, diskVars
<1>3. NoiseTyped /\ WorkTyped /\ step \in Nat /\ tracked \in Nat
  BY DEF NoiseInv, NoiseTyped
<1>4. FindsAsked(call)
  BY <1>1, <1>2, FindsIt
<1> HIDE DEF call
<1>5. Workers' = Workers /\ \A x : GroupOf(x)' = GroupOf(x)
  BY <1>2 DEF Workers, Pools, World, GroupOf, Group, Actors, PoolOf
<1>6. NoiseContract' = NoiseContract
  BY <1>2, ContractSame
<1>7. ASSUME NEW w \in Workers
      PROVE  /\ todo'[w] \in Seq(Lists(Ops)) /\ LeftButLast(todo'[w])
             /\ w \notin GroupOf(call) \/ call = "analyze" => Left(todo'[w])
             /\ Works(NoiseContract, todo'[w], NoiseState(w))
  <2> DEFINE l == Method(call, w)
  <2>1. todo[w] \in Seq(Lists(Ops)) /\ NoiseState(w) \in NoiseStates /\ Left(todo[w])
        /\ Works(NoiseContract, todo[w], NoiseState(w))
    BY <1>2, <1>3, OpIs DEF NoiseInv, Control, NoiseWorks
  <2>2. LeftButLast(todo[w])
    <3>1. \A p \in 1..(Len(todo[w]) - 1) : p \in 1..Len(todo[w])
      BY <2>1, EmptyQueue
    <3> QED
      BY <2>1, <3>1 DEF Left, LeftButLast
  <2>3. Does(NoiseContract, l, Hooked({}), Hooked({}))
    BY <1>1, <1>3, <1>4, NoiseMethod
  <2>4. call = "analyze" => l \in Seq(AnalysisOps)
    <3> SUFFICES ASSUME call = "analyze" PROVE l \in Seq(AnalysisOps)
      OBVIOUS
    <3> DEFINE what == [for |-> call, step |-> step]
    <3>1. what \in Whats /\ what.for = "analyze"
      BY <1>1, <1>3 DEF Whats
    <3>2. l = AnalyzeGenerationPolicy(what)
      BY DEF Method
    <3> QED
      BY <3>1, <3>2, AnalyzeLeft
  <2>5. CASE ~(w \in GroupOf(call) /\ l # <<>>)
    <3>1. todo'[w] = todo[w]
      BY <1>2, <2>5
    <3> QED
      BY <2>1, <2>2, <3>1
  <2>6. CASE w \in GroupOf(call) /\ l # <<>>
    <3>1. todo'[w] = Append(todo[w], l)
      BY <1>2, <2>6
    <3>2. l \in Lists(Ops) /\ Leads(NoiseContract, l, NoiseContract.idle, NoiseContract.idle)
      <4>1. l \in Seq(Ops) /\ Leads(NoiseContract, l, Hooked({}), Hooked({}))
        BY <2>3 DEF Does
      <4>2. Len(l) > 0
        BY <4>1, <2>6, EmptyQueue
      <4> QED
        BY <4>1, <4>2, NoiseContractIs DEF Lists
    <3> HIDE DEF l
    <3>3. Works(NoiseContract, Append(todo[w], l), NoiseState(w))
      BY <2>1, <3>2, NoiseContractIs, WorksCall
    <3> QED
      BY <2>1, <2>4, <2>6, <3>1, <3>2, <3>3, LeftAppend
  <2> QED
    BY <2>5, <2>6
<1>8. WorkTyped'
  BY <1>2, <1>3, <1>5, <1>7 DEF WorkTyped
<1>9. NoiseTyped'
  BY <1>2, <1>3, <1>8 DEF NoiseTyped
<1>10. Control'
  BY <1>1, <1>2, <1>5, <1>7 DEF Control, call
<1>11. Controller'
  <2>1. ScaleOf(step)' = ScaleOf(step) /\ ControllerActive(step + 1)' = ControllerActive(step + 1)
    BY <1>2 DEF ScaleOf, ControllerActive
  <2> QED
    BY <1>2, <2>1 DEF NoiseInv, Controller
<1>12. NoiseWorks'
  <2>1. \A w : NoiseState(w)' = NoiseState(w)
    BY <1>2 DEF NoiseState
  <2> QED
    BY <1>5, <1>6, <1>7, <2>1 DEF NoiseWorks
<1> QED
  BY <1>9, <1>10, <1>11, <1>12 DEF NoiseInv

\* The rest of the calls.
LEMMA CallsGo ==
  ASSUME NoiseTyped, Len(calls) > 0
  PROVE  /\ Between(Tail(calls), 1, 19) /\ calls[1] = Head(calls) /\ calls[1] \in CallNames
         /\ \A x : Has(Tail(calls), x) => Has(calls, x)
         /\ \A x : Has(calls, x) /\ x # calls[1] => Has(Tail(calls), x)
         /\ Rank(calls[1]) # 0 => ~Has(Tail(calls), calls[1])
         /\ Has(calls, calls[1])
<1>1. Between(calls, 1, 19)
  BY DEF NoiseTyped
<1>2. Has(calls, calls[1])
  <2>1. 1 \in 1..Len(calls)
    BY CallsEmpty
  <2> QED
    BY <2>1 DEF Has
<1>3. Between(Tail(calls), 1, 19) /\ calls[1] = Head(calls) /\ calls[1] \in CallNames
  BY <1>1, BetweenTail
<1>4. \A x : Has(Tail(calls), x) => Has(calls, x)
  BY <1>1, BetweenTail
<1>5. \A x : Has(calls, x) /\ x # calls[1] => Has(Tail(calls), x)
  BY <1>1, BetweenTail
<1>6. Rank(calls[1]) # 0 => ~Has(Tail(calls), calls[1])
  BY <1>1, BetweenFirst, Zenon
<1> QED
  BY <1>2, <1>3, <1>4, <1>5, <1>6, Zenon

\* One call is over, and nothing else has changed that the noise depends on.
LEMMA NoiseGo ==
  ASSUME NoiseInv, phase = "calling", Len(calls) > 0, calls' = Tail(calls), waiting' = FALSE,
         UNCHANGED <<job, todo, hooks, training, step, first, noise>>,
         tracked' \in Nat, phase' \in {"calling", "raised"},
         \A w \in Workers : Left(todo[w]),
         \/ UNCHANGED <<ema, nextScale>> /\ (calls[1] = "values" => ~job.adaptive \/ phase' = "raised")
         \/ calls[1] = "values" /\ job.adaptive /\ UpdateController
  PROVE  NoiseInv'
<1>1. Workers' = Workers
  BY DEF Workers, Pools, World
<1>2. WorkTyped' /\ NoiseTyped /\ Controller
  <2>1. WorkTyped
    BY DEF NoiseInv, NoiseTyped
  <2> QED
    BY <1>1, <2>1 DEF WorkTyped, NoiseInv
<1>3. step \in Nat /\ first \in Nat \ {0} /\ ema \in SUBSET Nat /\ nextScale \in Scales
  BY <1>2 DEF NoiseTyped
<1>4. ema' \in SUBSET Nat /\ nextScale' \in Scales
  <2>1. One \in Scales
    BY DEF One, Scales
  <2>2. [of |-> step, over |-> ema] \in Scales
    BY <1>3 DEF Scales
  <2>3. UpdateController => ema' \in SUBSET Nat /\ nextScale' \in Scales
    BY <1>3, <2>1, <2>2 DEF UpdateController
  <2> QED
    BY <1>3, <2>3
<1>5. NoiseTyped'
  BY <1>2, <1>4, CallsGo DEF NoiseTyped
<1>6. Control'
  BY <1>1 DEF Control
<1>7. Controller'
  <2> SUFFICES ASSUME phase' = "calling" PROVE Controller'
    BY DEF Controller
  <2>1. ScaleOf(step)' = ScaleOf(step) /\ ControllerActive(step + 1)' = ControllerActive(step + 1)
    BY DEF ScaleOf, ControllerActive
  <2>2. /\ step >= first - 1
        /\ step < first => \A x : Has(calls, x) => ~(Rank(x) \in 6..13)
        /\ step >= first /\ job.apply # "none" =>
             noise = {[kind |-> "train", step |-> step, scale |-> ScaleOf(step)]}
        /\ job.adaptive /\ Has(calls, "values") => ema = first..(step - 1)
        /\ job.adaptive /\ ~Has(calls, "values") =>
             /\ ema = first..step
             /\ nextScale = IF step > first /\ ControllerActive(step + 1)
                            THEN [of |-> step, over |-> first..(step - 1)] ELSE One
    BY <1>2 DEF Controller
  <2>3. /\ \A x : Has(Tail(calls), x) => Has(calls, x)
        /\ \A x : Has(calls, x) /\ x # calls[1] => Has(Tail(calls), x)
        /\ Rank(calls[1]) # 0 => ~Has(Tail(calls), calls[1])
        /\ Has(calls, calls[1])
    BY <1>2, CallsGo
  <2>4. step' < first' => \A x : Has(calls', x) => ~(Rank(x) \in 6..13)
    BY <2>2, <2>3
  <2>5. CASE calls[1] = "values" /\ job.adaptive /\ UpdateController
    <3>1. Rank(calls[1]) = 11 /\ 11 \in 6..13
      BY <2>5 DEF Rank
    <3>2. step >= first /\ ~Has(calls', "values") /\ ema = first..(step - 1)
      BY <1>3, <2>2, <2>3, <2>5, <3>1
    <3>3. ema' = first..step
      BY <1>3, <2>5, <3>2 DEF UpdateController
    <3>4. ema # {} <=> step > first
      <4>1. step > first => first \in ema
        BY <1>3, <3>2
      <4>2. ~(step > first) => first..(step - 1) = {}
        BY <1>3
      <4> QED
        BY <3>2, <4>1, <4>2
    <3>5. nextScale' = IF step > first /\ ControllerActive(step + 1)
                       THEN [of |-> step, over |-> first..(step - 1)] ELSE One
      BY <2>5, <3>2, <3>4 DEF UpdateController
    <3> QED
      BY <2>1, <2>2, <2>4, <3>2, <3>3, <3>5 DEF Controller
  <2>6. CASE UNCHANGED <<ema, nextScale>> /\ (calls[1] = "values" => ~job.adaptive)
    <3>1. job.adaptive => (Has(calls', "values") <=> Has(calls, "values"))
      BY <2>3, <2>6
    <3> QED
      BY <2>1, <2>2, <2>4, <2>6, <3>1 DEF Controller
  <2> QED
    BY <2>5, <2>6
<1>8. NoiseWorks'
  BY <1>1, ContractSame DEF NoiseInv, NoiseWorks, NoiseState
<1> QED
  BY <1>5, <1>6, <1>7, <1>8 DEF NoiseInv

\* The tracker, a result and an exception.
LEMMA NoiseReturn ==
  ASSUME NoiseInv, Track \/ Return \/ Except
  PROVE  NoiseInv'
<1>1. phase = "calling" /\ tracked \in Nat /\ step \in Nat /\ waiting \in BOOLEAN
  BY DEF Track, Return, Except, NoiseInv, NoiseTyped
<1>2. waiting =>
        /\ Len(calls) > 0 /\ calls[1] # "track"
        /\ \A w \in Workers : w \notin GroupOf(calls[1]) \/ calls[1] = "analyze" => Left(todo[w])
  BY <1>1 DEF NoiseInv, Control
<1>3. Len(calls) > 0 => Head(calls) = calls[1]
  BY CallsEmpty DEF NoiseInv
<1>4. CASE Track
  <2>1. Len(calls) > 0 /\ calls[1] = "track"
    <3>1. calls # <<>> /\ Head(calls) = "track"
      BY <1>4 DEF Track
    <3>2. (calls = <<>> <=> Len(calls) = 0) /\ Len(calls) \in Nat
      BY CallsEmpty DEF NoiseInv
    <3> QED
      BY <3>1, <3>2, <1>3
  <2>2. ~waiting /\ \A w \in Workers : Left(todo[w])
    BY <1>1, <1>2, <2>1 DEF NoiseInv, Control
  <2>3. /\ calls' = Tail(calls) /\ waiting' = FALSE /\ tracked' \in Nat /\ phase' = "calling"
        /\ UNCHANGED <<job, todo, hooks, training, step, first, noise, ema, nextScale>>
    BY <1>1, <1>4, <2>2 DEF Track, startVars, workVars
  <2> QED
    BY <1>1, <2>1, <2>2, <2>3, NoiseGo
<1>5. CASE Return
  <2>1. waiting /\ Len(calls) > 0 /\ Head(calls) = calls[1]
    BY <1>2, <1>3, <1>5 DEF Return
  <2>2. \A w \in Workers : Left(todo[w])
    <3>1. ASSUME NEW w \in Workers, w \in GroupOf(calls[1]) PROVE Left(todo[w])
      <4>1. todo[w] = <<>>
        BY <3>1, <2>1, <1>5 DEF Return
      <4>2. Len(todo[w]) = 0
        BY <4>1
      <4>3. 1..Len(todo[w]) = {}
        BY <4>2
      <4> QED
        BY <4>3 DEF Left
    <3> QED
      BY <3>1, <1>2, <2>1
  <2>3. /\ calls' = Tail(calls) /\ waiting' = FALSE /\ tracked' = tracked /\ phase' \in {"calling", "raised"}
        /\ UNCHANGED <<job, todo, hooks, training, step, first, noise>>
    BY <1>1, <1>5 DEF Return, startVars, workVars, diskVars
  <2>4. IF calls[1] = "values" /\ job.adaptive THEN UpdateController ELSE UNCHANGED <<ema, nextScale>>
    BY <1>5, <2>1 DEF Return
  <2> QED
    BY <1>1, <2>1, <2>2, <2>3, <2>4, NoiseGo
<1>6. CASE Except
  <2>1. waiting /\ Len(calls) > 0 /\ Head(calls) = calls[1]
    BY <1>2, <1>3, <1>6 DEF Except
  <2>2. UNCHANGED <<job, todo, hooks, training, step, first, tracked, noise, ema, nextScale>>
    BY <1>6 DEF Except, startVars, workVars, diskVars
  <2>3. CASE calls[1] = "analyze"
    <3>1. calls' = Tail(calls) /\ waiting' = FALSE /\ phase' = "calling"
      BY <1>1, <1>6, <2>1, <2>3 DEF Except
    <3>2. \A w \in Workers : Left(todo[w])
      BY <1>2, <2>1, <2>3
    <3> QED
      BY <1>1, <2>1, <2>2, <2>3, <3>1, <3>2, NoiseGo
  <2>4. CASE calls[1] # "analyze"
    <3>1. calls' = calls /\ waiting' = FALSE /\ phase' = "raised"
      BY <1>6, <2>1, <2>4 DEF Except
    <3>2. Workers' = Workers
      BY <2>2 DEF Workers, Pools, World
    <3>3. NoiseTyped'
      <4>1. WorkTyped'
        BY <2>2, <3>2 DEF WorkTyped, NoiseInv, NoiseTyped
      <4> QED
        BY <2>2, <3>1, <4>1 DEF NoiseInv, NoiseTyped
    <3>4. Control' /\ Controller'
      BY <3>1 DEF Control, Controller
    <3>5. NoiseWorks'
      BY <2>2, <3>2, ContractSame DEF NoiseInv, NoiseWorks, NoiseState
    <3> QED
      BY <3>3, <3>4, <3>5 DEF NoiseInv
  <2> QED
    BY <2>3, <2>4
<1> QED
  BY <1>4, <1>5, <1>6

\* The start of fit, with the checkpoint that the tracker names.
LEMMA NoiseStart ==
  ASSUME NoiseInv, StartFit
  PROVE  NoiseInv'
<1>1. /\ phase = "starting" /\ calls' = FirstCalls /\ step' = tracked /\ first' = tracked + 1
      /\ UNCHANGED <<job, todo, hooks, training, waiting, noise, tracked, ema, nextScale>>
  BY DEF StartFit, startVars, workVars, diskVars
<1>2. NoiseTyped /\ WorkTyped /\ tracked \in Nat
  BY DEF NoiseInv, NoiseTyped
<1>3. ~waiting /\ ema = {} /\ nextScale = One /\ \A w \in Workers : Len(todo[w]) = 0
  BY <1>1 DEF NoiseInv, Control
<1>4. Workers' = Workers
  BY <1>1 DEF Workers, Pools, World
<1>5. /\ Between(FirstCalls, 1, 19) /\ \A x : Has(FirstCalls, x) => ~(Rank(x) \in 6..13)
  <2>1. Between(FirstCalls, 1, 16) /\ \A x : Has(FirstCalls, x) => ~(Rank(x) \in 6..13)
    BY FirstCallsIs
  <2>2. Between(FirstCalls, 1, 19)
    BY <2>1, BetweenMore
  <2> QED
    BY <2>1, <2>2
<1>6. NoiseTyped'
  <2>1. WorkTyped'
    BY <1>1, <1>2, <1>4 DEF WorkTyped
  <2>2. Between(calls', 1, 19)
    BY <1>1, <1>5
  <2>3. step' \in Nat /\ first' \in Nat \ {0} /\ tracked' \in Nat
    BY <1>1, <1>2
  <2>4. job' \in Jobs /\ waiting' \in BOOLEAN /\ noise' \in Noises /\ nextScale' \in Scales /\ ema' \in SUBSET Nat
    BY <1>1, <1>2 DEF NoiseTyped
  <2> QED
    BY <2>1, <2>2, <2>3, <2>4 DEF NoiseTyped
<1>7. Control'
  <2>1. \A w \in Workers : Left(todo[w])
    <3>1. \A w \in Workers : 1..Len(todo[w]) = {}
      BY <1>3
    <3> QED
      BY <3>1 DEF Left
  <2>2. phase' = "calling"
    BY DEF StartFit
  <2> QED
    BY <1>1, <1>3, <1>4, <2>1, <2>2 DEF Control
<1>8. Controller'
  <2>1. step' < first' /\ step' >= first' - 1 /\ ~(step' > first') /\ ~(step' >= first') /\ first'..step' = {}
    BY <1>1, <1>2
  <2>2. ~Has(calls', "values")
    <3>1. Rank("values") = 11 /\ 11 \in 6..13
      BY DEF Rank
    <3> QED
      BY <3>1, <1>1, <1>5
  <2>3. \A x : Has(calls', x) => ~(Rank(x) \in 6..13)
    BY <1>1, <1>5
  <2> QED
    BY <1>1, <1>3, <2>1, <2>2, <2>3 DEF Controller
<1>9. NoiseWorks'
  <2>1. ASSUME NEW w \in Workers PROVE Works(NoiseContract', todo'[w], NoiseState(w)')
    <3>1. NoiseState(w) \in Hooked({})
      BY <1>3, WorksEmpty, NoiseContractIs DEF NoiseInv, NoiseWorks
    <3>2. NoiseContract'.after = Hooked({}) /\ NoiseState(w)' = NoiseState(w)
      BY <1>1 DEF NoiseContract, NoiseState
    <3>3. Len(todo'[w]) = 0
      BY <1>1, <1>3
    <3> QED
      BY <3>1, <3>2, <3>3, WorksEmpty
  <2> QED
    BY <1>4, <2>1 DEF NoiseWorks
<1> QED
  BY <1>6, <1>7, <1>8, <1>9 DEF NoiseInv

\* The next step.
LEMMA NoiseAdvance ==
  ASSUME NoiseInv, Advance
  PROVE  NoiseInv'
<1>1. /\ phase = "calling" /\ calls = <<>>
      /\ UNCHANGED <<job, todo, hooks, training, waiting, first, tracked, ema, nextScale>>
  BY DEF Advance, startVars, workVars, diskVars
<1>2. NoiseTyped /\ WorkTyped /\ job \in Jobs /\ step \in Nat /\ first \in Nat \ {0} /\ nextScale \in Scales
  BY DEF NoiseInv, NoiseTyped
<1>3. CASE step >= job.steps
  <2>1. phase' = "done" /\ UNCHANGED <<step, calls, noise>>
    BY <1>3 DEF Advance
  <2> QED
    BY <1>1, <2>1, NoiseSame
<1>4. CASE ~(step >= job.steps)
  <2>0. PICK again : calls' = StepCalls(step + 1, again)
    BY <1>1, <1>4 DEF Advance
  <2>1. /\ step' = step + 1 /\ calls' = StepCalls(step + 1, again)
        /\ noise' = (IF job.apply = "none" THEN {} ELSE ScaledNoise(step + 1)) /\ phase' = "calling"
    BY <2>0, <1>1, <1>4 DEF Advance
  <2>2. Workers' = Workers
    BY <1>1 DEF Workers, Pools, World
  <2>3. step + 1 \in Nat /\ step' \in Nat
    BY <1>2, <2>1
  <2>4. Between(calls', 1, 19) /\ (Has(calls', "values") <=> job.critic)
    <3>1. Between(StepCalls(step + 1, again), 6, 19) /\ (Has(StepCalls(step + 1, again), "values") <=> job.critic)
      BY <2>3, StepCallsIs
    <3>2. Between(StepCalls(step + 1, again), 1, 19)
      BY <3>1, BetweenMore
    <3> QED
      BY <2>1, <3>1, <3>2
  <2>5. ~Has(calls, "values") /\ Len(calls) = 0
    <3>1. Len(calls) = 0
      BY <1>1
    <3>2. 1..Len(calls) = {}
      BY <3>1
    <3> QED
      BY <3>1, <3>2 DEF Has
  <2>6. ~waiting /\ \A w \in Workers : Left(todo[w])
    BY <1>1, <2>5 DEF NoiseInv, Control, NoiseTyped
  <2>7. /\ step >= first - 1
        /\ job.adaptive =>
             /\ ema = first..step
             /\ nextScale = IF step > first /\ ControllerActive(step + 1)
                            THEN [of |-> step, over |-> first..(step - 1)] ELSE One
    BY <1>1, <2>5 DEF NoiseInv, Controller
  <2> DEFINE scale == IF ControllerActive(step + 1) THEN nextScale ELSE One
  <2>8. noise' = IF job.apply = "none" THEN {} ELSE {[kind |-> "train", step |-> step + 1, scale |-> scale]}
    BY <2>1 DEF ScaledNoise
  <2>9. scale \in Scales /\ noise' \in Noises
    <3>1. One \in Scales
      BY DEF One, Scales
    <3>2. scale \in Scales
      BY <1>2, <3>1
    <3> HIDE DEF scale
    <3> QED
      BY <2>3, <2>8, <3>2 DEF Noises
  <2>10. scale = ScaleOf(step)'
    <3>1. ScaleOf(step)' = IF /\ job.adaptive /\ step + 1 >= job.window[1] /\ step + 1 <= job.window[2]
                               /\ (step + 1) - 1 > first
                            THEN [of |-> (step + 1) - 1, over |-> first..((step + 1) - 2)] ELSE One
      BY <1>1, <2>1 DEF ScaleOf, One
    <3>2. (step + 1) - 1 = step /\ (step + 1) - 2 = step - 1
      BY <1>2
    <3>3. ControllerActive(step + 1) <=>
            job.adaptive /\ step + 1 >= job.window[1] /\ step + 1 <= job.window[2]
      BY DEF ControllerActive
    <3> HIDE DEF One
    <3> QED
      BY <2>7, <3>1, <3>2, <3>3
  <2> HIDE DEF scale
  <2>11. NoiseTyped'
    <3>1. WorkTyped'
      BY <1>1, <1>2, <2>2 DEF WorkTyped
    <3> QED
      BY <1>1, <1>2, <2>3, <2>4, <2>9, <3>1 DEF NoiseTyped
  <2>12. Control'
    BY <1>1, <2>1, <2>2, <2>6 DEF Control
  <2>13. Controller'
    <3>1. step' >= first' /\ step' >= first' - 1 /\ ~(step' < first') /\ step' - 1 = step
      BY <1>1, <1>2, <2>1, <2>7
    <3>2. job.adaptive => job.critic
      BY <1>2, NoisyAssumption
    <3>3. job'.apply # "none" => noise' = {[kind |-> "train", step |-> step', scale |-> ScaleOf(step)']}
      BY <1>1, <2>1, <2>8, <2>10
    <3>4. job'.adaptive /\ Has(calls', "values") => ema' = first'..(step' - 1)
      BY <1>1, <2>7, <3>1
    <3>5. job'.adaptive => Has(calls', "values")
      BY <1>1, <2>4, <3>2
    <3> QED
      BY <3>1, <3>3, <3>4, <3>5 DEF Controller
  <2>14. NoiseWorks'
    <3>1. ASSUME NEW w \in Workers PROVE Works(NoiseContract', todo'[w], NoiseState(w)')
      <4>1. Works(NoiseContract, todo[w], NoiseState(w))
        BY DEF NoiseInv, NoiseWorks
      <4>2. Works(NoiseContract', todo[w], NoiseState(w))
        BY <1>1, <1>2, <2>6, <4>1, LeftAnyStep
      <4>3. todo'[w] = todo[w] /\ NoiseState(w)' = NoiseState(w)
        BY <1>1 DEF NoiseState
      <4> QED
        BY <4>2, <4>3
    <3> QED
      BY <2>2, <3>1 DEF NoiseWorks
  <2> QED
    BY <2>11, <2>12, <2>13, <2>14 DEF NoiseInv
<1> QED
  BY <1>3, <1>4

\* The job is started again.
LEMMA NoiseRestart ==
  ASSUME NoiseInv, Restart
  PROVE  NoiseInv'
<1>1. /\ UNCHANGED <<job, tracked>> /\ step' = 0 /\ first' = 1 /\ waiting' = FALSE /\ calls' = <<>>
      /\ phase' = "starting" /\ noise' = {} /\ nextScale' = One /\ ema' = {}
      /\ todo' = [w \in Workers |-> <<>>] /\ hooks' = [w \in Workers |-> {}]
      /\ training' = [w \in Workers |-> TRUE]
  BY DEF Restart, diskVars
<1>2. <<>> \in Seq(Lists(Ops)) /\ Len(<<>>) = 0 /\ Between(<<>>, 1, 19)
  BY DEF Between
<1>3. noise' \in Noises /\ nextScale' \in Scales
  BY <1>1 DEF Noises, One, Scales
<1>4. Workers' = Workers
  BY <1>1 DEF Workers, Pools, World
<1>5. WorkTyped'
  BY <1>1, <1>2, <1>4 DEF WorkTyped
<1>6. \A w \in Workers : Len(todo'[w]) = 0 /\ NoiseState(w)' \in Hooked({})
  BY <1>1, <1>2 DEF NoiseState, Hooked, NoiseStates
<1>7. NoiseContract'.after = Hooked({})
  BY DEF NoiseContract
<1>8. NoiseWorks'
  BY <1>4, <1>6, <1>7, WorksEmpty DEF NoiseWorks
<1>9. NoiseTyped'
  <2>1. Between(calls', 1, 19)
    BY <1>1, <1>2
  <2>2. job' \in Jobs /\ waiting' \in BOOLEAN /\ tracked' \in Nat
    BY <1>1 DEF NoiseInv, NoiseTyped
  <2>3. step' \in Nat /\ first' \in Nat \ {0}
    BY <1>1
  <2>4. ema' \in SUBSET Nat
    BY <1>1
  <2> QED
    BY <1>3, <1>5, <2>1, <2>2, <2>3, <2>4 DEF NoiseTyped
<1>10. Control' /\ Controller'
  <2>1. nextScale' = One'
    BY <1>1 DEF One
  <2> QED
    BY <1>1, <1>4, <1>6, <2>1 DEF Control, Controller
<1> QED
  BY <1>8, <1>9, <1>10 DEF NoiseInv

\* Every step keeps the invariant.
LEMMA NoiseStep ==
  NoiseInv /\ [Next]_vars => NoiseInv'
<1> SUFFICES ASSUME NoiseInv, [Next]_vars PROVE NoiseInv'
  OBVIOUS
<1>1. CASE Starting
  <2>1. job' = job
    BY <1>1 DEF Starting, StartNext, GetPlacementGroups, CreateRankZero, CreateOthers, TimeOut, SetWorkerInfo
  <2>2. UNCHANGED <<todo, hooks, training, step, first, tracked, calls, waiting, noise, nextScale, ema, phase>>
    BY <1>1 DEF Starting, workVars, fitVars, diskVars
  <2> QED
    BY <2>1, <2>2, NoiseSame
<1>2. CASE RankZeroUp
  <2>1. job' = job
    BY <1>2 DEF RankZeroUp, CreateRegisterCentre
  <2>2. UNCHANGED <<todo, hooks, training, step, first, tracked, calls, waiting, noise, nextScale, ema, phase>>
    BY <1>2 DEF RankZeroUp, workVars, fitVars, diskVars
  <2> QED
    BY <2>1, <2>2, NoiseSame
<1>3. CASE StartFails
  <2>1. /\ phase' = "raised"
        /\ UNCHANGED <<job, todo, hooks, training, step, first, tracked, calls, waiting, noise, nextScale, ema>>
    BY <1>3 DEF StartFails, startVars, workVars, diskVars
  <2> QED
    BY <2>1, NoiseSame
<1>4. CASE Watchdog
  <2>1. /\ phase' = "raised"
        /\ UNCHANGED <<job, todo, hooks, training, step, first, tracked, calls, waiting, noise, nextScale, ema>>
    BY <1>4 DEF Watchdog, startVars, workVars, diskVars
  <2> QED
    BY <2>1, NoiseSame
<1>5. CASE UNCHANGED vars
  <2>1. UNCHANGED <<job, todo, hooks, training, step, first, tracked, calls, waiting, noise, nextScale, ema, phase>>
    BY <1>5 DEF vars, startVars, workVars, fitVars, diskVars
  <2> QED
    BY <2>1, NoiseSame
<1>6. CASE StartFit \/ Call \/ Track \/ Return \/ Except \/ Advance \/ Working \/ Restart
  BY <1>6, NoiseStart, NoiseCall, NoiseReturn, NoiseAdvance, NoiseWorking, NoiseRestart
<1> QED
  BY <1>1, <1>2, <1>3, <1>4, <1>5, <1>6 DEF Next, Step

\* It implies the property: the next operation of a process that has one is right
\* where the process is, and between its calls there are no hooks.
LEMMA NoiseInvMeans ==
  ASSUME NoiseInv
  PROVE  NoiseAsConfigured
<1> SUFFICES ASSUME NEW w \in Actors
             PROVE  /\ At(w, "generate") => Acting(w, "engine") = Asked(Op(w)[2])
                    /\ At(w, "forward") \/ At(w, "update") => Acting(w, "actor") = Asked(Op(w)[2])
                    /\ todo[w] = <<>> => hooks[w] = {}
  BY DEF NoiseAsConfigured
<1>1. w \in Workers
  BY DEF Actors, Group
<1>2. WorkTyped /\ Works(NoiseContract, todo[w], NoiseState(w))
  BY <1>1 DEF NoiseInv, NoiseTyped, NoiseWorks
<1>3. /\ todo[w] \in Seq(Lists(Ops)) /\ NoiseState(w) \in NoiseStates
      /\ todo[w] = <<>> <=> Len(todo[w]) = 0
      /\ Op(w)[1] # "nothing" => Len(todo[w]) > 0
      /\ Len(todo[w]) > 0 => Op(w) = todo[w][1][1] /\ Op(w) \in Ops
      /\ NoiseState(w).hooks = hooks[w] /\ NoiseState(w).training = training[w]
  BY <1>1, <1>2, OpIs
<1>4. Op(w)[1] # "nothing" => <<Op(w), NoiseState(w)>> \in NoiseRight
  BY <1>2, <1>3, WorksNext, NoiseContractIs
<1>5. \A where : Acting(w, where) = ActingIn(NoiseState(w), where)
  BY <1>3 DEF Acting, ActingIn
<1>6. todo[w] = <<>> => hooks[w] = {}
  <2> SUFFICES ASSUME todo[w] = <<>> PROVE hooks[w] = {}
    OBVIOUS
  <2>1. NoiseState(w) \in Hooked({})
    BY <1>2, <1>3, WorksEmpty, NoiseContractIs
  <2> QED
    BY <1>3, <2>1 DEF Hooked
<1>7. At(w, "generate") => Acting(w, "engine") = Asked(Op(w)[2])
  BY <1>4, <1>5 DEF At, NoiseRight
<1>8. At(w, "forward") \/ At(w, "update") => Acting(w, "actor") = Asked(Op(w)[2])
  BY <1>4, <1>5 DEF At, NoiseRight
<1> QED
  BY <1>6, <1>7, <1>8

\* The inductive invariant holds at every moment, for any job, any number of
\* processes and starts.
THEOREM NoisyInductive == Spec => []NoiseInv
<1>1. Init => NoiseInv
  BY NoiseInit
<1> QED
  BY <1>1, NoiseStep, PTL DEF Spec

\* Every pass of the actor and of its engine through the policy runs under the
\* noise the configuration asks for in this step, with the controller's scale of
\* this step, and no hook outlives its call.
THEOREM NoisyAsConfigured == Spec => []NoiseAsConfigured
BY NoisyInductive, NoiseInvMeans, PTL

-----------------------------------------------------------------------------
\* The files of the checkpoints

\* What is left of calls that are lists over S.
Within(q, S) == \A p \in 1..Len(q) : q[p] \in Seq(S)

\* RestIs for the operations of this system.
LEMMA OpsRest ==
  ASSUME NEW q \in Seq(Lists(Ops)), Len(q) > 0
  PROVE  /\ RestOf(q) \in Seq(Lists(Ops)) /\ q[1] \in Seq(Ops) /\ Len(q[1]) \in Nat \ {0}
         /\ Len(q[1]) = 1 => Len(RestOf(q)) = Len(q) - 1 /\ \A p \in 1..(Len(q) - 1) : RestOf(q)[p] = q[p + 1]
         /\ Len(q[1]) # 1 =>
              Len(RestOf(q)) = Len(q) /\ RestOf(q)[1] = Tail(q[1]) /\ \A p \in 2..Len(q) : RestOf(q)[p] = q[p]
BY RestIs

\* What is left of a queue when an operation is done, or its first call dropped.
LEMMA QueueRest ==
  ASSUME NEW q \in Seq(Lists(Ops)), Len(q) > 0, NEW S
  PROVE  /\ Len(RestOf(q)) \in Nat /\ Len(RestOf(q)) <= Len(q) /\ Len(Tail(q)) = Len(q) - 1
         /\ Within(q, S) => Within(RestOf(q), S) /\ Within(Tail(q), S)
         /\ q[Len(q)] \in Seq(S) =>
              /\ Len(RestOf(q)) > 0 => RestOf(q)[Len(RestOf(q))] \in Seq(S)
              /\ Len(Tail(q)) > 0 => Tail(q)[Len(Tail(q))] \in Seq(S)
<1> DEFINE r == RestOf(q)
           t == Tail(q)
<1>1. /\ r \in Seq(Lists(Ops)) /\ q[1] \in Seq(Ops)
      /\ Len(q[1]) = 1 => /\ Len(r) = Len(q) - 1
                          /\ \A p \in 1..(Len(q) - 1) : r[p] = q[p + 1]
      /\ Len(q[1]) # 1 => /\ Len(r) = Len(q) /\ r[1] = Tail(q[1])
                          /\ \A p \in 2..Len(q) : r[p] = q[p]
  BY RestIs
<1>2. Len(q) \in Nat /\ Len(r) \in Nat /\ Len(t) = Len(q) - 1 /\ \A p \in 1..Len(t) : t[p] = q[p + 1]
  BY <1>1
<1>3. \A u : Len(q[1]) > 0 /\ q[1] \in Seq(S) => Tail(q[1]) \in Seq(S)
  OBVIOUS
<1>4. Len(q[1]) > 0
  <2>1. q[1] \in Lists(Ops)
    OBVIOUS
  <2> QED
    BY <2>1 DEF Lists
<1>5. Len(r) <= Len(q)
  BY <1>1, <1>2
<1> HIDE DEF r, t
<1>6. Within(q, S) => Within(t, S)
  BY <1>2 DEF Within
<1>7. ASSUME Within(q, S) PROVE Within(r, S)
  <2> SUFFICES ASSUME NEW p \in 1..Len(r) PROVE r[p] \in Seq(S)
    BY DEF Within
  <2>1. CASE Len(q[1]) = 1
    <3>1. r[p] = q[p + 1] /\ p + 1 \in 1..Len(q)
      BY <1>1, <1>2, <2>1
    <3> QED
      BY <1>7, <3>1 DEF Within
  <2>2. CASE Len(q[1]) # 1
    <3>1. q[p] \in Seq(S) /\ (p = 1 \/ p \in 2..Len(q))
      BY <1>1, <1>2, <1>7, <2>2 DEF Within
    <3> QED
      BY <1>1, <1>3, <1>4, <2>2, <3>1
  <2> QED
    BY <2>1, <2>2
<1>8. ASSUME q[Len(q)] \in Seq(S), Len(t) > 0 PROVE t[Len(t)] \in Seq(S)
  <2>1. Len(t) \in 1..Len(t) /\ Len(t) + 1 = Len(q)
    BY <1>2, <1>8
  <2> QED
    BY <1>2, <1>8, <2>1
<1>9. ASSUME q[Len(q)] \in Seq(S), Len(r) > 0 PROVE r[Len(r)] \in Seq(S)
  <2>1. CASE Len(q[1]) = 1
    <3>1. Len(r) \in 1..(Len(q) - 1) /\ Len(r) + 1 = Len(q)
      BY <1>1, <1>2, <1>9, <2>1
    <3> QED
      BY <1>1, <1>9, <2>1, <3>1
  <2>2. CASE Len(q[1]) # 1
    <3>1. Len(r) = Len(q) /\ (Len(q) = 1 \/ Len(q) \in 2..Len(q))
      BY <1>1, <1>2, <2>2
    <3> QED
      BY <1>1, <1>3, <1>4, <1>9, <2>2, <3>1
  <2> QED
    BY <2>1, <2>2
<1> QED
  BY <1>2, <1>5, <1>6, <1>7, <1>8, <1>9 DEF r, t

\* A queue with one more call.
LEMMA QueueAppend ==
  ASSUME NEW q \in Seq(Lists(Ops)), NEW l, l \in Seq(Ops), Len(l) > 0, NEW S
  PROVE  /\ Len(Append(q, l)) = Len(q) + 1 /\ Append(q, l)[Len(q) + 1] = l
         /\ Within(q, S) /\ l \in Seq(S) => Within(Append(q, l), S)
<1>1. Len(q) \in Nat
  OBVIOUS
<1>2. l \in Lists(Ops)
  BY DEF Lists
<1>3. Len(Append(q, l)) = Len(q) + 1 /\ Append(q, l)[Len(q) + 1] = l /\ \A p \in 1..Len(q) : Append(q, l)[p] = q[p]
  BY <1>2
<1>4. ASSUME Within(q, S), l \in Seq(S), NEW p \in 1..(Len(q) + 1) PROVE Append(q, l)[p] \in Seq(S)
  <2>1. p = Len(q) + 1 \/ p \in 1..Len(q)
    BY <1>1
  <2> QED
    BY <1>3, <1>4, <2>1 DEF Within
<1> QED
  BY <1>3, <1>4 DEF Within

\* Concatenation is closed.
LEMMA SeqOn ==
  ASSUME NEW S, NEW a \in Seq(S), NEW b \in Seq(S)
  PROVE  a \o b \in Seq(S)
OBVIOUS

\* The models that are saved, and the call that saves one.
SavedRoles == {"actor"} \cup (IF job.critic THEN {"critic"} ELSE {})
SaveCall(role) == IF role = "actor" THEN "save_actor" ELSE "save_critic"

\* The names of the files.  A process's file is there; the name of the file that it
\* wrote for the step the tracker names, on the node it was on then.
Names == {f.file : f \in disk}
Saved(w, role, s) == File(w, [role |-> role, step |-> s]) \in Names
FileThen(w, role) ==
  [node |-> nodesThen[w[1]][w[2] \div job.pools[w[1]][1] + 1], role |-> role, rank |-> w[2], step |-> tracked]

\* A process loads nothing but the tracked step of a model of its pool.
RestoreOps(w) ==
  {op \in Ops : op[1] = "restore" =>
     tracked # 0 /\ op[2].step = tracked /\ op[2].role \in SavedRoles /\ w[1] = PoolOf(op[2].role)}

\* The last call in q is one that saves, and it has yet to do so.
Saves(q, role, s) ==
  /\ Len(q) > 0 /\ q[Len(q)] \in Seq(FirmOps)
  /\ \E i \in 1..Len(q[Len(q)]) : q[Len(q)][i] = <<"save", [role |-> role, step |-> s]>>

\* What is left of a call that saves, when an operation is done, or a call dropped
\* that has an operation which may raise.
LEMMA SavesRest ==
  ASSUME NEW q \in Seq(Lists(Ops)), NEW role, NEW s, Saves(q, role, s)
  PROVE  /\ Saves(RestOf(q), role, s) \/ q[1][1] = <<"save", [role |-> role, step |-> s]>>
         /\ Saves(Tail(q), role, s) \/ (q[1][1] \in FirmOps /\ Len(q) = 1)
<1> DEFINE r == RestOf(q)
           t == Tail(q)
           save == <<"save", [role |-> role, step |-> s]>>
           l == q[1]
           z == q[Len(q)]
<1>1. /\ Len(q) > 0 /\ z \in Seq(FirmOps)
      /\ \E i \in 1..Len(z) : z[i] = save
  BY DEF Saves
<1>2. /\ r \in Seq(Lists(Ops)) /\ l \in Seq(Ops) /\ Len(l) \in Nat \ {0} /\ Len(q) \in Nat
      /\ Len(l) = 1 => Len(r) = Len(q) - 1 /\ \A p \in 1..(Len(q) - 1) : r[p] = q[p + 1]
      /\ Len(l) # 1 => Len(r) = Len(q) /\ r[1] = Tail(l) /\ \A p \in 2..Len(q) : r[p] = q[p]
  <2>1. Len(q) \in Nat
    OBVIOUS
  <2>2. RestOf(q) \in Seq(Lists(Ops)) /\ q[1] \in Seq(Ops) /\ Len(q[1]) \in Nat \ {0}
    BY <1>1, OpsRest, Zenon
  <2>3. Len(q[1]) = 1 => Len(RestOf(q)) = Len(q) - 1 /\ \A p \in 1..(Len(q) - 1) : RestOf(q)[p] = q[p + 1]
    BY <1>1, OpsRest, Zenon
  <2>4. Len(q[1]) # 1 =>
          Len(RestOf(q)) = Len(q) /\ RestOf(q)[1] = Tail(q[1]) /\ \A p \in 2..Len(q) : RestOf(q)[p] = q[p]
    BY <1>1, OpsRest, Zenon
  <2> QED
    BY <2>1, <2>2, <2>3, <2>4
<1>3. Len(t) = Len(q) - 1 /\ \A p \in 1..(Len(q) - 1) : t[p] = q[p + 1]
  BY <1>1
<1>4. Len(Tail(l)) = Len(l) - 1 /\ \A i \in 1..(Len(l) - 1) : Tail(l)[i] = l[i + 1]
  BY <1>2
<1>5. \A u \in Seq(FirmOps) : Len(u) > 0 => Tail(u) \in Seq(FirmOps) /\ u[1] \in FirmOps
  OBVIOUS
<1> HIDE DEF r, t, save, l, z
<1>6. CASE Len(q) > 1
  <2>1. Saves(t, role, s)
    <3>1. Len(t) > 0 /\ t[Len(t)] = z
      <4>1. Len(q) - 1 \in 1..(Len(q) - 1) /\ (Len(q) - 1) + 1 = Len(q)
        BY <1>2, <1>6
      <4> QED
        BY <1>3, <4>1 DEF z
    <3> QED
      BY <1>1, <3>1 DEF Saves, save, z
  <2>2. Saves(r, role, s)
    <3>1. Len(r) > 0 /\ r[Len(r)] = z
      <4>1. CASE Len(l) = 1
        <5>1. Len(q) - 1 \in 1..(Len(q) - 1) /\ (Len(q) - 1) + 1 = Len(q)
          BY <1>2, <1>6
        <5> QED
          BY <1>2, <4>1, <5>1 DEF z
      <4>2. CASE Len(l) # 1
        <5>1. Len(q) \in 2..Len(q)
          BY <1>2, <1>6
        <5> QED
          BY <1>2, <4>2, <5>1 DEF z
      <4> QED
        BY <4>1, <4>2
    <3> QED
      BY <1>1, <3>1 DEF Saves, save, z
  <2> QED
    BY <2>1, <2>2 DEF r, t
<1>7. CASE Len(q) = 1
  <2>1. z = l
    BY <1>7 DEF l, z
  <2>2. l[1] \in FirmOps
    BY <1>1, <1>2, <1>5, <2>1
  <2>3. PICK i \in 1..Len(l) : l[i] = save
    BY <1>1, <2>1
  <2>4. CASE i = 1
    BY <1>7, <2>2, <2>3, <2>4 DEF l, save
  <2>5. CASE i # 1
    <3>1. Len(l) # 1 /\ i - 1 \in 1..(Len(l) - 1) /\ (i - 1) + 1 = i
      <4>1. Len(l) \in Nat /\ i \in 1..Len(l)
        BY <1>2
      <4>2. \A n \in Nat : \A j \in 1..n : j # 1 => n # 1 /\ j - 1 \in 1..(n - 1) /\ (j - 1) + 1 = j
        OBVIOUS
      <4> QED
        BY <2>5, <4>1, <4>2
    <3>2. Len(r) = 1 /\ r[Len(r)] = Tail(l) /\ Tail(l)[i - 1] = save /\ i - 1 \in 1..Len(Tail(l))
      BY <1>2, <1>4, <1>7, <2>3, <3>1
    <3>3. Tail(l) \in Seq(FirmOps)
      BY <1>1, <1>2, <1>5, <2>1
    <3>4. Saves(r, role, s)
      <4>1. Len(r) > 0 /\ r[Len(r)] \in Seq(FirmOps)
        BY <3>2, <3>3
      <4>2. \E j \in 1..Len(r[Len(r)]) : r[Len(r)][j] = save
        BY <3>2
      <4> QED
        BY <4>1, <4>2 DEF Saves, save
    <3> QED
      BY <1>7, <2>2, <3>4 DEF r, l
  <2> QED
    BY <2>4, <2>5
<1>8. Len(q) > 1 \/ Len(q) = 1
  <2>1. Len(q) > 0 /\ Len(q) \in Nat
    BY <1>1, <1>2
  <2>2. \A n \in Nat : n > 0 => n > 1 \/ n = 1
    OBVIOUS
  <2> QED
    BY <2>1, <2>2
<1> QED
  BY <1>6, <1>7, <1>8

\* save_checkpoint of a worker saves.
LEMMA SavesCheckpoint ==
  ASSUME NEW role \in Roles, NEW s \in Nat
  PROVE  /\ SaveCheckpoint(role, s) \in Seq(FirmOps) /\ Len(SaveCheckpoint(role, s)) > 0
         /\ \E i \in 1..Len(SaveCheckpoint(role, s)) :
              SaveCheckpoint(role, s)[i] = <<"save", [role |-> role, step |-> s]>>
<1> DEFINE a == Load(role)
           x == <<"barrier", "before">>
           y == <<"save", [role |-> role, step |-> s]>>
           z == <<"barrier", "after">>
           b == <<x, y, z>>
           c == Offload(role)
           d == a \o b
<1>1. x \in FirmOps /\ y \in FirmOps /\ z \in FirmOps
  <2>1. [role |-> role, step |-> s] \in Files
    BY DEF Files
  <2> QED
    BY <2>1 DEF FirmOps, PlainOps, Ops, WordOps, PassOps, Words
<1>2. a \in Seq(FirmOps) /\ c \in Seq(FirmOps)
  BY FirmParts DEF Roles, Parts
<1>3. SaveCheckpoint(role, s) = d \o c
  BY DEF SaveCheckpoint
<1> HIDE DEF a, x, y, z, c
<1>4. b \in Seq(FirmOps) /\ Len(b) = 3 /\ b[2] = y
  BY <1>1
<1> HIDE DEF b
<1>5. d \in Seq(FirmOps) /\ Len(d) = Len(a) + Len(b) /\ Len(a) \in Nat /\ \A i \in 1..Len(b) : d[Len(a) + i] = b[i]
  <2>1. a \in Seq(FirmOps) /\ b \in Seq(FirmOps)
    BY <1>2, <1>4
  <2>2. /\ a \o b \in Seq(FirmOps) /\ Len(a \o b) = Len(a) + Len(b) /\ Len(a) \in Nat
        /\ \A i \in 1..Len(b) : (a \o b)[Len(a) + i] = b[i]
    BY <2>1, ConcatIs
  <2> QED
    BY <2>2
<1>6. d[Len(a) + 2] = y /\ Len(a) + 2 \in 1..Len(d)
  <2>1. 2 \in 1..Len(b)
    BY <1>4
  <2> QED
    BY <1>4, <1>5, <2>1
<1> HIDE DEF d
<1>7. /\ d \o c \in Seq(FirmOps) /\ Len(d \o c) = Len(d) + Len(c) /\ Len(d) \in Nat /\ Len(c) \in Nat
      /\ \A i \in 1..Len(d) : (d \o c)[i] = d[i]
  <2>1. d \in Seq(FirmOps) /\ c \in Seq(FirmOps)
    BY <1>2, <1>5
  <2> QED
    BY <2>1, ConcatIs
<1>8. (d \o c)[Len(a) + 2] = y /\ Len(a) + 2 \in 1..Len(d \o c) /\ Len(d \o c) > 0
  BY <1>5, <1>6, <1>7
<1> QED
  BY <1>3, <1>7, <1>8 DEF y

\* The methods that load no file.
LEMMA NoRestore ==
  ASSUME NEW call \in CallNames \ {"track", "load_actor", "load_critic"}, NEW w \in Workers,
         step \in Nat, FindsAsked(call)
  PROVE  Method(call, w) \in Seq({op \in Ops : op[1] # "restore"})
<1> DEFINE S == {op \in Ops : op[1] # "restore"}
           what == [for |-> call, step |-> step]
           n == NoiseOf(call)
<1>1. what \in Whats /\ "actor" \in Roles /\ "critic" \in Roles
  BY DEF Whats, Roles
<1>2. \A l \in Seq(FirmOps) : l \in Seq(S)
  <2>1. FirmOps \subseteq S
    BY DEF FirmOps, PlainOps
  <2> QED
    BY <2>1
<1>3. \A a, b \in Seq(S) : a \o b \in Seq(S)
  OBVIOUS
<1>4. <<>> \in Seq(S)
  OBVIOUS
<1>5. Load("actor") \in Seq(S) /\ Offload("actor") \in Seq(S) /\ Load("actor_optim") \in Seq(S) /\ Offload("actor_optim") \in Seq(S)
  BY <1>2, FirmParts DEF Parts
<1>6. Enter \in Seq(S) /\ Exit \in Seq(S)
  BY <1>2, FirmSwitch
<1> HIDE DEF what, n
<1>7. \A where \in {"actor", "engine"}, ph \in {"eval", "train"} : n \in Noises =>
        Hook(where, ph, n) \in Seq(S) /\ Unhook(n) \in Seq(S)
  <2> SUFFICES ASSUME NEW where \in {"actor", "engine"}, NEW ph \in {"eval", "train"}, n \in Noises
               PROVE  Hook(where, ph, n) \in Seq(S) /\ Unhook(n) \in Seq(S)
    OBVIOUS
  <2> DEFINE h == [where |-> where, phase |-> ph, noise |-> n]
             hk == <<"hook", h>>
             uk == <<"unhook", "">>
  <2>1. h \in HookArgs
    BY DEF HookArgs
  <2>2. hk \in S /\ uk \in S
    <3> HIDE DEF h
    <3> QED
      BY <2>1 DEF Ops, WordOps, PassOps, Words
  <2>3. /\ Hook(where, ph, n) = IF n = {} THEN <<>> ELSE <<hk>>
        /\ Unhook(n) = IF n = {} THEN <<>> ELSE <<uk>>
    BY DEF Hook, Unhook
  <2> HIDE DEF S, hk, uk
  <2>4. <<hk>> \in Seq(S) /\ <<uk>> \in Seq(S)
    BY <2>2, ShortLists
  <2> QED
    BY <1>4, <2>3, <2>4
<1>8. /\ <<<<"generate", what>>>> \in Seq(S)
      /\ <<<<"eval", "">>, <<"forward", what>>>> \in Seq(S)
      /\ <<<<"train", "">>, <<"update", what>>>> \in Seq(S)
  <2>1. /\ <<"generate", what>> \in S /\ <<"eval", "">> \in S /\ <<"forward", what>> \in S
        /\ <<"train", "">> \in S /\ <<"update", what>> \in S
    BY <1>1 DEF Ops, WordOps, PassOps, Words
  <2> HIDE DEF S
  <2> QED
    BY <2>1, ShortLists, Zenon
<1>9. \A m \in Seq(FirmOps) : Method(call, w) = m => Method(call, w) \in Seq(S)
  BY <1>2
<1> HIDE DEF S
<1>10. CASE call \in {"generate", "resample", "validate"} /\ job.mode = "sync"
  <2>1. n \in Noises
    BY <1>10 DEF FindsAsked, n
  <2>2. Method(call, w) = GenerateSequences(n, what)
    BY <1>10 DEF Method, what, n
  <2>3. Hook("engine", "eval", n) \in Seq(S) /\ Unhook(n) \in Seq(S)
    BY <1>7, <2>1
  <2>4. GenerateSequences(n, what) \in Seq(S)
    BY <2>3, <1>3, <1>6, <1>8, Zenon DEF GenerateSequences
  <2> QED
    BY <2>2, <2>4 DEF S
<1>11. CASE call \in {"generate", "resample", "validate"} /\ job.mode # "sync"
  <2>1. Method(call, w) = <<<<"generate", what>>>>
    BY <1>11 DEF Method, Serve, what
  <2> QED
    BY <2>1, <1>8 DEF S
<1>12. CASE call \in {"old_log_prob", "clean_log_prob"}
  <2>1. n \in Noises
    BY <1>12 DEF FindsAsked, n
  <2>2. Method(call, w) = ComputeLogProb(n, what)
    BY <1>12 DEF Method, what, n
  <2>3. Hook("actor", "eval", n) \in Seq(S) /\ Unhook(n) \in Seq(S)
    BY <1>7, <2>1
  <2>4. ComputeLogProb(n, what) \in Seq(S)
    BY <2>3, <1>3, <1>5, <1>8, Zenon DEF ComputeLogProb
  <2> QED
    BY <2>2, <2>4 DEF S
<1>13. CASE call = "update_actor"
  <2>1. n \in Noises
    BY <1>13 DEF FindsAsked, n
  <2>2. Method(call, w) = UpdateActor(n, what)
    BY <1>13 DEF Method, what, n
  <2>3. Hook("actor", "train", n) \in Seq(S) /\ Unhook(n) \in Seq(S)
    BY <1>7, <2>1
  <2>4. UpdateActor(n, what) \in Seq(S)
    BY <2>3, <1>3, <1>5, <1>8, Zenon DEF UpdateActor
  <2> QED
    BY <2>2, <2>4 DEF S
<1>14. CASE call = "analyze"
  <2>1. Method(call, w) = AnalyzeGenerationPolicy(what)
    BY <1>14 DEF Method, what
  <2>2. AnalyzeGenerationPolicy(what) \in Seq(S)
    BY <1>3, <1>5, <1>8, Zenon DEF AnalyzeGenerationPolicy
  <2> QED
    BY <2>1, <2>2 DEF S
<1>15. CASE call \in {"init_critic", "init_actor", "init_engine"}
  <2>1. Method(call, w) \in {InitCritic, InitActor, InitEngine}
    BY <1>15 DEF Method
  <2> QED
    BY <2>1, <1>1, <1>2, FirmMethods DEF S
<1>16. CASE call \in {"wake_up", "sleep"}
  <2>1. Method(call, w) \in {WakeUp(w), Sleep(w)}
    BY <1>16 DEF Method
  <2> QED
    BY <2>1, <1>1, <1>2, FirmMethods DEF S
<1>17. CASE call \in {"ref", "values", "update_critic"}
  <2>1. Method(call, w) \in {ComputeRefLogProb(what), ComputeValues(what), UpdateCritic(what)}
    BY <1>17 DEF Method, what
  <2> QED
    BY <2>1, <1>1, <1>2, FirmMethods DEF S
<1>18. CASE call \in {"save_actor", "save_critic"}
  <2>1. Method(call, w) \in {SaveCheckpoint("actor", step), SaveCheckpoint("critic", step)}
    BY <1>18 DEF Method
  <2> QED
    BY <2>1, <1>1, <1>2, FirmMethods DEF S
<1> QED
  BY <1>10, <1>11, <1>12, <1>13, <1>14, <1>15, <1>16, <1>17, <1>18 DEF CallNames

\* A step of the processes: no file goes, and a process that saves has its file there.
LEMMA FilesWork ==
  ASSUME WorkTyped, WorkNext
  PROVE  /\ UNCHANGED startVars /\ Names \subseteq Names'
         /\ \A v \in Workers :
              \/ todo'[v] = todo[v]
              \/ /\ Len(todo[v]) > 0 /\ todo'[v] = RestOf(todo[v])
                 /\ todo[v][1][1][1] = "save" => File(v, todo[v][1][1][2]) \in Names'
              \/ Len(todo[v]) > 0 /\ todo'[v] = Tail(todo[v]) /\ todo[v][1][1][1] \in {"restore", "forward"}
<1>1. PICK w \in Workers : Local(w) \/ Together(w) \/ Fails(w)
  BY DEF WorkNext
<1>2. todo = [v \in Workers |-> todo[v]]
  BY DEF WorkTyped
<1>3. /\ Op(w)[1] # "nothing" => Len(todo[w]) > 0 /\ Op(w) = todo[w][1][1] /\ Rest(w) = RestOf(todo[w])
  BY OpIs
<1>4. CASE Local(w)
  <2> DEFINE F == File(w, Op(w)[2])
  <2>1. Op(w)[1] # "nothing" /\ UNCHANGED startVars /\ todo' = [todo EXCEPT ![w] = Rest(w)]
    BY <1>4 DEF Local
  <2>2. /\ Op(w)[1] # "save" => disk' = disk
        /\ Op(w)[1] = "save" =>
             disk' = {f \in disk : f.file # F}
                       \cup {[file |-> F, weights |-> model[w][Op(w)[2].role], random |-> random[w].now]}
    BY <1>4 DEF Local
  <2> HIDE DEF F
  <2>3. Names \subseteq Names' /\ (Op(w)[1] = "save" => F \in Names')
    <3>1. CASE Op(w)[1] = "save"
      <4> DEFINE new == [file |-> F, weights |-> model[w][Op(w)[2].role], random |-> random[w].now]
      <4>1. new.file = F /\ new \in disk' /\ \A f \in disk : f.file # F => f \in disk'
        BY <2>2, <3>1
      <4> HIDE DEF new
      <4>2. F \in Names'
        BY <4>1 DEF Names
      <4>3. \A f \in disk : f.file # F => f.file \in Names'
        BY <4>1 DEF Names
      <4> QED
        BY <4>2, <4>3 DEF Names
    <3>2. CASE Op(w)[1] # "save"
      BY <2>2, <3>2 DEF Names
    <3> QED
      BY <3>1, <3>2
  <2>4. todo'[w] = RestOf(todo[w]) /\ \A v \in Workers : v # w => todo'[v] = todo[v]
    BY <1>2, <1>3, <2>1
  <2> QED
    BY <1>3, <2>1, <2>3, <2>4 DEF F
<1>5. CASE Together(w)
  <2>1. /\ UNCHANGED startVars /\ disk' = disk
        /\ todo' = [v \in Workers |-> IF v \in Partners(w) THEN Rest(v) ELSE todo[v]]
        /\ Op(w)[1] \in Collective /\ \A v \in Partners(w) : Op(v) = Op(w)
    BY <1>5 DEF Together
  <2>2. ASSUME NEW v \in Workers, v \in Partners(w)
        PROVE  Len(todo[v]) > 0 /\ todo'[v] = RestOf(todo[v]) /\ todo[v][1][1][1] # "save"
    <3>1. Op(v)[1] \in Collective
      BY <2>1, <2>2
    <3>2. Op(v)[1] # "nothing" /\ Op(v)[1] # "save"
      BY <3>1 DEF Collective
    <3> QED
      BY <2>1, <2>2, <3>2, OpIs
  <2>3. Names' = Names
    BY <2>1 DEF Names
  <2> QED
    BY <2>1, <2>2, <2>3
<1>6. CASE Fails(w)
  <2>1. /\ UNCHANGED startVars /\ disk' = disk /\ todo' = [todo EXCEPT ![w] = Tail(@)]
        /\ Op(w)[1] \in {"restore", "forward"}
    BY <1>6 DEF Fails
  <2>2. todo'[w] = Tail(todo[w]) /\ \A v \in Workers : v # w => todo'[v] = todo[v]
    BY <1>2, <2>1
  <2>3. Names' = Names
    BY <2>1 DEF Names
  <2> QED
    BY <1>3, <2>1, <2>2, <2>3
<1> QED
  BY <1>1, <1>4, <1>5, <1>6

\* The parts of the invariant.  The pools are placed before the calls begin; a
\* checkpoint is loaded only if the tracker names one, and of the models there are;
\* and what is left to load is of it.
FilesUp == phase = "calling" => start = "up"
FilesLoaded ==
  /\ Has(calls, "load_actor") => tracked # 0
  /\ Has(calls, "load_critic") => tracked # 0 /\ job.critic
FilesAsked == \A w \in Workers : Within(todo[w], RestoreOps(w))

\* The files of the checkpoint that the tracker names are there.
FilesThere == tracked # 0 => \A role \in SavedRoles : \A w \in Group(role) : FileThen(w, role) \in Names

\* Before the tracker is written, those of the models that have been saved; and while
\* the driver waits for a save, each process has its file there or has yet to save it.
FilesSaved ==
  phase = "calling" /\ Has(calls, "track") =>
    \A role \in SavedRoles : ~Has(calls, SaveCall(role)) => \A w \in Group(role) : Saved(w, role, step)
FilesSaving ==
  phase = "calling" /\ waiting =>
    \A role \in SavedRoles : calls[1] = SaveCall(role) =>
      \A w \in Group(role) : Saved(w, role, step) \/ Saves(todo[w], role, step)

FilesInv == FilesUp /\ FilesLoaded /\ FilesAsked /\ FilesThere /\ FilesSaved /\ FilesSaving

\* What does not change while the job does not, and where the processes are while
\* their placement does not.
LEMMA FilesFrame ==
  ASSUME job' = job
  PROVE  /\ Workers' = Workers /\ Pools' = Pools /\ SavedRoles' = SavedRoles
         /\ \A r : Group(r)' = Group(r) /\ PoolOf(r)' = PoolOf(r)
         /\ \A w, r : Group(r) \subseteq Workers /\ (w \in Group(r) => w[1] = PoolOf(r))
         /\ place' = place => \A w, x : File(w, x)' = File(w, x)
         /\ tracked' = tracked => \A w : RestoreOps(w)' = RestoreOps(w)
<1>1. Workers' = Workers /\ Pools' = Pools
  BY DEF Workers, Pools, World
<1>2. SavedRoles' = SavedRoles
  BY DEF SavedRoles
<1>3. \A r : Group(r)' = Group(r) /\ PoolOf(r)' = PoolOf(r)
  BY <1>1 DEF Group, PoolOf
<1>4. \A w, r : Group(r) \subseteq Workers /\ (w \in Group(r) => w[1] = PoolOf(r))
  BY DEF Group
<1>5. place' = place => \A w, x : File(w, x)' = File(w, x)
  BY DEF File, NodeOf
<1>6. tracked' = tracked => \A w : RestoreOps(w)' = RestoreOps(w)
  BY <1>2, <1>3 DEF RestoreOps
<1> QED
  BY <1>1, <1>2, <1>3, <1>4, <1>5, <1>6

\* The names of the models.
LEMMA SavedRolesAre ==
  /\ SavedRoles \subseteq Roles /\ "actor" \in SavedRoles
  /\ job.critic => "critic" \in SavedRoles
  /\ \A role \in SavedRoles : /\ SaveCall(role) \in CallNames /\ Rank(SaveCall(role)) \in {16, 17}
                              /\ GroupOf(SaveCall(role)) = Group(role)
                              /\ \A w : Method(SaveCall(role), w) = SaveCheckpoint(role, step)
BY DEF SavedRoles, SaveCall, Roles, CallNames, Rank, GroupOf, Actors, Method

\* Nothing changes for the files.
LEMMA FilesSame ==
  ASSUME FilesInv, UNCHANGED <<job, todo, disk, tracked, nodesThen, calls, step>>,
         phase' = "calling" => phase = "calling" /\ UNCHANGED <<start, place, waiting>>
  PROVE  FilesInv'
<1>1. /\ Workers' = Workers /\ Pools' = Pools /\ SavedRoles' = SavedRoles
      /\ \A r : Group(r)' = Group(r)
      /\ \A w : RestoreOps(w)' = RestoreOps(w)
      /\ place' = place => \A w, x : File(w, x)' = File(w, x)
  BY FilesFrame
<1>2. Names' = Names
  BY DEF Names
<1>3. FilesUp' /\ FilesLoaded'
  BY DEF FilesInv, FilesUp, FilesLoaded, Has
<1>4. FilesAsked'
  BY <1>1 DEF FilesInv, FilesAsked
<1>5. FilesThere'
  BY <1>1, <1>2 DEF FilesInv, FilesThere, FileThen
<1>6. place' = place => \A w, r, s : Saved(w, r, s)' <=> Saved(w, r, s)
  BY <1>1, <1>2 DEF Saved
<1>7. FilesSaved' /\ FilesSaving'
  BY <1>1, <1>6 DEF FilesInv, FilesSaved, FilesSaving
<1> QED
  BY <1>3, <1>4, <1>5, <1>7 DEF FilesInv

\* In the beginning, and when the job is started again.
LEMMA FilesInit ==
  ASSUME Init
  PROVE  FilesInv
<1>1. phase = "starting" /\ calls = <<>> /\ tracked = 0 /\ todo = [w \in Workers |-> <<>>]
  BY DEF Init, WorkInit, FitInit
<1>2. \A w \in Workers : Within(todo[w], RestoreOps(w))
  <2>1. \A w \in Workers : 1..Len(todo[w]) = {}
    BY <1>1
  <2> QED
    BY <2>1 DEF Within
<1>3. \A x : ~Has(calls, x)
  BY <1>1 DEF Has
<1> QED
  BY <1>1, <1>2, <1>3 DEF FilesInv, FilesUp, FilesLoaded, FilesAsked, FilesThere, FilesSaved, FilesSaving

\* When the job is started again, the tracker and the files are as they were.
LEMMA FilesRestart ==
  ASSUME FilesInv, Restart
  PROVE  FilesInv'
<1>1. /\ phase' = "starting" /\ calls' = <<>> /\ todo' = [w \in Workers |-> <<>>]
      /\ UNCHANGED <<job, disk, tracked, nodesThen>>
  BY DEF Restart, diskVars
<1>2. Workers' = Workers /\ SavedRoles' = SavedRoles /\ \A r : Group(r)' = Group(r)
  BY <1>1, FilesFrame
<1>3. \A w \in Workers : Within(todo'[w], RestoreOps(w)')
  <2>1. \A w \in Workers : 1..Len(todo'[w]) = {}
    BY <1>1
  <2> QED
    BY <2>1 DEF Within
<1>4. \A x : ~Has(calls', x)
  BY <1>1 DEF Has
<1>5. FilesThere'
  BY <1>1, <1>2 DEF FilesInv, FilesThere, FileThen, Names
<1> QED
  BY <1>1, <1>2, <1>3, <1>4, <1>5 DEF FilesInv, FilesUp, FilesLoaded, FilesAsked, FilesSaved, FilesSaving

\* The start of fit: the placement is over, and nothing is saved yet.
LEMMA FilesStart ==
  ASSUME NoiseInv, FilesInv, StartFit
  PROVE  FilesInv'
<1>1. /\ phase = "starting" /\ start = "up" /\ phase' = "calling" /\ calls' = FirstCalls
      /\ UNCHANGED <<job, start, place, todo, disk, tracked, nodesThen, waiting>>
  BY DEF StartFit, startVars, workVars, diskVars
<1>2. /\ Workers' = Workers /\ SavedRoles' = SavedRoles /\ \A r : Group(r)' = Group(r)
      /\ \A w : RestoreOps(w)' = RestoreOps(w)
  BY <1>1, FilesFrame
<1>3. FilesUp' /\ FilesAsked'
  BY <1>1, <1>2 DEF FilesInv, FilesUp, FilesAsked
<1>4. FilesLoaded'
  BY <1>1, FirstCallsIs DEF FilesLoaded
<1>5. FilesThere'
  BY <1>1, <1>2 DEF FilesInv, FilesThere, FileThen, Names
<1>6. ~Has(calls', "track")
  <2>1. Between(FirstCalls, 1, 16) /\ Rank("track") = 18
    BY FirstCallsIs DEF Rank
  <2> QED
    BY <1>1, <2>1, NotBetween
<1>7. ~waiting'
  BY <1>1 DEF NoiseInv, Control
<1> QED
  BY <1>3, <1>4, <1>5, <1>6, <1>7 DEF FilesInv, FilesSaved, FilesSaving

\* The next step: it loads nothing, and if it writes the tracker it has all the
\* models to save before.
LEMMA FilesAdvance ==
  ASSUME NoiseInv, FilesInv, Advance
  PROVE  FilesInv'
<1>1. /\ phase = "calling" /\ calls = <<>>
      /\ UNCHANGED <<job, start, place, todo, disk, tracked, nodesThen, waiting>>
  BY DEF Advance, startVars, workVars, diskVars
<1>2. CASE step >= job.steps
  <2>1. phase' = "done" /\ UNCHANGED <<step, calls>>
    BY <1>2 DEF Advance
  <2> QED
    BY <1>1, <2>1, FilesSame
<1>3. CASE ~(step >= job.steps)
  <2>0. PICK again : calls' = StepCalls(step + 1, again)
    BY <1>1, <1>3 DEF Advance
  <2>1. calls' = StepCalls(step + 1, again) /\ phase' = "calling" /\ step + 1 \in Nat
    <3>1. phase' = phase
      BY <1>1, <1>3 DEF Advance
    <3>2. step + 1 \in Nat
      BY DEF NoiseInv, NoiseTyped
    <3> QED
      BY <2>0, <1>1, <3>1, <3>2
  <2>2. /\ Workers' = Workers /\ SavedRoles' = SavedRoles /\ \A r : Group(r)' = Group(r)
        /\ \A w : RestoreOps(w)' = RestoreOps(w)
    BY <1>1, FilesFrame
  <2>3. /\ Between(calls', 6, 19)
        /\ Has(calls', "track") => Has(calls', "save_actor") /\ (job.critic => Has(calls', "save_critic"))
    BY <2>1, StepCallsIs
  <2>4. ~Has(calls', "load_actor") /\ ~Has(calls', "load_critic")
    <3>1. Rank("load_actor") = 4 /\ Rank("load_critic") = 5
      BY DEF Rank
    <3> QED
      BY <2>3, <3>1, NotBetween
  <2>5. FilesUp' /\ FilesAsked' /\ FilesLoaded'
    BY <1>1, <2>2, <2>4 DEF FilesInv, FilesUp, FilesAsked, FilesLoaded
  <2>6. FilesThere'
    BY <1>1, <2>2 DEF FilesInv, FilesThere, FileThen, Names
  <2>7. \A role \in SavedRoles : Has(calls', "track") => Has(calls', SaveCall(role))
    BY <2>3 DEF SavedRoles, SaveCall
  <2>8. ~waiting'
    <3>1. ~(Len(calls) > 0)
      BY <1>1
    <3> QED
      BY <1>1, <3>1 DEF NoiseInv, Control
  <2> QED
    BY <2>2, <2>5, <2>6, <2>7, <2>8 DEF FilesInv, FilesSaved, FilesSaving
<1> QED
  BY <1>2, <1>3

\* One call of a process: it loads only what the tracker names.
LEMMA FilesCallOne ==
  ASSUME NoiseInv, FilesInv, phase = "calling", Len(calls) > 0, calls[1] # "track",
         NEW w \in Workers, w \in GroupOf(calls[1])
  PROVE  Method(calls[1], w) \in Seq(RestoreOps(w))
<1> DEFINE call == calls[1]
<1>1. call \in CallNames /\ step \in Nat /\ tracked \in Nat /\ FindsAsked(call)
  BY CallsEmpty, FindsIt DEF NoiseInv, NoiseTyped
<1>2. Has(calls, call)
  BY CallsGo DEF NoiseInv
<1>3. \A l : l \in Seq({op \in Ops : op[1] # "restore"}) => l \in Seq(RestoreOps(w))
  <2>1. {op \in Ops : op[1] # "restore"} \subseteq RestoreOps(w)
    BY DEF RestoreOps
  <2> QED
    BY <2>1
<1> HIDE DEF call
<1>4. CASE call \notin {"load_actor", "load_critic"}
  <2>1. Method(call, w) \in Seq({op \in Ops : op[1] # "restore"})
    <3>1. call \in CallNames \ {"track", "load_actor", "load_critic"}
      BY <1>1, <1>4 DEF call
    <3> QED
      BY <1>1, <3>1, NoRestore
  <2> QED
    BY <1>3, <2>1 DEF call
<1>5. CASE call \in {"load_actor", "load_critic"}
  <2> DEFINE role == IF call = "load_actor" THEN "actor" ELSE "critic"
             S == RestoreOps(w)
             x == <<"restore", [role |-> role, step |-> tracked]>>
             y == <<"barrier", "loaded">>
             z == IF role = "critic" THEN <<y>> ELSE <<>>
  <2>1. role \in Roles /\ role \in SavedRoles /\ tracked # 0 /\ w[1] = PoolOf(role)
    <3>1. w \in Group(role)
      BY <1>5 DEF GroupOf, Actors, call
    <3>2. role \in SavedRoles /\ tracked # 0
      BY <1>2, <1>5 DEF FilesInv, FilesLoaded, SavedRoles
    <3> QED
      BY <3>1, <3>2 DEF Group, Roles
  <2>2. Method(call, w) = LoadCheckpoint(role, tracked)
    BY <1>5 DEF Method
  <2> HIDE DEF role
  <2>3. x \in S /\ y \in S
    <3>1. [role |-> role, step |-> tracked] \in Files
      BY <1>1, <2>1 DEF Files
    <3> QED
      BY <2>1, <3>1 DEF RestoreOps, Ops, WordOps, PassOps, Words
  <2>4. FirmOps \subseteq S
    BY DEF RestoreOps, FirmOps, PlainOps
  <2>5. \A l \in Seq(FirmOps) : l \in Seq(S)
    BY <2>4
  <2>6. role \in Parts /\ Optim(role) \in Parts
    BY <2>1 DEF Roles, Parts, Optim
  <2>7. Load(role) \in Seq(S) /\ Offload(role) \in Seq(S) /\ Offload(Optim(role)) \in Seq(S)
    BY <2>5, <2>6, FirmParts
  <2>8. LoadCheckpoint(role, tracked) = Load(role) \o <<x>> \o z \o Offload(role) \o Offload(Optim(role))
    BY DEF LoadCheckpoint
  <2> HIDE DEF S, x, y
  <2>9. <<x>> \in Seq(S) /\ z \in Seq(S)
    <3>1. <<x>> \in Seq(S) /\ <<y>> \in Seq(S) /\ <<>> \in Seq(S)
      BY <2>3
    <3> QED
      BY <3>1
  <2> HIDE DEF z
  <2>10. Load(role) \o <<x>> \in Seq(S)
    BY <2>7, <2>9, SeqOn
  <2>11. Load(role) \o <<x>> \o z \in Seq(S)
    BY <2>9, <2>10, SeqOn
  <2>12. Load(role) \o <<x>> \o z \o Offload(role) \in Seq(S)
    BY <2>7, <2>11, SeqOn
  <2>13. Load(role) \o <<x>> \o z \o Offload(role) \o Offload(Optim(role)) \in Seq(S)
    BY <2>7, <2>12, SeqOn
  <2> QED
    BY <2>2, <2>8, <2>13 DEF S, call
<1> QED
  BY <1>4, <1>5

\* A remote call.
LEMMA FilesCall ==
  ASSUME NoiseInv, FilesInv, Call
  PROVE  FilesInv'
<1> DEFINE call == calls[1]
<1>1. Len(calls) > 0 /\ Head(calls) = call /\ call \in CallNames /\ call # "track"
  BY CallsEmpty DEF Call, NoiseInv
<1>2. /\ phase = "calling" /\ ~waiting
      /\ UNCHANGED <<job, start, place, disk, tracked, nodesThen, phase, calls, step>>
      /\ todo' = [w \in Workers |->
           IF w \in GroupOf(call) /\ Method(call, w) # <<>> THEN Append(todo[w], Method(call, w)) ELSE todo[w]]
  BY <1>1 DEF Call, startVars, diskVars
<1>3. WorkTyped /\ step \in Nat /\ tracked \in Nat
  BY DEF NoiseInv, NoiseTyped
<1>4. /\ Workers' = Workers /\ SavedRoles' = SavedRoles /\ \A r : Group(r)' = Group(r)
      /\ \A w, r : Group(r) \subseteq Workers
      /\ \A w : RestoreOps(w)' = RestoreOps(w)
      /\ \A w, x : File(w, x)' = File(w, x)
  BY <1>2, FilesFrame
<1> HIDE DEF call
<1>5. ASSUME NEW w \in Workers PROVE Within(todo'[w], RestoreOps(w))
  <2>1. todo[w] \in Seq(Lists(Ops)) /\ Within(todo[w], RestoreOps(w))
    BY <1>3, OpIs DEF FilesInv, FilesAsked
  <2>2. CASE w \in GroupOf(call) /\ Method(call, w) # <<>>
    <3> DEFINE l == Method(call, w)
    <3>1. l \in Seq(RestoreOps(w))
      BY <1>1, <1>2, <2>2, FilesCallOne DEF call
    <3>2. l \in Seq(Ops)
      <4>1. RestoreOps(w) \subseteq Ops
        BY DEF RestoreOps
      <4> QED
        BY <3>1, <4>1
    <3>3. Len(l) > 0
      BY <2>2, <3>2, EmptyQueue
    <3>4. todo'[w] = Append(todo[w], l)
      BY <1>2, <2>2
    <3> HIDE DEF l
    <3>5. Within(Append(todo[w], l), RestoreOps(w))
      BY <2>1, <3>1, <3>2, <3>3, QueueAppend
    <3> QED
      BY <3>4, <3>5
  <2>3. CASE ~(w \in GroupOf(call) /\ Method(call, w) # <<>>)
    BY <1>2, <2>1, <2>3
  <2> QED
    BY <2>2, <2>3
<1>6. ASSUME NEW role \in SavedRoles, call = SaveCall(role), NEW w \in Group(role)
      PROVE  Saves(todo'[w], role, step)
  <2> DEFINE l == SaveCheckpoint(role, step)
             q == todo[w]
  <2>1. w \in Workers /\ w \in GroupOf(call) /\ Method(call, w) = l /\ role \in Roles
    BY <1>4, <1>6, SavedRolesAre
  <2>2. l \in Seq(FirmOps) /\ Len(l) > 0 /\ \E i \in 1..Len(l) : l[i] = <<"save", [role |-> role, step |-> step]>>
    BY <1>3, <2>1, SavesCheckpoint
  <2>3. q \in Seq(Lists(Ops)) /\ Len(q) \in Nat
    BY <1>3, <2>1, OpIs
  <2> HIDE DEF l
  <2>4. l # <<>> /\ l \in Seq(Ops)
    <3>1. FirmOps \subseteq Ops
      BY DEF FirmOps, PlainOps
    <3>2. l \in Seq(Ops)
      BY <2>2, <3>1
    <3> QED
      BY <2>2, <3>2, EmptyQueue
  <2>5. todo'[w] = Append(q, l)
    BY <1>2, <2>1, <2>4
  <2> HIDE DEF q
  <2>6. Len(Append(q, l)) = Len(q) + 1 /\ Append(q, l)[Len(q) + 1] = l
    BY <2>2, <2>3, <2>4, QueueAppend
  <2>7. Len(Append(q, l)) > 0 /\ Append(q, l)[Len(Append(q, l))] = l
    <3>1. Len(q) + 1 > 0
      BY <2>3
    <3> QED
      BY <2>6, <3>1
  <2> QED
    BY <2>2, <2>5, <2>7 DEF Saves
<1>7. FilesUp' /\ FilesLoaded'
  BY <1>2 DEF FilesInv, FilesUp, FilesLoaded
<1>8. FilesAsked'
  BY <1>4, <1>5 DEF FilesAsked
<1>9. Names' = Names
  BY <1>2 DEF Names
<1>10. FilesThere'
  BY <1>2, <1>4, <1>9 DEF FilesInv, FilesThere, FileThen
<1>11. \A w, r, s : Saved(w, r, s)' <=> Saved(w, r, s)
  BY <1>4, <1>9 DEF Saved
<1>12. FilesSaved'
  BY <1>2, <1>4, <1>11 DEF FilesInv, FilesSaved
<1>13. FilesSaving'
  BY <1>2, <1>4, <1>6 DEF FilesSaving, call
<1> QED
  BY <1>7, <1>8, <1>10, <1>12, <1>13 DEF FilesInv

\* A call is over, of which a save has left its files.
LEMMA FilesGo ==
  ASSUME NoiseInv, FilesInv, phase = "calling", Len(calls) > 0, calls' = Tail(calls), waiting' = FALSE,
         UNCHANGED <<job, start, place, todo, disk, step, tracked, nodesThen>>,
         \A role \in SavedRoles : calls[1] = SaveCall(role) => \A w \in Group(role) : Saved(w, role, step)
  PROVE  FilesInv'
<1>1. /\ Workers' = Workers /\ SavedRoles' = SavedRoles /\ \A r : Group(r)' = Group(r)
      /\ \A w, r : Group(r) \subseteq Workers
      /\ tracked' = tracked => \A w : RestoreOps(w)' = RestoreOps(w)
      /\ \A w, x : File(w, x)' = File(w, x)
  BY FilesFrame
<1>2. Names' = Names
  BY DEF Names
<1>3. /\ \A x : Has(Tail(calls), x) => Has(calls, x)
      /\ \A x : Has(calls, x) /\ x # calls[1] => Has(Tail(calls), x)
      /\ Rank(calls[1]) # 0 => ~Has(Tail(calls), calls[1])
      /\ Has(calls, calls[1]) /\ Between(calls, 1, 19)
  BY CallsGo DEF NoiseInv, NoiseTyped
<1>4. FilesUp'
  BY DEF FilesInv, FilesUp
<1>5. \A w, r, s : Saved(w, r, s)' <=> Saved(w, r, s)
  BY <1>1, <1>2 DEF Saved
<1>6. FilesAsked' /\ FilesLoaded'
  BY <1>1, <1>3 DEF FilesInv, FilesAsked, FilesLoaded
<1>7. FilesThere'
  BY <1>1, <1>2 DEF FilesInv, FilesThere, FileThen
<1>8. FilesSaved'
  <2> SUFFICES ASSUME Has(calls', "track"), NEW role \in SavedRoles, ~Has(calls', SaveCall(role)),
                      NEW w \in Group(role)
               PROVE  Saved(w, role, step)
    BY <1>1, <1>5 DEF FilesSaved
  <2>1. CASE calls[1] = SaveCall(role)
    BY <2>1
  <2>2. CASE calls[1] # SaveCall(role)
    <3>1. ~Has(calls, SaveCall(role)) /\ Has(calls, "track")
      BY <1>3, <2>2
    <3> QED
      BY <3>1 DEF FilesInv, FilesSaved
  <2> QED
    BY <2>1, <2>2
<1> QED
  BY <1>4, <1>6, <1>7, <1>8 DEF FilesInv, FilesSaving

\* The tracker is written: the processes have no more to load, and the files are there.
LEMMA FilesTrack ==
  ASSUME NoiseInv, FilesInv, phase = "calling", Len(calls) > 0, calls' = Tail(calls), waiting' = FALSE,
         UNCHANGED <<job, start, place, todo, disk, step>>, calls[1] = "track", tracked' = step,
         \A p \in Pools : nodesThen'[p] = Sorted(place[p]), \A w \in Workers : Left(todo[w])
  PROVE  FilesInv'
<1>1. /\ Workers' = Workers /\ SavedRoles' = SavedRoles /\ \A r : Group(r)' = Group(r)
      /\ \A w, r : Group(r) \subseteq Workers
      /\ tracked' = tracked => \A w : RestoreOps(w)' = RestoreOps(w)
      /\ \A w, x : File(w, x)' = File(w, x)
  BY FilesFrame
<1>2. Names' = Names
  BY DEF Names
<1>3. /\ \A x : Has(Tail(calls), x) => Has(calls, x)
      /\ \A x : Has(calls, x) /\ x # calls[1] => Has(Tail(calls), x)
      /\ Rank(calls[1]) # 0 => ~Has(Tail(calls), calls[1])
      /\ Has(calls, calls[1]) /\ Between(calls, 1, 19)
  BY CallsGo DEF NoiseInv, NoiseTyped
<1>4. FilesUp'
  BY DEF FilesInv, FilesUp
<1>5. \A w, r, s : Saved(w, r, s)' <=> Saved(w, r, s)
  BY <1>1, <1>2 DEF Saved
<1>6. \A x : Has(calls, x) /\ Rank(x) # 0 => Rank(x) >= 18
  <2> SUFFICES ASSUME NEW i \in 1..Len(calls), Rank(calls[i]) # 0 PROVE Rank(calls[i]) >= 18
    BY DEF Has
  <2>1. Rank("track") = 18
    BY DEF Rank
  <2>2. CASE i = 1
    BY <2>1, <2>2
  <2>3. CASE i # 1
    <3>1. 1 \in 1..Len(calls) /\ 1 < i
      <4>1. Len(calls) \in Nat
        BY CallsEmpty DEF NoiseInv
      <4> QED
        BY <2>3, <4>1
    <3>2. Rank(calls[1]) < Rank(calls[i])
      BY <1>3, <2>1, <3>1 DEF Between
    <3>3. Rank(calls[i]) \in Nat
      <4>1. Rank(calls[i]) \in 0..18
        BY RankNat, Zenon
      <4> QED
        BY <4>1
    <3> QED
      BY <2>1, <3>2, <3>3
  <2> QED
    BY <2>2, <2>3
<1>7. ~Has(calls, "load_actor") /\ ~Has(calls, "load_critic")
  <2>1. Rank("load_actor") = 4 /\ Rank("load_critic") = 5
    BY DEF Rank
  <2> QED
    BY <1>6, <2>1
<1>8. \A role \in SavedRoles : ~Has(calls, SaveCall(role))
  <2>1. \A role \in SavedRoles : Rank(SaveCall(role)) \in {16, 17}
    BY SavedRolesAre
  <2> QED
    BY <1>6, <2>1
<1>9. FilesLoaded'
  BY <1>3, <1>7 DEF FilesLoaded
<1>10. ~Has(calls', "track")
  BY <1>3 DEF Rank
<1>11. FilesAsked'
  <2>1. ASSUME NEW w \in Workers PROVE Within(todo[w], RestoreOps(w)')
    <3>1. AnalysisOps \subseteq RestoreOps(w)'
      BY DEF AnalysisOps, RestoreOps
    <3>2. \A l : l \in Seq(AnalysisOps) => l \in Seq(RestoreOps(w)')
      BY <3>1
    <3> QED
      BY <3>2 DEF Left, Within
  <2> QED
    BY <1>1, <2>1 DEF FilesAsked
<1>12. FilesThere'
  <2> SUFFICES ASSUME NEW role \in SavedRoles, NEW w \in Group(role)
               PROVE  FileThen(w, role)' \in Names
    BY <1>1, <1>2 DEF FilesThere
  <2>1. Saved(w, role, step)
    BY <1>3, <1>8 DEF FilesInv, FilesSaved
  <2>2. w[1] \in Pools
    BY DEF Group, Workers
  <2>3. nodesThen'[w[1]] = Sorted(place[w[1]])
    BY <2>2
  <2>4. FileThen(w, role)' = File(w, [role |-> role, step |-> step])
    BY <2>3 DEF FileThen, File, NodeOf
  <2> QED
    BY <2>1, <2>4 DEF Saved
<1> QED
  BY <1>4, <1>9, <1>10, <1>11, <1>12 DEF FilesInv, FilesSaved, FilesSaving

\* A call is over, or has raised.
LEMMA FilesReturn ==
  ASSUME NoiseInv, FilesInv, Track \/ Return \/ Except
  PROVE  FilesInv'
<1>1. /\ Len(calls) \in Nat /\ (calls = <<>> <=> Len(calls) = 0)
      /\ Len(calls) > 0 => Head(calls) = calls[1]
  BY CallsEmpty DEF NoiseInv
<1>2. CASE Track
  <2>1. /\ phase = "calling" /\ calls # <<>> /\ Head(calls) = "track" /\ calls' = Tail(calls) /\ waiting' = waiting
        /\ UNCHANGED <<job, start, place, todo, disk, step>> /\ tracked' = step
    BY <1>2 DEF Track, startVars, workVars
  <2>2. \A p \in Pools : nodesThen'[p] = Sorted(place[p])
    BY <1>2 DEF Track, Sorted
  <2>3. Len(calls) > 0 /\ calls[1] = "track"
    BY <1>1, <2>1
  <2>4. waiting \in BOOLEAN /\ ~waiting /\ \A w \in Workers : Left(todo[w])
    BY <2>1, <2>3 DEF NoiseInv, NoiseTyped, Control
  <2>5. waiting' = FALSE
    BY <2>1, <2>4
  <2> QED
    BY <2>1, <2>2, <2>3, <2>4, <2>5, FilesTrack
<1>3. CASE Return
  <2>1. /\ phase = "calling" /\ waiting /\ calls' = Tail(calls) /\ waiting' = FALSE
        /\ UNCHANGED <<job, start, place, todo, disk, step, tracked, nodesThen>>
        /\ \A w \in GroupOf(Head(calls)) : todo[w] = <<>>
    BY <1>3 DEF Return, startVars, workVars, diskVars
  <2>2. Len(calls) > 0 /\ Head(calls) = calls[1]
    BY <1>1, <2>1 DEF NoiseInv, Control
  <2>3. ASSUME NEW role \in SavedRoles, calls[1] = SaveCall(role), NEW w \in Group(role)
        PROVE  Saved(w, role, step)
    <3>1. w \in GroupOf(Head(calls))
      BY <2>2, <2>3, SavedRolesAre
    <3>2. Len(todo[w]) = 0
      BY <2>1, <3>1
    <3>3. ~Saves(todo[w], role, step)
      BY <3>2 DEF Saves
    <3> QED
      BY <2>1, <2>3, <3>3 DEF FilesInv, FilesSaving
  <2> QED
    BY <2>1, <2>2, <2>3, FilesGo
<1>4. CASE Except
  <2>1. /\ phase = "calling" /\ waiting /\ waiting' = FALSE
        /\ UNCHANGED <<job, start, place, todo, disk, step, tracked, nodesThen>>
    BY <1>4 DEF Except, startVars, workVars, diskVars
  <2>2. Len(calls) > 0 /\ Head(calls) = calls[1]
    BY <1>1, <2>1 DEF NoiseInv, Control
  <2>3. CASE calls[1] = "analyze"
    <3>1. calls' = Tail(calls)
      BY <1>4, <2>2, <2>3 DEF Except
    <3>2. \A role \in SavedRoles : calls[1] # SaveCall(role)
      BY <2>3 DEF SaveCall
    <3> QED
      BY <2>1, <2>2, <3>1, <3>2, FilesGo
  <2>4. CASE calls[1] # "analyze"
    <3>1. phase' = "raised" /\ UNCHANGED calls
      BY <1>4, <2>2, <2>4 DEF Except
    <3> QED
      BY <2>1, <3>1, FilesSame
  <2> QED
    BY <2>3, <2>4
<1> QED
  BY <1>2, <1>3, <1>4

\* The processes work on: what is left to load and to save becomes less, and a file
\* is there when it is no longer left to save.
LEMMA FilesWorking ==
  ASSUME NoiseInv, FilesInv, Working
  PROVE  FilesInv'
<1>1. phase = "calling" /\ WorkNext /\ UNCHANGED <<phase, calls, waiting, step, tracked, nodesThen>>
  BY DEF Working, fitVars, diskVars
<1>2. WorkTyped
  BY DEF NoiseInv, NoiseTyped
<1>3. /\ UNCHANGED <<job, start, place>> /\ Names \subseteq Names'
      /\ \A v \in Workers :
           \/ todo'[v] = todo[v]
           \/ /\ Len(todo[v]) > 0 /\ todo'[v] = RestOf(todo[v])
              /\ todo[v][1][1][1] = "save" => File(v, todo[v][1][1][2]) \in Names'
           \/ Len(todo[v]) > 0 /\ todo'[v] = Tail(todo[v]) /\ todo[v][1][1][1] \in {"restore", "forward"}
  BY <1>1, <1>2, FilesWork DEF startVars
<1>4. /\ Workers' = Workers /\ SavedRoles' = SavedRoles /\ \A r : Group(r)' = Group(r)
      /\ \A w, r : Group(r) \subseteq Workers
      /\ \A w : RestoreOps(w)' = RestoreOps(w)
      /\ \A w, x : File(w, x)' = File(w, x)
  BY <1>1, <1>3, FilesFrame
<1>5. \A w, r, s : Saved(w, r, s) => Saved(w, r, s)'
  BY <1>3, <1>4 DEF Saved
<1>6. ASSUME NEW w \in Workers PROVE Within(todo'[w], RestoreOps(w))
  <2>1. todo[w] \in Seq(Lists(Ops)) /\ Within(todo[w], RestoreOps(w))
    BY <1>2, OpIs DEF FilesInv, FilesAsked
  <2>2. Len(todo[w]) > 0 => Within(RestOf(todo[w]), RestoreOps(w)) /\ Within(Tail(todo[w]), RestoreOps(w))
    BY <2>1, QueueRest
  <2> QED
    BY <1>3, <2>1, <2>2
<1>7. ASSUME NEW role \in SavedRoles, calls[1] = SaveCall(role), waiting, NEW w \in Group(role)
      PROVE  Saved(w, role, step)' \/ Saves(todo'[w], role, step)
  <2> DEFINE q == todo[w]
             save == <<"save", [role |-> role, step |-> step]>>
  <2>1. w \in Workers
    BY <1>4, <1>7
  <2>2. CASE Saved(w, role, step)
    BY <1>1, <1>5, <2>2 DEF Saved
  <2>3. CASE Saves(q, role, step)
    <3>1. q \in Seq(Lists(Ops))
      BY <1>2, <2>1, OpIs
    <3>2. /\ Saves(RestOf(q), role, step) \/ q[1][1] = save
          /\ Saves(Tail(q), role, step) \/ q[1][1] \in FirmOps
      <4> HIDE DEF q
      <4> QED
        BY <2>3, <3>1, SavesRest
    <3>3. CASE todo'[w] = q
      BY <2>3, <3>3
    <3>4. CASE todo'[w] = RestOf(q) /\ (q[1][1][1] = "save" => File(w, q[1][1][2]) \in Names')
      <4>1. CASE q[1][1] = save
        <5>1. File(w, [role |-> role, step |-> step]) \in Names'
          BY <3>4, <4>1
        <5> QED
          BY <1>1, <1>4, <5>1 DEF Saved
      <4>2. CASE Saves(RestOf(q), role, step)
        BY <3>4, <4>2
      <4> QED
        BY <3>2, <4>1, <4>2
    <3>5. CASE todo'[w] = Tail(q) /\ q[1][1][1] \in {"restore", "forward"}
      <4>1. q[1][1] \notin FirmOps
        BY <3>5 DEF FirmOps, PlainOps
      <4> QED
        BY <3>2, <3>5, <4>1
    <3> QED
      BY <1>3, <2>1, <3>3, <3>4, <3>5
  <2> QED
    BY <1>1, <1>7, <2>2, <2>3 DEF FilesInv, FilesSaving
<1>8. FilesUp' /\ FilesLoaded'
  BY <1>1, <1>3 DEF FilesInv, FilesUp, FilesLoaded
<1>9. FilesAsked'
  BY <1>4, <1>6 DEF FilesAsked
<1>10. FilesThere'
  BY <1>1, <1>3, <1>4 DEF FilesInv, FilesThere, FileThen
<1>11. FilesSaved'
  BY <1>1, <1>4, <1>5 DEF FilesInv, FilesSaved
<1>12. FilesSaving'
  BY <1>1, <1>4, <1>7 DEF FilesSaving
<1> QED
  BY <1>8, <1>9, <1>10, <1>11, <1>12 DEF FilesInv

\* While the calls go on the placement stays, as does everything else of this
\* invariant while the processes of the job start.
LEMMA FilesStarting ==
  ASSUME FilesInv, Starting \/ RankZeroUp
  PROVE  FilesInv'
<1>1. /\ UNCHANGED <<job, todo, disk, tracked, nodesThen, calls, step, waiting, phase>>
  BY DEF Starting, RankZeroUp, StartNext, GetPlacementGroups, CreateRankZero, CreateOthers, TimeOut,
         SetWorkerInfo, CreateRegisterCentre, workVars, fitVars, diskVars
<1>2. start = "up" => UNCHANGED <<start, place>>
  BY DEF Starting, RankZeroUp, StartNext, GetPlacementGroups, CreateRankZero, CreateOthers, TimeOut,
         SetWorkerInfo, CreateRegisterCentre
<1> QED
  BY <1>1, <1>2, FilesSame DEF FilesInv, FilesUp

\* Every step keeps it.
LEMMA FilesStep ==
  NoiseInv /\ FilesInv /\ [Next]_vars => FilesInv'
<1> SUFFICES ASSUME NoiseInv, FilesInv, [Next]_vars PROVE FilesInv'
  OBVIOUS
<1>1. CASE Starting \/ RankZeroUp
  BY <1>1, FilesStarting
<1>2. CASE StartFit
  BY <1>2, FilesStart
<1>3. CASE StartFails
  <2>1. phase' = "raised" /\ UNCHANGED <<job, todo, disk, tracked, nodesThen, calls, step>>
    BY <1>3 DEF StartFails, startVars, workVars, diskVars
  <2> QED
    BY <2>1, FilesSame
<1>4. CASE Call
  BY <1>4, FilesCall
<1>5. CASE Track \/ Return \/ Except
  BY <1>5, FilesReturn
<1>6. CASE Advance
  BY <1>6, FilesAdvance
<1>7. CASE Watchdog
  <2>1. phase' = "raised" /\ UNCHANGED <<job, todo, disk, tracked, nodesThen, calls, step>>
    BY <1>7 DEF Watchdog, startVars, workVars, diskVars
  <2> QED
    BY <2>1, FilesSame
<1>8. CASE Working
  BY <1>8, FilesWorking
<1>9. CASE Restart
  BY <1>9, FilesRestart
<1>10. CASE UNCHANGED vars
  <2>1. UNCHANGED <<job, todo, disk, tracked, nodesThen, calls, step, phase, start, place, waiting>>
    BY <1>10 DEF vars, startVars, workVars, fitVars, diskVars
  <2> QED
    BY <2>1, FilesSame
<1> QED
  BY <1>1, <1>2, <1>3, <1>4, <1>5, <1>6, <1>7, <1>8, <1>9, <1>10 DEF Next, Step

\* What the tracker's nodes and the placement say of the pools, in terms of Sorted.
AsThen == \A p \in Pools : Sorted(place[p]) = nodesThen[p]

\* The same in the words of FilesFound.
LEMMA AsThenIs ==
  (\A p \in Pools : SortSeq(place[p], <) = nodesThen[p]) => AsThen
BY DEF AsThen, Sorted

\* A process that is about to load has its file on its node, if the pools are on the
\* nodes they were on.
LEMMA FilesInvMeans ==
  ASSUME NoiseInv, FilesInv, AsThen, NEW w \in Workers, Op(w)[1] = "restore"
  PROVE  CanDo(w)
<1> DEFINE op == todo[w][1][1]
           role == op[2].role
<1>1. WorkTyped
  BY DEF NoiseInv, NoiseTyped
<1>2. /\ todo[w] \in Seq(Lists(Ops)) /\ Len(todo[w]) \in Nat
      /\ Op(w)[1] # "nothing" => Len(todo[w]) > 0
      /\ Len(todo[w]) > 0 => Op(w) = op /\ Op(w) \in Ops
  BY <1>1, OpIs
<1>3. Len(todo[w]) > 0 /\ Op(w) = op
  BY <1>2
<1>4. op \in RestoreOps(w)
  <2>1. todo[w][1] \in Seq(RestoreOps(w)) /\ todo[w][1] \in Lists(Ops)
    BY <1>2, <1>3 DEF FilesInv, FilesAsked, Within
  <2>2. \A S : \A l \in Seq(S) : Len(l) > 0 => l[1] \in S
    OBVIOUS
  <2> QED
    BY <2>1, <2>2 DEF Lists
<1> HIDE DEF op
<1>5. tracked # 0 /\ op[2].step = tracked /\ role \in SavedRoles /\ w[1] = PoolOf(role)
  BY <1>3, <1>4 DEF RestoreOps
<1>6. w \in Group(role)
  BY <1>5 DEF Group
<1>7. FileThen(w, role) \in Names
  BY <1>5, <1>6 DEF FilesInv, FilesThere
<1>8. FileThen(w, role) = File(w, op[2])
  <2>1. w[1] \in Pools
    BY DEF Workers
  <2>2. nodesThen[w[1]] = Sorted(place[w[1]])
    BY <2>1 DEF AsThen
  <2> QED
    BY <1>5, <2>2 DEF FileThen, File, NodeOf
<1>9. PICK f \in disk : f.file = File(w, op[2])
  BY <1>7, <1>8 DEF Names
<1>10. f \in OnDisk(w, Op(w)[2])
  BY <1>3, <1>9 DEF OnDisk
<1> QED
  BY <1>10 DEF CanDo

\* The files of the checkpoint the tracker names are there at every moment.
THEOREM FilesInductive == Spec => [](NoiseInv /\ FilesInv)
<1>1. Init => NoiseInv /\ FilesInv
  BY NoiseInit, FilesInit
<1>2. NoiseInv /\ FilesInv /\ [Next]_vars => (NoiseInv /\ FilesInv)'
  BY NoiseStep, FilesStep
<1> QED
  BY <1>1, <1>2, PTL DEF Spec

\* A process that loads a checkpoint finds its file on its node, whenever the pools
\* are on the nodes they were on when the tracker was written, in whatever order
\* their placement groups have been created this time.
THEOREM CheckpointFound == Spec => []FilesFound
<1>1. NoiseInv /\ FilesInv => FilesFound
  <2>1. NoiseInv /\ FilesInv /\ AsThen => \A w \in Workers : Op(w)[1] = "restore" => CanDo(w)
    BY FilesInvMeans
  <2> QED
    BY <2>1, AsThenIs DEF FilesFound
<1> QED
  BY <1>1, FilesInductive, PTL
================================================================================
