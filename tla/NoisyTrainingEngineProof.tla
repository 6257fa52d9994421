--------------------------- MODULE NoisyTrainingEngineProof ---------------------------
(***************************************************************************)
(* Of NoisyTraining: the engines generate with the weights they should     *)
(* have, beside a cache the GPU has room, and the processes of an engine   *)
(* draw the same samples.                                                  *)
(*                                                                         *)
(* Between two calls of the driver an engine is in a stage, that the calls *)
(* to come and the generations so far determine.  Every method takes it    *)
(* from the stage before its call to the stage after it (EngineMethod), and *)
(* every operation on the way is right where the process is.  The          *)
(* inductive invariant says that what is left of the methods in a          *)
(* process's queue still does so.                                          *)
(***************************************************************************)
EXTENDS NoisyTrainingProof

-----------------------------------------------------------------------------
\* The order of the calls

\* The generations; the calls before them all, and those that come after one.
Gen == {"generate", "resample", "validate"}
Early(call) == Rank(call) \in 1..5
Later(call) == call = "sleep" \/ (Rank(call) \in 8..18 /\ call # "validate")

\* An asynchronous generation comes between wake_up and sleep.
Brackets(l) ==
  /\ \A i \in 1..Len(l) : i + 1 \in 1..Len(l) =>
       (l[i] = "wake_up" <=> l[i + 1] \in Gen) /\ (l[i] \in Gen <=> l[i + 1] = "sleep")
  /\ \A i \in 1..Len(l) : i = Len(l) => l[i] \notin Gen \cup {"wake_up"}

\* Workers are initialised and loaded first, and all else but a generation comes
\* after a generation.
EarlyFirst(l) == \A i, j \in 1..Len(l) : i < j /\ Early(l[j]) => Early(l[i])
Served(l) == \A i \in 1..Len(l) : Later(l[i]) => \E j \in 1..Len(l) : j < i /\ l[j] \in Gen

\* The calls l that are left when n generations are done.
CallsOrder(mode, l, n) ==
  /\ EarlyFirst(l) /\ (n = 0 => Served(l))
  /\ (\E i \in 1..Len(l) : Early(l[i])) => n = 0
  /\ mode = "async" => Brackets(l) /\ ~Has(l, "analyze") /\ (Has(l, "init_actor") => Has(l, "init_engine"))
  /\ mode = "sync" => ~Has(l, "wake_up") /\ ~Has(l, "sleep") /\ ~Has(l, "init_engine")

-----------------------------------------------------------------------------
\* The engine, the GPU and the random state of a process

\* Random states. A core: the version of the engine's weights and of the actor's,
\* is there a cache, is it asleep, the present random state and the one kept for rollout.
RandomStates == [seed : {"default", "engine", "server", "manager"} \X Int, drawn : Nat, by : SUBSET Nat]
Cores ==
  [weights : Nat, actor : Nat, cache : BOOLEAN, asleep : BOOLEAN, now : RandomStates, gen : RandomStates]
EngineStates == [gpu : SUBSET Words, core : Cores]

\* The state of a process, that its engine and its memory depend on.
EngineState(w) ==
  [gpu |-> onGpu[w],
   core |-> [weights |-> engine[w].weights, actor |-> model[w].actor, cache |-> engine[w].cache,
             asleep |-> engine[w].asleep, now |-> random[w].now, gen |-> random[w].gen]]

\* What an operation does to the parts on the GPU, and to the core.
GpuMove(op, g, h) ==
  h = CASE op[1] \in {"load", "build"} -> g \cup {op[2]}
        [] op[1] = "offload" -> g \ {op[2]}
        [] op[1] = "restore" -> g \cup {Optim(op[2].role)}
        [] OTHER -> g

\* What a loaded checkpoint holds is left open.
CoreMove(k, op, c, d) ==
  /\ d.weights = IF op[1] = "sync" THEN c.actor ELSE c.weights
  /\ op[1] \notin {"update", "restore"} => d.actor = c.actor
  /\ d.cache = CASE op \in {<<"wake", "all">>, <<"wake", "cache">>} \/ op[1] = "start_engine" -> TRUE
                 [] op[1] \in {"build_engine", "sleep"} -> FALSE
                 [] OTHER -> c.cache
  /\ d.asleep = CASE op[1] = "asleep" -> TRUE [] op[1] = "awake" -> FALSE [] OTHER -> c.asleep
  /\ d.gen = CASE op[1] = "to_train" -> c.now [] op[1] = "build_manager" -> Seeded(<<"manager", k>>)
               [] OTHER -> c.gen
  /\ op[1] = "to_gen" => d.now = c.gen
  /\ op[1] = "start_engine" => d.now = Seeded(<<"server", k>>)
  /\ op[1] = "generate" => d.now = [c.now EXCEPT !.drawn = @ + 1]
  /\ op[1] \notin {"to_gen", "to_train", "build_engine", "start_engine", "generate", "draw", "restore"} =>
       d.now = c.now

\* The moves of a process of engine k.
EngineMoves(k) ==
  {x \in Ops \X EngineStates \X EngineStates :
     GpuMove(x[1], x[2].gpu, x[3].gpu) /\ CoreMove(k, x[1], x[2].core, x[3].core)}

\* What the contract depends on of the job.
Cfg == [mode |-> job.mode, offload |-> job.offload, tags |-> job.tags,
        known |-> job.mode = "sync" \/ first = 1]
Engine(w) == w[2] \div job.tp

\* The random state that the next generation of engine k starts from, after n.
Drawn(c, k, n) == [seed |-> <<IF c.mode = "sync" THEN "manager" ELSE "server", k>>, drawn |-> n, by |-> {}]
RandomAt(c, k, n) == IF c.known THEN {Drawn(c, k, n)} ELSE RandomStates

\* Of the offloaded parts no more than those of A are on the GPU.
Spot(c, A, C) == {s \in EngineStates : s.gpu \cap c.offload \subseteq A /\ s.core \in C}

\* Cores: before the model is built; between the calls of a synchronous job; and of an
\* asynchronous one before its engines start, up to the first generation, after it,
\* while they serve, and asleep.
CoreRaw == {x \in Cores : ~x.cache /\ ~x.asleep /\ x.weights = 0}
CoreSync(c, k, n) == {x \in Cores : ~x.cache /\ x.gen \in RandomAt(c, k, n)}
CoreNew == {x \in Cores : ~x.asleep /\ x.weights = 0}
CoreUp(c, k) == {x \in Cores : ~x.asleep /\ x.weights = 0 /\ x.now \in RandomAt(c, k, 0)}
CoreFirst(c, k) == {x \in Cores : ~x.asleep /\ x.weights = 0 /\ x.now \in RandomAt(c, k, 1)}
CoreServing(c, k, n) == {x \in Cores : ~x.asleep /\ x.weights = x.actor /\ x.now \in RandomAt(c, k, n)}
CoreAsleep(c, k, n) == {x \in Cores : x.asleep /\ ~x.cache /\ x.gen \in RandomAt(c, k, n)}

\* Where engine k is between the calls, with the calls l to come and n generations done.
Core(c, k, l, n) ==
  IF Has(l, "init_actor") THEN CoreRaw
  ELSE IF c.mode = "sync" THEN CoreSync(c, k, n)
  ELSE IF n = 0 THEN (IF Has(l, "init_engine") THEN CoreNew ELSE CoreUp(c, k))
  ELSE IF Len(l) = 0 \/ l[1] \notin Gen \cup {"sleep"} THEN CoreAsleep(c, k, n)
  ELSE IF n = 1 /\ l[1] = "sleep" THEN CoreFirst(c, k) ELSE CoreServing(c, k, n)
Stage(c, k, l, n) == Spot(c, IF c.mode = "sync" THEN {"actor"} ELSE {}, Core(c, k, l, n))

\* There is room for the cache, and generation g is made as it should be.
RoomAt(c, s, g) == c.tags /\ s.core.cache /\ (c.mode = "sync" \/ g > 0) => s.gpu \cap c.offload = {}
Generates(c, k, x, g) ==
  /\ x.weights = IF c.mode = "async" /\ g = 1 THEN 0 ELSE x.actor
  /\ c.known => x.now = Drawn(c, k, g - 1)

\* Where an operation is right: there is room for the cache, a generation is made as it
\* should be, checkpoints are loaded by their calls alone, and an analysis that is
\* left over finds the engine where it was.
Loads == {"load_actor", "load_critic"}
EngineRight(c, k, l, b, g) ==
  {x \in Ops \X EngineStates :
     /\ RoomAt(c, x[2], g)
     /\ x[1][1] = "generate" => Generates(c, k, x[2].core, g)
     /\ x[1][1] = "restore" => Len(l) > 0 /\ l[1] \in Loads
     /\ x[1][1] = "forward" /\ x[1][2].for = "analyze" => c.mode = "sync" /\ x[2] \in Stage(c, k, l, b)}

\* Of the calls l the first is under way; b generations are done and g begun, and then
\* the calls m are left.
ContractOf(c, k, l, b, m, g) ==
  [states |-> EngineStates, moves |-> EngineMoves(k), right |-> EngineRight(c, k, l, b, g),
   idle |-> Stage(c, k, l, b), after |-> Stage(c, k, m, g)]

\* The generations before the present call, and the calls after it.
Before == IF waiting /\ calls[1] \in Gen THEN generated - 1 ELSE generated
Onward == IF waiting THEN Tail(calls) ELSE calls
EngineContract(k) == ContractOf(Cfg, k, calls, Before, Onward, generated)

\* The load of a checkpoint has raised: of the run nothing is left but its end.
FailedLoad(w) == w \in failed /\ Len(todo[w]) = 0 /\ waiting /\ Len(calls) > 0 /\ calls[1] \in Loads

\* What a process is about to do is right, also when the run has raised.
Fine(w) ==
  /\ RoomAt(Cfg, EngineState(w), generated)
  /\ Len(todo[w]) > 0 /\ todo[w][1][1][1] = "generate" =>
       Generates(Cfg, Engine(w), EngineState(w).core, generated)

\* Between the calls of asynchronous engines, and until the first generation, no
\* process has anything left to do.
QueueShort ==
  job.mode = "async" \/ (Len(calls) > 0 /\ Early(calls[1])) =>
    \A w \in Workers : Len(todo[w]) <= IF waiting /\ w \in GroupOf(calls[1]) THEN 1 ELSE 0

\* The calls in which an engine goes from one stage to the next have no analysis in them.
StillAsked(l) == l \in Seq({op \in Ops : op[1] # "forward"})
LastCall ==
  waiting /\ calls[1] \in Gen \cup {"init_actor"} =>
    \A w \in Workers : w \in GroupOf(calls[1]) /\ Len(todo[w]) > 0 => StillAsked(todo[w][Len(todo[w])])

\* Processes outside the actors' pool do not generate.
Plain(q) == \A p \in 1..Len(q) : q[p] \in Seq(PlainOps)

-----------------------------------------------------------------------------
\* The steps of the processes

\* What the variables of the engines hold.
EngineTyped ==
  /\ onGpu \in [Workers -> SUBSET Words]
  /\ model \in [Workers -> [Roles -> Nat]]
  /\ engine \in [Workers -> [weights : Nat, cache : BOOLEAN, asleep : BOOLEAN]]
  /\ random \in [Workers -> [now : RandomStates, train : RandomStates, gen : RandomStates]]
  /\ \A f \in disk : f.weights \in Nat /\ f.random \in RandomStates

\* A seed makes a random state.
LEMMA SeededIs ==
  ASSUME NEW name \in {"default", "engine", "server", "manager"}, NEW k \in Int
  PROVE  Seeded(<<name, k>>) \in RandomStates
<1>1. <<name, k>> \in {"default", "engine", "server", "manager"} \X Int
  OBVIOUS
<1> QED
  BY <1>1 DEF Seeded, RandomStates

\* Ranks and engines are numbers.
LEMMA WorkerIs ==
  ASSUME job \in Jobs, NEW w \in Workers
  PROVE  w[2] \in Nat /\ Engine(w) \in Int
<1>1. PICK p \in Pools : w \in {p} \X (0..(World(p) - 1))
  BY DEF Workers
<1>2. job.pools \in Seq(Seq(Nat \ {0})) /\ job.tp \in Nat \ {0} /\ job.pools[p] # <<>>
  BY NoisyAssumption DEF Pools
<1>3. p \in 1..Len(job.pools) /\ job.pools[p] \in Seq(Nat \ {0})
  BY <1>2 DEF Pools
<1>4. Len(job.pools[p]) \in Nat /\ job.pools[p][1] \in Nat
  BY <1>2, <1>3, EmptyQueue
<1>5. World(p) \in Int
  BY <1>4 DEF World
<1>6. w[2] \in 0..(World(p) - 1)
  BY <1>1
<1>7. w[2] \in Nat
  BY <1>5, <1>6
<1> QED
  BY <1>2, <1>7 DEF Engine

\* The state of a process, by its parts.
LEMMA EngineStateIs ==
  ASSUME EngineTyped, NEW w \in Workers
  PROVE  /\ EngineState(w) \in EngineStates
         /\ EngineState(w).gpu = onGpu[w] /\ EngineState(w).core \in Cores
         /\ EngineState(w).core.weights = engine[w].weights /\ EngineState(w).core.cache = engine[w].cache
         /\ EngineState(w).core.asleep = engine[w].asleep /\ EngineState(w).core.actor = model[w].actor
         /\ EngineState(w).core.now = random[w].now /\ EngineState(w).core.gen = random[w].gen
<1>1. /\ onGpu[w] \in SUBSET Words /\ model[w].actor \in Nat
      /\ engine[w] \in [weights : Nat, cache : BOOLEAN, asleep : BOOLEAN]
      /\ random[w] \in [now : RandomStates, train : RandomStates, gen : RandomStates]
  BY DEF EngineTyped, Roles
<1> DEFINE c == [weights |-> engine[w].weights, actor |-> model[w].actor, cache |-> engine[w].cache,
                 asleep |-> engine[w].asleep, now |-> random[w].now, gen |-> random[w].gen]
<1>2. /\ c \in Cores /\ c.weights = engine[w].weights /\ c.cache = engine[w].cache
      /\ c.asleep = engine[w].asleep /\ c.actor = model[w].actor
      /\ c.now = random[w].now /\ c.gen = random[w].gen
  BY <1>1 DEF Cores
<1>3. EngineState(w) = [gpu |-> onGpu[w], core |-> c]
  BY DEF EngineState
<1> HIDE DEF c
<1>4. EngineState(w) \in EngineStates /\ EngineState(w).gpu = onGpu[w] /\ EngineState(w).core = c
  BY <1>1, <1>2, <1>3 DEF EngineStates
<1> QED
  BY <1>2, <1>4

\* Its engine after a local operation.
LEMMA EngineAfterIs ==
  ASSUME EngineTyped, NEW w \in Workers
  PROVE  LET a == EngineAfter(w)
             op == Op(w)
         IN  /\ a \in [weights : Nat, cache : BOOLEAN, asleep : BOOLEAN]
             /\ a.weights = engine[w].weights
             /\ a.cache = CASE op \in {<<"wake", "all">>, <<"wake", "cache">>} \/ op[1] = "start_engine" -> TRUE
                            [] op[1] \in {"build_engine", "sleep"} -> FALSE
                            [] OTHER -> engine[w].cache
             /\ a.asleep = CASE op[1] = "asleep" -> TRUE [] op[1] = "awake" -> FALSE
                             [] OTHER -> engine[w].asleep
<1> DEFINE e == engine[w]
           op == Op(w)
<1>1. e \in [weights : Nat, cache : BOOLEAN, asleep : BOOLEAN]
  BY DEF EngineTyped
<1>2. <<"wake", "all">>[1] = "wake" /\ <<"wake", "cache">>[1] = "wake"
  OBVIOUS
<1>3. EngineAfter(w) =
        CASE op[1] = "build_engine"              -> [e EXCEPT !.cache = FALSE]
          [] op[1] = "start_engine"              -> [e EXCEPT !.cache = TRUE]
          [] op \in {<<"wake", "all">>, <<"wake", "cache">>} -> [e EXCEPT !.cache = TRUE]
          [] op[1] = "sleep"                     -> [e EXCEPT !.cache = FALSE]
          [] op[1] = "asleep"                    -> [e EXCEPT !.asleep = TRUE]
          [] op[1] = "awake"                     -> [e EXCEPT !.asleep = FALSE]
          [] OTHER                               -> e
  BY DEF EngineAfter
<1> HIDE DEF e, op
<1>4. op \in {<<"wake", "all">>, <<"wake", "cache">>} => op[1] = "wake"
  BY <1>2
<1>5. \A b \in BOOLEAN :
        /\ [e EXCEPT !.cache = b] \in [weights : Nat, cache : BOOLEAN, asleep : BOOLEAN]
        /\ [e EXCEPT !.cache = b].weights = e.weights /\ [e EXCEPT !.cache = b].cache = b
        /\ [e EXCEPT !.cache = b].asleep = e.asleep
        /\ [e EXCEPT !.asleep = b] \in [weights : Nat, cache : BOOLEAN, asleep : BOOLEAN]
        /\ [e EXCEPT !.asleep = b].weights = e.weights /\ [e EXCEPT !.asleep = b].asleep = b
        /\ [e EXCEPT !.asleep = b].cache = e.cache
  BY <1>1
<1>6. CASE op[1] \in {"build_engine", "sleep"}
  BY <1>3, <1>4, <1>5, <1>6 DEF e, op
<1>7. CASE op[1] = "start_engine" \/ op \in {<<"wake", "all">>, <<"wake", "cache">>}
  BY <1>3, <1>4, <1>5, <1>7 DEF e, op
<1>8. CASE op[1] \in {"asleep", "awake"}
  BY <1>3, <1>4, <1>5, <1>8 DEF e, op
<1>9. CASE /\ op[1] \notin {"build_engine", "sleep", "start_engine", "asleep", "awake"}
           /\ op \notin {<<"wake", "all">>, <<"wake", "cache">>}
  BY <1>1, <1>3, <1>9 DEF e, op
<1> QED
  BY <1>6, <1>7, <1>8, <1>9

\* Its random states after a local operation.
LEMMA RandomAfterIs ==
  ASSUME job \in Jobs, EngineTyped, NEW w \in Workers, CanDo(w)
  PROVE  LET a == RandomAfter(w)
             op == Op(w)
             k == Engine(w)
         IN  /\ a \in [now : RandomStates, train : RandomStates, gen : RandomStates]
             /\ a.gen = CASE op[1] = "to_train" -> random[w].now
                          [] op[1] = "build_manager" -> Seeded(<<"manager", k>>)
                          [] OTHER -> random[w].gen
             /\ op[1] = "to_gen" => a.now = random[w].gen
             /\ op[1] = "start_engine" => a.now = Seeded(<<"server", k>>)
             /\ op[1] \notin {"to_gen", "to_train", "build_engine", "start_engine", "draw", "restore"} =>
                  a.now = random[w].now
<1> DEFINE r == random[w]
           op == Op(w)
           k == Engine(w)
           R == [now : RandomStates, train : RandomStates, gen : RandomStates]
           b == Seeded(<<"engine", 0>>)
           s == Seeded(<<"server", k>>)
           m == Seeded(<<"manager", k>>)
           d == [r.now EXCEPT !.by = @ \cup {w[2]}]
           f == (CHOOSE x \in OnDisk(w, op[2]) : TRUE).random
<1>1. r \in R /\ r.now \in RandomStates /\ r.train \in RandomStates /\ r.gen \in RandomStates
  BY DEF EngineTyped
<1>2. b \in RandomStates /\ s \in RandomStates /\ m \in RandomStates
  BY WorkerIs, SeededIs
<1>3. d \in RandomStates
  <2>1. w[2] \in Nat
    BY WorkerIs
  <2> DEFINE n == r.now
  <2>2. n \in RandomStates
    BY <1>1
  <2> HIDE DEF n, r
  <2>3. n.by \cup {w[2]} \in SUBSET Nat
    BY <2>1, <2>2 DEF RandomStates
  <2>4. [n EXCEPT !.by = n.by \cup {w[2]}] \in RandomStates
    BY <2>2, <2>3 DEF RandomStates
  <2> QED
    BY <2>4 DEF n
<1>4. op[1] = "restore" => f \in RandomStates
  <2> SUFFICES ASSUME op[1] = "restore" PROVE f \in RandomStates
    OBVIOUS
  <2>1. OnDisk(w, op[2]) # {} /\ OnDisk(w, op[2]) \subseteq disk
    BY DEF CanDo, OnDisk
  <2> DEFINE y == CHOOSE x \in OnDisk(w, op[2]) : TRUE
  <2>2. y \in disk
    BY <2>1
  <2> HIDE DEF y
  <2>3. y.random \in RandomStates
    BY <2>2 DEF EngineTyped
  <2> QED
    BY <2>3 DEF y
<1>5. RandomAfter(w) =
        CASE op[1] = "build_engine"  -> [r EXCEPT !.now = b]
          [] op[1] = "start_engine"  -> [r EXCEPT !.now = s]
          [] op[1] = "build_manager" -> [r EXCEPT !.train = r.now, !.gen = m]
          [] op[1] = "to_gen"        -> [r EXCEPT !.train = r.now, !.now = r.gen]
          [] op[1] = "to_train"      -> ToTrain(r)
          [] op[1] = "draw"          -> [r EXCEPT !.now = d]
          [] op[1] = "restore"       -> [r EXCEPT !.now = f]
          [] OTHER                   -> r
  BY DEF RandomAfter, Engine
<1>6. ToTrain(r) = [r EXCEPT !.gen = r.now, !.now = r.train]
  BY DEF ToTrain
<1> HIDE DEF r, op, k, b, s, m, d, f
<1>7. \A x, y \in RandomStates :
        /\ [r EXCEPT !.now = x] \in R /\ [r EXCEPT !.now = x].now = x /\ [r EXCEPT !.now = x].gen = r.gen
        /\ [r EXCEPT !.train = x, !.gen = y] \in R /\ [r EXCEPT !.train = x, !.gen = y].now = r.now
        /\ [r EXCEPT !.train = x, !.gen = y].gen = y
        /\ [r EXCEPT !.train = x, !.now = y] \in R /\ [r EXCEPT !.train = x, !.now = y].now = y
        /\ [r EXCEPT !.train = x, !.now = y].gen = r.gen
        /\ [r EXCEPT !.gen = x, !.now = y] \in R /\ [r EXCEPT !.gen = x, !.now = y].gen = x
  BY <1>1
<1> HIDE DEF R
<1> DEFINE Q(a) ==
      /\ a \in R
      /\ a.gen = CASE op[1] = "to_train" -> r.now [] op[1] = "build_manager" -> m [] OTHER -> r.gen
      /\ op[1] = "to_gen" => a.now = r.gen
      /\ op[1] = "start_engine" => a.now = s
      /\ op[1] \notin {"to_gen", "to_train", "build_engine", "start_engine", "draw", "restore"} => a.now = r.now
<1>8. CASE op[1] = "build_engine"
  <2>1. RandomAfter(w) = [r EXCEPT !.now = b]
    BY <1>5, <1>8
  <2> QED
    BY <1>2, <1>7, <1>8, <2>1 DEF op, r, s, m, k, R
<1>9. CASE op[1] = "start_engine"
  <2> DEFINE a == [r EXCEPT !.now = s]
  <2>1. RandomAfter(w) = a
    BY <1>5, <1>6, <1>9
  <2>2. a \in R /\ a.now = s /\ a.gen = r.gen
    BY <1>2, <1>7
  <2> HIDE DEF a
  <2>3. Q(a)
    BY <1>9, <2>2
  <2> QED
    BY <2>1, <2>3 DEF op, r, s, m, k, R
<1>10. CASE op[1] = "build_manager"
  <2> DEFINE a == [r EXCEPT !.train = r.now, !.gen = m]
  <2>1. RandomAfter(w) = a
    BY <1>5, <1>6, <1>10
  <2>2. a \in R /\ a.now = r.now /\ a.gen = m
    BY <1>1, <1>2, <1>7
  <2> HIDE DEF a
  <2>3. Q(a)
    BY <1>10, <2>2
  <2> QED
    BY <2>1, <2>3 DEF op, r, s, m, k, R
<1>11. CASE op[1] = "to_gen"
  <2> DEFINE a == [r EXCEPT !.train = r.now, !.now = r.gen]
  <2>1. RandomAfter(w) = a
    BY <1>5, <1>6, <1>11
  <2>2. a \in R /\ a.now = r.gen /\ a.gen = r.gen
    BY <1>1, <1>7
  <2> HIDE DEF a
  <2>3. Q(a)
    BY <1>11, <2>2
  <2> QED
    BY <2>1, <2>3 DEF op, r, s, m, k, R
<1>12. CASE op[1] = "to_train"
  <2> DEFINE a == [r EXCEPT !.gen = r.now, !.now = r.train]
  <2>1. RandomAfter(w) = a
    BY <1>5, <1>6, <1>12
  <2>2. a \in R /\ a.gen = r.now
    BY <1>1, <1>7
  <2> HIDE DEF a
  <2>3. Q(a)
    BY <1>12, <2>2
  <2> QED
    BY <2>1, <2>3 DEF op, r, s, m, k, R
<1>13. CASE op[1] = "draw"
  <2> DEFINE a == [r EXCEPT !.now = d]
  <2>1. RandomAfter(w) = a
    BY <1>5, <1>6, <1>13
  <2>2. a \in R /\ a.gen = r.gen
    BY <1>3, <1>7
  <2> HIDE DEF a
  <2>3. Q(a)
    BY <1>13, <2>2
  <2> QED
    BY <2>1, <2>3 DEF op, r, s, m, k, R
<1>14. CASE op[1] = "restore"
  <2> DEFINE a == [r EXCEPT !.now = f]
  <2>1. RandomAfter(w) = a
    BY <1>5, <1>6, <1>14
  <2>2. a \in R /\ a.gen = r.gen
    BY <1>4, <1>14, <1>7
  <2> HIDE DEF a
  <2>3. Q(a)
    BY <1>14, <2>2
  <2> QED
    BY <2>1, <2>3 DEF op, r, s, m, k, R
<1>15. CASE op[1] \notin {"build_engine", "start_engine", "build_manager", "to_gen", "to_train", "draw", "restore"}
  <2>1. RandomAfter(w) = r
    BY <1>5, <1>15
  <2>2. Q(RandomAfter(w))
    BY <1>1, <1>15, <2>1
  <2> QED
    BY <2>2 DEF op, r, s, m, k, R
<1> QED
  BY <1>8, <1>9, <1>10, <1>11, <1>12, <1>13, <1>14, <1>15

\* An operation that has done all this is one of the moves.
LEMMA EngineMoveIs ==
  ASSUME EngineTyped, NEW w \in Workers, NEW op \in Ops,
         EngineState(w)' \in EngineStates,
         GpuMove(op, onGpu[w], onGpu'[w]),
         engine'[w].weights = (IF op[1] = "sync" THEN model[w].actor ELSE engine[w].weights),
         op[1] \notin {"update", "restore"} => model'[w].actor = model[w].actor,
         engine'[w].cache = (CASE op \in {<<"wake", "all">>, <<"wake", "cache">>} \/ op[1] = "start_engine" -> TRUE
                               [] op[1] \in {"build_engine", "sleep"} -> FALSE
                               [] OTHER -> engine[w].cache),
         engine'[w].asleep = (CASE op[1] = "asleep" -> TRUE [] op[1] = "awake" -> FALSE
                                [] OTHER -> engine[w].asleep),
         random'[w].gen = (CASE op[1] = "to_train" -> random[w].now
                             [] op[1] = "build_manager" -> Seeded(<<"manager", Engine(w)>>)
                             [] OTHER -> random[w].gen),
         op[1] = "to_gen" => random'[w].now = random[w].gen,
         op[1] = "start_engine" => random'[w].now = Seeded(<<"server", Engine(w)>>),
         op[1] = "generate" => random'[w].now = [random[w].now EXCEPT !.drawn = @ + 1],
         op[1] \notin {"to_gen", "to_train", "build_engine", "start_engine", "generate", "draw", "restore"} =>
           random'[w].now = random[w].now
  PROVE  <<op, EngineState(w), EngineState(w)'>> \in EngineMoves(Engine(w))
<1> DEFINE s == EngineState(w)
           t == [gpu |-> onGpu'[w],
                 core |-> [weights |-> engine'[w].weights, actor |-> model'[w].actor, cache |-> engine'[w].cache,
                           asleep |-> engine'[w].asleep, now |-> random'[w].now, gen |-> random'[w].gen]]
           c == s.core
           d == t.core
<1>1. t = EngineState(w)'
  BY DEF EngineState
<1>2. /\ s \in EngineStates /\ s.gpu = onGpu[w]
      /\ c.weights = engine[w].weights /\ c.cache = engine[w].cache /\ c.asleep = engine[w].asleep
      /\ c.actor = model[w].actor /\ c.now = random[w].now /\ c.gen = random[w].gen
  BY EngineStateIs
<1>3. /\ t \in EngineStates /\ t.gpu = onGpu'[w]
      /\ d.weights = engine'[w].weights /\ d.cache = engine'[w].cache /\ d.asleep = engine'[w].asleep
      /\ d.actor = model'[w].actor /\ d.now = random'[w].now /\ d.gen = random'[w].gen
  BY <1>1
<1> HIDE DEF s, t
<1>4. GpuMove(op, s.gpu, t.gpu)
  BY <1>2, <1>3
<1>5. CoreMove(Engine(w), op, c, d)
  BY <1>2, <1>3 DEF CoreMove
<1> QED
  BY <1>1, <1>2, <1>3, <1>4, <1>5 DEF EngineMoves, s

\* What a step of the processes can do to one of them.
EngineStays(w) == todo'[w] = todo[w] /\ EngineState(w)' = EngineState(w)
EngineDoes(w) ==
  /\ Len(todo[w]) > 0 /\ todo'[w] = RestOf(todo[w])
  /\ EngineState(w)' \in EngineStates
  /\ <<todo[w][1][1], EngineState(w), EngineState(w)'>> \in EngineMoves(Engine(w))
EngineDrops(w) ==
  /\ Len(todo[w]) > 0 /\ todo'[w] = Tail(todo[w]) /\ EngineState(w)' = EngineState(w)
  /\ todo[w][1][1][1] = "restore" \/ (todo[w][1][1][1] = "forward" /\ todo[w][1][1][2].for = "analyze")
  /\ Len(todo[w]) = 1 => w \in failed'

\* The state of a process, from its parts.
LEMMA EngineStateNext ==
  ASSUME NEW w
  PROVE  EngineState(w)' =
           [gpu |-> onGpu'[w],
            core |-> [weights |-> engine'[w].weights, actor |-> model'[w].actor, cache |-> engine'[w].cache,
                      asleep |-> engine'[w].asleep, now |-> random'[w].now, gen |-> random'[w].gen]]
BY DEF EngineState

\* Its type after a step.
LEMMA EngineStateTyped ==
  ASSUME EngineTyped', Workers' = Workers, NEW w \in Workers
  PROVE  EngineState(w)' \in EngineStates
<1>1. /\ onGpu'[w] \in SUBSET Words /\ model'[w].actor \in Nat
      /\ engine'[w] \in [weights : Nat, cache : BOOLEAN, asleep : BOOLEAN]
      /\ random'[w] \in [now : RandomStates, train : RandomStates, gen : RandomStates]
  BY DEF EngineTyped, Roles
<1> DEFINE c == [weights |-> engine'[w].weights, actor |-> model'[w].actor, cache |-> engine'[w].cache,
                 asleep |-> engine'[w].asleep, now |-> random'[w].now, gen |-> random'[w].gen]
<1>2. c \in Cores
  BY <1>1 DEF Cores
<1>3. EngineState(w)' = [gpu |-> onGpu'[w], core |-> c]
  BY EngineStateNext
<1> HIDE DEF c
<1> QED
  BY <1>1, <1>2, <1>3 DEF EngineStates

\* A local operation.
LEMMA LocalEngine ==
  ASSUME job \in Jobs, WorkTyped, EngineTyped, NEW w \in Workers, Local(w)
  PROVE  /\ EngineTyped' /\ EngineDoes(w)
         /\ \A v \in Workers : v # w => EngineStays(v)
         /\ job' = job /\ failed' = failed
<1> DEFINE op == Op(w)
<1>1. /\ op[1] \notin Collective \cup {"nothing"} /\ CanDo(w)
      /\ todo' = [todo EXCEPT ![w] = Rest(w)] /\ onGpu' = Part(w)
      /\ engine' = [engine EXCEPT ![w] = EngineAfter(w)]
      /\ random' = [random EXCEPT ![w] = RandomAfter(w)]
      /\ model' = (IF op[1] = "restore" THEN [model EXCEPT ![w][op[2].role] =
                                              (CHOOSE f \in OnDisk(w, op[2]) : TRUE).weights]
                                        ELSE model)
      /\ disk' = (IF op[1] = "save"
                  THEN {f \in disk : f.file # File(w, op[2])}
                       \cup {[file |-> File(w, op[2]), weights |-> model[w][op[2].role],
                              random |-> random[w].now]}
                  ELSE disk)
      /\ job' = job /\ failed' = failed
  BY DEF Local, startVars
<1>2. Workers' = Workers
  BY <1>1 DEF Workers, Pools, World
<1>3. Len(todo[w]) > 0 /\ op = todo[w][1][1] /\ op \in Ops /\ Rest(w) = RestOf(todo[w])
  BY <1>1, OpIs
<1>4. /\ onGpu[w] \in SUBSET Words /\ model[w] \in [Roles -> Nat]
      /\ engine[w] \in [weights : Nat, cache : BOOLEAN, asleep : BOOLEAN]
      /\ random[w] \in [now : RandomStates, train : RandomStates, gen : RandomStates]
      /\ onGpu = [v \in Workers |-> onGpu[v]] /\ model = [v \in Workers |-> model[v]]
      /\ engine = [v \in Workers |-> engine[v]] /\ random = [v \in Workers |-> random[v]]
      /\ todo = [v \in Workers |-> todo[v]]
  BY DEF EngineTyped, WorkTyped
<1>5. /\ op[1] \in {"load", "offload", "build"} => op[2] \in Words
      /\ op[1] \in {"save", "restore"} => op[2].role \in Roles
  BY <1>3 DEF Ops, WordOps, PassOps, Files
<1>6. /\ op[1] \notin {"sync", "generate", "forward", "reference", "values", "update", "update_critic", "barrier"}
  BY <1>1 DEF Collective
<1>7. EngineAfter(w) \in [weights : Nat, cache : BOOLEAN, asleep : BOOLEAN]
  BY EngineAfterIs
<1>8. RandomAfter(w) \in [now : RandomStates, train : RandomStates, gen : RandomStates]
  BY <1>1, RandomAfterIs
<1>9. engine'[w] = EngineAfter(w) /\ random'[w] = RandomAfter(w) /\ todo'[w] = Rest(w)
  BY <1>1, <1>4
<1>10. \A v \in Workers : v # w => engine'[v] = engine[v] /\ random'[v] = random[v] /\ todo'[v] = todo[v]
  BY <1>1, <1>4
<1>11. /\ onGpu' \in [Workers -> SUBSET Words] /\ GpuMove(op, onGpu[w], onGpu'[w])
       /\ \A v \in Workers : v # w => onGpu'[v] = onGpu[v]
  <2> DEFINE g == onGpu'[w]
  <2>1. CASE op[1] \in {"load", "build"}
    <3>1. onGpu' = [onGpu EXCEPT ![w] = onGpu[w] \cup {op[2]}]
      BY <1>1, <1>4, <2>1 DEF Part
    <3> QED
      BY <1>4, <1>5, <2>1, <3>1 DEF GpuMove, EngineTyped
  <2>2. CASE op[1] = "offload"
    <3>1. onGpu' = [onGpu EXCEPT ![w] = onGpu[w] \ {op[2]}]
      BY <1>1, <1>4, <2>2 DEF Part
    <3> QED
      BY <1>4, <2>2, <3>1 DEF GpuMove, EngineTyped
  <2>3. CASE op[1] = "restore"
    <3>1. onGpu' = [onGpu EXCEPT ![w] = onGpu[w] \cup {Optim(op[2].role)}]
      BY <1>1, <1>4, <2>3 DEF Part
    <3>2. Optim(op[2].role) \in Words
      BY DEF Optim, Words, Parts
    <3> QED
      BY <1>4, <2>3, <3>1, <3>2 DEF GpuMove, EngineTyped
  <2>4. CASE op[1] \notin {"load", "build", "offload", "restore"}
    <3>1. onGpu' = onGpu
      BY <1>1, <2>4 DEF Part
    <3> QED
      BY <1>4, <2>4, <3>1 DEF GpuMove, EngineTyped
  <2> QED
    BY <2>1, <2>2, <2>3, <2>4
<1>12. /\ model' \in [Workers -> [Roles -> Nat]] /\ (op[1] # "restore" => model' = model)
       /\ \A v \in Workers : v # w => model'[v] = model[v]
  <2>1. CASE op[1] = "restore"
    <3> DEFINE y == CHOOSE f \in OnDisk(w, op[2]) : TRUE
               n == y.weights
    <3>1. OnDisk(w, op[2]) # {} /\ OnDisk(w, op[2]) \subseteq disk
      BY <1>1, <2>1 DEF CanDo, OnDisk
    <3>2. y \in disk
      BY <3>1
    <3> HIDE DEF y
    <3>3. n \in Nat
      BY <3>2 DEF EngineTyped
    <3> HIDE DEF n
    <3>4. model' = [model EXCEPT ![w] = [model[w] EXCEPT ![op[2].role] = n]]
      BY <1>1, <1>4, <2>1 DEF n, y
    <3>5. [model[w] EXCEPT ![op[2].role] = n] \in [Roles -> Nat]
      BY <1>4, <1>5, <2>1, <3>3
    <3> QED
      BY <1>4, <2>1, <3>4, <3>5 DEF EngineTyped
  <2>2. CASE op[1] # "restore"
    BY <1>1, <2>2 DEF EngineTyped
  <2> QED
    BY <2>1, <2>2
<1>13. \A f \in disk' : f.weights \in Nat /\ f.random \in RandomStates
  <2>1. \A f \in disk : f.weights \in Nat /\ f.random \in RandomStates
    BY DEF EngineTyped
  <2>2. CASE op[1] = "save"
    <3>1. model[w][op[2].role] \in Nat /\ random[w].now \in RandomStates
      BY <1>4, <1>5, <2>2
    <3> QED
      BY <1>1, <2>1, <2>2, <3>1
  <2>3. CASE op[1] # "save"
    BY <1>1, <2>1, <2>3
  <2> QED
    BY <2>2, <2>3
<1>14. EngineTyped'
  <2>1. engine' \in [Workers -> [weights : Nat, cache : BOOLEAN, asleep : BOOLEAN]]
    BY <1>1, <1>7 DEF EngineTyped
  <2>2. random' \in [Workers -> [now : RandomStates, train : RandomStates, gen : RandomStates]]
    BY <1>1, <1>8 DEF EngineTyped
  <2> QED
    BY <1>2, <1>11, <1>12, <1>13, <2>1, <2>2 DEF EngineTyped
<1>15. \A v \in Workers : v # w => EngineStays(v)
  BY <1>10, <1>11, <1>12, EngineStateNext DEF EngineStays, EngineState
<1>16. EngineState(w)' \in EngineStates
  BY <1>2, <1>14, EngineStateTyped
<1>17. EngineDoes(w)
  <2>1. <<op, EngineState(w), EngineState(w)'>> \in EngineMoves(Engine(w))
    <3> HIDE DEF op
    <3>1. /\ engine'[w].weights = engine[w].weights
          /\ engine'[w].cache = (CASE op \in {<<"wake", "all">>, <<"wake", "cache">>} \/ op[1] = "start_engine" -> TRUE
                               [] op[1] \in {"build_engine", "sleep"} -> FALSE
                               [] OTHER -> engine[w].cache)
          /\ engine'[w].asleep = (CASE op[1] = "asleep" -> TRUE [] op[1] = "awake" -> FALSE
                                [] OTHER -> engine[w].asleep)
      BY <1>9, EngineAfterIs DEF op
    <3>2. /\ random'[w].gen = (CASE op[1] = "to_train" -> random[w].now
                             [] op[1] = "build_manager" -> Seeded(<<"manager", Engine(w)>>)
                             [] OTHER -> random[w].gen)
          /\ op[1] = "to_gen" => random'[w].now = random[w].gen
          /\ op[1] = "start_engine" => random'[w].now = Seeded(<<"server", Engine(w)>>)
          /\ op[1] \notin {"to_gen", "to_train", "build_engine", "start_engine", "draw", "restore"} =>
                 random'[w].now = random[w].now
      BY <1>1, <1>9, RandomAfterIs DEF op
    <3> QED
      BY <1>3, <1>6, <1>11, <1>12, <1>16, <3>1, <3>2, EngineMoveIs
  <2> QED
    BY <1>3, <1>9, <1>16, <2>1 DEF EngineDoes
<1> QED
  BY <1>1, <1>14, <1>15, <1>17

\* A collective operation.
LEMMA TogetherEngine ==
  ASSUME job \in Jobs, WorkTyped, EngineTyped, NEW w \in Workers, Together(w)
  PROVE  /\ EngineTyped' /\ job' = job /\ failed' = failed
         /\ \A v \in Workers : EngineStays(v) \/ EngineDoes(v)
<1> DEFINE at(v) == v \in Partners(w)
<1>1. /\ Op(w)[1] \in Collective /\ \A v \in Partners(w) : Op(v) = Op(w)
      /\ todo' = [v \in Workers |-> IF at(v) THEN Rest(v) ELSE todo[v]]
      /\ engine' = [v \in Workers |->
           IF at(v) /\ Op(v)[1] = "sync" THEN [engine[v] EXCEPT !.weights = model[v].actor] ELSE engine[v]]
      /\ random' = [v \in Workers |->
           IF at(v) /\ Op(v)[1] = "generate" THEN [random[v] EXCEPT !.now.drawn = @ + 1] ELSE random[v]]
      /\ model' = [v \in Workers |->
           IF ~at(v) THEN model[v]
           ELSE CASE Op(v)[1] = "update" -> [model[v] EXCEPT !.actor = Op(v)[2].step]
                  [] Op(v)[1] = "update_critic" -> [model[v] EXCEPT !.critic = Op(v)[2].step]
                  [] OTHER -> model[v]]
      /\ failed' = failed /\ onGpu' = onGpu /\ disk' = disk /\ job' = job
  BY DEF Together, startVars
<1>2. Workers' = Workers
  BY <1>1 DEF Workers, Pools, World
<1>3. ASSUME NEW v \in Workers
      PROVE  /\ onGpu[v] \in SUBSET Words /\ model[v] \in [Roles -> Nat] /\ model[v].actor \in Nat
             /\ engine[v] \in [weights : Nat, cache : BOOLEAN, asleep : BOOLEAN]
             /\ random[v] \in [now : RandomStates, train : RandomStates, gen : RandomStates]
  BY DEF EngineTyped, Roles
<1>4. ASSUME NEW v \in Workers, ~at(v)
      PROVE  /\ engine'[v] = engine[v] /\ random'[v] = random[v] /\ model'[v] = model[v]
             /\ todo'[v] = todo[v] /\ onGpu'[v] = onGpu[v]
  BY <1>1, <1>4
<1>5. ASSUME NEW v \in Workers, at(v)
      PROVE  /\ Len(todo[v]) > 0 /\ Op(v) = todo[v][1][1] /\ Op(v) \in Ops /\ todo'[v] = RestOf(todo[v])
             /\ Op(v)[1] \in Collective
             /\ engine'[v] = IF Op(v)[1] = "sync" THEN [engine[v] EXCEPT !.weights = model[v].actor] ELSE engine[v]
             /\ random'[v] = IF Op(v)[1] = "generate" THEN [random[v] EXCEPT !.now.drawn = @ + 1] ELSE random[v]
             /\ model'[v] = CASE Op(v)[1] = "update" -> [model[v] EXCEPT !.actor = Op(v)[2].step]
                  [] Op(v)[1] = "update_critic" -> [model[v] EXCEPT !.critic = Op(v)[2].step]
                  [] OTHER -> model[v]
  <2>1. Op(v)[1] \in Collective
    BY <1>1, <1>5
  <2>2. Op(v)[1] # "nothing"
    BY <2>1 DEF Collective
  <2>3. Len(todo[v]) > 0 /\ Op(v) = todo[v][1][1] /\ Op(v) \in Ops /\ Rest(v) = RestOf(todo[v])
    BY <2>2, OpIs
  <2> QED
    BY <1>1, <1>5, <2>1, <2>3
<1>6. ASSUME NEW v \in Workers, at(v)
      PROVE  /\ engine'[v] \in [weights : Nat, cache : BOOLEAN, asleep : BOOLEAN]
             /\ engine'[v].weights = (IF Op(v)[1] = "sync" THEN model[v].actor ELSE engine[v].weights)
             /\ engine'[v].cache = engine[v].cache /\ engine'[v].asleep = engine[v].asleep
  <2> DEFINE e == engine[v]
             n == model[v].actor
  <2>1. /\ [e EXCEPT !.weights = n] \in [weights : Nat, cache : BOOLEAN, asleep : BOOLEAN]
        /\ [e EXCEPT !.weights = n].weights = n /\ [e EXCEPT !.weights = n].cache = e.cache
        /\ [e EXCEPT !.weights = n].asleep = e.asleep
    <3>1. n \in Nat /\ e \in [weights : Nat, cache : BOOLEAN, asleep : BOOLEAN]
      BY <1>3
    <3> HIDE DEF n, e
    <3> QED
      BY <3>1
  <2>2. engine'[v] = IF Op(v)[1] = "sync" THEN [e EXCEPT !.weights = n] ELSE e
    BY <1>5, <1>6
  <2>3. e \in [weights : Nat, cache : BOOLEAN, asleep : BOOLEAN]
    BY <1>3
  <2> DEFINE f == [e EXCEPT !.weights = n]
  <2> HIDE DEF f, n, e
  <2> QED
    BY <2>1, <2>2, <2>3 DEF f, e, n
<1>7. ASSUME NEW v \in Workers, at(v)
      PROVE  /\ random'[v] \in [now : RandomStates, train : RandomStates, gen : RandomStates]
             /\ random'[v].gen = random[v].gen
             /\ Op(v)[1] = "generate" => random'[v].now = [random[v].now EXCEPT !.drawn = @ + 1]
             /\ Op(v)[1] # "generate" => random'[v].now = random[v].now
  <2> DEFINE r == random[v]
             x == [r.now EXCEPT !.drawn = r.now.drawn + 1]
             f == [r EXCEPT !.now = x]
  <2>1. r \in [now : RandomStates, train : RandomStates, gen : RandomStates] /\ r.now \in RandomStates
    BY <1>3
  <2>2. random'[v] = IF Op(v)[1] = "generate" THEN f ELSE r
    BY <1>5, <1>7
  <2> HIDE DEF r
  <2>3. x \in RandomStates
    <3> DEFINE n == r.now
    <3>1. n \in RandomStates
      BY <2>1
    <3> HIDE DEF n
    <3>2. n.drawn + 1 \in Nat
      BY <3>1 DEF RandomStates
    <3>3. [n EXCEPT !.drawn = n.drawn + 1] \in RandomStates
      BY <3>1, <3>2 DEF RandomStates
    <3> QED
      BY <3>3 DEF n
  <2>4. x = [r.now EXCEPT !.drawn = @ + 1]
    OBVIOUS
  <2> HIDE DEF x
  <2>5. f \in [now : RandomStates, train : RandomStates, gen : RandomStates] /\ f.now = x /\ f.gen = r.gen
    BY <2>1, <2>3
  <2> HIDE DEF f
  <2>6. CASE Op(v)[1] = "generate"
    <3>1. random'[v] = f /\ f.now = [r.now EXCEPT !.drawn = @ + 1]
      BY <2>2, <2>4, <2>5, <2>6
    <3> QED
      BY <2>5, <2>6, <3>1 DEF r
  <2>7. CASE Op(v)[1] # "generate"
    BY <2>1, <2>2, <2>7 DEF r
  <2> QED
    BY <2>6, <2>7
<1>8. ASSUME NEW v \in Workers, at(v)
      PROVE  /\ model'[v] \in [Roles -> Nat]
             /\ Op(v)[1] # "update" => model'[v].actor = model[v].actor
  <2> DEFINE m == model[v]
             n == Op(v)[2].step
  <2>1. Op(v)[1] \in {"update", "update_critic"} => n \in Nat
    BY <1>5, <1>8 DEF Ops, WordOps, PassOps, Whats
  <2>2. m \in [Roles -> Nat]
    BY <1>3
  <2>3. model'[v] = CASE Op(v)[1] = "update" -> [m EXCEPT !.actor = n]
                  [] Op(v)[1] = "update_critic" -> [m EXCEPT !.critic = n]
                  [] OTHER -> m
    BY <1>5, <1>8
  <2> HIDE DEF m, n
  <2>4. "actor" \in Roles /\ "critic" \in Roles
    BY DEF Roles
  <2>5. n \in Nat => /\ [m EXCEPT !.actor = n] \in [Roles -> Nat]
                     /\ [m EXCEPT !.critic = n] \in [Roles -> Nat]
                     /\ [m EXCEPT !.critic = n].actor = m.actor
    BY <2>2, <2>4
  <2> QED
    BY <2>1, <2>2, <2>3, <2>5 DEF m
<1>9. EngineTyped'
  <2>1. engine' \in [Workers -> [weights : Nat, cache : BOOLEAN, asleep : BOOLEAN]]
    <3>1. \A v \in Workers : engine'[v] \in [weights : Nat, cache : BOOLEAN, asleep : BOOLEAN]
      BY <1>3, <1>4, <1>6
    <3>2. engine' = [v \in Workers |-> engine'[v]]
      BY <1>1
    <3> QED
      BY <3>1, <3>2
  <2>2. random' \in [Workers -> [now : RandomStates, train : RandomStates, gen : RandomStates]]
    <3>1. \A v \in Workers : random'[v] \in [now : RandomStates, train : RandomStates, gen : RandomStates]
      BY <1>3, <1>4, <1>7
    <3>2. random' = [v \in Workers |-> random'[v]]
      BY <1>1
    <3> QED
      BY <3>1, <3>2
  <2>3. model' \in [Workers -> [Roles -> Nat]]
    <3>1. \A v \in Workers : model'[v] \in [Roles -> Nat]
      BY <1>3, <1>4, <1>8
    <3>2. model' = [v \in Workers |-> model'[v]]
      BY <1>1
    <3> QED
      BY <3>1, <3>2
  <2> QED
    BY <1>1, <1>2, <2>1, <2>2, <2>3 DEF EngineTyped
<1>10. ASSUME NEW v \in Workers PROVE EngineStays(v) \/ EngineDoes(v)
  <2>1. CASE ~at(v)
    BY <1>4, <2>1, EngineStateNext DEF EngineStays, EngineState
  <2>2. CASE at(v)
    <3> DEFINE op == Op(v)
    <3>1. op \in Ops /\ op[1] \in {"sync", "generate", "forward", "reference", "values", "update", "update_critic", "barrier"}
      BY <1>5, <2>2 DEF Collective
    <3> HIDE DEF op
    <3>2. EngineState(v)' \in EngineStates
      BY <1>2, <1>9, EngineStateTyped
    <3>3. GpuMove(op, onGpu[v], onGpu'[v])
      BY <1>1, <3>1 DEF GpuMove
    <3>4. op \notin {<<"wake", "all">>, <<"wake", "cache">>}
      <4>1. <<"wake", "all">>[1] = "wake" /\ <<"wake", "cache">>[1] = "wake"
        OBVIOUS
      <4> QED
        BY <3>1, <4>1
    <3>5. /\ engine'[v].weights = (IF op[1] = "sync" THEN model[v].actor ELSE engine[v].weights)
          /\ engine'[v].cache = engine[v].cache /\ engine'[v].asleep = engine[v].asleep
      BY <1>6, <2>2 DEF op
    <3>6. /\ random'[v].gen = random[v].gen
          /\ op[1] = "generate" => random'[v].now = [random[v].now EXCEPT !.drawn = @ + 1]
          /\ op[1] # "generate" => random'[v].now = random[v].now
      BY <1>7, <2>2 DEF op
    <3>7. op[1] # "update" => model'[v].actor = model[v].actor
      BY <1>8, <2>2 DEF op
    <3>8. <<op, EngineState(v), EngineState(v)'>> \in EngineMoves(Engine(v))
      BY <3>1, <3>2, <3>3, <3>4, <3>5, <3>6, <3>7, EngineMoveIs
    <3> QED
      BY <1>5, <2>2, <3>2, <3>8 DEF EngineDoes, op
  <2> QED
    BY <2>1, <2>2
<1> QED
  BY <1>1, <1>9, <1>10

\* A step of the processes, of each process.
LEMMA EngineWork ==
  ASSUME job \in Jobs, WorkTyped, EngineTyped, WorkNext
  PROVE  /\ EngineTyped' /\ failed \subseteq failed' /\ job' = job
         /\ \A v \in Workers : EngineStays(v) \/ EngineDoes(v) \/ EngineDrops(v)
<1>1. PICK w \in Workers : Local(w) \/ Together(w) \/ Fails(w)
  BY DEF WorkNext
<1>2. CASE Local(w)
  <2>1. EngineTyped' /\ EngineDoes(w) /\ failed' = failed /\ job' = job
        /\ \A v \in Workers : v # w => EngineStays(v)
    BY <1>2, LocalEngine
  <2> QED
    BY <2>1
<1>3. CASE Together(w)
  <2>1. EngineTyped' /\ failed' = failed /\ job' = job
        /\ \A v \in Workers : EngineStays(v) \/ EngineDoes(v)
    BY <1>3, TogetherEngine
  <2> QED
    BY <2>1
<1>4. CASE Fails(w)
  <2>1. /\ Op(w)[1] = "restore" \/ (Op(w)[1] = "forward" /\ Op(w)[2].for = "analyze")
        /\ todo' = [todo EXCEPT ![w] = Tail(@)]
        /\ failed' = (IF Len(todo[w]) = 1 THEN failed \cup {w} ELSE failed)
        /\ UNCHANGED <<onGpu, model, engine, random, disk, job>>
    BY <1>4 DEF Fails, startVars
  <2>2. Len(todo[w]) > 0 /\ Op(w) = todo[w][1][1]
    <3>1. Op(w)[1] # "nothing"
      BY <2>1
    <3> QED
      BY <3>1, OpIs
  <2>3. todo = [v \in Workers |-> todo[v]]
    BY DEF WorkTyped
  <2>4. Workers' = Workers
    BY <2>1 DEF Workers, Pools, World
  <2>5. EngineTyped'
    BY <2>1, <2>4 DEF EngineTyped
  <2>6. \A v : EngineState(v)' = EngineState(v)
    BY <2>1 DEF EngineState
  <2>7. EngineDrops(w)
    BY <2>1, <2>2, <2>3, <2>6 DEF EngineDrops
  <2>8. \A v \in Workers : v # w => EngineStays(v)
    BY <2>1, <2>3, <2>6 DEF EngineStays
  <2> QED
    BY <2>1, <2>5, <2>7, <2>8
<1> QED
  BY <1>1, <1>2, <1>3, <1>4

-----------------------------------------------------------------------------
\* The operations, from spot to spot

\* A contract with the states, moves and rights of engine k.
IsEngine(K, c, k, l, b, g) ==
  K.states = EngineStates /\ K.moves = EngineMoves(k) /\ K.right = EngineRight(c, k, l, b, g)

\* A single operation, from its effect on the GPU and on the core.
LEMMA EngineOne ==
  ASSUME NEW K, NEW c, NEW k, NEW l, NEW b, NEW g, IsEngine(K, c, k, l, b, g),
         NEW op \in Ops, NEW P, NEW Q, P \subseteq EngineStates,
         \A s \in P : /\ <<op, s>> \in EngineRight(c, k, l, b, g)
                      /\ \A t \in EngineStates :
                           GpuMove(op, s.gpu, t.gpu) /\ CoreMove(k, op, s.core, t.core) => t \in Q
  PROVE  Does(K, <<op>>, P, Q)
<1>1. \A s \in P : /\ <<op, s>> \in K.right
                   /\ \A t \in K.states : <<op, s, t>> \in K.moves => t \in Q
  BY DEF IsEngine, EngineMoves
<1>2. Leads(K, <<op>>, P, Q)
  BY <1>1, LeadsOne
<1>3. <<op>> \in Seq(Ops)
  OBVIOUS
<1> QED
  BY <1>2, <1>3 DEF Does

\* No operation at all.
LEMMA EngineNothing ==
  ASSUME NEW K, NEW P, NEW Q, P \subseteq Q
  PROVE  Does(K, <<>>, P, Q)
<1>1. Leads(K, <<>>, P, Q)
  BY LeadsNothing
<1>2. <<>> \in Seq(Ops)
  OBVIOUS
<1> QED
  BY <1>1, <1>2 DEF Does

\* From fewer states, or to more of them.
LEMMA DoesMore ==
  ASSUME NEW K, NEW l, NEW P, NEW Q, NEW A, NEW B, A \subseteq P, Q \subseteq B, Does(K, l, P, Q)
  PROVE  Does(K, l, A, B)
<1>1. l \in Seq(Ops) /\ Leads(K, l, P, Q)
  BY DEF Does
<1>2. Leads(K, l, A, B)
  BY <1>1, LeadsMore
<1> QED
  BY <1>1, <1>2 DEF Does

\* In a spot there is room for the cache.
Roomy(c, A, C, g) == A = {} \/ (\A x \in C : ~x.cache) \/ ~c.tags \/ (c.mode # "sync" /\ ~(g > 0))

\* There is room for the cache wherever the spot is roomy.
LEMMA SpotRoom ==
  ASSUME NEW c, NEW A, NEW C, NEW g, Roomy(c, A, C, g), NEW s \in Spot(c, A, C)
  PROVE  RoomAt(c, s, g)
BY DEF Spot, Roomy, RoomAt

\* The parts of a state in a spot.
LEMMA SpotIs ==
  ASSUME NEW c, NEW A, NEW C, NEW s \in Spot(c, A, C)
  PROVE  s \in EngineStates /\ s.gpu \in SUBSET Words /\ s.core \in Cores /\ s.core \in C /\ s.gpu \cap c.offload \subseteq A
BY DEF Spot, EngineStates

\* Most operations are right wherever there is room for the cache.
LEMMA PlainRight ==
  ASSUME NEW c, NEW k, NEW l, NEW b, NEW g, NEW op \in Ops, NEW s \in EngineStates, RoomAt(c, s, g),
         op[1] \notin {"generate", "restore"}, op[1] = "forward" => op[2].for # "analyze"
  PROVE  <<op, s>> \in EngineRight(c, k, l, b, g)
BY DEF EngineRight

\* Operations that leave the core alone, and those that do but for the actor and the
\* present random state.
StillNames ==
  {"load", "offload", "build", "train", "eval", "hook", "unhook", "save", "barrier", "forward", "reference",
   "values", "update_critic"}
LooseNames == StillNames \cup {"update", "draw"}

\* They leave the core as it is.
LEMMA StillMove ==
  ASSUME NEW k, NEW op \in Ops, op[1] \in StillNames \/ op = <<"wake", "weights">>, NEW x \in Cores, NEW y \in Cores,
         CoreMove(k, op, x, y)
  PROVE  y = x
<1>1. <<"wake", "all">>[1] = "wake" /\ <<"wake", "cache">>[1] = "wake" /\ <<"wake", "weights">>[1] = "wake"
      /\ <<"wake", "all">>[2] = "all" /\ <<"wake", "cache">>[2] = "cache" /\ <<"wake", "weights">>[2] = "weights"
  OBVIOUS
<1>2. /\ op \notin {<<"wake", "all">>, <<"wake", "cache">>}
      /\ op[1] \notin {"sync", "update", "restore", "start_engine", "build_engine", "sleep", "asleep", "awake",
                       "to_train", "to_gen", "build_manager", "generate", "draw"}
  BY <1>1 DEF StillNames
<1>3. y.weights = x.weights /\ y.actor = x.actor /\ y.cache = x.cache /\ y.asleep = x.asleep
      /\ y.now = x.now /\ y.gen = x.gen
  BY <1>2 DEF CoreMove
<1> QED
  BY <1>3 DEF Cores

\* A set of cores that leaves the actor and the present random state open.
Loose(C) ==
  \A x \in C : \A y \in Cores :
    y.weights = x.weights /\ y.cache = x.cache /\ y.asleep = x.asleep /\ y.gen = x.gen => y \in C

\* They keep a loose set of cores.
LEMMA LooseMove ==
  ASSUME NEW k, NEW op \in Ops, op[1] \in LooseNames \cup {"restore"}, NEW C, Loose(C), NEW x \in C, NEW y \in Cores,
         CoreMove(k, op, x, y)
  PROVE  y \in C
<1>1. <<"wake", "all">>[1] = "wake" /\ <<"wake", "cache">>[1] = "wake"
  OBVIOUS
<1>2. /\ op \notin {<<"wake", "all">>, <<"wake", "cache">>}
      /\ op[1] \notin {"sync", "start_engine", "build_engine", "sleep", "asleep", "awake",
                       "to_train", "to_gen", "build_manager", "generate"}
  BY <1>1 DEF StillNames, LooseNames
<1>3. y.weights = x.weights /\ y.cache = x.cache /\ y.asleep = x.asleep /\ y.gen = x.gen
  BY <1>2 DEF CoreMove
<1> QED
  BY <1>3 DEF Loose

\* Operations that move nothing to the GPU or from it.
Resting(op) == op[1] \notin {"load", "offload", "build", "restore"}

\* They leave the GPU as it is.
LEMMA RestingMove ==
  ASSUME NEW op, Resting(op), NEW x, NEW y, GpuMove(op, x, y)
  PROVE  y = x
BY DEF Resting, GpuMove

\* A list of operations that stay in a spot.
LEMMA StillStay ==
  ASSUME NEW K, NEW c, NEW k, NEW l, NEW b, NEW g, IsEngine(K, c, k, l, b, g), NEW A, NEW C, Roomy(c, A, C, g),
         NEW O \in SUBSET Ops, NEW q \in Seq(O),
         \A op \in O : Resting(op) /\ (op[1] = "forward" => op[2].for # "analyze")
                       /\ (op[1] \in StillNames \/ (op[1] \in LooseNames /\ Loose(C)))
  PROVE  Does(K, q, Spot(c, A, C), Spot(c, A, C))
<1> DEFINE P == Spot(c, A, C)
<1>1. ASSUME NEW op \in O, NEW s \in P
      PROVE  /\ <<op, s>> \in K.right
             /\ \A t \in K.states : <<op, s, t>> \in K.moves => t \in P
  <2>1. op \in Ops /\ Resting(op) /\ (op[1] = "forward" => op[2].for # "analyze")
        /\ (op[1] \in StillNames \/ (op[1] \in LooseNames /\ Loose(C)))
    OBVIOUS
  <2>2. s \in EngineStates /\ RoomAt(c, s, g) /\ s.core \in Cores /\ s.core \in C /\ s.gpu \cap c.offload \subseteq A
    BY SpotRoom, SpotIs
  <2>3. op[1] \notin {"generate", "restore"}
    BY <2>1 DEF StillNames, LooseNames
  <2>4. <<op, s>> \in K.right
    BY <2>1, <2>2, <2>3, PlainRight DEF IsEngine
  <2>5. ASSUME NEW t \in EngineStates, GpuMove(op, s.gpu, t.gpu), CoreMove(k, op, s.core, t.core)
        PROVE  t \in P
    <3>1. t.gpu = s.gpu
      BY <2>1, <2>5, RestingMove
    <3>2. t.core \in Cores
      BY DEF EngineStates
    <3>3. t.core \in C
      <4>1. CASE op[1] \in StillNames
        <5>1. t.core = s.core
          BY <2>1, <2>2, <2>5, <3>2, <4>1, StillMove
        <5> QED
          BY <2>2, <5>1
      <4>2. CASE op[1] \in LooseNames /\ Loose(C)
        BY <2>1, <2>2, <2>5, <3>2, <4>2, LooseMove
      <4> QED
        BY <2>1, <4>1, <4>2
    <3> QED
      BY <2>2, <3>1, <3>3 DEF Spot
  <2> QED
    BY <2>4, <2>5 DEF IsEngine, EngineMoves
<1> HIDE DEF P
<1>2. Leads(K, q, P, P)
  BY <1>1, LeadsKeeps
<1>3. q \in Seq(Ops)
  OBVIOUS
<1> QED
  BY <1>2, <1>3 DEF Does, P

\* A part that comes to the GPU, and one that leaves it.
LEMMA EngineLoads ==
  ASSUME NEW K, NEW c, NEW k, NEW l, NEW b, NEW g, IsEngine(K, c, k, l, b, g), NEW A, NEW C, Roomy(c, A, C, g),
         NEW part \in Parts, NEW name \in {"load", "build"}
  PROVE  Does(K, <<<<name, part>>>>, Spot(c, A, C), Spot(c, A \cup {part}, C))
<1> DEFINE op == <<name, part>>
<1>1. op \in Ops /\ op[1] = name /\ op[2] = part
  BY DEF Ops, WordOps, Words
<1> HIDE DEF op
<1>2. ASSUME NEW s \in Spot(c, A, C)
      PROVE  /\ <<op, s>> \in EngineRight(c, k, l, b, g)
             /\ \A t \in EngineStates : GpuMove(op, s.gpu, t.gpu) /\ CoreMove(k, op, s.core, t.core) =>
                  t \in Spot(c, A \cup {part}, C)
  <2>1. s \in EngineStates /\ RoomAt(c, s, g) /\ s.core \in Cores /\ s.core \in C /\ s.gpu \cap c.offload \subseteq A
    BY SpotRoom, SpotIs
  <2>2. <<op, s>> \in EngineRight(c, k, l, b, g)
    BY <1>1, <2>1, PlainRight
  <2>3. ASSUME NEW t \in EngineStates, GpuMove(op, s.gpu, t.gpu), CoreMove(k, op, s.core, t.core)
        PROVE  t \in Spot(c, A \cup {part}, C)
    <3>1. t.gpu = s.gpu \cup {part}
      BY <1>1, <2>3 DEF GpuMove
    <3>2. t.core = s.core
      <4>1. t.core \in Cores
        BY DEF EngineStates
      <4> QED
        BY <1>1, <2>1, <2>3, <4>1, StillMove DEF StillNames
    <3> QED
      BY <2>1, <3>1, <3>2 DEF Spot
  <2> QED
    BY <2>2, <2>3
<1>3. Spot(c, A, C) \subseteq EngineStates
  BY DEF Spot
<1>4. Does(K, <<op>>, Spot(c, A, C), Spot(c, A \cup {part}, C))
  BY <1>1, <1>2, <1>3, EngineOne
<1> QED
  BY <1>4 DEF op

\* A part is offloaded.
LEMMA EngineOffloads ==
  ASSUME NEW K, NEW c, NEW k, NEW l, NEW b, NEW g, IsEngine(K, c, k, l, b, g), NEW A, NEW C, Roomy(c, A, C, g),
         NEW part \in Parts
  PROVE  Does(K, <<<<"offload", part>>>>, Spot(c, A, C), Spot(c, A \ {part}, C))
<1> DEFINE op == <<"offload", part>>
<1>1. op \in Ops /\ op[1] = "offload" /\ op[2] = part
  BY DEF Ops, WordOps, Words
<1> HIDE DEF op
<1>2. ASSUME NEW s \in Spot(c, A, C)
      PROVE  /\ <<op, s>> \in EngineRight(c, k, l, b, g)
             /\ \A t \in EngineStates : GpuMove(op, s.gpu, t.gpu) /\ CoreMove(k, op, s.core, t.core) =>
                  t \in Spot(c, A \ {part}, C)
  <2>1. s \in EngineStates /\ RoomAt(c, s, g) /\ s.core \in Cores /\ s.core \in C /\ s.gpu \cap c.offload \subseteq A
    BY SpotRoom, SpotIs
  <2>2. <<op, s>> \in EngineRight(c, k, l, b, g)
    BY <1>1, <2>1, PlainRight
  <2>3. ASSUME NEW t \in EngineStates, GpuMove(op, s.gpu, t.gpu), CoreMove(k, op, s.core, t.core)
        PROVE  t \in Spot(c, A \ {part}, C)
    <3>1. t.gpu = s.gpu \ {part}
      BY <1>1, <2>3 DEF GpuMove
    <3>2. t.core = s.core
      <4>1. t.core \in Cores
        BY DEF EngineStates
      <4> QED
        BY <1>1, <2>1, <2>3, <4>1, StillMove DEF StillNames
    <3> QED
      BY <2>1, <3>1, <3>2 DEF Spot
  <2> QED
    BY <2>2, <2>3
<1>3. Spot(c, A, C) \subseteq EngineStates
  BY DEF Spot
<1>4. Does(K, <<op>>, Spot(c, A, C), Spot(c, A \ {part}, C))
  BY <1>1, <1>2, <1>3, EngineOne
<1> QED
  BY <1>4 DEF op

\* The same of Load and Offload, that do nothing for a part that is not offloaded.
LEMMA EngineParts ==
  ASSUME NEW K, NEW c, NEW k, NEW l, NEW b, NEW g, IsEngine(K, c, k, l, b, g), NEW A, NEW C, Roomy(c, A, C, g),
         NEW part \in Parts, c.offload = job.offload
  PROVE  /\ Does(K, Load(part), Spot(c, A, C), Spot(c, A \cup {part}, C))
         /\ Does(K, Offload(part), Spot(c, A, C), Spot(c, A \ {part}, C))
<1>1. CASE part \in job.offload
  <2>1. Load(part) = <<<<"load", part>>>> /\ Offload(part) = <<<<"offload", part>>>>
    BY <1>1 DEF Load, Offload
  <2>2. Does(K, <<<<"load", part>>>>, Spot(c, A, C), Spot(c, A \cup {part}, C))
    BY EngineLoads
  <2>3. Does(K, <<<<"offload", part>>>>, Spot(c, A, C), Spot(c, A \ {part}, C))
    BY EngineOffloads
  <2> QED
    BY <2>1, <2>2, <2>3, Zenon
<1>2. CASE part \notin job.offload
  <2>1. Load(part) = <<>> /\ Offload(part) = <<>>
    BY <1>2 DEF Load, Offload
  <2>2. Spot(c, A, C) \subseteq Spot(c, A \cup {part}, C) /\ Spot(c, A, C) \subseteq Spot(c, A \ {part}, C)
    BY <1>2 DEF Spot
  <2> QED
    BY <2>1, <2>2, EngineNothing
<1> QED
  BY <1>1, <1>2

-----------------------------------------------------------------------------
\* The methods that leave an engine where it is

\* Operations that keep to the stage; cores with room beside them; and a list that takes
\* an engine from the parts A to the parts B.
QuietOps ==
  {op \in Ops : Resting(op) /\ op[1] \in LooseNames /\ (op[1] = "forward" => op[2].for # "analyze")}
Ample(c, C, g) == (\A x \in C : ~x.cache) \/ (c.mode # "sync" /\ ~(g > 0))
Quietly(K, c, k, l, b, g, C) ==
  IsEngine(K, c, k, l, b, g) /\ Loose(C) /\ Ample(c, C, g) /\ c.offload = job.offload
Moved(K, c, C, q, A, B) == Does(K, q, Spot(c, A, C), Spot(c, B, C))

\* Spots with more in them.
LEMMA SpotMore ==
  ASSUME NEW c, NEW A, NEW B, NEW C, NEW D, A \subseteq B, C \subseteq D
  PROVE  Spot(c, A, C) \subseteq Spot(c, B, D)
BY DEF Spot

\* Parts are loaded, offloaded and built.
LEMMA QuietParts ==
  ASSUME NEW K, NEW c, NEW k, NEW l, NEW b, NEW g, NEW C, Quietly(K, c, k, l, b, g, C), NEW A, NEW part \in Parts
  PROVE  /\ Moved(K, c, C, Load(part), A, A \cup {part})
         /\ Moved(K, c, C, Offload(part), A, A \ {part})
         /\ Moved(K, c, C, <<<<"build", part>>>>, A, A \cup {part})
<1>1. IsEngine(K, c, k, l, b, g) /\ Roomy(c, A, C, g) /\ c.offload = job.offload
  BY DEF Quietly, Ample, Roomy
<1>2. Moved(K, c, C, Load(part), A, A \cup {part}) /\ Moved(K, c, C, Offload(part), A, A \ {part})
  BY <1>1, EngineParts DEF Moved
<1>3. Moved(K, c, C, <<<<"build", part>>>>, A, A \cup {part})
  BY <1>1, EngineLoads DEF Moved
<1> QED
  BY <1>2, <1>3

\* Quiet operations change nothing a stage depends on.
LEMMA QuietStay ==
  ASSUME NEW K, NEW c, NEW k, NEW l, NEW b, NEW g, NEW C, Quietly(K, c, k, l, b, g, C), NEW A,
         NEW q \in Seq(QuietOps)
  PROVE  Moved(K, c, C, q, A, A)
<1>1. IsEngine(K, c, k, l, b, g) /\ Roomy(c, A, C, g) /\ Loose(C)
  BY DEF Quietly, Ample, Roomy
<1>2. QuietOps \in SUBSET Ops
  BY DEF QuietOps
<1>3. \A op \in QuietOps : Resting(op) /\ (op[1] = "forward" => op[2].for # "analyze")
                       /\ (op[1] \in StillNames \/ (op[1] \in LooseNames /\ Loose(C)))
  BY <1>1 DEF QuietOps
<1> QED
  BY <1>1, <1>2, <1>3, StillStay DEF Moved

\* One list after another.
LEMMA MovedOn ==
  ASSUME NEW K, NEW c, NEW C, NEW q, NEW r, NEW A, NEW B, NEW D,
         Moved(K, c, C, q, A, B), Moved(K, c, C, r, B, D)
  PROVE  Moved(K, c, C, q \o r, A, D)
BY DoesConcat DEF Moved

\* With more parts on the GPU.
LEMMA MovedMore ==
  ASSUME NEW K, NEW c, NEW C, NEW q, NEW A, NEW B, NEW D, Moved(K, c, C, q, A, B), B \subseteq D
  PROVE  Moved(K, c, C, q, A, D)
<1>1. Spot(c, B, C) \subseteq Spot(c, D, C)
  BY SpotMore
<1> QED
  BY <1>1, DoesMore DEF Moved

\* Hooks, modes, passes, files and barriers.
LEMMA QuietLists ==
  ASSUME NEW what \in Whats, what.for # "analyze", NEW n \in Noises, NEW where \in {"actor", "engine"},
         NEW ph \in {"eval", "train"}, NEW s \in Nat, NEW role \in Roles
  PROVE  /\ Hook(where, ph, n) \in Seq(QuietOps) /\ Unhook(n) \in Seq(QuietOps)
         /\ <<<<"eval", "">>, <<"forward", what>>>> \in Seq(QuietOps)
         /\ <<<<"train", "">>, <<"update", what>>>> \in Seq(QuietOps)
         /\ <<<<"reference", what>>>> \in Seq(QuietOps)
         /\ <<<<"values", what>>>> \in Seq(QuietOps)
         /\ <<<<"draw", "">>, <<"update_critic", what>>>> \in Seq(QuietOps)
         /\ <<<<"barrier", "before">>, <<"save", [role |-> role, step |-> s]>>, <<"barrier", "after">>>>
              \in Seq(QuietOps)
         /\ <<<<"barrier", "loaded">>>> \in Seq(QuietOps)
<1>1. /\ <<"unhook", "">> \in QuietOps /\ <<"eval", "">> \in QuietOps /\ <<"train", "">> \in QuietOps
      /\ <<"draw", "">> \in QuietOps /\ <<"barrier", "before">> \in QuietOps /\ <<"barrier", "after">> \in QuietOps
      /\ <<"barrier", "loaded">> \in QuietOps
  BY DEF QuietOps, Resting, LooseNames, StillNames, Ops, WordOps, PassOps, Words, Parts
<1>2. /\ <<"forward", what>> \in QuietOps /\ <<"update", what>> \in QuietOps /\ <<"reference", what>> \in QuietOps
      /\ <<"values", what>> \in QuietOps /\ <<"update_critic", what>> \in QuietOps
  BY DEF QuietOps, Resting, LooseNames, StillNames, Ops, WordOps, PassOps, Words, Parts
<1>3. <<"save", [role |-> role, step |-> s]>> \in QuietOps
  <2>1. [role |-> role, step |-> s] \in Files
    BY DEF Files
  <2> QED
    BY <2>1 DEF QuietOps, Resting, LooseNames, StillNames, Ops
<1>4. <<"hook", [where |-> where, phase |-> ph, noise |-> n]>> \in QuietOps
  <2>1. [where |-> where, phase |-> ph, noise |-> n] \in HookArgs
    BY DEF HookArgs
  <2> QED
    BY <2>1 DEF QuietOps, Resting, LooseNames, StillNames, Ops
<1> HIDE DEF QuietOps
<1>5. <<>> \in Seq(QuietOps)
  OBVIOUS
<1>6. Hook(where, ph, n) \in Seq(QuietOps)
  <2>1. <<<<"hook", [where |-> where, phase |-> ph, noise |-> n]>>>> \in Seq(QuietOps)
    BY <1>4, ShortLists, Zenon
  <2> QED
    BY <1>5, <2>1, Zenon DEF Hook
<1>7. Unhook(n) \in Seq(QuietOps)
  <2>1. <<<<"unhook", "">>>> \in Seq(QuietOps)
    BY <1>1, ShortLists, Zenon
  <2> QED
    BY <1>5, <2>1, Zenon DEF Unhook
<1>8. /\ <<<<"eval", "">>, <<"forward", what>>>> \in Seq(QuietOps)
      /\ <<<<"train", "">>, <<"update", what>>>> \in Seq(QuietOps)
      /\ <<<<"reference", what>>>> \in Seq(QuietOps)
      /\ <<<<"values", what>>>> \in Seq(QuietOps)
      /\ <<<<"draw", "">>, <<"update_critic", what>>>> \in Seq(QuietOps)
      /\ <<<<"barrier", "loaded">>>> \in Seq(QuietOps)
  BY <1>1, <1>2, ShortLists, Zenon
<1>9. <<<<"barrier", "before">>, <<"save", [role |-> role, step |-> s]>>, <<"barrier", "after">>>> \in Seq(QuietOps)
  BY <1>1, <1>3, ShortLists, Zenon
<1> QED
  BY <1>6, <1>7, <1>8, <1>9

\* A call that loads one part, and one that loads two.
LEMMA QuietLoaded ==
  ASSUME NEW K, NEW c, NEW k, NEW l, NEW b, NEW g, NEW C, Quietly(K, c, k, l, b, g, C), NEW A, NEW part \in Parts,
         NEW q, Moved(K, c, C, q, A \cup {part}, A \cup {part})
  PROVE  Moved(K, c, C, Load(part) \o q \o Offload(part), A, A)
<1> DEFINE B == A \cup {part}
<1>1. Moved(K, c, C, Load(part), A, B)
  BY QuietParts
<1>2. Moved(K, c, C, Offload(part), B, B \ {part})
  BY QuietParts
<1>3. B \ {part} \subseteq A
  OBVIOUS
<1>4. Moved(K, c, C, q, B, B)
  OBVIOUS
<1> HIDE DEF B
<1>5. Moved(K, c, C, Load(part) \o q, A, B)
  BY <1>1, <1>4, MovedOn
<1>6. Moved(K, c, C, Offload(part), B, A)
  BY <1>2, <1>3, MovedMore
<1> QED
  BY <1>5, <1>6, MovedOn

\* compute_log_prob loads the actor and offloads it again.
LEMMA QuietLogProb ==
  ASSUME NEW K, NEW c, NEW k, NEW l, NEW b, NEW g, NEW C, Quietly(K, c, k, l, b, g, C), NEW A,
         NEW what \in Whats, what.for # "analyze", NEW n \in Noises
  PROVE  Moved(K, c, C, ComputeLogProb(n, what), A, A)
<1> DEFINE B == A \cup {"actor"}
           h == Hook("actor", "eval", n)
           p == <<<<"eval", "">>, <<"forward", what>>>>
           u == Unhook(n)
<1>1. "actor" \in Parts /\ "actor" \in Roles /\ 0 \in Nat
  BY DEF Parts, Roles
<1>2. h \in Seq(QuietOps) /\ p \in Seq(QuietOps) /\ u \in Seq(QuietOps)
  BY <1>1, QuietLists
<1> HIDE DEF h, p, u
<1>3. Moved(K, c, C, Load("actor"), A, B)
  BY <1>1, QuietParts
<1>4. Moved(K, c, C, Offload("actor"), B, B \ {"actor"})
  BY <1>1, QuietParts
<1>5. B \ {"actor"} \subseteq A
  OBVIOUS
<1> HIDE DEF B
<1>6. Moved(K, c, C, Offload("actor"), B, A)
  BY <1>4, <1>5, MovedMore
<1>7. Moved(K, c, C, h, B, B)
  BY <1>2, QuietStay
<1>8. Moved(K, c, C, p, B, B)
  BY <1>2, QuietStay
<1>9. Moved(K, c, C, u, B, B)
  BY <1>2, QuietStay
<1>10. Moved(K, c, C, Load("actor") \o h, A, B)
  BY <1>3, <1>7, MovedOn
<1>11. Moved(K, c, C, Load("actor") \o h \o p, A, B)
  BY <1>10, <1>8, MovedOn
<1>12. Moved(K, c, C, Load("actor") \o h \o p \o u, A, B)
  BY <1>11, <1>9, MovedOn
<1>13. Moved(K, c, C, Load("actor") \o h \o p \o u \o Offload("actor"), A, A)
  BY <1>12, <1>6, MovedOn
<1> QED
  BY <1>13 DEF ComputeLogProb, h, p, u

\* Two parts, of a role, with a list of operations between.
LEMMA QuietTwo ==
  ASSUME NEW K, NEW c, NEW k, NEW l, NEW b, NEW g, NEW C, Quietly(K, c, k, l, b, g, C), NEW A,
         NEW x \in Parts, NEW y \in Parts
  PROVE  /\ Moved(K, c, C, Load(x) \o Load(y), A, A \cup {x} \cup {y})
         /\ \A q : Moved(K, c, C, q, A, A \cup {x} \cup {y}) => Moved(K, c, C, q \o Offload(x) \o Offload(y), A, A)
<1> DEFINE B == A \cup {x}
           D == B \cup {y}
           E == D \ {x}
           F == E \ {y}
<1>1. Moved(K, c, C, Load(x), A, B)
  BY QuietParts
<1>2. Moved(K, c, C, Load(y), B, D)
  BY QuietParts
<1>3. Moved(K, c, C, Offload(x), D, E)
  BY QuietParts
<1>4. Moved(K, c, C, Offload(y), E, F)
  BY QuietParts
<1>5. F \subseteq A
  OBVIOUS
<1> HIDE DEF B, D, E, F
<1>6. Moved(K, c, C, Load(x) \o Load(y), A, D)
  BY <1>1, <1>2, MovedOn
<1>7. Moved(K, c, C, Offload(y), E, A)
  BY <1>4, <1>5, MovedMore
<1>8. ASSUME NEW q, Moved(K, c, C, q, A, D) PROVE Moved(K, c, C, q \o Offload(x) \o Offload(y), A, A)
  <2>1. Moved(K, c, C, q \o Offload(x), A, E)
    BY <1>3, <1>8, MovedOn
  <2> QED
    BY <2>1, <1>7, MovedOn
<1> QED
  BY <1>6, <1>8 DEF B, D

\* So do update_actor and the methods of the critic and the reference, with their
\* parts.
LEMMA QuietUpdates ==
  ASSUME NEW K, NEW c, NEW k, NEW l, NEW b, NEW g, NEW C, Quietly(K, c, k, l, b, g, C), NEW A,
         NEW what \in Whats, what.for # "analyze", NEW n \in Noises
  PROVE  /\ Moved(K, c, C, UpdateActor(n, what), A, A)
         /\ Moved(K, c, C, UpdateCritic(what), A, A)
         /\ Moved(K, c, C, ComputeValues(what), A, A)
         /\ Moved(K, c, C, ComputeRefLogProb(what), A, A)
         /\ Moved(K, c, C, InitCritic, A, A)
<1> DEFINE h == Hook("actor", "train", n)
           p == <<<<"train", "">>, <<"update", what>>>>
           u == Unhook(n)
           r == <<<<"draw", "">>, <<"update_critic", what>>>>
           v == <<<<"values", what>>>>
           f == <<<<"reference", what>>>>
<1>1. "actor" \in Parts /\ "actor_optim" \in Parts /\ "critic" \in Parts /\ "critic_optim" \in Parts
      /\ "actor" \in Roles /\ 0 \in Nat
  BY DEF Parts, Roles
<1>2. h \in Seq(QuietOps) /\ p \in Seq(QuietOps) /\ u \in Seq(QuietOps) /\ r \in Seq(QuietOps)
      /\ v \in Seq(QuietOps) /\ f \in Seq(QuietOps)
  BY <1>1, QuietLists
<1> HIDE DEF h, p, u, r, v, f
<1>3. Moved(K, c, C, UpdateActor(n, what), A, A)
  <2> DEFINE x == "actor"
             y == "actor_optim"
             D == A \cup {x} \cup {y}
  <2>1. x \in Parts /\ y \in Parts
    BY <1>1
  <2>2. UpdateActor(n, what) = Load(x) \o Load(y) \o h \o p \o u \o Offload(x) \o Offload(y)
    BY DEF UpdateActor, h, p, u
  <2> HIDE DEF x, y
  <2>3. /\ Moved(K, c, C, Load(x) \o Load(y), A, D)
        /\ \A q : Moved(K, c, C, q, A, D) => Moved(K, c, C, q \o Offload(x) \o Offload(y), A, A)
    BY <2>1, QuietTwo
  <2> HIDE DEF D
  <2>4. Moved(K, c, C, h, D, D)
    BY <1>2, QuietStay
  <2>5. Moved(K, c, C, p, D, D)
    BY <1>2, QuietStay
  <2>6. Moved(K, c, C, u, D, D)
    BY <1>2, QuietStay
  <2>7. Moved(K, c, C, Load(x) \o Load(y) \o h, A, D)
    BY <2>3, <2>4, MovedOn
  <2>8. Moved(K, c, C, Load(x) \o Load(y) \o h \o p, A, D)
    BY <2>7, <2>5, MovedOn
  <2>9. Moved(K, c, C, Load(x) \o Load(y) \o h \o p \o u, A, D)
    BY <2>8, <2>6, MovedOn
  <2> QED
    BY <2>2, <2>3, <2>9
<1>4. Moved(K, c, C, UpdateCritic(what), A, A)
  <2> DEFINE x == "critic"
             y == "critic_optim"
             D == A \cup {x} \cup {y}
  <2>1. x \in Parts /\ y \in Parts
    BY <1>1
  <2>2. UpdateCritic(what) = Load(x) \o Load(y) \o r \o Offload(x) \o Offload(y)
    BY DEF UpdateCritic, r
  <2> HIDE DEF x, y
  <2>3. /\ Moved(K, c, C, Load(x) \o Load(y), A, D)
        /\ \A q : Moved(K, c, C, q, A, D) => Moved(K, c, C, q \o Offload(x) \o Offload(y), A, A)
    BY <2>1, QuietTwo
  <2> HIDE DEF D
  <2>4. Moved(K, c, C, r, D, D)
    BY <1>2, QuietStay
  <2>5. Moved(K, c, C, Load(x) \o Load(y) \o r, A, D)
    BY <2>3, <2>4, MovedOn
  <2> QED
    BY <2>2, <2>3, <2>5
<1>5. Moved(K, c, C, ComputeValues(what), A, A)
  <2>1. Moved(K, c, C, v, A \cup {"critic"}, A \cup {"critic"})
    BY <1>2, QuietStay
  <2>2. Moved(K, c, C, Load("critic") \o v \o Offload("critic"), A, A)
    BY <1>1, <2>1, QuietLoaded
  <2> QED
    BY <2>2 DEF ComputeValues, v
<1>6. Moved(K, c, C, ComputeRefLogProb(what), A, A)
  <2>1. Moved(K, c, C, f, A, A)
    BY <1>2, QuietStay
  <2> QED
    BY <2>1 DEF ComputeRefLogProb, f
<1>7. Moved(K, c, C, InitCritic, A, A)
  <2> DEFINE B == A \cup {"critic"}
             q == <<<<"build", "critic">>>>
  <2>1. Moved(K, c, C, q, A, B)
    BY <1>1, QuietParts
  <2>2. Moved(K, c, C, Offload("critic"), B, B \ {"critic"}) /\ B \ {"critic"} \subseteq A
    BY <1>1, QuietParts
  <2> HIDE DEF B, q
  <2>3. Moved(K, c, C, Offload("critic"), B, A)
    BY <2>2, MovedMore
  <2>5. Moved(K, c, C, Offload("critic_optim"), A, A \ {"critic_optim"}) /\ A \ {"critic_optim"} \subseteq A
    BY <1>1, QuietParts
  <2>6. Moved(K, c, C, Offload("critic_optim"), A, A)
    BY <2>5, MovedMore
  <2>4. Moved(K, c, C, q \o Offload("critic") \o Offload("critic_optim"), A, A)
    BY <2>1, <2>3, <2>6, MovedOn
  <2> QED
    BY <2>4 DEF InitCritic, q
<1> QED
  BY <1>3, <1>4, <1>5, <1>6, <1>7

\* save_checkpoint loads the model and offloads it again.
LEMMA QuietSave ==
  ASSUME NEW K, NEW c, NEW k, NEW l, NEW b, NEW g, NEW C, Quietly(K, c, k, l, b, g, C), NEW A,
         NEW role \in Roles, NEW s \in Nat
  PROVE  Moved(K, c, C, SaveCheckpoint(role, s), A, A)
<1> DEFINE p == <<<<"barrier", "before">>, <<"save", [role |-> role, step |-> s]>>, <<"barrier", "after">>>>
           what == [for |-> "track", step |-> s]
<1>1. role \in Parts
  BY DEF Roles, Parts
<1>2. p \in Seq(QuietOps)
  <2>1. what \in Whats /\ what.for # "analyze" /\ {} \in Noises
    BY DEF Whats, CallNames, Noises
  <2> QED
    BY <2>1, QuietLists
<1> HIDE DEF p
<1>3. Moved(K, c, C, p, A \cup {role}, A \cup {role})
  BY <1>2, QuietStay
<1>4. Moved(K, c, C, Load(role) \o p \o Offload(role), A, A)
  BY <1>1, <1>3, QuietLoaded
<1> QED
  BY <1>4 DEF SaveCheckpoint, p

\* What is loaded changes the actor and the present random state.
LEMMA QuietRestore ==
  ASSUME NEW K, NEW c, NEW k, NEW l, NEW b, NEW g, NEW C, Quietly(K, c, k, l, b, g, C), NEW A,
         NEW role \in Roles, NEW s \in Nat, Len(l) > 0, l[1] \in Loads
  PROVE  Moved(K, c, C, <<<<"restore", [role |-> role, step |-> s]>>>>, A, A \cup {Optim(role)})
<1> DEFINE op == <<"restore", [role |-> role, step |-> s]>>
<1>1. op \in Ops /\ op[1] = "restore" /\ op[2].role = role
  <2>1. [role |-> role, step |-> s] \in Files
    BY DEF Files
  <2> QED
    BY <2>1 DEF Ops
<1> HIDE DEF op
<1>2. IsEngine(K, c, k, l, b, g) /\ Roomy(c, A, C, g) /\ Loose(C)
  BY DEF Quietly, Ample, Roomy
<1>3. ASSUME NEW x \in Spot(c, A, C)
      PROVE  /\ <<op, x>> \in EngineRight(c, k, l, b, g)
             /\ \A t \in EngineStates : GpuMove(op, x.gpu, t.gpu) /\ CoreMove(k, op, x.core, t.core) =>
                  t \in Spot(c, A \cup {Optim(role)}, C)
  <2>1. x \in EngineStates /\ RoomAt(c, x, g) /\ x.core \in Cores /\ x.core \in C /\ x.gpu \cap c.offload \subseteq A
    BY <1>2, SpotRoom, SpotIs
  <2>2. <<op, x>> \in EngineRight(c, k, l, b, g)
    BY <1>1, <2>1 DEF EngineRight
  <2>3. ASSUME NEW t \in EngineStates, GpuMove(op, x.gpu, t.gpu), CoreMove(k, op, x.core, t.core)
        PROVE  t \in Spot(c, A \cup {Optim(role)}, C)
    <3>1. t.gpu = x.gpu \cup {Optim(role)}
      BY <1>1, <2>3 DEF GpuMove
    <3>2. t.core \in C
      <4>1. t.core \in Cores
        BY DEF EngineStates
      <4> QED
        BY <1>1, <1>2, <2>1, <2>3, <4>1, LooseMove
    <3> QED
      BY <2>1, <3>1, <3>2 DEF Spot
  <2> QED
    BY <2>2, <2>3
<1>4. Spot(c, A, C) \subseteq EngineStates
  BY DEF Spot
<1>5. Does(K, <<op>>, Spot(c, A, C), Spot(c, A \cup {Optim(role)}, C))
  BY <1>1, <1>2, <1>3, <1>4, EngineOne
<1> QED
  BY <1>5 DEF Moved, op

\* So does load_checkpoint, when it is called.
LEMMA QuietLoad ==
  ASSUME NEW K, NEW c, NEW k, NEW l, NEW b, NEW g, NEW C, Quietly(K, c, k, l, b, g, C), NEW A,
         NEW role \in Roles, NEW s \in Nat, Len(l) > 0, l[1] \in Loads
  PROVE  Moved(K, c, C, LoadCheckpoint(role, s), A, A)
<1> DEFINE r == <<<<"restore", [role |-> role, step |-> s]>>>>
           e == IF role = "critic" THEN <<<<"barrier", "loaded">>>> ELSE <<>>
           y == Optim(role)
           what == [for |-> "track", step |-> s]
           B == A \cup {role}
           D == B \cup {y}
<1>1. role \in Parts /\ y \in Parts
  BY DEF Roles, Parts, Optim
<1>2. e \in Seq(QuietOps)
  <2>1. what \in Whats /\ what.for # "analyze" /\ {} \in Noises
    BY DEF Whats, CallNames, Noises
  <2>2. <<<<"barrier", "loaded">>>> \in Seq(QuietOps)
    BY <2>1, QuietLists
  <2>3. <<>> \in Seq(QuietOps)
    OBVIOUS
  <2> QED
    BY <2>2, <2>3
<1>3. LoadCheckpoint(role, s) = Load(role) \o r \o e \o Offload(role) \o Offload(y)
  BY DEF LoadCheckpoint
<1>4. Moved(K, c, C, r, B, B \cup {y})
  BY QuietRestore
<1> HIDE DEF r, e
<1>5. Moved(K, c, C, Load(role), A, B)
  BY <1>1, QuietParts
<1>6. Moved(K, c, C, e, D, D)
  BY <1>2, QuietStay
<1>7. \A q : Moved(K, c, C, q, A, A \cup {role} \cup {y}) => Moved(K, c, C, q \o Offload(role) \o Offload(y), A, A)
  BY <1>1, QuietTwo
<1>8. Moved(K, c, C, r, B, D)
  BY <1>4
<1>9. \A q : Moved(K, c, C, q, A, D) => Moved(K, c, C, q \o Offload(role) \o Offload(y), A, A)
  BY <1>7
<1> HIDE DEF B, D, y
<1>10. Moved(K, c, C, Load(role) \o r, A, D)
  BY <1>5, <1>8, MovedOn
<1>11. Moved(K, c, C, Load(role) \o r \o e, A, D)
  BY <1>6, <1>10, MovedOn
<1> QED
  BY <1>3, <1>9, <1>11

\* An analysis, where its pass is one from which the rest may be dropped.
LEMMA QuietAnalyze ==
  ASSUME NEW K, NEW c, NEW k, NEW l, NEW b, NEW g, NEW C, Quietly(K, c, k, l, b, g, C), NEW A,
         NEW what \in Whats, c.mode = "sync", Spot(c, A \cup {"actor"}, C) \subseteq Stage(c, k, l, b)
  PROVE  Moved(K, c, C, AnalyzeGenerationPolicy(what), A, A)
<1> DEFINE op == <<"forward", what>>
           e == <<"eval", "">>
           p == <<e, op>>
           B == A \cup {"actor"}
<1>1. op \in Ops /\ op[1] = "forward" /\ op[2] = what /\ e \in QuietOps /\ "actor" \in Parts
  BY DEF QuietOps, Resting, LooseNames, StillNames, Ops, WordOps, PassOps, Words, Parts
<1>2. IsEngine(K, c, k, l, b, g) /\ Roomy(c, B, C, g)
  BY DEF Quietly, Ample, Roomy
<1>3. <<e>> \in Seq(QuietOps)
  BY <1>1, ShortLists, Zenon
<1> HIDE DEF op
<1>4. ASSUME NEW x \in Spot(c, B, C)
      PROVE  /\ <<op, x>> \in EngineRight(c, k, l, b, g)
             /\ \A t \in EngineStates : GpuMove(op, x.gpu, t.gpu) /\ CoreMove(k, op, x.core, t.core) =>
                  t \in Spot(c, B, C)
  <2>1. x \in EngineStates /\ RoomAt(c, x, g) /\ x.core \in Cores /\ x.core \in C /\ x.gpu \cap c.offload \subseteq B
        /\ x \in Stage(c, k, l, b)
    BY <1>2, SpotRoom, SpotIs
  <2>2. <<op, x>> \in EngineRight(c, k, l, b, g)
    BY <1>1, <2>1 DEF EngineRight
  <2>3. ASSUME NEW t \in EngineStates, GpuMove(op, x.gpu, t.gpu), CoreMove(k, op, x.core, t.core)
        PROVE  t \in Spot(c, B, C)
    <3>1. t.gpu = x.gpu
      BY <1>1, <2>3, RestingMove DEF Resting
    <3>2. t.core = x.core
      <4>1. t.core \in Cores /\ op[1] \in StillNames
        BY <1>1 DEF EngineStates, StillNames
      <4> QED
        BY <1>1, <2>1, <2>3, <4>1, StillMove
    <3> QED
      BY <2>1, <3>1, <3>2 DEF Spot
  <2> QED
    BY <2>2, <2>3
<1>5. Spot(c, B, C) \subseteq EngineStates
  BY DEF Spot
<1>6. Does(K, <<op>>, Spot(c, B, C), Spot(c, B, C))
  BY <1>1, <1>2, <1>4, <1>5, EngineOne
<1>7. Does(K, <<e>>, Spot(c, B, C), Spot(c, B, C))
  BY <1>3, QuietStay DEF Moved
<1>8. Moved(K, c, C, p, B, B)
  <2>1. Leads(K, <<e>>, Spot(c, B, C), Spot(c, B, C)) /\ Leads(K, <<op>>, Spot(c, B, C), Spot(c, B, C))
    BY <1>6, <1>7 DEF Does
  <2>2. Leads(K, <<e, op>>, Spot(c, B, C), Spot(c, B, C))
    BY <2>1, LeadsTwo
  <2>3. e \in Ops
    BY <1>1 DEF QuietOps
  <2>4. <<e, op>> \in Seq(Ops)
    BY <1>1, <2>3, ShortLists, Zenon
  <2> QED
    BY <2>2, <2>4 DEF Does, Moved
<1> HIDE DEF e, p
<1>9. Moved(K, c, C, Load("actor") \o p \o Offload("actor"), A, A)
  BY <1>1, <1>8, QuietLoaded
<1> QED
  BY <1>9 DEF AnalyzeGenerationPolicy, p, op, e

-----------------------------------------------------------------------------
\* The methods that take an engine from one stage to the next

\* A list that takes an engine from one spot to another.
Goes(K, c, q, A, C, B, D) == Does(K, q, Spot(c, A, C), Spot(c, B, D))
Engines(K, c, k, l, b, g) == IsEngine(K, c, k, l, b, g) /\ c.offload = job.offload /\ c.tags = job.tags

\* One list after another.
LEMMA GoesOn ==
  ASSUME NEW K, NEW c, NEW q, NEW r, NEW A, NEW B, NEW D, NEW P, NEW Q, NEW U,
         Goes(K, c, q, A, P, B, Q), Goes(K, c, r, B, Q, D, U)
  PROVE  Goes(K, c, q \o r, A, P, D, U)
BY DoesConcat DEF Goes

\* From fewer states, or to more of them.
LEMMA GoesMore ==
  ASSUME NEW K, NEW c, NEW q, NEW A, NEW B, NEW P, NEW Q, Goes(K, c, q, A, P, B, Q),
         NEW X, NEW Y, NEW U, NEW V, X \subseteq A, B \subseteq Y, U \subseteq P, Q \subseteq V
  PROVE  Goes(K, c, q, X, U, Y, V)
<1>1. Spot(c, X, U) \subseteq Spot(c, A, P)
  BY SpotMore
<1>2. Spot(c, B, Q) \subseteq Spot(c, Y, V)
  BY SpotMore
<1> QED
  BY <1>1, <1>2, DoesMore DEF Goes

\* An operation that leaves the GPU as it is, from cores to cores.
LEMMA CoreOne ==
  ASSUME NEW K, NEW c, NEW k, NEW l, NEW b, NEW g, Engines(K, c, k, l, b, g), NEW A, NEW C, NEW D,
         Roomy(c, A, C, g), NEW op \in Ops, Resting(op), op[1] # "generate", op[1] # "forward",
         \A x \in C \cap Cores : \A y \in Cores : CoreMove(k, op, x, y) => y \in D
  PROVE  Goes(K, c, <<op>>, A, C, A, D)
<1>1. ASSUME NEW s \in Spot(c, A, C)
      PROVE  /\ <<op, s>> \in EngineRight(c, k, l, b, g)
             /\ \A t \in EngineStates :
                  GpuMove(op, s.gpu, t.gpu) /\ CoreMove(k, op, s.core, t.core) => t \in Spot(c, A, D)
  <2>1. s \in EngineStates /\ RoomAt(c, s, g) /\ s.core \in Cores /\ s.core \in C /\ s.gpu \cap c.offload \subseteq A
    BY SpotRoom, SpotIs
  <2>2. <<op, s>> \in EngineRight(c, k, l, b, g)
    BY <2>1, PlainRight DEF Resting
  <2>3. ASSUME NEW t \in EngineStates, GpuMove(op, s.gpu, t.gpu), CoreMove(k, op, s.core, t.core)
        PROVE  t \in Spot(c, A, D)
    <3>1. t.gpu = s.gpu
      BY <2>3, RestingMove
    <3>2. t.core \in Cores
      BY DEF EngineStates
    <3>3. t.core \in D
      BY <2>1, <2>3, <3>2
    <3> QED
      BY <2>1, <3>1, <3>3 DEF Spot
  <2> QED
    BY <2>2, <2>3
<1>2. Spot(c, A, C) \subseteq EngineStates
  BY DEF Spot
<1> QED
  BY <1>1, <1>2, EngineOne DEF Engines, Goes

\* The operations of the methods, and what they do to a core.
BareNames == {"sync", "to_gen", "sleep", "train", "to_train", "awake", "asleep", "build_engine", "build_manager", "start_engine"}

\* Of each operation: what it does to the core.
LEMMA CoreOps ==
  /\ \A name \in BareNames : /\ <<name, "">> \in Ops /\ Resting(<<name, "">>) /\ <<name, "">>[1] = name
                          /\ name # "generate" /\ name # "forward"
                          /\ <<name, "">> \notin {<<"wake", "all">>, <<"wake", "cache">>}
  /\ \A word \in {"weights", "cache", "all"} : /\ <<"wake", word>> \in Ops /\ Resting(<<"wake", word>>)
                                               /\ <<"wake", word>>[1] = "wake"
  /\ <<"wake", "weights">> \notin {<<"wake", "all">>, <<"wake", "cache">>}
<1>1. ASSUME NEW name \in BareNames
      PROVE  /\ <<name, "">> \in Ops /\ Resting(<<name, "">>) /\ <<name, "">>[1] = name
             /\ name # "generate" /\ name # "forward"
             /\ <<name, "">> \notin {<<"wake", "all">>, <<"wake", "cache">>}
  <2>1. name \in WordOps /\ "" \in Words
    BY DEF BareNames, WordOps, Words
  <2>2. <<name, "">> \in Ops
    BY <2>1 DEF Ops
  <2>3. Resting(<<name, "">>)
    BY DEF BareNames, Resting
  <2>4. name # "wake" /\ name # "generate" /\ name # "forward"
    BY DEF BareNames
  <2> QED
    BY <2>2, <2>3, <2>4
<1>2. ASSUME NEW word \in {"weights", "cache", "all"}
      PROVE  <<"wake", word>> \in Ops /\ Resting(<<"wake", word>>) /\ <<"wake", word>>[1] = "wake"
  <2>1. "wake" \in WordOps /\ word \in Words
    BY DEF WordOps, Words
  <2>2. <<"wake", word>> \in Ops
    BY <2>1 DEF Ops
  <2> QED
    BY <2>2 DEF Resting
<1> QED
  BY <1>1, <1>2

\* What these operations do to a core.
LEMMA CoreMoves ==
  ASSUME NEW k, NEW x \in Cores, NEW y \in Cores
  PROVE  /\ CoreMove(k, <<"sync", "">>, x, y) =>
              y.weights = x.actor /\ y.actor = x.actor /\ y.cache = x.cache /\ y.asleep = x.asleep /\ y.now = x.now /\ y.gen = x.gen
         /\ \A word \in {"cache", "all"} : CoreMove(k, <<"wake", word>>, x, y) =>
              y.weights = x.weights /\ y.actor = x.actor /\ y.asleep = x.asleep /\ y.now = x.now /\ y.gen = x.gen
         /\ CoreMove(k, <<"to_gen", "">>, x, y) =>
              y.weights = x.weights /\ y.actor = x.actor /\ y.cache = x.cache /\ y.asleep = x.asleep /\ y.now = x.gen
         /\ CoreMove(k, <<"sleep", "">>, x, y) => ~y.cache /\ y.asleep = x.asleep /\ y.now = x.now
         /\ CoreMove(k, <<"train", "">>, x, y) => y = x
         /\ CoreMove(k, <<"to_train", "">>, x, y) => y.cache = x.cache /\ y.asleep = x.asleep /\ y.gen = x.now
         /\ CoreMove(k, <<"awake", "">>, x, y) =>
              ~y.asleep /\ y.weights = x.weights /\ y.actor = x.actor /\ y.now = x.now
         /\ CoreMove(k, <<"asleep", "">>, x, y) => y.asleep /\ y.cache = x.cache /\ y.gen = x.gen
         /\ CoreMove(k, <<"build_engine", "">>, x, y) => ~y.cache
         /\ CoreMove(k, <<"build_manager", "">>, x, y) =>
              /\ y.cache = x.cache /\ y.asleep = x.asleep /\ y.weights = x.weights
              /\ y.gen = Seeded(<<"manager", k>>)
         /\ CoreMove(k, <<"start_engine", "">>, x, y) =>
              y.asleep = x.asleep /\ y.weights = x.weights /\ y.now = Seeded(<<"server", k>>)
<1>1. /\ \A name \in BareNames : <<name, "">>[1] = name /\ <<name, "">> \notin {<<"wake", "all">>, <<"wake", "cache">>}
      /\ \A word \in {"weights", "cache", "all"} : <<"wake", word>>[1] = "wake"
  BY CoreOps
<1>2. ASSUME NEW op, op[1] = "sync", op \notin {<<"wake", "all">>, <<"wake", "cache">>}, CoreMove(k, op, x, y)
      PROVE y.weights = x.actor /\ y.actor = x.actor /\ y.cache = x.cache /\ y.asleep = x.asleep /\ y.now = x.now /\ y.gen = x.gen
  BY <1>2 DEF CoreMove
<1>3. ASSUME NEW op, op[1] = "wake", CoreMove(k, op, x, y)
      PROVE y.weights = x.weights /\ y.actor = x.actor /\ y.asleep = x.asleep /\ y.now = x.now /\ y.gen = x.gen
  BY <1>3 DEF CoreMove
<1>4. ASSUME NEW op, op[1] = "to_gen", op \notin {<<"wake", "all">>, <<"wake", "cache">>}, CoreMove(k, op, x, y)
      PROVE y.weights = x.weights /\ y.actor = x.actor /\ y.cache = x.cache /\ y.asleep = x.asleep /\ y.now = x.gen
  BY <1>4 DEF CoreMove
<1>5. ASSUME NEW op, op[1] = "sleep", op \notin {<<"wake", "all">>, <<"wake", "cache">>}, CoreMove(k, op, x, y)
      PROVE ~y.cache /\ y.asleep = x.asleep /\ y.now = x.now
  BY <1>5 DEF CoreMove
<1>6. ASSUME NEW op, op[1] = "train", op \in Ops, CoreMove(k, op, x, y)
      PROVE y = x
  BY <1>6, StillMove DEF StillNames
<1>7. ASSUME NEW op, op[1] = "to_train", op \notin {<<"wake", "all">>, <<"wake", "cache">>}, CoreMove(k, op, x, y)
      PROVE y.cache = x.cache /\ y.asleep = x.asleep /\ y.gen = x.now
  BY <1>7 DEF CoreMove
<1>8. ASSUME NEW op, op[1] = "awake", op \notin {<<"wake", "all">>, <<"wake", "cache">>}, CoreMove(k, op, x, y)
      PROVE ~y.asleep /\ y.weights = x.weights /\ y.actor = x.actor /\ y.now = x.now
  BY <1>8 DEF CoreMove
<1>9. ASSUME NEW op, op[1] = "asleep", op \notin {<<"wake", "all">>, <<"wake", "cache">>}, CoreMove(k, op, x, y)
      PROVE y.asleep /\ y.cache = x.cache /\ y.gen = x.gen
  BY <1>9 DEF CoreMove
<1>10. ASSUME NEW op, op[1] = "build_engine", op \notin {<<"wake", "all">>, <<"wake", "cache">>}, CoreMove(k, op, x, y)
       PROVE ~y.cache
  BY <1>10 DEF CoreMove
<1>11. ASSUME NEW op, op[1] = "build_manager", op \notin {<<"wake", "all">>, <<"wake", "cache">>}, CoreMove(k, op, x, y)
       PROVE y.cache = x.cache /\ y.asleep = x.asleep /\ y.weights = x.weights /\ y.gen = Seeded(<<"manager", k>>)
  BY <1>11 DEF CoreMove
<1>12. ASSUME NEW op, op[1] = "start_engine", CoreMove(k, op, x, y)
       PROVE y.asleep = x.asleep /\ y.weights = x.weights /\ y.now = Seeded(<<"server", k>>)
  BY <1>12 DEF CoreMove
<1>13. \A name \in BareNames : <<name, "">> \in Ops
  BY CoreOps
<1> HIDE DEF BareNames
<1>14. /\ "sync" \in BareNames /\ "to_gen" \in BareNames /\ "sleep" \in BareNames /\ "train" \in BareNames /\ "to_train" \in BareNames
       /\ "awake" \in BareNames /\ "asleep" \in BareNames /\ "build_engine" \in BareNames /\ "build_manager" \in BareNames
       /\ "start_engine" \in BareNames
  BY DEF BareNames
<1>15. \A word \in {"cache", "all"} : word \in {"weights", "cache", "all"}
  OBVIOUS
<1> QED
  BY <1>1, <1>2, <1>3, <1>4, <1>5, <1>6, <1>7, <1>8, <1>9, <1>10, <1>11, <1>12, <1>13, <1>14, <1>15, Zenon

\* Cores by what is known of them.
Ready(R) == {x \in Cores : x.weights = x.actor /\ x.now \in R}
Gone(R) == {x \in Cores : x.now \in R}
Kept(R) == {x \in Cores : x.gen \in R}
Synced(R) == {x \in Cores : x.gen \in R /\ x.weights = x.actor}
Cold(C) == {x \in C : ~x.cache}

\* Without a cache there is room for it.
LEMMA ColdRoom ==
  ASSUME NEW c, NEW A, NEW C, NEW g
  PROVE  Roomy(c, A, Cold(C), g) /\ (A = {} \/ ~c.tags => Roomy(c, A, C, g))
BY DEF Roomy, Cold

\* Entering the rollout.
LEMMA EngineEnter ==
  ASSUME NEW K, NEW c, NEW k, NEW l, NEW b, NEW g, Engines(K, c, k, l, b, g), NEW R
  PROVE  Goes(K, c, Enter, {"actor"}, Cold(Kept(R)), {}, Ready(R))
<1> DEFINE a == {"actor"}
           w == <<"wake", "weights">>
           y == <<"sync", "">>
           h == <<"wake", "cache">>
           f == <<"wake", "all">>
           t == <<"to_gen", "">>
<1>1. /\ w \in Ops /\ y \in Ops /\ h \in Ops /\ f \in Ops /\ t \in Ops
      /\ Resting(w) /\ Resting(y) /\ Resting(h) /\ Resting(f) /\ Resting(t)
      /\ w[1] = "wake" /\ y[1] = "sync" /\ h[1] = "wake" /\ f[1] = "wake" /\ t[1] = "to_gen"
  BY CoreOps DEF BareNames
<1>2. "actor" \in Parts /\ a \cup {"actor"} = a /\ a \ {"actor"} = {}
  BY DEF Parts
<1>3. IsEngine(K, c, k, l, b, g) /\ c.offload = job.offload /\ c.tags = job.tags
  BY DEF Engines
<1>4. ASSUME NEW x \in Cores, NEW z \in Cores
      PROVE  /\ CoreMove(k, w, x, z) => z = x
             /\ CoreMove(k, y, x, z) =>
                  z.weights = x.actor /\ z.actor = x.actor /\ z.cache = x.cache /\ z.gen = x.gen
             /\ CoreMove(k, h, x, z) \/ CoreMove(k, f, x, z) =>
                  z.weights = x.weights /\ z.actor = x.actor /\ z.gen = x.gen
             /\ CoreMove(k, t, x, z) => z.weights = x.weights /\ z.actor = x.actor /\ z.now = x.gen
  <2>1. CoreMove(k, w, x, z) => z = x
    BY <1>1, StillMove
  <2>2. CoreMove(k, y, x, z) =>
          z.weights = x.actor /\ z.actor = x.actor /\ z.cache = x.cache /\ z.asleep = x.asleep /\ z.now = x.now /\ z.gen = x.gen
    BY CoreMoves, Zenon
  <2>3. CoreMove(k, h, x, z) =>
          z.weights = x.weights /\ z.actor = x.actor /\ z.asleep = x.asleep /\ z.now = x.now /\ z.gen = x.gen
    BY CoreMoves, Zenon
  <2>4. CoreMove(k, f, x, z) =>
          z.weights = x.weights /\ z.actor = x.actor /\ z.asleep = x.asleep /\ z.now = x.now /\ z.gen = x.gen
    BY CoreMoves, Zenon
  <2>5. CoreMove(k, t, x, z) => z.weights = x.weights /\ z.actor = x.actor /\ z.now = x.gen
    BY CoreMoves, Zenon
  <2> QED
    BY <2>1, <2>2, <2>3, <2>4, <2>5
<1> HIDE DEF w, y, h, f, t
<1>5. /\ \A x \in Cold(Kept(R)) \cap Cores : \A z \in Cores : CoreMove(k, w, x, z) => z \in Cold(Kept(R))
      /\ \A x \in Cold(Kept(R)) \cap Cores : \A z \in Cores : CoreMove(k, y, x, z) => z \in Cold(Synced(R))
      /\ \A x \in Cold(Synced(R)) \cap Cores : \A z \in Cores : CoreMove(k, h, x, z) => z \in Synced(R)
      /\ \A x \in Cold(Kept(R)) \cap Cores : \A z \in Cores : CoreMove(k, f, x, z) => z \in Kept(R)
      /\ \A x \in Kept(R) \cap Cores : \A z \in Cores : CoreMove(k, y, x, z) => z \in Synced(R)
      /\ \A x \in Synced(R) \cap Cores : \A z \in Cores : CoreMove(k, t, x, z) => z \in Ready(R)
  <2>1. \A x \in Cold(Kept(R)) \cap Cores : \A z \in Cores : CoreMove(k, w, x, z) => z \in Cold(Kept(R))
    BY <1>4 DEF Cold, Kept
  <2>2. \A x \in Cold(Kept(R)) \cap Cores : \A z \in Cores : CoreMove(k, y, x, z) => z \in Cold(Synced(R))
    BY <1>4 DEF Cold, Kept, Synced
  <2>3. \A x \in Cold(Synced(R)) \cap Cores : \A z \in Cores : CoreMove(k, h, x, z) => z \in Synced(R)
    BY <1>4 DEF Cold, Synced
  <2>4. \A x \in Cold(Kept(R)) \cap Cores : \A z \in Cores : CoreMove(k, f, x, z) => z \in Kept(R)
    BY <1>4 DEF Cold, Kept
  <2>5. \A x \in Kept(R) \cap Cores : \A z \in Cores : CoreMove(k, y, x, z) => z \in Synced(R)
    BY <1>4 DEF Kept, Synced
  <2>6. \A x \in Synced(R) \cap Cores : \A z \in Cores : CoreMove(k, t, x, z) => z \in Ready(R)
    BY <1>4 DEF Synced, Ready
  <2> QED
    BY <2>1, <2>2, <2>3, <2>4, <2>5, <2>6
<1>6. Goes(K, c, Load("actor"), a, Cold(Kept(R)), a, Cold(Kept(R)))
  <2>1. Roomy(c, a, Cold(Kept(R)), g)
    BY ColdRoom
  <2>2. Does(K, Load("actor"), Spot(c, a, Cold(Kept(R))), Spot(c, a \cup {"actor"}, Cold(Kept(R))))
    BY <1>2, <1>3, <2>1, EngineParts
  <2> QED
    BY <1>2, <2>2 DEF Goes
<1>7. Goes(K, c, <<t>>, {}, Synced(R), {}, Ready(R))
  BY <1>1, <1>5, ColdRoom, CoreOne
<1>8. CASE job.tags
  <2>1. Goes(K, c, <<w>>, a, Cold(Kept(R)), a, Cold(Kept(R)))
    BY <1>1, <1>5, ColdRoom, CoreOne
  <2>2. Goes(K, c, <<y>>, a, Cold(Kept(R)), a, Cold(Synced(R)))
    BY <1>1, <1>5, ColdRoom, CoreOne
  <2>3. Goes(K, c, Offload("actor"), a, Cold(Synced(R)), {}, Cold(Synced(R)))
    <3>1. Roomy(c, a, Cold(Synced(R)), g)
      BY ColdRoom
    <3>2. Does(K, Offload("actor"), Spot(c, a, Cold(Synced(R))), Spot(c, a \ {"actor"}, Cold(Synced(R))))
      BY <1>2, <1>3, <3>1, EngineParts
    <3> QED
      BY <1>2, <3>2 DEF Goes
  <2>4. Goes(K, c, <<h>>, {}, Cold(Synced(R)), {}, Synced(R))
    BY <1>1, <1>5, ColdRoom, CoreOne
  <2>5. Goes(K, c, <<w, y>>, a, Cold(Kept(R)), a, Cold(Synced(R)))
    <3>1. Leads(K, <<w>>, Spot(c, a, Cold(Kept(R))), Spot(c, a, Cold(Kept(R))))
          /\ Leads(K, <<y>>, Spot(c, a, Cold(Kept(R))), Spot(c, a, Cold(Synced(R))))
      BY <2>1, <2>2 DEF Goes, Does
    <3>2. Leads(K, <<w, y>>, Spot(c, a, Cold(Kept(R))), Spot(c, a, Cold(Synced(R))))
      BY <3>1, LeadsTwo
    <3>3. <<w, y>> \in Seq(Ops)
      BY <1>1, ShortLists, Zenon
    <3> QED
      BY <3>2, <3>3 DEF Goes, Does
  <2> HIDE DEF a
  <2>6. Goes(K, c, <<w, y>> \o Offload("actor"), a, Cold(Kept(R)), {}, Cold(Synced(R)))
    BY <2>3, <2>5, GoesOn
  <2>7. Goes(K, c, <<w, y>> \o Offload("actor") \o <<h>>, a, Cold(Kept(R)), {}, Synced(R))
    BY <2>4, <2>6, GoesOn
  <2>8. Goes(K, c, Load("actor") \o (<<w, y>> \o Offload("actor") \o <<h>>), a, Cold(Kept(R)), {}, Synced(R))
    BY <1>6, <2>7, GoesOn
  <2>9. Goes(K, c, Load("actor") \o (<<w, y>> \o Offload("actor") \o <<h>>) \o <<t>>, a, Cold(Kept(R)), {}, Ready(R))
    BY <1>7, <2>8, GoesOn
  <2>10. Enter = Load("actor") \o (<<w, y>> \o Offload("actor") \o <<h>>) \o <<t>>
    BY <1>8 DEF Enter, w, y, h, t
  <2> QED
    BY <2>9, <2>10 DEF a
<1>9. CASE ~job.tags
  <2>1. \A A, C : Roomy(c, A, C, g)
    BY <1>3, <1>9 DEF Roomy
  <2>2. Goes(K, c, <<f>>, a, Cold(Kept(R)), a, Kept(R))
    BY <1>1, <1>5, <2>1, CoreOne
  <2>3. Goes(K, c, <<y>>, a, Kept(R), a, Synced(R))
    BY <1>1, <1>5, <2>1, CoreOne
  <2>4. Goes(K, c, Offload("actor"), a, Synced(R), {}, Synced(R))
    <3>1. Does(K, Offload("actor"), Spot(c, a, Synced(R)), Spot(c, a \ {"actor"}, Synced(R)))
      BY <1>2, <1>3, <2>1, EngineParts
    <3> QED
      BY <1>2, <3>1 DEF Goes
  <2>5. Goes(K, c, <<f, y>>, a, Cold(Kept(R)), a, Synced(R))
    <3>1. Leads(K, <<f>>, Spot(c, a, Cold(Kept(R))), Spot(c, a, Kept(R)))
          /\ Leads(K, <<y>>, Spot(c, a, Kept(R)), Spot(c, a, Synced(R)))
      BY <2>2, <2>3 DEF Goes, Does
    <3>2. Leads(K, <<f, y>>, Spot(c, a, Cold(Kept(R))), Spot(c, a, Synced(R)))
      BY <3>1, LeadsTwo
    <3>3. <<f, y>> \in Seq(Ops)
      BY <1>1, ShortLists, Zenon
    <3> QED
      BY <3>2, <3>3 DEF Goes, Does
  <2> HIDE DEF a
  <2>6. Goes(K, c, <<f, y>> \o Offload("actor"), a, Cold(Kept(R)), {}, Synced(R))
    BY <2>4, <2>5, GoesOn
  <2>7. Goes(K, c, Load("actor") \o (<<f, y>> \o Offload("actor")), a, Cold(Kept(R)), {}, Synced(R))
    BY <1>6, <2>6, GoesOn
  <2>8. Goes(K, c, Load("actor") \o (<<f, y>> \o Offload("actor")) \o <<t>>, a, Cold(Kept(R)), {}, Ready(R))
    BY <1>7, <2>7, GoesOn
  <2>9. Enter = Load("actor") \o (<<f, y>> \o Offload("actor")) \o <<t>>
    BY <1>9 DEF Enter, f, y, t
  <2> QED
    BY <2>8, <2>9 DEF a
<1> QED
  BY <1>8, <1>9

\* Three operations.
LEMMA LeadsThree ==
  ASSUME NEW K, NEW op, NEW oq, NEW or, NEW P, NEW Q, NEW U, NEW V,
         Leads(K, <<op>>, P, Q), Leads(K, <<oq>>, Q, U), Leads(K, <<or>>, U, V)
  PROVE  Leads(K, <<op, oq, or>>, P, V)
<1> DEFINE O == {op, oq, or}
           a == <<op, oq>>
           b == <<or>>
           c == <<op, oq, or>>
           d == a \o b
<1>1. a \in Seq(O) /\ b \in Seq(O)
  OBVIOUS
<1>2. Leads(K, d, P, V)
  <2> HIDE DEF O, a, b
  <2>1. Leads(K, a, P, U) /\ Leads(K, b, U, V)
    BY LeadsTwo DEF a, b
  <2> QED
    BY <1>1, <2>1, LeadsConcat
<1>3. Len(d) = 3 /\ d[1] = op /\ d[2] = oq /\ d[3] = or
  OBVIOUS
<1>4. Len(c) = 3 /\ c[1] = op /\ c[2] = oq /\ c[3] = or
  OBVIOUS
<1> HIDE DEF c, d, O
<1>5. \A k \in 0..3 : Paths(K, c, k) = Paths(K, d, k)
  <2>1. \A k \in 0..3 : \A i \in 1..k : c[i] = d[i]
    BY <1>3, <1>4
  <2> QED
    BY <2>1 DEF Paths
<1>6. \A k \in 0..3 : k # 3 => c[k + 1] = d[k + 1]
  BY <1>3, <1>4
<1>7. Leads(K, c, P, V)
  BY <1>2, <1>3, <1>4, <1>5, <1>6 DEF Leads
<1> QED
  BY <1>7 DEF c

\* Leaving it.
LEMMA EngineExit ==
  ASSUME NEW K, NEW c, NEW k, NEW l, NEW b, NEW g, Engines(K, c, k, l, b, g), NEW R
  PROVE  Goes(K, c, Exit, {}, Gone(R), {}, Cold(Kept(R)))
<1> DEFINE s == <<"sleep", "">>
           t == <<"train", "">>
           o == <<"to_train", "">>
<1>1. /\ s \in Ops /\ t \in Ops /\ o \in Ops /\ Resting(s) /\ Resting(t) /\ Resting(o)
      /\ s[1] = "sleep" /\ t[1] = "train" /\ o[1] = "to_train"
  BY CoreOps DEF BareNames
<1>2. ASSUME NEW x \in Cores, NEW z \in Cores
      PROVE  /\ CoreMove(k, s, x, z) => ~z.cache /\ z.now = x.now
             /\ CoreMove(k, t, x, z) => z = x
             /\ CoreMove(k, o, x, z) => z.cache = x.cache /\ z.gen = x.now
  <2>1. CoreMove(k, s, x, z) => ~z.cache /\ z.now = x.now
    BY CoreMoves, Zenon
  <2>2. CoreMove(k, t, x, z) => z = x
    BY CoreMoves, Zenon
  <2>3. CoreMove(k, o, x, z) => z.cache = x.cache /\ z.gen = x.now
    <3>1. o[1] = "to_train" /\ o \notin {<<"wake", "all">>, <<"wake", "cache">>}
      OBVIOUS
    <3> HIDE DEF o
    <3> QED
      BY <3>1 DEF CoreMove
  <2> QED
    BY <2>1, <2>2, <2>3
<1> HIDE DEF s, t, o
<1>3. /\ \A x \in Gone(R) \cap Cores : \A z \in Cores : CoreMove(k, s, x, z) => z \in Cold(Gone(R))
      /\ \A x \in Cold(Gone(R)) \cap Cores : \A z \in Cores : CoreMove(k, t, x, z) => z \in Cold(Gone(R))
      /\ \A x \in Cold(Gone(R)) \cap Cores : \A z \in Cores : CoreMove(k, o, x, z) => z \in Cold(Kept(R))
  BY <1>2 DEF Cold, Gone, Kept
<1>4. Goes(K, c, <<s>>, {}, Gone(R), {}, Cold(Gone(R)))
  BY <1>1, <1>3, ColdRoom, CoreOne
<1>5. Goes(K, c, <<t>>, {}, Cold(Gone(R)), {}, Cold(Gone(R)))
  BY <1>1, <1>3, ColdRoom, CoreOne
<1>6. Goes(K, c, <<o>>, {}, Cold(Gone(R)), {}, Cold(Kept(R)))
  BY <1>1, <1>3, ColdRoom, CoreOne
<1>7. Leads(K, <<s, t, o>>, Spot(c, {}, Gone(R)), Spot(c, {}, Cold(Kept(R))))
  <2>1. /\ Leads(K, <<s>>, Spot(c, {}, Gone(R)), Spot(c, {}, Cold(Gone(R))))
        /\ Leads(K, <<t>>, Spot(c, {}, Cold(Gone(R))), Spot(c, {}, Cold(Gone(R))))
        /\ Leads(K, <<o>>, Spot(c, {}, Cold(Gone(R))), Spot(c, {}, Cold(Kept(R))))
    BY <1>4, <1>5, <1>6 DEF Goes, Does
  <2> QED
    BY <2>1, LeadsThree
<1>8. <<s, t, o>> \in Seq(Ops)
  BY <1>1, ShortLists, Zenon
<1> QED
  BY <1>7, <1>8 DEF Exit, s, t, o, Goes, Does

\* A generation, from cores it is right in.
Sampled(C, R) ==
  {y \in Cores : y.now \in R /\ \E x \in C : y.weights = x.weights /\ y.actor = x.actor /\ y.asleep = x.asleep}

\* A generation draws once from the random state.
LEMMA RandomNext ==
  ASSUME NEW c, NEW k, NEW n, NEW x \in Cores, NEW y \in Cores, x.now \in RandomAt(c, k, n),
         y.now = [x.now EXCEPT !.drawn = @ + 1]
  PROVE  y.now \in RandomAt(c, k, n + 1)
<1>1. CASE c.known
  <2>1. x.now = Drawn(c, k, n)
    BY <1>1 DEF RandomAt
  <2>2. y.now = Drawn(c, k, n + 1)
    BY <2>1 DEF Drawn
  <2> QED
    BY <1>1, <2>2 DEF RandomAt
<1>2. CASE ~c.known
  BY <1>2 DEF RandomAt, Cores
<1> QED
  BY <1>1, <1>2

\* The generation itself.
LEMMA EngineGenerate ==
  ASSUME NEW K, NEW c, NEW k, NEW l, NEW b, NEW n \in Nat, Engines(K, c, k, l, b, n + 1), NEW C,
         \A x \in C : x \in Cores /\ x.now \in RandomAt(c, k, n) /\ Generates(c, k, x, n + 1),
         NEW what \in Whats
  PROVE  Goes(K, c, <<<<"generate", what>>>>, {}, C, {}, Sampled(C, RandomAt(c, k, n + 1)))
<1> DEFINE op == <<"generate", what>>
<1>1. op \in Ops /\ Resting(op) /\ op[1] = "generate"
  <2>1. "generate" \in PassOps
    BY DEF PassOps
  <2>2. op \in Ops
    BY <2>1 DEF Ops
  <2> QED
    BY <2>2 DEF Resting
<1>2. op \notin {<<"wake", "all">>, <<"wake", "cache">>}
  <2>1. <<"wake", "all">>[1] = "wake" /\ <<"wake", "cache">>[1] = "wake"
    OBVIOUS
  <2> QED
    BY <1>1, <2>1
<1> HIDE DEF op
<1>3. ASSUME NEW s \in Spot(c, {}, C)
      PROVE  /\ <<op, s>> \in EngineRight(c, k, l, b, n + 1)
             /\ \A t \in EngineStates : GpuMove(op, s.gpu, t.gpu) /\ CoreMove(k, op, s.core, t.core) =>
                  t \in Spot(c, {}, Sampled(C, RandomAt(c, k, n + 1)))
  <2>1. Roomy(c, {}, C, n + 1)
    BY DEF Roomy
  <2>2. s \in EngineStates /\ RoomAt(c, s, n + 1) /\ s.core \in Cores /\ s.core \in C /\ s.gpu \cap c.offload \subseteq {}
    BY <2>1, SpotRoom, SpotIs
  <2>3. Generates(c, k, s.core, n + 1) /\ s.core.now \in RandomAt(c, k, n)
    BY <2>2
  <2>4. <<op, s>> \in EngineRight(c, k, l, b, n + 1)
    BY <1>1, <2>2, <2>3 DEF EngineRight
  <2>5. ASSUME NEW t \in EngineStates, GpuMove(op, s.gpu, t.gpu), CoreMove(k, op, s.core, t.core)
        PROVE  t \in Spot(c, {}, Sampled(C, RandomAt(c, k, n + 1)))
    <3>1. t.gpu = s.gpu
      BY <1>1, <2>5, RestingMove
    <3>2. t.core \in Cores
      BY DEF EngineStates
    <3>3. /\ t.core.weights = s.core.weights /\ t.core.actor = s.core.actor /\ t.core.asleep = s.core.asleep
          /\ t.core.now = [s.core.now EXCEPT !.drawn = @ + 1]
      BY <1>1, <1>2, <2>5 DEF CoreMove
    <3>4. t.core.now \in RandomAt(c, k, n + 1)
      BY <2>2, <2>3, <3>2, <3>3, RandomNext
    <3>5. t.core \in Sampled(C, RandomAt(c, k, n + 1))
      BY <2>2, <3>2, <3>3, <3>4 DEF Sampled
    <3> QED
      BY <2>2, <3>1, <3>5 DEF Spot
  <2> QED
    BY <2>4, <2>5
<1>4. Spot(c, {}, C) \subseteq EngineStates
  BY DEF Spot
<1>5. Does(K, <<op>>, Spot(c, {}, C), Spot(c, {}, Sampled(C, RandomAt(c, k, n + 1))))
  BY <1>1, <1>3, <1>4, EngineOne DEF Engines
<1> QED
  BY <1>5 DEF Goes, op

\* Hooks come and go where the engine is.
LEMMA EngineHooks ==
  ASSUME NEW K, NEW c, NEW k, NEW l, NEW b, NEW g, Engines(K, c, k, l, b, g), NEW C, NEW n \in Noises
  PROVE  Goes(K, c, Hook("engine", "eval", n), {}, C, {}, C) /\ Goes(K, c, Unhook(n), {}, C, {}, C)
<1> DEFINE O == {op \in Ops : op[1] \in {"hook", "unhook"}}
<1>1. <<"unhook", "">> \in O
  BY DEF Ops, WordOps, Words
<1>2. <<"hook", [where |-> "engine", phase |-> "eval", noise |-> n]>> \in O
  <2>1. [where |-> "engine", phase |-> "eval", noise |-> n] \in HookArgs
    BY DEF HookArgs
  <2> QED
    BY <2>1 DEF Ops
<1>3. O \in SUBSET Ops
      /\ \A op \in O : Resting(op) /\ (op[1] = "forward" => op[2].for # "analyze")
                       /\ (op[1] \in StillNames \/ (op[1] \in LooseNames /\ Loose(C)))
  BY DEF Resting, StillNames
<1> HIDE DEF O
<1>4. \A q \in Seq(O) : Goes(K, c, q, {}, C, {}, C)
  <2> TAKE q \in Seq(O)
  <2>1. Roomy(c, {}, C, g)
    BY DEF Roomy
  <2>2. Does(K, q, Spot(c, {}, C), Spot(c, {}, C))
    BY <1>3, <2>1, StillStay DEF Engines
  <2> QED
    BY <2>2 DEF Goes
<1>5. <<>> \in Seq(O)
  OBVIOUS
<1>6. Hook("engine", "eval", n) \in Seq(O)
  <2>1. <<<<"hook", [where |-> "engine", phase |-> "eval", noise |-> n]>>>> \in Seq(O)
    BY <1>2, ShortLists, Zenon
  <2> QED
    BY <1>5, <2>1, Zenon DEF Hook
<1>7. Unhook(n) \in Seq(O)
  <2>1. <<<<"unhook", "">>>> \in Seq(O)
    BY <1>1, ShortLists, Zenon
  <2> QED
    BY <1>5, <2>1, Zenon DEF Unhook
<1> QED
  BY <1>4, <1>6, <1>7

\* generate_sequences: the engine wakes up and generates with the actor's weights, and sleeps again.
LEMMA EngineSequences ==
  ASSUME NEW K, NEW c, NEW k, NEW l, NEW b, NEW n \in Nat, Engines(K, c, k, l, b, n + 1), c.mode = "sync",
         NEW what \in Whats, NEW u \in Noises
  PROVE  Goes(K, c, GenerateSequences(u, what), {"actor"}, CoreSync(c, k, n), {}, CoreSync(c, k, n + 1))
<1> DEFINE R == RandomAt(c, k, n)
           S == RandomAt(c, k, n + 1)
           h == Hook("engine", "eval", u)
           o == <<<<"generate", what>>>>
           f == Unhook(u)
           C == Ready(R)
           D == Sampled(C, S)
<1>1. \A x \in C : x \in Cores /\ x.now \in RandomAt(c, k, n) /\ Generates(c, k, x, n + 1)
  <2> SUFFICES ASSUME NEW x \in C
               PROVE  x \in Cores /\ x.now \in RandomAt(c, k, n) /\ Generates(c, k, x, n + 1)
    OBVIOUS
  <2>1. x \in Cores /\ x.now \in RandomAt(c, k, n) /\ x.weights = x.actor
    BY DEF Ready
  <2>2. (n + 1) - 1 = n
    OBVIOUS
  <2>3. c.known => x.now = Drawn(c, k, (n + 1) - 1)
    BY <2>1, <2>2 DEF RandomAt
  <2> QED
    BY <2>1, <2>3 DEF Generates
<1>2. D \subseteq Gone(S)
  BY DEF Sampled, Gone
<1>3. CoreSync(c, k, n) = Cold(Kept(R)) /\ CoreSync(c, k, n + 1) = Cold(Kept(S))
  BY DEF CoreSync, Cold, Kept
<1>4. Goes(K, c, Enter, {"actor"}, CoreSync(c, k, n), {}, C)
  <2>1. Goes(K, c, Enter, {"actor"}, Cold(Kept(R)), {}, C)
    BY EngineEnter
  <2> QED
    BY <1>3, <2>1
<1>5. Goes(K, c, Exit, {}, Gone(S), {}, CoreSync(c, k, n + 1))
  <2>1. Goes(K, c, Exit, {}, Gone(S), {}, Cold(Kept(S)))
    BY EngineExit
  <2> QED
    BY <1>3, <2>1
<1> HIDE DEF C
<1>6. Goes(K, c, o, {}, C, {}, D)
  BY <1>1, EngineGenerate
<1> HIDE DEF R, S, D, h, o, f
<1>7. Goes(K, c, h, {}, C, {}, C)
  BY EngineHooks DEF h
<1>8. Goes(K, c, f, {}, D, {}, D)
  BY EngineHooks DEF f
<1>9. Goes(K, c, f, {}, D, {}, Gone(S))
  BY <1>2, <1>8, GoesMore
<1>10. Goes(K, c, Enter \o h, {"actor"}, CoreSync(c, k, n), {}, C)
  BY <1>4, <1>7, GoesOn
<1>11. Goes(K, c, Enter \o h \o o, {"actor"}, CoreSync(c, k, n), {}, D)
  BY <1>6, <1>10, GoesOn
<1>12. Goes(K, c, Enter \o h \o o \o f, {"actor"}, CoreSync(c, k, n), {}, Gone(S))
  BY <1>9, <1>11, GoesOn
<1>13. Goes(K, c, Enter \o h \o o \o f \o Exit, {"actor"}, CoreSync(c, k, n), {}, CoreSync(c, k, n + 1))
  BY <1>5, <1>12, GoesOn
<1> QED
  BY <1>13 DEF GenerateSequences, h, o, f

\* The server generates: first with the pretrained weights, then with the actor's.
LEMMA EngineServe ==
  ASSUME NEW K, NEW c, NEW k, NEW l, NEW b, NEW n \in Nat, Engines(K, c, k, l, b, n + 1), c.mode = "async",
         NEW what \in Whats
  PROVE  /\ n = 0 => Goes(K, c, Serve(what), {}, CoreUp(c, k), {}, CoreFirst(c, k))
         /\ n > 0 => Goes(K, c, Serve(what), {}, CoreServing(c, k, n), {}, CoreServing(c, k, n + 1))
<1> DEFINE o == <<<<"generate", what>>>>
<1>1. Serve(what) = o
  BY DEF Serve
<1>2. (n + 1) - 1 = n /\ (n = 0 => n + 1 = 1) /\ (n > 0 => n + 1 # 1)
  OBVIOUS
<1>3. ASSUME n = 0 PROVE Goes(K, c, o, {}, CoreUp(c, k), {}, CoreFirst(c, k))
  <2> DEFINE C == CoreUp(c, k)
             S == RandomAt(c, k, n + 1)
  <2>1. \A x \in C : x \in Cores /\ x.now \in RandomAt(c, k, n) /\ x.weights = 0 /\ ~x.asleep
    BY <1>3 DEF CoreUp
  <2>2. \A x \in C : Generates(c, k, x, n + 1)
    BY <1>2, <1>3, <2>1 DEF Generates, RandomAt
  <2>3. Sampled(C, S) \subseteq CoreFirst(c, k)
    BY <1>2, <1>3, <2>1 DEF Sampled, CoreFirst
  <2> HIDE DEF C, o
  <2>4. Goes(K, c, o, {}, C, {}, Sampled(C, S))
    BY <2>1, <2>2, EngineGenerate DEF o
  <2> HIDE DEF S
  <2>5. Goes(K, c, o, {}, C, {}, CoreFirst(c, k))
    BY <2>3, <2>4, GoesMore
  <2> QED
    BY <2>5 DEF C
<1>4. ASSUME n > 0 PROVE Goes(K, c, o, {}, CoreServing(c, k, n), {}, CoreServing(c, k, n + 1))
  <2> DEFINE C == CoreServing(c, k, n)
             S == RandomAt(c, k, n + 1)
  <2>1. \A x \in C : x \in Cores /\ x.now \in RandomAt(c, k, n) /\ x.weights = x.actor /\ ~x.asleep
    BY DEF CoreServing
  <2>2. \A x \in C : Generates(c, k, x, n + 1)
    BY <1>2, <1>4, <2>1 DEF Generates, RandomAt
  <2>3. Sampled(C, S) \subseteq CoreServing(c, k, n + 1)
    BY <2>1 DEF Sampled, CoreServing
  <2> HIDE DEF C, o
  <2>4. Goes(K, c, o, {}, C, {}, Sampled(C, S))
    BY <2>1, <2>2, EngineGenerate DEF o
  <2> HIDE DEF S
  <2>5. Goes(K, c, o, {}, C, {}, CoreServing(c, k, n + 1))
    BY <2>3, <2>4, GoesMore
  <2> QED
    BY <2>5 DEF C
<1> QED
  BY <1>1, <1>3, <1>4

\* An asynchronous engine falls asleep and wakes up.
LEMMA EngineSleep ==
  ASSUME NEW K, NEW c, NEW k, NEW l, NEW b, NEW g, Engines(K, c, k, l, b, g), NEW n
  PROVE  /\ Goes(K, c, Exit \o <<<<"asleep", "">>>>, {}, Gone(RandomAt(c, k, n)), {}, CoreAsleep(c, k, n))
         /\ Goes(K, c, Enter \o <<<<"awake", "">>>>, {}, CoreAsleep(c, k, n), {}, CoreServing(c, k, n))
<1> DEFINE R == RandomAt(c, k, n)
           s == <<"asleep", "">>
           w == <<"awake", "">>
<1>1. s \in Ops /\ w \in Ops /\ Resting(s) /\ Resting(w) /\ s[1] = "asleep" /\ w[1] = "awake"
  BY CoreOps DEF BareNames
<1>2. ASSUME NEW x \in Cores, NEW z \in Cores
      PROVE  /\ CoreMove(k, s, x, z) => z.asleep /\ z.cache = x.cache /\ z.gen = x.gen
             /\ CoreMove(k, w, x, z) => ~z.asleep /\ z.weights = x.weights /\ z.actor = x.actor /\ z.now = x.now
  <2>1. CoreMove(k, s, x, z) => z.asleep /\ z.cache = x.cache /\ z.gen = x.gen
    BY CoreMoves, Zenon
  <2>2. CoreMove(k, w, x, z) => ~z.asleep /\ z.weights = x.weights /\ z.actor = x.actor /\ z.now = x.now
    BY CoreMoves, Zenon
  <2> QED
    BY <2>1, <2>2
<1>3. /\ \A x \in Cold(Kept(R)) \cap Cores : \A z \in Cores : CoreMove(k, s, x, z) => z \in CoreAsleep(c, k, n)
      /\ \A x \in Ready(R) \cap Cores : \A z \in Cores : CoreMove(k, w, x, z) => z \in CoreServing(c, k, n)
  BY <1>2 DEF Cold, Kept, Ready, CoreAsleep, CoreServing
<1>4. CoreAsleep(c, k, n) \subseteq Cold(Kept(R))
  BY DEF CoreAsleep, Cold, Kept
<1> HIDE DEF s, w, R
<1>5. Goes(K, c, <<s>>, {}, Cold(Kept(R)), {}, CoreAsleep(c, k, n))
  BY <1>1, <1>3, ColdRoom, CoreOne
<1>6. Goes(K, c, <<w>>, {}, Ready(R), {}, CoreServing(c, k, n))
  BY <1>1, <1>3, ColdRoom, CoreOne
<1>7. Goes(K, c, Exit, {}, Gone(R), {}, Cold(Kept(R)))
  BY EngineExit
<1>8. Goes(K, c, Enter, {}, CoreAsleep(c, k, n), {}, Ready(R))
  <2>1. Goes(K, c, Enter, {"actor"}, Cold(Kept(R)), {}, Ready(R))
    BY EngineEnter
  <2>2. {} \subseteq {"actor"} /\ {} \subseteq {} /\ Ready(R) \subseteq Ready(R)
    OBVIOUS
  <2> QED
    BY <1>4, <2>1, <2>2, GoesMore
<1>9. Goes(K, c, Exit \o <<s>>, {}, Gone(R), {}, CoreAsleep(c, k, n))
  BY <1>5, <1>7, GoesOn
<1>10. Goes(K, c, Enter \o <<w>>, {}, CoreAsleep(c, k, n), {}, CoreServing(c, k, n))
  BY <1>6, <1>8, GoesOn
<1> QED
  BY <1>9, <1>10 DEF s, w, R

\* The models and engines come up.
LEMMA EngineInits ==
  ASSUME NEW K, NEW c, NEW k, NEW l, NEW b, NEW g, Engines(K, c, k, l, b, g), c.mode = job.mode
  PROVE  /\ c.mode = "sync" => Goes(K, c, InitActor, {"actor"}, CoreRaw, {}, CoreSync(c, k, 0))
         /\ c.mode = "async" => Goes(K, c, InitActor, {}, CoreRaw, {}, CoreNew)
         /\ c.mode = "async" => Goes(K, c, InitEngine, {}, CoreNew, {}, CoreUp(c, k))
<1> DEFINE a == {"actor"}
           u == <<<<"build", "actor">>>>
           e == <<"build_engine", "">>
           m == <<"build_manager", "">>
           t == <<"start_engine", "">>
<1>1. /\ e \in Ops /\ m \in Ops /\ t \in Ops /\ Resting(e) /\ Resting(m) /\ Resting(t)
      /\ e[1] = "build_engine" /\ m[1] = "build_manager" /\ t[1] = "start_engine"
  BY CoreOps DEF BareNames
<1>2. "actor" \in Parts /\ a \cup {"actor"} = a /\ a \ {"actor"} = {}
      /\ "actor_optim" \in Parts /\ {} \ {"actor_optim"} = {}
  BY DEF Parts
<1>3. IsEngine(K, c, k, l, b, g) /\ c.offload = job.offload
  BY DEF Engines
<1>4. \A A : Roomy(c, A, CoreRaw, g)
  BY DEF Roomy, CoreRaw
<1>5. Goes(K, c, u, a, CoreRaw, a, CoreRaw)
  <2>1. Does(K, u, Spot(c, a, CoreRaw), Spot(c, a \cup {"actor"}, CoreRaw))
    BY <1>2, <1>3, <1>4, EngineLoads
  <2> QED
    BY <1>2, <2>1 DEF Goes
<1>6. Goes(K, c, Offload("actor"), a, CoreRaw, {}, CoreRaw)
  <2>1. Does(K, Offload("actor"), Spot(c, a, CoreRaw), Spot(c, a \ {"actor"}, CoreRaw))
    BY <1>2, <1>3, <1>4, EngineParts
  <2> QED
    BY <1>2, <2>1 DEF Goes
<1>13. Goes(K, c, Offload("actor_optim"), {}, CoreRaw, {}, CoreRaw)
  <2>1. Does(K, Offload("actor_optim"), Spot(c, {}, CoreRaw), Spot(c, {} \ {"actor_optim"}, CoreRaw))
    BY <1>2, <1>3, <1>4, EngineParts
  <2> QED
    BY <1>2, <2>1 DEF Goes
<1> HIDE DEF u
<1>7. Goes(K, c, u \o Offload("actor") \o Offload("actor_optim"), a, CoreRaw, {}, CoreRaw)
  <2>1. Goes(K, c, u \o Offload("actor"), a, CoreRaw, {}, CoreRaw)
    BY <1>5, <1>6, GoesOn
  <2> QED
    BY <1>13, <2>1, GoesOn
<1>8. ASSUME NEW x \in Cores, NEW z \in Cores
      PROVE  /\ CoreMove(k, e, x, z) => ~z.cache
             /\ CoreMove(k, m, x, z) =>
                  /\ z.cache = x.cache /\ z.asleep = x.asleep /\ z.weights = x.weights
                  /\ z.gen = Seeded(<<"manager", k>>)
             /\ CoreMove(k, t, x, z) =>
                  z.asleep = x.asleep /\ z.weights = x.weights /\ z.now = Seeded(<<"server", k>>)
  <2>1. CoreMove(k, e, x, z) => ~z.cache
    BY CoreMoves, Zenon
  <2>2. CoreMove(k, m, x, z) =>
          /\ z.cache = x.cache /\ z.asleep = x.asleep /\ z.weights = x.weights
          /\ z.gen = Seeded(<<"manager", k>>)
    BY CoreMoves, Zenon
  <2>3. CoreMove(k, t, x, z) =>
          z.asleep = x.asleep /\ z.weights = x.weights /\ z.now = Seeded(<<"server", k>>)
    BY CoreMoves, Zenon
  <2> QED
    BY <2>1, <2>2, <2>3
<1>9. /\ \A x \in CoreRaw \cap Cores : \A z \in Cores : CoreMove(k, e, x, z) => z \in Cold(Cores)
      /\ c.mode = "sync" =>
           \A x \in Cold(Cores) \cap Cores : \A z \in Cores : CoreMove(k, m, x, z) => z \in CoreSync(c, k, 0)
      /\ \A x \in CoreRaw \cap Cores : \A z \in Cores : CoreMove(k, m, x, z) => z \in CoreNew
      /\ c.mode = "async" =>
           \A x \in CoreNew \cap Cores : \A z \in Cores : CoreMove(k, t, x, z) => z \in CoreUp(c, k)
  <2>1. c.mode = "sync" => \A z \in Cores : z.gen = Seeded(<<"manager", k>>) => z.gen \in RandomAt(c, k, 0)
    BY DEF Seeded, RandomAt, Drawn, Cores
  <2>2. c.mode = "async" => \A z \in Cores : z.now = Seeded(<<"server", k>>) => z.now \in RandomAt(c, k, 0)
    BY DEF Seeded, RandomAt, Drawn, Cores
  <2> HIDE DEF e, m, t
  <2>3. \A x \in CoreRaw \cap Cores : \A z \in Cores : CoreMove(k, e, x, z) => z \in Cold(Cores)
    BY <1>8 DEF Cold
  <2>4. c.mode = "sync" =>
           \A x \in Cold(Cores) \cap Cores : \A z \in Cores : CoreMove(k, m, x, z) => z \in CoreSync(c, k, 0)
    BY <1>8, <2>1 DEF Cold, CoreSync
  <2>5. \A x \in CoreRaw \cap Cores : \A z \in Cores : CoreMove(k, m, x, z) => z \in CoreNew
    BY <1>8 DEF CoreRaw, CoreNew
  <2>6. c.mode = "async" =>
           \A x \in CoreNew \cap Cores : \A z \in Cores : CoreMove(k, t, x, z) => z \in CoreUp(c, k)
    BY <1>8, <2>2 DEF CoreNew, CoreUp
  <2> QED
    BY <2>3, <2>4, <2>5, <2>6
<1> HIDE DEF e, m, t
<1>10. ASSUME c.mode = "sync" PROVE Goes(K, c, InitActor, a, CoreRaw, {}, CoreSync(c, k, 0))
  <2>1. Goes(K, c, <<e>>, {}, CoreRaw, {}, Cold(Cores))
    BY <1>1, <1>4, <1>9, CoreOne
  <2>2. Goes(K, c, <<m>>, {}, Cold(Cores), {}, CoreSync(c, k, 0))
    BY <1>1, <1>9, <1>10, ColdRoom, CoreOne
  <2>3. Goes(K, c, u \o Offload("actor") \o Offload("actor_optim") \o <<e>>, a, CoreRaw, {}, Cold(Cores))
    BY <1>7, <2>1, GoesOn
  <2>4. Goes(K, c, u \o Offload("actor") \o Offload("actor_optim") \o <<e>> \o <<m>>, a, CoreRaw, {}, CoreSync(c, k, 0))
    BY <2>2, <2>3, GoesOn
  <2> QED
    BY <1>10, <2>4 DEF InitActor, u, e, m
<1>11. ASSUME c.mode = "async" PROVE Goes(K, c, InitActor, {}, CoreRaw, {}, CoreNew)
  <2>1. Goes(K, c, <<m>>, {}, CoreRaw, {}, CoreNew)
    BY <1>1, <1>4, <1>9, CoreOne
  <2>2. Goes(K, c, <<>>, {}, CoreRaw, {}, CoreRaw)
    BY EngineNothing DEF Goes
  <2>3. Goes(K, c, u \o Offload("actor") \o Offload("actor_optim") \o <<>>, a, CoreRaw, {}, CoreRaw)
    BY <1>7, <2>2, GoesOn
  <2>4. Goes(K, c, u \o Offload("actor") \o Offload("actor_optim") \o <<>> \o <<m>>, a, CoreRaw, {}, CoreNew)
    BY <2>1, <2>3, GoesOn
  <2>5. InitActor = u \o Offload("actor") \o Offload("actor_optim") \o <<>> \o <<m>>
    BY <1>11 DEF InitActor, u, m
  <2>6. {} \subseteq a /\ {} \subseteq {} /\ CoreRaw \subseteq CoreRaw /\ CoreNew \subseteq CoreNew
    OBVIOUS
  <2>7. Goes(K, c, InitActor, a, CoreRaw, {}, CoreNew)
    BY <2>4, <2>5
  <2> HIDE DEF a
  <2> QED
    BY <2>6, <2>7, GoesMore
<1>12. ASSUME c.mode = "async" PROVE Goes(K, c, InitEngine, {}, CoreNew, {}, CoreUp(c, k))
  <2>1. Goes(K, c, <<t>>, {}, CoreNew, {}, CoreUp(c, k))
    BY <1>1, <1>9, <1>12, ColdRoom, CoreOne
  <2> QED
    BY <2>1 DEF InitEngine, t
<1> QED
  BY <1>10, <1>11, <1>12

-----------------------------------------------------------------------------
\* The order of the calls

\* Of a call, and whether it is early or late.
LEMMA CallKinds ==
  /\ \A call \in {"init_critic", "init_actor", "init_engine", "load_actor", "load_critic"} : Early(call) /\ ~Later(call)
  /\ \A call \in Gen : ~Early(call) /\ ~Later(call) /\ Rank(call) # 0
  /\ ~Early("wake_up") /\ ~Later("wake_up") /\ ~Early("sleep") /\ Later("sleep")
  /\ \A call \in {"old_log_prob", "clean_log_prob", "analyze", "ref", "values", "update_critic", "update_actor",
                  "save_actor", "save_critic", "track"} : ~Early(call) /\ Later(call)
<1>1. /\ Rank("init_critic") = 1 /\ Rank("init_actor") = 2 /\ Rank("init_engine") = 3 /\ Rank("load_actor") = 4
      /\ Rank("load_critic") = 5 /\ Rank("generate") = 6 /\ Rank("resample") = 7 /\ Rank("old_log_prob") = 8
      /\ Rank("clean_log_prob") = 9 /\ Rank("ref") = 10 /\ Rank("values") = 11 /\ Rank("update_critic") = 12
      /\ Rank("update_actor") = 13 /\ Rank("validate") = 14 /\ Rank("analyze") = 15 /\ Rank("save_actor") = 16
      /\ Rank("save_critic") = 17 /\ Rank("track") = 18 /\ Rank("wake_up") = 0 /\ Rank("sleep") = 0
  BY DEF Rank
<1>2. \A call \in {"init_critic", "init_actor", "init_engine", "load_actor", "load_critic"} : Early(call) /\ ~Later(call)
  BY <1>1 DEF Early, Later
<1>3. \A call \in Gen : ~Early(call) /\ ~Later(call) /\ Rank(call) # 0
  BY <1>1 DEF Gen, Early, Later
<1>4. ~Early("wake_up") /\ ~Later("wake_up") /\ ~Early("sleep") /\ Later("sleep")
  BY <1>1 DEF Early, Later
<1>5. \A call \in {"old_log_prob", "clean_log_prob", "analyze", "ref", "values", "update_critic", "update_actor",
                  "save_actor", "save_critic", "track"} : ~Early(call) /\ Later(call)
  BY <1>1 DEF Early, Later
<1> QED
  BY <1>2, <1>3, <1>4, <1>5

\* The first of the calls, in their order.
LEMMA OrderFirst ==
  ASSUME NEW mode, NEW l, NEW n \in Nat, CallsOrder(mode, l, n), Between(l, 1, 19), Len(l) > 0
  PROVE  /\ ~Early(l[1]) => \A x : Early(x) => ~Has(l, x)
         /\ Later(l[1]) => n > 0
         /\ Early(l[1]) => n = 0
         /\ l[1] = "init_engine" => ~Has(l, "init_actor")
<1>1. l \in Seq(CallNames) /\ Len(l) \in Nat /\ 1 \in 1..Len(l)
  <2>1. l \in Seq(CallNames)
    BY DEF Between
  <2> QED
    BY <2>1
<1>2. ~Early(l[1]) => \A x : Early(x) => ~Has(l, x)
  <2> SUFFICES ASSUME ~Early(l[1]), NEW i \in 1..Len(l), Early(l[i]) PROVE FALSE
    BY DEF Has
  <2>1. i # 1
    OBVIOUS
  <2>2. 1 < i
    BY <2>1, <1>1
  <2> QED
    BY <1>1, <2>2 DEF CallsOrder, EarlyFirst
<1>3. Later(l[1]) => n > 0
  <2> SUFFICES ASSUME Later(l[1]), n = 0 PROVE FALSE
    OBVIOUS
  <2>1. Served(l)
    BY DEF CallsOrder
  <2>2. PICK j \in 1..Len(l) : j < 1
    BY <1>1, <2>1 DEF Served
  <2> QED
    BY <1>1, <2>2
<1>4. Early(l[1]) => n = 0
  BY <1>1 DEF CallsOrder
<1>5. l[1] = "init_engine" => ~Has(l, "init_actor")
  <2> SUFFICES ASSUME l[1] = "init_engine", NEW i \in 1..Len(l), l[i] = "init_actor" PROVE FALSE
    BY DEF Has
  <2>1. Rank(l[1]) = 3 /\ Rank(l[i]) = 2
    BY DEF Rank
  <2>2. 1 < i
    BY <2>1, <1>1
  <2>3. Rank(l[1]) < Rank(l[i])
    BY <1>1, <2>1, <2>2 DEF Between
  <2> QED
    BY <2>1, <2>3
<1> QED
  BY <1>2, <1>3, <1>4, <1>5

\* The calls after the first.
LEMMA OrderTail ==
  ASSUME NEW mode, NEW l, NEW n \in Nat, CallsOrder(mode, l, n), Between(l, 1, 19), Len(l) > 0, NEW g \in Nat,
         g = IF l[1] \in Gen THEN n + 1 ELSE n
  PROVE  CallsOrder(mode, Tail(l), g)
<1> DEFINE t == Tail(l)
<1>1. /\ Len(l) \in Nat /\ Len(t) = Len(l) - 1 /\ \A i \in 1..Len(t) : t[i] = l[i + 1] /\ i + 1 \in 1..Len(l)
      /\ 1 \in 1..Len(l)
      /\ \A x : Has(t, x) => Has(l, x)
      /\ \A x : Has(l, x) /\ x # l[1] => Has(t, x)
  <2>1. l \in Seq(CallNames)
    BY DEF Between
  <2>2. Len(l) \in Nat
    BY <2>1
  <2>3. Len(t) = Len(l) - 1 /\ \A i \in 1..Len(t) : t[i] = l[i + 1]
    BY BetweenTail
  <2>4. \A x : Has(t, x) => Has(l, x)
    BY BetweenTail
  <2>5. \A x : Has(l, x) /\ x # l[1] => Has(t, x)
    BY BetweenTail
  <2> QED
    BY <2>2, <2>3, <2>4, <2>5
<1> HIDE DEF t
<1>2. EarlyFirst(t)
  <2> SUFFICES ASSUME NEW i \in 1..Len(t), NEW j \in 1..Len(t), i < j, Early(t[j]) PROVE Early(t[i])
    BY DEF EarlyFirst
  <2>1. i + 1 < j + 1 /\ Early(l[j + 1])
    BY <1>1
  <2>2. Early(l[i + 1])
    BY <1>1, <2>1 DEF CallsOrder, EarlyFirst
  <2> QED
    BY <1>1, <2>2
<1>3. g = 0 => Served(t)
  <2> SUFFICES ASSUME g = 0, NEW i \in 1..Len(t), Later(t[i])
               PROVE  \E j \in 1..Len(t) : j < i /\ t[j] \in Gen
    BY DEF Served
  <2>1. l[1] \notin Gen /\ n = 0
    OBVIOUS
  <2>2. Served(l) /\ Later(l[i + 1])
    BY <1>1, <2>1 DEF CallsOrder
  <2>3. PICK j \in 1..Len(l) : j < i + 1 /\ l[j] \in Gen
    BY <1>1, <2>2 DEF Served
  <2>4. j # 1 /\ j - 1 \in 1..Len(t) /\ j - 1 < i /\ (j - 1) + 1 = j
    BY <1>1, <2>1, <2>3
  <2>5. t[j - 1] = l[j]
    BY <1>1, <2>4
  <2> QED
    BY <2>3, <2>4, <2>5
<1>4. (\E i \in 1..Len(t) : Early(t[i])) => g = 0
  <2> SUFFICES ASSUME NEW i \in 1..Len(t), Early(t[i]) PROVE g = 0
    OBVIOUS
  <2>1. Early(l[i + 1]) /\ 1 < i + 1
    BY <1>1
  <2>2. n = 0
    BY <1>1, <2>1 DEF CallsOrder
  <2>3. Early(l[1])
    BY <1>1, <2>1 DEF CallsOrder, EarlyFirst
  <2>4. l[1] \notin Gen
    BY <2>3, CallKinds
  <2> QED
    BY <2>2, <2>4
<1>5. ASSUME mode = "async"
      PROVE  Brackets(t) /\ ~Has(t, "analyze") /\ (Has(t, "init_actor") => Has(t, "init_engine"))
  <2>1. Brackets(l) /\ ~Has(l, "analyze") /\ (Has(l, "init_actor") => Has(l, "init_engine"))
    BY <1>5 DEF CallsOrder
  <2>2. Has(t, "init_actor") => Has(t, "init_engine")
    <3>1. l[1] = "init_engine" => ~Has(l, "init_actor")
      BY OrderFirst
    <3> QED
      BY <1>1, <2>1, <3>1
  <2>3. ASSUME NEW i \in 1..Len(t), i + 1 \in 1..Len(t)
        PROVE  (t[i] = "wake_up" <=> t[i + 1] \in Gen) /\ (t[i] \in Gen <=> t[i + 1] = "sleep")
    <3>1. i + 1 \in 1..Len(l) /\ (i + 1) + 1 \in 1..Len(l) /\ t[i] = l[i + 1] /\ t[i + 1] = l[(i + 1) + 1]
      BY <1>1, <2>3
    <3> QED
      BY <2>1, <3>1 DEF Brackets
  <2>4. ASSUME NEW i \in 1..Len(t), i = Len(t) PROVE t[i] \notin Gen \cup {"wake_up"}
    <3>1. i + 1 \in 1..Len(l) /\ i + 1 = Len(l) /\ t[i] = l[i + 1]
      BY <1>1, <2>4
    <3> QED
      BY <2>1, <3>1 DEF Brackets
  <2>5. Brackets(t)
    BY <2>3, <2>4 DEF Brackets
  <2> QED
    BY <1>1, <2>1, <2>2, <2>5
<1>6. mode = "sync" => ~Has(t, "wake_up") /\ ~Has(t, "sleep") /\ ~Has(t, "init_engine")
  BY <1>1 DEF CallsOrder
<1> QED
  BY <1>2, <1>3, <1>4, <1>5, <1>6 DEF CallsOrder, t

\* The brackets around the first of the calls.
LEMMA BracketFirst ==
  ASSUME NEW l, Brackets(l), l \in Seq(CallNames), Len(l) > 0
  PROVE  /\ l[1] \in Gen => Len(Tail(l)) > 0 /\ Tail(l)[1] = "sleep"
         /\ l[1] = "wake_up" => Len(Tail(l)) > 0 /\ Tail(l)[1] \in Gen
         /\ l[1] \notin Gen \cup {"wake_up"} => Len(Tail(l)) = 0 \/ Tail(l)[1] \notin Gen \cup {"sleep"}
<1>1. Len(l) \in Nat /\ Len(Tail(l)) = Len(l) - 1 /\ (Len(l) > 1 => Tail(l)[1] = l[2])
  OBVIOUS
<1>2. CASE Len(l) = 1
  <2>1. 1 \in 1..Len(l) /\ 1 = Len(l) /\ Len(Tail(l)) = 0
    BY <1>1, <1>2
  <2>2. l[1] \notin Gen \cup {"wake_up"}
    BY <2>1 DEF Brackets
  <2> QED
    BY <2>1, <2>2
<1>3. CASE Len(l) > 1
  <2>1. 1 \in 1..Len(l) /\ 1 + 1 \in 1..Len(l) /\ 1 + 1 = 2 /\ Len(Tail(l)) > 0
    BY <1>1, <1>3
  <2>2. (l[1] = "wake_up" <=> l[2] \in Gen) /\ (l[1] \in Gen <=> l[2] = "sleep")
    BY <2>1 DEF Brackets
  <2> QED
    BY <1>1, <1>3, <2>1, <2>2
<1>4. Len(l) = 1 \/ Len(l) > 1
  <2>1. \A m \in Nat : m > 0 => m = 1 \/ m > 1
    OBVIOUS
  <2>2. Len(l) \in Nat /\ Len(l) > 0
    BY <1>1
  <2> QED
    BY <2>1, <2>2, Zenon
<1> QED
  BY <1>2, <1>3, <1>4

-----------------------------------------------------------------------------
\* The stages between the calls

\* The calls that leave an engine in its stage.
QuietCalls ==
  {"init_critic", "load_actor", "load_critic", "old_log_prob", "clean_log_prob", "analyze", "ref", "values",
   "update_critic", "update_actor", "save_actor", "save_critic", "track"}
Around(c) == IF c.mode = "sync" THEN {"actor"} ELSE {}

\* What the engines are in has room for all the calls that load parts to the GPU.
LEMMA CoresAre ==
  ASSUME NEW c, NEW k, NEW n
  PROVE  /\ Loose(CoreRaw) /\ Loose(CoreSync(c, k, n)) /\ Loose(CoreNew) /\ Loose(CoreAsleep(c, k, n))
         /\ ~c.known => Loose(CoreUp(c, k))
         /\ \A x \in CoreRaw \cup CoreSync(c, k, n) \cup CoreAsleep(c, k, n) : ~x.cache
<1>1. Loose(CoreRaw) /\ Loose(CoreSync(c, k, n)) /\ Loose(CoreNew) /\ Loose(CoreAsleep(c, k, n))
  BY DEF Loose, CoreRaw, CoreSync, CoreNew, CoreAsleep
<1>2. ~c.known => Loose(CoreUp(c, k))
  BY DEF Loose, CoreUp, RandomAt, Cores
<1>3. \A x \in CoreRaw \cup CoreSync(c, k, n) \cup CoreAsleep(c, k, n) : ~x.cache
  BY DEF CoreRaw, CoreSync, CoreAsleep
<1> QED
  BY <1>1, <1>2, <1>3

\* A quiet call.
LEMMA StageQuiet ==
  ASSUME NEW c, c.mode \in {"sync", "async"}, NEW k, NEW l, NEW n \in Nat, CallsOrder(c.mode, l, n),
         Between(l, 1, 19), Len(l) > 0, l[1] \in QuietCalls
  PROVE  /\ Core(c, k, Tail(l), n) = Core(c, k, l, n)
         /\ Ample(c, Core(c, k, l, n), n)
         /\ l[1] # "init_critic" /\ (l[1] \in Loads /\ c.mode = "async" => ~c.known) => Loose(Core(c, k, l, n))
<1> DEFINE t == Tail(l)
           call == l[1]
<1>1. /\ \A x : Has(t, x) => Has(l, x)
      /\ \A x : Has(l, x) /\ x # call => Has(t, x)
      /\ l \in Seq(CallNames)
  <2>1. \A x : Has(t, x) => Has(l, x)
    BY BetweenTail
  <2>2. \A x : Has(l, x) /\ x # call => Has(t, x)
    BY BetweenTail
  <2> QED
    BY <2>1, <2>2 DEF Between
<1>2. /\ call \notin {"init_actor", "init_engine", "sleep", "wake_up"} \cup Gen
  BY DEF QuietCalls, Gen
<1>3. c.mode = "async" => Len(t) = 0 \/ t[1] \notin Gen \cup {"sleep"}
  BY <1>1, <1>2, BracketFirst DEF CallsOrder
<1>4. /\ call \in {"init_critic"} \cup Loads \/ Later(call)
      /\ Later(call) => n > 0
  <2>1. call \in {"init_critic"} \cup Loads \/ Later(call)
    BY CallKinds DEF QuietCalls, Loads
  <2>2. Later(call) => n > 0
    BY OrderFirst
  <2> QED
    BY <2>1, <2>2
<1> HIDE DEF t
<1>5. Core(c, k, t, n) = Core(c, k, l, n)
  <2>1. (Has(t, "init_actor") <=> Has(l, "init_actor")) /\ (Has(t, "init_engine") <=> Has(l, "init_engine"))
    BY <1>1, <1>2
  <2> QED
    BY <1>2, <1>3, <2>1 DEF Core
<1>6. \/ Core(c, k, l, n) \in {CoreRaw, CoreSync(c, k, n), CoreAsleep(c, k, n)}
      \/ Core(c, k, l, n) \in {CoreNew, CoreUp(c, k)} /\ n = 0 /\ c.mode = "async"
  BY <1>2 DEF Core
<1>7. Ample(c, Core(c, k, l, n), n)
  <2>1. \A x \in CoreRaw \cup CoreSync(c, k, n) \cup CoreAsleep(c, k, n) : ~x.cache
    BY CoresAre
  <2>2. CASE Core(c, k, l, n) \in {CoreRaw, CoreSync(c, k, n), CoreAsleep(c, k, n)}
    BY <2>1, <2>2 DEF Ample
  <2>3. CASE n = 0 /\ c.mode = "async"
    BY <2>3 DEF Ample
  <2> QED
    BY <1>6, <2>2, <2>3
<1>8. ASSUME call # "init_critic", call \in Loads /\ c.mode = "async" => ~c.known
      PROVE  Loose(Core(c, k, l, n))
  <2>1. Core(c, k, l, n) # CoreUp(c, k) \/ ~c.known \/ Core(c, k, l, n) \in {CoreRaw, CoreSync(c, k, n), CoreAsleep(c, k, n)}
    BY <1>4, <1>6, <1>8
  <2>2. /\ Loose(CoreRaw) /\ Loose(CoreSync(c, k, n)) /\ Loose(CoreNew) /\ Loose(CoreAsleep(c, k, n))
        /\ ~c.known => Loose(CoreUp(c, k))
    BY CoresAre
  <2> QED
    BY <1>6, <2>1, <2>2
<1> QED
  BY <1>5, <1>7, <1>8 DEF t

\* The quiet calls keep an engine in its stage.
LEMMA EngineQuiet ==
  ASSUME NEW c, c.mode = job.mode, c.offload = job.offload, c.tags = job.tags, c.mode \in {"sync", "async"},
         NEW k, NEW l, Between(l, 1, 19), Len(l) > 0, NEW n \in Nat, CallsOrder(c.mode, l, n),
         l[1] \in QuietCalls, l[1] # "track", l[1] \in Loads /\ c.mode = "async" => ~c.known,
         step \in Nat, tracked \in Nat, FindsAsked(l[1]), NEW w, NEW K, IsEngine(K, c, k, l, n, n)
  PROVE  Does(K, Method(l[1], w), Stage(c, k, l, n), Stage(c, k, l, n))
<1> DEFINE call == l[1]
           what == [for |-> call, step |-> step]
           C == Core(c, k, l, n)
           A == Around(c)
           u == NoiseOf(call)
<1>1. /\ Stage(c, k, l, n) = Spot(c, A, C)
      /\ call \in CallNames /\ "actor" \in Roles /\ "critic" \in Roles /\ "critic" \in Parts
  <2>1. call \in CallNames
    BY DEF QuietCalls, CallNames
  <2> QED
    BY <2>1 DEF Stage, Around, Roles, Parts
<1>2. what \in Whats /\ what.for = call
  BY <1>1 DEF Whats
<1>3. /\ Ample(c, C, n)
      /\ call # "init_critic" => Loose(C)
  BY StageQuiet
<1>4. u \in Noises \/ call \notin {"old_log_prob", "clean_log_prob", "update_actor"}
  BY DEF FindsAsked
<1> HIDE DEF C, what, A, u, call
<1>5. SUFFICES Moved(K, c, C, Method(call, w), A, A)
  BY <1>1 DEF Moved, call
<1>6. call # "init_critic" => Quietly(K, c, k, l, n, n, C)
  BY <1>3 DEF Quietly
<1>7. CASE call = "init_critic"
  <2> DEFINE B == A \cup {"critic"}
             q == <<<<"build", "critic">>>>
  <2>1. \A X : Roomy(c, X, C, n)
    BY <1>3 DEF Ample, Roomy
  <2>2. Moved(K, c, C, q, A, B)
    BY <1>1, <2>1, EngineLoads DEF Moved
  <2>3. Moved(K, c, C, Offload("critic"), B, B \ {"critic"}) /\ B \ {"critic"} \subseteq A
    BY <1>1, <2>1, EngineParts DEF Moved
  <2> HIDE DEF B, q
  <2>4. Moved(K, c, C, Offload("critic"), B, A)
    BY <2>3, MovedMore
  <2>7. Moved(K, c, C, Offload("critic_optim"), A, A \ {"critic_optim"}) /\ A \ {"critic_optim"} \subseteq A
    <3>1. "critic_optim" \in Parts
      BY DEF Parts
    <3> QED
      BY <1>1, <2>1, <3>1, EngineParts DEF Moved
  <2>8. Moved(K, c, C, Offload("critic_optim"), A, A)
    BY <2>7, MovedMore
  <2>5. Moved(K, c, C, q \o Offload("critic") \o Offload("critic_optim"), A, A)
    BY <2>2, <2>4, <2>8, MovedOn
  <2>6. Method(call, w) = q \o Offload("critic") \o Offload("critic_optim")
    BY <1>7 DEF Method, InitCritic, q
  <2> QED
    BY <2>5, <2>6
<1>8. CASE call \in {"old_log_prob", "clean_log_prob"}
  <2>1. Method(call, w) = ComputeLogProb(u, what)
    BY <1>8 DEF Method, what, u
  <2>2. Quietly(K, c, k, l, n, n, C) /\ u \in Noises /\ what.for # "analyze"
    BY <1>2, <1>4, <1>6, <1>8
  <2>3. Moved(K, c, C, ComputeLogProb(u, what), A, A)
    BY <1>2, <2>2, QuietLogProb
  <2> QED
    BY <2>1, <2>3
<1>9. CASE call = "update_actor"
  <2>1. Method(call, w) = UpdateActor(u, what)
    BY <1>9 DEF Method, what, u
  <2>2. Quietly(K, c, k, l, n, n, C) /\ u \in Noises /\ what.for # "analyze"
    BY <1>2, <1>4, <1>6, <1>9
  <2>3. Moved(K, c, C, UpdateActor(u, what), A, A)
    BY <1>2, <2>2, QuietUpdates
  <2> QED
    BY <2>1, <2>3
<1>10. CASE call \in {"ref", "values", "update_critic"}
  <2>1. /\ call = "ref" => Method(call, w) = ComputeRefLogProb(what)
        /\ call = "values" => Method(call, w) = ComputeValues(what)
        /\ call = "update_critic" => Method(call, w) = UpdateCritic(what)
    BY <1>10 DEF Method, what
  <2>2. Quietly(K, c, k, l, n, n, C) /\ what.for # "analyze" /\ {} \in Noises
    BY <1>2, <1>6, <1>10 DEF Noises
  <2>3. /\ Moved(K, c, C, UpdateCritic(what), A, A) /\ Moved(K, c, C, ComputeValues(what), A, A)
        /\ Moved(K, c, C, ComputeRefLogProb(what), A, A)
    BY <1>2, <2>2, QuietUpdates
  <2> QED
    BY <1>10, <2>1, <2>3
<1>11. CASE call \in {"save_actor", "save_critic"}
  <2>1. /\ call = "save_actor" => Method(call, w) = SaveCheckpoint("actor", step)
        /\ call = "save_critic" => Method(call, w) = SaveCheckpoint("critic", step)
    BY <1>11 DEF Method
  <2>2. Quietly(K, c, k, l, n, n, C)
    BY <1>6, <1>11
  <2>3. Moved(K, c, C, SaveCheckpoint("actor", step), A, A)
    BY <1>1, <2>2, QuietSave
  <2>4. Moved(K, c, C, SaveCheckpoint("critic", step), A, A)
    BY <1>1, <2>2, QuietSave
  <2> QED
    BY <1>11, <2>1, <2>3, <2>4
<1>12. CASE call \in Loads
  <2>1. /\ call = "load_actor" => Method(call, w) = LoadCheckpoint("actor", tracked)
        /\ call = "load_critic" => Method(call, w) = LoadCheckpoint("critic", tracked)
    BY <1>12 DEF Method, Loads
  <2>2. Quietly(K, c, k, l, n, n, C) /\ l[1] \in Loads
    BY <1>6, <1>12 DEF Loads, call
  <2>3. Moved(K, c, C, LoadCheckpoint("actor", tracked), A, A)
    BY <1>1, <2>2, QuietLoad
  <2>4. Moved(K, c, C, LoadCheckpoint("critic", tracked), A, A)
    BY <1>1, <2>2, QuietLoad
  <2> QED
    BY <1>12, <2>1, <2>3, <2>4 DEF Loads
<1>13. CASE call = "analyze"
  <2>1. Method(call, w) = AnalyzeGenerationPolicy(what)
    BY <1>13 DEF Method, what
  <2>2. c.mode = "sync"
    <3>1. Has(l, "analyze")
      <4>1. l \in Seq(CallNames)
        BY DEF Between
      <4>2. 1 \in 1..Len(l)
        BY <4>1
      <4> QED
        BY <1>13, <4>2 DEF Has, call
    <3> QED
      BY <3>1 DEF CallsOrder
  <2>3. A = {"actor"} /\ Spot(c, A \cup {"actor"}, C) \subseteq Stage(c, k, l, n)
    <3>1. A = {"actor"}
      BY <2>2 DEF A, Around
    <3>2. A \cup {"actor"} = A
      BY <3>1
    <3>3. Spot(c, A \cup {"actor"}, C) \subseteq Stage(c, k, l, n)
      BY <1>1, <3>2
    <3> QED
      BY <3>1, <3>3
  <2>4. Quietly(K, c, k, l, n, n, C)
    BY <1>6, <1>13
  <2>5. Moved(K, c, C, AnalyzeGenerationPolicy(what), A, A)
    BY <1>2, <2>2, <2>3, <2>4, QuietAnalyze
  <2> QED
    BY <2>1, <2>5
<1> QED
  BY <1>7, <1>8, <1>9, <1>10, <1>11, <1>12, <1>13 DEF QuietCalls, Loads, call

\* The other calls, of synchronous engines.
LEMMA EngineSync ==
  ASSUME NEW c, c.mode = job.mode, c.offload = job.offload, c.tags = job.tags, c.mode = "sync",
         NEW k, NEW l, Between(l, 1, 19), Len(l) > 0, NEW n \in Nat, CallsOrder(c.mode, l, n),
         l[1] \in Gen \cup {"init_actor"}, NEW g, g = IF l[1] \in Gen THEN n + 1 ELSE n,
         step \in Nat, FindsAsked(l[1]), NEW w, NEW K, IsEngine(K, c, k, l, n, g)
  PROVE  Does(K, Method(l[1], w), Stage(c, k, l, n), Stage(c, k, Tail(l), g))
<1> DEFINE call == l[1]
           what == [for |-> call, step |-> step]
           u == NoiseOf(call)
           t == Tail(l)
<1>1. Engines(K, c, k, l, n, g)
  BY DEF Engines
<1>2. /\ Has(l, call)
      /\ \A x : Has(t, x) => Has(l, x)
      /\ Rank(call) # 0 => ~Has(t, call)
  <2>1. \A x : Has(t, x) => Has(l, x)
    BY BetweenTail
  <2>2. Rank(call) # 0 => ~Has(t, call)
    BY BetweenTail
  <2>3. l \in Seq(CallNames)
    BY DEF Between
  <2>4. 1 \in 1..Len(l)
    BY <2>3
  <2>5. Has(l, call)
    BY <2>4 DEF Has
  <2> QED
    BY <2>1, <2>2, <2>5
<1>3. call \in Gen => what \in Whats
  BY DEF Whats, Gen, CallNames
<1> HIDE DEF t
<1>4. CASE call = "init_actor"
  <2>1. Core(c, k, l, n) = CoreRaw
    BY <1>2, <1>4 DEF Core
  <2>2. n = 0 /\ g = 0
    <3>1. Early(call) /\ call \notin Gen
      BY <1>4, CallKinds DEF Gen
    <3>2. n = 0
      BY <3>1, OrderFirst
    <3> QED
      BY <3>1, <3>2
  <2>3. Core(c, k, t, g) = CoreSync(c, k, 0)
    <3>1. Rank(call) # 0
      BY <1>4 DEF Rank
    <3> QED
      BY <1>2, <1>4, <2>2, <3>1 DEF Core
  <2>4. Goes(K, c, InitActor, {"actor"}, CoreRaw, {}, CoreSync(c, k, 0))
    BY <1>1, EngineInits
  <2>5. Goes(K, c, InitActor, {"actor"}, CoreRaw, {"actor"}, CoreSync(c, k, 0))
    <3>1. {"actor"} \subseteq {"actor"} /\ {} \subseteq {"actor"} /\ CoreRaw \subseteq CoreRaw
          /\ CoreSync(c, k, 0) \subseteq CoreSync(c, k, 0)
      OBVIOUS
    <3> QED
      BY <2>4, <3>1, GoesMore
  <2>6. Method(call, w) = InitActor
    BY <1>4 DEF Method
  <2> QED
    BY <2>1, <2>3, <2>5, <2>6 DEF Goes, Stage, t
<1>5. CASE call \in Gen
  <2>1. ~Has(l, "init_actor") /\ ~Has(t, "init_actor")
    <3>1. ~Early(call) /\ Early("init_actor")
      BY <1>5, CallKinds
    <3>2. ~Has(l, "init_actor")
      BY <3>1, OrderFirst
    <3> QED
      BY <1>2, <3>2
  <2>2. Core(c, k, l, n) = CoreSync(c, k, n) /\ Core(c, k, t, g) = CoreSync(c, k, n + 1) /\ g = n + 1
    BY <1>5, <2>1 DEF Core
  <2>3. u \in Noises
    BY <1>5 DEF FindsAsked, Gen
  <2>4. Method(call, w) = GenerateSequences(u, what)
    BY <1>5 DEF Method, Gen
  <2> HIDE DEF u, what
  <2>5. Goes(K, c, GenerateSequences(u, what), {"actor"}, CoreSync(c, k, n), {}, CoreSync(c, k, n + 1))
    <3>1. Engines(K, c, k, l, n, n + 1) /\ what \in Whats
      BY <1>1, <1>3, <1>5, <2>2
    <3> QED
      BY <2>3, <3>1, EngineSequences
  <2>6. Goes(K, c, GenerateSequences(u, what), {"actor"}, CoreSync(c, k, n), {"actor"}, CoreSync(c, k, n + 1))
    <3>1. {"actor"} \subseteq {"actor"} /\ {} \subseteq {"actor"} /\ CoreSync(c, k, n) \subseteq CoreSync(c, k, n)
          /\ CoreSync(c, k, n + 1) \subseteq CoreSync(c, k, n + 1)
      OBVIOUS
    <3> QED
      BY <2>5, <3>1, GoesMore
  <2> QED
    BY <2>2, <2>4, <2>6 DEF Goes, Stage, t
<1> QED
  BY <1>4, <1>5

\* And of asynchronous engines.
LEMMA EngineAsync ==
  ASSUME NEW c, c.mode = job.mode, c.offload = job.offload, c.tags = job.tags, c.mode = "async",
         NEW k, NEW l, Between(l, 1, 19), Len(l) > 0, NEW n \in Nat, CallsOrder(c.mode, l, n),
         l[1] \in Gen \cup {"init_actor", "init_engine", "wake_up", "sleep"},
         NEW g, g = IF l[1] \in Gen THEN n + 1 ELSE n,
         step \in Nat, NEW w, EngineState(w) \in Stage(c, k, l, n), NEW K, IsEngine(K, c, k, l, n, g)
  PROVE  Does(K, Method(l[1], w), Stage(c, k, l, n), Stage(c, k, Tail(l), g))
<1> DEFINE call == l[1]
           what == [for |-> call, step |-> step]
           t == Tail(l)
<1>1. Engines(K, c, k, l, n, g) /\ l \in Seq(CallNames)
  BY DEF Engines, Between
<1>2. /\ Has(l, call)
      /\ \A x : Has(t, x) => Has(l, x)
      /\ \A x : Has(l, x) /\ x # call => Has(t, x)
      /\ Rank(call) # 0 => ~Has(t, call)
  <2>1. \A x : Has(t, x) => Has(l, x)
    BY BetweenTail
  <2>2. Rank(call) # 0 => ~Has(t, call)
    BY BetweenTail
  <2>3. 1 \in 1..Len(l)
    BY <1>1
  <2>4. Has(l, call)
    BY <2>3 DEF Has
  <2>5. \A x : Has(l, x) /\ x # call => Has(t, x)
    BY BetweenTail
  <2> QED
    BY <2>1, <2>2, <2>4, <2>5
<1>3. call \in Gen => what \in Whats
  BY DEF Whats, Gen, CallNames
<1>4. /\ call \in Gen => Len(t) > 0 /\ t[1] = "sleep"
      /\ call = "wake_up" => Len(t) > 0 /\ t[1] \in Gen
      /\ call \notin Gen \cup {"wake_up"} => Len(t) = 0 \/ t[1] \notin Gen \cup {"sleep"}
  BY <1>1, BracketFirst DEF CallsOrder
<1>5. ~Early(call) => /\ ~Has(l, "init_actor") /\ ~Has(l, "init_engine")
                      /\ ~Has(t, "init_actor") /\ ~Has(t, "init_engine")
  <2>1. Early("init_actor") /\ Early("init_engine")
    BY CallKinds
  <2>2. ~Early(call) => ~Has(l, "init_actor") /\ ~Has(l, "init_engine")
    BY <2>1, OrderFirst
  <2> QED
    BY <1>2, <2>2
<1>6. /\ Stage(c, k, l, n) = Spot(c, {}, Core(c, k, l, n)) /\ Stage(c, k, t, g) = Spot(c, {}, Core(c, k, t, g))
      /\ "sleep" \notin Gen /\ "wake_up" \notin Gen /\ "init_actor" \notin Gen /\ "init_engine" \notin Gen
  BY DEF Stage, Gen
<1> HIDE DEF t
<1>7. SUFFICES Goes(K, c, Method(call, w), {}, Core(c, k, l, n), {}, Core(c, k, t, g))
  BY <1>6 DEF Goes, t
<1>8. CASE call \in {"init_actor", "init_engine"}
  <2>1. n = 0 /\ g = 0
    <3>1. Early(call)
      BY <1>8, CallKinds
    <3>2. n = 0
      BY <3>1, OrderFirst
    <3> QED
      BY <1>6, <1>8, <3>2
  <2>2. Rank(call) # 0
    BY <1>8 DEF Rank
  <2>3. CASE call = "init_actor"
    <3>1. Core(c, k, l, n) = CoreRaw
      BY <1>2, <2>3 DEF Core
    <3>2. Has(t, "init_engine") /\ ~Has(t, "init_actor")
      BY <1>2, <2>2, <2>3 DEF CallsOrder
    <3>3. Core(c, k, t, g) = CoreNew
      BY <2>1, <3>2 DEF Core
    <3>4. Method(call, w) = InitActor
      BY <2>3 DEF Method
    <3>5. Goes(K, c, InitActor, {}, CoreRaw, {}, CoreNew)
      BY <1>1, EngineInits
    <3> QED
      BY <3>1, <3>3, <3>4, <3>5
  <2>4. CASE call = "init_engine"
    <3>1. ~Has(l, "init_actor")
      BY <2>4, OrderFirst
    <3>2. Core(c, k, l, n) = CoreNew
      BY <1>2, <2>1, <2>4, <3>1 DEF Core
    <3>3. ~Has(t, "init_engine") /\ ~Has(t, "init_actor")
      BY <1>2, <2>2, <2>4, <3>1
    <3>4. Core(c, k, t, g) = CoreUp(c, k)
      BY <2>1, <3>3 DEF Core
    <3>5. Method(call, w) = InitEngine
      BY <2>4 DEF Method
    <3>6. Goes(K, c, InitEngine, {}, CoreNew, {}, CoreUp(c, k))
      BY <1>1, EngineInits
    <3> QED
      BY <3>2, <3>4, <3>5, <3>6
  <2> QED
    BY <1>8, <2>3, <2>4
<1>9. CASE call \in Gen
  <2>1. ~Early(call)
    BY <1>9, CallKinds
  <2>2. g = n + 1 /\ Method(call, w) = Serve(what) /\ call # "sleep" /\ what \in Whats
    BY <1>3, <1>9 DEF Method, Gen
  <2>3. Engines(K, c, k, l, n, n + 1)
    BY <1>1, <2>2
  <2> HIDE DEF what
  <2>4. CASE n = 0
    <3>1. Core(c, k, l, n) = CoreUp(c, k)
      BY <1>5, <2>1, <2>4 DEF Core
    <3>2. Core(c, k, t, g) = CoreFirst(c, k)
      BY <1>4, <1>5, <1>9, <2>1, <2>2, <2>4 DEF Core, Gen
    <3>3. Goes(K, c, Serve(what), {}, CoreUp(c, k), {}, CoreFirst(c, k))
      BY <2>2, <2>3, <2>4, EngineServe
    <3> QED
      BY <2>2, <3>1, <3>2, <3>3
  <2>5. CASE n # 0
    <3>1. n > 0 /\ n + 1 # 1 /\ n + 1 # 0
      BY <2>5
    <3>2. Core(c, k, l, n) = CoreServing(c, k, n)
      <4>1. ~(Len(l) = 0 \/ l[1] \notin Gen \cup {"sleep"})
        BY <1>9
      <4> QED
        BY <1>5, <2>1, <2>2, <2>5, <4>1 DEF Core
    <3>3. Core(c, k, t, g) = CoreServing(c, k, n + 1)
      <4>1. ~(Len(t) = 0 \/ t[1] \notin Gen \cup {"sleep"})
        BY <1>4, <1>9
      <4> QED
        BY <1>5, <2>1, <2>2, <3>1, <4>1 DEF Core
    <3>4. Goes(K, c, Serve(what), {}, CoreServing(c, k, n), {}, CoreServing(c, k, n + 1))
      BY <2>2, <2>3, <3>1, EngineServe
    <3> QED
      BY <2>2, <3>2, <3>3, <3>4
  <2> QED
    BY <2>4, <2>5
<1>10. CASE call = "wake_up"
  <2>1. ~Early(call) /\ call \notin Gen \cup {"sleep"} /\ g = n
    BY <1>6, <1>10, CallKinds
  <2>2. Method(call, w) = WakeUp(w) /\ EngineState(w).core \in Core(c, k, l, n)
        /\ EngineState(w).core.asleep = engine[w].asleep
    <3>1. Method(call, w) = WakeUp(w)
      BY <1>10 DEF Method
    <3>2. EngineState(w).core \in Core(c, k, l, n)
      BY <1>6, SpotIs
    <3>3. EngineState(w).core.asleep = engine[w].asleep
      BY DEF EngineState
    <3> QED
      BY <3>1, <3>2, <3>3
  <2>3. CASE n = 0
    <3>1. Core(c, k, l, n) = CoreUp(c, k) /\ Core(c, k, t, g) = CoreUp(c, k)
      BY <1>5, <2>1, <2>3 DEF Core
    <3>2. ~engine[w].asleep
      BY <2>2, <3>1 DEF CoreUp
    <3>3. Method(call, w) = <<>>
      BY <2>2, <3>2 DEF WakeUp
    <3>4. Spot(c, {}, CoreUp(c, k)) \subseteq Spot(c, {}, CoreUp(c, k))
      OBVIOUS
    <3> QED
      BY <3>1, <3>3, <3>4, EngineNothing DEF Goes
  <2>4. CASE n # 0
    <3>1. Core(c, k, l, n) = CoreAsleep(c, k, n)
      BY <1>5, <2>1, <2>4 DEF Core
    <3>2. Core(c, k, t, g) = CoreServing(c, k, n)
      <4>1. ~(Len(t) = 0 \/ t[1] \notin Gen \cup {"sleep"}) /\ t[1] # "sleep"
        BY <1>4, <1>6, <1>10
      <4> QED
        BY <1>5, <2>1, <2>4, <4>1 DEF Core
    <3>3. engine[w].asleep
      BY <2>2, <3>1 DEF CoreAsleep
    <3>4. Method(call, w) = Enter \o <<<<"awake", "">>>>
      BY <2>2, <3>3 DEF WakeUp
    <3>5. Goes(K, c, Enter \o <<<<"awake", "">>>>, {}, CoreAsleep(c, k, n), {}, CoreServing(c, k, n))
      BY <1>1, EngineSleep
    <3> QED
      BY <3>1, <3>2, <3>4, <3>5
  <2> QED
    BY <2>3, <2>4
<1>11. CASE call = "sleep"
  <2>1. ~Early(call) /\ call \notin Gen \cup {"wake_up"} /\ g = n /\ n > 0 /\ n # 0
    <3>1. Later(call) /\ ~Early(call)
      BY <1>11, CallKinds
    <3>2. n > 0
      BY <3>1, OrderFirst
    <3> QED
      BY <1>6, <1>11, <3>1, <3>2
  <2>2. Core(c, k, l, n) \in {CoreFirst(c, k), CoreServing(c, k, n)} /\ (Core(c, k, l, n) = CoreFirst(c, k) => n = 1 \/ Core(c, k, l, n) = CoreServing(c, k, n))
    <3>1. ~(Len(l) = 0 \/ l[1] \notin Gen \cup {"sleep"})
      BY <1>11
    <3> QED
      BY <1>5, <2>1, <3>1 DEF Core
  <2>3. \A x \in Core(c, k, l, n) : x \in Gone(RandomAt(c, k, n)) /\ ~x.asleep
    BY <2>2 DEF CoreFirst, CoreServing, Gone
  <2>4. Core(c, k, t, g) = CoreAsleep(c, k, n)
    BY <1>4, <1>5, <2>1 DEF Core
  <2>5. ~engine[w].asleep
    <3>1. EngineState(w).core \in Core(c, k, l, n)
      BY <1>6, SpotIs
    <3>2. EngineState(w).core.asleep = engine[w].asleep
      BY DEF EngineState
    <3> QED
      BY <2>3, <3>1, <3>2
  <2>6. Method(call, w) = Exit \o <<<<"asleep", "">>>>
    BY <1>11, <2>5 DEF Method, Sleep
  <2>7. Goes(K, c, Exit \o <<<<"asleep", "">>>>, {}, Gone(RandomAt(c, k, n)), {}, CoreAsleep(c, k, n))
    BY <1>1, EngineSleep
  <2>8. Goes(K, c, Exit \o <<<<"asleep", "">>>>, {}, Core(c, k, l, n), {}, CoreAsleep(c, k, n))
    <3> DEFINE P == Core(c, k, l, n)
               U == Gone(RandomAt(c, k, n))
               V == CoreAsleep(c, k, n)
               q == Exit \o <<<<"asleep", "">>>>
               none == {}
    <3>1. P \subseteq U
      BY <2>3
    <3>2. Goes(K, c, q, none, U, none, V)
      BY <2>7
    <3>3. none \subseteq none /\ V \subseteq V
      OBVIOUS
    <3> HIDE DEF P, U, V, q, none
    <3>4. Goes(K, c, q, none, P, none, V)
      BY <3>1, <3>2, <3>3, GoesMore
    <3> QED
      BY <3>4 DEF P, V, q, none
  <2> QED
    BY <2>4, <2>6, <2>8
<1> QED
  BY <1>8, <1>9, <1>10, <1>11

\* Every method takes an engine from one stage to the next.
LEMMA EngineMethod ==
  ASSUME NEW c, c.mode = job.mode, c.offload = job.offload, c.tags = job.tags, c.mode \in {"sync", "async"},
         NEW k, NEW l, Between(l, 1, 19), Len(l) > 0, l[1] # "track", NEW n \in Nat, CallsOrder(c.mode, l, n),
         NEW g, g = IF l[1] \in Gen THEN n + 1 ELSE n,
         l[1] \in Loads /\ c.mode = "async" => ~c.known,
         step \in Nat, tracked \in Nat, FindsAsked(l[1]),
         NEW w, c.mode = "async" => EngineState(w) \in Stage(c, k, l, n), NEW K, IsEngine(K, c, k, l, n, g)
  PROVE  Does(K, Method(l[1], w), Stage(c, k, l, n), Stage(c, k, Tail(l), g))
<1>1. l[1] \in CallNames
  BY BetweenTail
<1>2. l[1] \in QuietCalls \cup Gen \cup {"init_actor", "init_engine", "wake_up", "sleep"}
  BY <1>1 DEF CallNames, QuietCalls, Gen
<1>3. CASE l[1] \in QuietCalls
  <2>1. g = n
    BY <1>3 DEF QuietCalls, Gen
  <2>2. Stage(c, k, Tail(l), n) = Stage(c, k, l, n)
    <3>1. Core(c, k, Tail(l), n) = Core(c, k, l, n)
      BY <1>3, StageQuiet
    <3> QED
      BY <3>1 DEF Stage
  <2>3. Does(K, Method(l[1], w), Stage(c, k, l, n), Stage(c, k, l, n))
    BY <1>3, <2>1, EngineQuiet
  <2> QED
    BY <2>1, <2>2, <2>3
<1>4. CASE c.mode = "sync" /\ l[1] \notin QuietCalls
  <2>1. Has(l, l[1])
    <3>1. 1 \in 1..Len(l)
      BY DEF Between
    <3> QED
      BY <3>1 DEF Has
  <2>2. l[1] \in Gen \cup {"init_actor"}
    BY <1>2, <1>4, <2>1 DEF CallsOrder
  <2> QED
    BY <1>4, <2>2, EngineSync
<1>5. CASE c.mode = "async" /\ l[1] \notin QuietCalls
  BY <1>2, <1>5, EngineAsync
<1> QED
  BY <1>3, <1>4, <1>5

-----------------------------------------------------------------------------
\* Contracts and queues

\* A list without operations leaves a process where it is.
LEMMA NothingLeads ==
  ASSUME NEW K, NEW P, NEW Q, P \subseteq K.states, Leads(K, <<>>, P, Q)
  PROVE  P \subseteq Q
<1> SUFFICES ASSUME NEW s \in P PROVE s \in Q
  OBVIOUS
<1> DEFINE f == [i \in 0..0 |-> s]
<1>1. f \in [0..0 -> K.states] /\ f[0] = s
  OBVIOUS
<1>2. \A i \in 1..0 : FALSE
  OBVIOUS
<1> HIDE DEF f
<1>3. f \in Paths(K, <<>>, 0)
  BY <1>1, <1>2 DEF Paths
<1>4. 0 \in 0..Len(<<>>) /\ 0 = Len(<<>>)
  OBVIOUS
<1>5. f[0] \in Q
  BY <1>1, <1>3, <1>4 DEF Leads
<1> QED
  BY <1>1, <1>5

\* The last call may leave a process in more states.
LEMMA WorksMore ==
  ASSUME NEW K, NEW L, NEW q, NEW s, Len(q) \in Nat, Works(K, q, s),
         L.states = K.states, L.moves = K.moves, L.right = K.right, L.idle = K.idle, K.after \subseteq L.after
  PROVE  Works(L, q, s)
<1>1. \A l, P, Q, U : Q \subseteq U /\ Leads(K, l, P, Q) => Leads(L, l, P, U)
  BY DEF Leads, Paths
<1>2. \A p : OfCall(K, q, p) \subseteq OfCall(L, q, p)
  BY DEF OfCall
<1>3. Len(q) = 0 => s \in L.after
  BY DEF Works
<1>4. Len(q) > 0 => Leads(L, q[1], {s}, OfCall(L, q, 1))
  BY <1>1, <1>2 DEF Works
<1>5. \A p \in 2..Len(q) : Leads(L, q[p], L.idle, OfCall(L, q, p))
  BY <1>1, <1>2 DEF Works
<1> QED
  BY <1>3, <1>4, <1>5 DEF Works

-----------------------------------------------------------------------------
\* The calls of the steps

\* The calls there can be, and those that are no part of a generation.
EarlyCalls == {call \in CallNames : Early(call)}
Allowed == CallNames \ (IF job.mode = "sync" THEN {"wake_up", "sleep", "init_engine"} ELSE {"analyze"})
Flat == Allowed \ (Gen \cup {"wake_up", "sleep"})
Bracketed(l) == Brackets(l) /\ (Len(l) > 0 => l[1] \notin Gen \cup {"sleep"})

\* Calls that may come after one another; and those with a generation among them.
Good(l) == l \in Seq(Allowed) /\ Served(l) /\ (job.mode # "sync" => Bracketed(l))
Serving(l) == Good(l) /\ \E j \in 1..Len(l) : l[j] \in Gen

\* Calls without a generation are bracketed.
LEMMA FlatBracketed ==
  ASSUME NEW l \in Seq(Flat)
  PROVE  Bracketed(l) /\ l \in Seq(Allowed)
<1>1. \A i \in 1..Len(l) : l[i] \in Flat
  OBVIOUS
<1>2. Flat \subseteq Allowed
  BY DEF Flat
<1>3. \A i \in 1..Len(l) : l[i] \notin Gen \cup {"wake_up", "sleep"}
  BY <1>1 DEF Flat
<1>4. Len(l) > 0 => 1 \in 1..Len(l)
  OBVIOUS
<1>5. Brackets(l)
  BY <1>3 DEF Brackets
<1>6. l \in Seq(Allowed)
  BY <1>2
<1> QED
  BY <1>3, <1>4, <1>5, <1>6 DEF Bracketed

\* So are two lists that are.
LEMMA BracketedConcat ==
  ASSUME NEW a \in Seq(Allowed), NEW b \in Seq(Allowed), Bracketed(a), Bracketed(b)
  PROVE  Bracketed(a \o b)
<1> DEFINE l == a \o b
<1>1. /\ Len(a) \in Nat /\ Len(b) \in Nat /\ Len(l) = Len(a) + Len(b)
      /\ \A i \in 1..Len(a) : l[i] = a[i]
      /\ \A i \in 1..Len(b) : l[Len(a) + i] = b[i]
  BY ConcatIs
<1> HIDE DEF l
<1>2. \A i \in 1..Len(l) : i \in 1..Len(a) \/ (i - Len(a) \in 1..Len(b) /\ l[i] = b[i - Len(a)])
  <2>1. ASSUME NEW i \in 1..Len(l), i \notin 1..Len(a) PROVE i - Len(a) \in 1..Len(b) /\ Len(a) + (i - Len(a)) = i
    BY <1>1, <2>1
  <2> QED
    BY <1>1, <2>1
<1>3. ASSUME NEW i \in 1..Len(l), i + 1 \in 1..Len(l)
      PROVE  (l[i] = "wake_up" <=> l[i + 1] \in Gen) /\ (l[i] \in Gen <=> l[i + 1] = "sleep")
  <2>1. CASE i + 1 \in 1..Len(a)
    <3>1. i \in 1..Len(a) /\ l[i] = a[i] /\ l[i + 1] = a[i + 1]
      BY <1>1, <2>1
    <3> QED
      BY <2>1, <3>1 DEF Bracketed, Brackets
  <2>2. CASE i = Len(a)
    <3>1. i \in 1..Len(a) /\ l[i] = a[i] /\ 1 \in 1..Len(b) /\ Len(b) > 0
      BY <1>1, <1>3, <2>2
    <3>2. l[i + 1] = b[1]
      BY <1>1, <2>2, <3>1
    <3>3. a[i] \notin Gen \cup {"wake_up"} /\ b[1] \notin Gen \cup {"sleep"}
      BY <2>2, <3>1 DEF Bracketed, Brackets
    <3> QED
      BY <3>1, <3>2, <3>3
  <2>3. CASE i > Len(a)
    <3>1. i \notin 1..Len(a) /\ i + 1 \notin 1..Len(a)
      BY <1>1, <2>3
    <3>2. i - Len(a) \in 1..Len(b) /\ (i + 1) - Len(a) \in 1..Len(b)
          /\ l[i] = b[i - Len(a)] /\ l[i + 1] = b[(i + 1) - Len(a)]
      BY <1>2, <1>3, <3>1
    <3>3. (i + 1) - Len(a) = (i - Len(a)) + 1
      BY <1>1
    <3> QED
      BY <3>2, <3>3 DEF Bracketed, Brackets
  <2> QED
    BY <1>1, <1>3, <2>1, <2>2, <2>3
<1>4. ASSUME NEW i \in 1..Len(l), i = Len(l) PROVE l[i] \notin Gen \cup {"wake_up"}
  <2>1. CASE Len(b) = 0
    <3>1. i \in 1..Len(a) /\ i = Len(a) /\ l[i] = a[i]
      BY <1>1, <1>4, <2>1
    <3> QED
      BY <3>1 DEF Bracketed, Brackets
  <2>2. CASE Len(b) # 0
    <3>1. i \notin 1..Len(a)
      BY <1>1, <1>4, <2>2
    <3>2. i - Len(a) \in 1..Len(b) /\ i - Len(a) = Len(b) /\ l[i] = b[i - Len(a)]
      BY <1>1, <1>2, <1>4, <3>1
    <3> QED
      BY <3>2 DEF Bracketed, Brackets
  <2> QED
    BY <2>1, <2>2
<1>5. Len(l) > 0 => l[1] \notin Gen \cup {"sleep"}
  <2>1. CASE Len(a) = 0
    <3>1. Len(l) > 0 => Len(b) > 0 /\ 1 \in 1..Len(b) /\ Len(a) + 1 = 1
      BY <1>1, <2>1
    <3>2. Len(l) > 0 => l[1] = b[1] /\ Len(b) > 0
      BY <1>1, <3>1
    <3> QED
      BY <3>2 DEF Bracketed
  <2>2. CASE Len(a) # 0
    <3>1. Len(a) > 0 /\ 1 \in 1..Len(a)
      BY <1>1, <2>2
    <3> QED
      BY <1>1, <3>1 DEF Bracketed
  <2> QED
    BY <2>1, <2>2
<1> QED
  BY <1>3, <1>4, <1>5 DEF Bracketed, Brackets, l

\* Calls that have what comes before them.
LEMMA ServedConcat ==
  ASSUME NEW a \in Seq(Allowed), NEW b \in Seq(Allowed), Served(a), Served(b) \/ \E j \in 1..Len(a) : a[j] \in Gen
  PROVE  Served(a \o b) /\ ((\E j \in 1..Len(a) : a[j] \in Gen) => \E j \in 1..Len(a \o b) : (a \o b)[j] \in Gen)
<1> DEFINE l == a \o b
<1>1. /\ Len(a) \in Nat /\ Len(b) \in Nat /\ Len(l) = Len(a) + Len(b)
      /\ \A i \in 1..Len(a) : l[i] = a[i]
      /\ \A i \in 1..Len(b) : l[Len(a) + i] = b[i]
  BY ConcatIs
<1> HIDE DEF l
<1>2. ASSUME NEW i \in 1..Len(l), Later(l[i]) PROVE \E j \in 1..Len(l) : j < i /\ l[j] \in Gen
  <2>1. CASE i \in 1..Len(a)
    <3>1. PICK j \in 1..Len(a) : j < i /\ a[j] \in Gen
      BY <1>1, <1>2, <2>1 DEF Served
    <3>2. j \in 1..Len(l) /\ l[j] = a[j]
      BY <1>1
    <3> QED
      BY <3>1, <3>2
  <2>2. CASE i \notin 1..Len(a)
    <3>1. i - Len(a) \in 1..Len(b) /\ Len(a) + (i - Len(a)) = i
      BY <1>1, <2>2
    <3>2. Later(b[i - Len(a)])
      BY <1>1, <1>2, <3>1
    <3>3. CASE Served(b)
      <4>1. PICK j \in 1..Len(b) : j < i - Len(a) /\ b[j] \in Gen
        BY <3>1, <3>2, <3>3 DEF Served
      <4>2. Len(a) + j \in 1..Len(l) /\ l[Len(a) + j] = b[j] /\ Len(a) + j < i
        BY <1>1, <4>1
      <4> QED
        BY <4>1, <4>2
    <3>4. CASE \E j \in 1..Len(a) : a[j] \in Gen
      <4>1. PICK j \in 1..Len(a) : a[j] \in Gen
        BY <3>4
      <4>2. j \in 1..Len(l) /\ l[j] = a[j] /\ j < i
        BY <1>1, <2>2
      <4> QED
        BY <4>1, <4>2
    <3> QED
      BY <3>3, <3>4
  <2> QED
    BY <2>1, <2>2
<1>3. (\E j \in 1..Len(a) : a[j] \in Gen) => \E j \in 1..Len(l) : l[j] \in Gen
  <2>1. \A j \in 1..Len(a) : j \in 1..Len(l) /\ l[j] = a[j]
    BY <1>1
  <2> QED
    BY <2>1
<1> QED
  BY <1>2, <1>3 DEF Served, l

\* One list of calls after another.
LEMMA GoodConcat ==
  ASSUME NEW a, NEW b
  PROVE  /\ Good(a) /\ Good(b) => Good(a \o b)
         /\ Serving(a) /\ Good(b) => Serving(a \o b)
         /\ Serving(a) /\ b \in Seq(Flat) => Serving(a \o b)
<1>1. a \in Seq(Allowed) /\ b \in Seq(Allowed) => a \o b \in Seq(Allowed)
  OBVIOUS
<1>2. Good(a) /\ Good(b) => Good(a \o b)
  BY <1>1, ServedConcat, BracketedConcat DEF Good
<1>3. Serving(a) /\ Good(b) => Serving(a \o b)
  <2> SUFFICES ASSUME Serving(a), Good(b) PROVE Serving(a \o b)
    OBVIOUS
  <2>1. a \in Seq(Allowed) /\ b \in Seq(Allowed) /\ Served(a)
    BY DEF Serving, Good
  <2>2. \E j \in 1..Len(a \o b) : (a \o b)[j] \in Gen
    BY <2>1, ServedConcat DEF Serving
  <2> QED
    BY <1>2, <2>2 DEF Serving
<1>4. Serving(a) /\ b \in Seq(Flat) => Serving(a \o b)
  <2> SUFFICES ASSUME Serving(a), b \in Seq(Flat) PROVE Serving(a \o b)
    OBVIOUS
  <2>1. Bracketed(b) /\ b \in Seq(Allowed)
    BY FlatBracketed
  <2>2. a \in Seq(Allowed) /\ Served(a) /\ (job.mode # "sync" => Bracketed(a)) /\ \E j \in 1..Len(a) : a[j] \in Gen
    BY DEF Serving, Good
  <2>3. Served(a \o b) /\ \E j \in 1..Len(a \o b) : (a \o b)[j] \in Gen
    BY <2>1, <2>2, ServedConcat
  <2>4. job.mode # "sync" => Bracketed(a \o b)
    BY <2>1, <2>2, BracketedConcat
  <2>5. a \o b \in Seq(Allowed)
    BY <1>1, <2>1, <2>2
  <2> QED
    BY <2>3, <2>4, <2>5 DEF Serving, Good
<1> QED
  BY <1>2, <1>3, <1>4

\* A generation, with the calls around it.
LEMMA GoodGeneration ==
  ASSUME NEW call \in Gen
  PROVE  Serving(Generation(call)) /\ (job.mode # "sync" => Generation(call)[1] = "wake_up")
<1>1. ~Later(call) /\ call \in CallNames /\ call \notin {"wake_up", "sleep", "init_engine", "analyze"}
  BY CallKinds DEF Gen, CallNames
<1>2. ~Later("wake_up")
  BY CallKinds
<1>3. CASE job.mode = "sync"
  <2> DEFINE l == <<call>>
  <2>1. Generation(call) = l /\ Len(l) = 1 /\ l[1] = call
    BY <1>3 DEF Generation
  <2>2. l \in Seq(Allowed)
    BY <1>1, <1>3 DEF Allowed
  <2> HIDE DEF l
  <2>3. Served(l)
    BY <1>1, <2>1 DEF Served
  <2>4. \E j \in 1..Len(l) : l[j] \in Gen
    BY <2>1
  <2> QED
    BY <1>3, <2>1, <2>2, <2>3, <2>4 DEF Serving, Good
<1>4. CASE job.mode # "sync"
  <2> DEFINE l == <<"wake_up", call, "sleep">>
  <2>1. Generation(call) = l /\ Len(l) = 3 /\ l[1] = "wake_up" /\ l[2] = call /\ l[3] = "sleep"
    BY <1>4 DEF Generation
  <2>2. "wake_up" \in Allowed /\ call \in Allowed /\ "sleep" \in Allowed
    BY <1>1, <1>4 DEF Allowed, CallNames
  <2>3. l \in Seq(Allowed)
    BY <2>2, ShortLists, Zenon
  <2> HIDE DEF l
  <2>4. \A i \in 1..3 : i = 1 \/ i = 2 \/ i = 3
    OBVIOUS
  <2>5. Served(l)
    <3>1. \A i \in 1..Len(l) : Later(l[i]) => i = 3
      BY <1>1, <1>2, <2>1, <2>4
    <3>2. 2 \in 1..Len(l) /\ 2 < 3 /\ l[2] \in Gen
      BY <2>1
    <3> QED
      BY <3>1, <3>2 DEF Served
  <2>6. \E j \in 1..Len(l) : l[j] \in Gen
    <3>1. 2 \in 1..Len(l) /\ l[2] \in Gen
      BY <2>1
    <3> QED
      BY <3>1
  <2>7. Brackets(l)
    <3>1. "sleep" \notin Gen /\ "wake_up" \notin Gen
      BY DEF Gen
    <3>2. ASSUME NEW i \in 1..Len(l), i + 1 \in 1..Len(l)
          PROVE  (l[i] = "wake_up" <=> l[i + 1] \in Gen) /\ (l[i] \in Gen <=> l[i + 1] = "sleep")
      <4>1. i = 1 \/ i = 2
        BY <2>1, <3>2
      <4>2. CASE i = 1
        <5>1. l[i] = "wake_up" /\ l[i + 1] = call
          BY <2>1, <4>2
        <5> QED
          BY <1>1, <3>1, <5>1
      <4>3. CASE i = 2
        <5>1. l[i] = call /\ l[i + 1] = "sleep"
          BY <2>1, <4>3
        <5> QED
          BY <1>1, <3>1, <5>1
      <4> QED
        BY <4>1, <4>2, <4>3
    <3>3. ASSUME NEW i \in 1..Len(l), i = Len(l) PROVE l[i] \notin Gen \cup {"wake_up"}
      BY <2>1, <3>1, <3>3
    <3> QED
      BY <3>2, <3>3 DEF Brackets
  <2>8. Bracketed(l)
    BY <2>1, <2>7 DEF Bracketed, Gen
  <2> QED
    BY <2>1, <2>3, <2>5, <2>6, <2>8 DEF Serving, Good
<1> QED
  BY <1>3, <1>4

\* The names of calls, by kind.
LEMMA FlatNames ==
  /\ {"init_critic", "init_actor", "load_actor", "load_critic"} \subseteq EarlyCalls \cap Flat
  /\ job.mode # "sync" => "init_engine" \in EarlyCalls \cap Flat
  /\ job.mode = "sync" => "analyze" \in Flat
  /\ {"old_log_prob", "clean_log_prob", "ref", "values", "update_critic", "update_actor", "save_actor", "save_critic",
      "track"} \subseteq Flat
<1>1. \A call \in {"init_critic", "init_actor", "init_engine", "load_actor", "load_critic"} : Early(call)
  BY CallKinds
<1>2. {"init_critic", "init_actor", "load_actor", "load_critic"} \subseteq EarlyCalls \cap Flat
  BY <1>1 DEF EarlyCalls, Flat, Allowed, CallNames, Gen
<1>3. job.mode # "sync" => "init_engine" \in EarlyCalls \cap Flat
  BY <1>1 DEF EarlyCalls, Flat, Allowed, CallNames, Gen
<1>4. job.mode = "sync" => "analyze" \in Flat
  BY DEF Flat, Allowed, CallNames, Gen
<1>5. {"old_log_prob", "clean_log_prob", "ref", "values", "update_critic", "update_actor", "save_actor", "save_critic",
       "track"} \subseteq Flat
  BY DEF Flat, Allowed, CallNames, Gen
<1> QED
  BY <1>2, <1>3, <1>4, <1>5

\* A list that may be left out, and short ones.
LEMMA SeqWhen ==
  ASSUME NEW S, NEW l \in Seq(S), NEW c
  PROVE  When(c, l) \in Seq(S)
<1>1. <<>> \in Seq(S)
  OBVIOUS
<1> QED
  BY <1>1 DEF When

\* A validation has a generation in it.
LEMMA ServingValidation ==
  Serving(Validation)
<1>1. "validate" \in Gen
  BY DEF Gen
<1>2. Serving(Generation("validate"))
  BY <1>1, GoodGeneration
<1> DEFINE c == job.analysis /\ job.mode = "sync" /\ ~job.valNoise
<1>3. When(c, <<"analyze">>) \in Seq(Flat)
  <2>1. CASE c
    <3>1. "analyze" \in Flat
      BY <2>1, FlatNames
    <3>2. <<"analyze">> \in Seq(Flat)
      BY <3>1
    <3> QED
      BY <3>2, SeqWhen
  <2>2. CASE ~c
    <3>1. <<>> \in Seq(Flat)
      OBVIOUS
    <3> QED
      BY <2>2, <3>1 DEF When
  <2> QED
    BY <2>1, <2>2
<1>4. Validation = Generation("validate") \o When(c, <<"analyze">>)
  BY DEF Validation
<1> HIDE DEF c
<1> QED
  BY <1>2, <1>3, <1>4, GoodConcat

\* Nothing is good, and so is a good list that may be left out.
LEMMA GoodWhen ==
  ASSUME NEW l, Good(l), NEW c
  PROVE  Good(When(c, l))
<1>1. Good(<<>>)
  <2>1. <<>> \in Seq(Flat) /\ <<>> \in Seq(Allowed) /\ 1..Len(<<>>) = {}
    OBVIOUS
  <2>2. Bracketed(<<>>)
    BY <2>1, FlatBracketed
  <2>3. Served(<<>>)
    BY <2>1 DEF Served
  <2> QED
    BY <2>1, <2>2, <2>3 DEF Good
<1> QED
  BY <1>1 DEF When

\* The calls of a list of them.
LEMMA HasIn ==
  ASSUME NEW S, NEW l \in Seq(S), NEW x, Has(l, x)
  PROVE  x \in S
BY DEF Has

\* A step of the training.
LEMMA StepOrder ==
  ASSUME NEW s \in Nat, NEW again, NEW n \in Nat, job.mode \in {"sync", "async"}, again => job.mode = "sync"
  PROVE  /\ CallsOrder(job.mode, StepCalls(s, again), n)
         /\ \A x : Early(x) => ~Has(StepCalls(s, again), x)
         /\ Len(StepCalls(s, again)) > 0 /\ (job.mode # "sync" => StepCalls(s, again)[1] = "wake_up")
<1> DEFINE g == Generation("generate")
           f == When(again, <<"resample">>)
           a == When(job.kl /\ job.apply = "all", <<"clean_log_prob">>)
           b == When(job.reference, <<"ref">>)
           c == When(job.critic, <<"values", "update_critic">>)
           d == When(job.warmup <= s, <<"update_actor">>)
           v == When(Due(s, job.testEvery), Validation)
           z == When(Due(s, job.saveEvery), <<"save_actor">> \o When(job.critic, <<"save_critic">>) \o <<"track">>)
           l == StepCalls(s, again)
<1>1. l = g \o f \o <<"old_log_prob">> \o a \o b \o c \o d \o v \o z
  BY DEF StepCalls
<1>2. Serving(g) /\ (job.mode # "sync" => g[1] = "wake_up")
  BY GoodGeneration DEF Gen
<1>3. /\ <<"old_log_prob">> \in Seq(Flat) /\ <<"clean_log_prob">> \in Seq(Flat) /\ <<"ref">> \in Seq(Flat)
      /\ <<"values", "update_critic">> \in Seq(Flat) /\ <<"update_actor">> \in Seq(Flat)
      /\ <<"save_actor">> \in Seq(Flat) /\ <<"save_critic">> \in Seq(Flat) /\ <<"track">> \in Seq(Flat)
  <2>1. /\ "old_log_prob" \in Flat /\ "clean_log_prob" \in Flat /\ "ref" \in Flat /\ "values" \in Flat
        /\ "update_critic" \in Flat /\ "update_actor" \in Flat /\ "save_actor" \in Flat /\ "save_critic" \in Flat
        /\ "track" \in Flat
    BY FlatNames
  <2> QED
    BY <2>1, ShortLists, Zenon
<1>4. a \in Seq(Flat) /\ b \in Seq(Flat) /\ c \in Seq(Flat) /\ d \in Seq(Flat)
  BY <1>3, SeqWhen
<1>5. z \in Seq(Flat)
  <2>1. When(job.critic, <<"save_critic">>) \in Seq(Flat)
    BY <1>3, SeqWhen
  <2>2. <<"save_actor">> \o When(job.critic, <<"save_critic">>) \o <<"track">> \in Seq(Flat)
    BY <1>3, <2>1, SeqOn
  <2> QED
    BY <2>2, SeqWhen
<1>6. Good(v)
  BY ServingValidation, GoodWhen DEF Serving
<1>0. Good(f)
  <2>1. CASE again
    <3>1. Serving(Generation("resample"))
      BY GoodGeneration DEF Gen
    <3>2. Generation("resample") = <<"resample">>
      BY <2>1 DEF Generation
    <3> QED
      BY <3>1, <3>2, GoodWhen DEF Serving
  <2>2. CASE ~again
    <3>1. When(again, <<"resample">>) = When(FALSE, v)
      BY <2>2 DEF When
    <3> HIDE DEF v
    <3> QED
      BY <1>6, <3>1, GoodWhen
  <2> QED
    BY <2>1, <2>2
<1> HIDE DEF g, f, a, b, c, d, v, z, l
<1>7. Serving(l)
  <2>0. Serving(g \o f)
    BY <1>0, <1>2, GoodConcat
  <2>1. Serving(g \o f \o <<"old_log_prob">>)
    BY <1>3, <2>0, GoodConcat
  <2>2. Serving(g \o f \o <<"old_log_prob">> \o a)
    BY <2>1, <1>4, GoodConcat
  <2>3. Serving(g \o f \o <<"old_log_prob">> \o a \o b)
    BY <2>2, <1>4, GoodConcat
  <2>4. Serving(g \o f \o <<"old_log_prob">> \o a \o b \o c)
    BY <2>3, <1>4, GoodConcat
  <2>5. Serving(g \o f \o <<"old_log_prob">> \o a \o b \o c \o d)
    BY <2>4, <1>4, GoodConcat
  <2>6. Serving(g \o f \o <<"old_log_prob">> \o a \o b \o c \o d \o v)
    BY <2>5, <1>6, GoodConcat
  <2>7. Serving(g \o f \o <<"old_log_prob">> \o a \o b \o c \o d \o v \o z)
    BY <2>6, <1>5, GoodConcat
  <2> QED
    BY <1>1, <2>7
<1>8. \A i \in 1..Len(l) : ~Early(l[i])
  <2>1. Between(l, 6, 19)
    BY StepCallsIs DEF l
  <2> QED
    BY <2>1 DEF Between, Early
<1>9. \A x : Has(l, x) => x \in Allowed
  BY <1>7, HasIn DEF Serving, Good
<1>10. CallsOrder(job.mode, l, n)
  <2>1. EarlyFirst(l) /\ ~(\E i \in 1..Len(l) : Early(l[i]))
    BY <1>8 DEF EarlyFirst
  <2>2. Served(l) /\ (job.mode # "sync" => Brackets(l))
    BY <1>7 DEF Serving, Good, Bracketed
  <2>3. ~Has(l, "init_actor")
    BY <1>8, CallKinds DEF Has
  <2>4. job.mode = "async" => ~Has(l, "analyze")
    BY <1>9 DEF Allowed
  <2>5. job.mode = "sync" => ~Has(l, "wake_up") /\ ~Has(l, "sleep") /\ ~Has(l, "init_engine")
    BY <1>9 DEF Allowed
  <2> QED
    BY <2>1, <2>2, <2>3, <2>4, <2>5 DEF CallsOrder
<1>11. \A x : Early(x) => ~Has(l, x)
  BY <1>8 DEF Has
<1>12. Len(l) > 0
  <2>1. \E j \in 1..Len(l) : l[j] \in Gen
    BY <1>7 DEF Serving
  <2>2. l \in Seq(Allowed)
    BY <1>7 DEF Serving, Good
  <2>3. Len(l) \in Nat
    BY <2>2
  <2> QED
    BY <2>1, <2>3
<1>13. job.mode # "sync" => l[1] = "wake_up"
  <2> SUFFICES ASSUME job.mode # "sync" PROVE l[1] = "wake_up"
    OBVIOUS
  <2> DEFINE r == <<"old_log_prob">>
  <2>1. Len(g) > 0 /\ g \in Seq(Allowed) /\ Len(g) \in Nat
    <3>1. \E j \in 1..Len(g) : g[j] \in Gen
      BY <1>2 DEF Serving
    <3>2. g \in Seq(Allowed)
      BY <1>2 DEF Serving, Good
    <3>3. Len(g) \in Nat
      BY <3>2
    <3> QED
      BY <3>1, <3>2, <3>3
  <2> DEFINE H(x) == x \in Seq(Allowed) /\ Len(x) > 0 /\ x[1] = "wake_up"
  <2>2. \A x, y : H(x) /\ y \in Seq(Allowed) => H(x \o y)
    <3> SUFFICES ASSUME NEW x, NEW y, H(x), y \in Seq(Allowed) PROVE H(x \o y)
      OBVIOUS
    <3>1. x \o y \in Seq(Allowed) /\ Len(x \o y) = Len(x) + Len(y) /\ Len(x) \in Nat /\ Len(y) \in Nat
          /\ \A i \in 1..Len(x) : (x \o y)[i] = x[i]
      BY ConcatIs
    <3>2. 1 \in 1..Len(x)
      BY <3>1
    <3> QED
      BY <3>1, <3>2
  <2>3. H(g)
    BY <1>2, <2>1
  <2>4. \A x : x \in Seq(Flat) => x \in Seq(Allowed)
    BY FlatBracketed
  <2>5. v \in Seq(Allowed) /\ f \in Seq(Allowed)
    BY <1>0, <1>6 DEF Good
  <2> HIDE DEF H
  <2>6. H(g \o f \o <<"old_log_prob">> \o a \o b \o c \o d)
    BY <1>3, <1>4, <2>2, <2>3, <2>4, <2>5
  <2>7. H(g \o f \o <<"old_log_prob">> \o a \o b \o c \o d \o v)
    BY <2>2, <2>5, <2>6
  <2>8. H(g \o f \o <<"old_log_prob">> \o a \o b \o c \o d \o v \o z)
    BY <1>5, <2>2, <2>4, <2>7
  <2> QED
    BY <1>1, <2>8 DEF H
<1> QED
  BY <1>10, <1>11, <1>12, <1>13 DEF l

\* The calls before the first step.
LEMMA FirstOrder ==
  ASSUME job.mode \in {"sync", "async"}
  PROVE  /\ CallsOrder(job.mode, FirstCalls, 0)
         /\ Has(FirstCalls, "init_actor")
         /\ \A x \in Loads : Has(FirstCalls, x) => tracked # 0
         /\ Len(FirstCalls) \in Nat
<1> DEFINE S == EarlyCalls \cap Flat
           a == When(job.critic, <<"init_critic">>)
           b == <<"init_actor">>
           e == When(job.mode = "async", <<"init_engine">>)
           d == LoadCalls
           v == When(job.valBefore, Validation)
           l == FirstCalls
<1>1. l = ((a \o b) \o e) \o d \o v
  BY DEF FirstCalls, InitWorkers
<1>2. <<"init_critic">> \in Seq(S) /\ b \in Seq(S) /\ <<"load_actor">> \in Seq(S) /\ <<"load_critic">> \in Seq(S)
  <2>1. "init_critic" \in S /\ "init_actor" \in S /\ "load_actor" \in S /\ "load_critic" \in S
    BY FlatNames
  <2> HIDE DEF S
  <2> QED
    BY <2>1
<1>3. a \in Seq(S) /\ e \in Seq(S) /\ d \in Seq(S)
  <2>1. a \in Seq(S)
    BY <1>2, SeqWhen
  <2>2. e \in Seq(S)
    <3>1. CASE job.mode = "async"
      <4>1. "init_engine" \in S
        BY <3>1, FlatNames
      <4>2. <<"init_engine">> \in Seq(S)
        BY <4>1
      <4> QED
        BY <4>2, SeqWhen
    <3>2. CASE job.mode # "async"
      <4>1. <<>> \in Seq(S)
        OBVIOUS
      <4> QED
        BY <3>2, <4>1 DEF When
    <3> QED
      BY <3>1, <3>2
  <2>3. When(job.critic, <<"load_critic">>) \in Seq(S)
    BY <1>2, SeqWhen
  <2>4. <<"load_actor">> \o When(job.critic, <<"load_critic">>) \in Seq(S)
    BY <1>2, <2>3, SeqOn
  <2>5. d \in Seq(S)
    BY <2>4, SeqWhen DEF LoadCalls
  <2> QED
    BY <2>1, <2>2, <2>5
<1>4. Good(v) /\ v \in Seq(Allowed) /\ v \in Seq(CallNames)
  <2>1. Good(v)
    BY ServingValidation, GoodWhen DEF Serving
  <2>2. v \in Seq(Allowed) /\ Allowed \subseteq CallNames
    BY <2>1 DEF Good, Allowed
  <2>3. v \in Seq(CallNames)
    BY <2>2
  <2> QED
    BY <2>1, <2>2, <2>3
<1> DEFINE u == ((a \o b) \o e) \o d
<1>5. u \in Seq(S) /\ l = u \o v /\ u \in Seq(Flat)
  <2>1. a \o b \in Seq(S)
    BY <1>2, <1>3, SeqOn
  <2>2. (a \o b) \o e \in Seq(S)
    BY <1>3, <2>1, SeqOn
  <2>3. u \in Seq(S)
    BY <1>3, <2>2, SeqOn
  <2>4. S \subseteq Flat
    OBVIOUS
  <2> HIDE DEF S, a, b, e, d, v, l
  <2>5. u \in Seq(Flat)
    BY <2>3, <2>4
  <2> QED
    BY <1>1, <2>3, <2>5
<1>6. /\ \A x : Has(l, x) <=> Has(a, x) \/ Has(b, x) \/ Has(e, x) \/ Has(d, x) \/ Has(v, x)
  <2>1. S \subseteq CallNames
    BY DEF EarlyCalls
  <2>2. \A x : x \in Seq(S) => x \in Seq(CallNames)
    BY <2>1
  <2> HIDE DEF S, a, b, e, d, v, l
  <2>3. a \in Seq(CallNames) /\ b \in Seq(CallNames) /\ e \in Seq(CallNames) /\ d \in Seq(CallNames)
    BY <1>2, <1>3, <2>2
  <2>4. a \o b \in Seq(CallNames) /\ (a \o b) \o e \in Seq(CallNames) /\ ((a \o b) \o e) \o d \in Seq(CallNames)
    BY <2>3, SeqOn
  <2>5. \A x : Has(a \o b, x) <=> Has(a, x) \/ Has(b, x)
    BY <2>3, HasConcat
  <2>6. \A x : Has((a \o b) \o e, x) <=> Has(a \o b, x) \/ Has(e, x)
    BY <2>3, <2>4, HasConcat
  <2>7. \A x : Has(((a \o b) \o e) \o d, x) <=> Has((a \o b) \o e, x) \/ Has(d, x)
    BY <2>3, <2>4, HasConcat
  <2>8. \A x : Has(((a \o b) \o e) \o d \o v, x) <=> Has(((a \o b) \o e) \o d, x) \/ Has(v, x)
    BY <1>4, <2>4, HasConcat
  <2> QED
    BY <1>1, <2>5, <2>6, <2>7, <2>8
<1>7. Has(b, "init_actor") /\ (job.mode = "async" => Has(e, "init_engine"))
  BY HasShort DEF When
<1>8. \A x \in Loads : Has(l, x) => tracked # 0
  <2> SUFFICES ASSUME NEW x \in Loads, Has(l, x), tracked = 0 PROVE FALSE
    OBVIOUS
  <2>1. ~Has(<<>>, x) /\ (Has(<<"init_critic">>, x) <=> x = "init_critic") /\ (Has(<<"init_actor">>, x) <=> x = "init_actor")
        /\ (Has(<<"init_engine">>, x) <=> x = "init_engine")
    BY HasShort
  <2>2. ~Has(a, x) /\ ~Has(b, x) /\ ~Has(e, x)
    BY <2>1 DEF When, Loads
  <2>3. ~Has(d, x)
    BY <2>1 DEF LoadCalls, When
  <2>4. ~Has(v, x)
    <3>1. Between(v, 14, 16)
      BY ValidationIs, BetweenWhen
    <3>2. Rank(x) # 0 /\ Rank(x) < 14
      <4>1. Rank("load_actor") = 4 /\ Rank("load_critic") = 5
        BY DEF Rank
      <4>2. x \in {"load_actor", "load_critic"}
        BY DEF Loads
      <4> QED
        BY <4>1, <4>2
    <3> QED
      BY <3>1, <3>2, NotBetween
  <2> QED
    BY <1>6, <2>2, <2>3, <2>4
<1>9. \A i \in 1..Len(v) : ~Early(v[i])
  <2>1. Between(v, 14, 16)
    BY ValidationIs, BetweenWhen
  <2> QED
    BY <2>1 DEF Between, Early
<1>10. \A i \in 1..Len(u) : u[i] \in CallNames /\ Early(u[i])
  <2>1. \A i \in 1..Len(u) : u[i] \in S
    BY <1>5
  <2> QED
    BY <2>1 DEF EarlyCalls
<1>11. \A call \in CallNames : Early(call) => ~Later(call)
  BY DEF Early, Later, Rank
<1> HIDE DEF a, b, e, d, v, l, u, S
<1>12. Good(u)
  <2>1. Bracketed(u) /\ u \in Seq(Allowed)
    BY <1>5, FlatBracketed
  <2>2. Served(u)
    BY <1>10, <1>11 DEF Served
  <2> QED
    BY <2>1, <2>2 DEF Good
<1>13. Good(l)
  BY <1>4, <1>5, <1>12, GoodConcat
<1>14. EarlyFirst(l)
  <2>1. /\ Len(u) \in Nat /\ Len(v) \in Nat /\ Len(l) = Len(u) + Len(v)
        /\ \A i \in 1..Len(u) : l[i] = u[i]
        /\ \A i \in 1..Len(v) : l[Len(u) + i] = v[i]
    <3>1. u \in Seq(Allowed)
      BY <1>12 DEF Good
    <3> QED
      BY <1>4, <1>5, <3>1, ConcatIs
  <2> SUFFICES ASSUME NEW i \in 1..Len(l), NEW j \in 1..Len(l), i < j, Early(l[j]) PROVE Early(l[i])
    BY DEF EarlyFirst
  <2>2. j \in 1..Len(u)
    <3> SUFFICES ASSUME j \notin 1..Len(u) PROVE FALSE
      OBVIOUS
    <3>1. j - Len(u) \in 1..Len(v) /\ Len(u) + (j - Len(u)) = j
      BY <2>1
    <3>2. ~Early(l[j])
      BY <1>9, <2>1, <3>1
    <3> QED
      BY <3>2
  <2>3. i \in 1..Len(u)
    BY <2>1, <2>2
  <2> QED
    BY <1>10, <2>1, <2>3
<1>15. \A x : Has(l, x) => x \in Allowed
  BY <1>13, HasIn DEF Good
<1>16. CallsOrder(job.mode, l, 0)
  <2>1. Served(l) /\ (job.mode # "sync" => Brackets(l))
    BY <1>13 DEF Good, Bracketed
  <2>2. job.mode = "async" => ~Has(l, "analyze")
    BY <1>15 DEF Allowed
  <2>3. job.mode = "sync" => ~Has(l, "wake_up") /\ ~Has(l, "sleep") /\ ~Has(l, "init_engine")
    BY <1>15 DEF Allowed
  <2>4. job.mode = "async" => Has(l, "init_engine")
    BY <1>6, <1>7
  <2> QED
    BY <1>14, <2>1, <2>2, <2>3, <2>4 DEF CallsOrder
<1>17. Has(l, "init_actor") /\ Len(l) \in Nat
  <2>1. l \in Seq(Allowed)
    BY <1>13 DEF Good
  <2> QED
    BY <1>6, <1>7, <2>1
<1> QED
  BY <1>8, <1>16, <1>17 DEF l

-----------------------------------------------------------------------------
\* The inductive invariant

\* Before the calls: no generation, nothing in a cache, and no part on the GPU.
EngineFresh == generated = 0 /\ \A w \in Actors : EngineState(w) \in Spot(Cfg, {}, CoreRaw)

\* The calls are in order; a checkpoint is loaded in a later run than the first.
EngineOrder ==
  /\ CallsOrder(job.mode, calls, Before) /\ QueueShort /\ LastCall
  /\ waiting /\ calls[1] \in Gen => generated > 0
  /\ \A x \in Loads : Has(calls, x) => first # 1

\* The actors' processes keep to the contract.
EngineWorks == \A w \in Actors : Works(EngineContract(Engine(w)), todo[w], EngineState(w)) \/ FailedLoad(w)

\* The inductive invariant.
EngineInv ==
  /\ NoiseInv /\ EngineTyped /\ generated \in Nat
  /\ phase = "starting" => EngineFresh
  /\ phase = "calling" => EngineOrder /\ EngineWorks
  /\ \A w \in Actors : Fine(w)
  /\ \A w \in Workers : w \notin Actors => Plain(todo[w])

\* The parts of a contract.
LEMMA ContractIs ==
  ASSUME NEW c, NEW k, NEW l, NEW b, NEW m, NEW g
  PROVE  /\ IsEngine(ContractOf(c, k, l, b, m, g), c, k, l, b, g)
         /\ ContractOf(c, k, l, b, m, g).states = EngineStates
         /\ ContractOf(c, k, l, b, m, g).moves = EngineMoves(k)
         /\ ContractOf(c, k, l, b, m, g).right = EngineRight(c, k, l, b, g)
         /\ ContractOf(c, k, l, b, m, g).idle = Stage(c, k, l, b)
         /\ ContractOf(c, k, l, b, m, g).after = Stage(c, k, m, g)
BY DEF ContractOf, IsEngine

\* Between the calls there is room for the cache.
LEMMA StageRoom ==
  ASSUME NEW c, c.mode \in {"sync", "async"}, NEW k, NEW l, NEW g, NEW s \in Stage(c, k, l, g)
  PROVE  RoomAt(c, s, g) /\ s \in EngineStates
<1> DEFINE A == IF c.mode = "sync" THEN {"actor"} ELSE {}
           C == Core(c, k, l, g)
<1>1. s \in Spot(c, A, C)
  BY DEF Stage
<1>2. Roomy(c, A, C, g)
  <2>1. CASE c.mode = "sync"
    <3>1. C \in {CoreRaw, CoreSync(c, k, g)}
      BY <2>1 DEF Core
    <3>2. \A x \in C : ~x.cache
      BY <3>1, CoresAre
    <3> QED
      BY <3>2 DEF Roomy
  <2>2. CASE c.mode # "sync"
    BY <2>2 DEF Roomy
  <2> QED
    BY <2>1, <2>2
<1> HIDE DEF A, C
<1> QED
  BY <1>1, <1>2, SpotRoom, SpotIs

\* A process that keeps to the contract is about to do what is right.
LEMMA FineFrom ==
  ASSUME NEW c, c.mode \in {"sync", "async"}, NEW k, NEW l, NEW b, NEW m, NEW g,
         NEW q \in Seq(Lists(Ops)), NEW s \in EngineStates, Works(ContractOf(c, k, l, b, m, g), q, s)
  PROVE  RoomAt(c, s, g) /\ (Len(q) > 0 /\ q[1][1][1] = "generate" => Generates(c, k, s.core, g))
<1> DEFINE K == ContractOf(c, k, l, b, m, g)
<1>1. K.states = EngineStates /\ K.right = EngineRight(c, k, l, b, g) /\ K.after = Stage(c, k, m, g)
  BY ContractIs
<1>2. Works(K, q, s)
  OBVIOUS
<1> HIDE DEF K
<1>3. CASE Len(q) > 0
  <2>1. <<q[1][1], s>> \in EngineRight(c, k, l, b, g)
    BY <1>1, <1>2, <1>3, WorksNext
  <2> QED
    BY <2>1 DEF EngineRight
<1>4. CASE ~(Len(q) > 0)
  <2>1. Len(q) = 0
    BY <1>4
  <2>2. s \in Stage(c, k, m, g)
    BY <1>1, <1>2, <2>1, WorksEmpty
  <2> QED
    BY <1>4, <2>2, StageRoom
<1> QED
  BY <1>3, <1>4

\* The types that the steps depend on.
LEMMA EngineInvIs ==
  ASSUME EngineInv
  PROVE  /\ job \in Jobs /\ Cfg.mode = job.mode /\ Cfg.offload = job.offload /\ Cfg.tags = job.tags
         /\ Cfg.mode \in {"sync", "async"} /\ Cfg.known = (job.mode = "sync" \/ first = 1)
         /\ \A w \in Workers : todo[w] \in Seq(Lists(Ops)) /\ Len(todo[w]) \in Nat /\ EngineState(w) \in EngineStates
         /\ Actors \subseteq Workers /\ generated \in Nat /\ waiting \in BOOLEAN /\ Between(calls, 1, 19)
         /\ Len(calls) \in Nat /\ step \in Nat /\ tracked \in Nat /\ first \in Nat
         /\ calls = <<>> <=> Len(calls) = 0
<1>1. NoiseTyped /\ WorkTyped /\ job \in Jobs /\ EngineTyped
  BY DEF EngineInv, NoiseInv, NoiseTyped
<1>2. Cfg.mode = job.mode /\ Cfg.offload = job.offload /\ Cfg.tags = job.tags
      /\ Cfg.known = (job.mode = "sync" \/ first = 1)
  BY DEF Cfg
<1>3. job.mode \in {"sync", "async"}
  BY <1>1, NoisyAssumption
<1>4. \A w \in Workers : EngineState(w) \in EngineStates
  BY <1>1, EngineStateIs
<1>5. \A w \in Workers : todo[w] \in Seq(Lists(Ops)) /\ Len(todo[w]) \in Nat
  BY <1>1, OpIs
<1>6. Actors \subseteq Workers
  BY DEF Actors, Group
<1>7. Len(calls) \in Nat /\ (calls = <<>> <=> Len(calls) = 0)
  BY <1>1, CallsEmpty
<1>8. generated \in Nat
  BY DEF EngineInv
<1>9. waiting \in BOOLEAN /\ Between(calls, 1, 19) /\ step \in Nat /\ tracked \in Nat /\ first \in Nat
  BY <1>1 DEF NoiseTyped
<1> QED
  BY <1>1, <1>2, <1>3, <1>4, <1>5, <1>6, <1>7, <1>8, <1>9

\* The processes of the actors depend on the job alone, the contracts on the calls too.
LEMMA EngineNext ==
  ASSUME job' = job
  PROVE  /\ Workers' = Workers /\ Actors' = Actors
         /\ \A w : Engine(w)' = Engine(w)
         /\ first' = first => Cfg' = Cfg
         /\ \A k : EngineContract(k)' =
                     ContractOf(Cfg', k, calls', Before', IF waiting' THEN Tail(calls') ELSE calls', generated')
<1>1. Workers' = Workers
  BY DEF Workers, Pools, World
<1>2. Actors' = Actors
  BY <1>1 DEF Actors, Group, PoolOf
<1>3. \A w : Engine(w)' = Engine(w)
  BY DEF Engine
<1>4. first' = first => Cfg' = Cfg
  BY DEF Cfg
<1>5. \A k : EngineContract(k)' =
               ContractOf(Cfg', k, calls', Before', IF waiting' THEN Tail(calls') ELSE calls', generated')
  BY DEF EngineContract, Onward
<1> QED
  BY <1>1, <1>2, <1>3, <1>4, <1>5

\* Processes that have just come up.
LEMMA RawFine ==
  ASSUME NEW c, NEW s \in Spot(c, {}, CoreRaw), NEW g
  PROVE  RoomAt(c, s, g)
<1>1. Roomy(c, {}, CoreRaw, g)
  BY DEF Roomy
<1> QED
  BY <1>1, SpotRoom

\* The models, engines and files of a job that starts.
LEMMA RawState ==
  ASSUME NEW w, NEW s, s = [gpu |-> {}, core |-> [weights |-> 0, actor |-> 0, cache |-> FALSE, asleep |-> FALSE,
                                                 now |-> Seeded(<<"default", 0>>), gen |-> Seeded(<<"default", 0>>)]],
         NEW c
  PROVE  s \in Spot(c, {}, CoreRaw)
<1>1. Seeded(<<"default", 0>>) \in RandomStates
  BY SeededIs
<1> DEFINE r == Seeded(<<"default", 0>>)
           x == [weights |-> 0, actor |-> 0, cache |-> FALSE, asleep |-> FALSE, now |-> r, gen |-> r]
<1> HIDE DEF r
<1>2. x \in Cores
  BY <1>1 DEF Cores, r
<1>3. x \in CoreRaw
  BY <1>2 DEF CoreRaw
<1>4. s = [gpu |-> {}, core |-> x]
  BY DEF r
<1> HIDE DEF x
<1>5. s \in EngineStates
  <2>1. \A S, T : \A a \in S, b \in T : [gpu |-> a, core |-> b] \in [gpu : S, core : T]
    OBVIOUS
  <2>2. {} \in SUBSET Words
    OBVIOUS
  <2>3. [gpu |-> {}, core |-> x] \in [gpu : SUBSET Words, core : Cores]
    BY <1>2, <2>1, <2>2, Zenon
  <2> QED
    BY <1>4, <2>3, Zenon DEF EngineStates
<1>6. s.gpu = {} /\ s.core = x
  BY <1>4
<1>7. s.gpu \cap c.offload \subseteq {}
  BY <1>6
<1> QED
  BY <1>3, <1>5, <1>6, <1>7 DEF Spot

\* The invariant holds in the beginning.
LEMMA EngineInit ==
  ASSUME Init
  PROVE  EngineInv
<1>1. NoiseInv
  BY NoiseInit
<1>2. /\ phase = "starting" /\ generated = 0 /\ todo = [w \in Workers |-> <<>>]
      /\ onGpu = [w \in Workers |-> {}] /\ model = [w \in Workers |-> [r \in Roles |-> 0]]
      /\ engine = [w \in Workers |-> FreshEngine] /\ random = [w \in Workers |-> FreshRandom] /\ disk = {}
  BY DEF Init, WorkInit, FitInit
<1>3. EngineTyped /\ \A w \in Workers : EngineState(w) \in Spot(Cfg, {}, CoreRaw)
  <2>1. "actor" \in Roles
    BY DEF Roles
  <2>2. Seeded(<<"default", 0>>) \in RandomStates
    BY SeededIs
  <2>3. FreshRandom \in [now : RandomStates, train : RandomStates, gen : RandomStates]
    BY <2>2 DEF FreshRandom
  <2>4. FreshEngine \in [weights : Nat, cache : BOOLEAN, asleep : BOOLEAN]
    BY DEF FreshEngine
  <2>5. EngineTyped
    <3>1. onGpu \in [Workers -> SUBSET Words] /\ model \in [Workers -> [Roles -> Nat]]
      BY <1>2
    <3>2. engine \in [Workers -> [weights : Nat, cache : BOOLEAN, asleep : BOOLEAN]]
      BY <1>2, <2>4
    <3>3. random \in [Workers -> [now : RandomStates, train : RandomStates, gen : RandomStates]]
      BY <1>2, <2>3
    <3> QED
      BY <1>2, <3>1, <3>2, <3>3 DEF EngineTyped
  <2>6. ASSUME NEW w \in Workers PROVE EngineState(w) \in Spot(Cfg, {}, CoreRaw)
    <3>1. EngineState(w) =
            [gpu |-> {}, core |-> [weights |-> 0, actor |-> 0, cache |-> FALSE, asleep |-> FALSE,
                                   now |-> Seeded(<<"default", 0>>), gen |-> Seeded(<<"default", 0>>)]]
      BY <1>2, <2>1 DEF EngineState, FreshEngine, FreshRandom
    <3> QED
      BY <3>1, RawState
  <2> QED
    BY <2>5, <2>6
<1>4. \A w \in Workers : Len(todo[w]) = 0
  BY <1>2
<1>5. Actors \subseteq Workers
  BY DEF Actors, Group
<1>6. \A w \in Actors : Fine(w)
  <2>1. \A w \in Actors : RoomAt(Cfg, EngineState(w), generated)
    BY <1>3, <1>5, RawFine
  <2> QED
    BY <1>4, <1>5, <2>1 DEF Fine
<1>7. \A w \in Workers : Plain(todo[w])
  <2>1. \A w \in Workers : 1..Len(todo[w]) = {}
    BY <1>4
  <2> QED
    BY <2>1 DEF Plain
<1>8. EngineFresh
  BY <1>2, <1>3, <1>5 DEF EngineFresh
<1> QED
  BY <1>1, <1>2, <1>3, <1>6, <1>7, <1>8 DEF EngineInv

\* The job is started again.
LEMMA EngineRestart ==
  ASSUME EngineInv, Restart
  PROVE  EngineInv'
<1>1. NoiseInv'
  BY NoiseRestart DEF EngineInv
<1>2. /\ phase' = "starting" /\ generated' = 0 /\ todo' = [w \in Workers |-> <<>>] /\ job' = job
      /\ onGpu' = [w \in Workers |-> {}] /\ model' = [w \in Workers |-> [r \in Roles |-> 0]]
      /\ engine' = [w \in Workers |-> FreshEngine] /\ random' = [w \in Workers |-> FreshRandom] /\ disk' = disk
  BY DEF Restart
<1>3. Workers' = Workers /\ Actors' = Actors /\ Actors \subseteq Workers
  BY <1>2, EngineNext DEF Actors, Group
<1>4. EngineTyped' /\ \A w \in Workers : EngineState(w)' \in Spot(Cfg', {}, CoreRaw)
  <2>1. "actor" \in Roles
    BY DEF Roles
  <2>2. Seeded(<<"default", 0>>) \in RandomStates
    BY SeededIs
  <2>3. FreshRandom \in [now : RandomStates, train : RandomStates, gen : RandomStates]
    BY <2>2 DEF FreshRandom
  <2>4. FreshEngine \in [weights : Nat, cache : BOOLEAN, asleep : BOOLEAN]
    BY DEF FreshEngine
  <2>5. EngineTyped'
    <3>1. onGpu' \in [Workers -> SUBSET Words] /\ model' \in [Workers -> [Roles -> Nat]]
      BY <1>2
    <3>2. engine' \in [Workers -> [weights : Nat, cache : BOOLEAN, asleep : BOOLEAN]]
      BY <1>2, <2>4
    <3>3. random' \in [Workers -> [now : RandomStates, train : RandomStates, gen : RandomStates]]
      BY <1>2, <2>3
    <3>4. \A f \in disk : f.weights \in Nat /\ f.random \in RandomStates
      BY DEF EngineInv, EngineTyped
    <3> QED
      BY <1>2, <1>3, <3>1, <3>2, <3>3, <3>4 DEF EngineTyped
  <2>6. ASSUME NEW w \in Workers PROVE EngineState(w)' \in Spot(Cfg', {}, CoreRaw)
    <3>1. EngineState(w)' =
            [gpu |-> {}, core |-> [weights |-> 0, actor |-> 0, cache |-> FALSE, asleep |-> FALSE,
                                   now |-> Seeded(<<"default", 0>>), gen |-> Seeded(<<"default", 0>>)]]
      BY <1>2, <2>1 DEF EngineState, FreshEngine, FreshRandom
    <3> QED
      BY <3>1, RawState
  <2> QED
    BY <2>5, <2>6
<1>5. \A w \in Workers : Len(todo'[w]) = 0
  BY <1>2
<1>6. \A w \in Actors : Fine(w)'
  <2>1. \A w \in Actors : RoomAt(Cfg', EngineState(w)', generated')
    BY <1>3, <1>4, RawFine
  <2> QED
    BY <1>3, <1>5, <2>1 DEF Fine
<1>7. \A w \in Workers : Plain(todo'[w])
  <2>1. \A w \in Workers : 1..Len(todo'[w]) = {}
    BY <1>5
  <2> QED
    BY <2>1 DEF Plain
<1>8. EngineFresh'
  BY <1>2, <1>3, <1>4 DEF EngineFresh
<1> QED
  BY <1>1, <1>2, <1>3, <1>4, <1>6, <1>7, <1>8 DEF EngineInv

\* What the engines and the calls depend on stays as it is, or the run has ended.
LEMMA EngineSame ==
  ASSUME EngineInv, NoiseInv', UNCHANGED <<job, first, calls, waiting, generated, todo, failed, onGpu, model, engine, random, disk>>,
         phase' = phase \/ phase' \in {"raised", "done"}
  PROVE  EngineInv'
<1>1. /\ Workers' = Workers /\ Actors' = Actors /\ Cfg' = Cfg /\ \A w : Engine(w)' = Engine(w)
  BY EngineNext
<1>2. \A w : EngineState(w)' = EngineState(w)
  BY DEF EngineState
<1>3. \A k : EngineContract(k)' = EngineContract(k)
  BY <1>1 DEF EngineContract, Before, Onward
<1>4. EngineTyped'
  BY <1>1 DEF EngineInv, EngineTyped
<1>5. phase' = "starting" => EngineFresh'
  BY <1>1, <1>2 DEF EngineInv, EngineFresh
<1>6. phase' = "calling" => EngineOrder'
  <2> SUFFICES ASSUME phase' = "calling" PROVE EngineOrder'
    OBVIOUS
  <2>1. EngineOrder
    BY DEF EngineInv
  <2>2. QueueShort'
    BY <1>1, <2>1 DEF EngineOrder, QueueShort, GroupOf, Group, PoolOf
  <2>3. LastCall'
    BY <1>1, <2>1 DEF EngineOrder, LastCall, GroupOf, Group, PoolOf
  <2>4. Before' = Before
    BY DEF Before
  <2> QED
    BY <2>1, <2>2, <2>3, <2>4 DEF EngineOrder
<1>7. phase' = "calling" => EngineWorks'
  <2> SUFFICES ASSUME phase' = "calling", NEW w \in Actors
               PROVE  Works(EngineContract(Engine(w))', todo'[w], EngineState(w)') \/ FailedLoad(w)'
    BY <1>1 DEF EngineWorks
  <2>1. Works(EngineContract(Engine(w)), todo[w], EngineState(w)) \/ FailedLoad(w)
    BY DEF EngineInv, EngineWorks
  <2>2. FailedLoad(w)' <=> FailedLoad(w)
    BY DEF FailedLoad
  <2> QED
    BY <1>1, <1>2, <1>3, <2>1, <2>2
<1>8. \A w \in Actors : Fine(w)'
  BY <1>1, <1>2 DEF EngineInv, Fine
<1>9. \A w \in Workers : w \notin Actors => Plain(todo'[w])
  BY DEF EngineInv
<1> QED
  BY <1>1, <1>4, <1>5, <1>6, <1>7, <1>8, <1>9 DEF EngineInv

\* An operation of an analysis is right in another contract, in the same stage.
LEMMA LeftRight ==
  ASSUME NEW c, NEW k, NEW l, NEW b, NEW g, NEW x, NEW d, NEW h, NEW op \in AnalysisOps, NEW z,
         <<op, z>> \in EngineRight(c, k, l, b, g), Stage(c, k, x, d) = Stage(c, k, l, b), c.mode = "sync" \/ h = g
  PROVE  <<op, z>> \in EngineRight(c, k, x, d, h)
<1>1. op \in Ops /\ op[1] \in {"load", "offload", "eval", "forward"}
  BY DEF AnalysisOps
<1>2. z \in EngineStates /\ RoomAt(c, z, g)
      /\ (op[1] = "forward" /\ op[2].for = "analyze" => c.mode = "sync" /\ z \in Stage(c, k, l, b))
  BY DEF EngineRight
<1>3. RoomAt(c, z, h)
  BY <1>2 DEF RoomAt
<1> QED
  BY <1>1, <1>2, <1>3 DEF EngineRight

\* So what is left of analyses keeps to it too.
LEMMA LeftOther ==
  ASSUME NEW c, NEW k, NEW q \in Seq(Lists(Ops)), Left(q), NEW s,
         NEW l, NEW b, NEW m, NEW g, NEW x, NEW d, NEW y, NEW h,
         Works(ContractOf(c, k, l, b, m, g), q, s),
         Stage(c, k, x, d) = Stage(c, k, l, b), Stage(c, k, y, h) = Stage(c, k, m, g), c.mode = "sync" \/ h = g
  PROVE  Works(ContractOf(c, k, x, d, y, h), q, s)
<1> DEFINE K == ContractOf(c, k, l, b, m, g)
           L == ContractOf(c, k, x, d, y, h)
<1>1. /\ K.states = EngineStates /\ K.moves = EngineMoves(k) /\ K.right = EngineRight(c, k, l, b, g)
      /\ K.idle = Stage(c, k, l, b) /\ K.after = Stage(c, k, m, g)
  BY ContractIs
<1>2. /\ L.states = EngineStates /\ L.moves = EngineMoves(k) /\ L.right = EngineRight(c, k, x, d, h)
      /\ L.idle = Stage(c, k, x, d) /\ L.after = Stage(c, k, y, h)
  BY ContractIs
<1>3. Works(K, q, s)
  OBVIOUS
<1> HIDE DEF K, L
<1>4. ASSUME NEW op \in AnalysisOps, NEW z, <<op, z>> \in EngineRight(c, k, l, b, g)
      PROVE  <<op, z>> \in EngineRight(c, k, x, d, h)
  BY <1>4, LeftRight
<1>5. \A p \in 1..Len(q) : \A i \in 1..Len(q[p]) : \A z \in K.states :
        <<q[p][i], z>> \in K.right => <<q[p][i], z>> \in L.right
  <2>1. ASSUME NEW p \in 1..Len(q), NEW i \in 1..Len(q[p]) PROVE q[p][i] \in AnalysisOps
    <3>1. q[p] \in Seq(AnalysisOps)
      BY DEF Left
    <3> QED
      BY <3>1
  <2> QED
    BY <1>1, <1>2, <1>4, <2>1
<1>6. Works(L, q, s)
  BY <1>1, <1>2, <1>3, <1>5, WorksOther
<1> QED
  BY <1>6 DEF L

\* Fit begins.
LEMMA EngineStart ==
  ASSUME EngineInv, StartFit
  PROVE  EngineInv'
<1>1. NoiseInv'
  BY NoiseStart DEF EngineInv
<1>2. /\ phase = "starting" /\ phase' = "calling" /\ calls' = FirstCalls /\ first' = tracked + 1
      /\ UNCHANGED <<job, waiting, generated, tracked, todo, onGpu, model, engine, random, disk>>
  BY DEF StartFit, startVars, workVars, diskVars
<1>3. /\ Workers' = Workers /\ Actors' = Actors /\ \A w : Engine(w)' = Engine(w)
      /\ \A k : EngineContract(k)' =
                  ContractOf(Cfg', k, calls', Before', IF waiting' THEN Tail(calls') ELSE calls', generated')
  BY <1>2, EngineNext
<1>4. /\ ~waiting /\ generated = 0 /\ \A w \in Workers : Len(todo[w]) = 0
      /\ \A w \in Actors : EngineState(w) \in Spot(Cfg, {}, CoreRaw)
  BY <1>2 DEF EngineInv, EngineFresh, NoiseInv, Control
<1>5. Actors \subseteq Workers /\ job.mode \in {"sync", "async"} /\ tracked \in Nat
  BY EngineInvIs
<1>6. /\ CallsOrder(job.mode, FirstCalls, 0) /\ Has(FirstCalls, "init_actor")
      /\ \A x \in Loads : Has(FirstCalls, x) => tracked # 0
  BY <1>5, FirstOrder
<1>7. Before' = 0 /\ generated' = 0 /\ ~waiting'
  BY <1>2, <1>4 DEF Before
<1>8. \A w : EngineState(w)' = EngineState(w)
  BY <1>2 DEF EngineState
<1>9. \A w \in Actors : EngineState(w)' \in Spot(Cfg', {}, CoreRaw)
  <2>1. Cfg.offload = Cfg'.offload
    BY <1>2 DEF Cfg
  <2> QED
    BY <1>4, <1>8, <2>1 DEF Spot
<1>10. EngineOrder'
  <2>1. QueueShort'
    <3>1. \A w \in Workers : Len(todo'[w]) <= 0 /\ ~waiting'
      BY <1>2, <1>4
    <3> QED
      BY <1>3, <3>1 DEF QueueShort
  <2>2. LastCall'
    BY <1>7 DEF LastCall
  <2>3. \A x \in Loads : Has(calls', x) => first' # 1
    BY <1>2, <1>5, <1>6
  <2>4. CallsOrder(job'.mode, calls', Before')
    BY <1>2, <1>6, <1>7
  <2> QED
    BY <1>7, <2>1, <2>2, <2>3, <2>4 DEF EngineOrder
<1>11. EngineWorks'
  <2>1. ASSUME NEW w \in Actors PROVE Works(EngineContract(Engine(w))', todo'[w], EngineState(w)')
    <3> DEFINE k == Engine(w)
               K == ContractOf(Cfg', k, calls', 0, calls', 0)
               A == IF Cfg'.mode = "sync" THEN {"actor"} ELSE {}
    <3>1. EngineContract(k)' = K
      BY <1>3, <1>7
    <3>2. K.after = Stage(Cfg', k, calls', 0)
      BY ContractIs
    <3>3. Stage(Cfg', k, calls', 0) = Spot(Cfg', A, CoreRaw)
      BY <1>2, <1>6 DEF Stage, Core
    <3>4. {} \subseteq A /\ CoreRaw \subseteq CoreRaw
      OBVIOUS
    <3> HIDE DEF K, A, k
    <3>5. Spot(Cfg', {}, CoreRaw) \subseteq Spot(Cfg', A, CoreRaw)
      BY <3>4, SpotMore
    <3>6. EngineState(w)' \in K.after
      BY <1>9, <3>2, <3>3, <3>5
    <3>7. Len(todo'[w]) = 0
      BY <1>2, <1>4, <1>5
    <3>8. Works(K, todo'[w], EngineState(w)')
      BY <3>6, <3>7, WorksEmpty
    <3> QED
      BY <1>3, <3>1, <3>8 DEF k
  <2> QED
    BY <1>3, <2>1 DEF EngineWorks
<1>12. \A w \in Actors : Fine(w)'
  <2>1. \A w \in Actors : RoomAt(Cfg', EngineState(w)', generated')
    BY <1>9, RawFine
  <2>2. \A w \in Actors : Len(todo'[w]) = 0
    BY <1>2, <1>4, <1>5
  <2> QED
    BY <1>3, <2>1, <2>2 DEF Fine
<1>13. EngineTyped' /\ (\A w \in Workers : w \notin Actors => Plain(todo'[w]))
  BY <1>2, <1>3 DEF EngineInv, EngineTyped
<1>14. phase' # "starting" /\ generated' \in Nat
  BY <1>2, <1>7
<1> QED
  BY <1>1, <1>3, <1>10, <1>11, <1>12, <1>13, <1>14 DEF EngineInv

\* The next step.
LEMMA EngineAdvance ==
  ASSUME EngineInv, Advance
  PROVE  EngineInv'
<1>1. NoiseInv'
  BY NoiseAdvance DEF EngineInv
<1>2. /\ phase = "calling" /\ Len(calls) = 0
      /\ UNCHANGED <<job, waiting, first, generated, todo, failed, onGpu, model, engine, random, disk>>
  BY DEF Advance, startVars, workVars
<1>3. CASE step >= job.steps
  <2>1. phase' = "done" /\ UNCHANGED calls
    BY <1>3 DEF Advance
  <2> QED
    BY <1>1, <1>2, <2>1, EngineSame
<1>4. CASE ~(step >= job.steps)
  <2>0. PICK again \in {FALSE, job.resample} : calls' = StepCalls(step + 1, again)
    BY <1>4 DEF Advance
  <2>1. phase' = "calling"
    BY <1>2, <1>4 DEF Advance
  <2>2. /\ Workers' = Workers /\ Actors' = Actors /\ Cfg' = Cfg /\ \A w : Engine(w)' = Engine(w)
        /\ \A k : EngineContract(k)' =
                    ContractOf(Cfg', k, calls', Before', IF waiting' THEN Tail(calls') ELSE calls', generated')
    BY <1>2, EngineNext
  <2>3. /\ Actors \subseteq Workers /\ job.mode \in {"sync", "async"} /\ step + 1 \in Nat /\ generated \in Nat
        /\ Cfg.mode = job.mode /\ \A w \in Workers : todo[w] \in Seq(Lists(Ops)) /\ Len(todo[w]) \in Nat
    BY EngineInvIs
  <2>4. EngineOrder /\ EngineWorks /\ ~waiting /\ \A w \in Workers : Left(todo[w])
    <3>1. ~waiting
      BY <1>2, EngineInvIs DEF EngineInv, NoiseInv, Control
    <3> QED
      BY <1>2, <3>1 DEF EngineInv, NoiseInv, Control
  <2>5. /\ CallsOrder(job.mode, calls', generated) /\ (\A x : Early(x) => ~Has(calls', x))
        /\ Len(calls') > 0 /\ (job.mode # "sync" => calls'[1] = "wake_up")
    <3>1. again => job.mode = "sync"
      BY <2>0, <2>3, EngineInvIs, NoisyAssumption
    <3> QED
      BY <2>0, <2>3, <3>1, StepOrder
  <2>6. Before = generated /\ Onward = calls /\ Before' = generated /\ ~waiting' /\ generated' = generated
    BY <1>2, <2>4 DEF Before, Onward
  <2>7. \A w : EngineState(w)' = EngineState(w)
    BY <1>2 DEF EngineState
  <2>8. Early("init_actor") /\ Early("init_engine") /\ \A x \in Loads : Early(x)
    BY CallKinds DEF Loads
  <2>9. \A x : ~Has(calls, x)
    <3>1. 1..Len(calls) = {}
      BY <1>2
    <3> QED
      BY <3>1 DEF Has
  <2>10. \A k : Stage(Cfg, k, calls', generated) = Stage(Cfg, k, calls, generated)
    <3>1. job.mode # "sync" => calls'[1] \notin Gen \cup {"sleep"}
      BY <2>5 DEF Gen
    <3>2. ~Has(calls', "init_actor") /\ ~Has(calls', "init_engine") /\ ~Has(calls, "init_actor") /\ ~Has(calls, "init_engine")
      BY <2>5, <2>8, <2>9
    <3>3. \A k : Core(Cfg, k, calls', generated) = Core(Cfg, k, calls, generated)
      BY <1>2, <2>3, <3>1, <3>2 DEF Core
    <3> QED
      BY <3>3 DEF Stage
  <2>11. EngineOrder'
    <3>1. QueueShort'
      <4>1. CASE job.mode = "async"
        <5>1. \A w \in Workers : Len(todo[w]) <= 0
          BY <2>4, <4>1 DEF EngineOrder, QueueShort
        <5> QED
          BY <1>2, <2>2, <2>6, <5>1 DEF QueueShort
      <4>2. CASE job.mode # "async"
        <5>1. ~Early(calls'[1])
          <6>1. calls' \in Seq(CallNames)
            BY <1>1 DEF NoiseInv, NoiseTyped, Between
          <6>2. 1 \in 1..Len(calls')
            BY <2>5, <6>1
          <6> QED
            BY <2>5, <6>2 DEF Has
        <5> QED
          BY <1>2, <4>2, <5>1 DEF QueueShort
      <4> QED
        BY <4>1, <4>2
    <3>2. LastCall'
      BY <2>6 DEF LastCall
    <3>3. \A x \in Loads : ~Has(calls', x)
      BY <2>5, <2>8
    <3> QED
      BY <1>2, <2>5, <2>6, <3>1, <3>2, <3>3 DEF EngineOrder
  <2>12. EngineWorks'
    <3>1. ASSUME NEW w \in Actors PROVE Works(EngineContract(Engine(w))', todo'[w], EngineState(w)')
      <4> DEFINE k == Engine(w)
      <4>1. Works(EngineContract(k), todo[w], EngineState(w))
        BY <2>4 DEF EngineWorks, FailedLoad
      <4>2. EngineContract(k) = ContractOf(Cfg, k, calls, generated, calls, generated)
        BY <2>6 DEF EngineContract
      <4>3. EngineContract(k)' = ContractOf(Cfg, k, calls', generated, calls', generated)
        BY <2>2, <2>6
      <4>4. todo[w] \in Seq(Lists(Ops)) /\ Left(todo[w])
        BY <2>3, <2>4
      <4> HIDE DEF k
      <4>5. Works(ContractOf(Cfg, k, calls', generated, calls', generated), todo[w], EngineState(w))
        BY <2>10, <4>1, <4>2, <4>4, LeftOther
      <4> QED
        BY <1>2, <2>2, <2>7, <4>3, <4>5 DEF k
    <3> QED
      BY <2>2, <3>1 DEF EngineWorks
  <2>13. \A w \in Actors : Fine(w)'
    BY <1>2, <2>2, <2>7 DEF EngineInv, Fine
  <2>14. EngineTyped' /\ (\A w \in Workers : w \notin Actors => Plain(todo'[w]))
    BY <1>2, <2>2 DEF EngineInv, EngineTyped
  <2>15. phase' # "starting" /\ generated' \in Nat
    BY <2>1, <2>3, <2>6
  <2> QED
    BY <1>1, <2>2, <2>11, <2>12, <2>13, <2>14, <2>15 DEF EngineInv
<1> QED
  BY <1>3, <1>4

\* One call is over.
LEMMA EngineGo ==
  ASSUME EngineInv, NoiseInv', phase = "calling", Len(calls) > 0, calls' = Tail(calls), waiting' = FALSE,
         UNCHANGED <<job, first, generated, todo, onGpu, model, engine, random, disk>>,
         phase' \in {"calling", "raised"},
         waiting \/ calls[1] \in QuietCalls, \A w \in Actors : ~FailedLoad(w),
         \A w \in Actors : (waiting /\ Len(todo[w]) = 0) \/ (Left(todo[w]) /\ calls[1] \in QuietCalls),
         job.mode = "async" \/ Early(calls[1]) => \A w \in Workers : Len(todo[w]) = 0
  PROVE  EngineInv'
<1>1. /\ Workers' = Workers /\ Actors' = Actors /\ Cfg' = Cfg /\ \A w : Engine(w)' = Engine(w)
      /\ \A k : EngineContract(k)' =
                  ContractOf(Cfg', k, calls', Before', IF waiting' THEN Tail(calls') ELSE calls', generated')
  BY EngineNext
<1>2. /\ Actors \subseteq Workers /\ job.mode \in {"sync", "async"} /\ generated \in Nat /\ Between(calls, 1, 19)
      /\ Cfg.mode = job.mode /\ \A w \in Workers : todo[w] \in Seq(Lists(Ops)) /\ Len(todo[w]) \in Nat
  BY EngineInvIs
<1>3. EngineOrder /\ EngineWorks
  BY DEF EngineInv
<1>4. Before' = generated /\ ~waiting' /\ generated' = generated
  BY DEF Before
<1>5. \A w : EngineState(w)' = EngineState(w)
  BY DEF EngineState
<1>6. Before \in Nat /\ (calls[1] \in Gen /\ waiting => generated = Before + 1)
      /\ (calls[1] \notin Gen => generated = Before)
  BY <1>2, <1>3 DEF Before, EngineOrder
<1>7. /\ \A x : Has(Tail(calls), x) => Has(calls, x)
      /\ Len(Tail(calls)) > 0 /\ Early(Tail(calls)[1]) => Early(calls[1])
  <2>1. \A x : Has(Tail(calls), x) => Has(calls, x)
    BY <1>2, BetweenTail
  <2>2. ASSUME Len(Tail(calls)) > 0, Early(Tail(calls)[1]) PROVE Early(calls[1])
    <3>1. calls \in Seq(CallNames)
      BY <1>2 DEF Between
    <3>2. 1 \in 1..Len(calls) /\ 2 \in 1..Len(calls) /\ Tail(calls)[1] = calls[2] /\ 1 < 2
      BY <2>2, <3>1
    <3> QED
      BY <1>3, <2>2, <3>2 DEF EngineOrder, CallsOrder, EarlyFirst
  <2> QED
    BY <2>1, <2>2
<1>8. EngineOrder' /\ EngineWorks'
  <2>1. calls[1] \in Gen => waiting
    BY DEF QuietCalls, Gen
  <2>2. EngineOrder'
    <3>1. CallsOrder(job.mode, Tail(calls), generated)
      <4>1. generated = IF calls[1] \in Gen THEN Before + 1 ELSE Before
        BY <1>6, <2>1
      <4>2. CallsOrder(job.mode, calls, Before)
        BY <1>3 DEF EngineOrder
      <4> QED
        BY <1>2, <1>6, <4>1, <4>2, OrderTail
    <3>2. QueueShort'
      <4>1. ASSUME job.mode = "async" \/ (Len(calls') > 0 /\ Early(calls'[1])), NEW w \in Workers
            PROVE  Len(todo'[w]) <= 0
        BY <1>7, <4>1
      <4> QED
        BY <1>1, <1>4, <4>1 DEF QueueShort
    <3>3. LastCall'
      BY <1>4 DEF LastCall
    <3>4. \A x \in Loads : Has(calls', x) => first' # 1
      BY <1>3, <1>7 DEF EngineOrder
    <3> QED
      BY <1>4, <3>1, <3>2, <3>3, <3>4 DEF EngineOrder
  <2>3. EngineWorks'
    <3>1. ASSUME NEW w \in Actors PROVE Works(EngineContract(Engine(w))', todo'[w], EngineState(w)')
      <4> DEFINE k == Engine(w)
                 t == Tail(calls)
                 K == ContractOf(Cfg, k, t, generated, t, generated)
      <4>1. Works(EngineContract(k), todo[w], EngineState(w))
        BY <1>3 DEF EngineWorks
      <4>2. EngineContract(k) = ContractOf(Cfg, k, calls, Before, Onward, generated)
        BY DEF EngineContract
      <4>3. EngineContract(k)' = K
        BY <1>1, <1>4
      <4>4. todo[w] \in Seq(Lists(Ops))
        BY <1>2
      <4> HIDE DEF k, K
      <4>5. CASE waiting /\ Len(todo[w]) = 0
        <5>1. EngineState(w) \in Stage(Cfg, k, t, generated)
          <6>1. Onward = t
            BY <4>5 DEF Onward
          <6>2. EngineContract(k).after = Stage(Cfg, k, t, generated)
            BY <4>2, <6>1, ContractIs
          <6> QED
            BY <4>1, <4>5, <6>2, WorksEmpty
        <5>2. K.after = Stage(Cfg, k, t, generated)
          BY ContractIs DEF K
        <5>3. Works(K, todo[w], EngineState(w))
          BY <4>5, <5>1, <5>2, WorksEmpty
        <5> QED
          BY <1>1, <1>5, <4>3, <5>3 DEF k
      <4>6. CASE Left(todo[w]) /\ calls[1] \in QuietCalls
        <5>1. generated = Before
          BY <1>6, <4>6 DEF QuietCalls, Gen
        <5>2. CallsOrder(Cfg.mode, calls, generated)
          BY <1>2, <1>3, <5>1 DEF EngineOrder
        <5>3. Core(Cfg, k, t, generated) = Core(Cfg, k, calls, generated)
          BY <1>2, <4>6, <5>2, StageQuiet
        <5>4. Stage(Cfg, k, t, generated) = Stage(Cfg, k, calls, generated)
          BY <5>3 DEF Stage
        <5>5. Onward \in {calls, t}
          BY DEF Onward
        <5>6. Stage(Cfg, k, Onward, generated) = Stage(Cfg, k, t, generated)
          BY <5>4, <5>5
        <5>7. Works(ContractOf(Cfg, k, calls, generated, Onward, generated), todo[w], EngineState(w))
          BY <4>1, <4>2, <5>1
        <5>8. Works(K, todo[w], EngineState(w))
          BY <4>4, <4>6, <5>4, <5>6, <5>7, LeftOther DEF K
        <5> QED
          BY <1>1, <1>5, <4>3, <5>8 DEF k
      <4> QED
        BY <4>5, <4>6
    <3> QED
      BY <1>1, <3>1 DEF EngineWorks
  <2> QED
    BY <2>2, <2>3
<1>9. \A w \in Actors : Fine(w)'
  BY <1>1, <1>5 DEF EngineInv, Fine
<1>10. EngineTyped' /\ (\A w \in Workers : w \notin Actors => Plain(todo'[w]))
  BY <1>1 DEF EngineInv, EngineTyped
<1>11. phase' # "starting" /\ generated' \in Nat
  BY <1>2
<1> QED
  BY <1>1, <1>8, <1>9, <1>10, <1>11 DEF EngineInv

\* The tracker, a result and an exception.
LEMMA EngineReturn ==
  ASSUME EngineInv, Track \/ Return \/ Except
  PROVE  EngineInv'
<1>1. NoiseInv'
  BY NoiseReturn DEF EngineInv
<1>2. /\ phase = "calling" /\ Control /\ EngineOrder
      /\ UNCHANGED <<job, first, generated, todo, failed, onGpu, model, engine, random, disk>>
  <2>1. phase = "calling"
    BY DEF Track, Return, Except
  <2>2. UNCHANGED <<job, first, generated, todo, failed, onGpu, model, engine, random, disk>>
    BY DEF Track, Return, Except, startVars, workVars
  <2> QED
    BY <2>1, <2>2 DEF EngineInv, NoiseInv
<1>3. /\ Actors \subseteq Workers /\ job.mode \in {"sync", "async"} /\ Len(calls) \in Nat /\ Between(calls, 1, 19)
      /\ calls = <<>> <=> Len(calls) = 0
      /\ \A w \in Workers : todo[w] \in Seq(Lists(Ops)) /\ Len(todo[w]) \in Nat
  BY EngineInvIs
<1>4. Len(calls) > 0 => calls[1] = Head(calls) /\ calls[1] \in CallNames /\ Has(calls, calls[1])
  BY CallsGo DEF EngineInv, NoiseInv
<1>5. CASE Track
  <2>1. Len(calls) > 0 /\ calls[1] = "track" /\ calls' = Tail(calls) /\ waiting' = waiting /\ phase' = phase
    <3>1. calls # <<>> /\ Head(calls) = "track" /\ calls' = Tail(calls) /\ waiting' = waiting /\ phase' = phase
      BY <1>5 DEF Track
    <3>2. Len(calls) > 0
      BY <1>3, <3>1
    <3> QED
      BY <1>4, <3>1, <3>2
  <2>2. ~waiting /\ \A w \in Workers : Left(todo[w])
    BY <1>2, <2>1 DEF Control
  <2>3. calls[1] \in QuietCalls /\ ~Early(calls[1])
    <3>1. ~Early("track")
      BY CallKinds
    <3> QED
      BY <2>1, <3>1 DEF QuietCalls
  <2>4. job.mode = "async" => \A w \in Workers : Len(todo[w]) = 0
    BY <1>2, <1>3, <2>2 DEF EngineOrder, QueueShort
  <2>5. \A w \in Actors : ~FailedLoad(w)
    BY <2>2 DEF FailedLoad
  <2>6. waiting' = FALSE
    BY <2>1, <2>2, EngineInvIs
  <2> QED
    BY <1>1, <1>2, <1>3, <2>1, <2>2, <2>3, <2>4, <2>5, <2>6, EngineGo
<1>6. CASE Return
  <2>1. /\ Len(calls) > 0 /\ waiting /\ failed = {} /\ calls' = Tail(calls) /\ waiting' = FALSE
        /\ phase' \in {"calling", "raised"} /\ \A w \in GroupOf(calls[1]) : todo[w] = <<>>
    <3>1. waiting /\ Len(calls) > 0
      BY <1>2, <1>6 DEF Return, Control
    <3> QED
      BY <1>2, <1>4, <1>6, <3>1 DEF Return
  <2>2. ASSUME NEW w \in Workers, w \in GroupOf(calls[1]) PROVE Len(todo[w]) = 0
    <3>1. todo[w] = <<>>
      BY <2>1, <2>2
    <3> QED
      BY <3>1
  <2>3. \A w \in Actors : (waiting /\ Len(todo[w]) = 0) \/ (Left(todo[w]) /\ calls[1] \in QuietCalls)
    <3> SUFFICES ASSUME NEW w \in Actors, w \notin GroupOf(calls[1])
                 PROVE  Left(todo[w]) /\ calls[1] \in QuietCalls
      BY <1>3, <2>1, <2>2
    <3>1. calls[1] \in {"init_critic", "values", "update_critic", "save_critic", "load_critic"}
      BY DEF GroupOf
    <3>2. Left(todo[w])
      BY <1>2, <1>3, <2>1 DEF Control
    <3> QED
      BY <3>1, <3>2 DEF QuietCalls
  <2>4. job.mode = "async" \/ Early(calls[1]) => \A w \in Workers : Len(todo[w]) = 0
    <3> SUFFICES ASSUME job.mode = "async" \/ Early(calls[1]), NEW w \in Workers PROVE Len(todo[w]) = 0
      OBVIOUS
    <3>1. w \notin GroupOf(calls[1]) => Len(todo[w]) <= 0
      BY <1>2, <2>1 DEF EngineOrder, QueueShort
    <3> QED
      BY <1>3, <2>2, <3>1
  <2>5. \A w \in Actors : ~FailedLoad(w)
    BY <2>1 DEF FailedLoad
  <2> QED
    BY <1>1, <1>2, <2>1, <2>3, <2>4, <2>5, EngineGo
<1>7. CASE Except
  <2>1. /\ Len(calls) > 0 /\ waiting /\ waiting' = FALSE
        /\ IF calls[1] = "analyze" THEN calls' = Tail(calls) /\ phase' = phase ELSE phase' = "raised" /\ calls' = calls
    <3>1. waiting /\ Len(calls) > 0
      BY <1>2, <1>7 DEF Except, Control
    <3> QED
      BY <1>4, <1>7, <3>1 DEF Except
  <2>2. CASE calls[1] = "analyze"
    <3>1. \A w \in Workers : Left(todo[w])
      BY <1>2, <2>1, <2>2 DEF Control
    <3>2. calls[1] \in QuietCalls /\ calls[1] \notin Loads /\ ~Early(calls[1])
      <4>1. ~Early("analyze")
        BY CallKinds
      <4> QED
        BY <2>2, <4>1 DEF QuietCalls, Loads
    <3>3. job.mode # "async"
      BY <1>2, <1>4, <2>1, <2>2 DEF EngineOrder, CallsOrder
    <3>4. \A w \in Actors : ~FailedLoad(w)
      BY <3>2 DEF FailedLoad
    <3> QED
      BY <1>1, <1>2, <1>3, <2>1, <2>2, <3>1, <3>2, <3>3, <3>4, EngineGo
  <2>3. CASE calls[1] # "analyze"
    <3>1. phase' = "raised" /\ calls' = calls
      BY <2>1, <2>3
    <3>2. /\ Workers' = Workers /\ Actors' = Actors /\ Cfg' = Cfg /\ \A w : Engine(w)' = Engine(w)
      BY <1>2, EngineNext
    <3>3. \A w : EngineState(w)' = EngineState(w)
      BY <1>2 DEF EngineState
    <3>4. \A w \in Actors : Fine(w)'
      BY <1>2, <3>2, <3>3 DEF EngineInv, Fine
    <3>5. EngineTyped' /\ (\A w \in Workers : w \notin Actors => Plain(todo'[w]))
      BY <1>2, <3>2 DEF EngineInv, EngineTyped
    <3>6. generated' \in Nat
      BY <1>2 DEF EngineInv
    <3> QED
      BY <1>1, <3>1, <3>2, <3>4, <3>5, <3>6 DEF EngineInv
  <2> QED
    BY <2>2, <2>3
<1> QED
  BY <1>5, <1>6, <1>7

\* A step of a process keeps it to its contract, or the load of its checkpoint raises.
LEMMA EngineWorkerStep ==
  ASSUME EngineInv, phase = "calling", NEW w \in Actors, failed \subseteq failed',
         UNCHANGED <<calls, waiting>>,
         EngineStays(w) \/ EngineDoes(w) \/ EngineDrops(w)
  PROVE  \/ Works(EngineContract(Engine(w)), todo'[w], EngineState(w)')
         \/ FailedLoad(w)' /\ EngineState(w)' = EngineState(w)
<1> DEFINE k == Engine(w)
           K == EngineContract(k)
           q == todo[w]
           s == EngineState(w)
<1>1. /\ w \in Workers /\ job.mode \in {"sync", "async"} /\ generated \in Nat /\ Between(calls, 1, 19)
      /\ Cfg.mode = job.mode /\ q \in Seq(Lists(Ops)) /\ Len(q) \in Nat /\ s \in EngineStates
      /\ waiting \in BOOLEAN
  BY EngineInvIs
<1>2. EngineOrder /\ EngineWorks /\ Control
  BY DEF EngineInv, NoiseInv
<1>3. /\ K.states = EngineStates /\ K.moves = EngineMoves(k)
      /\ K.right = EngineRight(Cfg, k, calls, Before, generated)
      /\ K.idle = Stage(Cfg, k, calls, Before) /\ K.after = Stage(Cfg, k, Onward, generated)
  BY ContractIs DEF EngineContract
<1>4. Works(K, q, s) \/ FailedLoad(w)
  BY <1>2 DEF EngineWorks
<1>5. FailedLoad(w) => Len(q) = 0
  BY DEF FailedLoad
<1> HIDE DEF K
<1>6. CASE EngineStays(w)
  <2>1. todo'[w] = q /\ EngineState(w)' = s
    BY <1>6 DEF EngineStays
  <2>2. FailedLoad(w) => FailedLoad(w)'
    BY <2>1 DEF FailedLoad
  <2> QED
    BY <1>4, <2>1, <2>2 DEF K
<1>7. CASE EngineDoes(w)
  <2>1. /\ Len(q) > 0 /\ todo'[w] = RestOf(q) /\ EngineState(w)' \in K.states
        /\ <<q[1][1], s, EngineState(w)'>> \in K.moves
    BY <1>3, <1>7 DEF EngineDoes
  <2>2. Works(K, q, s)
    BY <1>1, <1>4, <1>5, <2>1
  <2>3. s \in K.states
    BY <1>1, <1>3
  <2> DEFINE t == EngineState(w)'
  <2> HIDE DEF q, s, k
  <2>4. Works(K, RestOf(q), t)
    <3>1. q \in Seq(Lists(Ops)) /\ t \in K.states /\ <<q[1][1], s, t>> \in K.moves /\ Len(q) > 0
      BY <1>1, <2>1 DEF q, s
    <3> HIDE DEF t
    <3> QED
      BY <2>2, <2>3, <3>1, WorksStep
  <2> QED
    BY <2>1, <2>4 DEF K, k
<1>8. CASE EngineDrops(w)
  <2>1. /\ Len(q) > 0 /\ todo'[w] = Tail(q) /\ EngineState(w)' = s /\ Len(Tail(q)) = Len(q) - 1
        /\ q[1][1][1] = "restore" \/ (q[1][1][1] = "forward" /\ q[1][1][2].for = "analyze")
        /\ Len(q) = 1 => w \in failed'
    BY <1>1, <1>8 DEF EngineDrops
  <2>2. Works(K, q, s)
    BY <1>1, <1>4, <1>5, <2>1
  <2>3. <<q[1][1], s>> \in EngineRight(Cfg, k, calls, Before, generated)
    BY <1>1, <1>3, <2>1, <2>2, WorksNext
  <2>4. CASE q[1][1][1] = "restore"
    <3>1. Len(calls) > 0 /\ calls[1] \in Loads
      BY <2>3, <2>4 DEF EngineRight
    <3>2. Early(calls[1])
      BY <3>1, CallKinds DEF Loads
    <3>3. Len(q) <= IF waiting /\ w \in GroupOf(calls[1]) THEN 1 ELSE 0
      BY <1>1, <1>2, <3>1, <3>2 DEF EngineOrder, QueueShort
    <3>4. waiting /\ Len(q) = 1
      <4>1. \A n \in Nat : n > 0 => ~(n <= 0) /\ (n <= 1 => n = 1)
        OBVIOUS
      <4>2. Len(q) \in Nat /\ Len(q) > 0
        BY <1>1, <2>1
      <4> HIDE DEF q
      <4>3. waiting /\ w \in GroupOf(calls[1])
        BY <3>3, <4>1, <4>2
      <4> QED
        BY <3>3, <4>1, <4>2, <4>3
    <3>5. Len(todo'[w]) = 0 /\ w \in failed'
      BY <2>1, <3>4
    <3>6. FailedLoad(w)'
      BY <3>1, <3>4, <3>5 DEF FailedLoad
    <3> QED
      BY <2>1, <3>6
  <2>5. CASE q[1][1][1] = "forward" /\ q[1][1][2].for = "analyze"
    <3>1. Cfg.mode = "sync" /\ s \in Stage(Cfg, k, calls, Before)
      BY <2>3, <2>5 DEF EngineRight
    <3>2. s \in OfCall(K, q, 1)
      <4>1. CASE Len(q) # 1
        BY <1>3, <3>1, <4>1 DEF OfCall
      <4>2. CASE Len(q) = 1 /\ ~waiting
        <5>1. Onward = calls /\ Before = generated
          BY <4>2 DEF Onward, Before
        <5> QED
          BY <1>3, <3>1, <4>2, <5>1 DEF OfCall
      <4>3. CASE Len(q) = 1 /\ waiting
        <5>1. Len(calls) > 0 /\ calls[1] # "track" /\ calls[1] \in CallNames /\ Has(calls, calls[1])
          BY <1>2, <4>3, CallsGo DEF EngineInv, NoiseInv, EngineInv, Control
        <5>2. calls[1] \notin Gen \cup {"init_actor"}
          <6> SUFFICES ASSUME calls[1] \in Gen \cup {"init_actor"} PROVE FALSE
            OBVIOUS
          <6>1. GroupOf(calls[1]) = Actors
            BY DEF GroupOf, Gen
          <6>2. StillAsked(q[Len(q)])
            BY <1>1, <1>2, <2>1, <4>3, <6>1 DEF EngineOrder, LastCall
          <6>3. q[1] \in Seq({op \in Ops : op[1] # "forward"}) /\ Len(q[1]) > 0
            <7>1. q[1] \in Lists(Ops)
              BY <1>1, <2>1
            <7> QED
              BY <4>3, <6>2, <7>1 DEF StillAsked, Lists
          <6>4. q[1][1] \in {op \in Ops : op[1] # "forward"}
            BY <6>3
          <6> QED
            BY <2>5, <6>4
        <5>3. calls[1] \in QuietCalls
          <6>1. calls[1] \notin {"wake_up", "sleep", "init_engine"}
            BY <1>1, <1>2, <3>1, <5>1 DEF EngineOrder, CallsOrder
          <6> QED
            BY <5>1, <5>2, <6>1 DEF CallNames, QuietCalls, Gen
        <5>4. Before = generated /\ Onward = Tail(calls)
          BY <4>3, <5>2 DEF Before, Onward
        <5>5. Stage(Cfg, k, Tail(calls), generated) = Stage(Cfg, k, calls, generated)
          <6>1. CallsOrder(Cfg.mode, calls, generated)
            BY <1>1, <1>2, <5>4 DEF EngineOrder
          <6>2. Core(Cfg, k, Tail(calls), generated) = Core(Cfg, k, calls, generated)
            BY <1>1, <5>1, <5>3, <6>1, StageQuiet
          <6> QED
            BY <6>2 DEF Stage
        <5> QED
          BY <1>3, <3>1, <4>3, <5>4, <5>5 DEF OfCall
      <4> QED
        BY <4>1, <4>2, <4>3
    <3>3. Works(K, Tail(q), s)
      BY <1>1, <2>1, <2>2, <3>2, WorksDrop
    <3> QED
      BY <2>1, <3>3 DEF K
  <2> QED
    BY <2>1, <2>4, <2>5
<1> QED
  BY <1>6, <1>7, <1>8

\* The steps of the processes.
LEMMA EngineWorking ==
  ASSUME EngineInv, Working
  PROVE  EngineInv'
<1>1. NoiseInv'
  BY NoiseWorking DEF EngineInv
<1>2. phase = "calling" /\ WorkNext /\ UNCHANGED <<phase, calls, waiting, first, generated>>
  BY DEF Working, fitVars
<1>3. job \in Jobs /\ WorkTyped /\ EngineTyped
  BY DEF EngineInv, NoiseInv, NoiseTyped
<1>4. /\ EngineTyped' /\ failed \subseteq failed' /\ job' = job
      /\ \A v \in Workers : EngineStays(v) \/ EngineDoes(v) \/ EngineDrops(v)
  BY <1>2, <1>3, EngineWork
<1>5. /\ Workers' = Workers /\ Actors' = Actors /\ Cfg' = Cfg /\ \A w : Engine(w)' = Engine(w)
  BY <1>2, <1>4, EngineNext
<1>6. \A k : EngineContract(k)' = EngineContract(k)
  BY <1>2, <1>5 DEF EngineContract, Before, Onward
<1>7. /\ Actors \subseteq Workers /\ Cfg.mode \in {"sync", "async"} /\ generated \in Nat
      /\ \A w \in Workers : todo[w] \in Seq(Lists(Ops)) /\ Len(todo[w]) \in Nat /\ EngineState(w) \in EngineStates
  BY EngineInvIs
<1>8. EngineOrder /\ EngineWorks
  BY <1>2 DEF EngineInv
<1>9. \A w \in Workers : todo'[w] \in Seq(Lists(Ops)) /\ Len(todo'[w]) \in Nat /\ EngineState(w)' \in EngineStates
  <2>1. ASSUME NEW w \in Workers PROVE todo'[w] \in Seq(Lists(Ops)) /\ Len(todo'[w]) \in Nat
    <3>1. CASE EngineStays(w)
      BY <1>7, <3>1 DEF EngineStays
    <3>2. CASE EngineDoes(w)
      <4>1. todo'[w] = RestOf(todo[w]) /\ Len(todo[w]) > 0
        BY <3>2 DEF EngineDoes
      <4>2. RestOf(todo[w]) \in Seq(Lists(Ops))
        BY <1>7, <4>1, RestIs
      <4> QED
        BY <4>1, <4>2
    <3>3. CASE EngineDrops(w)
      <4>1. todo'[w] = Tail(todo[w]) /\ Len(todo[w]) > 0
        BY <3>3 DEF EngineDrops
      <4>2. Tail(todo[w]) \in Seq(Lists(Ops))
        BY <1>7, <4>1
      <4> QED
        BY <4>1, <4>2
    <3> QED
      BY <1>4, <3>1, <3>2, <3>3
  <2>2. \A w \in Workers : EngineState(w)' \in EngineStates
    BY <1>4, <1>5, EngineStateTyped
  <2> QED
    BY <2>1, <2>2
<1>10. \A w \in Actors : \/ Works(EngineContract(Engine(w)), todo'[w], EngineState(w)')
                         \/ FailedLoad(w)' /\ EngineState(w)' = EngineState(w)
  BY <1>2, <1>4, <1>7, EngineWorkerStep
<1>11. EngineWorks'
  BY <1>5, <1>6, <1>10 DEF EngineWorks
<1>12. \A w \in Actors : Fine(w)'
  <2> SUFFICES ASSUME NEW w \in Actors PROVE Fine(w)'
    OBVIOUS
  <2>1. CASE Works(EngineContract(Engine(w)), todo'[w], EngineState(w)')
    <3> DEFINE q == todo'[w]
               s == EngineState(w)'
               k == Engine(w)
    <3>1. Works(ContractOf(Cfg, k, calls, Before, Onward, generated), q, s)
      BY <2>1 DEF EngineContract
    <3>2. q \in Seq(Lists(Ops)) /\ s \in EngineStates
      BY <1>7, <1>9
    <3> HIDE DEF q, s, k
    <3>3. RoomAt(Cfg, s, generated) /\ (Len(q) > 0 /\ q[1][1][1] = "generate" => Generates(Cfg, k, s.core, generated))
      BY <1>7, <3>1, <3>2, FineFrom
    <3> QED
      BY <1>2, <1>5, <3>3 DEF Fine, q, s, k
  <2>2. CASE FailedLoad(w)' /\ EngineState(w)' = EngineState(w)
    <3>1. RoomAt(Cfg, EngineState(w), generated)
      BY DEF EngineInv, Fine
    <3>2. ~(Len(todo'[w]) > 0)
      BY <2>2 DEF FailedLoad
    <3> QED
      BY <1>2, <1>5, <2>2, <3>1, <3>2 DEF Fine
  <2> QED
    BY <1>10, <2>1, <2>2
<1>13. \A w \in Workers : /\ Len(todo'[w]) <= Len(todo[w])
                          /\ \A S : Within(todo[w], S) => Within(todo'[w], S)
                          /\ \A S : (Len(todo[w]) > 0 => todo[w][Len(todo[w])] \in Seq(S)) =>
                                      (Len(todo'[w]) > 0 => todo'[w][Len(todo'[w])] \in Seq(S))
  <2> SUFFICES ASSUME NEW w \in Workers, NEW S
               PROVE  /\ Len(todo'[w]) <= Len(todo[w])
                      /\ Within(todo[w], S) => Within(todo'[w], S)
                      /\ (Len(todo[w]) > 0 => todo[w][Len(todo[w])] \in Seq(S)) =>
                           (Len(todo'[w]) > 0 => todo'[w][Len(todo'[w])] \in Seq(S))
    OBVIOUS
  <2>1. CASE EngineStays(w)
    <3>1. todo'[w] = todo[w]
      BY <2>1 DEF EngineStays
    <3> QED
      BY <1>7, <3>1
  <2> DEFINE q == todo[w]
             r == todo'[w]
  <2>2. CASE EngineDoes(w) \/ EngineDrops(w)
    <3>1. Len(q) > 0 /\ (r = RestOf(q) \/ r = Tail(q))
      BY <2>2 DEF EngineDoes, EngineDrops
    <3>2. q \in Seq(Lists(Ops)) /\ Len(q) \in Nat
      BY <1>7
    <3> HIDE DEF q, r
    <3>3. /\ Len(RestOf(q)) \in Nat /\ Len(RestOf(q)) <= Len(q) /\ Len(Tail(q)) = Len(q) - 1
          /\ Within(q, S) => Within(RestOf(q), S) /\ Within(Tail(q), S)
          /\ q[Len(q)] \in Seq(S) =>
               /\ Len(RestOf(q)) > 0 => RestOf(q)[Len(RestOf(q))] \in Seq(S)
               /\ Len(Tail(q)) > 0 => Tail(q)[Len(Tail(q))] \in Seq(S)
      BY <3>1, <3>2, QueueRest
    <3>4. Len(r) <= Len(q)
      BY <3>1, <3>2, <3>3
    <3>5. Within(q, S) => Within(r, S)
      BY <3>1, <3>3
    <3>6. q[Len(q)] \in Seq(S) => (Len(r) > 0 => r[Len(r)] \in Seq(S))
      BY <3>1, <3>3
    <3> QED
      BY <3>1, <3>4, <3>5, <3>6 DEF q, r
  <2> QED
    BY <1>4, <2>1, <2>2
<1>14. EngineOrder'
  <2>1. QueueShort'
    <3>1. ASSUME NEW w \in Workers, job.mode = "async" \/ (Len(calls) > 0 /\ Early(calls[1]))
          PROVE  Len(todo'[w]) <= IF waiting /\ w \in GroupOf(calls[1]) THEN 1 ELSE 0
      <4>1. Len(todo[w]) <= IF waiting /\ w \in GroupOf(calls[1]) THEN 1 ELSE 0
        BY <1>8, <3>1 DEF EngineOrder, QueueShort
      <4>2. Len(todo'[w]) \in Nat /\ Len(todo[w]) \in Nat /\ Len(todo'[w]) <= Len(todo[w])
        BY <1>7, <1>9, <1>13
      <4> QED
        BY <4>1, <4>2
    <3>2. \A call : GroupOf(call)' = GroupOf(call)
      BY <1>4, <1>5 DEF GroupOf, Group, PoolOf
    <3> QED
      BY <1>2, <1>4, <1>5, <3>1, <3>2 DEF QueueShort, GroupOf, Group, PoolOf
  <2>2. LastCall'
    <3>1. ASSUME waiting, calls[1] \in Gen \cup {"init_actor"}, NEW w \in Workers, w \in GroupOf(calls[1]), Len(todo'[w]) > 0
          PROVE  StillAsked(todo'[w][Len(todo'[w])])
      <4> DEFINE S == {op \in Ops : op[1] # "forward"}
      <4>1. Len(todo[w]) > 0 => todo[w][Len(todo[w])] \in Seq(S)
        BY <1>8, <3>1 DEF EngineOrder, LastCall, StillAsked
      <4> HIDE DEF S
      <4>2. todo'[w][Len(todo'[w])] \in Seq(S)
        BY <1>13, <3>1, <4>1
      <4> QED
        BY <4>2 DEF S, StillAsked
    <3> QED
      BY <1>2, <1>4, <1>5, <3>1 DEF LastCall, GroupOf, Group, PoolOf
  <2>3. Before' = Before
    BY <1>2 DEF Before
  <2> QED
    BY <1>2, <1>4, <1>8, <2>1, <2>2, <2>3 DEF EngineOrder
<1>15. \A w \in Workers : w \notin Actors => Plain(todo'[w])
  <2>1. \A q : Plain(q) <=> Within(q, PlainOps)
    BY DEF Plain, Within
  <2>2. \A w \in Workers : w \notin Actors => Plain(todo[w])
    BY DEF EngineInv
  <2> QED
    BY <1>13, <2>1, <2>2
<1> QED
  BY <1>1, <1>2, <1>4, <1>5, <1>7, <1>11, <1>12, <1>14, <1>15 DEF EngineInv

\* Two lists of which one is not empty.
LEMMA LongConcat ==
  ASSUME NEW S, NEW a \in Seq(S), NEW b \in Seq(S)
  PROVE  Len(a) > 0 \/ Len(b) > 0 => Len(a \o b) > 0
<1>1. Len(a) \in Nat /\ Len(b) \in Nat /\ Len(a \o b) = Len(a) + Len(b)
  BY ConcatIs
<1> QED
  BY <1>1

\* A generation and the model's initialisation have no analysis in them.
LEMMA AskedMethods ==
  ASSUME NEW u \in Noises, NEW what \in Whats
  PROVE  /\ StillAsked(GenerateSequences(u, what)) /\ Len(GenerateSequences(u, what)) > 0
         /\ StillAsked(Serve(what)) /\ Len(Serve(what)) > 0
         /\ StillAsked(InitActor) /\ Len(InitActor) > 0
<1> DEFINE S == {op \in Ops : op[1] # "forward"}
           g == <<"generate", what>>
<1>1. PlainOps \subseteq S
  BY DEF PlainOps
<1>2. \A q : q \in Seq(PlainOps) => q \in Seq(S)
  BY <1>1
<1>3. Enter \in Seq(S) /\ Exit \in Seq(S)
  BY <1>2, PlainSwitch
<1>4. g \in S
  BY DEF Ops, WordOps, PassOps
<1>5. Hook("engine", "eval", u) \in Seq(S) /\ Unhook(u) \in Seq(S)
  <2> DEFINE h == [where |-> "engine", phase |-> "eval", noise |-> u]
             hk == <<"hook", h>>
             uk == <<"unhook", "">>
  <2>1. h \in HookArgs
    BY DEF HookArgs
  <2>2. hk \in S /\ uk \in S
    <3> HIDE DEF h
    <3> QED
      BY <2>1 DEF Ops, WordOps, PassOps, Words
  <2>3. /\ Hook("engine", "eval", u) = IF u = {} THEN <<>> ELSE <<hk>>
        /\ Unhook(u) = IF u = {} THEN <<>> ELSE <<uk>>
    BY DEF Hook, Unhook
  <2> HIDE DEF S, hk, uk
  <2>4. <<>> \in Seq(S)
    OBVIOUS
  <2>5. <<hk>> \in Seq(S)
    BY <2>2, ShortLists
  <2>6. <<uk>> \in Seq(S)
    BY <2>2, ShortLists
  <2> QED
    BY <2>3, <2>4, <2>5, <2>6
<1> HIDE DEF g
<1>6. <<g>> \in Seq(S) /\ Len(<<g>>) > 0
  BY <1>4
<1>7. GenerateSequences(u, what) \in Seq(S) /\ Len(GenerateSequences(u, what)) > 0
  <2> HIDE DEF S
  <2>1. Enter \o Hook("engine", "eval", u) \in Seq(S)
    BY <1>3, <1>5, SeqOn
  <2>2. Enter \o Hook("engine", "eval", u) \o <<g>> \in Seq(S) /\ Len(Enter \o Hook("engine", "eval", u) \o <<g>>) > 0
    BY <1>6, <2>1, SeqOn, LongConcat
  <2>3. /\ Enter \o Hook("engine", "eval", u) \o <<g>> \o Unhook(u) \in Seq(S)
        /\ Len(Enter \o Hook("engine", "eval", u) \o <<g>> \o Unhook(u)) > 0
    BY <1>5, <2>2, SeqOn, LongConcat
  <2>4. /\ Enter \o Hook("engine", "eval", u) \o <<g>> \o Unhook(u) \o Exit \in Seq(S)
        /\ Len(Enter \o Hook("engine", "eval", u) \o <<g>> \o Unhook(u) \o Exit) > 0
    BY <1>3, <2>3, SeqOn, LongConcat
  <2> QED
    BY <2>4 DEF GenerateSequences, g
<1>8. Serve(what) \in Seq(S) /\ Len(Serve(what)) > 0
  BY <1>6 DEF Serve, g
<1>9. InitActor \in Seq(S) /\ Len(InitActor) > 0
  <2> DEFINE x1 == <<"build", "actor">>
             x2 == <<"build_engine", "">>
             x3 == <<"build_manager", "">>
             a == <<x1>>
             b == Offload("actor")
             o == Offload("actor_optim")
             e == IF job.mode = "sync" THEN <<x2>> ELSE <<>>
             d == <<x3>>
  <2>1. x1 \in S /\ x2 \in S /\ x3 \in S
    BY DEF Ops, WordOps, PassOps, Words, Parts
  <2>2. b \in Seq(S) /\ o \in Seq(S)
    BY <1>2, PlainParts DEF Parts
  <2>3. a \in Seq(S) /\ e \in Seq(S) /\ d \in Seq(S) /\ Len(d) > 0
    <3> HIDE DEF S, x1, x2, x3
    <3>1. <<>> \in Seq(S)
      OBVIOUS
    <3>2. <<x1>> \in Seq(S)
      BY <2>1, ShortLists
    <3>3. <<x2>> \in Seq(S)
      BY <2>1, ShortLists
    <3>4. <<x3>> \in Seq(S)
      BY <2>1, ShortLists
    <3>5. Len(<<x3>>) > 0
      OBVIOUS
    <3> QED
      BY <3>1, <3>2, <3>3, <3>4, <3>5
  <2>4. InitActor = a \o b \o o \o e \o d
    BY DEF InitActor
  <2> HIDE DEF S, a, b, o, e, d
  <2>5. a \o b \o o \in Seq(S)
    BY <2>2, <2>3, SeqOn
  <2>6. a \o b \o o \o e \in Seq(S)
    BY <2>3, <2>5, SeqOn
  <2>7. a \o b \o o \o e \o d \in Seq(S) /\ Len(a \o b \o o \o e \o d) > 0
    BY <2>3, <2>6, SeqOn, LongConcat
  <2> QED
    BY <2>4, <2>7
<1> QED
  BY <1>7, <1>8, <1>9 DEF StillAsked

\* A call takes an engine on to the next stage, after what is left of the calls before.
LEMMA EngineCallOne ==
  ASSUME EngineInv, Call, NEW w \in Actors
  PROVE  Works(ContractOf(Cfg, Engine(w), calls, generated, Tail(calls), generated'), todo'[w], EngineState(w))
<1> DEFINE k == Engine(w)
           q == todo[w]
           s == EngineState(w)
           l == calls
           n == generated
           g == generated'
           c == Cfg
           m == Method(l[1], w)
           K == [states |-> EngineStates, moves |-> EngineMoves(k), right |-> EngineRight(c, k, l, n, g),
                 idle |-> Stage(c, k, l, n), after |-> Stage(c, k, l, n)]
           L == ContractOf(c, k, l, n, Tail(l), g)
<1>1. /\ phase = "calling" /\ ~waiting /\ Len(l) > 0 /\ Head(l) = l[1] /\ l[1] # "track" /\ l[1] \in CallNames
      /\ Has(l, l[1])
  <2>1. phase = "calling" /\ ~waiting /\ calls # <<>> /\ Head(calls) # "track"
    BY DEF Call
  <2>2. Len(l) > 0
    BY <2>1, EngineInvIs
  <2> QED
    BY <2>1, <2>2, CallsGo DEF EngineInv, NoiseInv
<1>2. /\ w \in Workers /\ c.mode = job.mode /\ c.offload = job.offload /\ c.tags = job.tags /\ c.mode \in {"sync", "async"}
      /\ c.known = (job.mode = "sync" \/ first = 1)
      /\ n \in Nat /\ Between(l, 1, 19) /\ q \in Seq(Lists(Ops)) /\ Len(q) \in Nat /\ s \in EngineStates
      /\ step \in Nat /\ tracked \in Nat
  BY EngineInvIs
<1>3. EngineOrder /\ EngineWorks /\ Left(q) /\ Before = n /\ Onward = l
  BY <1>1, <1>2 DEF EngineInv, NoiseInv, Control, Before, Onward
<1>4. Works(ContractOf(c, k, l, n, l, n), q, s)
  <2>1. ~FailedLoad(w)
    BY <1>1 DEF FailedLoad
  <2> QED
    BY <1>3, <2>1 DEF EngineWorks, EngineContract
<1>5. /\ todo'[w] = IF w \in GroupOf(l[1]) /\ m # <<>> THEN Append(q, m) ELSE q
      /\ g = IF l[1] \in Gen THEN n + 1 ELSE n
  BY <1>1, <1>2 DEF Call, Gen
<1>6. CallsOrder(c.mode, l, n)
  BY <1>2, <1>3 DEF EngineOrder
<1>7. c.mode = "async" => Len(q) = 0 /\ s \in Stage(c, k, l, n)
  <2> SUFFICES ASSUME c.mode = "async" PROVE Len(q) = 0 /\ s \in Stage(c, k, l, n)
    OBVIOUS
  <2>1. Len(q) <= 0
    BY <1>1, <1>2, <1>3 DEF EngineOrder, QueueShort
  <2>2. Len(q) = 0
    BY <1>2, <2>1
  <2> QED
    BY <1>4, <2>2, WorksEmpty, ContractIs
<1>8. /\ K.states = EngineStates /\ K.moves = EngineMoves(k) /\ K.right = EngineRight(c, k, l, n, g)
      /\ K.idle = Stage(c, k, l, n) /\ K.after = Stage(c, k, l, n) /\ IsEngine(K, c, k, l, n, g)
  BY DEF IsEngine
<1>9. /\ L.states = EngineStates /\ L.moves = EngineMoves(k) /\ L.right = EngineRight(c, k, l, n, g)
      /\ L.idle = Stage(c, k, l, n) /\ L.after = Stage(c, k, Tail(l), g)
  BY ContractIs
<1> HIDE DEF K, L
<1>10. Works(K, q, s)
  <2>1. CASE c.mode = "async"
    BY <1>7, <1>8, <2>1, WorksEmpty
  <2>2. CASE c.mode = "sync"
    <3> DEFINE M == ContractOf(c, k, l, n, l, n)
    <3>1. /\ M.states = EngineStates /\ M.moves = EngineMoves(k) /\ M.right = EngineRight(c, k, l, n, n)
          /\ M.idle = Stage(c, k, l, n) /\ M.after = Stage(c, k, l, n)
      BY ContractIs
    <3>2. Works(M, q, s)
      BY <1>4
    <3> HIDE DEF M
    <3>3. ASSUME NEW p \in 1..Len(q), NEW i \in 1..Len(q[p]) PROVE q[p][i] \in AnalysisOps
      <4>1. q[p] \in Seq(AnalysisOps)
        BY <1>3 DEF Left
      <4> QED
        BY <4>1
    <3> HIDE DEF q, s, k, l, n, g, c
    <3>4. \A op \in AnalysisOps : \A z : <<op, z>> \in EngineRight(c, k, l, n, n) => <<op, z>> \in EngineRight(c, k, l, n, g)
      BY <2>2, LeftRight
    <3>5. \A p \in 1..Len(q) : \A i \in 1..Len(q[p]) : \A z \in M.states :
            <<q[p][i], z>> \in M.right => <<q[p][i], z>> \in K.right
      BY <1>8, <3>1, <3>3, <3>4
    <3> QED
      BY <1>2, <1>8, <3>1, <3>2, <3>5, WorksOther
  <2> QED
    BY <1>2, <2>1, <2>2
<1>11. Does(K, m, Stage(c, k, l, n), Stage(c, k, Tail(l), g))
  <2>1. l[1] \in Loads /\ c.mode = "async" => ~c.known
    BY <1>1, <1>2, <1>3 DEF EngineOrder
  <2>2. FindsAsked(l[1])
    BY <1>1, FindsIt DEF EngineInv
  <2> QED
    BY <1>1, <1>2, <1>5, <1>6, <1>7, <1>8, <2>1, <2>2, EngineMethod
<1>12. CASE w \notin GroupOf(l[1])
  <2>1. l[1] \in {"init_critic", "values", "update_critic", "save_critic", "load_critic"}
    BY <1>12 DEF GroupOf
  <2>2. l[1] \in QuietCalls /\ l[1] \notin Gen
    BY <2>1 DEF QuietCalls, Gen
  <2>3. Core(c, k, Tail(l), n) = Core(c, k, l, n)
    BY <1>1, <1>2, <1>6, <2>2, StageQuiet
  <2>4. L.after = K.after
    BY <1>5, <1>8, <1>9, <2>2, <2>3 DEF Stage
  <2>5. todo'[w] = q
    BY <1>5, <1>12
  <2>6. Works(L, q, s)
    <3>1. K.after \subseteq L.after
      BY <2>4
    <3> HIDE DEF q, s
    <3> QED
      BY <1>2, <1>8, <1>9, <1>10, <3>1, WorksMore
  <2> QED
    BY <2>5, <2>6 DEF L
<1>13. CASE w \in GroupOf(l[1]) /\ m = <<>>
  <2>1. todo'[w] = q
    BY <1>5, <1>13
  <2>2. Leads(K, <<>>, K.after, L.after)
    BY <1>8, <1>9, <1>11, <1>13 DEF Does
  <2>3. K.after \subseteq K.states
    BY <1>8 DEF Stage, Spot
  <2>4. K.after \subseteq L.after
    BY <2>2, <2>3, NothingLeads
  <2>5. Works(L, q, s)
    <3> HIDE DEF q, s
    <3> QED
      BY <1>2, <1>8, <1>9, <1>10, <2>4, WorksMore
  <2> QED
    BY <2>1, <2>5 DEF L
<1>14. CASE w \in GroupOf(l[1]) /\ m # <<>>
  <2>1. todo'[w] = Append(q, m)
    BY <1>5, <1>14
  <2>2. m \in Seq(Ops) /\ Leads(K, m, K.idle, L.after)
    BY <1>8, <1>9, <1>11 DEF Does
  <2>3. Len(m) > 0
    <3> HIDE DEF m
    <3>1. (m = <<>> <=> Len(m) = 0) /\ Len(m) \in Nat
      BY <2>2, EmptyQueue
    <3> QED
      BY <1>14, <3>1
  <2>4. m \in Lists(Ops)
    BY <2>2, <2>3 DEF Lists
  <2>5. Works(L, Append(q, m), s)
    <3>1. q \in Seq(Lists(Ops))
      BY <1>2
    <3> HIDE DEF q, s, m
    <3>2. K.after = K.idle /\ L.states = K.states /\ L.moves = K.moves /\ L.right = K.right /\ L.idle = K.idle
      BY <1>8, <1>9
    <3> QED
      BY <1>10, <2>2, <2>4, <3>1, <3>2, WorksCall
  <2> QED
    BY <2>1, <2>5 DEF L
<1> QED
  BY <1>12, <1>13, <1>14

\* A call leaves every queue but those of its group as it is.
LEMMA EngineCall ==
  ASSUME EngineInv, Call
  PROVE  EngineInv'
<1> DEFINE call == calls[1]
           what == [for |-> call, step |-> step]
<1>1. NoiseInv'
  BY NoiseCall DEF EngineInv
<1>2. Len(calls) > 0 /\ Head(calls) = call /\ call \in CallNames /\ call # "track" /\ phase = "calling" /\ ~waiting
  <2>1. phase = "calling" /\ ~waiting /\ calls # <<>> /\ Head(calls) # "track"
    BY DEF Call
  <2>2. Len(calls) > 0
    BY <2>1, EngineInvIs
  <2> QED
    BY <2>1, <2>2, CallsGo DEF EngineInv, NoiseInv
<1>3. /\ phase' = phase /\ waiting' = TRUE /\ UNCHANGED <<job, calls, step, first, tracked, onGpu, model, engine, random, disk>>
      /\ todo' = [w \in Workers |->
           IF w \in GroupOf(call) /\ Method(call, w) # <<>> THEN Append(todo[w], Method(call, w)) ELSE todo[w]]
      /\ generated' = IF call \in Gen THEN generated + 1 ELSE generated
  BY <1>2 DEF Call, startVars, diskVars, Gen
<1>4. /\ Workers' = Workers /\ Actors' = Actors /\ Cfg' = Cfg /\ \A w : Engine(w)' = Engine(w)
  BY <1>3, EngineNext
<1>5. \A w : EngineState(w)' = EngineState(w)
  BY <1>3 DEF EngineState
<1>6. \A x : GroupOf(x)' = GroupOf(x)
  BY <1>3, <1>4 DEF GroupOf, Group, PoolOf
<1>7. /\ job.mode \in {"sync", "async"} /\ Cfg.mode = job.mode /\ Actors \subseteq Workers /\ generated \in Nat
      /\ step \in Nat /\ tracked \in Nat /\ Between(calls, 1, 19) /\ job \in Jobs
      /\ \A w \in Workers : todo[w] \in Seq(Lists(Ops)) /\ Len(todo[w]) \in Nat /\ EngineState(w) \in EngineStates
  BY EngineInvIs
<1>8. EngineOrder /\ EngineWorks /\ FindsAsked(call)
  BY <1>2, FindsIt DEF EngineInv
<1>9. what \in Whats
  BY <1>2, <1>7 DEF Whats
<1>10. Before' = generated /\ Onward' = Tail(calls) /\ Before = generated
  BY <1>2, <1>3, <1>7 DEF Before, Onward, Gen
<1> HIDE DEF call, what
<1>11. ASSUME NEW w \in Workers
       PROVE  /\ Method(call, w) \in Seq(Ops)
              /\ Method(call, w) # <<>> => Len(Method(call, w)) > 0
  <2>1. Method(call, w) \in Seq(Ops)
    BY <1>2, <1>7, <1>8, NoiseMethod DEF Does
  <2> QED
    BY <2>1, EmptyQueue
<1>12. \A w \in Workers : todo'[w] \in Seq(Lists(Ops)) /\ Len(todo'[w]) \in Nat
  <2>1. \A w \in Workers : todo'[w] \in Seq(Lists(Ops))
    BY <1>1, <1>4 DEF NoiseInv, NoiseTyped, WorkTyped
  <2> QED
    BY <2>1, EmptyQueue
<1>13. EngineTyped'
  BY <1>3, <1>4 DEF EngineInv, EngineTyped
<1>14. generated' \in Nat
  BY <1>3, <1>7
<1>15. ASSUME NEW w \in Actors
       PROVE  Works(ContractOf(Cfg, Engine(w), calls, generated, Tail(calls), generated'), todo'[w], EngineState(w))
  BY EngineCallOne
<1>16. EngineWorks'
  <2>1. \A k : EngineContract(k)' = ContractOf(Cfg, k, calls, generated, Tail(calls), generated')
    BY <1>3, <1>4, <1>10 DEF EngineContract
  <2> QED
    BY <1>4, <1>5, <1>15, <2>1 DEF EngineWorks
<1>17. \A w \in Actors : Fine(w)'
  <2> SUFFICES ASSUME NEW w \in Actors PROVE Fine(w)'
    BY <1>4
  <2> DEFINE q == todo'[w]
             s == EngineState(w)
             k == Engine(w)
             g == generated'
             n == generated
             m == Tail(calls)
             l == calls
             c == Cfg
  <2>1. Works(ContractOf(c, k, l, n, m, g), q, s)
    BY <1>15
  <2>2. q \in Seq(Lists(Ops)) /\ s \in EngineStates /\ c.mode \in {"sync", "async"}
    BY <1>7, <1>12
  <2>3. /\ RoomAt(Cfg', EngineState(w)', generated') <=> RoomAt(c, s, g)
        /\ Generates(Cfg', Engine(w)', EngineState(w)'.core, generated') <=> Generates(c, k, s.core, g)
    BY <1>4, <1>5
  <2> HIDE DEF q, s, k, g, n, m, l, c
  <2>4. RoomAt(c, s, g) /\ (Len(q) > 0 /\ q[1][1][1] = "generate" => Generates(c, k, s.core, g))
    BY <2>1, <2>2, FineFrom
  <2> QED
    BY <2>3, <2>4 DEF Fine, q
<1>18. ASSUME NEW w \in Workers
       PROVE  /\ w \notin GroupOf(call) => todo'[w] = todo[w]
              /\ todo'[w] = todo[w] \/ (Len(Method(call, w)) > 0 /\ todo'[w] = Append(todo[w], Method(call, w)))
  BY <1>3, <1>11
<1>19. QueueShort'
  <2> SUFFICES ASSUME job.mode = "async" \/ Early(call), NEW w \in Workers
               PROVE  Len(todo'[w]) <= IF w \in GroupOf(call) THEN 1 ELSE 0
    BY <1>2, <1>3, <1>4, <1>6 DEF QueueShort, call
  <2>1. Len(todo[w]) <= 0
    BY <1>2, <1>8 DEF EngineOrder, QueueShort, call
  <2>2. Len(todo[w]) = 0
    BY <1>7, <2>1
  <2>3. CASE todo'[w] = todo[w]
    BY <2>2, <2>3
  <2>4. CASE todo'[w] # todo[w]
    <3> DEFINE q == todo[w]
               l == Method(call, w)
    <3>1. w \in GroupOf(call) /\ todo'[w] = Append(q, l) /\ Len(l) > 0
      BY <1>18, <2>4
    <3>2. q \in Seq(Lists(Ops)) /\ l \in Seq(Ops)
      BY <1>7, <1>11
    <3> HIDE DEF q, l
    <3>3. Len(Append(q, l)) = Len(q) + 1
      BY <3>1, <3>2, QueueAppend
    <3>4. Len(todo'[w]) = 1
      BY <2>2, <3>1, <3>3 DEF q
    <3> QED
      BY <3>1, <3>4
  <2> QED
    BY <2>3, <2>4
<1>20. LastCall'
  <2> SUFFICES ASSUME call \in Gen \cup {"init_actor"}, NEW w \in Workers, w \in GroupOf(call)
               PROVE  StillAsked(todo'[w][Len(todo'[w])])
    BY <1>3, <1>4, <1>6 DEF LastCall, StillAsked, call
  <2> DEFINE l == Method(call, w)
  <2>1. StillAsked(l) /\ Len(l) > 0
    <3>1. CASE call = "init_actor"
      <4>1. {} \in Noises
        BY DEF Noises
      <4>2. l = InitActor
        BY <3>1 DEF Method
      <4> QED
        BY <1>9, <4>1, <4>2, AskedMethods
    <3>2. CASE call \in Gen /\ job.mode = "sync"
      <4>1. NoiseOf(call) \in Noises
        BY <1>8, <3>2 DEF FindsAsked, Gen
      <4>2. l = GenerateSequences(NoiseOf(call), what)
        BY <3>2 DEF Method, Gen, what
      <4> QED
        BY <1>9, <4>1, <4>2, AskedMethods
    <3>3. CASE call \in Gen /\ job.mode # "sync"
      <4>1. {} \in Noises
        BY DEF Noises
      <4>2. l = Serve(what)
        BY <3>3 DEF Method, Gen, what
      <4> QED
        BY <1>9, <4>1, <4>2, AskedMethods
    <3> QED
      BY <3>1, <3>2, <3>3
  <2> DEFINE q == todo[w]
  <2>2. q \in Seq(Lists(Ops)) /\ l \in Seq(Ops)
    BY <1>7, <1>11
  <2>3. todo'[w] = Append(q, l)
    <3>1. l # <<>>
      BY <2>1, <2>2, EmptyQueue
    <3> QED
      BY <1>3, <3>1
  <2> HIDE DEF q, l
  <2>4. Len(Append(q, l)) = Len(q) + 1 /\ Append(q, l)[Len(q) + 1] = l
    BY <2>1, <2>2, QueueAppend
  <2> QED
    BY <2>1, <2>3, <2>4
<1>21. EngineOrder'
  <2>1. CallsOrder(job.mode, calls, Before)' <=> CallsOrder(job.mode, calls, generated)
    BY <1>3, <1>10
  <2>2. CallsOrder(job.mode, calls, generated)
    BY <1>8, <1>10 DEF EngineOrder
  <2>3. calls'[1] \in Gen => generated' > 0
    BY <1>3, <1>7 DEF call
  <2>4. \A x \in Loads : Has(calls', x) => first' # 1
    BY <1>3, <1>8 DEF EngineOrder
  <2> QED
    BY <1>19, <1>20, <2>1, <2>2, <2>3, <2>4 DEF EngineOrder
<1>22. ASSUME NEW w \in Workers, w \notin Actors
       PROVE  Plain(todo'[w])
  <2>1. Plain(todo[w])
    BY <1>22 DEF EngineInv
  <2>2. CASE todo'[w] = todo[w]
    BY <2>1, <2>2
  <2>3. CASE todo'[w] # todo[w]
    <3> DEFINE q == todo[w]
               l == Method(call, w)
    <3>1. w \in GroupOf(call) /\ todo'[w] = Append(q, l) /\ Len(l) > 0
      BY <1>18, <2>3
    <3>2. call \in {"init_critic", "values", "update_critic", "save_critic", "load_critic"}
      BY <1>22, <3>1 DEF GroupOf
    <3>3. l \in Seq(PlainOps)
      <4>1. "critic" \in Roles
        BY DEF Roles
      <4>2. /\ InitCritic \in Seq(PlainOps) /\ ComputeValues(what) \in Seq(PlainOps) /\ UpdateCritic(what) \in Seq(PlainOps)
            /\ SaveCheckpoint("critic", step) \in Seq(PlainOps)
        BY <1>7, <1>9, <4>1, PlainMethods
      <4>3. LoadCheckpoint("critic", tracked) \in Seq(PlainOps)
        BY <1>7, <1>9, <4>1, PlainMethods
      <4> QED
        BY <3>2, <4>2, <4>3 DEF Method, what
    <3>4. q \in Seq(Lists(Ops)) /\ l \in Seq(Ops) /\ Within(q, PlainOps)
      BY <1>7, <1>11, <2>1 DEF Plain, Within
    <3> HIDE DEF q, l
    <3>5. Within(Append(q, l), PlainOps)
      BY <3>1, <3>3, <3>4, QueueAppend
    <3> QED
      BY <3>1, <3>5 DEF Plain, Within
  <2> QED
    BY <2>2, <2>3
<1>23. phase' # "starting"
  BY <1>2, <1>3
<1> QED
  BY <1>1, <1>4, <1>13, <1>14, <1>16, <1>17, <1>21, <1>22, <1>23 DEF EngineInv

\* Every step keeps the invariant.
LEMMA EngineStep ==
  EngineInv /\ [Next]_vars => EngineInv'
<1> SUFFICES ASSUME EngineInv, [Next]_vars PROVE EngineInv'
  OBVIOUS
<1> DEFINE Stopped == UNCHANGED <<job, first, calls, waiting, generated, todo, failed, onGpu, model, engine, random, disk>>
<1>1. NoiseInv'
  BY NoiseStep DEF EngineInv
<1>2. CASE Starting
  <2>1. job' = job
    BY <1>2 DEF Starting, StartNext, GetPlacementGroups, CreateRankZero, CreateOthers, TimeOut, SetWorkerInfo
  <2>2. Stopped /\ phase' = phase
    BY <1>2, <2>1 DEF Starting, workVars, fitVars
  <2> QED
    BY <1>1, <2>2, EngineSame
<1>3. CASE RankZeroUp
  <2>1. job' = job
    BY <1>3 DEF RankZeroUp, CreateRegisterCentre
  <2>2. Stopped /\ phase' = phase
    BY <1>3, <2>1 DEF RankZeroUp, workVars, fitVars
  <2> QED
    BY <1>1, <2>2, EngineSame
<1>4. CASE StartFails
  <2>1. Stopped /\ phase' = "raised"
    BY <1>4 DEF StartFails, startVars, workVars
  <2> QED
    BY <1>1, <2>1, EngineSame
<1>5. CASE Watchdog
  <2>1. Stopped /\ phase' = "raised"
    BY <1>5 DEF Watchdog, startVars, workVars
  <2> QED
    BY <1>1, <2>1, EngineSame
<1>6. CASE UNCHANGED vars
  <2>1. Stopped /\ phase' = phase
    BY <1>6 DEF vars, startVars, workVars, fitVars
  <2> QED
    BY <1>1, <2>1, EngineSame
<1>7. CASE StartFit \/ Call \/ Track \/ Return \/ Except \/ Advance \/ Working \/ Restart
  BY <1>7, EngineStart, EngineCall, EngineReturn, EngineAdvance, EngineWorking, EngineRestart
<1> QED
  BY <1>2, <1>3, <1>4, <1>5, <1>6, <1>7 DEF Next, Step

\* Only an actor generates, and what it generates with is right.
LEMMA EngineAt ==
  ASSUME EngineInv, NEW w \in Workers, At(w, "generate")
  PROVE  w \in Actors /\ Generates(Cfg, Engine(w), EngineState(w).core, generated)
<1>1. Len(todo[w]) > 0 /\ Op(w) = todo[w][1][1] /\ Op(w)[1] = "generate" /\ todo[w] \in Seq(Lists(Ops))
  <2>1. WorkTyped
    BY DEF EngineInv, NoiseInv, NoiseTyped
  <2>2. Op(w)[1] = "generate"
    BY DEF At
  <2>3. Op(w)[1] # "nothing" => Len(todo[w]) > 0
    BY <2>1, OpIs
  <2>4. Len(todo[w]) > 0 => Op(w) = todo[w][1][1]
    BY <2>1, OpIs
  <2>5. todo[w] \in Seq(Lists(Ops))
    BY <2>1, OpIs
  <2> QED
    BY <2>2, <2>3, <2>4, <2>5
<1>2. w \in Actors
  <2> SUFFICES ASSUME w \notin Actors PROVE FALSE
    OBVIOUS
  <2> DEFINE l == todo[w][1]
  <2>1. 1 \in 1..Len(todo[w])
    BY <1>1
  <2>2. l \in Seq(PlainOps)
    BY <2>1 DEF EngineInv, Plain
  <2>3. Len(l) > 0
    BY <1>1, <2>1 DEF Lists
  <2> HIDE DEF l
  <2>4. l[1] \in PlainOps
    BY <2>2, <2>3
  <2>5. Op(w) = l[1]
    BY <1>1 DEF l
  <2> QED
    BY <1>1, <2>4, <2>5 DEF PlainOps
<1>3. Fine(w)
  BY <1>2 DEF EngineInv
<1> QED
  BY <1>1, <1>2, <1>3 DEF Fine

\* The engines generate with the weights they should.
LEMMA EngineInvCurrent ==
  ASSUME EngineInv
  PROVE  EngineCurrent
<1> SUFFICES ASSUME NEW w \in Workers, At(w, "generate")
             PROVE  engine[w].weights = IF job.mode = "async" /\ generated = 1 THEN 0 ELSE model[w].actor
  BY DEF EngineCurrent
<1>1. Generates(Cfg, Engine(w), EngineState(w).core, generated)
  BY EngineAt
<1>2. EngineState(w).core.weights = engine[w].weights /\ EngineState(w).core.actor = model[w].actor
  BY DEF EngineState
<1>3. Cfg.mode = job.mode
  BY EngineInvIs
<1> QED
  BY <1>1, <1>2, <1>3 DEF Generates

\* There is room for the cache.
LEMMA EngineInvRoom ==
  ASSUME EngineInv
  PROVE  RoomForCache
<1> SUFFICES ASSUME NEW w \in Actors, job.tags, engine[w].cache, job.mode = "sync" \/ generated > 0
             PROVE  onGpu[w] \cap job.offload = {}
  BY DEF RoomForCache
<1>1. RoomAt(Cfg, EngineState(w), generated)
  BY DEF EngineInv, Fine
<1>2. EngineState(w).core.cache = engine[w].cache /\ EngineState(w).gpu = onGpu[w]
  BY DEF EngineState
<1>3. Cfg.mode = job.mode /\ Cfg.offload = job.offload /\ Cfg.tags = job.tags
  BY EngineInvIs
<1> QED
  BY <1>1, <1>2, <1>3 DEF RoomAt

\* The processes of an engine draw alike, those of two engines do not.
LEMMA EngineInvAlike ==
  ASSUME EngineInv
  PROVE  SamplesAlike
<1> SUFFICES ASSUME NEW v \in Actors, NEW w \in Actors, At(v, "generate"), At(w, "generate"), job.mode = "sync" \/ first = 1
             PROVE  /\ v \in TpGroup(w) <=> random[v].now = random[w].now
                    /\ random[w].now.drawn = generated - 1
  BY DEF SamplesAlike
<1>1. v \in Workers /\ w \in Workers
  BY DEF Actors, Group
<1>2. Cfg.known
  BY DEF Cfg
<1> DEFINE n == generated - 1
           D(k) == Drawn(Cfg, k, n)
<1>3. random[v].now = D(Engine(v)) /\ random[w].now = D(Engine(w))
  <2>1. Generates(Cfg, Engine(v), EngineState(v).core, generated)
    BY <1>1, EngineAt
  <2>2. Generates(Cfg, Engine(w), EngineState(w).core, generated)
    BY <1>1, EngineAt
  <2>3. EngineState(v).core.now = random[v].now /\ EngineState(w).core.now = random[w].now
    BY DEF EngineState
  <2> QED
    BY <1>2, <2>1, <2>2, <2>3 DEF Generates
<1>4. v \in TpGroup(w) <=> Engine(v) = Engine(w)
  BY DEF TpGroup, Engine
<1> HIDE DEF n
<1>5. \A i, j : D(i) = D(j) <=> i = j
  <2> SUFFICES ASSUME NEW i, NEW j, D(i) = D(j) PROVE i = j
    OBVIOUS
  <2>1. D(i).seed = D(j).seed
    OBVIOUS
  <2>2. D(i).seed[2] = i /\ D(j).seed[2] = j
    BY DEF Drawn
  <2> QED
    BY <2>1, <2>2
<1>6. D(Engine(w)).drawn = n
  BY DEF Drawn
<1> QED
  BY <1>3, <1>4, <1>5, <1>6 DEF n

\* The inductive invariant holds at every moment.
THEOREM EngineInductive == Spec => []EngineInv
<1>1. Init => EngineInv
  BY EngineInit
<1> QED
  BY <1>1, EngineStep, PTL DEF Spec

\* Every generation uses the weights of the actor's last update, or of the checkpoint loaded.
THEOREM EnginesCurrent == Spec => []EngineCurrent
<1>1. EngineInv => EngineCurrent
  BY EngineInvCurrent
<1> QED
  BY <1>1, EngineInductive, PTL

\* While an engine has its cache, the GPU holds nothing that is offloaded between calls.
THEOREM CacheHasRoom == Spec => []RoomForCache
<1>1. EngineInv => RoomForCache
  BY EngineInvRoom
<1> QED
  BY <1>1, EngineInductive, PTL

\* The processes of an engine draw the same samples, those of two engines do not.
THEOREM SamplesAgree == Spec => []SamplesAlike
<1>1. EngineInv => SamplesAlike
  BY EngineInvAlike
<1> QED
  BY <1>1, EngineInductive, PTL
================================================================================
