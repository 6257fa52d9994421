-------------------------- MODULE NoisyTrainingTypeProof --------------------------
(***************************************************************************)
(* Of NoisyTraining: what its variables hold, JobTypeOK.  Most of it is    *)
(* not about types.  A queue has two calls at most (Queued), for the       *)
(* driver goes on without a result only after an analysis, and between two *)
(* analyses there is a validation that every process must finish; weights  *)
(* are of no step to come (Held), for what a process updates, saves and    *)
(* loads is what its present call asks for (Sound), and the tracker is     *)
(* not ahead of the steps (Counted).                                       *)
(***************************************************************************)
EXTENDS NoisyTrainingEngineProof, FiniteSetTheorems

-----------------------------------------------------------------------------
\* What stays as it is

\* The job is the same in every step.
LEMMA JobSame ==
  ASSUME [Next]_vars
  PROVE  job' = job
<1>1. CASE Starting
  BY <1>1 DEF Starting, StartNext, GetPlacementGroups, CreateRankZero, CreateOthers, TimeOut, SetWorkerInfo
<1>2. CASE RankZeroUp
  BY <1>2 DEF RankZeroUp, CreateRegisterCentre
<1>3. CASE StartFit \/ StartFails \/ Call \/ Track
  BY <1>3 DEF StartFit, StartFails, Call, Track, startVars
<1>4. CASE Return \/ Except \/ Advance \/ Watchdog
  BY <1>4 DEF Return, Except, Advance, Watchdog, startVars
<1>5. CASE Working
  BY <1>5 DEF Working, WorkNext, Local, Together, Fails, startVars
<1>6. CASE Restart
  BY <1>6 DEF Restart
<1>7. CASE UNCHANGED vars
  BY <1>7 DEF vars, startVars
<1> QED
  BY <1>1, <1>2, <1>3, <1>4, <1>5, <1>6, <1>7 DEF Next, Step

\* What depends on the job alone.
LEMMA JobFrame ==
  ASSUME job' = job
  PROVE  Workers' = Workers /\ Actors' = Actors /\ Settings' = Settings /\ Seeds' = Seeds
BY DEF Workers, Actors, Group, PoolOf, Pools, World, Settings, Seeds

\* Steps in which the driver does not go on: only a process or the start of the job
\* does, or the run ends.
Idle == Starting \/ StartFails \/ RankZeroUp \/ Watchdog \/ Working \/ UNCHANGED vars

\* Such a step leaves what fit keeps.
LEMMA IdleFrame ==
  ASSUME Idle
  PROVE  /\ UNCHANGED <<calls, waiting, step, first, noise, meta, ema, nextScale, generated, tracked, runs>>
         /\ phase' = phase \/ phase' = "raised"
<1>1. CASE Starting \/ RankZeroUp \/ Working
  BY <1>1 DEF Starting, RankZeroUp, Working, fitVars, diskVars
<1>2. CASE StartFails \/ Watchdog
  BY <1>2 DEF StartFails, Watchdog, diskVars
<1>3. CASE UNCHANGED vars
  BY <1>3 DEF vars, fitVars, diskVars
<1> QED
  BY <1>1, <1>2, <1>3 DEF Idle

\* The other steps.
LEMMA StepKinds ==
  ASSUME [Next]_vars
  PROVE  Idle \/ StartFit \/ Call \/ Track \/ Return \/ Except \/ Advance \/ Restart
BY DEF Next, Step, Idle

-----------------------------------------------------------------------------
\* The counters of the driver

\* The steps are counted up to the last, and the tracker is not ahead of them.
Counted ==
  /\ phase \in {"starting", "calling", "done", "raised"}
  /\ step \in 0..job.steps /\ tracked \in 0..job.steps /\ runs \in 1..MaxRuns
  /\ phase = "starting" => step = 0
  /\ phase = "calling" => tracked <= step

\* In the beginning.
LEMMA CountedInit ==
  ASSUME Init
  PROVE  Counted
<1>1. job \in Jobs /\ phase = "starting" /\ step = 0 /\ tracked = 0 /\ runs = 1
  BY DEF Init, FitInit
<1>2. job.steps \in Nat /\ MaxRuns \in Nat \ {0}
  BY <1>1, NoisyAssumption, RunsAssumption
<1> QED
  BY <1>1, <1>2 DEF Counted

\* Every step keeps the counters.
LEMMA CountedStep ==
  ASSUME NoiseInv, Counted, [Next]_vars
  PROVE  Counted'
<1>1. job' = job /\ job.steps \in Nat /\ MaxRuns \in Nat \ {0}
  BY JobSame, NoisyAssumption, RunsAssumption DEF NoiseInv, NoiseTyped
<1>2. CASE Idle
  <2>1. step' = step /\ tracked' = tracked /\ runs' = runs /\ (phase' = phase \/ phase' = "raised")
    BY <1>2, IdleFrame
  <2> QED
    BY <1>1, <2>1 DEF Counted
<1>3. CASE StartFit
  <2>1. phase' = "calling" /\ step' = tracked /\ tracked' = tracked /\ runs' = runs
    BY <1>3 DEF StartFit, diskVars
  <2> QED
    BY <1>1, <2>1 DEF Counted
<1>4. CASE Call \/ Return \/ Except
  <2>1. step' = step /\ tracked' = tracked /\ runs' = runs /\ (phase' = phase \/ phase' = "raised")
    BY <1>4 DEF Call, Return, Except, diskVars
  <2> QED
    BY <1>1, <2>1 DEF Counted
<1>5. CASE Track
  <2>1. step' = step /\ tracked' = step /\ runs' = runs /\ phase = "calling" /\ phase' = phase
    BY <1>5 DEF Track
  <2> QED
    BY <1>1, <2>1 DEF Counted
<1>6. CASE Advance
  <2>1. phase = "calling" /\ tracked' = tracked /\ runs' = runs
    BY <1>6 DEF Advance, diskVars
  <2>2. IF step >= job.steps THEN phase' = "done" /\ step' = step
                             ELSE step' = step + 1 /\ phase' = phase
    BY <1>6 DEF Advance
  <2> QED
    BY <1>1, <2>1, <2>2 DEF Counted
<1>7. CASE Restart
  <2>1. phase' = "starting" /\ step' = 0 /\ tracked' = tracked /\ runs' = runs + 1 /\ runs < MaxRuns
    BY <1>7 DEF Restart, diskVars
  <2> QED
    BY <1>1, <2>1 DEF Counted
<1> QED
  BY <1>2, <1>3, <1>4, <1>5, <1>6, <1>7, StepKinds

-----------------------------------------------------------------------------
\* The noise of the driver

\* The noise of the step is one setting of this job, meta_info has no other, and the
\* controller's signals are of the steps of this run.
Noised ==
  /\ noise \subseteq Settings /\ Cardinality(noise) <= 1 /\ meta \subseteq noise
  /\ ema \subseteq first..step /\ nextScale \in [of : {0} \cup ema, over : SUBSET ema]

\* One is a scale.
LEMMA OneIs ==
  ASSUME NEW S
  PROVE  One \in [of : {0} \cup S, over : SUBSET S]
BY DEF One

\* Without noise nothing is asked.
LEMMA NoNoise == Cardinality({}) <= 1 /\ \A x : Cardinality({x}) <= 1
<1>1. Cardinality({}) = 0 /\ \A x : Cardinality({x}) = 1
  BY FS_EmptySet, FS_Singleton, Zenon
<1> HIDE DEF Cardinality
<1> QED
  BY <1>1

\* In the beginning.
LEMMA NoisedInit ==
  ASSUME Init
  PROVE  Noised
<1>1. noise = {} /\ meta = {} /\ ema = {} /\ nextScale = One
  BY DEF Init, FitInit
<1> QED
  BY <1>1, OneIs, NoNoise DEF Noised

\* Every step keeps it so.
LEMMA NoisedStep ==
  ASSUME NoiseInv, Counted, Noised, [Next]_vars
  PROVE  Noised'
<1>1. /\ job' = job /\ job.steps \in Nat /\ Settings' = Settings
      /\ step \in Nat /\ first \in Nat \ {0} /\ step <= job.steps
  BY JobSame, JobFrame, NoisyAssumption DEF NoiseInv, NoiseTyped, Counted
<1>2. CASE Idle
  <2>1. UNCHANGED <<noise, meta, ema, nextScale, first, step>>
    BY <1>2, IdleFrame
  <2> QED
    BY <1>1, <2>1 DEF Noised
<1>3. CASE StartFit
  <2>1. UNCHANGED <<noise, meta, ema, nextScale>> /\ phase = "starting"
    BY <1>3 DEF StartFit
  <2>2. ema = {}
    BY <2>1 DEF NoiseInv, Control
  <2> QED
    BY <1>1, <2>1, <2>2 DEF Noised
<1>4. CASE Call
  <2>1. UNCHANGED <<noise, ema, nextScale, first, step>>
    BY <1>4 DEF Call
  <2>2. meta' = IF Head(calls) \in {"resample", "old_log_prob", "update_actor"} THEN NoiseOf(Head(calls)) ELSE meta
    BY <1>4 DEF Call
  <2>3. Head(calls) \in {"resample", "old_log_prob", "update_actor"} => NoiseOf(Head(calls)) \in {noise, {}}
    BY DEF NoiseOf
  <2> QED
    BY <1>1, <2>1, <2>2, <2>3 DEF Noised
<1>5. CASE Track \/ Except
  <2>1. UNCHANGED <<noise, meta, ema, nextScale, first, step>>
    BY <1>5 DEF Track, Except
  <2> QED
    BY <1>1, <2>1 DEF Noised
<1>6. CASE Return
  <2>1. UNCHANGED <<noise, meta, first, step>> /\ phase = "calling" /\ waiting
    BY <1>6 DEF Return
  <2>2. CASE Head(calls) = "values" /\ job.adaptive
    <3>1. /\ ema' = ema \cup {step}
          /\ nextScale' = One \/ nextScale' = [of |-> step, over |-> ema]
      BY <1>6, <2>2 DEF Return, UpdateController
    <3>2. Has(calls, "values")
      BY <2>1, <2>2, CallsGo DEF NoiseInv, Control
    <3>3. Rank("values") \in 6..13
      BY DEF Rank
    <3>4. ~(step < first)
      BY <2>1, <3>2, <3>3 DEF NoiseInv, Controller
    <3>5. ema' \subseteq first..step
      BY <1>1, <3>1, <3>4 DEF Noised
    <3>6. nextScale' \in [of : {0} \cup ema', over : SUBSET ema']
      BY <3>1, OneIs
    <3> QED
      BY <1>1, <2>1, <3>5, <3>6 DEF Noised
  <2>3. CASE ~(Head(calls) = "values" /\ job.adaptive)
    <3>1. UNCHANGED <<ema, nextScale>>
      BY <1>6, <2>3 DEF Return
    <3> QED
      BY <1>1, <2>1, <3>1 DEF Noised
  <2> QED
    BY <2>2, <2>3
<1>7. CASE Advance
  <2>1. UNCHANGED <<ema, nextScale, first>>
    BY <1>7 DEF Advance
  <2>2. CASE step >= job.steps
    <3>1. UNCHANGED <<noise, meta, step>>
      BY <1>7, <2>2 DEF Advance
    <3> QED
      BY <1>1, <2>1, <3>1 DEF Noised
  <2>3. CASE ~(step >= job.steps)
    <3>1. step' = step + 1 /\ meta' = {} /\ (noise' = {} \/ noise' = ScaledNoise(step + 1))
      BY <1>7, <2>3 DEF Advance
    <3>2. ema \subseteq 1..job.steps
      BY <1>1 DEF Noised
    <3> DEFINE sc == IF ControllerActive(step + 1) THEN nextScale ELSE One
    <3>3. sc \in [of : 0..job.steps, over : SUBSET (1..job.steps)]
      <4>1. sc \in [of : {0} \cup ema, over : SUBSET ema]
        BY OneIs DEF Noised
      <4>2. {0} \cup ema \subseteq 0..job.steps /\ SUBSET ema \subseteq SUBSET (1..job.steps)
        BY <1>1, <3>2
      <4> HIDE DEF sc
      <4> QED
        BY <4>1, <4>2
    <3>4. ScaledNoise(step + 1) = {[kind |-> "train", step |-> step + 1, scale |-> sc]}
      BY DEF ScaledNoise
    <3> HIDE DEF sc
    <3>5. [kind |-> "train", step |-> step + 1, scale |-> sc] \in Settings
      BY <1>1, <2>3, <3>3 DEF Settings
    <3>6. noise' \subseteq Settings /\ Cardinality(noise') <= 1
      BY <3>1, <3>4, <3>5, NoNoise
    <3>7. ema' \subseteq first'..step'
      BY <1>1, <2>1, <3>1 DEF Noised
    <3> QED
      BY <1>1, <2>1, <3>1, <3>6, <3>7 DEF Noised
  <2> QED
    BY <2>2, <2>3
<1>8. CASE Restart
  <2>1. noise' = {} /\ meta' = {} /\ ema' = {} /\ nextScale' = One
    BY <1>8 DEF Restart
  <2> QED
    BY <2>1, OneIs, NoNoise DEF Noised
<1> QED
  BY <1>2, <1>3, <1>4, <1>5, <1>6, <1>7, <1>8, StepKinds

-----------------------------------------------------------------------------
\* The analysis comes behind a validation

\* An analysis comes with the validation before it.
Paired(l) == l \in Seq(CallNames) /\ (Has(l, "analyze") => Has(l, "validate"))

\* Two such lists, one after the other.
LEMMA PairedConcat ==
  ASSUME NEW a, NEW b, Paired(a), Paired(b)
  PROVE  Paired(a \o b)
<1>1. a \in Seq(CallNames) /\ b \in Seq(CallNames)
  BY DEF Paired
<1>2. a \o b \in Seq(CallNames)
  BY <1>1, SeqOn
<1>3. \A x : Has(a \o b, x) <=> Has(a, x) \/ Has(b, x)
  BY <1>1, HasConcat
<1> QED
  BY <1>2, <1>3, Zenon DEF Paired

\* One that may be left out, and short lists without an analysis.
LEMMA PairedShort ==
  /\ \A l, c : Paired(l) => Paired(When(c, l))
  /\ \A a \in CallNames \ {"analyze"} : Paired(<<a>>)
  /\ \A a, b \in CallNames \ {"analyze"} : Paired(<<a, b>>)
  /\ \A a, b, c \in CallNames \ {"analyze"} : Paired(<<a, b, c>>)
<1>1. \A l, c : Paired(l) => Paired(When(c, l))
  <2>1. <<>> \in Seq(CallNames) /\ ~Has(<<>>, "analyze")
    BY DEF Has
  <2>2. Paired(<<>>)
    BY <2>1 DEF Paired
  <2> QED
    BY <2>2, Zenon DEF When
<1>2. ASSUME NEW a \in CallNames \ {"analyze"}, NEW b \in CallNames \ {"analyze"}, NEW c \in CallNames \ {"analyze"}
      PROVE  Paired(<<a>>) /\ Paired(<<a, b>>) /\ Paired(<<a, b, c>>)
  <2>1. <<a>> \in Seq(CallNames) /\ <<a, b>> \in Seq(CallNames) /\ <<a, b, c>> \in Seq(CallNames)
    BY ShortLists
  <2>2. ~Has(<<a>>, "analyze") /\ ~Has(<<a, b>>, "analyze") /\ ~Has(<<a, b, c>>, "analyze")
    BY HasShort
  <2> QED
    BY <2>1, <2>2 DEF Paired
<1> QED
  BY <1>1, <1>2

\* The calls of a step, and those before the first one.
LEMMA CallsPaired ==
  /\ \A s, again : Paired(StepCalls(s, again))
  /\ Paired(FirstCalls)
<1> DEFINE Names0 == CallNames \ {"analyze"}
<1>1. /\ \A l, c : Paired(l) => Paired(When(c, l))
      /\ \A a \in Names0 : Paired(<<a>>)
      /\ \A a, b \in Names0 : Paired(<<a, b>>)
      /\ \A a, b, c \in Names0 : Paired(<<a, b, c>>)
  BY PairedShort
<1>2. \A a, b : Paired(a) /\ Paired(b) => Paired(a \o b)
  BY PairedConcat
<1>3. /\ "generate" \in Names0 /\ "resample" \in Names0 /\ "validate" \in Names0 /\ "old_log_prob" \in Names0 /\ "clean_log_prob" \in Names0
      /\ "ref" \in Names0 /\ "values" \in Names0 /\ "update_critic" \in Names0 /\ "update_actor" \in Names0
      /\ "save_actor" \in Names0 /\ "save_critic" \in Names0 /\ "track" \in Names0 /\ "init_critic" \in Names0
      /\ "init_actor" \in Names0 /\ "init_engine" \in Names0 /\ "load_actor" \in Names0 /\ "load_critic" \in Names0
      /\ "wake_up" \in Names0 /\ "sleep" \in Names0
  BY DEF CallNames
<1> HIDE DEF Names0
<1>4. ASSUME NEW call \in Names0 PROVE Paired(Generation(call))
  BY <1>1, <1>3, Zenon DEF Generation
<1>5. Paired(Validation)
  <2> DEFINE A == When(job.analysis /\ job.mode = "sync" /\ ~job.valNoise, <<"analyze">>)
             G == Generation("validate")
  <2>1. Has(G, "validate") /\ Paired(G)
    <3>1. Has(<<"validate">>, "validate")
      BY HasShort, Zenon
    <3>2. Has(<<"wake_up", "validate", "sleep">>, "validate")
      <4> DEFINE l == <<"wake_up", "validate", "sleep">>
      <4>1. 2 \in 1..Len(l) /\ l[2] = "validate"
        OBVIOUS
      <4> QED
        BY <4>1 DEF Has
    <3> QED
      BY <1>3, <1>4, <3>1, <3>2 DEF Generation
  <2>2. A \in Seq(CallNames)
    <3>1. <<"analyze">> \in Seq(CallNames)
      BY DEF CallNames
    <3> QED
      BY <3>1, SeqWhen
  <2> HIDE DEF A, G
  <2>3. G \o A \in Seq(CallNames) /\ Has(G \o A, "validate")
    BY <2>1, <2>2, SeqOn, HasConcat DEF Paired
  <2> QED
    BY <2>3 DEF Validation, Paired, A, G
<1>6. ASSUME NEW s, NEW again PROVE Paired(StepCalls(s, again))
  <2> DEFINE a == When(job.kl /\ job.apply = "all", <<"clean_log_prob">>)
             b == When(job.reference, <<"ref">>)
             c == When(job.critic, <<"values", "update_critic">>)
             d == When(job.warmup <= s, <<"update_actor">>)
             v == When(Due(s, job.testEvery), Validation)
             k == When(job.critic, <<"save_critic">>)
             z == When(Due(s, job.saveEvery), <<"save_actor">> \o k \o <<"track">>)
             g == Generation("generate")
             f == When(again, <<"resample">>)
             o == <<"old_log_prob">>
  <2>1. StepCalls(s, again) = g \o f \o o \o a \o b \o c \o d \o v \o z
    BY DEF StepCalls
  <2>2. Paired(g) /\ Paired(f) /\ Paired(o) /\ Paired(a) /\ Paired(b) /\ Paired(c) /\ Paired(d) /\ Paired(v) /\ Paired(k)
    BY <1>1, <1>3, <1>4, <1>5, Zenon
  <2>3. Paired(z)
    <3>1. Paired(<<"save_actor">>) /\ Paired(<<"track">>)
      BY <1>1, <1>3, Zenon
    <3> HIDE DEF k
    <3>2. Paired(<<"save_actor">> \o k)
      BY <1>2, <2>2, <3>1, Zenon
    <3>3. Paired(<<"save_actor">> \o k \o <<"track">>)
      BY <1>2, <3>1, <3>2, Zenon
    <3> QED
      BY <1>1, <3>3, Zenon
  <2> HIDE DEF a, b, c, d, v, k, z, g, f, o
  <2>4. Paired(g \o f \o o \o a \o b)
    BY <1>2, <2>2, Zenon
  <2>5. Paired(g \o f \o o \o a \o b \o c \o d)
    BY <1>2, <2>2, <2>4, Zenon
  <2>6. Paired(g \o f \o o \o a \o b \o c \o d \o v \o z)
    BY <1>2, <2>2, <2>3, <2>5, Zenon
  <2> QED
    BY <2>1, <2>6
<1>7. Paired(FirstCalls)
  <2> DEFINE a == When(job.critic, <<"init_critic">>)
             b == <<"init_actor">>
             e == When(job.mode = "async", <<"init_engine">>)
             k == When(job.critic, <<"load_critic">>)
             d == When(tracked # 0, <<"load_actor">> \o k)
             v == When(job.valBefore, Validation)
  <2>1. FirstCalls = ((a \o b) \o e) \o d \o v
    BY DEF FirstCalls, InitWorkers, LoadCalls
  <2>2. Paired(a) /\ Paired(b) /\ Paired(e) /\ Paired(k) /\ Paired(v) /\ Paired(<<"load_actor">>)
    BY <1>1, <1>3, <1>5, Zenon
  <2>3. Paired(d)
    <3> HIDE DEF k
    <3>1. Paired(<<"load_actor">> \o k)
      BY <1>2, <2>2, Zenon
    <3> QED
      BY <1>1, <3>1, Zenon
  <2> HIDE DEF a, b, e, k, d, v
  <2>4. Paired((a \o b) \o e)
    BY <1>2, <2>2, Zenon
  <2>5. Paired(((a \o b) \o e) \o d)
    BY <1>2, <2>3, <2>4, Zenon
  <2>6. Paired(((a \o b) \o e) \o d \o v)
    BY <1>2, <2>2, <2>5, Zenon
  <2> QED
    BY <2>1, <2>6
<1> QED
  BY <1>6, <1>7

\* What is behind the first call has a higher rank.
LEMMA RankBehind ==
  ASSUME NEW l, NEW lo, NEW hi, Between(l, lo, hi), Len(l) > 0,
         NEW x, Has(Tail(l), x), Rank(x) # 0, Rank(l[1]) # 0
  PROVE  Rank(l[1]) < Rank(x)
<1>1. l \in Seq(CallNames) /\ Len(Tail(l)) = Len(l) - 1 /\ \A i \in 1..Len(Tail(l)) : Tail(l)[i] = l[i + 1]
  BY BetweenTail DEF Between
<1>2. PICK i \in 1..Len(Tail(l)) : Tail(l)[i] = x
  BY DEF Has
<1>3. Len(l) \in Nat
  BY <1>1
<1>4. 1 \in 1..Len(l) /\ i + 1 \in 1..Len(l) /\ 1 < i + 1 /\ l[i + 1] = x
  BY <1>1, <1>2, <1>3
<1> QED
  BY <1>4 DEF Between

\* Ranks of the two.
LEMMA PairRanks ==
  Rank("validate") = 14 /\ Rank("analyze") = 15 /\ "validate" # "analyze"
BY DEF Rank

\* An analysis is not before its validation.
LEMMA NotFirst ==
  ASSUME NEW l, NEW lo, NEW hi, Between(l, lo, hi), Len(l) > 0, Has(l, "validate")
  PROVE  l[1] # "analyze"
<1> SUFFICES ASSUME l[1] = "analyze" PROVE FALSE
  OBVIOUS
<1>1. Has(Tail(l), "validate")
  BY PairRanks, BetweenTail
<1>2. Rank(l[1]) < Rank("validate")
  BY <1>1, PairRanks, RankBehind
<1> QED
  BY <1>2, PairRanks

\* Of a synchronous job it comes directly behind it.
LEMMA NextAnalyze ==
  ASSUME NEW l, NEW lo, NEW hi, Between(l, lo, hi), Len(l) > 0, l[1] = "validate", Has(Tail(l), "analyze"),
         ~Has(l, "wake_up"), ~Has(l, "sleep")
  PROVE  Len(Tail(l)) > 0 /\ Tail(l)[1] = "analyze"
<1> DEFINE t == Tail(l)
<1>1. Between(t, lo, hi) /\ \A x : Has(t, x) => Has(l, x)
  BY BetweenTail
<1>2. t \in Seq(CallNames) /\ Len(t) \in Nat
  BY <1>1 DEF Between
<1> HIDE DEF t
<1>3. PICK i \in 1..Len(t) : t[i] = "analyze"
  BY DEF Has, t
<1>4. Len(t) > 0 /\ 1 \in 1..Len(t)
  BY <1>2, <1>3
<1>5. Has(t, t[1])
  BY <1>4 DEF Has
<1>6. t[1] \in CallNames \ {"wake_up", "sleep"}
  BY <1>1, <1>2, <1>4, <1>5
<1>7. Rank(t[1]) # 0 /\ Rank(t[1]) \in Nat
  BY <1>6, RankNat DEF Rank, CallNames
<1>8. Rank(t[1]) > 14
  BY <1>5, <1>7, PairRanks, RankBehind DEF t
<1>9. i = 1
  <2> SUFFICES ASSUME i # 1 PROVE FALSE
    OBVIOUS
  <2>1. 1 < i /\ Rank(t[i]) = 15
    BY <1>2, <1>3, PairRanks
  <2>2. Rank(t[1]) < Rank(t[i])
    BY <1>1, <1>4, <1>7, <2>1 DEF Between
  <2> QED
    BY <1>7, <1>8, <2>1, <2>2
<1> QED
  BY <1>3, <1>4, <1>9 DEF t

-----------------------------------------------------------------------------
\* What a process has received

\* No more than the present call and one analysis; and while the driver does not wait
\* for a process, no more than one call in all.
Queued ==
  /\ \A w \in Workers : Len(todo[w]) <= 2
  /\ phase = "calling" =>
       /\ \A w \in Workers : ~waiting \/ calls[1] = "analyze" \/ w \notin GroupOf(calls[1]) => Len(todo[w]) <= 1
       /\ ~waiting /\ Len(calls) > 0 /\ calls[1] = "analyze" => \A w \in Actors : Len(todo[w]) = 0
       /\ Has(calls, "analyze") => Has(calls, "validate") \/ calls[1] = "analyze"

\* What a step of the processes leaves of the queues.
LEMMA QueuesShrink ==
  ASSUME NoiseInv, Idle, NEW w \in Workers
  PROVE  /\ Len(todo[w]) \in Nat /\ Len(todo'[w]) \in Nat /\ Len(todo'[w]) <= Len(todo[w])
         /\ \A S : Within(todo[w], S) => Within(todo'[w], S)
<1>1. WorkTyped /\ todo[w] \in Seq(Lists(Ops)) /\ Len(todo[w]) \in Nat
  BY OpIs DEF NoiseInv, NoiseTyped
<1>2. CASE Working
  <2>1. \/ todo'[w] = todo[w]
        \/ Len(todo[w]) > 0 /\ (todo'[w] = RestOf(todo[w]) \/ todo'[w] = Tail(todo[w]))
    BY <1>1, <1>2, FilesWork DEF Working
  <2>2. CASE todo'[w] = todo[w]
    BY <1>1, <2>2
  <2>3. CASE Len(todo[w]) > 0 /\ (todo'[w] = RestOf(todo[w]) \/ todo'[w] = Tail(todo[w]))
    <3> DEFINE q == todo[w]
               r == todo'[w]
    <3>1. q \in Seq(Lists(Ops)) /\ Len(q) > 0 /\ Len(q) \in Nat /\ (r = RestOf(q) \/ r = Tail(q))
      BY <1>1, <2>3
    <3> HIDE DEF q, r
    <3>2. /\ Len(RestOf(q)) \in Nat /\ Len(RestOf(q)) <= Len(q) /\ Len(Tail(q)) = Len(q) - 1
      BY <3>1, QueueRest
    <3>3. \A S : Within(q, S) => Within(RestOf(q), S) /\ Within(Tail(q), S)
      BY <3>1, QueueRest
    <3>4. Len(r) \in Nat /\ Len(r) <= Len(q)
      BY <3>1, <3>2
    <3> QED
      BY <3>1, <3>3, <3>4 DEF q, r
  <2> QED
    BY <2>1, <2>2, <2>3
<1>3. CASE ~Working
  <2>1. todo' = todo
    BY <1>3 DEF Idle, Starting, StartFails, RankZeroUp, Watchdog, vars, workVars
  <2> QED
    BY <1>1, <2>1
<1> QED
  BY <1>2, <1>3

\* In the beginning, and when the job is started again.
LEMMA QueuedInit ==
  ASSUME Init
  PROVE  Queued
<1>1. phase = "starting" /\ \A w \in Workers : Len(todo[w]) = 0
  BY DEF Init, FitInit, WorkInit
<1> QED
  BY <1>1 DEF Queued

\* One call is over, of which no process that takes part in a validation has
\* anything left.
LEMMA QueuedGo ==
  ASSUME EngineInv, Queued, phase = "calling", Len(calls) > 0, calls' = Tail(calls), waiting' = FALSE,
         job' = job, todo' = todo, \A w \in Workers : Len(todo[w]) <= 1,
         calls[1] = "validate" => \A w \in Actors : Len(todo[w]) = 0
  PROVE  Queued'
<1> DEFINE t == Tail(calls)
<1>1. Workers' = Workers /\ Actors' = Actors
  BY JobFrame
<1>2. /\ NoiseTyped /\ Between(calls, 1, 19) /\ job.mode \in {"sync", "async"}
      /\ \A w \in Workers : Len(todo[w]) \in Nat
  BY EngineInvIs DEF EngineInv, NoiseInv
<1>3. /\ Between(t, 1, 19) /\ \A x : Has(t, x) => Has(calls, x)
      /\ Rank(calls[1]) # 0 => ~Has(t, calls[1])
      /\ \A x : Has(calls, x) /\ x # calls[1] => Has(t, x)
  BY <1>2, CallsGo
<1>4. CallsOrder(job.mode, calls, Before)
  BY DEF EngineInv, EngineOrder
<1>5. ASSUME Has(t, "analyze")
      PROVE  \/ Has(t, "validate")
             \/ t[1] = "analyze" /\ calls[1] = "validate"
  <2>1. calls[1] # "analyze"
    BY <1>3, <1>5, PairRanks
  <2>2. Has(calls, "analyze") /\ Has(calls, "validate")
    BY <1>3, <1>5, <2>1 DEF Queued
  <2>3. job.mode = "sync" /\ ~Has(calls, "wake_up") /\ ~Has(calls, "sleep")
    BY <1>2, <1>4, <2>2 DEF CallsOrder
  <2>4. CASE calls[1] = "validate"
    <3>1. t[1] = "analyze"
      BY <1>2, <1>5, <2>3, <2>4, NextAnalyze
    <3> QED
      BY <2>4, <3>1
  <2>5. CASE calls[1] # "validate"
    BY <1>3, <2>2, <2>5
  <2> QED
    BY <2>4, <2>5
<1>6. Len(t) > 0 /\ t[1] = "analyze" => calls[1] = "validate"
  <2> SUFFICES ASSUME Len(t) > 0, t[1] = "analyze" PROVE calls[1] = "validate"
    OBVIOUS
  <2>1. Len(t) \in Nat
    BY <1>3 DEF Between
  <2> HIDE DEF t
  <2>2. Has(t, "analyze")
    <3>1. 1 \in 1..Len(t)
      BY <2>1
    <3> QED
      BY <3>1 DEF Has
  <2>3. ~Has(t, "validate")
    BY <1>3, NotFirst
  <2> QED
    BY <1>5, <2>2, <2>3
<1> HIDE DEF t
<1>7. calls' = t
  BY DEF t
<1>8. \A w \in Workers : Len(todo[w]) <= 2
  BY DEF Queued
<1> QED
  BY <1>1, <1>5, <1>6, <1>7, <1>8 DEF Queued

\* New calls, with nothing received.
LEMMA QueuedNew ==
  ASSUME job' = job, Queued, todo' = todo, waiting' = FALSE, \A w \in Workers : Len(todo[w]) <= 1,
         NEW lo, NEW hi, Between(calls', lo, hi), Paired(calls')
  PROVE  Queued'
<1>1. Workers' = Workers /\ Actors' = Actors
  BY JobFrame
<1>2. ~(Len(calls') > 0 /\ calls'[1] = "analyze")
  <2> DEFINE l == calls'
  <2> SUFFICES ASSUME Len(l) > 0, l[1] = "analyze" PROVE FALSE
    OBVIOUS
  <2>1. Between(l, lo, hi) /\ Paired(l) /\ Len(l) \in Nat
    BY DEF Between
  <2> HIDE DEF l
  <2>2. 1 \in 1..Len(l)
    BY <2>1
  <2>3. Has(l, "analyze")
    BY <2>2 DEF Has
  <2>4. Has(l, "validate")
    BY <2>1, <2>3 DEF Paired
  <2> QED
    BY <2>1, <2>4, NotFirst
<1>3. Has(calls', "analyze") => Has(calls', "validate")
  BY DEF Paired
<1>4. \A w \in Workers : Len(todo[w]) <= 2
  BY DEF Queued
<1> QED
  BY <1>1, <1>2, <1>3, <1>4 DEF Queued

\* Every step keeps the queues short.
LEMMA QueuedStep ==
  ASSUME EngineInv, Queued, [Next]_vars
  PROVE  Queued'
<1>1. /\ job' = job /\ Workers' = Workers /\ Actors' = Actors /\ NoiseInv /\ NoiseTyped
      /\ \A w \in Workers : todo[w] \in Seq(Lists(Ops)) /\ Len(todo[w]) \in Nat /\ (todo[w] = <<>> <=> Len(todo[w]) = 0)
  <2>1. job' = job /\ NoiseInv /\ NoiseTyped /\ WorkTyped
    BY JobSame DEF EngineInv, NoiseInv, NoiseTyped
  <2> QED
    BY <2>1, JobFrame, OpIs
<1>2. /\ Len(calls) \in Nat /\ (calls = <<>> <=> Len(calls) = 0)
      /\ Len(calls) > 0 => Head(calls) = calls[1]
  BY <1>1, CallsEmpty
<1>3. CASE Idle
  <2>1. calls' = calls /\ waiting' = waiting /\ (phase' = phase \/ phase' = "raised")
    BY <1>3, IdleFrame
  <2>2. \A w \in Workers : Len(todo[w]) \in Nat /\ Len(todo'[w]) \in Nat /\ Len(todo'[w]) <= Len(todo[w])
    BY <1>1, <1>3, QueuesShrink
  <2>3. \A w \in Workers : (Len(todo[w]) <= 2 => Len(todo'[w]) <= 2) /\ (Len(todo[w]) <= 1 => Len(todo'[w]) <= 1)
                             /\ (Len(todo[w]) = 0 => Len(todo'[w]) = 0)
    BY <2>2
  <2>4. GroupOf(calls[1])' = GroupOf(calls[1]) /\ Actors \subseteq Workers
    BY <1>1, <2>1 DEF GroupOf, Actors, Group, PoolOf
  <2> QED
    BY <1>1, <2>1, <2>3, <2>4 DEF Queued
<1>4. CASE StartFit
  <2>1. phase = "starting" /\ calls' = FirstCalls /\ todo' = todo /\ waiting' = waiting
    BY <1>4 DEF StartFit, workVars
  <2>2. waiting = FALSE /\ \A w \in Workers : Len(todo[w]) = 0
    BY <1>1, <2>1 DEF NoiseInv, NoiseTyped, Control
  <2>3. Between(calls', 1, 16) /\ Paired(calls')
    BY <2>1, FirstCallsIs, CallsPaired
  <2>4. waiting' = FALSE /\ \A w \in Workers : Len(todo[w]) <= 1
    BY <2>1, <2>2
  <2> QED
    BY <1>1, <2>1, <2>3, <2>4, QueuedNew
<1>5. CASE Call
  <2> DEFINE call == calls[1]
  <2>1. /\ phase = "calling" /\ ~waiting /\ Len(calls) > 0 /\ calls' = calls /\ waiting' = TRUE /\ phase' = phase
    BY <1>2, <1>5 DEF Call
  <2>2. todo' = [w \in Workers |->
          IF w \in GroupOf(call) /\ Method(call, w) # <<>> THEN Append(todo[w], Method(call, w)) ELSE todo[w]]
    BY <1>2, <1>5, <2>1 DEF Call
  <2> HIDE DEF call
  <2>3. ASSUME NEW w \in Workers
        PROVE  /\ Len(todo'[w]) <= Len(todo[w]) + 1
               /\ w \notin GroupOf(call) => Len(todo'[w]) = Len(todo[w])
    <3>1. todo'[w] = todo[w] \/ todo'[w] = Append(todo[w], Method(call, w))
      BY <2>2
    <3>2. Len(Append(todo[w], Method(call, w))) = Len(todo[w]) + 1
      BY <1>1
    <3>3. w \notin GroupOf(call) => todo'[w] = todo[w]
      BY <2>2
    <3> QED
      BY <1>1, <3>1, <3>2, <3>3
  <2>4. \A w \in Workers : Len(todo[w]) <= 1
    BY <2>1 DEF Queued
  <2>5. call = "analyze" => GroupOf(call) = Actors /\ \A w \in Actors : Len(todo[w]) = 0
    BY <2>1 DEF Queued, GroupOf, call
  <2>6. \A w \in Workers : Len(todo'[w]) <= 2
    <3>1. \A w \in Workers : Len(todo'[w]) <= Len(todo[w]) + 1 /\ Len(todo[w]) <= 1 /\ Len(todo[w]) \in Nat
      BY <1>1, <2>3, <2>4
    <3> QED
      BY <2>2, <3>1
  <2>7. ASSUME NEW w \in Workers, call = "analyze" \/ w \notin GroupOf(call) PROVE Len(todo'[w]) <= 1
    <3>1. CASE w \notin GroupOf(call)
      BY <2>3, <2>4, <3>1
    <3>2. CASE w \in GroupOf(call)
      <4>1. Len(todo[w]) = 0 /\ Len(todo'[w]) <= Len(todo[w]) + 1
        BY <2>3, <2>5, <2>7, <3>2
      <4> QED
        BY <4>1
    <3> QED
      BY <3>1, <3>2
  <2>8. GroupOf(calls[1])' = GroupOf(call)
    BY <1>1, <2>1 DEF GroupOf, Group, PoolOf, call
  <2>9. calls'[1] = call /\ (Has(calls', "analyze") => Has(calls', "validate") \/ calls'[1] = "analyze")
    BY <2>1 DEF Queued, call
  <2> QED
    BY <1>1, <2>1, <2>6, <2>7, <2>8, <2>9 DEF Queued
<1>6. CASE Track
  <2>1. phase = "calling" /\ Len(calls) > 0 /\ calls[1] = "track" /\ calls' = Tail(calls) /\ waiting' = waiting /\ todo' = todo
    <3>1. phase = "calling" /\ calls # <<>> /\ Head(calls) = "track" /\ calls' = Tail(calls)
      BY <1>6, Zenon DEF Track
    <3>2. UNCHANGED <<workVars, waiting>>
      BY <1>6, Zenon DEF Track
    <3> QED
      BY <1>2, <3>1, <3>2 DEF workVars
  <2>2. waiting = FALSE
    BY <1>1, <2>1 DEF NoiseInv, Control, NoiseTyped
  <2>3. \A w \in Workers : Len(todo[w]) <= 1
    BY <2>1, <2>2 DEF Queued
  <2> QED
    BY <1>1, <2>1, <2>2, <2>3, QueuedGo
<1>7. CASE Return
  <2>1. phase = "calling" /\ waiting /\ calls' = Tail(calls) /\ waiting' = FALSE /\ todo' = todo
    BY <1>7 DEF Return, workVars
  <2>2. Len(calls) > 0
    BY <1>1, <2>1 DEF NoiseInv, Control
  <2>3. \A w \in GroupOf(calls[1]) : todo[w] = <<>>
    BY <1>2, <1>7, <2>2 DEF Return
  <2>4. \A w \in Workers : Len(todo[w]) <= 1
    <3>1. \A w \in Workers : w \in GroupOf(calls[1]) => Len(todo[w]) = 0
      BY <1>1, <2>3
    <3>2. \A w \in Workers : w \notin GroupOf(calls[1]) => Len(todo[w]) <= 1
      BY <2>1 DEF Queued
    <3> QED
      BY <3>1, <3>2
  <2>5. calls[1] = "validate" => \A w \in Actors : Len(todo[w]) = 0
    BY <1>1, <2>3 DEF GroupOf, Actors, Group
  <2> QED
    BY <1>1, <2>1, <2>2, <2>4, <2>5, QueuedGo
<1>8. CASE Except
  <2>1. phase = "calling" /\ waiting /\ todo' = todo
    BY <1>8 DEF Except, workVars
  <2>2. Len(calls) > 0
    BY <1>1, <2>1 DEF NoiseInv, Control
  <2>3. CASE calls[1] = "analyze"
    <3>1. calls' = Tail(calls) /\ waiting' = FALSE
      BY <1>2, <1>8, <2>2, <2>3 DEF Except
    <3>2. \A w \in Workers : Len(todo[w]) <= 1
      BY <2>1, <2>3 DEF Queued
    <3> QED
      BY <1>1, <2>1, <2>2, <2>3, <3>1, <3>2, QueuedGo
  <2>4. CASE calls[1] # "analyze"
    <3>1. phase' = "raised"
      BY <1>2, <1>8, <2>2, <2>4 DEF Except
    <3> QED
      BY <1>1, <2>1, <3>1 DEF Queued
  <2> QED
    BY <2>3, <2>4
<1>9. CASE Advance
  <2>1. phase = "calling" /\ Len(calls) = 0 /\ todo' = todo /\ waiting' = waiting
    BY <1>2, <1>9 DEF Advance, workVars
  <2>2. waiting = FALSE
    BY <1>1, <2>1 DEF NoiseInv, Control, NoiseTyped
  <2>3. CASE step >= job.steps
    <3>1. phase' = "done"
      BY <1>9, <2>3 DEF Advance
    <3> QED
      BY <1>1, <2>1, <3>1 DEF Queued
  <2>4. CASE ~(step >= job.steps)
    <3>0. PICK again : calls' = StepCalls(step + 1, again)
      BY <1>9, <2>4 DEF Advance
    <3>1. step + 1 \in Nat
      BY <1>1 DEF NoiseTyped
    <3>2. Between(calls', 6, 19) /\ Paired(calls')
      BY <3>0, <3>1, StepCallsIs, CallsPaired
    <3>3. \A w \in Workers : Len(todo[w]) <= 1
      BY <2>1, <2>2 DEF Queued
    <3> QED
      BY <1>1, <2>1, <2>2, <3>2, <3>3, QueuedNew
  <2> QED
    BY <2>3, <2>4
<1>10. CASE Restart
  <2>1. phase' = "starting" /\ \A w \in Workers : todo'[w] = <<>>
    BY <1>10 DEF Restart
  <2> QED
    BY <1>1, <2>1 DEF Queued
<1> QED
  BY <1>3, <1>4, <1>5, <1>6, <1>7, <1>8, <1>9, <1>10, StepKinds

-----------------------------------------------------------------------------
\* What the operations ask for

\* Only parts of the models are loaded and built; updates and files are of the present
\* step; and only a process of the actors has a rollout.
SoundOps(w) ==
  {op \in Ops :
     /\ op[1] \in {"load", "build"} => op[2] \in Parts
     /\ op[1] \in {"update", "update_critic", "save"} => op[2].step = step
     /\ op[1] \in {"build_manager", "start_engine"} => w \in Actors}

\* Those that are sound whatever they ask for.
DullNames ==
  {"offload", "wake", "sync", "to_gen", "sleep", "train", "to_train", "awake", "asleep", "unhook", "eval", "draw",
   "barrier", "build_engine", "generate", "forward", "reference", "values", "restore", "hook"}

\* Operations with these names are sound.
LEMMA DullSound ==
  ASSUME NEW w, NEW op \in Ops, op[1] \in DullNames
  PROVE  op \in SoundOps(w)
BY DEF DullNames, SoundOps

\* The operations with a word for their argument.
LEMMA WordsSound ==
  ASSUME NEW w
  PROVE  /\ \A p \in Parts : <<"load", p>> \in SoundOps(w) /\ <<"offload", p>> \in SoundOps(w)
                               /\ <<"build", p>> \in SoundOps(w)
         /\ \A x \in {"weights", "cache", "all"} : <<"wake", x>> \in SoundOps(w)
         /\ \A x \in {"before", "after", "loaded"} : <<"barrier", x>> \in SoundOps(w)
         /\ \A n \in {"sync", "to_gen", "sleep", "train", "to_train", "awake", "asleep", "unhook", "eval", "draw",
                      "build_engine"} : <<n, "">> \in SoundOps(w)
         /\ w \in Actors => <<"build_manager", "">> \in SoundOps(w) /\ <<"start_engine", "">> \in SoundOps(w)
<1>1. ASSUME NEW p \in Parts
      PROVE  /\ <<"load", p>> \in SoundOps(w) /\ <<"offload", p>> \in SoundOps(w)
             /\ <<"build", p>> \in SoundOps(w)
  BY DEF SoundOps, Ops, WordOps, PassOps, Words
<1>2. \A x \in {"weights", "cache", "all"} : <<"wake", x>> \in SoundOps(w)
  BY DEF SoundOps, Ops, WordOps, PassOps, Words
<1>3. \A x \in {"before", "after", "loaded"} : <<"barrier", x>> \in SoundOps(w)
  BY DEF SoundOps, Ops, WordOps, PassOps, Words
<1>4. ASSUME NEW n \in {"sync", "to_gen", "sleep", "train", "to_train", "awake", "asleep", "unhook", "eval", "draw",
                        "build_engine"}
      PROVE  <<n, "">> \in SoundOps(w)
  BY DEF SoundOps, Ops, WordOps, PassOps, Words
<1>5. w \in Actors => <<"build_manager", "">> \in SoundOps(w) /\ <<"start_engine", "">> \in SoundOps(w)
  BY DEF SoundOps, Ops, WordOps, PassOps, Words
<1> QED
  BY <1>1, <1>2, <1>3, <1>4, <1>5

\* The passes, with the present step, and the files.
LEMMA PassesSound ==
  ASSUME NEW w, NEW what \in Whats, what.step = step
  PROVE  /\ \A n \in PassOps : <<n, what>> \in SoundOps(w)
         /\ \A f \in Files : <<"restore", f>> \in SoundOps(w) /\ (f.step = step => <<"save", f>> \in SoundOps(w))
<1>1. \A n \in PassOps : <<n, what>> \in SoundOps(w)
  BY DEF SoundOps, Ops, WordOps, PassOps, Words
<1>2. ASSUME NEW f \in Files
      PROVE <<"restore", f>> \in SoundOps(w) /\ (f.step = step => <<"save", f>> \in SoundOps(w))
  BY DEF SoundOps, Ops, WordOps, PassOps, Words
<1> QED
  BY <1>1, <1>2

\* Lists of sound operations that every method is made of.
LEMMA SoundLists ==
  ASSUME NEW w
  PROVE  /\ \A p \in Parts : Load(p) \in Seq(SoundOps(w)) /\ Offload(p) \in Seq(SoundOps(w))
         /\ Enter \in Seq(SoundOps(w)) /\ Exit \in Seq(SoundOps(w))
         /\ \A where \in {"actor", "engine"}, ph \in {"eval", "train"}, n \in Noises :
              Hook(where, ph, n) \in Seq(SoundOps(w)) /\ Unhook(n) \in Seq(SoundOps(w))
<1> DEFINE S == SoundOps(w)
<1>1. /\ \A p \in Parts : <<"load", p>> \in S /\ <<"offload", p>> \in S
      /\ \A x \in {"weights", "cache", "all"} : <<"wake", x>> \in S
      /\ \A n \in {"sync", "to_gen", "sleep", "train", "to_train", "unhook"} : <<n, "">> \in S
  BY WordsSound
<1>2. \A where \in {"actor", "engine"}, ph \in {"eval", "train"}, n \in Noises :
        <<"hook", [where |-> where, phase |-> ph, noise |-> n]>> \in S
  <2> SUFFICES ASSUME NEW where \in {"actor", "engine"}, NEW ph \in {"eval", "train"}, NEW n \in Noises
               PROVE  <<"hook", [where |-> where, phase |-> ph, noise |-> n]>> \in S
    OBVIOUS
  <2> DEFINE h == [where |-> where, phase |-> ph, noise |-> n]
  <2>1. h \in HookArgs
    BY DEF HookArgs
  <2> HIDE DEF h
  <2>2. <<"hook", h>> \in Ops
    BY <2>1 DEF Ops
  <2>3. <<"hook", h>> \in S
    BY <2>2, DullSound DEF DullNames
  <2> QED
    BY <2>3 DEF h
<1> HIDE DEF S
<1>3. <<>> \in Seq(S) /\ \A x \in S : <<x>> \in Seq(S)
  BY ShortLists
<1>4. \A p \in Parts : Load(p) \in Seq(S) /\ Offload(p) \in Seq(S)
  BY <1>1, <1>3, Zenon DEF Load, Offload
<1>5. \A where \in {"actor", "engine"}, ph \in {"eval", "train"}, n \in Noises :
        Hook(where, ph, n) \in Seq(S) /\ Unhook(n) \in Seq(S)
  <2> SUFFICES ASSUME NEW where \in {"actor", "engine"}, NEW ph \in {"eval", "train"}, NEW n \in Noises
               PROVE  Hook(where, ph, n) \in Seq(S) /\ Unhook(n) \in Seq(S)
    OBVIOUS
  <2>1. <<<<"hook", [where |-> where, phase |-> ph, noise |-> n]>>>> \in Seq(S) /\ <<<<"unhook", "">>>> \in Seq(S)
    BY <1>1, <1>2, <1>3, Zenon
  <2> QED
    BY <1>3, <2>1, Zenon DEF Hook, Unhook
<1>6. Enter \in Seq(S) /\ Exit \in Seq(S)
  <2>1. /\ <<<<"wake", "weights">>, <<"sync", "">>>> \in Seq(S) /\ <<<<"wake", "cache">>>> \in Seq(S)
        /\ <<<<"wake", "all">>, <<"sync", "">>>> \in Seq(S) /\ <<<<"to_gen", "">>>> \in Seq(S)
        /\ <<<<"sleep", "">>, <<"train", "">>, <<"to_train", "">>>> \in Seq(S)
    <3>1. /\ <<"wake", "weights">> \in S /\ <<"wake", "cache">> \in S /\ <<"wake", "all">> \in S
          /\ <<"sync", "">> \in S /\ <<"to_gen", "">> \in S
          /\ <<"sleep", "">> \in S /\ <<"train", "">> \in S /\ <<"to_train", "">> \in S
      BY <1>1
    <3> QED
      BY <3>1, ShortLists, Zenon
  <2>2. Load("actor") \in Seq(S) /\ Offload("actor") \in Seq(S)
    BY <1>4 DEF Parts
  <2>3. \A a, b \in Seq(S) : a \o b \in Seq(S)
    OBVIOUS
  <2> DEFINE M == IF job.tags THEN <<<<"wake", "weights">>, <<"sync", "">>>> \o Offload("actor") \o <<<<"wake", "cache">>>>
                              ELSE <<<<"wake", "all">>, <<"sync", "">>>> \o Offload("actor")
  <2>4. M \in Seq(S)
    <3>1. CASE job.tags
      BY <3>1, <2>1, <2>2, <2>3, Zenon
    <3>2. CASE ~job.tags
      BY <3>2, <2>1, <2>2, <2>3, Zenon
    <3> QED
      BY <3>1, <3>2
  <2>5. Enter = (Load("actor") \o M) \o <<<<"to_gen", "">>>>
    BY DEF Enter
  <2> HIDE DEF M
  <2>6. Enter \in Seq(S)
    BY <2>1, <2>2, <2>3, <2>4, <2>5, Zenon
  <2> QED
    BY <2>1, <2>6 DEF Exit
<1> QED
  BY <1>4, <1>5, <1>6 DEF S

\* Every method is a list of sound operations.
LEMMA SoundMethod ==
  ASSUME NEW call \in CallNames \ {"track"}, NEW w, w \in GroupOf(call),
         step \in Nat, tracked \in Nat, FindsAsked(call)
  PROVE  Method(call, w) \in Seq(SoundOps(w))
<1> DEFINE S == SoundOps(w)
           what == [for |-> call, step |-> step]
           n == NoiseOf(call)
           saved(role) == [role |-> role, step |-> step]
           asked(role) == [role |-> role, step |-> tracked]
<1>1. what \in Whats /\ what.step = step
  BY DEF Whats
<1>2. \A role \in Roles : saved(role) \in Files /\ saved(role).step = step /\ asked(role) \in Files
  BY DEF Files
<1>3. /\ \A p \in Parts : Load(p) \in Seq(S) /\ Offload(p) \in Seq(S)
      /\ Enter \in Seq(S) /\ Exit \in Seq(S)
      /\ \A where \in {"actor", "engine"}, ph \in {"eval", "train"} : n \in Noises =>
              Hook(where, ph, n) \in Seq(S) /\ Unhook(n) \in Seq(S)
  BY SoundLists
<1>4. /\ Load("actor") \in Seq(S) /\ Offload("actor") \in Seq(S)
      /\ Load("actor_optim") \in Seq(S) /\ Offload("actor_optim") \in Seq(S)
      /\ Load("critic") \in Seq(S) /\ Offload("critic") \in Seq(S)
      /\ Load("critic_optim") \in Seq(S) /\ Offload("critic_optim") \in Seq(S)
  BY <1>3 DEF Parts
<1>5. /\ <<"build", "actor">> \in S /\ <<"build", "critic">> \in S
      /\ <<"barrier", "before">> \in S /\ <<"barrier", "after">> \in S /\ <<"barrier", "loaded">> \in S
      /\ <<"train", "">> \in S /\ <<"eval", "">> \in S /\ <<"draw", "">> \in S /\ <<"awake", "">> \in S
      /\ <<"asleep", "">> \in S /\ <<"build_engine", "">> \in S
      /\ w \in Actors => <<"build_manager", "">> \in S /\ <<"start_engine", "">> \in S
  BY WordsSound DEF Parts
<1>6. /\ <<"generate", what>> \in S /\ <<"forward", what>> \in S /\ <<"update", what>> \in S
      /\ <<"reference", what>> \in S /\ <<"values", what>> \in S /\ <<"update_critic", what>> \in S
  BY <1>1, PassesSound DEF PassOps
<1>7. \A role \in Roles : <<"save", saved(role)>> \in S /\ <<"restore", asked(role)>> \in S
  BY <1>1, <1>2, PassesSound
<1>8. <<>> \in Seq(S) /\ \A a, b \in Seq(S) : a \o b \in Seq(S)
  OBVIOUS
<1> HIDE DEF S, what, n, saved, asked
<1>9. /\ \A x \in S : <<x>> \in Seq(S)
      /\ \A x, y \in S : <<x, y>> \in Seq(S)
      /\ \A x, y, z \in S : <<x, y, z>> \in Seq(S)
  BY ShortLists
<1>10. CASE call \in {"generate", "resample", "validate"} /\ job.mode = "sync"
  <2>1. n \in Noises
    BY <1>10 DEF FindsAsked, n
  <2>2. Method(call, w) = GenerateSequences(n, what)
    BY <1>10 DEF Method, what, n
  <2>3. Hook("engine", "eval", n) \in Seq(S) /\ Unhook(n) \in Seq(S) /\ <<<<"generate", what>>>> \in Seq(S)
    BY <1>3, <1>6, <1>9, <2>1
  <2>4. GenerateSequences(n, what) \in Seq(S)
    BY <2>3, <1>3, <1>8, Zenon DEF GenerateSequences
  <2> QED
    BY <2>2, <2>4 DEF S
<1>11. CASE call \in {"generate", "resample", "validate"} /\ job.mode # "sync"
  <2>1. Method(call, w) = <<<<"generate", what>>>>
    BY <1>11 DEF Method, Serve, what
  <2> QED
    BY <2>1, <1>6, <1>9 DEF S
<1>12. CASE call \in {"old_log_prob", "clean_log_prob"}
  <2>1. n \in Noises
    BY <1>12 DEF FindsAsked, n
  <2>2. Method(call, w) = ComputeLogProb(n, what)
    BY <1>12 DEF Method, what, n
  <2>3. /\ Hook("actor", "eval", n) \in Seq(S) /\ Unhook(n) \in Seq(S)
        /\ <<<<"eval", "">>, <<"forward", what>>>> \in Seq(S)
    BY <1>3, <1>5, <1>6, <1>9, <2>1, Zenon
  <2>4. ComputeLogProb(n, what) \in Seq(S)
    BY <2>3, <1>4, <1>8, Zenon DEF ComputeLogProb
  <2> QED
    BY <2>2, <2>4 DEF S
<1>13. CASE call = "update_actor"
  <2>1. n \in Noises
    BY <1>13 DEF FindsAsked, n
  <2>2. Method(call, w) = UpdateActor(n, what)
    BY <1>13 DEF Method, what, n
  <2>3. /\ Hook("actor", "train", n) \in Seq(S) /\ Unhook(n) \in Seq(S)
        /\ <<<<"train", "">>, <<"update", what>>>> \in Seq(S)
    BY <1>3, <1>5, <1>6, <1>9, <2>1, Zenon
  <2>4. UpdateActor(n, what) \in Seq(S)
    BY <2>3, <1>4, <1>8, Zenon DEF UpdateActor
  <2> QED
    BY <2>2, <2>4 DEF S
<1>14. CASE call = "analyze"
  <2>1. Method(call, w) = AnalyzeGenerationPolicy(what)
    BY <1>14 DEF Method, what
  <2>2. <<<<"eval", "">>, <<"forward", what>>>> \in Seq(S)
    BY <1>5, <1>6, <1>9, Zenon
  <2>3. AnalyzeGenerationPolicy(what) \in Seq(S)
    BY <2>2, <1>4, <1>8, Zenon DEF AnalyzeGenerationPolicy
  <2> QED
    BY <2>1, <2>3 DEF S
<1>15. CASE call \in {"init_actor", "init_engine"}
  <2>1. w \in Actors /\ Method(call, w) \in {InitActor, InitEngine}
    BY <1>15 DEF Method, GroupOf
  <2>2. /\ <<<<"build", "actor">>>> \in Seq(S) /\ <<<<"build_engine", "">>>> \in Seq(S)
        /\ <<<<"build_manager", "">>>> \in Seq(S) /\ <<<<"start_engine", "">>>> \in Seq(S)
    BY <1>5, <1>9, <2>1, Zenon
  <2> DEFINE e == IF job.mode = "sync" THEN <<<<"build_engine", "">>>> ELSE <<>>
  <2>3. e \in Seq(S)
    BY <1>8, <2>2, Zenon
  <2>4. InitActor = <<<<"build", "actor">>>> \o Offload("actor") \o Offload("actor_optim") \o e \o <<<<"build_manager", "">>>>
    BY DEF InitActor
  <2> HIDE DEF e
  <2>5. InitActor \in Seq(S)
    BY <1>4, <1>8, <2>2, <2>3, <2>4, Zenon
  <2> QED
    BY <2>1, <2>2, <2>5 DEF InitEngine, S
<1>16. CASE call \in {"wake_up", "sleep"}
  <2>1. Method(call, w) \in {WakeUp(w), Sleep(w)}
    BY <1>16 DEF Method
  <2>2. <<<<"awake", "">>>> \in Seq(S) /\ <<<<"asleep", "">>>> \in Seq(S)
    BY <1>5, <1>9, Zenon
  <2>3. Enter \o <<<<"awake", "">>>> \in Seq(S) /\ Exit \o <<<<"asleep", "">>>> \in Seq(S)
    BY <1>3, <1>8, <2>2, Zenon
  <2>4. WakeUp(w) \in Seq(S) /\ Sleep(w) \in Seq(S)
    BY <1>8, <2>3, Zenon DEF WakeUp, Sleep
  <2> QED
    BY <2>1, <2>4 DEF S
<1>17. CASE call \in {"ref", "values", "update_critic", "init_critic"}
  <2>1. Method(call, w) \in {ComputeRefLogProb(what), ComputeValues(what), UpdateCritic(what), InitCritic}
    BY <1>17 DEF Method, what
  <2>2. /\ <<<<"reference", what>>>> \in Seq(S) /\ <<<<"values", what>>>> \in Seq(S)
        /\ <<<<"draw", "">>, <<"update_critic", what>>>> \in Seq(S) /\ <<<<"build", "critic">>>> \in Seq(S)
    BY <1>5, <1>6, <1>9, Zenon
  <2>3. ComputeRefLogProb(what) \in Seq(S) /\ ComputeValues(what) \in Seq(S) /\ InitCritic \in Seq(S)
    BY <1>4, <1>8, <2>2, Zenon DEF ComputeRefLogProb, ComputeValues, InitCritic
  <2>4. UpdateCritic(what) \in Seq(S)
    BY <1>4, <1>8, <2>2, Zenon DEF UpdateCritic
  <2> QED
    BY <2>1, <2>3, <2>4 DEF S
<1>18. ASSUME NEW role \in Roles
       PROVE  SaveCheckpoint(role, step) \in Seq(S) /\ LoadCheckpoint(role, tracked) \in Seq(S)
  <2>1. Load(role) \in Seq(S) /\ Offload(role) \in Seq(S) /\ Offload(Optim(role)) \in Seq(S)
    BY <1>4 DEF Roles, Optim
  <2> DEFINE b == <<<<"barrier", "before">>, <<"save", saved(role)>>, <<"barrier", "after">>>>
             r == <<<<"restore", asked(role)>>>>
             z == IF role = "critic" THEN <<<<"barrier", "loaded">>>> ELSE <<>>
  <2>2. b \in Seq(S) /\ r \in Seq(S)
    BY <1>5, <1>7, <1>9, Zenon
  <2>3. z \in Seq(S)
    BY <1>5, <1>8, <1>9, Zenon
  <2>4. /\ SaveCheckpoint(role, step) = Load(role) \o b \o Offload(role)
        /\ LoadCheckpoint(role, tracked) = Load(role) \o r \o z \o Offload(role) \o Offload(Optim(role))
    BY DEF SaveCheckpoint, LoadCheckpoint, saved, asked
  <2> HIDE DEF b, r, z
  <2>5. Load(role) \o b \o Offload(role) \in Seq(S)
    BY <1>8, <2>1, <2>2, Zenon
  <2>6. Load(role) \o r \o z \o Offload(role) \o Offload(Optim(role)) \in Seq(S)
    BY <1>8, <2>1, <2>2, <2>3, Zenon
  <2> QED
    BY <2>4, <2>5, <2>6
<1>19. CASE call \in {"save_actor", "save_critic", "load_actor", "load_critic"}
  <2>1. \E role \in Roles : Method(call, w) \in {SaveCheckpoint(role, step), LoadCheckpoint(role, tracked)}
    BY <1>19 DEF Method, Roles
  <2> QED
    BY <1>18, <2>1 DEF S
<1> QED
  BY <1>10, <1>11, <1>12, <1>13, <1>14, <1>15, <1>16, <1>17, <1>19 DEF CallNames

\* Whatever a process still has to do is sound.
Sound == \A w \in Workers : Within(todo[w], SoundOps(w))

\* What is left of an analysis is so in every step.
LEMMA LeftSound ==
  ASSUME NEW w, NEW q, Left(q)
  PROVE  Within(q, SoundOps(w)')
<1>1. AnalysisOps \subseteq SoundOps(w)'
  BY DEF AnalysisOps, SoundOps, Parts
<1> DEFINE S == SoundOps(w)'
<1>2. AnalysisOps \subseteq S
  BY <1>1
<1> HIDE DEF S
<1>3. \A l \in Seq(AnalysisOps) : l \in Seq(S)
  BY <1>2
<1> QED
  BY <1>3 DEF Left, Within, S

\* In the beginning.
LEMMA SoundInit ==
  ASSUME Init
  PROVE  Sound
<1>1. \A w \in Workers : 1..Len(todo[w]) = {}
  BY DEF Init, WorkInit
<1> QED
  BY <1>1 DEF Sound, Within

\* Every step keeps it so.
LEMMA SoundStep ==
  ASSUME NoiseInv, Sound, [Next]_vars
  PROVE  Sound'
<1>1. /\ job' = job /\ Workers' = Workers /\ Actors' = Actors /\ NoiseTyped
      /\ \A w \in Workers : todo[w] \in Seq(Lists(Ops)) /\ Len(todo[w]) \in Nat /\ (todo[w] = <<>> <=> Len(todo[w]) = 0)
  <2>1. job' = job /\ NoiseTyped /\ WorkTyped
    BY JobSame DEF NoiseInv, NoiseTyped
  <2> QED
    BY <2>1, JobFrame, OpIs
<1>2. step' = step => \A w : SoundOps(w)' = SoundOps(w)
  BY <1>1 DEF SoundOps
<1>3. ASSUME Idle PROVE Sound'
  <2>1. step' = step
    BY <1>3, IdleFrame
  <2>2. \A w \in Workers : \A S : Within(todo[w], S) => Within(todo'[w], S)
    BY <1>3, QueuesShrink
  <2> QED
    BY <1>1, <1>2, <2>1, <2>2 DEF Sound
<1>4. ASSUME StartFit PROVE Sound'
  <2>1. phase = "starting" /\ todo' = todo
    BY <1>4 DEF StartFit, workVars
  <2>2. \A w \in Workers : 1..Len(todo'[w]) = {}
    BY <1>1, <2>1 DEF NoiseInv, Control
  <2> QED
    BY <1>1, <2>2 DEF Sound, Within
<1>5. ASSUME Call PROVE Sound'
  <2> DEFINE call == calls[1]
  <2>1. /\ phase = "calling" /\ Len(calls) > 0 /\ Head(calls) = calls[1] /\ call \in CallNames \ {"track"} /\ step' = step
        /\ ~waiting
    <3>1. phase = "calling" /\ calls # <<>> /\ Head(calls) # "track" /\ step' = step /\ ~waiting
      BY <1>5 DEF Call
    <3> QED
      BY <1>1, <3>1, CallsEmpty
  <2>2. todo' = [w \in Workers |->
          IF w \in GroupOf(call) /\ Method(call, w) # <<>> THEN Append(todo[w], Method(call, w)) ELSE todo[w]]
    BY <1>5, <2>1 DEF Call
  <2>3. step \in Nat /\ tracked \in Nat /\ FindsAsked(call)
    BY <1>1, <2>1, FindsIt DEF NoiseTyped
  <2> HIDE DEF call
  <2>4. ASSUME NEW w \in Workers PROVE Within(todo'[w], SoundOps(w))
    <3>1. Within(todo[w], SoundOps(w)) /\ todo[w] \in Seq(Lists(Ops))
      BY <1>1 DEF Sound
    <3>2. CASE w \in GroupOf(call) /\ Method(call, w) # <<>>
      <4> DEFINE m == Method(call, w)
                 S == SoundOps(w)
      <4>1. m \in Seq(S)
        BY <2>1, <2>3, <3>2, SoundMethod
      <4>2. S \subseteq Ops
        BY DEF SoundOps
      <4>3. todo'[w] = Append(todo[w], m) /\ m # <<>>
        BY <2>2, <3>2
      <4> HIDE DEF m, S
      <4>4. m \in Seq(Ops) /\ Len(m) > 0
        <5>1. m \in Seq(Ops)
          BY <4>1, <4>2
        <5> QED
          BY <4>3, <5>1, EmptyQueue
      <4>5. Within(Append(todo[w], m), S)
        BY <3>1, <4>1, <4>4, QueueAppend DEF S
      <4> QED
        BY <4>3, <4>5 DEF S
    <3>3. CASE ~(w \in GroupOf(call) /\ Method(call, w) # <<>>)
      BY <2>2, <3>1, <3>3
    <3> QED
      BY <3>2, <3>3
  <2> QED
    BY <1>1, <1>2, <2>1, <2>4 DEF Sound
<1>6. ASSUME Track \/ Return \/ Except PROVE Sound'
  <2>1. step' = step /\ UNCHANGED workVars
    BY <1>6, Zenon DEF Track, Return, Except
  <2>2. todo' = todo
    BY <2>1 DEF workVars
  <2> QED
    BY <1>1, <1>2, <2>1, <2>2 DEF Sound
<1>7. ASSUME Advance PROVE Sound'
  <2>1. phase = "calling" /\ calls = <<>> /\ todo' = todo
    BY <1>7 DEF Advance, workVars
  <2>2. ~waiting
    <3>1. ~(Len(calls) > 0)
      BY <2>1
    <3> QED
      BY <2>1, <3>1 DEF NoiseInv, Control
  <2>3. \A w \in Workers : Left(todo[w])
    BY <2>1, <2>2 DEF NoiseInv, Control
  <2>4. \A w \in Workers : Within(todo[w], SoundOps(w)')
    BY <2>3, LeftSound
  <2> QED
    BY <1>1, <2>1, <2>4 DEF Sound
<1>8. ASSUME Restart PROVE Sound'
  <2>1. \A w \in Workers : 1..Len(todo'[w]) = {}
    BY <1>8 DEF Restart
  <2> QED
    BY <1>1, <2>1 DEF Sound, Within
<1> QED
  BY <1>3, <1>4, <1>5, <1>6, <1>7, <1>8, StepKinds

-----------------------------------------------------------------------------
\* What the processes and the disk hold

\* A random state, and the three of a process, go back to a seed of this job.
FromSeeds(r) == r.now.seed \in Seeds /\ r.train.seed \in Seeds /\ r.gen.seed \in Seeds

\* A process has one hook at most and nothing on its GPU but parts of the models; its
\* weights are of no step to come, and its random states go back to seeds of this job.
HeldBy(w) ==
  /\ Cardinality(hooks[w]) <= 1 /\ onGpu[w] \subseteq Parts
  /\ (\A r \in Roles : model[w][r] <= step) /\ engine[w].weights <= step
  /\ FromSeeds(random[w])

\* A file's weights are of no later step than the file.
Stored(f) == f.weights <= f.file.step /\ f.random.seed \in Seeds
Held == (\A w \in Workers : HeldBy(w)) /\ (\A f \in disk : Stored(f))

\* The seeds that the processes set.
LEMMA SeedsAre ==
  ASSUME job \in Jobs, NEW w \in Workers, NEW n \in {"default", "engine", "server", "manager"}
  PROVE  <<n, 0>> \in Seeds /\ (w \in Actors => <<n, w[2] \div job.tp>> \in Seeds)
<1>1. PICK p \in Pools : w \in {p} \X (0..(World(p) - 1))
  BY DEF Workers
<1>2. job.pools \in Seq(Seq(Nat \ {0})) /\ job.tp \in Nat \ {0} /\ \A q \in Pools : job.pools[q] # <<>>
  BY NoisyAssumption DEF Pools
<1>3. p \in 1..Len(job.pools) /\ Len(job.pools) \in Nat /\ 1 \in Pools
  BY <1>1, <1>2 DEF Pools
<1>4. job.pools[1] \in Seq(Nat \ {0})
  BY <1>2, <1>3 DEF Pools
<1>5. Len(job.pools[1]) \in Nat \ {0} /\ job.pools[1][1] \in Nat \ {0}
  BY <1>2, <1>3, <1>4, EmptyQueue
<1>6. \A a, b \in Nat \ {0} : a * b \in Nat \ {0}
  OBVIOUS
<1>7. World(1) \in Nat \ {0}
  BY <1>5, <1>6 DEF World
<1>8. 0 \in 0..(World(1) - 1)
  BY <1>7
<1>9. ASSUME w \in Actors PROVE w[2] \div job.tp \in 0..(World(1) - 1)
  <2>1. w[1] = 1
    BY <1>9 DEF Actors, Group, PoolOf
  <2>2. w[2] \in 0..(World(1) - 1)
    BY <1>1, <2>1
  <2> DEFINE k == w[2]
             t == job.tp
             m == World(1)
  <2>3. k \in 0..(m - 1) /\ t \in Nat \ {0} /\ m \in Nat
    BY <1>2, <1>7, <2>2
  <2> HIDE DEF k, t, m
  <2>4. \A x \in Nat : \A y \in Nat \ {0} : x \div y \in 0..x
    <3>1. ASSUME NEW x \in Nat, NEW y \in Nat \ {0} PROVE x \div y \in 0..x
      <4>1. x = y * (x \div y) + (x % y) /\ x % y \in 0..(y - 1) /\ x \div y \in Int
        OBVIOUS
      <4> DEFINE q == x \div y
                 r == x % y
      <4>2. x = y * q + r /\ r \in 0..(y - 1) /\ q \in Int
        BY <4>1
      <4> HIDE DEF q, r
      <4>3. q >= 0
        BY <4>2
      <4>4. y * q >= q
        BY <4>3, <4>2
      <4>5. q <= x
        BY <4>2, <4>4
      <4> QED
        BY <4>2, <4>3, <4>5 DEF q
    <3> QED
      BY <3>1
  <2>5. k \div t \in 0..k
    BY <2>3, <2>4
  <2> QED
    BY <2>3, <2>5 DEF k, t, m
<1> QED
  BY <1>8, <1>9 DEF Seeds

\* A file that a process finds.
LEMMA Found ==
  ASSUME NEW w, CanDo(w), Op(w)[1] = "restore"
  PROVE  LET f == CHOOSE x \in OnDisk(w, Op(w)[2]) : TRUE
         IN  f \in disk /\ f.file.step = Op(w)[2].step
<1>1. OnDisk(w, Op(w)[2]) # {}
  BY DEF CanDo
<1> DEFINE y == CHOOSE x \in OnDisk(w, Op(w)[2]) : TRUE
<1>2. y \in OnDisk(w, Op(w)[2])
  BY <1>1
<1> HIDE DEF y
<1>3. y \in disk /\ y.file.step = Op(w)[2].step
  BY <1>2 DEF OnDisk, File
<1> QED
  BY <1>3 DEF y

\* Its random states after a local operation.
LEMMA RandomHeld ==
  ASSUME job \in Jobs, EngineTyped, NEW w \in Workers, CanDo(w), Op(w) \in SoundOps(w),
         FromSeeds(random[w]), \A f \in disk : Stored(f)
  PROVE  FromSeeds(RandomAfter(w))
<1> DEFINE r == random[w]
           op == Op(w)
           k == w[2] \div job.tp
           R == [now : RandomStates, train : RandomStates, gen : RandomStates]
           b == Seeded(<<"engine", 0>>)
           s == Seeded(<<"server", k>>)
           m == Seeded(<<"manager", k>>)
           d == [r.now EXCEPT !.by = @ \cup {w[2]}]
           f == (CHOOSE x \in OnDisk(w, op[2]) : TRUE).random
<1>1. r \in R /\ r.now \in RandomStates /\ r.train \in RandomStates /\ r.gen \in RandomStates
  BY DEF EngineTyped
<1>2. /\ b.seed \in Seeds
      /\ op[1] = "start_engine" => s.seed \in Seeds
      /\ op[1] = "build_manager" => m.seed \in Seeds
  <2>1. op[1] \in {"build_manager", "start_engine"} => w \in Actors
    BY DEF SoundOps
  <2>2. b.seed = <<"engine", 0>> /\ s.seed = <<"server", k>> /\ m.seed = <<"manager", k>>
    BY DEF Seeded
  <2>3. <<"engine", 0>> \in Seeds
    BY SeedsAre
  <2>4. w \in Actors => <<"server", k>> \in Seeds /\ <<"manager", k>> \in Seeds
    BY SeedsAre
  <2> QED
    BY <2>1, <2>2, <2>3, <2>4
<1>3. d.seed = r.now.seed
  BY <1>1 DEF RandomStates
<1>4. op[1] = "restore" => f.seed \in Seeds
  BY Found DEF Stored
<1>5. RandomAfter(w) =
        CASE op[1] = "build_engine"  -> [r EXCEPT !.now = b]
          [] op[1] = "start_engine"  -> [r EXCEPT !.now = s]
          [] op[1] = "build_manager" -> [r EXCEPT !.train = r.now, !.gen = m]
          [] op[1] = "to_gen"        -> [r EXCEPT !.train = r.now, !.now = r.gen]
          [] op[1] = "to_train"      -> [r EXCEPT !.gen = r.now, !.now = r.train]
          [] op[1] = "draw"          -> [r EXCEPT !.now = d]
          [] op[1] = "restore"       -> [r EXCEPT !.now = f]
          [] OTHER                   -> r
  BY DEF RandomAfter, ToTrain
<1>6. r.now.seed \in Seeds /\ r.train.seed \in Seeds /\ r.gen.seed \in Seeds
  BY DEF FromSeeds
<1> HIDE DEF r, op, k, b, s, m, d, f
<1>7. \A x : x.seed \in Seeds => FromSeeds([r EXCEPT !.now = x])
  BY <1>1, <1>6 DEF FromSeeds
<1>8. \A x, y : x.seed \in Seeds /\ y.seed \in Seeds =>
        /\ FromSeeds([r EXCEPT !.train = x, !.gen = y])
        /\ FromSeeds([r EXCEPT !.train = x, !.now = y])
        /\ FromSeeds([r EXCEPT !.gen = x, !.now = y])
  BY <1>1, <1>6 DEF FromSeeds
<1>9. FromSeeds(r)
  BY <1>6 DEF FromSeeds
<1>10. CASE op[1] = "build_engine"
  BY <1>2, <1>5, <1>7, <1>10
<1>11. CASE op[1] = "start_engine"
  BY <1>2, <1>5, <1>7, <1>11
<1>12. CASE op[1] = "build_manager"
  <2> DEFINE a == [r EXCEPT !.train = r.now, !.gen = m]
  <2>1. RandomAfter(w) = a
    BY <1>5, <1>12
  <2>2. FromSeeds(a)
    BY <1>2, <1>6, <1>8, <1>12
  <2> HIDE DEF a
  <2> QED
    BY <2>1, <2>2
<1>13. CASE op[1] = "to_gen"
  <2> DEFINE a == [r EXCEPT !.train = r.now, !.now = r.gen]
  <2>1. RandomAfter(w) = a
    BY <1>5, <1>13
  <2>2. FromSeeds(a)
    BY <1>6, <1>8
  <2> HIDE DEF a
  <2> QED
    BY <2>1, <2>2
<1>14. CASE op[1] = "to_train"
  <2> DEFINE a == [r EXCEPT !.gen = r.now, !.now = r.train]
  <2>1. RandomAfter(w) = a
    BY <1>5, <1>14
  <2>2. FromSeeds(a)
    BY <1>6, <1>8
  <2> HIDE DEF a
  <2> QED
    BY <2>1, <2>2
<1>15. CASE op[1] = "draw"
  BY <1>3, <1>5, <1>6, <1>7, <1>15
<1>16. CASE op[1] = "restore"
  BY <1>4, <1>5, <1>7, <1>16
<1>17. CASE op[1] \notin {"build_engine", "start_engine", "build_manager", "to_gen", "to_train", "draw", "restore"}
  BY <1>5, <1>9, <1>17
<1> QED
  BY <1>10, <1>11, <1>12, <1>13, <1>14, <1>15, <1>16, <1>17

\* A step of a process leaves it one hook at most.
LEMMA HooksHeld ==
  ASSUME NoiseInv, NEW w \in Workers, Cardinality(hooks[w]) <= 1,
         NoiseStays(w) \/ NoiseDoes(w) \/ NoiseDrops(w)
  PROVE  Cardinality(hooks'[w]) <= 1
<1>1. CASE NoiseStays(w)
  BY <1>1 DEF NoiseStays
<1>2. CASE NoiseDrops(w)
  BY <1>2, NoNoise DEF NoiseDrops
<1>3. CASE NoiseDoes(w)
  <2> DEFINE op == todo[w][1][1]
             h == hooks'[w]
  <2>1. /\ todo[w] \in Seq(Lists(Ops)) /\ Len(todo[w]) > 0
        /\ NoiseState(w) \in NoiseStates /\ NoiseState(w).hooks = hooks[w]
    BY <1>3, OpIs DEF NoiseInv, NoiseTyped, NoiseDoes
  <2>2. Works(NoiseContract, todo[w], NoiseState(w)) /\ NoiseContract.states = NoiseStates
        /\ NoiseContract.right = NoiseRight
    BY DEF NoiseInv, NoiseWorks, NoiseContract
  <2>3. <<op, NoiseState(w)>> \in NoiseRight
    BY <2>1, <2>2, WorksNext
  <2>4. op[1] = "hook" => hooks[w] = {}
    BY <2>1, <2>3 DEF NoiseRight
  <2>5. h = CASE op[1] = "hook" -> hooks[w] \cup {op[2]} [] op[1] = "unhook" -> {} [] OTHER -> hooks[w]
    <3>1. <<op, NoiseState(w), NoiseState(w)'>> \in NoiseMoves
      BY <1>3 DEF NoiseDoes
    <3>2. NoiseState(w)'.hooks = h
      BY DEF NoiseState
    <3> QED
      BY <2>1, <3>1, <3>2 DEF NoiseMoves
  <2>6. h = {} \/ h = {op[2]} \/ h = hooks[w]
    BY <2>4, <2>5
  <2> HIDE DEF op, h
  <2>7. Cardinality(h) <= 1
    BY <2>6, NoNoise
  <2> QED
    BY <2>7 DEF h
<1> QED
  BY <1>1, <1>2, <1>3

\* The processes and the disk after an operation of one process.
LEMMA LocalHeld ==
  ASSUME EngineInv, Counted, phase = "calling", FilesInv, Sound, Held, job' = job, step' = step,
         NEW w \in Workers, Local(w)
  PROVE  /\ \A v \in Workers : onGpu'[v] \subseteq Parts /\ (\A r \in Roles : model'[v][r] <= step)
                               /\ engine'[v].weights <= step /\ FromSeeds(random'[v])
         /\ \A f \in disk' : Stored(f)
<1> DEFINE op == Op(w)
<1>1. /\ op[1] \notin Collective \cup {"nothing"} /\ CanDo(w)
      /\ onGpu' = Part(w)
      /\ engine' = [engine EXCEPT ![w] = EngineAfter(w)]
      /\ random' = [random EXCEPT ![w] = RandomAfter(w)]
      /\ model' = (IF op[1] = "restore" THEN [model EXCEPT ![w][op[2].role] =
                                              (CHOOSE f \in OnDisk(w, op[2]) : TRUE).weights]
                                        ELSE model)
      /\ disk' = (IF op[1] = "save"
                  THEN {f \in disk : f.file # File(w, op[2])}
                       \cup {[file |-> File(w, op[2]), weights |-> model[w][op[2].role],
                              random |-> random[w].now]}
                  ELSE disk)
  BY DEF Local
<1>2. /\ job \in Jobs /\ WorkTyped /\ EngineTyped /\ NoiseInv /\ step \in Nat /\ tracked \in Nat /\ tracked <= step
  BY DEF EngineInv, NoiseInv, NoiseTyped, Counted
<1>3. Len(todo[w]) > 0 /\ op = todo[w][1][1] /\ op \in Ops /\ todo[w] \in Seq(Lists(Ops))
  BY <1>1, <1>2, OpIs
<1>4. todo[w][1] \in Seq(Ops) /\ Len(todo[w][1]) > 0 /\ 1 \in 1..Len(todo[w]) /\ 1 \in 1..Len(todo[w][1])
  BY <1>3, RestIs
<1>5. \A S : Within(todo[w], S) => op \in S
  <2>1. ASSUME NEW S, Within(todo[w], S) PROVE op \in S
    <3>1. todo[w][1] \in Seq(S)
      BY <1>4, <2>1 DEF Within
    <3> QED
      BY <1>3, <1>4, <3>1
  <2> QED
    BY <2>1
<1>6. op \in SoundOps(w) /\ op \in RestoreOps(w)
  BY <1>5 DEF Sound, FilesInv, FilesAsked
<1>7. /\ onGpu = [v \in Workers |-> onGpu[v]] /\ model = [v \in Workers |-> model[v]]
      /\ engine = [v \in Workers |-> engine[v]] /\ random = [v \in Workers |-> random[v]]
      /\ model[w] \in [Roles -> Nat]
  BY <1>2 DEF EngineTyped
<1>8. op[1] = "save" => op[2].role \in Roles /\ op[2].step = step
  BY <1>3, <1>6 DEF SoundOps, Ops, WordOps, PassOps, Files
<1>9. op[1] = "restore" => op[2].role \in Roles /\ op[2].step = tracked
  BY <1>3, <1>6 DEF RestoreOps, Ops, WordOps, PassOps, Files
<1>10. \A v \in Workers : HeldBy(v)
  BY DEF Held
<1>11. \A f \in disk : Stored(f) /\ f.weights \in Nat
  BY <1>2 DEF Held, EngineTyped
<1>12. ASSUME NEW v \in Workers PROVE onGpu'[v] \subseteq Parts
  <2>1. onGpu[v] \subseteq Parts
    BY <1>10 DEF HeldBy
  <2>2. CASE op[1] \in {"load", "build"}
    <3>1. op[2] \in Parts
      BY <1>6, <2>2 DEF SoundOps
    <3>2. onGpu' = [onGpu EXCEPT ![w] = onGpu[w] \cup {op[2]}]
      BY <1>1, <1>7, <2>2 DEF Part
    <3> QED
      BY <1>7, <2>1, <3>1, <3>2
  <2>3. CASE op[1] = "offload"
    <3>1. onGpu' = [onGpu EXCEPT ![w] = onGpu[w] \ {op[2]}]
      BY <1>1, <1>7, <2>3 DEF Part
    <3> QED
      BY <1>7, <2>1, <3>1
  <2>4. CASE op[1] = "restore"
    <3>1. onGpu' = [onGpu EXCEPT ![w] = onGpu[w] \cup {Optim(op[2].role)}]
      BY <1>1, <1>7, <2>4 DEF Part
    <3>2. Optim(op[2].role) \in Parts
      BY DEF Optim, Parts
    <3> QED
      BY <1>7, <2>1, <3>1, <3>2
  <2>5. CASE op[1] \notin {"load", "build", "offload", "restore"}
    <3>1. onGpu' = onGpu
      BY <1>1, <2>5 DEF Part
    <3> QED
      BY <2>1, <3>1
  <2> QED
    BY <2>2, <2>3, <2>4, <2>5
<1>13. ASSUME NEW v \in Workers, NEW r \in Roles PROVE model'[v][r] <= step
  <2>1. model[v][r] <= step
    BY <1>10 DEF HeldBy
  <2>2. CASE op[1] = "restore"
    <3> DEFINE y == CHOOSE f \in OnDisk(w, op[2]) : TRUE
               n == y.weights
               o == op[2].role
    <3>1. y \in disk /\ y.file.step = tracked
      BY <1>1, <1>9, <2>2, Found
    <3> HIDE DEF y
    <3>2. n \in Nat /\ n <= tracked
      BY <1>11, <3>1 DEF Stored
    <3>3. n <= step
      BY <1>2, <3>2
    <3>4. model' = [model EXCEPT ![w][o] = n]
      BY <1>1, <2>2 DEF y
    <3> HIDE DEF n, o
    <3>5. model'[v][r] = n \/ model'[v][r] = model[v][r]
      BY <1>7, <3>4
    <3> QED
      BY <2>1, <3>3, <3>5
  <2>3. CASE op[1] # "restore"
    BY <1>1, <2>1, <2>3
  <2> QED
    BY <2>2, <2>3
<1>14. ASSUME NEW v \in Workers PROVE engine'[v].weights <= step
  <2>1. engine'[v] = IF v = w THEN EngineAfter(w) ELSE engine[v]
    BY <1>1, <1>7
  <2>2. EngineAfter(w).weights = engine[w].weights
    BY <1>2, EngineAfterIs
  <2> QED
    BY <1>10, <2>1, <2>2 DEF HeldBy
<1>15. ASSUME NEW v \in Workers PROVE FromSeeds(random'[v])
  <2>1. random'[v] = IF v = w THEN RandomAfter(w) ELSE random[v]
    BY <1>1, <1>7
  <2>2. FromSeeds(random[v]) /\ FromSeeds(random[w])
    BY <1>10 DEF HeldBy
  <2>3. FromSeeds(RandomAfter(w))
    BY <1>1, <1>2, <1>6, <1>11, <2>2, RandomHeld
  <2> QED
    BY <2>1, <2>2, <2>3
<1>16. ASSUME NEW f \in disk' PROVE Stored(f)
  <2>1. CASE f \in disk
    BY <1>11, <2>1
  <2>2. CASE f \notin disk
    <3> DEFINE y == [file |-> File(w, op[2]), weights |-> model[w][op[2].role], random |-> random[w].now]
    <3>1. op[1] = "save" /\ f = y
      BY <1>1, <2>2
    <3>2. model[w][op[2].role] <= step /\ random[w].now.seed \in Seeds
      BY <1>8, <1>10, <3>1 DEF HeldBy, FromSeeds
    <3>3. File(w, op[2]).step = step
      BY <1>8, <3>1 DEF File
    <3> QED
      BY <3>1, <3>2, <3>3 DEF Stored
  <2> QED
    BY <2>1, <2>2
<1> QED
  BY <1>12, <1>13, <1>14, <1>15, <1>16

\* And after a collective one.
LEMMA TogetherHeld ==
  ASSUME EngineInv, Counted, Sound, Held, NEW w \in Workers, Together(w)
  PROVE  /\ \A v \in Workers : onGpu'[v] \subseteq Parts /\ (\A r \in Roles : model'[v][r] <= step)
                               /\ engine'[v].weights <= step /\ FromSeeds(random'[v])
         /\ \A f \in disk' : Stored(f)
<1> DEFINE at(v) == v \in Partners(w)
<1>1. /\ Op(w)[1] \in Collective /\ \A v \in Partners(w) : Op(v) = Op(w)
      /\ engine' = [v \in Workers |->
           IF at(v) /\ Op(v)[1] = "sync" THEN [engine[v] EXCEPT !.weights = model[v].actor] ELSE engine[v]]
      /\ random' = [v \in Workers |->
           IF at(v) /\ Op(v)[1] = "generate" THEN [random[v] EXCEPT !.now.drawn = @ + 1] ELSE random[v]]
      /\ model' = [v \in Workers |->
           IF ~at(v) THEN model[v]
           ELSE CASE Op(v)[1] = "update" -> [model[v] EXCEPT !.actor = Op(v)[2].step]
                  [] Op(v)[1] = "update_critic" -> [model[v] EXCEPT !.critic = Op(v)[2].step]
                  [] OTHER -> model[v]]
      /\ onGpu' = onGpu /\ disk' = disk
  BY DEF Together
<1>2. /\ job \in Jobs /\ WorkTyped /\ EngineTyped /\ NoiseInv /\ step \in Nat
  BY DEF EngineInv, NoiseInv, NoiseTyped
<1>3. ASSUME NEW v \in Workers
      PROVE  /\ HeldBy(v) /\ model[v] \in [Roles -> Nat]
             /\ engine[v] \in [weights : Nat, cache : BOOLEAN, asleep : BOOLEAN]
             /\ random[v] \in [now : RandomStates, train : RandomStates, gen : RandomStates]
             /\ random[v].now \in RandomStates
             /\ onGpu[v] \subseteq Parts /\ (\A r \in Roles : model[v][r] <= step) /\ engine[v].weights <= step
             /\ FromSeeds(random[v])
  BY <1>2 DEF Held, HeldBy, EngineTyped
<1>4. ASSUME NEW v \in Workers, at(v), Op(v)[1] \in {"update", "update_critic"} PROVE Op(v)[2].step = step
  <2>1. Op(v)[1] # "nothing"
    BY <1>4
  <2>2. Len(todo[v]) > 0 /\ Op(v) = todo[v][1][1] /\ todo[v] \in Seq(Lists(Ops))
    BY <1>2, <2>1, OpIs
  <2>3. 1 \in 1..Len(todo[v]) /\ Len(todo[v][1]) > 0
    <3>1. Len(todo[v]) \in Nat /\ Len(todo[v][1]) \in Nat \ {0}
      BY <1>2, <2>2, OpIs, OpsRest
    <3> QED
      BY <2>2, <3>1
  <2> DEFINE S == SoundOps(v)
  <2>4. todo[v][1] \in Seq(S)
    BY <2>3 DEF Sound, Within
  <2> HIDE DEF S
  <2>5. Op(v) \in S
    BY <2>2, <2>3, <2>4
  <2> QED
    BY <1>4, <2>5 DEF S, SoundOps
<1>5. ASSUME NEW v \in Workers, NEW r \in Roles PROVE model'[v][r] <= step
  <2> DEFINE m == model[v]
  <2>1. m \in [Roles -> Nat] /\ m[r] <= step
    BY <1>3
  <2>2. model'[v] = m \/ model'[v] = [m EXCEPT !.actor = step] \/ model'[v] = [m EXCEPT !.critic = step]
    BY <1>1, <1>4
  <2> HIDE DEF m
  <2> QED
    BY <1>2, <2>1, <2>2
<1>6. ASSUME NEW v \in Workers PROVE engine'[v].weights <= step
  <2> DEFINE e == engine[v]
             n == model[v].actor
  <2>1. engine'[v] = [e EXCEPT !.weights = n] \/ engine'[v] = e
    BY <1>1
  <2>2. e \in [weights : Nat, cache : BOOLEAN, asleep : BOOLEAN] /\ e.weights <= step /\ n <= step
    BY <1>3 DEF Roles
  <2> HIDE DEF e, n
  <2> QED
    BY <2>1, <2>2
<1>7. ASSUME NEW v \in Workers PROVE FromSeeds(random'[v])
  <2> DEFINE r == random[v]
             x == [r.now EXCEPT !.drawn = r.now.drawn + 1]
  <2>1. random'[v] = [r EXCEPT !.now = x] \/ random'[v] = r
    BY <1>1
  <2>2. r \in [now : RandomStates, train : RandomStates, gen : RandomStates] /\ r.now \in RandomStates /\ FromSeeds(r)
    BY <1>3
  <2> HIDE DEF r
  <2>3. x.seed = r.now.seed
    BY <2>2 DEF RandomStates
  <2> HIDE DEF x
  <2>4. FromSeeds([r EXCEPT !.now = x])
    BY <2>2, <2>3 DEF FromSeeds
  <2> DEFINE s == [r EXCEPT !.now = x]
  <2> HIDE DEF s
  <2> QED
    BY <2>1, <2>2, <2>4 DEF s
<1> QED
  BY <1>1, <1>3, <1>5, <1>6, <1>7 DEF Held

\* In the beginning.
LEMMA HeldInit ==
  ASSUME Init
  PROVE  Held
<1>1. /\ job \in Jobs /\ step = 0 /\ disk = {}
      /\ onGpu = [w \in Workers |-> {}] /\ model = [w \in Workers |-> [r \in Roles |-> 0]]
      /\ hooks = [w \in Workers |-> {}]
      /\ engine = [w \in Workers |-> FreshEngine] /\ random = [w \in Workers |-> FreshRandom]
  BY DEF Init, WorkInit, FitInit
<1>2. ASSUME NEW w \in Workers PROVE HeldBy(w)
  <2>1. Cardinality(hooks[w]) <= 1 /\ onGpu[w] \subseteq Parts /\ \A r \in Roles : model[w][r] <= step
    BY <1>1, NoNoise
  <2>2. engine[w].weights <= step
    BY <1>1 DEF FreshEngine
  <2>3. <<"default", 0>> \in Seeds
    BY <1>1, SeedsAre
  <2>4. FromSeeds(random[w])
    BY <1>1, <2>3 DEF FromSeeds, FreshRandom, Seeded
  <2> QED
    BY <2>1, <2>2, <2>4 DEF HeldBy
<1> QED
  BY <1>1, <1>2 DEF Held

\* A restart: only the disk is left.
LEMMA HeldRestart ==
  ASSUME job \in Jobs, job' = job, Held, Restart
  PROVE  Held'
<1>1. /\ step' = 0 /\ disk' = disk
      /\ onGpu' = [w \in Workers |-> {}] /\ model' = [w \in Workers |-> [r \in Roles |-> 0]]
      /\ hooks' = [w \in Workers |-> {}]
      /\ engine' = [w \in Workers |-> FreshEngine] /\ random' = [w \in Workers |-> FreshRandom]
      /\ Workers' = Workers /\ Seeds' = Seeds
  BY JobFrame DEF Restart
<1>2. ASSUME NEW w \in Workers PROVE HeldBy(w)'
  <2>1. Cardinality(hooks'[w]) <= 1 /\ onGpu'[w] \subseteq Parts /\ \A r \in Roles : model'[w][r] <= step'
    BY <1>1, NoNoise
  <2>2. engine'[w].weights <= step'
    BY <1>1 DEF FreshEngine
  <2>3. <<"default", 0>> \in Seeds
    BY SeedsAre
  <2>4. random'[w].now.seed \in Seeds' /\ random'[w].train.seed \in Seeds' /\ random'[w].gen.seed \in Seeds'
    BY <1>1, <2>3 DEF FreshRandom, Seeded
  <2> QED
    BY <1>1, <2>1, <2>2, <2>4 DEF HeldBy, FromSeeds
<1>3. \A f \in disk' : Stored(f)'
  BY <1>1 DEF Held, Stored
<1> QED
  BY <1>1, <1>2, <1>3 DEF Held

\* A step that leaves the processes and the disk alone.
LEMMA HeldSame ==
  ASSUME EngineTyped, Held, UNCHANGED <<job, hooks, onGpu, model, engine, random, disk>>,
         step \in Nat, step' \in Nat, step <= step'
  PROVE  Held'
<1>1. Workers' = Workers /\ Seeds' = Seeds
  BY JobFrame
<1>2. ASSUME NEW w \in Workers PROVE HeldBy(w)'
  <2>1. HeldBy(w) /\ model[w] \in [Roles -> Nat] /\ engine[w].weights \in Nat
    BY DEF Held, EngineTyped
  <2>2. ASSUME NEW r \in Roles PROVE model'[w][r] <= step'
    <3>1. model[w][r] <= step /\ model[w][r] \in Nat
      BY <2>1 DEF HeldBy
    <3> QED
      BY <3>1
  <2>3. engine'[w].weights <= step'
    BY <2>1 DEF HeldBy
  <2> QED
    BY <1>1, <2>1, <2>2, <2>3 DEF HeldBy, FromSeeds
<1>3. \A f \in disk' : Stored(f)'
  BY <1>1 DEF Held, Stored
<1> QED
  BY <1>1, <1>2, <1>3 DEF Held

\* A step of the processes.
LEMMA HeldWorking ==
  ASSUME EngineInv, FilesInv, Counted, Sound, Held, Working
  PROVE  Held'
<1>1. /\ WorkNext /\ phase = "calling" /\ step' = step
  BY DEF Working, fitVars
<1>2. WorkTyped /\ EngineTyped /\ NoiseInv /\ step \in Nat
  BY DEF EngineInv, NoiseInv, NoiseTyped
<1>3. job' = job /\ \A v \in Workers : NoiseStays(v) \/ NoiseDoes(v) \/ NoiseDrops(v)
  BY <1>1, <1>2, NoiseWork
<1>4. Workers' = Workers /\ Seeds' = Seeds
  BY <1>3, JobFrame
<1>5. \A v \in Workers : Cardinality(hooks'[v]) <= 1
  <2>1. \A v \in Workers : Cardinality(hooks[v]) <= 1
    BY DEF Held, HeldBy
  <2> QED
    BY <1>2, <1>3, <2>1, HooksHeld
<1> DEFINE P == \A v \in Workers : onGpu'[v] \subseteq Parts /\ (\A r \in Roles : model'[v][r] <= step)
                                     /\ engine'[v].weights <= step /\ FromSeeds(random'[v])
           Q == \A f \in disk' : Stored(f)
<1>6. P /\ Q
  <2>1. PICK w \in Workers : Local(w) \/ Together(w) \/ Fails(w)
    BY <1>1 DEF WorkNext
  <2>2. CASE Local(w)
    BY <1>1, <1>3, <2>2, LocalHeld
  <2>3. CASE Together(w)
    BY <2>3, TogetherHeld
  <2>4. CASE Fails(w)
    <3>1. UNCHANGED <<onGpu, model, engine, random, disk>>
      BY <2>4 DEF Fails
    <3> QED
      BY <3>1 DEF Held, HeldBy
  <2> QED
    BY <2>1, <2>2, <2>3, <2>4
<1>7. \A v \in Workers : HeldBy(v)'
  BY <1>1, <1>4, <1>5, <1>6 DEF HeldBy, FromSeeds
<1>8. \A f \in disk' : Stored(f)'
  BY <1>4, <1>6 DEF Stored
<1> QED
  BY <1>4, <1>7, <1>8 DEF Held

\* Every step keeps it so.
LEMMA HeldStep ==
  ASSUME EngineInv, FilesInv, Counted, Sound, Held, [Next]_vars
  PROVE  Held'
<1> DEFINE Alone == UNCHANGED <<hooks, onGpu, model, engine, random, disk>>
<1>1. job' = job /\ EngineTyped /\ job \in Jobs /\ step \in Nat /\ tracked \in Nat
  BY JobSame DEF EngineInv, NoiseInv, NoiseTyped
<1>2. CASE Working
  BY <1>2, HeldWorking
<1>3. CASE Restart
  BY <1>1, <1>3, HeldRestart
<1>4. CASE Starting \/ StartFails \/ RankZeroUp \/ Watchdog \/ UNCHANGED vars
  <2>1. step' = step
    BY <1>4, IdleFrame DEF Idle
  <2>2. Alone
    BY <1>4 DEF Starting, StartFails, RankZeroUp, Watchdog, vars, workVars
  <2> QED
    BY <1>1, <2>1, <2>2, HeldSame
<1>5. CASE StartFit
  <2>1. Alone /\ step' = tracked /\ step = 0
    BY <1>5 DEF StartFit, workVars, Counted
  <2> QED
    BY <1>1, <2>1, HeldSame
<1>6. CASE Call
  <2>1. Alone /\ step' = step
    BY <1>6 DEF Call
  <2> QED
    BY <1>1, <2>1, HeldSame
<1>7. CASE Track \/ Return \/ Except
  <2>1. UNCHANGED workVars /\ step' = step
    BY <1>7, Zenon DEF Track, Return, Except
  <2>2. Alone
    BY <2>1 DEF workVars
  <2> QED
    BY <1>1, <2>1, <2>2, HeldSame
<1>8. CASE Advance
  <2>1. Alone
    BY <1>8 DEF Advance, workVars
  <2>2. step' = step \/ step' = step + 1
    BY <1>8 DEF Advance
  <2>3. step' \in Nat /\ step <= step'
    BY <1>1, <2>2
  <2> QED
    BY <1>1, <2>1, <2>3, HeldSame
<1> QED
  BY <1>2, <1>3, <1>4, <1>5, <1>6, <1>7, <1>8, StepKinds DEF Idle

-----------------------------------------------------------------------------
\* The theorem

\* What the variables hold, and why they go on doing so.
JobInv == Counted /\ Noised /\ Queued /\ Sound /\ Held

\* It is so in the beginning.
LEMMA JobInit == Init => JobInv
BY CountedInit, NoisedInit, QueuedInit, SoundInit, HeldInit DEF JobInv

\* Every step keeps it.
LEMMA JobStep == EngineInv /\ FilesInv /\ JobInv /\ [Next]_vars => JobInv'
<1> SUFFICES ASSUME EngineInv, FilesInv, JobInv, [Next]_vars PROVE JobInv'
  OBVIOUS
<1>1. NoiseInv /\ Counted /\ Noised /\ Queued /\ Sound /\ Held
  BY DEF EngineInv, JobInv
<1>2. Counted'
  BY <1>1, CountedStep
<1>3. Noised'
  BY <1>1, NoisedStep
<1>4. Queued'
  BY <1>1, QueuedStep
<1>5. Sound'
  BY <1>1, SoundStep
<1>6. Held'
  BY <1>1, HeldStep
<1> QED
  BY <1>2, <1>3, <1>4, <1>5, <1>6 DEF JobInv

\* It says what JobTypeOK does.
LEMMA JobInvTypes == EngineInv /\ JobInv => JobTypeOK
<1> SUFFICES ASSUME EngineInv, JobInv PROVE JobTypeOK
  OBVIOUS
<1>1. Counted /\ Noised /\ Queued /\ Held /\ EngineTyped /\ job \in Jobs /\ step \in Nat
  BY DEF EngineInv, JobInv, NoiseInv, NoiseTyped
<1>2. ASSUME NEW w \in Workers
      PROVE  /\ Len(todo[w]) <= 2 /\ Cardinality(hooks[w]) <= 1
             /\ onGpu[w] \subseteq {"actor", "actor_optim", "critic", "critic_optim"}
             /\ \A r \in Roles : model[w][r] \in 0..step
             /\ engine[w] \in [weights : 0..step, cache : BOOLEAN, asleep : BOOLEAN]
             /\ \A k \in DOMAIN random[w] : random[w][k].seed \in Seeds
  <2>1. HeldBy(w) /\ Len(todo[w]) <= 2
    BY <1>1 DEF Held, Queued
  <2>2. /\ model[w] \in [Roles -> Nat] /\ engine[w] \in [weights : Nat, cache : BOOLEAN, asleep : BOOLEAN]
        /\ random[w] \in [now : RandomStates, train : RandomStates, gen : RandomStates]
    BY <1>1 DEF EngineTyped
  <2>3. ASSUME NEW r \in Roles PROVE model[w][r] \in 0..step
    <3>1. model[w][r] \in Nat /\ model[w][r] <= step
      BY <2>1, <2>2 DEF HeldBy
    <3> QED
      BY <1>1, <3>1
  <2>4. engine[w] \in [weights : 0..step, cache : BOOLEAN, asleep : BOOLEAN]
    <3> DEFINE e == engine[w]
    <3>1. e \in [weights : Nat, cache : BOOLEAN, asleep : BOOLEAN] /\ e.weights <= step
      BY <2>1, <2>2 DEF HeldBy
    <3> HIDE DEF e
    <3>2. e.weights \in 0..step
      BY <1>1, <3>1
    <3>3. e \in [weights : 0..step, cache : BOOLEAN, asleep : BOOLEAN]
      BY <3>1, <3>2
    <3> QED
      BY <3>3 DEF e
  <2>5. ASSUME NEW k \in DOMAIN random[w] PROVE random[w][k].seed \in Seeds
    <3> DEFINE r == random[w]
    <3>1. DOMAIN r = {"now", "train", "gen"}
      BY <2>2
    <3>2. FromSeeds(r)
      BY <2>1 DEF HeldBy
    <3>3. k \in {"now", "train", "gen"}
      BY <3>1
    <3> QED
      BY <3>2, <3>3 DEF FromSeeds
  <2> QED
    BY <2>1, <2>3, <2>4, <2>5 DEF HeldBy, Parts
<1> QED
  BY <1>1, <1>2 DEF JobTypeOK, Counted, Noised

\* The inductive invariant: that of the engines, that of the files, and what the
\* variables hold.
THEOREM JobInductive == Spec => [](EngineInv /\ FilesInv /\ JobInv)
<1> DEFINE I == EngineInv /\ FilesInv /\ JobInv
<1>1. Init => I
  BY EngineInit, FilesInit, JobInit
<1>2. I /\ [Next]_vars => I'
  <2>1. EngineInv => NoiseInv
    BY DEF EngineInv
  <2> QED
    BY <2>1, EngineStep, FilesStep, JobStep
<1> QED
  BY <1>1, <1>2, PTL DEF Spec

\* The variables hold what JobTypeOK says: settings of this job, seeds of this job,
\* weights of no step to come, one hook and two calls of a process at most.
THEOREM JobTyped == Spec => []JobTypeOK
BY JobInductive, JobInvTypes, PTL
===================================================================================
