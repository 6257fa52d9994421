------------------------------- MODULE NoisyTraining -------------------------------
(***************************************************************************)
(* RayPPOTrainer over its workers: init_workers, the calls of fit one      *)
(* after the other with the noise each is asked to work under, the         *)
(* controller of the noise, checkpoints, and the restart of the job.  Of a *)
(* batch only its meta_info is left; BatchFlow has the rest.               *)
(***************************************************************************)
EXTENDS HybridWorker

CONSTANTS
  MaxRuns    \* bound: how often the job is started

\* More fields of a job:
\*   apply       apply_mode of trainer.train_hidden_noise: "none" without, "all",
\*               "rollout_only" or "update_only"
\*   adaptive    trainer.train_hidden_noise.adaptive.enable, source quantile_iqr
\*   window      its start_step and end_step
\*   kl          kl_analysis.enable
\*   valNoise    is there a trainer.validation_noise?
\*   analysis    validation_analysis.enable
\*   reference   use_reference_policy
\*   warmup      critic_warmup
\*   valBefore   val_before_train
\*   resample    trainer.dyn_sampling_polaris
\*   restarts    is it started again after a crash?
\*   steps       total_training_steps; saveEvery, testEvery: save_freq, test_freq

VARIABLES
  phase,      \* "starting", "calling", "done" or "raised"
  calls,      \* the calls the driver still makes in this step, first the present one
  waiting,    \* does it wait for the present one?
  step,       \* global_steps
  first,      \* the first step of this run (history)
  noise,      \* shared_hidden_noise of the step, {} for None
  meta,       \* shared_hidden_noise in the batch's meta_info
  ema,        \* the steps whose signals _train_hidden_noise_signal_ema averages
  nextScale,  \* _next_train_hidden_noise_scale: one, or of a signal over an average
  generated,  \* generations of this run so far
  tracked,    \* latest_checkpointed_iteration.txt
  nodesThen,  \* the nodes of the pools when it was written
  runs        \* how often the job has been started

fitVars == <<phase, calls, waiting, step, first, noise, meta, ema, nextScale, generated>>
diskVars == <<tracked, nodesThen>>
vars == <<startVars, workVars, fitVars, diskVars, runs>>

One == [of |-> 0, over |-> {}]
When(condition, list) == IF condition THEN list ELSE <<>>

ASSUME RunsAssumption == MaxRuns \in Nat \ {0}

ASSUME NoisyAssumption ==
  \A j \in Jobs :
    \* _validate_config
    /\ j.apply = "rollout_only" => j.mode = "sync"
    /\ j.valNoise /\ j.analysis => j.mode = "sync"
    /\ j.adaptive => j.critic /\ j.apply # "none"
    \* generate_sequences of the asynchronous workers raises
    /\ j.resample \in BOOLEAN /\ (j.resample => j.mode = "sync")
    \* _create_dataloader
    /\ j.steps \in Nat
    \* _build_rollout
    /\ j.mode \in {"sync", "async"} /\ j.tp \in Nat \ {0}
    /\ (Len(j.pools[1]) * j.pools[1][1]) % j.tp = 0
    \* process_on_nodes of the resource pools
    /\ j.pools \in Seq(Seq(Nat \ {0})) /\ \A p \in DOMAIN j.pools : j.pools[p] # <<>>

-----------------------------------------------------------------------------
\* The controller of the noise

ControllerActive(s) == job.adaptive /\ s >= job.window[1] /\ s <= job.window[2]

\* _apply_train_hidden_noise_scale, with the step in place of the seed.
ScaledNoise(s) ==
  {[kind |-> "train", step |-> s, scale |-> IF ControllerActive(s) THEN nextScale ELSE One]}
ValidationNoise == IF job.valNoise THEN {[kind |-> "validation", step |-> step, scale |-> One]} ELSE {}

ApplyToRollout == job.apply \in {"all", "rollout_only"}
ApplyToOldLogProb == job.apply \in {"all", "rollout_only"}
\* Mutant: the update keeps the noise it finds in meta_info.
ApplyToActorUpdate_Always == job.apply # "none"
ApplyToActorUpdate == job.apply \in {"all", "update_only"}

\* _update_train_hidden_noise_controller: the batch has the critic's quantiles.
UpdateController ==
  /\ ema' = ema \cup {step}
  /\ nextScale' = IF ema # {} /\ ControllerActive(step + 1) THEN [of |-> step, over |-> ema] ELSE One

-----------------------------------------------------------------------------
\* The calls of fit

Generation(call) == IF job.mode = "sync" THEN <<call>> ELSE <<"wake_up", call, "sleep">>
Validation ==
  Generation("validate") \o When(job.analysis /\ job.mode = "sync" /\ ~job.valNoise, <<"analyze">>)

InitWorkers ==
  When(job.critic, <<"init_critic">>) \o <<"init_actor">> \o When(job.mode = "async", <<"init_engine">>)
LoadCalls == When(tracked # 0, <<"load_actor">> \o When(job.critic, <<"load_critic">>))
FirstCalls == InitWorkers \o LoadCalls \o When(job.valBefore, Validation)

Due(s, every) == every > 0 /\ (s >= job.steps \/ s % every = 0)
\* The calls of step s.  Again: is there a group whose answers are all right or all
\* wrong, which is generated once more?  (Bound: one of them in a step.)
StepCalls(s, again) ==
  Generation("generate") \o When(again, <<"resample">>) \o <<"old_log_prob">>
  \o When(job.kl /\ job.apply = "all", <<"clean_log_prob">>)
  \o When(job.reference, <<"ref">>)
  \o When(job.critic, <<"values", "update_critic">>)
  \o When(job.warmup <= s, <<"update_actor">>)
  \o When(Due(s, job.testEvery), Validation)
  \o When(Due(s, job.saveEvery), <<"save_actor">> \o When(job.critic, <<"save_critic">>) \o <<"track">>)

\* The noise a call finds in its meta_info.
NoiseOf(call) ==
  CASE call = "generate"       -> IF ApplyToRollout THEN noise ELSE {}
    [] call = "validate"       -> ValidationNoise
    [] call \in {"resample", "old_log_prob"} -> IF ApplyToOldLogProb THEN noise ELSE {}
    [] call = "clean_log_prob" -> {}
    [] call = "update_actor"   -> IF ApplyToActorUpdate THEN noise ELSE {}
    [] OTHER                   -> meta

GroupOf(call) == IF call \in {"init_critic", "values", "update_critic", "save_critic", "load_critic"}
                 THEN Group("critic") ELSE Actors

Method(call, w) ==
  LET what == [for |-> call, step |-> step]
  IN  CASE call = "init_critic"    -> InitCritic
        [] call = "init_actor"     -> InitActor
        [] call = "init_engine"    -> InitEngine
        [] call \in {"generate", "resample", "validate"} ->
             IF job.mode = "sync" THEN GenerateSequences(NoiseOf(call), what) ELSE Serve(what)
        [] call = "wake_up"        -> WakeUp(w)
        [] call = "sleep"          -> Sleep(w)
        [] call \in {"old_log_prob", "clean_log_prob"} -> ComputeLogProb(NoiseOf(call), what)
        [] call = "analyze"        -> AnalyzeGenerationPolicy(what)
        [] call = "ref"            -> ComputeRefLogProb(what)
        [] call = "values"         -> ComputeValues(what)
        [] call = "update_critic"  -> UpdateCritic(what)
        [] call = "update_actor"   -> UpdateActor(NoiseOf(call), what)
        [] call = "save_actor"     -> SaveCheckpoint("actor", step)
        [] call = "save_critic"    -> SaveCheckpoint("critic", step)
        [] call = "load_actor"     -> LoadCheckpoint("actor", tracked)
        [] call = "load_critic"    -> LoadCheckpoint("critic", tracked)

FitInit ==
  /\ phase = "starting" /\ calls = <<>> /\ waiting = FALSE /\ step = 0 /\ first = 1
  /\ noise = {} /\ meta = {} /\ ema = {} /\ nextScale = One /\ generated = 0

Init ==
  /\ job \in Jobs
  /\ StartInit /\ WorkInit({}) /\ FitInit
  /\ tracked = 0 /\ nodesThen = [p \in Pools |-> <<>>] /\ runs = 1

\* The worker groups are there: the models are initialised, and fit begins.
StartFit ==
  /\ phase = "starting" /\ start = "up"
  /\ phase' = "calling" /\ calls' = FirstCalls
  /\ step' = tracked /\ first' = tracked + 1
  /\ UNCHANGED <<startVars, workVars, waiting, noise, meta, ema, nextScale, generated, diskVars, runs>>

StartFails ==
  /\ phase = "starting" /\ start = "raised"
  /\ phase' = "raised"
  /\ UNCHANGED <<startVars, workVars, calls, waiting, step, first, noise, meta, ema, nextScale, generated, diskVars, runs>>

\* A remote call of every process of a group.
Call ==
  /\ phase = "calling" /\ ~waiting /\ calls # <<>> /\ Head(calls) # "track"
  /\ LET call == Head(calls)
     IN  /\ todo' = [w \in Workers |->
              IF w \in GroupOf(call) /\ Method(call, w) # <<>> THEN Append(todo[w], Method(call, w)) ELSE todo[w]]
         /\ meta' = IF call \in {"resample", "old_log_prob", "update_actor"} THEN NoiseOf(call) ELSE meta
         /\ generated' = IF call \in {"generate", "resample", "validate"} THEN generated + 1 ELSE generated
  /\ waiting' = TRUE /\ failed' = {}
  /\ UNCHANGED <<startVars, onGpu, model, training, hooks, engine, random, disk,
                 phase, calls, step, first, noise, ema, nextScale, diskVars, runs>>

\* The tracker is written last, by the driver.
Track ==
  /\ phase = "calling" /\ calls # <<>> /\ Head(calls) = "track"
  /\ tracked' = step
  /\ nodesThen' = [p \in Pools |-> SortSeq(place[p], <)]
  /\ calls' = Tail(calls)
  /\ UNCHANGED <<startVars, workVars, phase, waiting, step, first, noise, meta, ema, nextScale, generated, runs>>

\* Mutant: the driver goes on with the result of the first process.
Return_First ==
  /\ phase = "calling" /\ waiting /\ \E w \in GroupOf(Head(calls)) : todo[w] = <<>>
  /\ failed = {}
  /\ waiting' = FALSE /\ calls' = Tail(calls)
  /\ UNCHANGED <<startVars, workVars, phase, step, first, noise, meta, ema, nextScale, generated, diskVars, runs>>

\* ray.get has all the results.  With a reference policy the controller is also
\* updated after compute_ref_log_prob, where value_quantiles are not there: KeyError.
Return ==
  /\ phase = "calling" /\ waiting /\ \A w \in GroupOf(Head(calls)) : todo[w] = <<>>
  /\ failed = {}
  /\ waiting' = FALSE /\ calls' = Tail(calls)
  /\ phase' = IF Head(calls) = "ref" /\ job.adaptive THEN "raised" ELSE phase
  /\ IF Head(calls) = "values" /\ job.adaptive THEN UpdateController ELSE UNCHANGED <<ema, nextScale>>
  /\ UNCHANGED <<startVars, workVars, step, first, noise, meta, generated, diskVars, runs>>

\* ray.get raises with the first process that did.  An exception of the analysis
\* is caught, any other ends the run.
Except ==
  /\ phase = "calling" /\ waiting /\ failed # {}
  /\ IF Head(calls) = "analyze" THEN calls' = Tail(calls) /\ waiting' = FALSE /\ UNCHANGED phase
                                ELSE phase' = "raised" /\ waiting' = FALSE /\ UNCHANGED calls
  /\ UNCHANGED <<startVars, workVars, step, first, noise, meta, ema, nextScale, generated, diskVars, runs>>

\* The next step, or the end of the training.
Advance ==
  /\ phase = "calling" /\ calls = <<>>
  /\ IF step >= job.steps
     THEN phase' = "done" /\ UNCHANGED <<step, calls, noise, meta>>
     ELSE /\ step' = step + 1 /\ meta' = {}
          /\ \E again \in {FALSE, job.resample} : calls' = StepCalls(step + 1, again)
          /\ noise' = IF job.apply = "none" THEN {} ELSE ScaledNoise(step + 1)
          /\ UNCHANGED phase
  /\ UNCHANGED <<startVars, workVars, waiting, first, ema, nextScale, generated, diskVars, runs>>

\* Two processes of one group are in different collective operations, which NCCL's
\* watchdog ends, and with them the run.
Watchdog ==
  /\ phase = "calling"
  /\ \E w \in Workers : /\ Op(w)[1] \in Collective
                        /\ \E v \in Partners(w) : Op(v)[1] \in Collective /\ Op(v) # Op(w)
  /\ phase' = "raised"
  /\ UNCHANGED <<startVars, workVars, calls, waiting, step, first, noise, meta, ema, nextScale, generated, diskVars, runs>>

Starting == phase \in {"starting", "calling"} /\ StartNext /\ UNCHANGED <<workVars, fitVars, diskVars, runs>>
Working == phase = "calling" /\ WorkNext /\ UNCHANGED <<fitVars, diskVars, runs>>

Step == Starting \/ StartFit \/ StartFails \/ Call \/ Track \/ Return \/ Except \/ Advance \/ Watchdog \/ Working

\* Rank 0 of a pool has come up.
RankZeroUp ==
  /\ phase = "starting" /\ \E p \in Pools : CreateRegisterCentre(p)
  /\ UNCHANGED <<workVars, fitVars, diskVars, runs>>

\* The cluster goes down, or the run has raised, and the job is started again.
Restart ==
  /\ phase # "done" /\ runs < MaxRuns /\ job.restarts
  /\ runs' = runs + 1
  /\ start' = "placing" /\ pool' = 1 /\ place' = [p \in Pools |-> <<>>]
  /\ born' = {} /\ centre' = {} /\ registered' = {}
  /\ todo' = [w \in Workers |-> <<>>] /\ failed' = {}
  /\ onGpu' = [w \in Workers |-> {}]
  /\ model' = [w \in Workers |-> [r \in Roles |-> 0]]
  /\ training' = [w \in Workers |-> TRUE]
  /\ hooks' = [w \in Workers |-> {}]
  /\ engine' = [w \in Workers |-> FreshEngine]
  /\ random' = [w \in Workers |-> FreshRandom]
  /\ phase' = "starting" /\ calls' = <<>> /\ waiting' = FALSE /\ step' = 0 /\ first' = 1
  /\ noise' = {} /\ meta' = {} /\ ema' = {} /\ nextScale' = One /\ generated' = 0
  /\ UNCHANGED <<job, disk, diskVars>>

Next == Step \/ RankZeroUp \/ Restart

\* The processes run on, and one that knows the register centre comes up.  Rank 0
\* may never do so, and the job need not be started again.
Spec == Init /\ [][Next]_vars /\ WF_vars(Step)

-----------------------------------------------------------------------------
\* The next operation of every process of a group is this one.
At(w, name) == Op(w)[1] = name /\ \A v \in Partners(w) : Op(v) = Op(w)

Settings == [kind : {"train", "validation"}, step : 0..job.steps,
             scale : [of : 0..job.steps, over : SUBSET (1..job.steps)]]
Seeds == {"default", "engine", "server", "manager"} \X (0..(World(1) - 1))

\* What the variables hold: among others, that a process has no more than the
\* present call and one analysis that it has not returned from.
JobTypeOK ==
  /\ job \in Jobs /\ phase \in {"starting", "calling", "done", "raised"}
  /\ step \in 0..job.steps /\ tracked \in 0..job.steps /\ runs \in 1..MaxRuns
  /\ noise \subseteq Settings /\ Cardinality(noise) <= 1 /\ meta \subseteq noise
  /\ ema \subseteq first..step /\ nextScale \in [of : {0} \cup ema, over : SUBSET ema]
  /\ \A w \in Workers :
       /\ Len(todo[w]) <= 2 /\ Cardinality(hooks[w]) <= 1
       /\ onGpu[w] \subseteq {"actor", "actor_optim", "critic", "critic_optim"}
       /\ \A r \in Roles : model[w][r] \in 0..step
       /\ engine[w] \in [weights : 0..step, cache : BOOLEAN, asleep : BOOLEAN]
       /\ \A k \in DOMAIN random[w] : random[w][k].seed \in Seeds

\* sort_placement_group_by_node_ip: when every resource pool is on the nodes it was on
\* when the checkpoint was written, in whatever order its placement groups have been
\* created, a process finds its files on its node when the job is started again.
FilesFound ==
  (\A p \in Pools : SortSeq(place[p], <) = nodesThen[p]) =>
    \A w \in Workers : Op(w)[1] = "restore" => CanDo(w)

\* Every generation uses the weights of the actor's last update, or of the checkpoint
\* loaded.  (Except the first of an asynchronous rollout: its engines start awake, with
\* the pretrained weights, and wake_up does nothing to an engine that is awake.)
EngineCurrent ==
  \A w \in Workers : At(w, "generate") =>
    IF job.mode = "async" /\ generated = 1 THEN engine[w].weights = 0
                                          ELSE engine[w].weights = model[w].actor

\* While an engine has its cache, the GPU holds nothing that is offloaded between
\* calls.  (The cache of an asynchronous engine is there before a checkpoint is
\* loaded; and without tags it comes with the engine's weights.)
RoomForCache ==
  \A w \in Actors : job.tags /\ engine[w].cache /\ (job.mode = "sync" \/ generated > 0) =>
    onGpu[w] \cap job.offload = {}

\* The scale of step s: in the controller's window, and from the third step of the
\* run on, that of the last step's signal to the average of those before.
ScaleOf(s) ==
  IF job.adaptive /\ s >= job.window[1] /\ s <= job.window[2] /\ s - 1 > first
  THEN [of |-> s - 1, over |-> first..(s - 2)] ELSE One

\* The noise an operation is to run under.  An asynchronous rollout has no hooks: with
\* apply_mode "all", which _validate_config admits for it, its answers are without
\* noise, and that is taken here for what is asked.
Asked(what) ==
  CASE what.for = "validate" /\ job.mode = "sync" -> ValidationNoise
    [] \/ what.for \in {"generate", "resample"} /\ job.mode = "sync" /\ job.apply \in {"all", "rollout_only"}
       \/ what.for = "old_log_prob" /\ job.apply \in {"all", "rollout_only"}
       \/ what.for = "update_actor" /\ job.apply \in {"all", "update_only"} ->
         {[kind |-> "train", step |-> what.step, scale |-> ScaleOf(what.step)]}
    [] OTHER -> {}

\* The noise of the hooks on a module that act in the mode it is in: the engine's
\* model always evaluates.
Acting(w, where) ==
  UNION {h.noise : h \in {k \in hooks[w] :
    k.where = where /\ k.phase = IF where = "actor" /\ training[w] THEN "train" ELSE "eval"}}

\* Every pass through the policy runs under the noise its apply_mode and the step
\* ask for (of a rollout, if it is synchronous), with the scale of this step, and under
\* no other; and no hook outlives its call.
NoiseAsConfigured ==
  \A w \in Actors :
    /\ At(w, "generate") => Acting(w, "engine") = Asked(Op(w)[2])
    /\ At(w, "forward") \/ At(w, "update") => Acting(w, "actor") = Asked(Op(w)[2])
    /\ todo[w] = <<>> => hooks[w] = {}

\* The processes of one engine draw the same samples, those of another engine
\* others, and each generation goes on where the last one of the run ended.  (An
\* asynchronous engine begins with the state a loaded checkpoint left.)
SamplesAlike ==
  \A v, w \in Actors :
    At(v, "generate") /\ At(w, "generate") /\ (job.mode = "sync" \/ first = 1) =>
      /\ v \in TpGroup(w) <=> random[v].now = random[w].now
      /\ random[w].now.drawn = generated - 1

\* A job that is not started again comes to its end, if only with an exception.
JobEnds == <>[](phase \in {"done", "raised"})
================================================================================
