------------------------------- MODULE HybridWorker -------------------------------
(***************************************************************************)
(* The processes of ActorRolloutRefWorker and CriticWorker, colocated on   *)
(* the GPUs of a pool.  A remote call is a list of the operations it does  *)
(* in order; a process works off its calls one after the other.  Local     *)
(* operations change one process, collective ones need the same operation  *)
(* of every process of their group, and a process that raises drops the    *)
(* rest of its call.                                                       *)
(***************************************************************************)
EXTENDS WorkerGroupStart

\* More fields of a job:
\*   tp          tensor_model_parallel_size of the rollout
\*   mode        rollout.mode, "sync" or "async"
\*   tags        does the engine's wake_up take tags?
\*   offload     the parts offloaded between calls: "actor", "actor_optim", ...
\*   critic      use_critic

VARIABLES
  todo,      \* the calls a process has received and not finished, each the
             \* operations it has yet to do: pairs of a name and an argument
  failed,    \* the processes whose last call raised an exception
  onGpu,     \* the parts of training models on the process's GPU
  model,     \* the step of the last update of actor and critic
  training,  \* is the actor's module in training mode?
  hooks,     \* the noise hooks on its modules
  engine,    \* the step its engine's weights are of; has it a cache; is_sleep
  random,    \* the CUDA random state, and the two the sharding manager keeps
  disk       \* files of checkpoints, each on a node

workVars == <<todo, failed, onGpu, model, training, hooks, engine, random, disk>>

Roles == {"actor", "critic"}
PoolOf(role) == IF role = "critic" THEN Len(job.pools) ELSE 1
Group(role) == {w \in Workers : w[1] = PoolOf(role)}
Actors == Group("actor")
\* The processes of w's engine.
TpGroup(w) == {v \in Actors : v[2] \div job.tp = w[2] \div job.tp}

\* A random state: the seed it began with, the generations drawn from it, and the
\* processes that drew from it for themselves.
Seeded(seed) == [seed |-> seed, drawn |-> 0, by |-> {}]
FreshEngine == [weights |-> 0, cache |-> FALSE, asleep |-> FALSE]
FreshRandom ==
  LET default == Seeded(<<"default", 0>>)
  IN  [now |-> default, train |-> default, gen |-> default]

WorkInit(disk0) ==
  /\ todo = [w \in Workers |-> <<>>] /\ failed = {}
  /\ onGpu = [w \in Workers |-> {}]
  /\ model = [w \in Workers |-> [r \in Roles |-> 0]]
  /\ training = [w \in Workers |-> TRUE]
  /\ hooks = [w \in Workers |-> {}]
  /\ engine = [w \in Workers |-> FreshEngine]
  /\ random = [w \in Workers |-> FreshRandom]
  /\ disk = disk0

-----------------------------------------------------------------------------
\* The methods.  Noise is a set of at most one setting, empty for none.

Load(part) == IF part \in job.offload THEN <<<<"load", part>>>> ELSE <<>>
Offload(part) == IF part \in job.offload THEN <<<<"offload", part>>>> ELSE <<>>
Optim(role) == IF role = "actor" THEN "actor_optim" ELSE "critic_optim"
Hook(where, phase, noise) ==
  IF noise = {} THEN <<>> ELSE <<<<"hook", [where |-> where, phase |-> phase, noise |-> noise]>>>>
Unhook(noise) == IF noise = {} THEN <<>> ELSE <<<<"unhook", "">>>>

\* Mutant: the cache is allocated before the parameters leave the GPU.
Enter_CacheFirst ==
  Load("actor") \o <<<<"wake", "all">>, <<"sync", "">>>> \o Offload("actor") \o <<<<"to_gen", "">>>>

\* Mutant: the engine wakes up with the weights it went to sleep with.
Enter_Unsynced ==
  Load("actor") \o <<<<"wake", "weights">>>> \o Offload("actor") \o <<<<"wake", "cache">>, <<"to_gen", "">>>>

\* FSDPVLLMShardingManager.__enter__
Enter ==
  Load("actor")
  \o (IF job.tags THEN <<<<"wake", "weights">>, <<"sync", "">>>> \o Offload("actor") \o <<<<"wake", "cache">>>>
                  ELSE <<<<"wake", "all">>, <<"sync", "">>>> \o Offload("actor"))
  \o <<<<"to_gen", "">>>>

\* FSDPVLLMShardingManager.__exit__
Exit == <<<<"sleep", "">>, <<"train", "">>, <<"to_train", "">>>>

\* The optimizer has no state yet, so that its offloading finds nothing.
InitActor ==
  <<<<"build", "actor">>>> \o Offload("actor") \o Offload("actor_optim")
  \o (IF job.mode = "sync" THEN <<<<"build_engine", "">>>> ELSE <<>>) \o <<<<"build_manager", "">>>>
InitCritic == <<<<"build", "critic">>>> \o Offload("critic") \o Offload("critic_optim")

\* AsyncvLLMServer.init_engine, which initialises the engines of the processes.
InitEngine == <<<<"start_engine", "">>>>

GenerateSequences(noise, what) ==
  Enter \o Hook("engine", "eval", noise) \o <<<<"generate", what>>>> \o Unhook(noise) \o Exit

\* vLLMAsyncRollout: wake_up and sleep do nothing when there is nothing to do.
WakeUp(w) == IF engine[w].asleep THEN Enter \o <<<<"awake", "">>>> ELSE <<>>
Sleep(w) == IF engine[w].asleep THEN <<>> ELSE Exit \o <<<<"asleep", "">>>>
Serve(what) == <<<<"generate", what>>>>

ComputeLogProb(noise, what) ==
  Load("actor") \o Hook("actor", "eval", noise) \o <<<<"eval", "">>, <<"forward", what>>>>
  \o Unhook(noise) \o Offload("actor")
AnalyzeGenerationPolicy(what) == Load("actor") \o <<<<"eval", "">>, <<"forward", what>>>> \o Offload("actor")
UpdateActor(noise, what) ==
  Load("actor") \o Load("actor_optim") \o Hook("actor", "train", noise) \o <<<<"train", "">>, <<"update", what>>>>
  \o Unhook(noise) \o Offload("actor") \o Offload("actor_optim")
ComputeRefLogProb(what) == <<<<"reference", what>>>>
ComputeValues(what) == Load("critic") \o <<<<"values", what>>>> \o Offload("critic")
UpdateCritic(what) ==
  Load("critic") \o Load("critic_optim") \o <<<<"draw", "">>, <<"update_critic", what>>>>
  \o Offload("critic") \o Offload("critic_optim")

SaveCheckpoint(role, step) ==
  Load(role) \o <<<<"barrier", "before">>, <<"save", [role |-> role, step |-> step]>>, <<"barrier", "after">>>>
  \o Offload(role)
LoadCheckpoint(role, step) ==
  Load(role) \o <<<<"restore", [role |-> role, step |-> step]>>>>
  \o (IF role = "critic" THEN <<<<"barrier", "loaded">>>> ELSE <<>>)
  \o Offload(role) \o Offload(Optim(role))

-----------------------------------------------------------------------------
\* The operations.

Op(w) == IF todo[w] = <<>> THEN <<"nothing", "">> ELSE Head(Head(todo[w]))
\* The calls of w when this operation is done.
Rest(w) ==
  IF Len(Head(todo[w])) = 1 THEN Tail(todo[w]) ELSE <<Tail(Head(todo[w]))>> \o Tail(todo[w])
Collective == {"sync", "generate", "forward", "reference", "values", "update", "update_critic", "barrier"}
\* The processes that take part in w's next operation.
Partners(w) ==
  IF Op(w)[1] = "generate" THEN TpGroup(w) ELSE {v \in Workers : v[1] = w[1]}

Part(w) ==
  CASE Op(w)[1] \in {"load", "build"} -> [onGpu EXCEPT ![w] = @ \cup {Op(w)[2]}]
    [] Op(w)[1] = "offload"           -> [onGpu EXCEPT ![w] = @ \ {Op(w)[2]}]
    [] Op(w)[1] = "restore"           -> [onGpu EXCEPT ![w] = @ \cup {Optim(Op(w)[2].role)}]
    [] OTHER                          -> onGpu

EngineAfter(w) ==
  LET e == engine[w]
  IN  CASE Op(w)[1] = "build_engine"              -> [e EXCEPT !.cache = FALSE]
        [] Op(w)[1] = "start_engine"              -> [e EXCEPT !.cache = TRUE]
        [] Op(w) \in {<<"wake", "all">>, <<"wake", "cache">>} -> [e EXCEPT !.cache = TRUE]
        [] Op(w)[1] = "sleep"                     -> [e EXCEPT !.cache = FALSE]
        [] Op(w)[1] = "asleep"                    -> [e EXCEPT !.asleep = TRUE]
        [] Op(w)[1] = "awake"                     -> [e EXCEPT !.asleep = FALSE]
        [] OTHER                                  -> e

\* Mutant: leaving the rollout does not keep the state generation has reached.
ToTrain_Restart(r) == [r EXCEPT !.now = r.train]
ToTrain(r) == [r EXCEPT !.gen = r.now, !.now = r.train]

\* The file of process w for a role and a step.
File(w, what) ==
  [node |-> NodeOf(w), role |-> what.role, rank |-> w[2], step |-> what.step]
OnDisk(w, what) == {f \in disk : f.file = File(w, what)}

RandomAfter(w) ==
  LET r == random[w]
  IN  CASE Op(w)[1] = "build_engine"  -> [r EXCEPT !.now = Seeded(<<"engine", 0>>)]
        [] Op(w)[1] = "start_engine"  -> [r EXCEPT !.now = Seeded(<<"server", w[2] \div job.tp>>)]
        [] Op(w)[1] = "build_manager" -> [r EXCEPT !.train = r.now, !.gen = Seeded(<<"manager", w[2] \div job.tp>>)]
        [] Op(w)[1] = "to_gen"        -> [r EXCEPT !.train = r.now, !.now = r.gen]
        [] Op(w)[1] = "to_train"      -> ToTrain(r)
        [] Op(w)[1] = "draw"          -> [r EXCEPT !.now.by = @ \cup {w[2]}]
        [] Op(w)[1] = "restore"       -> [r EXCEPT !.now = (CHOOSE f \in OnDisk(w, Op(w)[2]) : TRUE).random]
        [] OTHER                      -> r

\* A file that is not on the process's node cannot be loaded.
CanDo(w) == Op(w)[1] = "restore" => OnDisk(w, Op(w)[2]) # {}

Local(w) ==
  /\ w \in registered /\ Op(w)[1] \notin Collective \cup {"nothing"} /\ CanDo(w)
  /\ todo' = [todo EXCEPT ![w] = Rest(w)]
  /\ onGpu' = Part(w)
  /\ engine' = [engine EXCEPT ![w] = EngineAfter(w)]
  /\ random' = [random EXCEPT ![w] = RandomAfter(w)]
  /\ training' = [training EXCEPT ![w] =
       CASE Op(w)[1] = "train" -> TRUE [] Op(w)[1] = "eval" -> FALSE [] OTHER -> @]
  /\ hooks' = [hooks EXCEPT ![w] =
       CASE Op(w)[1] = "hook" -> @ \cup {Op(w)[2]} [] Op(w)[1] = "unhook" -> {} [] OTHER -> @]
  /\ model' = IF Op(w)[1] = "restore" THEN [model EXCEPT ![w][Op(w)[2].role] =
                                              (CHOOSE f \in OnDisk(w, Op(w)[2]) : TRUE).weights]
                                      ELSE model
  /\ disk' = IF Op(w)[1] = "save"
             THEN {f \in disk : f.file # File(w, Op(w)[2])}
                  \cup {[file |-> File(w, Op(w)[2]), weights |-> model[w][Op(w)[2].role],
                         random |-> random[w].now]}
             ELSE disk
  /\ UNCHANGED <<failed, startVars>>

\* A collective operation of w's group.
Together(w) ==
  /\ Op(w)[1] \in Collective /\ Partners(w) \subseteq registered
  /\ \A v \in Partners(w) : Op(v) = Op(w)
  /\ LET at(v) == v \in Partners(w)
     IN  /\ todo' = [v \in Workers |-> IF at(v) THEN Rest(v) ELSE todo[v]]
         /\ engine' = [v \in Workers |->
              IF at(v) /\ Op(v)[1] = "sync" THEN [engine[v] EXCEPT !.weights = model[v].actor] ELSE engine[v]]
         /\ random' = [v \in Workers |->
              IF at(v) /\ Op(v)[1] = "generate" THEN [random[v] EXCEPT !.now.drawn = @ + 1] ELSE random[v]]
         /\ model' = [v \in Workers |->
              IF ~at(v) THEN model[v]
              ELSE CASE Op(v)[1] = "update" -> [model[v] EXCEPT !.actor = Op(v)[2].step]
                     [] Op(v)[1] = "update_critic" -> [model[v] EXCEPT !.critic = Op(v)[2].step]
                     [] OTHER -> model[v]]
  /\ UNCHANGED <<failed, onGpu, training, hooks, disk, startVars>>

\* A process raises in its call: its context managers remove the hooks, and the
\* rest of the call is not done.
Fails(w) ==
  /\ \/ w \in registered /\ Op(w)[1] = "restore" /\ ~CanDo(w)
     \/ /\ Op(w)[1] = "forward" /\ Op(w)[2].for = "analyze"
        /\ Partners(w) \subseteq registered
  /\ todo' = [todo EXCEPT ![w] = Tail(@)]
  /\ failed' = IF Len(todo[w]) = 1 THEN failed \cup {w} ELSE failed
  /\ hooks' = [hooks EXCEPT ![w] = {}]
  /\ UNCHANGED <<onGpu, model, training, engine, random, disk, startVars>>

WorkNext == \E w \in Workers : Local(w) \/ Together(w) \/ Fails(w)
================================================================================
