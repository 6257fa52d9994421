# A TLA+ model of Noise-Experiment's verl

The repository trains language models with reinforcement learning (PPO, GRPO)
on a modified copy of verl, `src/verl/verl`. Its own additions are noise
injected into the actor's hidden states, a controller of the noise's scale, and
experiment scripts around them. What makes the program hard is not the
arithmetic but the machinery that carries it: a driver that calls groups of
worker processes, checkpoints that must survive a crash, rollouts whose
requests interleave on event loops, servers that come up on ports they do not
own. These modules model that machinery from the code, check it with TLC and
prove the main results with TLAPS.

Paths below are relative to `src/verl/verl` unless they start with `src/`.

## 1. The system

The driver (`RayPPOTrainer`) is one process. Each step it takes a batch of
prompts from the dataloader, has the rollout workers answer it, has the answers
scored, computes advantages, has the critic and the actor updated, and now and
then has a checkpoint written. It calls a *worker group* with a batch; the
group's *dispatch mode* cuts the batch into chunks, one for each rank, and puts
the answers together again. The driver blocks on a call unless the method is
declared non-blocking. Rollout runs in the workers (vLLM or SGLang in the
process of the actor) or in server actors of their own.

| component | source | state | operations | interacts by |
|---|---|---|---|---|
| training loop and checkpoints | `trainer/ppo/ray_trainer.py`, `utils/checkpoint/fsdp_checkpoint_manager.py` | `global_steps`, epoch, dataloader position; per rank the weights and `previous_saved_paths`; on disk shards, `data.pt`, tracker file | start, resume, iterate, save, crash | blocking calls to worker groups, files |
| multi-turn SGLang rollout | `workers/rollout/sglang_rollout/async_sglang_rollout.py`, `workers/rollout/schemas.py` | one dictionary of sampling parameters; per request its messages, tokens, turns, finish reason; tool instances | a coroutine per request: create tools, generate, execute calls, release, finalize | shared dictionary, awaits of engine and tools |
| asynchronous vLLM servers, chat scheduler | `workers/rollout/async_server.py` | addresses and ports, ready events; a heap of server weights, an LRU cache of request ids; awake or asleep | start in rounds, scheduler thread, submit, answer, callback, wake, sleep | Ray calls, HTTP, a thread with an event loop |
| vLLM server and external executor | `workers/rollout/vllm_rollout/vllm_async_server.py` | that of vLLM | construct the engine, forward | HTTP, Ray |
| data protocol | `protocol.py` | none (batches are values) | chunk, concat, repeat, reorder, union, pad, futures | passed by value |
| dispatch and collect | `single_controller/base/decorator.py` | none | split and collect for each mode, auto-padding | wraps calls |
| Ray worker groups | `single_controller/ray/base.py`, `base/worker.py`, `base/register_center` | placement groups, worker names, master address, the register centre | place, number and create the ranks, wait for rank 0, colocate | named actors, time-out |
| sequence length balancing | `utils/seqlen_balancing.py` | none | Karmarkar-Karp, greedy, micro batches and their inverse | calls |
| hidden noise and its controller | `models/transformers/noise_injection.py`, `weight_noise.py`, `ray_trainer.py:1152-1380` | hooks, scale; moving averages in the driver | install, enable, remove, update the scale | worker calls |
| sharding managers | `workers/sharding_manager` | engine awake or asleep, weights loaded, two random states | enter, exit | context manager around generation |
| FSDP and Megatron workers | `workers/fsdp_workers.py`, `megatron_workers.py` | models, optimizers, offloading | update, compute, save, load | collectives |
| rewards and advantages | `workers/reward_manager`, `trainer/ppo/core_algos.py`, `reward.py` | process pool; KL coefficient | score, estimate | calls, time-outs |
| tools | `tools` | an instance for each request | create, execute, calc_reward, release | awaits |
| supervised fine-tuning | `trainer/fsdp_sft_trainer.py` | weights | a sequential loop that saves and does not load | collectives |
| datasets, metrics, tracking | `utils/dataset`, `utils/tracking.py` | the dataloader's position | iterate, log | calls |

### What is hard, and what makes each part correct

* **Training loop.** A crash may come between any two file operations, and the
  next start reads what is there. Correct: the step the tracker file names has
  a whole checkpoint, of every rank and role, written by one save; a resumed job
  goes on with exactly the next step from exactly the weights and the batch that
  belong to it; ranks never wait for each other for ever.
* **Multi-turn rollout.** Coroutines share a mutable dictionary around an await,
  tool answers come in any order, contexts run full, turns run out in the middle
  of a call. Correct: sampling as asked in either mode, every call answered in
  order before the engine sees it, tools held for as long as they may be called
  and released once, the tokens recorded for the update those the engine saw, a
  batch that ends.
* **Servers and scheduler.** A port is chosen, given back and bound later;
  readiness is told before it is true; a bounded cache forgets. Correct: the
  manager has the last server's address, the start comes to an end, load stays
  balanced, a conversation stays on its server, nothing runs while engines
  sleep.
* **Batches, dispatch, balancing.** Rows are repeated in two orders, permuted,
  padded, chunked and joined by index, over ranks that meet in collective
  operations. Correct: every prompt stays with its responses and its reward; what
  is collected is in the order of what was dispatched; each permutation is undone
  by its inverse; all ranks go through equally many micro-batches.
* **Worker groups.** Rank 0 publishes the master address in a named actor that
  the driver waits for with a time-out. Correct: a group comes up or the start
  raises; after a restart a rank finds its files on the node it is on.
* **Workers.** A process is trainer, inference engine and critic in turn; weights
  exist twice, GPU memory suffices for one use at a time, random states are
  swapped, and noise hooks are set and removed around passes by what a batch's
  `meta_info` says. Correct: the engine's weights are the actor's when it
  generates; nothing offloaded is on the GPU beside the cache; processes of one
  engine sample alike and never again what they have sampled; each pass is as
  noisy as its step asks for, and no other is.

`PROJECT.json` lists every component with its status, and every hazard at its
line.

## 2. Modules

In the order of importance.

| module | what it is |
|---|---|
| `ResumePoint` | abstract: what checkpointing promises a job |
| `TrainLoop` | `fit`, `_save_checkpoint`, `_load_checkpoint`, the ranks' `save_checkpoint`; implements `ResumePoint` |
| `TrainLoopProof` | theorems about `TrainLoop` |
| `MultiTurnRollout`, `MultiTurnRolloutProof` | the coroutines of `generate_sequences_with_tools`, and theorems about them |
| `ServerStart`, `ChatScheduler` | the server manager's constructor; the scheduler's conversations |
| `AsyncServers`, `AsyncServersProof` | composes these two; theorems about both |
| `DataProto` | operators on batches of rows |
| `SeqlenBalancing`, `Dispatch` | Karmarkar-Karp; the dispatch modes over `DataProto` |
| `SampleFlow` | abstract: what a step of training promises for its samples |
| `BatchFlow` | one batch through `fit` or `_validate`, over `Dispatch` and `SeqlenBalancing`; implements `SampleFlow` |
| `BatchProof` | theorems about `DataProto`, `SeqlenBalancing` and `Dispatch` |
| `BatchFlowProof` | theorems about `BatchFlow`, over `BatchProof` |
| `WorkerGroupStart` | placement, rank 0, the register centre and its time-out |
| `HybridWorker` | the processes of the actor, rollout and critic: their calls as lists of operations, local and collective |
| `NoisyTraining` | the driver over these two: its calls, the noise and its controller, restarts |
| `NoisyTrainingProof`, `NoisyTrainingEngineProof`, `NoisyTrainingTypeProof` | theorems about `NoisyTraining`, each module extending the one before: what it takes for a process to keep to a contract in all the calls it has received, with that its noise and its checkpoints; the weights, memory and random states of its engines; what its variables hold |

The `MC` modules give the constants values for TLC: model values for ranks,
requests and conversations, functions and jobs that a `.cfg` cannot write.
`BatchFlow` and `NoisyTraining` take a *set* of jobs, records of the options the
code branches on, and choose one in the initial state: a run then covers jobs
that differ from a small one in one respect each.

What would come next, were the project to grow: Megatron's checkpoint manager as a
second `TrainLoop`; the process pool of `prime.py`.

## 3. How the modules correspond to the code

Every definition that models code is in the `map` of `PROJECT.json` with the
lines it stands for. Definitions introduced by a comment "Mutant:" are not part
of a specification; each changes one definition as a plausible bug would, and
the property it is paired with in `PROJECT.json` is violated by it.

### TrainLoop

`shards[role][n][r]` is what the three files of rank r in
`global_step_n/<role>` hold. A shard's contents are abstracted to a *stamp*, the
run and the step that produced the weights, which tells any two checkpoints
apart. `NoShard` is a shard that is missing or cut short: `torch.load` raises on
both. `data[n]` is the dataloader's position in `data.pt`, `tracker` the number
in `latest_checkpointed_iteration.txt`; each may be `Absent` or `Torn` (opened
for writing and not yet written).

| action | code |
|---|---|
| `Start`, `StartFails` | the call of `fit` up to the checkpoint found, `find_latest_ckpt_path`, `int('')` on an empty tracker |
| `Load` | `_load_checkpoint`: every rank of both roles, then `data.pt`, whose absence is only warned of |
| `Begin`, `NextBatch`, `NextEpoch`, `Exhausted`, `OldLogProb`, `UpdateCritic`, `UpdateActor`, `Advance` | the loop of `fit`, with `critic_warmup`, `is_last_step` and both ends |
| `Prune`, `DirBarrier`, `OpenShard`, `WriteShard`, `SaveBarrier` | `FSDPCheckpointManager.save_checkpoint`, rank by rank, between its barriers |
| `OpenData`, `WriteData`, `OpenTracker`, `WriteTracker` | the rest of `_save_checkpoint` |
| `Crash` | any process of the job fails: the driver blocks on each call, so the job goes down |

Simplifications. `Prune` is one step per rank: a directory half removed holds a
shard that cannot be loaded, and so does one that is gone. The three files of a
rank are one shard. `previous_saved_paths` is a set, as its order is that of the
steps: within a run, a later save is of a larger step. The name that `fit` reads
at line 2301 of `ray_trainer.py`, `use_rollout_behavior_log_probs`, is bound
nowhere in the code. The constant `NameBound` says whether it is: with `FALSE`,
the code as it stands, the first iteration raises (`OldLogProb`), and every
other behaviour of the loop lies behind it; the configurations have `TRUE`. The
theorems hold for both. The return of `val_only` is left out: it changes no
state. Megatron's manager has other barriers and is not this model.

### MultiTurnRollout

A coroutine runs without interruption from one await to the next, so an action
is such a segment: `at[r]` names the await a request is in. `params` is the
shared `self.sampling_params`, reduced to whether validation's overrides are in
it; `old[r]` is what `update_sampling_params` will put back. `Created` is the
segment from the tools' creation to the engine's await, the `Output...` actions
the segments after an answer (text, tool calls, too long, no parse),
`EngineRaises` an exception of the engine, which skips the rollback because the
context manager has no `finally`; `ToolRaises` is one of a tool, in whichever of
its methods is awaited. `CreateTool`, `ExecuteTool` and `ReleaseTool`
are the members of a `gather`, answered in any order; `Executed`, `Finalize` and
`Return` the segments after one.

A conversation is kept twice. The token lists (`input_ids` and its masks) are
extended message by message: `len` is their length and `tail` what they end
with, on which `add_assistant_message` decides whether to add a prefix. The
engine is sent something else, the chat template of all messages
(`get_generation_prompt`): `text` is the length of the messages in it, and
`sent` of what a call was given, the prefix of the answer included. A prompt
over `prompt_length` is cut in the token lists and not in the messages, so it is
sent whole; `cut` is what the lists lack. `SentAsRecorded` says that the two
stay together where nothing was cut. `RoomToGenerate` is about what is sent. The
code looks at `len(input_ids)` before it calls the engine again, so what it
sends *may* be longer than `max_model_len`: by a prefix less one token, which
the template has and the list has not yet, and by what was cut from the prompt.
The property, and the theorem, say that it is never more than that.

Simplifications. The engine is external; it reads the parameters it is given
before its first suspension. The template is external too: it is taken to write
a message as `format_config` does, with a prefix of `PrefixLen` tokens, the same
for every role, and a suffix of one; the schemas of the tools are part of the
prompt in both. That the tokenizer may split a text in another way than its
parts is left out. A cut prompt may end with a suffix or with neither suffix nor
prefix, in which case the answer cannot be added and the batch raises. The finish reason `abort` is not modelled. An
exception ends the batch, and what the request at hand held is lost with it.

### ServerStart, ChatScheduler, AsyncServers

`ServerStart` is the constructor of `AsyncLLMServerManager`: rounds that create
a server for every rank not yet ready, ask each (`Ask`: the address, or an
exception and `ray.kill`), and go on; then `InitEngines`, the scheduler's
thread and the wait for it. A server picks a free port (`Pick`), sets
`server_ready` in the start-up of its application (`SetReady`) and binds after
that (`Bind`), or exits if the port is gone (`TakePort`).

`ChatScheduler` has `count`, the weights in the heap, of which the code reads
the least entry only; `cache`, the LRU cache, in the order of age; and per
conversation the place of its task, its number of requests and its server.
An id is the batch, the conversation and the turn; a completion carries its
request's id, as vLLM answers under `X-Request-Id`. Servers are numbered in the
order of their addresses, which breaks ties in the heap.

`AsyncServers` runs the constructor and then the batches, and only a server that
serves can answer. The scheduler starts with the engines asleep, although
vLLM's are awake after the constructor: the first `wake_up` finds nothing to do,
which here is no difference (`NoisyTraining` is where it is one).

### DataProto, Dispatch, SeqlenBalancing, SampleFlow, BatchFlow

A batch is the sequence of its rows, a row a record of its columns. An answer is
a record of the prompt it was generated *to*, the place it was computed *at*, its
length and whether it is right; what is computed for a row holds the input it was
computed of. So a row put in another's place, a column of another order, or a
reward of another prompt is told apart, and nothing else of a tensor is kept.

| action | code |
|---|---|
| `Begin` | the prompts taken off the batch and repeated, in `_validate` padded to the world's size; `generate_sequences` called |
| `GenerateSequences` | an engine: its ranks gather their chunks, generate, and each keeps its own |
| `CollectGeneration` | un-padding, the permutation of `ray_trainer.py:2123`, `union` |
| `Reward` | `NaiveRewardManager` |
| `NextGroup`, `WriteBack` | `dyn_sampling_polaris`: prompts whose samples are all right or all wrong are generated again |
| `Balance`, `CollectColumn`, `ComputeAdvantage`, `CollectUpdate` | `_balance_batch`, old log probabilities, reference, values, GRPO's advantage, the updates |
| `PlanMicroBatches`, `Forward`, `OptimizerStep`, `Return` | `dp_actor.py`, `dp_critic.py`: mini-batches, micro-batches by number or by tokens, the inverse of their order |

A rank's work between two collective operations is one step; a forward or a
step of the optimizer is one of all ranks. The methods are dispatched by the
mode they are registered with, so FSDP and Megatron differ in `ModeOf`.
`SampleFlow` is the same step without rows, ranks or order: a *set* of samples.
The refinement maps a batch to the set of its rows.

Simplifications. A prompt is one token. Of the rewards there is the sum over a
row's tokens. The prompts of the next batch do not matter to this one. Metrics,
entropies and multi-modal inputs are left out; so is the noise, which is in
`NoisyTraining`.

### WorkerGroupStart, HybridWorker, NoisyTraining

A remote method is the list of its operations in order, for instance
`Enter` \o hook, generate, unhook \o `Exit`; a process works off the lists it has
been sent. `Local` does one operation of one process, `Together` a collective
one of a whole group, which needs all its members at the same operation.
`Fails` is an exception of a process: of the analysis, which the driver catches, or
for want of a checkpoint file, which ends the run. The driver's actions are `Call`, `Return`,
`Except`, `Advance` and `Track`; `StepCalls` is the order of the calls in `fit`, with the
generation that `dyn_sampling_polaris` repeats under the noise left in the batch's `meta_info`.

| variable | code |
|---|---|
| `onGpu` | what `load_fsdp_model_to_gpu` and its siblings move |
| `model`, `engine` | the step the actor's and the critic's weights are of; that of the engine's copy, its cache, and `is_sleep` |
| `random` | the CUDA state and the two that the sharding manager keeps, each a seed, the generations drawn from it, and who drew for itself |
| `hooks`, `noise`, `meta` | the hooks on the decoder layers; `shared_hidden_noise` of the step and in `meta_info` |
| `ema`, `nextScale` | the controller: the steps averaged, and the next scale as a signal over an average |
| `disk`, `tracked`, `nodesThen` | checkpoint files on the nodes; the tracker; where the ranks were when it was written |

Simplifications. The engine is vLLM with or without tags for `wake_up`; SGLang's
manager has the same order, and the branch for vLLM 0.6.3 is left out. The models are
wrapped by FSDP 1: `init_model` sets `self.actor_module`, the module with the hooks, for
that version only (`fsdp_workers.py:520`), and without it `update_actor` and
`compute_log_prob` raise (584, 902), noise or no noise. When it offloads the optimizer, this has no state to move.
In a step at most one group is generated again, and in synchronous jobs only: the method
of an asynchronous worker raises (`fsdp_workers.py:1661`), and `NoisyAssumption` leaves
such a job out. Two
processes of a group in different collectives hang until NCCL's watchdog ends
the job (`Watchdog`). `MaxRuns` bounds the starts of a job. A checkpoint is
one file per rank and is written at once: `TrainLoop` has the rest. A job resumed at its last step
is taken for done, where `TrainLoop` has the extra step. The clean pass of the
KL analysis is there for `apply_mode` "all" only: with "rollout_only" it depends
on the unbound name.

## 4. What is checked

All passing runs finish with their whole state space.

| run | states | bounds | shows |
|---|---|---|---|
| `train_loop` | 51,782 | 2 ranks, actor and critic, 2 checkpoints kept, 2 epochs of 3 batches, 7 steps wanted, save every 2, warm-up 3, 4 starts | the properties of `TrainLoop` with crashes between any two steps |
| `rollout` | 947,975 | 2 requests, one with 2 tools and one with 1, 3 turns, contexts of 15 tokens for a request and 18 for the engine, prompts of 3 tokens, whole or what is left of 8, 2 batches of either mode | the properties of `MultiTurnRollout` |
| `servers` | 35,436 | 2 servers, 3 ports of which 1 may be taken, 2 conversations of up to 3 turns, caches of 1 or 2 entries, 2 batches, a scheduler that may not construct | the properties of `ServerStart` and `ChatScheduler` composed |
| `step` | 78,630 | 13 jobs: 1 to 4 ranks, 1 to 3 prompts, 1 to 4 samples of each, answers of 2 or 3 lengths, right or wrong | the properties of `BatchFlow`, with the refinement of `SampleFlow` |
| `workers` | 271,112 | 10 jobs: 2 to 4 processes on 2 nodes, 1 to 5 steps, 2 starts | the properties of `NoisyTraining` |

The remaining runs each show a disagreement of the code with what it says:

| run | property | what happens |
|---|---|---|
| `train_loop_keep1` | `TrackedIsWhole` | with one checkpoint kept, the only one is removed before the next is written; a crash between leaves a tracker that names nothing whole |
| `train_loop_torn` | `NeverFails` | the tracker is emptied and then written, though called atomic; a crash between makes every later start raise |
| `rollout_params` | `TrainsAsConfigured` | two validation requests roll the shared parameters back in the wrong order; the next training batch samples with validation's |
| `servers_taken` | `ReadyIsAlive` | a server tells its address and then finds the port taken; it is never restarted, although that is what the loop is for |
| `step_values` | `ValuesMaskedOnResponse` | with `use_dynamic_bsz` the critic masks its values before it puts them back in order: a row loses the values of its last tokens |
| `step_polaris` | `ScoreOfResponses` | after the resampling the rows have new responses and the scores of the old ones |
| `step_pipeline` | `CollectedInOrder` | with pipeline and data parallel ranks answers come back in another order than the prompts went |

Properties, by what they would catch:

* `TrackedIsWhole`, `StepsOnPredecessor`, `DataInStep`: a checkpoint of mixed
  saves, a resume of the wrong weights, a batch skipped or repeated.
  `KeepsPromise`: the refinement of `ResumePoint`, with the exception the code
  makes, no stable count while the tracker is rewritten.
* `OvershootBounded`: a job resumed from its last checkpoint trains one step
  more, and only one for each start. `KeepBound`: the limit of kept checkpoints
  holds for each run, not over all, for a rank remembers its paths in memory only. `FinishedIsSaved`: a job that returns from
  its last step has saved it; one that runs out of epochs has not.
* `StartedStops`: no barrier waits for a rank that does not come.
* `ToolsHeld`, `FinishKnown`, `CallsAnswered`,
  `SentAsRecorded`, `RoomToGenerate`, `BatchEnds`: see sections 1 and 3.
* `AddressIsCurrent`, `StartEnds`: rounds converge on the last servers.
  `StartEnds` has the case of a scheduler that cannot be constructed in it: its
  thread dies and the constructor waits for ever.
* `Balanced`, `Remembered`, `StaysOnServer`, `AsleepIdle`, `GenerationEnds`: the
  scheduler. `Remembered` says how large a cache must be: as large as one batch,
  whatever earlier batches have left in it; the run has caches smaller than that
  too, where a conversation can be lost and the batch raises.
* `Implements`, `GroupsTogether`: rows of one prompt with another's answers,
  columns in the order of micro-batches, groups torn apart before what takes
  neighbours for a group. `RanksBalanced`: Karmarkar-Karp's bound on the
  difference between ranks. `MicroBatchesEven`: ranks with unequal numbers of
  micro-batches, which would wait for each other, rows left out, or more tokens
  than the limit on average (a single micro-batch may have more).
  `RaisesOnlyThere`: the two settings in which an assertion ends a step.
  `TrainedOnce`: rows left out of, or twice in, an epoch of the update.
  `StepEnds`: no rank waits for ever.
* `FilesFound`: after a restart each rank is where its files are, if each pool
  is on the nodes it was on, in whatever order Ray placed its groups. `EngineCurrent`, with the exception of an asynchronous engine's
  first generation; `RoomForCache`, which says nothing of engines without tags,
  whose cache comes together with their weights; `NoiseAsConfigured`, with the scale the controller
  owes the step from the signals of this run. The controller is not part of a checkpoint:
  the property describes a restarted one, which begins at scale 1, and does not call that
  wrong. Nor does it call wrong that with `apply_mode` "all" an asynchronous rollout is
  without noise: `_validate_config` refuses only "rollout_only" there, and no line of the
  repository says which is meant; `SamplesAlike`, which says nothing of an
  asynchronous job that was resumed; `JobEnds`.

**Why the bounds are enough.** Two ranks make every interleaving of writes
within a save, and four starts a crash in a run that resumed from a run that
resumed. Seven steps are more than the six batches of two epochs, so both ends
of the loop occur; a warm-up of 3 puts saves on both sides of it; three saves of
two kept checkpoints prune. In the rollout, two requests suffice to nest and to
cross overrides, and the lengths let a request end for its turns, for an answer
too long and for a full context. Every branch of the rollout is reached but one,
the exception of `finalize`, which is what `FinishKnown` says. Two servers and
two conversations suffice for a tie, an imbalance and an eviction; the third
port lets each server move. In `step`, three prompts on two ranks are the least
for which an order and its inverse differ; four samples with sequence
parallelism over two make gathered and cut batches; a mini-batch that does not
divide a rank's rows leaves a shorter one. Jobs without a setting are there
beside jobs with it, so a property cannot hold for a lack of the case. In
`workers`, five steps let the controller's window open, and a checkpoint lie
inside of it; two engines of one process, and two of two, are the least for
`SamplesAlike`; one GPU on each of two nodes lets a pool be placed in two orders.
`MaxRuns`, `MaxBatches` and, in `TakePort`, the
condition that some server has not bound its port are bounds of the model only.

**Fairness.** `TrainLoop`: `WF(Train \/ Save)`, a started job goes on unless it
crashes; nobody has to start it again, and crashes are not fair. `MultiTurnRollout`: an
event loop runs every task whose await is answered, and engine and tools
answer, with a result or an exception. `AsyncServers`: processes go on, the
scheduler's loop runs its tasks, and the client has a time-out. No port is ever
promised: other processes may take any they can reach. `BatchFlow`: driver and ranks
go on, and a collective completes once all its ranks are there; this is
`WF_vars(Next)`, with ENABLED spelled out since TLC would compute every partition
again to evaluate it. `NoisyTraining`: `WF_vars(Step)`; that rank 0 comes up is
not fair, and neither is a restart: the time-out, and the watchdog of NCCL,
are what ends a job then.

`CHECK_DEADLOCK FALSE` stands in the configurations because these systems stop:
a job after its last start, a batch after the last, or after an exception.
`BatchFlow` has a step that stays at the end instead, and TLC looks for deadlocks.

## 5. What is proved

TLAPS proves these for every value of the constants that the modules' named
assumptions allow; a proof uses nothing else.

| theorem | module | statement |
|---|---|---|
| `TypeCorrect` | `TrainLoopProof` | `Spec => []TypeOK` |
| `OvershootIsBounded` | `TrainLoopProof` | `Spec => []OvershootBounded` |
| `TrackedCheckpointIsWhole` | `TrainLoopProof` | `ResumesSafely => (Spec => []TrackedIsWhole)` |
| `EachStepOnPredecessor` | `TrainLoopProof` | `ResumesSafely => (Spec => []StepsOnPredecessor)` |
| `TrainLoopKeepsPromise` | `TrainLoopProof` | `ResumesSafely => (Spec => KeepsPromise)`: refinement |
| `DataStaysInStep` | `TrainLoopProof` | `ResumesSafely => (Spec => []DataInStep)` |
| `LastStepIsSaved` | `TrainLoopProof` | `Spec => []FinishedIsSaved` |
| `CheckpointsAreFew` | `TrainLoopProof` | `Spec => []KeepBound` |
| `RolloutTyped` | `MultiTurnRolloutProof` | `Spec => []RolloutTypeOK` |
| `RolloutFinishes` | `MultiTurnRolloutProof` | `Spec => []FinishKnown` |
| `RolloutRecordsSent` | `MultiTurnRolloutProof` | `Spec => []SentAsRecorded` |
| `RolloutHasRoom` | `MultiTurnRolloutProof` | `Spec => []RoomToGenerate` |
| `RolloutHoldsTools` | `MultiTurnRolloutProof` | `Spec => []ToolsHeld` |
| `RolloutAnswersCalls` | `MultiTurnRolloutProof` | `Spec => []CallsAnswered` |
| `ConversationsBalanced` | `AsyncServersProof` | `Spec => []Balanced` |
| `ConversationsRemembered` | `AsyncServersProof` | `Spec => []Remembered` |
| `ConversationsStay` | `AsyncServersProof` | `Spec => StaysOnServer` |
| `AddressesAreCurrent` | `AsyncServersProof` | `Spec => []AddressIsCurrent` |
| `StartTyped`, `ChatTyped` | `AsyncServersProof` | `Spec => []StartTypeOK`, `Spec => []ChatTypeOK` |
| `EnginesSleepIdle` | `AsyncServersProof` | `Spec => []AsleepIdle` |
| `NoisyAsConfigured` | `NoisyTrainingProof` | `Spec => []NoiseAsConfigured` |
| `CheckpointFound` | `NoisyTrainingProof` | `Spec => []FilesFound` |
| `EnginesCurrent` | `NoisyTrainingEngineProof` | `Spec => []EngineCurrent` |
| `CacheHasRoom` | `NoisyTrainingEngineProof` | `Spec => []RoomForCache` |
| `SamplesAgree` | `NoisyTrainingEngineProof` | `Spec => []SamplesAlike` |
| `JobTyped` | `NoisyTrainingTypeProof` | `Spec => []JobTypeOK` |
| `BlocksMeetNeighbours` | `BatchProof` | the permutation of `fit` takes rows tiled in blocks to rows repeated in place |
| `ReverseIdxReverts` | `BatchProof` | reordering by `get_reverse_idx` undoes reordering |
| `ConcatAfterChunk` | `BatchProof` | chunks that divide a batch concatenate to it |
| `UnpadAfterPad` | `BatchProof` | a padded batch divides, with less padding than chunks, and unpads to itself |
| `PartitionsAsAsserted` | `BatchProof` | the assertions of `get_seqlen_balanced_partitions` hold: no part is empty, the parts hold every index, and with equal sizes they are equally long |
| `BalancingPermutes` | `BatchProof` | the parts one after the other go through every index once |
| `PartitionsEven` | `BatchProof` | the parts' sums differ by no more than those of the states the loop begins with |
| `FlowInductive` | `BatchFlowProof` | `Spec => []FlowInv` |
| `FlowTyped` | `BatchFlowProof` | `Spec => []FlowTypeOK` |
| `RaisesNowhereElse` | `BatchFlowProof` | `Spec => []RaisesOnlyThere` |
| `SamplesStayTogether` | `BatchFlowProof` | if Megatron's layouts are `OneAxis`, `Spec => []GroupsTogether` |
| `RanksAreBalanced` | `BatchFlowProof` | `Spec => []RanksBalanced` |
| `MicroBatchesAreEven` | `BatchFlowProof` | `Spec => []MicroBatchesEven` |
| `FlowImplements` | `BatchFlowProof` | if Megatron's layouts are `OneAxis` and a critic's micro-batches are not by tokens, `Spec => Implements`: refinement |
| `RowsTrainedOnce` | `BatchFlowProof` | `Spec => []TrainedOnce` |

With these, every invariant and every safety property of steps that a passing run
checks is proved (`KeepsPromise`, `StaysOnServer` and `Implements` are those of steps);
what is left to TLC alone is liveness.

`ResumesSafely` says that the job resumes automatically and that no role keeps
exactly one checkpoint. The run `train_loop_keep1` shows that the second half
cannot be dropped; the first excludes resuming from a step of one's choice,
after which steps are no longer in order. `OneAxis` says of a layout that at most one
of its context, data and pipeline parallel sizes is more than one. The run
`step_pipeline`, with two of them, shows that it cannot be dropped: the answers then
come back in another order than the prompts were sent in. `FlowImplements` also leaves
out the critics with `use_dynamic_bsz`, except those for which three quarters of the limit
do not hold a row, which raise: the run `step_values` shows that the others mask a
row's values with another row's mask, and `Implements` fails with them.

*The argument of the resume theorems.* `TrackedIsWhole` is not inductive: pruning
removes whole directories and must be shown never to reach the tracked one.
`RInv` adds `TrackerOrder` (until the tracker is rewritten it is behind the step at
hand, and it is cut short only while it is written), `PathsOrder` (no rank
remembers a path beyond the tracked one, except the one it has just written),
`Lineage` (which stamps the weights have at each place of the loop) and `OnDisk`
(how far a save has come at each place). With two or more kept, the newest path survives pruning, and that is
the tracked one; with `Keep = 0` nothing is pruned.

*The data.* `DInv` relates the dataloader's position to the
step at each place of the loop, modulo the length of an epoch, and says that
`data.pt` of the tracked step has the position of that step; a resume puts the two
together again. `FInv` is all that `FinishedIsSaved` needs: once a last step is at
its end, the tracker names it.

*The kept checkpoints.* `KInv` counts what a run has written by what its ranks
remember. No shard is of a later run than the present one (`RunsBefore`), and what a
save writes is of the present run or of no update at all (`WritesOwn`); each rank
lists every checkpoint of its run but the one being written (`Listed`); the lists
are within the limit, and one below it from the pruning until the new path is
appended, which every rank has behind it when the first one writes (`Short`).

*The rollout.* `TypeInv` adds to the types where each coroutine is in its
conversation (`Progress`). The property of finish reasons is inductive with it, for a
segment of one coroutine leaves the others' places alone (`Segment`). `Lengths` says at every await how far the template is
from the token lists: by what was cut from the prompt, less the prefix the list
still ends with where it is the prompt or waits for an answer; each message adds
the same to both (`ApartAssistant`, `ApartResponses`). `RolloutRecordsSent` and
`RolloutHasRoom` are two readings of it, the second together with the check of
the length after the responses. `Held` says for each await which tools have
instances, also while they are created and released one by one. For
`CallsAnswered`, a conversation is `Paired` at all times and `Complete` where the engine
may be called; the lemmas say what an assistant message, a whole group of
responses, or part of one before a full context, do to both.

*The scheduler.* `Balanced` follows from the choice of the least weight
(`BInv`). For `Remembered`, `CInv` says that the cache is in the order of
insertion (`Ordered`), that every conversation has at most one entry of the
current batch (`OnePerConv`), that entries of earlier batches are older than all
of them (`NoneLater`) and that a running conversation's entry is there with
its server. An insertion evicts the oldest entry; were that one of the current
batch, all entries would be, one for each of as many conversations as the cache
has places, and the conversation that inserts has just removed its own or had
none: more entries than conversations, against a cardinality bound.
`StaysOnServer` follows from the part of `CInv` that says that the entry of a
conversation's last request has its server (`Addressed`).

`LInv` and `GInv` are the rest of the variables' types, and that a batch is only
generated by engines that are awake, which with `CInv` gives `AsleepIdle`.

*The noise.* `NoiseAsConfigured` speaks of a process's next operation, which any of the
calls it has received may hold, among them analyses of earlier steps the driver has
given up waiting for. The first part of `NoisyTrainingProof` reduces this to one method at a time. A
*contract* is a set of states, the moves the operations make between them, the states in
which an operation is right, and those in which a process may be between its calls. A
list of operations `Leads` from some states to others if along every path of moves each
operation finds a state it is right in; a process `Works` if each of its calls leads
from where the one before it leaves off to where the next may begin. It goes on working
with every operation it does (`WorksStep`), with a call it raises in
(`WorksDrop`), and with one it receives that keeps to the contract (`WorksCall`); methods are
lists, and lists one after the other compose (`LeadsConcat`). No proof is then about an
interleaving of processes: what is left of one is that each process finds, for itself,
what it needs.

For the noise the contract's state is the hooks and the mode of the modules, and between
calls there are no hooks. What a method is asked to work under must be what `Asked` says
of it. That is a fact about the driver: `Control` says what can still be in the
queues when the driver goes on, and `Controller` that the values of the critic, with which
the controller is updated, are computed once in a step, that the average is over the
steps of this run before, and that the noise of the step has the scale for it. `Rank` and
`Between` state the order of the calls of `fit`, from which the first follows.
`Works` quantifies over all paths, so TLC checked `Control` and `Controller` as invariants,
and the contract through the property itself.

*The files.* `FilesFound` says that a process finds its file, which another run of the
job wrote, perhaps with other ranks on the nodes in the meantime. `FilesThere` is what
makes it true: for the step the tracker names, every file of every saved model was
written, on the node that its rank had when the tracker was. The driver writes the
tracker after the calls that save, but a file is written when its process gets to it, so
the invariant follows a save from the call to the tracker: while the driver waits, each
process has its file there or the operation that writes it is in its last call
(`FilesSaving`; `Saves` asks that nothing in that call can raise, or a process could drop
it and the driver go on), and when it goes on, the files of the models already saved are
there until the tracker is written (`FilesSaved`). On the other side, a process loads
nothing but the tracked step of a model of its pool (`FilesAsked`). The placement changes
only before the calls begin (`FilesUp`). Between the two placements, ranks are equal
because both are numbered along the nodes sorted, which is all the theorem needs of
`Sorted`. TLC checked the parts of `FilesInv` on the jobs of the run `workers` before
they were proved.

*The engines.* Weights, cache, sleep, the parts on the GPU and the random states make
one state and one contract, as each of the three properties needs the others' part: an
engine has the actor's weights because it was synchronised when it entered the rollout,
which is also where its memory is exchanged and its random state swapped. Between calls
a process is not in one place but in a `Stage`, which depends on the calls to come and
the generations so far: before the model is built, synchronous between two uses,
asynchronous before its first generation, asleep, serving. A method leads
from the stage before its call to the stage after it (`EngineMethod`); that the driver makes no
call in a stage that is not made for it is `CallsOrder`, a fact about `fit`'s lists of
calls: initialisation and loading come first, each asynchronous generation between
`wake_up` and `sleep`, and everything that changes the actor after a generation. An
analysis that the driver has given up waiting for may still be in a queue when the next
call arrives; it keeps to whatever stage it is in (`LastCall`, `QueueShort`: it is never
before a call that changes the stage of an asynchronous engine). A run that has raised
goes on with what is left in the queues, so the conclusions are kept for each process
(`Fine`) after the contract has gone with the call. TLC checked the parts of `EngineInv` other
than `EngineWorks` on the jobs of the run `workers` before they were proved.

*What the variables hold.* `JobTypeOK` names bounds that no single step keeps: two calls
of a process, weights of no step to come, one hook. `JobInv` has a part for each.
`Queued`: the driver goes on without a result only after an analysis, and between two
analyses there is a validation, which every process must finish, and with it all that
was in its queue; so there are two calls at most, and of two the first is an
analysis (`Paired` is what the rest of a list of `fit`'s calls keeps). `Sound`: what a
process updates, saves and loads is what its present call asks for, at this step or at
the tracked one. `Counted`: the tracker is not ahead of the steps once `fit` calls.
`Held`, from these: weights and files are of no step to come, also after a restart, when
a process starts at zero and loads the tracked step; hooks are registered where there
are none (which the contract of the noise says), so there is one; and random states
come from the seeds of this job. `Noised` is the driver's noise and the controller's
numbers. The step case rests on the invariants of the files and of the engines
(`JobInductive` has the three together). TLC checked the parts of `JobInv` on the jobs
of the run `workers` before they were proved.

*The partitions.* Karmarkar and Karp's loop takes the two states of largest spread from a
heap and merges them, the largest set of one with the smallest of the other. `HeapIn`
says that the states of the heap hold every index once between them, each as `k` sets of
pairs of an index and its length, sorted by their sums. Merging keeps that, and it keeps
sets as long as each other if they were. That it keeps the sums even (`Spreads`) is the
one piece of arithmetic: of two decreasing sequences whose differences are at most `g`,
one is added to the other backwards, and the difference of two of the sums is that of a
difference of each, both at most `g` and of opposite sign. Each turn leaves one state
less, so after the turns the code makes there is one, whose sets are the partition.
With equal sizes the first states are `k` consecutive items by length (`Gaps`).
Sorting and the loop are functions of how far they have come, so an invariant of the
loop is a sequence of facts, each from the one before; where the prover has no
induction to offer, the lemmas take the first that fails.

*A batch.* What could end a step is an assertion on sizes or columns: `chunk`'s, `union`'s,
those of the partitions and of the micro-batches. `FlowInv` therefore says where the
driver is and what it holds: which phases a job comes through (`PathIs`), which
columns the rows have in each (`BatchIs`, `RewardsAre`), that a rank was sent its chunk
and has answered with as many rows of the column asked for (`RanksAre`,
`GenerationIs`, `CallIs`), and that the plan of micro-batches is the one the
mini-batch gives (`PlanIs`). With it each of the assertions is a statement about a size
that divides, which the lemmas derive from `SetupAssumption`, or it is one of the two
exceptions that `RaisesOnlyThere` names. `SamplesStayTogether` adds what an answer
answers (`TogetherIs`): an engine gathers the chunks of its ranks and each keeps its own,
so the answers come back in the order in which the rows went out, block by block, and
`BlocksMeetNeighbours` and `UnpadAfterPad` do the rest. `RanksAreBalanced` is
`PartitionsEven` for the rows: a rank is sent one part, whose tokens are the sum of the
part, and the largest gap is the same before and after the rows are reordered, for rows
with the same lengths have the same lengths sorted. `MicroBatchesAreEven` is
`PartitionsEven` with singletons for first states, and the plan's length is the
largest any rank wants. TLC checked the parts of `FlowInv` on the jobs of the run `step`
before they were proved.

*The samples.* `SampleFlow` has a set of samples where the code has rows, so the
refinement needs that the rows stay apart: the answers were computed at different
places, whatever the ranks (`Own`, for every layout), and with `OneAxis` and
`TogetherIs` each prompt has `n` of them. `RowsInv` adds that until a prompt has its turn
in the resampling its answers are the first ones (`Fresh`), and that the rewards are those
of the rows' inputs (`Graded`), which makes the scores those of the first answers also
where `WriteBack` has replaced the responses. A column comes back to its row because a
rank's results are put back by the inverse of the order of its micro-batches, the chunks of
an Ulysses group are cut where they were joined, and the ranks that return are those
of different chunks, in the chunks' order. Then each step of the driver is the step of
`SampleFlow` with its purpose: `CollectGeneration` is `Generate`, `WriteBack` `Replace`,
`Balance` `Rate`, `CollectColumn` `Evaluate`, `ComputeAdvantage` `Compare`, and all
others change no sample.

*The update.* `TrainedOnce` counts rows in a sequence that grows in whatever order the
ranks' micro-batches come. `RowsSpread` first says where they come from: every row of the
batch is at one position of one rank that counts (with FSDP the first of each Ulysses
group, which works on the group's chunks; with Megatron one rank of each chunk). `TrainInv`
then says how often the row at a position has gone into the gradients: as often as the
mini-batch of that position has been done (`Done`), and once more if the position's
micro-batch of the present plan has been gone through (`Touched`). `Forward` adds those of the
next micro-batch, each once because a plan is a partition; `OptimizerStep` trades
`Touched` for `Done`, because a plan holds all of its mini-batch and nothing else; and a rank
returns only when all mini-batches of all epochs are done. This needs no hypothesis on
layouts: a row that holds another prompt's answer is trained on once all the same.

`NoisyAssumption` says of a job what the code checks or assumes of its settings:
`_validate_config`, `_create_dataloader` (the steps of a job are a number),
`AsyncActorRolloutRefWorker.generate_sequences` (no resampling in an asynchronous job),
`_build_rollout` (a rollout is synchronous or asynchronous, and its
tensor parallelism divides the actors' pool), and that resource pools are not empty.
`RunsAssumption` says that the bound on restarts admits a run.
`SetupAssumption` says of a job of `BatchFlow` what `_validate_config` checks (the samples
of a step divide over the ranks), what the workers assert of the parallel sizes, and
that a micro-batch's limit holds a row as wide as any.

Checked by TLC only: all liveness (`StartedStops`, `BatchEnds`, `StartEnds`,
`GenerationEnds`, `StepEnds`, `JobEnds`), which is out of the prover's reach.
