------------------------------- MODULE TrainLoop -------------------------------
(***************************************************************************)
(* RayPPOTrainer.fit with its checkpoints: one driver that runs the        *)
(* training loop, and per role a group of FSDP ranks that write their      *)
(* shards of a checkpoint in an SPMD way.                                  *)
(*                                                                         *)
(* What survives a crash is the checkpoint directory: the shard files of   *)
(* every role, the dataloader state (data.pt) and the tracker file         *)
(* (latest_checkpointed_iteration.txt).  Everything else is process        *)
(* memory.  The job may crash at any moment and be started again; the      *)
(* driver blocks on every call to the workers, so a crash of one rank      *)
(* takes the job down with it.                                             *)
(*                                                                         *)
(* The contents of a shard are abstracted to the optimizer step that       *)
(* produced them and the run (start of the job) that made this step, which *)
(* tells apart every two states a checkpoint can hold.                     *)
(***************************************************************************)
EXTENDS Integers, FiniteSets

CONSTANTS
  Ranks,          \* the ranks of a worker group
  UseCritic,      \* is there a critic worker group?
  Keep,           \* max_actor_ckpt_to_keep, max_critic_ckpt_to_keep; 0 for None
  EpochLen,       \* len(train_dataloader)
  TotalEpochs,    \* trainer.total_epochs
  TotalSteps,     \* total_training_steps
  SaveFreq,       \* trainer.save_freq; 0 stands for every value <= 0
  CriticWarmup,   \* trainer.critic_warmup
  ResumeModes,    \* the values of trainer.resume_mode a start may be given
  NameBound,      \* is use_rollout_behavior_log_probs bound in fit?
  MaxRuns         \* bound: how many times the job is started

Roles == IF UseCritic THEN {"actor", "critic"} ELSE {"actor"}

ASSUME ConstantsAssumption ==
  /\ Ranks # {} /\ IsFiniteSet(Ranks)
  /\ UseCritic \in BOOLEAN /\ NameBound \in BOOLEAN
  /\ Keep \in [Roles -> Nat]
  /\ EpochLen \in Nat \ {0} /\ TotalEpochs \in Nat \ {0}
  /\ TotalSteps \in Nat \ {0}
  /\ SaveFreq \in Nat /\ CriticWarmup \in Nat
  /\ ResumeModes \subseteq {"auto", "disable", "resume_path"}
  /\ MaxRuns \in Nat \ {0}

VARIABLES
  \* on disk
  shards,     \* shards[role][n][r]: what rank r's files in global_step_n/role hold
  data,       \* data[n]: the position global_step_n/data.pt holds
  tracker,    \* the step the tracker file names, or Absent or Torn
  \* the driver
  run,        \* how many times the job has been started
  pc,         \* what the driver does next
  gstep,      \* self.global_steps
  epoch,      \* the loop's epoch
  cursor,     \* batches the dataloader has yielded in its current epoch
  \* the workers
  weights,    \* weights[role][r]: rank r's shard of the role's model and optimizer
  paths,      \* paths[role][r]: the steps in rank r's previous_saved_paths
  rank        \* rank[r]: where rank r is in save_checkpoint

disk    == <<shards, data, tracker>>
driver  == <<run, pc, gstep, epoch, cursor>>
workers == <<weights, paths, rank>>
vars    == <<disk, driver, workers>>

-----------------------------------------------------------------------------

Steps == 1 .. (TotalSteps + MaxRuns)

\* A file that is not there, and one that is cut short.
Absent == 0
Torn   == -1

Stamp      == [run : 0 .. MaxRuns, step : {0} \cup Steps]
Pretrained == [run |-> 0, step |-> 0]
NoShard    == [run |-> Torn, step |-> Torn]

\* What a role's weights are after step n of run k: the actor is left alone
\* while the critic warms up.
StampAt(role, n, k) ==
  IF n = 0 \/ (role = "actor" /\ n < CriticWarmup)
  THEN Pretrained
  ELSE [run |-> k, step |-> n]

Stopped == {"down", "failed", "finished", "exhausted"}
Saving  == IF UseCritic THEN {"save_actor", "save_critic"} ELSE {"save_actor"}
Saver   == IF pc = "save_critic" THEN "critic" ELSE "actor"

IsLastStep == gstep >= TotalSteps

-----------------------------------------------------------------------------

Init ==
  /\ shards = [role \in Roles |-> [n \in Steps |-> [r \in Ranks |-> NoShard]]]
  /\ data = [n \in Steps |-> Absent]
  /\ tracker = Absent
  /\ run = 0 /\ pc = "down" /\ gstep = 0 /\ epoch = 0 /\ cursor = 0
  /\ weights = [role \in Roles |-> [r \in Ranks |-> Pretrained]]
  /\ paths = [role \in Roles |-> [r \in Ranks |-> {}]]
  /\ rank = [r \in Ranks |-> "idle"]

\* A new process: nothing of an earlier run is left in memory.
FreshProcess ==
  /\ epoch' = 0 /\ cursor' = 0
  /\ weights' = [role \in Roles |-> [r \in Ranks |-> Pretrained]]
  /\ paths' = [role \in Roles |-> [r \in Ranks |-> {}]]
  /\ rank' = [r \in Ranks |-> "idle"]

\* The step the job is to resume from, 0 to start from scratch: the tracker is
\* read whenever the mode is not "disable", and an empty one is no integer.
ResumesFrom(n) ==
  \/ "disable" \in ResumeModes /\ n = 0
  \/ "auto" \in ResumeModes /\ tracker # Torn /\ n = tracker
  \/ /\ "resume_path" \in ResumeModes /\ tracker # Torn
     /\ n \in Steps
     /\ \E role \in Roles, r \in Ranks : shards[role][n][r] # NoShard

\* A job is started and finds its checkpoint: up to the call of load_checkpoint.
Start ==
  /\ pc \in Stopped
  /\ run < MaxRuns
  /\ run' = run + 1
  /\ \E n \in {0} \cup Steps :
       /\ ResumesFrom(n)
       /\ gstep' = n
       /\ pc' = IF n = 0 THEN "begin" ELSE "load"
  /\ FreshProcess
  /\ UNCHANGED disk

\* int('') raises: neither "auto" nor "resume_path" gets past an empty tracker.
StartFails ==
  /\ pc \in Stopped
  /\ run < MaxRuns
  /\ tracker = Torn
  /\ ResumeModes # {"disable"}
  /\ run' = run + 1
  /\ pc' = "failed"
  /\ gstep' = 0
  /\ FreshProcess
  /\ UNCHANGED disk

\* Every rank of every role loads its own files, and torch.load raises on one
\* that is missing or cut short.  A missing data.pt is only warned of.
Loadable(n) ==
  /\ \A role \in Roles, r \in Ranks : shards[role][n][r] # NoShard
  /\ data[n] # Torn

\* Mutant: the dataloader state is not loaded.
LoadWithoutData ==
  /\ pc = "load"
  /\ IF Loadable(gstep)
     THEN /\ weights' = [role \in Roles |-> shards[role][gstep]]
          /\ cursor' = 0
          /\ pc' = "begin"
     ELSE /\ pc' = "failed"
          /\ UNCHANGED <<weights, cursor>>
  /\ UNCHANGED <<disk, run, gstep, epoch, paths, rank>>

\* Mutant: the critic is not loaded.
LoadWithoutCritic ==
  /\ pc = "load"
  /\ IF Loadable(gstep)
     THEN /\ weights' = [weights EXCEPT !["actor"] = shards["actor"][gstep]]
          /\ cursor' = data[gstep]
          /\ pc' = "begin"
     ELSE /\ pc' = "failed"
          /\ UNCHANGED <<weights, cursor>>
  /\ UNCHANGED <<disk, run, gstep, epoch, paths, rank>>

Load ==
  /\ pc = "load"
  /\ IF Loadable(gstep)
     THEN /\ weights' = [role \in Roles |-> shards[role][gstep]]
          /\ cursor' = data[gstep]    \* Absent: from scratch, at 0
          /\ pc' = "begin"
     ELSE /\ pc' = "failed"
          /\ UNCHANGED <<weights, cursor>>
  /\ UNCHANGED <<disk, run, gstep, epoch, paths, rank>>

\* Mutant: the loop starts with the step of the checkpoint.
BeginAtLoaded ==
  /\ pc = "begin"
  /\ gstep' = IF gstep = 0 THEN 1 ELSE gstep
  /\ pc' = "fetch"
  /\ UNCHANGED <<disk, run, epoch, cursor, workers>>

\* "we start from step 1"
Begin ==
  /\ pc = "begin"
  /\ gstep' = gstep + 1
  /\ pc' = "fetch"
  /\ UNCHANGED <<disk, run, epoch, cursor, workers>>

\* Mutant: the dataloader does not stop at the end of an epoch.
NextBatchEndless ==
  /\ pc = "fetch" /\ cursor <= EpochLen
  /\ cursor' = cursor + 1
  /\ pc' = "old_log_prob"
  /\ UNCHANGED <<disk, run, gstep, epoch, workers>>

\* The two nested for loops: the next batch, the next epoch, or the end of fit.
NextBatch ==
  /\ pc = "fetch" /\ cursor < EpochLen
  /\ cursor' = cursor + 1
  /\ pc' = "old_log_prob"
  /\ UNCHANGED <<disk, run, gstep, epoch, workers>>

NextEpoch ==
  /\ pc = "fetch" /\ cursor = EpochLen /\ epoch + 1 < TotalEpochs
  /\ epoch' = epoch + 1
  /\ cursor' = 0
  /\ UNCHANGED <<disk, run, pc, gstep, workers>>

Exhausted ==
  /\ pc = "fetch" /\ cursor = EpochLen /\ epoch + 1 = TotalEpochs
  /\ pc' = "exhausted"
  /\ UNCHANGED <<disk, run, gstep, epoch, cursor, workers>>

\* Generation, reward and the old log probabilities change no state of the
\* trainer, but reading a name that is bound nowhere raises.
OldLogProb ==
  /\ pc = "old_log_prob"
  /\ pc' = IF ~NameBound THEN "failed"
           ELSE IF UseCritic THEN "update_critic" ELSE "update_actor"
  /\ UNCHANGED <<disk, run, gstep, epoch, cursor, workers>>

UpdateCritic ==
  /\ pc = "update_critic"
  /\ weights' = [weights EXCEPT !["critic"] =
                   [r \in Ranks |-> [run |-> run, step |-> gstep]]]
  /\ pc' = "update_actor"
  /\ UNCHANGED <<disk, run, gstep, epoch, cursor, paths, rank>>

\* Mutant: the last step is saved only if save_freq divides it.
UpdateActorNoLastSave ==
  /\ pc = "update_actor"
  /\ weights' = IF CriticWarmup <= gstep
                THEN [weights EXCEPT !["actor"] =
                        [r \in Ranks |-> [run |-> run, step |-> gstep]]]
                ELSE weights
  /\ IF SaveFreq > 0 /\ gstep % SaveFreq = 0
     THEN /\ pc' = "save_actor"
          /\ rank' = [r \in Ranks |-> "prune"]
     ELSE /\ pc' = "advance"
          /\ UNCHANGED rank
  /\ UNCHANGED <<disk, run, gstep, epoch, cursor, paths>>

\* The rest of the iteration up to the checkpoint.
UpdateActor ==
  /\ pc = "update_actor"
  /\ weights' = IF CriticWarmup <= gstep
                THEN [weights EXCEPT !["actor"] =
                        [r \in Ranks |-> [run |-> run, step |-> gstep]]]
                ELSE weights
  /\ IF SaveFreq > 0 /\ (IsLastStep \/ gstep % SaveFreq = 0)
     THEN /\ pc' = "save_actor"
          /\ rank' = [r \in Ranks |-> "prune"]
     ELSE /\ pc' = "advance"
          /\ UNCHANGED rank
  /\ UNCHANGED <<disk, run, gstep, epoch, cursor, paths>>

-----------------------------------------------------------------------------
\* FSDPCheckpointManager.save_checkpoint, as every rank of the role runs it

\* Mutants: keep_start is one too high, one too low.
NewestOneLess(S, k) == {n \in S : Cardinality({m \in S : m > n}) + 1 < k}
NewestOneMore(S, k) == {n \in S : Cardinality({m \in S : m > n}) <= k}

\* previous_saved_paths is in the order of the steps, so its tail of length k
\* holds the steps that fewer than k others follow.
Newest(S, k) == {n \in S : Cardinality({m \in S : m > n}) < k}

Surplus(role, r) ==
  IF Keep[role] > 0 /\ Cardinality(paths[role][r]) >= Keep[role]
  THEN paths[role][r] \ Newest(paths[role][r], Keep[role] - 1)
  ELSE {}

\* Mutant: only one rank goes to the barrier after mkdir.
PruneOneToBarrier(r) ==
  /\ pc \in Saving /\ rank[r] = "prune"
  /\ shards' = [shards EXCEPT ![Saver] =
                  [n \in Steps |-> IF n \in Surplus(Saver, r)
                                   THEN [q \in Ranks |-> NoShard]
                                   ELSE shards[Saver][n]]]
  /\ paths' = [paths EXCEPT ![Saver][r] = @ \ Surplus(Saver, r)]
  /\ rank' = [rank EXCEPT ![r] = IF r = CHOOSE q \in Ranks : TRUE
                                 THEN "made" ELSE "write"]
  /\ UNCHANGED <<data, tracker, driver, weights>>

\* rmtree takes the role's whole directory, the other ranks' files included.
Prune(r) ==
  /\ pc \in Saving /\ rank[r] = "prune"
  /\ shards' = [shards EXCEPT ![Saver] =
                  [n \in Steps |-> IF n \in Surplus(Saver, r)
                                   THEN [q \in Ranks |-> NoShard]
                                   ELSE shards[Saver][n]]]
  /\ paths' = [paths EXCEPT ![Saver][r] = @ \ Surplus(Saver, r)]
  /\ rank' = [rank EXCEPT ![r] = "made"]
  /\ UNCHANGED <<data, tracker, driver, weights>>

\* The barrier after mkdir.
DirBarrier ==
  /\ pc \in Saving /\ \A r \in Ranks : rank[r] = "made"
  /\ rank' = [r \in Ranks |-> "write"]
  /\ UNCHANGED <<disk, driver, weights, paths>>

\* The rank's three files, of which the first replaces what was there before.
OpenShard(r) ==
  /\ pc \in Saving /\ rank[r] = "write"
  /\ shards' = [shards EXCEPT ![Saver][gstep][r] = NoShard]
  /\ rank' = [rank EXCEPT ![r] = "writing"]
  /\ UNCHANGED <<data, tracker, driver, weights, paths>>

WriteShard(r) ==
  /\ pc \in Saving /\ rank[r] = "writing"
  /\ shards' = [shards EXCEPT ![Saver][gstep][r] = weights[Saver][r]]
  /\ rank' = [rank EXCEPT ![r] = "sync"]
  /\ UNCHANGED <<data, tracker, driver, weights, paths>>

\* The last barrier; then the ranks append the path and return to the driver,
\* which goes on to the next role when all of them have.
SaveBarrier ==
  /\ pc \in Saving /\ \A r \in Ranks : rank[r] = "sync"
  /\ paths' = [paths EXCEPT ![Saver] = [r \in Ranks |-> @[r] \cup {gstep}]]
  /\ IF Saver = "actor" /\ UseCritic
     THEN /\ pc' = "save_critic"
          /\ rank' = [r \in Ranks |-> "prune"]
     ELSE /\ pc' = "open_data"
          /\ rank' = [r \in Ranks |-> "idle"]
  /\ UNCHANGED <<disk, run, gstep, epoch, cursor, weights>>

-----------------------------------------------------------------------------
\* The rest of _save_checkpoint, on the driver

OpenData ==
  /\ pc = "open_data"
  /\ data' = [data EXCEPT ![gstep] = Torn]
  /\ pc' = "write_data"
  /\ UNCHANGED <<shards, tracker, run, gstep, epoch, cursor, workers>>

WriteData ==
  /\ pc = "write_data"
  /\ data' = [data EXCEPT ![gstep] = cursor]
  /\ pc' = "open_tracker"
  /\ UNCHANGED <<shards, tracker, run, gstep, epoch, cursor, workers>>

\* open(..., "w") empties the file before the new step is written to it.
OpenTracker ==
  /\ pc = "open_tracker"
  /\ tracker' = Torn
  /\ pc' = "write_tracker"
  /\ UNCHANGED <<shards, data, run, gstep, epoch, cursor, workers>>

WriteTracker ==
  /\ pc = "write_tracker"
  /\ tracker' = gstep
  /\ pc' = "advance"
  /\ UNCHANGED <<shards, data, run, gstep, epoch, cursor, workers>>

\* Mutant: the loop does not return after the last step.
AdvanceForever ==
  /\ pc = "advance"
  /\ pc' = "fetch" /\ gstep' = gstep + 1
  /\ UNCHANGED <<disk, run, epoch, cursor, workers>>

\* The end of an iteration.
Advance ==
  /\ pc = "advance"
  /\ IF IsLastStep
     THEN pc' = "finished" /\ UNCHANGED gstep
     ELSE pc' = "fetch" /\ gstep' = gstep + 1
  /\ UNCHANGED <<disk, run, epoch, cursor, workers>>

\* The driver, a rank or a machine fails, and the job with it.
Crash ==
  /\ pc \notin Stopped
  /\ pc' = "down"
  /\ gstep' = 0
  /\ FreshProcess
  /\ UNCHANGED <<disk, run>>

-----------------------------------------------------------------------------

Save ==
  \/ \E r \in Ranks : Prune(r) \/ OpenShard(r) \/ WriteShard(r)
  \/ DirBarrier
  \/ SaveBarrier
  \/ OpenData
  \/ WriteData
  \/ OpenTracker
  \/ WriteTracker

Train ==
  \/ Load
  \/ Begin
  \/ NextBatch
  \/ NextEpoch
  \/ Exhausted
  \/ OldLogProb
  \/ UpdateCritic
  \/ UpdateActor
  \/ Advance

Next == Start \/ StartFails \/ Train \/ Save \/ Crash

\* A started job keeps running: the driver and every rank take their next step
\* unless a crash comes first.  Whether a stopped job is started again is up to
\* its owner.
Fairness == WF_vars(Train \/ Save)

Spec == Init /\ [][Next]_vars /\ Fairness

-----------------------------------------------------------------------------
PCs == Stopped \cup Saving \cup
       {"begin", "load", "fetch", "old_log_prob", "update_critic", "update_actor",
        "open_data", "write_data", "open_tracker", "write_tracker", "advance"}

\* Every variable keeps to the values its code can give it.
TypeOK ==
  /\ shards \in [Roles -> [Steps -> [Ranks -> Stamp \cup {NoShard}]]]
  /\ data \in [Steps -> {Absent, Torn} \cup 1 .. EpochLen]
  /\ tracker \in {Absent, Torn} \cup Steps
  /\ run \in 0 .. MaxRuns
  /\ pc \in PCs
  /\ gstep \in {0} \cup Steps
  /\ epoch \in 0 .. (TotalEpochs - 1)
  /\ cursor \in 0 .. EpochLen
  /\ weights \in [Roles -> [Ranks -> Stamp]]
  /\ paths \in [Roles -> [Ranks -> SUBSET Steps]]
  /\ rank \in [Ranks -> {"idle", "prune", "made", "write", "writing", "sync"}]

\* One save wrote the whole of this checkpoint: every shard of every role holds
\* step n as one and the same run left it.
OfOneSave(n) ==
  \E k \in 0 .. run : \A role \in Roles, r \in Ranks :
     shards[role][n][r] = StampAt(role, n, k)

\* The position the dataloader is at after n steps.
CursorAt(n) == IF n = 0 THEN 0 ELSE ((n - 1) % EpochLen) + 1

\* A step the tracker names has a checkpoint that can be resumed from: all
\* ranks of all roles have written it, in one save, and no later save, pruning
\* or crash has damaged it since (_save_checkpoint, save_checkpoint).
TrackedIsWhole == tracker \in Steps => OfOneSave(tracker)

\* Each iteration begins with the models of all ranks and roles exactly where
\* one and the same run left them a step before, also after a crash and a
\* resume (fit, _load_checkpoint).
StepsOnPredecessor ==
  pc = "fetch" =>
    \E k \in 0 .. run : \A role \in Roles, r \in Ranks :
       weights[role][r] = StampAt(role, gstep - 1, k)

\* The dataloader stands after as many batches as the job counts steps, in
\* memory and in the checkpoint the tracker names: a resumed job neither repeats
\* nor skips a batch.
DataInStep ==
  /\ tracker \in Steps => data[tracker] = CursorAt(tracker)
  /\ pc = "fetch" => cursor % EpochLen = (gstep - 1) % EpochLen

\* A job trains past the last step at most once: each start of a finished job
\* adds at most one step to it, for the loop tests is_last_step after the step.
OvershootBounded == run > 0 => gstep <= TotalSteps + run - 1

\* A run leaves at most Keep checkpoints of a role on disk, at any moment and
\* after any crash; a later run does not remove those of an earlier one.
KeepBound ==
  \A role \in Roles, k \in 1 .. run :
    Keep[role] > 0 =>
      Cardinality({n \in Steps : \E r \in Ranks :
                     shards[role][n][r].run = k}) <= Keep[role]

\* A job that returns from its last iteration has left a checkpoint of it.
FinishedIsSaved == pc = "finished" /\ SaveFreq > 0 => tracker = gstep

\* No start of the job ends in an exception: what "auto" promises to resume
\* from can be resumed from.
NeverFails == pc # "failed"

\* How many steps the models in memory have behind them; Torn if there are none.
Completed ==
  IF pc \in Stopped \cup {"load"} THEN Torn
  ELSE IF pc \in {"fetch", "old_log_prob", "update_critic", "update_actor"}
  THEN gstep - 1
  ELSE gstep

\* The trainer implements the abstract promise: what the tracker names is the
\* stable step, and a job's count of steps never jumps, repeats or falls back
\* behind it (fit, _save_checkpoint, _load_checkpoint).
Promise == INSTANCE ResumePoint WITH
             Down   <- Torn,
             Lost   <- Torn,
             stable <- tracker,
             done   <- Completed

KeepsPromise == Promise!Spec

\* A started job is never stuck, in a barrier or elsewhere.
StartedStops == (pc \notin Stopped) ~> (pc \in Stopped)
================================================================================
