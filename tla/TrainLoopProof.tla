----------------------------- MODULE TrainLoopProof -----------------------------
(***************************************************************************)
(* Proofs about TrainLoop, for any number of ranks, any epoch length, any  *)
(* save frequency and any number of runs: its types, how far a job gets,   *)
(* what a resumed job finds, its position in the data, that it implements  *)
(* ResumePoint, and the number of checkpoints it keeps.                    *)
(*                                                                         *)
(* Type correctness is not inductive by itself: the directories are named  *)
(* after steps, and how far a job can get depends on how often it has been *)
(* started.  StepBound carries that bound, which is also the bound on how  *)
(* far a job trains past its last step.                                    *)
(*                                                                         *)
(* What a resumed job finds needs two assumptions, and the model checker   *)
(* shows why.  A job is always resumed with "auto": a run that starts from *)
(* scratch writes over the checkpoints of an earlier one, the one the      *)
(* tracker names included.  And more than one checkpoint is kept:          *)
(* otherwise the one the tracker names is removed before the next one is   *)
(* written.                                                                *)
(*                                                                         *)
(* The number of checkpoints needs no assumption: although each rank       *)
(* removes the oldest directories by a list of its own, and the others'    *)
(* files with them, no run leaves more of them than it may.                *)
(***************************************************************************)
EXTENDS TrainLoop, FiniteSetTheorems, WellFoundedInduction, TLAPS

(***************************************************************************)
(* Types and the bound on the steps                                        *)
(***************************************************************************)

\* No file is of a step that the runs so far cannot have reached.
StepBound ==
  /\ gstep <= TotalSteps + run - 1
  /\ pc \in {"load", "begin"} => gstep <= TotalSteps + run - 2
  /\ pc \notin Stopped => run > 0
  /\ pc \in PCs \ (Stopped \cup {"load", "begin"}) => gstep > 0
  /\ pc = "load" => gstep > 0
  /\ tracker <= TotalSteps + run - 1
  /\ \A role \in Roles, n \in Steps, r \in Ranks :
       shards[role][n][r] # NoShard => n <= TotalSteps + run - 1

TInv == TypeOK /\ StepBound

\* The actor is a role always, the critic if it is used.
LEMMA RolesFacts ==
  /\ "actor" \in Roles
  /\ UseCritic => "critic" \in Roles
  /\ Roles \subseteq {"actor", "critic"}
BY DEF Roles

\* Only a role that there is writes a checkpoint.
LEMMA SaverIsRole == pc \in Saving => Saver \in Roles
BY DEF Saving, Saver, Roles

\* A step is made by one run.
LEMMA StampType ==
  ASSUME NEW k \in 0 .. MaxRuns, NEW n \in Steps
  PROVE  [run |-> k, step |-> n] \in Stamp
BY DEF Stamp

\* A job that was never started has the types and the bound on its steps.
LEMMA InitTInv == Init => TInv
BY ConstantsAssumption
   DEF Init, TInv, TypeOK, StepBound, Stamp, NoShard, Pretrained, Absent, Torn,
       PCs, Stopped, Saving, Steps

\* Every step keeps the types and the bound on the driver's steps.
LEMMA NextTInv == TInv /\ [Next]_vars => TInv'
<1> SUFFICES ASSUME TInv, [Next]_vars
             PROVE  TInv'
    OBVIOUS
<1> USE ConstantsAssumption, RolesFacts
    DEF TInv, TypeOK, StepBound, Absent, Torn, PCs, Stopped, Saving, Steps,
        disk, driver, workers
<1>1. CASE Start
  <2>1. PICK n \in {0} \cup Steps :
          /\ ResumesFrom(n)
          /\ gstep' = n
          /\ pc' = IF n = 0 THEN "begin" ELSE "load"
    BY <1>1 DEF Start
  <2>2. n <= TotalSteps + run - 1
    BY <2>1 DEF ResumesFrom
  <2>3. StepBound'
    BY <1>1, <2>1, <2>2 DEF Start
  <2>4. TypeOK'
    BY <1>1, <2>1 DEF Start, FreshProcess, Stamp, Pretrained
  <2>5. QED
    BY <2>3, <2>4
<1>2. CASE StartFails
  BY <1>2 DEF StartFails, FreshProcess, Stamp, Pretrained
<1>3. CASE Load
  <2>1. CASE Loadable(gstep)
    <3>1. \A role \in Roles, r \in Ranks : shards[role][gstep][r] \in Stamp
      BY <1>3, <2>1 DEF Load, Loadable
    <3>2. weights' \in [Roles -> [Ranks -> Stamp]]
      BY <1>3, <2>1, <3>1 DEF Load
    <3>3. cursor' \in 0 .. EpochLen
      BY <1>3, <2>1 DEF Load, Loadable
    <3>4. QED
      BY <1>3, <2>1, <3>2, <3>3 DEF Load
  <2>2. CASE ~Loadable(gstep)
    BY <1>3, <2>2 DEF Load
  <2>3. QED
    BY <2>1, <2>2
<1>4. CASE Begin
  BY <1>4 DEF Begin
<1>5. CASE NextBatch
  BY <1>5 DEF NextBatch
<1>6. CASE NextEpoch
  BY <1>6 DEF NextEpoch
<1>7. CASE Exhausted
  BY <1>7 DEF Exhausted
<1>8. CASE OldLogProb
  BY <1>8 DEF OldLogProb
<1>9. CASE UpdateCritic
  <2>1. gstep \in Steps /\ run \in 0 .. MaxRuns
    BY <1>9 DEF UpdateCritic
  <2>2. [run |-> run, step |-> gstep] \in Stamp
    BY <2>1, StampType
  <2>3. weights' \in [Roles -> [Ranks -> Stamp]]
    BY <1>9, <2>2 DEF UpdateCritic
  <2>4. QED
    BY <1>9, <2>3 DEF UpdateCritic
<1>10. CASE UpdateActor
  <2>1. gstep \in Steps /\ run \in 0 .. MaxRuns
    BY <1>10 DEF UpdateActor
  <2>2. [run |-> run, step |-> gstep] \in Stamp
    BY <2>1, StampType
  <2>3. weights' \in [Roles -> [Ranks -> Stamp]]
    BY <1>10, <2>2 DEF UpdateActor
  <2>4. rank' \in [Ranks -> {"idle", "prune", "made", "write", "writing", "sync"}]
    BY <1>10 DEF UpdateActor
  <2>5. QED
    BY <1>10, <2>3, <2>4 DEF UpdateActor
<1>11. CASE Advance
  BY <1>11 DEF Advance, IsLastStep
<1>12. ASSUME NEW r \in Ranks, Prune(r)
       PROVE  TInv'
  <2>1. Saver \in Roles
    BY <1>12, SaverIsRole DEF Prune
  <2>2. shards' \in [Roles -> [Steps -> [Ranks -> Stamp \cup {NoShard}]]]
    BY <1>12, <2>1 DEF Prune
  <2>3. \A role \in Roles, n \in Steps, q \in Ranks :
          shards'[role][n][q] # NoShard => shards[role][n][q] # NoShard
    BY <1>12, <2>1 DEF Prune
  <2>4. paths' \in [Roles -> [Ranks -> SUBSET Steps]]
    BY <1>12, <2>1 DEF Prune
  <2>5. QED
    BY <1>12, <2>2, <2>3, <2>4 DEF Prune
<1>13. CASE DirBarrier
  BY <1>13 DEF DirBarrier
<1>14. ASSUME NEW r \in Ranks, OpenShard(r)
       PROVE  TInv'
  <2>1. Saver \in Roles /\ gstep \in Steps
    BY <1>14, SaverIsRole DEF OpenShard
  <2>2. QED
    BY <1>14, <2>1 DEF OpenShard
<1>15. ASSUME NEW r \in Ranks, WriteShard(r)
       PROVE  TInv'
  <2>1. Saver \in Roles /\ gstep \in Steps
    BY <1>15, SaverIsRole DEF WriteShard
  <2>2. QED
    BY <1>15, <2>1 DEF WriteShard
<1>16. CASE SaveBarrier
  <2>1. Saver \in Roles /\ gstep \in Steps
    BY <1>16, SaverIsRole DEF SaveBarrier
  <2>2. paths' \in [Roles -> [Ranks -> SUBSET Steps]]
    BY <1>16, <2>1 DEF SaveBarrier
  <2>3. QED
    BY <1>16, <2>2 DEF SaveBarrier
<1>17. CASE OpenData
  BY <1>17 DEF OpenData
<1>18. CASE WriteData
  BY <1>18 DEF WriteData
<1>19. CASE OpenTracker
  BY <1>19 DEF OpenTracker
<1>20. CASE WriteTracker
  BY <1>20 DEF WriteTracker
<1>21. CASE Crash
  BY <1>21 DEF Crash, FreshProcess, Stamp, Pretrained
<1>22. CASE UNCHANGED vars
  BY <1>22 DEF vars
<1>23. QED
  BY <1>1, <1>2, <1>3, <1>4, <1>5, <1>6, <1>7, <1>8, <1>9, <1>10, <1>11, <1>12,
     <1>13, <1>14, <1>15, <1>16, <1>17, <1>18, <1>19, <1>20, <1>21, <1>22
     DEF Next, Train, Save

\* The types, and the bound on steps they rest on, hold throughout.
THEOREM TInvHolds == Spec => []TInv
<1>1. TInv /\ [Next]_vars => TInv'
  BY NextTInv
<1>2. QED
  BY InitTInv, <1>1, PTL DEF Spec

\* The types of all variables, for every value of the constants.
THEOREM TypeCorrect == Spec => []TypeOK
<1>1. TInv => TypeOK
  BY DEF TInv
<1>2. QED
  BY TInvHolds, <1>1, PTL

\* A job that is started again and again trains at most one step past the last
\* one for each start after the first.
THEOREM OvershootIsBounded == Spec => []OvershootBounded
<1>1. TInv => OvershootBounded
  BY DEF TInv, StepBound, OvershootBounded
<1>2. QED
  BY TInvHolds, <1>1, PTL

(***************************************************************************)
(* A job is resumed                                                        *)
(***************************************************************************)

ResumesSafely ==
  /\ ResumeModes = {"auto"}
  /\ \A role \in Roles : Keep[role] # 1

\* Where the tracker stands against the driver's step.  It is cut short only
\* while it is written; until then the step at hand is not on disk.
TrackerOrder ==
  /\ tracker = Torn => pc \in Stopped \cup {"write_tracker"}
  /\ pc = "write_tracker" => tracker = Torn
  /\ pc \in {"load", "begin"} => gstep = tracker
  /\ pc \in Saving \cup {"fetch", "old_log_prob", "update_critic", "update_actor",
                         "open_data", "write_data", "open_tracker"}
       => tracker < gstep
  /\ pc = "advance" => tracker <= gstep

\* Has the running save got behind the role's last barrier?
SavedRole(role) ==
  \/ pc = "save_critic" /\ role = "actor"
  \/ pc \in {"open_data", "write_data", "open_tracker", "write_tracker"}

\* A rank remembers no path beyond the tracked one, except the one it has just
\* written: so the newest path it could remove is never older than the tracker.
PathsOrder ==
  pc \notin Stopped =>
    \A role \in Roles, r \in Ranks : \A n \in paths[role][r] :
       n <= tracker \/ (n = gstep /\ SavedRole(role)) \/ (n <= gstep /\ tracker = Torn)

\* All ranks of a role hold step n as run k left it.
Holds(role, n, k) == \A r \in Ranks : weights[role][r] = StampAt(role, n, k)

\* Where the models of the roles are at each point of an iteration.
Lineage ==
  /\ pc = "begin" =>
       \E k \in 0 .. run : \A role \in Roles : Holds(role, gstep, k)
  /\ pc \in {"fetch", "old_log_prob", "update_critic"} =>
       \E k \in 0 .. run : \A role \in Roles : Holds(role, gstep - 1, k)
  /\ pc = "update_actor" =>
       /\ \E k \in 0 .. run : Holds("actor", gstep - 1, k)
       /\ UseCritic => Holds("critic", gstep, run)
  /\ pc \in Saving \cup {"open_data", "write_data", "open_tracker", "write_tracker",
                         "advance"} =>
       \A role \in Roles : Holds(role, gstep, run)

\* What the running save has on disk.
OnDisk ==
  /\ \A r \in Ranks : pc \in Saving /\ rank[r] = "sync" =>
       shards[Saver][gstep][r] = StampAt(Saver, gstep, run)
  /\ \A role \in Roles, r \in Ranks : SavedRole(role) =>
       shards[role][gstep][r] = StampAt(role, gstep, run)

RInv == TrackedIsWhole /\ TrackerOrder /\ PathsOrder /\ Lineage /\ OnDisk

-----------------------------------------------------------------------------

\* What a step writes is what StampAt names, for the step after any step.
LEMMA StampAtNext ==
  ASSUME NEW n \in Steps, NEW k
  PROVE  /\ StampAt("critic", n, k) = [run |-> k, step |-> n]
         /\ CriticWarmup <= n => StampAt("actor", n, k) = [run |-> k, step |-> n]
         /\ ~(CriticWarmup <= n) => /\ StampAt("actor", n, k) = Pretrained
                                    /\ StampAt("actor", n - 1, k) = Pretrained
BY ConstantsAssumption DEF StampAt, Steps

\* No shard file that is not there is taken for one of a step.
LEMMA StampAtIsNoHole ==
  ASSUME NEW role, NEW n \in Nat, NEW k \in Nat
  PROVE  StampAt(role, n, k) # NoShard
BY DEF StampAt, Pretrained, NoShard, Torn

\* Before the first start nothing is tracked, remembered or being saved.
LEMMA InitRInv == Init => RInv
BY DEF Init, RInv, TrackedIsWhole, TrackerOrder, PathsOrder, Lineage, OnDisk,
       SavedRole, Saving, Stopped, Steps, Absent, Torn

\* A rank never removes the checkpoint the tracker names, nor the one it is
\* about to write.
LEMMA PruneSparesTracked ==
  ASSUME ResumesSafely, TypeOK, TrackerOrder, PathsOrder,
         NEW r \in Ranks, Prune(r)
  PROVE  tracker \notin Surplus(Saver, r) /\ gstep \notin Surplus(Saver, r)
<1> USE DEF Torn, Absent
<1>1. pc \in Saving /\ pc \notin Stopped /\ Saver \in Roles /\ ~SavedRole(Saver)
  BY SaverIsRole DEF Prune, Saving, Stopped, SavedRole, Saver
<1>2. tracker # Torn /\ tracker < gstep
  BY <1>1 DEF TrackerOrder, Saving, Stopped
<1>3. tracker \in {0} \cup Steps /\ gstep \in {0} \cup Steps /\ gstep \in Int
      /\ tracker \in Int
  BY <1>2, ConstantsAssumption DEF TypeOK, Steps
<1>4. \A n \in paths[Saver][r] : n \in Steps /\ n <= tracker
  BY <1>1, <1>2 DEF PathsOrder, TypeOK
<1>5. gstep \notin paths[Saver][r]
  BY <1>2, <1>3, <1>4
<1>6. {m \in paths[Saver][r] : m > tracker} = {}
  BY <1>3, <1>4, ConstantsAssumption DEF Steps
<1>7. Cardinality({m \in paths[Saver][r] : m > tracker}) = 0
  BY <1>6, FS_EmptySet
<1>8. Keep[Saver] \in Nat /\ Keep[Saver] # 1
  BY <1>1, ConstantsAssumption DEF ResumesSafely
<1>9. Keep[Saver] > 0 => tracker \notin paths[Saver][r] \ Newest(paths[Saver][r], Keep[Saver] - 1)
  BY <1>7, <1>8 DEF Newest
<1>10. QED
  BY <1>5, <1>8, <1>9 DEF Surplus

\* A step of the driver outside the save, which touches neither the disk nor the
\* paths and goes on in the same run, leaves three parts as they are.
LEMMA QuietStep ==
  ASSUME RInv, UNCHANGED <<disk, run, gstep, paths, rank>>,
         pc \in {"load", "fetch", "old_log_prob", "update_critic"},
         pc' \in Stopped \cup {"fetch", "old_log_prob", "update_critic",
                               "update_actor", "begin"}
  PROVE  TrackedIsWhole' /\ PathsOrder' /\ OnDisk'
<1> USE DEF RInv, disk, Stopped, Saving
<1>1. TrackedIsWhole'
  BY DEF TrackedIsWhole, OfOneSave
<1>2. PathsOrder'
  BY DEF PathsOrder, SavedRole
<1>3. OnDisk'
  BY DEF OnDisk, SavedRole
<1>4. QED
  BY <1>1, <1>2, <1>3

\* Every step, crashes and starts included, keeps the resume invariant.
LEMMA NextRInv ==
  ASSUME ResumesSafely, TInv, TInv', RInv, [Next]_vars
  PROVE  RInv'
<1> USE ConstantsAssumption, RolesFacts
    DEF RInv, disk, driver, workers, Torn, Absent, Stopped, Saving
<1> DEFINE Parts == TrackedIsWhole /\ TrackerOrder /\ PathsOrder /\ Lineage /\ OnDisk
<1>0. TypeOK /\ StepBound /\ TypeOK' /\ StepBound'
  BY DEF TInv
<1>t. /\ tracker \in Int /\ gstep \in Int /\ run \in Nat /\ tracker' \in Int
      /\ gstep' \in Int /\ run' \in Nat
  BY <1>0 DEF TypeOK, Steps
<1>1. CASE Start
  <2>1. tracker # Torn /\ gstep' = tracker /\ run' = run + 1
        /\ pc' = IF tracker = 0 THEN "begin" ELSE "load"
    BY <1>1 DEF Start, ResumesFrom, ResumesSafely
  <2>2. TrackedIsWhole'
    BY <1>1, <1>t, <2>1 DEF Start, TrackedIsWhole, OfOneSave
  <2>3. TrackerOrder'
    BY <1>1, <2>1 DEF Start, TrackerOrder
  <2>4. PathsOrder'
    BY <1>1 DEF Start, FreshProcess, PathsOrder
  <2>5. Lineage'
    <3>1. pc' = "begin" => gstep' = 0
      BY <2>1
    <3>2. \A role \in Roles, r \in Ranks : weights'[role][r] = Pretrained
      BY <1>1 DEF Start, FreshProcess
    <3>3. pc' = "begin" => \A role \in Roles : Holds(role, gstep, 0)'
      BY <3>1, <3>2 DEF Holds, StampAt
    <3>4. QED
      BY <1>t, <2>1, <3>3 DEF Lineage
  <2>6. OnDisk'
    BY <2>1 DEF OnDisk, SavedRole
  <2>7. QED
    BY <2>2, <2>3, <2>4, <2>5, <2>6
<1>2. CASE StartFails
  <2>1. pc' = "failed" /\ tracker' = Torn
    BY <1>2 DEF StartFails
  <2>2. QED
    BY <2>1 DEF TrackedIsWhole, TrackerOrder, PathsOrder, Lineage, OnDisk,
       SavedRole, Steps
<1>3. CASE Load
  <2>1. TrackedIsWhole' /\ PathsOrder' /\ OnDisk'
    BY <1>3, QuietStep DEF Load
  <2>2. TrackerOrder'
    BY <1>3 DEF Load, TrackerOrder
  <2>3. Lineage'
    <3>1. gstep \in Steps /\ gstep = tracker
      BY <1>0, <1>3 DEF Load, TypeOK, StepBound, TrackerOrder
    <3>2. PICK k \in 0 .. run : \A role \in Roles, r \in Ranks :
                shards[role][gstep][r] = StampAt(role, gstep, k)
      BY <3>1 DEF TrackedIsWhole, OfOneSave
    <3>3. CASE pc' = "begin"
      <4>1. weights' = [role \in Roles |-> shards[role][gstep]]
        BY <1>3, <3>3 DEF Load
      <4>2. \A role \in Roles : Holds(role, gstep, k)'
        BY <1>3, <3>2, <4>1 DEF Holds, Load, StampAt
      <4>3. QED
        BY <1>3, <3>3, <4>2 DEF Lineage, Load
    <3>4. CASE pc' = "failed"
      BY <3>4 DEF Lineage
    <3>5. QED
      BY <1>3, <3>3, <3>4 DEF Load
  <2>4. QED
    BY <2>1, <2>2, <2>3
<1>4. CASE Begin
  <2>1. TrackedIsWhole' /\ OnDisk'
    BY <1>4 DEF Begin, TrackedIsWhole, OfOneSave, OnDisk, SavedRole
  <2>2. TrackerOrder' /\ PathsOrder'
    BY <1>0, <1>4 DEF Begin, TrackerOrder, PathsOrder, SavedRole, TypeOK, Steps
  <2>3. Lineage'
    <3>1. PICK k \in 0 .. run : \A role \in Roles : Holds(role, gstep, k)
      BY <1>4 DEF Begin, Lineage
    <3>2. gstep' - 1 = gstep
      BY <1>4, <1>t DEF Begin
    <3>3. \A role \in Roles : Holds(role, gstep - 1, k)'
      BY <1>4, <3>1, <3>2 DEF Begin, Holds
    <3>4. QED
      BY <1>4, <3>3 DEF Begin, Lineage
  <2>4. QED
    BY <2>1, <2>2, <2>3
<1>5. CASE NextBatch \/ NextEpoch \/ Exhausted
  <2>1. TrackedIsWhole' /\ PathsOrder' /\ OnDisk'
    BY <1>5, QuietStep DEF NextBatch, NextEpoch, Exhausted
  <2>2. TrackerOrder'
    BY <1>5 DEF NextBatch, NextEpoch, Exhausted, TrackerOrder
  <2>3. Lineage'
    BY <1>5 DEF NextBatch, NextEpoch, Exhausted, Lineage, Holds
  <2>4. QED
    BY <2>1, <2>2, <2>3
<1>6. CASE OldLogProb
  <2>1. TrackedIsWhole' /\ PathsOrder' /\ OnDisk'
    BY <1>6, QuietStep DEF OldLogProb
  <2>2. TrackerOrder'
    BY <1>6 DEF OldLogProb, TrackerOrder
  <2>3. Lineage'
    BY <1>6 DEF OldLogProb, Lineage, Holds
  <2>4. QED
    BY <2>1, <2>2, <2>3
<1>7. CASE UpdateCritic
  <2>1. TrackedIsWhole' /\ PathsOrder' /\ OnDisk'
    BY <1>7, QuietStep DEF UpdateCritic
  <2>2. TrackerOrder'
    BY <1>7 DEF UpdateCritic, TrackerOrder
  <2>3. Lineage'
    <3>1. PICK k \in 0 .. run : \A role \in Roles : Holds(role, gstep - 1, k)
      BY <1>7 DEF UpdateCritic, Lineage
    <3>2. Holds("actor", gstep - 1, k)'
      BY <1>0, <1>7, <3>1 DEF UpdateCritic, Holds, TypeOK
    <3>3. UseCritic => Holds("critic", gstep, run)'
      <4>1. gstep \in Steps
        BY <1>0, <1>7 DEF UpdateCritic, TypeOK, StepBound, PCs
      <4>2. UseCritic => \A r \in Ranks :
                           weights'["critic"][r] = [run |-> run, step |-> gstep]
        BY <1>0, <1>7 DEF UpdateCritic, TypeOK
      <4>3. QED
        BY <1>7, <4>1, <4>2, StampAtNext DEF UpdateCritic, Holds
    <3>4. QED
      BY <1>7, <3>2, <3>3 DEF UpdateCritic, Lineage
  <2>4. QED
    BY <2>1, <2>2, <2>3
<1>8. CASE UpdateActor
  <2>1. TrackedIsWhole'
    BY <1>8 DEF UpdateActor, TrackedIsWhole, OfOneSave
  <2>2. TrackerOrder' /\ PathsOrder'
    BY <1>0, <1>8 DEF UpdateActor, TrackerOrder, PathsOrder, SavedRole, TypeOK, Steps
  <2>3. Lineage'
    <3>1. gstep \in Steps
      BY <1>0, <1>8 DEF UpdateActor, TypeOK, StepBound, PCs
    <3>2. PICK k \in 0 .. run : Holds("actor", gstep - 1, k)
      BY <1>8 DEF UpdateActor, Lineage
    <3>3. Holds("actor", gstep, run)'
      <4>1. CASE CriticWarmup <= gstep
        <5>1. \A r \in Ranks : weights'["actor"][r] = [run |-> run, step |-> gstep]
          BY <1>0, <1>8, <4>1 DEF UpdateActor, TypeOK
        <5>2. QED
          BY <1>8, <3>1, <4>1, <5>1, StampAtNext DEF UpdateActor, Holds
      <4>2. CASE ~(CriticWarmup <= gstep)
        BY <1>8, <3>1, <3>2, <4>2, StampAtNext DEF UpdateActor, Holds
      <4>3. QED
        BY <4>1, <4>2
    <3>4. UseCritic => Holds("critic", gstep, run)'
      <4>1. UseCritic => Holds("critic", gstep, run)
        BY <1>8 DEF UpdateActor, Lineage
      <4>2. UseCritic => weights'["critic"] = weights["critic"]
        BY <1>0, <1>8 DEF UpdateActor, TypeOK
      <4>3. QED
        BY <1>8, <4>1, <4>2 DEF UpdateActor, Holds
    <3>5. \A role \in Roles : Holds(role, gstep, run)'
      BY <3>3, <3>4 DEF Roles
    <3>6. QED
      BY <1>8, <3>5 DEF UpdateActor, Lineage
  <2>4. OnDisk'
    BY <1>8 DEF UpdateActor, OnDisk, SavedRole
  <2>5. QED
    BY <2>1, <2>2, <2>3, <2>4
<1>9. CASE Advance
  <2>1. TrackedIsWhole' /\ OnDisk'
    BY <1>9 DEF Advance, TrackedIsWhole, OfOneSave, OnDisk, SavedRole
  <2>2. TrackerOrder'
    BY <1>t, <1>9 DEF Advance, TrackerOrder
  <2>3. PathsOrder'
    BY <1>0, <1>t, <1>9 DEF Advance, PathsOrder, SavedRole, TrackerOrder, TypeOK, Steps
  <2>4. Lineage'
    <3>1. \A role \in Roles : Holds(role, gstep, run)
      BY <1>9 DEF Advance, Lineage
    <3>2. pc' = "fetch" => \A role \in Roles : Holds(role, gstep - 1, run)'
      BY <1>9, <1>t, <3>1 DEF Advance, Holds
    <3>3. QED
      BY <1>9, <1>t, <3>2 DEF Advance, Lineage
  <2>5. QED
    BY <2>1, <2>2, <2>3, <2>4
<1>10. ASSUME NEW r \in Ranks, Prune(r)
       PROVE  Parts'
  <2>1. tracker \notin Surplus(Saver, r) /\ gstep \notin Surplus(Saver, r)
    BY <1>0, <1>10, PruneSparesTracked
  <2>2. Saver \in Roles
    BY <1>10, SaverIsRole DEF Prune
  <2>3. /\ tracker \in Steps => \A role \in Roles : shards'[role][tracker] = shards[role][tracker]
        /\ gstep \in Steps => \A role \in Roles : shards'[role][gstep] = shards[role][gstep]
    BY <1>0, <1>10, <2>1, <2>2 DEF Prune, TypeOK
  <2>4. TrackedIsWhole'
    BY <1>10, <2>3 DEF Prune, TrackedIsWhole, OfOneSave
  <2>5. TrackerOrder'
    BY <1>10 DEF Prune, TrackerOrder
  <2>6. PathsOrder'
    <3>1. \A role \in Roles, q \in Ranks : paths'[role][q] \subseteq paths[role][q]
      BY <1>0, <1>10, <2>2 DEF Prune, TypeOK
    <3>2. QED
      BY <1>10, <3>1 DEF Prune, PathsOrder, SavedRole
  <2>7. Lineage'
    BY <1>10 DEF Prune, Lineage, Holds
  <2>8. OnDisk'
    <3>1. gstep \in Steps
      BY <1>0, <1>10 DEF Prune, TypeOK, StepBound, PCs
    <3>2. \A q \in Ranks : rank'[q] = "sync" => rank[q] = "sync"
      BY <1>0, <1>10 DEF Prune, TypeOK
    <3>3. QED
      BY <1>10, <2>2, <2>3, <3>1, <3>2 DEF Prune, OnDisk, SavedRole, Saver
  <2>9. QED
    BY <2>4, <2>5, <2>6, <2>7, <2>8
<1>11. CASE DirBarrier
  <2>1. TrackedIsWhole' /\ TrackerOrder' /\ PathsOrder'
    BY <1>11 DEF DirBarrier, TrackedIsWhole, OfOneSave, TrackerOrder, PathsOrder, SavedRole
  <2>2. Lineage'
    BY <1>11 DEF DirBarrier, Lineage, Holds
  <2>3. OnDisk'
    <3>1. \A r \in Ranks : rank'[r] # "sync"
      BY <1>11 DEF DirBarrier
    <3>2. QED
      BY <1>11, <3>1 DEF DirBarrier, OnDisk, SavedRole
  <2>4. QED
    BY <2>1, <2>2, <2>3
<1>12. ASSUME NEW r \in Ranks, OpenShard(r) \/ WriteShard(r)
       PROVE  Parts'
  <2>1. Saver \in Roles /\ gstep \in Steps /\ ~SavedRole(Saver)
    BY <1>0, <1>12, SaverIsRole
       DEF OpenShard, WriteShard, TypeOK, StepBound, PCs, SavedRole, Saver
  <2>2. tracker < gstep
    BY <1>12 DEF OpenShard, WriteShard, TrackerOrder
  <2>3. \A role \in Roles, n \in Steps, q \in Ranks :
          role # Saver \/ n # gstep \/ q # r =>
            shards'[role][n][q] = shards[role][n][q]
    BY <1>0, <1>12, <2>1 DEF OpenShard, WriteShard, TypeOK
  <2>4. TrackedIsWhole'
    BY <1>12, <1>t, <2>2, <2>3 DEF OpenShard, WriteShard, TrackedIsWhole, OfOneSave
  <2>5. TrackerOrder' /\ PathsOrder'
    BY <1>12 DEF OpenShard, WriteShard, TrackerOrder, PathsOrder, SavedRole
  <2>6. Lineage'
    BY <1>12 DEF OpenShard, WriteShard, Lineage, Holds
  <2>7. OnDisk'
    <3>1. \A q \in Ranks : q # r => rank'[q] = rank[q]
      BY <1>0, <1>12 DEF OpenShard, WriteShard, TypeOK
    <3>2. rank'[r] = "sync" => shards'[Saver][gstep][r] = StampAt(Saver, gstep, run)
      <4>1. CASE OpenShard(r)
        BY <1>0, <4>1 DEF OpenShard, TypeOK
      <4>2. CASE WriteShard(r)
        <5>1. shards'[Saver][gstep][r] = weights[Saver][r]
          BY <1>0, <2>1, <4>2 DEF WriteShard, TypeOK
        <5>2. QED
          BY <2>1, <4>2, <5>1 DEF WriteShard, Lineage, Holds
      <4>3. QED
        BY <1>12, <4>1, <4>2
    <3>3. \A q \in Ranks : pc' \in Saving /\ rank'[q] = "sync" =>
            shards'[Saver][gstep][q] = StampAt(Saver, gstep, run)
      <4> SUFFICES ASSUME NEW q \in Ranks, pc' \in Saving, rank'[q] = "sync", q # r
                   PROVE  shards'[Saver][gstep][q] = StampAt(Saver, gstep, run)
        BY <3>2
      <4>1. pc \in Saving /\ rank[q] = "sync"
        BY <1>12, <3>1 DEF OpenShard, WriteShard
      <4>2. shards[Saver][gstep][q] = StampAt(Saver, gstep, run)
        BY <4>1 DEF OnDisk
      <4>3. QED
        BY <2>1, <2>3, <4>2
    <3>4. \A role \in Roles, q \in Ranks : SavedRole(role) =>
            shards'[role][gstep][q] = StampAt(role, gstep, run)
      BY <2>1, <2>3 DEF OnDisk
    <3>5. pc' = pc /\ gstep' = gstep /\ run' = run
      BY <1>12 DEF OpenShard, WriteShard
    <3>6. QED
      BY <3>3, <3>4, <3>5 DEF OnDisk, SavedRole, Saver
  <2>8. QED
    BY <2>4, <2>5, <2>6, <2>7
<1>13. CASE SaveBarrier
  <2>1. Saver \in Roles /\ gstep \in Steps
    BY <1>0, <1>13, SaverIsRole DEF SaveBarrier, TypeOK, StepBound, PCs
  <2>2. TrackedIsWhole'
    BY <1>13 DEF SaveBarrier, TrackedIsWhole, OfOneSave
  <2>3. TrackerOrder'
    BY <1>13 DEF SaveBarrier, TrackerOrder
  <2>4. \A role \in Roles : role = Saver \/ SavedRole(role) => SavedRole(role)'
    BY <1>13, <2>1 DEF SaveBarrier, SavedRole, Saver, Roles
  <2>5. PathsOrder'
    <3>1. \A role \in Roles, q \in Ranks : \A n \in paths'[role][q] :
             n \in paths[role][q] \/ (n = gstep /\ role = Saver)
      BY <1>0, <1>13, <2>1 DEF SaveBarrier, TypeOK
    <3>2. QED
      BY <1>13, <2>4, <3>1 DEF SaveBarrier, PathsOrder
  <2>6. Lineage'
    BY <1>13 DEF SaveBarrier, Lineage, Holds
  <2>7. OnDisk'
    <3>1. \A q \in Ranks : shards[Saver][gstep][q] = StampAt(Saver, gstep, run)
      BY <1>13 DEF SaveBarrier, OnDisk
    <3>2. \A role \in Roles : SavedRole(role)' => role = Saver \/ SavedRole(role)
      BY <1>13 DEF SaveBarrier, SavedRole, Saver, Roles
    <3>3. \A q \in Ranks : pc' \in Saving => rank'[q] = "prune"
      BY <1>13 DEF SaveBarrier
    <3>4. QED
      BY <1>13, <3>1, <3>2, <3>3 DEF SaveBarrier, OnDisk
  <2>8. QED
    BY <2>2, <2>3, <2>5, <2>6, <2>7
<1>14. CASE OpenData \/ WriteData
  BY <1>14 DEF OpenData, WriteData, TrackedIsWhole, OfOneSave, TrackerOrder,
       PathsOrder, SavedRole, Lineage, Holds, OnDisk
<1>15. CASE OpenTracker
  <2>1. gstep > 0 /\ tracker \in Int /\ tracker # Torn /\ tracker' = Torn
    BY <1>0, <1>t, <1>15 DEF OpenTracker, StepBound, TrackerOrder, PCs
  <2>2. PathsOrder'
    BY <1>0, <1>t, <1>15, <2>1 DEF OpenTracker, PathsOrder, SavedRole, TrackerOrder, TypeOK, Steps
  <2>3. TrackedIsWhole' /\ TrackerOrder'
    BY <1>15, <2>1 DEF OpenTracker, TrackedIsWhole, TrackerOrder, Steps
  <2>4. Lineage' /\ OnDisk'
    BY <1>15 DEF OpenTracker, Lineage, Holds, OnDisk, SavedRole
  <2>5. QED
    BY <2>2, <2>3, <2>4
<1>16. CASE WriteTracker
  <2>1. TrackedIsWhole'
    <3>1. \A role \in Roles, r \in Ranks :
            shards'[role][gstep][r] = StampAt(role, gstep, run)
      BY <1>16 DEF WriteTracker, OnDisk, SavedRole
    <3>2. run \in 0 .. run
      BY <1>t
    <3>3. QED
      BY <1>16, <3>1, <3>2 DEF WriteTracker, TrackedIsWhole, OfOneSave
  <2>2. TrackerOrder'
    BY <1>0, <1>t, <1>16 DEF WriteTracker, TrackerOrder, StepBound, PCs
  <2>3. PathsOrder'
    <3>1. \A role \in Roles, r \in Ranks : \A n \in paths[role][r] : n <= gstep
      BY <1>0, <1>t, <1>16 DEF WriteTracker, PathsOrder, TypeOK, StepBound, PCs, Steps, TrackerOrder
    <3>2. QED
      BY <1>16, <3>1 DEF WriteTracker, PathsOrder
  <2>4. Lineage' /\ OnDisk'
    BY <1>16 DEF WriteTracker, Lineage, Holds, OnDisk, SavedRole
  <2>5. QED
    BY <2>1, <2>2, <2>3, <2>4
<1>17. CASE Crash
  BY <1>17 DEF Crash, TrackedIsWhole, OfOneSave, TrackerOrder, PathsOrder, Lineage,
       OnDisk, SavedRole
<1>18. CASE UNCHANGED vars
  BY <1>18 DEF vars, TrackedIsWhole, OfOneSave, TrackerOrder, PathsOrder, Lineage,
       Holds, OnDisk, SavedRole, Saver
<1>19. QED
  BY <1>1, <1>2, <1>3, <1>4, <1>5, <1>6, <1>7, <1>8, <1>9, <1>10, <1>11, <1>12, <1>13,
     <1>14, <1>15, <1>16, <1>17, <1>18 DEF Next, Train, Save

\* The resume invariant holds throughout, if jobs resume automatically and no role
\* keeps exactly one checkpoint.
THEOREM RInvHolds == ASSUME ResumesSafely PROVE Spec => [](TInv /\ RInv)
<1>1. Init => TInv /\ RInv
  BY InitTInv, InitRInv
<1>2. TInv /\ RInv /\ [Next]_vars => TInv' /\ RInv'
  BY NextTInv, NextRInv
<1>3. QED
  BY <1>1, <1>2, PTL DEF Spec

\* The checkpoint the tracker names is whole, at any moment and after any number
\* of crashes: every rank of every role has its shard of one and the same save.
THEOREM TrackedCheckpointIsWhole ==
  ASSUME ResumesSafely PROVE Spec => []TrackedIsWhole
<1>1. RInv => TrackedIsWhole
  BY DEF RInv
<1>2. QED
  BY RInvHolds, <1>1, PTL

\* Every optimizer step is made by all ranks of all roles on the result of its
\* predecessor, whichever run made that.
THEOREM EachStepOnPredecessor ==
  ASSUME ResumesSafely PROVE Spec => []StepsOnPredecessor
<1>1. RInv => StepsOnPredecessor
  BY DEF RInv, Lineage, Holds, StepsOnPredecessor
<1>2. QED
  BY RInvHolds, <1>1, PTL

-----------------------------------------------------------------------------
(***************************************************************************)
(* The trainer implements ResumePoint                                      *)
(***************************************************************************)

\* A job that was never started has promised nothing.
LEMMA InitPromise == Init => Promise!Init
BY DEF Init, Promise!Init, Completed, Stopped, Absent

\* Every step of the trainer is one of the promise, or changes nothing it speaks of.
LEMMA NextPromise ==
  ASSUME ResumesSafely, TInv, RInv, [Next]_vars
  PROVE  [Promise!Next]_(Promise!vars)
<1> USE ConstantsAssumption DEF Torn, Absent, Stopped, Saving, disk, Promise!vars
<1>0. /\ TrackerOrder /\ pc \in PCs
      /\ tracker \in Int /\ gstep \in Nat
  BY DEF TInv, RInv, TypeOK, Steps
<1>s. pc \notin Stopped \cup {"load"} => Completed # Torn /\ Completed \in Int
  BY <1>0 DEF TInv, StepBound, Completed, PCs
<1>1. CASE Start
  <2>1. tracker # Torn /\ tracker' = tracker /\ Completed = Torn
    BY <1>1 DEF Start, ResumesFrom, ResumesSafely, Completed
  <2>2. CASE tracker = 0
    <3>1. pc' = "begin" /\ gstep' = 0
      BY <1>1, <2>2 DEF Start, ResumesFrom, ResumesSafely
    <3>2. Completed' = tracker
      BY <2>2, <3>1 DEF Completed
    <3>3. QED
      BY <2>1, <3>2 DEF Promise!Next, Promise!Resume
  <2>3. CASE tracker # 0
    <3>1. pc' = "load"
      BY <1>1, <2>3 DEF Start, ResumesFrom, ResumesSafely
    <3>2. Completed' = Torn
      BY <3>1 DEF Completed
    <3>3. QED
      BY <2>1, <3>2
  <2>4. QED
    BY <2>2, <2>3
<1>2. CASE StartFails
  BY <1>2 DEF StartFails, Completed
<1>3. CASE Load
  <2>1. Completed = Torn /\ tracker = gstep /\ tracker # Torn /\ tracker' = tracker
        /\ gstep' = gstep
    BY <1>0, <1>3 DEF Load, TrackerOrder, Completed
  <2>2. pc' = "begin" => Completed' = gstep
    BY <2>1 DEF Completed
  <2>3. pc' = "failed" => Completed' = Torn
    BY DEF Completed
  <2>4. QED
    BY <1>3, <2>1, <2>2, <2>3 DEF Load, Promise!Next, Promise!Resume
<1>4. CASE Begin
  BY <1>0, <1>4 DEF Begin, Completed
<1>5. CASE NextBatch \/ NextEpoch \/ UpdateCritic
  BY <1>5 DEF NextBatch, NextEpoch, UpdateCritic, Completed
<1>6. CASE Exhausted \/ OldLogProb
  <2>1. tracker' = tracker /\ Completed # Torn /\ Completed' \in {Torn, Completed}
    BY <1>s, <1>6 DEF Exhausted, OldLogProb, Completed
  <2>2. QED
    BY <2>1 DEF Promise!Next, Promise!Stop
<1>7. CASE UpdateActor
  <2>1. tracker' = tracker /\ Completed # Torn /\ Completed = gstep - 1
    BY <1>s, <1>7 DEF UpdateActor, Completed
  <2>2. Completed' = gstep
    BY <1>7 DEF UpdateActor, Completed
  <2>3. QED
    BY <1>0, <2>1, <2>2 DEF Promise!Next, Promise!Step
<1>8. CASE Advance
  <2>1. tracker' = tracker /\ Completed # Torn /\ Completed = gstep
    BY <1>s, <1>8 DEF Advance, Completed
  <2>2. Completed' \in {Torn, gstep}
    BY <1>0, <1>8 DEF Advance, Completed
  <2>3. QED
    BY <2>1, <2>2 DEF Promise!Next, Promise!Stop
<1>9. CASE OpenTracker
  <2>1. Completed # Torn /\ Completed = gstep /\ Completed' = gstep
    BY <1>s, <1>9 DEF OpenTracker, Completed
  <2>2. tracker < gstep /\ tracker # Torn /\ tracker' = Torn
    BY <1>0, <1>9 DEF OpenTracker, TrackerOrder
  <2>3. QED
    BY <2>1, <2>2 DEF Promise!Next, Promise!BeginSave
<1>10. CASE WriteTracker
  <2>1. Completed # Torn /\ Completed = gstep /\ Completed' = gstep
    BY <1>s, <1>10 DEF WriteTracker, Completed
  <2>2. tracker = Torn /\ tracker' = gstep
    BY <1>0, <1>10 DEF WriteTracker, TrackerOrder
  <2>3. QED
    BY <2>1, <2>2 DEF Promise!Next, Promise!EndSave
<1>11. ASSUME NEW r \in Ranks, Prune(r) \/ OpenShard(r) \/ WriteShard(r)
       PROVE  UNCHANGED Promise!vars
  BY <1>11 DEF Prune, OpenShard, WriteShard, driver, Completed
<1>12. CASE DirBarrier \/ OpenData \/ WriteData \/ SaveBarrier
  BY <1>12 DEF DirBarrier, OpenData, WriteData, SaveBarrier, driver, Completed
<1>13. CASE Crash
  <2>1. tracker' = tracker /\ Completed' = Torn
    BY <1>13 DEF Crash, Completed
  <2>2. QED
    BY <2>1 DEF Promise!Next, Promise!Stop
<1>14. CASE UNCHANGED vars
  BY <1>14 DEF vars, driver, Completed
<1>15. QED
  BY <1>1, <1>2, <1>3, <1>4, <1>5, <1>6, <1>7, <1>8, <1>9, <1>10, <1>11, <1>12,
     <1>13, <1>14 DEF Next, Train, Save

\* The trainer keeps the promise of ResumePoint: the count of steps never jumps,
\* repeats or falls back behind what the tracker says.
THEOREM TrainLoopKeepsPromise ==
  ASSUME ResumesSafely PROVE Spec => KeepsPromise
<1>1. TInv /\ RInv /\ [Next]_vars => [Promise!Next]_(Promise!vars)
  BY NextPromise
<1>2. QED
  BY RInvHolds, InitPromise, <1>1, PTL DEF Spec, KeepsPromise, Promise!Spec

(***************************************************************************)
(* The data, and the end of a job                                          *)
(***************************************************************************)

-----------------------------------------------------------------------------
\* The position in an epoch

\* Within the first epoch the position is the number of batches taken.
LEMMA ModBelow ==
  ASSUME NEW c \in Nat, c < EpochLen
  PROVE  c % EpochLen = c
<1> DEFINE q == c \div EpochLen
           m == c % EpochLen
<1>1. EpochLen \in Nat /\ EpochLen > 0
  BY ConstantsAssumption
<1>2. c = EpochLen * q + m /\ 0 <= m /\ m < EpochLen /\ q \in Int
  BY <1>1
<1> HIDE DEF q, m
<1>3. m \in Int
  BY <1>1 DEF m
<1>4. CASE q = 0
  BY <1>1, <1>2, <1>4 DEF m
<1>5. CASE q > 0
  BY <1>1, <1>2, <1>3, <1>5
<1>6. CASE q < 0
  BY <1>1, <1>2, <1>3, <1>6
<1> QED
  BY <1>2, <1>4, <1>5, <1>6

\* The next batch after n % EpochLen is the next step's, also across an epoch's end.
LEMMA CursorAtMod ==
  ASSUME NEW n \in Nat
  PROVE  CursorAt(n) \in Nat /\ CursorAt(n) % EpochLen = n % EpochLen
<1> USE ConstantsAssumption
<1>1. CASE n = 0
  BY <1>1 DEF CursorAt
<1>2. CASE n > 0
  <2> DEFINE q == (n - 1) \div EpochLen
             m == (n - 1) % EpochLen
  <2>1. /\ n - 1 = EpochLen * q + m /\ m \in Nat /\ m < EpochLen /\ q \in Int
        /\ EpochLen \in Nat /\ EpochLen > 0
    BY <1>2
  <2>2. CursorAt(n) = m + 1
    BY <1>2 DEF CursorAt
  <2> HIDE DEF q, m
  <2>3. n = EpochLen * q + (m + 1)
    BY <1>2, <2>1
  <2> DEFINE p == n \div EpochLen
             s == n % EpochLen
  <2>4. n = EpochLen * p + s /\ s \in Nat /\ s < EpochLen /\ p \in Int
    BY <2>1
  <2> HIDE DEF p, s
  <2>5. CASE m + 1 < EpochLen
    <3>1. s = m + 1
      <4>1. CASE p = q
        BY <2>1, <2>3, <2>4, <4>1
      <4>2. CASE p > q
        BY <2>1, <2>3, <2>4, <2>5, <4>2
      <4>3. CASE p < q
        BY <2>1, <2>3, <2>4, <4>3
      <4> QED
        BY <2>1, <2>4, <4>1, <4>2, <4>3
    <3>2. (m + 1) % EpochLen = m + 1
      BY <2>1, <2>5, ModBelow
    <3> QED
      BY <2>1, <2>2, <3>1, <3>2 DEF s
  <2>6. CASE m + 1 = EpochLen
    <3>1. n = EpochLen * (q + 1)
      BY <2>1, <2>3, <2>6
    <3>2. s = 0
      <4>1. CASE p = q + 1
        BY <2>1, <2>4, <3>1, <4>1
      <4>2. CASE p > q + 1
        BY <2>1, <2>4, <3>1, <4>2
      <4>3. CASE p < q + 1
        BY <2>1, <2>4, <3>1, <4>3
      <4> QED
        BY <2>1, <2>4, <4>1, <4>2, <4>3
    <3>3. EpochLen % EpochLen = 0
      BY <2>1
    <3> QED
      BY <2>1, <2>2, <2>6, <3>2, <3>3 DEF s
  <2> QED
    BY <2>1, <2>5, <2>6
<1> QED
  BY <1>1, <1>2

-----------------------------------------------------------------------------
\* Memory and checkpoint

InIteration ==
  Saving \cup {"old_log_prob", "update_critic", "update_actor", "open_data", "write_data",
               "open_tracker", "write_tracker", "advance"}

\* Where the dataloader is at each point of an iteration, and in data.pt.
DInv ==
  /\ tracker \in Steps => data[tracker] = CursorAt(tracker)
  /\ pc = "begin" => cursor % EpochLen = gstep % EpochLen
  /\ pc = "fetch" => cursor % EpochLen = (gstep - 1) % EpochLen
  /\ pc \in InIteration => cursor = CursorAt(gstep)
  /\ pc \in {"open_tracker", "write_tracker"} => data[gstep] = CursorAt(gstep)

\* In the beginning no batch has been taken.
LEMMA InitDInv == Init => DInv
BY DEF Init, DInv, Absent, Steps, InIteration, Saving

\* Every step, crashes and starts included, keeps them together.
LEMMA NextDInv ==
  ASSUME ResumesSafely, TInv, TInv', RInv, DInv, [Next]_vars
  PROVE  DInv'
<1> USE ConstantsAssumption DEF disk, driver, workers
<1>0. /\ TypeOK /\ StepBound /\ TrackerOrder /\ gstep \in {0} \cup Steps /\ cursor \in 0 .. EpochLen
      /\ data \in [Steps -> {Absent, Torn} \cup 1 .. EpochLen] /\ gstep \in Nat
      /\ EpochLen \in Nat /\ EpochLen > 0
  BY DEF TInv, RInv, TypeOK, Steps
<1>t. pc \in PCs
  BY <1>0 DEF TypeOK
<1> USE DEF InIteration, Saving, Stopped, PCs
\* Steps that leave data.pt, the tracker, the cursor and the step as they are.
<1>q. ASSUME UNCHANGED <<data, tracker, cursor, gstep>>,
             pc' = pc \/ pc' \in Stopped \/ (pc' \in InIteration /\ pc \in InIteration),
             pc' \in {"open_tracker", "write_tracker"} => pc \in {"open_tracker", "write_tracker"}
      PROVE  DInv'
  BY <1>q DEF DInv, CursorAt
<1>1. CASE Start
  <2>1. tracker # Torn /\ gstep' = tracker
        /\ pc' = IF tracker = 0 THEN "begin" ELSE "load"
    BY <1>1 DEF Start, ResumesFrom, ResumesSafely
  <2>2. cursor' = 0 /\ UNCHANGED <<data, tracker>>
    BY <1>1 DEF Start, FreshProcess
  <2> QED
    BY <2>1, <2>2 DEF DInv, CursorAt
<1>2. CASE StartFails
  BY <1>2 DEF StartFails, DInv, CursorAt
<1>3. CASE Load
  <2>1. gstep \in Steps /\ gstep = tracker
    BY <1>0, <1>3 DEF Load, StepBound, TrackerOrder
  <2>2. UNCHANGED <<data, tracker, gstep>>
    BY <1>3 DEF Load
  <2>3. CASE pc' = "failed"
    BY <2>2, <2>3 DEF DInv, CursorAt
  <2>4. CASE pc' = "begin" /\ cursor' = data[gstep]
    <3>1. cursor' = CursorAt(gstep)
      BY <2>1, <2>4 DEF DInv
    <3>2. cursor' % EpochLen = gstep % EpochLen
      BY <1>0, <3>1, CursorAtMod
    <3> QED
      BY <2>2, <2>4, <3>2 DEF DInv, CursorAt
  <2> QED
    BY <1>3, <2>3, <2>4 DEF Load
<1>4. CASE Begin
  <2>1. gstep' = gstep + 1 /\ UNCHANGED <<data, tracker, cursor>> /\ pc' = "fetch"
    BY <1>4 DEF Begin
  <2>2. gstep' - 1 = gstep /\ cursor % EpochLen = gstep % EpochLen
    BY <1>0, <1>4, <2>1 DEF Begin, DInv
  <2> QED
    BY <2>1, <2>2 DEF DInv, CursorAt
<1>5. CASE NextBatch
  <2>1. cursor' = cursor + 1 /\ pc' = "old_log_prob" /\ UNCHANGED <<data, tracker, gstep>>
    BY <1>5 DEF NextBatch
  <2>2. cursor \in Nat /\ cursor < EpochLen /\ gstep > 0
    BY <1>0, <1>5 DEF NextBatch, StepBound
  <2>3. cursor = (gstep - 1) % EpochLen
    <3>1. cursor % EpochLen = cursor
      BY <2>2, ModBelow
    <3> QED
      BY <1>5, <3>1 DEF NextBatch, DInv
  <2>4. cursor' = CursorAt(gstep)
    BY <2>1, <2>2, <2>3 DEF CursorAt
  <2> QED
    BY <2>1, <2>4 DEF DInv, CursorAt
<1>6. CASE NextEpoch
  <2>1. /\ pc = "fetch" /\ cursor = EpochLen /\ cursor' = 0
        /\ UNCHANGED <<data, tracker, gstep, pc>>
    BY <1>6 DEF NextEpoch
  <2>2. cursor % EpochLen = 0 /\ cursor' % EpochLen = 0
    BY <1>0, <2>1
  <2> QED
    BY <2>1, <2>2 DEF DInv, CursorAt
<1>7. CASE Exhausted \/ OldLogProb \/ UpdateCritic \/ UpdateActor
  BY <1>7, <1>q DEF Exhausted, OldLogProb, UpdateCritic, UpdateActor
<1>8. CASE Advance
  <2>1. UNCHANGED <<data, tracker, cursor>> /\ pc = "advance"
    BY <1>8 DEF Advance
  <2>2. CASE pc' = "finished"
    BY <2>1, <2>2 DEF DInv, CursorAt
  <2>3. CASE pc' = "fetch" /\ gstep' = gstep + 1
    <3>1. cursor = CursorAt(gstep)
      BY <2>1 DEF DInv
    <3>2. cursor % EpochLen = gstep % EpochLen /\ gstep' - 1 = gstep
      BY <1>0, <2>3, <3>1, CursorAtMod
    <3> QED
      BY <2>1, <2>3, <3>2 DEF DInv, CursorAt
  <2> QED
    BY <1>8, <2>2, <2>3 DEF Advance
<1>9. ASSUME NEW r \in Ranks, Prune(r) \/ OpenShard(r) \/ WriteShard(r) PROVE DInv'
  BY <1>9, <1>q DEF Prune, OpenShard, WriteShard
<1>10. CASE DirBarrier \/ SaveBarrier
  <2>1. UNCHANGED <<data, tracker, cursor, gstep>>
    BY <1>10 DEF DirBarrier, SaveBarrier
  <2>2. pc \in Saving /\ pc' \in Saving \cup {"open_data"}
    BY <1>10 DEF DirBarrier, SaveBarrier
  <2> QED
    BY <1>q, <2>1, <2>2
<1>11. CASE OpenData
  <2>1. /\ data' = [data EXCEPT ![gstep] = Torn] /\ pc = "open_data" /\ pc' = "write_data"
        /\ UNCHANGED <<tracker, gstep, cursor>>
    BY <1>11 DEF OpenData
  <2>2. tracker \in Steps => tracker # gstep
    BY <1>0, <2>1 DEF TrackerOrder, Steps
  <2>3. tracker \in Steps => data'[tracker] = data[tracker]
    BY <1>0, <2>1, <2>2
  <2> QED
    BY <2>1, <2>3 DEF DInv, CursorAt
<1>12. CASE WriteData
  <2>1. /\ data' = [data EXCEPT ![gstep] = cursor] /\ pc = "write_data" /\ pc' = "open_tracker"
        /\ UNCHANGED <<tracker, gstep, cursor>>
    BY <1>12 DEF WriteData
  <2>2. (tracker \in Steps => tracker # gstep) /\ gstep \in Steps
    BY <1>0, <2>1 DEF TrackerOrder, Steps, StepBound
  <2>3. (tracker \in Steps => data'[tracker] = data[tracker]) /\ data'[gstep] = cursor
    BY <1>0, <2>1, <2>2
  <2> QED
    BY <2>1, <2>3 DEF DInv, CursorAt
<1>13. CASE OpenTracker
  <2>1. tracker' = Torn /\ pc = "open_tracker" /\ pc' = "write_tracker" /\ UNCHANGED <<data, gstep, cursor>>
    BY <1>13 DEF OpenTracker
  <2>2. Torn \notin Steps
    BY DEF Torn, Steps
  <2> QED
    BY <2>1, <2>2 DEF DInv, CursorAt
<1>14. CASE WriteTracker
  <2>1. tracker' = gstep /\ pc = "write_tracker" /\ pc' = "advance" /\ UNCHANGED <<data, gstep, cursor>>
    BY <1>14 DEF WriteTracker
  <2> QED
    BY <2>1 DEF DInv, CursorAt
<1>15. CASE Crash
  <2>1. pc' = "down" /\ UNCHANGED <<data, tracker>>
    BY <1>15 DEF Crash
  <2> QED
    BY <2>1 DEF DInv, CursorAt
<1>16. CASE UNCHANGED vars
  <2>1. UNCHANGED <<data, tracker, cursor, gstep, pc>>
    BY <1>16 DEF vars
  <2> QED
    BY <1>q, <2>1
<1> QED
  BY <1>1, <1>2, <1>3, <1>4, <1>5, <1>6, <1>7, <1>8, <1>9, <1>10, <1>11, <1>12, <1>13, <1>14,
     <1>15, <1>16 DEF Next, Train, Save

\* A resumed job neither repeats nor skips a batch, however often it crashed and
\* whatever the lengths of the epochs and the steps between two checkpoints.
THEOREM DataStaysInStep ==
  ASSUME ResumesSafely PROVE Spec => []DataInStep
<1>1. Init => TInv /\ RInv /\ DInv
  BY InitTInv, InitRInv, InitDInv
<1>2. TInv /\ RInv /\ DInv /\ [Next]_vars => TInv' /\ RInv' /\ DInv'
  BY NextTInv, NextRInv, NextDInv
<1>3. DInv => DataInStep
  BY DEF DInv, DataInStep
<1> QED
  BY <1>1, <1>2, <1>3, PTL DEF Spec

-----------------------------------------------------------------------------
\* The last checkpoint

\* What is left to do before the end, after the save or without one.
FInv ==
  SaveFreq > 0 => /\ pc = "advance" /\ IsLastStep => tracker = gstep
                  /\ pc = "finished" => tracker = gstep

\* Every step keeps the last save before the end.
LEMMA NextFInv ==
  ASSUME FInv, [Next]_vars
  PROVE  FInv'
<1> USE DEF disk, driver, workers, IsLastStep, Stopped, Saving
<1>1. CASE UpdateActor
  <2>1. pc' = "advance" => ~(SaveFreq > 0 /\ IsLastStep)
    BY <1>1 DEF UpdateActor
  <2>2. pc' \in {"save_actor", "advance"} /\ UNCHANGED <<tracker, gstep>>
    BY <1>1 DEF UpdateActor
  <2> QED
    BY <2>1, <2>2 DEF FInv
<1>2. CASE Advance
  BY <1>2 DEF Advance, FInv
<1>3. CASE WriteTracker
  BY <1>3 DEF WriteTracker, FInv
<1>4. CASE Start \/ StartFails \/ Load \/ Begin \/ NextBatch \/ Exhausted \/ OldLogProb \/ UpdateCritic
           \/ OpenData \/ WriteData \/ OpenTracker \/ Crash \/ SaveBarrier
  <2>1. pc' \notin {"advance", "finished"}
    BY <1>4 DEF Start, StartFails, Load, Begin, NextBatch, Exhausted, OldLogProb, UpdateCritic,
                OpenData, WriteData, OpenTracker, Crash, SaveBarrier
  <2> QED
    BY <2>1 DEF FInv
<1>5. CASE NextEpoch \/ DirBarrier \/ (\E r \in Ranks : Prune(r) \/ OpenShard(r) \/ WriteShard(r))
  <2>1. UNCHANGED <<pc, tracker, gstep>>
    BY <1>5 DEF NextEpoch, DirBarrier, Prune, OpenShard, WriteShard
  <2> QED
    BY <2>1 DEF FInv
<1>6. CASE UNCHANGED vars
  BY <1>6 DEF vars, FInv
<1> QED
  BY <1>1, <1>2, <1>3, <1>4, <1>5, <1>6 DEF Next, Train, Save

\* A job that returns from its last step has a checkpoint of it, whichever steps
\* save_freq divides and however it was resumed.
THEOREM LastStepIsSaved == Spec => []FinishedIsSaved
<1>1. Init => FInv
  BY DEF Init, FInv
<1>2. FInv => FinishedIsSaved
  BY DEF FInv, FinishedIsSaved
<1> QED
  BY <1>1, <1>2, NextFInv, PTL DEF Spec

(***************************************************************************)
(* The number of checkpoints                                               *)
(***************************************************************************)

-----------------------------------------------------------------------------
\* The newest of a set

\* A set of naturals that is not empty has a least element.
LEMMA LeastOf ==
  ASSUME NEW S \in SUBSET Nat, S # {}
  PROVE  \E m \in S : \A n \in S : m <= n
<1>1. PICK m \in S : \A n \in S : ~(<<n, m>> \in OpToRel(<, Nat))
  BY NatLessThanWellFounded, WFMin, Zenon
<1>2. \A n \in S : ~(n < m)
  BY <1>1 DEF OpToRel
<1> QED
  BY <1>2

\* At most k elements of a set have fewer than k above them.
LEMMA NewestAreFew ==
  ASSUME NEW S \in SUBSET Nat, IsFiniteSet(S), NEW k \in Nat
  PROVE  /\ Newest(S, k) \subseteq S /\ IsFiniteSet(Newest(S, k))
         /\ Cardinality(Newest(S, k)) <= k
<1> DEFINE N == Newest(S, k)
<1>1. N \subseteq S /\ IsFiniteSet(N)
  BY FS_Subset DEF Newest
<1>2. CASE N = {}
  BY <1>1, <1>2, FS_EmptySet
<1>3. CASE N # {}
  <2>1. PICK m \in N : \A n \in N : m <= n
    <3>1. N \in SUBSET Nat
      BY <1>1
    <3> HIDE DEF N
    <3> QED
      BY <1>3, <3>1, LeastOf
  <2> DEFINE A == {n \in S : n > m}
  <2>2. Cardinality(A) < k /\ A \subseteq S
    BY <2>1 DEF Newest
  <2>3. N \ {m} \subseteq A
    <3>1. SUFFICES ASSUME NEW n \in N, n # m PROVE n \in S /\ n > m
      BY DEF A
    <3>2. n \in S /\ n \in Nat /\ m \in Nat
      BY <1>1
    <3>3. m <= n
      BY <2>1
    <3> QED
      BY <3>1, <3>2, <3>3
  <2>4. IsFiniteSet(A) /\ Cardinality(A) \in Nat
    BY <2>2, FS_Subset, FS_CardinalityType
  <2>5. Cardinality(N \ {m}) <= Cardinality(A) /\ Cardinality(N \ {m}) \in Nat
    BY <2>3, <2>4, FS_Subset, FS_CardinalityType
  <2>6. Cardinality(N \ {m}) = Cardinality(N) - 1 /\ Cardinality(N) \in Nat
    BY <1>1, <2>1, FS_RemoveElement, FS_CardinalityType
  <2> HIDE DEF A, N
  <2>7. Cardinality(N) <= k
    BY <2>2, <2>4, <2>5, <2>6
  <2> QED
    BY <1>1, <2>7 DEF N
<1> QED
  BY <1>2, <1>3

-----------------------------------------------------------------------------
\* Whose checkpoints there are

\* The steps of which run k has left a shard of the role among the files.
StepsOf(files, role, k) == {n \in Steps : \E r \in Ranks : files[role][n][r].run = k}

Written == {"write", "writing", "sync"}

\* No shard is of a run to come; the actor's are nobody's while the critic warms up.
RunsBefore ==
  /\ \A role \in Roles, n \in Steps, r \in Ranks : shards[role][n][r].run <= run
  /\ \A role \in Roles, r \in Ranks : weights[role][r].run <= run
  /\ \A n \in Steps, r \in Ranks :
       n < CriticWarmup => shards["actor"][n][r].run \in {0, Torn}
  /\ pc \notin Stopped /\ gstep < CriticWarmup => \A r \in Ranks : weights["actor"][r].run = 0

\* What a save writes is the run's own, or nobody's.
WritesOwn ==
  /\ pc = "update_actor" /\ UseCritic => \A r \in Ranks : weights["critic"][r].run = run
  /\ pc \in Saving => \A role \in Roles, r \in Ranks : weights[role][r].run \in {0, run}

\* Every rank knows of each checkpoint of its run, but for the one being written.
Listed ==
  pc \notin Stopped => \A role \in Roles, r \in Ranks : \A n \in StepsOf(shards, role, run) :
    \/ n \in paths[role][r]
    \/ n = gstep /\ pc \in Saving /\ role = Saver /\ \E q \in Ranks : rank[q] \in Written

\* The lists are within the limit, and there is room for the one being written from
\* the removal on, which all ranks have behind them when the first one writes.
Short ==
  /\ pc \notin Stopped => \A role \in Roles, r \in Ranks :
       Keep[role] > 0 => Cardinality(paths[role][r]) <= Keep[role]
  /\ pc \in Saving => \A r \in Ranks :
       Keep[Saver] > 0 /\ rank[r] \in Written \cup {"made"}
         => Cardinality(paths[Saver][r]) <= Keep[Saver] - 1
  /\ pc \in Saving => \A q, r \in Ranks : rank[q] \in Written => rank[r] \in Written

KInv == RunsBefore /\ WritesOwn /\ Listed /\ Short /\ KeepBound

\* KeepBound, put with StepsOf.
LEMMA KeepBoundOf ==
  KeepBound <=> \A role \in Roles, k \in 1 .. run :
                  Keep[role] > 0 => Cardinality(StepsOf(shards, role, k)) <= Keep[role]
BY DEF KeepBound, StepsOf

\* Sets of steps are finite.
LEMMA StepsFinite ==
  ASSUME NEW S \in SUBSET Steps
  PROVE  IsFiniteSet(S) /\ S \in SUBSET Nat /\ Cardinality(S) \in Nat
<1>1. IsFiniteSet(Steps) /\ Steps \subseteq Nat
  BY ConstantsAssumption, FS_Interval DEF Steps
<1> QED
  BY <1>1, FS_Subset, FS_CardinalityType

\* One more element.
LEMMA AddOne ==
  ASSUME NEW S, IsFiniteSet(S), NEW x
  PROVE  /\ IsFiniteSet(S \cup {x}) /\ Cardinality(S) \in Nat /\ Cardinality(S \cup {x}) \in Nat
         /\ Cardinality(S \cup {x}) <= Cardinality(S) + 1
<1>1. Cardinality(S) \in Nat
  BY FS_CardinalityType
<1>2. /\ IsFiniteSet(S \cup {x})
      /\ Cardinality(S \cup {x}) = IF x \in S THEN Cardinality(S) ELSE Cardinality(S) + 1
  BY FS_AddElement
<1> QED
  BY <1>1, <1>2

\* In the beginning nothing has been saved.
LEMMA InitKInv == Init => KInv
<1> SUFFICES ASSUME Init PROVE KInv
  OBVIOUS
<1> USE ConstantsAssumption DEF Init
<1>1. RunsBefore
  BY RolesFacts DEF RunsBefore, NoShard, Pretrained, Torn
<1>2. WritesOwn /\ Listed /\ Short
  BY DEF WritesOwn, Listed, Short, Saving, Stopped
<1>3. KeepBound
  BY DEF KeepBound
<1> QED
  BY <1>1, <1>2, <1>3 DEF KInv

\* A step that leaves the disk, the lists and the ranks alone, and the run.
LEMMA QuietKeep ==
  ASSUME KInv, UNCHANGED <<shards, run, paths, rank>>, pc \notin Stopped \cup Saving,
         RunsBefore', WritesOwn', pc' \notin Saving
  PROVE  KInv'
<1>1. \A role \in Roles, k \in 1 .. run : StepsOf(shards', role, k) = StepsOf(shards, role, k)
  BY DEF StepsOf, Steps
<1>2. Listed'
  BY DEF KInv, Listed, StepsOf, Steps
<1>3. Short'
  BY DEF KInv, Short
<1>4. KeepBound'
  BY DEF KInv, KeepBound, Steps, Roles
<1> QED
  BY <1>2, <1>3, <1>4 DEF KInv

\* Every step, crashes and starts included, keeps the lists and their limit.
LEMMA NextKInv ==
  ASSUME TInv, TInv', KInv, [Next]_vars
  PROVE  KInv'
<1> USE ConstantsAssumption, RolesFacts DEF disk, driver, workers, Torn
<1>t. /\ shards \in [Roles -> [Steps -> [Ranks -> Stamp \cup {NoShard}]]]
      /\ weights \in [Roles -> [Ranks -> Stamp]] /\ run \in 0 .. MaxRuns /\ run \in Nat
      /\ paths \in [Roles -> [Ranks -> SUBSET Steps]] /\ gstep \in {0} \cup Steps /\ gstep \in Nat
      /\ rank \in [Ranks -> {"idle", "prune", "made", "write", "writing", "sync"}]
      /\ pc \in PCs
  BY DEF TInv, TypeOK, Steps
<1>k. RunsBefore /\ WritesOwn /\ Listed /\ Short /\ KeepBound
  BY DEF KInv
\* A new process.
<1>n. ASSUME FreshProcess, shards' = shards, run' \in {run, run + 1},
             pc' \in Stopped \/ (run' = run + 1 /\ pc' \notin Saving \cup {"update_actor"})
      PROVE  KInv'
  <2>1. \A role \in Roles, r \in Ranks : weights'[role][r] = Pretrained /\ paths'[role][r] = {}
    BY <1>n DEF FreshProcess
  <2>2. RunsBefore'
    <3>1. \A role \in Roles, n \in Steps, r \in Ranks : shards[role][n][r].run <= run'
      <4>1. ASSUME NEW role \in Roles, NEW n \in Steps, NEW r \in Ranks
            PROVE  shards[role][n][r].run <= run'
        <5>1. shards[role][n][r] \in Stamp \cup {NoShard}
          BY <1>t
        <5>2. shards[role][n][r].run \in Int
          BY <5>1, <1>t DEF Stamp, NoShard
        <5>3. shards[role][n][r].run <= run
          BY <1>k DEF RunsBefore
        <5> QED
          BY <1>n, <1>t, <5>2, <5>3
      <4> QED
        BY <4>1
    <3>2. \A role \in Roles, r \in Ranks : weights'[role][r].run = 0 /\ 0 <= run'
      BY <1>n, <1>t, <2>1 DEF Pretrained
    <3>3. \A role \in Roles, r \in Ranks : weights'[role][r].run <= run'
      BY <3>2
    <3> QED
      BY <1>n, <1>k, <3>1, <3>2, <3>3 DEF RunsBefore, Steps, Roles
  <2>3. WritesOwn'
    BY <1>n DEF WritesOwn, Stopped, Saving
  <2>4. \A role \in Roles : StepsOf(shards, role, run + 1) = {}
    BY <1>t, <1>k DEF RunsBefore, StepsOf
  <2>5. Listed'
    BY <1>n, <2>4 DEF Listed, StepsOf, Steps, Roles
  <2>6. Short'
    <3>1. \A role \in Roles, r \in Ranks : Cardinality(paths'[role][r]) = 0
      BY <2>1, FS_EmptySet
    <3>2. pc' \notin Saving
      BY <1>n DEF Stopped, Saving
    <3> QED
      BY <3>1, <3>2 DEF Short, Roles
  <2>7. KeepBound'
    <3>1. SUFFICES ASSUME NEW role \in Roles, NEW k \in 1 .. run', Keep[role] > 0
                   PROVE  Cardinality(StepsOf(shards, role, k)) <= Keep[role]
      BY <1>n DEF KeepBound, StepsOf, Steps, Roles
    <3>2. CASE k = run + 1
      <4>1. StepsOf(shards, role, k) = {} /\ Keep[role] \in Nat
        BY <2>4, <3>2
      <4> QED
        BY <4>1, FS_EmptySet
    <3>3. CASE k # run + 1
      BY <1>n, <1>t, <1>k, <3>1, <3>3, KeepBoundOf
    <3> QED
      BY <3>2, <3>3
  <2> QED
    BY <2>2, <2>3, <2>5, <2>6, <2>7 DEF KInv
<1>1. CASE Start
  BY <1>n, <1>1 DEF Start, Stopped, Saving
<1>2. CASE StartFails
  BY <1>n, <1>2 DEF StartFails, Stopped
<1>3. CASE Crash
  BY <1>n, <1>3 DEF Crash, Stopped
<1>4. CASE Load
  <2>1. UNCHANGED <<shards, run, gstep, paths, rank>> /\ pc = "load" /\ pc' \in {"begin", "failed"}
    BY <1>4 DEF Load
  <2>2. gstep \in Steps
    BY <1>t, <2>1 DEF TInv, StepBound
  <2>3. WritesOwn'
    BY <2>1 DEF WritesOwn, Saving
  <2>4. RunsBefore'
    <3>1. CASE weights' = weights
      BY <1>k, <2>1, <3>1 DEF RunsBefore, Stopped, Steps, Roles
    <3>2. CASE weights' = [role \in Roles |-> shards[role][gstep]] /\ pc' = "begin"
      <4>1. \A role \in Roles, r \in Ranks : weights'[role][r] = shards[role][gstep][r]
        BY <3>2
      <4>2. \A r \in Ranks : weights'["actor"][r] \in Stamp
        BY DEF TInv, TypeOK
      <4>3. \A r \in Ranks : weights'["actor"][r].run >= 0
        BY <4>2 DEF Stamp
      <4> QED
        BY <1>k, <2>1, <2>2, <4>1, <4>3 DEF RunsBefore, Steps, Roles
    <3> QED
      BY <1>4, <3>1, <3>2 DEF Load
  <2> QED
    BY <2>1, <2>3, <2>4, QuietKeep DEF Stopped, Saving
<1>5. CASE Begin \/ NextBatch \/ NextEpoch \/ Exhausted \/ OldLogProb \/ Advance
  <2>1. UNCHANGED <<shards, run, paths, rank, weights>> /\ pc \notin Stopped \cup Saving
    BY <1>5 DEF Begin, NextBatch, NextEpoch, Exhausted, OldLogProb, Advance, Stopped, Saving
  <2>2. pc' \notin Saving \cup {"update_actor"} \/ (pc' = "update_actor" /\ ~UseCritic)
    BY <1>5 DEF Begin, NextBatch, NextEpoch, Exhausted, OldLogProb, Advance, Saving
  <2>3. gstep' \in {gstep, gstep + 1}
    BY <1>5 DEF Begin, NextBatch, NextEpoch, Exhausted, OldLogProb, Advance
  <2>4. RunsBefore'
    BY <1>t, <1>k, <2>1, <2>3 DEF RunsBefore, Steps, Roles
  <2>5. WritesOwn' /\ pc' \notin Saving
    BY <2>2 DEF WritesOwn, Saving
  <2> QED
    BY <2>1, <2>4, <2>5, QuietKeep
<1>6. CASE UpdateCritic
  <2>1. /\ UNCHANGED <<shards, run, gstep, paths, rank>> /\ pc = "update_critic" /\ pc' = "update_actor"
        /\ weights' = [weights EXCEPT !["critic"] = [r \in Ranks |-> [run |-> run, step |-> gstep]]]
    BY <1>6 DEF UpdateCritic
  <2>2. UseCritic => \A r \in Ranks : weights'["critic"][r].run = run
    BY <1>t, <2>1
  <2>3. weights'["actor"] = weights["actor"]
    BY <1>t, <2>1
  <2>4. RunsBefore'
    BY <1>t, <1>k, <2>1, <2>2, <2>3 DEF RunsBefore, Steps, Roles, Stopped
  <2>5. WritesOwn'
    BY <2>1, <2>2 DEF WritesOwn, Saving
  <2> QED
    BY <2>1, <2>4, <2>5, QuietKeep DEF Saving, Stopped
<1>7. CASE UpdateActor
  <2>1. UNCHANGED <<shards, run, gstep, paths>> /\ pc = "update_actor" /\ pc' \in {"save_actor", "advance"}
    BY <1>7 DEF UpdateActor
  <2>2. /\ CriticWarmup <= gstep => \A r \in Ranks : weights'["actor"][r].run = run
        /\ ~(CriticWarmup <= gstep) => weights' = weights
        /\ UseCritic => weights'["critic"] = weights["critic"]
    BY <1>7, <1>t DEF UpdateActor
  <2>3. RunsBefore'
    BY <1>t, <1>k, <2>1, <2>2 DEF RunsBefore, Steps, Roles, Stopped
  <2>4. WritesOwn'
    <3>1. \A r \in Ranks : weights'["actor"][r].run \in {0, run}
      BY <1>t, <1>k, <2>1, <2>2 DEF RunsBefore, Stopped
    <3>2. UseCritic => \A r \in Ranks : weights'["critic"][r].run = run
      BY <1>k, <2>1, <2>2 DEF WritesOwn
    <3> QED
      BY <2>1, <3>1, <3>2 DEF WritesOwn, Roles
  <2>5. pc' \in Saving => \A r \in Ranks : rank'[r] = "prune"
    BY <1>7 DEF UpdateActor, Saving
  <2>6. \A role \in Roles : StepsOf(shards', role, run) = StepsOf(shards, role, run)
    BY <2>1 DEF StepsOf, Steps
  <2>7. Listed'
    BY <1>k, <2>1, <2>6 DEF Listed, Stopped, Saving, Roles
  <2>8. Short'
    BY <1>k, <2>1, <2>5 DEF Short, Stopped, Saving, Written, Roles
  <2>9. KeepBound'
    BY <1>k, <2>1 DEF KeepBound, Steps, Roles
  <2> QED
    BY <2>3, <2>4, <2>7, <2>8, <2>9 DEF KInv
<1>8. ASSUME NEW r \in Ranks, Prune(r) PROVE KInv'
  <2> DEFINE role == Saver
             gone == Surplus(Saver, r)
  <2>1. /\ pc \in Saving /\ rank[r] = "prune" /\ role \in Roles /\ pc \notin Stopped
        /\ UNCHANGED <<run, gstep, pc, weights>> /\ Saver' = Saver
    BY <1>8, SaverIsRole DEF Prune, Saving, Stopped, Saver
  <2>2. \A o \in Roles, n \in Steps, q \in Ranks :
          shards'[o][n][q] = IF o = role /\ n \in gone THEN NoShard ELSE shards[o][n][q]
    BY <1>8, <1>t, <2>1 DEF Prune
  <2>3. /\ paths' = [paths EXCEPT ![role][r] = @ \ gone]
        /\ rank' = [rank EXCEPT ![r] = "made"]
    BY <1>8 DEF Prune
  <2> HIDE DEF role, gone
  <2>4. \A q \in Ranks : rank[q] \notin Written
    BY <1>k, <2>1 DEF Short, Written
  <2>5. RunsBefore' /\ WritesOwn'
    <3>1. \A o \in Roles, n \in Steps, q \in Ranks :
            shards'[o][n][q].run = shards[o][n][q].run \/ shards'[o][n][q].run = Torn
      BY <2>2 DEF NoShard
    <3>2. \A o \in Roles, n \in Steps, q \in Ranks : shards'[o][n][q].run <= run
      <4>1. -1 <= run
        BY <1>t
      <4> QED
        BY <1>k, <3>1, <4>1 DEF RunsBefore
    <3>3. \A n \in Steps, q \in Ranks :
            n < CriticWarmup => shards'["actor"][n][q].run \in {0, Torn}
      BY <1>k, <3>1 DEF RunsBefore
    <3>4. RunsBefore'
      BY <1>k, <2>1, <3>2, <3>3 DEF RunsBefore, Steps, Roles
    <3> QED
      BY <1>k, <2>1, <3>4 DEF WritesOwn, Roles
  <2>6. \A o \in Roles, k \in 0 .. run : StepsOf(shards', o, k) \subseteq StepsOf(shards, o, k)
    <3>1. SUFFICES ASSUME NEW o \in Roles, NEW k \in 0 .. run, NEW n \in Steps, NEW q \in Ranks,
                          shards'[o][n][q].run = k
                   PROVE  shards[o][n][q].run = k
      BY DEF StepsOf
    <3>2. k # Torn
      OBVIOUS
    <3>3. shards'[o][n][q] # NoShard
      BY <3>1, <3>2 DEF NoShard
    <3> QED
      BY <2>2, <3>1, <3>3
  <2>7. StepsOf(shards', role, run) \cap gone = {}
    BY <1>t, <2>1, <2>2 DEF StepsOf, NoShard, Steps
  <2>8. \A o \in Roles, q \in Ranks :
          /\ paths'[o][q] \subseteq paths[o][q]
          /\ paths[o][q] \subseteq paths'[o][q] \cup (IF o = role THEN gone ELSE {})
    BY <1>t, <2>1, <2>3
  <2>9. Listed'
    <3>1. SUFFICES ASSUME NEW o \in Roles, NEW q \in Ranks, NEW n \in StepsOf(shards', o, run)
                   PROVE  n \in paths'[o][q]
      BY <2>1 DEF Listed, Roles
    <3>2. n \in StepsOf(shards, o, run)
      BY <1>t, <2>6, <3>1
    <3>3. n \in paths[o][q]
      BY <1>k, <2>1, <2>4, <3>2 DEF Listed
    <3>4. o = role => n \notin gone
      BY <2>7
    <3> QED
      BY <2>8, <3>3, <3>4
  <2>10. \A o \in Roles, q \in Ranks : Cardinality(paths'[o][q]) <= Cardinality(paths[o][q])
    <3>1. ASSUME NEW o \in Roles, NEW q \in Ranks
          PROVE  Cardinality(paths'[o][q]) <= Cardinality(paths[o][q])
      <4>1. IsFiniteSet(paths[o][q])
        BY <1>t, StepsFinite
      <4> QED
        BY <2>8, <4>1, FS_Subset
    <3> QED
      BY <3>1
  <2>11. Keep[role] > 0 => Cardinality(paths'[role][r]) <= Keep[role] - 1
    <3>1. ASSUME Keep[role] > 0 PROVE Cardinality(paths'[role][r]) <= Keep[role] - 1
      <4>1. paths'[role][r] = paths[role][r] \ gone
        BY <1>t, <2>1, <2>3
      <4>p. paths[role][r] \in SUBSET Steps
        BY <1>t, <2>1
      <4>q. Keep[role] \in Nat /\ Keep[role] - 1 \in Nat
        BY <2>1, <3>1
      <4>2. /\ Keep[role] \in Nat /\ Keep[role] - 1 \in Nat
            /\ paths[role][r] \in SUBSET Nat /\ IsFiniteSet(paths[role][r])
            /\ Cardinality(paths[role][r]) \in Nat
        BY <4>p, <4>q, StepsFinite
      <4>3. CASE Cardinality(paths[role][r]) >= Keep[role]
        <5>1. gone = paths[role][r] \ Newest(paths[role][r], Keep[role] - 1)
          BY <3>1, <4>3 DEF gone, role, Surplus
        <5>2. /\ Newest(paths[role][r], Keep[role] - 1) \subseteq paths[role][r]
              /\ Cardinality(Newest(paths[role][r], Keep[role] - 1)) <= Keep[role] - 1
          BY <4>2, NewestAreFew
        <5>3. paths'[role][r] = Newest(paths[role][r], Keep[role] - 1)
          BY <4>1, <5>1, <5>2
        <5> QED
          BY <5>2, <5>3
      <4>4. CASE ~(Cardinality(paths[role][r]) >= Keep[role])
        <5>1. gone = {}
          BY <4>4 DEF gone, role, Surplus
        <5>2. paths'[role][r] = paths[role][r]
          BY <4>1, <5>1
        <5> QED
          BY <4>2, <4>4, <5>2
      <4> QED
        BY <4>3, <4>4
    <3> QED
      BY <3>1
  <2>12. Short'
    <3>1. \A o \in Roles, q \in Ranks : Keep[o] > 0 => Cardinality(paths'[o][q]) <= Keep[o]
      <4>1. ASSUME NEW o \in Roles, NEW q \in Ranks, Keep[o] > 0
            PROVE  Cardinality(paths'[o][q]) <= Keep[o]
        <5>1. Cardinality(paths[o][q]) <= Keep[o] /\ Cardinality(paths[o][q]) \in Nat
          BY <1>t, <1>k, <2>1, <4>1, StepsFinite DEF Short
        <5>2. paths'[o][q] \in SUBSET Steps
          BY DEF TInv, TypeOK, Roles, Steps
        <5>3. Cardinality(paths'[o][q]) \in Nat
          BY <5>2, StepsFinite
        <5> QED
          BY <2>10, <5>1, <5>3, <1>t
      <4> QED
        BY <4>1
    <3>2. \A q \in Ranks : Keep[role] > 0 /\ rank'[q] \in Written \cup {"made"}
                           => Cardinality(paths'[role][q]) <= Keep[role] - 1
      <4>1. ASSUME NEW q \in Ranks, q # r, Keep[role] > 0, rank'[q] \in Written \cup {"made"}
            PROVE  Cardinality(paths'[role][q]) <= Keep[role] - 1
        <5>1. rank'[q] = rank[q] /\ paths'[role][q] = paths[role][q]
          BY <1>t, <2>1, <2>3, <4>1
        <5> QED
          BY <1>k, <2>1, <4>1, <5>1 DEF Short, role
      <4> QED
        BY <2>11, <4>1
    <3>3. \A q \in Ranks : rank'[q] \notin Written
      BY <1>t, <2>3, <2>4 DEF Written
    <3> QED
      BY <2>1, <3>1, <3>2, <3>3 DEF Short, role, Roles
  <2>13. KeepBound'
    <3>1. SUFFICES ASSUME NEW o \in Roles, NEW k \in 1 .. run, Keep[o] > 0
                   PROVE  Cardinality(StepsOf(shards', o, k)) <= Keep[o]
      BY <2>1 DEF KeepBound, StepsOf, Steps, Roles
    <3>k. k \in 0 .. run
      BY <3>1
    <3>2. /\ StepsOf(shards', o, k) \subseteq StepsOf(shards, o, k) /\ StepsOf(shards, o, k) \in SUBSET Steps
          /\ StepsOf(shards', o, k) \in SUBSET Steps
      BY <2>6, <3>k DEF StepsOf
    <3>3. /\ Cardinality(StepsOf(shards', o, k)) <= Cardinality(StepsOf(shards, o, k))
          /\ Cardinality(StepsOf(shards', o, k)) \in Nat /\ Cardinality(StepsOf(shards, o, k)) \in Nat
      BY <3>2, StepsFinite, FS_Subset
    <3>4. Cardinality(StepsOf(shards, o, k)) <= Keep[o]
      BY <1>k, <3>1, KeepBoundOf
    <3> QED
      BY <3>3, <3>4
  <2> QED
    BY <2>5, <2>9, <2>12, <2>13 DEF KInv
<1>9. CASE DirBarrier
  <2>1. /\ pc \in Saving /\ (\A r \in Ranks : rank[r] = "made") /\ rank' = [r \in Ranks |-> "write"]
        /\ UNCHANGED <<shards, run, gstep, pc, weights, paths>> /\ Saver' = Saver
    BY <1>9 DEF DirBarrier, Saver
  <2>2. RunsBefore' /\ WritesOwn'
    BY <1>k, <2>1 DEF RunsBefore, WritesOwn, Steps, Roles
  <2>3. \A role \in Roles : StepsOf(shards', role, run) = StepsOf(shards, role, run)
    BY <2>1 DEF StepsOf, Steps
  <2>4. Listed'
    BY <1>k, <2>1, <2>3 DEF Listed, Written, Roles
  <2>5. Short'
    BY <1>k, <2>1 DEF Short, Written, Roles
  <2>6. KeepBound'
    BY <1>k, <2>1 DEF KeepBound, Steps, Roles
  <2> QED
    BY <2>2, <2>4, <2>5, <2>6 DEF KInv
<1>10. ASSUME NEW r \in Ranks, OpenShard(r) \/ WriteShard(r) PROVE KInv'
  <2>1. /\ pc \in Saving /\ pc \notin Stopped /\ rank[r] \in Written /\ Saver \in Roles
        /\ UNCHANGED <<run, gstep, pc, weights, paths>> /\ Saver' = Saver
    BY <1>10, SaverIsRole DEF OpenShard, WriteShard, Saving, Stopped, Written, Saver
  <2>g. gstep \in Steps
    BY <1>t, <2>1 DEF TInv, StepBound, PCs, Stopped, Saving
  <2>2. PICK v \in {NoShard, weights[Saver][r]} :
          shards' = [shards EXCEPT ![Saver][gstep][r] = v]
    BY <1>10 DEF OpenShard, WriteShard
  <2>3. \A o \in Roles, n \in Steps, q \in Ranks :
          shards'[o][n][q] = IF o = Saver /\ n = gstep /\ q = r THEN v ELSE shards[o][n][q]
    BY <1>t, <2>1, <2>2, <2>g
  <2>4. v.run \in {Torn, 0, run}
    BY <1>k, <2>1 DEF WritesOwn, NoShard
  <2>5. (Saver = "actor" /\ gstep < CriticWarmup) => v.run \in {Torn, 0}
    BY <1>k, <2>1 DEF RunsBefore, NoShard
  <2>6. RunsBefore' /\ WritesOwn'
    <3>1. \A o \in Roles, n \in Steps, q \in Ranks :
            shards'[o][n][q].run = shards[o][n][q].run
            \/ (shards'[o][n][q].run = v.run /\ o = Saver /\ n = gstep)
      BY <2>3
    <3>2. \A o \in Roles, n \in Steps, q \in Ranks : shards'[o][n][q].run <= run
      <4>1. v.run <= run
        <5>1. run \in Nat
          BY <1>t
        <5> QED
          BY <2>4, <5>1
      <4> QED
        BY <1>k, <3>1, <4>1 DEF RunsBefore
    <3>3. \A n \in Steps, q \in Ranks :
            n < CriticWarmup => shards'["actor"][n][q].run \in {0, Torn}
      BY <1>k, <2>5, <3>1 DEF RunsBefore
    <3>4. RunsBefore'
      BY <1>k, <2>1, <3>2, <3>3 DEF RunsBefore, Steps, Roles
    <3> QED
      BY <1>k, <2>1, <3>4 DEF WritesOwn, Roles
  <2>7. /\ rank' \in [Ranks -> {"idle", "prune", "made", "write", "writing", "sync"}]
        /\ \A q \in Ranks : rank'[q] = rank[q] \/ (q = r /\ rank'[q] \in Written)
    BY <1>10, <1>t DEF OpenShard, WriteShard, Written
  <2>8. \A q \in Ranks : rank[q] \in Written
    BY <1>k, <2>1 DEF Short
  <2>9. \A q \in Ranks : rank'[q] \in Written
    BY <2>7, <2>8
  <2>10. \A o \in Roles, k \in 1 .. run : \A n \in StepsOf(shards', o, k) :
           n \in StepsOf(shards, o, k) \/ (o = Saver /\ n = gstep /\ k = run)
    <3>1. SUFFICES ASSUME NEW o \in Roles, NEW k \in 1 .. run, NEW n \in StepsOf(shards', o, k)
                   PROVE  n \in StepsOf(shards, o, k) \/ (o = Saver /\ n = gstep /\ k = run)
      OBVIOUS
    <3>2. PICK q \in Ranks : shards'[o][n][q].run = k
      BY <3>1 DEF StepsOf
    <3>3. n \in Steps
      BY <3>1 DEF StepsOf, Steps
    <3>4. CASE o = Saver /\ n = gstep /\ q = r
      BY <1>t, <2>3, <2>4, <3>2, <3>3, <3>4
    <3>5. CASE ~(o = Saver /\ n = gstep /\ q = r)
      <4>1. shards'[o][n][q] = shards[o][n][q]
        BY <2>3, <3>3, <3>5
      <4>2. shards[o][n][q].run = k
        BY <3>2, <4>1
      <4> QED
        BY <3>3, <4>2 DEF StepsOf
    <3> QED
      BY <3>4, <3>5
  <2>r. run \in 1 .. run
    BY <1>t, <2>1 DEF TInv, StepBound
  <2>11. Listed'
    <3>1. SUFFICES ASSUME NEW o \in Roles, NEW q \in Ranks, NEW n \in StepsOf(shards', o, run)
                   PROVE  n \in paths[o][q] \/ (n = gstep /\ o = Saver)
      BY <2>1, <2>9 DEF Listed, Roles
    <3>2. n \in StepsOf(shards, o, run) \/ (o = Saver /\ n = gstep)
      BY <2>10, <2>r, <3>1
    <3> QED
      BY <1>k, <2>1, <3>2 DEF Listed
  <2>12. Short'
    BY <1>k, <2>1, <2>8, <2>9 DEF Short, Roles
  <2>13. KeepBound'
    <3>1. SUFFICES ASSUME NEW o \in Roles, NEW k \in 1 .. run, Keep[o] > 0
                   PROVE  Cardinality(StepsOf(shards', o, k)) <= Keep[o]
      BY <2>1 DEF KeepBound, StepsOf, Steps, Roles
    <3>2. Keep[o] \in Nat
      BY <1>t
    <3>3. CASE o = Saver /\ k = run
      <4> DEFINE P == paths[Saver][r]
      <4>1. P \in SUBSET Steps /\ IsFiniteSet(P) /\ Cardinality(P) \in Nat
        BY <1>t, <2>1, StepsFinite
      <4>2. Cardinality(P) <= Keep[o] - 1
        BY <1>k, <2>1, <3>1, <3>3 DEF Short
      <4>3. StepsOf(shards', o, k) \subseteq P \cup {gstep}
        BY <2>11, <2>1, <3>3 DEF Listed, Roles
      <4> HIDE DEF P
      <4>4. /\ IsFiniteSet(P \cup {gstep}) /\ Cardinality(P \cup {gstep}) \in Nat
            /\ Cardinality(P \cup {gstep}) <= Cardinality(P) + 1
        BY <4>1, AddOne
      <4>5. /\ Cardinality(StepsOf(shards', o, k)) <= Cardinality(P \cup {gstep})
            /\ Cardinality(StepsOf(shards', o, k)) \in Nat
        BY <4>3, <4>4, FS_Subset, FS_CardinalityType
      <4> QED
        BY <3>2, <4>1, <4>2, <4>4, <4>5
    <3>4. CASE ~(o = Saver /\ k = run)
      <4>1. StepsOf(shards', o, k) \subseteq StepsOf(shards, o, k) /\ StepsOf(shards, o, k) \in SUBSET Steps
        BY <2>10, <3>4 DEF StepsOf
      <4>2. /\ Cardinality(StepsOf(shards', o, k)) <= Cardinality(StepsOf(shards, o, k))
            /\ Cardinality(StepsOf(shards', o, k)) \in Nat /\ Cardinality(StepsOf(shards, o, k)) \in Nat
        BY <4>1, StepsFinite, FS_Subset
      <4>3. Cardinality(StepsOf(shards, o, k)) <= Keep[o]
        BY <1>k, <3>1, KeepBoundOf
      <4> QED
        BY <3>2, <4>2, <4>3
    <3> QED
      BY <3>3, <3>4
  <2> QED
    BY <2>6, <2>11, <2>12, <2>13 DEF KInv
<1>11. CASE SaveBarrier
  <2>1. /\ pc \in Saving /\ pc \notin Stopped /\ (\A r \in Ranks : rank[r] = "sync") /\ Saver \in Roles
        /\ paths' = [paths EXCEPT ![Saver] = [r \in Ranks |-> @[r] \cup {gstep}]]
        /\ UNCHANGED <<shards, run, gstep, weights>>
    BY <1>11, SaverIsRole DEF SaveBarrier, Saving, Stopped
  <2>2. /\ pc' \in {"save_critic", "open_data"} /\ (pc' = "save_critic" => pc' \in Saving)
        /\ \A r \in Ranks : rank'[r] \in {"prune", "idle"}
    BY <1>11 DEF SaveBarrier, Saving
  <2>3. \A o \in Roles, q \in Ranks :
          paths'[o][q] = IF o = Saver THEN paths[o][q] \cup {gstep} ELSE paths[o][q]
    BY <1>t, <2>1
  <2>4. RunsBefore' /\ WritesOwn'
    BY <1>k, <2>1, <2>2 DEF RunsBefore, WritesOwn, Steps, Roles, Saving, Stopped
  <2>5. \A role \in Roles : StepsOf(shards', role, run) = StepsOf(shards, role, run)
    BY <2>1 DEF StepsOf, Steps
  <2>6. Listed'
    <3>1. SUFFICES ASSUME NEW o \in Roles, NEW q \in Ranks, NEW n \in StepsOf(shards, o, run)
                   PROVE  n \in paths'[o][q]
      BY <2>5, <2>1 DEF Listed, Roles
    <3> QED
      <4>1. n \in paths[o][q] \/ (n = gstep /\ o = Saver)
        BY <1>k, <2>1, <3>1 DEF Listed
      <4> QED
        BY <2>3, <4>1
  <2>7. Short'
    <3>1. \A o \in Roles, q \in Ranks : Keep[o] > 0 => Cardinality(paths'[o][q]) <= Keep[o]
      <4>1. SUFFICES ASSUME NEW o \in Roles, NEW q \in Ranks, Keep[o] > 0
                     PROVE  Cardinality(paths'[o][q]) <= Keep[o]
        OBVIOUS
      <4>2. CASE o = Saver
        <5>0. Keep[o] \in Nat
          BY <4>1
        <5>1. Cardinality(paths[o][q]) <= Keep[o] - 1
          BY <1>k, <2>1, <4>1, <4>2 DEF Short, Written
        <5>2. IsFiniteSet(paths[o][q]) /\ Cardinality(paths[o][q]) \in Nat
          BY <1>t, StepsFinite
        <5>3. Cardinality(paths[o][q] \cup {gstep}) <= Cardinality(paths[o][q]) + 1
              /\ Cardinality(paths[o][q] \cup {gstep}) \in Nat
          BY <5>2, AddOne
        <5> QED
          <6>1. paths'[o][q] = paths[o][q] \cup {gstep}
            BY <2>3, <4>2
          <6> QED
            BY <5>0, <5>1, <5>2, <5>3, <6>1
      <4>3. CASE o # Saver
        BY <1>k, <2>1, <2>3, <4>1, <4>3 DEF Short
      <4> QED
        BY <4>2, <4>3
    <3> QED
      BY <2>2, <3>1 DEF Short, Written, Roles
  <2>8. KeepBound'
    BY <1>k, <2>1 DEF KeepBound, Steps, Roles
  <2> QED
    BY <2>4, <2>6, <2>7, <2>8 DEF KInv
<1>12. CASE OpenData \/ WriteData \/ OpenTracker \/ WriteTracker
  <2>1. /\ UNCHANGED <<shards, run, gstep, paths, rank, weights>>
        /\ pc \notin Stopped \cup Saving /\ pc' \notin Saving \cup {"update_actor"}
    BY <1>12 DEF OpenData, WriteData, OpenTracker, WriteTracker, Saving, Stopped
  <2>2. RunsBefore' /\ WritesOwn'
    BY <1>k, <2>1 DEF RunsBefore, WritesOwn, Steps, Roles, Saving, Stopped
  <2> QED
    BY <2>1, <2>2, QuietKeep
<1>13. CASE UNCHANGED vars
  <2>1. UNCHANGED <<shards, run, gstep, pc, paths, rank, weights>> /\ Saver' = Saver
    BY <1>13 DEF vars, Saver
  <2>2. \A role \in Roles : StepsOf(shards', role, run) = StepsOf(shards, role, run)
    BY <2>1 DEF StepsOf, Steps
  <2>3. RunsBefore' /\ WritesOwn' /\ KeepBound'
    BY <1>k, <2>1 DEF RunsBefore, WritesOwn, KeepBound, Steps, Roles
  <2>4. Listed' /\ Short'
    BY <1>k, <2>1, <2>2 DEF Listed, Short, Roles
  <2> QED
    BY <2>3, <2>4 DEF KInv
<1> QED
  BY <1>1, <1>2, <1>3, <1>4, <1>5, <1>6, <1>7, <1>8, <1>9, <1>10, <1>11, <1>12, <1>13
     DEF Next, Train, Save

\* No run leaves more checkpoints of a role than it is told to keep, at any moment,
\* after any crash and in whatever order the ranks prune and write.
THEOREM CheckpointsAreFew == Spec => []KeepBound
<1>1. Init => TInv /\ KInv
  BY InitTInv, InitKInv
<1>2. TInv /\ KInv /\ [Next]_vars => TInv' /\ KInv'
  BY NextTInv, NextKInv
<1>3. KInv => KeepBound
  BY DEF KInv
<1> QED
  BY <1>1, <1>2, <1>3, PTL DEF Spec
================================================================================
