------------------------------ MODULE ResumePoint ------------------------------
(***************************************************************************)
(* What checkpointing promises a training job, without files or ranks: the *)
(* job counts the optimizer steps it has completed, now and then makes the *)
(* count stable, and when it fails continues from the last stable count.   *)
(*                                                                         *)
(* The promise is not unconditional: while the tracker file is being       *)
(* rewritten there is no stable count, and a job that fails in this window *)
(* is not resumed.                                                         *)
(***************************************************************************)
EXTENDS Integers

CONSTANTS Down, Lost      \* no job is running; nothing to resume from.
                          \* Neither is a number of steps.

VARIABLES
  stable,   \* the step a new job continues from
  done      \* how many steps the running job's models have behind them

vars == <<stable, done>>

Init == stable = 0 /\ done = Down

\* A job takes up exactly where the stable count is.
Resume ==
  /\ done = Down /\ stable # Lost
  /\ done' = stable
  /\ UNCHANGED stable

\* One optimizer step, never two and never one of them again.
Step ==
  /\ done # Down
  /\ done' = done + 1
  /\ UNCHANGED stable

\* The stable count is given up, and set to what the job has done since.
BeginSave ==
  /\ done # Down
  /\ stable # Lost /\ stable < done
  /\ stable' = Lost
  /\ UNCHANGED done

EndSave ==
  /\ done # Down /\ stable = Lost
  /\ stable' = done
  /\ UNCHANGED done

\* A job fails, or ends.
Stop ==
  /\ done # Down
  /\ done' = Down
  /\ UNCHANGED stable

Next == Resume \/ Step \/ BeginSave \/ EndSave \/ Stop

Spec == Init /\ [][Next]_vars
================================================================================
