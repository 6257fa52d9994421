------------------------------ MODULE MCTrainLoop ------------------------------
(* Values of TrainLoop's constants for TLC. *)
EXTENDS TrainLoop

\* max_actor_ckpt_to_keep and max_critic_ckpt_to_keep
KeepTwo     == [role \in Roles |-> 2]
KeepOne     == [role \in Roles |-> 1]
================================================================================
