------------------------------ MODULE MCNoisyTraining ------------------------------
(* Jobs for TLC: a small one, and what each of the others differs in. *)
EXTENDS NoisyTraining

Two == {1, 2}

\* One engine of two processes on two nodes, everything offloaded, noise in every pass.
Base ==
  [pools |-> <<<<1, 1>>>>, gpus |-> 2, tp |-> 2, mode |-> "sync", tags |-> TRUE,
   offload |-> {"actor", "actor_optim", "critic", "critic_optim"}, critic |-> FALSE,
   apply |-> "all", adaptive |-> FALSE, window |-> <<1, 9>>, kl |-> TRUE,
   valNoise |-> TRUE, analysis |-> FALSE, reference |-> FALSE, warmup |-> 0, valBefore |-> FALSE,
   resample |-> FALSE, restarts |-> TRUE, steps |-> 3, saveEvery |-> 2, testEvery |-> 2]

\* Two engines, and the controller of the noise from step 3 on.
Adaptive == [Base EXCEPT !.tp = 1, !.critic = TRUE, !.adaptive = TRUE, !.window = <<3, 4>>,
                         !.apply = "update_only", !.kl = FALSE, !.steps = 5, !.testEvery = 0]
\* ... until step 3, on the rollout alone, while the critic warms up.
Warmup == [Adaptive EXCEPT !.apply = "rollout_only", !.window = <<1, 3>>, !.warmup = 3,
                           !.steps = 4, !.saveEvery = 3]
\* ... with a reference policy, after which the quantiles are missed.
Reference == [Adaptive EXCEPT !.reference = TRUE, !.steps = 1]

\* The resampling, under the noise of the rollout.
Resample == [Base EXCEPT !.resample = TRUE, !.restarts = FALSE, !.steps = 2, !.saveEvery = 0,
                         !.testEvery = 0, !.apply = "rollout_only", !.kl = FALSE]

\* Actor and critic in pools of their own.
Pools2 == [Base EXCEPT !.pools = <<<<1>>, <<1>>>>, !.tp = 1, !.critic = TRUE, !.gpus = 1,
                       !.apply = "none", !.kl = FALSE, !.reference = TRUE, !.steps = 2]

\* The analysis of the validation, which may raise in a process.
Analysis == [Base EXCEPT !.analysis = TRUE, !.valNoise = FALSE, !.valBefore = TRUE, !.steps = 2,
                         !.tags = FALSE]

\* Asynchronous engines.
Async == [Base EXCEPT !.mode = "async", !.apply = "update_only", !.kl = FALSE, !.valNoise = FALSE]
AsyncCritic == [Async EXCEPT !.tp = 1, !.critic = TRUE, !.valBefore = TRUE, !.steps = 2]

\* Two engines of two processes.
Four == [Base EXCEPT !.pools = <<<<2, 2>>>>, !.critic = TRUE, !.restarts = FALSE, !.steps = 1,
                     !.testEvery = 0, !.saveEvery = 0, !.offload = {}, !.kl = FALSE, !.apply = "none"]

AllJobs == {Base, Adaptive, Warmup, Reference, Resample, Pools2, Analysis, Async, AsyncCritic, Four}
================================================================================
