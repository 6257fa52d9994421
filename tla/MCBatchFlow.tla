------------------------------- MODULE MCBatchFlow -------------------------------
(* Jobs for TLC: a small one, and what each of the others differs in. *)
EXTENDS BatchFlow

Dp(n) == [tp |-> 1, cp |-> 1, dp |-> n, pp |-> 1]

Short == <<1, FALSE>>
Long  == <<4, TRUE>>
Right == <<2, TRUE>>

Base ==
  [validate |-> FALSE, prompts |-> 2, n |-> 2, replies |-> {Short, Long},
   layout |-> Dp(2), backend |-> "fsdp", tp |-> 1, sp |-> 1,
   polaris |-> FALSE, balance |-> TRUE, reference |-> TRUE, critic |-> FALSE, warmup |-> FALSE,
   dynamic |-> TRUE, maxTokens |-> 6, microSize |-> 1, miniSize |-> 1, epochs |-> 2]

\* Three prompts and rows on a rank: an order and its inverse differ.
Three == [Base EXCEPT !.prompts = 3, !.replies = {Short, Right, Long}, !.maxTokens = 7,
                      !.miniSize = 2, !.epochs = 1, !.reference = FALSE]

\* One rank with all of the rows.
Alone == [Base EXCEPT !.layout = Dp(1), !.n = 3, !.replies = {Short, Right, Long},
                      !.maxTokens = 7, !.miniSize = 4]

\* Engines of two ranks and sequence parallelism over two.
Parallel == [Base EXCEPT !.layout = Dp(4), !.tp = 2, !.sp = 2, !.n = 4, !.epochs = 1, !.reference = FALSE]

\* With a critic and micro-batches of two rows; with one and too low a limit; in
\* its warm-up.
Critic == [Base EXCEPT !.critic = TRUE, !.dynamic = FALSE, !.n = 4, !.microSize = 2, !.miniSize = 3]
CriticTight == [Base EXCEPT !.critic = TRUE]
CriticWarmup == [Critic EXCEPT !.warmup = TRUE, !.n = 2, !.reference = FALSE]

\* Megatron, tensor and pipeline parallel, with one data-parallel rank or one stage.
Megatron == [Base EXCEPT !.backend = "megatron", !.dynamic = FALSE,
                         !.layout = [tp |-> 2, cp |-> 1, dp |-> 2, pp |-> 1]]
Pipeline == [Megatron EXCEPT !.layout = [tp |-> 1, cp |-> 1, dp |-> 1, pp |-> 2], !.balance = FALSE]

Polaris == [Base EXCEPT !.polaris = TRUE, !.reference = FALSE]
\* ... whose ranks cannot share the two samples of a prompt.
PolarisWide == [Polaris EXCEPT !.layout = Dp(4), !.prompts = 2, !.miniSize = 1]

\* Validation of three prompts twice on four ranks, and of one on four.
Validation == [Base EXCEPT !.validate = TRUE, !.prompts = 3, !.layout = Dp(4), !.tp = 2]
Padded == [Validation EXCEPT !.prompts = 1, !.n = 1, !.tp = 1]

Jobs == {Base, Three, Alone, Parallel, Critic, CriticTight, CriticWarmup, Megatron,
         Pipeline, Polaris, PolarisWide, Validation, Padded}

PolarisJob == {Polaris}

\* A critic with dynamic micro-batches.
CriticJob == {[Alone EXCEPT !.critic = TRUE, !.n = 2]}

\* Two data-parallel ranks of two pipeline stages each.
PipelineJob == {[Pipeline EXCEPT !.layout.dp = 2]}
================================================================================
