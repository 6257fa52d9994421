-------------------------------- MODULE BatchFlow --------------------------------
(***************************************************************************)
(* One batch through RayPPOTrainer.fit, or through _validate: the driver   *)
(* repeats, generates, reorders, scores and balances it, and every call to *)
(* the workers is dispatched to the ranks and collected from them.         *)
(*                                                                         *)
(* The work of a rank between two collective operations is one step, and a *)
(* forward or an optimizer step, which gathers parameters or gradients     *)
(* from all the ranks, is a step of all of them.                           *)
(***************************************************************************)
EXTENDS Dispatch, SeqlenBalancing

CONSTANT
  Setups    \* the jobs considered: records with the fields of SetupFields

SetupFields ==
  {"validate",    \* TRUE: the batch is one of _validate
   "prompts",     \* train_batch_size
   "n",           \* rollout.n
   "replies",     \* what the model may answer: pairs of a length and of being right
   "layout",      \* of the actor's worker group
   "backend",     \* "fsdp" or "megatron"
   "tp",          \* the ranks of one vLLM engine (FSDP)
   "sp",          \* ulysses_sequence_parallel_size (FSDP)
   "polaris",     \* dyn_sampling_polaris
   "balance",     \* balance_batch
   "reference",   \* use_reference_policy
   "critic",      \* use_critic
   "warmup",      \* is the step one of critic_warmup, in which the actor stays?
   "dynamic",     \* use_dynamic_bsz
   "maxTokens",   \* of a micro-batch with use_dynamic_bsz
   "microSize",   \* rows of a micro-batch without
   "miniSize",    \* ppo_mini_batch_size as the worker normalises it
   "epochs"}      \* ppo_epochs

\* A prompt is one token long; a row is as wide as the longest.
PromptLen == 1
Tokens(row) == PromptLen + row.input.len
Width(s) == PromptLen + CHOOSE n \in {a[1] : a \in s.replies} : \A a \in s.replies : a[1] <= n

ASSUME SetupAssumption ==
  \A s \in Setups :
    /\ DOMAIN s = SetupFields
    /\ s.prompts \in Nat \ {0} /\ s.n \in Nat \ {0} /\ s.tp \in Nat \ {0} /\ s.sp \in Nat \ {0}
    /\ s.maxTokens \in Nat \ {0} /\ s.microSize \in Nat \ {0}
    /\ s.miniSize \in Nat \ {0} /\ s.epochs \in Nat \ {0}
    /\ IsFiniteSet(s.replies) /\ s.replies # {} /\ s.replies \subseteq Nat \X BOOLEAN
    /\ s.layout \in Layouts /\ s.backend \in {"fsdp", "megatron"}
    /\ {s.validate, s.polaris, s.balance, s.reference, s.critic, s.warmup, s.dynamic} \subseteq BOOLEAN
    /\ s.backend = "megatron" => s.tp = 1 /\ s.sp = 1 /\ ~s.dynamic /\ ~s.polaris
    /\ WorldSize(s.layout) % s.tp = 0 /\ WorldSize(s.layout) % s.sp = 0
    \* _validate_config: real_train_batch_size divides over the GPUs.
    /\ s.validate \/ (s.prompts * s.n) % WorldSize(s.layout) = 0
    /\ s.dynamic => s.maxTokens >= Width(s)

VARIABLES
  setup,     \* one of Setups
  phase,     \* where the driver is; the name of a method while it waits for it
  batch,     \* the driver's batch
  group,     \* the prompt whose samples the resampling considers next
  rewards,   \* reward_tensor, summed over the tokens
  sent,      \* the rows passed to each rank
  out,       \* what a rank has returned, <<>> before that
  mini,      \* how many mini-batches of this call are done
  plan,      \* each rank's micro-batches of the present mini-batch, lists of
             \* positions; <<>> before they are made
  forwards,  \* how many of them are done
  trained    \* the rows that went into the actor's gradients

vars == <<setup, phase, batch, group, rewards, sent, out, mini, plan, forwards, trained>>
call == <<mini, plan, forwards>>

Ranks == RanksOf(setup.layout)
NoRows == [r \in Ranks |-> <<>>]

Grade(truth, answer) == IF answer.to = truth /\ answer.right THEN 1 ELSE 0

\* The mode a method is registered with.
ModeOf(method) ==
  IF setup.backend = "fsdp" THEN "DP_COMPUTE_PROTO"
  ELSE IF method = "generate_sequences" THEN "MEGATRON_PP_AS_DP_PROTO"
  ELSE "MEGATRON_COMPUTE_PROTO"

\* The rows of b go to the ranks; the chunks must be equal, or chunk's assertion
\* ends the job.
Send(method, waiting, b) ==
  IF CanChunk(b, NumChunks(ModeOf(method), setup.layout))
  THEN /\ phase' = waiting
       /\ sent' = DispatchProto(ModeOf(method), setup.layout, b)
       /\ out' = NoRows /\ mini' = 0 /\ plan' = <<>> /\ forwards' = 0
  ELSE phase' = "raised" /\ UNCHANGED <<sent, out, call>>

Answered == \A r \in Ranks : out[r] # <<>>
Collected(method) == CollectProto(ModeOf(method), setup.layout, out)

Init ==
  /\ setup \in Setups
  /\ phase = "begin" /\ batch = <<>> /\ group = 1 /\ rewards = <<>>
  /\ sent = NoRows /\ out = NoRows /\ trained = <<>>
  /\ mini = 0 /\ plan = <<>> /\ forwards = 0

-----------------------------------------------------------------------------
\* The driver: generation

Prompts == [p \in 1..setup.prompts |-> [prompt |-> p]]

\* fit takes the prompts off the batch and repeats them block after block;
\* _validate repeats the batch itself so, and pads to the world's size.
Begin ==
  /\ phase = "begin"
  /\ LET tiled == Tile(Prompts, setup.n)
     IN  /\ batch' = IF setup.validate THEN tiled ELSE Prompts
         /\ Send("generate_sequences", "generate_sequences",
                 IF setup.validate THEN PadToDivisor(tiled, WorldSize(setup.layout)) ELSE tiled)
  /\ UNCHANGED <<setup, group, rewards, trained>>

Generating == phase \in {"generate_sequences", "resample"}

\* The ranks of one engine: they gather their chunks, all compute the same
\* answers, and each returns those of its own chunk.  A Megatron tensor parallel
\* group has the same chunk in every rank.
Engine(r) ==
  IF setup.backend = "fsdp" THEN [i \in 1..setup.tp |-> r - (r % setup.tp) + i - 1]
                            ELSE [i \in 1..setup.layout.tp |-> r - TpRank(setup.layout, r) + i - 1]
EngineRows(r) ==
  IF setup.backend = "fsdp" THEN Concat([i \in DOMAIN Engine(r) |-> sent[Engine(r)[i]]])
                            ELSE sent[r]
EngineReturns(r, q, answers) ==
  IF setup.backend = "fsdp" THEN Chunk(answers, setup.tp)[(q % setup.tp) + 1] ELSE answers

\* An answer is known by the place it was computed at; one to a row that has an
\* answer goes on from it, since the row's input is then prompt and answer.
Answer(row, place, reply) ==
  [to |-> row.prompt, at |-> place, again |-> "input" \in DOMAIN row,
   len |-> reply[1], right |-> reply[2]]

GenerateSequences(r) ==
  /\ Generating
  /\ r = Engine(r)[1] /\ out[r] = <<>>
  /\ LET rows == EngineRows(r)
     IN  \E reply \in [1..Len(rows) -> setup.replies] :
           LET answers == [i \in 1..Len(rows) |->
                 LET answer == Answer(rows[i], <<r, i>>, reply[i])
                 IN  [input |-> answer, responses |-> answer]]
           IN  out' = [q \in Ranks |-> IF q \in ToSet(Engine(r)) THEN EngineReturns(r, q, answers)
                                                                 ELSE out[q]]
  /\ UNCHANGED <<setup, phase, batch, group, rewards, sent, call, trained>>

\* Mutant: answers and batch agree row by row, block by block.
CollectGeneration_Blocks ==
  /\ phase = "generate_sequences" /\ Answered
  /\ batch' = Union(IF setup.validate THEN batch ELSE Tile(batch, setup.n),
                    Unpad(Collected("generate_sequences"),
                          IF setup.validate THEN PadSize(batch, WorldSize(setup.layout)) ELSE 0))
  /\ phase' = "reward"
  /\ UNCHANGED <<setup, group, rewards, sent, out, call, trained>>

\* The answers come back in blocks; they are put prompt by prompt, as are the
\* repeated rows of the batch they are united with.
CollectGeneration ==
  /\ phase = "generate_sequences" /\ Answered
  /\ LET padding == IF setup.validate THEN PadSize(batch, WorldSize(setup.layout)) ELSE 0
         answers == Unpad(Collected("generate_sequences"), padding)
         indices == Transpose(setup.n, Len(answers) \div setup.n)
         rows    == IF setup.validate THEN Reorder(batch, indices) ELSE Repeat(batch, setup.n)
         columns == Reorder(answers, indices)
     IN  IF CanUnion(rows, columns)
         THEN phase' = "reward" /\ batch' = Union(rows, columns)
         ELSE phase' = "raised" /\ UNCHANGED batch
  /\ UNCHANGED <<setup, group, rewards, sent, out, call, trained>>

Reward ==
  /\ phase = "reward"
  /\ rewards' = [i \in 1..Len(batch) |-> Grade(batch[i].prompt, batch[i].responses)]
  /\ phase' = IF setup.validate THEN "over" ELSE IF setup.polaris THEN "groups" ELSE "balance"
  /\ UNCHANGED <<setup, batch, group, sent, out, call, trained>>

-----------------------------------------------------------------------------
\* The driver: resampling of the prompts whose samples are all alike

GroupRows(g) == ((g - 1) * setup.n + 1)..(g * setup.n)

AllAlike(g) == \A i, j \in GroupRows(g) : rewards[i] = rewards[j]

NextGroup ==
  /\ phase = "groups"
  /\ \/ /\ group <= setup.prompts /\ AllAlike(group)
        /\ Send("generate_sequences", "resample", SubSeq(batch, (group - 1) * setup.n + 1, group * setup.n))
        /\ UNCHANGED group
     \/ /\ group <= setup.prompts /\ ~AllAlike(group)
        /\ group' = group + 1
        /\ UNCHANGED <<phase, sent, out, call>>
     \/ /\ group > setup.prompts
        /\ phase' = "balance"
        /\ UNCHANGED <<group, sent, out, call>>
  /\ UNCHANGED <<setup, batch, rewards, trained>>

\* Written back is what fits the old width: the new responses, but of the new
\* input, which is the old input and its continuation, only the old.  The new
\* rewards go into a reshaped sum that nothing reads any more.
WriteBack ==
  /\ phase = "resample" /\ Answered
  /\ LET answers == Collected("generate_sequences")
         first   == (group - 1) * setup.n
     IN  batch' = [i \in 1..Len(batch) |->
                     IF i \in GroupRows(group)
                     THEN [batch[i] EXCEPT !.responses = answers[i - first].responses]
                     ELSE batch[i]]
  /\ group' = group + 1 /\ phase' = "groups"
  /\ UNCHANGED <<setup, rewards, sent, out, call, trained>>

-----------------------------------------------------------------------------
\* The driver: balancing, the models' columns, advantages and updates

\* The method called after this one.
AfterColumns == "advantages"
AfterReference == IF setup.critic THEN "compute_values" ELSE AfterColumns
AfterOldLogProb == IF setup.reference THEN "compute_ref_log_prob" ELSE AfterReference

Scored == [i \in 1..Len(batch) |->
             [k \in DOMAIN batch[i] \cup {"score"} |-> IF k = "score" THEN rewards[i] ELSE batch[i][k]]]

\* token_level_scores is set, then _balance_batch gives every rank equally many
\* rows with about the same number of tokens.
Balance ==
  /\ phase = "balance"
  /\ LET lens == [i \in 1..Len(batch) |-> Tokens(batch[i])]
         k    == WorldSize(setup.layout)
     IN  IF setup.balance /\ ~CanBalance(lens, k, TRUE)
         THEN phase' = "raised" /\ UNCHANGED <<batch, sent, out, call>>
         ELSE LET balanced == IF setup.balance
                              THEN Reorder(Scored, FlattenSeq(BalancedPartitions(lens, k, TRUE)))
                              ELSE Scored
              IN  batch' = balanced /\ Send("compute_log_prob", "compute_log_prob", balanced)
  /\ UNCHANGED <<setup, group, rewards, trained>>

ColumnMethods == {"compute_log_prob", "compute_ref_log_prob", "compute_values"}
UpdateMethods == {"update_critic", "update_actor"}

KeyOf(method) ==
  CASE method = "compute_log_prob" -> "old_log_probs"
    [] method = "compute_ref_log_prob" -> "ref_log_prob"
    [] method = "compute_values" -> "values"

\* A column is united with the batch and the next method is called.
CollectColumn ==
  /\ phase \in ColumnMethods /\ Answered
  /\ LET column == Collected(phase)
         united == Union(batch, column)
         next   == CASE phase = "compute_log_prob" -> AfterOldLogProb
                     [] phase = "compute_ref_log_prob" -> AfterReference
                     [] phase = "compute_values" -> AfterColumns
     IN  IF ~CanUnion(batch, column)
         THEN phase' = "raised" /\ UNCHANGED <<batch, sent, out, call>>
         ELSE /\ batch' = united
              /\ IF next = "advantages" THEN phase' = next /\ UNCHANGED <<sent, out, call>>
                                        ELSE Send(next, next, united)
  /\ UNCHANGED <<setup, group, rewards, trained>>

\* compute_grpo_outcome_advantage: a row against all the rows of its uid, which
\* is the prompt's.
Advantage(b, i) ==
  LET ofUid == {j \in 1..Len(b) : b[j].prompt = b[i].prompt}
  IN  [own |-> b[i].score,
       group |-> [ones |-> Cardinality({j \in ofUid : b[j].score = 1}), of |-> Cardinality(ofUid)]]

ComputeAdvantage ==
  /\ phase = "advantages"
  /\ LET b == [i \in 1..Len(batch) |->
                 [k \in DOMAIN batch[i] \cup {"advantages"} |->
                    IF k = "advantages" THEN Advantage(batch, i) ELSE batch[i][k]]]
     IN  /\ batch' = b
         /\ IF setup.critic THEN Send("update_critic", "update_critic", b)
            ELSE IF setup.warmup THEN phase' = "over" /\ UNCHANGED <<sent, out, call>>
            ELSE Send("update_actor", "update_actor", b)
  /\ UNCHANGED <<setup, group, rewards, trained>>

\* Updates return metrics only; during the critic's warm-up the actor stays.
CollectUpdate ==
  /\ phase \in UpdateMethods /\ Answered
  /\ IF phase = "update_critic" /\ ~setup.warmup
     THEN Send("update_actor", "update_actor", batch)
     ELSE phase' = "over" /\ UNCHANGED <<sent, out, call>>
  /\ UNCHANGED <<setup, batch, group, rewards, trained>>

-----------------------------------------------------------------------------
\* The ranks: computing a column, or an update

\* The rows a rank works on: the Ulysses manager gathers those of the sp group.
SpGroup(r) == [i \in 1..setup.sp |-> r - (r % setup.sp) + i - 1]
DataOf(r) == Concat([i \in 1..setup.sp |-> sent[SpGroup(r)[i]]])

\* Mutant: the rows beyond the last full block are dropped.
Split_FullOnly(rows, size) ==
  [c \in 1..(Len(rows) \div size) |-> SubSeq(rows, (c - 1) * size + 1, c * size)]

\* torch's split: blocks of size, the last one may be shorter.
Split(rows, size) ==
  [c \in 1..CeilDiv(Len(rows), size) |->
     SubSeq(rows, (c - 1) * size + 1, IF c * size < Len(rows) THEN c * size ELSE Len(rows))]

\* A column is computed over all the rows at once, an update goes through its
\* mini-batches once per epoch.
MiniBatches(r) ==
  IF phase \in ColumnMethods THEN <<DataOf(r)>>
  ELSE FlattenSeq([e \in 1..setup.epochs |-> Split(DataOf(r), setup.miniSize)])

MiniBatch(r) == MiniBatches(r)[mini + 1]
Lens(rows) == [i \in 1..Len(rows) |-> Tokens(rows[i])]

\* A micro-batch's limit of tokens: the critic takes three quarters of it.
MaxTokens ==
  IF phase \in {"compute_values", "update_critic"} THEN (setup.maxTokens * setup.sp * 3) \div 4
                                                   ELSE setup.maxTokens * setup.sp

\* Mutant: each rank goes by its own rows.
NumMicroBatches_Own(r) == WantedMicroBatches(Lens(MiniBatch(r)), MaxTokens)

\* The number of micro-batches is agreed on: the largest any rank wants.
NumMicroBatches(r) ==
  LET wanted == {WantedMicroBatches(Lens(MiniBatch(q)), MaxTokens) : q \in Ranks}
  IN  CHOOSE n \in wanted : \A w \in wanted : w <= n

\* What rearrange_micro_batches asserts: a row as wide as any keeps to the limit,
\* and there are rows enough.
CanRearrange(r) ==
  MaxTokens >= Width(setup) /\ CanBalance(Lens(MiniBatch(r)), NumMicroBatches(r), FALSE)

\* rearrange_micro_batches, or split.
MicroBatches(r) ==
  LET rows == MiniBatch(r)
  IN  IF setup.dynamic THEN BalancedPartitions(Lens(rows), NumMicroBatches(r), FALSE)
                       ELSE Split([i \in 1..Len(rows) |-> i], setup.microSize)

Working == phase \in ColumnMethods \cup UpdateMethods /\ ~Answered

PlanMicroBatches ==
  /\ Working /\ plan = <<>> /\ \A r \in Ranks : mini < Len(MiniBatches(r))
  /\ IF setup.dynamic /\ \E r \in Ranks : ~CanRearrange(r)
     THEN phase' = "raised" /\ UNCHANGED plan
     ELSE plan' = [r \in Ranks |-> MicroBatches(r)] /\ UNCHANGED phase
  /\ UNCHANGED <<setup, batch, group, rewards, sent, out, mini, forwards, trained>>

\* The ranks whose gradients count as those of different rows.
DataParallel(r) ==
  IF setup.backend = "fsdp" THEN r % setup.sp = 0
                            ELSE IsCollected("MEGATRON_COMPUTE_PROTO", setup.layout, r)

\* What the next micro-batches hold, over the ranks.
NextRows ==
  FlattenSeq([i \in 1..Cardinality(Ranks) |->
    LET part == plan[i - 1][forwards + 1]
    IN  IF DataParallel(i - 1) THEN [j \in 1..Len(part) |-> MiniBatch(i - 1)[part[j]]] ELSE <<>>])

\* Mutant: one micro-batch too many.
Forward_Beyond ==
  /\ Working /\ plan # <<>> /\ phase \in ColumnMethods
  /\ \A r \in Ranks : forwards <= Len(plan[r])
  /\ forwards' = forwards + 1
  /\ UNCHANGED <<setup, phase, batch, group, rewards, sent, out, mini, plan, trained>>

\* Every rank must have a micro-batch to go through.
Forward ==
  /\ Working /\ plan # <<>>
  /\ \A r \in Ranks : forwards < Len(plan[r])
  /\ forwards' = forwards + 1
  /\ trained' = IF phase = "update_actor" THEN trained \o NextRows ELSE trained
  /\ UNCHANGED <<setup, phase, batch, group, rewards, sent, out, mini, plan>>

\* The optimizer steps after each mini-batch of an update.
OptimizerStep ==
  /\ phase \in UpdateMethods /\ plan # <<>>
  /\ \A r \in Ranks : forwards = Len(plan[r])
  /\ mini' = mini + 1 /\ plan' = <<>> /\ forwards' = 0
  /\ UNCHANGED <<setup, phase, batch, group, rewards, sent, out, trained>>

\* The result at position i of the micro-batches put one after the other.  The
\* critic masks its values there, with the response mask of the row that is at
\* that position of the batch.
ResultAt(rows, indices, i) ==
  LET input == rows[indices[i]].input
      mask  == rows[i].input.len
  IN  IF phase = "compute_values" THEN [of |-> input, upTo |-> IF mask < input.len THEN mask ELSE input.len]
                                  ELSE input

\* Mutant: the results are put in the order of the micro-batches again.
ColumnOf_NotReverted(r) ==
  LET rows    == MiniBatch(r)
      indices == FlattenSeq(plan[r])
      results == [i \in 1..Len(indices) |-> [k \in {KeyOf(phase)} |-> ResultAt(rows, indices, i)]]
  IN  IF setup.dynamic THEN Reorder(results, indices) ELSE results

\* What is computed for a row depends on its input; the results of the
\* micro-batches are put back in the rows' order.
ColumnOf(r) ==
  LET rows    == MiniBatch(r)
      indices == FlattenSeq(plan[r])
      results == [i \in 1..Len(indices) |-> [k \in {KeyOf(phase)} |-> ResultAt(rows, indices, i)]]
  IN  IF setup.dynamic THEN Reorder(results, ReverseIdx(indices)) ELSE results

Metrics == <<"metrics">>

Return(r) ==
  /\ Working /\ out[r] = <<>>
  /\ \/ /\ phase \in ColumnMethods /\ plan # <<>> /\ forwards = Len(plan[r])
        /\ out' = [out EXCEPT ![r] = Chunk(ColumnOf(r), setup.sp)[(r % setup.sp) + 1]]
     \/ /\ phase \in UpdateMethods /\ plan = <<>> /\ mini = Len(MiniBatches(r))
        /\ out' = [out EXCEPT ![r] = Metrics]
  /\ UNCHANGED <<setup, phase, batch, group, rewards, sent, call, trained>>

-----------------------------------------------------------------------------
Driver ==
  \/ Begin \/ CollectGeneration \/ Reward \/ NextGroup \/ WriteBack
  \/ Balance \/ CollectColumn \/ ComputeAdvantage \/ CollectUpdate
Collective == PlanMicroBatches \/ Forward \/ OptimizerStep
Rank(r) == GenerateSequences(r) \/ Return(r)

Over == phase \in {"over", "raised"} /\ UNCHANGED vars

Next == Driver \/ Collective \/ (\E r \in Ranks : Rank(r)) \/ Over

\* When one of them can go on: ENABLED <<Next>>_vars, spelled out because TLC would
\* compute each partition anew to find out.
DriverReady ==
  \/ phase \in {"begin", "reward", "groups", "balance", "advantages"}
  \/ phase \in {"generate_sequences", "resample"} \cup ColumnMethods \cup UpdateMethods /\ Answered
CollectiveReady ==
  /\ Working
  /\ \/ plan = <<>> /\ \A r \in Ranks : mini < Len(MiniBatches(r))
     \/ plan # <<>> /\ \A r \in Ranks : forwards < Len(plan[r])
     \/ plan # <<>> /\ phase \in UpdateMethods /\ \A r \in Ranks : forwards = Len(plan[r])
RankReady ==
  \E r \in Ranks :
    /\ out[r] = <<>>
    /\ \/ Generating
       \/ phase \in ColumnMethods /\ plan # <<>> /\ forwards = Len(plan[r])
       \/ phase \in UpdateMethods /\ plan = <<>> /\ mini = Len(MiniBatches(r))

\* Driver and ranks are processes that go on, and a collective operation completes
\* once all its ranks are there: WF_vars(Next).
Fairness == <>[](DriverReady \/ CollectiveReady \/ RankReady) => []<><<Next>>_vars

Spec == Init /\ [][Next]_vars /\ Fairness

-----------------------------------------------------------------------------
\* Properties

Has(key) == batch # <<>> /\ key \in DOMAIN batch[1]

Implemented == INSTANCE SampleFlow WITH
  samples <- IF Has("input") THEN ToSet(batch) ELSE {},
  stage   <- IF Has("advantages") THEN "advantages" ELSE IF Has("input") THEN "samples" ELSE "prompts"

\* Whatever rows are moved, repeated, padded, spread over ranks and collected, the
\* batch is a batch of samples as SampleFlow promises: each prompt n times, every
\* column computed from the sample's own input, the advantage from the scores of
\* the prompt's samples (fit's repeat, reorder, union, dispatch and collect).
Implements == Implemented!SSpec

\* The driver's variables have the shapes the code gives them.
FlowTypeOK ==
  /\ setup \in Setups
  /\ phase \in {"begin", "generate_sequences", "reward", "groups", "resample", "balance",
                "advantages", "over", "raised"} \cup ColumnMethods \cup UpdateMethods
  /\ Len(batch) \in {0, setup.prompts, setup.prompts * setup.n}
  /\ \A i \in 1..Len(batch) : DOMAIN batch[i] = DOMAIN batch[1]
  /\ group \in 1..(setup.prompts + 1)
  /\ rewards \in Seq({0, 1}) /\ Len(rewards) \in {0, Len(batch)}
  /\ DOMAIN sent = Ranks /\ DOMAIN out = Ranks
  /\ plan = <<>> \/ DOMAIN plan = Ranks
  /\ \A r \in Ranks : plan # <<>> => forwards \in 0..Len(plan[r])

\* From the union until the rows are balanced, the samples of a prompt are the n
\* neighbouring rows, which group_id, the sums of a prompt's rewards, resampling
\* and the validation's pass@k take them for (ray_trainer.py, reshape(-1, n)).
GroupsTogether ==
  Has("input") /\ (setup.validate \/ ~Has("score")) =>
    \A i \in 1..Len(batch) :
      /\ batch[i].prompt = ((i - 1) \div setup.n) + 1
      /\ batch[i].input.to = batch[i].prompt

RowTokens(rows) == TokensOf(Lens(rows), [i \in 1..Len(rows) |-> i])

\* The largest difference within k rows that follow each other by length.
LargestGap(rows, k) ==
  LET sorted == SortedItems(Lens(rows))
  IN  Max({sorted[k * g][2] - sorted[k * (g - 1) + 1][2] : g \in 1..(Len(rows) \div k)})

\* After _balance_batch no rank has more tokens than another by more than the
\* lengths differ within one of the groups dealt out to the ranks.
RanksBalanced ==
  phase = "compute_log_prob" /\ setup.balance /\ setup.backend = "fsdp" =>
    \A q, r \in Ranks :
      RowTokens(sent[q]) - RowTokens(sent[r]) <= LargestGap(batch, Cardinality(Ranks))

\* With use_dynamic_bsz every rank goes through equally many micro-batches, each
\* row is in one of them, they differ by no more than one row's tokens, and on
\* average they keep to the limit of tokens (rearrange_micro_batches).
MicroBatchesEven ==
  setup.dynamic /\ plan # <<>> /\ Working =>
    \A r \in Ranks :
      LET lens == Lens(MiniBatch(r))
          part(i) == TokensOf(lens, plan[r][i])
      IN  /\ \A q \in Ranks : Len(plan[q]) = Len(plan[r])
          /\ Len(FlattenSeq(plan[r])) = Len(lens) /\ ToSet(FlattenSeq(plan[r])) = 1..Len(lens)
          /\ \A i, j \in DOMAIN plan[r] : part(i) - part(j) <= Max(ToSet(lens))
          /\ RowTokens(MiniBatch(r)) <= Len(plan[r]) * MaxTokens

\* No assertion on lengths, partitions or columns ends a step, except where the
\* n samples of one prompt are sent to ranks that cannot share them equally
\* (DataProto.chunk under the resampling of fit), and where three quarters of the
\* limit do not hold a row, although the limit does (dp_critic.py, 0.75).
RaisesOnlyThere ==
  phase = "raised" =>
    \/ setup.polaris /\ setup.n % Cardinality(Ranks) # 0 /\ ~Has("score")
    \/ /\ setup.critic /\ setup.dynamic /\ Has("old_log_probs") /\ ~Has("values")
       /\ (setup.maxTokens * setup.sp * 3) \div 4 < Width(setup)

\* An update of the actor goes through every row of the batch ppo_epochs times,
\* on exactly one of the ranks that count.
TrainedOnce ==
  phase = "update_actor" /\ Answered =>
    /\ Len(trained) = Len(batch) * setup.epochs
    /\ \A i \in 1..Len(batch) :
         Cardinality({t \in 1..Len(trained) : trained[t] = batch[i]}) = setup.epochs

\* A step ends: no rank waits in a collective operation for one that has gone on.
StepEnds == <>(phase \in {"over", "raised"})

\* A comment over the write-back says that the new results are written to the
\* batch and the reward is updated ("更新 reward"): a row's score is then that of
\* its responses.
ScoreOfResponses ==
  \A i \in 1..Len(batch) :
    Has("score") => batch[i].score = Grade(batch[i].prompt, batch[i].responses)

\* The comment of dispatch_megatron_pp_as_dp draws that a batch ABCDEFGH is
\* collected as ABCDEFGH: an answer is in the row of its prompt.
CollectedInOrder ==
  \A i \in 1..Len(batch) : Has("input") => batch[i].input.to = batch[i].prompt

\* A comment of compute_values calls its values "masked on response": a row has
\* those of all the tokens of its own response.
ValuesMaskedOnResponse ==
  \A i \in 1..Len(batch) : Has("values") => batch[i]["values"].upTo = batch[i].input.len
================================================================================
