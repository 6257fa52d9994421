---------------------------- MODULE MultiTurnRollout ----------------------------
(***************************************************************************)
(* AsyncSGLangRollout.generate_sequences_with_tools: the coroutines of one *)
(* batch of chat requests, each a conversation of several turns with the   *)
(* engine and with tools, interleaved on one event loop.                   *)
(*                                                                         *)
(* A coroutine runs without interruption from one await to the next: the   *)
(* actions below are these segments.  What the coroutines share is the     *)
(* dictionary self.sampling_params, which each of them overrides around    *)
(* its call of the engine, and the instances the tools keep per request.   *)
(*                                                                         *)
(* Of the token lists (input_ids, attention_mask, position_ids, loss_mask, *)
(* which always grow together) the control needs the length and what the   *)
(* last tokens are.  The engine is not sent these lists but the chat       *)
(* template of all messages, whose length is kept apart: it is that of the *)
(* messages, each with its prefix and with its suffix of one token.  Of    *)
(* the sampling parameters only those matter that validation overrides     *)
(* (temperature, top_p, top_k): together they are either as configured or  *)
(* overridden.                                                             *)
(***************************************************************************)
EXTENDS Integers, Sequences, FiniteSets

CONSTANTS
  Reqs,            \* the requests of a batch
  Tools,           \* the tools of the rollout (self._tool_map)
  ToolsOf,         \* ToolsOf[r]: the keys of the request's tools_kwargs
  Calls,           \* the sequences of tool calls the engine's text may parse to
  PromptLen,       \* len(prompt_ids)
  Cuts,            \* how many tokens of a prompt prompt_ids may lack, 0 of a whole one
  CutTails,        \* what prompt_ids may end with where it lacks some
  PrefixLen,       \* tokens of a message's prefix
  GenLens,         \* how many tokens the engine generates
  ToolLen,         \* tokens of a tool's response
  MaxTurns,        \* multi_turn.max_turns
  EngineLen,       \* config.max_model_len
  ModelLen,        \* the request's max_model_len
  Modes,           \* the kinds of batches: "train", "validate"
  MaxBatches       \* bound: how many batches are generated

ASSUME RolloutAssumption ==
  /\ ToolsOf \in [Reqs -> SUBSET Tools]
  /\ Calls \subseteq Seq(Tools) \ {<<>>}
  /\ Cuts \subseteq Nat /\ CutTails \subseteq {"prefix", "suffix", "other"}
  /\ PrefixLen \in Nat \ {0} /\ PrefixLen <= PromptLen
  /\ GenLens \subseteq Nat /\ ToolLen \in Nat
  /\ MaxTurns \in Nat \ {0}
  /\ PromptLen \in Nat /\ ModelLen \in Nat /\ EngineLen \in Nat
  /\ PromptLen < ModelLen /\ ModelLen <= EngineLen
  /\ Modes \subseteq {"train", "validate"} /\ MaxBatches \in Nat

VARIABLES
  params,    \* self.sampling_params: "config" or "override"
  batch,     \* the mode of the batch at work, "none", or "raised" after an exception
  batches,   \* how many batches have begun
  live,      \* live[t]: the requests tool t keeps an instance of
  at,        \* at[r]: the await the coroutine of r is in, "idle" without one
  state,     \* state[r]: AsyncRolloutRequestStateEnum
  turns,     \* turns[r]: current_turns
  finish,    \* finish[r]: finish_reason_type
  old,       \* old[r]: what update_sampling_params rolls back to, "none" if nothing
  used,      \* used[r]: the sampling parameters of the last generation
  todo,      \* todo[r]: the tools, or the calls, that the gather at hand waits for
  talk,      \* talk[r]: the messages after the prompt
  len,       \* len[r]: len(input_ids)
  tail,      \* tail[r]: what input_ids ends with
  cut,       \* cut[r]: how many tokens of the prompt input_ids lacks
  text,      \* text[r]: the tokens of the chat template of all messages
  sent       \* sent[r]: the tokens the engine is sent in the call under way, or 0

shared  == <<params, batch, batches, live>>
tokens  == <<talk, len, tail, cut, text>>
local   == <<state, turns, finish>>
calling == <<at, old, used, sent>>
vars    == <<shared, tokens, local, calling, todo>>

-----------------------------------------------------------------------------
\* Messages and their tokens (AsyncRolloutRequest)

Assistant(calls)  == [role |-> "assistant", calls |-> calls]
ToolMessage(call) == [role |-> "tool", calls |-> <<call>>]

\* A message's prefix is left out where input_ids ends with it already.
Prefixed(r) == IF tail[r] = "prefix" THEN 0 ELSE PrefixLen

\* An end that is neither a prefix nor a suffix raises.
Unsupported(r) == tail[r] \notin {"prefix", "suffix"}

\* The tokens of a tool's message.
Response == PrefixLen + ToolLen + 1

\* The calls whose response is added, as the loop over the results breaks once
\* input_ids is as long as the engine takes.
Responded(r) ==
  LET calls == talk[r][Len(talk[r])].calls
  IN  {i \in DOMAIN calls : i = 1 \/ len[r] + (i - 1) * Response < EngineLen}

Init ==
  /\ params = "config" /\ batch = "none" /\ batches = 0
  /\ live = [t \in Tools |-> {}]
  /\ at = [r \in Reqs |-> "idle"]
  /\ state = [r \in Reqs |-> "pending"]
  /\ turns = [r \in Reqs |-> 0] /\ finish = [r \in Reqs |-> "none"]
  /\ old = [r \in Reqs |-> "none"] /\ used = [r \in Reqs |-> "none"]
  /\ todo = [r \in Reqs |-> {}]
  /\ talk = [r \in Reqs |-> <<>>]
  /\ len = [r \in Reqs |-> PromptLen] /\ tail = [r \in Reqs |-> "prefix"]
  /\ cut = [r \in Reqs |-> 0] /\ sent = [r \in Reqs |-> 0]
  /\ text = [r \in Reqs |-> PromptLen - PrefixLen]

\* _preprocess_prompt_to_async_rollout_requests; then every coroutine starts
\* with the creation of its tools.  A prompt ends with the prefix of the answer;
\* one that is too long is cut in prompt_ids and input_ids, not in the messages.
BeginBatch ==
  /\ batch = "none" /\ batches < MaxBatches
  /\ batch' \in Modes
  /\ batches' = batches + 1
  /\ at' = [r \in Reqs |-> "creating"]
  /\ state' = [r \in Reqs |-> "pending"]
  /\ turns' = [r \in Reqs |-> 0] /\ finish' = [r \in Reqs |-> "none"]
  /\ old' = [r \in Reqs |-> "none"] /\ used' = [r \in Reqs |-> "none"]
  /\ todo' = ToolsOf
  /\ talk' = [r \in Reqs |-> <<>>]
  /\ len' = [r \in Reqs |-> PromptLen]
  /\ cut' \in [Reqs -> Cuts]
  /\ tail' \in [Reqs -> CutTails \cup {"prefix"}]
  /\ \A r \in Reqs : IF cut'[r] = 0 THEN tail'[r] = "prefix" ELSE tail'[r] \in CutTails
  /\ text' = [r \in Reqs |-> PromptLen + cut'[r] - PrefixLen]
  /\ sent' = [r \in Reqs |-> 0]
  /\ UNCHANGED <<params, live>>

\* One tool.create of the gather.
CreateTool(r, t) ==
  /\ at[r] = "creating" /\ t \in todo[r]
  /\ live' = [live EXCEPT ![t] = @ \cup {r}]
  /\ todo' = [todo EXCEPT ![r] = @ \ {t}]
  /\ UNCHANGED <<params, batch, batches, tokens, local, calling>>

\* The engine is called with the template of the messages and the prefix of its
\* answer (get_generation_prompt), and with the shared dictionary after
\* update_sampling_params is entered: nothing is awaited in between.
Enter(r) ==
  /\ at' = [at EXCEPT ![r] = "generating"]
  /\ IF batch = "validate"
     THEN params' = "override" /\ old' = [old EXCEPT ![r] = params]
     ELSE params' = params /\ old' = [old EXCEPT ![r] = "none"]
  /\ used' = [used EXCEPT ![r] = params']
  /\ sent' = [sent EXCEPT ![r] = text'[r] + PrefixLen]

\* All tools are created.
Created(r) ==
  /\ at[r] = "creating" /\ todo[r] = {}
  /\ state' = [state EXCEPT ![r] = "running"]
  /\ UNCHANGED <<batch, batches, live, turns, finish, tokens, todo>>
  /\ Enter(r)

\* Mutants: the loop's end does not override the finish reason; the tools are
\* not released when the last turn calls one.
LeaveAsIs(r, f, n) ==
  /\ at' = [at EXCEPT ![r] = "rewarding"]
  /\ todo' = [todo EXCEPT ![r] = ToolsOf[r]]
  /\ finish' = [finish EXCEPT ![r] = f]

LeaveUnreleased(r, f, n) ==
  /\ at' = [at EXCEPT ![r] = "rewarding"]
  /\ todo' = [todo EXCEPT ![r] = IF f = "tool_calls" THEN {} ELSE ToolsOf[r]]
  /\ finish' = [finish EXCEPT ![r] = IF n >= MaxTurns THEN "stop" ELSE f]

\* Out of the loop, after n turns and with finish reason f: the rewards are
\* calculated and the tools released, for all of them at once.
Leave(r, f, n) ==
  /\ at' = [at EXCEPT ![r] = "rewarding"]
  /\ todo' = [todo EXCEPT ![r] = ToolsOf[r]]
  /\ finish' = [finish EXCEPT ![r] = IF n >= MaxTurns THEN "stop" ELSE f]

\* Mutant: everything is rolled back, overridden or not.
RollbackAlways(r) ==
  /\ params' = old[r]
  /\ old' = [old EXCEPT ![r] = "none"]
  /\ sent' = [sent EXCEPT ![r] = 0]

\* The engine's output arrives, and the parameters are rolled back.
Rollback(r) ==
  /\ params' = IF old[r] = "none" THEN params ELSE old[r]
  /\ old' = [old EXCEPT ![r] = "none"]
  /\ sent' = [sent EXCEPT ![r] = 0]

\* Mutant: the prefix is added to input_ids although they end with it.
AddAssistantPrefixed(r, calls, n) ==
  /\ talk' = [talk EXCEPT ![r] = Append(@, Assistant(calls))]
  /\ len' = [len EXCEPT ![r] = @ + n + PrefixLen]
  /\ text' = [text EXCEPT ![r] = @ + n + PrefixLen]
  /\ UNCHANGED cut

\* A message of n tokens after its prefix, with which input_ids may end already.
AddAssistant(r, calls, n) ==
  /\ talk' = [talk EXCEPT ![r] = Append(@, Assistant(calls))]
  /\ len' = [len EXCEPT ![r] = @ + n + Prefixed(r)]
  /\ text' = [text EXCEPT ![r] = @ + n + PrefixLen]
  /\ UNCHANGED cut

\* A text that the engine cut at its length limit ends the request.
OutputOverlong(r) ==
  /\ at[r] = "generating" /\ ~Unsupported(r)
  /\ Rollback(r)
  /\ \E n \in GenLens : AddAssistant(r, <<>>, n)
  /\ tail' = [tail EXCEPT ![r] = "other"]
  /\ turns' = [turns EXCEPT ![r] = @ + 1]
  /\ Leave(r, "length", turns'[r])
  /\ UNCHANGED <<batch, batches, live, state, used>>

\* Mutant: no break after a tool call that does not parse: the loop spins, as it
\* does nothing for a completed request.
OutputTextSpins(r) ==
  /\ at[r] = "generating" /\ ~Unsupported(r)
  /\ Rollback(r)
  /\ \E n \in GenLens : AddAssistant(r, <<>>, n + 1)
  /\ tail' = [tail EXCEPT ![r] = "suffix"]
  /\ turns' = [turns EXCEPT ![r] = @ + 1]
  /\ \/ /\ UNCHANGED state
        /\ Leave(r, "stop", turns'[r])
     \/ /\ state' = [state EXCEPT ![r] = "completed"]
        /\ at' = [at EXCEPT ![r] = "idle"]
        /\ UNCHANGED <<finish, todo>>
  /\ UNCHANGED <<batch, batches, live, used>>

\* A text without a tool call ends it, and so does one whose tool call does not
\* parse.
OutputText(r) ==
  /\ at[r] = "generating" /\ ~Unsupported(r)
  /\ Rollback(r)
  /\ \E n \in GenLens : AddAssistant(r, <<>>, n + 1)
  /\ tail' = [tail EXCEPT ![r] = "suffix"]
  /\ turns' = [turns EXCEPT ![r] = @ + 1]
  /\ \/ UNCHANGED state
     \/ state' = [state EXCEPT ![r] = "completed"]
  /\ Leave(r, "stop", turns'[r])
  /\ UNCHANGED <<batch, batches, live, used>>

\* A text with tool calls: they are executed if there is a turn left.
OutputCalls(r) ==
  /\ at[r] = "generating" /\ ~Unsupported(r)
  /\ Rollback(r)
  /\ tail' = [tail EXCEPT ![r] = "suffix"]
  /\ turns' = [turns EXCEPT ![r] = @ + 1]
  /\ state' = [state EXCEPT ![r] = "tool_calling"]
  /\ \E n \in GenLens, calls \in Calls :
       /\ AddAssistant(r, calls, n + 1)
       /\ IF turns'[r] >= MaxTurns
          THEN Leave(r, "tool_calls", turns'[r]) /\ UNCHANGED batch
          ELSE /\ finish' = [finish EXCEPT ![r] = "tool_calls"]
               /\ at' = [at EXCEPT ![r] = "executing"]
               /\ todo' = [todo EXCEPT ![r] = DOMAIN calls]
               \* a tool the request has no kwargs of is a KeyError
               /\ batch' = IF \E i \in DOMAIN calls : calls[i] \notin ToolsOf[r]
                           THEN "raised" ELSE batch
  /\ UNCHANGED <<batches, live, used>>

\* input_ids ends neither with a prefix nor with a suffix: the message cannot be
\* added, and the exception leaves generate_sequences_with_tools.  The turn the
\* request has counted is lost with it.
OutputRaises(r) ==
  /\ at[r] = "generating" /\ Unsupported(r)
  /\ Rollback(r)
  /\ batch' = "raised"
  /\ UNCHANGED <<batches, live, local, at, used, todo, tokens>>

\* An exception of the engine leaves update_sampling_params before the rollback.
EngineRaises(r) ==
  /\ at[r] = "generating"
  /\ batch' = "raised"
  /\ UNCHANGED <<params, batches, live, local, calling, todo, tokens>>

\* An exception of a tool, of whichever of its methods is awaited, leaves the
\* gather and with it the batch.
ToolRaises(r) ==
  /\ at[r] \in {"creating", "executing", "rewarding"} /\ todo[r] # {}
  /\ batch' = "raised"
  /\ UNCHANGED <<params, batches, live, local, calling, todo, tokens>>

\* One tool.execute of the gather.
ExecuteTool(r, i) ==
  /\ at[r] = "executing" /\ i \in todo[r]
  /\ todo' = [todo EXCEPT ![r] = @ \ {i}]
  /\ UNCHANGED <<shared, local, calling, tokens>>

AddResponses(r, added) ==
  LET calls == talk[r][Len(talk[r])].calls
  IN  /\ talk' = [talk EXCEPT ![r] =
                    @ \o [i \in 1 .. Cardinality(added) |-> ToolMessage(calls[i])]]
      /\ len' = [len EXCEPT ![r] = @ + Cardinality(added) * Response]
      /\ text' = [text EXCEPT ![r] = @ + Cardinality(added) * Response]
      /\ tail' = [tail EXCEPT ![r] = "suffix"]
      /\ UNCHANGED cut

\* Mutant: the results are taken up when the first of them is there.
ExecutedFirst(r) ==
  /\ at[r] = "executing"
  /\ \E i \in DOMAIN talk[r][Len(talk[r])].calls : i \notin todo[r]
  /\ AddResponses(r, {i \in Responded(r) : i \notin todo[r]})
  /\ IF len'[r] >= EngineLen
     THEN /\ Leave(r, "stop", turns[r])
          /\ UNCHANGED <<params, old, used, sent, state>>
     ELSE /\ state' = [state EXCEPT ![r] = "running"]
          /\ Enter(r)
          /\ UNCHANGED <<finish, todo>>
  /\ UNCHANGED <<batch, batches, live, turns>>

\* Mutant: the length is not looked at after the responses.
ExecutedUnchecked(r) ==
  /\ at[r] = "executing" /\ todo[r] = {}
  /\ AddResponses(r, Responded(r))
  /\ state' = [state EXCEPT ![r] = "running"]
  /\ Enter(r)
  /\ UNCHANGED <<batch, batches, live, turns, finish, todo>>

\* All results are there: the next turn, unless input_ids is too long.
Executed(r) ==
  /\ at[r] = "executing" /\ todo[r] = {}
  /\ AddResponses(r, Responded(r))
  /\ IF len'[r] >= EngineLen
     THEN /\ Leave(r, "stop", turns[r])
          /\ UNCHANGED <<params, old, used, sent, state>>
     ELSE /\ state' = [state EXCEPT ![r] = "running"]
          /\ Enter(r)
          /\ UNCHANGED <<finish, todo>>
  /\ UNCHANGED <<batch, batches, live, turns>>

\* calc_reward and release of one tool.
ReleaseTool(r, t) ==
  /\ at[r] = "rewarding" /\ t \in todo[r]
  /\ live' = [live EXCEPT ![t] = @ \ {r}]
  /\ todo' = [todo EXCEPT ![r] = @ \ {t}]
  /\ UNCHANGED <<params, batch, batches, local, calling, tokens>>

\* finalize: a finish reason other than these two raises.
Finalize(r) ==
  /\ at[r] = "rewarding" /\ todo[r] = {}
  /\ state' = [state EXCEPT ![r] = "completed"]
  /\ IF finish[r] \in {"stop", "length"}
     THEN /\ at' = [at EXCEPT ![r] = "done"]
          /\ len' = [len EXCEPT ![r] = IF @ > ModelLen THEN ModelLen ELSE @]
          /\ UNCHANGED batch
     ELSE /\ batch' = "raised"
          /\ UNCHANGED <<at, len>>
  /\ UNCHANGED <<params, batches, live, turns, finish, old, used, sent, todo, talk, tail, cut, text>>

\* All coroutines are done: the batch is put together from all requests.
Return ==
  /\ batch \in Modes
  /\ \A r \in Reqs : at[r] = "done"
  /\ batch' = "none"
  /\ UNCHANGED <<params, batches, live, tokens, local, calling, todo>>

\* After an exception no coroutine runs any more: the loop is left.
Coroutine(r) ==
  /\ batch \in Modes
  /\ \/ Created(r)
     \/ OutputOverlong(r)
     \/ OutputText(r)
     \/ OutputCalls(r)
     \/ OutputRaises(r)
     \/ EngineRaises(r)
     \/ ToolRaises(r)
     \/ Executed(r)
     \/ Finalize(r)
     \/ \E t \in Tools : CreateTool(r, t) \/ ReleaseTool(r, t)
     \/ \E i \in todo[r] : ExecuteTool(r, i)

Next == BeginBatch \/ Return \/ \E r \in Reqs : Coroutine(r)

\* The event loop runs every coroutine whose await is answered, and the engine
\* and the tools answer, with a result or an exception.
Fairness == WF_vars(Return) /\ \A r \in Reqs : WF_vars(Coroutine(r))

Spec == Init /\ [][Next]_vars /\ Fairness

-----------------------------------------------------------------------------

RolloutTypeOK ==
  /\ params \in {"config", "override"}
  /\ batch \in Modes \cup {"none", "raised"}
  /\ batches \in 0 .. MaxBatches
  /\ live \in [Tools -> SUBSET Reqs]
  /\ at \in [Reqs -> {"idle", "creating", "generating", "executing", "rewarding", "done"}]
  /\ state \in [Reqs -> {"pending", "running", "tool_calling", "completed"}]
  /\ turns \in [Reqs -> 0 .. MaxTurns]
  /\ finish \in [Reqs -> {"none", "stop", "length", "tool_calls"}]
  /\ old \in [Reqs -> {"none", "config", "override"}]
  /\ used \in [Reqs -> {"none", "config", "override"}]
  /\ todo \in [Reqs -> (SUBSET Tools) \cup (SUBSET Nat)]
  /\ len \in [Reqs -> Nat]
  /\ tail \in [Reqs -> {"prefix", "suffix", "other"}]
  /\ cut \in [Reqs -> Cuts \cup {0}] /\ text \in [Reqs -> Nat] /\ sent \in [Reqs -> Nat]
  /\ \A r \in Reqs : \A j \in DOMAIN talk[r] : talk[r][j].role \in {"assistant", "tool"}

\* A training batch is sampled as configured: what validation has overridden is
\* rolled back ("roll back to previous sampling params").
TrainsAsConfigured ==
  batch = "train" => \A r \in Reqs : at[r] = "generating" => used[r] = "config"

\* A request has an instance of each of its tools from before its first
\* generation until its last, also while it executes calls; when it is finalized
\* none is left, nor is one between batches (create, execute, release).
ToolsHeld ==
  /\ \A r \in Reqs, t \in Tools :
       /\ at[r] \in {"generating", "executing"} /\ t \in ToolsOf[r] => r \in live[t]
       /\ at[r] \in {"idle", "done"} => r \notin live[t]
  /\ batch = "none" => live = [t \in Tools |-> {}]

\* finalize is never given a finish reason it does not know: a request that ends
\* in the middle of tool calls has run out of turns, which counts as a stop.
FinishKnown ==
  \A r \in Reqs : at[r] = "rewarding" => finish[r] \in {"stop", "length"}

\* The engine never sees a call without all of its responses: between one
\* assistant message and the next stand the responses to exactly its calls, in
\* their order, whichever order the tools answered in.
CallsAnswered ==
  \A r \in Reqs : \A j, k \in DOMAIN talk[r] :
     /\ j < k
     /\ talk[r][j].role = "assistant" /\ talk[r][k].role = "assistant"
     /\ \A i \in j + 1 .. k - 1 : talk[r][i].role = "tool"
     => /\ k - j - 1 = Len(talk[r][j].calls)
        /\ \A i \in 1 .. (k - j - 1) : talk[r][j + i].calls = <<talk[r][j].calls[i]>>

\* What a request records is what the engine saw: over all turns, input_ids with
\* the prefix of the answer to come are as long as the template of the messages
\* that the call under way was sent (get_generation_prompt against the sums of
\* add_assistant_message and add_tool_response_message), if the prompt was whole.
SentAsRecorded ==
  \A r \in Reqs : at[r] = "generating" /\ cut[r] = 0 => sent[r] = len[r] + Prefixed(r)

\* The room left is looked up in input_ids, the engine is sent the template: what
\* it is sent is beyond what it takes by less than the prefix of its answer and
\* what was cut from the prompt, however long the conversation has become.
RoomToGenerate ==
  \A r \in Reqs : at[r] = "generating" => sent[r] < EngineLen + PrefixLen + cut[r]

\* Every batch that is begun comes to its end, or to an exception.
BatchEnds == (batch \in Modes) ~> (batch \in {"none", "raised"})
================================================================================
