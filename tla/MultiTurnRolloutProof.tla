-------------------------- MODULE MultiTurnRolloutProof --------------------------
(***************************************************************************)
(* Proofs about MultiTurnRollout, for any number of requests, tools, turns *)
(* and batches, any tool calls and any lengths.                            *)
(***************************************************************************)
EXTENDS MultiTurnRollout, TLAPS, FiniteSetTheorems, SequenceTheorems, WellFoundedInduction

-----------------------------------------------------------------------------
\* Types

Message == [role : {"assistant", "tool"}, calls : Seq(Tools)]

LastCalls(r) == talk[r][Len(talk[r])].calls

\* How far a request is: what the segments of its coroutine leave behind.
Progress ==
  \A r \in Reqs :
    /\ at[r] = "creating" => turns[r] = 0 /\ talk[r] = <<>>
    /\ at[r] \in {"generating", "executing"} => turns[r] < MaxTurns
    /\ at[r] = "executing" =>
         /\ talk[r] # <<>> /\ talk[r][Len(talk[r])].role = "assistant"
         /\ LastCalls(r) \in Calls

Awaits == {"idle", "creating", "generating", "executing", "rewarding", "done"}

\* The types of the variables but talk, whose messages are typed here.
VarTypes ==
  /\ params \in {"config", "override"}
  /\ batch \in Modes \cup {"none", "raised"}
  /\ batches \in 0 .. MaxBatches
  /\ live \in [Tools -> SUBSET Reqs]
  /\ at \in [Reqs -> Awaits]
  /\ state \in [Reqs -> {"pending", "running", "tool_calling", "completed"}]
  /\ turns \in [Reqs -> 0 .. MaxTurns]
  /\ finish \in [Reqs -> {"none", "stop", "length", "tool_calls"}]
  /\ old \in [Reqs -> {"none", "config", "override"}]
  /\ used \in [Reqs -> {"none", "config", "override"}]
  /\ todo \in [Reqs -> (SUBSET Tools) \cup (SUBSET Nat)]
  /\ len \in [Reqs -> Nat]
  /\ tail \in [Reqs -> {"prefix", "suffix", "other"}]
  /\ cut \in [Reqs -> Cuts \cup {0}] /\ text \in [Reqs -> Nat] /\ sent \in [Reqs -> Nat]

TypeInv == VarTypes /\ talk \in [Reqs -> Seq(Message)] /\ Progress

\* The calls that are responded to are some of the last message's.
LEMMA RespondedFinite ==
  ASSUME TypeInv, NEW r \in Reqs, at[r] = "executing"
  PROVE  /\ LastCalls(r) \in Seq(Tools) /\ Len(LastCalls(r)) > 0
         /\ Responded(r) \subseteq 1 .. Len(LastCalls(r))
         /\ IsFiniteSet(Responded(r)) /\ Cardinality(Responded(r)) \in Nat
         /\ Cardinality(Responded(r)) <= Len(LastCalls(r))
<1>1. LastCalls(r) \in Seq(Tools) /\ LastCalls(r) # <<>>
  BY RolloutAssumption DEF TypeInv, Progress
<1>2. Responded(r) \subseteq 1 .. Len(LastCalls(r))
  BY <1>1 DEF Responded, LastCalls
<1>3. IsFiniteSet(1 .. Len(LastCalls(r))) /\ Cardinality(1 .. Len(LastCalls(r))) = Len(LastCalls(r))
  BY <1>1, FS_Interval
<1> QED
  BY <1>1, <1>2, <1>3, FS_Subset, FS_CardinalityType

\* What an assistant message does to the conversation and its tokens.
LEMMA AddAssistantType ==
  ASSUME TypeInv, NEW r \in Reqs, NEW c \in Seq(Tools), NEW n \in Nat, AddAssistant(r, c, n)
  PROVE  /\ talk' \in [Reqs -> Seq(Message)] /\ len' \in [Reqs -> Nat]
         /\ text' \in [Reqs -> Nat] /\ cut' = cut
         /\ talk'[r] = Append(talk[r], Assistant(c))
         /\ \A s \in Reqs \ {r} : talk'[s] = talk[s]
<1>1. Assistant(c) \in Message
  BY DEF Assistant, Message
<1>2. len[r] + n + Prefixed(r) \in Nat /\ text[r] + n + PrefixLen \in Nat
  BY RolloutAssumption DEF TypeInv, VarTypes, Prefixed
<1> QED
  BY <1>1, <1>2 DEF AddAssistant, TypeInv, VarTypes

\* What the responses of tools do to them.
LEMMA AddResponsesType ==
  ASSUME TypeInv, NEW r \in Reqs, at[r] = "executing", AddResponses(r, Responded(r))
  PROVE  /\ talk' \in [Reqs -> Seq(Message)] /\ len' \in [Reqs -> Nat]
         /\ tail' \in [Reqs -> {"prefix", "suffix", "other"}]
         /\ text' \in [Reqs -> Nat] /\ cut' = cut
         /\ \A s \in Reqs \ {r} : talk'[s] = talk[s]
<1> DEFINE k == Cardinality(Responded(r))
           added == [i \in 1 .. k |-> ToolMessage(LastCalls(r)[i])]
<1>1. k \in Nat /\ k <= Len(LastCalls(r)) /\ LastCalls(r) \in Seq(Tools)
  BY RespondedFinite
<1>2. added \in Seq(Message)
  <2>1. \A i \in 1 .. k : LastCalls(r)[i] \in Tools
    BY <1>1
  <2>2. \A i \in 1 .. k : ToolMessage(LastCalls(r)[i]) \in Message
    BY <2>1 DEF ToolMessage, Message
  <2> HIDE DEF k
  <2> QED
    BY <1>1, <2>2
<1>3. talk' = [talk EXCEPT ![r] = @ \o added]
  BY DEF AddResponses, LastCalls
<1>4. talk[r] \o added \in Seq(Message)
  BY <1>2 DEF TypeInv
<1>5. k * Response \in Nat
  BY <1>1, RolloutAssumption DEF Response
<1>6. len[r] + k * Response \in Nat /\ text[r] + k * Response \in Nat
  BY <1>5 DEF TypeInv, VarTypes
<1>7. /\ len' = [len EXCEPT ![r] = @ + k * Response] /\ tail' = [tail EXCEPT ![r] = "suffix"]
      /\ text' = [text EXCEPT ![r] = @ + k * Response] /\ cut' = cut
  BY DEF AddResponses
<1> HIDE DEF k, added
<1> QED
  BY <1>3, <1>4, <1>6, <1>7 DEF TypeInv, VarTypes

\* What is not touched of a request stays as far as it is.
LEMMA ProgressOfOthers ==
  ASSUME Progress, NEW r \in Reqs,
         \A s \in Reqs \ {r} : /\ at'[s] = at[s] /\ turns'[s] = turns[s]
                               /\ talk'[s] = talk[s],
         at'[r] = "creating" => turns'[r] = 0 /\ talk'[r] = <<>>,
         at'[r] \in {"generating", "executing"} => turns'[r] < MaxTurns,
         at'[r] = "executing" =>
           /\ talk'[r] # <<>> /\ talk'[r][Len(talk'[r])].role = "assistant"
           /\ talk'[r][Len(talk'[r])].calls \in Calls
  PROVE  Progress'
BY DEF Progress, LastCalls

\* The helpers of the segments, and the types of what they assign.
LEMMA EnterType ==
  ASSUME VarTypes, NEW r \in Reqs, Enter(r), text' \in [Reqs -> Nat]
  PROVE  /\ at' \in [Reqs -> Awaits] /\ at'[r] = "generating"
         /\ \A s \in Reqs \ {r} : at'[s] = at[s]
         /\ params' \in {"config", "override"}
         /\ old' \in [Reqs -> {"none", "config", "override"}]
         /\ used' \in [Reqs -> {"none", "config", "override"}]
         /\ sent' \in [Reqs -> Nat]
<1>1. text'[r] + PrefixLen \in Nat
  BY RolloutAssumption
<1> QED
  BY <1>1 DEF VarTypes, Enter, Awaits

\* A request that leaves its loop has left for the rewards, and nothing has another type.
LEMMA LeaveType ==
  ASSUME VarTypes, NEW r \in Reqs, NEW n \in Nat,
         NEW f \in {"stop", "length", "tool_calls"}, Leave(r, f, n)
  PROVE  /\ at' \in [Reqs -> Awaits] /\ at'[r] = "rewarding"
         /\ \A s \in Reqs \ {r} : at'[s] = at[s]
         /\ todo' \in [Reqs -> (SUBSET Tools) \cup (SUBSET Nat)]
         /\ finish' \in [Reqs -> {"none", "stop", "length", "tool_calls"}]
<1>1. ToolsOf[r] \in (SUBSET Tools) \cup (SUBSET Nat)
  BY RolloutAssumption
<1>2. todo' \in [Reqs -> (SUBSET Tools) \cup (SUBSET Nat)]
  BY <1>1 DEF VarTypes, Leave
<1> QED
  BY <1>2 DEF VarTypes, Leave, Awaits

\* A request that puts the sampling parameters back leaves parameters there are.
LEMMA RollbackType ==
  ASSUME VarTypes, NEW r \in Reqs, Rollback(r)
  PROVE  /\ params' \in {"config", "override"}
         /\ old' \in [Reqs -> {"none", "config", "override"}]
         /\ sent' \in [Reqs -> Nat]
BY DEF VarTypes, Rollback

\* A request whose text ends it: as OutputOverlong and OutputText have it.
LEMMA EndOfRequestType ==
  ASSUME TypeInv, NEW r \in Reqs, at[r] = "generating", Rollback(r),
         NEW n \in Nat, AddAssistant(r, <<>>, n),
         turns' = [turns EXCEPT ![r] = @ + 1],
         NEW f \in {"stop", "length", "tool_calls"}, Leave(r, f, turns'[r]),
         tail' \in [Reqs -> {"prefix", "suffix", "other"}],
         state' \in [Reqs -> {"pending", "running", "tool_calling", "completed"}],
         UNCHANGED <<batch, batches, live, used>>
  PROVE  TypeInv'
<1>1. /\ talk' \in [Reqs -> Seq(Message)] /\ len' \in [Reqs -> Nat]
      /\ text' \in [Reqs -> Nat] /\ cut' = cut
      /\ \A s \in Reqs \ {r} : talk'[s] = talk[s]
  <2>1. <<>> \in Seq(Tools)
    OBVIOUS
  <2> QED
    BY <2>1, AddAssistantType
<1>2. /\ turns' \in [Reqs -> 0 .. MaxTurns] /\ turns'[r] \in Nat
      /\ \A s \in Reqs \ {r} : turns'[s] = turns[s]
  BY RolloutAssumption DEF TypeInv, VarTypes, Progress
<1>3. /\ at' \in [Reqs -> Awaits] /\ at'[r] = "rewarding"
      /\ \A s \in Reqs \ {r} : at'[s] = at[s]
      /\ todo' \in [Reqs -> (SUBSET Tools) \cup (SUBSET Nat)]
      /\ finish' \in [Reqs -> {"none", "stop", "length", "tool_calls"}]
  BY <1>2, LeaveType DEF TypeInv
<1>4. /\ params' \in {"config", "override"} /\ old' \in [Reqs -> {"none", "config", "override"}]
      /\ sent' \in [Reqs -> Nat]
  BY RollbackType DEF TypeInv
<1>5. VarTypes'
  BY <1>1, <1>2, <1>3, <1>4 DEF TypeInv, VarTypes
<1>6. Progress'
  BY <1>1, <1>2, <1>3, ProgressOfOthers DEF TypeInv
<1> QED
  BY <1>1, <1>5, <1>6 DEF TypeInv

\* An output with tool calls: a message more, of the length generated.
LEMMA OutputCallsType ==
  ASSUME TypeInv, NEW r \in Reqs, batch \in Modes, OutputCalls(r)
  PROVE  TypeInv'
<1>1. PICK n \in GenLens, c \in Calls :
        /\ AddAssistant(r, c, n + 1)
        /\ IF turns'[r] >= MaxTurns
           THEN Leave(r, "tool_calls", turns'[r]) /\ UNCHANGED batch
           ELSE /\ finish' = [finish EXCEPT ![r] = "tool_calls"]
                /\ at' = [at EXCEPT ![r] = "executing"]
                /\ todo' = [todo EXCEPT ![r] = DOMAIN c]
                /\ batch' = IF \E i \in DOMAIN c : c[i] \notin ToolsOf[r]
                            THEN "raised" ELSE batch
  BY DEF OutputCalls
<1>2. n + 1 \in Nat /\ c \in Seq(Tools)
  BY RolloutAssumption
<1>3. /\ talk' \in [Reqs -> Seq(Message)] /\ len' \in [Reqs -> Nat]
      /\ text' \in [Reqs -> Nat] /\ cut' = cut
      /\ talk'[r] = Append(talk[r], Assistant(c))
      /\ \A s \in Reqs \ {r} : talk'[s] = talk[s]
  BY <1>1, <1>2, AddAssistantType
<1>4. talk'[r] # <<>> /\ talk'[r][Len(talk'[r])] = Assistant(c)
  <2>1. talk[r] \in Seq(Message) /\ Assistant(c) \in Message
    BY <1>2 DEF TypeInv, Assistant, Message
  <2> QED
    BY <1>3, <2>1
<1>5. /\ turns' \in [Reqs -> 0 .. MaxTurns] /\ turns'[r] \in Nat
      /\ \A s \in Reqs \ {r} : turns'[s] = turns[s]
  BY RolloutAssumption DEF OutputCalls, TypeInv, VarTypes, Progress
<1>6. /\ at' \in [Reqs -> Awaits]
      /\ \A s \in Reqs \ {r} : at'[s] = at[s]
      /\ todo' \in [Reqs -> (SUBSET Tools) \cup (SUBSET Nat)]
      /\ finish' \in [Reqs -> {"none", "stop", "length", "tool_calls"}]
      /\ at'[r] = IF turns'[r] >= MaxTurns THEN "rewarding" ELSE "executing"
  <2>1. CASE turns'[r] >= MaxTurns
    BY <1>1, <1>5, <2>1, LeaveType DEF TypeInv
  <2>2. CASE ~(turns'[r] >= MaxTurns)
    <3>1. DOMAIN c \in (SUBSET Tools) \cup (SUBSET Nat)
      BY <1>2
    <3>2. todo' \in [Reqs -> (SUBSET Tools) \cup (SUBSET Nat)]
      <4>1. todo \in [Reqs -> (SUBSET Tools) \cup (SUBSET Nat)]
        BY DEF TypeInv, VarTypes
      <4>2. todo' = [todo EXCEPT ![r] = DOMAIN c]
        BY <1>1, <2>2
      <4> HIDE DEF TypeInv
      <4> QED
        BY <3>1, <4>1, <4>2
    <3> QED
      BY <1>1, <2>2, <3>2 DEF TypeInv, VarTypes, Awaits
  <2> QED
    BY <2>1, <2>2
<1>7. batch' \in Modes \cup {"none", "raised"}
  BY <1>1
<1>8. /\ params' \in {"config", "override"} /\ old' \in [Reqs -> {"none", "config", "override"}]
      /\ sent' \in [Reqs -> Nat]
  BY RollbackType DEF OutputCalls, TypeInv
<1>9. /\ state' \in [Reqs -> {"pending", "running", "tool_calling", "completed"}]
      /\ tail' \in [Reqs -> {"prefix", "suffix", "other"}]
      /\ UNCHANGED <<batches, live, used>>
  BY DEF OutputCalls, TypeInv, VarTypes
<1>10. VarTypes'
  BY <1>3, <1>5, <1>6, <1>7, <1>8, <1>9 DEF TypeInv, VarTypes
<1>11. Progress'
  <2>1. at'[r] \in {"generating", "executing"} => turns'[r] < MaxTurns
    BY <1>5, <1>6, RolloutAssumption
  <2>2. /\ talk'[r] # <<>> /\ talk'[r][Len(talk'[r])].role = "assistant"
        /\ talk'[r][Len(talk'[r])].calls \in Calls
    BY <1>4 DEF Assistant
  <2>3. at'[r] # "creating"
    BY <1>6
  <2> QED
    BY <1>3, <1>5, <1>6, <2>1, <2>2, <2>3, ProgressOfOthers DEF TypeInv
<1> QED
  BY <1>3, <1>10, <1>11 DEF TypeInv

\* The answers of the tools: a message for each call.
LEMMA ExecutedType ==
  ASSUME TypeInv, NEW r \in Reqs, batch \in Modes, Executed(r)
  PROVE  TypeInv'
<1>1. /\ talk' \in [Reqs -> Seq(Message)] /\ len' \in [Reqs -> Nat]
      /\ tail' \in [Reqs -> {"prefix", "suffix", "other"}]
      /\ text' \in [Reqs -> Nat] /\ cut' = cut
      /\ \A s \in Reqs \ {r} : talk'[s] = talk[s]
  BY AddResponsesType DEF Executed
<1>2. UNCHANGED <<batch, batches, live, turns>> /\ turns[r] < MaxTurns /\ turns[r] \in Nat
  BY RolloutAssumption DEF Executed, TypeInv, VarTypes, Progress
<1>3. /\ at' \in [Reqs -> Awaits] /\ at'[r] \in {"generating", "rewarding"}
      /\ \A s \in Reqs \ {r} : at'[s] = at[s]
      /\ params' \in {"config", "override"}
      /\ old' \in [Reqs -> {"none", "config", "override"}]
      /\ used' \in [Reqs -> {"none", "config", "override"}]
      /\ sent' \in [Reqs -> Nat]
      /\ todo' \in [Reqs -> (SUBSET Tools) \cup (SUBSET Nat)]
      /\ finish' \in [Reqs -> {"none", "stop", "length", "tool_calls"}]
      /\ state' \in [Reqs -> {"pending", "running", "tool_calling", "completed"}]
  <2>1. CASE len'[r] >= EngineLen
    <3>1. Leave(r, "stop", turns[r]) /\ UNCHANGED <<params, old, used, sent, state>>
      BY <2>1 DEF Executed
    <3> QED
      BY <1>2, <3>1, LeaveType DEF TypeInv, VarTypes
  <2>2. CASE ~(len'[r] >= EngineLen)
    <3>1. Enter(r) /\ state' = [state EXCEPT ![r] = "running"] /\ UNCHANGED <<finish, todo>>
      BY <2>2 DEF Executed
    <3> QED
      BY <1>1, <3>1, EnterType DEF TypeInv, VarTypes
  <2> QED
    BY <2>1, <2>2
<1>4. VarTypes'
  BY <1>1, <1>2, <1>3 DEF TypeInv, VarTypes
<1>5. Progress'
  BY <1>1, <1>2, <1>3, ProgressOfOthers DEF TypeInv
<1> QED
  BY <1>1, <1>4, <1>5 DEF TypeInv

\* The steps preserve the types and how far each request is.
LEMMA TypeStep ==
  ASSUME TypeInv, [Next]_vars
  PROVE  TypeInv'
<1> USE RolloutAssumption
<1>1. CASE BeginBatch
  <2>1. talk' \in [Reqs -> Seq(Message)] /\ Progress'
    BY <1>1 DEF BeginBatch, Progress
  <2>2. todo' \in [Reqs -> (SUBSET Tools) \cup (SUBSET Nat)]
    BY <1>1 DEF BeginBatch
  <2>3. batches' \in 0 .. MaxBatches /\ batch' \in Modes
    BY <1>1 DEF BeginBatch, TypeInv, VarTypes
  <2>4. tail' \in [Reqs -> {"prefix", "suffix", "other"}]
    BY <1>1 DEF BeginBatch
  <2>5. /\ at' = [r \in Reqs |-> "creating"] /\ state' = [r \in Reqs |-> "pending"]
        /\ turns' = [r \in Reqs |-> 0] /\ finish' = [r \in Reqs |-> "none"]
        /\ old' = [r \in Reqs |-> "none"] /\ used' = [r \in Reqs |-> "none"]
        /\ len' = [r \in Reqs |-> PromptLen] /\ sent' = [r \in Reqs |-> 0]
        /\ UNCHANGED <<params, live>>
    BY <1>1 DEF BeginBatch
  <2>6. /\ at' \in [Reqs -> Awaits] /\ len' \in [Reqs -> Nat]
        /\ turns' \in [Reqs -> 0 .. MaxTurns]
        /\ state' \in [Reqs -> {"pending", "running", "tool_calling", "completed"}]
        /\ finish' \in [Reqs -> {"none", "stop", "length", "tool_calls"}]
    BY <2>5 DEF Awaits
  <2>7. /\ old' \in [Reqs -> {"none", "config", "override"}]
        /\ used' \in [Reqs -> {"none", "config", "override"}]
    BY <2>5
  <2>8. /\ cut' \in [Reqs -> Cuts \cup {0}] /\ text' \in [Reqs -> Nat]
        /\ sent' \in [Reqs -> Nat]
    <3>1. cut' \in [Reqs -> Cuts] /\ text' = [r \in Reqs |-> PromptLen + cut'[r] - PrefixLen]
      BY <1>1 DEF BeginBatch
    <3>2. \A r \in Reqs : PromptLen + cut'[r] - PrefixLen \in Nat
      <4>1. \A c \in Cuts : PromptLen + c - PrefixLen \in Nat
        OBVIOUS
      <4> QED
        BY <3>1, <4>1
    <3> QED
      BY <2>5, <3>1, <3>2
  <2> QED
    BY <2>1, <2>2, <2>3, <2>4, <2>5, <2>6, <2>7, <2>8 DEF TypeInv, VarTypes
<1>2. CASE Return
  <2>1. UNCHANGED <<params, batches, live, at, old, used, sent, todo>> /\ batch' = "none"
    BY <1>2 DEF Return, calling
  <2>2. UNCHANGED <<talk, len, tail, cut, text, state, turns, finish>>
    BY <1>2 DEF Return, tokens, local
  <2> QED
    BY <2>1, <2>2 DEF TypeInv, VarTypes, Progress, LastCalls
<1>3. ASSUME NEW r \in Reqs, Coroutine(r)
      PROVE  TypeInv'
  <2>0. batch \in Modes
    BY <1>3 DEF Coroutine
  <2>1. CASE Created(r)
    <3>1. Enter(r) /\ at[r] = "creating" /\ state' = [state EXCEPT ![r] = "running"]
      BY <2>1 DEF Created
    <3>2. UNCHANGED <<batch, batches, live, turns, finish, talk, len, tail, cut, text, todo>>
      BY <2>1 DEF Created, tokens
    <3>a. text' \in [Reqs -> Nat]
      BY <3>2 DEF TypeInv, VarTypes
    <3>3. VarTypes'
      BY <3>1, <3>2, <3>a, EnterType DEF TypeInv, VarTypes
    <3>4. turns'[r] < MaxTurns
      BY <3>1, <3>2 DEF TypeInv, Progress
    <3>5. Progress'
      BY <3>1, <3>2, <3>a, <3>4, EnterType, ProgressOfOthers DEF TypeInv
    <3> QED
      BY <3>2, <3>3, <3>5 DEF TypeInv
  <2>2. CASE OutputOverlong(r)
    <3>1. PICK n \in GenLens : AddAssistant(r, <<>>, n)
      BY <2>2 DEF OutputOverlong
    <3>2. /\ tail' \in [Reqs -> {"prefix", "suffix", "other"}]
          /\ state' \in [Reqs -> {"pending", "running", "tool_calling", "completed"}]
      BY <2>2 DEF OutputOverlong, TypeInv, VarTypes
    <3> QED
      BY <2>2, <3>1, <3>2, EndOfRequestType DEF OutputOverlong
  <2>3. CASE OutputText(r)
    <3>1. PICK n \in GenLens : AddAssistant(r, <<>>, n + 1)
      BY <2>3 DEF OutputText
    <3>2. /\ tail' \in [Reqs -> {"prefix", "suffix", "other"}]
          /\ state' \in [Reqs -> {"pending", "running", "tool_calling", "completed"}]
      BY <2>3 DEF OutputText, TypeInv, VarTypes
    <3>3. n + 1 \in Nat
      OBVIOUS
    <3> QED
      BY <2>3, <3>1, <3>2, <3>3, EndOfRequestType DEF OutputText
  <2>4. CASE OutputCalls(r)
    BY <2>0, <2>4, OutputCallsType
  <2>5. CASE OutputRaises(r)
    <3>1. Rollback(r) /\ batch' = "raised"
      BY <2>5 DEF OutputRaises
    <3>2. UNCHANGED <<batches, live, state, turns, finish, at, used, todo, talk, len, tail, cut, text>>
      BY <2>5 DEF OutputRaises, local, tokens
    <3> QED
      BY <3>1, <3>2, RollbackType DEF TypeInv, VarTypes, Progress, LastCalls
  <2>6. CASE EngineRaises(r)
    <3>1. batch' = "raised" /\ UNCHANGED <<params, batches, live, at, old, used, sent, todo>>
      BY <2>6 DEF EngineRaises, calling
    <3>2. UNCHANGED <<state, turns, finish, talk, len, tail, cut, text>>
      BY <2>6 DEF EngineRaises, local, tokens
    <3> QED
      BY <3>1, <3>2 DEF TypeInv, VarTypes, Progress, LastCalls
  <2>7. CASE Executed(r)
    BY <2>0, <2>7, ExecutedType
  <2>8. CASE Finalize(r)
    <3>1. UNCHANGED <<params, batches, live, turns, finish, old, used, sent, todo, talk, tail, cut, text>>
      BY <2>8 DEF Finalize
    <3>2. /\ at' \in [Reqs -> Awaits] /\ at'[r] \in {"done", "rewarding"}
          /\ \A s \in Reqs \ {r} : at'[s] = at[s]
          /\ batch' \in Modes \cup {"none", "raised"}
      BY <2>0, <2>8 DEF Finalize, TypeInv, VarTypes, Awaits
    <3>3. len' \in [Reqs -> Nat]
      <4>1. len \in [Reqs -> Nat]
        BY DEF TypeInv, VarTypes
      <4>2. len' = len \/ len' = [len EXCEPT ![r] = IF @ > ModelLen THEN ModelLen ELSE @]
        BY <2>8 DEF Finalize
      <4> QED
        BY <4>1, <4>2
    <3>4. state' \in [Reqs -> {"pending", "running", "tool_calling", "completed"}]
      BY <2>8 DEF Finalize, TypeInv, VarTypes
    <3>5. VarTypes'
      BY <3>1, <3>2, <3>3, <3>4 DEF TypeInv, VarTypes
    <3>6. Progress'
      BY <3>1, <3>2, <3>3, ProgressOfOthers DEF TypeInv
    <3> QED
      BY <3>1, <3>5, <3>6 DEF TypeInv
  <2>9. ASSUME NEW t \in Tools, CreateTool(r, t) \/ ReleaseTool(r, t)
        PROVE  TypeInv'
    <3>1. UNCHANGED <<params, batch, batches, at, old, used, sent>>
      BY <2>9 DEF CreateTool, ReleaseTool, calling
    <3>2. UNCHANGED <<state, turns, finish, talk, len, tail, cut, text>>
      BY <2>9 DEF CreateTool, ReleaseTool, local, tokens
    <3>3. todo' = [todo EXCEPT ![r] = @ \ {t}]
      BY <2>9 DEF CreateTool, ReleaseTool
    <3>4. todo' \in [Reqs -> (SUBSET Tools) \cup (SUBSET Nat)]
      BY <3>3 DEF TypeInv, VarTypes
    <3>5. live' = [live EXCEPT ![t] = @ \cup {r}] \/ live' = [live EXCEPT ![t] = @ \ {r}]
      BY <2>9 DEF CreateTool, ReleaseTool
    <3>6. live \in [Tools -> SUBSET Reqs]
      BY DEF TypeInv, VarTypes
    <3>7. live' \in [Tools -> SUBSET Reqs]
      BY <3>5, <3>6
    <3> QED
      BY <3>1, <3>2, <3>4, <3>7 DEF TypeInv, VarTypes, Progress, LastCalls
  <2>10. ASSUME NEW i \in todo[r], ExecuteTool(r, i)
         PROVE  TypeInv'
    <3>1. UNCHANGED <<params, batch, batches, live, at, old, used, sent>>
      BY <2>10 DEF ExecuteTool, shared, calling
    <3>2. UNCHANGED <<state, turns, finish, talk, len, tail, cut, text>>
      BY <2>10 DEF ExecuteTool, local, tokens
    <3>3. todo' \in [Reqs -> (SUBSET Tools) \cup (SUBSET Nat)]
      BY <2>10 DEF ExecuteTool, TypeInv, VarTypes
    <3> QED
      BY <3>1, <3>2, <3>3 DEF TypeInv, VarTypes, Progress, LastCalls
  <2>11. CASE ToolRaises(r)
    <3>1. batch' = "raised" /\ UNCHANGED <<params, batches, live, at, old, used, sent, todo>>
      BY <2>11 DEF ToolRaises, calling
    <3>2. UNCHANGED <<state, turns, finish, talk, len, tail, cut, text>>
      BY <2>11 DEF ToolRaises, local, tokens
    <3> QED
      BY <3>1, <3>2 DEF TypeInv, VarTypes, Progress, LastCalls
  <2> QED
    BY <1>3, <2>1, <2>2, <2>3, <2>4, <2>5, <2>6, <2>7, <2>8, <2>9, <2>10, <2>11 DEF Coroutine
<1>4. CASE UNCHANGED vars
  <2>1. UNCHANGED <<params, batch, batches, live, at, old, used, sent, todo>>
    BY <1>4 DEF vars, shared, calling
  <2>2. UNCHANGED <<state, turns, finish, talk, len, tail, cut, text>>
    BY <1>4 DEF vars, local, tokens
  <2> QED
    BY <2>1, <2>2 DEF TypeInv, VarTypes, Progress, LastCalls
<1> QED
  BY <1>1, <1>2, <1>3, <1>4 DEF Next

\* The initial state has them.
LEMMA TypeInit == ASSUME Init PROVE TypeInv
<1>1. VarTypes
  BY RolloutAssumption DEF Init, VarTypes, Awaits
<1>2. talk \in [Reqs -> Seq(Message)] /\ Progress
  BY DEF Init, Progress
<1> QED
  BY <1>1, <1>2 DEF TypeInv

\* The inductive invariant has the types that the runs check.
LEMMA TypeGives == ASSUME TypeInv PROVE RolloutTypeOK
<1>1. \A r \in Reqs : \A j \in DOMAIN talk[r] : talk[r][j].role \in {"assistant", "tool"}
  <2>1. ASSUME NEW r \in Reqs, NEW j \in DOMAIN talk[r] PROVE talk[r][j] \in Message
    <3>1. talk[r] \in Seq(Message)
      BY DEF TypeInv
    <3> QED
      BY <3>1
  <2> QED
    BY <2>1 DEF Message
<1> QED
  BY <1>1 DEF TypeInv, VarTypes, Awaits, RolloutTypeOK

\* The variables keep their types, and no request makes more than max_turns turns.
THEOREM RolloutTyped == Spec => []RolloutTypeOK
BY TypeInit, TypeStep, TypeGives, PTL DEF Spec

-----------------------------------------------------------------------------
\* How a request ends

\* What a coroutine's segment does to finish, as far as the invariant below is
\* about it: to the other requests nothing, to its own something if it leaves the
\* loop.
Segment(r) ==
  /\ batch \in Modes /\ batch' \in {batch, "raised"}
  /\ \A s \in Reqs \ {r} : at'[s] = at[s] /\ finish'[s] = finish[s]
  /\ at'[r] = "rewarding" =>
       \/ at[r] = "rewarding" /\ finish'[r] = finish[r]
       \/ finish'[r] \in {"stop", "length"}

\* Whatever a coroutine does between two awaits is such a segment.
LEMMA CoroutineSegment ==
  ASSUME TypeInv, NEW r \in Reqs, Coroutine(r)
  PROVE  Segment(r)
<1> USE RolloutAssumption
<1>0. batch \in Modes
  BY DEF Coroutine
<1>t. /\ at \in [Reqs -> Awaits]
      /\ finish \in [Reqs -> {"none", "stop", "length", "tool_calls"}]
      /\ turns \in [Reqs -> 0 .. MaxTurns]
  BY DEF TypeInv, VarTypes
<1>1. CASE Created(r)
  <2>1. UNCHANGED <<batch, finish>> /\ Enter(r)
    BY <1>1 DEF Created
  <2> QED
    BY <1>0, <1>t, <2>1 DEF Enter, Segment
<1>2. CASE OutputOverlong(r)
  <2>1. UNCHANGED batch /\ Leave(r, "length", turns'[r])
    BY <1>2 DEF OutputOverlong
  <2> QED
    BY <1>0, <1>t, <2>1 DEF Leave, Segment
<1>3. CASE OutputText(r)
  <2>1. UNCHANGED batch /\ Leave(r, "stop", turns'[r])
    BY <1>3 DEF OutputText
  <2> QED
    BY <1>0, <1>t, <2>1 DEF Leave, Segment
<1>4. CASE OutputCalls(r)
  <2>1. PICK n \in GenLens, c \in Calls :
          /\ AddAssistant(r, c, n + 1)
          /\ IF turns'[r] >= MaxTurns
             THEN Leave(r, "tool_calls", turns'[r]) /\ UNCHANGED batch
             ELSE /\ finish' = [finish EXCEPT ![r] = "tool_calls"]
                  /\ at' = [at EXCEPT ![r] = "executing"]
                  /\ batch' = IF \E i \in DOMAIN c : c[i] \notin ToolsOf[r]
                              THEN "raised" ELSE batch
    BY <1>4 DEF OutputCalls
  <2>2. CASE turns'[r] >= MaxTurns
    BY <1>0, <1>t, <2>1, <2>2 DEF Leave, Segment
  <2>3. CASE ~(turns'[r] >= MaxTurns)
    BY <1>0, <1>t, <2>1, <2>3 DEF Segment
  <2> QED
    BY <2>2, <2>3
<1>5. CASE OutputRaises(r)
  BY <1>0, <1>5 DEF OutputRaises, local, Segment
<1>6. CASE EngineRaises(r) \/ ToolRaises(r)
  BY <1>0, <1>6 DEF EngineRaises, ToolRaises, local, calling, Segment
<1>7. CASE Executed(r)
  <2>1. batch' = batch
    BY <1>7 DEF Executed
  <2>2. CASE len'[r] >= EngineLen
    <3>1. Leave(r, "stop", turns[r])
      BY <1>7, <2>2 DEF Executed
    <3> QED
      BY <1>0, <1>t, <2>1, <3>1 DEF Leave, Segment
  <2>3. CASE ~(len'[r] >= EngineLen)
    <3>1. Enter(r) /\ finish' = finish
      BY <1>7, <2>3 DEF Executed
    <3> QED
      BY <1>0, <1>t, <2>1, <3>1 DEF Enter, Segment
  <2> QED
    BY <2>2, <2>3
<1>8. CASE Finalize(r)
  <2>1. \A s \in Reqs \ {r} : at'[s] = at[s]
    BY <1>8, <1>t DEF Finalize
  <2>2. at[r] = "rewarding" /\ at'[r] \in {"rewarding", "done"} /\ UNCHANGED finish
    BY <1>8, <1>t DEF Finalize
  <2>3. batch' \in {batch, "raised"}
    BY <1>8 DEF Finalize
  <2> QED
    BY <1>0, <2>1, <2>2, <2>3 DEF Segment
<1>9. ASSUME NEW t \in Tools, CreateTool(r, t) \/ ReleaseTool(r, t)
      PROVE  Segment(r)
  <2>1. UNCHANGED <<batch, at, finish>>
    BY <1>9 DEF CreateTool, ReleaseTool, local, calling
  <2> QED
    BY <1>0, <2>1 DEF Segment
<1>10. ASSUME NEW i \in todo[r], ExecuteTool(r, i)
       PROVE  Segment(r)
  <2>1. UNCHANGED <<batch, at, finish>>
    BY <1>10 DEF ExecuteTool, shared, local, calling
  <2> QED
    BY <1>0, <2>1 DEF Segment
<1> QED
  BY <1>1, <1>2, <1>3, <1>4, <1>5, <1>6, <1>7, <1>8, <1>9, <1>10 DEF Coroutine

\* In the beginning no request has ended.
LEMMA EndsInit == ASSUME Init PROVE FinishKnown
BY DEF Init, FinishKnown

\* Every segment of a coroutine, and every batch, keeps the invariant.
LEMMA EndsStep ==
  ASSUME TypeInv, FinishKnown, [Next]_vars
  PROVE  FinishKnown'
<1>1. CASE BeginBatch
  <2>1. \A r \in Reqs : at'[r] = "creating"
    BY <1>1 DEF BeginBatch
  <2> QED
    BY <2>1 DEF FinishKnown
<1>2. CASE Return
  <2>1. UNCHANGED <<at, finish>>
    BY <1>2 DEF Return, calling, local
  <2> QED
    BY <2>1 DEF FinishKnown
<1>3. ASSUME NEW r \in Reqs, Coroutine(r) PROVE FinishKnown'
  <2>1. Segment(r)
    BY <1>3, CoroutineSegment
  <2> QED
    BY <2>1 DEF Segment, FinishKnown
<1>4. CASE UNCHANGED vars
  <2>1. UNCHANGED <<at, finish>>
    BY <1>4 DEF vars, local, calling
  <2> QED
    BY <2>1 DEF FinishKnown
<1> QED
  BY <1>1, <1>2, <1>3, <1>4 DEF Next

\* No interleaving leaves a request that is finalized with a finish reason finalize
\* raises at.
THEOREM RolloutFinishes == Spec => []FinishKnown
<1>1. Init => TypeInv /\ FinishKnown
  BY TypeInit, EndsInit
<1>2. TypeInv /\ FinishKnown /\ [Next]_vars => (TypeInv /\ FinishKnown)'
  BY TypeStep, EndsStep
<1> QED
  BY <1>1, <1>2, PTL DEF Spec

-----------------------------------------------------------------------------
\* What the engine is sent

\* How the template of the messages and input_ids compare, by what input_ids end
\* with: the template lacks the prefix of the answer that a prompt ends with, and
\* input_ids lack what was cut.  A prompt that was cut at a suffix keeps lacking
\* the prefix that is added to both.
Apart(r) ==
  /\ tail[r] = "prefix" => text[r] = len[r] + cut[r] - PrefixLen
  /\ tail[r] = "suffix" =>
       \/ text[r] = len[r] + cut[r]
       \/ cut[r] # 0 /\ text[r] = len[r] + cut[r] - PrefixLen
  /\ tail[r] = "other" => cut[r] # 0 /\ text[r] = len[r] + cut[r] - PrefixLen

\* The lengths of a request whose conversation goes on; nothing more is sent of
\* one whose answer could not be added.
LengthsOf(r) ==
  /\ at[r] \in {"creating", "generating", "executing"} => Apart(r)
  /\ at[r] = "creating" => len[r] = PromptLen
  /\ at[r] = "generating" =>
       /\ len[r] < EngineLen
       /\ sent[r] = text[r] + PrefixLen \/ (tail[r] = "other" /\ sent[r] = 0)
  /\ at[r] = "executing" => tail[r] = "suffix"

Lengths == \A r \in Reqs : LengthsOf(r)

\* The lengths are numbers.
LEMMA LengthTypes ==
  ASSUME TypeInv, NEW r \in Reqs
  PROVE  len[r] \in Nat /\ text[r] \in Nat /\ cut[r] \in Nat /\ PrefixLen \in Nat
<1>1. len[r] \in Nat /\ text[r] \in Nat /\ cut[r] \in Cuts \cup {0}
  BY DEF TypeInv, VarTypes
<1>2. (\A c \in Cuts : c \in Nat) /\ PrefixLen \in Nat
  BY RolloutAssumption
<1> QED
  BY <1>1, <1>2

\* An answer that ends with a suffix leaves the two as far apart as they may be.
LEMMA ApartAssistant ==
  ASSUME TypeInv, NEW r \in Reqs, NEW c, NEW n \in Nat, AddAssistant(r, c, n),
         Apart(r), ~Unsupported(r), tail' = [tail EXCEPT ![r] = "suffix"]
  PROVE  Apart(r)'
<1>1. /\ len'[r] = len[r] + n + Prefixed(r) /\ text'[r] = text[r] + n + PrefixLen
      /\ cut'[r] = cut[r] /\ tail'[r] = "suffix"
  BY DEF AddAssistant, TypeInv, VarTypes
<1>2. /\ len[r] \in Nat /\ text[r] \in Nat /\ cut[r] \in Nat /\ PrefixLen \in Nat
      /\ tail[r] \in {"prefix", "suffix"}
  BY LengthTypes DEF TypeInv, VarTypes, Unsupported
<1>3. CASE tail[r] = "prefix"
  <2>1. text[r] = len[r] + cut[r] - PrefixLen /\ Prefixed(r) = 0
    BY <1>3 DEF Apart, Prefixed
  <2>2. text'[r] = len'[r] + cut'[r]
    BY <1>1, <1>2, <2>1
  <2> QED
    BY <1>1, <2>2 DEF Apart
<1>4. CASE tail[r] = "suffix"
  <2>1. Prefixed(r) = PrefixLen
    BY <1>4 DEF Prefixed
  <2>2. \/ text'[r] = len'[r] + cut'[r]
        \/ cut'[r] # 0 /\ text'[r] = len'[r] + cut'[r] - PrefixLen
    BY <1>1, <1>2, <1>4, <2>1 DEF Apart
  <2> QED
    BY <1>1, <2>2 DEF Apart
<1> QED
  BY <1>2, <1>3, <1>4

\* The responses lengthen both by the same.
LEMMA ApartResponses ==
  ASSUME TypeInv, NEW r \in Reqs, at[r] = "executing", AddResponses(r, Responded(r)),
         Apart(r), tail[r] = "suffix"
  PROVE  Apart(r)'
<1> DEFINE m == Cardinality(Responded(r)) * Response
<1>1. m \in Nat
  <2>1. Cardinality(Responded(r)) \in Nat /\ Response \in Nat
    BY RespondedFinite, RolloutAssumption DEF Response
  <2> QED
    BY <2>1
<1>2. /\ len'[r] = len[r] + m /\ text'[r] = text[r] + m
      /\ cut'[r] = cut[r] /\ tail'[r] = "suffix"
  BY DEF AddResponses, TypeInv, VarTypes
<1>3. len[r] \in Nat /\ text[r] \in Nat /\ cut[r] \in Nat /\ PrefixLen \in Nat
  BY LengthTypes
<1> HIDE DEF m
<1>4. \/ text'[r] = len'[r] + cut'[r]
      \/ cut'[r] # 0 /\ text'[r] = len'[r] + cut'[r] - PrefixLen
  BY <1>1, <1>2, <1>3 DEF Apart
<1> QED
  BY <1>2, <1>4 DEF Apart

\* A segment of r leaves the lengths of another request alone.
LEMMA LengthsApart ==
  ASSUME TypeInv, NEW r \in Reqs, NEW s \in Reqs, Coroutine(r), s # r, LengthsOf(s)
  PROVE  LengthsOf(s)'
<1>t. /\ len \in [Reqs -> Nat] /\ text \in [Reqs -> Nat] /\ sent \in [Reqs -> Nat]
      /\ tail \in [Reqs -> {"prefix", "suffix", "other"}]
  BY DEF TypeInv, VarTypes
<1>1. at'[s] = at[s]
  BY CoroutineSegment DEF Segment
<1>2. len'[s] = len[s] /\ text'[s] = text[s] /\ cut'[s] = cut[s] /\ tail'[s] = tail[s]
  <2>1. CASE Created(r) \/ OutputRaises(r) \/ EngineRaises(r) \/ ToolRaises(r)
    BY <2>1 DEF Created, OutputRaises, EngineRaises, ToolRaises, tokens
  <2>2. CASE OutputOverlong(r) \/ OutputText(r) \/ OutputCalls(r)
    <3>1. PICK c, n : AddAssistant(r, c, n)
      BY <2>2 DEF OutputOverlong, OutputText, OutputCalls
    <3>2. \E e \in {"suffix", "other"} : tail' = [tail EXCEPT ![r] = e]
      BY <2>2 DEF OutputOverlong, OutputText, OutputCalls
    <3> QED
      BY <1>t, <3>1, <3>2 DEF AddAssistant
  <2>3. CASE Executed(r)
    BY <1>t, <2>3 DEF Executed, AddResponses
  <2>4. CASE Finalize(r)
    BY <1>t, <2>4 DEF Finalize
  <2>5. CASE \E t \in Tools : CreateTool(r, t) \/ ReleaseTool(r, t)
    BY <2>5 DEF CreateTool, ReleaseTool, tokens
  <2>6. CASE \E i \in todo[r] : ExecuteTool(r, i)
    BY <2>6 DEF ExecuteTool, tokens
  <2> QED
    BY <2>1, <2>2, <2>3, <2>4, <2>5, <2>6 DEF Coroutine
<1>3. sent'[s] = sent[s]
  <2>1. CASE Created(r) \/ Executed(r)
    BY <1>t, <2>1 DEF Created, Executed, Enter
  <2>2. CASE OutputOverlong(r) \/ OutputText(r) \/ OutputCalls(r) \/ OutputRaises(r)
    BY <1>t, <2>2 DEF OutputOverlong, OutputText, OutputCalls, OutputRaises, Rollback
  <2>3. CASE EngineRaises(r) \/ ToolRaises(r) \/ Finalize(r)
    BY <2>3 DEF EngineRaises, ToolRaises, Finalize, calling
  <2>4. CASE \E t \in Tools : CreateTool(r, t) \/ ReleaseTool(r, t)
    BY <2>4 DEF CreateTool, ReleaseTool, calling
  <2>5. CASE \E i \in todo[r] : ExecuteTool(r, i)
    BY <2>5 DEF ExecuteTool, calling
  <2> QED
    BY <2>1, <2>2, <2>3, <2>4, <2>5 DEF Coroutine
<1> QED
  BY <1>1, <1>2, <1>3 DEF LengthsOf, Apart

\* A segment of r keeps the lengths of r as they should be.
LEMMA LengthsOwn ==
  ASSUME TypeInv, NEW r \in Reqs, Coroutine(r), LengthsOf(r)
  PROVE  LengthsOf(r)'
<1>t. /\ at \in [Reqs -> Awaits] /\ sent \in [Reqs -> Nat] /\ len \in [Reqs -> Nat]
      /\ tail \in [Reqs -> {"prefix", "suffix", "other"}]
  BY DEF TypeInv, VarTypes
<1>1. CASE Created(r)
  <2>1. /\ at[r] = "creating" /\ at'[r] = "generating" /\ sent'[r] = text'[r] + PrefixLen
        /\ UNCHANGED <<len, tail, cut, text>>
    BY <1>t, <1>1 DEF Created, Enter, tokens
  <2>2. len[r] < EngineLen
    BY <2>1, RolloutAssumption DEF LengthsOf
  <2> QED
    BY <2>1, <2>2 DEF LengthsOf, Apart
<1>2. CASE OutputOverlong(r) \/ OutputText(r)
  <2>1. at'[r] = "rewarding"
    BY <1>t, <1>2 DEF OutputOverlong, OutputText, Leave
  <2> QED
    BY <2>1 DEF LengthsOf
<1>3. CASE OutputCalls(r)
  <2>1. PICK n \in Nat, c \in Calls : AddAssistant(r, c, n)
    <3>1. PICK n \in GenLens, c \in Calls : AddAssistant(r, c, n + 1)
      BY <1>3 DEF OutputCalls
    <3>2. n + 1 \in Nat
      BY RolloutAssumption
    <3> QED
      BY <3>1, <3>2
  <2>2. at[r] = "generating" /\ ~Unsupported(r) /\ tail' = [tail EXCEPT ![r] = "suffix"]
    BY <1>3 DEF OutputCalls
  <2>3. Apart(r)'
    BY <2>1, <2>2, ApartAssistant DEF LengthsOf
  <2>4. at'[r] \in {"executing", "rewarding"}
    BY <1>t, <1>3 DEF OutputCalls, Leave
  <2>5. tail'[r] = "suffix"
    BY <1>t, <2>2
  <2> QED
    BY <2>3, <2>4, <2>5 DEF LengthsOf
<1>4. CASE Executed(r)
  <2>1. at[r] = "executing" /\ AddResponses(r, Responded(r))
    BY <1>4 DEF Executed
  <2>2. Apart(r)'
    BY <2>1, ApartResponses DEF LengthsOf
  <2>3. CASE len'[r] >= EngineLen
    <3>1. at'[r] = "rewarding"
      BY <1>t, <1>4, <2>3 DEF Executed, Leave
    <3> QED
      BY <3>1 DEF LengthsOf
  <2>4. CASE ~(len'[r] >= EngineLen)
    <3>1. at'[r] = "generating" /\ sent'[r] = text'[r] + PrefixLen
      BY <1>t, <1>4, <2>4 DEF Executed, Enter
    <3>2. len'[r] < EngineLen
      BY <2>1, <2>4, AddResponsesType, RolloutAssumption
    <3> QED
      BY <2>2, <3>1, <3>2 DEF LengthsOf
  <2> QED
    BY <2>3, <2>4
<1>5. CASE Finalize(r)
  <2>1. at'[r] \in {"rewarding", "done"}
    BY <1>t, <1>5 DEF Finalize
  <2> QED
    BY <2>1 DEF LengthsOf
<1>6. CASE \/ EngineRaises(r) \/ ToolRaises(r)
           \/ \E t \in Tools : CreateTool(r, t) \/ ReleaseTool(r, t)
           \/ \E i \in todo[r] : ExecuteTool(r, i)
  <2>1. UNCHANGED <<at, sent, len, tail, cut, text>>
    BY <1>6 DEF EngineRaises, ToolRaises, CreateTool, ReleaseTool, ExecuteTool, tokens, calling
  <2> QED
    BY <2>1 DEF LengthsOf, Apart
<1>7. CASE OutputRaises(r)
  <2>1. /\ at[r] = "generating" /\ tail[r] = "other" /\ sent'[r] = 0
        /\ UNCHANGED <<at, len, tail, cut, text>>
    BY <1>t, <1>7 DEF OutputRaises, Rollback, Unsupported, tokens
  <2> QED
    BY <2>1 DEF LengthsOf, Apart
<1> QED
  BY <1>1, <1>2, <1>3, <1>4, <1>5, <1>6, <1>7 DEF Coroutine

\* The lengths are right in the beginning.
LEMMA LengthsInit == ASSUME Init PROVE Lengths
BY DEF Init, Lengths, LengthsOf, Apart

\* Every step keeps them so.
LEMMA LengthsStep ==
  ASSUME TypeInv, Lengths, [Next]_vars
  PROVE  Lengths'
<1>1. CASE BeginBatch
  <2>1. SUFFICES ASSUME NEW r \in Reqs PROVE LengthsOf(r)'
    BY DEF Lengths
  <2>2. /\ at'[r] = "creating" /\ len'[r] = PromptLen
        /\ text'[r] = PromptLen + cut'[r] - PrefixLen
        /\ IF cut'[r] = 0 THEN tail'[r] = "prefix" ELSE tail'[r] \in CutTails
    BY <1>1 DEF BeginBatch
  <2>3. Apart(r)'
    BY <2>2 DEF Apart
  <2> QED
    BY <2>2, <2>3 DEF LengthsOf
<1>2. CASE Return \/ UNCHANGED vars
  <2>1. UNCHANGED <<at, sent, len, tail, cut, text>>
    BY <1>2 DEF Return, vars, tokens, calling
  <2> QED
    BY <2>1 DEF Lengths, LengthsOf, Apart
<1>3. ASSUME NEW r \in Reqs, Coroutine(r) PROVE Lengths'
  <2>1. ASSUME NEW s \in Reqs PROVE LengthsOf(s)'
    BY <1>3, <2>1, LengthsOwn, LengthsApart DEF Lengths
  <2> QED
    BY <2>1 DEF Lengths
<1> QED
  BY <1>1, <1>2, <1>3 DEF Next

\* The lengths give how much the engine is sent.
LEMMA LengthsGive == ASSUME TypeInv, Lengths PROVE SentAsRecorded /\ RoomToGenerate
<1>1. ASSUME NEW r \in Reqs, at[r] = "generating"
      PROVE  /\ cut[r] = 0 => sent[r] = len[r] + Prefixed(r)
             /\ sent[r] < EngineLen + PrefixLen + cut[r]
  <2>1. /\ len[r] \in Nat /\ text[r] \in Nat /\ cut[r] \in Nat /\ PrefixLen \in Nat
        /\ EngineLen \in Nat /\ tail[r] \in {"prefix", "suffix", "other"}
    BY LengthTypes, RolloutAssumption DEF TypeInv, VarTypes
  <2>2. /\ Apart(r) /\ len[r] < EngineLen
        /\ sent[r] = text[r] + PrefixLen \/ (tail[r] = "other" /\ sent[r] = 0)
    BY <1>1 DEF Lengths, LengthsOf
  <2>3. text[r] <= len[r] + cut[r]
    BY <2>1, <2>2 DEF Apart
  <2>4. cut[r] = 0 => sent[r] = len[r] + Prefixed(r)
    BY <2>1, <2>2 DEF Apart, Prefixed
  <2> QED
    BY <2>1, <2>2, <2>3, <2>4
<1> QED
  BY <1>1 DEF SentAsRecorded, RoomToGenerate

\* The lengths at every state of a behaviour.
LEMMA RolloutLengths == Spec => [](SentAsRecorded /\ RoomToGenerate)
<1>1. Init => TypeInv /\ Lengths
  BY TypeInit, LengthsInit
<1>2. TypeInv /\ Lengths /\ [Next]_vars => (TypeInv /\ Lengths)'
  BY TypeStep, LengthsStep
<1>3. TypeInv /\ Lengths => SentAsRecorded /\ RoomToGenerate
  BY LengthsGive
<1> QED
  BY <1>1, <1>2, <1>3, PTL DEF Spec

\* The token lists that answers and responses are added to over the turns stay as
\* long as the template of the messages that the engine is sent, for whole prompts.
THEOREM RolloutRecordsSent == Spec => []SentAsRecorded
BY RolloutLengths, PTL

\* The template of all messages, which is what the engine is sent, never passes
\* what the engine takes by more than the answer's prefix, less one token, and what
\* was cut from the prompt, though only input_ids are looked at.
THEOREM RolloutHasRoom == Spec => []RoomToGenerate
BY RolloutLengths, PTL

-----------------------------------------------------------------------------
\* The tools' instances

\* Which tools have an instance for a request, while they are created, held and
\* released one by one.
HeldOf(r) ==
  /\ \A t \in Tools :
       /\ at[r] = "creating" => (r \in live[t] <=> t \in ToolsOf[r] \ todo[r])
       /\ at[r] \in {"generating", "executing"} => (r \in live[t] <=> t \in ToolsOf[r])
       /\ at[r] = "rewarding" => (r \in live[t] <=> t \in todo[r])
       /\ at[r] \in {"idle", "done"} => r \notin live[t]
  /\ at[r] \in {"creating", "rewarding"} => todo[r] \subseteq ToolsOf[r]
  /\ batch = "none" => at[r] \in {"idle", "done"}

Held == \A r \in Reqs : HeldOf(r)

\* A segment of one request that creates and releases nothing.
LEMMA HeldApart ==
  ASSUME TypeInv, NEW r \in Reqs, NEW s \in Reqs, HeldOf(s), Coroutine(r), s # r
  PROVE  HeldOf(s)'
<1>1. batch' # "none" /\ at'[s] = at[s]
  BY CoroutineSegment, RolloutAssumption DEF Segment
<1>2. todo'[s] = todo[s] /\ \A t \in Tools : s \in live'[t] <=> s \in live[t]
  <2>t. todo \in [Reqs -> (SUBSET Tools) \cup (SUBSET Nat)] /\ live \in [Tools -> SUBSET Reqs]
    BY DEF TypeInv, VarTypes
  <2>1. CASE \E t \in Tools : CreateTool(r, t) \/ ReleaseTool(r, t)
    BY <2>t, <2>1 DEF CreateTool, ReleaseTool
  <2>2. CASE Created(r) \/ OutputRaises(r) \/ EngineRaises(r) \/ ToolRaises(r) \/ Finalize(r)
    BY <2>2 DEF Created, OutputRaises, EngineRaises, ToolRaises, Finalize
  <2>3. CASE OutputOverlong(r) \/ OutputText(r)
    BY <2>t, <2>3 DEF OutputOverlong, OutputText, Leave
  <2>4. CASE OutputCalls(r)
    <3>1. todo' = [todo EXCEPT ![r] = ToolsOf[r]] \/ \E c \in Calls : todo' = [todo EXCEPT ![r] = DOMAIN c]
      BY <2>4 DEF OutputCalls, Leave
    <3> QED
      BY <2>t, <2>4, <3>1 DEF OutputCalls
  <2>5. CASE Executed(r)
    BY <2>t, <2>5 DEF Executed, Leave
  <2>6. CASE \E i \in todo[r] : ExecuteTool(r, i)
    BY <2>t, <2>6 DEF ExecuteTool, shared
  <2> QED
    BY <2>1, <2>2, <2>3, <2>4, <2>5, <2>6 DEF Coroutine
<1> QED
  BY <1>1, <1>2 DEF HeldOf

\* A segment that leaves the instances alone and either leaves the loop, with all
\* tools to release, or does not.
LEMMA HeldOwn ==
  ASSUME TypeInv, NEW r \in Reqs, HeldOf(r), batch' # "none", live' = live,
         at[r] \in {"generating", "executing"},
         \/ at'[r] \in {"generating", "executing"}
         \/ at'[r] = "rewarding" /\ todo'[r] = ToolsOf[r]
  PROVE  HeldOf(r)'
BY DEF HeldOf

\* Every step keeps the tools of a request with it until they are released.
LEMMA HeldStep ==
  ASSUME TypeInv, Held, [Next]_vars
  PROVE  Held'
<1>1. CASE BeginBatch
  <2>1. /\ batch = "none" /\ batch' \in Modes /\ live' = live /\ todo' = ToolsOf
        /\ at' = [r \in Reqs |-> "creating"]
    BY <1>1 DEF BeginBatch
  <2>2. batch' # "none"
    BY <2>1, RolloutAssumption
  <2> QED
    BY <2>1, <2>2 DEF Held, HeldOf
<1>2. CASE Return
  <2>1. (\A r \in Reqs : at[r] = "done") /\ UNCHANGED <<live, at, todo>>
    BY <1>2 DEF Return, calling
  <2> QED
    BY <2>1 DEF Held, HeldOf
<1>3. ASSUME NEW r \in Reqs, Coroutine(r) PROVE Held'
  <2>0. HeldOf(r) /\ batch' # "none"
    BY <1>3, CoroutineSegment, RolloutAssumption DEF Held, Segment
  <2>t. /\ todo \in [Reqs -> (SUBSET Tools) \cup (SUBSET Nat)] /\ live \in [Tools -> SUBSET Reqs]
        /\ at \in [Reqs -> Awaits]
    BY DEF TypeInv, VarTypes
  <2>1. ASSUME Created(r) PROVE HeldOf(r)'
    BY <2>0, <2>t, <2>1 DEF Created, Enter, HeldOf
  <2>2. ASSUME OutputOverlong(r) \/ OutputText(r) PROVE HeldOf(r)'
    <3>1. at[r] = "generating" /\ at'[r] = "rewarding" /\ todo'[r] = ToolsOf[r] /\ live' = live
      BY <2>t, <2>2 DEF OutputOverlong, OutputText, Leave
    <3> QED
      BY <2>0, <3>1, HeldOwn
  <2>3. ASSUME OutputCalls(r) PROVE HeldOf(r)'
    <3>1. at[r] = "generating" /\ live' = live
      BY <2>3 DEF OutputCalls
    <3>2. \/ at' = [at EXCEPT ![r] = "rewarding"] /\ todo' = [todo EXCEPT ![r] = ToolsOf[r]]
          \/ at' = [at EXCEPT ![r] = "executing"]
      BY <2>3 DEF OutputCalls, Leave
    <3>3. at'[r] = "executing" \/ (at'[r] = "rewarding" /\ todo'[r] = ToolsOf[r])
      BY <2>t, <3>2
    <3> QED
      BY <2>0, <3>1, <3>3, HeldOwn
  <2>4. ASSUME OutputRaises(r) \/ EngineRaises(r) \/ ToolRaises(r) PROVE HeldOf(r)'
    <3>1. UNCHANGED <<live, at, todo>>
      BY <2>4 DEF OutputRaises, EngineRaises, ToolRaises, calling
    <3> QED
      BY <2>0, <3>1 DEF HeldOf
  <2>5. ASSUME Executed(r) PROVE HeldOf(r)'
    <3>1. at[r] = "executing" /\ live' = live
      BY <2>5 DEF Executed
    <3>2. at'[r] = "generating" \/ (at'[r] = "rewarding" /\ todo'[r] = ToolsOf[r])
      BY <2>t, <2>5 DEF Executed, Enter, Leave
    <3> QED
      BY <2>0, <3>1, <3>2, HeldOwn
  <2>6. ASSUME Finalize(r) PROVE HeldOf(r)'
    <3>1. at[r] = "rewarding" /\ todo[r] = {} /\ UNCHANGED <<live, todo>>
      BY <2>6 DEF Finalize
    <3>2. at'[r] \in {"rewarding", "done"}
      BY <2>t, <2>6 DEF Finalize
    <3> QED
      BY <2>0, <3>1, <3>2 DEF HeldOf
  <2>7. ASSUME NEW t \in Tools, CreateTool(r, t) PROVE HeldOf(r)'
    <3>1. /\ at[r] = "creating" /\ t \in todo[r] /\ at' = at
          /\ live' = [live EXCEPT ![t] = @ \cup {r}] /\ todo' = [todo EXCEPT ![r] = @ \ {t}]
      BY <2>7 DEF CreateTool, calling
    <3>2. todo'[r] = todo[r] \ {t} /\ \A u \in Tools : r \in live'[u] <=> (r \in live[u] \/ u = t)
      BY <2>t, <3>1
    <3> QED
      BY <2>0, <3>1, <3>2 DEF HeldOf
  <2>8. ASSUME NEW t \in Tools, ReleaseTool(r, t) PROVE HeldOf(r)'
    <3>1. /\ at[r] = "rewarding" /\ t \in todo[r] /\ at' = at
          /\ live' = [live EXCEPT ![t] = @ \ {r}] /\ todo' = [todo EXCEPT ![r] = @ \ {t}]
      BY <2>8 DEF ReleaseTool, calling
    <3>2. todo'[r] = todo[r] \ {t} /\ \A u \in Tools : r \in live'[u] <=> (r \in live[u] /\ u # t)
      BY <2>t, <3>1
    <3> QED
      BY <2>0, <3>1, <3>2 DEF HeldOf
  <2>9. ASSUME NEW i \in todo[r], ExecuteTool(r, i) PROVE HeldOf(r)'
    <3>1. at[r] = "executing" /\ UNCHANGED <<at, live>>
      BY <2>9 DEF ExecuteTool, shared, calling
    <3> QED
      BY <2>0, <3>1 DEF HeldOf
  <2>10. HeldOf(r)'
    BY <1>3, <2>1, <2>2, <2>3, <2>4, <2>5, <2>6, <2>7, <2>8, <2>9 DEF Coroutine
  <2>11. \A s \in Reqs : s # r => HeldOf(s)'
    BY <1>3, HeldApart DEF Held
  <2> QED
    BY <2>10, <2>11 DEF Held
<1>4. CASE UNCHANGED vars
  <2>1. UNCHANGED <<batch, live, at, todo>>
    BY <1>4 DEF vars, shared, calling
  <2> QED
    BY <2>1 DEF Held, HeldOf
<1> QED
  BY <1>1, <1>2, <1>3, <1>4 DEF Next

\* It implies that tools are held by the requests that are under way, and by no other.
LEMMA HeldGives == ASSUME TypeInv, Held PROVE ToolsHeld
<1>1. ASSUME batch = "none" PROVE live = [t \in Tools |-> {}]
  <2>1. live \in [Tools -> SUBSET Reqs]
    BY DEF TypeInv, VarTypes
  <2>2. \A t \in Tools : \A r \in Reqs : r \notin live[t]
    BY <1>1 DEF Held, HeldOf
  <2> QED
    BY <2>1, <2>2
<1> QED
  BY <1>1 DEF Held, HeldOf, ToolsHeld

\* A request has the instances of its tools for as long as it can call them, and
\* no instance outlives its request.
THEOREM RolloutHoldsTools == Spec => []ToolsHeld
<1>1. Init => TypeInv /\ Held
  <2>1. Init => Held
    BY DEF Init, Held, HeldOf
  <2> QED
    BY <2>1, TypeInit
<1>2. TypeInv /\ Held /\ [Next]_vars => (TypeInv /\ Held)'
  BY TypeStep, HeldStep
<1>3. TypeInv /\ Held => ToolsHeld
  BY HeldGives
<1> QED
  BY <1>1, <1>2, <1>3, PTL DEF Spec

-----------------------------------------------------------------------------
\* The responses to the calls

\* Between two assistant messages of s stand the responses to the first one's calls.
Paired(s) ==
  \A j, k \in DOMAIN s :
     /\ j < k
     /\ s[j].role = "assistant" /\ s[k].role = "assistant"
     /\ \A i \in j + 1 .. k - 1 : s[i].role = "tool"
     => /\ k - j - 1 = Len(s[j].calls)
        /\ \A i \in 1 .. (k - j - 1) : s[j + i].calls = <<s[j].calls[i]>>

\* So do they after the last one: the engine may be called.
Complete(s) ==
  \A j \in DOMAIN s :
     s[j].role = "assistant" /\ (\A i \in j + 1 .. Len(s) : s[i].role = "tool")
     => /\ Len(s) - j = Len(s[j].calls)
        /\ \A i \in 1 .. (Len(s) - j) : s[j + i].calls = <<s[j].calls[i]>>

\* An assistant message after a whole group keeps the calls paired.
LEMMA AppendAssistant ==
  ASSUME NEW s \in Seq(Message), NEW c \in Seq(Tools), Paired(s), Complete(s)
  PROVE  Paired(Append(s, Assistant(c)))
<1> DEFINE u == Append(s, Assistant(c))
<1>1. Assistant(c) \in Message
  BY DEF Assistant, Message
<1>2. /\ u \in Seq(Message) /\ Len(u) = Len(s) + 1 /\ DOMAIN u = 1 .. (Len(s) + 1)
      /\ (\A i \in 1 .. Len(s) : u[i] = s[i]) /\ DOMAIN s = 1 .. Len(s) /\ Len(s) \in Nat
  BY <1>1
<1> HIDE DEF u
<1>3. SUFFICES ASSUME NEW j \in DOMAIN u, NEW k \in DOMAIN u, j < k,
                      u[j].role = "assistant", u[k].role = "assistant",
                      \A i \in j + 1 .. k - 1 : u[i].role = "tool"
               PROVE  /\ k - j - 1 = Len(u[j].calls)
                      /\ \A i \in 1 .. (k - j - 1) : u[j + i].calls = <<u[j].calls[i]>>
  BY DEF Paired, u
<1>4. j \in 1 .. Len(s) /\ u[j] = s[j] /\ j \in Nat /\ k \in Nat
  BY <1>2, <1>3
<1>5. CASE k \in 1 .. Len(s)
  <2>1. \A i \in j + 1 .. k - 1 : s[i].role = "tool"
    BY <1>2, <1>3, <1>4, <1>5
  <2>2. \A i \in 1 .. (k - j - 1) : u[j + i] = s[j + i]
    BY <1>2, <1>4, <1>5
  <2>3. s[k] = u[k] /\ j \in DOMAIN s /\ k \in DOMAIN s
    BY <1>2, <1>4, <1>5
  <2> QED
    BY <1>3, <1>4, <2>1, <2>2, <2>3 DEF Paired
<1>6. CASE k = Len(s) + 1
  <2>1. \A i \in j + 1 .. Len(s) : s[i].role = "tool"
    BY <1>2, <1>3, <1>4, <1>6
  <2>2. \A i \in 1 .. (k - j - 1) : u[j + i] = s[j + i]
    BY <1>2, <1>4, <1>6
  <2>3. k - j - 1 = Len(s) - j /\ j \in DOMAIN s
    BY <1>2, <1>4, <1>6
  <2> QED
    BY <1>3, <1>4, <2>1, <2>2, <2>3 DEF Complete
<1> QED
  BY <1>2, <1>3, <1>5, <1>6

\* The answers to the last message's calls, the first k of them, keep the calls paired.
LEMMA AppendAnswers ==
  ASSUME NEW s \in Seq(Message), s # <<>>, s[Len(s)].role = "assistant",
         NEW k \in Nat, k <= Len(s[Len(s)].calls), Paired(s)
  PROVE  LET u == s \o [i \in 1 .. k |-> ToolMessage(s[Len(s)].calls[i])]
         IN  Paired(u) /\ (k = Len(s[Len(s)].calls) => Complete(u))
<1> DEFINE m == Len(s)
           calls == s[m].calls
           added == [i \in 1 .. k |-> ToolMessage(calls[i])]
           u == s \o added
<1>1. m \in Nat /\ m > 0 /\ DOMAIN s = 1 .. m /\ s[m] \in Message /\ calls \in Seq(Tools)
  <2>1. m \in Nat /\ m > 0 /\ DOMAIN s = 1 .. m /\ s[m] \in Message
    OBVIOUS
  <2> QED
    BY <2>1 DEF Message
<1>2. added \in Seq(Message) /\ Len(added) = k
  <2>1. \A i \in 1 .. k : calls[i] \in Tools
    BY <1>1
  <2>2. \A i \in 1 .. k : ToolMessage(calls[i]) \in Message
    BY <2>1 DEF ToolMessage, Message
  <2> HIDE DEF calls
  <2> QED
    BY <2>2
<1>3. /\ Len(u) = m + k /\ DOMAIN u = 1 .. (m + k)
      /\ \A i \in 1 .. m : u[i] = s[i]
  <2> HIDE DEF added
  <2> QED
    BY <1>2
<1>4. \A i \in 1 .. k : u[m + i] = ToolMessage(calls[i])
  <2>1. \A i \in 1 .. k : added[i] = ToolMessage(calls[i])
    OBVIOUS
  <2>2. \A i \in 1 .. k : u[m + i] = added[i]
    <3> HIDE DEF added
    <3> QED
      BY <1>1, <1>2
  <2> QED
    BY <2>1, <2>2
<1>5. \A i \in DOMAIN u : u[i].role = "assistant" => i \in 1 .. m
  <2>1. SUFFICES ASSUME NEW i \in m + 1 .. m + k PROVE u[i].role = "tool"
    BY <1>1, <1>3
  <2>2. i - m \in 1 .. k /\ m + (i - m) = i
    BY <1>1, <2>1
  <2>3. u[i] = ToolMessage(calls[i - m])
    BY <1>4, <2>2
  <2> QED
    BY <2>3 DEF ToolMessage
<1> HIDE DEF u, added, calls
<1>6. Paired(u)
  <2>1. SUFFICES ASSUME NEW j \in DOMAIN u, NEW n \in DOMAIN u, j < n,
                        u[j].role = "assistant", u[n].role = "assistant",
                        \A i \in j + 1 .. n - 1 : u[i].role = "tool"
                 PROVE  /\ n - j - 1 = Len(u[j].calls)
                        /\ \A i \in 1 .. (n - j - 1) : u[j + i].calls = <<u[j].calls[i]>>
    BY DEF Paired
  <2>2. j \in 1 .. m /\ n \in 1 .. m /\ j \in Nat /\ n \in Nat
    BY <1>3, <1>5, <2>1
  <2>3. u[j] = s[j] /\ u[n] = s[n] /\ j \in DOMAIN s /\ n \in DOMAIN s
    BY <1>1, <1>3, <2>2
  <2>4. (\A i \in j + 1 .. n - 1 : s[i].role = "tool")
        /\ (\A i \in 1 .. (n - j - 1) : u[j + i] = s[j + i])
    BY <1>1, <1>3, <2>1, <2>2
  <2> QED
    BY <2>1, <2>3, <2>4 DEF Paired
<1>7. ASSUME k = Len(calls) PROVE Complete(u)
  <2>1. SUFFICES ASSUME NEW j \in DOMAIN u, u[j].role = "assistant",
                        \A i \in j + 1 .. Len(u) : u[i].role = "tool"
                 PROVE  /\ Len(u) - j = Len(u[j].calls)
                        /\ \A i \in 1 .. (Len(u) - j) : u[j + i].calls = <<u[j].calls[i]>>
    BY DEF Complete
  <2>2. j \in 1 .. m
    BY <1>5, <2>1
  <2>3. j = m
    <3>1. u[m].role = "assistant"
      BY <1>1, <1>3
    <3>2. j < m => m \in j + 1 .. Len(u)
      BY <1>1, <1>3, <2>2
    <3> QED
      BY <1>1, <2>1, <2>2, <3>1, <3>2
  <2>4. u[m].calls = calls /\ Len(u) - m = k
    BY <1>1, <1>3 DEF calls
  <2>5. \A i \in 1 .. k : u[m + i].calls = <<calls[i]>>
    <3>1. \A i \in 1 .. k : ToolMessage(calls[i]).calls = <<calls[i]>>
      BY DEF ToolMessage
    <3> QED
      BY <1>4, <3>1
  <2> QED
    BY <1>7, <2>3, <2>4, <2>5
<1> QED
  BY <1>6, <1>7 DEF u, added, calls

\* Multiplication by a natural is monotone.
LEMMA TimesMonotone == ASSUME NEW a \in Nat, NEW b \in Nat, a <= b, NEW n \in Nat PROVE a * n <= b * n
<1>1. b = a + (b - a) /\ b - a \in Nat
  OBVIOUS
<1>2. PICK d \in Nat : b = a + d
  BY <1>1
<1>3. (a + d) * n = a * n + d * n /\ d * n \in Nat /\ a * n \in Nat
  OBVIOUS
<1> QED
  BY <1>2, <1>3

\* If there is room for the next generation, all calls have been responded to.
LEMMA AllResponded ==
  ASSUME TypeInv, NEW r \in Reqs, at[r] = "executing",
         len[r] + Cardinality(Responded(r)) * Response < EngineLen
  PROVE  Cardinality(Responded(r)) = Len(LastCalls(r))
<1> DEFINE k == Cardinality(Responded(r))
           p == Response
           n == Len(LastCalls(r))
<1>1. /\ LastCalls(r) \in Seq(Tools) /\ n \in Nat /\ n > 0 /\ k \in Nat /\ k <= n
      /\ IsFiniteSet(Responded(r))
  BY RespondedFinite
<1>2. p \in Nat /\ len[r] \in Nat /\ EngineLen \in Nat /\ len[r] + k * p < EngineLen
  BY RolloutAssumption DEF TypeInv, VarTypes, Response
<1>3. \A i \in 1 .. n : i \in Responded(r) <=> (i = 1 \/ len[r] + (i - 1) * p < EngineLen)
  BY <1>1 DEF Responded, LastCalls
<1> HIDE DEF k, p, n
<1>4. SUFFICES ASSUME k < n PROVE FALSE
  BY <1>1 DEF k, n
<1>5. 1 .. (k + 1) \subseteq Responded(r)
  <2>1. SUFFICES ASSUME NEW i \in 1 .. (k + 1) PROVE i \in Responded(r)
    OBVIOUS
  <2>2. PICK d \in Nat : d = i - 1 /\ d <= k
    BY <1>1, <2>1
  <2>3. d * p <= k * p /\ d * p \in Nat /\ k * p \in Nat
    BY <1>1, <1>2, <2>2, TimesMonotone
  <2>4. len[r] + d * p < EngineLen
    BY <1>2, <2>3
  <2>5. i \in 1 .. n
    BY <1>1, <1>4, <2>1
  <2> QED
    BY <1>3, <2>2, <2>4, <2>5
<1>6. Cardinality(1 .. (k + 1)) = k + 1
  BY <1>1, FS_Interval
<1>7. k + 1 <= Cardinality(Responded(r))
  BY <1>1, <1>5, <1>6, FS_Subset
<1> QED
  BY <1>1, <1>7 DEF k

Answered ==
  \A r \in Reqs : Paired(talk[r]) /\ (at[r] \in {"creating", "generating"} => Complete(talk[r]))

\* A conversation that has not begun.
LEMMA AnsweredEmpty == Paired(<<>>) /\ Complete(<<>>)
BY DEF Paired, Complete

\* Every step keeps the calls of a conversation answered.
LEMMA AnsweredStep ==
  ASSUME TypeInv, Answered, [Next]_vars
  PROVE  Answered'
<1>1. CASE BeginBatch
  BY <1>1, AnsweredEmpty DEF BeginBatch, Answered
<1>2. CASE Return
  BY <1>2 DEF Return, tokens, calling, Answered
<1>3. ASSUME NEW r \in Reqs, Coroutine(r) PROVE Answered'
  <2>t. at \in [Reqs -> Awaits] /\ talk \in [Reqs -> Seq(Message)]
    BY DEF TypeInv, VarTypes
  <2>a. Paired(talk[r]) /\ (at[r] \in {"creating", "generating"} => Complete(talk[r]))
    BY DEF Answered
  <2>s. \A s \in Reqs \ {r} : at'[s] = at[s]
    BY <1>3, CoroutineSegment DEF Segment
  <2>1. ASSUME NEW c \in Seq(Tools), NEW n \in Nat, AddAssistant(r, c, n), at[r] = "generating",
               at'[r] \notin {"creating", "generating"}
        PROVE  Answered'
    <3>1. talk'[r] = Append(talk[r], Assistant(c)) /\ \A s \in Reqs \ {r} : talk'[s] = talk[s]
      BY <2>1, AddAssistantType
    <3>2. Paired(talk'[r])
      BY <2>t, <2>a, <2>1, <3>1, AppendAssistant
    <3> QED
      BY <2>s, <2>1, <3>1, <3>2 DEF Answered
  <2>2. ASSUME talk' = talk, at'[r] \in {"creating", "generating"} => at[r] \in {"creating", "generating"}
        PROVE  Answered'
    BY <2>a, <2>s, <2>2 DEF Answered
  <2>3. CASE Created(r) \/ OutputRaises(r) \/ EngineRaises(r) \/ ToolRaises(r) \/ Finalize(r)
    <3>1. talk' = talk
      BY <2>3 DEF Created, OutputRaises, EngineRaises, ToolRaises, Finalize, tokens
    <3>2. at'[r] \in {"creating", "generating"} => at[r] \in {"creating", "generating"}
      BY <2>t, <2>3 DEF Created, OutputRaises, EngineRaises, ToolRaises, Finalize, calling
    <3> QED
      BY <2>2, <3>1, <3>2
  <2>4. CASE OutputOverlong(r) \/ OutputText(r)
    <3>1. PICK n \in Nat : AddAssistant(r, <<>>, n)
      BY <2>4, RolloutAssumption DEF OutputOverlong, OutputText
    <3>2. at[r] = "generating" /\ at'[r] = "rewarding" /\ <<>> \in Seq(Tools)
      BY <2>t, <2>4 DEF OutputOverlong, OutputText, Leave
    <3> QED
      BY <2>1, <3>1, <3>2
  <2>5. CASE OutputCalls(r)
    <3>1. PICK c \in Calls, n \in Nat : AddAssistant(r, c, n)
      BY <2>5, RolloutAssumption DEF OutputCalls
    <3>2. at[r] = "generating" /\ at'[r] \in {"executing", "rewarding"}
      BY <2>t, <2>5 DEF OutputCalls, Leave
    <3>3. c \in Seq(Tools)
      BY RolloutAssumption
    <3> QED
      BY <2>1, <3>1, <3>2, <3>3
  <2>6. CASE Executed(r)
    <3> DEFINE k == Cardinality(Responded(r))
    <3>1. /\ at[r] = "executing" /\ AddResponses(r, Responded(r))
          /\ talk[r] # <<>> /\ talk[r][Len(talk[r])].role = "assistant"
      BY <2>6 DEF Executed, TypeInv, Progress
    <3>2. k \in Nat /\ k <= Len(LastCalls(r))
      BY <3>1, RespondedFinite
    <3>3. /\ talk'[r] = talk[r] \o [i \in 1 .. k |-> ToolMessage(talk[r][Len(talk[r])].calls[i])]
          /\ \A s \in Reqs \ {r} : talk'[s] = talk[s]
      BY <2>t, <3>1 DEF AddResponses
    <3>4. talk[r] \in Seq(Message)
      BY <2>t
    <3>5. Paired(talk'[r]) /\ (k = Len(LastCalls(r)) => Complete(talk'[r]))
      <4> HIDE DEF k
      <4> QED
        BY <2>a, <3>1, <3>2, <3>3, <3>4, AppendAnswers DEF LastCalls
    <3>6. at'[r] \in {"creating", "generating"} => k = Len(LastCalls(r))
      <4>1. len'[r] = len[r] + k * Response
        BY <3>1 DEF AddResponses, TypeInv, VarTypes
      <4>2. at'[r] \in {"creating", "generating"} => ~(len'[r] >= EngineLen)
        BY <2>t, <2>6 DEF Executed, Leave
      <4>3. len'[r] \in Nat /\ EngineLen \in Nat
        BY <3>1, AddResponsesType, RolloutAssumption
      <4>4. ~(len'[r] >= EngineLen) => len[r] + k * Response < EngineLen
        <5> HIDE DEF k
        <5> QED
          BY <4>1, <4>3
      <4> QED
        BY <3>1, <4>2, <4>4, AllResponded
    <3> HIDE DEF k
    <3> QED
      BY <2>s, <3>3, <3>5, <3>6 DEF Answered
  <2>7. CASE \E t \in Tools : CreateTool(r, t) \/ ReleaseTool(r, t)
    <3>1. UNCHANGED <<at, talk>>
      BY <2>7 DEF CreateTool, ReleaseTool, tokens, calling
    <3> QED
      BY <2>2, <3>1
  <2>8. CASE \E i \in todo[r] : ExecuteTool(r, i)
    <3>1. UNCHANGED <<at, talk>>
      BY <2>8 DEF ExecuteTool, tokens, calling
    <3> QED
      BY <2>2, <3>1
  <2> QED
    BY <1>3, <2>3, <2>4, <2>5, <2>6, <2>7, <2>8 DEF Coroutine
<1>4. CASE UNCHANGED vars
  BY <1>4 DEF vars, tokens, calling, Answered
<1> QED
  BY <1>1, <1>2, <1>3, <1>4 DEF Next

\* Whatever order the tools answer in and wherever the length limit cuts the loop
\* over their results, no conversation is continued with a call unanswered.
THEOREM RolloutAnswersCalls == Spec => []CallsAnswered
<1>1. Init => TypeInv /\ Answered
  <2>1. Init => Answered
    BY AnsweredEmpty DEF Init, Answered
  <2> QED
    BY <2>1, TypeInit
<1>2. TypeInv /\ Answered /\ [Next]_vars => (TypeInv /\ Answered)'
  BY TypeStep, AnsweredStep
<1>3. Answered => CallsAnswered
  BY DEF Answered, Paired, CallsAnswered
<1> QED
  BY <1>1, <1>2, <1>3, PTL DEF Spec
================================================================================
