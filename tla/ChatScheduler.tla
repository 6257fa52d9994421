------------------------------ MODULE ChatScheduler ------------------------------
(***************************************************************************)
(* ChatCompletionScheduler: batches of conversations, each a task on the   *)
(* scheduler's event loop, whose requests are spread over the servers.     *)
(*                                                                         *)
(* A conversation's first request goes to the server at the top of the     *)
(* heap weighted_addresses.  The callback may submit a further request     *)
(* under the id of the last completion: it goes to the server that the     *)
(* cache request_id_to_address has for that id.  A request runs without    *)
(* interruption from the submission to the await of the completion, and    *)
(* from the completion to the first await of the callback.                 *)
(*                                                                         *)
(* The id of a request, a uuid4, is the batch, the conversation and the    *)
(* turn it is made for.  Of the heap, only its least entry is looked at.   *)
(***************************************************************************)
EXTENDS Integers, SequencesExt, FiniteSets

CONSTANTS
  N,            \* the number of servers (rollout_dp_size)
  Convs,        \* the conversations of a batch
  MaxTurns,     \* how many requests the callback makes of a conversation
  CacheSizes,   \* the values max_cache_size may have
  MaxBatches    \* bound: how many batches are generated

ASSUME SchedulerAssumption ==
  /\ N \in Nat \ {0} /\ CacheSizes \subseteq Nat \ {0}
  /\ IsFiniteSet(Convs) /\ MaxTurns \in Nat \ {0} /\ MaxBatches \in Nat

\* The servers, numbered in the order of their addresses as strings.
Servers == 1 .. N

VARIABLES
  count,     \* count[s]: the weight of server s in weighted_addresses
  cache,     \* request_id_to_address, the entries from oldest to newest
  size,      \* the most entries the cache holds
  awake,     \* are the engines awake?
  phase,     \* of the trainer: "between" batches, "generating", "raised"
  batch,     \* the number of the batch
  at,        \* at[c]: "none", "created", "requested", "answered", "failed", "done"
  turn,      \* turn[c]: the requests made for the conversation
  server     \* server[c]: the server of its last request, 0 without one

chatVars == <<count, cache, size, awake, phase, batch, at, turn, server>>

ChatInit ==
  /\ count = [s \in Servers |-> 0] /\ cache = <<>> /\ size \in CacheSizes
  /\ awake = FALSE /\ phase = "between" /\ batch = 0
  /\ at = [c \in Convs |-> "none"]
  /\ turn = [c \in Convs |-> 0] /\ server = [c \in Convs |-> 0]

-----------------------------------------------------------------------------

RequestId(c) == <<batch, c, turn[c]>>

\* The entries of the last request of c: at most one, as ids are unique.
EntriesOf(c) == {i \in DOMAIN cache : cache[i].id = RequestId(c)}

\* Mutant: the cache has no bound.
InsertForever(entries, e) == Append(entries, e)

\* LRUCache: an entry is read but once, by the pop that removes it, so the least
\* recently used entry is the oldest one.
Insert(entries, e) ==
  LET longer == Append(entries, e)
  IN  IF Len(longer) > size THEN Tail(longer) ELSE longer

\* Mutant: the heap is not put in order again after the weight has grown.
LeastAtFirst ==
  CHOOSE s \in Servers : \A t \in Servers : s <= t

\* weighted_addresses[0]: the entry [weight, address] that is least.
Least ==
  CHOOSE s \in Servers : \A t \in Servers :
    count[s] < count[t] \/ (count[s] = count[t] /\ s <= t)

-----------------------------------------------------------------------------

\* wake_up, then a task for every conversation (generate_sequences).
BeginGeneration ==
  /\ phase = "between" /\ batch < MaxBatches
  /\ phase' = "generating" /\ awake' = TRUE /\ batch' = batch + 1
  /\ at' = [c \in Convs |-> "created"]
  /\ turn' = [c \in Convs |-> 0] /\ server' = [c \in Convs |-> 0]
  /\ UNCHANGED <<count, cache, size>>

\* The request is sent to server s under a new id.
Send(c, entries, s) ==
  /\ turn' = [turn EXCEPT ![c] = @ + 1]
  /\ server' = [server EXCEPT ![c] = s]
  /\ cache' = Insert(entries, [id |-> <<batch, c, turn[c] + 1>>, address |-> s])
  /\ at' = [at EXCEPT ![c] = "requested"]

\* submit_chat_completions without x-request-id.
SubmitFirst(c) ==
  /\ phase = "generating" /\ at[c] = "created"
  /\ count' = [count EXCEPT ![Least] = @ + 1]
  /\ Send(c, cache, Least)
  /\ UNCHANGED <<size, awake, phase, batch>>

\* The completion arrives; the id it carries is the request's.
Answer(c) ==
  /\ phase = "generating" /\ at[c] = "requested"
  /\ at' = [at EXCEPT ![c] = "answered"]
  /\ UNCHANGED <<count, cache, size, awake, phase, batch, turn, server>>

\* The client raises: the callback is called without a completion.
AnswerFails(c) ==
  /\ phase = "generating" /\ at[c] = "requested"
  /\ at' = [at EXCEPT ![c] = "failed"]
  /\ UNCHANGED <<count, cache, size, awake, phase, batch, turn, server>>

\* The callback has its result.
CallbackReturns(c) ==
  /\ phase = "generating" /\ at[c] = "answered"
  /\ at' = [at EXCEPT ![c] = "done"]
  /\ UNCHANGED <<count, cache, size, awake, phase, batch, turn, server>>

\* Mutant: a request that failed is sent again, as often as it fails.
CallbackRetries(c) ==
  /\ phase = "generating" /\ at[c] = "failed"
  /\ at' = [at EXCEPT ![c] = "requested"]
  /\ UNCHANGED <<count, cache, size, awake, phase, batch, turn, server>>

\* completions is None: the callback raises, and gather with it.
CallbackRaises(c) ==
  /\ phase = "generating" /\ at[c] = "failed"
  /\ phase' = "raised"
  /\ UNCHANGED <<count, cache, size, awake, batch, at, turn, server>>

\* Mutants of ResubmitAgain: the server is the one with the least weight; the
\* entry of the last request is read and not removed.
ResubmitToLeast(c) ==
  /\ phase = "generating" /\ at[c] = "answered" /\ turn[c] < MaxTurns
  /\ \E i \in EntriesOf(c) : Send(c, RemoveAt(cache, i), Least)
  /\ UNCHANGED <<count, size, awake, phase, batch>>

ResubmitKeeping(c) ==
  /\ phase = "generating" /\ at[c] = "answered" /\ turn[c] < MaxTurns
  /\ \E i \in EntriesOf(c) : Send(c, cache, cache[i].address)
  /\ UNCHANGED <<count, size, awake, phase, batch>>

\* The callback submits a further request under the last one's id.
ResubmitAgain(c) ==
  /\ phase = "generating" /\ at[c] = "answered" /\ turn[c] < MaxTurns
  /\ \E i \in EntriesOf(c) : Send(c, RemoveAt(cache, i), cache[i].address)
  /\ UNCHANGED <<count, size, awake, phase, batch>>

\* The id has been evicted: pop raises.
ResubmitLost(c) ==
  /\ phase = "generating" /\ at[c] = "answered" /\ turn[c] < MaxTurns
  /\ EntriesOf(c) = {}
  /\ phase' = "raised"
  /\ UNCHANGED <<count, cache, size, awake, batch, at, turn, server>>

\* Mutant: a batch ends with its first conversation.
EndGenerationEarly ==
  /\ phase = "generating"
  /\ \E c \in Convs : at[c] = "done"
  /\ phase' = "between" /\ awake' = FALSE
  /\ UNCHANGED <<count, cache, size, batch, at, turn, server>>

\* Every task is done: generate_sequences returns, and the engines sleep.
EndGeneration ==
  /\ phase = "generating"
  /\ \A c \in Convs : at[c] = "done"
  /\ phase' = "between" /\ awake' = FALSE
  /\ UNCHANGED <<count, cache, size, batch, at, turn, server>>

Conversation(c) ==
  \/ SubmitFirst(c)
  \/ Answer(c)
  \/ AnswerFails(c)
  \/ CallbackReturns(c)
  \/ CallbackRaises(c)
  \/ ResubmitAgain(c)
  \/ ResubmitLost(c)

ChatNext == BeginGeneration \/ EndGeneration \/ \E c \in Convs : Conversation(c)

-----------------------------------------------------------------------------

\* The cache holds no more than it may, and every variable has its type.
ChatTypeOK ==
  /\ count \in [Servers -> Nat]
  /\ size \in CacheSizes /\ Len(cache) <= size
  /\ \A i \in DOMAIN cache : cache[i].address \in Servers
  /\ awake \in BOOLEAN /\ phase \in {"between", "generating", "raised"}
  /\ batch \in 0 .. MaxBatches
  /\ at \in [Convs -> {"none", "created", "requested", "answered", "failed", "done"}]
  /\ turn \in [Convs -> 0 .. MaxTurns]
  /\ server \in [Convs -> 0 .. N]

\* However many conversations and batches there have been, no server has been
\* given two conversations more than another (weighted_addresses).
Balanced == \A s, t \in Servers : count[s] <= count[t] + 1

\* While a conversation goes on, the server of its last request is on record
\* under the id that its completion carries, whatever other conversations, of
\* this batch and of those before, have added to the cache since: it need only
\* be as large as one batch (request_id_to_address).
Remembered ==
  Cardinality(Convs) <= size => \A c \in Convs :
    phase = "generating" /\ at[c] \in {"requested", "answered"}
      => \E i \in EntriesOf(c) : cache[i].address = server[c]

\* All requests of a conversation go to the server of its first one, whose prefix
\* cache has its earlier turns.
StaysOnServer ==
  [][\A c \in Convs : turn[c] > 0 /\ turn'[c] > turn[c] => server'[c] = server[c]]_chatVars

\* No request is under way when the engines are asleep.
AsleepIdle == ~awake => \A c \in Convs : at[c] \notin {"created", "requested"}

\* Every batch comes to its end, or to an exception.
GenerationEnds == (phase = "generating") ~> (phase \in {"between", "raised"})
================================================================================
