------------------------------- MODULE ServerStart -------------------------------
(***************************************************************************)
(* AsyncLLMServerManager.__init__: one server actor per data-parallel rank *)
(* is created, in rounds until each has told its address; then the engines *)
(* are initialised, and the chat scheduler in a thread of its own.         *)
(*                                                                         *)
(* A server picks a port that is free and closes it again, sets            *)
(* server_ready in the start-up of its application, and only then binds    *)
(* the port; if another process has taken it, the server exits.            *)
(***************************************************************************)
EXTENDS Integers, FiniteSets

CONSTANTS
  Ranks,           \* the data-parallel ranks of the rollout
  Ports,           \* the ports of the node the servers run on
  Foreign,         \* the ports other processes may take meanwhile
  SchedulerFails   \* may the constructor of the scheduler's class raise?

ASSUME StartAssumption ==
  /\ Ports \subseteq Nat \ {0} /\ Foreign \subseteq Ports
  /\ Cardinality(Ports \ Foreign) >= Cardinality(Ranks)
  /\ SchedulerFails \in BOOLEAN

VARIABLES
  manager,     \* where __init__ is: "creating", "asking", "engines", "threading",
               \* "waiting", "up", "raised"
  unready,     \* unready_dp_ranks
  asked,       \* the ranks of this round's servers that are still to be asked
  address,     \* server_addresses, 0 for None
  life,        \* life[r]: "none", "created", "picked", "ready", "serving", "dead"
  port,        \* port[r]: the server's self.port, 0 before it has one
  taken,       \* the ports other processes have taken
  thread       \* of the scheduler: "none", "running", "looping", "dead"

startVars == <<manager, unready, asked, address, life, port, taken, thread>>

NoPort == 0

StartInit ==
  /\ manager = "creating" /\ unready = Ranks /\ asked = {}
  /\ address = [r \in Ranks |-> NoPort]
  /\ life = [r \in Ranks |-> "none"] /\ port = [r \in Ranks |-> NoPort]
  /\ taken = {} /\ thread = "none"

-----------------------------------------------------------------------------
\* A server (AsyncServerBase)

Bound == taken \cup {port[r] : r \in {q \in Ranks : life[q] = "serving"}}

\* _get_free_port: the port is free at this moment, and closed again.
Pick(r) ==
  /\ life[r] = "created"
  /\ \E p \in Ports \ Bound : port' = [port EXCEPT ![r] = p]
  /\ life' = [life EXCEPT ![r] = "picked"]
  /\ UNCHANGED <<manager, unready, asked, address, taken, thread>>

\* The application's start-up sets server_ready.
SetReady(r) ==
  /\ life[r] = "picked"
  /\ life' = [life EXCEPT ![r] = "ready"]
  /\ UNCHANGED <<manager, unready, asked, address, port, taken, thread>>

\* The port is bound, or the application shut down and the process exited.
Bind(r) ==
  /\ life[r] = "ready"
  /\ life' = [life EXCEPT ![r] = IF port[r] \in Bound THEN "dead" ELSE "serving"]
  /\ UNCHANGED <<manager, unready, asked, address, port, taken, thread>>

\* Another process takes a port, which matters until all servers have bound theirs.
TakePort ==
  /\ \E r \in Ranks : life[r] # "serving"
  /\ \E p \in Foreign \ Bound : taken' = taken \cup {p}
  /\ UNCHANGED <<manager, unready, asked, address, life, port, thread>>

-----------------------------------------------------------------------------
\* The manager

\* Mutant: a round creates, and asks, the servers of all ranks again.
CreateAll ==
  /\ manager = "creating" /\ unready # {}
  /\ life' = [r \in Ranks |-> "created"]
  /\ port' = [r \in Ranks |-> NoPort]
  /\ asked' = Ranks /\ manager' = "asking"
  /\ UNCHANGED <<unready, address, taken, thread>>

\* A server for every rank that is not ready.
CreateRound ==
  /\ manager = "creating" /\ unready # {}
  /\ life' = [r \in Ranks |-> IF r \in unready THEN "created" ELSE life[r]]
  /\ port' = [r \in Ranks |-> IF r \in unready THEN NoPort ELSE port[r]]
  /\ asked' = unready /\ manager' = "asking"
  /\ UNCHANGED <<unready, address, taken, thread>>

\* Mutant: a rank is not struck off when its server has answered.
AskForever(r) ==
  /\ manager = "asking" /\ r \in asked
  /\ \/ /\ life[r] \in {"ready", "serving"}
        /\ address' = [address EXCEPT ![r] = port[r]]
     \/ /\ life[r] = "dead"
        /\ UNCHANGED address
  /\ asked' = asked \ {r}
  /\ UNCHANGED <<manager, unready, life, port, taken, thread>>

\* get_server_address: answered once server_ready is set, an exception if the
\* process is gone; then the server is killed, and its rank waits for a round.
Ask(r) ==
  /\ manager = "asking" /\ r \in asked
  /\ \/ /\ life[r] \in {"ready", "serving"}
        /\ address' = [address EXCEPT ![r] = port[r]]
        /\ unready' = unready \ {r}
     \/ /\ life[r] = "dead"
        /\ UNCHANGED <<address, unready>>
  /\ asked' = asked \ {r}
  /\ UNCHANGED <<manager, life, port, taken, thread>>

\* All servers of the round have been asked.
RoundDone ==
  /\ manager = "asking" /\ asked = {}
  /\ manager' = IF unready = {} THEN "engines" ELSE "creating"
  /\ UNCHANGED <<unready, asked, address, life, port, taken, thread>>

\* init_engine on every server: a server that is gone raises.
InitEngines ==
  /\ manager = "engines"
  /\ manager' = IF \E r \in Ranks : life[r] = "dead" THEN "raised" ELSE "threading"
  /\ UNCHANGED <<unready, asked, address, life, port, taken, thread>>

StartThread ==
  /\ manager = "threading"
  /\ thread' = "running" /\ manager' = "waiting"
  /\ UNCHANGED <<unready, asked, address, life, port, taken>>

\* _init_chat_scheduler: chat_scheduler_ready is set, unless the import of the
\* scheduler's class or its constructor raises.
RunThread ==
  /\ thread = "running"
  /\ thread' \in IF SchedulerFails THEN {"looping", "dead"} ELSE {"looping"}
  /\ UNCHANGED <<manager, unready, asked, address, life, port, taken>>

\* chat_scheduler_ready.wait() returns.
Up ==
  /\ manager = "waiting" /\ thread = "looping"
  /\ manager' = "up"
  /\ UNCHANGED <<unready, asked, address, life, port, taken, thread>>

Manager ==
  CreateRound \/ RoundDone \/ InitEngines \/ StartThread \/ Up \/ \E r \in asked : Ask(r)

Server(r) == Pick(r) \/ SetReady(r) \/ Bind(r)

StartNext == Manager \/ RunThread \/ TakePort \/ \E r \in Ranks : Server(r)

-----------------------------------------------------------------------------

StartTypeOK ==
  /\ manager \in {"creating", "asking", "engines", "threading", "waiting", "up", "raised"}
  /\ unready \subseteq Ranks /\ asked \subseteq unready
  /\ address \in [Ranks -> Ports \cup {NoPort}]
  /\ life \in [Ranks -> {"none", "created", "picked", "ready", "serving", "dead"}]
  /\ port \in [Ranks -> Ports \cup {NoPort}]
  /\ taken \subseteq Foreign
  /\ thread \in {"none", "running", "looping", "dead"}

\* The address the manager has of a rank is that of the rank's last server: a
\* server that has told its address is never created again, nor one that has not
\* been created anew taken for ready (unready_dp_ranks).
AddressIsCurrent == \A r \in Ranks \ unready : address[r] # NoPort /\ address[r] = port[r]

\* A server whose address is taken is restarted: one that has told its address is
\* not gone ("restart if address already in use").
ReadyIsAlive == \A r \in Ranks \ unready : life[r] # "dead"

\* The constructor comes to its end, however often ports are taken, as long as the
\* scheduler can be constructed.
StartEnds == <>(manager \in {"up", "raised"} \/ thread = "dead")
================================================================================
