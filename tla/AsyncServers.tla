------------------------------ MODULE AsyncServers ------------------------------
(***************************************************************************)
(* AsyncLLMServerManager as the trainer uses it: the servers are started,  *)
(* then batches are generated through the chat scheduler, whose server s   *)
(* is that of rank s.  A request to a server that is gone fails.           *)
(***************************************************************************)
EXTENDS ServerStart, ChatScheduler

ASSUME RanksAreServers == Ranks = Servers

vars == <<startVars, chatVars>>

Init == StartInit /\ ChatInit

Start == StartNext /\ UNCHANGED chatVars

\* generate_sequences asserts that the scheduler is there.
Chat ==
  /\ manager = "up"
  /\ ChatNext
  /\ \A c \in Convs : at[c] = "requested" /\ at'[c] = "answered" => life[server[c]] = "serving"
  /\ UNCHANGED startVars

Next == Start \/ Chat

\* The servers and the manager are processes of their own that go on; a rank that
\* can be asked is asked.  The scheduler's event loop runs every task that can
\* run, and a server answers, or the client times out.
Fairness ==
  /\ WF_vars(Manager /\ UNCHANGED chatVars)
  /\ WF_vars(RunThread /\ UNCHANGED chatVars)
  /\ \A r \in Ranks : WF_vars(Server(r) /\ UNCHANGED chatVars)
  /\ \A c \in Convs : WF_vars(Chat /\ Conversation(c))
  /\ WF_vars(Chat /\ EndGeneration)

Spec == Init /\ [][Next]_vars /\ Fairness
================================================================================
