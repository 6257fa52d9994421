----------------------------- MODULE WorkerGroupStart -----------------------------
(***************************************************************************)
(* RayPPOTrainer.init_workers up to worker groups that can be called: for  *)
(* each resource pool Ray places the placement groups, the driver creates  *)
(* rank 0 and waits, with a time-out, for the register centre that rank 0  *)
(* publishes the master address in, and then creates the other ranks.      *)
(***************************************************************************)
EXTENDS Integers, Sequences, FiniteSets, TLC

CONSTANTS
  Nodes,    \* of the cluster: integers in the order of their addresses
  Jobs      \* the jobs considered: records with at least these fields:
            \*   pools, for each resource pool its process_on_nodes
            \*   gpus, the GPUs of a node

VARIABLES
  job,          \* one of Jobs
  start,        \* where init_workers is
  pool,         \* the resource pool at hand
  place,        \* the nodes of each pool's placement groups, in their order of creation
  born,         \* the workers created
  centre,       \* the pools whose register centre exists
  registered    \* the workers the register centre knows

startVars == <<job, start, pool, place, born, centre, registered>>

\* The actor is in the first pool, the critic in the last.
Pools == DOMAIN job.pools
\* A pool takes as many GPUs of each of its nodes.
World(p) == Len(job.pools[p]) * job.pools[p][1]
Workers == UNION {{p} \X (0..(World(p) - 1)) : p \in Pools}

StartInit ==
  /\ start = "placing" /\ pool = 1
  /\ place = [p \in Pools |-> <<>>]
  /\ born = {} /\ centre = {} /\ registered = {}

\* The GPUs of node n that the placement groups pl of the pools take.
Taken(pl, n) ==
  LET InPool(p) == job.pools[p][1] * Cardinality({i \in DOMAIN pl[p] : pl[p][i] = n})
      taken[p \in 0..Len(job.pools)] == IF p = 0 THEN 0 ELSE taken[p - 1] + InPool(p)
  IN  taken[Len(job.pools)]

\* Ray puts every placement group on some node with enough GPUs left.
GetPlacementGroups ==
  /\ start = "placing"
  /\ \E nodes \in [1..Len(job.pools[pool]) -> Nodes] :
       LET pl == [place EXCEPT ![pool] = nodes]
       IN  /\ \A n \in Nodes : Taken(pl, n) <= job.gpus
           /\ place' = pl
  /\ start' = "rank zero"
  /\ UNCHANGED <<job, pool, born, centre, registered>>

CreateRankZero ==
  /\ start = "rank zero"
  /\ born' = born \cup {<<pool, 0>>}
  /\ start' = "waiting"
  /\ UNCHANGED <<job, pool, place, centre, registered>>

\* Rank 0 of pool p takes a free port and creates the centre with its address.
CreateRegisterCentre(p) ==
  /\ <<p, 0>> \in born /\ p \notin centre
  /\ centre' = centre \cup {p}
  /\ UNCHANGED <<job, start, pool, place, born, registered>>

SetWorkerInfo(w) ==
  /\ w \in born \ registered /\ w[1] \in centre
  /\ registered' = registered \cup {w}
  /\ UNCHANGED <<job, start, pool, place, born, centre>>

\* The driver has the master address and creates the other ranks, which find the
\* centre by its name; then it goes to the next pool.
CreateOthers ==
  /\ start = "waiting" /\ pool \in centre
  /\ born' = born \cup {w \in Workers : w[1] = pool}
  /\ IF pool < Len(job.pools) THEN start' = "placing" /\ pool' = pool + 1
                              ELSE start' = "up" /\ UNCHANGED pool
  /\ UNCHANGED <<job, place, centre, registered>>

\* Mutant: the wait for the register centre has no end.
TimeOut_Never == FALSE /\ UNCHANGED startVars

\* The centre has not appeared within ray_wait_register_center_timeout: TimeoutError.
TimeOut ==
  /\ start = "waiting" /\ pool \notin centre
  /\ start' = "raised"
  /\ UNCHANGED <<job, pool, place, born, centre, registered>>

\* Mutant: ranks are numbered in the order the placement groups were created in.
Sorted_AsCreated(nodes) == nodes

\* sort_placement_group_by_node_ip
Sorted(nodes) == SortSeq(nodes, LAMBDA m, n : m < n)

\* Ranks are numbered along the sorted placement groups.
NodeOf(w) == Sorted(place[w[1]])[w[2] \div job.pools[w[1]][1] + 1]

StartNext ==
  \/ GetPlacementGroups \/ CreateRankZero \/ CreateOthers \/ TimeOut
  \/ \E w \in Workers : SetWorkerInfo(w)
================================================================================
