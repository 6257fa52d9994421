--------------------------------- MODULE Dispatch ---------------------------------
(***************************************************************************)
(* How a call of the driver is dispatched to the ranks of a worker group   *)
(* and its outputs are collected, by the mode the method is registered     *)
(* with (decorator.py).  A layout gives the sizes tp, cp, dp and pp of the *)
(* rank's coordinates; FSDP workers are a layout of dp alone.              *)
(***************************************************************************)
EXTENDS DataProto, FiniteSets

Layouts == [tp : Nat \ {0}, cp : Nat \ {0}, dp : Nat \ {0}, pp : Nat \ {0}]

WorldSize(layout) == layout.tp * layout.cp * layout.dp * layout.pp
RanksOf(layout) == 0..(WorldSize(layout) - 1)

\* The coordinates of a rank in Megatron's default order tp-cp-dp-pp.
TpRank(layout, r) == r % layout.tp
CpRank(layout, r) == (r \div layout.tp) % layout.cp
DpRank(layout, r) == (r \div (layout.tp * layout.cp)) % layout.dp
PpRank(layout, r) == r \div (layout.tp * layout.cp * layout.dp)

\* Into how many chunks the batch is split.
NumChunks(mode, layout) ==
  CASE mode = "DP_COMPUTE_PROTO"        -> WorldSize(layout)
    [] mode = "MEGATRON_COMPUTE_PROTO"  -> layout.dp
    [] mode = "MEGATRON_PP_AS_DP_PROTO" -> layout.dp * layout.pp * layout.cp

\* The number, from 0, of the chunk that rank r is passed.
ChunkOf(mode, layout, r) ==
  CASE mode = "DP_COMPUTE_PROTO"        -> r
    [] mode = "MEGATRON_COMPUTE_PROTO"  -> DpRank(layout, r)
    [] mode = "MEGATRON_PP_AS_DP_PROTO" ->
         (CpRank(layout, r) * layout.dp + DpRank(layout, r)) * layout.pp + PpRank(layout, r)

\* Is the output of rank r collected?
IsCollected(mode, layout, r) ==
  CASE mode = "DP_COMPUTE_PROTO"        -> TRUE
    [] mode = "MEGATRON_COMPUTE_PROTO"  ->
         /\ TpRank(layout, r) = 0 /\ CpRank(layout, r) = 0
         /\ PpRank(layout, r) = layout.pp - 1
    [] mode = "MEGATRON_PP_AS_DP_PROTO" -> TpRank(layout, r) = 0

DispatchProto(mode, layout, b) ==
  [r \in RanksOf(layout) |-> Chunk(b, NumChunks(mode, layout))[ChunkOf(mode, layout, r) + 1]]

\* Outputs are taken by increasing rank.
Collecting(mode, layout) == {r \in RanksOf(layout) : IsCollected(mode, layout, r)}
CollectedRank(mode, layout, i) ==
  CHOOSE r \in Collecting(mode, layout) :
    Cardinality({q \in Collecting(mode, layout) : q < r}) = i - 1

CollectProto(mode, layout, output) ==
  Concat([i \in 1..Cardinality(Collecting(mode, layout)) |-> output[CollectedRank(mode, layout, i)]])
================================================================================
