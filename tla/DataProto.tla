-------------------------------- MODULE DataProto --------------------------------
(***************************************************************************)
(* The batches that the driver and the workers exchange: a DataProto is    *)
(* the sequence of its rows, a row being what its tensors and its          *)
(* non-tensor arrays hold at one index.  Indices are those of TLA+         *)
(* sequences, from 1.                                                      *)
(***************************************************************************)
EXTENDS Integers, Sequences

\* select_idxs and reorder: the row at i is the one that was at idx[i].
Reorder(b, idx) == [i \in 1..Len(idx) |-> b[idx[i]]]

\* repeat(n, interleave=True): each row n times in place.
Repeat(b, n) == [i \in 1..(Len(b) * n) |-> b[((i - 1) \div n) + 1]]

\* repeat(n, interleave=False): the batch n times, block after block.
Tile(b, n) == [i \in 1..(Len(b) * n) |-> b[((i - 1) % Len(b)) + 1]]

\* torch.arange(n * m).reshape(n, m).T.reshape(-1)
Transpose(n, m) == [i \in 1..(n * m) |-> ((i - 1) % n) * m + ((i - 1) \div n) + 1]

\* get_reverse_idx: where idx has put each position.
ReverseIdx(idx) ==
  [p \in 1..Len(idx) |-> CHOOSE i \in 1..Len(idx) : idx[i] = p]

\* chunk asserts that the batch divides equally.
CanChunk(b, k) == Len(b) % k = 0
Chunk(b, k) ==
  LET size == Len(b) \div k
  IN  [c \in 1..k |-> [i \in 1..size |-> b[(c - 1) * size + i]]]

\* concat, and the all-gather of a process group, of parts of one length.
Concat(parts) ==
  LET size == Len(parts[1])
  IN  [i \in 1..(Len(parts) * size) |->
         parts[((i - 1) \div size) + 1][((i - 1) % size) + 1]]

\* pad_dataproto_to_divisor: the batch goes on from its beginning, as often as
\* it takes, until the length divides; unpad_dataproto cuts that off.
PadSize(b, divisor) == (divisor - (Len(b) % divisor)) % divisor
PadToDivisor(b, divisor) ==
  [i \in 1..(Len(b) + PadSize(b, divisor)) |-> b[((i - 1) % Len(b)) + 1]]
Unpad(b, padding) == SubSeq(b, 1, Len(b) - padding)

\* union: the columns of both, row by row.  The batches must have one length, and
\* agree on the columns they share.
CanUnion(b, c) ==
  /\ Len(b) = Len(c)
  /\ \A i \in 1..Len(b) : \A k \in DOMAIN b[i] \cap DOMAIN c[i] : b[i][k] = c[i][k]
Union(b, c) ==
  [i \in 1..Len(b) |->
     [k \in DOMAIN b[i] \cup DOMAIN c[i] |->
        IF k \in DOMAIN b[i] THEN b[i][k] ELSE c[i][k]]]

================================================================================
