---------------------------- MODULE ContiguousKV ----------------------------
(***************************************************************************)
(* What a KV cache promises its sequence, and what ContiguousKVCache gives *)
(* by construction: storage nobody else can touch.  Every cache owns a     *)
(* private array of (K, V) rows per layer; a write changes one row of one  *)
(* cache, a gather returns exactly the rows of one layer of that cache.    *)
(*                                                                         *)
(* PagedKV implements this module although its caches share one pool.      *)
(***************************************************************************)
EXTENDS Integers, Sequences

CONSTANTS
  Caches,      (* one per request                                          *)
  NumLayers,   (* num_layers_                                              *)
  MaxSeqLen,   (* max_seq_len_                                             *)
  Projections, (* the (K, V) vector pairs a token can project to           *)
  Zero,        (* the all-zero vector the constructor and reset() store    *)
  Stored       (* what storing a vector keeps of it: the identity on Vecs  *)
               (* for Dtype::F32, the rounding to __fp16 for Dtype::F16    *)

VARIABLES
  rows,        (* rows[c][l][p]: K and V of position p at layer l          *)
  scratch      (* scratch[c]: what the last gather copied out              *)

vars == << rows, scratch >>

Layers    == 0 .. NumLayers - 1
Positions == 0 .. MaxSeqLen - 1
ZeroRow   == [k |-> Zero, v |-> Zero]
ZeroRows  == [l \in Layers |-> [p \in Positions |-> ZeroRow]]

Init ==
  /\ rows = [c \in Caches |-> ZeroRows]
  /\ scratch = [c \in Caches |-> << >>]

Write(c, l, p, k, v) ==
  /\ rows' = [rows EXCEPT ![c][l][p] = [k |-> Stored[k], v |-> Stored[v]]]
  /\ UNCHANGED scratch

GatherLayer(c, l, n) ==
  /\ scratch' = [scratch EXCEPT ![c] = [i \in 1 .. n |-> rows[c][l][i - 1]]]
  /\ UNCHANGED rows

Reset(c) ==
  /\ rows' = [rows EXCEPT ![c] = ZeroRows]
  /\ UNCHANGED scratch

Next ==
  \E c \in Caches :
    \/ \E l \in Layers, p \in Positions, kv \in Projections :
         Write(c, l, p, kv[1], kv[2])
    \/ \E l \in Layers, n \in 0 .. MaxSeqLen : GatherLayer(c, l, n)
    \/ Reset(c)

Spec == Init /\ [][Next]_vars
=============================================================================
