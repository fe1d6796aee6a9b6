----------------------------- MODULE PoolLayout -----------------------------
(***************************************************************************)
(* Address arithmetic of the paged KV pool (BlockManager::k_ptr / v_ptr    *)
(* and the blk_idx / blk_off split of PagedKVCache::write and gather).     *)
(*                                                                         *)
(* The unit of storage is one K or one V vector of a token at a layer,     *)
(* per_token_ = num_kv_heads * head_dim floats in the code: every offset   *)
(* of the code is a multiple of it, so it is divided out here.  A block    *)
(* holds the K vectors of all layers followed by their V vectors.          *)
(***************************************************************************)
EXTENDS Integers

CONSTANTS
  NumBlocks,  (* num_blocks_: blocks in the pool        *)
  BlockSize,  (* block_size_: token positions per block *)
  NumLayers   (* num_layers_: layers every block covers *)

(* The constructor rejects non-positive dimensions. *)
ASSUME DimsAssumption ==
  /\ NumBlocks \in Nat \ {0}
  /\ BlockSize \in Nat \ {0}
  /\ NumLayers \in Nat \ {0}

Blocks  == 0 .. NumBlocks - 1
Layers  == 0 .. NumLayers - 1
Offsets == 0 .. BlockSize - 1

PerLayerPerBlock == BlockSize
PerBlock         == (2 * NumLayers) * PerLayerPerBlock
Addresses        == 0 .. NumBlocks * PerBlock - 1

(* A token position falls into entry BlkIdx of the block table, at BlkOff. *)
BlkIdx(pos) == pos \div BlockSize
BlkOff(pos) == pos % BlockSize

(* Number of blocks that hold the first n positions. *)
BlocksFor(n) == IF n = 0 THEN 0 ELSE BlkIdx(n - 1) + 1

(* Plausible address bug: the V half starts one layer too early.           *)
VPtrOverlapsK(id, layer) ==
  id * PerBlock + ((NumLayers - 1) + layer) * PerLayerPerBlock

KPtr(id, layer) == id * PerBlock + layer * PerLayerPerBlock
VPtr(id, layer) == id * PerBlock + (NumLayers + layer) * PerLayerPerBlock
=============================================================================
