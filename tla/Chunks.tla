------------------------------- MODULE Chunks --------------------------------
(***************************************************************************)
(* The even split of the index range of a parallel loop over the threads   *)
(* of the pool (chunk_bounds).  The products are int64 in the code and     *)
(* stay far below its limit (64 threads, at most 2^31 indices).            *)
(***************************************************************************)
EXTENDS Integers

CONSTANT NumThreads      (* n_: the caller and its workers                 *)

ASSUME ThreadsAssumption == NumThreads \in Nat \ {0}

Threads == 0 .. NumThreads - 1      (* 0 is the caller                     *)

ChunkLo(c, total) == (c * total) \div NumThreads

(* Plausible bug: every chunk has the length of an even share.             *)
ChunkHiShare(c, total) == ChunkLo(c, total) + total \div NumThreads

ChunkHi(c, total) == ((c + 1) * total) \div NumThreads

Chunk(c, total) == {x \in 0 .. total - 1 : ChunkLo(c, total) <= x /\ x < ChunkHi(c, total)}
=============================================================================
