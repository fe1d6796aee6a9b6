------------------------------ MODULE PagedKV -------------------------------
(***************************************************************************)
(* The block pool (BlockManager) and the per-sequence caches that page     *)
(* their K/V rows into it (PagedKVCache).                                  *)
(*                                                                         *)
(* Every cache is driven by one thread, the way the forward passes drive   *)
(* it: for each token, for each layer, write() then gather(), and one      *)
(* release_all() when the sequence is over or a write found the pool       *)
(* exhausted.  allocate() and free() are critical sections of mu_, so each *)
(* is one step; everything between them interleaves with other threads.    *)
(***************************************************************************)
EXTENDS PoolLayout, Sequences

CONSTANTS
  Caches,       (* the caches that share the pool                          *)
  MaxSeqLen,    (* positions a sequence can reach (RoPE max_pos)           *)
  Vecs,         (* K and V vectors                                         *)
  Zero,         (* the vector the pool is filled with                      *)
  Projections   (* the (K, V) pairs a token can project to at a layer      *)

ASSUME CacheAssumption ==
  /\ MaxSeqLen \in Nat
  /\ Zero \in Vecs
  /\ Projections \subseteq Vecs \X Vecs

NoBlock == -1

VARIABLES
  freeList,     (* BlockManager::free_list_, front first                   *)
  pool,         (* BlockManager::pool_                                     *)
  blockTable,   (* PagedKVCache::block_table_                              *)
  pc,           (* where the thread of the cache is                        *)
  pos,          (* next position to write                                  *)
  layer,        (* layer the forward pass is at                            *)
  newId,        (* allocated, not yet pushed onto the table                *)
  relIdx,       (* release_all: next table entry to free                   *)
  scratch       (* k_gather_/v_gather_ after the last gather               *)

vars == << freeList, pool, blockTable, pc, pos, layer, newId, relIdx, scratch >>

PCs == {"ready", "push", "store", "gather", "failed", "release"}

TypeOK ==
  /\ freeList \in Seq(Blocks)
  /\ pool \in [Addresses -> Vecs]
  /\ blockTable \in [Caches -> Seq(Blocks)]
  /\ pc \in [Caches -> PCs]
  /\ pos \in [Caches -> 0 .. MaxSeqLen]
  /\ layer \in [Caches -> Layers]
  /\ newId \in [Caches -> Blocks \cup {NoBlock}]
  /\ relIdx \in [Caches -> Nat \ {0}]
  /\ scratch \in [Caches -> Seq([k : Vecs, v : Vecs])]

Init ==
  /\ freeList = [i \in 1 .. NumBlocks |-> i - 1]
  /\ pool = [a \in Addresses |-> Zero]
  /\ blockTable = [c \in Caches |-> << >>]
  /\ pc = [c \in Caches |-> "ready"]
  /\ pos = [c \in Caches |-> 0]
  /\ layer = [c \in Caches |-> 0]
  /\ newId = [c \in Caches |-> NoBlock]
  /\ relIdx = [c \in Caches |-> 1]
  /\ scratch = [c \in Caches |-> << >>]

(* Row of position p at layer l of cache c.                                *)
KAddr(c, l, p) == KPtr(blockTable[c][BlkIdx(p) + 1], l) + BlkOff(p)
VAddr(c, l, p) == VPtr(blockTable[c][BlkIdx(p) + 1], l) + BlkOff(p)

-----------------------------------------------------------------------------
(* PagedKVCache::write                                                     *)

(* Plausible boundary bug: the next block is allocated one position early. *)
NeedsBlockEarly(c) == BlkIdx(pos[c] + 1) >= Len(blockTable[c])

NeedsBlock(c) == BlkIdx(pos[c]) >= Len(blockTable[c])

(* Plausible bug: allocate() reads the front without popping it.           *)
AllocateNoPop(c) ==
  /\ pc[c] = "ready" /\ pos[c] < MaxSeqLen /\ NeedsBlock(c)
  /\ freeList # << >>
  /\ newId' = [newId EXCEPT ![c] = Head(freeList)]
  /\ pc' = [pc EXCEPT ![c] = "push"]
  /\ UNCHANGED << freeList, pool, blockTable, pos, layer, relIdx, scratch >>

Allocate(c) ==
  /\ pc[c] = "ready" /\ pos[c] < MaxSeqLen /\ NeedsBlock(c)
  /\ freeList # << >>
  /\ newId' = [newId EXCEPT ![c] = Head(freeList)]
  /\ freeList' = Tail(freeList)
  /\ pc' = [pc EXCEPT ![c] = "push"]
  /\ UNCHANGED << pool, blockTable, pos, layer, relIdx, scratch >>

(* allocate() returned -1: write() returns false before touching anything. *)
Exhausted(c) ==
  /\ pc[c] = "ready" /\ pos[c] < MaxSeqLen /\ NeedsBlock(c)
  /\ freeList = << >>
  /\ pc' = [pc EXCEPT ![c] = "failed"]
  /\ UNCHANGED << freeList, pool, blockTable, pos, layer, newId, relIdx, scratch >>

PushBack(c) ==
  /\ pc[c] = "push"
  /\ blockTable' = [blockTable EXCEPT ![c] = Append(@, newId[c])]
  /\ newId' = [newId EXCEPT ![c] = NoBlock]
  /\ pc' = [pc EXCEPT ![c] = "store"]
  /\ UNCHANGED << freeList, pool, pos, layer, relIdx, scratch >>

InPlace(c) ==
  /\ pc[c] = "ready" /\ pos[c] < MaxSeqLen /\ ~ NeedsBlock(c)
  /\ pc' = [pc EXCEPT ![c] = "store"]
  /\ UNCHANGED << freeList, pool, blockTable, pos, layer, newId, relIdx, scratch >>

Store(c, k, v) ==
  /\ pc[c] = "store"
  /\ pool' = [pool EXCEPT ![KAddr(c, layer[c], pos[c])] = k,
                          ![VAddr(c, layer[c], pos[c])] = v]
  /\ pc' = [pc EXCEPT ![c] = "gather"]
  /\ UNCHANGED << freeList, blockTable, pos, layer, newId, relIdx, scratch >>

(* Plausible bug: the layer counter runs past the last layer.              *)
GatherLayerOverrun(c) ==
  /\ pc[c] = "gather"
  /\ scratch' = [scratch EXCEPT ![c] =
                   [i \in 1 .. pos[c] + 1 |->
                      [k |-> pool[KAddr(c, layer[c], i - 1)],
                       v |-> pool[VAddr(c, layer[c], i - 1)]]]]
  /\ layer' = [layer EXCEPT ![c] = @ + 1]
  /\ pc' = [pc EXCEPT ![c] = "ready"]
  /\ UNCHANGED << freeList, pool, pos, blockTable, newId, relIdx >>

(* gather(layer, pos + 1), then the forward pass moves to the next layer,  *)
(* or to the next token.  The copy loop is one step: no other thread can   *)
(* change the rows it reads (ImplementsContiguousKV).                      *)
Gather(c) ==
  /\ pc[c] = "gather"
  /\ scratch' = [scratch EXCEPT ![c] =
                   [i \in 1 .. pos[c] + 1 |->
                      [k |-> pool[KAddr(c, layer[c], i - 1)],
                       v |-> pool[VAddr(c, layer[c], i - 1)]]]]
  /\ IF layer[c] + 1 < NumLayers
       THEN layer' = [layer EXCEPT ![c] = @ + 1] /\ UNCHANGED pos
       ELSE /\ layer' = [layer EXCEPT ![c] = 0]
            /\ pos' = [pos EXCEPT ![c] = @ + 1]
  /\ pc' = [pc EXCEPT ![c] = "ready"]
  /\ UNCHANGED << freeList, pool, blockTable, newId, relIdx >>

-----------------------------------------------------------------------------
(* PagedKVCache::release_all                                               *)

(* The sequence is over, or its write failed.                              *)
BeginRelease(c) ==
  /\ pc[c] = "failed" \/ (pc[c] = "ready" /\ layer[c] = 0)
  /\ pc' = [pc EXCEPT ![c] = "release"]
  /\ UNCHANGED << freeList, pool, blockTable, pos, layer, newId, relIdx, scratch >>

(* One BlockManager::free; other threads may allocate the block at once,   *)
(* while its id still stands in this cache's table.  Table entries are     *)
(* block ids, so the range check of free() never drops one.                *)
FreeBlock(c) ==
  /\ pc[c] = "release" /\ relIdx[c] <= Len(blockTable[c])
  /\ freeList' = Append(freeList, blockTable[c][relIdx[c]])
  /\ relIdx' = [relIdx EXCEPT ![c] = @ + 1]
  /\ UNCHANGED << pool, blockTable, pc, pos, layer, newId, scratch >>

(* Plausible bug: the table is cleared while ids are still to be freed.    *)
ClearTableEarly(c) ==
  /\ pc[c] = "release"
  /\ blockTable' = [blockTable EXCEPT ![c] = << >>]
  /\ relIdx' = [relIdx EXCEPT ![c] = 1]
  /\ pc' = [pc EXCEPT ![c] = "ready"]
  /\ pos' = [pos EXCEPT ![c] = 0]
  /\ UNCHANGED << freeList, pool, layer, newId, scratch >>

(* block_table_.clear(); the cache is empty again, for the destructor's    *)
(* second release_all or for a later sequence.                             *)
ClearTable(c) ==
  /\ pc[c] = "release" /\ relIdx[c] > Len(blockTable[c])
  /\ blockTable' = [blockTable EXCEPT ![c] = << >>]
  /\ relIdx' = [relIdx EXCEPT ![c] = 1]
  /\ pc' = [pc EXCEPT ![c] = "ready"]
  /\ pos' = [pos EXCEPT ![c] = 0]
  /\ UNCHANGED << freeList, pool, layer, newId, scratch >>

-----------------------------------------------------------------------------
Step(c) ==
  \/ Allocate(c)
  \/ Exhausted(c)
  \/ PushBack(c)
  \/ InPlace(c)
  \/ \E kv \in Projections : Store(c, kv[1], kv[2])
  \/ Gather(c)
  \/ BeginRelease(c)
  \/ FreeBlock(c)
  \/ ClearTable(c)

Next == \E c \in Caches : Step(c)

Spec == Init /\ [][Next]_vars

-----------------------------------------------------------------------------
(* Entries of the block table the cache still owns: during release_all the *)
(* entries before relIdx are already back in the free list.                *)
Live(c) == relIdx[c] .. Len(blockTable[c])

(* No block has two owners: the free list repeats nothing, the live table  *)
(* entries and the allocated-but-not-yet-pushed ids of all caches are      *)
(* pairwise different and none of them is free (paged_kv.cpp allocate,     *)
(* free, write, release_all: free() has no double-free check).             *)
FreeListDistinct ==
  \A i, j \in 1 .. Len(freeList) : freeList[i] = freeList[j] => i = j

TablesDistinct ==
  \A c, d \in Caches : \A i \in Live(c), j \in Live(d) :
    blockTable[c][i] = blockTable[d][j] => c = d /\ i = j

FreeNotInTable ==
  \A c \in Caches : \A i \in Live(c), j \in 1 .. Len(freeList) :
    blockTable[c][i] # freeList[j]

InFlight(c) == pc[c] = "push"

InFlightOwned ==
  \A c \in Caches : InFlight(c) =>
    /\ \A j \in 1 .. Len(freeList) : newId[c] # freeList[j]
    /\ \A d \in Caches : \A i \in Live(d) : newId[c] # blockTable[d][i]
    /\ \A d \in Caches : InFlight(d) /\ newId[d] = newId[c] => c = d

ExclusiveBlocks ==
  FreeListDistinct /\ TablesDistinct /\ FreeNotInTable /\ InFlightOwned

(* No block is lost: free, owned and in-flight blocks are the whole pool,  *)
(* whatever interleaving of write() and release_all() came before.         *)
NoBlockLost ==
  \A b \in Blocks :
    \/ \E i \in 1 .. Len(freeList) : freeList[i] = b
    \/ \E c \in Caches : \E i \in Live(c) : blockTable[c][i] = b
    \/ \E c \in Caches : InFlight(c) /\ newId[c] = b

(* A sequence holds exactly the blocks its tokens need, one allocation per *)
(* block_size positions (paged_kv.cpp:97), so write() indexes its table in *)
(* bounds and the out_of_range throw of gather() (paged_kv.cpp:124) is     *)
(* unreachable; and a write finds the pool empty only at layer 0, so a     *)
(* refused token leaves no layer half-written.                             *)
LazyAt(c) ==
  /\ pc[c] \in {"ready", "failed", "push"} /\ layer[c] = 0
       => Len(blockTable[c]) = BlocksFor(pos[c])
  /\ pc[c] = "ready" /\ layer[c] > 0
       => Len(blockTable[c]) = BlkIdx(pos[c]) + 1
  /\ pc[c] = "push" => Len(blockTable[c]) = BlkIdx(pos[c])
  /\ pc[c] \in {"store", "gather"}
       => Len(blockTable[c]) = BlkIdx(pos[c]) + 1
  /\ pc[c] \in {"failed", "push"} => layer[c] = 0

AllocationIsLazy == \A c \in Caches : LazyAt(c)

(* Where the fields can be together; with the three invariants above this  *)
(* is what makes them inductive.                                           *)
ControlAt(c) ==
  /\ relIdx[c] <= Len(blockTable[c]) + 1
  /\ pc[c] # "release" => relIdx[c] = 1
  /\ pc[c] = "release" => layer[c] = 0
  /\ pc[c] = "push" => newId[c] \in Blocks
  /\ pc[c] \in {"push", "store", "gather", "failed"} \/ layer[c] > 0
       => pos[c] < MaxSeqLen

ControlOK == \A c \in Caches : ControlAt(c)

IInv ==
  TypeOK /\ ControlOK /\ AllocationIsLazy /\ ExclusiveBlocks /\ NoBlockLost

(* What cache c has stored so far.                                         *)
Written(c, l, p) ==
  /\ pc[c] # "release"
  /\ \/ p < pos[c]
     \/ p = pos[c] /\ (l < layer[c] \/ (l = layer[c] /\ pc[c] = "gather"))

RowsOf(c) ==
  [l \in Layers |-> [p \in 0 .. MaxSeqLen - 1 |->
     IF Written(c, l, p)
       THEN [k |-> pool[KAddr(c, l, p)], v |-> pool[VAddr(c, l, p)]]
       ELSE [k |-> Zero, v |-> Zero]]]

(* The paged caches behave like private contiguous caches: a write changes *)
(* one row of its own sequence, a gather returns that sequence's rows and  *)
(* nothing left behind in a recycled block (blocks are never zeroed).      *)
Contiguous == INSTANCE ContiguousKV WITH
  rows   <- [c \in Caches |-> RowsOf(c)],
  Stored <- [x \in Vecs |-> x]

ImplementsContiguousKV == Contiguous!Spec
=============================================================================
