--------------------------- MODULE PagedKV_proofs ---------------------------
(***************************************************************************)
(* Proofs about PagedKV, for any number of caches and any pool dimensions: *)
(* typing and lazy allocation, exclusive ownership of blocks, conservation *)
(* of blocks, and that paged caches implement private contiguous ones.     *)
(***************************************************************************)
EXTENDS PagedKV, SequenceTheorems, TLAPS

-----------------------------------------------------------------------------
(* The address arithmetic of the pool is a bijection between the triples   *)
(* (block, half-and-layer, offset) and addresses: whatever the dimensions, *)
(* two different rows never share storage and no row leaves the pool.      *)

(* A number is read in one way as quotient and remainder.                  *)
LEMMA MixedRadixUnique ==
  ASSUME NEW n \in Nat \ {0}, NEW a \in Nat, NEW b \in Nat,
         NEW x \in 0 .. n - 1, NEW y \in 0 .. n - 1,
         a * n + x = b * n + y
  PROVE  a = b /\ x = y
<1>1. a >= b
  <2> SUFFICES ASSUME b >= a + 1 PROVE FALSE
    OBVIOUS
  <2>1. b * n >= (a + 1) * n
    BY SMT
  <2>2. (a + 1) * n = a * n + n
    BY SMT
  <2> QED BY <2>1, <2>2
<1>2. b >= a
  <2> SUFFICES ASSUME a >= b + 1 PROVE FALSE
    OBVIOUS
  <2>1. a * n >= (b + 1) * n
    BY SMT
  <2>2. (b + 1) * n = b * n + n
    BY SMT
  <2> QED BY <2>1, <2>2
<1> QED BY <1>1, <1>2

(* m groups of n cells are m * n cells.                                    *)
LEMMA MixedRadixRange ==
  ASSUME NEW n \in Nat \ {0}, NEW m \in Nat,
         NEW a \in 0 .. m - 1, NEW x \in 0 .. n - 1
  PROVE  a * n + x \in 0 .. m * n - 1
<1>1. a * n \in Nat /\ m * n \in Nat
  BY SMT
<1>2. a + 1 <= m
  OBVIOUS
<1>3. (a + 1) * n <= m * n
  BY <1>2, SMT
<1>4. (a + 1) * n = a * n + n
  BY SMT
<1> QED BY <1>1, <1>3, <1>4

(* BlkIdx and BlkOff are quotient and remainder of the position.           *)
LEMMA PositionSplit ==
  ASSUME NEW p \in Nat
  PROVE  /\ BlkIdx(p) \in Nat /\ BlkOff(p) \in Offsets
         /\ p = BlkIdx(p) * BlockSize + BlkOff(p)
  BY DimsAssumption, SMT DEF BlkIdx, BlkOff, Offsets

(* Two positions in the same block have different offsets.                 *)
LEMMA PositionUnique ==
  ASSUME NEW p \in Nat, NEW q \in Nat,
         BlkIdx(p) = BlkIdx(q), BlkOff(p) = BlkOff(q)
  PROVE  p = q
  BY PositionSplit

(* Block indices grow with the position ...                                *)
LEMMA BlkIdxMonotone ==
  ASSUME NEW p \in Nat, NEW q \in Nat, p <= q
  PROVE  BlkIdx(p) <= BlkIdx(q)
<1> SUFFICES ASSUME BlkIdx(p) >= BlkIdx(q) + 1 PROVE FALSE
  BY PositionSplit
<1> DEFINE a == BlkIdx(p)
           b == BlkIdx(q)
<1>1. /\ a \in Nat /\ b \in Nat
      /\ p = a * BlockSize + BlkOff(p) /\ q = b * BlockSize + BlkOff(q)
      /\ BlkOff(p) \in Offsets /\ BlkOff(q) \in Offsets
  BY PositionSplit
<1>2. a >= b + 1
  OBVIOUS
<1> HIDE DEF a, b
<1>3. a * BlockSize >= (b + 1) * BlockSize
  BY <1>1, <1>2, DimsAssumption, SMT
<1>4. (b + 1) * BlockSize = b * BlockSize + BlockSize
  BY <1>1, DimsAssumption, SMT
<1>5. a * BlockSize \in Nat /\ b * BlockSize \in Nat
  BY <1>1, DimsAssumption, SMT
<1> QED BY <1>1, <1>3, <1>4, <1>5, DimsAssumption DEF Offsets

(* ... and never skip a block.                                             *)
LEMMA BlkIdxStep ==
  ASSUME NEW p \in Nat
  PROVE  BlkIdx(p + 1) <= BlkIdx(p) + 1
  BY DimsAssumption, SMT DEF BlkIdx

LEMMA BlkIdxZero == BlkIdx(0) = 0
  BY DimsAssumption, SMT DEF BlkIdx

(* The test of write() (paged_kv.cpp:97) against a table that holds        *)
(* BlocksFor(p) blocks: position p needs at most one block more.           *)
LEMMA NextBlock ==
  ASSUME NEW p \in Nat
  PROVE  /\ BlocksFor(p) \in Nat
         /\ BlkIdx(p) >= BlocksFor(p) => BlocksFor(p) = BlkIdx(p)
         /\ BlkIdx(p) < BlocksFor(p) => BlocksFor(p) = BlkIdx(p) + 1
         /\ BlocksFor(p + 1) = BlkIdx(p) + 1
<1>1. CASE p = 0
  BY <1>1, BlkIdxZero, PositionSplit DEF BlocksFor
<1>2. CASE p # 0
  <2>1. p - 1 \in Nat /\ (p - 1) + 1 = p /\ (p + 1) - 1 = p
    BY <1>2
  <2>2. BlkIdx(p - 1) <= BlkIdx(p)
    BY <2>1, BlkIdxMonotone
  <2>3. BlkIdx(p) <= BlkIdx(p - 1) + 1
    BY <2>1, BlkIdxStep
  <2> QED BY <1>2, <2>1, <2>2, <2>3, PositionSplit DEF BlocksFor
<1> QED BY <1>1, <1>2

LEMMA PerBlockType == PerBlock \in Nat \ {0}
  BY DimsAssumption, SMT DEF PerBlock, PerLayerPerBlock

(* The cell of half-and-layer h at offset o of block id.                   *)
Cell(id, h, o) == id * PerBlock + (h * BlockSize + o)

Halves == 0 .. 2 * NumLayers - 1

LEMMA PtrIsCell ==
  ASSUME NEW id \in Blocks, NEW l \in Layers, NEW o \in Offsets
  PROVE  /\ KPtr(id, l) + o = Cell(id, l, o)
         /\ VPtr(id, l) + o = Cell(id, NumLayers + l, o)
         /\ l \in Halves /\ NumLayers + l \in Halves
<1>1. id * PerBlock \in Int
  BY PerBlockType, SMT DEF Blocks
<1>2. l * BlockSize \in Int /\ (NumLayers + l) * BlockSize \in Int
  BY DimsAssumption, SMT DEF Layers
<1>3. l \in Halves /\ NumLayers + l \in Halves
  BY DimsAssumption DEF Layers, Halves
<1> DEFINE kk == l * BlockSize
           vv == (NumLayers + l) * BlockSize
           bb == id * PerBlock
<1>4. o \in Int
  BY DimsAssumption DEF Offsets
<1>5. (bb + kk) + o = bb + (kk + o) /\ (bb + vv) + o = bb + (vv + o)
  <2> HIDE DEF kk, vv, bb
  <2>1. bb \in Int /\ kk \in Int /\ vv \in Int
    BY <1>1, <1>2 DEF kk, vv, bb
  <2> QED BY <2>1, <1>4
<1> QED BY <1>3, <1>5 DEF KPtr, VPtr, Cell, PerLayerPerBlock

LEMMA CellRange ==
  ASSUME NEW id \in Blocks, NEW h \in Halves, NEW o \in Offsets
  PROVE  Cell(id, h, o) \in Addresses
<1>1. h * BlockSize + o \in 0 .. PerBlock - 1
  BY MixedRadixRange, DimsAssumption
     DEF Halves, Offsets, PerBlock, PerLayerPerBlock
<1> QED BY <1>1, MixedRadixRange, PerBlockType, DimsAssumption
        DEF Cell, Addresses, Blocks

LEMMA CellUnique ==
  ASSUME NEW id \in Blocks, NEW h \in Halves, NEW o \in Offsets,
         NEW jd \in Blocks, NEW g \in Halves, NEW q \in Offsets,
         Cell(id, h, o) = Cell(jd, g, q)
  PROVE  id = jd /\ h = g /\ o = q
<1>1. /\ h * BlockSize + o \in 0 .. PerBlock - 1
      /\ g * BlockSize + q \in 0 .. PerBlock - 1
  BY MixedRadixRange, DimsAssumption
     DEF Halves, Offsets, PerBlock, PerLayerPerBlock
<1>2. id = jd /\ h * BlockSize + o = g * BlockSize + q
  BY <1>1, MixedRadixUnique, PerBlockType, DimsAssumption DEF Cell, Blocks
<1>3. h = g /\ o = q
  BY <1>2, MixedRadixUnique, DimsAssumption DEF Halves, Offsets
<1> QED BY <1>2, <1>3

(* Every K or V row lies inside the pool, for every block and layer        *)
(* (BlockManager::k_ptr, v_ptr plus the offset of write and gather).       *)
THEOREM RowsInPool ==
  ASSUME NEW id \in Blocks, NEW l \in Layers, NEW o \in Offsets
  PROVE  KPtr(id, l) + o \in Addresses /\ VPtr(id, l) + o \in Addresses
  BY PtrIsCell, CellRange

(* Different rows have different addresses, and no K row is a V row.       *)
THEOREM RowsDisjoint ==
  ASSUME NEW id \in Blocks, NEW l \in Layers, NEW o \in Offsets,
         NEW jd \in Blocks, NEW m \in Layers, NEW q \in Offsets
  PROVE  /\ KPtr(id, l) + o = KPtr(jd, m) + q => id = jd /\ l = m /\ o = q
         /\ VPtr(id, l) + o = VPtr(jd, m) + q => id = jd /\ l = m /\ o = q
         /\ KPtr(id, l) + o # VPtr(jd, m) + q
<1> USE PtrIsCell
<1>1. KPtr(id, l) + o = KPtr(jd, m) + q => id = jd /\ l = m /\ o = q
  BY CellUnique
<1>2. VPtr(id, l) + o = VPtr(jd, m) + q => id = jd /\ l = m /\ o = q
  <2> SUFFICES ASSUME VPtr(id, l) + o = VPtr(jd, m) + q
               PROVE  id = jd /\ l = m /\ o = q
    OBVIOUS
  <2>1. id = jd /\ NumLayers + l = NumLayers + m /\ o = q
    BY CellUnique
  <2> QED BY <2>1, DimsAssumption DEF Layers
<1>3. KPtr(id, l) + o # VPtr(jd, m) + q
  <2> SUFFICES ASSUME KPtr(id, l) + o = VPtr(jd, m) + q PROVE FALSE
    OBVIOUS
  <2>1. l = NumLayers + m
    BY CellUnique
  <2> QED BY <2>1, DimsAssumption DEF Layers
<1> QED BY <1>1, <1>2, <1>3

-----------------------------------------------------------------------------
LayoutInv == TypeOK /\ ControlOK /\ AllocationIsLazy

(* Sequence facts in the form the leaves below use.                        *)
LEMMA AppendFacts ==
  ASSUME NEW S, NEW s \in Seq(S), NEW e \in S
  PROVE  /\ Append(s, e) \in Seq(S)
         /\ Len(Append(s, e)) = Len(s) + 1
         /\ \A i \in 1 .. Len(s) : Append(s, e)[i] = s[i]
         /\ Append(s, e)[Len(s) + 1] = e
  OBVIOUS

LEMMA TailFacts ==
  ASSUME NEW S, NEW s \in Seq(S), s # << >>
  PROVE  /\ Head(s) \in S /\ Head(s) = s[1]
         /\ Tail(s) \in Seq(S)
         /\ Len(Tail(s)) = Len(s) - 1 /\ Len(s) >= 1
         /\ \A i \in 1 .. Len(Tail(s)) : Tail(s)[i] = s[i + 1]
  BY HeadTailProperties

(* Positions already written lie in the table.                             *)
LEMMA WrittenInTable ==
  ASSUME TypeOK, NEW c \in Caches, NEW p \in 0 .. MaxSeqLen,
         BlkIdx(p) < Len(blockTable[c])
  PROVE  /\ blockTable[c][BlkIdx(p) + 1] \in Blocks
         /\ \A l \in Layers : KAddr(c, l, p) \in Addresses
                              /\ VAddr(c, l, p) \in Addresses
<1>1. /\ p \in Nat /\ blockTable[c] \in Seq(Blocks)
      /\ Len(blockTable[c]) \in Nat /\ BlkIdx(p) \in Nat
  BY CacheAssumption, PositionSplit DEF TypeOK
<1>2. BlkIdx(p) + 1 \in 1 .. Len(blockTable[c])
  BY <1>1
<1>3. blockTable[c][BlkIdx(p) + 1] \in Blocks
  BY <1>1, <1>2, ElementOfSeq
<1> QED BY <1>1, <1>3, PositionSplit, RowsInPool DEF KAddr, VAddr

LEMMA LayoutInit == Init => LayoutInv
<1> SUFFICES ASSUME Init PROVE LayoutInv
  OBVIOUS
<1>1. TypeOK
  <2>1. freeList \in Seq(Blocks)
    <3>1. \A i \in 1 .. NumBlocks : i - 1 \in Blocks
      BY DimsAssumption DEF Blocks
    <3> QED BY <3>1, DimsAssumption DEF Init
  <2>2. blockTable \in [Caches -> Seq(Blocks)]
    BY DEF Init
  <2>3. scratch \in [Caches -> Seq([k : Vecs, v : Vecs])]
    BY DEF Init
  <2>4. pool \in [Addresses -> Vecs]
    BY CacheAssumption DEF Init
  <2>5. /\ pc \in [Caches -> PCs]
        /\ pos \in [Caches -> 0 .. MaxSeqLen]
        /\ layer \in [Caches -> Layers]
        /\ newId \in [Caches -> Blocks \cup {NoBlock}]
        /\ relIdx \in [Caches -> Nat \ {0}]
    BY DimsAssumption, CacheAssumption DEF Init, PCs, Layers
  <2> QED BY <2>1, <2>2, <2>3, <2>4, <2>5 DEF TypeOK
<1>2. ControlOK
  BY DEF Init, ControlOK, ControlAt
<1>3. AllocationIsLazy
  BY DEF Init, AllocationIsLazy, LazyAt, BlocksFor
<1> QED BY <1>1, <1>2, <1>3 DEF LayoutInv

(* A step of c leaves the layout of every other cache alone.               *)
LEMMA OtherLayout ==
  ASSUME NEW c \in Caches, NEW d \in Caches, c # d,
         TypeOK, Step(c), ControlAt(d), LazyAt(d)
  PROVE  ControlAt(d)' /\ LazyAt(d)'
<1>1. /\ pc'[d] = pc[d] /\ pos'[d] = pos[d] /\ layer'[d] = layer[d]
      /\ relIdx'[d] = relIdx[d] /\ blockTable'[d] = blockTable[d]
      /\ newId'[d] = newId[d]
  BY DEF Step, Allocate, Exhausted, PushBack, InPlace, Store, Gather,
         BeginRelease, FreeBlock, ClearTable, TypeOK
<1> QED BY <1>1 DEF ControlAt, LazyAt

LEMMA LayoutStep == LayoutInv /\ [Next]_vars => LayoutInv'
<1> SUFFICES ASSUME LayoutInv, [Next]_vars PROVE LayoutInv'
  OBVIOUS
<1> USE DEF LayoutInv
<1>0. CASE UNCHANGED vars
  BY <1>0 DEF vars, TypeOK, ControlOK, ControlAt, AllocationIsLazy, LazyAt
<1> SUFFICES ASSUME NEW c \in Caches, Step(c) PROVE LayoutInv'
  BY <1>0 DEF Next
<1> SUFFICES TypeOK' /\ ControlAt(c)' /\ LazyAt(c)'
  BY OtherLayout DEF ControlOK, AllocationIsLazy
<1>t. /\ ControlAt(c) /\ LazyAt(c)
      /\ pos[c] \in 0 .. MaxSeqLen /\ pos[c] \in Nat
      /\ layer[c] \in Layers /\ layer[c] \in Nat
      /\ blockTable[c] \in Seq(Blocks) /\ Len(blockTable[c]) \in Nat
      /\ relIdx[c] \in Nat \ {0}
      /\ BlkIdx(pos[c]) \in Nat
  <2>1. ControlAt(c) /\ LazyAt(c)
    BY DEF ControlOK, AllocationIsLazy
  <2>2. pos[c] \in 0 .. MaxSeqLen /\ pos[c] \in Nat
    BY CacheAssumption DEF TypeOK
  <2>3. layer[c] \in Layers /\ layer[c] \in Nat
    BY DimsAssumption DEF TypeOK, Layers
  <2>4. /\ blockTable[c] \in Seq(Blocks) /\ Len(blockTable[c]) \in Nat
        /\ relIdx[c] \in Nat \ {0}
    BY DEF TypeOK
  <2> QED BY <2>1, <2>2, <2>3, <2>4, PositionSplit
<1>1. CASE Allocate(c)
  <2>1. /\ Head(freeList) \in Blocks /\ Tail(freeList) \in Seq(Blocks)
    BY <1>1, TailFacts DEF Allocate, TypeOK
  <2>2. TypeOK'
    BY <1>1, <2>1 DEF Allocate, TypeOK, PCs
  <2>3. ControlAt(c)'
    BY <1>1, <1>t DEF Allocate, ControlAt, TypeOK
  <2>a. pc[c] = "ready" /\ BlkIdx(pos[c]) >= Len(blockTable[c])
    BY <1>1 DEF Allocate, NeedsBlock
  <2>b. layer[c] = 0
    BY <2>a, <1>t DEF LazyAt
  <2>4. /\ Len(blockTable[c]) = BlocksFor(pos[c])
        /\ Len(blockTable[c]) = BlkIdx(pos[c])
    BY <2>a, <2>b, <1>t, NextBlock DEF LazyAt
  <2>c. /\ pc'[c] = "push" /\ layer'[c] = 0 /\ pos'[c] = pos[c]
        /\ blockTable'[c] = blockTable[c]
    BY <1>1, <2>b DEF Allocate, TypeOK
  <2>5. LazyAt(c)'
    BY <2>4, <2>c DEF LazyAt
  <2> QED BY <2>2, <2>3, <2>5
<1>2. CASE Exhausted(c)
  <2>1. TypeOK'
    BY <1>2 DEF Exhausted, TypeOK, PCs
  <2>2. ControlAt(c)'
    BY <1>2, <1>t DEF Exhausted, ControlAt, TypeOK
  <2>3. layer[c] = 0
    BY <1>2, <1>t DEF Exhausted, LazyAt, NeedsBlock
  <2>4. LazyAt(c)'
    BY <1>2, <1>t, <2>3 DEF Exhausted, LazyAt, TypeOK
  <2> QED BY <2>1, <2>2, <2>4
<1>3. CASE PushBack(c)
  <2>1. pc[c] = "push" /\ newId[c] \in Blocks
    BY <1>3, <1>t DEF PushBack, ControlAt
  <2>2. /\ Append(blockTable[c], newId[c]) \in Seq(Blocks)
        /\ Len(Append(blockTable[c], newId[c])) = Len(blockTable[c]) + 1
    BY <1>t, <2>1, AppendFacts
  <2>3. TypeOK'
    BY <1>3, <2>2 DEF PushBack, TypeOK, PCs
  <2>4. blockTable'[c] = Append(blockTable[c], newId[c])
    BY <1>3 DEF PushBack, TypeOK
  <2>5. ControlAt(c)'
    BY <1>3, <1>t, <2>1, <2>2, <2>4 DEF PushBack, ControlAt, TypeOK
  <2>6. LazyAt(c)'
    BY <1>3, <1>t, <2>1, <2>2, <2>4 DEF PushBack, LazyAt, TypeOK
  <2> QED BY <2>3, <2>5, <2>6
<1>4. CASE InPlace(c)
  <2>a. pc[c] = "ready" /\ BlkIdx(pos[c]) < Len(blockTable[c])
    BY <1>4, <1>t DEF InPlace, NeedsBlock
  <2>b. Len(blockTable[c]) = BlkIdx(pos[c]) + 1
    <3>1. CASE layer[c] = 0
      BY <2>a, <3>1, <1>t, NextBlock DEF LazyAt
    <3>2. CASE layer[c] > 0
      BY <2>a, <3>2, <1>t DEF LazyAt
    <3> QED BY <3>1, <3>2, <1>t
  <2>1. TypeOK'
    BY <1>4 DEF InPlace, TypeOK, PCs
  <2>2. ControlAt(c)'
    BY <1>4, <1>t DEF InPlace, ControlAt, TypeOK
  <2>3. LazyAt(c)'
    BY <1>4, <2>b DEF InPlace, LazyAt, TypeOK
  <2> QED BY <2>1, <2>2, <2>3
<1>5. ASSUME NEW kv \in Projections, Store(c, kv[1], kv[2])
      PROVE  TypeOK' /\ ControlAt(c)' /\ LazyAt(c)'
  <2>1. kv[1] \in Vecs /\ kv[2] \in Vecs
    BY CacheAssumption
  <2>2. TypeOK'
    BY <1>5, <2>1 DEF Store, TypeOK, PCs
  <2>3. ControlAt(c)' /\ LazyAt(c)'
    BY <1>5, <1>t DEF Store, ControlAt, LazyAt, TypeOK
  <2> QED BY <2>2, <2>3
<1>6. CASE Gather(c)
  <2>1. /\ pc[c] = "gather" /\ pos[c] < MaxSeqLen
        /\ Len(blockTable[c]) = BlkIdx(pos[c]) + 1
    BY <1>6, <1>t DEF Gather, ControlAt, LazyAt
  <2>2. ASSUME NEW i \in 1 .. pos[c] + 1
        PROVE  [k |-> pool[KAddr(c, layer[c], i - 1)],
                v |-> pool[VAddr(c, layer[c], i - 1)]] \in [k : Vecs, v : Vecs]
    <3>1. i - 1 \in 0 .. MaxSeqLen /\ i - 1 \in Nat /\ i - 1 <= pos[c]
      BY <1>t, <2>1, CacheAssumption
    <3>2. BlkIdx(i - 1) < Len(blockTable[c])
      <4>1. BlkIdx(i - 1) <= BlkIdx(pos[c]) /\ BlkIdx(i - 1) \in Nat
        BY <3>1, <1>t, BlkIdxMonotone, PositionSplit
      <4> QED BY <4>1, <2>1, <1>t
    <3>3. /\ KAddr(c, layer[c], i - 1) \in Addresses
          /\ VAddr(c, layer[c], i - 1) \in Addresses
      BY <3>1, <3>2, <1>t, WrittenInTable
    <3> QED BY <3>3 DEF TypeOK
  <2> DEFINE row(i) == [k |-> pool[KAddr(c, layer[c], i - 1)],
                        v |-> pool[VAddr(c, layer[c], i - 1)]]
  <2>3. [i \in 1 .. pos[c] + 1 |-> row(i)] \in Seq([k : Vecs, v : Vecs])
    <3> HIDE DEF row
    <3>1. \A i \in 1 .. pos[c] + 1 : row(i) \in [k : Vecs, v : Vecs]
      BY <2>2 DEF row
    <3>2. pos[c] + 1 \in Nat
      BY <1>t
    <3>3. [i \in 1 .. pos[c] + 1 |-> row(i)]
            \in [1 .. pos[c] + 1 -> [k : Vecs, v : Vecs]]
      BY <3>1
    <3>4. [1 .. pos[c] + 1 -> [k : Vecs, v : Vecs]] \subseteq Seq([k : Vecs, v : Vecs])
      BY <3>2, SeqDef, ZenonT(30)
    <3> QED BY <3>3, <3>4
  <2>4. /\ pos'[c] = IF layer[c] + 1 < NumLayers THEN pos[c] ELSE pos[c] + 1
        /\ layer'[c] = IF layer[c] + 1 < NumLayers THEN layer[c] + 1 ELSE 0
        /\ pc'[c] = "ready" /\ relIdx'[c] = relIdx[c]
        /\ blockTable'[c] = blockTable[c]
    BY <1>6 DEF Gather, TypeOK
  <2>5. pos'[c] \in 0 .. MaxSeqLen /\ layer'[c] \in Layers
    BY <2>1, <2>4, <1>t, CacheAssumption, DimsAssumption DEF Layers
  <2>6. /\ pos' \in [Caches -> 0 .. MaxSeqLen]
        /\ layer' \in [Caches -> Layers]
        /\ pc' \in [Caches -> PCs]
        /\ scratch' \in [Caches -> Seq([k : Vecs, v : Vecs])]
    <3> HIDE DEF row
    <3>1. scratch' = [scratch EXCEPT ![c] = [i \in 1 .. pos[c] + 1 |-> row(i)]]
      BY <1>6 DEF Gather, row
    <3> QED BY <1>6, <2>3, <2>5, <3>1, ZenonT(30) DEF Gather, TypeOK, PCs
  <2>7. TypeOK'
    BY <1>6, <2>6 DEF Gather, TypeOK
  <2>8. ControlAt(c)'
    BY <2>1, <2>4, <1>t DEF ControlAt
  <2>9. LazyAt(c)'
    <3>1. BlocksFor(pos[c] + 1) = BlkIdx(pos[c]) + 1
      BY <1>t, NextBlock
    <3>2. CASE layer[c] + 1 < NumLayers
      BY <2>1, <2>4, <3>2, <1>t DEF LazyAt
    <3>3. CASE ~ (layer[c] + 1 < NumLayers)
      BY <2>1, <2>4, <3>1, <3>3, <1>t DEF LazyAt
    <3> QED BY <3>2, <3>3
  <2> QED BY <2>7, <2>8, <2>9
<1>7. CASE BeginRelease(c)
  <2>1. TypeOK'
    BY <1>7 DEF BeginRelease, TypeOK, PCs
  <2>2. ControlAt(c)' /\ LazyAt(c)'
    BY <1>7, <1>t DEF BeginRelease, ControlAt, LazyAt, TypeOK
  <2> QED BY <2>1, <2>2
<1>8. CASE FreeBlock(c)
  <2>1. blockTable[c][relIdx[c]] \in Blocks
    BY <1>8, <1>t, ElementOfSeq DEF FreeBlock
  <2>2. TypeOK'
    <3>1. freeList' \in Seq(Blocks)
      BY <1>8, <2>1, AppendFacts DEF FreeBlock, TypeOK
    <3>2. relIdx' \in [Caches -> Nat \ {0}]
      BY <1>8, <1>t DEF FreeBlock, TypeOK
    <3>3. UNCHANGED << pool, blockTable, pc, pos, layer, newId, scratch >>
      BY <1>8 DEF FreeBlock
    <3> QED BY <3>1, <3>2, <3>3 DEF TypeOK
  <2>3. ControlAt(c)' /\ LazyAt(c)'
    BY <1>8, <1>t DEF FreeBlock, ControlAt, LazyAt, TypeOK
  <2> QED BY <2>2, <2>3
<1>9. CASE ClearTable(c)
  <2>1. TypeOK'
    <3>1. 0 \in 0 .. MaxSeqLen /\ << >> \in Seq(Blocks)
      BY CacheAssumption
    <3>2. /\ blockTable' \in [Caches -> Seq(Blocks)]
          /\ pos' \in [Caches -> 0 .. MaxSeqLen]
          /\ relIdx' \in [Caches -> Nat \ {0}]
          /\ pc' \in [Caches -> PCs]
      BY <1>9, <3>1 DEF ClearTable, TypeOK, PCs
    <3>3. UNCHANGED << freeList, pool, layer, newId, scratch >>
      BY <1>9 DEF ClearTable
    <3> QED BY <3>2, <3>3 DEF TypeOK
  <2>2. ControlAt(c)'
    BY <1>9, <1>t DEF ClearTable, ControlAt, TypeOK
  <2>3. LazyAt(c)'
    BY <1>9, <1>t DEF ClearTable, ControlAt, LazyAt, TypeOK, BlocksFor
  <2> QED BY <2>1, <2>2, <2>3
<1> QED BY <1>1, <1>2, <1>3, <1>4, <1>5, <1>6, <1>7, <1>8, <1>9 DEF Step

LEMMA LayoutHolds == Spec => []LayoutInv
<1>1. Init => LayoutInv
  BY LayoutInit
<1>2. LayoutInv /\ [Next]_vars => LayoutInv'
  BY LayoutStep
<1> QED BY <1>1, <1>2, PTL DEF Spec

(* The fields have their types: write() and gather() index the table in    *)
(* bounds (paged_kv.cpp:88-133).                                           *)
THEOREM PagedTypes == Spec => []TypeOK
<1>1. LayoutInv => TypeOK
  BY DEF LayoutInv
<1> QED BY <1>1, LayoutHolds, PTL

(* Each cache holds exactly the blocks its tokens need; a write is refused *)
(* only at layer 0 (paged_kv.cpp:97, engine.cpp:350).                      *)
THEOREM LazyAllocation == Spec => []AllocationIsLazy
<1>1. LayoutInv => AllocationIsLazy
  BY DEF LayoutInv
<1> QED BY <1>1, LayoutHolds, PTL

-----------------------------------------------------------------------------
(* Ownership of blocks                                                     *)

OwnershipInv == ExclusiveBlocks /\ NoBlockLost

LEMMA OwnershipInit == Init => OwnershipInv
<1> SUFFICES ASSUME Init PROVE OwnershipInv
  OBVIOUS
<1>1. /\ Len(freeList) = NumBlocks
      /\ \A i \in 1 .. NumBlocks : freeList[i] = i - 1
  BY DimsAssumption DEF Init
<1>2. \A c \in Caches : Live(c) = {} /\ ~ InFlight(c)
  BY DEF Init, Live, InFlight
<1>3. FreeListDistinct
  BY <1>1, DimsAssumption DEF FreeListDistinct
<1>4. TablesDistinct /\ FreeNotInTable /\ InFlightOwned
  BY <1>2 DEF TablesDistinct, FreeNotInTable, InFlightOwned
<1>5. NoBlockLost
  <2> SUFFICES ASSUME NEW b \in Blocks
               PROVE  \E i \in 1 .. Len(freeList) : freeList[i] = b
    BY DEF NoBlockLost
  <2>1. b + 1 \in 1 .. NumBlocks
    BY DimsAssumption DEF Blocks
  <2>2. b \in Int
    BY DimsAssumption DEF Blocks
  <2>3. freeList[b + 1] = b
    BY <1>1, <2>1, <2>2
  <2> QED BY <1>1, <2>1, <2>3
<1> QED BY <1>3, <1>4, <1>5 DEF OwnershipInv, ExclusiveBlocks

(* Steps that move no block.                                               *)
LEMMA OwnershipQuiet ==
  ASSUME OwnershipInv, UNCHANGED << freeList, blockTable, relIdx, newId >>,
         \A d \in Caches : InFlight(d)' = InFlight(d)
  PROVE  OwnershipInv'
<1>1. \A d \in Caches : Live(d)' = Live(d)
  BY DEF Live
<1>2. FreeListDistinct' /\ TablesDistinct' /\ FreeNotInTable'
  BY <1>1 DEF OwnershipInv, ExclusiveBlocks, FreeListDistinct,
              TablesDistinct, FreeNotInTable
<1>3. InFlightOwned'
  BY <1>1 DEF OwnershipInv, ExclusiveBlocks, InFlightOwned
<1>4. NoBlockLost'
  BY <1>1 DEF OwnershipInv, NoBlockLost
<1> QED BY <1>2, <1>3, <1>4 DEF OwnershipInv, ExclusiveBlocks

LEMMA OwnershipAllocate ==
  ASSUME LayoutInv, OwnershipInv, NEW c \in Caches, Allocate(c)
  PROVE  OwnershipInv'
<1> USE DEF OwnershipInv, ExclusiveBlocks
<1>1. /\ freeList \in Seq(Blocks) /\ freeList # << >>
      /\ freeList' = Tail(freeList) /\ pc[c] = "ready"
      /\ newId' = [newId EXCEPT ![c] = Head(freeList)]
      /\ pc' = [pc EXCEPT ![c] = "push"]
      /\ UNCHANGED << blockTable, relIdx >>
  BY DEF Allocate, LayoutInv, TypeOK
<1>2. /\ Len(freeList) \in Nat /\ Len(freeList) >= 1
      /\ Len(freeList') = Len(freeList) - 1
      /\ \A i \in 1 .. Len(freeList') :
            freeList'[i] = freeList[i + 1] /\ i + 1 \in 1 .. Len(freeList)
      /\ Head(freeList) = freeList[1]
  BY <1>1, TailFacts
<1>3. /\ newId'[c] = freeList[1] /\ InFlight(c)' /\ ~ InFlight(c)
      /\ \A d \in Caches : d # c => newId'[d] = newId[d]
                                     /\ InFlight(d)' = InFlight(d)
      /\ \A d \in Caches : Live(d)' = Live(d)
  BY <1>1, <1>2 DEF InFlight, Live, LayoutInv, TypeOK
<1>4. FreeListDistinct'
  BY <1>2 DEF FreeListDistinct
<1>5. TablesDistinct'
  BY <1>1, <1>3 DEF TablesDistinct
<1>6. FreeNotInTable'
  BY <1>1, <1>2, <1>3 DEF FreeNotInTable
<1>7. InFlightOwned'
  <2> SUFFICES ASSUME NEW e \in Caches, InFlight(e)'
               PROVE  /\ \A j \in 1 .. Len(freeList') : newId'[e] # freeList'[j]
                      /\ \A d \in Caches : \A i \in Live(d)' :
                           newId'[e] # blockTable'[d][i]
                      /\ \A d \in Caches :
                           InFlight(d)' /\ newId'[d] = newId'[e] => e = d
    BY DEF InFlightOwned
  <2>1. CASE e = c
    <3>1. \A j \in 1 .. Len(freeList') : newId'[e] # freeList'[j]
      BY <2>1, <1>2, <1>3 DEF FreeListDistinct
    <3>2. \A d \in Caches : \A i \in Live(d)' : newId'[e] # blockTable'[d][i]
      BY <2>1, <1>1, <1>2, <1>3 DEF FreeNotInTable
    <3>3. \A d \in Caches : InFlight(d)' /\ newId'[d] = newId'[e] => e = d
      BY <2>1, <1>2, <1>3 DEF InFlightOwned
    <3> QED BY <3>1, <3>2, <3>3
  <2>2. CASE e # c
    <3>1. \A j \in 1 .. Len(freeList') : newId'[e] # freeList'[j]
      BY <2>2, <1>2, <1>3 DEF InFlightOwned
    <3>2. \A d \in Caches : \A i \in Live(d)' : newId'[e] # blockTable'[d][i]
      BY <2>2, <1>1, <1>3 DEF InFlightOwned
    <3>3. \A d \in Caches : InFlight(d)' /\ newId'[d] = newId'[e] => e = d
      BY <2>2, <1>2, <1>3 DEF InFlightOwned
    <3> QED BY <3>1, <3>2, <3>3
  <2> QED BY <2>1, <2>2
<1>8. NoBlockLost'
  <2> SUFFICES ASSUME NEW b \in Blocks
               PROVE  \/ \E i \in 1 .. Len(freeList') : freeList'[i] = b
                      \/ \E d \in Caches : \E i \in Live(d)' : blockTable'[d][i] = b
                      \/ \E d \in Caches : InFlight(d)' /\ newId'[d] = b
    BY DEF NoBlockLost
  <2>1. CASE \E i \in 1 .. Len(freeList) : freeList[i] = b
    <3>1. PICK i \in 1 .. Len(freeList) : freeList[i] = b
      BY <2>1
    <3>2. CASE i = 1
      BY <3>1, <3>2, <1>3
    <3>3. CASE i # 1
      <4>1. i - 1 \in 1 .. Len(freeList') /\ (i - 1) + 1 = i
        BY <3>3, <1>2
      <4>2. freeList'[i - 1] = b
        BY <4>1, <3>1, <1>2
      <4> QED BY <4>1, <4>2
    <3> QED BY <3>2, <3>3
  <2>2. CASE \E d \in Caches : \E i \in Live(d) : blockTable[d][i] = b
    BY <2>2, <1>1, <1>3
  <2>3. CASE \E d \in Caches : InFlight(d) /\ newId[d] = b
    BY <2>3, <1>3
  <2> QED BY <2>1, <2>2, <2>3 DEF NoBlockLost
<1> QED BY <1>4, <1>5, <1>6, <1>7, <1>8

LEMMA OwnershipPushBack ==
  ASSUME LayoutInv, OwnershipInv, NEW c \in Caches, PushBack(c)
  PROVE  OwnershipInv'
<1> USE DEF OwnershipInv, ExclusiveBlocks
<1> DEFINE n == Len(blockTable[c]) + 1
<1>1. /\ blockTable[c] \in Seq(Blocks) /\ Len(blockTable[c]) \in Nat
      /\ newId[c] \in Blocks /\ relIdx[c] = 1 /\ InFlight(c)
  BY DEF PushBack, LayoutInv, TypeOK, ControlOK, ControlAt, InFlight
<1>2. /\ UNCHANGED << freeList, relIdx >>
      /\ blockTable'[c] = Append(blockTable[c], newId[c])
      /\ ~ InFlight(c)'
      /\ \A d \in Caches : d # c => /\ blockTable'[d] = blockTable[d]
                                     /\ newId'[d] = newId[d]
                                     /\ InFlight(d)' = InFlight(d)
  BY DEF PushBack, LayoutInv, TypeOK, InFlight
<1>3. /\ Len(blockTable'[c]) = n
      /\ \A i \in 1 .. Len(blockTable[c]) : blockTable'[c][i] = blockTable[c][i]
      /\ blockTable'[c][n] = newId[c]
  BY <1>1, <1>2, AppendFacts
<1>4. /\ Live(c) = 1 .. Len(blockTable[c]) /\ Live(c)' = 1 .. n
      /\ Live(c)' = Live(c) \cup {n} /\ n \notin Live(c)
      /\ \A d \in Caches : d # c => Live(d)' = Live(d)
  BY <1>1, <1>2, <1>3 DEF Live
<1> HIDE DEF n
<1>5. FreeListDistinct'
  BY <1>2 DEF FreeListDistinct
<1>6. \A d \in Caches : \A i \in Live(d)' :
        \/ i \in Live(d) /\ blockTable'[d][i] = blockTable[d][i]
        \/ d = c /\ i = n /\ blockTable'[d][i] = newId[c]
  BY <1>2, <1>3, <1>4
<1>7. TablesDistinct'
  BY <1>1, <1>6 DEF TablesDistinct, InFlightOwned
<1>8. FreeNotInTable'
  BY <1>1, <1>2, <1>6 DEF FreeNotInTable, InFlightOwned
<1>9. InFlightOwned'
  <2> SUFFICES ASSUME NEW e \in Caches, InFlight(e)'
               PROVE  /\ \A j \in 1 .. Len(freeList') : newId'[e] # freeList'[j]
                      /\ \A d \in Caches : \A i \in Live(d)' :
                           newId'[e] # blockTable'[d][i]
                      /\ \A d \in Caches :
                           InFlight(d)' /\ newId'[d] = newId'[e] => e = d
    BY DEF InFlightOwned
  <2>1. e # c /\ InFlight(e) /\ newId'[e] = newId[e] /\ newId[e] # newId[c]
    BY <1>1, <1>2 DEF InFlightOwned
  <2>2. \A j \in 1 .. Len(freeList') : newId'[e] # freeList'[j]
    BY <2>1, <1>2 DEF InFlightOwned
  <2>3. \A d \in Caches : \A i \in Live(d)' : newId'[e] # blockTable'[d][i]
    BY <2>1, <1>6 DEF InFlightOwned
  <2>4. \A d \in Caches : InFlight(d)' /\ newId'[d] = newId'[e] => e = d
    BY <2>1, <1>2 DEF InFlightOwned
  <2> QED BY <2>2, <2>3, <2>4
<1>10. NoBlockLost'
  <2> SUFFICES ASSUME NEW b \in Blocks
               PROVE  \/ \E i \in 1 .. Len(freeList') : freeList'[i] = b
                      \/ \E d \in Caches : \E i \in Live(d)' : blockTable'[d][i] = b
                      \/ \E d \in Caches : InFlight(d)' /\ newId'[d] = b
    BY DEF NoBlockLost
  <2>1. CASE \E i \in 1 .. Len(freeList) : freeList[i] = b
    BY <2>1, <1>2
  <2>2. CASE \E d \in Caches : \E i \in Live(d) : blockTable[d][i] = b
    BY <2>2, <1>2, <1>3, <1>4
  <2>3. CASE \E d \in Caches : InFlight(d) /\ newId[d] = b
    BY <2>3, <1>2, <1>3, <1>4
  <2> QED BY <2>1, <2>2, <2>3 DEF NoBlockLost
<1> QED BY <1>5, <1>7, <1>8, <1>9, <1>10

LEMMA OwnershipFreeBlock ==
  ASSUME LayoutInv, OwnershipInv, NEW c \in Caches, FreeBlock(c)
  PROVE  OwnershipInv'
<1> USE DEF OwnershipInv, ExclusiveBlocks
<1> DEFINE r == relIdx[c]
           n == Len(freeList) + 1
<1>1. /\ freeList \in Seq(Blocks) /\ Len(freeList) \in Nat
      /\ blockTable[c] \in Seq(Blocks) /\ Len(blockTable[c]) \in Nat
      /\ r \in Nat \ {0} /\ r <= Len(blockTable[c])
  BY DEF FreeBlock, LayoutInv, TypeOK
<1>2. /\ UNCHANGED << blockTable, newId, pc >>
      /\ freeList' = Append(freeList, blockTable[c][r])
      /\ relIdx'[c] = r + 1
      /\ \A d \in Caches : d # c => relIdx'[d] = relIdx[d]
  BY DEF FreeBlock, LayoutInv, TypeOK
<1>3. blockTable[c][r] \in Blocks /\ r \in Live(c)
  BY <1>1, ElementOfSeq DEF Live
<1>4. /\ Len(freeList') = n
      /\ \A i \in 1 .. Len(freeList) : freeList'[i] = freeList[i]
      /\ freeList'[n] = blockTable[c][r]
  BY <1>1, <1>2, <1>3, AppendFacts
<1>5. /\ Live(c)' = Live(c) \ {r}
      /\ \A d \in Caches : d # c => Live(d)' = Live(d)
      /\ \A d \in Caches : InFlight(d)' = InFlight(d)
  BY <1>1, <1>2 DEF Live, InFlight
<1>6. \A i \in 1 .. Len(freeList') :
        \/ i \in 1 .. Len(freeList) /\ freeList'[i] = freeList[i]
        \/ i = n /\ freeList'[i] = blockTable[c][r]
  BY <1>1, <1>4
<1> HIDE DEF r, n
<1>7. FreeListDistinct'
  BY <1>3, <1>6 DEF FreeListDistinct, FreeNotInTable
<1>8. \A d \in Caches : \A i \in Live(d)' :
        i \in Live(d) /\ ~ (d = c /\ i = r)
  BY <1>5
<1>9. TablesDistinct'
  BY <1>2, <1>8 DEF TablesDistinct
<1>10. FreeNotInTable'
  BY <1>2, <1>3, <1>6, <1>8 DEF FreeNotInTable, TablesDistinct
<1>11. InFlightOwned'
  BY <1>2, <1>3, <1>5, <1>6, <1>8 DEF InFlightOwned
<1>12. NoBlockLost'
  <2> SUFFICES ASSUME NEW b \in Blocks
               PROVE  \/ \E i \in 1 .. Len(freeList') : freeList'[i] = b
                      \/ \E d \in Caches : \E i \in Live(d)' : blockTable'[d][i] = b
                      \/ \E d \in Caches : InFlight(d)' /\ newId'[d] = b
    BY DEF NoBlockLost
  <2>0. 1 .. Len(freeList') = 1 .. Len(freeList) \cup {n}
    BY <1>1, <1>4 DEF n
  <2>1. CASE \E i \in 1 .. Len(freeList) : freeList[i] = b
    BY <2>0, <2>1, <1>4
  <2>2. CASE \E d \in Caches : \E i \in Live(d) : blockTable[d][i] = b
    BY <2>0, <2>2, <1>2, <1>4, <1>5
  <2>3. CASE \E d \in Caches : InFlight(d) /\ newId[d] = b
    BY <2>3, <1>2, <1>5
  <2> QED BY <2>1, <2>2, <2>3 DEF NoBlockLost
<1> QED BY <1>7, <1>9, <1>10, <1>11, <1>12

LEMMA OwnershipClearTable ==
  ASSUME LayoutInv, OwnershipInv, NEW c \in Caches, ClearTable(c)
  PROVE  OwnershipInv'
<1> USE DEF OwnershipInv, ExclusiveBlocks
<1>1. /\ UNCHANGED << freeList, newId >> /\ pc[c] = "release"
      /\ blockTable'[c] = << >> /\ relIdx'[c] = 1 /\ pc'[c] = "ready"
      /\ relIdx[c] > Len(blockTable[c])
      /\ \A d \in Caches : d # c => /\ blockTable'[d] = blockTable[d]
                                     /\ relIdx'[d] = relIdx[d]
                                     /\ pc'[d] = pc[d]
  BY DEF ClearTable, LayoutInv, TypeOK
<1>2. relIdx[c] \in Nat /\ Len(blockTable[c]) \in Nat
  BY DEF LayoutInv, TypeOK
<1>3. /\ Live(c) = {} /\ Live(c)' = {}
      /\ \A d \in Caches : Live(d)' = Live(d) /\ InFlight(d)' = InFlight(d)
  BY <1>1, <1>2 DEF Live, InFlight
<1>4. \A d \in Caches : \A i \in Live(d) : blockTable'[d] = blockTable[d]
  BY <1>1, <1>3
<1>5. FreeListDistinct' /\ TablesDistinct' /\ FreeNotInTable'
  BY <1>1, <1>3, <1>4 DEF FreeListDistinct, TablesDistinct, FreeNotInTable
<1>6. InFlightOwned'
  BY <1>1, <1>3, <1>4 DEF InFlightOwned
<1>7. NoBlockLost'
  BY <1>1, <1>3, <1>4 DEF NoBlockLost
<1> QED BY <1>5, <1>6, <1>7

LEMMA OwnershipStep == LayoutInv /\ OwnershipInv /\ [Next]_vars => OwnershipInv'
<1> SUFFICES ASSUME LayoutInv, OwnershipInv, [Next]_vars PROVE OwnershipInv'
  OBVIOUS
<1>1. CASE UNCHANGED vars
  BY <1>1, OwnershipQuiet DEF vars, InFlight
<1> SUFFICES ASSUME NEW c \in Caches, Step(c) PROVE OwnershipInv'
  BY <1>1 DEF Next
<1>2. CASE Exhausted(c) \/ InPlace(c) \/ Gather(c) \/ BeginRelease(c)
  <2>1. \A d \in Caches : InFlight(d)' = InFlight(d)
    BY <1>2 DEF Exhausted, InPlace, Gather, BeginRelease, InFlight,
                LayoutInv, TypeOK
  <2> QED BY <1>2, <2>1, OwnershipQuiet
          DEF Exhausted, InPlace, Gather, BeginRelease
<1>3. ASSUME NEW kv \in Projections, Store(c, kv[1], kv[2])
      PROVE  OwnershipInv'
  <2>1. \A d \in Caches : InFlight(d)' = InFlight(d)
    BY <1>3 DEF Store, InFlight, LayoutInv, TypeOK
  <2> QED BY <1>3, <2>1, OwnershipQuiet DEF Store
<1> QED BY <1>2, <1>3, OwnershipAllocate, OwnershipPushBack,
           OwnershipFreeBlock, OwnershipClearTable DEF Step

LEMMA OwnershipHolds == Spec => []IInv
<1>1. Init => IInv
  BY LayoutInit, OwnershipInit DEF IInv, LayoutInv, OwnershipInv
<1>2. IInv /\ [Next]_vars => IInv'
  BY LayoutStep, OwnershipStep DEF IInv, LayoutInv, OwnershipInv
<1> QED BY <1>1, <1>2, PTL DEF Spec

(* No block ever has two owners, however the writes and releases of the    *)
(* caches interleave (BlockManager::allocate and free under mu_; free()    *)
(* itself would accept a double free).                                     *)
THEOREM BlockOwnership == Spec => []ExclusiveBlocks
<1>1. IInv => ExclusiveBlocks
  BY DEF IInv
<1> QED BY <1>1, OwnershipHolds, PTL

(* No block is ever lost: each is free, in a table, or in the hands of a   *)
(* call between allocate() and push_back (paged_kv.cpp:97-103, 135-139).   *)
THEOREM NoBlockIsLost == Spec => []NoBlockLost
<1>1. IInv => NoBlockLost
  BY DEF IInv
<1> QED BY <1>1, OwnershipHolds, PTL

-----------------------------------------------------------------------------
(* Refinement                                                              *)

(* Written positions lie in live entries of the table.                     *)
LEMMA WrittenLive ==
  ASSUME LayoutInv, NEW c \in Caches, NEW l \in Layers,
         NEW p \in 0 .. MaxSeqLen - 1, Written(c, l, p)
  PROVE  BlkIdx(p) < Len(blockTable[c]) /\ BlkIdx(p) + 1 \in Live(c)
<1>1. /\ ControlAt(c) /\ LazyAt(c) /\ pc[c] \in PCs
      /\ Len(blockTable[c]) \in Nat
      /\ pos[c] \in Nat /\ layer[c] \in Nat /\ l \in Nat /\ p \in Nat
  <2>1. ControlAt(c) /\ LazyAt(c)
    BY DEF LayoutInv, ControlOK, AllocationIsLazy
  <2>2. pc[c] \in PCs /\ Len(blockTable[c]) \in Nat
    BY DEF LayoutInv, TypeOK
  <2>3. pos[c] \in Nat /\ layer[c] \in Nat /\ l \in Nat /\ p \in Nat
    BY CacheAssumption, DimsAssumption DEF LayoutInv, TypeOK, Layers
  <2> QED BY <2>1, <2>2, <2>3
<1>2. BlkIdx(p) \in Nat /\ BlkIdx(pos[c]) \in Nat /\ p <= pos[c]
  <2>1. p <= pos[c]
    BY <1>1 DEF Written
  <2> QED BY <2>1, <1>1, PositionSplit
<1>3. BlkIdx(p) < Len(blockTable[c])
  <2>1. CASE Len(blockTable[c]) = BlkIdx(pos[c]) + 1
    BY <2>1, <1>1, <1>2, BlkIdxMonotone
  <2>2. CASE Len(blockTable[c]) # BlkIdx(pos[c]) + 1
    <3>1. pc[c] \in {"ready", "failed", "push"} /\ layer[c] = 0
      BY <2>2, <1>1 DEF LazyAt, PCs, Written
    <3>2. p <= pos[c] - 1 /\ pos[c] - 1 \in Nat
      BY <3>1, <1>1 DEF Written
    <3>3. Len(blockTable[c]) = BlkIdx(pos[c] - 1) + 1
      BY <3>1, <3>2, <1>1 DEF LazyAt, BlocksFor
    <3>4. BlkIdx(p) <= BlkIdx(pos[c] - 1) /\ BlkIdx(pos[c] - 1) \in Nat
      BY <3>2, <1>1, BlkIdxMonotone, PositionSplit
    <3> QED BY <3>3, <3>4, <1>2
  <2> QED BY <2>1, <2>2
<1> QED BY <1>1, <1>2, <1>3 DEF Live, ControlAt, Written

(* Rows of live table entries never share storage.                         *)
LEMMA RowsApart ==
  ASSUME LayoutInv, TablesDistinct,
         NEW c \in Caches, NEW l \in Layers, NEW p \in 0 .. MaxSeqLen,
         NEW d \in Caches, NEW m \in Layers, NEW q \in 0 .. MaxSeqLen,
         BlkIdx(p) + 1 \in Live(c), BlkIdx(q) + 1 \in Live(d),
         ~ (c = d /\ l = m /\ p = q)
  PROVE  /\ KAddr(c, l, p) # KAddr(d, m, q) /\ KAddr(c, l, p) # VAddr(d, m, q)
         /\ VAddr(c, l, p) # KAddr(d, m, q) /\ VAddr(c, l, p) # VAddr(d, m, q)
<1> DEFINE b == blockTable[c][BlkIdx(p) + 1]
           e == blockTable[d][BlkIdx(q) + 1]
<1>1. /\ p \in Nat /\ q \in Nat /\ BlkOff(p) \in Offsets /\ BlkOff(q) \in Offsets
      /\ BlkIdx(p) \in Nat /\ BlkIdx(q) \in Nat
  BY CacheAssumption, PositionSplit
<1>2. /\ BlkIdx(p) + 1 \in 1 .. Len(blockTable[c])
      /\ BlkIdx(q) + 1 \in 1 .. Len(blockTable[d])
  BY <1>1, SMTT(30) DEF Live, LayoutInv, TypeOK
<1>3. b \in Blocks /\ e \in Blocks
  BY <1>2, ElementOfSeq DEF LayoutInv, TypeOK
<1>4. b = e => c = d /\ BlkIdx(p) = BlkIdx(q)
  BY <1>1 DEF TablesDistinct
<1>5. ~ (b = e /\ l = m /\ BlkOff(p) = BlkOff(q))
  BY <1>1, <1>4, PositionUnique
<1> HIDE DEF b, e
<1>6. /\ KPtr(b, l) + BlkOff(p) # KPtr(e, m) + BlkOff(q)
      /\ KPtr(b, l) + BlkOff(p) # VPtr(e, m) + BlkOff(q)
      /\ VPtr(b, l) + BlkOff(p) # KPtr(e, m) + BlkOff(q)
      /\ VPtr(b, l) + BlkOff(p) # VPtr(e, m) + BlkOff(q)
  BY <1>1, <1>3, <1>5, RowsDisjoint
<1> QED BY <1>6 DEF KAddr, VAddr, b, e

(* A step that keeps the pool and, for what is written, the table entries  *)
(* keeps the rows of every cache.                                          *)
LEMMA RowsKept ==
  ASSUME LayoutInv, pool' = pool, NEW d \in Caches,
         \A l \in Layers, p \in 0 .. MaxSeqLen - 1 :
            /\ Written(d, l, p)' <=> Written(d, l, p)
            /\ Written(d, l, p) =>
                 blockTable'[d][BlkIdx(p) + 1] = blockTable[d][BlkIdx(p) + 1]
  PROVE  RowsOf(d)' = RowsOf(d)
<1>1. ASSUME NEW l \in Layers, NEW p \in 0 .. MaxSeqLen - 1
      PROVE  (IF Written(d, l, p)
                THEN [k |-> pool[KAddr(d, l, p)], v |-> pool[VAddr(d, l, p)]]
                ELSE [k |-> Zero, v |-> Zero])'
             = IF Written(d, l, p)
                THEN [k |-> pool[KAddr(d, l, p)], v |-> pool[VAddr(d, l, p)]]
                ELSE [k |-> Zero, v |-> Zero]
  <2>1. CASE Written(d, l, p)
    <3>1. KAddr(d, l, p)' = KAddr(d, l, p) /\ VAddr(d, l, p)' = VAddr(d, l, p)
      BY <2>1 DEF KAddr, VAddr
    <3> QED BY <2>1, <3>1
  <2>2. CASE ~ Written(d, l, p)
    BY <2>2
  <2> QED BY <2>1, <2>2
<1> QED BY <1>1 DEF RowsOf

RowsBar == [c \in Caches |-> RowsOf(c)]

(* The steps that neither store a row nor release anything.                *)
LEMMA QuietRefines ==
  ASSUME LayoutInv, NEW c \in Caches,
         Allocate(c) \/ Exhausted(c) \/ PushBack(c) \/ InPlace(c)
           \/ FreeBlock(c) \/ ClearTable(c)
  PROVE  RowsBar' = RowsBar /\ scratch' = scratch
<1>1. pool' = pool /\ scratch' = scratch
  BY DEF Allocate, Exhausted, PushBack, InPlace, FreeBlock, ClearTable
<1>2. /\ \A d \in Caches : d # c =>
           /\ pc'[d] = pc[d] /\ pos'[d] = pos[d] /\ layer'[d] = layer[d]
           /\ blockTable'[d] = blockTable[d]
  BY DEF Allocate, Exhausted, PushBack, InPlace, FreeBlock, ClearTable,
         LayoutInv, TypeOK
<1>3. ASSUME NEW d \in Caches, d # c PROVE RowsOf(d)' = RowsOf(d)
  BY <1>1, <1>2, <1>3, RowsKept DEF Written
<1>4. RowsOf(c)' = RowsOf(c)
  <2> SUFFICES ASSUME NEW l \in Layers, NEW p \in 0 .. MaxSeqLen - 1
               PROVE  /\ Written(c, l, p)' <=> Written(c, l, p)
                      /\ Written(c, l, p) =>
                           blockTable'[c][BlkIdx(p) + 1] = blockTable[c][BlkIdx(p) + 1]
    BY <1>1, RowsKept
  <2>1. /\ layer'[c] = layer[c] /\ layer[c] \in Nat /\ l \in Nat /\ p \in Nat
        /\ pos[c] \in Nat /\ blockTable[c] \in Seq(Blocks)
    BY DimsAssumption, CacheAssumption
       DEF Allocate, Exhausted, PushBack, InPlace, FreeBlock, ClearTable,
           LayoutInv, TypeOK, Layers
  <2>2. CASE Allocate(c) \/ Exhausted(c) \/ InPlace(c)
    <3>1. /\ blockTable' = blockTable /\ pos' = pos
          /\ pc[c] = "ready" /\ pc'[c] \in {"push", "failed", "store"}
      BY <2>2 DEF Allocate, Exhausted, InPlace, LayoutInv, TypeOK
    <3> QED BY <2>1, <3>1 DEF Written
  <2>3. CASE PushBack(c)
    <3>1. /\ pos' = pos /\ pc[c] = "push" /\ pc'[c] = "store"
          /\ newId[c] \in Blocks
          /\ blockTable'[c] = Append(blockTable[c], newId[c])
      BY <2>3 DEF PushBack, LayoutInv, TypeOK, ControlOK, ControlAt
    <3>2. Written(c, l, p)' <=> Written(c, l, p)
      BY <2>1, <3>1 DEF Written
    <3>3. ASSUME Written(c, l, p)
          PROVE  BlkIdx(p) + 1 \in 1 .. Len(blockTable[c])
      <4>1. BlkIdx(p) < Len(blockTable[c])
        BY <3>3, WrittenLive
      <4>2. BlkIdx(p) \in Nat /\ Len(blockTable[c]) \in Nat
        <5>1. BlkIdx(p) \in Nat
          BY <2>1, PositionSplit
        <5> QED BY <5>1, <2>1, LenProperties
      <4> QED BY <4>1, <4>2
    <3> QED BY <2>1, <3>1, <3>2, <3>3, AppendFacts
  <2>4. CASE FreeBlock(c)
    BY <2>4 DEF FreeBlock, Written
  <2>5. CASE ClearTable(c)
    <3>1. pc[c] = "release" /\ pos'[c] = 0 /\ layer'[c] = 0 /\ pc'[c] = "ready"
      BY <2>5 DEF ClearTable, LayoutInv, TypeOK, ControlOK, ControlAt
    <3> QED BY <2>1, <3>1 DEF Written
  <2> QED BY <2>2, <2>3, <2>4, <2>5
<1> QED BY <1>1, <1>3, <1>4 DEF RowsBar

(* Two-level functions, compared and updated pointwise.                    *)
IsTable(f, L, P) ==
  f = [l \in L |-> f[l]] /\ \A l \in L : f[l] = [p \in P |-> f[l][p]]

LEMMA TableEqual ==
  ASSUME NEW L, NEW P, NEW f, NEW g, IsTable(f, L, P), IsTable(g, L, P),
         \A l \in L, p \in P : g[l][p] = f[l][p]
  PROVE  g = f
<1>1. \A l \in L : g[l] = f[l]
  BY DEF IsTable
<1> QED BY <1>1 DEF IsTable

LEMMA TableExcept ==
  ASSUME NEW L, NEW P, NEW f, NEW g, IsTable(f, L, P), IsTable(g, L, P),
         NEW m \in L, NEW q \in P, NEW x,
         \A l \in L, p \in P :
           g[l][p] = IF l = m /\ p = q THEN x ELSE f[l][p]
  PROVE  g = [f EXCEPT ![m][q] = x]
<1> DEFINE h == [f EXCEPT ![m][q] = x]
<1>1. /\ h = [l \in L |-> h[l]]
      /\ \A l \in L : h[l] = IF l = m THEN [f[m] EXCEPT ![q] = x] ELSE f[l]
  BY DEF IsTable
<1>2. \A l \in L : l # m => g[l] = h[l]
  BY <1>1 DEF IsTable
<1>3. g[m] = h[m]
  <2>1. \A p \in P : g[m][p] = [f[m] EXCEPT ![q] = x][p]
    BY DEF IsTable
  <2>2. [f[m] EXCEPT ![q] = x] = [p \in P |-> [f[m] EXCEPT ![q] = x][p]]
    BY DEF IsTable
  <2>3. g[m] = [f[m] EXCEPT ![q] = x]
    BY <2>1, <2>2 DEF IsTable
  <2> QED BY <2>3, <1>1
<1> HIDE DEF h
<1>4. \A l \in L : g[l] = h[l]
  BY <1>2, <1>3
<1>5. g = h
  BY <1>1, <1>4 DEF IsTable
<1> QED BY <1>5 DEF h

LEMMA StoreRefines ==
  ASSUME LayoutInv, TablesDistinct, NEW c \in Caches,
         NEW kv \in Projections, Store(c, kv[1], kv[2])
  PROVE  /\ RowsBar' = [RowsBar EXCEPT ![c][layer[c]][pos[c]]
                          = [k |-> kv[1], v |-> kv[2]]]
         /\ scratch' = scratch /\ layer[c] \in Layers
         /\ pos[c] \in 0 .. MaxSeqLen - 1
<1> DEFINE ka == KAddr(c, layer[c], pos[c])
           va == VAddr(c, layer[c], pos[c])
<1>1. /\ scratch' = scratch /\ layer[c] \in Layers
      /\ pos[c] \in 0 .. MaxSeqLen - 1 /\ pos[c] \in Nat /\ layer[c] \in Nat
      /\ pc[c] = "store" /\ Len(blockTable[c]) = BlkIdx(pos[c]) + 1
      /\ relIdx[c] = 1
  <2>1. pc[c] = "store" /\ scratch' = scratch
    BY DEF Store
  <2>2. /\ pos[c] < MaxSeqLen /\ Len(blockTable[c]) = BlkIdx(pos[c]) + 1
        /\ relIdx[c] = 1
    BY <2>1 DEF LayoutInv, ControlOK, ControlAt, AllocationIsLazy, LazyAt
  <2>3. /\ pos[c] \in Nat /\ layer[c] \in Layers /\ layer[c] \in Nat
    BY DimsAssumption, CacheAssumption DEF LayoutInv, TypeOK, Layers
  <2> QED BY <2>1, <2>2, <2>3, CacheAssumption
<1>2. /\ pool' = [pool EXCEPT ![ka] = kv[1], ![va] = kv[2]]
      /\ UNCHANGED << blockTable, pos, layer >>
      /\ pc'[c] = "gather" /\ \A d \in Caches : d # c => pc'[d] = pc[d]
  BY DEF Store, LayoutInv, TypeOK
<1>3. BlkIdx(pos[c]) + 1 \in Live(c) /\ BlkIdx(pos[c]) < Len(blockTable[c])
  BY <1>1, PositionSplit DEF Live
<1>4. /\ ka \in Addresses /\ va \in Addresses /\ ka # va
  <2>1. ka \in Addresses /\ va \in Addresses
    BY <1>1, <1>3, WrittenInTable, CacheAssumption DEF LayoutInv
  <2>2. blockTable[c][BlkIdx(pos[c]) + 1] \in Blocks /\ BlkOff(pos[c]) \in Offsets
    <3>1. blockTable[c][BlkIdx(pos[c]) + 1] \in Blocks
      BY <1>1, <1>3, WrittenInTable, CacheAssumption DEF LayoutInv
    <3> QED BY <1>1, <3>1, PositionSplit
  <2>3. ka # va
    BY <1>1, <2>2, RowsDisjoint DEF KAddr, VAddr
  <2> QED BY <2>1, <2>3
<1>5. ASSUME NEW d \in Caches, NEW l \in Layers, NEW p \in 0 .. MaxSeqLen - 1
      PROVE  RowsOf(d)'[l][p] = IF d = c /\ l = layer[c] /\ p = pos[c]
                                  THEN [k |-> kv[1], v |-> kv[2]]
                                  ELSE RowsOf(d)[l][p]
  <2>0. KAddr(d, l, p)' = KAddr(d, l, p) /\ VAddr(d, l, p)' = VAddr(d, l, p)
    BY <1>2 DEF KAddr, VAddr
  <2>1. CASE d = c /\ l = layer[c] /\ p = pos[c]
    <3>1. Written(d, l, p)'
      BY <2>1, <1>2 DEF Written
    <3>2. pool'[KAddr(d, l, p)] = kv[1] /\ pool'[VAddr(d, l, p)] = kv[2]
      BY <2>1, <1>2, <1>4 DEF LayoutInv, TypeOK
    <3> QED BY <2>0, <2>1, <3>1, <3>2 DEF RowsOf
  <2>2. CASE ~ (d = c /\ l = layer[c] /\ p = pos[c])
    <3>1. Written(d, l, p)' <=> Written(d, l, p)
      <4>1. l \in Nat /\ p \in Nat
        BY DimsAssumption, CacheAssumption DEF Layers
      <4> QED BY <4>1, <2>2, <1>1, <1>2 DEF Written
    <3>2. ASSUME Written(d, l, p)
          PROVE  /\ pool'[KAddr(d, l, p)] = pool[KAddr(d, l, p)]
                 /\ pool'[VAddr(d, l, p)] = pool[VAddr(d, l, p)]
      <4>1. BlkIdx(p) + 1 \in Live(d) /\ BlkIdx(p) < Len(blockTable[d])
        BY <3>2, WrittenLive
      <4>2. p \in 0 .. MaxSeqLen /\ pos[c] \in 0 .. MaxSeqLen
        BY <1>1, CacheAssumption
      <4>3. /\ KAddr(d, l, p) # ka /\ KAddr(d, l, p) # va
            /\ VAddr(d, l, p) # ka /\ VAddr(d, l, p) # va
        BY <4>1, <4>2, <1>1, <1>3, <2>2, RowsApart
      <4>4. KAddr(d, l, p) \in Addresses /\ VAddr(d, l, p) \in Addresses
        BY <4>1, <4>2, WrittenInTable DEF LayoutInv
      <4> QED BY <4>3, <4>4, <1>2 DEF LayoutInv, TypeOK
    <3> QED BY <2>0, <2>2, <3>1, <3>2 DEF RowsOf
  <2> QED BY <2>1, <2>2
<1>6. RowsBar' = [RowsBar EXCEPT ![c][layer[c]][pos[c]] = [k |-> kv[1], v |-> kv[2]]]
  <2>1. ASSUME NEW d \in Caches, d # c PROVE RowsOf(d)' = RowsOf(d)
    <3> DEFINE f == RowsOf(d)
               g == RowsOf(d)'
               P == 0 .. MaxSeqLen - 1
    <3>1. \A l \in Layers, p \in P : g[l][p] = f[l][p]
      BY <1>5, <2>1
    <3>2. IsTable(f, Layers, P) /\ IsTable(g, Layers, P)
      BY DEF RowsOf, IsTable
    <3> HIDE DEF f, g, P
    <3>3. g = f
      BY <3>1, <3>2, TableEqual
    <3> QED BY <3>3 DEF f, g
  <2>2. RowsOf(c)' = [RowsOf(c) EXCEPT ![layer[c]][pos[c]] = [k |-> kv[1], v |-> kv[2]]]
    <3> DEFINE f == RowsOf(c)
               g == RowsOf(c)'
               P == 0 .. MaxSeqLen - 1
               x == [k |-> kv[1], v |-> kv[2]]
    <3>1. \A l \in Layers, p \in P :
            g[l][p] = IF l = layer[c] /\ p = pos[c] THEN x ELSE f[l][p]
      BY <1>5
    <3>2. IsTable(f, Layers, P) /\ IsTable(g, Layers, P)
      BY DEF RowsOf, IsTable
    <3>3. layer[c] \in Layers /\ pos[c] \in P
      BY <1>1
    <3> HIDE DEF f, g, P, x
    <3>4. g = [f EXCEPT ![layer[c]][pos[c]] = x]
      BY <3>1, <3>2, <3>3, TableExcept
    <3> QED BY <3>4 DEF f, g, x
  <2> QED BY <2>1, <2>2 DEF RowsBar
<1> QED BY <1>1, <1>6

LEMMA GatherRefines ==
  ASSUME LayoutInv, NEW c \in Caches, Gather(c)
  PROVE  /\ RowsBar' = RowsBar
         /\ scratch' = [scratch EXCEPT ![c] =
                          [i \in 1 .. pos[c] + 1 |-> RowsBar[c][layer[c]][i - 1]]]
         /\ layer[c] \in Layers /\ pos[c] + 1 \in 0 .. MaxSeqLen
<1>1. /\ pool' = pool /\ blockTable' = blockTable
      /\ pc[c] = "gather" /\ pc'[c] = "ready"
      /\ pos'[c] = IF layer[c] + 1 < NumLayers THEN pos[c] ELSE pos[c] + 1
      /\ layer'[c] = IF layer[c] + 1 < NumLayers THEN layer[c] + 1 ELSE 0
      /\ \A d \in Caches : d # c =>
           pc'[d] = pc[d] /\ pos'[d] = pos[d] /\ layer'[d] = layer[d]
  BY DEF Gather, LayoutInv, TypeOK
<1>2. /\ pos[c] \in Nat /\ layer[c] \in Layers /\ layer[c] \in Nat
      /\ pos[c] < MaxSeqLen
  <2>1. pos[c] \in Nat /\ layer[c] \in Layers /\ layer[c] \in Nat
    BY DimsAssumption, CacheAssumption DEF LayoutInv, TypeOK, Layers
  <2>2. pos[c] < MaxSeqLen
    BY <1>1 DEF LayoutInv, ControlOK, ControlAt
  <2> QED BY <2>1, <2>2
<1>3. ASSUME NEW d \in Caches PROVE RowsOf(d)' = RowsOf(d)
  <2>1. CASE d # c
    BY <2>1, <1>1, RowsKept DEF Written
  <2>2. CASE d = c
    <3>1. ASSUME NEW l \in Layers, NEW p \in 0 .. MaxSeqLen - 1
          PROVE  Written(c, l, p)' <=> Written(c, l, p)
      <4>1. l \in Nat /\ p \in Nat /\ l < NumLayers
        BY DimsAssumption, CacheAssumption DEF Layers
      <4>2. CASE layer[c] + 1 < NumLayers
        BY <1>1, <1>2, <4>1, <4>2 DEF Written
      <4>3. CASE ~ (layer[c] + 1 < NumLayers)
        <5>1. l <= layer[c]
          BY <1>2, <4>1, <4>3, DimsAssumption
        <5> QED BY <1>1, <1>2, <4>1, <4>3, <5>1 DEF Written
      <4> QED BY <4>2, <4>3
    <3> QED BY <2>2, <3>1, <1>1, RowsKept
  <2> QED BY <2>1, <2>2
<1>4. ASSUME NEW i \in 1 .. pos[c] + 1
      PROVE  RowsBar[c][layer[c]][i - 1]
               = [k |-> pool[KAddr(c, layer[c], i - 1)],
                  v |-> pool[VAddr(c, layer[c], i - 1)]]
  <2>1. i - 1 \in 0 .. MaxSeqLen - 1 /\ i - 1 <= pos[c]
    BY <1>2, CacheAssumption
  <2>2. Written(c, layer[c], i - 1)
    BY <2>1, <1>1, <1>2, CacheAssumption DEF Written
  <2> QED BY <2>1, <2>2, <1>2 DEF RowsBar, RowsOf
<1>5. scratch' = [scratch EXCEPT ![c] =
                   [i \in 1 .. pos[c] + 1 |-> RowsBar[c][layer[c]][i - 1]]]
  BY <1>4 DEF Gather
<1> QED BY <1>2, <1>3, <1>5, CacheAssumption DEF RowsBar

LEMMA ReleaseRefines ==
  ASSUME LayoutInv, NEW c \in Caches, BeginRelease(c)
  PROVE  /\ RowsBar' = [RowsBar EXCEPT ![c] =
              [l \in Layers |-> [p \in 0 .. MaxSeqLen - 1 |->
                 [k |-> Zero, v |-> Zero]]]]
         /\ scratch' = scratch
<1>1. /\ pool' = pool /\ UNCHANGED << blockTable, pos, layer, scratch >>
      /\ pc'[c] = "release" /\ \A d \in Caches : d # c => pc'[d] = pc[d]
  BY DEF BeginRelease, LayoutInv, TypeOK
<1>2. ASSUME NEW d \in Caches, d # c PROVE RowsOf(d)' = RowsOf(d)
  BY <1>1, <1>2, RowsKept DEF Written
<1>3. RowsOf(c)' = [l \in Layers |-> [p \in 0 .. MaxSeqLen - 1 |->
                     [k |-> Zero, v |-> Zero]]]
  BY <1>1 DEF RowsOf, Written
<1> QED BY <1>1, <1>2, <1>3 DEF RowsBar

LEMMA RefinementInit == Init => Contiguous!Init
<1> SUFFICES ASSUME Init PROVE Contiguous!Init
  OBVIOUS
<1>1. ASSUME NEW c \in Caches
      PROVE  RowsOf(c) = [l \in Layers |-> [p \in 0 .. MaxSeqLen - 1 |->
                            [k |-> Zero, v |-> Zero]]]
  <2>1. ASSUME NEW l \in Layers, NEW p \in 0 .. MaxSeqLen - 1
        PROVE  ~ Written(c, l, p)
    BY DimsAssumption, CacheAssumption DEF Init, Written, Layers
  <2> QED BY <2>1 DEF RowsOf
<1> QED BY <1>1 DEF Init, Contiguous!Init, Contiguous!ZeroRows, Contiguous!ZeroRow,
                    Contiguous!Layers, Contiguous!Positions, Layers

LEMMA RefinementStep ==
  IInv /\ [Next]_vars => [Contiguous!Next]_Contiguous!vars
<1> SUFFICES ASSUME IInv, [Next]_vars
             PROVE  [Contiguous!Next]_Contiguous!vars
  OBVIOUS
<1>l. LayoutInv /\ TablesDistinct
  BY DEF IInv, LayoutInv, ExclusiveBlocks
<1>q. ASSUME RowsBar' = RowsBar, scratch' = scratch
      PROVE  [Contiguous!Next]_Contiguous!vars
  BY <1>q DEF Contiguous!vars, RowsBar
<1>0. CASE UNCHANGED vars
  <2>1. ASSUME NEW d \in Caches PROVE RowsOf(d)' = RowsOf(d)
    BY <1>0, <1>l, RowsKept DEF vars, Written
  <2> QED BY <2>1, <1>0, <1>q DEF RowsBar, vars
<1> SUFFICES ASSUME NEW c \in Caches, Step(c)
             PROVE  [Contiguous!Next]_Contiguous!vars
  BY <1>0 DEF Next
<1>1. CASE Allocate(c) \/ Exhausted(c) \/ PushBack(c) \/ InPlace(c)
             \/ FreeBlock(c) \/ ClearTable(c)
  BY <1>1, <1>l, <1>q, QuietRefines
<1>2. ASSUME NEW kv \in Projections, Store(c, kv[1], kv[2])
      PROVE  [Contiguous!Next]_Contiguous!vars
  <2>1. kv[1] \in Vecs /\ kv[2] \in Vecs
    BY CacheAssumption
  <2>2. Contiguous!Write(c, layer[c], pos[c], kv[1], kv[2])
    BY <1>2, <1>l, <2>1, StoreRefines DEF Contiguous!Write, RowsBar
  <2>3. layer[c] \in Contiguous!Layers /\ pos[c] \in Contiguous!Positions
    BY <1>2, <1>l, StoreRefines DEF Contiguous!Layers, Contiguous!Positions, Layers
  <2> QED BY <2>2, <2>3 DEF Contiguous!Next
<1>3. CASE Gather(c)
  <2>1. Contiguous!GatherLayer(c, layer[c], pos[c] + 1)
    BY <1>3, <1>l, GatherRefines DEF Contiguous!GatherLayer, RowsBar
  <2>2. layer[c] \in Contiguous!Layers /\ pos[c] + 1 \in 0 .. MaxSeqLen
    BY <1>3, <1>l, GatherRefines DEF Contiguous!Layers, Layers
  <2> QED BY <2>1, <2>2 DEF Contiguous!Next
<1>4. CASE BeginRelease(c)
  <2>1. Contiguous!Reset(c)
    BY <1>4, <1>l, ReleaseRefines
       DEF Contiguous!Reset, Contiguous!ZeroRows, Contiguous!ZeroRow,
           Contiguous!Layers, Contiguous!Positions, Layers, RowsBar
  <2> QED BY <2>1 DEF Contiguous!Next
<1> QED BY <1>1, <1>2, <1>3, <1>4 DEF Step

(* Paging is invisible: with any number of caches sharing any pool, each   *)
(* behaves as if it had a private contiguous cache (what                   *)
(* test_paged_eq_contiguous_tiny samples for one sequence).                *)
THEOREM PagingIsInvisible == Spec => ImplementsContiguousKV
<1>1. Init => Contiguous!Init
  BY RefinementInit
<1>2. IInv /\ [Next]_vars => [Contiguous!Next]_Contiguous!vars
  BY RefinementStep
<1> QED BY <1>1, <1>2, OwnershipHolds, PTL
        DEF Spec, ImplementsContiguousKV, Contiguous!Spec
=============================================================================
