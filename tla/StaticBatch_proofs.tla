------------------------- MODULE StaticBatch_proofs --------------------------
(***************************************************************************)
(* Proofs about StaticBatch, for any requests, pool and number of batches: *)
(* types, that a batch that fits the pool is served in full, and that the  *)
(* scheduler implements Serving with its answers in order.                 *)
(***************************************************************************)
EXTENDS StaticBatch, SequenceBase_proofs

-----------------------------------------------------------------------------
(* The inductive invariant                                                 *)

(* The batch is every request not answered yet, in the order they came.    *)
Oldest == nextId - Len(seqs)

Batch ==
  /\ Len(seqs) <= nextId
  /\ \A j \in 1 .. Len(seqs) : seqs[j] = Oldest + j - 1
  /\ \A id \in Ids : seq[id].state = "GONE" <=> id < Oldest

StateAt(j) == seq[seqs[j]].state

(* The prefill loop: sequences before it are through, those after it       *)
(* untouched, and the one at it has the first i tokens of its prompt in    *)
(* its cache; the shared logits are its own when the prompt is complete.   *)
AtPrompt ==
  /\ StateAt(it) = IF i = 0 THEN "WAITING" ELSE "PREFILLING"
  /\ i = seq[Current].kvLen /\ i <= seq[Current].req.prompt
  /\ i = seq[Current].req.prompt => logits = Tag(Current, i)

Prefilling ==
  /\ \A j \in 1 .. it - 1 : StateAt(j) \in {"RUNNING", "FINISHED"}
  /\ \A j \in it + 1 .. Len(seqs) : StateAt(j) = "WAITING"
  /\ it <= Len(seqs) => AtPrompt

(* The decode loop: any_running tells whether one before it was decoded.   *)
Decoding ==
  /\ \A j \in 1 .. Len(seqs) : StateAt(j) \in {"RUNNING", "FINISHED"}
  /\ ~ anyRunning => \A j \in 1 .. it - 1 : StateAt(j) = "FINISHED"

Phases ==
  /\ pc = "out" => \A j \in 1 .. Len(seqs) : StateAt(j) = "WAITING"
  /\ pc # "out" => it <= Len(seqs) + 1
  /\ pc = "prefill" => Prefilling
  /\ pc = "decode" => Decoding

(* The cache of a running sequence lacks its last sampled token.           *)
Positions == \A id \in Ids : seq[id].state = "RUNNING" => seq[id].kvLen = LastPos(id)

(* A refused block shows that the batch needs more than the pool.          *)
Demand == Total([id \in Ids |-> Layout!BlocksFor(WrittenAtMost(seq[id].req))], ToSet(seqs))
Refused == \E id \in ToSet(seqs) : seq[id].reason = "capacity"
Served == Refused => ~ (Demand <= NumBlocks)

IInv ==
  /\ TypeOK /\ Known /\ Objects /\ Accounted
  /\ Batch /\ Phases /\ Positions /\ Served

-----------------------------------------------------------------------------
(* The members of the batch.                                               *)

LEMMA Members ==
  ASSUME TypeOK, Known, Batch
  PROVE  /\ Len(seqs) \in Nat /\ Oldest \in Nat /\ nextId \in Nat
         /\ DOMAIN seqs = 1 .. Len(seqs) /\ ToSet(seqs) \in SUBSET Ids
         /\ \A j \in 1 .. Len(seqs) : seqs[j] \in ToSet(seqs) /\ seqs[j] \in Ids
         /\ \A id \in ToSet(seqs) : \E j \in 1 .. Len(seqs) : id = seqs[j]
         /\ \A j, k \in 1 .. Len(seqs) : seqs[j] = seqs[k] => j = k
  <1>1. seqs \in Seq(Ids) /\ Len(seqs) \in Nat /\ DOMAIN seqs = 1 .. Len(seqs)
    BY LenProperties DEF TypeOK
  <1>2. nextId \in Nat /\ Oldest \in Nat
    BY <1>1, RequestAssumption DEF TypeOK, BaseTypeOK, Batch, Oldest
  <1>3. /\ ToSet(seqs) \subseteq Ids
        /\ \A x : x \in ToSet(seqs) <=> \E j \in 1 .. Len(seqs) : seqs[j] = x
    BY <1>1, ListMembers
  <1>4. ASSUME NEW j \in 1 .. Len(seqs), NEW k \in 1 .. Len(seqs), seqs[j] = seqs[k]
        PROVE  j = k
    <2>1. Oldest + j - 1 = Oldest + k - 1
      BY <1>4 DEF Batch
    <2> QED BY <1>2, <2>1
  <1> QED BY <1>1, <1>2, <1>3, <1>4

LEMMA MemberIds ==
  ASSUME TypeOK, Known, Batch, NEW id \in Ids
  PROVE  /\ id \in ToSet(seqs) <=> Oldest <= id /\ id < nextId
         /\ id \in ToSet(seqs) => seq[id].state \notin {"NONE", "GONE"}
         /\ id \notin ToSet(seqs) => seq[id].state \in {"NONE", "GONE"}
  <1>1. /\ Len(seqs) \in Nat /\ Oldest \in Nat /\ nextId \in Nat
        /\ nextId = Oldest + Len(seqs) /\ id \in Nat
    BY Members, IdsFinite DEF Oldest
  <1>2. ASSUME Oldest <= id, id < nextId PROVE id \in ToSet(seqs)
    <2> DEFINE j == id - Oldest + 1
    <2>1. j \in 1 .. Len(seqs) /\ Oldest + j - 1 = id
      BY <1>1, <1>2
    <2> HIDE DEF j
    <2>2. seqs[j] = id
      BY <2>1 DEF Batch
    <2> QED BY <2>1, <2>2, Members
  <1>3. ASSUME id \in ToSet(seqs) PROVE Oldest <= id /\ id < nextId
    <2>1. PICK j \in 1 .. Len(seqs) : id = seqs[j]
      BY <1>3, Members
    <2>2. id = Oldest + j - 1
      BY <2>1 DEF Batch
    <2> QED BY <2>2, <1>1
  <1>4. /\ seq[id].state = "NONE" <=> id >= nextId
        /\ seq[id].state = "GONE" <=> id < Oldest
    BY DEF Known, Batch
  <1> QED BY <1>1, <1>2, <1>3, <1>4

(* One member changes and stays in the batch.                              *)
LEMMA BatchStays ==
  ASSUME TypeOK, Known, Batch, UNCHANGED << seqs, nextId >>,
         \A id \in Ids : seq'[id].state = seq[id].state
                           \/ /\ id \in ToSet(seqs)
                              /\ seq'[id].state \notin {"NONE", "GONE"}
  PROVE  Known' /\ Batch'
  <1>1. ASSUME NEW id \in Ids
        PROVE  /\ seq'[id].state = "NONE" <=> seq[id].state = "NONE"
               /\ seq'[id].state = "GONE" <=> seq[id].state = "GONE"
    BY MemberIds
  <1>2. Oldest' = Oldest
    BY DEF Oldest
  <1>3. Known'
    BY <1>1 DEF Known
  <1>4. Batch'
    BY <1>1, <1>2 DEF Batch
  <1> QED BY <1>3, <1>4

(* What the batch needs depends on its requests only.                      *)
LEMMA DemandStays ==
  ASSUME seqs' = seqs, \A id \in ToSet(seqs) : seq'[id].req = seq[id].req,
         ToSet(seqs) \subseteq Ids
  PROVE  Demand' = Demand
  <1> DEFINE need == [id \in Ids |-> Layout!BlocksFor(WrittenAtMost(seq[id].req))]
  <1>1. \A id \in ToSet(seqs) : need'[id] = need[id]
    OBVIOUS
  <1>2. Total(need', ToSet(seqs)) = Total(need, ToSet(seqs))
    BY <1>1, TotalSame
  <1> QED BY <1>2 DEF Demand

LEMMA ServedStays ==
  ASSUME Served, seqs' = seqs, ToSet(seqs) \subseteq Ids,
         \A id \in ToSet(seqs) : /\ seq'[id].req = seq[id].req
                                 /\ seq'[id].reason = "capacity" => seq[id].reason = "capacity"
  PROVE  Served'
  <1>1. Refused' => Refused
    BY DEF Refused
  <1>2. Demand' = Demand
    BY DemandStays
  <1> QED BY <1>1, <1>2 DEF Served

(* A member is refused the block it needs next: the batch does not fit.    *)
LEMMA RefusalUnfit ==
  ASSUME IInv, NEW c \in ToSet(seqs), NEW p \in Nat, ~ CanWrite(c, p),
         p + 1 <= WrittenAtMost(seq[c].req)
  PROVE  ~ (Demand <= NumBlocks)
  <1>1. BaseTypeOK /\ Objects /\ Accounted
    BY DEF IInv, TypeOK
  <1>2. ToSet(seqs) \in SUBSET Ids
    BY Members DEF IInv
  <1>3. /\ \A id \in Ids \ ToSet(seqs) : seq[id].state \in {"NONE", "WAITING", "GONE"}
        /\ \A id \in ToSet(seqs) : seq[id].state \notin {"NONE", "GONE"}
    BY <1>2, MemberIds DEF IInv
  <1> QED BY <1>1, <1>2, <1>3, RefusalNeedsMore DEF Demand

(* The sequence a loop is at, among the others.                            *)
LEMMA AtCurrent ==
  ASSUME IInv, it <= Len(seqs)
  PROVE  /\ it \in 1 .. Len(seqs) /\ Current \in Ids /\ Current \in ToSet(seqs)
         /\ seq[Current].state = StateAt(it) /\ seq[Current].state \notin {"NONE", "GONE"}
         /\ \A j \in 1 .. Len(seqs) : seqs[j] \in Ids /\ (j # it => seqs[j] # Current)
  <1>1. TypeOK /\ Known /\ Batch
    BY DEF IInv
  <1>2. it \in 1 .. Len(seqs)
    BY <1>1, Members DEF TypeOK
  <1>3. Current = seqs[it] /\ Current \in Ids /\ Current \in ToSet(seqs)
    BY <1>1, <1>2, Members DEF Current
  <1>4. seq[Current].state \notin {"NONE", "GONE"}
    BY <1>1, <1>3, MemberIds
  <1>5. \A j \in 1 .. Len(seqs) : seqs[j] \in Ids /\ (j # it => seqs[j] # Current)
    BY <1>1, <1>2, <1>3, Members
  <1> QED BY <1>2, <1>3, <1>4, <1>5 DEF StateAt

(* An untouched sequence is ready for the first token of its prompt.       *)
LEMMA Untouched ==
  ASSUME BaseTypeOK, Objects, NEW id \in Ids, seq[id].state = "WAITING"
  PROVE  /\ seq[id].kvLen = 0 /\ seq[id].gen = << >> /\ seq[id].reason = Unfinished
         /\ seq[id].req.prompt \in Nat /\ seq[id].req.prompt > 0
  <1>1. seq[id].kvLen = 0 /\ seq[id].gen = << >> /\ seq[id].reason = Unfinished
    BY DEF Objects, Sound
  <1> QED BY <1>1, LiveFields, SeqFields

-----------------------------------------------------------------------------
(* Steps outside the loops                                                 *)

LEMMA InitInv == Init => IInv
  <1> SUFFICES ASSUME Init PROVE IInv
    OBVIOUS
  <1>1. /\ seqs = << >> /\ pc = "out" /\ it = 1 /\ i = 0 /\ logits = Garbage
        /\ nextId = 0
    BY DEF Init, BaseInit
  <1>2. /\ BaseTypeOK /\ Objects /\ Accounted
        /\ \A id \in Ids : seq[id].state = "NONE" /\ seq[id].reason = Unfinished
    BY InitObjects DEF Init
  <1>3. TypeOK
    <2>1. seqs \in Seq(Ids)
      BY <1>1, EmptySeq
    <2>2. logits \in Rows
      BY <1>1 DEF Garbage, Rows
    <2>3. it \in Nat \ {0} /\ i \in Nat
      BY <1>1
    <2>4. pc \in {"out", "prefill", "decode"}
      BY <1>1
    <2>5. anyRunning \in BOOLEAN
      BY Zenon DEF Init
    <2> QED BY <1>2, <2>1, <2>2, <2>3, <2>4, <2>5, Zenon DEF TypeOK
  <1>4. Len(seqs) = 0 /\ ToSet(seqs) = {} /\ Oldest = 0
    <2>1. Len(seqs) = 0 /\ DOMAIN seqs = {}
      BY <1>1
    <2>2. ToSet(seqs) = {}
      BY <2>1 DEF ToSet
    <2>3. nextId = 0 /\ 0 - 0 = 0
      BY <1>1
    <2> QED BY <2>1, <2>2, <2>3, Zenon DEF Oldest
  <1>5. Known /\ Batch
    <2>1. \A id \in Ids : id >= 0 /\ ~ (id < 0)
      BY IdsFinite
    <2>2. Known
      BY <1>1, <1>2, <2>1 DEF Known
    <2>3. \A id \in Ids : seq[id].state = "GONE" <=> id < Oldest
      BY <1>2, <1>4, <2>1
    <2>4. 1 .. Len(seqs) = {} /\ Len(seqs) <= nextId
      BY <1>1, <1>4
    <2> QED BY <2>2, <2>3, <2>4 DEF Batch
  <1>6. Phases /\ Positions /\ Served
    <2>1. 1 .. Len(seqs) = {}
      BY <1>4
    <2>2. Phases
      BY <1>1, <2>1 DEF Phases
    <2>3. Positions /\ Served
      BY <1>2, <1>4 DEF Positions, Served, Refused
    <2> QED BY <2>2, <2>3
  <1> QED BY <1>2, <1>3, <1>5, <1>6 DEF IInv

LEMMA EnqueueInv ==
  ASSUME IInv, NEW r \in Requests, Enqueue(r)
  PROVE  IInv'
  <1> DEFINE c == nextId
             n == Len(seqs)
  <1>1. /\ TypeOK /\ BaseTypeOK /\ Known /\ Objects /\ Accounted /\ Batch
        /\ n \in Nat /\ c \in Nat /\ Oldest \in Nat
    BY Members DEF IInv, TypeOK
  <1>2. /\ pc = "out" /\ c < MaxSeqs /\ Accepts(r)
        /\ seq' = [seq EXCEPT ![c] = NewSeq(r)] /\ seqs' = Append(seqs, c)
        /\ nextId' = c + 1
        /\ UNCHANGED << results, freeBlocks, pc, it, i, logits, anyRunning >>
    BY DEF Enqueue, loop
  <1>3. seq[c].state = "NONE"
    <2>1. c \in Ids /\ c >= c
      BY <1>1, <1>2, RequestAssumption DEF Ids
    <2> QED BY <2>1, <1>1 DEF Known
  <1>4. /\ BaseTypeOK' /\ Objects' /\ Accounted' /\ c \in Ids
        /\ seq'[c] = NewSeq(r) /\ \A id \in Ids \ {c} : seq'[id] = seq[id]
    BY <1>1, <1>2, <1>3, EnqueueObjects
  <1>5. NewSeq(r).state = "WAITING" /\ NewSeq(r).reason = Unfinished
    BY NewFields
  <1>6. /\ seqs' \in Seq(Ids) /\ Len(seqs') = n + 1 /\ seqs'[n + 1] = c
        /\ \A j \in 1 .. n : seqs'[j] = seqs[j]
    <2>1. seqs \in Seq(Ids)
      BY <1>1 DEF TypeOK
    <2> QED BY <2>1, <1>2, <1>4, AppendProperties
  <1>7. Oldest' = Oldest /\ Oldest + (n + 1) - 1 = c
    BY <1>1, <1>2, <1>6 DEF Oldest
  <1> HIDE DEF n
  <1>8. TypeOK'
    BY <1>1, <1>2, <1>4, <1>6 DEF TypeOK
  <1>9. Known'
    <2> SUFFICES ASSUME NEW id \in Ids
                 PROVE  seq'[id].state = "NONE" <=> id >= c + 1
      BY <1>2 DEF Known
    <2>1. CASE id = c
      BY <2>1, <1>1, <1>4, <1>5
    <2>2. CASE id # c
      <3>1. seq[id].state = "NONE" <=> id >= c
        BY <1>1 DEF Known
      <3>2. id >= c + 1 <=> id >= c
        BY <2>2, <1>1, IdsFinite
      <3> QED BY <2>2, <3>1, <3>2, <1>4
    <2> QED BY <2>1, <2>2
  <1>10. ASSUME NEW j \in 1 .. n + 1
         PROVE  /\ (j = n + 1 /\ seqs'[j] = c) \/ (j \in 1 .. n /\ seqs'[j] = seqs[j])
                /\ seqs'[j] = Oldest + j - 1
    <2>1. CASE j = n + 1
      BY <2>1, <1>6, <1>7
    <2>2. CASE j # n + 1
      <3>1. j \in 1 .. n
        BY <2>2, <1>1
      <3> QED BY <3>1, <1>1, <1>6 DEF Batch, n
    <2> QED BY <2>1, <2>2
  <1>11. Batch'
    <2>1. ASSUME NEW id \in Ids PROVE seq'[id].state = "GONE" <=> id < Oldest
      <3>1. CASE id = c
        <4>1. ~ (c < Oldest)
          BY <1>1 DEF Oldest, Batch
        <4> QED BY <3>1, <4>1, <1>4, <1>5
      <3>2. CASE id # c
        BY <3>2, <1>1, <1>4 DEF Batch
      <3> QED BY <3>1, <3>2
    <2>2. n + 1 <= c + 1
      BY <1>1 DEF Batch, n
    <2> QED BY <2>1, <2>2, <1>2, <1>6, <1>7, <1>10 DEF Batch
  <1>12. \A j \in 1 .. n + 1 : seq'[seqs'[j]].state = "WAITING"
    <2> SUFFICES ASSUME NEW j \in 1 .. n + 1 PROVE seq'[seqs'[j]].state = "WAITING"
      OBVIOUS
    <2>1. CASE j = n + 1 /\ seqs'[j] = c
      BY <2>1, <1>4, <1>5
    <2>2. CASE j \in 1 .. n /\ seqs'[j] = seqs[j]
      <3>1. seqs[j] \in Ids /\ seq[seqs[j]].state = "WAITING"
        BY <2>2, <1>1, <1>2, Members DEF IInv, Phases, StateAt, n
      <3> QED BY <2>2, <3>1, <1>3, <1>4
    <2> QED BY <2>1, <2>2, <1>10
  <1>13. Phases'
    BY <1>2, <1>6, <1>12 DEF Phases, StateAt
  <1>14. Positions'
    <2> SUFFICES ASSUME NEW id \in Ids, seq'[id].state = "RUNNING"
                 PROVE  seq'[id].kvLen = seq'[id].req.prompt + Len(seq'[id].gen) - 1
      BY DEF Positions, LastPos
    <2>1. id # c /\ seq'[id] = seq[id]
      BY <1>4, <1>5
    <2> QED BY <2>1 DEF IInv, Positions, LastPos
  <1>15. Served'
    <2> SUFFICES ASSUME NEW id \in ToSet(seqs') PROVE seq'[id].reason # "capacity"
      BY DEF Served, Refused
    <2>1. PICK j \in 1 .. n + 1 : id = seqs'[j]
      BY <1>6, ListMembers
    <2>2. id \in Ids /\ seq'[id].state = "WAITING"
      BY <2>1, <1>4, <1>10, <1>12, <1>1, Members DEF n
    <2>3. seq'[id].reason = Unfinished
      BY <2>2, <1>4 DEF Objects, Sound
    <2> QED BY <2>3, ReasonsDiffer
  <1> QED BY <1>4, <1>8, <1>9, <1>11, <1>13, <1>14, <1>15 DEF IInv

(* Steps that leave the objects, the batch and the pool alone.             *)
LEMMA ObjectsUntouched ==
  ASSUME IInv, UNCHANGED << seq, seqs, nextId, freeBlocks >>
  PROVE  Known' /\ Objects' /\ Accounted' /\ Batch' /\ Positions' /\ Served'
  <1>1. Accounted'
    BY HeldStays DEF IInv
  <1>2. Known' /\ Objects'
    BY DEF IInv, Known, Objects
  <1>3. Batch'
    BY DEF IInv, Batch, Oldest
  <1>4. Positions'
    BY DEF IInv, Positions, LastPos
  <1>5. Served'
    <2>1. Demand' = Demand
      BY DEF Demand
    <2> QED BY <2>1 DEF IInv, Served, Refused
  <1> QED BY <1>1, <1>2, <1>3, <1>4, <1>5

LEMMA ClearResultsInv ==
  ASSUME IInv, ClearResults
  PROVE  IInv'
  <1>1. results' = << >> /\ UNCHANGED << seq, nextId, freeBlocks, seqs, loop >>
    BY DEF ClearResults
  <1>2. TypeOK'
    BY <1>1 DEF IInv, TypeOK, BaseTypeOK, loop
  <1>3. Phases'
    BY <1>1 DEF IInv, Phases, StateAt, Prefilling, AtPrompt, Current, Decoding, loop
  <1> QED BY <1>1, <1>2, <1>3, ObjectsUntouched DEF IInv

LEMMA StutterInv ==
  ASSUME IInv, UNCHANGED vars
  PROVE  IInv'
  <1>1. UNCHANGED << seq, nextId, results, freeBlocks, seqs, loop >>
    BY DEF vars
  <1>2. TypeOK'
    BY <1>1 DEF IInv, TypeOK, BaseTypeOK, loop
  <1>3. Phases'
    BY <1>1 DEF IInv, Phases, StateAt, Prefilling, AtPrompt, Current, Decoding, loop
  <1> QED BY <1>1, <1>2, <1>3, ObjectsUntouched DEF IInv

(* The first sequence of a batch that was only enqueued.                   *)
LEMMA BeginRunInv ==
  ASSUME IInv, BeginRun
  PROVE  IInv'
  <1>1. /\ pc = "out" /\ seqs # << >> /\ pc' = "prefill" /\ it' = 1 /\ i' = 0
        /\ logits' = Garbage
        /\ UNCHANGED << seq, nextId, results, freeBlocks, seqs, anyRunning >>
    BY DEF BeginRun
  <1>2. /\ TypeOK /\ Known /\ Batch /\ BaseTypeOK /\ Objects
        /\ \A j \in 1 .. Len(seqs) : StateAt(j) = "WAITING"
    BY <1>1 DEF IInv, TypeOK, Phases
  <1>3. Len(seqs) \in Nat /\ Len(seqs) # 0
    BY <1>1, <1>2, EmptySeq DEF TypeOK
  <1>4. TypeOK'
    BY <1>1, <1>2 DEF TypeOK, BaseTypeOK, Garbage, Rows
  <1>5. Phases'
    <2>1. seqs[1] \in Ids /\ StateAt(1) = "WAITING"
      BY <1>2, <1>3, Members
    <2>2. /\ seq[seqs[1]].kvLen = 0 /\ seq[seqs[1]].req.prompt \in Nat
          /\ seq[seqs[1]].req.prompt > 0
      BY <1>2, <2>1, Untouched DEF StateAt
    <2>3. AtPrompt'
      BY <1>1, <2>1, <2>2 DEF AtPrompt, StateAt, Current
    <2>4. Prefilling'
      <3>1. \A j \in 1 + 1 .. Len(seqs) : j \in 1 .. Len(seqs)
        OBVIOUS
      <3> QED BY <1>1, <1>2, <2>3, <3>1 DEF Prefilling, StateAt
    <2> QED BY <1>1, <1>3, <2>4 DEF Phases
  <1> QED BY <1>1, <1>4, <1>5, ObjectsUntouched DEF IInv

-----------------------------------------------------------------------------
(* Steps of the loops                                                      *)

(* What a step leaves of the batch that changes the sequence it is at.     *)
LEMMA OneChanged ==
  ASSUME IInv, it <= Len(seqs), NEW t,
         t.state \notin {"NONE", "GONE"}, t.req = seq[Current].req,
         seq'[Current] = t, \A id \in Ids \ {Current} : seq'[id] = seq[id],
         UNCHANGED << seqs, nextId >>
  PROVE  /\ Known' /\ Batch' /\ seq'[seqs[it]].state = t.state
         /\ \A j \in 1 .. Len(seqs) : j # it => seq'[seqs[j]] = seq[seqs[j]]
         /\ (t.state = "RUNNING" => t.kvLen = t.req.prompt + Len(t.gen) - 1) => Positions'
         /\ t.reason \in {Unfinished, "stop", "length"} => Served'
         /\ ~ (Demand <= NumBlocks) => Served'
  <1> DEFINE c == Current
  <1>1. /\ TypeOK /\ Known /\ Batch /\ Positions /\ Served
        /\ it \in 1 .. Len(seqs) /\ c \in Ids /\ c \in ToSet(seqs) /\ c = seqs[it]
        /\ \A j \in 1 .. Len(seqs) : seqs[j] \in Ids /\ (j # it => seqs[j] # c)
    BY AtCurrent DEF IInv, Current
  <1> HIDE DEF c
  <1>2. seq'[c] = t /\ \A id \in Ids \ {c} : seq'[id] = seq[id]
    BY DEF c
  <1>3. Known' /\ Batch'
    <2>1. \A id \in Ids : seq'[id].state = seq[id].state
                            \/ /\ id \in ToSet(seqs)
                               /\ seq'[id].state \notin {"NONE", "GONE"}
      BY <1>1, <1>2
    <2> QED BY <2>1, <1>1, BatchStays
  <1>4. seq'[seqs[it]].state = t.state
    BY <1>1, <1>2
  <1>5. \A j \in 1 .. Len(seqs) : j # it => seq'[seqs[j]] = seq[seqs[j]]
    BY <1>1, <1>2
  <1>6. ASSUME t.state = "RUNNING" => t.kvLen = t.req.prompt + Len(t.gen) - 1
        PROVE  Positions'
    <2> SUFFICES ASSUME NEW id \in Ids, seq'[id].state = "RUNNING"
                 PROVE  seq'[id].kvLen = seq'[id].req.prompt + Len(seq'[id].gen) - 1
      BY DEF Positions, LastPos
    <2>1. CASE id = c
      BY <2>1, <1>2, <1>6
    <2>2. CASE id # c
      BY <2>2, <1>1, <1>2 DEF Positions, LastPos
    <2> QED BY <2>1, <2>2
  <1>7. ToSet(seqs) \subseteq Ids
    BY <1>1, Members
  <1>8. \A id \in Ids : seq'[id].req = seq[id].req
    BY <1>1, <1>2 DEF c
  <1>9. ASSUME t.reason \in {Unfinished, "stop", "length"}
        PROVE  Served'
    <2>1. t.reason # "capacity"
      BY <1>9, ReasonsDiffer
    <2>2. \A id \in ToSet(seqs) : seq'[id].reason = "capacity" => seq[id].reason = "capacity"
      BY <2>1, <1>2, <1>7
    <2> QED BY <2>2, <1>1, <1>7, <1>8, ServedStays
  <1>10. ASSUME ~ (Demand <= NumBlocks)
         PROVE  Served'
    <2>1. Demand' = Demand
      BY <1>7, <1>8, DemandStays
    <2> QED BY <2>1, <1>10 DEF Served
  <1> QED BY <1>3, <1>4, <1>5, <1>6, <1>9, <1>10

(* The prefill loop leaves a sequence: the next one is untouched.          *)
LEMMA NextPrompt ==
  ASSUME IInv, pc = "prefill", it <= Len(seqs), seqs' = seqs, pc' = pc,
         it' = it + 1, i' = 0, seq'[seqs[it]].state \in {"RUNNING", "FINISHED"},
         \A j \in 1 .. Len(seqs) : j # it => seq'[seqs[j]] = seq[seqs[j]]
  PROVE  Phases'
  <1> DEFINE n == Len(seqs)
  <1>1. /\ TypeOK /\ Known /\ Batch /\ BaseTypeOK /\ Objects /\ Prefilling
        /\ n \in Nat /\ it \in 1 .. n
    BY AtCurrent, Members DEF IInv, TypeOK, Phases
  <1>2. ASSUME NEW j \in 1 .. n, j # it
        PROVE  seq'[seqs[j]].state = StateAt(j)
    BY <1>2 DEF StateAt
  <1> HIDE DEF n
  <1>3. ASSUME NEW j \in 1 .. it PROVE seq'[seqs[j]].state \in {"RUNNING", "FINISHED"}
    <2>1. CASE j = it
      BY <2>1
    <2>2. CASE j # it
      <3>1. j \in 1 .. n /\ j \in 1 .. it - 1
        BY <2>2, <1>1
      <3>2. StateAt(j) \in {"RUNNING", "FINISHED"}
        BY <3>1, <1>1 DEF Prefilling
      <3> QED BY <3>1, <3>2, <2>2, <1>2
    <2> QED BY <2>1, <2>2
  <1>4. ASSUME NEW j \in it + 1 .. n PROVE seq'[seqs[j]].state = "WAITING"
    <2>1. j \in 1 .. n /\ j # it
      BY <1>1
    <2>2. StateAt(j) = "WAITING"
      BY <1>1 DEF Prefilling, n
    <2> QED BY <2>1, <2>2, <1>2
  <1>5. ASSUME it + 1 <= n PROVE AtPrompt'
    <2> DEFINE d == seqs[it + 1]
    <2>1. it + 1 \in it + 1 .. n /\ it + 1 \in 1 .. n /\ it + 1 # it
      BY <1>5, <1>1
    <2>2. d \in Ids /\ seq'[d] = seq[d] /\ seq'[d].state = "WAITING"
      BY <2>1, <1>1, <1>4, Members DEF n
    <2>3. seq[d].kvLen = 0 /\ seq[d].req.prompt \in Nat /\ seq[d].req.prompt > 0
      BY <2>2, <1>1, Untouched
    <2>4. Current' = d
      BY DEF Current
    <2> HIDE DEF d
    <2>5. StateAt(it)' = "WAITING"
      BY <2>2 DEF StateAt, d
    <2> QED BY <2>2, <2>3, <2>4, <2>5 DEF AtPrompt
  <1>6. Prefilling'
    <2>1. \A j \in 1 .. (it + 1) - 1 : j \in 1 .. it
      BY <1>1
    <2>2. \A j \in (it + 1) + 1 .. n : j \in it + 1 .. n
      BY <1>1
    <2>3. \A j \in 1 .. it' - 1 : StateAt(j)' \in {"RUNNING", "FINISHED"}
      BY <2>1, <1>3 DEF StateAt
    <2>4. \A j \in it' + 1 .. Len(seqs') : StateAt(j)' = "WAITING"
      BY <2>2, <1>4 DEF StateAt, n
    <2>5. it' <= Len(seqs') => AtPrompt'
      BY <1>5 DEF n
    <2> QED BY <2>3, <2>4, <2>5 DEF Prefilling
  <1>7. it' <= Len(seqs') + 1
    BY <1>1 DEF n
  <1>8. pc' = "prefill"
    OBVIOUS
  <1> QED BY <1>6, <1>7, <1>8 DEF Phases

(* The sequence the prefill loop is at.                                    *)
LEMMA AtPrefill ==
  ASSUME IInv, pc = "prefill", it <= Len(seqs)
  PROVE  /\ BaseTypeOK /\ Objects /\ Accounted /\ Prefilling
         /\ Current \in Ids /\ Current \in ToSet(seqs) /\ it \in 1 .. Len(seqs)
         /\ seq[Current] \in SeqRecords /\ seq[Current].state \in {"WAITING", "PREFILLING"}
         /\ seq[Current].gen = << >> /\ seq[Current].reason = Unfinished
         /\ seq[Current].kvLen = i /\ i \in Nat /\ i <= seq[Current].req.prompt
         /\ seq[Current].held = Layout!BlocksFor(i)
         /\ i = seq[Current].req.prompt => logits = Tag(Current, i)
         /\ seq[Current].req \in Requests /\ Accepts(seq[Current].req)
         /\ seq[Current].req.prompt \in Nat /\ seq[Current].req.prompt > 0
         /\ WrittenAtMost(seq[Current].req) \in Nat
         /\ seq[Current].req.prompt <= WrittenAtMost(seq[Current].req)
         /\ Sampled(Current, seq[Current])
  <1> DEFINE c == Current
  <1>1. /\ BaseTypeOK /\ Objects /\ Accounted /\ Prefilling /\ AtPrompt /\ i \in Nat
    BY DEF IInv, TypeOK, Phases, Prefilling
  <1>2. /\ c \in Ids /\ c \in ToSet(seqs) /\ it \in 1 .. Len(seqs)
        /\ seq[c].state = StateAt(it)
    BY AtCurrent
  <1>3. /\ StateAt(it) \in {"WAITING", "PREFILLING"}
        /\ i = seq[c].kvLen /\ i <= seq[c].req.prompt
        /\ i = seq[c].req.prompt => logits = Tag(c, i)
    BY <1>1 DEF AtPrompt
  <1> HIDE DEF c
  <1>4. Sound(c, seq[c])
    BY <1>1, <1>2 DEF Objects
  <1>5. /\ seq[c].gen = << >> /\ seq[c].reason = Unfinished
        /\ seq[c].req \in Requests /\ Accepts(seq[c].req) /\ Sampled(c, seq[c])
        /\ seq[c].held = Layout!BlocksFor(i)
    BY <1>2, <1>3, <1>4 DEF Sound
  <1>6. /\ seq[c] \in SeqRecords /\ seq[c].req.prompt \in Nat
    BY <1>1, <1>2, SeqFields
  <1>7. /\ seq[c].req.prompt > 0 /\ WrittenAtMost(seq[c].req) \in Nat
        /\ seq[c].req.prompt <= WrittenAtMost(seq[c].req)
    <2>1. seq[c].state # "NONE"
      BY <1>2, <1>3
    <2> QED BY <2>1, <1>1, <1>2, LiveFields
  <1> QED BY <1>1, <1>2, <1>3, <1>5, <1>6, <1>7 DEF c

LEMMA PrefillTokenInv ==
  ASSUME IInv, PrefillToken
  PROVE  IInv'
  <1> DEFINE c == Current
             w == AfterWrite(c, i)
             t == [w EXCEPT !.state = "PREFILLING"]
  <1>1. /\ pc = "prefill" /\ it <= Len(seqs) /\ i < seq[c].req.prompt /\ CanWrite(c, i)
        /\ seq' = [seq EXCEPT ![c] = t] /\ freeBlocks' = FreeAfterWrite(c, i)
        /\ logits' = IF i + 1 = seq[c].req.prompt THEN LogitsAt(c, i) ELSE logits
        /\ i' = i + 1
        /\ UNCHANGED << nextId, results, seqs, pc, it >>
    BY DEF PrefillToken, InPrompt
  <1>2. /\ BaseTypeOK /\ Objects /\ Accounted /\ Prefilling
        /\ c \in Ids /\ c \in ToSet(seqs) /\ it \in 1 .. Len(seqs)
        /\ seq[c] \in SeqRecords /\ seq[c].state \in {"WAITING", "PREFILLING"}
        /\ seq[c].gen = << >> /\ seq[c].reason = Unfinished
        /\ seq[c].kvLen = i /\ i \in Nat
        /\ seq[c].held = Layout!BlocksFor(i)
        /\ seq[c].req \in Requests /\ Accepts(seq[c].req)
        /\ seq[c].req.prompt \in Nat /\ WrittenAtMost(seq[c].req) \in Nat
        /\ seq[c].req.prompt <= WrittenAtMost(seq[c].req)
        /\ Sampled(c, seq[c])
    BY <1>1, AtPrefill
  <1> HIDE DEF c
  <1>3. /\ w \in SeqRecords /\ w.kvLen = i + 1 /\ w.held = Layout!BlocksFor(i + 1)
        /\ w.req = seq[c].req /\ w.gen = seq[c].gen /\ w.reason = seq[c].reason
        /\ LogitsAt(c, i) = Tag(c, i + 1)
    BY <1>2, WriteFields
  <1> HIDE DEF w
  <1>4. /\ t \in SeqRecords /\ t.state = "PREFILLING" /\ t.kvLen = i + 1
        /\ t.held = w.held /\ t.req = seq[c].req /\ t.gen = << >> /\ t.reason = Unfinished
    BY <1>2, <1>3 DEF SeqRecords, States
  <1> HIDE DEF t
  <1>5. Sound(c, t)
    <2>1. t.kvLen <= WrittenAtMost(t.req)
      BY <1>1, <1>2, <1>4
    <2>2. Sampled(c, t)
      BY <1>2, <1>4 DEF Sampled
    <2>3. t.held = Layout!BlocksFor(t.kvLen)
      BY <1>3, <1>4
    <2> QED BY <1>2, <1>4, <2>1, <2>2, <2>3 DEF Sound
  <1>6. /\ BaseTypeOK' /\ Objects' /\ Accounted'
        /\ seq'[c] = t /\ \A id \in Ids \ {c} : seq'[id] = seq[id]
    <2>1. t.held = AfterWrite(c, i).held
      BY <1>4 DEF w
    <2> QED BY <1>1, <1>2, <1>4, <1>5, <2>1, OneCache
  <1>7. /\ Known' /\ Batch' /\ Positions' /\ Served'
        /\ seq'[seqs[it]].state = t.state
        /\ \A j \in 1 .. Len(seqs) : j # it => seq'[seqs[j]] = seq[seqs[j]]
    BY <1>1, <1>4, <1>6, OneChanged DEF c
  <1>8. i' \in Nat /\ logits' \in Rows
    <2>1. Tag(c, i + 1) \in Rows
      BY <1>2, TagIsRow
    <2>2. logits \in Rows
      BY DEF IInv, TypeOK
    <2> QED BY <1>1, <1>2, <1>3, <2>1, <2>2
  <1>9. TypeOK'
    <2>1. anyRunning' = anyRunning
      BY DEF PrefillToken
    <2> QED BY <2>1, <1>1, <1>6, <1>8, Zenon DEF IInv, TypeOK
  <1>10. AtPrompt'
    <2>1. Current' = c /\ seqs[it] = c
      BY <1>1 DEF Current, c
    <2>2. StateAt(it)' = "PREFILLING"
      BY <1>1, <1>4, <1>7 DEF StateAt
    <2>3. i' # 0 /\ i' = seq'[c].kvLen /\ i' <= seq'[c].req.prompt
      BY <1>1, <1>2, <1>4, <1>6
    <2>4. i' = seq'[c].req.prompt => logits' = Tag(c, i')
      BY <1>1, <1>3, <1>4, <1>6
    <2> QED BY <2>1, <2>2, <2>3, <2>4 DEF AtPrompt
  <1>11. Phases'
    <2>1. ASSUME NEW j \in 1 .. it - 1 PROVE seq'[seqs[j]].state \in {"RUNNING", "FINISHED"}
      <3>1. j \in 1 .. Len(seqs) /\ j # it
        BY <1>2
      <3> QED BY <3>1, <1>2, <1>7 DEF Prefilling, StateAt
    <2>2. ASSUME NEW j \in it + 1 .. Len(seqs) PROVE seq'[seqs[j]].state = "WAITING"
      <3>1. j \in 1 .. Len(seqs) /\ j # it
        BY <1>2
      <3> QED BY <3>1, <1>2, <1>7 DEF Prefilling, StateAt
    <2>3. Prefilling'
      BY <2>1, <2>2, <1>1, <1>10 DEF Prefilling, StateAt
    <2>4. it <= Len(seqs) + 1
      BY <1>2
    <2> QED BY <2>3, <2>4, <1>1 DEF Phases
  <1> QED BY <1>6, <1>7, <1>9, <1>11 DEF IInv

(* The prefill loop leaves a sequence, refused or sampled.                 *)
LEMMA PrefillLeaves ==
  ASSUME IInv, pc = "prefill", it <= Len(seqs), NEW t \in SeqRecords,
         seq' = [seq EXCEPT ![Current] = t], Sound(Current, t),
         t.state \in {"RUNNING", "FINISHED"}, t.req = seq[Current].req,
         t.held = seq[Current].held,
         t.state = "RUNNING" => t.kvLen = t.req.prompt + Len(t.gen) - 1,
         \/ t.reason \in {Unfinished, "stop", "length"}
         \/ ~ (Demand <= NumBlocks),
         it' = it + 1, i' = 0,
         UNCHANGED << nextId, results, freeBlocks, seqs, pc, logits, anyRunning >>
  PROVE  IInv'
  <1> DEFINE c == Current
  <1>1. BaseTypeOK /\ Objects /\ Accounted /\ c \in Ids /\ it \in 1 .. Len(seqs)
    BY AtPrefill
  <1> HIDE DEF c
  <1>2. /\ BaseTypeOK' /\ Objects' /\ Accounted'
        /\ seq'[c] = t /\ \A id \in Ids \ {c} : seq'[id] = seq[id]
    <2>1. seq' = [seq EXCEPT ![c] = t] /\ t.held = seq[c].held /\ Sound(c, t)
      BY DEF c
    <2> QED BY <1>1, <2>1, OneObject
  <1>3. /\ Known' /\ Batch' /\ Positions' /\ Served'
        /\ seq'[seqs[it]].state = t.state
        /\ \A j \in 1 .. Len(seqs) : j # it => seq'[seqs[j]] = seq[seqs[j]]
    <2>1. t.state \notin {"NONE", "GONE"}
      OBVIOUS
    <2> QED BY <1>2, <2>1, OneChanged DEF c
  <1>4. Phases'
    BY <1>3, NextPrompt
  <1>5. TypeOK'
    <2>1. it' \in Nat \ {0} /\ i' \in Nat
      BY <1>1
    <2> QED BY <1>2, <2>1, Zenon DEF IInv, TypeOK
  <1> QED BY <1>2, <1>3, <1>4, <1>5 DEF IInv

LEMMA PrefillCapacityInv ==
  ASSUME IInv, PrefillCapacity
  PROVE  IInv'
  <1> DEFINE c == Current
             t == Finish(seq[c], "capacity")
  <1>1. /\ pc = "prefill" /\ it <= Len(seqs) /\ i < seq[c].req.prompt /\ ~ CanWrite(c, i)
        /\ seq' = [seq EXCEPT ![c] = t] /\ it' = it + 1 /\ i' = 0
        /\ UNCHANGED << nextId, results, freeBlocks, seqs, pc, logits, anyRunning >>
    BY DEF PrefillCapacity, InPrompt
  <1>2. /\ c \in Ids /\ c \in ToSet(seqs) /\ Objects
        /\ seq[c] \in SeqRecords /\ seq[c].state \in {"WAITING", "PREFILLING"}
        /\ seq[c].gen = << >> /\ i \in Nat
        /\ seq[c].req.prompt \in Nat /\ WrittenAtMost(seq[c].req) \in Nat
        /\ seq[c].req.prompt <= WrittenAtMost(seq[c].req)
    BY <1>1, AtPrefill
  <1>3. /\ t \in SeqRecords /\ t.state = "FINISHED" /\ t.reason = "capacity"
        /\ t.req = seq[c].req /\ t.gen = seq[c].gen /\ t.kvLen = seq[c].kvLen
        /\ t.held = seq[c].held
    BY <1>2, FinishFields
  <1>4. ~ (Demand <= NumBlocks)
    <2>1. i + 1 <= WrittenAtMost(seq[c].req)
      BY <1>1, <1>2
    <2> HIDE DEF c
    <2> QED BY <2>1, <1>1, <1>2, RefusalUnfit
  <1> HIDE DEF t
  <1>5. Sound(c, t)
    <2>1. Sound(c, seq[c])
      BY <1>2 DEF Objects
    <2>2. Answered(t) /\ t.reason # Unfinished
      BY <1>2, <1>3, ReasonsDiffer DEF Answered
    <2>3. Sampled(c, t)
      BY <2>1, <1>3 DEF Sound, Sampled
    <2> HIDE DEF c
    <2> QED BY <1>2, <1>3, <2>1, <2>2, <2>3 DEF Sound
  <1> QED BY <1>1, <1>3, <1>4, <1>5, PrefillLeaves

LEMMA PrefillDoneInv ==
  ASSUME IInv, PrefillDone
  PROVE  IInv'
  <1> DEFINE c == Current
             t == AfterPrefill(seq[c], logits)
             m == seq[c].req.max
  <1>1. /\ pc = "prefill" /\ it <= Len(seqs) /\ i = seq[c].req.prompt
        /\ seq' = [seq EXCEPT ![c] = t] /\ it' = it + 1 /\ i' = 0
        /\ UNCHANGED << nextId, results, freeBlocks, seqs, pc, logits, anyRunning >>
    BY DEF PrefillDone
  <1>2. /\ BaseTypeOK /\ c \in Ids /\ Objects
        /\ seq[c] \in SeqRecords /\ seq[c].state \in {"WAITING", "PREFILLING"}
        /\ seq[c].gen = << >> /\ seq[c].reason = Unfinished
        /\ seq[c].kvLen = seq[c].req.prompt /\ seq[c].req.prompt \in Nat
        /\ logits = Tag(c, seq[c].req.prompt) /\ Sampled(c, seq[c])
    BY <1>1, AtPrefill
  <1>3. m \in Nat
    BY <1>2, SeqFields
  <1>4. /\ t \in SeqRecords
        /\ t.req = seq[c].req /\ t.kvLen = seq[c].kvLen /\ t.held = seq[c].held
        /\ Sampled(c, t)
        /\ \/ /\ t.state = "FINISHED" /\ t.reason \in {"stop", "length"} /\ Answered(t)
           \/ /\ t.state = "RUNNING" /\ t.reason = Unfinished
              /\ Len(t.gen) = 1 /\ Len(t.gen) < m
    <2> HIDE DEF c
    <2> QED BY <1>2, PrefillSampled
  <1> HIDE DEF t
  <1>5. t.state = "RUNNING" => t.kvLen = t.req.prompt + Len(t.gen) - 1
    <2>1. ASSUME NEW q \in Nat PROVE q + 1 - 1 = q
      OBVIOUS
    <2> QED BY <2>1, <1>2, <1>4
  <1>6. Sound(c, t)
    <2>1. Sound(c, seq[c])
      BY <1>2 DEF Objects
    <2>2. t.reason # Unfinished <=> t.state = "FINISHED"
      BY <1>4, ReasonsDiffer
    <2>3. t.state = "FINISHED" => Answered(t)
      BY <1>4
    <2>4. ASSUME t.state = "RUNNING" PROVE Len(t.gen) \in 1 .. t.req.max - 1
      <3>1. Len(t.gen) = 1 /\ 1 < m /\ t.req.max = m
        BY <2>4, <1>4
      <3> HIDE DEF m
      <3> QED BY <3>1, <1>3
    <2> HIDE DEF c
    <2> QED BY <1>2, <1>4, <2>1, <2>2, <2>3, <2>4 DEF Sound
  <1>7. t.state \in {"RUNNING", "FINISHED"} /\ t.reason \in {Unfinished, "stop", "length"}
    BY <1>4
  <1> QED BY <1>1, <1>4, <1>5, <1>6, <1>7, PrefillLeaves

(* Every prompt is through: the lockstep begins.                           *)
LEMMA BeginDecodeInv ==
  ASSUME IInv, BeginDecode
  PROVE  IInv'
  <1>1. /\ pc = "prefill" /\ it > Len(seqs) /\ pc' = "decode" /\ it' = 1
        /\ UNCHANGED << seq, nextId, results, freeBlocks, seqs, i, logits, anyRunning >>
    BY DEF BeginDecode
  <1>2. /\ TypeOK /\ Len(seqs) \in Nat /\ Prefilling /\ it <= Len(seqs) + 1 /\ it \in Nat
    BY <1>1, Members DEF IInv, Phases, TypeOK
  <1>3. TypeOK'
    <2>1. it' \in Nat \ {0} /\ pc' \in {"out", "prefill", "decode"}
      BY <1>1
    <2>2. BaseTypeOK'
      BY <1>1, <1>2 DEF TypeOK, BaseTypeOK
    <2> QED BY <1>1, <1>2, <2>1, <2>2, Zenon DEF TypeOK
  <1>4. Phases'
    <2>1. it - 1 = Len(seqs)
      BY <1>1, <1>2
    <2>2. \A j \in 1 .. Len(seqs) : StateAt(j) \in {"RUNNING", "FINISHED"}
      BY <1>2, <2>1 DEF Prefilling
    <2>3. 1 .. 1 - 1 = {} /\ 1 <= Len(seqs) + 1
      BY <1>2
    <2>4. Decoding'
      BY <1>1, <2>2, <2>3 DEF Decoding, StateAt
    <2> QED BY <1>1, <2>3, <2>4 DEF Phases
  <1> QED BY <1>1, <1>3, <1>4, ObjectsUntouched DEF IInv

(* What a step of the decode loop finds.                                   *)
LEMMA AtDecode ==
  ASSUME IInv, pc = "decode"
  PROVE  /\ TypeOK /\ Len(seqs) \in Nat /\ it \in Nat \ {0} /\ it <= Len(seqs) + 1
         /\ \A j \in 1 .. Len(seqs) : StateAt(j) \in {"RUNNING", "FINISHED"}
         /\ ~ anyRunning => \A j \in 1 .. it - 1 : StateAt(j) = "FINISHED"
  BY Members DEF IInv, Phases, Decoding, TypeOK

LEMMA SkipInv ==
  ASSUME IInv, Skip
  PROVE  IInv'
  <1>1. /\ pc = "decode" /\ it <= Len(seqs) /\ seq[Current].state # "RUNNING" /\ it' = it + 1
        /\ UNCHANGED << seq, nextId, results, freeBlocks, seqs, pc, i, logits, anyRunning >>
    BY DEF Skip
  <1>2. /\ TypeOK /\ Len(seqs) \in Nat /\ it \in Nat \ {0}
        /\ \A j \in 1 .. Len(seqs) : StateAt(j) \in {"RUNNING", "FINISHED"}
        /\ ~ anyRunning => \A j \in 1 .. it - 1 : StateAt(j) = "FINISHED"
    BY <1>1, AtDecode
  <1>3. TypeOK'
    <2>1. it' \in Nat \ {0}
      BY <1>1, <1>2
    <2>2. BaseTypeOK'
      BY <1>1, <1>2 DEF TypeOK, BaseTypeOK
    <2> QED BY <1>1, <1>2, <2>1, <2>2, Zenon DEF TypeOK
  <1>4. ASSUME ~ anyRunning, NEW j \in 1 .. it PROVE StateAt(j) = "FINISHED"
    <2>1. CASE j = it
      <3>1. it \in 1 .. Len(seqs) /\ StateAt(it) # "RUNNING"
        BY <1>1, <1>2 DEF StateAt, Current
      <3> QED BY <2>1, <3>1, <1>2
    <2>2. CASE j # it
      <3>1. j \in 1 .. it - 1
        BY <2>2, <1>2
      <3> QED BY <3>1, <1>2, <1>4
    <2> QED BY <2>1, <2>2
  <1>5. Phases'
    <2>1. (it + 1) - 1 = it /\ it + 1 <= Len(seqs) + 1
      BY <1>1, <1>2
    <2>2. \A j \in 1 .. Len(seqs') : StateAt(j)' \in {"RUNNING", "FINISHED"}
      BY <1>1, <1>2 DEF StateAt
    <2>3. ~ anyRunning' => \A j \in 1 .. it' - 1 : StateAt(j)' = "FINISHED"
      BY <1>1, <1>4, <2>1 DEF StateAt
    <2> QED BY <1>1, <2>1, <2>2, <2>3 DEF Phases, Decoding
  <1> QED BY <1>1, <1>3, <1>5, ObjectsUntouched DEF IInv

(* A running sequence: its next position is the first it has not written.  *)
LEMMA AtRunning ==
  ASSUME IInv, pc = "decode", it <= Len(seqs), seq[Current].state = "RUNNING",
         NEW p, p = LastPos(Current)
  PROVE  /\ BaseTypeOK /\ Objects /\ Accounted
         /\ Current \in Ids /\ Current \in ToSet(seqs) /\ it \in 1 .. Len(seqs)
         /\ p \in Nat /\ seq[Current].kvLen = p /\ p + 1 <= WrittenAtMost(seq[Current].req)
         /\ p + 1 = seq[Current].req.prompt + Len(seq[Current].gen)
         /\ seq[Current] \in SeqRecords /\ seq[Current].reason = Unfinished
         /\ Sampled(Current, seq[Current])
         /\ Len(seq[Current].gen) \in Nat /\ Len(seq[Current].gen) > 0
         /\ seq[Current].req.max \in Nat /\ Len(seq[Current].gen) < seq[Current].req.max
         /\ seq[Current].held = Layout!BlocksFor(p)
         /\ seq[Current].req \in Requests /\ Accepts(seq[Current].req)
  <1> DEFINE c == Current
             q == seq[c].req.prompt
             m == seq[c].req.max
             n == Len(seq[c].gen)
  <1>1. /\ BaseTypeOK /\ Objects /\ Accounted
        /\ c \in Ids /\ c \in ToSet(seqs) /\ it \in 1 .. Len(seqs)
    BY AtCurrent DEF IInv, TypeOK
  <1>2. seq[c].kvLen = p /\ p = q + n - 1
    BY <1>1 DEF IInv, Positions, LastPos
  <1>3. seq[c].state = "RUNNING"
    OBVIOUS
  <1> HIDE DEF c
  <1>4. Sound(c, seq[c])
    BY <1>1 DEF Objects
  <1>5. /\ seq[c] \in SeqRecords /\ q \in Nat /\ m \in Nat /\ n \in Nat
    BY <1>1, SeqFields
  <1>6. /\ seq[c].reason = Unfinished /\ Sampled(c, seq[c]) /\ n \in 1 .. m - 1
        /\ seq[c].req \in Requests /\ Accepts(seq[c].req)
        /\ seq[c].held = Layout!BlocksFor(seq[c].kvLen)
    BY <1>3, <1>4 DEF Sound
  <1>7. WrittenAtMost(seq[c].req) = IF m = 0 THEN q ELSE q + m - 1
    BY DEF WrittenAtMost
  <1> HIDE DEF q, m, n
  <1>8. /\ p \in Nat /\ p + 1 = q + n /\ n > 0 /\ n < m
        /\ p + 1 <= IF m = 0 THEN q ELSE q + m - 1
    BY <1>2, <1>5, <1>6
  <1> QED BY <1>1, <1>2, <1>5, <1>6, <1>7, <1>8 DEF c, q, m, n

(* The decode loop goes on after a sequence it sampled or refused.         *)
LEMMA DecodeLeaves ==
  ASSUME IInv, pc = "decode", it <= Len(seqs), NEW t,
         BaseTypeOK', Objects', Accounted', logits' \in Rows,
         t.state \in {"RUNNING", "FINISHED"}, t.req = seq[Current].req,
         seq'[Current] = t, \A id \in Ids \ {Current} : seq'[id] = seq[id],
         t.state = "RUNNING" => t.kvLen = t.req.prompt + Len(t.gen) - 1,
         \/ t.reason \in {Unfinished, "stop", "length"}
         \/ ~ (Demand <= NumBlocks),
         anyRunning' = TRUE, it' = it + 1, UNCHANGED << nextId, results, seqs, pc, i >>
  PROVE  IInv'
  <1>1. /\ TypeOK /\ Len(seqs) \in Nat /\ it \in Nat \ {0}
        /\ \A j \in 1 .. Len(seqs) : StateAt(j) \in {"RUNNING", "FINISHED"}
    BY AtDecode
  <1>2. /\ Known' /\ Batch' /\ Positions' /\ Served'
        /\ seq'[seqs[it]].state = t.state
        /\ \A j \in 1 .. Len(seqs) : j # it => seq'[seqs[j]] = seq[seqs[j]]
    <2>1. t.state \notin {"NONE", "GONE"}
      OBVIOUS
    <2> QED BY <2>1, OneChanged
  <1>3. TypeOK'
    <2>1. it' \in Nat \ {0}
      BY <1>1
    <2>2. anyRunning' \in BOOLEAN
      OBVIOUS
    <2> QED BY <1>1, <2>1, <2>2, Zenon DEF TypeOK
  <1>4. Phases'
    <2>1. ASSUME NEW j \in 1 .. Len(seqs)
          PROVE  seq'[seqs[j]].state \in {"RUNNING", "FINISHED"}
      BY <1>1, <1>2 DEF StateAt
    <2>2. it' <= Len(seqs') + 1
      BY <1>1
    <2>3. Decoding'
      BY <2>1 DEF Decoding, StateAt
    <2>4. pc' = "decode"
      OBVIOUS
    <2> QED BY <2>2, <2>3, <2>4 DEF Phases
  <1> QED BY <1>2, <1>3, <1>4 DEF IInv

LEMMA DecodeInv ==
  ASSUME IInv, Decode
  PROVE  IInv'
  <1> DEFINE c == Current
             p == LastPos(c)
             s == seq[c]
             o == AfterWrite(c, p)
             lg == LogitsAt(c, p)
  <1>1. /\ pc = "decode" /\ it <= Len(seqs) /\ s.state = "RUNNING" /\ it' = it + 1
        /\ UNCHANGED << nextId, results, seqs, pc, i >>
    BY DEF Decode
  <1>2. anyRunning' = TRUE
    BY Zenon DEF Decode
  <1>3. IF CanWrite(c, p)
          THEN /\ logits' = lg /\ freeBlocks' = FreeAfterWrite(c, p)
               /\ seq' = [seq EXCEPT ![c] = AfterSample(o, lg)]
          ELSE /\ seq' = [seq EXCEPT ![c] = Finish(s, "capacity")]
               /\ UNCHANGED << freeBlocks, logits >>
    BY DEF Decode
  <1>4. /\ BaseTypeOK /\ Objects /\ Accounted /\ c \in Ids /\ c \in ToSet(seqs)
        /\ p \in Nat /\ s.kvLen = p /\ p + 1 <= WrittenAtMost(s.req)
        /\ p + 1 = s.req.prompt + Len(s.gen)
        /\ s \in SeqRecords /\ s.reason = Unfinished /\ Sampled(c, s)
        /\ Len(s.gen) \in Nat /\ Len(s.gen) > 0
        /\ s.req.max \in Nat /\ Len(s.gen) < s.req.max
        /\ s.held = Layout!BlocksFor(p) /\ s.req \in Requests /\ Accepts(s.req)
    BY <1>1, AtRunning
  <1> HIDE DEF p
  <1>5. CASE CanWrite(c, p)
    <2> DEFINE t == AfterSample(o, lg)
    <2>1. /\ o \in SeqRecords /\ o.kvLen = p + 1 /\ o.held = Layout!BlocksFor(p + 1)
          /\ o.state = s.state /\ o.req = s.req /\ o.gen = s.gen /\ o.reason = s.reason
          /\ lg = Tag(c, p + 1)
      <3> HIDE DEF c
      <3> QED BY <1>4, WriteFields
    <2> HIDE DEF o, lg
    <2>2. /\ t \in SeqRecords /\ t.req = o.req /\ t.kvLen = o.kvLen /\ t.held = o.held
          /\ Sampled(c, t)
          /\ \/ /\ t.state = "FINISHED" /\ t.reason \in {"stop", "length"}
                /\ Answered(t)
             \/ /\ t.state = "RUNNING" /\ t.reason = Unfinished
                /\ Len(t.gen) = Len(o.gen) + 1 /\ Len(t.gen) < t.req.max
      <3>1. /\ Sampled(c, o) /\ o.req = seq[c].req /\ o.reason = Unfinished
            /\ Len(o.gen) < o.req.max /\ lg = Tag(c, o.req.prompt + Len(o.gen))
        BY <1>4, <2>1 DEF Sampled
      <3> HIDE DEF c
      <3> QED BY <3>1, <1>4, <2>1, SampledFrom
    <2> HIDE DEF t
    <2>3. ASSUME t.state = "RUNNING"
          PROVE  /\ t.kvLen = t.req.prompt + Len(t.gen) - 1
                 /\ Len(t.gen) \in 1 .. t.req.max - 1
      <3> DEFINE q == s.req.prompt
                 m == s.req.max
                 n == Len(s.gen)
      <3>1. /\ t.req.max = m /\ t.req.prompt = q /\ Len(t.gen) = n + 1 /\ n + 1 < m
            /\ t.kvLen = q + n
        BY <2>1, <2>2, <2>3, <1>4
      <3>2. q \in Nat /\ m \in Nat /\ n \in Nat
        BY <1>4, SeqFields
      <3> HIDE DEF q, m, n
      <3>3. q + n = q + (n + 1) - 1 /\ n + 1 \in 1 .. m - 1
        BY <3>1, <3>2
      <3> QED BY <3>1, <3>3
    <2>4. Sound(c, t)
      <3>1. t.reason # Unfinished <=> t.state = "FINISHED"
        BY <2>2, ReasonsDiffer
      <3>2. t.kvLen <= WrittenAtMost(t.req) /\ t.held = Layout!BlocksFor(t.kvLen)
        BY <1>4, <2>1, <2>2
      <3>3. t.req \in Requests /\ Accepts(t.req)
        BY <1>4, <2>1, <2>2
      <3> QED BY <2>2, <2>3, <3>1, <3>2, <3>3 DEF Sound
    <2>5. /\ logits' = lg /\ freeBlocks' = FreeAfterWrite(c, p)
          /\ seq' = [seq EXCEPT ![c] = t]
      BY <1>3, <1>5 DEF t
    <2>6. /\ BaseTypeOK' /\ Objects' /\ Accounted'
          /\ seq'[c] = t /\ \A id \in Ids \ {c} : seq'[id] = seq[id]
      <3>1. t.held = AfterWrite(c, p).held
        BY <2>2 DEF o
      <3>2. seq[c].kvLen \in {p, p + 1} /\ seq[c].state # "GONE"
        BY <1>1, <1>4
      <3> HIDE DEF c
      <3> QED BY <3>1, <3>2, <1>1, <1>4, <1>5, <2>2, <2>4, <2>5, OneCache
    <2>7. logits' \in Rows
      <3>1. p + 1 \in Nat
        BY <1>4
      <3> QED BY <3>1, <1>4, <2>1, <2>5, TagIsRow
    <2>8. /\ t.state \in {"RUNNING", "FINISHED"} /\ t.req = s.req
          /\ t.reason \in {Unfinished, "stop", "length"}
      BY <2>1, <2>2
    <2> QED BY <1>1, <1>2, <2>3, <2>6, <2>7, <2>8, DecodeLeaves
  <1>6. CASE ~ CanWrite(c, p)
    <2> DEFINE t == Finish(s, "capacity")
    <2>1. /\ t \in SeqRecords /\ t.state = "FINISHED" /\ t.reason = "capacity"
          /\ t.req = s.req /\ t.gen = s.gen /\ t.kvLen = s.kvLen /\ t.held = s.held
      BY <1>4, FinishFields
    <2> HIDE DEF t
    <2>2. ~ (Demand <= NumBlocks)
      <3> HIDE DEF c
      <3> QED BY <1>4, <1>6, RefusalUnfit
    <2>3. Sound(c, t)
      <3>1. Answered(t) /\ t.reason # Unfinished
        BY <1>4, <2>1, ReasonsDiffer DEF Answered
      <3>2. Sampled(c, t)
        BY <1>4, <2>1 DEF Sampled
      <3>3. t.kvLen <= WrittenAtMost(t.req) /\ t.held = Layout!BlocksFor(t.kvLen)
        <4>1. WrittenAtMost(s.req) \in Int
          BY <1>4, SeqFields DEF WrittenAtMost
        <4> QED BY <4>1, <1>4, <2>1
      <3>4. t.req \in Requests /\ Accepts(t.req)
        BY <1>4, <2>1
      <3> QED BY <2>1, <3>1, <3>2, <3>3, <3>4 DEF Sound
    <2>4. seq' = [seq EXCEPT ![c] = t] /\ UNCHANGED << freeBlocks, logits >>
      BY <1>3, <1>6 DEF t
    <2>5. /\ BaseTypeOK' /\ Objects' /\ Accounted'
          /\ seq'[c] = t /\ \A id \in Ids \ {c} : seq'[id] = seq[id]
      <3> HIDE DEF c
      <3> QED BY <1>1, <1>4, <2>1, <2>3, <2>4, OneObject
    <2>6. logits' \in Rows
      BY <2>4 DEF IInv, TypeOK
    <2> QED BY <1>1, <1>2, <2>1, <2>2, <2>5, <2>6, DecodeLeaves
  <1> QED BY <1>5, <1>6

LEMMA NextPassInv ==
  ASSUME IInv, NextPass
  PROVE  IInv'
  <1>1. /\ pc = "decode" /\ it' = 1
        /\ UNCHANGED << seq, nextId, results, freeBlocks, seqs, pc, i, logits >>
    BY DEF NextPass
  <1>2. anyRunning' \in BOOLEAN
    BY Zenon DEF NextPass
  <1>3. /\ TypeOK /\ Len(seqs) \in Nat
        /\ \A j \in 1 .. Len(seqs) : StateAt(j) \in {"RUNNING", "FINISHED"}
    BY <1>1, AtDecode
  <1>4. TypeOK'
    <2>1. it' \in Nat \ {0}
      BY <1>1
    <2>2. BaseTypeOK'
      BY <1>1, <1>3 DEF TypeOK, BaseTypeOK
    <2> QED BY <1>1, <1>2, <1>3, <2>1, <2>2, Zenon DEF TypeOK
  <1>5. Phases'
    <2>1. 1 .. 1 - 1 = {} /\ 1 <= Len(seqs) + 1
      BY <1>3
    <2>2. Decoding'
      BY <1>1, <1>3, <2>1 DEF Decoding, StateAt
    <2> QED BY <1>1, <2>1, <2>2 DEF Phases
  <1> QED BY <1>1, <1>4, <1>5, ObjectsUntouched DEF IInv

(* A pass that decoded nothing: every sequence is terminal.                *)
LEMMA AtDrain ==
  ASSUME IInv, Drain
  PROVE  /\ BaseTypeOK /\ Objects /\ Accounted /\ Known /\ Batch /\ seqs \in Seq(Ids)
         /\ Retire(seqs) /\ nextId' = nextId
         /\ \A id \in ToSet(seqs) : seq[id].state = "FINISHED"
  <1>1. pc = "decode" /\ it > Len(seqs) /\ ~ anyRunning /\ Retire(seqs) /\ nextId' = nextId
    BY DEF Drain
  <1>2. /\ TypeOK /\ Len(seqs) \in Nat /\ it \in Nat /\ it <= Len(seqs) + 1
        /\ \A j \in 1 .. it - 1 : StateAt(j) = "FINISHED"
    BY <1>1, AtDecode
  <1>3. it - 1 = Len(seqs)
    BY <1>1, <1>2
  <1>4. ASSUME NEW id \in ToSet(seqs) PROVE seq[id].state = "FINISHED"
    <2>1. PICK j \in 1 .. Len(seqs) : id = seqs[j]
      BY Members DEF IInv
    <2> QED BY <2>1, <1>2, <1>3 DEF StateAt
  <1> QED BY <1>1, <1>2, <1>4 DEF IInv, TypeOK

LEMMA DrainInv ==
  ASSUME IInv, Drain
  PROVE  IInv'
  <1>1. /\ seqs' = << >> /\ pc' = "out" /\ it' = 1 /\ logits' = Garbage
        /\ UNCHANGED << nextId, i, anyRunning >>
    BY DEF Drain
  <1>2. /\ BaseTypeOK /\ Objects /\ Accounted /\ Known /\ Batch /\ seqs \in Seq(Ids)
        /\ Retire(seqs) /\ \A id \in ToSet(seqs) : seq[id].state = "FINISHED"
    BY AtDrain
  <1>3. BaseTypeOK' /\ Objects' /\ Accounted'
    BY <1>1, <1>2, RetireObjects
  <1>4. Len(seqs') = 0 /\ ToSet(seqs') = {} /\ 1 .. Len(seqs') = {}
    <2>1. Len(<< >>) = 0 /\ DOMAIN << >> = {} /\ 1 .. 0 = {}
      OBVIOUS
    <2>2. ToSet(<< >>) = {}
      BY <2>1 DEF ToSet
    <2> QED BY <1>1, <2>1, <2>2
  <1>5. nextId \in Nat /\ Oldest' = nextId
    <2>1. nextId \in Nat
      BY Members DEF IInv
    <2>2. nextId - 0 = nextId
      BY <2>1
    <2> QED BY <1>1, <1>4, <2>1, <2>2, Zenon DEF Oldest
  <1>6. TypeOK'
    <2>1. seqs' \in Seq(Ids)
      BY <1>1, EmptySeq
    <2>2. logits' \in Rows
      BY <1>1 DEF Garbage, Rows
    <2>3. it' \in Nat \ {0} /\ pc' \in {"out", "prefill", "decode"}
      BY <1>1
    <2> QED BY <1>1, <1>3, <2>1, <2>2, <2>3, Zenon DEF IInv, TypeOK
  <1>7. ASSUME NEW id \in Ids
        PROVE  /\ seq'[id].state = "NONE" <=> id >= nextId
               /\ seq'[id].state = "GONE" <=> id < nextId
               /\ seq'[id].state # "RUNNING"
    <2>1. /\ id \in ToSet(seqs) <=> Oldest <= id /\ id < nextId
          /\ id \notin ToSet(seqs) => seq[id].state \in {"NONE", "GONE"}
      BY MemberIds DEF IInv
    <2>2. /\ id \notin ToSet(seqs) => seq'[id] = seq[id]
          /\ id \in ToSet(seqs) => seq'[id].state = "GONE"
      BY <1>2, RetireFields
    <2>3. id \in Int /\ Oldest \in Int /\ Oldest <= nextId
      <3>1. /\ id \in Nat /\ Len(seqs) \in Nat /\ nextId = Oldest + Len(seqs)
            /\ Oldest \in Nat
        BY <1>5, Members, IdsFinite DEF IInv, Oldest
      <3> QED BY <3>1
    <2>4. /\ seq[id].state = "NONE" <=> id >= nextId
          /\ seq[id].state = "GONE" <=> id < Oldest
      BY <1>2 DEF Known, Batch
    <2>5. CASE id \in ToSet(seqs)
      <3>1. id < nextId /\ ~ (id >= nextId)
        BY <2>1, <2>3, <2>5, <1>5
      <3> QED BY <3>1, <2>2, <2>5
    <2>6. CASE id \notin ToSet(seqs)
      <3>1. id < Oldest <=> id < nextId
        BY <2>1, <2>3, <2>6, <1>5
      <3> QED BY <3>1, <2>1, <2>2, <2>4, <2>6
    <2> QED BY <2>5, <2>6
  <1>8. Known' /\ Batch' /\ Positions'
    <2>1. Known' /\ Positions'
      BY <1>1, <1>7 DEF Known, Positions
    <2>2. Batch'
      BY <1>1, <1>4, <1>5, <1>7 DEF Batch
    <2> QED BY <2>1, <2>2
  <1>9. Phases' /\ Served'
    <2>1. Phases'
      BY <1>1, <1>4 DEF Phases
    <2>2. Served'
      BY <1>4 DEF Served, Refused
    <2> QED BY <2>1, <2>2
  <1> QED BY <1>3, <1>6, <1>8, <1>9 DEF IInv

LEMMA NextInv ==
  ASSUME IInv, [Next]_vars
  PROVE  IInv'
  <1>1. ASSUME NEW r \in Requests, Enqueue(r) PROVE IInv'
    BY <1>1, EnqueueInv
  <1>2. CASE ClearResults
    BY <1>2, ClearResultsInv
  <1>3. CASE BeginRun
    BY <1>3, BeginRunInv
  <1>4. CASE PrefillToken
    BY <1>4, PrefillTokenInv
  <1>5. CASE PrefillCapacity
    BY <1>5, PrefillCapacityInv
  <1>6. CASE PrefillDone
    BY <1>6, PrefillDoneInv
  <1>7. CASE BeginDecode
    BY <1>7, BeginDecodeInv
  <1>8. CASE Skip
    BY <1>8, SkipInv
  <1>9. CASE Decode
    BY <1>9, DecodeInv
  <1>10. CASE NextPass
    BY <1>10, NextPassInv
  <1>11. CASE Drain
    BY <1>11, DrainInv
  <1>12. CASE UNCHANGED vars
    BY <1>12, StutterInv
  <1> QED BY <1>1, <1>2, <1>3, <1>4, <1>5, <1>6, <1>7, <1>8, <1>9, <1>10, <1>11, <1>12
          DEF Next, InRun, Quiescent

-----------------------------------------------------------------------------
(* The batch is every unanswered request in order, and each of its         *)
(* sequences is where the loops have taken it: an invariant of the static  *)
(* scheduler.                                                              *)
THEOREM Invariance == Spec => []IInv
  <1>1. Init => IInv
    BY InitInv
  <1>2. IInv /\ [Next]_vars => IInv'
    BY NextInv
  <1> QED BY <1>1, <1>2, PTL DEF Spec

(* Every variable of the static scheduler has its type.                    *)
THEOREM TypeCorrect == Spec => []TypeOK
  <1>1. IInv => TypeOK
    BY DEF IInv
  <1> QED BY <1>1, Invariance, PTL

(* A batch whose sequences fit into the pool together is never refused a   *)
(* block: the lockstep takes no block another sequence of it will need,    *)
(* and the batch before it gave all of its blocks back.                    *)
THEOREM BatchThatFitsIsServed == Spec => []FitsIsServed
  <1>1. IInv => FitsIsServed
    BY DEF IInv, Served, Refused, Demand, FitsIsServed
  <1> QED BY <1>1, Invariance, PTL

-----------------------------------------------------------------------------
(* The refinement                                                          *)

(* The service with ordered answers answers a request as the one without.  *)
LEMMA SameAnswers ==
  ASSUME NEW a, Service!Answers(a)
  PROVE  Promise!Answers(a)
  BY Zenon DEF Service!Answers, Promise!Answers, Service!Generate, Promise!Generate,
     Service!Tag, Promise!Tag, Service!IsPrefix, Promise!IsPrefix

(* The drain answers the whole batch, in the order of its requests.        *)
LEMMA DrainIsAnswer ==
  ASSUME IInv, Drain
  PROVE  Promise!Answer \/ UNCHANGED Promise!vars
  <1>1. /\ BaseTypeOK /\ Objects /\ Known /\ TypeOK /\ Batch /\ seqs \in Seq(Ids)
        /\ Retire(seqs) /\ nextId' = nextId
        /\ \A id \in ToSet(seqs) : seq[id].state = "FINISHED"
    BY AtDrain DEF IInv
  <1>2. /\ seqs # << >> => AnswersAtOnce(seqs)
        /\ seqs = << >> => UNCHANGED << Asked, Pending, results >>
    BY <1>1, RetireAnswers
  <1>3. CASE seqs = << >>
    BY <1>2, <1>3 DEF Promise!vars
  <1>4. CASE seqs # << >>
    <2> DEFINE new == SubSeq(results', Len(results) + 1, Len(results'))
               ids == [k \in DOMAIN new |-> new[k].id]
    <2>1. /\ IsStrictPrefix(results, results') /\ ids = seqs
          /\ \A k \in DOMAIN new : Service!Answers(new[k])
          /\ ToSet(seqs) \subseteq Pending /\ Pending' = Pending \ ToSet(seqs)
          /\ Asked' = Asked
      BY <1>2, <1>4 DEF AnswersAtOnce
    <2>2. \A a : Service!Answers(a) => Promise!Answers(a)
      BY SameAnswers
    <2> HIDE DEF new
    <2>3. Promise!IsStrictPrefix(results, results')
      BY <2>1 DEF IsStrictPrefix, IsPrefix, Promise!IsStrictPrefix, Promise!IsPrefix
    <2>4. IsInjective(seqs)
      BY <1>1, Members DEF IsInjective
    <2>5. /\ Promise!IsInjective(ids) /\ Promise!ToSet(ids) \subseteq Pending
          /\ Pending' = Pending \ Promise!ToSet(ids)
      BY <2>1, <2>4 DEF IsInjective, ToSet, Promise!IsInjective, Promise!ToSet
    <2>6. \A k \in DOMAIN new : Promise!Answers(new[k])
      BY <2>1, <2>2
    <2>7. ASSUME NEW k \in DOMAIN seqs, NEW id \in Pending, id < seqs[k]
          PROVE  \E h \in 1 .. k - 1 : seqs[h] = id
      <3>1. /\ k \in 1 .. Len(seqs) /\ Len(seqs) \in Nat /\ Oldest \in Nat /\ nextId \in Nat
            /\ nextId = Oldest + Len(seqs) /\ seqs[k] = Oldest + k - 1
        BY <1>1, Members DEF Batch, Oldest
      <3>2. id \in 0 .. nextId - 1 /\ seq[id].state # "GONE"
        BY <2>7 DEF Pending
      <3>3. id \in Ids
        BY <1>1, <3>2, RequestAssumption DEF BaseTypeOK, Ids
      <3>4. ~ (id < Oldest)
        BY <1>1, <3>2, <3>3 DEF Batch
      <3> DEFINE h == id - Oldest + 1
      <3>5. h \in 1 .. k - 1 /\ h \in 1 .. Len(seqs) /\ Oldest + h - 1 = id
        BY <2>7, <3>1, <3>2, <3>4
      <3> HIDE DEF h
      <3>6. seqs[h] = id
        BY <1>1, <3>5 DEF Batch
      <3> QED BY <3>5, <3>6
    <2>8. \A k \in DOMAIN ids, id \in Pending :
            id < ids[k] => \E h \in 1 .. k - 1 : ids[h] = id
      <3> HIDE DEF ids
      <3> QED BY <2>1, <2>7
    <2> QED BY <2>1, <2>3, <2>5, <2>6, <2>8, Zenon DEF Promise!Answer, new
  <1> QED BY <1>3, <1>4

LEMMA EnqueueAccepts ==
  ASSUME IInv, NEW r \in Requests, Enqueue(r)
  PROVE  Promise!Accept
  <1>1. /\ BaseTypeOK /\ nextId < MaxSeqs /\ Accepts(r) /\ results' = results
        /\ seq' = [seq EXCEPT ![nextId] = NewSeq(r)] /\ nextId' = nextId + 1
    BY DEF IInv, TypeOK, Enqueue
  <1>2. Asked' = Append(Asked, r) /\ Pending' = Pending \cup {Len(Asked)}
    BY <1>1, EnqueueAsks
  <1>3. Promise!Accepts(r)
    BY <1>1 DEF Accepts, Promise!Accepts
  <1> QED BY <1>1, <1>2, <1>3 DEF Promise!Accept

LEMMA StepImplements ==
  ASSUME IInv, [Next]_vars
  PROVE  [Promise!Next]_(Promise!vars)
  <1>1. BaseTypeOK
    BY DEF IInv, TypeOK
  <1>2. ASSUME NEW r \in Requests, Enqueue(r) PROVE Promise!Accept
    BY <1>2, EnqueueAccepts
  <1>3. CASE ClearResults
    <2>1. UNCHANGED << seq, nextId >> /\ results' = << >>
      BY <1>3 DEF ClearResults
    <2>2. UNCHANGED << Asked, Pending >>
      BY <2>1 DEF Asked, Pending
    <2> QED BY <2>1, <2>2 DEF Promise!ClearResults, Promise!Next
  <1>4. CASE UNCHANGED << seq, nextId, results >>
    BY <1>1, <1>4, Unseen DEF Promise!vars
  <1>5. CASE Drain
    BY <1>5, DrainIsAnswer DEF Promise!Next
  <1>6. CASE PrefillToken \/ PrefillCapacity \/ PrefillDone \/ Decode
    <2> SUFFICES ASSUME NEW c, c = Current, NEW p, p = LastPos(c)
                 PROVE  UNCHANGED << Asked, Pending, results >>
      BY DEF Promise!vars
    <2> DEFINE w == [AfterWrite(c, i) EXCEPT !.state = "PREFILLING"]
               o == AfterWrite(c, p)
               lg == LogitsAt(c, p)
    <2>1. /\ it <= Len(seqs) /\ UNCHANGED << nextId, results >>
          /\ \/ seq' = [seq EXCEPT ![c] = w]
             \/ seq' = [seq EXCEPT ![c] = Finish(seq[c], "capacity")]
             \/ seq' = [seq EXCEPT ![c] = AfterPrefill(seq[c], logits)]
             \/ /\ pc = "decode" /\ seq[Current].state = "RUNNING"
                /\ seq' = [seq EXCEPT ![c] = AfterSample(o, lg)]
      BY <1>6 DEF PrefillToken, PrefillCapacity, PrefillDone, Decode, InPrompt
    <2>2. c \in Ids /\ seq[c].state # "GONE" /\ seq[c] \in SeqRecords
      BY <2>1, <1>1, AtCurrent, SeqFields
    <2>3. /\ AfterPrefill(seq[c], logits).req = seq[c].req
          /\ AfterPrefill(seq[c], logits).state # "GONE"
          /\ Finish(seq[c], "capacity").req = seq[c].req
          /\ Finish(seq[c], "capacity").state # "GONE"
      BY <2>2, SameSequence
    <2>4. CASE seq' = [seq EXCEPT ![c] = w]
      <3>1. w.req = seq[c].req /\ w.state # "GONE"
        BY <2>2 DEF AfterWrite, SeqRecords
      <3> HIDE DEF w
      <3> QED BY <3>1, <2>1, <2>2, <2>4, <1>1, UnseenObject
    <2>5. CASE /\ pc = "decode" /\ seq[Current].state = "RUNNING"
               /\ seq' = [seq EXCEPT ![c] = AfterSample(o, lg)]
      <3>1. seq[c].kvLen = p /\ p \in Nat /\ seq[c].held = Layout!BlocksFor(p)
        BY <2>1, <2>5, AtRunning
      <3>2. o \in SeqRecords
        BY <3>1, <2>2, <1>1, WriteFields
      <3>3. o.req = seq[c].req /\ o.state # "GONE"
        BY <2>2, <1>1, SameWritten
      <3> HIDE DEF o, lg
      <3>4. AfterSample(o, lg).req = seq[c].req /\ AfterSample(o, lg).state # "GONE"
        BY <3>2, <3>3, SameSequence
      <3> QED BY <3>4, <2>1, <2>2, <2>5, <1>1, UnseenObject
    <2> HIDE DEF w, o, lg
    <2> QED BY <2>1, <2>2, <2>3, <2>4, <2>5, <1>1, UnseenObject
  <1>7. CASE BeginRun \/ BeginDecode \/ Skip \/ NextPass \/ UNCHANGED vars
    BY <1>4, <1>7 DEF BeginRun, BeginDecode, Skip, NextPass, vars
  <1> QED BY <1>2, <1>3, <1>5, <1>6, <1>7 DEF Next, InRun, Quiescent, Promise!Next

(* Each request of a batch is answered once, as engine.generate would      *)
(* answer it or with "capacity" and the first of its tokens, and in the    *)
(* order the requests came: every step of the static scheduler is a step   *)
(* of Serving with ordered answers, or changes nothing of it.              *)
THEOREM SchedulerImplementsServing == Spec => ImplementsServing
  <1>1. Init => Promise!Init
    <2> SUFFICES ASSUME Init PROVE Promise!Init
      OBVIOUS
    <2>1. nextId = 0 /\ results = << >>
      BY DEF Init, BaseInit
    <2>2. 1 .. nextId = {} /\ 0 .. nextId - 1 = {}
      BY <2>1
    <2>3. Asked = << >> /\ Pending = {}
      BY <2>2 DEF Asked, Pending
    <2> QED BY <2>1, <2>3 DEF Promise!Init
  <1>2. IInv /\ [Next]_vars => [Promise!Next]_(Promise!vars)
    BY StepImplements
  <1> QED BY <1>1, <1>2, Invariance, PTL DEF Spec, ImplementsServing, Promise!Spec
=============================================================================
