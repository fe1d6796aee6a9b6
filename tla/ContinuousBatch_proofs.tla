----------------------- MODULE ContinuousBatch_proofs ------------------------
(***************************************************************************)
(* Proofs about ContinuousBatch: types, conservation of the blocks, the    *)
(* positions a resumed sequence continues from, the bound on who holds     *)
(* blocks, and that the scheduler implements Serving.                      *)
(***************************************************************************)
EXTENDS ContinuousBatch, SequenceBase_proofs, TLAPS

-----------------------------------------------------------------------------
(* The inductive invariant.                                                *)

(* The three queues: no id twice, and a sequence is in the one of its      *)
(* state, a finished one still in the one it finished in.                  *)
Queues ==
  /\ IsInjective(waiting) /\ IsInjective(prefilling) /\ IsInjective(running)
  /\ Len(prefilling) + Len(running) <= MaxConcurrent
  /\ ToSet(prefilling) \cap ToSet(running) = {}
  /\ \A id \in Ids :
       /\ id \in ToSet(waiting) <=> seq[id].state = "WAITING"
       /\ id \in ToSet(prefilling) => seq[id].state \in {"PREFILLING", "FINISHED"}
       /\ id \in ToSet(running) => seq[id].state \in {"RUNNING", "FINISHED"}
       /\ seq[id].state \in {"PREFILLING", "RUNNING", "FINISHED"}
            => id \in ToSet(prefilling) \cup ToSet(running)
       /\ seq[id].state = "NONE" <=> id >= nextId

(* Where the step is: what the lists hold between its phases.              *)
AllIn(list, from, st) == \A i \in from .. Len(list) : seq[list[i]].state = st

Phases ==
  /\ pc = "finalizeRunning" => AllIn(prefilling, 1, "PREFILLING")
  /\ pc = "admit" => AllIn(prefilling, 1, "PREFILLING") /\ AllIn(running, 1, "RUNNING")
  /\ pc = "prefill" => AllIn(prefilling, it, "PREFILLING") /\ AllIn(running, 1, "RUNNING")
  /\ pc \in {"decode", "sample"} =>
       /\ batch = running /\ it <= Len(batch) + 1
       /\ Len(rows) = IF pc = "decode" THEN it - 1 ELSE Len(batch)
       /\ AllIn(batch, IF pc = "decode" THEN 1 ELSE it, "RUNNING")

(* Rows of the batched pass not consumed yet.                              *)
Open(j) == /\ pc \in {"decode", "sample"} /\ j \in 1 .. Len(rows)
           /\ pc = "sample" => j >= it

(* The cache stops where the next forward pass writes, one further for the *)
(* sequences this step has written and not sampled.                        *)
PrefillPosition(id) ==
  \/ seq[id].cursor < seq[id].req.prompt /\ Ready(seq[id], seq[id].cursor)
  \/ /\ pc = "prefill" /\ it <= Len(prefilling) /\ id = Current
     /\ seq[id].cursor = seq[id].req.prompt /\ seq[id].kvLen = seq[id].req.prompt
     /\ logits = Tag(id, seq[id].req.prompt)

Positions ==
  \A id \in Ids :
    /\ seq[id].state = "PREFILLING" => PrefillPosition(id)
    /\ seq[id].state = "RUNNING" =>
         \/ Ready(seq[id], LastPos(id))
         \/ \E j \in 1 .. Len(rows) : Open(j) /\ batch[j] = id /\ rows[j] # Dead

RowsMatch ==
  \A j \in 1 .. Len(rows) :
    Open(j) => \/ rows[j] = Dead
               \/ /\ rows[j] = Tag(batch[j], LastPos(batch[j]) + 1)
                  /\ seq[batch[j]].kvLen = LastPos(batch[j]) + 1

(* A refused block shows that the requests need more than the pool.        *)
Refusals ==
  \/ \E id \in Ids : seq[id].reason = "capacity"
  \/ \E j \in 1 .. Len(rows) : rows[j] = Dead

IInv ==
  /\ TypeOK /\ Queues /\ Phases /\ Objects /\ Positions /\ RowsMatch
  /\ Accounted
  /\ Refusals => ~ PoolFitsAny

-----------------------------------------------------------------------------
(* std::partition and the gather loop, as operators on lists.              *)

(* The partition has the members of the list, each once, the survivors     *)
(* first.                                                                  *)
LEMMA PartitionSplits ==
  ASSUME NEW list \in Seq(Ids), IsInjective(list)
  PROVE  LET n == Cardinality({i \in DOMAIN list : seq[list[i]].state # "FINISHED"})
             P == Partition(list)
         IN  /\ n \in 0 .. Len(list)
             /\ P \in Seq(Ids) /\ Len(P) = Len(list) /\ IsInjective(P)
             /\ ToSet(P) = ToSet(list)
             /\ \A i \in 1 .. Len(P) : i <= n <=> seq[P[i]].state # "FINISHED"
  <1> DEFINE dom    == 1 .. Len(list)
             alive  == {i \in DOMAIN list : seq[list[i]].state # "FINISHED"}
             n      == Cardinality(alive)
             holes  == 1 .. n \ alive
             movers == alive \ 1 .. n
             both   == alive \cap 1 .. n
             h      == Cardinality(holes)
             m      == Cardinality(movers)
             to(i)  == Nth(movers, m + 1 - RankIn(holes, i))
             from(i) == Nth(holes, h + 1 - RankIn(movers, i))
             pi(i)  == IF i \in holes THEN to(i) ELSE IF i \in movers THEN from(i) ELSE i
             P      == Partition(list)
  <1>1. Len(list) \in Nat /\ DOMAIN list = dom /\ list \in [dom -> Ids]
    BY LenProperties
  <1>2. IsFiniteSet(dom) /\ Cardinality(dom) = Len(list)
    <2>1. 1 \in Int /\ Len(list) \in Int
      BY <1>1
    <2>2. IsFiniteSet(dom)
      BY <2>1, FS_Interval
    <2>3. Cardinality(dom) = IF 1 > Len(list) THEN 0 ELSE Len(list) - 1 + 1
      BY <2>1, FS_Interval
    <2> QED BY <1>1, <2>2, <2>3
  <1>3. alive \subseteq dom /\ IsFiniteSet(alive) /\ n \in Nat /\ n <= Len(list)
    <2>1. alive \subseteq dom
      BY <1>1
    <2> QED BY <2>1, <1>2, FS_Subset, FS_CardinalityType
  <1>4. IsFiniteSet(1 .. n) /\ Cardinality(1 .. n) = n
    <2>1. 1 \in Int /\ n \in Int
      BY <1>3
    <2>2. IsFiniteSet(1 .. n)
      BY <2>1, FS_Interval
    <2>3. Cardinality(1 .. n) = IF 1 > n THEN 0 ELSE n - 1 + 1
      BY <2>1, FS_Interval
    <2> QED BY <1>3, <2>2, <2>3
  <1> DEFINE front == 1 .. n
  <1>5. /\ IsFiniteSet(holes) /\ IsFiniteSet(movers) /\ h \in Nat /\ m = h
        /\ holes \subseteq dom /\ movers \subseteq dom
    <2>1. front \subseteq dom
      <3> DEFINE l == Len(list)
      <3>1. n \in Nat /\ l \in Nat /\ n <= l
        BY <1>3, <1>1
      <3> HIDE DEF n, l
      <3>2. 1 .. n \subseteq 1 .. l
        BY <3>1
      <3> QED BY <3>2 DEF l
    <2>2. /\ holes = front \ alive /\ movers = alive \ front
          /\ both = alive \cap front /\ both = front \cap alive
          /\ IsFiniteSet(front) /\ Cardinality(front) = n
      BY <1>4
    <2> HIDE DEF front
    <2>3. h = n - Cardinality(both) /\ IsFiniteSet(holes)
      <3>1. /\ IsFiniteSet(front \ alive)
            /\ Cardinality(front \ alive) = Cardinality(front) - Cardinality(front \cap alive)
        BY <2>2, FS_Difference
      <3> QED BY <3>1, <2>2
    <2>4. m = n - Cardinality(both) /\ IsFiniteSet(movers)
      <3>1. /\ IsFiniteSet(alive \ front)
            /\ Cardinality(alive \ front) = Cardinality(alive) - Cardinality(alive \cap front)
        BY <1>3, FS_Difference
      <3> QED BY <3>1, <2>2
    <2>5. h \in Nat
      BY <2>3, FS_CardinalityType
    <2> QED BY <2>1, <2>2, <2>3, <2>4, <2>5, <1>3
  <1>6. P = [i \in DOMAIN list |-> list[pi(i)]]
    BY DEF Partition
  <1> HIDE DEF h, m
  (* The two mirrored maps are inverse to each other.                      *)
  <1>7. ASSUME NEW i \in holes
        PROVE  to(i) \in movers /\ from(to(i)) = i
    <2>1. /\ holes \in SUBSET Nat /\ movers \in SUBSET Nat
          /\ h = Cardinality(holes) /\ m = Cardinality(movers)
      BY <1>5 DEF h, m
    <2>2. RankIn(holes, i) \in 1 .. h
      BY <2>1, <1>5, RankProperties
    <2> DEFINE r == RankIn(holes, i)
               t == m + 1 - r
    <2> HIDE DEF r
    <2>3. r \in 1 .. h /\ t \in 1 .. m /\ h + 1 - t = r
      BY <2>2, <1>5 DEF r
    <2> HIDE DEF t
    <2>4. Nth(movers, t) \in movers /\ RankIn(movers, Nth(movers, t)) = t
      BY <2>1, <2>3, <1>5, NthProperties, ZenonT(40)
    <2>5. Nth(holes, r) = i
      BY <2>1, <1>5, NthProperties DEF r
    <2>6. to(i) = Nth(movers, t)
      BY DEF t, r
    <2> HIDE DEF holes, movers
    <2> QED BY <2>3, <2>4, <2>5, <2>6
  <1>8. ASSUME NEW i \in movers
        PROVE  from(i) \in holes /\ to(from(i)) = i
    <2>1. /\ holes \in SUBSET Nat /\ movers \in SUBSET Nat
          /\ h = Cardinality(holes) /\ m = Cardinality(movers)
      BY <1>5 DEF h, m
    <2>2. RankIn(movers, i) \in 1 .. m
      BY <2>1, <1>5, RankProperties
    <2> DEFINE r == RankIn(movers, i)
               t == h + 1 - r
    <2> HIDE DEF r
    <2>3. r \in 1 .. m /\ t \in 1 .. h /\ m + 1 - t = r
      BY <2>2, <1>5 DEF r
    <2> HIDE DEF t
    <2>4. Nth(holes, t) \in holes /\ RankIn(holes, Nth(holes, t)) = t
      <3>1. \A k \in 1 .. Cardinality(holes) :
               Nth(holes, k) \in holes /\ RankIn(holes, Nth(holes, k)) = k
        BY <2>1, <1>5, NthProperties
      <3> QED BY <3>1, <2>1, <2>3
    <2>5. Nth(movers, r) = i
      BY <2>1, <1>5, NthProperties DEF r
    <2>6. from(i) = Nth(holes, t)
      BY DEF t, r
    <2> HIDE DEF holes, movers
    <2> QED BY <2>3, <2>4, <2>5, <2>6
  <1>9. ASSUME NEW i \in dom
        PROVE  pi(i) \in dom /\ pi(pi(i)) = i /\ (i <= n <=> pi(i) \in alive)
    <2> HIDE DEF to, from, alive, n
    <2>1. holes \cap movers = {} /\ holes \cap alive = {} /\ movers \subseteq alive
      OBVIOUS
    <2>2. CASE i \in holes
      <3>1. to(i) \in movers /\ from(to(i)) = i
        BY <2>2, <1>7
      <3> QED BY <3>1, <2>1, <2>2, <1>5
    <2>3. CASE i \in movers
      <3>1. from(i) \in holes /\ to(from(i)) = i
        BY <2>3, <1>8
      <3>2. ~ (i <= n)
        BY <2>3, <1>3
      <3> QED BY <3>1, <3>2, <2>1, <2>3, <1>5
    <2>4. CASE i \notin holes /\ i \notin movers
      BY <2>4, <1>3
    <2> QED BY <2>2, <2>3, <2>4
  <1> HIDE DEF pi
  <1>10. P \in Seq(Ids) /\ Len(P) = Len(list) /\ DOMAIN P = dom
    <2>1. P \in [1 .. Len(list) -> Ids]
      BY <1>1, <1>6, <1>9
    <2>2. P \in Seq(Ids)
      BY <2>1, <1>1, SeqDef
    <2> QED BY <2>1, <2>2, <1>1, LenProperties
  <1>11. \A i \in dom : P[i] = list[pi(i)]
    BY <1>6, <1>1
  <1>12. IsInjective(P)
    <2> SUFFICES ASSUME NEW i \in dom, NEW j \in dom, P[i] = P[j] PROVE i = j
      BY <1>10 DEF IsInjective
    <2>1. pi(i) = pi(j)
      BY <1>1, <1>9, <1>11 DEF IsInjective
    <2> QED BY <2>1, <1>9
  <1>13. ToSet(P) = ToSet(list)
    <2>1. ASSUME NEW x \in ToSet(P) PROVE x \in ToSet(list)
      <3>1. PICK j \in dom : x = P[j]
        BY <1>10 DEF ToSet
      <3>2. pi(j) \in dom /\ x = list[pi(j)]
        BY <3>1, <1>9, <1>11
      <3> QED BY <3>2, <1>1 DEF ToSet
    <2>2. ASSUME NEW x \in ToSet(list) PROVE x \in ToSet(P)
      <3>1. PICK j \in dom : x = list[j]
        BY <1>1 DEF ToSet
      <3>2. pi(j) \in dom /\ P[pi(j)] = list[j]
        BY <3>1, <1>9, <1>11
      <3> QED BY <3>1, <3>2, <1>10 DEF ToSet
    <2> QED BY <2>1, <2>2
  <1>14. ASSUME NEW i \in dom PROVE i <= n <=> seq[P[i]].state # "FINISHED"
    <2>1. pi(i) \in dom /\ (i <= n <=> pi(i) \in alive) /\ P[i] = list[pi(i)]
      BY <1>9, <1>11
    <2>2. pi(i) \in alive <=> seq[list[pi(i)]].state # "FINISHED"
      BY <2>1, <1>1 DEF alive
    <2> HIDE DEF alive, n
    <2> QED BY <2>1, <2>2
  <1> QED BY <1>1, <1>3, <1>10, <1>12, <1>13, <1>14

(* finalize_finished splits a list into who stays and who leaves.          *)
LEMMA FinalizeSplits ==
  ASSUME NEW list \in Seq(Ids), IsInjective(list)
  PROVE  /\ Survivors(list) \in Seq(Ids) /\ IsInjective(Survivors(list))
         /\ Finished(list) \in Seq(Ids) /\ IsInjective(Finished(list))
         /\ Len(Survivors(list)) <= Len(list)
         /\ ToSet(Survivors(list)) = {id \in ToSet(list) : seq[id].state # "FINISHED"}
         /\ ToSet(Finished(list)) = {id \in ToSet(list) : seq[id].state = "FINISHED"}
  <1> DEFINE n == Cardinality({i \in DOMAIN list : seq[list[i]].state # "FINISHED"})
             P == Partition(list)
  <1>1. /\ n \in 0 .. Len(list)
        /\ P \in Seq(Ids) /\ Len(P) = Len(list) /\ IsInjective(P)
        /\ ToSet(P) = ToSet(list)
        /\ \A i \in 1 .. Len(P) : i <= n <=> seq[P[i]].state # "FINISHED"
    BY PartitionSplits
  <1>2. Survivors(list) = SubSeq(P, 1, n)
    BY DEF Survivors
  <1> HIDE DEF P, n
  <1>3. /\ SubSeq(P, 1, n) \in Seq(Ids) /\ Len(SubSeq(P, 1, n)) = n
        /\ IsInjective(SubSeq(P, 1, n))
        /\ SubSeq(P, n + 1, Len(P)) \in Seq(Ids) /\ IsInjective(SubSeq(P, n + 1, Len(P)))
        /\ ToSet(SubSeq(P, 1, n)) = {P[i] : i \in 1 .. n}
        /\ ToSet(SubSeq(P, n + 1, Len(P))) = {P[i] : i \in n + 1 .. Len(P)}
    BY <1>1, CutList
  <1>4. Finished(list) = SubSeq(P, n + 1, Len(P))
    BY <1>1, <1>2, <1>3 DEF Finished, P
  <1>5. \A x : x \in ToSet(list) <=> \E i \in 1 .. Len(P) : P[i] = x
    BY <1>1, ListMembers
  <1>6. Len(P) \in Nat /\ n \in Nat /\ n <= Len(P)
    BY <1>1
  <1> DEFINE l == Len(P)
  <1> HIDE DEF l
  <1>7. l \in Nat /\ n \in Nat /\ n <= l /\ l = Len(P)
    BY <1>6 DEF l
  <1>8. {P[i] : i \in 1 .. n} = {id \in ToSet(list) : seq[id].state # "FINISHED"}
    <2>1. ASSUME NEW i \in 1 .. n
          PROVE  P[i] \in ToSet(list) /\ seq[P[i]].state # "FINISHED"
      <3>1. i \in 1 .. l /\ i <= n
        BY <1>7
      <3> QED BY <3>1, <1>1, <1>5, <1>7
    <2>2. ASSUME NEW x \in ToSet(list), seq[x].state # "FINISHED"
          PROVE  \E i \in 1 .. n : x = P[i]
      <3>1. PICK i \in 1 .. l : P[i] = x
        BY <1>5, <1>7
      <3>2. i <= n
        BY <3>1, <2>2, <1>1, <1>7
      <3> QED BY <3>1, <3>2, <1>7
    <2> QED BY <2>1, <2>2
  <1>9. {P[i] : i \in n + 1 .. l} = {id \in ToSet(list) : seq[id].state = "FINISHED"}
    <2>1. ASSUME NEW i \in n + 1 .. l
          PROVE  P[i] \in ToSet(list) /\ seq[P[i]].state = "FINISHED"
      <3>1. i \in 1 .. l /\ ~ (i <= n)
        BY <1>7
      <3> QED BY <3>1, <1>1, <1>5, <1>7
    <2>2. ASSUME NEW x \in ToSet(list), seq[x].state = "FINISHED"
          PROVE  \E i \in n + 1 .. l : x = P[i]
      <3>1. PICK i \in 1 .. l : P[i] = x
        BY <1>5, <1>7
      <3>2. ~ (i <= n)
        BY <3>1, <2>2, <1>1, <1>7
      <3> QED BY <3>1, <3>2, <1>7
    <2> QED BY <2>1, <2>2
  <1> QED BY <1>1, <1>2, <1>3, <1>4, <1>7, <1>8, <1>9

(* When every entry is RUNNING the batch is running_, in its order.        *)
LEMMA GatheredIsRunning ==
  ASSUME running \in Seq(Ids), AllIn(running, 1, "RUNNING")
  PROVE  Gathered = running
  <1> DEFINE n  == Len(running)
             on == {i \in DOMAIN running : seq[running[i]].state = "RUNNING"}
  <1>1. n \in Nat /\ DOMAIN running = 1 .. n /\ running \in [1 .. n -> Ids]
    BY LenProperties
  <1>2. on = 1 .. n
    BY <1>1 DEF AllIn
  <1> HIDE DEF n
  <1>3. ASSUME NEW k \in 0 .. n
        PROVE  IsFiniteSet(1 .. k) /\ Cardinality(1 .. k) = k
    <2>1. 1 \in Int /\ k \in Int /\ k \in Nat
      BY <1>1
    <2>2. IsFiniteSet(1 .. k)
      BY <2>1, FS_Interval
    <2>3. Cardinality(1 .. k) = IF 1 > k THEN 0 ELSE k - 1 + 1
      BY <2>1, FS_Interval
    <2> QED BY <2>1, <2>2, <2>3
  <1>4. n \in 0 .. n
    BY <1>1
  <1> HIDE DEF on
  <1>5. Cardinality(on) = n /\ IsFiniteSet(on) /\ on \in SUBSET Nat
    <2>1. IsFiniteSet(1 .. n) /\ Cardinality(1 .. n) = n /\ 1 .. n \in SUBSET Nat
      BY <1>3, <1>4
    <2> QED BY <2>1, <1>2
  <1>6. ASSUME NEW k \in 1 .. n
        PROVE  Nth(on, k) = k
    <2>1. Nth(on, k) \in on /\ RankIn(on, Nth(on, k)) = k
      BY <1>5, NthProperties
    <2> DEFINE i == Nth(on, k)
    <2> HIDE DEF i
    <2>2. i \in 1 .. n /\ RankIn(on, i) = k
      BY <2>1, <1>2 DEF i
    <2>3. {j \in on : j <= i} = 1 .. i
      BY <2>2, <1>1, <1>2
    <2>4. i \in 0 .. n
      BY <2>2
    <2>5. RankIn(on, i) = i
      BY <2>3, <2>4, <1>3 DEF RankIn
    <2> QED BY <2>2, <2>5 DEF i
  <1>7. Gathered = [k \in 1 .. n |-> running[k]]
    <2>1. Gathered = [k \in 1 .. Cardinality(on) |-> running[Nth(on, k)]]
      BY DEF Gathered, on
    <2> QED BY <2>1, <1>5, <1>6
  <1> QED BY <1>1, <1>7

-----------------------------------------------------------------------------
(* Requests that do not fit the pool.                                      *)

(* Requests that did not fit once still do not fit when more arrive.       *)
LEMMA UnfitStays ==
  ASSUME ~ PoolFitsAny,
         \A id \in Ids : seq[id].state # "NONE" =>
                           seq'[id].state # "NONE" /\ seq'[id].req = seq[id].req
  PROVE  ~ PoolFitsAny'
  <1> DEFINE need == [id \in Ids |-> Layout!BlocksFor(WrittenAtMost(seq[id].req))]
  <1>1. PICK group \in SUBSET {id \in Ids : seq[id].state # "NONE"} :
          Cardinality(group) <= MaxConcurrent /\ ~ (Total(need, group) <= NumBlocks)
    BY DEF PoolFitsAny
  <1>2. group \in SUBSET {id \in Ids : seq'[id].state # "NONE"}
    BY <1>1
  <1>3. \A id \in group : need'[id] = need[id]
    BY <1>1
  <1>4. Total(need', group) = Total(need, group)
    BY <1>3, TotalSame
  <1> QED BY <1>1, <1>2, <1>4 DEF PoolFitsAny

(* A refused block: the sequences that hold the pool need more than it.    *)
LEMMA RefusalUnfit ==
  ASSUME BaseTypeOK, Queues, Objects, Accounted,
         prefilling \in Seq(Ids), running \in Seq(Ids),
         NEW c \in ToSet(prefilling) \cup ToSet(running),
         NEW p \in Nat, ~ CanWrite(c, p), p + 1 <= WrittenAtMost(seq[c].req)
  PROVE  ~ PoolFitsAny
  <1> DEFINE group == ToSet(prefilling) \cup ToSet(running)
  <1>1. /\ group \in SUBSET Ids /\ IsFiniteSet(group)
        /\ Cardinality(group) <= MaxConcurrent
    <2>1. /\ ToSet(prefilling) \subseteq Ids /\ IsFiniteSet(ToSet(prefilling))
          /\ Cardinality(ToSet(prefilling)) <= Len(prefilling)
          /\ ToSet(running) \subseteq Ids /\ IsFiniteSet(ToSet(running))
          /\ Cardinality(ToSet(running)) <= Len(running)
      BY ListMembers
    <2>2. /\ IsFiniteSet(group)
          /\ Cardinality(group) = Cardinality(ToSet(prefilling)) + Cardinality(ToSet(running))
                                    - Cardinality(ToSet(prefilling) \cap ToSet(running))
      BY <2>1, FS_Union
    <2>3. Cardinality(ToSet(prefilling) \cap ToSet(running)) = 0
      BY FS_EmptySet DEF Queues
    <2>4. /\ Cardinality(ToSet(prefilling)) \in Nat /\ Cardinality(ToSet(running)) \in Nat
          /\ Len(prefilling) \in Nat /\ Len(running) \in Nat /\ MaxConcurrent \in Nat
      BY <2>1, FS_CardinalityType, LenProperties, KnobAssumption
    <2>5. Len(prefilling) + Len(running) <= MaxConcurrent
      BY DEF Queues
    <2> QED BY <2>1, <2>2, <2>3, <2>4, <2>5
  <1>2. ASSUME NEW id \in Ids
        PROVE  /\ id \in group => seq[id].state \in {"PREFILLING", "RUNNING", "FINISHED"}
               /\ id \notin group => seq[id].state \in {"NONE", "WAITING", "GONE"}
    <2>1. seq[id].state \in States
      BY DEF BaseTypeOK, SeqRecords
    <2> QED BY <2>1 DEF Queues, States
  <1>3. group \in SUBSET {id \in Ids : seq[id].state # "NONE"}
    BY <1>1, <1>2
  <1>4. ~ (Total([id \in Ids |-> Layout!BlocksFor(WrittenAtMost(seq[id].req))], group)
             <= NumBlocks)
    <2>1. /\ \A id \in Ids \ group : seq[id].state \in {"NONE", "WAITING", "GONE"}
          /\ \A id \in group : seq[id].state \notin {"NONE", "GONE"}
          /\ c \in group
      BY <1>1, <1>2
    <2> HIDE DEF group
    <2> QED BY <1>1, <2>1, RefusalNeedsMore
  <1> QED BY <1>1, <1>3, <1>4 DEF PoolFitsAny

-----------------------------------------------------------------------------
(* What a step that touches one sequence leaves of the invariant.          *)

LEMMA QueuesStay ==
  ASSUME Queues, UNCHANGED << waiting, prefilling, running, nextId >>,
         \A id \in Ids : seq'[id].state = seq[id].state
  PROVE  Queues'
  BY DEF Queues

LEMMA NoNewRefusal ==
  ASSUME Refusals => ~ PoolFitsAny, Refusals' => Refusals,
         \A id \in Ids : seq[id].state # "NONE" =>
                           seq'[id].state # "NONE" /\ seq'[id].req = seq[id].req
  PROVE  Refusals' => ~ PoolFitsAny'
  BY UnfitStays

(* A write extends one cache and takes its block from the pool.            *)
LEMMA OneWritten ==
  ASSUME IInv, NEW c \in Ids, NEW p \in Nat, NEW t \in SeqRecords,
         CanWrite(c, p), seq[c].kvLen \in {p, p + 1},
         seq[c].state \in {"PREFILLING", "RUNNING"}, p + 1 <= WrittenAtMost(seq[c].req),
         seq' = [seq EXCEPT ![c] = t], freeBlocks' = FreeAfterWrite(c, p),
         t.state = seq[c].state, t.req = seq[c].req, t.gen = seq[c].gen,
         t.reason = seq[c].reason, t.kvLen = p + 1, t.held = AfterWrite(c, p).held,
         UNCHANGED lists
  PROVE  BaseTypeOK' /\ Queues' /\ Objects' /\ Accounted'
  <1>1. BaseTypeOK /\ Queues /\ Objects /\ Accounted
    BY DEF IInv, TypeOK
  <1>2. Sound(c, t)
    <2>1. Sound(c, seq[c]) /\ seq[c].held = Layout!BlocksFor(seq[c].kvLen)
      BY <1>1 DEF Objects, Sound
    <2>2. t.held = Layout!BlocksFor(p + 1)
      BY <1>1, <2>1, WriteFields
    <2> QED BY <2>1, <2>2 DEF Sound, Sampled
  <1>3. /\ BaseTypeOK' /\ Objects' /\ Accounted'
        /\ seq'[c] = t /\ \A id \in Ids \ {c} : seq'[id] = seq[id]
    BY <1>1, <1>2, OneCache DEF lists
  <1>4. Queues'
    <2>1. \A id \in Ids : seq'[id].state = seq[id].state
      BY <1>3
    <2> QED BY <1>1, <2>1, QueuesStay DEF lists
  <1> QED BY <1>3, <1>4

-----------------------------------------------------------------------------
(* Every action preserves the invariant.                                   *)

(* Steps that leave the objects, the queues and the pool alone.            *)
LEMMA ObjectsUntouched ==
  ASSUME IInv, UNCHANGED << seq, waiting, prefilling, running, nextId, freeBlocks >>,
         rows' = rows \/ rows' = << >>
  PROVE  /\ Queues' /\ Objects' /\ Accounted'
         /\ Refusals' => ~ PoolFitsAny'
  <1>1. Queues' /\ Objects'
    BY DEF IInv, Queues, Objects
  <1>2. Accounted'
    BY HeldStays DEF IInv
  <1>3. Refusals' => Refusals
    <2>1. Len(<< >>) = 0
      OBVIOUS
    <2> QED BY <2>1 DEF Refusals
  <1>4. Refusals' => ~ PoolFitsAny'
    BY <1>3, NoNewRefusal DEF IInv
  <1> QED BY <1>1, <1>2, <1>4

LEMMA InitInv == Init => IInv
  <1> SUFFICES ASSUME Init PROVE IInv
    OBVIOUS
  <1>1. /\ seq = [id \in Ids |-> NoSeq] /\ nextId = 0 /\ results = << >>
        /\ freeBlocks = NumBlocks
        /\ waiting = << >> /\ prefilling = << >> /\ running = << >>
        /\ budget \in Budgets /\ pc = "out" /\ left = 0 /\ it = 1
        /\ logits = Garbage /\ batch = << >> /\ rows = << >> /\ faults = 0
    BY DEF Init, BaseInit
  <1>2. /\ BaseTypeOK /\ Objects /\ Accounted
        /\ \A id \in Ids : seq[id].state = "NONE" /\ seq[id].reason = Unfinished
    BY InitObjects DEF Init
  <1>3. Len(<< >>) = 0 /\ ToSet(<< >>) = {} /\ IsInjective(<< >>)
    BY DEF ToSet, IsInjective
  <1>4. TypeOK
    <2>1. Garbage \in Rows /\ MaxFaults \in Nat
      BY KnobAssumption DEF Garbage, Rows
    <2> QED BY <1>1, <1>2, <2>1 DEF TypeOK
  <1>5. Queues
    <2>1. MaxConcurrent \in Nat /\ \A id \in Ids : id >= 0
      BY KnobAssumption, IdsFinite
    <2> QED BY <1>1, <1>2, <1>3, <2>1 DEF Queues
  <1>6. Phases /\ Positions /\ RowsMatch
    BY <1>1, <1>2, <1>3 DEF Phases, Positions, RowsMatch
  <1>7. ~ Refusals
    <2>1. \A id \in Ids : seq[id].reason # "capacity"
      BY <1>2, ReasonsDiffer
    <2> QED BY <1>1, <1>3, <2>1 DEF Refusals
  <1> QED BY <1>2, <1>4, <1>5, <1>6, <1>7 DEF IInv

LEMMA SetBudgetInv ==
  ASSUME IInv, NEW v \in Budgets, SetBudget(v)
  PROVE  IInv'
  <1>1. /\ budget' \in Budgets /\ pc = "out"
        /\ UNCHANGED << seq, waiting, prefilling, running, results, nextId, freeBlocks,
                        pc, left, it, logits, batch, rows, faults >>
    BY DEF SetBudget, lists
  <1>2. TypeOK'
    BY <1>1 DEF IInv, TypeOK, BaseTypeOK
  <1>3. Phases' /\ Positions' /\ RowsMatch'
    BY <1>1 DEF IInv, Phases, AllIn, Positions, PrefillPosition, RowsMatch, Open, Ready,
                LastPos, Current
  <1> QED BY <1>1, <1>2, <1>3, ObjectsUntouched DEF IInv

LEMMA ClearResultsInv ==
  ASSUME IInv, ClearResults
  PROVE  IInv'
  <1>1. /\ results' = << >>
        /\ UNCHANGED << seq, waiting, prefilling, running, nextId, freeBlocks,
                        budget, pc, left, it, logits, batch, rows, faults >>
    BY DEF ClearResults
  <1>2. TypeOK'
    BY <1>1 DEF IInv, TypeOK, BaseTypeOK
  <1>3. Phases' /\ Positions' /\ RowsMatch'
    BY <1>1 DEF IInv, Phases, AllIn, Positions, PrefillPosition, RowsMatch, Open, Ready,
                LastPos, Current
  <1> QED BY <1>1, <1>2, <1>3, ObjectsUntouched DEF IInv

LEMMA StutterInv ==
  ASSUME IInv, UNCHANGED vars
  PROVE  IInv'
  <1>1. UNCHANGED << seq, waiting, prefilling, running, results, nextId, freeBlocks,
                     budget, pc, left, it, logits, batch, rows, faults >>
    BY DEF vars, lists
  <1>2. TypeOK'
    BY <1>1 DEF IInv, TypeOK, BaseTypeOK
  <1>3. Phases' /\ Positions' /\ RowsMatch'
    BY <1>1 DEF IInv, Phases, AllIn, Positions, PrefillPosition, RowsMatch, Open, Ready,
                LastPos, Current
  <1> QED BY <1>1, <1>2, <1>3, ObjectsUntouched DEF IInv

LEMMA EnqueueInv ==
  ASSUME IInv, NEW r \in Requests, Enqueue(r)
  PROVE  IInv'
  <1> DEFINE c == nextId
  <1>1. TypeOK /\ Queues /\ Objects /\ Accounted /\ BaseTypeOK
    BY DEF IInv, TypeOK
  <1>2. /\ pc = "out" /\ c < MaxSeqs /\ Accepts(r)
        /\ seq' = [seq EXCEPT ![c] = NewSeq(r)]
        /\ waiting' = Append(waiting, c) /\ nextId' = c + 1
        /\ UNCHANGED << prefilling, running, results, freeBlocks, budget, pc, left,
                        it, logits, batch, rows, faults >>
    BY DEF Enqueue
  <1>3. c \in Ids /\ c + 1 \in 0 .. MaxSeqs /\ c \in Nat
    <2>1. c \in 0 .. MaxSeqs /\ MaxSeqs \in Nat
      BY <1>1, RequestAssumption DEF BaseTypeOK
    <2> QED BY <1>2, <2>1 DEF Ids
  <1>4. /\ NewSeq(r) \in SeqRecords
        /\ NewSeq(r).req = r /\ NewSeq(r).state = "WAITING"
        /\ NewSeq(r).kvLen = 0 /\ NewSeq(r).held = 0 /\ NewSeq(r).cursor = 0
        /\ NewSeq(r).gen = << >> /\ NewSeq(r).reason = Unfinished
    BY NewFields
  <1>5. seq[c].state = "NONE"
    <2>1. c >= c
      BY <1>3
    <2> QED BY <1>1, <1>3, <2>1 DEF Queues
  <1>6. /\ BaseTypeOK' /\ Objects' /\ Accounted'
        /\ seq'[c] = NewSeq(r) /\ \A id \in Ids \ {c} : seq'[id] = seq[id]
    BY <1>1, <1>2, <1>5, EnqueueObjects
  <1>7. /\ waiting' \in Seq(Ids) /\ IsInjective(waiting')
        /\ ToSet(waiting') = ToSet(waiting) \cup {c}
    <2>1. waiting \in Seq(Ids) /\ IsInjective(waiting) /\ c \notin ToSet(waiting)
      BY <1>1, <1>3, <1>5 DEF TypeOK, Queues
    <2> QED BY <2>1, <1>2, <1>3, AppendToList
  <1>8. TypeOK'
    BY <1>1, <1>2, <1>6, <1>7 DEF TypeOK
  <1>9. Queues'
    <2>1. ASSUME NEW id \in Ids
          PROVE  /\ id \in ToSet(waiting') <=> seq'[id].state = "WAITING"
                 /\ id \in ToSet(prefilling) => seq'[id].state \in {"PREFILLING", "FINISHED"}
                 /\ id \in ToSet(running) => seq'[id].state \in {"RUNNING", "FINISHED"}
                 /\ seq'[id].state \in {"PREFILLING", "RUNNING", "FINISHED"}
                      => id \in ToSet(prefilling) \cup ToSet(running)
                 /\ seq'[id].state = "NONE" <=> id >= c + 1
      <3>1. CASE id = c
        <4>1. c \notin ToSet(prefilling) /\ c \notin ToSet(running) /\ ~ (c >= c + 1)
          BY <1>1, <1>3, <1>5 DEF Queues
        <4> QED BY <3>1, <4>1, <1>4, <1>6, <1>7
      <3>2. CASE id # c
        <4>1. seq'[id] = seq[id] /\ (id \in ToSet(waiting') <=> id \in ToSet(waiting))
          BY <3>2, <1>6, <1>7
        <4>2. id >= c + 1 <=> id >= c
          BY <3>2, <1>3, IdsFinite
        <4> QED BY <4>1, <4>2, <1>1 DEF Queues
      <3> QED BY <3>1, <3>2
    <2> QED BY <2>1, <1>1, <1>2, <1>7 DEF Queues
  <1>10. Refusals' => ~ PoolFitsAny'
    <2>1. Refusals' => Refusals
      BY <1>2, <1>4, <1>6, ReasonsDiffer DEF Refusals
    <2>2. \A id \in Ids : seq[id].state # "NONE" =>
                            seq'[id].state # "NONE" /\ seq'[id].req = seq[id].req
      BY <1>6, <1>5
    <2> QED BY <2>1, <2>2, NoNewRefusal DEF IInv
  <1>11. Phases' /\ RowsMatch'
    BY <1>2 DEF Phases, RowsMatch, Open
  <1>12. Positions'
    <2> SUFFICES ASSUME NEW id \in Ids
                 PROVE  /\ seq'[id].state = "PREFILLING" => PrefillPosition(id)'
                        /\ seq'[id].state = "RUNNING" => Ready(seq[id], LastPos(id))'
      BY DEF Positions
    <2>1. CASE id = c
      BY <2>1, <1>4, <1>6
    <2>2. CASE id # c
      <3>1. seq'[id] = seq[id]
        BY <2>2, <1>6
      <3>2. seq[id].state = "PREFILLING" => PrefillPosition(id)
        BY DEF IInv, Positions
      <3>3. seq[id].state = "RUNNING" => Ready(seq[id], LastPos(id))
        BY <1>2 DEF IInv, Positions, Open
      <3> QED BY <3>1, <3>2, <3>3, <1>2 DEF PrefillPosition, Ready, LastPos
    <2> QED BY <2>1, <2>2
  <1> QED BY <1>6, <1>8, <1>9, <1>10, <1>11, <1>12 DEF IInv

-----------------------------------------------------------------------------
(* Retiring the finished entries of one list.                              *)

(* The objects and the pool after finished entries of the list are retired. *)
LEMMA RetireKeeps ==
  ASSUME IInv, NEW list \in Seq(Ids), Retire(list), UNCHANGED << nextId, rows >>,
         \A id \in ToSet(list) : seq[id].state = "FINISHED"
  PROVE  /\ BaseTypeOK' /\ Objects' /\ Accounted'
         /\ Refusals' => ~ PoolFitsAny'
  <1>1. BaseTypeOK /\ Queues /\ Objects /\ Accounted
    BY DEF IInv, TypeOK
  <1>2. BaseTypeOK' /\ Objects' /\ Accounted'
    BY <1>1, RetireObjects
  <1>3. \A id \in Ids : seq'[id].req = seq[id].req /\ seq'[id].reason = seq[id].reason
    BY <1>1, RetireFields
  <1>4. Refusals' => ~ PoolFitsAny'
    <2>1. Refusals' => Refusals
      BY <1>3 DEF Refusals
    <2>2. \A id \in Ids : seq[id].state # "NONE" => seq'[id].state # "NONE"
      BY <1>1, RetireFields
    <2> QED BY <2>1, <2>2, <1>3, NoNewRefusal DEF IInv
  <1> QED BY <1>2, <1>4

LEMMA BeginStepInv ==
  ASSUME IInv, BeginStep
  PROVE  IInv'
  <1> DEFINE gone == Finished(prefilling)
             stay == Survivors(prefilling)
  <1>1. TypeOK /\ Queues /\ Objects /\ Accounted /\ BaseTypeOK
    BY DEF IInv, TypeOK
  <1>2. /\ pc = "out" /\ pc' = "finalizeRunning" /\ Retire(gone) /\ prefilling' = stay
        /\ UNCHANGED << nextId, waiting, running, budget, left, it, logits, batch, rows,
                        faults >>
    BY DEF BeginStep
  <1>3. /\ stay \in Seq(Ids) /\ IsInjective(stay) /\ gone \in Seq(Ids)
        /\ Len(stay) <= Len(prefilling)
        /\ ToSet(stay) = {id \in ToSet(prefilling) : seq[id].state # "FINISHED"}
        /\ ToSet(gone) = {id \in ToSet(prefilling) : seq[id].state = "FINISHED"}
    BY <1>1, FinalizeSplits DEF TypeOK, Queues
  <1> HIDE DEF gone, stay
  <1>4. /\ BaseTypeOK' /\ Objects' /\ Accounted'
        /\ Refusals' => ~ PoolFitsAny'
    BY <1>2, <1>3, RetireKeeps
  <1>5. ASSUME NEW id \in Ids
        PROVE  /\ id \in ToSet(gone) => seq[id].state = "FINISHED" /\ seq'[id].state = "GONE"
               /\ id \notin ToSet(gone) => seq'[id] = seq[id]
    BY <1>1, <1>2, <1>3, RetireFields
  <1>6. TypeOK'
    BY <1>1, <1>2, <1>3, <1>4 DEF TypeOK
  <1>7. Queues'
    <2>1. ASSUME NEW id \in Ids
          PROVE  /\ id \in ToSet(waiting) <=> seq'[id].state = "WAITING"
                 /\ id \in ToSet(stay) => seq'[id].state \in {"PREFILLING", "FINISHED"}
                 /\ id \in ToSet(running) => seq'[id].state \in {"RUNNING", "FINISHED"}
                 /\ seq'[id].state \in {"PREFILLING", "RUNNING", "FINISHED"}
                      => id \in ToSet(stay) \cup ToSet(running)
                 /\ seq'[id].state = "NONE" <=> id >= nextId
      <3>1. CASE id \in ToSet(gone)
        <4>1. id \in ToSet(prefilling) /\ id \notin ToSet(running) /\ id \notin ToSet(stay)
          BY <1>1, <1>3, <3>1 DEF Queues
        <4> QED BY <3>1, <4>1, <1>1, <1>5 DEF Queues
      <3>2. CASE id \notin ToSet(gone)
        <4>1. id \in ToSet(prefilling) <=> id \in ToSet(stay)
          BY <1>3, <3>2
        <4> QED BY <3>2, <4>1, <1>1, <1>5 DEF Queues
      <3> QED BY <3>1, <3>2
    <2>2. Len(stay) + Len(running) <= MaxConcurrent
      <3>1. /\ Len(stay) \in Nat /\ Len(running) \in Nat /\ Len(prefilling) \in Nat
            /\ MaxConcurrent \in Nat /\ Len(prefilling) + Len(running) <= MaxConcurrent
        BY <1>1, <1>3, LenProperties, KnobAssumption DEF TypeOK, Queues
      <3> QED BY <3>1, <1>3
    <2>3. ToSet(stay) \cap ToSet(running) = {}
      BY <1>1, <1>3 DEF Queues
    <2> QED BY <2>1, <2>2, <2>3, <1>1, <1>2, <1>3 DEF Queues
  <1>8. Phases'
    <2>1. ASSUME NEW i \in 1 .. Len(stay) PROVE seq'[stay[i]].state = "PREFILLING"
      <3>1. stay[i] \in ToSet(stay) /\ stay[i] \in Ids
        BY <1>3, ListMembers
      <3>2. stay[i] \notin ToSet(gone) /\ stay[i] \in ToSet(prefilling)
            /\ seq[stay[i]].state # "FINISHED"
        BY <3>1, <1>3
      <3>3. seq[stay[i]].state \in {"PREFILLING", "FINISHED"}
        BY <3>1, <3>2, <1>1 DEF Queues
      <3> QED BY <3>1, <3>2, <3>3, <1>5
    <2> QED BY <2>1, <1>2 DEF Phases, AllIn
  <1>9. RowsMatch'
    BY <1>2 DEF RowsMatch, Open
  <1>10. Positions'
    <2> SUFFICES ASSUME NEW id \in Ids
                 PROVE  /\ seq'[id].state = "PREFILLING" => PrefillPosition(id)'
                        /\ seq'[id].state = "RUNNING" => Ready(seq[id], LastPos(id))'
      BY DEF Positions
    <2>1. CASE id \in ToSet(gone)
      BY <2>1, <1>5
    <2>2. CASE id \notin ToSet(gone)
      <3>1. seq'[id] = seq[id]
        BY <2>2, <1>5
      <3>2. seq[id].state = "PREFILLING" =>
              /\ seq[id].cursor < seq[id].req.prompt
              /\ Ready(seq[id], seq[id].cursor)
        BY <1>2 DEF IInv, Positions, PrefillPosition
      <3>3. seq[id].state = "RUNNING" => Ready(seq[id], LastPos(id))
        BY <1>2 DEF IInv, Positions, Open
      <3> QED BY <3>1, <3>2, <3>3, <1>2 DEF PrefillPosition, Ready, LastPos
    <2> QED BY <2>1, <2>2
  <1> QED BY <1>4, <1>6, <1>7, <1>8, <1>9, <1>10 DEF IInv

LEMMA FinalizeRunningInv ==
  ASSUME IInv, FinalizeRunning
  PROVE  IInv'
  <1> DEFINE gone == Finished(running)
             stay == Survivors(running)
  <1>1. TypeOK /\ Queues /\ Objects /\ Accounted /\ BaseTypeOK
    BY DEF IInv, TypeOK
  <1>2. /\ pc = "finalizeRunning" /\ pc' = "admit" /\ Retire(gone) /\ running' = stay
        /\ UNCHANGED << nextId, waiting, prefilling, budget, left, it, logits, batch, rows,
                        faults >>
    BY DEF FinalizeRunning
  <1>3. /\ stay \in Seq(Ids) /\ IsInjective(stay) /\ gone \in Seq(Ids)
        /\ Len(stay) <= Len(running)
        /\ ToSet(stay) = {id \in ToSet(running) : seq[id].state # "FINISHED"}
        /\ ToSet(gone) = {id \in ToSet(running) : seq[id].state = "FINISHED"}
    BY <1>1, FinalizeSplits DEF TypeOK, Queues
  <1> HIDE DEF gone, stay
  <1>4. /\ BaseTypeOK' /\ Objects' /\ Accounted'
        /\ Refusals' => ~ PoolFitsAny'
    BY <1>2, <1>3, RetireKeeps
  <1>5. ASSUME NEW id \in Ids
        PROVE  /\ id \in ToSet(gone) => seq[id].state = "FINISHED" /\ seq'[id].state = "GONE"
               /\ id \notin ToSet(gone) => seq'[id] = seq[id]
    BY <1>1, <1>2, <1>3, RetireFields
  <1>6. TypeOK'
    BY <1>1, <1>2, <1>3, <1>4 DEF TypeOK
  <1>7. Queues'
    <2>1. ASSUME NEW id \in Ids
          PROVE  /\ id \in ToSet(waiting) <=> seq'[id].state = "WAITING"
                 /\ id \in ToSet(prefilling) => seq'[id].state \in {"PREFILLING", "FINISHED"}
                 /\ id \in ToSet(stay) => seq'[id].state \in {"RUNNING", "FINISHED"}
                 /\ seq'[id].state \in {"PREFILLING", "RUNNING", "FINISHED"}
                      => id \in ToSet(prefilling) \cup ToSet(stay)
                 /\ seq'[id].state = "NONE" <=> id >= nextId
      <3>1. CASE id \in ToSet(gone)
        <4>1. id \in ToSet(running) /\ id \notin ToSet(prefilling) /\ id \notin ToSet(stay)
          BY <1>1, <1>3, <3>1 DEF Queues
        <4> QED BY <3>1, <4>1, <1>1, <1>5 DEF Queues
      <3>2. CASE id \notin ToSet(gone)
        <4>1. id \in ToSet(running) <=> id \in ToSet(stay)
          BY <1>3, <3>2
        <4> QED BY <3>2, <4>1, <1>1, <1>5 DEF Queues
      <3> QED BY <3>1, <3>2
    <2>2. Len(prefilling) + Len(stay) <= MaxConcurrent
      <3>1. /\ Len(stay) \in Nat /\ Len(running) \in Nat /\ Len(prefilling) \in Nat
            /\ MaxConcurrent \in Nat /\ Len(prefilling) + Len(running) <= MaxConcurrent
        BY <1>1, <1>3, LenProperties, KnobAssumption DEF TypeOK, Queues
      <3> QED BY <3>1, <1>3
    <2>3. ToSet(prefilling) \cap ToSet(stay) = {}
      BY <1>1, <1>3 DEF Queues
    <2> QED BY <2>1, <2>2, <2>3, <1>1, <1>2, <1>3 DEF Queues
  <1>8. Phases'
    <2>1. ASSUME NEW i \in 1 .. Len(stay) PROVE seq'[stay[i]].state = "RUNNING"
      <3>1. stay[i] \in ToSet(stay) /\ stay[i] \in Ids
        BY <1>3, ListMembers
      <3>2. stay[i] \notin ToSet(gone) /\ stay[i] \in ToSet(running)
            /\ seq[stay[i]].state # "FINISHED"
        BY <3>1, <1>3
      <3>3. seq[stay[i]].state \in {"RUNNING", "FINISHED"}
        BY <3>1, <3>2, <1>1 DEF Queues
      <3> QED BY <3>1, <3>2, <3>3, <1>5
    <2>2. ASSUME NEW i \in 1 .. Len(prefilling)
          PROVE  seq'[prefilling[i]].state = "PREFILLING"
      <3>1. seq[prefilling[i]].state = "PREFILLING"
        BY <1>2 DEF IInv, Phases, AllIn
      <3>2. prefilling[i] \in Ids
        BY <1>1, ListMembers DEF TypeOK
      <3> QED BY <3>1, <3>2, <1>5
    <2> QED BY <2>1, <2>2, <1>2 DEF Phases, AllIn
  <1>9. RowsMatch'
    BY <1>2 DEF RowsMatch, Open
  <1>10. Positions'
    <2> SUFFICES ASSUME NEW id \in Ids
                 PROVE  /\ seq'[id].state = "PREFILLING" => PrefillPosition(id)'
                        /\ seq'[id].state = "RUNNING" => Ready(seq[id], LastPos(id))'
      BY DEF Positions
    <2>1. CASE id \in ToSet(gone)
      BY <2>1, <1>5
    <2>2. CASE id \notin ToSet(gone)
      <3>1. seq'[id] = seq[id]
        BY <2>2, <1>5
      <3>2. seq[id].state = "PREFILLING" =>
              /\ seq[id].cursor < seq[id].req.prompt
              /\ Ready(seq[id], seq[id].cursor)
        BY <1>2 DEF IInv, Positions, PrefillPosition
      <3>3. seq[id].state = "RUNNING" => Ready(seq[id], LastPos(id))
        BY <1>2 DEF IInv, Positions, Open
      <3> QED BY <3>1, <3>2, <3>3, <1>2 DEF PrefillPosition, Ready, LastPos
    <2> QED BY <2>1, <2>2
  <1> QED BY <1>4, <1>6, <1>7, <1>8, <1>9, <1>10 DEF IInv

LEMMA AdmitInv ==
  ASSUME IInv, Admit
  PROVE  IInv'
  <1> DEFINE n == IF Room < Len(waiting) THEN Room ELSE Len(waiting)
             new == SubSeq(waiting, 1, n)
             rest == SubSeq(waiting, n + 1, Len(waiting))
             joined == prefilling \o new
  <1>1. TypeOK /\ Queues /\ Objects /\ Accounted /\ BaseTypeOK
    BY DEF IInv, TypeOK
  <1>2. /\ pc = "admit" /\ pc' = "prefill" /\ left' = budget /\ it' = 1 /\ logits' = Garbage
        /\ seq' = [id \in Ids |-> IF id \in ToSet(new)
                                    THEN [seq[id] EXCEPT !.state = "PREFILLING"]
                                    ELSE seq[id]]
        /\ waiting' = rest /\ prefilling' = joined
        /\ UNCHANGED << nextId, running, results, freeBlocks, budget, batch, rows, faults >>
    BY DEF Admit
  <1>3. /\ waiting \in Seq(Ids) /\ IsInjective(waiting) /\ Len(waiting) \in Nat
        /\ prefilling \in Seq(Ids) /\ IsInjective(prefilling) /\ Len(prefilling) \in Nat
        /\ running \in Seq(Ids) /\ Len(running) \in Nat
        /\ MaxConcurrent \in Nat /\ Len(prefilling) + Len(running) <= MaxConcurrent
    BY <1>1, LenProperties, KnobAssumption DEF TypeOK, Queues
  <1>4. n \in 0 .. Len(waiting) /\ n <= MaxConcurrent - (Len(running) + Len(prefilling))
    BY <1>3 DEF Room
  <1> HIDE DEF n
  <1>5. /\ new \in Seq(Ids) /\ Len(new) = n /\ IsInjective(new)
        /\ rest \in Seq(Ids) /\ IsInjective(rest)
        /\ ToSet(new) = {waiting[i] : i \in 1 .. n}
        /\ ToSet(rest) = {waiting[i] : i \in n + 1 .. Len(waiting)}
    <2>1. n \in 0 .. Len(waiting)
      BY <1>4
    <2>2. waiting \in Seq(Ids) /\ IsInjective(waiting)
      BY <1>3
    <2> HIDE DEF new, rest, joined
    <2>3. LET front == SubSeq(waiting, 1, n)
              back  == SubSeq(waiting, n + 1, Len(waiting))
          IN  /\ front \in Seq(Ids) /\ Len(front) = n /\ IsInjective(front)
              /\ back \in Seq(Ids) /\ Len(back) = Len(waiting) - n /\ IsInjective(back)
              /\ \A i \in 1 .. n : front[i] = waiting[i]
              /\ \A i \in 1 .. Len(waiting) - n : back[i] = waiting[n + i]
              /\ ToSet(front) = {waiting[i] : i \in 1 .. n}
              /\ ToSet(back) = {waiting[i] : i \in n + 1 .. Len(waiting)}
      BY <2>1, <2>2, CutList, SMTT(30)
    <2> QED BY <2>3, Zenon DEF new, rest
  <1>6. /\ ToSet(new) \cap ToSet(rest) = {} /\ ToSet(new) \cup ToSet(rest) = ToSet(waiting)
    <2>1. DOMAIN waiting = 1 .. Len(waiting)
      BY <1>3, LenProperties
    <2> DEFINE l == Len(waiting)
    <2> HIDE DEF l
    <2>2. l \in Nat /\ n \in 0 .. l /\ DOMAIN waiting = 1 .. l
      BY <1>3, <1>4, <2>1 DEF l
    <2>3. /\ ToSet(new) = {waiting[i] : i \in 1 .. n}
          /\ ToSet(rest) = {waiting[i] : i \in n + 1 .. l}
          /\ ToSet(waiting) = {waiting[i] : i \in 1 .. l}
      BY <1>5, <2>2 DEF ToSet, l
    <2>4. ASSUME NEW i \in 1 .. n, NEW j \in n + 1 .. l PROVE waiting[i] # waiting[j]
      <3>1. i \in 1 .. l /\ j \in 1 .. l /\ i # j
        BY <2>2
      <3> QED BY <3>1, <2>2, <1>3 DEF IsInjective
    <2>5. 1 .. l = 1 .. n \cup (n + 1) .. l
      BY <2>2
    <2> QED BY <2>3, <2>4, <2>5
  <1> HIDE DEF new, rest
  <1>7. \A id \in ToSet(new) : id \in Ids /\ seq[id].state = "WAITING"
    <2>1. ToSet(new) \subseteq Ids
      BY <1>5, ListMembers
    <2> QED BY <2>1, <1>1, <1>6 DEF Queues
  <1>8. /\ joined \in Seq(Ids) /\ Len(joined) = Len(prefilling) + n /\ IsInjective(joined)
        /\ ToSet(joined) = ToSet(prefilling) \cup ToSet(new)
    <2>1. ToSet(prefilling) \cap ToSet(new) = {}
      BY <1>1, <1>7 DEF Queues
    <2>2. /\ prefilling \in Seq(Ids) /\ IsInjective(prefilling)
          /\ new \in Seq(Ids) /\ IsInjective(new) /\ Len(new) = n
      BY <1>3, <1>5
    <2> QED BY <2>1, <2>2, ConcatLists
  <1> HIDE DEF joined
  <1>9. ASSUME NEW id \in Ids
        PROVE  /\ seq'[id] \in SeqRecords
               /\ id \notin ToSet(new) => seq'[id] = seq[id]
               /\ id \in ToSet(new) => /\ seq'[id].state = "PREFILLING"
                                       /\ seq'[id].held = seq[id].held
                                       /\ seq'[id].req = seq[id].req /\ seq'[id].gen = seq[id].gen
                                       /\ seq'[id].reason = seq[id].reason
                                       /\ seq'[id].kvLen = seq[id].kvLen
                                       /\ seq'[id].cursor = seq[id].cursor
    <2> DEFINE s == seq[id]
               t == [s EXCEPT !.state = "PREFILLING"]
    <2> HIDE DEF s
    <2>1. s \in SeqRecords
      BY <1>1, SeqFields DEF s
    <2>2. t \in SeqRecords
      BY <2>1 DEF SeqRecords, States
    <2>3. /\ t.state = "PREFILLING" /\ t.held = s.held /\ t.req = s.req /\ t.gen = s.gen
          /\ t.reason = s.reason /\ t.kvLen = s.kvLen /\ t.cursor = s.cursor
      BY <2>1 DEF SeqRecords
    <2>4. seq'[id] = IF id \in ToSet(new) THEN t ELSE s
      BY <1>2 DEF s
    <2> HIDE DEF t
    <2> QED BY <2>1, <2>2, <2>3, <2>4 DEF s
  <1>10. TypeOK'
    <2>1. seq' \in [Ids -> SeqRecords]
      BY <1>2, <1>9
    <2>2. budget \in Nat /\ Garbage \in Rows
      BY <1>1, KnobAssumption DEF TypeOK, Garbage, Rows
    <2>3. BaseTypeOK'
      BY <1>1, <1>2, <2>1 DEF BaseTypeOK
    <2>4. waiting' \in Seq(Ids) /\ prefilling' \in Seq(Ids) /\ running' \in Seq(Ids)
      BY <1>2, <1>3, <1>5, <1>8
    <2> QED BY <1>1, <1>2, <2>2, <2>3, <2>4 DEF TypeOK
  <1>11. Queues'
    <2>1. ASSUME NEW id \in Ids
          PROVE  /\ id \in ToSet(rest) <=> seq'[id].state = "WAITING"
                 /\ id \in ToSet(joined) => seq'[id].state \in {"PREFILLING", "FINISHED"}
                 /\ id \in ToSet(running) => seq'[id].state \in {"RUNNING", "FINISHED"}
                 /\ seq'[id].state \in {"PREFILLING", "RUNNING", "FINISHED"}
                      => id \in ToSet(joined) \cup ToSet(running)
                 /\ seq'[id].state = "NONE" <=> id >= nextId
      <3>1. CASE id \in ToSet(new)
        <4>1. id \notin ToSet(rest) /\ id \in ToSet(joined) /\ seq[id].state = "WAITING"
          BY <1>6, <1>7, <1>8, <3>1
        <4>2. id \notin ToSet(running) /\ ~ (id >= nextId)
          BY <4>1, <1>1 DEF Queues
        <4> QED BY <3>1, <4>1, <4>2, <1>9
      <3>2. CASE id \notin ToSet(new)
        <4>1. /\ id \in ToSet(waiting) <=> id \in ToSet(rest)
              /\ id \in ToSet(prefilling) <=> id \in ToSet(joined)
          BY <1>6, <1>8, <3>2
        <4> QED BY <3>2, <4>1, <1>1, <1>9 DEF Queues
      <3> QED BY <3>1, <3>2
    <2>2. Len(joined) + Len(running) <= MaxConcurrent
      BY <1>3, <1>4, <1>8
    <2>3. ToSet(joined) \cap ToSet(running) = {}
      <3>1. \A id \in ToSet(new) : id \notin ToSet(running)
        BY <1>1, <1>7 DEF Queues
      <3> QED BY <3>1, <1>1, <1>8 DEF Queues
    <2> QED BY <2>1, <2>2, <2>3, <1>1, <1>2, <1>5, <1>8 DEF Queues
  <1>12. Phases'
    <2>1. ASSUME NEW i \in 1 .. Len(joined) PROVE seq'[joined[i]].state = "PREFILLING"
      <3>1. joined[i] \in ToSet(joined) /\ joined[i] \in Ids
        BY <1>8, ListMembers
      <3>2. CASE joined[i] \in ToSet(new)
        BY <3>1, <3>2, <1>9
      <3>3. CASE joined[i] \notin ToSet(new)
        <4>1. joined[i] \in ToSet(prefilling)
          BY <3>1, <3>3, <1>8
        <4>2. PICK k \in 1 .. Len(prefilling) : prefilling[k] = joined[i]
          BY <4>1, <1>3, ListMembers
        <4>3. seq[joined[i]].state = "PREFILLING"
          BY <4>2, <1>2 DEF IInv, Phases, AllIn
        <4> QED BY <3>1, <3>3, <4>3, <1>9
      <3> QED BY <3>2, <3>3
    <2>2. ASSUME NEW i \in 1 .. Len(running) PROVE seq'[running[i]].state = "RUNNING"
      <3>1. running[i] \in Ids /\ seq[running[i]].state = "RUNNING"
        BY <1>2, <1>3, ListMembers DEF IInv, Phases, AllIn
      <3> QED BY <3>1, <1>7, <1>9
    <2> QED BY <2>1, <2>2, <1>2 DEF Phases, AllIn
  <1>13. Objects'
    <2> SUFFICES ASSUME NEW id \in Ids PROVE Sound(id, seq'[id])
      BY DEF Objects
    <2>1. Sound(id, seq[id])
      BY <1>1 DEF Objects
    <2>2. CASE id \in ToSet(new)
      BY <1>7, <1>9, <2>1, <2>2 DEF Sound, Sampled
    <2>3. CASE id \notin ToSet(new)
      BY <1>9, <2>1, <2>3
    <2> QED BY <2>2, <2>3
  <1>14. Accounted'
    <2>1. \A id \in Ids : seq'[id].held = seq[id].held
      BY <1>9
    <2> QED BY <2>1, <1>1, <1>2, HeldStays
  <1>15. Refusals' => ~ PoolFitsAny'
    <2>1. \A id \in Ids : seq'[id].req = seq[id].req /\ seq'[id].reason = seq[id].reason
      BY <1>9
    <2>2. Refusals' => Refusals
      BY <2>1, <1>2 DEF Refusals
    <2>3. \A id \in Ids : seq[id].state # "NONE" => seq'[id].state # "NONE"
      BY <1>9
    <2> QED BY <2>1, <2>2, <2>3, NoNewRefusal DEF IInv
  <1>16. RowsMatch'
    BY <1>2 DEF RowsMatch, Open
  <1>17. Positions'
    <2> SUFFICES ASSUME NEW id \in Ids
                 PROVE  /\ seq'[id].state = "PREFILLING" => PrefillPosition(id)'
                        /\ seq'[id].state = "RUNNING" => Ready(seq[id], LastPos(id))'
      BY DEF Positions
    <2>1. CASE id \in ToSet(new)
      <3>1. /\ seq[id].cursor = 0 /\ seq[id].kvLen = 0 /\ 0 < seq[id].req.prompt
        <4>1. seq[id].state = "WAITING"
          BY <2>1, <1>7
        <4>2. seq[id].req.prompt > 0 /\ seq[id].req.prompt \in Nat
          BY <4>1, <1>1, LiveFields, SeqFields
        <4> QED BY <4>1, <4>2, <1>1 DEF Objects, Sound
      <3> QED BY <3>1, <2>1, <1>9 DEF PrefillPosition, Ready
    <2>2. CASE id \notin ToSet(new)
      <3>1. seq'[id] = seq[id]
        BY <2>2, <1>9
      <3>2. seq[id].state = "PREFILLING" =>
              /\ seq[id].cursor < seq[id].req.prompt
              /\ Ready(seq[id], seq[id].cursor)
        BY <1>2 DEF IInv, Positions, PrefillPosition
      <3>3. seq[id].state = "RUNNING" => Ready(seq[id], LastPos(id))
        BY <1>2 DEF IInv, Positions, Open
      <3> QED BY <3>1, <3>2, <3>3, <1>2 DEF PrefillPosition, Ready, LastPos
    <2> QED BY <2>1, <2>2
  <1> QED BY <1>10, <1>11, <1>12, <1>13, <1>14, <1>15, <1>16, <1>17 DEF IInv

-----------------------------------------------------------------------------
(* advance_prefilling()                                                    *)

(* The sequence the loop is at, and where the others stand.                *)
LEMMA AtCurrent ==
  ASSUME IInv, pc = "prefill", it <= Len(prefilling)
  PROVE  /\ it \in 1 .. Len(prefilling) /\ Current = prefilling[it]
         /\ Current \in Ids /\ Current \in ToSet(prefilling)
         /\ seq[Current].state = "PREFILLING" /\ seq[Current].gen = << >>
         /\ seq[Current].reason = Unfinished
         /\ seq[Current].held = Layout!BlocksFor(seq[Current].kvLen)
         /\ PrefillPosition(Current)
         /\ \A i \in 1 .. Len(prefilling) : prefilling[i] = Current => i = it
  <1>1. /\ prefilling \in Seq(Ids) /\ it \in Nat \ {0} /\ IsInjective(prefilling)
        /\ AllIn(prefilling, it, "PREFILLING") /\ Objects
    BY DEF IInv, TypeOK, Queues, Phases
  <1>2. it \in 1 .. Len(prefilling) /\ DOMAIN prefilling = 1 .. Len(prefilling)
    BY <1>1, LenProperties
  <1>3. Current = prefilling[it]
    BY DEF Current
  <1>4. Current \in Ids /\ Current \in ToSet(prefilling)
    BY <1>1, <1>2, <1>3, ListMembers
  <1>5. seq[Current].state = "PREFILLING"
    <2>1. it \in it .. Len(prefilling)
      BY <1>1, <1>2
    <2> QED BY <1>1, <1>3, <2>1 DEF AllIn
  <1>6. /\ seq[Current].gen = << >> /\ seq[Current].reason = Unfinished
        /\ seq[Current].held = Layout!BlocksFor(seq[Current].kvLen)
    BY <1>1, <1>4, <1>5 DEF Objects, Sound
  <1>7. PrefillPosition(Current)
    BY <1>4, <1>5 DEF IInv, Positions
  <1>8. \A i \in 1 .. Len(prefilling) : prefilling[i] = Current => i = it
    BY <1>1, <1>2, <1>3 DEF IsInjective
  <1> QED BY <1>2, <1>3, <1>4, <1>5, <1>6, <1>7, <1>8

LEMMA OffCurrent ==
  ASSUME IInv, pc = "prefill", NEW id \in Ids,
         it <= Len(prefilling) => id # Current \/ seq[id].cursor < seq[id].req.prompt
  PROVE  /\ seq[id].state = "PREFILLING" =>
              seq[id].cursor < seq[id].req.prompt /\ Ready(seq[id], seq[id].cursor)
         /\ seq[id].state = "RUNNING" => Ready(seq[id], LastPos(id))
  <1>1. seq[id].cursor \in Nat /\ seq[id].req.prompt \in Nat
    BY SeqFields DEF IInv, TypeOK
  <1>2. seq[id].state = "PREFILLING" => PrefillPosition(id)
    BY DEF IInv, Positions
  <1>3. seq[id].state = "RUNNING" => Ready(seq[id], LastPos(id))
    BY DEF IInv, Positions, Open
  <1> QED BY <1>1, <1>2, <1>3 DEF PrefillPosition

(* What every step of the loop leaves: no row is open.                     *)
LEMMA NoOpenRows ==
  ASSUME pc' \notin {"decode", "sample"}
  PROVE  RowsMatch'
  BY DEF RowsMatch, Open

LEMMA PrefillTokenInv ==
  ASSUME IInv, PrefillToken
  PROVE  IInv'
  <1> DEFINE c == Current
             p == seq[c].cursor
             t == AfterChunkToken(c)
  <1>1. /\ pc = "prefill" /\ it <= Len(prefilling) /\ p < seq[c].req.prompt
        /\ left > 0 /\ CanWrite(c, p)
        /\ seq' = [seq EXCEPT ![c] = t] /\ freeBlocks' = FreeAfterWrite(c, p)
        /\ logits' = IF LastPromptToken(c) THEN LogitsAt(c, p) ELSE logits
        /\ left' = left - 1
        /\ UNCHANGED << lists, budget, pc, it, batch, rows, faults >>
    BY DEF PrefillToken, InPrompt
  <1>2. TypeOK /\ Queues /\ Phases /\ Objects /\ Accounted /\ BaseTypeOK
    BY DEF IInv, TypeOK
  <1>3. /\ c \in Ids /\ seq[c].state = "PREFILLING" /\ seq[c].gen = << >>
        /\ seq[c].held = Layout!BlocksFor(seq[c].kvLen) /\ PrefillPosition(c)
    BY <1>1, AtCurrent
  <1>4. /\ seq[c] \in SeqRecords /\ p \in Nat /\ seq[c].req.prompt \in Nat
        /\ seq[c].kvLen \in Nat /\ seq[c].req.prompt <= WrittenAtMost(seq[c].req)
        /\ WrittenAtMost(seq[c].req) \in Nat
    BY <1>2, <1>3, SeqFields, LiveFields
  <1>5. seq[c].kvLen \in {p, p + 1} /\ p + 1 <= WrittenAtMost(seq[c].req) /\ p + 1 \in Nat
    <2>1. Ready(seq[c], p)
      BY <1>1, <1>3, <1>4 DEF PrefillPosition
    <2> QED BY <2>1, <1>1, <1>4 DEF Ready
  <1>6. /\ AfterWrite(c, p) \in SeqRecords
        /\ AfterWrite(c, p).kvLen = p + 1
        /\ AfterWrite(c, p).state = seq[c].state /\ AfterWrite(c, p).req = seq[c].req
        /\ AfterWrite(c, p).gen = seq[c].gen /\ AfterWrite(c, p).reason = seq[c].reason
        /\ AfterWrite(c, p).cursor = seq[c].cursor
        /\ LogitsAt(c, p) = Tag(c, p + 1)
    BY <1>2, <1>3, <1>4, <1>5, WriteFields
  <1>7. /\ t \in SeqRecords /\ t.cursor = p + 1 /\ t.kvLen = p + 1
        /\ t.state = seq[c].state /\ t.req = seq[c].req /\ t.gen = seq[c].gen
        /\ t.reason = seq[c].reason /\ t.held = AfterWrite(c, p).held
    <2> DEFINE w == AfterWrite(c, p)
    <2> HIDE DEF w
    <2>1. w \in SeqRecords /\ w.cursor = p /\ w.kvLen = p + 1
          /\ w.state = seq[c].state /\ w.req = seq[c].req /\ w.gen = seq[c].gen
          /\ w.reason = seq[c].reason
      BY <1>6 DEF w
    <2>2. t = [w EXCEPT !.cursor = @ + 1]
      BY DEF AfterChunkToken, w
    <2>3. /\ t \in SeqRecords /\ t.cursor = w.cursor + 1 /\ t.kvLen = w.kvLen
          /\ t.state = w.state /\ t.req = w.req /\ t.gen = w.gen
          /\ t.reason = w.reason /\ t.held = w.held
      BY <2>1, <2>2, <1>5 DEF SeqRecords
    <2> QED BY <2>1, <2>3 DEF w
  <1> HIDE DEF t
  <1>8. BaseTypeOK' /\ Queues' /\ Objects' /\ Accounted'
    <2>1. UNCHANGED lists
      BY <1>1
    <2> HIDE DEF c, p
    <2> QED BY <1>1, <1>3, <1>4, <1>5, <1>7, <2>1, OneWritten
  <1>9. seq'[c] = t /\ \A id \in Ids \ {c} : seq'[id] = seq[id]
    BY <1>1, <1>2, <1>3 DEF BaseTypeOK
  <1>10. TypeOK'
    <2>1. logits' \in Rows
      BY <1>1, <1>2, <1>3, <1>5, <1>6, TagIsRow DEF TypeOK
    <2>2. left' \in Nat
      BY <1>1, <1>2 DEF TypeOK
    <2> QED BY <2>1, <2>2, <1>1, <1>2, <1>8 DEF TypeOK, lists
  <1>11. Phases'
    <2>1. \A id \in Ids : seq'[id].state = seq[id].state
      BY <1>3, <1>7, <1>9
    <2>2. /\ prefilling' = prefilling /\ running' = running /\ it' = it /\ pc' = "prefill"
          /\ AllIn(prefilling, it, "PREFILLING") /\ AllIn(running, 1, "RUNNING")
          /\ it \in Nat \ {0}
      BY <1>1, <1>2 DEF lists, Phases, TypeOK
    <2>3. /\ \A i \in it .. Len(prefilling) : prefilling[i] \in Ids
          /\ \A i \in 1 .. Len(running) : running[i] \in Ids
      <3>1. it .. Len(prefilling) \subseteq 1 .. Len(prefilling)
        BY <2>2
      <3> QED BY <3>1, <1>2, ListMembers DEF TypeOK
    <2> QED BY <2>1, <2>2, <2>3 DEF Phases, AllIn
  <1>12. Positions'
    <2> SUFFICES ASSUME NEW id \in Ids
                 PROVE  /\ seq'[id].state = "PREFILLING" => PrefillPosition(id)'
                        /\ seq'[id].state = "RUNNING" => Ready(seq[id], LastPos(id))'
      BY DEF Positions
    <2>1. CASE id = c
      <3>1. CASE p + 1 < seq[c].req.prompt
        BY <3>1, <2>1, <1>3, <1>7, <1>9 DEF PrefillPosition, Ready
      <3>2. CASE ~ (p + 1 < seq[c].req.prompt)
        <4>1. p + 1 = seq[c].req.prompt
          BY <3>2, <1>1, <1>4
        <4>2. logits' = Tag(c, p + 1)
          BY <4>1, <1>1, <1>6 DEF LastPromptToken
        <4>3. Current' = c /\ pc' = "prefill" /\ it' <= Len(prefilling')
          BY <1>1 DEF lists, Current
        <4>4. PrefillPosition(id)'
          BY <2>1, <4>1, <4>2, <4>3, <1>7, <1>9 DEF PrefillPosition
        <4> QED BY <4>4, <2>1, <1>3, <1>7, <1>9
      <3> QED BY <3>1, <3>2
    <2>2. CASE id # c
      <3>1. seq'[id] = seq[id] /\ faults' = faults
        BY <2>2, <1>1, <1>9
      <3>2. /\ seq[id].state = "PREFILLING" =>
                 seq[id].cursor < seq[id].req.prompt /\ Ready(seq[id], seq[id].cursor)
            /\ seq[id].state = "RUNNING" => Ready(seq[id], LastPos(id))
        BY <2>2, <1>1, OffCurrent
      <3> QED BY <3>1, <3>2 DEF PrefillPosition, Ready, LastPos
    <2> QED BY <2>1, <2>2
  <1>13. RowsMatch'
    BY <1>1, NoOpenRows
  <1>14. Refusals' => ~ PoolFitsAny'
    <2>1. \A id \in Ids : /\ seq'[id].req = seq[id].req /\ seq'[id].reason = seq[id].reason
                          /\ seq'[id].state = seq[id].state
      BY <1>7, <1>9
    <2>2. Refusals' => Refusals
      BY <2>1, <1>1 DEF Refusals
    <2> QED BY <2>1, <2>2, NoNewRefusal DEF IInv
  <1> QED BY <1>8, <1>10, <1>11, <1>12, <1>13, <1>14 DEF IInv

(* A sequence of a list that finishes stays in it.                         *)
LEMMA OneChanged ==
  ASSUME IInv, NEW c \in Ids, NEW t \in SeqRecords, seq[c].state \in {"PREFILLING", "RUNNING"},
         seq' = [seq EXCEPT ![c] = t], freeBlocks' = freeBlocks,
         t.state \in {seq[c].state, "FINISHED"}, t.req = seq[c].req,
         t.kvLen = seq[c].kvLen, t.held = seq[c].held,
         Sampled(c, t), t.state = "FINISHED" <=> t.reason # Unfinished,
         t.state = "FINISHED" => Answered(t),
         t.state = "PREFILLING" => t.gen = << >>,
         t.state = "RUNNING" => Len(t.gen) \in 1 .. t.req.max - 1,
         UNCHANGED lists
  PROVE  BaseTypeOK' /\ Queues' /\ Objects' /\ Accounted'
  <1>1. BaseTypeOK /\ Queues /\ Objects /\ Accounted
    BY DEF IInv, TypeOK
  <1>2. Sound(c, t)
    <2>1. Sound(c, seq[c])
      BY <1>1 DEF Objects
    <2> QED BY <2>1 DEF Sound
  <1>3. /\ BaseTypeOK' /\ Objects' /\ Accounted'
        /\ seq'[c] = t /\ \A id \in Ids \ {c} : seq'[id] = seq[id]
    BY <1>1, <1>2, OneObject DEF lists
  <1>4. Queues'
    <2>1. ASSUME NEW id \in Ids
          PROVE  /\ id \in ToSet(waiting) <=> seq'[id].state = "WAITING"
                 /\ id \in ToSet(prefilling) => seq'[id].state \in {"PREFILLING", "FINISHED"}
                 /\ id \in ToSet(running) => seq'[id].state \in {"RUNNING", "FINISHED"}
                 /\ seq'[id].state \in {"PREFILLING", "RUNNING", "FINISHED"}
                      => id \in ToSet(prefilling) \cup ToSet(running)
                 /\ seq'[id].state = "NONE" <=> id >= nextId
      <3>1. CASE id = c
        BY <3>1, <1>1, <1>3 DEF Queues
      <3>2. CASE id # c
        BY <3>2, <1>1, <1>3 DEF Queues
      <3> QED BY <3>1, <3>2
    <2> QED BY <2>1, <1>1 DEF Queues, lists
  <1> QED BY <1>3, <1>4

LEMMA PrefillCapacityInv ==
  ASSUME IInv, PrefillCapacity
  PROVE  IInv'
  <1> DEFINE c == Current
             p == seq[c].cursor
             t == Finish(seq[c], "capacity")
  <1>1. /\ pc = "prefill" /\ it <= Len(prefilling) /\ p < seq[c].req.prompt
        /\ ~ CanWrite(c, p)
        /\ seq' = [seq EXCEPT ![c] = t] /\ it' = it + 1
        /\ UNCHANGED << lists, freeBlocks, budget, pc, left, logits, batch, rows, faults >>
    BY DEF PrefillCapacity, InPrompt
  <1>2. TypeOK /\ Queues /\ Phases /\ Objects /\ Accounted /\ BaseTypeOK
    BY DEF IInv, TypeOK
  <1>3. /\ c \in Ids /\ c \in ToSet(prefilling) /\ it \in 1 .. Len(prefilling)
        /\ seq[c].state = "PREFILLING" /\ seq[c].gen = << >>
        /\ \A i \in 1 .. Len(prefilling) : prefilling[i] = c => i = it
    BY <1>1, AtCurrent
  <1>4. /\ seq[c] \in SeqRecords /\ p \in Nat /\ seq[c].req.prompt \in Nat
        /\ seq[c].req.prompt <= WrittenAtMost(seq[c].req)
        /\ WrittenAtMost(seq[c].req) \in Nat
        /\ seq[c].req.max \in Nat /\ seq[c].req.eos \in Nat
    BY <1>2, <1>3, SeqFields, LiveFields
  <1>5. /\ t \in SeqRecords /\ t.state = "FINISHED" /\ t.reason = "capacity"
        /\ t.req = seq[c].req /\ t.gen = seq[c].gen
        /\ t.kvLen = seq[c].kvLen /\ t.held = seq[c].held
    BY <1>4, FinishFields
  <1> HIDE DEF t
  <1>6. Sampled(c, t) /\ Answered(t)
    <2>1. Len(<< >>) = 0
      OBVIOUS
    <2> QED BY <2>1, <1>3, <1>4, <1>5 DEF Sampled, Answered
  <1>7. BaseTypeOK' /\ Queues' /\ Objects' /\ Accounted'
    <2>1. UNCHANGED lists /\ freeBlocks' = freeBlocks
      BY <1>1
    <2> HIDE DEF c, p
    <2> QED BY <1>1, <1>3, <1>5, <1>6, <2>1, OneChanged, ReasonsDiffer
  <1>8. seq'[c] = t /\ \A id \in Ids \ {c} : seq'[id] = seq[id]
    BY <1>1, <1>2, <1>3 DEF BaseTypeOK
  <1>9. TypeOK'
    <2>1. it' \in Nat \ {0}
      BY <1>1, <1>2 DEF TypeOK
    <2> QED BY <2>1, <1>1, <1>2, <1>7 DEF TypeOK, lists
  <1>10. Phases'
    <2>1. /\ prefilling' = prefilling /\ running' = running /\ pc' = "prefill"
          /\ AllIn(prefilling, it, "PREFILLING") /\ AllIn(running, 1, "RUNNING")
      BY <1>1, <1>2 DEF lists, Phases
    <2>2. ASSUME NEW i \in it + 1 .. Len(prefilling)
          PROVE  seq'[prefilling[i]].state = "PREFILLING"
      <3>1. i \in 1 .. Len(prefilling) /\ i \in it .. Len(prefilling) /\ i # it
        BY <1>3
      <3>2. prefilling[i] # c /\ prefilling[i] \in Ids
        BY <3>1, <1>2, <1>3, ListMembers DEF TypeOK
      <3> QED BY <3>1, <3>2, <2>1, <1>8 DEF AllIn
    <2>3. ASSUME NEW i \in 1 .. Len(running) PROVE seq'[running[i]].state = "RUNNING"
      <3>1. running[i] \in Ids /\ seq[running[i]].state = "RUNNING"
        BY <2>1, <1>2, ListMembers DEF TypeOK, AllIn
      <3> QED BY <3>1, <1>3, <1>8
    <2> QED BY <2>1, <2>2, <2>3, <1>1 DEF Phases, AllIn
  <1>11. Positions'
    <2> SUFFICES ASSUME NEW id \in Ids
                 PROVE  /\ seq'[id].state = "PREFILLING" => PrefillPosition(id)'
                        /\ seq'[id].state = "RUNNING" => Ready(seq[id], LastPos(id))'
      BY DEF Positions
    <2>1. CASE id = c
      BY <2>1, <1>5, <1>8
    <2>2. CASE id # c
      <3>1. seq'[id] = seq[id] /\ faults' = faults
        BY <2>2, <1>1, <1>8
      <3>2. /\ seq[id].state = "PREFILLING" =>
                 seq[id].cursor < seq[id].req.prompt /\ Ready(seq[id], seq[id].cursor)
            /\ seq[id].state = "RUNNING" => Ready(seq[id], LastPos(id))
        BY <2>2, <1>1, OffCurrent
      <3> QED BY <3>1, <3>2 DEF PrefillPosition, Ready, LastPos
    <2> QED BY <2>1, <2>2
  <1>12. RowsMatch'
    BY <1>1, NoOpenRows
  <1>13. ~ PoolFitsAny'
    <2>1. ~ PoolFitsAny
      <3>1. p + 1 <= WrittenAtMost(seq[c].req) /\ c \in ToSet(prefilling) \cup ToSet(running)
        BY <1>1, <1>3, <1>4
      <3> QED BY <3>1, <1>1, <1>2, <1>4, RefusalUnfit DEF TypeOK
    <2>2. \A id \in Ids : seq[id].state # "NONE" =>
                            seq'[id].state # "NONE" /\ seq'[id].req = seq[id].req
      BY <1>5, <1>8
    <2> QED BY <2>1, <2>2, UnfitStays
  <1> QED BY <1>7, <1>9, <1>10, <1>11, <1>12, <1>13 DEF IInv

(* The last prompt token is written: the first token is sampled.           *)
LEMMA PrefillDoneInv ==
  ASSUME IInv, PrefillDone
  PROVE  IInv'
  <1> DEFINE c == Current
             t == AfterPrefill(seq[c], logits)
  <1>1. /\ pc = "prefill" /\ it <= Len(prefilling) /\ seq[c].cursor = seq[c].req.prompt
        /\ seq' = [seq EXCEPT ![c] = t]
        /\ UNCHANGED << nextId, waiting, results, freeBlocks, budget, pc, left,
                        logits, batch, rows, faults >>
    BY DEF PrefillDone
  <1>2. \/ /\ t.state = "RUNNING"
           /\ running' = Append(running, c)
           /\ prefilling' = RemoveAt(prefilling, it) /\ it' = it
        \/ /\ t.state # "RUNNING" /\ it' = it + 1
           /\ UNCHANGED << running, prefilling >>
    BY DEF PrefillDone
  <1>3. TypeOK /\ Queues /\ Phases /\ Objects /\ Accounted /\ BaseTypeOK
    BY DEF IInv, TypeOK
  <1>4. /\ c \in Ids /\ c \in ToSet(prefilling) /\ it \in 1 .. Len(prefilling)
        /\ c = prefilling[it]
        /\ seq[c].state = "PREFILLING" /\ seq[c].gen = << >>
        /\ seq[c].reason = Unfinished /\ PrefillPosition(c)
        /\ \A i \in 1 .. Len(prefilling) : prefilling[i] = c => i = it
    BY <1>1, AtCurrent
  <1> DEFINE q == seq[c].req.prompt
             m == seq[c].req.max
  <1>5. /\ seq[c] \in SeqRecords /\ q \in Nat /\ m \in Nat /\ seq[c].req.eos \in Nat
    BY <1>3, <1>4, SeqFields
  <1>6. seq[c].kvLen = q /\ logits = Tag(c, q)
    BY <1>1, <1>4, <1>5 DEF PrefillPosition
  <1>7. Sampled(c, seq[c])
    BY <1>3, <1>4 DEF Objects, Sound
  <1>8. /\ t \in SeqRecords
        /\ t.req = seq[c].req /\ t.kvLen = seq[c].kvLen /\ t.held = seq[c].held
        /\ Sampled(c, t)
        /\ \/ /\ t.state = "FINISHED" /\ t.reason \in {"stop", "length"} /\ Answered(t)
           \/ /\ t.state = "RUNNING" /\ t.reason = Unfinished
              /\ Len(t.gen) = 1 /\ Len(t.gen) < m
    <2>1. seq[c].gen = << >> /\ logits = Tag(c, seq[c].req.prompt)
      BY <1>4, <1>6
    <2> HIDE DEF c
    <2> QED BY <2>1, <1>3, <1>4, <1>7, PrefillSampled
  <1> HIDE DEF t
  <1>9. seq'[c] = t /\ \A id \in Ids \ {c} : seq'[id] = seq[id]
    BY <1>1, <1>3, <1>4 DEF BaseTypeOK
  <1>10. /\ prefilling \in Seq(Ids) /\ IsInjective(prefilling) /\ Len(prefilling) \in Nat
         /\ running \in Seq(Ids) /\ IsInjective(running) /\ Len(running) \in Nat
         /\ AllIn(prefilling, it, "PREFILLING") /\ AllIn(running, 1, "RUNNING")
         /\ c \notin ToSet(running)
    BY <1>1, <1>3, <1>4, LenProperties DEF TypeOK, Queues, Phases
  <1>11. Positions'
    <2> SUFFICES ASSUME NEW id \in Ids
                 PROVE  /\ seq'[id].state = "PREFILLING" => PrefillPosition(id)'
                        /\ seq'[id].state = "RUNNING" => Ready(seq[id], LastPos(id))'
      BY DEF Positions
    <2>1. CASE id = c
      <3>1. t.state = "RUNNING" => t.kvLen = t.req.prompt + Len(t.gen) - 1
        <4>1. q + 1 - 1 = q
          BY <1>5
        <4> QED BY <4>1, <1>6, <1>8
      <3> QED BY <3>1, <2>1, <1>8, <1>9 DEF Ready, LastPos
    <2>2. CASE id # c
      <3>1. seq'[id] = seq[id] /\ faults' = faults
        BY <2>2, <1>1, <1>9
      <3>2. /\ seq[id].state = "PREFILLING" =>
                 seq[id].cursor < seq[id].req.prompt /\ Ready(seq[id], seq[id].cursor)
            /\ seq[id].state = "RUNNING" => Ready(seq[id], LastPos(id))
        BY <2>2, <1>1, OffCurrent
      <3> QED BY <3>1, <3>2 DEF PrefillPosition, Ready, LastPos
    <2> QED BY <2>1, <2>2
  <1>12. RowsMatch'
    BY <1>1, NoOpenRows
  <1>13. Refusals' => ~ PoolFitsAny'
    <2>1. \A id \in Ids : /\ seq'[id].req = seq[id].req
                          /\ seq'[id].reason = "capacity" => seq[id].reason = "capacity"
                          /\ seq[id].state # "NONE" => seq'[id].state # "NONE"
      <3>1. t.reason # "capacity"
        BY <1>8, ReasonsDiffer
      <3> QED BY <3>1, <1>4, <1>8, <1>9
    <2>2. Refusals' => Refusals
      BY <2>1, <1>1 DEF Refusals
    <2> QED BY <2>1, <2>2, NoNewRefusal DEF IInv
  (* It finished with its first token, or was asked for none ...           *)
  <1>14. CASE t.state # "RUNNING"
    <2>1. it' = it + 1 /\ UNCHANGED << running, prefilling >>
      BY <1>2, <1>14
    <2>2. BaseTypeOK' /\ Queues' /\ Objects' /\ Accounted'
      <3>1. UNCHANGED lists /\ freeBlocks' = freeBlocks
        BY <2>1, <1>1 DEF lists
      <3>2. t.state = "FINISHED" /\ t.reason # Unfinished /\ Answered(t)
        BY <1>8, <1>14, ReasonsDiffer
      <3> HIDE DEF c
      <3> QED BY <3>1, <3>2, <1>1, <1>4, <1>8, OneChanged
    <2>3. TypeOK'
      <3>1. it' \in Nat \ {0}
        BY <2>1, <1>4
      <3> QED BY <3>1, <2>1, <2>2, <1>1, <1>3 DEF TypeOK
    <2>4. Phases'
      <3>1. ASSUME NEW i \in it + 1 .. Len(prefilling)
            PROVE  seq'[prefilling[i]].state = "PREFILLING"
        <4>1. i \in 1 .. Len(prefilling) /\ i \in it .. Len(prefilling) /\ i # it
          BY <1>4, <1>10
        <4>2. prefilling[i] # c /\ prefilling[i] \in Ids
          BY <4>1, <1>4, <1>10, ListMembers
        <4> QED BY <4>1, <4>2, <1>9, <1>10 DEF AllIn
      <3>2. ASSUME NEW i \in 1 .. Len(running) PROVE seq'[running[i]].state = "RUNNING"
        <4>1. running[i] \in Ids /\ seq[running[i]].state = "RUNNING"
          BY <1>10, ListMembers DEF AllIn
        <4> QED BY <4>1, <1>4, <1>9
      <3> QED BY <3>1, <3>2, <2>1, <1>1 DEF Phases, AllIn
    <2> QED BY <2>2, <2>3, <2>4, <1>11, <1>12, <1>13 DEF IInv
  (* ... or it moves to the running sequences.                             *)
  <1>15. CASE t.state = "RUNNING"
    <2> DEFINE left2 == RemoveAt(prefilling, it)
               more  == Append(running, c)
    <2>1. prefilling' = left2 /\ running' = more /\ it' = it
      BY <1>2, <1>15
    <2>2. /\ left2 \in Seq(Ids) /\ Len(left2) = Len(prefilling) - 1 /\ IsInjective(left2)
          /\ \A i \in 1 .. it - 1 : left2[i] = prefilling[i]
          /\ \A i \in it .. Len(prefilling) - 1 : left2[i] = prefilling[i + 1]
          /\ ToSet(left2) = ToSet(prefilling) \ {prefilling[it]}
      <3>1. prefilling \in Seq(Ids) /\ IsInjective(prefilling) /\ it \in 1 .. Len(prefilling)
        BY <1>4, <1>10
      <3> QED BY <3>1, RemoveFromList
    <2>3. /\ more \in Seq(Ids) /\ Len(more) = Len(running) + 1 /\ IsInjective(more)
          /\ ToSet(more) = ToSet(running) \cup {c}
      BY <1>4, <1>10, AppendToList
    <2>4. \A i \in 1 .. Len(running) + 1 :
            more[i] = IF i <= Len(running) THEN running[i] ELSE c
      BY <1>10, AppendProperties
    <2> HIDE DEF left2, more
    <2>5. Accounted'
      <3>1. \A id \in Ids : seq'[id].held = seq[id].held
        BY <1>8, <1>9
      <3> QED BY <3>1, <1>1, <1>3, HeldStays
    <2>6. TypeOK'
      <3>1. seq' \in [Ids -> SeqRecords]
        BY <1>1, <1>3, <1>8 DEF BaseTypeOK
      <3> QED BY <3>1, <2>1, <2>2, <2>3, <1>1, <1>3 DEF TypeOK, BaseTypeOK
    <2>7. Queues'
      <3>1. ASSUME NEW id \in Ids
            PROVE  /\ id \in ToSet(waiting) <=> seq'[id].state = "WAITING"
                   /\ id \in ToSet(left2) => seq'[id].state \in {"PREFILLING", "FINISHED"}
                   /\ id \in ToSet(more) => seq'[id].state \in {"RUNNING", "FINISHED"}
                   /\ seq'[id].state \in {"PREFILLING", "RUNNING", "FINISHED"}
                        => id \in ToSet(left2) \cup ToSet(more)
                   /\ seq'[id].state = "NONE" <=> id >= nextId
        <4>1. CASE id = c
          <5>1. id \notin ToSet(left2) /\ id \in ToSet(more)
            BY <4>1, <2>2, <2>3, <1>4
          <5>2. id \notin ToSet(waiting) /\ ~ (id >= nextId)
            BY <4>1, <1>3, <1>4 DEF Queues
          <5> QED BY <5>1, <5>2, <4>1, <1>9, <1>15
        <4>2. CASE id # c
          <5>1. /\ id \in ToSet(left2) <=> id \in ToSet(prefilling)
                /\ id \in ToSet(more) <=> id \in ToSet(running)
            BY <4>2, <2>2, <2>3, <1>4
          <5> QED BY <5>1, <4>2, <1>3, <1>9 DEF Queues
        <4> QED BY <4>1, <4>2
      <3>2. Len(left2) + Len(more) <= MaxConcurrent
        <4>1. MaxConcurrent \in Nat /\ Len(prefilling) + Len(running) <= MaxConcurrent
          BY <1>3, KnobAssumption DEF Queues
        <4> QED BY <4>1, <2>2, <2>3, <1>10
      <3>3. ToSet(left2) \cap ToSet(more) = {}
        BY <2>2, <2>3, <1>3, <1>4 DEF Queues
      <3> QED BY <3>1, <3>2, <3>3, <2>1, <2>2, <2>3, <1>1, <1>3 DEF Queues
    <2>8. Phases'
      <3>1. ASSUME NEW i \in it .. Len(left2)
            PROVE  seq'[left2[i]].state = "PREFILLING"
        <4>1. /\ i \in it .. Len(prefilling) - 1 /\ i + 1 \in 1 .. Len(prefilling)
              /\ i + 1 \in it .. Len(prefilling) /\ i + 1 # it
          BY <2>2, <1>4, <1>10
        <4>2. left2[i] = prefilling[i + 1] /\ left2[i] # c /\ left2[i] \in Ids
          BY <4>1, <2>2, <1>4, <1>10, ListMembers
        <4> QED BY <4>1, <4>2, <1>9, <1>10 DEF AllIn
      <3>2. ASSUME NEW i \in 1 .. Len(more) PROVE seq'[more[i]].state = "RUNNING"
        <4>1. CASE i <= Len(running)
          <5>1. i \in 1 .. Len(running) /\ more[i] = running[i]
            BY <4>1, <2>3, <2>4, <1>10
          <5>2. running[i] \in Ids /\ seq[running[i]].state = "RUNNING"
            BY <5>1, <1>10, ListMembers DEF AllIn
          <5> QED BY <5>1, <5>2, <1>4, <1>9
        <4>2. CASE ~ (i <= Len(running))
          BY <4>2, <2>3, <2>4, <1>9, <1>15
        <4> QED BY <4>1, <4>2
      <3> QED BY <3>1, <3>2, <2>1, <1>1 DEF Phases, AllIn
    <2>9. Objects'
      <3>1. Sound(c, t)
        <4>1. Sound(c, seq[c])
          BY <1>3, <1>4 DEF Objects
        <4>2. Len(t.gen) \in 1 .. t.req.max - 1
          <5>1. Len(t.gen) = 1 /\ 1 < m /\ t.req.max = m
            BY <1>8, <1>15
          <5> QED BY <5>1, <1>5
        <4> QED BY <4>1, <4>2, <1>4, <1>8, <1>15 DEF Sound
      <3> QED BY <3>1, <1>3, <1>4, <1>9, ObjectsAfter
    <2> QED BY <2>5, <2>6, <2>7, <2>8, <2>9, <1>11, <1>12, <1>13 DEF IInv
  <1> QED BY <1>14, <1>15

LEMMA GatherBatchInv ==
  ASSUME IInv, GatherBatch
  PROVE  IInv'
  <1>1. /\ pc = "prefill"
        /\ it > Len(prefilling) \/ InPrompt
        /\ batch' = Gathered /\ pc' = "decode" /\ it' = 1 /\ rows' = << >>
        /\ UNCHANGED << seq, lists, freeBlocks, budget, left, logits, faults >>
    BY DEF GatherBatch
  <1>2. TypeOK /\ Phases /\ BaseTypeOK
    BY DEF IInv, TypeOK
  <1>3. running \in Seq(Ids) /\ AllIn(running, 1, "RUNNING") /\ Len(running) \in Nat
    BY <1>1, <1>2, LenProperties DEF TypeOK, Phases
  <1>4. batch' = running /\ Len(<< >>) = 0
    BY <1>1, <1>3, GatheredIsRunning
  <1>5. TypeOK'
    BY <1>1, <1>2, <1>3, <1>4 DEF TypeOK, BaseTypeOK, lists
  <1>6. Phases'
    <2>1. 1 <= Len(running) + 1 /\ 0 = 1 - 1
      BY <1>3
    <2> QED BY <2>1, <1>1, <1>3, <1>4 DEF Phases, AllIn, lists
  <1>7. Positions'
    <2> SUFFICES ASSUME NEW id \in Ids
                 PROVE  /\ seq[id].state = "PREFILLING" => PrefillPosition(id)'
                        /\ seq[id].state = "RUNNING" => Ready(seq[id], LastPos(id))'
      BY <1>1 DEF Positions
    <2>1. it <= Len(prefilling) => id # Current \/ seq[id].cursor < seq[id].req.prompt
      <3>1. it \in Nat /\ Len(prefilling) \in Nat
        BY <1>2, LenProperties DEF TypeOK
      <3> QED BY <3>1, <1>1 DEF InPrompt
    <2>2. /\ seq[id].state = "PREFILLING" =>
               seq[id].cursor < seq[id].req.prompt /\ Ready(seq[id], seq[id].cursor)
          /\ seq[id].state = "RUNNING" => Ready(seq[id], LastPos(id))
      BY <2>1, <1>1, OffCurrent
    <2> QED BY <2>2, <1>1 DEF PrefillPosition, Ready, LastPos
  <1>8. RowsMatch'
    BY <1>1, <1>4 DEF RowsMatch
  <1> QED BY <1>1, <1>5, <1>6, <1>7, <1>8, ObjectsUntouched DEF IInv, lists

-----------------------------------------------------------------------------
(* decode_running()                                                        *)

(* The sequence of the row the loop is at.                                 *)
LEMMA AtRow ==
  ASSUME IInv, pc \in {"decode", "sample"}, it <= Len(batch), NEW c, c = batch[it]
  PROVE  /\ it \in 1 .. Len(batch) /\ c \in Ids /\ c \in ToSet(running)
         /\ seq[c].state = "RUNNING" /\ seq[c].reason = Unfinished /\ Sampled(c, seq[c])
         /\ seq[c].held = Layout!BlocksFor(seq[c].kvLen)
         /\ Len(seq[c].gen) \in 1 .. seq[c].req.max - 1
         /\ LastPos(c) \in Nat /\ LastPos(c) + 1 = seq[c].req.prompt + Len(seq[c].gen)
         /\ LastPos(c) + 1 <= WrittenAtMost(seq[c].req)
         /\ \A j \in 1 .. Len(batch) : batch[j] = c => j = it
         /\ \A j \in 1 .. Len(batch) : batch[j] \in Ids
         /\ batch = running /\ running \in Seq(Ids) /\ Len(batch) \in Nat
  <1>1. /\ batch \in Seq(Ids) /\ it \in Nat \ {0} /\ batch = running /\ IsInjective(running)
        /\ AllIn(batch, IF pc = "decode" THEN 1 ELSE it, "RUNNING")
        /\ Objects /\ BaseTypeOK
    BY DEF IInv, TypeOK, Queues, Phases
  <1>2. it \in 1 .. Len(batch) /\ DOMAIN batch = 1 .. Len(batch) /\ Len(batch) \in Nat
    BY <1>1, LenProperties
  <1>3. c \in Ids /\ c \in ToSet(running) /\ \A j \in 1 .. Len(batch) : batch[j] \in Ids
    BY <1>1, <1>2, ListMembers
  <1>4. seq[c].state = "RUNNING"
    <2>1. it \in it .. Len(batch)
      BY <1>1, <1>2
    <2> QED BY <1>1, <1>2, <2>1 DEF AllIn
  <1>5. /\ seq[c].reason = Unfinished /\ Sampled(c, seq[c])
        /\ seq[c].held = Layout!BlocksFor(seq[c].kvLen)
        /\ Len(seq[c].gen) \in 1 .. seq[c].req.max - 1
    BY <1>1, <1>3, <1>4 DEF Objects, Sound
  <1>6. /\ LastPos(c) \in Nat /\ LastPos(c) + 1 = seq[c].req.prompt + Len(seq[c].gen)
        /\ LastPos(c) + 1 <= WrittenAtMost(seq[c].req)
    <2> DEFINE q == seq[c].req.prompt
               m == seq[c].req.max
               n == Len(seq[c].gen)
    <2>1. q \in Nat /\ m \in Nat /\ n \in 1 .. m - 1
      BY <1>1, <1>3, <1>5, SeqFields
    <2>2. LastPos(c) = q + n - 1
      BY DEF LastPos
    <2>3. WrittenAtMost(seq[c].req) = IF m = 0 THEN q ELSE q + m - 1
      BY DEF WrittenAtMost
    <2> HIDE DEF q, m, n
    <2>4. LastPos(c) \in Nat /\ LastPos(c) + 1 = q + n
      BY <2>1, <2>2
    <2>5. LastPos(c) + 1 <= WrittenAtMost(seq[c].req)
      BY <2>1, <2>3, <2>4
    <2> QED BY <2>4, <2>5 DEF q, n
  <1>7. \A j \in 1 .. Len(batch) : batch[j] = c => j = it
    BY <1>1, <1>2 DEF IsInjective
  <1> QED BY <1>1, <1>2, <1>3, <1>4, <1>5, <1>6, <1>7

LEMMA DecodeRowInv ==
  ASSUME IInv, DecodeRow
  PROVE  IInv'
  <1> SUFFICES ASSUME NEW c, c = batch[it] PROVE IInv'
    OBVIOUS
  <1> SUFFICES ASSUME NEW p, p = LastPos(c) PROVE IInv'
    OBVIOUS
  <1> DEFINE t == AfterWrite(c, p)
  <1>1. /\ pc = "decode" /\ it <= Len(batch) /\ it' = it + 1
        /\ UNCHANGED << lists, budget, pc, left, logits, batch, faults >>
    BY DEF DecodeRow
  <1>2. IF CanWrite(c, p)
          THEN /\ seq' = [seq EXCEPT ![c] = t]
               /\ freeBlocks' = FreeAfterWrite(c, p)
               /\ rows' = Append(rows, LogitsAt(c, p))
          ELSE rows' = Append(rows, Dead) /\ UNCHANGED << seq, freeBlocks >>
    BY DEF DecodeRow
  <1>3. TypeOK /\ Queues /\ Phases /\ Objects /\ Accounted /\ BaseTypeOK
    BY DEF IInv, TypeOK
  <1>4. /\ it \in 1 .. Len(batch) /\ c \in Ids /\ c \in ToSet(running)
        /\ seq[c].state = "RUNNING"
        /\ seq[c].held = Layout!BlocksFor(seq[c].kvLen)
        /\ p \in Nat /\ p + 1 \in Nat /\ p + 1 <= WrittenAtMost(seq[c].req)
        /\ \A j \in 1 .. Len(batch) : batch[j] = c => j = it
        /\ \A j \in 1 .. Len(batch) : batch[j] \in Ids
        /\ batch = running /\ running \in Seq(Ids) /\ Len(batch) \in Nat
    <2>1. pc \in {"decode", "sample"}
      BY <1>1
    <2>2. /\ it \in 1 .. Len(batch) /\ c \in Ids /\ c \in ToSet(running)
          /\ seq[c].state = "RUNNING"
          /\ seq[c].held = Layout!BlocksFor(seq[c].kvLen)
          /\ LastPos(c) \in Nat
          /\ LastPos(c) + 1 <= WrittenAtMost(seq[c].req)
          /\ \A j \in 1 .. Len(batch) : batch[j] = c => j = it
          /\ \A j \in 1 .. Len(batch) : batch[j] \in Ids
          /\ batch = running /\ running \in Seq(Ids) /\ Len(batch) \in Nat
      BY <2>1, <1>1, AtRow
    <2> QED BY <2>2
  <1>5. /\ rows \in Seq(Rows) /\ Len(rows) = it - 1 /\ Len(rows) \in Nat
        /\ AllIn(batch, 1, "RUNNING")
    BY <1>1, <1>3, LenProperties DEF TypeOK, Phases
  <1>6. seq[c].kvLen \in {p, p + 1}
    <2>1. Ready(seq[c], p)
      <3>1. ASSUME NEW j \in 1 .. Len(rows) PROVE batch[j] # c
        <4>1. j \in 1 .. Len(batch) /\ j # it
          BY <1>4, <1>5
        <4> QED BY <4>1, <1>4
      <3> QED BY <3>1, <1>4 DEF IInv, Positions
    <2> QED BY <2>1 DEF Ready
  <1>7. /\ AfterWrite(c, p) \in SeqRecords
        /\ AfterWrite(c, p).kvLen = p + 1
        /\ AfterWrite(c, p).state = seq[c].state /\ AfterWrite(c, p).req = seq[c].req
        /\ AfterWrite(c, p).gen = seq[c].gen /\ AfterWrite(c, p).reason = seq[c].reason
        /\ AfterWrite(c, p).cursor = seq[c].cursor
        /\ LogitsAt(c, p) = Tag(c, p + 1)
    BY <1>3, <1>4, <1>6, WriteFields
  <1> DEFINE row == IF CanWrite(c, p) THEN Tag(c, p + 1) ELSE Dead
  <1>8. rows' = Append(rows, row) /\ row \in Rows /\ (row = Dead => ~ CanWrite(c, p))
    BY <1>2, <1>4, <1>7, TagIsRow
  <1> HIDE DEF row
  <1>9. /\ rows' \in Seq(Rows) /\ Len(rows') = it
        /\ \A j \in 1 .. Len(rows) : rows'[j] = rows[j]
        /\ rows'[it] = row
    <2>1. /\ Append(rows, row) \in Seq(Rows) /\ Len(Append(rows, row)) = Len(rows) + 1
          /\ \A j \in 1 .. Len(rows) : Append(rows, row)[j] = rows[j]
          /\ Append(rows, row)[Len(rows) + 1] = row
      BY <1>5, <1>8, AppendProperties
    <2>2. Len(rows) + 1 = it
      BY <1>4, <1>5
    <2> QED BY <2>1, <2>2, <1>8
  (* Whether or not the write is refused, only c may change, by a write.   *)
  <1>10. /\ \A id \in Ids \ {c} : seq'[id] = seq[id]
         /\ seq'[c].state = seq[c].state /\ seq'[c].req = seq[c].req
         /\ seq'[c].gen = seq[c].gen /\ seq'[c].reason = seq[c].reason
         /\ CanWrite(c, p) => seq'[c].kvLen = p + 1
         /\ ~ CanWrite(c, p) => seq' = seq
    BY <1>2, <1>3, <1>4, <1>7 DEF BaseTypeOK
  <1>11. BaseTypeOK' /\ Queues' /\ Objects' /\ Accounted'
    <2>1. CASE CanWrite(c, p)
      <3>1. UNCHANGED lists /\ seq' = [seq EXCEPT ![c] = t] /\ freeBlocks' = FreeAfterWrite(c, p)
        BY <2>1, <1>1, <1>2
      <3>2. t = AfterWrite(c, p)
        OBVIOUS
      <3> HIDE DEF t
      <3> QED BY <2>1, <3>1, <3>2, <1>4, <1>6, <1>7, OneWritten
    <2>2. CASE ~ CanWrite(c, p)
      <3>1. UNCHANGED << seq, freeBlocks, lists >>
        BY <2>2, <1>1, <1>2
      <3>2. BaseTypeOK'
        BY <3>1, <1>3 DEF BaseTypeOK, lists
      <3>3. Queues' /\ Objects'
        BY <3>1, <1>3 DEF Queues, Objects, lists
      <3>4. Accounted'
        BY <3>1, <1>3, HeldStays
      <3> QED BY <3>2, <3>3, <3>4
    <2> QED BY <2>1, <2>2
  <1>12. TypeOK'
    BY <1>1, <1>3, <1>4, <1>9, <1>11 DEF TypeOK, lists
  <1>13. Phases'
    <2>1. ASSUME NEW i \in 1 .. Len(batch) PROVE seq'[batch[i]].state = "RUNNING"
      <3>1. batch[i] \in Ids /\ seq[batch[i]].state = "RUNNING"
        BY <1>4, <1>5 DEF AllIn
      <3> QED BY <3>1, <1>10
    <2>2. it + 1 <= Len(batch) + 1 /\ it + 1 - 1 = it
      BY <1>4
    <2> QED BY <2>1, <2>2, <1>1, <1>4, <1>9 DEF Phases, AllIn, lists
  <1>14. \A id \in Ids : /\ seq'[id].state = seq[id].state /\ seq'[id].req = seq[id].req
                         /\ seq'[id].reason = seq[id].reason /\ LastPos(id)' = LastPos(id)
    BY <1>10 DEF LastPos
  <1>15. Len(rows) = it - 1 /\ 1 .. Len(rows') = 1 .. it
         /\ \A j \in 1 .. it : j # it => j \in 1 .. Len(rows) /\ j \in 1 .. Len(batch)
    BY <1>4, <1>5, <1>9
  <1>16. ASSUME NEW j \in 1 .. it
         PROVE  Open(j)' /\ (j # it => Open(j))
    BY <1>1, <1>15 DEF Open
  <1>18. RowsMatch'
    <2> SUFFICES ASSUME NEW j \in 1 .. it, NEW b, b = batch[j]
                 PROVE  \/ rows'[j] = Dead
                        \/ /\ rows'[j] = Tag(b, LastPos(b)' + 1)
                           /\ seq'[b].kvLen = LastPos(b)' + 1
      <3>1. batch' = batch
        BY <1>1
      <3> QED BY <3>1, <1>15 DEF RowsMatch, LastPos
    <2>1. CASE j = it
      <3>1. CASE CanWrite(c, p)
        <4>1. rows'[j] = Tag(c, p + 1)
          BY <2>1, <3>1, <1>9 DEF row
        <4>2. seq'[c].kvLen = p + 1 /\ LastPos(c)' = p
          BY <3>1, <1>4, <1>10, <1>14
        <4> QED BY <2>1, <4>1, <4>2
      <3>2. CASE ~ CanWrite(c, p)
        BY <2>1, <3>2, <1>9 DEF row
      <3> QED BY <3>1, <3>2
    <2>2. CASE j # it
      <3>1. j \in 1 .. Len(rows) /\ j \in 1 .. Len(batch)
        BY <2>2, <1>15
      <3>2. b # c /\ b \in Ids /\ rows'[j] = rows[j]
        BY <2>2, <3>1, <1>4, <1>9
      <3>3. seq'[b] = seq[b] /\ LastPos(b)' = LastPos(b)
        BY <3>2, <1>10, <1>14
      <3>4. \/ rows[j] = Dead
            \/ /\ rows[j] = Tag(b, LastPos(b) + 1)
               /\ seq[b].kvLen = LastPos(b) + 1
        BY <2>2, <3>1, <1>16 DEF IInv, RowsMatch
      <3> QED BY <3>2, <3>3, <3>4
    <2> QED BY <2>1, <2>2
  <1>19. Positions'
    <2> SUFFICES ASSUME NEW id \in Ids
                 PROVE  /\ seq'[id].state = "PREFILLING" => PrefillPosition(id)'
                        /\ seq'[id].state = "RUNNING" =>
                             \/ Ready(seq[id], LastPos(id))'
                             \/ \E j \in 1 .. Len(rows') :
                                  Open(j)' /\ batch[j] = id /\ rows'[j] # Dead
      <3>1. batch' = batch
        BY <1>1
      <3> QED BY <3>1 DEF Positions
    <2>1. faults' = faults /\ pc = "decode" /\ pc' = "decode"
      BY <1>1
    <2>2. CASE id = c
      <3>1. CASE CanWrite(c, p)
        <4>1. it \in 1 .. Len(rows') /\ rows'[it] # Dead
          BY <3>1, <1>4, <1>9, <1>15, TagIsRow DEF row
        <4>2. PICK k \in 1 .. it : k = it
          BY <1>4
        <4>3. k \in 1 .. Len(rows') /\ Open(k)' /\ batch[k] = id /\ rows'[k] # Dead
          BY <2>2, <4>1, <4>2, <1>16
        <4>4. seq'[id].state = "RUNNING"
          BY <2>2, <1>4, <1>14
        <4> QED BY <4>3, <4>4
      <3>2. CASE ~ CanWrite(c, p)
        <4>1. Ready(seq[c], p)
          <5>1. ASSUME NEW j \in 1 .. Len(rows) PROVE batch[j] # c
            <6>1. j \in 1 .. Len(batch) /\ j # it
              BY <1>4, <1>5
            <6> QED BY <6>1, <1>4
          <5> QED BY <5>1, <1>4 DEF IInv, Positions
        <4>2. seq' = seq
          BY <3>2, <1>10
        <4> QED BY <2>2, <4>1, <4>2, <2>1, <1>4 DEF Ready, LastPos
      <3> QED BY <3>1, <3>2
    <2>3. CASE id # c
      <3>1. seq'[id] = seq[id] /\ LastPos(id)' = LastPos(id)
        BY <2>3, <1>10, <1>14
      <3>2. seq[id].state = "PREFILLING" =>
              seq[id].cursor < seq[id].req.prompt /\ Ready(seq[id], seq[id].cursor)
        BY <2>1 DEF IInv, Positions, PrefillPosition
      <3>3. seq[id].state = "RUNNING" =>
              \/ Ready(seq[id], LastPos(id))
              \/ \E j \in 1 .. Len(rows) : batch[j] = id /\ rows[j] # Dead
        BY DEF IInv, Positions
      <3>4. ASSUME NEW j \in 1 .. Len(rows), batch[j] = id, rows[j] # Dead
            PROVE  j \in 1 .. Len(rows') /\ Open(j)' /\ rows'[j] # Dead
        <4>1. j \in 1 .. Len(rows') /\ j \in 1 .. it
          BY <1>4, <1>5, <1>9
        <4> QED BY <4>1, <3>4, <1>9, <1>16
      <3>5. Ready(seq[id], LastPos(id)) => Ready(seq[id], LastPos(id))'
        BY <3>1, <2>1 DEF Ready, LastPos
      <3> QED BY <3>1, <3>2, <3>3, <3>4, <3>5, <2>1 DEF PrefillPosition, Ready
    <2> QED BY <2>2, <2>3
  <1>20. Refusals' => ~ PoolFitsAny'
    <2>1. \A id \in Ids : seq[id].state # "NONE" =>
                            seq'[id].state # "NONE" /\ seq'[id].req = seq[id].req
      BY <1>14
    <2>2. CASE CanWrite(c, p)
      <3>1. row # Dead
        BY <2>2, <1>8
      <3>2. Refusals' => Refusals
        <4>1. \A j \in 1 .. Len(rows') : rows'[j] = Dead =>
                j \in 1 .. Len(rows) /\ rows[j] = Dead
          BY <3>1, <1>9, <1>15
        <4> QED BY <4>1, <1>14 DEF Refusals
      <3> QED BY <2>1, <3>2, NoNewRefusal DEF IInv
    <2>3. CASE ~ CanWrite(c, p)
      <3>1. prefilling \in Seq(Ids) /\ c \in ToSet(prefilling) \cup ToSet(running)
        BY <1>3, <1>4 DEF TypeOK
      <3>2. ~ PoolFitsAny
        BY <2>3, <3>1, <1>3, <1>4, RefusalUnfit
      <3> QED BY <2>1, <3>2, UnfitStays
    <2> QED BY <2>2, <2>3
  <1> QED BY <1>11, <1>12, <1>13, <1>18, <1>19, <1>20 DEF IInv

LEMMA DecodeDoneInv ==
  ASSUME IInv, DecodeDone
  PROVE  IInv'
  <1>1. /\ pc = "decode" /\ it > Len(batch) /\ pc' = "sample" /\ it' = 1
        /\ UNCHANGED << seq, lists, freeBlocks, budget, left, logits, batch, rows, faults >>
    BY DEF DecodeDone
  <1>2. TypeOK /\ Phases
    BY DEF IInv
  <1>3. /\ batch = running /\ Len(batch) \in Nat /\ it \in Nat /\ it <= Len(batch) + 1
        /\ Len(rows) = it - 1 /\ AllIn(batch, 1, "RUNNING")
    BY <1>1, <1>2, LenProperties DEF TypeOK, Phases
  <1>4. Len(rows) = Len(batch) /\ 1 <= Len(batch) + 1
    BY <1>1, <1>3
  <1>5. TypeOK'
    BY <1>1, <1>2 DEF TypeOK, BaseTypeOK, lists
  <1>6. Phases'
    BY <1>1, <1>3, <1>4 DEF Phases, AllIn, lists
  <1>7. ASSUME NEW j \in 1 .. Len(rows) PROVE Open(j) /\ Open(j)'
    BY <1>1, <1>3 DEF Open
  <1>8. RowsMatch'
    BY <1>1, <1>7 DEF IInv, RowsMatch, LastPos
  <1>9. Positions'
    BY <1>1, <1>7 DEF IInv, Positions, PrefillPosition, Ready, LastPos
  <1> QED BY <1>1, <1>5, <1>6, <1>8, <1>9, ObjectsUntouched DEF IInv, lists

LEMMA SampleRowInv ==
  ASSUME IInv, SampleRow
  PROVE  IInv'
  <1> SUFFICES ASSUME NEW c, c = batch[it], NEW row, row = rows[it] PROVE IInv'
    OBVIOUS
  <1> DEFINE t == IF row = Dead THEN Finish(seq[c], "capacity") ELSE AfterSample(seq[c], row)
  <1>1. /\ pc = "sample" /\ it <= Len(batch) /\ it' = it + 1
        /\ seq' = [seq EXCEPT ![c] = t]
        /\ UNCHANGED << lists, freeBlocks, budget, pc, left, logits, batch, rows, faults >>
    BY DEF SampleRow, RowOf
  <1>2. TypeOK /\ Queues /\ Phases /\ Objects /\ Accounted /\ BaseTypeOK
    BY DEF IInv, TypeOK
  <1>3. /\ it \in 1 .. Len(batch) /\ c \in Ids /\ c \in ToSet(running)
        /\ seq[c].state = "RUNNING" /\ seq[c].reason = Unfinished /\ Sampled(c, seq[c])
        /\ Len(seq[c].gen) \in 1 .. seq[c].req.max - 1
        /\ LastPos(c) \in Nat /\ LastPos(c) + 1 = seq[c].req.prompt + Len(seq[c].gen)
        /\ \A j \in 1 .. Len(batch) : batch[j] = c => j = it
        /\ \A j \in 1 .. Len(batch) : batch[j] \in Ids
        /\ batch = running /\ Len(batch) \in Nat
    <2>1. pc \in {"decode", "sample"}
      BY <1>1
    <2> QED BY <2>1, <1>1, AtRow
  <1>4. /\ Len(rows) = Len(batch) /\ AllIn(batch, it, "RUNNING")
    BY <1>1, <1>2 DEF Phases
  <1>5. \/ row = Dead
        \/ row = Tag(c, LastPos(c) + 1) /\ seq[c].kvLen = LastPos(c) + 1
    <2>1. PICK k \in 1 .. Len(rows) : k = it
      BY <1>3, <1>4
    <2>2. Open(k)
      BY <2>1, <1>1, <1>3, <1>4 DEF Open
    <2>3. \/ rows[k] = Dead
          \/ /\ rows[k] = Tag(batch[k], LastPos(batch[k]) + 1)
             /\ seq[batch[k]].kvLen = LastPos(batch[k]) + 1
      BY <2>2 DEF IInv, RowsMatch
    <2> QED BY <2>1, <2>3
  <1> DEFINE q == seq[c].req.prompt
             m == seq[c].req.max
             n == Len(seq[c].gen)
  <1>6. seq[c] \in SeqRecords /\ q \in Nat /\ m \in Nat /\ n \in Nat /\ n < m
    <2>1. seq[c] \in SeqRecords /\ q \in Nat /\ m \in Nat /\ n \in Nat
      BY <1>2, <1>3, SeqFields
    <2>2. n \in 1 .. m - 1
      BY <1>3
    <2> HIDE DEF q, m, n
    <2> QED BY <2>1, <2>2
  <1>7. /\ t \in SeqRecords
        /\ t.req = seq[c].req /\ t.kvLen = seq[c].kvLen /\ t.held = seq[c].held
        /\ Sampled(c, t)
        /\ \/ /\ t.state = "FINISHED" /\ t.reason \in {"stop", "length", "capacity"}
              /\ t.reason = "capacity" => row = Dead
              /\ Answered(t)
           \/ /\ t.state = "RUNNING" /\ t.reason = Unfinished
              /\ Len(t.gen) = n + 1 /\ Len(t.gen) < m /\ row # Dead
    <2>1. CASE row = Dead
      <3>1. t = Finish(seq[c], "capacity")
        BY <2>1
      <3>2. /\ t \in SeqRecords /\ t.req = seq[c].req /\ t.kvLen = seq[c].kvLen
            /\ t.held = seq[c].held /\ t.gen = seq[c].gen
            /\ t.state = "FINISHED" /\ t.reason = "capacity"
        BY <3>1, <1>6, FinishFields
      <3> HIDE DEF t
      <3>3. Sampled(c, t)
        BY <3>2, <1>3 DEF Sampled
      <3>4. Answered(t)
        BY <3>2, <1>6 DEF Answered
      <3> QED BY <3>2, <3>3, <3>4, <2>1
    <2>2. CASE row # Dead
      <3> DEFINE s == AfterSample(seq[c], row)
      <3>1. t = s
        BY <2>2
      <3>2. /\ BaseTypeOK /\ c \in Ids /\ Sampled(c, seq[c]) /\ seq[c].reason = Unfinished
            /\ Len(seq[c].gen) < seq[c].req.max
            /\ row = Tag(c, seq[c].req.prompt + Len(seq[c].gen))
        BY <2>2, <1>2, <1>3, <1>5, <1>6
      <3>3. /\ s \in SeqRecords
            /\ s.req = seq[c].req /\ s.kvLen = seq[c].kvLen /\ s.held = seq[c].held
            /\ Sampled(c, s)
            /\ \/ /\ s.state = "FINISHED" /\ s.reason \in {"stop", "length"} /\ Answered(s)
               \/ /\ s.state = "RUNNING" /\ s.reason = Unfinished
                  /\ Len(s.gen) = Len(seq[c].gen) + 1 /\ Len(s.gen) < s.req.max
        <4> HIDE DEF t
        <4> QED BY <3>2, SampleFields
      <3> HIDE DEF s, t
      <3>4. s.req.max = m /\ Len(seq[c].gen) = n
        BY <3>3
      <3> HIDE DEF m, n
      <3> QED BY <3>1, <3>3, <3>4, <2>2
    <2> QED BY <2>1, <2>2
  <1> HIDE DEF t
  <1>8. seq'[c] = t /\ \A id \in Ids \ {c} : seq'[id] = seq[id]
    BY <1>1, <1>2, <1>3 DEF BaseTypeOK
  <1>9. BaseTypeOK' /\ Queues' /\ Objects' /\ Accounted'
    <2>1. UNCHANGED lists /\ freeBlocks' = freeBlocks
      BY <1>1
    <2>2. /\ t.state \in {seq[c].state, "FINISHED"}
          /\ t.state = "FINISHED" <=> t.reason # Unfinished
          /\ t.state = "FINISHED" => Answered(t)
          /\ t.state = "PREFILLING" => t.gen = << >>
      BY <1>3, <1>7, ReasonsDiffer
    <2>3. t.state = "RUNNING" => Len(t.gen) \in 1 .. t.req.max - 1
      <3>1. t.req.max = m
        BY <1>7
      <3> HIDE DEF m, n
      <3> QED BY <3>1, <1>6, <1>7
    <2> QED BY <2>1, <2>2, <2>3, <1>1, <1>3, <1>7, OneChanged
  <1>10. TypeOK'
    <2>1. it' \in Nat \ {0}
      BY <1>1, <1>3
    <2> QED BY <2>1, <1>1, <1>2, <1>9 DEF TypeOK, lists
  <1>11. Phases'
    <2>1. ASSUME NEW i \in it + 1 .. Len(batch)
          PROVE  seq'[batch[i]].state = "RUNNING"
      <3>1. i \in 1 .. Len(batch) /\ i \in it .. Len(batch) /\ i # it
        BY <1>3
      <3>2. batch[i] # c /\ batch[i] \in Ids
        BY <3>1, <1>3
      <3> QED BY <3>1, <3>2, <1>4, <1>8 DEF AllIn
    <2>2. it + 1 <= Len(batch) + 1
      BY <1>3
    <2> QED BY <2>1, <2>2, <1>1, <1>3, <1>4 DEF Phases, AllIn, lists
  <1>12. ASSUME NEW j \in 1 .. Len(rows)
         PROVE  /\ Open(j)' => Open(j) /\ j # it
                /\ Open(j) /\ j # it => Open(j)'
    <2>1. j \in Nat /\ it \in Nat
      BY <1>3
    <2> QED BY <2>1, <1>1 DEF Open
  <1>13. RowsMatch'
    <2> SUFFICES ASSUME NEW j \in 1 .. Len(rows), Open(j)', NEW b, b = batch[j]
                 PROVE  \/ rows[j] = Dead
                        \/ /\ rows[j] = Tag(b, LastPos(b)' + 1)
                           /\ seq'[b].kvLen = LastPos(b)' + 1
      BY <1>1 DEF RowsMatch, LastPos
    <2>1. Open(j) /\ j # it /\ j \in 1 .. Len(batch)
      BY <1>4, <1>12
    <2>2. b # c /\ b \in Ids
      BY <2>1, <1>3
    <2>3. seq'[b] = seq[b] /\ LastPos(b)' = LastPos(b)
      BY <2>2, <1>8 DEF LastPos
    <2>4. \/ rows[j] = Dead
          \/ /\ rows[j] = Tag(b, LastPos(b) + 1)
             /\ seq[b].kvLen = LastPos(b) + 1
      BY <2>1 DEF IInv, RowsMatch
    <2> QED BY <2>3, <2>4
  <1>14. Positions'
    <2> SUFFICES ASSUME NEW id \in Ids
                 PROVE  /\ seq'[id].state = "PREFILLING" => PrefillPosition(id)'
                        /\ seq'[id].state = "RUNNING" =>
                             \/ Ready(seq[id], LastPos(id))'
                             \/ \E j \in 1 .. Len(rows) :
                                  Open(j)' /\ batch[j] = id /\ rows[j] # Dead
      BY <1>1 DEF Positions
    <2>1. faults' = faults /\ pc = "sample"
      BY <1>1
    <2>2. CASE id = c
      <3>1. t.state = "RUNNING" => t.kvLen = t.req.prompt + Len(t.gen) - 1
        <4>1. q + n = q + (n + 1) - 1
          <5> HIDE DEF q, n
          <5> QED BY <1>6
        <4>2. row # Dead => seq[c].kvLen = q + n
          BY <1>3, <1>5
        <4>3. t.req.prompt = q /\ t.kvLen = seq[c].kvLen
          BY <1>7
        <4>4. t.state = "RUNNING" => Len(t.gen) = n + 1 /\ row # Dead
          BY <1>7
        <4> HIDE DEF q, n
        <4> QED BY <4>1, <4>2, <4>3, <4>4
      <3>2. t.state # "PREFILLING"
        BY <1>7
      <3> QED BY <3>1, <3>2, <2>2, <1>8 DEF Ready, LastPos
    <2>3. CASE id # c
      <3>1. seq'[id] = seq[id]
        BY <2>3, <1>8
      <3>2. seq[id].state = "PREFILLING" =>
              seq[id].cursor < seq[id].req.prompt /\ Ready(seq[id], seq[id].cursor)
        BY <2>1 DEF IInv, Positions, PrefillPosition
      <3>3. seq[id].state = "RUNNING" =>
              \/ Ready(seq[id], LastPos(id))
              \/ \E j \in 1 .. Len(rows) : Open(j) /\ batch[j] = id /\ rows[j] # Dead
        BY DEF IInv, Positions
      <3>4. ASSUME NEW j \in 1 .. Len(rows), Open(j), batch[j] = id
            PROVE  Open(j)'
        BY <3>4, <2>3, <1>12
      <3>5. Ready(seq[id], LastPos(id)) => Ready(seq[id], LastPos(id))'
        BY <3>1, <2>1 DEF Ready, LastPos
      <3> QED BY <3>1, <3>2, <3>3, <3>4, <3>5, <2>1 DEF PrefillPosition, Ready
    <2> QED BY <2>2, <2>3
  <1>15. Refusals' => ~ PoolFitsAny'
    <2>1. \A id \in Ids : seq[id].state # "NONE" =>
                            seq'[id].state # "NONE" /\ seq'[id].req = seq[id].req
      BY <1>7, <1>8
    <2>2. Refusals' => Refusals
      <3>1. row = Dead => Refusals
        BY <1>3, <1>4 DEF Refusals
      <3>2. t.reason = "capacity" => row = Dead
        BY <1>7, ReasonsDiffer
      <3> QED BY <3>1, <3>2, <1>1, <1>8 DEF Refusals
    <2> QED BY <2>1, <2>2, NoNewRefusal DEF IInv
  <1> QED BY <1>9, <1>10, <1>11, <1>13, <1>14, <1>15 DEF IInv

LEMMA EndStepInv ==
  ASSUME IInv, EndStep
  PROVE  IInv'
  <1>1. /\ pc = "sample" /\ it > Len(batch)
        /\ pc' = "out" /\ left' = 0 /\ it' = 1
        /\ logits' = Garbage /\ batch' = << >> /\ rows' = << >>
        /\ UNCHANGED << seq, lists, freeBlocks, budget, faults >>
    BY DEF EndStep, Leave
  <1>2. TypeOK /\ Phases
    BY DEF IInv
  <1>3. Len(rows) = Len(batch) /\ Len(batch) \in Nat /\ it \in Nat
    BY <1>1, <1>2, LenProperties DEF TypeOK, Phases
  <1>4. TypeOK'
    <2>1. Garbage \in Rows
      BY DEF Garbage, Rows
    <2> QED BY <2>1, <1>1, <1>2 DEF TypeOK, BaseTypeOK, lists
  <1>5. Phases' /\ RowsMatch'
    BY <1>1 DEF Phases, RowsMatch, Open
  <1>6. Positions'
    <2> SUFFICES ASSUME NEW id \in Ids
                 PROVE  /\ seq[id].state = "PREFILLING" => PrefillPosition(id)'
                        /\ seq[id].state = "RUNNING" => Ready(seq[id], LastPos(id))'
      BY <1>1 DEF Positions
    <2>1. seq[id].state = "PREFILLING" =>
            seq[id].cursor < seq[id].req.prompt /\ Ready(seq[id], seq[id].cursor)
      BY <1>1 DEF IInv, Positions, PrefillPosition
    <2>2. ASSUME NEW j \in 1 .. Len(rows) PROVE ~ Open(j)
      BY <1>1, <1>3 DEF Open
    <2>3. seq[id].state = "RUNNING" => Ready(seq[id], LastPos(id))
      BY <2>2 DEF IInv, Positions
    <2> QED BY <2>1, <2>3, <1>1 DEF PrefillPosition, Ready, LastPos
  <1> QED BY <1>1, <1>4, <1>5, <1>6, ObjectsUntouched DEF IInv, lists

(* An exception leaves the caches ahead by at most the rows of its pass.   *)
LEMMA ThrowInv ==
  ASSUME IInv, Throw
  PROVE  IInv'
  <1>1. /\ faults < MaxFaults /\ faults' = faults + 1
        /\ pc' = "out" /\ left' = 0 /\ it' = 1
        /\ logits' = Garbage /\ batch' = << >> /\ rows' = << >>
        /\ UNCHANGED << lists, budget >>
    BY DEF Throw, Leave
  <1>2. TypeOK /\ Queues /\ Phases /\ Objects /\ Accounted /\ BaseTypeOK
    BY DEF IInv, TypeOK
  <1>3. faults' \in 0 .. MaxFaults /\ faults' > 0
    BY <1>1, <1>2, KnobAssumption DEF TypeOK
  <1>4. Phases' /\ RowsMatch'
    BY <1>1 DEF Phases, RowsMatch, Open
  <1>5. Garbage \in Rows
    BY DEF Garbage, Rows
  (* It had written nothing, or rows of the batch.                         *)
  <1>6. CASE UNCHANGED << seq, freeBlocks >> /\ (InPrompt \/ pc = "decode")
    <2>1. TypeOK'
      BY <1>1, <1>2, <1>3, <1>5, <1>6 DEF TypeOK, BaseTypeOK, lists
    <2>2. Positions'
      <3> SUFFICES ASSUME NEW id \in Ids
                   PROVE  /\ seq[id].state = "PREFILLING" => PrefillPosition(id)'
                          /\ seq[id].state = "RUNNING" => Ready(seq[id], LastPos(id))'
        BY <1>6 DEF Positions
      <3>1. CASE InPrompt
        <4>1. pc = "prefill" /\ (it <= Len(prefilling) =>
                                   id # Current \/ seq[id].cursor < seq[id].req.prompt)
          BY <3>1 DEF InPrompt
        <4>2. /\ seq[id].state = "PREFILLING" =>
                   seq[id].cursor < seq[id].req.prompt /\ Ready(seq[id], seq[id].cursor)
              /\ seq[id].state = "RUNNING" => Ready(seq[id], LastPos(id))
          BY <4>1, OffCurrent
        <4> QED BY <4>2, <1>3, <1>6 DEF PrefillPosition, Ready, LastPos
      <3>2. CASE pc = "decode"
        <4>1. seq[id].state = "PREFILLING" =>
                seq[id].cursor < seq[id].req.prompt /\ Ready(seq[id], seq[id].cursor)
          BY <3>2 DEF IInv, Positions, PrefillPosition
        <4>2. seq[id].state = "RUNNING" =>
                Ready(seq[id], LastPos(id)) \/ seq[id].kvLen = LastPos(id) + 1
          BY DEF IInv, Positions, RowsMatch
        <4> QED BY <4>1, <4>2, <1>3, <1>6 DEF PrefillPosition, Ready, LastPos
      <3> QED BY <3>1, <3>2, <1>6
    <2> QED BY <2>1, <2>2, <1>1, <1>4, <1>6, ObjectsUntouched DEF IInv, lists
  (* It had written the row of the prompt token it was at.                 *)
  <1>7. CASE /\ InPrompt /\ CanWrite(Current, seq[Current].cursor)
             /\ seq' = [seq EXCEPT ![Current] = AfterWrite(Current, seq[Current].cursor)]
             /\ freeBlocks' = FreeAfterWrite(Current, seq[Current].cursor)
    <2> SUFFICES ASSUME NEW c, c = Current, NEW p, p = seq[c].cursor PROVE IInv'
      OBVIOUS
    <2>1. /\ pc = "prefill" /\ it <= Len(prefilling) /\ p < seq[c].req.prompt
          /\ CanWrite(c, p) /\ seq' = [seq EXCEPT ![c] = AfterWrite(c, p)]
          /\ freeBlocks' = FreeAfterWrite(c, p)
      BY <1>7 DEF InPrompt
    <2>2. /\ c \in Ids /\ seq[c].state = "PREFILLING"
          /\ seq[c].held = Layout!BlocksFor(seq[c].kvLen) /\ PrefillPosition(c)
      BY <2>1, AtCurrent
    <2>3. /\ seq[c] \in SeqRecords /\ p \in Nat /\ seq[c].req.prompt \in Nat
          /\ seq[c].kvLen \in Nat /\ seq[c].req.prompt <= WrittenAtMost(seq[c].req)
          /\ WrittenAtMost(seq[c].req) \in Nat
      BY <1>2, <2>2, SeqFields, LiveFields
    <2>4. seq[c].kvLen \in {p, p + 1} /\ p + 1 <= WrittenAtMost(seq[c].req)
      <3>1. Ready(seq[c], p)
        BY <2>1, <2>2, <2>3 DEF PrefillPosition
      <3> QED BY <3>1, <2>1, <2>3 DEF Ready
    <2>5. /\ AfterWrite(c, p) \in SeqRecords
          /\ AfterWrite(c, p).kvLen = p + 1
          /\ AfterWrite(c, p).state = seq[c].state /\ AfterWrite(c, p).req = seq[c].req
          /\ AfterWrite(c, p).gen = seq[c].gen /\ AfterWrite(c, p).reason = seq[c].reason
          /\ AfterWrite(c, p).cursor = seq[c].cursor
      BY <1>2, <2>2, <2>3, <2>4, WriteFields
    <2>6. BaseTypeOK' /\ Queues' /\ Objects' /\ Accounted'
      <3>1. UNCHANGED lists
        BY <1>1
      <3> QED BY <3>1, <2>1, <2>2, <2>3, <2>4, <2>5, OneWritten
    <2>7. TypeOK'
      BY <2>6, <1>1, <1>2, <1>3, <1>5 DEF TypeOK, lists
    <2>8. seq'[c] = AfterWrite(c, p) /\ \A id \in Ids \ {c} : seq'[id] = seq[id]
      BY <1>2, <2>1, <2>2 DEF BaseTypeOK
    <2>9. Positions'
      <3> SUFFICES ASSUME NEW id \in Ids
                   PROVE  /\ seq'[id].state = "PREFILLING" => PrefillPosition(id)'
                          /\ seq'[id].state = "RUNNING" => Ready(seq[id], LastPos(id))'
        BY DEF Positions
      <3>1. CASE id = c
        BY <3>1, <1>3, <2>1, <2>2, <2>5, <2>8 DEF PrefillPosition, Ready
      <3>2. CASE id # c
        <4>1. seq'[id] = seq[id]
          BY <3>2, <2>8
        <4>2. /\ seq[id].state = "PREFILLING" =>
                   seq[id].cursor < seq[id].req.prompt /\ Ready(seq[id], seq[id].cursor)
              /\ seq[id].state = "RUNNING" => Ready(seq[id], LastPos(id))
          BY <3>2, <2>1, OffCurrent
        <4> QED BY <4>1, <4>2, <1>3 DEF PrefillPosition, Ready, LastPos
      <3> QED BY <3>1, <3>2
    <2>10. Refusals' => ~ PoolFitsAny'
      <3>1. \A id \in Ids : /\ seq'[id].req = seq[id].req /\ seq'[id].reason = seq[id].reason
                            /\ seq'[id].state = seq[id].state
        BY <2>5, <2>8
      <3>2. Refusals' => Refusals
        <4>1. Len(<< >>) = 0
          OBVIOUS
        <4> QED BY <4>1, <3>1, <1>1 DEF Refusals
      <3> QED BY <3>1, <3>2, NoNewRefusal DEF IInv
    <2> QED BY <2>6, <2>7, <2>9, <2>10, <1>4 DEF IInv
  <1> QED BY <1>6, <1>7 DEF Throw

-----------------------------------------------------------------------------
(* The invariant, and the properties it implies.                           *)

LEMMA NextInv ==
  ASSUME IInv, [Next]_vars
  PROVE  IInv'
  <1>1. CASE \E r \in Requests : Enqueue(r)
    BY <1>1, EnqueueInv
  <1>2. CASE \E v \in Budgets : SetBudget(v)
    BY <1>2, SetBudgetInv
  <1>3. CASE ClearResults
    BY <1>3, ClearResultsInv
  <1>4. CASE BeginStep \/ FinalizeRunning \/ Admit
    BY <1>4, BeginStepInv, FinalizeRunningInv, AdmitInv
  <1>5. CASE PrefillToken \/ PrefillCapacity \/ PrefillDone \/ GatherBatch
    BY <1>5, PrefillTokenInv, PrefillCapacityInv, PrefillDoneInv, GatherBatchInv
  <1>6. CASE DecodeRow \/ DecodeDone \/ SampleRow \/ EndStep
    BY <1>6, DecodeRowInv, DecodeDoneInv, SampleRowInv, EndStepInv
  <1>7. CASE Throw
    BY <1>7, ThrowInv
  <1>8. CASE UNCHANGED vars
    BY <1>8, StutterInv
  <1>9. CASE Quiescent
    BY <1>8, <1>9 DEF Quiescent
  <1> QED BY <1>1, <1>2, <1>3, <1>4, <1>5, <1>6, <1>7, <1>8, <1>9 DEF Next, InStep

(* Whatever is enqueued, admitted, chunked, decoded, refused or thrown,    *)
(* the inductive invariant holds.                                          *)
THEOREM Invariance == Spec => []IInv
  <1>1. Init => IInv
    BY InitInv
  <1>2. IInv /\ [Next]_vars => IInv'
    BY NextInv
  <1> QED BY <1>1, <1>2, PTL DEF Spec

(* The scheduler's variables keep their types.                             *)
THEOREM TypeCorrect == Spec => []TypeOK
  <1>1. IInv => TypeOK
    BY DEF IInv
  <1> QED BY <1>1, Invariance, PTL

(* Free and held blocks are the pool at every point of a step, whatever    *)
(* was refused or thrown, and an idle scheduler has given all back.        *)
THEOREM BlocksAreConserved == Spec => []BlocksConserved
  <1>1. IInv => BlocksConserved
    <2> SUFFICES ASSUME IInv PROVE BlocksConserved
      OBVIOUS
    <2>1. BlocksAccounted
      BY DEF IInv, Accounted, Objects, Sound, BlocksAccounted
    <2>2. ASSUME Idle PROVE freeBlocks = NumBlocks
      <3>1. ToSet(<< >>) = {}
        BY DEF ToSet
      <3>2. Held \in [Ids -> Nat] /\ HeldBy(Ids) = Total(Held, Ids)
        BY HeldType DEF IInv, TypeOK
      <3>3. ASSUME NEW id \in Ids PROVE Held[id] = 0
        <4>1. seq[id].state \in States
          BY SeqFields DEF IInv, TypeOK
        <4>2. seq[id].state \in {"NONE", "GONE"}
          BY <2>2, <3>1, <4>1 DEF IInv, Queues, Idle, States
        <4>3. /\ seq[id].held = IF seq[id].state = "GONE" THEN 0
                                  ELSE Layout!BlocksFor(seq[id].kvLen)
              /\ seq[id].state = "NONE" => seq[id].kvLen = 0
          BY DEF IInv, Objects, Sound
        <4>4. Layout!BlocksFor(0) = 0
          BY DEF Layout!BlocksFor
        <4> QED BY <4>2, <4>3, <4>4 DEF Held
      <3>4. Total(Held, Ids) = Total(Held, {})
        BY <3>2, <3>3, TotalSupport
      <3>5. Total(Held, {}) = 0
        <4>1. Entries(Held, {}) = {}
          BY EntriesMember
        <4> QED BY <4>1, FS_EmptySet DEF Total
      <3>6. freeBlocks \in Nat /\ freeBlocks + HeldBy(Ids) = NumBlocks
        BY DEF IInv, Accounted, TypeOK, BaseTypeOK
      <3> QED BY <3>2, <3>4, <3>5, <3>6
    <2> QED BY <2>1, <2>2 DEF BlocksConserved
  <1> QED BY <1>1, Invariance, PTL

(* Between two calls every cache stops exactly where the next forward pass *)
(* of its sequence writes, or one further where a pass threw.              *)
THEOREM HistoryIsContiguous == Spec => []HistoryContiguous
  <1>1. IInv => HistoryContiguous
    <2> SUFFICES ASSUME IInv, pc = "out", NEW id \in Ids
                 PROVE  /\ seq[id].state = "WAITING" => seq[id].kvLen = 0
                        /\ seq[id].state = "PREFILLING" =>
                             /\ Ready(seq[id], seq[id].cursor)
                             /\ seq[id].cursor < seq[id].req.prompt
                        /\ seq[id].state = "RUNNING" =>
                             /\ Ready(seq[id], LastPos(id))
                             /\ Len(seq[id].gen) \in 1 .. seq[id].req.max - 1
      BY DEF HistoryContiguous
    <2>1. seq[id].state = "WAITING" => seq[id].kvLen = 0
      BY DEF IInv, Objects, Sound
    <2>2. seq[id].state = "PREFILLING" =>
            Ready(seq[id], seq[id].cursor) /\ seq[id].cursor < seq[id].req.prompt
      BY DEF IInv, Positions, PrefillPosition
    <2>3. seq[id].state = "RUNNING" => Ready(seq[id], LastPos(id))
      BY DEF IInv, Positions, Open
    <2>4. seq[id].state = "RUNNING" => Len(seq[id].gen) \in 1 .. seq[id].req.max - 1
      BY DEF IInv, Objects, Sound
    <2> QED BY <2>1, <2>2, <2>3, <2>4
  <1> QED BY <1>1, Invariance, PTL

(* At most max_concurrent sequences hold blocks, and no write is refused   *)
(* when any max_concurrent of the requests fit the pool together.          *)
THEOREM HoldersAreBounded == Spec => []HoldersBounded
  <1>1. IInv => HoldersBounded
    <2> SUFFICES ASSUME IInv PROVE HoldersBounded
      OBVIOUS
    <2> DEFINE group   == ToSet(prefilling) \cup ToSet(running)
               holders == {id \in Ids : seq[id].held > 0}
    <2>1. /\ prefilling \in Seq(Ids) /\ running \in Seq(Ids) /\ Queues /\ BaseTypeOK
      BY DEF IInv, TypeOK
    <2>2. IsFiniteSet(group) /\ Cardinality(group) <= MaxConcurrent
      <3>1. /\ IsFiniteSet(ToSet(prefilling))
            /\ Cardinality(ToSet(prefilling)) <= Len(prefilling)
            /\ IsFiniteSet(ToSet(running)) /\ Cardinality(ToSet(running)) <= Len(running)
        BY <2>1, ListMembers
      <3>2. Cardinality(group) = Cardinality(ToSet(prefilling)) + Cardinality(ToSet(running))
                                   - Cardinality(ToSet(prefilling) \cap ToSet(running))
            /\ IsFiniteSet(group)
        BY <3>1, FS_Union
      <3>3. Cardinality(ToSet(prefilling) \cap ToSet(running)) = 0
        BY <2>1, FS_EmptySet DEF Queues
      <3>4. /\ Cardinality(ToSet(prefilling)) \in Nat /\ Cardinality(ToSet(running)) \in Nat
            /\ Len(prefilling) \in Nat /\ Len(running) \in Nat /\ MaxConcurrent \in Nat
        BY <2>1, <3>1, FS_CardinalityType, LenProperties, KnobAssumption
      <3>5. Len(prefilling) + Len(running) <= MaxConcurrent
        BY <2>1 DEF Queues
      <3> QED BY <3>1, <3>2, <3>3, <3>4, <3>5
    <2>3. ASSUME NEW id \in holders PROVE id \in group
      <3>1. id \in Ids /\ seq[id].held # 0 /\ seq[id].state \in States
        BY <2>1, SeqFields
      <3>2. seq[id].state \notin {"NONE", "WAITING", "GONE"}
        <4>1. Layout!BlocksFor(0) = 0
          BY DEF Layout!BlocksFor
        <4> QED BY <3>1, <4>1 DEF IInv, Objects, Sound
      <3> QED BY <3>1, <3>2, <2>1 DEF Queues, States
    <2>4. Cardinality(holders) <= MaxConcurrent
      <3>1. holders \in SUBSET group
        BY <2>3
      <3> HIDE DEF holders, group
      <3>2. IsFiniteSet(holders) /\ Cardinality(holders) <= Cardinality(group)
        BY <3>1, <2>2, FS_Subset
      <3>3. /\ Cardinality(holders) \in Nat /\ Cardinality(group) \in Nat
            /\ MaxConcurrent \in Nat
        BY <3>2, <2>2, FS_CardinalityType, KnobAssumption
      <3> QED BY <2>2, <3>2, <3>3
    <2>5. (\E id \in Ids : seq[id].reason = "capacity") => ~ PoolFitsAny
      BY DEF IInv, Refusals
    <2> QED BY <2>4, <2>5 DEF HoldersBounded
  <1> QED BY <1>1, Invariance, PTL

-----------------------------------------------------------------------------
(* The scheduler implements Serving: a step accepts a request, answers the *)
(* sequences it retires, clears the results, or changes nothing a caller   *)
(* sees.                                                                   *)

(* The answers of Serving do not depend on the order it promises.          *)
LEMMA SameAnswers ==
  ASSUME NEW a, Service!Answers(a)
  PROVE  Promise!Answers(a)
  BY Zenon DEF Service!Answers, Promise!Answers, Service!Generate, Promise!Generate,
     Service!Tag, Promise!Tag, Service!IsPrefix, Promise!IsPrefix

(* finalize_finished: the retired sequences are answered, all at once.     *)
LEMMA RetireIsAnswer ==
  ASSUME IInv, NEW list \in Seq(Ids), IsInjective(list),
         \A id \in ToSet(list) : seq[id].state = "FINISHED",
         Retire(list), nextId' = nextId
  PROVE  Promise!Answer \/ UNCHANGED Promise!vars
  <1>1. BaseTypeOK /\ Objects /\ Known
    BY DEF IInv, TypeOK, Queues, Known
  <1>2. /\ list # << >> => AnswersAtOnce(list)
        /\ list = << >> => UNCHANGED << Asked, Pending, results >>
    BY <1>1, RetireAnswers
  <1>3. CASE list = << >>
    BY <1>2, <1>3 DEF Promise!vars
  <1>4. CASE list # << >>
    <2> DEFINE new == SubSeq(results', Len(results) + 1, Len(results'))
               ids == [i \in DOMAIN new |-> new[i].id]
    <2>1. /\ IsStrictPrefix(results, results') /\ ids = list
          /\ \A i \in DOMAIN new : Service!Answers(new[i])
          /\ ToSet(list) \subseteq Pending /\ Pending' = Pending \ ToSet(list)
          /\ Asked' = Asked
      BY <1>2, <1>4 DEF AnswersAtOnce
    <2>2. \A a : Service!Answers(a) => Promise!Answers(a)
      BY SameAnswers
    <2> HIDE DEF new
    <2>3. Promise!IsStrictPrefix(results, results')
      BY <2>1 DEF IsStrictPrefix, IsPrefix, Promise!IsStrictPrefix, Promise!IsPrefix
    <2>4. /\ Promise!IsInjective(ids) /\ Promise!ToSet(ids) \subseteq Pending
          /\ Pending' = Pending \ Promise!ToSet(ids)
      BY <2>1 DEF IsInjective, ToSet, Promise!IsInjective, Promise!ToSet
    <2>5. \A i \in DOMAIN new : Promise!Answers(new[i])
      BY <2>1, <2>2
    <2> QED BY <2>1, <2>3, <2>4, <2>5, Zenon DEF Promise!Answer, new
  <1> QED BY <1>3, <1>4

LEMMA SameChunk ==
  ASSUME BaseTypeOK, NEW c \in Ids
  PROVE  AfterChunkToken(c).req = seq[c].req /\ AfterChunkToken(c).state = seq[c].state
  <1>1. seq[c] \in SeqRecords
    BY SeqFields
  <1> DEFINE w == AfterWrite(c, seq[c].cursor)
  <1>2. [w EXCEPT !.cursor = @ + 1].req = seq[c].req
        /\ [w EXCEPT !.cursor = @ + 1].state = seq[c].state
    BY <1>1 DEF AfterWrite, SeqRecords
  <1> QED BY <1>2 DEF AfterChunkToken

LEMMA EnqueueAccepts ==
  ASSUME IInv, NEW r \in Requests, Enqueue(r)
  PROVE  Promise!Accept
  <1>1. /\ BaseTypeOK /\ nextId < MaxSeqs /\ Accepts(r) /\ results' = results
        /\ seq' = [seq EXCEPT ![nextId] = NewSeq(r)] /\ nextId' = nextId + 1
    BY DEF IInv, TypeOK, Enqueue
  <1>2. Asked' = Append(Asked, r) /\ Pending' = Pending \cup {Len(Asked)}
    BY <1>1, EnqueueAsks
  <1>3. Promise!Accepts(r)
    BY <1>1 DEF Accepts, Promise!Accepts
  <1> QED BY <1>1, <1>2, <1>3 DEF Promise!Accept

LEMMA StepImplements ==
  ASSUME IInv, [Next]_vars
  PROVE  [Promise!Next]_(Promise!vars)
  <1>1. /\ BaseTypeOK /\ Queues
        /\ waiting \in Seq(Ids) /\ prefilling \in Seq(Ids) /\ running \in Seq(Ids)
    BY DEF IInv, TypeOK
  <1>2. ASSUME NEW r \in Requests, Enqueue(r) PROVE Promise!Accept
    BY <1>2, EnqueueAccepts
  <1>3. CASE UNCHANGED << seq, lists >>
    BY <1>1, <1>3, Unseen DEF lists, Promise!vars
  <1>4. CASE ClearResults
    <2>1. UNCHANGED << seq, nextId >> /\ results' = << >>
      BY <1>4 DEF ClearResults
    <2>2. UNCHANGED << Asked, Pending >>
      BY <2>1 DEF Asked, Pending
    <2> QED BY <2>1, <2>2 DEF Promise!ClearResults, Promise!Next
  <1>5. CASE BeginStep
    <2>1. Retire(Finished(prefilling)) /\ nextId' = nextId
      BY <1>5 DEF BeginStep
    <2>2. /\ Finished(prefilling) \in Seq(Ids) /\ IsInjective(Finished(prefilling))
          /\ \A id \in ToSet(Finished(prefilling)) : seq[id].state = "FINISHED"
      BY <1>1, FinalizeSplits DEF Queues
    <2> QED BY <2>1, <2>2, RetireIsAnswer DEF Promise!Next
  <1>6. CASE FinalizeRunning
    <2>1. Retire(Finished(running)) /\ nextId' = nextId
      BY <1>6 DEF FinalizeRunning
    <2>2. /\ Finished(running) \in Seq(Ids) /\ IsInjective(Finished(running))
          /\ \A id \in ToSet(Finished(running)) : seq[id].state = "FINISHED"
      BY <1>1, FinalizeSplits DEF Queues
    <2> QED BY <2>1, <2>2, RetireIsAnswer DEF Promise!Next
  <1>7. CASE Admit
    <2>1. PICK n \in Int :
            /\ seq' = [id \in Ids |-> IF id \in ToSet(SubSeq(waiting, 1, n))
                                        THEN [seq[id] EXCEPT !.state = "PREFILLING"]
                                        ELSE seq[id]]
            /\ n <= Len(waiting) /\ UNCHANGED << nextId, results >>
      <3> DEFINE m == IF Room < Len(waiting) THEN Room ELSE Len(waiting)
      <3>1. m \in Int /\ m <= Len(waiting)
        <4>1. Len(waiting) \in Nat /\ Room \in Int
          BY <1>1, LenProperties, KnobAssumption DEF Room
        <4> QED BY <4>1
      <3>2. seq' = [id \in Ids |-> IF id \in ToSet(SubSeq(waiting, 1, m))
                                     THEN [seq[id] EXCEPT !.state = "PREFILLING"]
                                     ELSE seq[id]]
        BY <1>7 DEF Admit
      <3>3. UNCHANGED << nextId, results >>
        BY <1>7 DEF Admit
      <3> HIDE DEF m
      <3> QED BY <3>1, <3>2, <3>3
    <2>2. ASSUME NEW id \in ToSet(SubSeq(waiting, 1, n)) PROVE id \in ToSet(waiting)
      <3>1. /\ Len(waiting) \in Nat /\ DOMAIN waiting = 1 .. Len(waiting)
            /\ waiting \in [1 .. Len(waiting) -> Ids]
        BY <1>1, LenProperties
      <3>2. \A i \in 1 .. n : waiting[i] \in Ids
        BY <2>1, <3>1
      <3>3. /\ Len(SubSeq(waiting, 1, n)) = IF 1 <= n THEN n - 1 + 1 ELSE 0
            /\ SubSeq(waiting, 1, n) \in Seq(Ids)
            /\ \A i \in 1 .. n - 1 + 1 : SubSeq(waiting, 1, n)[i] = waiting[1 + i - 1]
        <4>1. 1 \in Int /\ n \in Int
          BY <2>1
        <4> QED BY <4>1, <3>2, SubSeqProperties
      <3>4. PICK i \in DOMAIN SubSeq(waiting, 1, n) : id = SubSeq(waiting, 1, n)[i]
        BY DEF ToSet
      <3>5. i \in 1 .. n /\ i \in DOMAIN waiting
        BY <2>1, <3>1, <3>3, <3>4, LenProperties
      <3>6. id = waiting[i]
        BY <2>1, <3>3, <3>4, <3>5
      <3> QED BY <3>5, <3>6 DEF ToSet
    <2>3. ASSUME NEW id \in Ids
          PROVE  /\ seq'[id].req = seq[id].req
                 /\ seq'[id].state = "GONE" <=> seq[id].state = "GONE"
      <3>1. CASE id \in ToSet(SubSeq(waiting, 1, n))
        <4>1. seq[id].state = "WAITING" /\ seq[id] \in SeqRecords
          BY <3>1, <2>2, <1>1, SeqFields DEF Queues
        <4>2. seq'[id] = [seq[id] EXCEPT !.state = "PREFILLING"]
          BY <3>1, <2>1
        <4> QED BY <4>1, <4>2 DEF SeqRecords
      <3>2. CASE id \notin ToSet(SubSeq(waiting, 1, n))
        BY <3>2, <2>1
      <3> QED BY <3>1, <3>2
    <2> QED BY <1>1, <2>1, <2>3, Unseen DEF Promise!vars
  <1>8. CASE PrefillToken \/ PrefillCapacity \/ PrefillDone
    <2> SUFFICES ASSUME NEW c, c = Current PROVE UNCHANGED << Asked, Pending, results >>
      BY DEF Promise!vars
    <2>1. /\ pc = "prefill" /\ it <= Len(prefilling) /\ UNCHANGED << nextId, results >>
          /\ \/ seq' = [seq EXCEPT ![c] = AfterChunkToken(c)]
             \/ seq' = [seq EXCEPT ![c] = Finish(seq[c], "capacity")]
             \/ seq' = [seq EXCEPT ![c] = AfterPrefill(seq[c], logits)]
      BY <1>8 DEF PrefillToken, PrefillCapacity, PrefillDone, InPrompt, lists
    <2>2. c \in Ids /\ seq[c].state # "GONE" /\ seq[c] \in SeqRecords
      BY <2>1, <1>1, AtCurrent, SeqFields
    <2>3. /\ AfterChunkToken(c).req = seq[c].req /\ AfterChunkToken(c).state # "GONE"
          /\ AfterPrefill(seq[c], logits).req = seq[c].req
          /\ AfterPrefill(seq[c], logits).state # "GONE"
          /\ Finish(seq[c], "capacity").req = seq[c].req
          /\ Finish(seq[c], "capacity").state # "GONE"
      BY <2>2, <1>1, SameChunk, SameSequence
    <2> QED BY <2>1, <2>2, <2>3, <1>1, UnseenObject
  <1>9. CASE DecodeRow \/ SampleRow
    <2> SUFFICES ASSUME NEW c, c = batch[it], NEW row, row = rows[it],
                        NEW p, p = LastPos(c)
                 PROVE  UNCHANGED << Asked, Pending, results >>
      BY DEF Promise!vars
    <2>1. /\ pc \in {"decode", "sample"} /\ it <= Len(batch) /\ UNCHANGED << nextId, results >>
          /\ \/ seq' = [seq EXCEPT ![c] = AfterWrite(c, p)]
             \/ seq' = [seq EXCEPT ![c] = Finish(seq[c], "capacity")]
             \/ seq' = [seq EXCEPT ![c] = AfterSample(seq[c], row)]
             \/ seq' = seq
      BY <1>9 DEF DecodeRow, SampleRow, RowOf, lists
    <2>2. c \in Ids /\ seq[c].state # "GONE" /\ seq[c] \in SeqRecords
      BY <2>1, <1>1, AtRow, SeqFields
    <2>3. /\ AfterWrite(c, p).req = seq[c].req /\ AfterWrite(c, p).state # "GONE"
          /\ AfterSample(seq[c], row).req = seq[c].req
          /\ AfterSample(seq[c], row).state # "GONE"
          /\ Finish(seq[c], "capacity").req = seq[c].req
          /\ Finish(seq[c], "capacity").state # "GONE"
      BY <2>2, <1>1, SameWritten, SameSequence
    <2>4. CASE seq' = seq
      BY <2>1, <2>4, <1>1, Unseen
    <2> QED BY <2>1, <2>2, <2>3, <2>4, <1>1, UnseenObject
  <1>10. CASE Throw
    <2> SUFFICES ASSUME NEW c, c = Current, NEW p, p = seq[c].cursor
                 PROVE  UNCHANGED << Asked, Pending, results >>
      BY DEF Promise!vars
    <2>1. /\ UNCHANGED << nextId, results >>
          /\ \/ seq' = seq
             \/ /\ pc = "prefill" /\ it <= Len(prefilling)
                /\ seq' = [seq EXCEPT ![c] = AfterWrite(c, p)]
      BY <1>10 DEF Throw, InPrompt, lists
    <2>2. CASE seq' = seq
      BY <2>1, <2>2, <1>1, Unseen
    <2>3. CASE /\ pc = "prefill" /\ it <= Len(prefilling)
               /\ seq' = [seq EXCEPT ![c] = AfterWrite(c, p)]
      <3>1. c \in Ids /\ seq[c].state # "GONE"
        BY <2>3, AtCurrent
      <3>2. AfterWrite(c, p).req = seq[c].req /\ AfterWrite(c, p).state # "GONE"
        BY <3>1, <1>1, SameWritten
      <3> QED BY <3>1, <3>2, <2>1, <2>3, <1>1, UnseenObject
    <2> QED BY <2>1, <2>2, <2>3
  <1>11. CASE GatherBatch \/ DecodeDone \/ EndStep \/ UNCHANGED vars
    BY <1>3, <1>11 DEF GatherBatch, DecodeDone, EndStep, vars
  <1>12. CASE \E v \in Budgets : SetBudget(v)
    BY <1>3, <1>12 DEF SetBudget
  <1> QED BY <1>2, <1>4, <1>5, <1>6, <1>7, <1>8, <1>9, <1>10, <1>11, <1>12
          DEF Next, InStep, Quiescent, Promise!Next

(* Whatever the batching, the chunking and the calls that throw, each      *)
(* request is answered once, as engine.generate would answer it or with    *)
(* "capacity" and the first of its tokens: every step of the scheduler is  *)
(* a step of Serving, or changes nothing of it.                            *)
THEOREM SchedulerImplementsServing == Spec => ImplementsServing
  <1>1. Init => Promise!Init
    <2> SUFFICES ASSUME Init PROVE Promise!Init
      OBVIOUS
    <2>1. nextId = 0 /\ results = << >>
      BY DEF Init, BaseInit
    <2>2. 1 .. nextId = {} /\ 0 .. nextId - 1 = {}
      BY <2>1
    <2>3. Asked = << >> /\ Pending = {}
      BY <2>2 DEF Asked, Pending
    <2> QED BY <2>1, <2>3 DEF Promise!Init
  <1>2. IInv /\ [Next]_vars => [Promise!Next]_(Promise!vars)
    BY StepImplements
  <1> QED BY <1>1, <1>2, Invariance, PTL DEF Spec, ImplementsServing, Promise!Spec
=============================================================================
