-------------------------- MODULE Parallel_proofs ---------------------------
(***************************************************************************)
(* Proofs about the parallel loops.  ThreadPool: callers of one engine use *)
(* the pool one after the other, and a loop that returned has computed     *)
(* each index once, for every number of threads, callers, jobs and         *)
(* indices.  Kernels: the matrix products, norms and attention heads       *)
(* compute every element once and in one order, for all shapes, numbers of *)
(* threads and thresholds.                                                 *)
(***************************************************************************)
EXTENDS ThreadPool, Kernels, SequencesExt, SequenceTheorems,
        FiniteSetTheorems, FunctionTheorems, TLAPS

-----------------------------------------------------------------------------
(* The even split of size indices over n threads: thread c gets those     *)
(* from (c * size) \div n to below ((c + 1) * size) \div n.              *)

LEMMA DivRange ==
  ASSUME NEW a \in Nat, NEW n \in Nat \ {0}
  PROVE  /\ a \div n \in Nat
         /\ n * (a \div n) <= a /\ a < n * (a \div n) + n
  BY SMT

LEMMA MulMonotone ==
  ASSUME NEW n \in Nat, NEW a \in Nat, NEW b \in Nat, a <= b
  PROVE  /\ n * a \in Nat /\ n * b \in Nat
         /\ n * a <= n * b
  BY SMT

(* A quotient is at most x exactly if the dividend is below n * (x + 1).   *)
LEMMA DivAtMost ==
  ASSUME NEW a \in Nat, NEW n \in Nat \ {0}, NEW x \in Nat
  PROVE  a \div n <= x <=> a < n * (x + 1)
<1> DEFINE q == a \div n
<1>1. q \in Nat /\ n * q <= a /\ a < n * q + n
  BY DivRange
<1>2. n * q + n = n * (q + 1)
  BY <1>1, SMT
<1> HIDE DEF q
<1>3. ASSUME q <= x PROVE a < n * (x + 1)
  <2>1. n * (q + 1) <= n * (x + 1) /\ n * (x + 1) \in Nat /\ n * (q + 1) \in Nat
    BY <1>1, <1>3, MulMonotone
  <2> QED BY <1>1, <1>2, <2>1
<1>4. ASSUME ~ (q <= x) PROVE ~ (a < n * (x + 1))
  <2>1. n * (x + 1) <= n * q /\ n * (x + 1) \in Nat /\ n * q \in Nat
    BY <1>1, <1>4, MulMonotone
  <2> QED BY <1>1, <2>1
<1> QED BY <1>3, <1>4 DEF q

(* Membership in a share, without division: index x belongs to the thread  *)
(* whose multiple of size lies next below n * (x + 1).                    *)
LEMMA ShareMember ==
  ASSUME NEW n \in Nat \ {0}, NEW size \in Nat, NEW x \in 0 .. size - 1, NEW c \in Nat
  PROVE  /\ (c * size) \div n <= x <=> c * size < n * (x + 1)
         /\ x < ((c + 1) * size) \div n <=> n * (x + 1) <= (c + 1) * size
<1>1. c * size \in Nat /\ (c + 1) * size \in Nat /\ x \in Nat
  BY SMT
<1>2. n * (x + 1) \in Nat
  BY <1>1, SMT
<1>3. (c * size) \div n <= x <=> c * size < n * (x + 1)
  BY <1>1, DivAtMost
<1>4. ((c + 1) * size) \div n <= x <=> (c + 1) * size < n * (x + 1)
  BY <1>1, DivAtMost
<1>5. ((c + 1) * size) \div n \in Nat
  BY <1>1, DivRange
<1>6. x < ((c + 1) * size) \div n <=> n * (x + 1) <= (c + 1) * size
  BY <1>1, <1>2, <1>4, <1>5
<1> QED BY <1>3, <1>6

(* Every index is in the share of exactly one thread.                      *)
LEMMA EvenSplit ==
  ASSUME NEW n \in Nat \ {0}, NEW size \in Nat, NEW x \in 0 .. size - 1
  PROVE  \E c \in 0 .. n - 1 :
           /\ (c * size) \div n <= x /\ x < ((c + 1) * size) \div n
           /\ \A d \in 0 .. n - 1 :
                (d * size) \div n <= x /\ x < ((d + 1) * size) \div n => d = c
<1> DEFINE y == n * (x + 1) - 1
           c == y \div size
<1>1. n \in Nat \ {0} /\ size \in Nat \ {0} /\ x \in Nat
  OBVIOUS
<1>2. n * (x + 1) \in Nat \ {0}
  BY <1>1, SMT
<1>3. y \in Nat
  BY <1>2
<1>4. c \in Nat /\ size * c <= y /\ y < size * c + size
  BY <1>1, <1>3, DivRange
<1>5. c * size = size * c /\ (c + 1) * size = size * c + size
      /\ size * c \in Nat
  BY <1>1, <1>4, SMT
<1>6. c * size < n * (x + 1) /\ n * (x + 1) <= (c + 1) * size
  BY <1>2, <1>4, <1>5
<1>7. c \in 0 .. n - 1
  <2>1. n * (x + 1) <= n * size /\ n * size \in Nat
    BY <1>1, MulMonotone
  <2>2. n * size = size * n
    BY <1>1, SMT
  <2>3. ASSUME n <= c PROVE FALSE
    <3>1. size * n <= size * c
      BY <1>1, <1>4, <2>3, MulMonotone
    <3> QED BY <1>2, <1>4, <1>5, <2>1, <2>2, <3>1
  <2> QED BY <1>1, <1>4, <2>3
<1> HIDE DEF c
<1>8. (c * size) \div n <= x /\ x < ((c + 1) * size) \div n
  BY <1>4, <1>6, ShareMember
<1>9. ASSUME NEW d \in 0 .. n - 1,
             (d * size) \div n <= x, x < ((d + 1) * size) \div n
      PROVE  d = c
  <2>1. d \in Nat
    BY <1>1
  <2>2. d * size < n * (x + 1) /\ n * (x + 1) <= (d + 1) * size
    BY <1>9, <2>1, ShareMember
  <2>3. d * size = size * d /\ (d + 1) * size = size * (d + 1)
        /\ (c + 1) * size = size * (c + 1)
    BY <1>1, <1>4, <2>1, SMT
  <2>4. ASSUME d < c PROVE FALSE
    <3>1. size * (d + 1) <= size * c /\ size * (d + 1) \in Nat
      BY <1>1, <1>4, <2>1, <2>4, MulMonotone
    <3> QED BY <1>2, <1>5, <1>6, <2>2, <2>3, <3>1
  <2>5. ASSUME c < d PROVE FALSE
    <3>1. size * (c + 1) <= size * d /\ size * d \in Nat
      BY <1>1, <1>4, <2>1, <2>5, MulMonotone
    <3> QED BY <1>2, <1>5, <1>6, <2>2, <2>3, <3>1
  <2> QED BY <1>4, <2>1, <2>4, <2>5
<1> QED BY <1>7, <1>8, <1>9

(* The discipline that parallel.hpp:5-7 relies on: all callers go through  *)
(* the forward_mu_ of one engine.                                          *)
SameEngine == \A c, d \in Callers : EngineOf[c] = EngineOf[d]

-----------------------------------------------------------------------------
(* Every index of the loop lies in the chunk of exactly one thread         *)
(* (chunk_bounds): no output is computed twice and none is left out.       *)
THEOREM ChunksPartition ==
  ASSUME NEW n \in Nat, NEW x \in 0 .. n - 1
  PROVE  \E c \in Threads :
           /\ x \in Chunk(c, n)
           /\ \A d \in Threads : x \in Chunk(d, n) => d = c
<1>1. NumThreads \in Nat \ {0}
  BY ThreadsAssumption
<1> QED BY <1>1, EvenSplit DEF Threads, Chunk, ChunkLo, ChunkHi

-----------------------------------------------------------------------------
(* The inductive invariant                                                 *)

(* A worker owes its chunk of the posted job until it has finished it.     *)
Owes(w) == generation # seen[w] \/ wpc[w] \in {"run", "finish"}
Owing == {w \in Workers : Owes(w)}

(* Thread k of the pool, the caller being 0, has run its chunk of c's job. *)
Ran(c, k) == IF k = 0 THEN cpc[c] \in {"test", "asleep"}
                      ELSE generation = seen[k] /\ wpc[k] # "run"

Serialized == \A c \in Callers : cpc[c] # "idle" => forwardMu[EngineOf[c]] = c

JobPosted ==
  \A c \in Callers : InLoop(c) =>
    /\ call[c] = [by |-> c, no |-> generation] /\ jobFn = call[c]
    /\ total[c] = jobTotal

(* remaining_ counts the workers that owe; none does when no loop runs.    *)
Counted == remaining = Cardinality(Owing)
NoneOwes == (\A c \in Callers : ~ InLoop(c)) => Owing = {}

OnJob ==
  \A w \in Workers :
    /\ wpc[w] \in {"run", "finish"} => seen[w] = generation
    /\ wpc[w] = "run" => fn[w] = jobFn /\ wtotal[w] = jobTotal

Computed(c, x) == \E k \in Threads : x \in Chunk(k, total[c]) /\ Ran(c, k)

DoneSoFar ==
  \A c \in Callers : \A x \in Indices :
    /\ InLoop(c) => done[c][x] = IF Computed(c, x) THEN 1 ELSE 0
    /\ ~ InLoop(c) => done[c][x] = IF x < total[c] THEN 1 ELSE 0

PoolInv == JobPosted /\ Counted /\ NoneOwes /\ OnJob /\ DoneSoFar
Orderly == PoolTypeOK /\ Serialized /\ PoolInv

(* An exception that leaves workers behind breaks all but types and mutex. *)
PoolIInv == PoolTypeOK /\ Serialized /\ (stray = {} => PoolInv)

-----------------------------------------------------------------------------
(* Typing                                                                  *)

LEMMA WorkersCount ==
  /\ IsFiniteSet(Workers) /\ Cardinality(Workers) = NumThreads - 1
  /\ IsFiniteSet(Owing) /\ Cardinality(Owing) \in Nat
<1>1. NumThreads - 1 \in Int /\ NumThreads - 1 >= 0
  BY ThreadsAssumption
<1>2. IsFiniteSet(Workers) /\ Cardinality(Workers) = NumThreads - 1
  <2> DEFINE last == NumThreads - 1
  <2>1. last \in Int /\ last >= 0
    BY <1>1
  <2> HIDE DEF last
  <2>2. /\ IsFiniteSet(1 .. last)
        /\ Cardinality(1 .. last) = IF 1 > last THEN 0 ELSE last - 1 + 1
    BY <2>1, FS_Interval
  <2>3. Cardinality(1 .. last) = last
    BY <2>1, <2>2
  <2> QED BY <2>2, <2>3 DEF Workers, last
<1>3. Owing \subseteq Workers
  BY DEF Owing
<1> QED BY <1>2, <1>3, FS_Subset, FS_CardinalityType

LEMMA IndicesNat == Indices \subseteq Nat
BY PoolAssumption DEF Indices

LEMMA TotalNat ==
  ASSUME PoolTypeOK, NEW c \in Callers
  PROVE  total[c] \in Nat
<1>1. total[c] \in Totals \cup {0}
  BY DEF PoolTypeOK
<1>2. Totals \subseteq Nat
  BY PoolAssumption
<1>3. \A n \in Totals \cup {0} : n \in Nat
  BY <1>2
<1> QED BY <1>1, <1>3

(* A parallel_for call adds to counters that are numbers.                  *)
LEMMA ComputeTypes ==
  ASSUME NEW j, NEW k, NEW n, Compute(j, k, n), done \in [Callers -> [Indices -> Nat]]
  PROVE  done' \in [Callers -> [Indices -> Nat]]
BY DEF Compute

LEMMA TypesPreserved ==
  ASSUME PoolTypeOK, stray = {} => Counted, [PoolNext]_poolVars
  PROVE  PoolTypeOK'
<1> USE DEF PoolTypeOK
<1>1. ASSUME NEW c \in Callers, LockForward(c) PROVE PoolTypeOK'
  BY <1>1, PoolAssumption DEF LockForward, shared, workers
<1>2. ASSUME NEW c \in Callers, UnlockForward(c) PROVE PoolTypeOK'
  BY <1>2, PoolAssumption DEF UnlockForward, shared, workers
<1>3. ASSUME NEW c \in Callers, NEW n \in Totals, PostJob(c, n) PROVE PoolTypeOK'
  <2>1. ToWaitFor \in 0 .. NumThreads - 1 /\ generation + 1 \in 0 .. MaxJobs
    BY <1>3, ThreadsAssumption, PoolAssumption DEF PostJob, ToWaitFor
  <2>2. [by |-> c, no |-> generation + 1] \in PoolJobs
    BY <2>1 DEF PoolJobs
  <2>3. Fresh \in [Indices -> Nat]
    BY DEF Fresh
  <2> QED BY <1>3, <2>1, <2>2, <2>3 DEF PostJob, workers
<1>4. ASSUME NEW c \in Callers, NotifyStart(c) PROVE PoolTypeOK'
  BY <1>4 DEF NotifyStart, WakeWorkers, shared
<1>5. ASSUME NEW c \in Callers, RunOwnChunk(c) PROVE PoolTypeOK'
  BY <1>5, ComputeTypes DEF RunOwnChunk, shared, workers
<1>6. ASSUME NEW c \in Callers, Join(c) \/ ThrowOwn(c) PROVE PoolTypeOK'
  <2>1. NoFn \in PoolJobs /\ call[c] \in PoolJobs
    BY PoolAssumption DEF NoFn, PoolJobs
  <2>2. CASE Join(c)
    BY <2>1, <2>2 DEF Join, workers
  <2>3. CASE ThrowOwn(c)
    <3>1. Fresh \in [Indices -> Nat]
      BY DEF Fresh
    <3>2. stray' \subseteq PoolJobs /\ (stray' = {} => stray = {})
      BY <2>1, <2>3 DEF ThrowOwn
    <3> QED BY <2>1, <2>3, <3>1, <3>2, PoolAssumption DEF ThrowOwn, workers
  <2> QED BY <1>6, <2>2, <2>3
<1>7. ASSUME NEW c \in Callers, WaitDone(c) \/ SpuriousDone(c) PROVE PoolTypeOK'
  BY <1>7 DEF WaitDone, SpuriousDone, shared, workers
<1>8. ASSUME NEW w \in Workers, Take(w) PROVE PoolTypeOK'
  BY <1>8 DEF Take, shared, callers
<1>9. ASSUME NEW w \in Workers, WaitStart(w) \/ SpuriousStart(w) \/ Exit(w) PROVE PoolTypeOK'
  BY <1>9 DEF WaitStart, SpuriousStart, Exit, shared, callers
<1>10. ASSUME NEW w \in Workers, RunChunk(w) PROVE PoolTypeOK'
  BY <1>10, ComputeTypes DEF RunChunk, shared, callers
<1>11. ASSUME NEW w \in Workers, Finish(w) PROVE PoolTypeOK'
  <2>1. ASSUME stray = {} PROVE remaining - 1 \in 0 .. NumThreads - 1
    <3>1. w \in Owing
      BY <1>11 DEF Finish, Owing, Owes
    <3>2. Cardinality(Owing) # 0
      BY <3>1, WorkersCount, FS_EmptySet
    <3>3. remaining \in 0 .. NumThreads - 1 /\ remaining # 0
      BY <2>1, <3>2 DEF Counted
    <3> QED BY <3>3, ThreadsAssumption
  <2>2. remaining - 1 \in Int
    OBVIOUS
  <2> QED BY <1>11, <2>1, <2>2 DEF Finish
<1>12. CASE BeginShutdown \/ NotifyShutdown \/ JoinWorkers
  BY <1>12 DEF BeginShutdown, NotifyShutdown, JoinWorkers, WakeWorkers, shared, callers, workers
<1>13. CASE Dead \/ UNCHANGED poolVars
  BY <1>13 DEF Dead, poolVars, shared, callers, workers
<1> QED
  BY <1>1, <1>2, <1>3, <1>4, <1>5, <1>6, <1>7, <1>8, <1>9, <1>10, <1>11, <1>12, <1>13
     DEF PoolNext, CallerStep, WorkerStep

-----------------------------------------------------------------------------
(* One loop at a time                                                      *)

(* While forward passes are serialized, so are the loops in them.          *)
LEMMA SerializedLoops == ASSUME SameEngine, Serialized PROVE OneJobAtATime
BY DEF SameEngine, Serialized, OneJobAtATime, InLoop

LEMMA SerializedCallers ==
  ASSUME SameEngine, Serialized, NEW c \in Callers, cpc[c] # "idle"
  PROVE  \A d \in Callers : cpc[d] # "idle" => d = c
BY DEF SameEngine, Serialized

(* While a worker owes, the loop that it owes to is running.               *)
LEMMA OwedByLoop ==
  ASSUME NoneOwes, JobPosted, NEW w \in Workers, Owes(w)
  PROVE  \E c \in Callers : InLoop(c) /\ call[c] = jobFn /\ total[c] = jobTotal
BY DEF NoneOwes, JobPosted, Owing

LEMMA AllJoined ==
  ASSUME Counted, remaining = 0
  PROVE  Owing = {}
BY WorkersCount, FS_EmptySet DEF Counted

-----------------------------------------------------------------------------
(* Steps that only move a thread between the test, the sleep and the wake: *)
(* nobody enters or leaves a loop, and nobody takes, runs or finishes a    *)
(* chunk.                                                                  *)

LEMMA QuietStep ==
  ASSUME PoolInv,
         UNCHANGED << jobFn, jobTotal, remaining, generation, call, total, done, seen,
                      fn, wtotal >>,
         \A c \in Callers :
           /\ InLoop(c)' <=> InLoop(c)
           /\ cpc'[c] \in {"test", "asleep"} <=> cpc[c] \in {"test", "asleep"},
         \A w \in Workers :
           /\ wpc'[w] = "run" <=> wpc[w] = "run"
           /\ wpc'[w] = "finish" <=> wpc[w] = "finish"
  PROVE  PoolInv'
<1> USE DEF PoolInv
<1>1. JobPosted'
  BY DEF JobPosted
<1>2. Owing' = Owing
  BY DEF Owing, Owes
<1>3. Counted' /\ NoneOwes'
  BY <1>2 DEF Counted, NoneOwes
<1>4. OnJob'
  BY DEF OnJob
<1>5. DoneSoFar'
  <2>1. ASSUME NEW c \in Callers, NEW k \in Threads PROVE Ran(c, k)' <=> Ran(c, k)
    BY DEF Ran, Threads, Workers
  <2>2. \A c \in Callers, x \in Indices : Computed(c, x)' <=> Computed(c, x)
    BY <2>1 DEF Computed, Chunk, ChunkLo, ChunkHi
  <2> QED BY <2>2 DEF DoneSoFar
<1> QED BY <1>1, <1>3, <1>4, <1>5

(* Whoever is in a forward pass has the mutex of its engine.               *)
LEMMA StaysSerialized ==
  ASSUME PoolTypeOK, Serialized, [PoolNext]_poolVars
  PROVE  Serialized'
<1> USE DEF PoolTypeOK
<1>1. ASSUME NEW c \in Callers, LockForward(c) PROVE Serialized'
  BY <1>1, PoolAssumption DEF LockForward, Serialized
<1>2. ASSUME NEW c \in Callers, UnlockForward(c) \/ ThrowOwn(c) PROVE Serialized'
  <2>1. /\ forwardMu' = [forwardMu EXCEPT ![EngineOf[c]] = Nobody]
        /\ cpc' = [cpc EXCEPT ![c] = "idle"] /\ cpc[c] # "idle"
    BY <1>2 DEF UnlockForward, ThrowOwn
  <2> QED BY <2>1, PoolAssumption DEF Serialized
<1>3. ASSUME UNCHANGED forwardMu, \A c \in Callers : cpc'[c] # "idle" => cpc[c] # "idle"
      PROVE  Serialized'
  BY <1>3 DEF Serialized
<1>4. ASSUME NEW c \in Callers,
             \/ \E n \in Totals : PostJob(c, n)
             \/ NotifyStart(c) \/ RunOwnChunk(c) \/ Join(c) \/ WaitDone(c) \/ SpuriousDone(c)
      PROVE  Serialized'
  BY <1>3, <1>4 DEF PostJob, NotifyStart, RunOwnChunk, Join, WaitDone, SpuriousDone
<1>5. ASSUME NEW w \in Workers, WorkerStep(w) \/ SpuriousStart(w) PROVE Serialized'
  BY <1>3, <1>5 DEF WorkerStep, Take, WaitStart, SpuriousStart, Exit, RunChunk, Finish, callers
<1>6. CASE BeginShutdown \/ NotifyShutdown \/ JoinWorkers \/ Dead \/ UNCHANGED poolVars
  BY <1>3, <1>6 DEF BeginShutdown, NotifyShutdown, JoinWorkers, Dead, poolVars, callers
<1> QED BY <1>1, <1>2, <1>4, <1>5, <1>6 DEF PoolNext, CallerStep

(* Nothing brings back a worker that an exception left behind.             *)
LEMMA StrayStays == ASSUME [PoolNext]_poolVars, stray' = {} PROVE stray = {}
BY DEF PoolNext, CallerStep, WorkerStep, LockForward, UnlockForward, PostJob, NotifyStart,
       RunOwnChunk, ThrowOwn, Join, WaitDone, SpuriousDone, Take, WaitStart, SpuriousStart,
       Exit, RunChunk, Finish, BeginShutdown, NotifyShutdown, JoinWorkers, Dead, poolVars,
       shared

-----------------------------------------------------------------------------
(* Steps that compute a chunk                                              *)

(* A chunk is computed once, and no index of it was computed before.       *)
LEMMA OneMoreChunk ==
  ASSUME SameEngine, Orderly, NEW c \in Callers, InLoop(c), NEW k \in Threads,
         ~ Ran(c, k), Ran(c, k)', Compute(call[c], k, total[c]),
         \A m \in Threads \ {k} : Ran(c, m)' <=> Ran(c, m),
         \A d \in Callers : InLoop(d)' <=> InLoop(d),
         UNCHANGED total
  PROVE  DoneSoFar'
<1> USE DEF Orderly, PoolInv
<1>1. ASSUME NEW d \in Callers \ {c} PROVE ~ InLoop(d) /\ done'[d] = done[d]
  <2>1. ~ InLoop(d)
    BY <1>1, SerializedCallers DEF InLoop
  <2> QED BY <2>1 DEF Compute, InLoop
<1>2. ASSUME NEW x \in Indices
      PROVE  done'[c][x] = IF Computed(c, x)' THEN 1 ELSE 0
  <2>1. done'[c][x] = IF x \in Chunk(k, total[c]) THEN done[c][x] + 1 ELSE done[c][x]
    BY <1>2 DEF Compute, InLoop
  <2>2. done[c][x] = IF Computed(c, x) THEN 1 ELSE 0
    BY <1>2 DEF DoneSoFar
  <2>3. Computed(c, x)' <=> \E m \in Threads : x \in Chunk(m, total[c]) /\ Ran(c, m)'
    BY DEF Computed, Chunk, ChunkLo, ChunkHi
  <2>4. CASE x \in Chunk(k, total[c])
    <3>1. x \in 0 .. total[c] - 1 /\ total[c] \in Nat
      BY <2>4, TotalNat DEF Chunk
    <3>2. \A m \in Threads : x \in Chunk(m, total[c]) => m = k
      BY <2>4, <3>1, ChunksPartition
    <3>3. ~ Computed(c, x)
      BY <3>2 DEF Computed
    <3> QED BY <2>1, <2>2, <2>3, <2>4, <3>3
  <2>5. CASE x \notin Chunk(k, total[c])
    <3>1. Computed(c, x)' <=> Computed(c, x)
      BY <2>3, <2>5 DEF Computed
    <3> QED BY <2>1, <2>2, <2>5, <3>1
  <2> QED BY <2>4, <2>5
<1> QED BY <1>1, <1>2 DEF DoneSoFar

(* The chunks that all threads have run are the whole loop.                *)
LEMMA AllComputed ==
  ASSUME PoolTypeOK, NEW c \in Callers, \A k \in Threads : Ran(c, k), NEW x \in Indices
  PROVE  Computed(c, x) <=> x < total[c]
<1>1. x \in Nat /\ total[c] \in Nat
  BY IndicesNat, TotalNat
<1>2. ASSUME x < total[c] PROVE Computed(c, x)
  BY <1>1, <1>2, ChunksPartition DEF Computed
<1>3. ASSUME Computed(c, x) PROVE x < total[c]
  BY <1>1, <1>3 DEF Computed, Chunk
<1> QED BY <1>2, <1>3

-----------------------------------------------------------------------------
(* Each operation preserves the invariant                                  *)

LEMMA LockForwardInv ==
  ASSUME Orderly, NEW c \in Callers, LockForward(c)
  PROVE  PoolInv'
BY QuietStep DEF Orderly, PoolTypeOK, LockForward, InLoop, shared, workers

LEMMA UnlockForwardInv ==
  ASSUME Orderly, NEW c \in Callers, UnlockForward(c)
  PROVE  PoolInv'
BY QuietStep DEF Orderly, PoolTypeOK, UnlockForward, InLoop, shared, workers

(* The posted loop is the only one, and every worker owes its chunk.       *)
LEMMA PostInv ==
  ASSUME SameEngine, Orderly, NEW c \in Callers, NEW n \in Totals, PostJob(c, n)
  PROVE  PoolInv'
<1> USE DEF Orderly, PoolInv
<1>1. \A d \in Callers : d # c => ~ InLoop(d) /\ ~ InLoop(d)'
  BY SerializedCallers DEF PostJob, InLoop, PoolTypeOK
<1>2. ~ InLoop(c) /\ InLoop(c)' /\ cpc'[c] = "notify"
  BY DEF PostJob, InLoop, PoolTypeOK
<1>3. Owing = {}
  BY <1>1, <1>2 DEF NoneOwes
<1>4. \A w \in Workers : seen'[w] = generation /\ generation' # seen'[w]
                         /\ wpc'[w] \notin {"run", "finish"}
  BY <1>3 DEF Owing, Owes, PostJob, workers, PoolTypeOK
<1>5. JobPosted'
  <2>1. call'[c] = [by |-> c, no |-> generation'] /\ jobFn' = call'[c]
        /\ total'[c] = jobTotal'
    BY DEF PostJob, PoolTypeOK
  <2> QED BY <1>1, <2>1 DEF JobPosted
<1>6. Counted'
  <2>1. Owing' = Workers
    BY <1>4 DEF Owing, Owes
  <2> QED BY <2>1, WorkersCount DEF Counted, PostJob, ToWaitFor
<1>7. NoneOwes'
  BY <1>2 DEF NoneOwes
<1>8. OnJob'
  BY <1>4 DEF OnJob
<1>9. DoneSoFar'
  <2>1. ASSUME NEW x \in Indices PROVE done'[c][x] = 0 /\ ~ Computed(c, x)'
    <3>1. ~ \E k \in Threads : Ran(c, k)'
      BY <1>2, <1>4 DEF Ran, Threads, Workers
    <3> QED BY <3>1 DEF Computed, PostJob, Fresh, PoolTypeOK
  <2>2. ASSUME NEW d \in Callers, d # c, NEW x \in Indices
        PROVE  done'[d][x] = IF x < total'[d] THEN 1 ELSE 0
    BY <1>1, <2>2 DEF DoneSoFar, PostJob, PoolTypeOK
  <2> QED BY <1>1, <1>2, <2>1, <2>2 DEF DoneSoFar
<1> QED BY <1>5, <1>6, <1>7, <1>8, <1>9

LEMMA RunOwnChunkInv ==
  ASSUME SameEngine, Orderly, NEW c \in Callers, RunOwnChunk(c)
  PROVE  PoolInv'
<1> USE DEF Orderly, PoolInv
<1>1. \A d \in Callers : InLoop(d)' <=> InLoop(d)
  BY DEF RunOwnChunk, InLoop, PoolTypeOK
<1>2. Owing' = Owing
  BY DEF Owing, Owes, RunOwnChunk, shared, workers
<1>3. JobPosted' /\ Counted' /\ NoneOwes' /\ OnJob'
  BY <1>1, <1>2 DEF JobPosted, Counted, NoneOwes, OnJob, RunOwnChunk, shared, workers
<1>4. DoneSoFar'
  <2>1. 0 \in Threads
    BY ThreadsAssumption DEF Threads
  <2>2. InLoop(c) /\ ~ Ran(c, 0) /\ Ran(c, 0)'
    BY DEF RunOwnChunk, InLoop, Ran, PoolTypeOK
  <2>3. \A m \in Threads \ {0} : Ran(c, m)' <=> Ran(c, m)
    BY DEF Ran, RunOwnChunk, shared, workers
  <2> QED BY <1>1, <2>1, <2>2, <2>3, OneMoreChunk DEF RunOwnChunk
<1> QED BY <1>3, <1>4

(* The loop returns when all threads have run their chunks of it.          *)
LEMMA JoinInv ==
  ASSUME SameEngine, Orderly, NEW c \in Callers, Join(c)
  PROVE  PoolInv'
<1> USE DEF Orderly, PoolInv
<1>1. InLoop(c) /\ \A d \in Callers : ~ InLoop(d)'
  BY SerializedCallers DEF Join, InLoop, PoolTypeOK
<1>2. Owing = {} /\ Owing' = Owing
  BY AllJoined DEF Join, Owing, Owes, workers
<1>3. JobPosted' /\ NoneOwes'
  BY <1>1, <1>2 DEF JobPosted, NoneOwes
<1>4. Counted' /\ OnJob'
  BY <1>2 DEF Counted, OnJob, Join, Owing, Owes, workers
<1>5. DoneSoFar'
  <2>1. \A k \in Threads : Ran(c, k)
    BY <1>2 DEF Ran, Threads, Workers, Owing, Owes, Join
  <2>2. \A x \in Indices : done[c][x] = IF x < total[c] THEN 1 ELSE 0
    BY <1>1, <2>1, AllComputed DEF DoneSoFar
  <2>3. \A d \in Callers : d # c => ~ InLoop(d)
    BY SerializedCallers DEF Join, InLoop
  <2> QED BY <1>1, <2>2, <2>3 DEF DoneSoFar, Join
<1> QED BY <1>3, <1>4, <1>5

(* An exception that no worker owes at is the end of its loop alone.       *)
LEMMA ThrowInv ==
  ASSUME SameEngine, Orderly, NEW c \in Callers, ThrowOwn(c), remaining = 0
  PROVE  PoolInv'
<1> USE DEF Orderly, PoolInv
<1>1. \A d \in Callers : ~ InLoop(d)'
  BY SerializedCallers DEF ThrowOwn, InLoop, PoolTypeOK
<1>2. Owing = {} /\ Owing' = Owing
  BY AllJoined DEF ThrowOwn, Owing, Owes, workers
<1>3. JobPosted' /\ NoneOwes'
  BY <1>1, <1>2 DEF JobPosted, NoneOwes
<1>4. Counted' /\ OnJob'
  BY <1>2 DEF Counted, OnJob, ThrowOwn, Owing, Owes, workers
<1>5. DoneSoFar'
  <2>1. ASSUME NEW x \in Indices PROVE done'[c][x] = IF x < total'[c] THEN 1 ELSE 0
    <3>1. done'[c] = Fresh /\ total'[c] = 0 /\ ~ (x < 0)
      BY <2>1, IndicesNat DEF ThrowOwn, PoolTypeOK
    <3> QED BY <3>1 DEF Fresh
  <2>2. ASSUME NEW d \in Callers, d # c
        PROVE  ~ InLoop(d) /\ done'[d] = done[d] /\ total'[d] = total[d]
    BY <2>2, SerializedCallers DEF ThrowOwn, InLoop, PoolTypeOK
  <2> QED BY <1>1, <2>1, <2>2 DEF DoneSoFar
<1> QED BY <1>3, <1>4, <1>5

LEMMA CallerMovesInv ==
  ASSUME Orderly, NEW c \in Callers, NotifyStart(c) \/ WaitDone(c) \/ SpuriousDone(c)
  PROVE  PoolInv'
<1> USE DEF Orderly, PoolTypeOK
<1>1. CASE NotifyStart(c)
  BY <1>1, QuietStep DEF NotifyStart, WakeWorkers, InLoop, shared
<1>2. CASE WaitDone(c) \/ SpuriousDone(c)
  BY <1>2, QuietStep DEF WaitDone, SpuriousDone, InLoop, shared, workers
<1> QED BY <1>1, <1>2

LEMMA WorkerMovesInv ==
  ASSUME Orderly, NEW w \in Workers, WaitStart(w) \/ SpuriousStart(w) \/ Exit(w)
  PROVE  PoolInv'
BY QuietStep
   DEF Orderly, PoolTypeOK, WaitStart, SpuriousStart, Exit, InLoop, shared, callers

(* The worker still owes: it has the job, and has not run it.              *)
LEMMA TakeInv ==
  ASSUME Orderly, NEW w \in Workers, Take(w)
  PROVE  PoolInv'
<1> USE DEF Orderly, PoolInv
<1>1. \A v \in Workers : Owes(v)' <=> Owes(v)
  BY DEF Take, Owes, PoolTypeOK, shared
<1>2. Owing' = Owing
  BY <1>1 DEF Owing
<1>3. JobPosted' /\ Counted' /\ NoneOwes'
  BY <1>2 DEF JobPosted, Counted, NoneOwes, Take, InLoop, shared, callers
<1>4. OnJob'
  BY DEF OnJob, Take, PoolTypeOK, shared
<1>5. DoneSoFar'
  <2>1. ASSUME NEW c \in Callers, NEW k \in Threads PROVE Ran(c, k)' <=> Ran(c, k)
    BY DEF Ran, Threads, Workers, Take, PoolTypeOK, shared, callers
  <2>2. \A c \in Callers, x \in Indices : Computed(c, x)' <=> Computed(c, x)
    BY <2>1 DEF Computed, Chunk, ChunkLo, ChunkHi, Take, callers
  <2> QED BY <2>2 DEF DoneSoFar, Take, InLoop, callers
<1> QED BY <1>3, <1>4, <1>5

(* What the worker runs is its chunk of the one loop that waits for it.    *)
LEMMA RunChunkInv ==
  ASSUME SameEngine, Orderly, NEW w \in Workers, RunChunk(w)
  PROVE  PoolInv'
<1> USE DEF Orderly, PoolInv
<1>1. \A v \in Workers : Owes(v)' <=> Owes(v)
  BY DEF RunChunk, Owes, PoolTypeOK, shared
<1>2. Owing' = Owing
  BY <1>1 DEF Owing
<1>3. JobPosted' /\ Counted' /\ NoneOwes'
  BY <1>2 DEF JobPosted, Counted, NoneOwes, RunChunk, InLoop, shared, callers
<1>4. OnJob'
  BY DEF OnJob, RunChunk, PoolTypeOK, shared
<1>5. DoneSoFar'
  <2>1. PICK c \in Callers : InLoop(c) /\ call[c] = jobFn /\ total[c] = jobTotal
    BY OwedByLoop DEF RunChunk, Owes
  <2>2. seen[w] = generation /\ fn[w] = call[c] /\ wtotal[w] = total[c]
    BY <2>1 DEF OnJob, RunChunk
  <2>3. w \in Threads /\ w # 0
    BY ThreadsAssumption DEF Threads, Workers
  <2>4. ~ Ran(c, w) /\ Ran(c, w)'
    BY <2>2, <2>3 DEF Ran, RunChunk, PoolTypeOK, shared
  <2>5. \A m \in Threads \ {w} : Ran(c, m)' <=> Ran(c, m)
    BY DEF Ran, Threads, Workers, RunChunk, PoolTypeOK, shared, callers
  <2>6. \A d \in Callers : InLoop(d)' <=> InLoop(d)
    BY DEF RunChunk, InLoop, callers
  <2>7. Compute(call[c], w, total[c]) /\ UNCHANGED total
    BY <2>2 DEF RunChunk, callers
  <2> QED BY <2>1, <2>3, <2>4, <2>5, <2>6, <2>7, OneMoreChunk
<1> QED BY <1>3, <1>4, <1>5

(* One worker less owes, and remaining_ says so.                           *)
LEMMA FinishInv ==
  ASSUME Orderly, NEW w \in Workers, Finish(w)
  PROVE  PoolInv'
<1> USE DEF Orderly, PoolInv
<1>1. \A c \in Callers :
        /\ cpc'[c] = cpc[c] \/ (cpc[c] = "asleep" /\ cpc'[c] = "test")
        /\ InLoop(c)' <=> InLoop(c)
  BY DEF Finish, InLoop, PoolTypeOK
<1>2. w \in Owing /\ Owing' = Owing \ {w}
  <2>1. seen[w] = generation /\ wpc[w] = "finish"
    BY DEF OnJob, Finish
  <2>2. \A v \in Workers : Owes(v)' <=> Owes(v) /\ v # w
    BY <2>1 DEF Finish, Owes, PoolTypeOK
  <2> QED BY <2>1, <2>2 DEF Owing, Owes
<1>3. Counted'
  BY <1>2, WorkersCount, FS_RemoveElement DEF Counted, Finish
<1>4. JobPosted' /\ NoneOwes'
  BY <1>1, <1>2 DEF JobPosted, NoneOwes, Finish
<1>5. OnJob'
  BY DEF OnJob, Finish, PoolTypeOK
<1>6. DoneSoFar'
  <2>1. ASSUME NEW c \in Callers, NEW k \in Threads PROVE Ran(c, k)' <=> Ran(c, k)
    <3>1. CASE k = 0
      BY <1>1, <3>1 DEF Ran
    <3>2. CASE k # 0
      BY <3>2 DEF Ran, Threads, Workers, Finish, PoolTypeOK
    <3> QED BY <3>1, <3>2
  <2>2. \A c \in Callers, x \in Indices : Computed(c, x)' <=> Computed(c, x)
    BY <2>1 DEF Computed, Chunk, ChunkLo, ChunkHi, Finish
  <2> QED BY <1>1, <2>2 DEF DoneSoFar, Finish
<1> QED BY <1>3, <1>4, <1>5, <1>6

LEMMA ShutdownInv ==
  ASSUME Orderly, BeginShutdown \/ NotifyShutdown \/ JoinWorkers \/ Dead \/ UNCHANGED poolVars
  PROVE  PoolInv'
<1> USE DEF Orderly, PoolTypeOK
<1>1. UNCHANGED << callers, done, jobFn, jobTotal, remaining, generation, seen, fn, wtotal >>
  BY DEF BeginShutdown, NotifyShutdown, JoinWorkers, Dead, poolVars, shared, workers
<1>2. \A w \in Workers : /\ wpc'[w] = "run" <=> wpc[w] = "run"
                         /\ wpc'[w] = "finish" <=> wpc[w] = "finish"
  BY DEF BeginShutdown, NotifyShutdown, JoinWorkers, Dead, poolVars, WakeWorkers, workers
<1> QED BY <1>1, <1>2, QuietStep DEF InLoop, callers

-----------------------------------------------------------------------------
(* The theorems                                                            *)

LEMMA InitInv == PoolInit => PoolIInv
<1> SUFFICES ASSUME PoolInit PROVE PoolIInv
  OBVIOUS
<1> USE DEF PoolInit
<1>1. PoolTypeOK
  <2>1. 0 \in 0 .. NumThreads - 1 /\ 0 \in 0 .. MaxJobs
    BY ThreadsAssumption, PoolAssumption
  <2>2. NoFn \in PoolJobs
    BY <2>1 DEF NoFn, PoolJobs
  <2>3. remaining \in Int /\ stray \subseteq PoolJobs
    OBVIOUS
  <2>4. /\ done \in [Callers -> [Indices -> Nat]]
        /\ forwardMu \in [Engines -> Callers \cup {Nobody}]
    BY DEF Fresh
  <2>5. shutdown \in BOOLEAN
    BY Zenon
  <2> QED BY <2>1, <2>2, <2>3, <2>4, <2>5 DEF PoolTypeOK
<1>2. Serialized /\ JobPosted /\ OnJob
  BY DEF Serialized, JobPosted, InLoop, OnJob
<1>3. Owing = {}
  BY DEF Owing, Owes
<1>4. Counted /\ NoneOwes
  BY <1>3, FS_EmptySet DEF Counted, NoneOwes
<1>5. DoneSoFar
  BY IndicesNat DEF DoneSoFar, InLoop, Fresh
<1> QED BY <1>1, <1>2, <1>4, <1>5 DEF PoolIInv, PoolInv

(* As long as no exception has left a worker behind.                       *)
LEMMA NextPoolInv ==
  ASSUME SameEngine, Orderly, [PoolNext]_poolVars, stray = {}, stray' = {}
  PROVE  PoolInv'
<1>1. ASSUME NEW c \in Callers, ThrowOwn(c) PROVE PoolInv'
  <2>1. remaining = 0
    BY <1>1 DEF ThrowOwn
  <2> QED BY <1>1, <2>1, ThrowInv
<1> QED
  BY <1>1, LockForwardInv, UnlockForwardInv, PostInv, RunOwnChunkInv, JoinInv,
     CallerMovesInv, WorkerMovesInv, TakeInv, RunChunkInv, FinishInv, ShutdownInv
     DEF PoolNext, CallerStep, WorkerStep

LEMMA NextInv ==
  ASSUME SameEngine, PoolIInv, [PoolNext]_poolVars
  PROVE  PoolIInv'
<1>1. PoolTypeOK'
  BY TypesPreserved DEF PoolIInv, PoolInv
<1>2. Serialized'
  BY StaysSerialized DEF PoolIInv
<1>3. ASSUME stray' = {} PROVE PoolInv'
  <2>1. stray = {}
    BY <1>3, StrayStays
  <2> QED BY <1>3, <2>1, NextPoolInv DEF PoolIInv, Orderly
<1> QED BY <1>1, <1>2, <1>3 DEF PoolIInv

LEMMA InvariantHolds == ASSUME SameEngine PROVE PoolSpec => []PoolIInv
BY InitInv, NextInv, PTL DEF PoolSpec

(* The state keeps its types; remaining_, from which every worker          *)
(* subtracts, stays within 0 .. n_ - 1 until an exception leaves a worker  *)
(* behind.                                                                 *)
THEOREM PoolTypes == ASSUME SameEngine PROVE PoolSpec => []PoolTypeOK
<1>1. PoolIInv => PoolTypeOK
  BY DEF PoolIInv
<1> QED BY <1>1, InvariantHolds, PTL

(* Two callers of one engine are never both inside parallel_for            *)
(* (parallel.cpp:33, "Only one job runs at a time").                       *)
THEOREM OneJobHolds == ASSUME SameEngine PROVE PoolSpec => []OneJobAtATime
<1>1. PoolIInv => OneJobAtATime
  BY SerializedLoops DEF PoolIInv
<1> QED BY <1>1, InvariantHolds, PTL

(* When parallel_for returns, each index was computed by one thread: the   *)
(* chunks of all threads, each run once, are the whole range.  Exceptions  *)
(* of the submitter's own chunk are steps of the specification; the claim  *)
(* ends with one that leaves while a worker owes (stray).                  *)
THEOREM EachIndexOnceHolds == ASSUME SameEngine PROVE PoolSpec => []EachIndexOnce
<1>1. ASSUME PoolIInv PROVE EachIndexOnce
  <2> SUFFICES ASSUME stray = {}, NEW c \in Callers, NEW x \in Indices
               PROVE  /\ done[c][x] <= IF x < total[c] THEN 1 ELSE 0
                      /\ cpc[c] \in {"idle", "forward"} /\ x < total[c] => done[c][x] = 1
    BY DEF EachIndexOnce
  <2>1. x \in Nat /\ total[c] \in Nat
    BY <1>1, IndicesNat, TotalNat DEF PoolIInv
  <2>2. InLoop(c) => done[c][x] = IF Computed(c, x) THEN 1 ELSE 0
    BY <1>1 DEF PoolIInv, PoolInv, DoneSoFar
  <2>3. ~ InLoop(c) => done[c][x] = IF x < total[c] THEN 1 ELSE 0
    BY <1>1 DEF PoolIInv, PoolInv, DoneSoFar
  <2>4. Computed(c, x) => x < total[c]
    BY <2>1 DEF Computed, Chunk
  <2> QED BY <2>1, <2>2, <2>3, <2>4 DEF InLoop
<1> QED BY <1>1, InvariantHolds, PTL

(* The std::function a worker is about to call belongs to a parallel_for   *)
(* that has not returned, and the loop length it took is that call's,      *)
(* until an exception leaves parallel_for while a worker owes (stray):     *)
(* exceptions that leave later do not matter, and there are no others.     *)
THEOREM FnAliveHolds == ASSUME SameEngine PROVE PoolSpec => []FnAlive
<1>1. ASSUME PoolIInv PROVE FnAlive
  <2> SUFFICES ASSUME stray = {}, NEW w \in Workers, wpc[w] = "run"
               PROVE  \E c \in Callers :
                        InLoop(c) /\ fn[w] = call[c] /\ wtotal[w] = total[c]
    BY DEF FnAlive
  <2>1. fn[w] = jobFn /\ wtotal[w] = jobTotal
    BY <1>1 DEF PoolIInv, PoolInv, OnJob
  <2> QED BY <1>1, <2>1, OwedByLoop DEF PoolIInv, PoolInv, Owes
<1> QED BY <1>1, InvariantHolds, PTL
-----------------------------------------------------------------------------
(* Chunks                                                                  *)

LEMMA ChunkRange ==
  ASSUME NEW size \in Nat, NEW c \in Threads
  PROVE  /\ ChunkLo(c, size) \in 0 .. ChunkHi(c, size)
         /\ ChunkHi(c, size) \in 0 .. size
<1>1. /\ NumThreads \in Nat \ {0} /\ c \in Nat /\ c + 1 <= NumThreads
      /\ c * size \in Nat /\ (c + 1) * size \in Nat
      /\ c * size <= (c + 1) * size
  BY ThreadsAssumption, SMT DEF Threads
<1>2. /\ ChunkLo(c, size) \in Nat /\ ChunkHi(c, size) \in Nat
      /\ NumThreads * ChunkHi(c, size) <= (c + 1) * size
      /\ (c + 1) * size < NumThreads * ChunkHi(c, size) + NumThreads
  BY <1>1, DivRange DEF ChunkLo, ChunkHi
<1>3. NumThreads * (ChunkHi(c, size) + 1) = NumThreads * ChunkHi(c, size) + NumThreads
  BY <1>1, <1>2, SMT
<1>4. ChunkLo(c, size) <= ChunkHi(c, size)
  <2>1. c * size < NumThreads * (ChunkHi(c, size) + 1)
    <3> HIDE DEF ChunkHi
    <3>1. NumThreads * ChunkHi(c, size) \in Nat
      BY <1>1, <1>2, SMT
    <3> QED BY <1>1, <1>2, <1>3, <3>1
  <2>2. ChunkHi(c, size) \in Nat
    BY <1>2
  <2> HIDE DEF ChunkHi
  <2> QED BY <1>1, <2>1, <2>2, DivAtMost DEF ChunkLo
<1>5. ChunkHi(c, size) <= size
  <2>1. (c + 1) * size <= NumThreads * size /\ NumThreads * size \in Nat
    <3>1. size * (c + 1) <= size * NumThreads
      <4>1. CASE size = 0
        BY <4>1, <1>1
      <4>2. CASE size # 0
        BY <4>2, <1>1, MulMonotone
      <4> QED BY <4>1, <4>2
    <3>2. size * (c + 1) = (c + 1) * size /\ size * NumThreads = NumThreads * size
      BY <1>1, SMT
    <3> QED BY <1>1, <3>1, <3>2, SMT
  <2>2. NumThreads * (size + 1) = NumThreads * size + NumThreads
    BY <1>1, SMT
  <2>3. (c + 1) * size < NumThreads * (size + 1)
    BY <1>1, <2>1, <2>2
  <2> QED BY <1>1, <2>3, DivAtMost DEF ChunkHi
<1> QED BY <1>2, <1>4, <1>5

-----------------------------------------------------------------------------
(* Jobs                                                                    *)

Jobs == Products \cup Attentions

LEMMA JobShape ==
  ASSUME NEW j \in Jobs
  PROVE  /\ Rows(j) \in Nat \ {0} /\ j # NoJob
         /\ j \in Products => /\ j.op \in {"matmul", "norm"} /\ j.op # "attention"
                              /\ {j.M, j.N, j.K} \subseteq Nat \ {0}
                              /\ Rows(j) = j.N
                              /\ j.kind \in {"scalar", "neon", "neon_int8"}
                              /\ j.op = "norm" => j.M = 1 /\ j.N = 1
         /\ j \in Attentions => j.op = "attention" /\ j \notin Products
  BY JobsAssumption DEF Jobs, Rows, NoJob

LEMMA RowRange ==
  ASSUME NEW j \in Jobs, NEW t \in Threads
  PROVE  /\ First(j, t) \in Nat /\ End(j, t) \in Nat
         /\ First(j, t) <= End(j, t) /\ End(j, t) <= Rows(j)
<1>1. CASE Forked(j)
  BY <1>1, JobShape, ChunkRange DEF First, End
<1>2. CASE ~ Forked(j)
  BY <1>2, JobShape DEF First, End
<1> QED BY <1>1, <1>2

(* Every row of a job belongs to exactly one thread.                       *)
LEMMA RowsPartition ==
  ASSUME NEW j \in Jobs, NEW x \in 0 .. Rows(j) - 1
  PROVE  \E t \in Threads :
           /\ First(j, t) <= x /\ x < End(j, t)
           /\ \A u \in Threads : First(j, u) <= x /\ x < End(j, u) => u = t
<1>1. CASE Forked(j)
  <2>1. Rows(j) \in Nat
    BY JobShape
  <2>2. PICK t \in Threads :
          /\ x \in Chunk(t, Rows(j))
          /\ \A u \in Threads : x \in Chunk(u, Rows(j)) => u = t
    BY <2>1, ChunksPartition
  <2> QED BY <1>1, <2>2 DEF Chunk, First, End
<1>2. CASE ~ Forked(j)
  <2>1. 0 \in Threads
    BY ThreadsAssumption DEF Threads
  <2>2. x \in Nat /\ \A u \in Threads : u # 0 => End(j, u) = 0
    BY <1>2, JobShape DEF End
  <2>3. End(j, 0) = Rows(j) /\ First(j, 0) = 0 /\ x < Rows(j)
    BY <1>2, JobShape DEF First, End
  <2> QED BY <2>1, <2>2, <2>3
<1> QED BY <1>1, <1>2

-----------------------------------------------------------------------------
(* Sums                                                                    *)

(* The first k terms of a row's sum, as Lane lays them out.                *)
Prefix(j, k) == [i \in 1 .. k |-> << i - 1, Lane(j.kind, j.K, i - 1) >>]

(* Where the loops can be: inside the wide part at a multiple of Wide,     *)
(* inside the narrow part at a multiple of Narrow.                         *)
Aligned(j, k) ==
  /\ j.kind # "scalar" /\ k <= Wide * (j.K \div Wide) => k % Wide = 0
  /\ j.kind = "neon" /\ k >= Wide * (j.K \div Wide) /\ k <= Narrow * (j.K \div Narrow)
       => k % Narrow = 0

LEMMA PrefixSeq ==
  ASSUME NEW j \in Products, NEW k \in Nat
  PROVE  /\ Prefix(j, k) \in Seq(Nat \X Int) /\ Len(Prefix(j, k)) = k
         /\ \A i \in 1 .. k : Prefix(j, k)[i] = << i - 1, Lane(j.kind, j.K, i - 1) >>
<1>1. \A i \in 1 .. k : Lane(j.kind, j.K, i - 1) \in Int
  <2> SUFFICES ASSUME NEW i \in 1 .. k PROVE Lane(j.kind, j.K, i - 1) \in Int
    OBVIOUS
  <2>1. j.K \in Nat /\ j.kind \in {"scalar", "neon", "neon_int8"}
    BY JobShape DEF Jobs
  <2> QED BY <2>1 DEF Lane, Scalar, Wide, Narrow
<1> QED BY <1>1 DEF Prefix

LEMMA ConcatIs ==
  ASSUME NEW S, NEW p \in Seq(S), NEW q \in Seq(S), NEW r \in Seq(S),
         Len(r) = Len(p) + Len(q),
         \A i \in 1 .. Len(p) : r[i] = p[i],
         \A i \in 1 .. Len(q) : r[Len(p) + i] = q[i]
  PROVE  p \o q = r
<1>1. /\ p \o q \in Seq(S) /\ Len(p \o q) = Len(p) + Len(q)
      /\ Len(p) \in Nat /\ Len(q) \in Nat
  BY ConcatProperties, LenProperties
<1>2. \A i \in 1 .. Len(p \o q) : (p \o q)[i] = r[i]
  <2> SUFFICES ASSUME NEW i \in 1 .. Len(p) + Len(q) PROVE (p \o q)[i] = r[i]
    BY <1>1
  <2>1. (p \o q)[i] = IF i <= Len(p) THEN p[i] ELSE q[i - Len(p)]
    BY ConcatProperties
  <2>2. CASE i <= Len(p)
    BY <2>1, <2>2, <1>1
  <2>3. CASE ~ (i <= Len(p))
    <3>1. i - Len(p) \in 1 .. Len(q) /\ Len(p) + (i - Len(p)) = i
      BY <2>3, <1>1
    <3> QED BY <2>1, <2>3, <3>1
  <2> QED BY <2>2, <2>3
<1> QED BY <1>1, <1>2, SeqEqual

(* w further terms, in lanes 0 to w - 1, extend the prefix.                *)
LEMMA AppendLanes ==
  ASSUME NEW j \in Products, NEW k \in Nat, NEW w \in Nat,
         \A l \in 1 .. w : Lane(j.kind, j.K, k + l - 1) = l - 1
  PROVE  Prefix(j, k) \o Lanes(k, w) = Prefix(j, k + w)
<1> DEFINE p == Prefix(j, k)  q == Lanes(k, w)  r == Prefix(j, k + w)
<1>1. /\ p \in Seq(Nat \X Int) /\ Len(p) = k
      /\ \A i \in 1 .. k : p[i] = << i - 1, Lane(j.kind, j.K, i - 1) >>
  BY PrefixSeq
<1>2. /\ r \in Seq(Nat \X Int) /\ Len(r) = k + w
      /\ \A i \in 1 .. k + w : r[i] = << i - 1, Lane(j.kind, j.K, i - 1) >>
  <2>1. k + w \in Nat
    OBVIOUS
  <2> QED BY <2>1, PrefixSeq
<1>3. /\ q \in Seq(Nat \X Int) /\ Len(q) = w
      /\ \A i \in 1 .. w : q[i] = << k + i - 1, i - 1 >>
  BY DEF Lanes
<1> HIDE DEF p, q, r
<1>4. \A i \in 1 .. k : r[i] = p[i]
  <2> SUFFICES ASSUME NEW i \in 1 .. k PROVE r[i] = p[i]
    OBVIOUS
  <2>1. i \in 1 .. k + w
    OBVIOUS
  <2> QED BY <1>1, <1>2, <2>1, Zenon
<1>5. \A i \in 1 .. w : r[k + i] = q[i]
  <2> SUFFICES ASSUME NEW i \in 1 .. w PROVE r[k + i] = q[i]
    OBVIOUS
  <2>1. k + i \in 1 .. k + w /\ Lane(j.kind, j.K, k + i - 1) = i - 1
    OBVIOUS
  <2>2. r[k + i] = << k + i - 1, Lane(j.kind, j.K, k + i - 1) >>
    BY ONLY <1>2, <2>1, k \in Nat, SMT
  <2>3. q[i] = << k + i - 1, i - 1 >>
    BY <1>3, Zenon
  <2> QED BY <2>1, <2>2, <2>3, Zenon
<1>6. /\ Len(r) = Len(p) + Len(q)
      /\ \A i \in 1 .. Len(p) : r[i] = p[i]
      /\ \A i \in 1 .. Len(q) : r[Len(p) + i] = q[i]
  BY <1>1, <1>2, <1>3, <1>4, <1>5, Zenon
<1>7. p \o q = r
  BY <1>1, <1>2, <1>3, <1>6, ConcatIs, Zenon
<1> QED BY <1>7 DEF p, q, r

(* One term in the scalar lane extends the prefix.                         *)
LEMMA AppendScalar ==
  ASSUME NEW j \in Products, NEW k \in Nat, Lane(j.kind, j.K, k) = Scalar
  PROVE  Prefix(j, k) \o << << k, Scalar >> >> = Prefix(j, k + 1)
<1> DEFINE p == Prefix(j, k)  q == << << k, Scalar >> >>  r == Prefix(j, k + 1)
<1>1. /\ p \in Seq(Nat \X Int) /\ Len(p) = k
      /\ \A i \in 1 .. k : p[i] = << i - 1, Lane(j.kind, j.K, i - 1) >>
  BY PrefixSeq
<1>2. /\ r \in Seq(Nat \X Int) /\ Len(r) = k + 1
      /\ \A i \in 1 .. k + 1 : r[i] = << i - 1, Lane(j.kind, j.K, i - 1) >>
  <2>1. k + 1 \in Nat
    OBVIOUS
  <2> QED BY <2>1, PrefixSeq
<1>3. q \in Seq(Nat \X Int) /\ Len(q) = 1 /\ q[1] = << k, Scalar >>
  BY DEF Scalar
<1> HIDE DEF p, q, r
<1>4. \A i \in 1 .. k : r[i] = p[i]
  <2> SUFFICES ASSUME NEW i \in 1 .. k PROVE r[i] = p[i]
    OBVIOUS
  <2>1. i \in 1 .. k + 1
    OBVIOUS
  <2> QED BY <1>1, <1>2, <2>1, Zenon
<1>5. (k + 1) - 1 = k /\ k + 1 \in 1 .. k + 1
  OBVIOUS
<1>6. r[k + 1] = << k, Scalar >>
  BY <1>2, <1>5
<1>7. \A i \in 1 .. 1 : r[k + i] = q[i]
  BY <1>3, <1>6
<1>8. /\ Len(r) = Len(p) + Len(q)
      /\ \A i \in 1 .. Len(p) : r[i] = p[i]
      /\ \A i \in 1 .. Len(q) : r[Len(p) + i] = q[i]
  BY <1>1, <1>2, <1>3, <1>4, <1>7, Zenon
<1>9. p \o q = r
  BY <1>1, <1>2, <1>3, <1>8, ConcatIs, Zenon
<1> QED BY <1>9 DEF p, q, r

-----------------------------------------------------------------------------
(* The three loops                                                         *)

LEMMA WideLanes ==
  ASSUME NEW j \in Products, NEW k \in Nat, Aligned(j, k),
         j.kind # "scalar", k + Wide <= j.K
  PROVE  /\ Aligned(j, k + Wide)
         /\ \A l \in 1 .. Wide : Lane(j.kind, j.K, k + l - 1) = l - 1
<1>1. j.K \in Nat /\ j.kind \in {"neon", "neon_int8"}
  BY JobShape DEF Jobs
<1>2. k % 16 = 0 /\ k + 16 <= 16 * (j.K \div 16)
  BY <1>1 DEF Aligned, Wide
<1>3. Aligned(j, k + Wide)
  BY <1>1, <1>2 DEF Aligned, Wide, Narrow
<1>4. ASSUME NEW l \in 1 .. Wide PROVE Lane(j.kind, j.K, k + l - 1) = l - 1
  <2>1. (k + l - 1) % 16 = l - 1 /\ k + l - 1 < 16 * (j.K \div 16)
    BY <1>1, <1>2 DEF Wide
  <2> QED BY <2>1, <1>1 DEF Lane, Wide
<1> QED BY <1>3, <1>4

LEMMA NarrowLanes ==
  ASSUME NEW j \in Products, NEW k \in Nat, Aligned(j, k),
         j.kind = "neon", ~ (k + Wide <= j.K), k + Narrow <= j.K
  PROVE  /\ Aligned(j, k + Narrow)
         /\ \A l \in 1 .. Narrow : Lane(j.kind, j.K, k + l - 1) = l - 1
<1>1. j.K \in Nat
  BY JobShape DEF Jobs
<1>2. k % 4 = 0 /\ k + 4 <= 4 * (j.K \div 4) /\ k >= 16 * (j.K \div 16)
  BY <1>1 DEF Aligned, Wide, Narrow
<1>3. Aligned(j, k + Narrow)
  BY <1>1, <1>2 DEF Aligned, Wide, Narrow
<1>4. ASSUME NEW l \in 1 .. Narrow PROVE Lane(j.kind, j.K, k + l - 1) = l - 1
  <2>1. /\ (k + l - 1) % 4 = l - 1 /\ k + l - 1 < 4 * (j.K \div 4)
        /\ ~ (k + l - 1 < 16 * (j.K \div 16)) /\ k + l - 1 >= 16 * (j.K \div 16)
    BY <1>1, <1>2 DEF Narrow
  <2> QED BY <2>1, <1>1 DEF Lane, Wide, Narrow
<1> QED BY <1>3, <1>4

LEMMA TailLane ==
  ASSUME NEW j \in Products, NEW k \in Nat, Aligned(j, k), k < j.K,
         ~ (j.kind # "scalar" /\ k + Wide <= j.K),
         ~ (j.kind = "neon" /\ k + Narrow <= j.K)
  PROVE  Aligned(j, k + 1) /\ Lane(j.kind, j.K, k) = Scalar
<1>1. j.K \in Nat /\ j.kind \in {"scalar", "neon", "neon_int8"}
  BY JobShape DEF Jobs
<1>2. j.kind # "scalar" => k >= 16 * (j.K \div 16)
  BY <1>1 DEF Aligned, Wide
<1>3. j.kind = "neon" => k >= 4 * (j.K \div 4)
  BY <1>1, <1>2 DEF Aligned, Wide, Narrow
<1>4. Aligned(j, k + 1)
  BY <1>1, <1>2, <1>3 DEF Aligned, Wide, Narrow
<1>5. Lane(j.kind, j.K, k) = Scalar
  BY <1>1, <1>2, <1>3 DEF Lane, Wide, Narrow
<1> QED BY <1>4, <1>5

-----------------------------------------------------------------------------
(* The inductive invariant                                                 *)

TermSeqs == Seq(Nat \X Int)
Phases == {"sum", "scale", "resize", "score", "softmax", "weigh"}
Locals == [n : Nat, m : Nat, k : Nat, acc : TermSeqs, phase : Phases]

Reference(j, c) == << c[1], c[2], Terms(j) >>

(* The elements that thread t has stored.                                  *)
Covered(t, c) ==
  \/ /\ job.op = "matmul" /\ First(job, t) <= c[2]
     /\ c[2] < at[t].n \/ (c[2] = at[t].n /\ c[1] < at[t].m)
  \/ job.op = "norm" /\ at[t].phase = "scale" /\ c[2] < at[t].k

(* The sum in progress is a prefix of the row's, at a place the loops can  *)
(* be; what is stored is what it should be.                                *)
SumInv(t) ==
  /\ at[t].m < job.M /\ at[t].k <= job.K /\ at[t].phase \in {"sum", "scale"}
  /\ at[t].phase = "sum" => at[t].acc = Prefix(job, at[t].k) /\ Aligned(job, at[t].k)
  /\ at[t].phase = "scale" => job.op = "norm" /\ at[t].acc = Prefix(job, job.K)
  /\ job.op = "norm" /\ at[t].n > 0 => at[t].phase = "scale" /\ at[t].k = job.K
  /\ \A c \in Cells(job) : Covered(t, c) => out[c] = Reference(job, c)

IInv ==
  /\ job \in Jobs \cup {NoJob}
  /\ at \in [Threads -> Locals]
  /\ DOMAIN scores = Threads
  /\ job # NoJob =>
       /\ DOMAIN out = Cells(job)
       /\ \A t \in Threads : First(job, t) <= at[t].n /\ at[t].n <= End(job, t)
  /\ job \in Products => \A t \in Threads : SumInv(t)
  /\ job \in Attentions =>
       \A t \in Threads : at[t].phase \in {"resize", "score", "softmax", "weigh"}

LEMMA TermsPrefix == ASSUME NEW j PROVE Terms(j) = Prefix(j, j.K)
  BY DEF Terms, Prefix

LEMMA StartLocals ==
  ASSUME NEW n \in Nat, NEW ph \in {"sum", "resize", "score"}
  PROVE  /\ Start(n, ph) \in Locals /\ Start(n, ph).n = n /\ Start(n, ph).m = 0
         /\ Start(n, ph).k = 0 /\ Start(n, ph).acc = << >> /\ Start(n, ph).phase = ph
<1>1. << >> \in TermSeqs /\ ph \in Phases
  BY DEF TermSeqs, Phases
<1> QED BY <1>1 DEF Start, Loop, Locals

LEMMA CellShape ==
  ASSUME NEW j \in Products, NEW c \in Cells(j)
  PROVE  /\ c[1] \in Nat /\ c[2] \in Nat /\ c = << c[1], c[2] >>
         /\ j.op = "matmul" => c[1] < j.M /\ c[2] < j.N
         /\ j.op = "norm" => c[1] = 0 /\ c[2] < j.K
<1>1. j.op \in {"matmul", "norm"} /\ {j.M, j.N, j.K} \subseteq Nat
  BY JobShape DEF Jobs
<1>2. CASE j.op = "matmul"
  BY <1>1, <1>2 DEF Cells
<1>3. CASE j.op = "norm"
  BY <1>1, <1>3 DEF Cells
<1> QED BY <1>1, <1>2, <1>3

LEMMA EmptyPrefix ==
  ASSUME NEW j \in Products
  PROVE  << >> = Prefix(j, 0) /\ Aligned(j, 0)
<1>1. j.K \in Nat
  BY JobShape DEF Jobs
<1>2. Aligned(j, 0)
  BY <1>1 DEF Aligned, Wide, Narrow
<1>3. Prefix(j, 0) \in Seq(Nat \X Int) /\ Len(Prefix(j, 0)) = 0
  BY PrefixSeq
<1>4. << >> = Prefix(j, 0)
  BY <1>3, EmptySeq
<1> QED BY <1>2, <1>4

LEMMA InitIInv == Init => IInv
<1> SUFFICES ASSUME Init PROVE IInv
  OBVIOUS
<1>1. at \in [Threads -> Locals]
  BY StartLocals DEF Init
<1>2. NoJob \notin Products /\ NoJob \notin Attentions
  BY JobShape DEF Jobs
<1> QED BY <1>1, <1>2 DEF Init, IInv

LEMMA PostIInv ==
  ASSUME IInv, NEW j \in Jobs, Post(j)
  PROVE  IInv'
<1>1. at' \in [Threads -> Locals]
  <2> SUFFICES ASSUME NEW t \in Threads
               PROVE Start(First(j, t), IF j.op = "attention" THEN "resize" ELSE "sum")
                       \in Locals
    BY DEF Post
  <2> QED BY RowRange, StartLocals
<1>2. \A t \in Threads : First(j, t) <= at[t].n' /\ at[t].n' <= End(j, t)
  BY RowRange DEF Post, Start, Loop
<1>3. ASSUME j \in Products, NEW t \in Threads PROVE SumInv(t)'
  <2>1. at[t]' = Start(First(j, t), "sum")
    BY <1>3, JobShape DEF Post
  <2>2. /\ at[t].n' = First(j, t) /\ at[t].m' = 0 /\ at[t].k' = 0
        /\ at[t].acc' = << >> /\ at[t].phase' = "sum"
    BY <2>1 DEF Start, Loop
  <2>3. j.M \in Nat \ {0} /\ j.N \in Nat \ {0} /\ j.K \in Nat \ {0}
    BY <1>3, JobShape
  <2>4. j.op = "norm" => First(j, t) = 0
    BY DEF First, Forked
  <2>5. ASSUME NEW c \in Cells(j) PROVE ~ Covered(t, c)'
    <3>1. First(j, t) \in Nat
      BY RowRange
    <3> QED BY <1>3, <2>2, <3>1, CellShape DEF Covered, Post
  <2> QED BY <1>3, <2>2, <2>3, <2>4, <2>5, EmptyPrefix DEF SumInv, Post
<1>4. ASSUME j \in Attentions, NEW t \in Threads PROVE at[t].phase' = "resize"
  BY <1>4, JobShape DEF Post, Start, Loop
<1> QED BY <1>1, <1>2, <1>3, <1>4 DEF Post, IInv

LEMMA ReturnIInv == ASSUME IInv, Return PROVE IInv'
<1>1. NoJob \notin Products /\ NoJob \notin Attentions
  BY JobShape DEF Jobs
<1> QED BY <1>1 DEF IInv, Return

(* A step that only thread t's locals are changed by.                      *)
LEMMA LocalIInv ==
  ASSUME IInv, NEW t \in Threads, NEW a \in Locals, job \in Products,
         at' = [at EXCEPT ![t] = a], UNCHANGED << job, out, scores >>,
         First(job, t) <= a.n, a.n <= End(job, t), SumInv(t)'
  PROVE  IInv'
<1>1. at' \in [Threads -> Locals]
  BY DEF IInv
<1>2. \A u \in Threads : u # t => at'[u] = at[u]
  BY DEF IInv
<1>3. at'[t] = a
  BY DEF IInv
<1>4. ASSUME NEW u \in Threads PROVE SumInv(u)'
  <2>1. CASE u = t
    BY <2>1
  <2>2. CASE u # t
    <3>1. SumInv(u) /\ at'[u] = at[u] /\ job' = job /\ out' = out
      BY <1>2, <2>2 DEF IInv
    <3> QED BY <3>1 DEF SumInv, Covered
  <2> QED BY <2>1, <2>2
<1>5. \A u \in Threads : First(job, u) <= at'[u].n /\ at'[u].n <= End(job, u)
  <2>1. job # NoJob
    BY JobShape DEF Jobs
  <2> QED BY <1>2, <1>3, <2>1 DEF IInv
<1>6. job \notin Attentions
  BY JobShape DEF Jobs
<1> QED BY <1>1, <1>4, <1>5, <1>6 DEF IInv

(* One iteration of one of the three loops.                                *)
LEMMA AccumulateIInv ==
  ASSUME IInv, NEW t \in Threads, NEW w \in Nat, NEW terms \in Seq(Nat \X Int),
         Summing(t), job \in Products, at[t].k + w <= job.K,
         Prefix(job, at[t].k) \o terms = Prefix(job, at[t].k + w),
         Aligned(job, at[t].k + w), Accumulate(t, w, terms)
  PROVE  IInv'
<1> DEFINE a == Loop(at[t].n, at[t].m, at[t].k + w, at[t].acc \o terms, "sum")
<1>1. at[t] \in Locals /\ SumInv(t) /\ at[t].phase = "sum"
  BY DEF IInv, Summing
<1>2. at' = [at EXCEPT ![t] = a]
  BY DEF Accumulate, IInv
<1>3. at[t].acc = Prefix(job, at[t].k)
  BY <1>1 DEF SumInv
<1>4. /\ a \in Locals /\ a.n = at[t].n /\ a.m = at[t].m /\ a.phase = at[t].phase
      /\ a.k = at[t].k + w /\ a.acc = Prefix(job, at[t].k + w)
  <2> DEFINE x == at[t].acc \o terms
  <2>1. x \in TermSeqs /\ "sum" \in Phases
    BY <1>1, ConcatProperties DEF Locals, TermSeqs, Phases
  <2>2. at[t].n \in Nat /\ at[t].m \in Nat /\ at[t].k + w \in Nat
    BY <1>1 DEF Locals
  <2> HIDE DEF x
  <2>3. a = Loop(at[t].n, at[t].m, at[t].k + w, x, "sum")
    BY DEF x
  <2> HIDE DEF a
  <2>4. /\ a \in Locals /\ a.n = at[t].n /\ a.m = at[t].m /\ a.phase = "sum"
        /\ a.k = at[t].k + w /\ a.acc = x
    BY <2>1, <2>2, <2>3 DEF Loop, Locals
  <2> QED BY <1>1, <1>3, <2>4 DEF x
<1> HIDE DEF a
<1>5. at'[t] = a
  BY <1>2 DEF IInv
<1>6. SumInv(t)'
  <2>1. job' = job /\ out' = out
    BY DEF Accumulate
  <2>2. ASSUME NEW c \in Cells(job) PROVE Covered(t, c)' <=> Covered(t, c)
    BY <1>1, <1>4, <1>5, <2>1 DEF Covered
  <2>3. job.op = "norm" => ~ (at[t].n > 0)
    BY <1>1 DEF SumInv
  <2> QED BY <1>1, <1>4, <1>5, <2>1, <2>2, <2>3 DEF SumInv
<1>7. First(job, t) <= a.n /\ a.n <= End(job, t)
  <2>1. job # NoJob
    BY JobShape DEF Jobs
  <2> QED BY <1>4, <2>1 DEF IInv
<1> QED BY <1>2, <1>4, <1>6, <1>7, LocalIInv DEF Accumulate

LEMMA LoopsIInv ==
  ASSUME IInv, NEW t \in Threads, WideStep(t) \/ NarrowStep(t) \/ TailStep(t)
  PROVE  IInv'
<1>1. Summing(t) /\ job \in Products
  BY JobShape DEF WideStep, NarrowStep, TailStep, Summing, IInv, Jobs
<1>2. /\ at[t] \in Locals /\ at[t].k \in Nat /\ at[t].k <= job.K
      /\ Aligned(job, at[t].k)
  BY <1>1 DEF IInv, SumInv, Summing, Locals
<1>3. job.K \in Nat /\ job.kind \in {"scalar", "neon", "neon_int8"}
  BY <1>1, JobShape DEF Jobs
<1>4. CASE WideStep(t)
  <2>1. /\ job.kind # "scalar" /\ at[t].k + Wide <= job.K
        /\ Accumulate(t, Wide, Lanes(at[t].k, Wide))
    BY <1>4 DEF WideStep, WideLoop
  <2>2. /\ Prefix(job, at[t].k) \o Lanes(at[t].k, Wide) = Prefix(job, at[t].k + Wide)
        /\ Aligned(job, at[t].k + Wide)
    BY <1>1, <1>2, <2>1, WideLanes, AppendLanes DEF Wide
  <2>3. Lanes(at[t].k, Wide) \in Seq(Nat \X Int) /\ Wide \in Nat
    BY <1>2 DEF Lanes, Wide
  <2> QED BY <1>1, <2>1, <2>2, <2>3, AccumulateIInv
<1>5. CASE NarrowStep(t)
  <2>1. /\ job.kind = "neon" /\ ~ (at[t].k + Wide <= job.K)
        /\ at[t].k + Narrow <= job.K /\ Accumulate(t, Narrow, Lanes(at[t].k, Narrow))
    BY <1>5 DEF NarrowStep, NarrowLoop, WideLoop
  <2>2. /\ Prefix(job, at[t].k) \o Lanes(at[t].k, Narrow)
             = Prefix(job, at[t].k + Narrow)
        /\ Aligned(job, at[t].k + Narrow)
    BY <1>1, <1>2, <2>1, NarrowLanes, AppendLanes DEF Narrow
  <2>3. Lanes(at[t].k, Narrow) \in Seq(Nat \X Int) /\ Narrow \in Nat
    BY <1>2 DEF Lanes, Narrow
  <2> QED BY <1>1, <2>1, <2>2, <2>3, AccumulateIInv
<1>6. CASE TailStep(t)
  <2>1. /\ ~ (job.kind # "scalar" /\ at[t].k + Wide <= job.K)
        /\ ~ (job.kind = "neon" /\ at[t].k + Narrow <= job.K)
        /\ at[t].k < job.K /\ Accumulate(t, 1, << << at[t].k, Scalar >> >>)
    BY <1>6 DEF TailStep, TailLoop, NarrowLoop, WideLoop
  <2>2. /\ Prefix(job, at[t].k) \o << << at[t].k, Scalar >> >> = Prefix(job, at[t].k + 1)
        /\ Aligned(job, at[t].k + 1)
    BY <1>1, <1>2, <2>1, TailLane, AppendScalar
  <2>3. << << at[t].k, Scalar >> >> \in Seq(Nat \X Int) /\ at[t].k + 1 <= job.K
    BY <1>2, <1>3, <2>1 DEF Scalar
  <2> QED BY <1>1, <2>1, <2>2, <2>3, AccumulateIInv
<1> QED BY <1>4, <1>5, <1>6

(* A finished sum becomes an element of the output.                        *)
LEMMA StoreDotIInv ==
  ASSUME IInv, NEW t \in Threads, StoreDot(t)
  PROVE  IInv'
<1> DEFINE cell == << at[t].m, at[t].n >>
           a == IF at[t].m + 1 < job.M
                  THEN Loop(at[t].n, at[t].m + 1, 0, << >>, "sum")
                  ELSE Start(at[t].n + 1, "sum")
<1>1. /\ job \in Products /\ job \in Jobs /\ job # NoJob /\ job.op = "matmul"
      /\ job' = job /\ scores' = scores
  BY JobShape DEF StoreDot, Summing, IInv, Jobs
<1>2. /\ at[t] \in Locals /\ at[t].phase = "sum" /\ SumInv(t)
      /\ First(job, t) <= at[t].n /\ at[t].n < End(job, t)
  BY <1>1 DEF IInv, StoreDot, Summing, Busy
<1>3. at[t].n \in Nat /\ at[t].m \in Nat /\ at[t].k \in Nat
  BY <1>2 DEF Locals
<1>4. job.M \in Nat /\ job.N \in Nat /\ job.K \in Nat /\ Rows(job) = job.N
  BY <1>1, JobShape
<1>5. First(job, t) \in Nat /\ End(job, t) \in Nat /\ End(job, t) <= job.N
  BY <1>1, <1>4, RowRange
<1>6. at[t].k = job.K /\ at[t].acc = Terms(job) /\ at[t].m < job.M
  BY <1>2, <1>3, <1>4, TermsPrefix DEF StoreDot, SumInv
<1>7. out' = [out EXCEPT ![cell] = Reference(job, cell)]
  BY <1>6 DEF StoreDot, Reference
<1>8. /\ a \in Locals /\ a.phase = "sum" /\ a.k = 0 /\ a.acc = << >>
      /\ IF at[t].m + 1 < job.M THEN a.m = at[t].m + 1 /\ a.n = at[t].n
                                ELSE a.m = 0 /\ a.n = at[t].n + 1
  <2>2. CASE at[t].m + 1 < job.M
    <3>1. a = Loop(at[t].n, at[t].m + 1, 0, << >>, "sum")
      BY <2>2
    <3>2. at[t].m + 1 \in Nat /\ << >> \in TermSeqs /\ "sum" \in Phases
      BY <1>3 DEF TermSeqs, Phases
    <3> HIDE DEF a
    <3> QED BY <1>3, <2>2, <3>1, <3>2 DEF Loop, Locals
  <2>3. CASE ~ (at[t].m + 1 < job.M)
    BY <1>3, <2>3, StartLocals
  <2> QED BY <2>2, <2>3
<1>9. at' = [at EXCEPT ![t] = a]
  BY DEF StoreDot
<1> HIDE DEF a
<1>10. at'[t] = a /\ \A u \in Threads : u # t => at'[u] = at[u]
  BY <1>9 DEF IInv
<1>11. DOMAIN out' = Cells(job) /\ at' \in [Threads -> Locals]
  BY <1>1, <1>7, <1>8, <1>9 DEF IInv
<1>12. ASSUME NEW c \in Cells(job), c = cell \/ out[c] = Reference(job, c)
       PROVE  out'[c] = Reference(job, c)
  BY <1>1, <1>7, <1>12 DEF IInv
<1>13. SumInv(t)'
  <2>1. ASSUME NEW c \in Cells(job), Covered(t, c)' PROVE c = cell \/ Covered(t, c)
    BY <1>1, <1>3, <1>4, <1>5, <1>8, <1>10, <2>1, CellShape, SMTT(30) DEF Covered
  <2>2. << >> = Prefix(job, 0) /\ Aligned(job, 0)
    BY <1>1, EmptyPrefix
  <2>3. \A c \in Cells(job) : Covered(t, c) => out[c] = Reference(job, c)
    BY <1>2 DEF SumInv
  <2>4. a.m < job.M
    BY <1>3, <1>4, <1>6, <1>8
  <2> QED BY <1>1, <1>4, <1>8, <1>10, <1>12, <2>1, <2>2, <2>3, <2>4 DEF SumInv
<1>14. ASSUME NEW u \in Threads, u # t PROVE SumInv(u)'
  <2>1. SumInv(u) /\ at'[u] = at[u]
    BY <1>1, <1>10, <1>14 DEF IInv
  <2>2. \A c \in Cells(job) : Covered(u, c)' <=> Covered(u, c)
    BY <1>1, <2>1 DEF Covered
  <2> QED BY <1>1, <1>12, <2>1, <2>2 DEF SumInv
<1>15. \A u \in Threads : First(job, u) <= at'[u].n /\ at'[u].n <= End(job, u)
  <2>1. First(job, t) <= a.n /\ a.n <= End(job, t)
    BY <1>2, <1>3, <1>5, <1>8
  <2> QED BY <1>1, <1>10, <2>1 DEF IInv
<1>16. job \notin Attentions
  BY <1>1, JobShape
<1> QED BY <1>1, <1>11, <1>13, <1>14, <1>15, <1>16 DEF IInv

-----------------------------------------------------------------------------
(* The norm                                                                *)

LEMMA NormIInv ==
  ASSUME IInv, NEW t \in Threads, ScaleNorm(t) \/ StoreNorm(t) \/ EndNorm(t)
  PROVE  IInv'
<1>1. job \in Products /\ job \in Jobs /\ job # NoJob /\ job.op = "norm"
  <2>1. job \in Jobs /\ job # NoJob
    BY DEF IInv, ScaleNorm, StoreNorm, EndNorm, Summing, Busy
  <2>2. job \notin Attentions
    BY DEF IInv, ScaleNorm, StoreNorm, EndNorm, Summing
  <2>3. job \in Products
    BY <2>1, <2>2 DEF Jobs
  <2>4. SumInv(t)
    BY <2>3 DEF IInv
  <2> QED BY <2>1, <2>3, <2>4 DEF SumInv, ScaleNorm, StoreNorm, EndNorm, Summing
<1>2. job.M = 1 /\ job.N = 1 /\ job.K \in Nat /\ Rows(job) = 1 /\ End(job, t) \in Nat
  BY <1>1, JobShape, RowRange
<1>3. /\ at[t] \in Locals /\ SumInv(t) /\ job.op # "matmul"
      /\ First(job, t) <= at[t].n /\ at[t].n < End(job, t) /\ First(job, t) \in Nat
  BY <1>1, RowRange DEF IInv, ScaleNorm, StoreNorm, EndNorm, Summing, Busy
<1>4. at[t].n \in Nat /\ at[t].k \in Nat /\ at[t].acc \in TermSeqs /\ at[t].k <= job.K
  BY <1>3 DEF Locals, SumInv
<1>5. ASSUME NEW k \in Nat, NEW n \in Nat
      PROVE  LET a == Loop(n, 0, k, at[t].acc, "scale") IN
             /\ a \in Locals /\ a.n = n /\ a.m = 0 /\ a.k = k
             /\ a.acc = at[t].acc /\ a.phase = "scale"
  <2> DEFINE x == at[t].acc
  <2>1. x \in TermSeqs /\ "scale" \in Phases
    BY <1>4 DEF Phases
  <2> HIDE DEF x
  <2>2. LET a == Loop(n, 0, k, x, "scale") IN
        /\ a \in Locals /\ a.n = n /\ a.m = 0 /\ a.k = k
        /\ a.acc = x /\ a.phase = "scale"
    BY <2>1 DEF Loop, Locals
  <2> QED BY <2>2 DEF x
<1>6. CASE ScaleNorm(t)
  <2> DEFINE a == Loop(at[t].n, 0, 0, at[t].acc, "scale")
  <2>1. at' = [at EXCEPT ![t] = a] /\ UNCHANGED << job, out, scores >>
    BY <1>6, <1>3 DEF ScaleNorm
  <2>2. /\ a \in Locals /\ a.n = at[t].n /\ a.m = 0 /\ a.k = 0
        /\ a.acc = at[t].acc /\ a.phase = "scale"
    <3>1. at[t].n \in Nat /\ 0 \in Nat
      BY <1>4
    <3> QED BY <1>5, <3>1, Zenon
  <2> HIDE DEF a
  <2>3. at'[t] = a
    BY <2>1 DEF IInv
  <2>4. at[t].acc = Prefix(job, job.K) /\ ~ (at[t].n > 0)
    BY <1>1, <1>2, <1>3, <1>4, <1>6 DEF SumInv, ScaleNorm, Summing
  <2>5. ASSUME NEW c \in Cells(job) PROVE ~ Covered(t, c)'
    BY <1>1, <1>3, <2>1, <2>2, <2>3, CellShape DEF Covered
  <2>6. SumInv(t)'
    BY <1>1, <1>2, <2>1, <2>2, <2>3, <2>4, <2>5 DEF SumInv
  <2>7. First(job, t) <= a.n /\ a.n <= End(job, t)
    BY <1>2, <1>3, <1>4, <2>2
  <2> QED BY <1>1, <2>1, <2>2, <2>6, <2>7, LocalIInv
<1>7. CASE EndNorm(t)
  <2> DEFINE a == Loop(at[t].n + 1, 0, at[t].k, at[t].acc, "scale")
  <2>1. at' = [at EXCEPT ![t] = a] /\ UNCHANGED << job, out, scores >>
    BY <1>7, <1>3 DEF EndNorm
  <2>2. /\ a \in Locals /\ a.n = at[t].n + 1 /\ a.m = 0 /\ a.k = at[t].k
        /\ a.acc = at[t].acc /\ a.phase = "scale"
    <3>1. at[t].n + 1 \in Nat /\ at[t].k \in Nat
      BY <1>4
    <3> QED BY <1>5, <3>1, Zenon
  <2> HIDE DEF a
  <2>3. at'[t] = a
    BY <2>1 DEF IInv
  <2>4. at[t].k = job.K /\ at[t].phase = "scale"
    BY <1>2, <1>4, <1>7 DEF EndNorm
  <2>5. ASSUME NEW c \in Cells(job) PROVE Covered(t, c)' <=> Covered(t, c)
    BY <1>1, <1>3, <2>1, <2>2, <2>3, <2>4 DEF Covered
  <2>6. SumInv(t)'
    BY <1>1, <1>2, <1>3, <2>1, <2>2, <2>3, <2>4, <2>5 DEF SumInv
  <2>7. First(job, t) <= a.n /\ a.n <= End(job, t)
    BY <1>2, <1>3, <1>4, <2>2
  <2> QED BY <1>1, <2>1, <2>2, <2>6, <2>7, LocalIInv
<1>8. CASE StoreNorm(t)
  <2> DEFINE step == IF job.kind # "scalar" /\ at[t].k + Narrow <= job.K THEN Narrow ELSE 1
             a == Loop(at[t].n, 0, at[t].k + step, at[t].acc, "scale")
  <2>1. /\ at' = [at EXCEPT ![t] = a] /\ UNCHANGED << job, scores >>
        /\ out' = [c \in DOMAIN out |->
             IF c[2] \in at[t].k .. at[t].k + step - 1 THEN << 0, c[2], at[t].acc >>
                                                       ELSE out[c]]
        /\ at[t].phase = "scale" /\ at[t].k < job.K
    BY <1>8, <1>3 DEF StoreNorm
  <2>2. step \in Nat \ {0} /\ at[t].k + step <= job.K
    BY <1>2, <1>4, <2>1 DEF Narrow
  <2> HIDE DEF step
  <2>3. /\ a \in Locals /\ a.n = at[t].n /\ a.m = 0 /\ a.k = at[t].k + step
        /\ a.acc = at[t].acc /\ a.phase = "scale"
    <3>1. at[t].n \in Nat /\ at[t].k + step \in Nat
      BY <1>4, <2>2
    <3> QED BY <1>5, <3>1, Zenon
  <2> HIDE DEF a
  <2>4. at'[t] = a /\ at' \in [Threads -> Locals] /\ \A u \in Threads : u # t => at'[u] = at[u]
    BY <2>1, <2>3 DEF IInv
  <2>5. at[t].acc = Terms(job)
    BY <1>3, <2>1, TermsPrefix DEF SumInv
  <2>6. DOMAIN out = Cells(job) /\ DOMAIN out' = Cells(job)
    BY <1>1, <2>1 DEF IInv
  <2>7. ASSUME NEW c \in Cells(job),
               c[2] \in at[t].k .. at[t].k + step - 1 \/ out[c] = Reference(job, c)
        PROVE  out'[c] = Reference(job, c)
    <3>1. c[1] = 0
      BY <1>1, CellShape
    <3> QED BY <2>1, <2>5, <2>6, <2>7, <3>1 DEF Reference
  <2>8. SumInv(t)'
    <3>1. ASSUME NEW c \in Cells(job), Covered(t, c)'
          PROVE  c[2] \in at[t].k .. at[t].k + step - 1 \/ Covered(t, c)
      <4>1. c[2] \in Nat /\ c[2] < at[t].k + step
        BY <1>1, <1>3, <2>1, <2>3, <2>4, <3>1, CellShape DEF Covered
      <4> QED BY <1>1, <1>4, <2>1, <2>2, <4>1 DEF Covered
    <3>2. \A c \in Cells(job) : Covered(t, c) => out[c] = Reference(job, c)
      BY <1>3 DEF SumInv
    <3>3. \A c \in Cells(job) : Covered(t, c)' => out'[c] = Reference(job, c)
      BY <2>7, <3>1, <3>2
    <3>4. /\ at[t].acc = Prefix(job, job.K) /\ a.m < job.M
          /\ ~ (at[t].n > 0)
      BY <1>1, <1>2, <1>3, <1>4, <2>1, <2>3 DEF SumInv
    <3> QED BY <1>1, <1>3, <2>1, <2>2, <2>3, <2>4, <3>3, <3>4 DEF SumInv
  <2>9. ASSUME NEW u \in Threads, u # t PROVE SumInv(u)'
    <3>1. SumInv(u) /\ at'[u] = at[u]
      BY <1>1, <2>4, <2>9 DEF IInv
    <3>2. \A c \in Cells(job) : Covered(u, c)' <=> Covered(u, c)
      BY <2>1, <3>1 DEF Covered
    <3> QED BY <2>1, <2>7, <3>1, <3>2 DEF SumInv
  <2>10. \A u \in Threads : First(job, u) <= at'[u].n /\ at'[u].n <= End(job, u)
    BY <1>1, <1>3, <2>3, <2>4 DEF IInv
  <2>11. job \notin Attentions
    BY <1>1, JobShape
  <2> QED BY <1>1, <2>1, <2>4, <2>6, <2>8, <2>9, <2>10, <2>11 DEF IInv
<1> QED BY <1>6, <1>7, <1>8

-----------------------------------------------------------------------------
(* Attention                                                               *)

LEMMA AttentionIInv ==
  ASSUME IInv, NEW t \in Threads,
         ResizeScores(t) \/ Score(t) \/ Softmax(t) \/ Weigh(t)
  PROVE  IInv'
<1>1. /\ job \in Attentions /\ job \in Jobs /\ job # NoJob /\ job \notin Products
      /\ job' = job /\ Busy(t)
  <2>1. job \in Jobs /\ job # NoJob /\ job.op = "attention" /\ job' = job /\ Busy(t)
    BY DEF IInv, ResizeScores, Score, Softmax, Weigh, Phase, Busy
  <2>2. job \notin Products
    BY <2>1, JobShape
  <2> QED BY <2>1, <2>2 DEF Jobs
<1>2. /\ at[t] \in Locals /\ at[t].n \in Nat
      /\ First(job, t) <= at[t].n /\ at[t].n < End(job, t)
      /\ First(job, t) \in Nat /\ End(job, t) \in Nat
  BY <1>1, RowRange DEF IInv, Busy, Locals
<1>3. DOMAIN out' = Cells(job) /\ DOMAIN scores' = Threads
  BY <1>1 DEF IInv, ResizeScores, Score, Softmax, Weigh
<1>4. /\ at' \in [Threads -> Locals]
      /\ First(job, t) <= at'[t].n /\ at'[t].n <= End(job, t)
      /\ at'[t].phase \in {"resize", "score", "softmax", "weigh"}
      /\ \A u \in Threads : u # t => at'[u] = at[u]
  <2>1. CASE Weigh(t)
    <3>1. at' = [at EXCEPT ![t] = Start(at[t].n + 1, "score")]
      BY <2>1 DEF Weigh
    <3>2. /\ Start(at[t].n + 1, "score") \in Locals
          /\ Start(at[t].n + 1, "score").n = at[t].n + 1
          /\ Start(at[t].n + 1, "score").phase = "score"
      BY <1>2, StartLocals
    <3>3. /\ at' \in [Threads -> Locals] /\ at'[t] = Start(at[t].n + 1, "score")
          /\ \A u \in Threads : u # t => at'[u] = at[u]
      BY <3>1, <3>2 DEF IInv
    <3> QED BY <1>2, <3>2, <3>3
  <2>2. CASE ResizeScores(t) \/ Score(t) \/ Softmax(t)
    <3>1. PICK ph \in {"score", "softmax", "weigh"} : at' = [at EXCEPT ![t].phase = ph]
      BY <2>2 DEF ResizeScores, Score, Softmax, Phase
    <3>2. ph \in Phases
      BY DEF Phases
    <3>3. /\ [at[t] EXCEPT !.phase = ph] \in Locals
          /\ [at[t] EXCEPT !.phase = ph].n = at[t].n
          /\ [at[t] EXCEPT !.phase = ph].phase = ph
      BY <1>2, <3>2 DEF Locals
    <3>4. /\ at' \in [Threads -> Locals] /\ at'[t] = [at[t] EXCEPT !.phase = ph]
          /\ \A u \in Threads : u # t => at'[u] = at[u]
      BY <3>1, <3>3 DEF IInv
    <3> QED BY <1>2, <3>3, <3>4
  <2> QED BY <2>1, <2>2
<1>5. ASSUME NEW u \in Threads, u # t
      PROVE  /\ First(job, u) <= at'[u].n /\ at'[u].n <= End(job, u)
             /\ at'[u].phase \in {"resize", "score", "softmax", "weigh"}
  BY <1>1, <1>4, <1>5 DEF IInv
<1> QED BY <1>1, <1>3, <1>4, <1>5 DEF IInv

-----------------------------------------------------------------------------
(* Attention: what each thread's score row and finished heads hold         *)

(* The reference of a head, as the kernel's own KvHead names its group.    *)
Softmaxed(h) ==
  [x \in 0 .. job.len - 1 |-> << "softmax", HeadRow(h, KvHead(h), job.len), x >>]
HeadOut(h) == [x \in 0 .. job.len - 1 |-> << Softmaxed(h)[x], KvHead(h), x >>]

HeadInv(t) ==
  /\ at[t].phase = "softmax" => scores[t] = HeadRow(at[t].n, KvHead(at[t].n), job.len)
  /\ at[t].phase = "weigh" => scores[t] = Softmaxed(at[t].n)
  /\ \A h \in First(job, t) .. at[t].n - 1 : out[<< 0, h >>] = HeadOut(h)

HeadsInv == job \in Attentions => \A t \in Threads : HeadInv(t)

(* The KV head of a query head, by its group or by proportion.             *)
LEMMA KvHeadIs ==
  ASSUME NEW q \in Nat \ {0}, NEW kv \in Nat \ {0}, q % kv = 0, NEW h \in Nat
  PROVE  (h * kv) \div q = h \div (q \div kv)
<1> DEFINE g == q \div kv
<1>1. q = kv * g /\ g \in Nat
  BY SMT
<1> HIDE DEF g
<1>2. g \in Nat \ {0}
  <2>1. g = 0 => q = 0
    BY <1>1, SMT
  <2> QED BY <1>1, <2>1
<1> DEFINE a == h \div g
<1>3. a \in Nat /\ g * a <= h /\ h < g * a + g
  BY <1>2, DivRange
<1> HIDE DEF a
<1> DEFINE b == (h * kv) \div q
<1>4. b \in Nat /\ q * b <= h * kv /\ h * kv < q * b + q /\ h * kv \in Nat
  <2>1. h * kv \in Nat
    BY SMT
  <2> DEFINE n == h * kv
  <2>2. n \in Nat
    BY <2>1
  <2> HIDE DEF n
  <2>3. n \div q \in Nat /\ q * (n \div q) <= n /\ n < q * (n \div q) + q
    BY <2>2, DivRange
  <2> QED BY <2>2, <2>3 DEF n
<1> HIDE DEF b
<1>5. a <= b
  <2> SUFFICES ASSUME b + 1 <= a PROVE FALSE
    BY <1>3, <1>4
  <2>1. q * (b + 1) <= q * a /\ q * (b + 1) = q * b + q
    BY <1>3, <1>4, MulMonotone, SMT
  <2>2. q * a = kv * (g * a) /\ g * a \in Nat
    BY <1>1, <1>2, <1>3, SMT
  <2>3. kv * (g * a) <= kv * h /\ kv * h = h * kv
    BY <1>3, <2>2, MulMonotone, SMT
  <2> QED BY <1>4, <2>1, <2>2, <2>3
<1>6. b <= a
  <2> SUFFICES ASSUME a + 1 <= b PROVE FALSE
    BY <1>3, <1>4
  <2>1. q * (a + 1) <= q * b
    BY <1>3, <1>4, MulMonotone
  <2>2. q * (a + 1) = kv * (g * (a + 1)) /\ g * (a + 1) \in Nat /\ g * (a + 1) = g * a + g
    BY <1>1, <1>2, <1>3, SMT
  <2>3. h + 1 <= g * (a + 1) /\ h + 1 \in Nat
    BY <1>3, <2>2
  <2>4. kv * (h + 1) <= kv * (g * (a + 1))
    BY <2>2, <2>3, MulMonotone
  <2>5. kv * (h + 1) = h * kv + kv
    BY SMT
  <2> QED BY <1>4, <2>1, <2>2, <2>4, <2>5
<1>7. a = b
  BY <1>3, <1>4, <1>5, <1>6
<1> QED BY <1>7 DEF a, b, g

(* Of the other threads' rows and heads a step of attention changes none.  *)
LEMMA HeadsApart ==
  ASSUME IInv, job \in Attentions, NEW t \in Threads, NEW u \in Threads, u # t, HeadInv(u),
         job' = job, at'[u] = at[u], scores'[u] = scores[u],
         \/ out' = out
         \/ Busy(t) /\ \E v : out' = [out EXCEPT ![<< 0, at[t].n >>] = v]
  PROVE  HeadInv(u)'
<1>1. job \in Jobs /\ Rows(job) \in Nat
  BY JobShape DEF Jobs
<1>2. /\ at[t].n \in Nat /\ First(job, t) <= at[t].n /\ at[t].n <= End(job, t)
      /\ at[u].n \in Nat /\ First(job, u) <= at[u].n /\ at[u].n <= End(job, u)
      /\ First(job, t) \in Nat /\ First(job, u) \in Nat
      /\ End(job, t) \in Nat /\ End(job, t) <= Rows(job) /\ End(job, u) \in Nat
  BY <1>1, RowRange, JobShape DEF IInv, Locals, Jobs
<1>3. ASSUME NEW h \in First(job, u) .. at[u].n - 1 PROVE out'[<< 0, h >>] = out[<< 0, h >>]
  <2>1. CASE out' = out
    BY <2>1
  <2>2. CASE Busy(t) /\ \E v : out' = [out EXCEPT ![<< 0, at[t].n >>] = v]
    <3>1. at[t].n < End(job, t) /\ at[t].n \in 0 .. Rows(job) - 1
      BY <1>2, <2>2, <1>1 DEF Busy
    <3>2. PICK w \in Threads :
            \A x \in Threads : First(job, x) <= at[t].n /\ at[t].n < End(job, x) => x = w
      BY <1>1, <3>1, RowsPartition
    <3>3. h # at[t].n
      BY <1>2, <3>1, <3>2
    <3>4. << 0, h >> # << 0, at[t].n >>
      BY <3>3
    <3> QED BY <2>2, <3>4
  <2> QED BY <2>1, <2>2
<1>4. \A h : HeadOut(h)' = HeadOut(h) /\ Softmaxed(h)' = Softmaxed(h) /\ KvHead(h)' = KvHead(h)
  BY DEF HeadOut, Softmaxed, KvHead
<1> QED BY <1>3, <1>4 DEF HeadInv

LEMMA PostHeads ==
  ASSUME IInv, NEW j \in Jobs, Post(j)
  PROVE  HeadsInv'
<1> SUFFICES ASSUME j \in Attentions, NEW t \in Threads PROVE HeadInv(t)'
  BY DEF HeadsInv, Post
<1>1. at'[t] = Start(First(j, t), "resize") /\ job' = j
  BY JobShape DEF Post
<1>2. at'[t].n = First(j, t) /\ at'[t].phase = "resize" /\ First(j, t) \in Nat
  BY <1>1, RowRange DEF Start, Loop
<1>3. First(j, t) .. First(j, t) - 1 = {}
  BY <1>2
<1> QED BY <1>1, <1>2, <1>3 DEF HeadInv

LEMMA AttentionHeads ==
  ASSUME IInv, HeadsInv, NEW t \in Threads,
         ResizeScores(t) \/ Score(t) \/ Softmax(t) \/ Weigh(t)
  PROVE  HeadsInv'
<1>1. /\ job \in Attentions /\ job' = job /\ Busy(t)
  <2>1. job \in Jobs /\ job # NoJob /\ job.op = "attention" /\ job' = job /\ Busy(t)
    BY DEF IInv, ResizeScores, Score, Softmax, Weigh, Phase, Busy
  <2>2. job \notin Products
    BY <2>1, JobShape
  <2> QED BY <2>1, <2>2 DEF Jobs
<1>2. /\ at \in [Threads -> Locals] /\ DOMAIN scores = Threads /\ at[t] \in Locals
      /\ at[t].n \in Nat /\ First(job, t) \in Nat /\ HeadInv(t)
  BY <1>1, RowRange DEF IInv, Locals, HeadsInv, Jobs
<1>3. \A h : /\ HeadOut(h)' = HeadOut(h) /\ Softmaxed(h)' = Softmaxed(h)
             /\ KvHead(h)' = KvHead(h)
  BY <1>1 DEF HeadOut, Softmaxed, KvHead
<1>4. ASSUME NEW u \in Threads, u # t PROVE HeadInv(u)'
  <2>1. at'[u] = at[u]
    BY <1>2, <1>4 DEF ResizeScores, Score, Softmax, Weigh, Phase
  <2>2. scores'[u] = scores[u]
    BY <1>2, <1>4 DEF ResizeScores, Score, Softmax, Weigh, ScoreRow
  <2>3. out' = out \/ (Busy(t) /\ \E v : out' = [out EXCEPT ![<< 0, at[t].n >>] = v])
    <3>1. CASE Weigh(t)
      BY <3>1, <1>1 DEF Weigh
    <3>2. CASE ~ Weigh(t)
      BY <3>2 DEF ResizeScores, Score, Softmax
    <3> QED BY <3>1, <3>2
  <2>4. HeadInv(u)
    BY <1>1 DEF HeadsInv
  <2> QED BY <1>1, <1>4, <2>1, <2>2, <2>3, <2>4, HeadsApart
<1>5. HeadInv(t)'
  <2>1. ASSUME NEW ph \in {"score", "softmax", "weigh"}, at' = [at EXCEPT ![t].phase = ph]
        PROVE  at'[t].phase = ph /\ at'[t].n = at[t].n
    BY <1>2, <2>1 DEF Locals
  <2>2. CASE ResizeScores(t)
    <3>1. at'[t].phase = "score" /\ at'[t].n = at[t].n /\ out' = out
      BY <2>1, <2>2 DEF ResizeScores, Phase
    <3> QED BY <3>1, <1>1, <1>2, <1>3 DEF HeadInv
  <2>3. CASE Score(t)
    <3>1. at'[t].phase = "softmax" /\ at'[t].n = at[t].n /\ out' = out
      BY <2>1, <2>3 DEF Score, Phase
    <3>2. scores'[t] = HeadRow(at[t].n, KvHead(at[t].n), job.len)
      BY <1>2, <2>3 DEF Score, ScoreRow, HeadRow
    <3> QED BY <3>1, <3>2, <1>1, <1>2, <1>3 DEF HeadInv
  <2>4. CASE Softmax(t)
    <3>1. /\ at[t].phase = "softmax" /\ at'[t].phase = "weigh" /\ at'[t].n = at[t].n
          /\ out' = out
      BY <2>1, <2>4 DEF Softmax, Phase
    <3>2. scores[t] = HeadRow(at[t].n, KvHead(at[t].n), job.len)
      BY <3>1, <1>2 DEF HeadInv
    <3>3. scores'[t] = [x \in 0 .. job.len - 1 |-> << "softmax", scores[t], x >>]
      BY <1>2, <2>4 DEF Softmax, ScoreRow
    <3>4. scores'[t] = Softmaxed(at[t].n)
      BY <3>2, <3>3 DEF Softmaxed
    <3> QED BY <3>1, <3>4, <1>1, <1>2, <1>3 DEF HeadInv
  <2>5. CASE Weigh(t)
    <3>1. at[t].phase = "weigh" /\ at' = [at EXCEPT ![t] = Start(at[t].n + 1, "score")]
      BY <2>5 DEF Weigh
    <3>2. at'[t].phase = "score" /\ at'[t].n = at[t].n + 1
      BY <3>1, <1>2 DEF Start, Loop
    <3>3. scores[t] = Softmaxed(at[t].n)
      BY <3>1, <1>2 DEF HeadInv
    <3>4. out' = [out EXCEPT ![<< 0, at[t].n >>] =
                    [x \in 0 .. job.len - 1 |-> << scores[t][x], KvHead(at[t].n), x >>]]
      BY <2>5 DEF Weigh, ScoreRow
    <3>5. [x \in 0 .. job.len - 1 |-> << scores[t][x], KvHead(at[t].n), x >>]
            = HeadOut(at[t].n)
      BY <3>3 DEF HeadOut
    <3>6. << 0, at[t].n >> \in DOMAIN out
      <4>1. job \in Jobs /\ job.op = "attention" /\ Rows(job) = job.q /\ DOMAIN out = Cells(job)
        BY <1>1, JobShape DEF Jobs, Rows, IInv
      <4>2. at[t].n < End(job, t) /\ End(job, t) <= Rows(job) /\ Rows(job) \in Nat
            /\ End(job, t) \in Nat
        BY <1>1, <4>1, RowRange, JobShape DEF Busy
      <4>3. at[t].n \in 0 .. job.q - 1
        BY <1>2, <4>1, <4>2
      <4> QED BY <4>1, <4>3 DEF Cells
    <3>7. ASSUME NEW h \in First(job, t) .. at[t].n PROVE out'[<< 0, h >>] = HeadOut(h)
      <4>1. CASE h = at[t].n
        BY <4>1, <3>4, <3>5, <3>6
      <4>2. CASE h # at[t].n
        <5>1. h \in First(job, t) .. at[t].n - 1 /\ << 0, h >> # << 0, at[t].n >>
          BY <4>2, <1>2
        <5>2. out[<< 0, h >>] = HeadOut(h)
          BY <5>1, <1>2 DEF HeadInv
        <5> QED BY <5>1, <5>2, <3>4
      <4> QED BY <4>1, <4>2
    <3>8. at'[t].n - 1 = at[t].n
      BY <3>2, <1>2
    <3> QED BY <3>2, <3>7, <3>8, <1>1, <1>3 DEF HeadInv
  <2> QED BY <2>2, <2>3, <2>4, <2>5
<1> QED BY <1>1, <1>4, <1>5 DEF HeadsInv

-----------------------------------------------------------------------------
(* The theorems                                                            *)

THEOREM IInvHolds == Spec => []IInv
<1>1. Init => IInv
  BY InitIInv
<1>2. IInv /\ [Next]_vars => IInv'
  <2> SUFFICES ASSUME IInv, [Next]_vars PROVE IInv'
    OBVIOUS
  <2>1. ASSUME NEW j \in Products \cup Attentions, Post(j) PROVE IInv'
    BY <2>1, PostIInv DEF Jobs
  <2>2. ASSUME NEW t \in Threads, Loops(t) PROVE IInv'
    BY <2>2, LoopsIInv, StoreDotIInv, NormIInv, AttentionIInv DEF Loops
  <2>3. CASE Return
    BY <2>3, ReturnIInv
  <2>4. CASE UNCHANGED vars
    BY <2>4 DEF vars, IInv, SumInv, Covered
  <2> QED BY <2>1, <2>2, <2>3, <2>4 DEF Next
<1> QED BY <1>1, <1>2, PTL DEF Spec

(* Every variable keeps its type and its ranges (TypeOK): a thread never   *)
(* leaves its rows (kernels.cpp:46, 429), and no loop over a row of K      *)
(* passes K, however K splits into sixteens and fours (kernels.cpp:209-238,*)
(* 277-310).                                                               *)
THEOREM KernelsTypes == Spec => []TypeOK
<1>1. IInv => TypeOK
  <2> SUFFICES ASSUME IInv PROVE TypeOK
    OBVIOUS
  <2>1. /\ job \in Products \cup Attentions \cup {NoJob}
        /\ DOMAIN at = Threads /\ DOMAIN scores = Threads
        /\ job # NoJob => DOMAIN out = Cells(job)
    BY DEF IInv, Jobs
  <2>2. ASSUME NEW t \in Threads
        PROVE  /\ at[t].phase \in {"sum", "scale", "resize", "score", "softmax", "weigh"}
               /\ {at[t].n, at[t].m, at[t].k} \subseteq Nat
    BY DEF IInv, Locals, Phases
  <2>3. ASSUME NEW t \in Threads, job # NoJob
        PROVE  at[t].n \in First(job, t) .. End(job, t)
    <3>1. at[t].n \in Nat /\ First(job, t) \in Nat /\ End(job, t) \in Nat
      BY <2>2, <2>3, RowRange DEF IInv
    <3> QED BY <2>3, <3>1 DEF IInv
  <2>4. ASSUME NEW t \in Threads, job \in Products
        PROVE  /\ at[t].m < job.M /\ at[t].k <= job.K
               /\ Len(at[t].acc) = at[t].k \/ at[t].phase = "scale"
    <3>1. SumInv(t) /\ at[t].k \in Nat
      BY <2>2, <2>4 DEF IInv
    <3>2. Len(Prefix(job, at[t].k)) = at[t].k
      BY <2>4, <3>1, PrefixSeq
    <3> QED BY <3>1, <3>2 DEF SumInv
  <2> QED BY <2>1, <2>2, <2>3, <2>4 DEF TypeOK
<1> QED BY <1>1, IInvHolds, PTL

(* A row has one writer (OneWriter; parallel.cpp:19-27).                   *)
THEOREM RowsHaveOneWriter == Spec => []OneWriter
<1>1. IInv => OneWriter
  <2> SUFFICES ASSUME IInv, NEW t \in Threads, NEW u \in Threads,
                      Busy(t), Busy(u), at[t].n = at[u].n
               PROVE  t = u
    BY DEF OneWriter
  <2>1. /\ job \in Jobs /\ at[t].n \in Nat /\ Rows(job) \in Nat
        /\ First(job, t) <= at[t].n /\ at[t].n < End(job, t)
        /\ First(job, u) <= at[t].n /\ at[t].n < End(job, u)
    BY JobShape DEF IInv, Busy, Locals
  <2>2. End(job, t) \in Nat /\ End(job, t) <= Rows(job)
    BY <2>1, RowRange
  <2>3. at[t].n \in 0 .. Rows(job) - 1
    BY <2>1, <2>2
  <2> QED BY <2>1, <2>3, RowsPartition
<1> QED BY <1>1, IInvHolds, PTL

(* A returned product or norm has every element, each the one serial sum   *)
(* of its row (DotsAreSerial): batching, threads and chunks do not change  *)
(* a bit of it (parallel.hpp:9-12, kernels.cpp:33-108, 209-371, 373-409).  *)
THEOREM SumsAreSerial == Spec => []DotsAreSerial
<1>1. IInv => DotsAreSerial
  <2> SUFFICES ASSUME IInv, Done, job \in Products, NEW c \in Cells(job)
               PROVE  out[c] = << c[1], c[2], Terms(job) >>
    BY DEF DotsAreSerial
  <2>1. job \in Jobs /\ job # NoJob /\ Rows(job) = job.N /\ job.N \in Nat
    BY JobShape DEF Jobs
  <2> DEFINE x == IF job.op = "norm" THEN 0 ELSE c[2]
  <2>2. x \in 0 .. Rows(job) - 1
    <3>1. job.op \in {"matmul", "norm"} /\ (job.op = "norm" => job.N = 1)
      BY <2>1, JobShape
    <3> QED BY <2>1, <3>1, CellShape
  <2> HIDE DEF x
  <2>3. PICK t \in Threads : First(job, t) <= x /\ x < End(job, t)
    BY <2>1, <2>2, RowsPartition
  <2>4. /\ at[t].n \in Nat /\ First(job, t) \in Nat /\ End(job, t) \in Nat
        /\ SumInv(t)
    BY <2>1, RowRange DEF IInv, Locals
  <2>5. x < at[t].n
    BY <2>1, <2>2, <2>3, <2>4 DEF Done, Busy
  <2>6. CASE job.op = "norm"
    <3>1. at[t].phase = "scale" /\ at[t].k = job.K
      BY <2>2, <2>4, <2>5, <2>6 DEF SumInv
    <3>2. Covered(t, c)
      BY <2>6, <3>1, CellShape DEF Covered
    <3> QED BY <2>4, <3>2 DEF SumInv, Reference
  <2>7. CASE job.op # "norm"
    <3>1. job.op = "matmul" /\ x = c[2]
      BY <2>1, <2>7, JobShape DEF x
    <3>2. Covered(t, c)
      BY <2>3, <2>5, <3>1 DEF Covered
    <3> QED BY <2>4, <3>2 DEF SumInv, Reference
  <2> QED BY <2>6, <2>7
<1> QED BY <1>1, IInvHolds, PTL

(* A returned attention has in every head the weighted values of its own   *)
(* group, by the softmax of its own scores (HeadsAreIndependent): the      *)
(* thread_local row hands nothing from a head, a thread or a call to the   *)
(* next (kernels.cpp:433-471), for every number of threads and of heads.   *)
THEOREM HeadsStayApart == Spec => []HeadsAreIndependent
<1>1. Init => HeadsInv
  <2>1. NoJob \notin Attentions
    BY JobShape DEF Jobs
  <2> QED BY <2>1 DEF Init, HeadsInv
<1>2. IInv /\ HeadsInv /\ [Next]_vars => HeadsInv'
  <2> SUFFICES ASSUME IInv, HeadsInv, [Next]_vars PROVE HeadsInv'
    OBVIOUS
  <2>1. ASSUME NEW j \in Products \cup Attentions, Post(j) PROVE HeadsInv'
    BY <2>1, PostHeads DEF Jobs
  <2>2. ASSUME NEW t \in Threads, Loops(t) PROVE HeadsInv'
    <3>1. CASE ResizeScores(t) \/ Score(t) \/ Softmax(t) \/ Weigh(t)
      BY <3>1, AttentionHeads
    <3>2. CASE /\ job' = job /\ Busy(t)
               /\ at[t].phase \in {"sum", "scale"}
      <4>1. job \notin Attentions
        BY <3>2 DEF IInv
      <4> QED BY <3>2, <4>1 DEF HeadsInv
    <3> QED BY <2>2, <3>1, <3>2 DEF Loops, WideStep, NarrowStep, TailStep, StoreDot,
            ScaleNorm, StoreNorm, EndNorm, Summing, Accumulate
  <2>3. CASE Return
    <3>1. NoJob \notin Attentions
      BY JobShape DEF Jobs
    <3> QED BY <2>3, <3>1 DEF Return, HeadsInv
  <2>4. CASE UNCHANGED vars
    <3>1. job' = job /\ at' = at /\ out' = out /\ scores' = scores
      BY <2>4 DEF vars
    <3>2. \A h : /\ HeadOut(h)' = HeadOut(h) /\ Softmaxed(h)' = Softmaxed(h)
                /\ KvHead(h)' = KvHead(h)
      BY <3>1 DEF HeadOut, Softmaxed, KvHead
    <3>3. ASSUME NEW t \in Threads, HeadInv(t) PROVE HeadInv(t)'
      BY <3>1, <3>2, <3>3 DEF HeadInv
    <3> QED BY <3>1, <3>3 DEF HeadsInv
  <2> QED BY <2>1, <2>2, <2>3, <2>4 DEF Next
<1>3. IInv /\ HeadsInv => HeadsAreIndependent
  <2> SUFFICES ASSUME IInv, HeadsInv, Done, job \in Attentions, NEW h \in 0 .. job.q - 1
               PROVE  LET kv == (h * job.kv) \div job.q IN
                      out[<< 0, h >>] =
                        [x \in 0 .. job.len - 1 |->
                           << << "softmax", HeadRow(h, kv, job.len), x >>, kv, x >>]
    BY DEF HeadsAreIndependent
  <2>1. /\ job \in Jobs /\ job # NoJob /\ Rows(job) = job.q /\ Rows(job) \in Nat
        /\ job.q \in Nat \ {0} /\ job.kv \in Nat \ {0} /\ job.q % job.kv = 0
    BY JobShape, JobsAssumption DEF Jobs, Rows
  <2>2. KvHead(h) = (h * job.kv) \div job.q
    <3>1. h \in Nat
      BY <2>1
    <3> QED BY <2>1, <3>1, KvHeadIs, ZenonT(30) DEF KvHead
  <2>3. PICK t \in Threads : First(job, t) <= h /\ h < End(job, t)
    BY <2>1, RowsPartition
  <2>4. /\ at[t].n \in Nat /\ First(job, t) \in Nat /\ End(job, t) \in Nat /\ HeadInv(t)
    BY <2>1, RowRange DEF IInv, Locals, HeadsInv
  <2>5. h \in First(job, t) .. at[t].n - 1
    BY <2>1, <2>3, <2>4 DEF Done, Busy
  <2>6. out[<< 0, h >>] = HeadOut(h)
    BY <2>4, <2>5 DEF HeadInv
  <2> QED BY <2>2, <2>6 DEF HeadOut, Softmaxed
<1> QED BY <1>1, <1>2, <1>3, IInvHolds, PTL DEF Spec
=============================================================================
