------------------------------ MODULE Kernels -------------------------------
(***************************************************************************)
(* The row-parallel kernels: the matrix products in their scalar and NEON  *)
(* forms, the RMS norm and attention.  A kernel posts the loop over its    *)
(* rows (output channels, or heads) to the pool if the work is worth it;   *)
(* every thread runs the loops of its chunk on its own locals, and writes  *)
(* to the shared output.  The pool itself is ThreadPool; here a job ends   *)
(* when every chunk has.                                                   *)
(*                                                                         *)
(* Floating point is not modelled.  A sum is the sequence of its terms,    *)
(* each with the accumulator lane that took it: equal sequences are the    *)
(* same additions in the same order, bit for bit.                          *)
(***************************************************************************)
EXTENDS Chunks, Sequences

CONSTANTS
  Threshold,       (* kParallelWorkThreshold                               *)
  Products,        (* [op, kind, M, N, K]: matrix products and norms       *)
  Attentions       (* [op, q, kv, hd, len]: attention over len positions   *)

(* A norm is one row of K elements.  Query heads come in whole groups, and *)
(* a history is not empty (model configurations; attention is called after *)
(* the write of its position).                                             *)
ASSUME JobsAssumption ==
  /\ Threshold \in Nat
  /\ \A j \in Products :
       /\ j.op \in {"matmul", "norm"} /\ j.kind \in {"scalar", "neon", "neon_int8"}
       /\ {j.M, j.N, j.K} \subseteq Nat \ {0}
       /\ j.op = "norm" => j.M = 1 /\ j.N = 1 /\ j.kind # "neon_int8"
  /\ \A j \in Attentions :
       /\ j.op = "attention" /\ {j.q, j.kv, j.hd, j.len} \subseteq Nat \ {0}
       /\ j.q % j.kv = 0

VARIABLES
  job,             (* the kernel call in progress                          *)
  at,              (* per thread: the locals of its loops                  *)
  out,             (* the output buffer                                    *)
  scores           (* thread_local scores, which outlive the call          *)

vars == << job, at, out, scores >>

NoJob == [op |-> "none"]
Stale == << >>     (* whatever a buffer held before the call               *)

-----------------------------------------------------------------------------
(* parallel_for_rows                                                       *)

Rows(j) == IF j.op = "attention" THEN j.q ELSE j.N
Work(j) == IF j.op = "attention" THEN j.q * j.len * j.hd ELSE j.N * j.K
Forked(j) ==
  j.op # "norm" /\ Rows(j) >= 2 /\ Work(j) >= Threshold /\ NumThreads > 1

(* Plausible bug: a chunk takes an even share, rounded up, from its start. *)
EndRoundedUp(j, t) ==
  IF Forked(j) THEN ChunkLo(t, Rows(j)) + (Rows(j) + NumThreads - 1) \div NumThreads
  ELSE IF t = 0 THEN Rows(j) ELSE 0

First(j, t) == IF Forked(j) THEN ChunkLo(t, Rows(j)) ELSE 0
End(j, t) == IF Forked(j) THEN ChunkHi(t, Rows(j)) ELSE IF t = 0 THEN Rows(j) ELSE 0

Cells(j) ==
  CASE j.op = "matmul"    -> (0 .. j.M - 1) \X (0 .. j.N - 1)
    [] j.op = "norm"      -> {0} \X (0 .. j.K - 1)
    [] j.op = "attention" -> {0} \X (0 .. j.q - 1)

Loop(n, m, k, acc, phase) == [n |-> n, m |-> m, k |-> k, acc |-> acc, phase |-> phase]
Start(n, phase) == Loop(n, 0, 0, << >>, phase)

Post(j) ==
  /\ job = NoJob
  /\ job' = j
  /\ at' = [t \in Threads |->
       Start(First(j, t), IF j.op = "attention" THEN "resize" ELSE "sum")]
  /\ out' = [c \in Cells(j) |-> Stale]
  /\ UNCHANGED scores

Busy(t) == job # NoJob /\ at[t].n < End(job, t)
Done == job # NoJob /\ \A t \in Threads : ~ Busy(t)

Return ==
  /\ Done
  /\ job' = NoJob
  /\ UNCHANGED << at, out, scores >>

-----------------------------------------------------------------------------
(* Dot products: a loop of sixteen terms for four vector accumulators, one *)
(* of four terms for the first of them, and one for the rest.  The scalar  *)
(* kernels have only the last; the int8 kernel has no loop of four.        *)

Scalar == -1       (* the lane of the final scalar sum                     *)
Wide == 16
Narrow == 4

Summing(t) == job # NoJob /\ job.op # "attention" /\ Busy(t) /\ at[t].phase = "sum"

(* Plausible bug: the last load reaches past the row.                      *)
WideLoopLong(k) == job.kind # "scalar" /\ k < job.K

WideLoop(k) == job.kind # "scalar" /\ k + Wide <= job.K
NarrowLoop(k) == job.kind = "neon" /\ ~ WideLoop(k) /\ k + Narrow <= job.K
TailLoop(k) == ~ WideLoop(k) /\ ~ NarrowLoop(k) /\ k < job.K

Accumulate(t, width, terms) ==
  /\ at' = [at EXCEPT ![t] = Loop(@.n, @.m, @.k + width, @.acc \o terms, "sum")]
  /\ UNCHANGED << job, out, scores >>

Lanes(k, width) == [l \in 1 .. width |-> << k + l - 1, l - 1 >>]

WideStep(t) ==
  Summing(t) /\ WideLoop(at[t].k) /\ Accumulate(t, Wide, Lanes(at[t].k, Wide))

NarrowStep(t) ==
  Summing(t) /\ NarrowLoop(at[t].k) /\ Accumulate(t, Narrow, Lanes(at[t].k, Narrow))

TailStep(t) ==
  Summing(t) /\ TailLoop(at[t].k) /\ Accumulate(t, 1, << << at[t].k, Scalar >> >>)

(* Plausible bug: the sum is cleared once per channel, not once per row.   *)
StoreDotCarries(t) ==
  /\ Summing(t) /\ job.op = "matmul" /\ at[t].k >= job.K
  /\ out' = [out EXCEPT ![<< at[t].m, at[t].n >>] = << at[t].m, at[t].n, at[t].acc >>]
  /\ at' = [at EXCEPT ![t] =
       IF at[t].m + 1 < job.M THEN [@ EXCEPT !.m = @ + 1, !.k = 0]
                              ELSE Start(at[t].n + 1, "sum")]
  /\ UNCHANGED << job, scores >>

(* out[m, n], scaled by the channel's scale if the weights are int8; the   *)
(* inner loop runs over the activation rows, the outer one over channels.  *)
StoreDot(t) ==
  /\ Summing(t) /\ job.op = "matmul" /\ at[t].k >= job.K
  /\ out' = [out EXCEPT ![<< at[t].m, at[t].n >>] = << at[t].m, at[t].n, at[t].acc >>]
  /\ at' = [at EXCEPT ![t] =
       IF at[t].m + 1 < job.M THEN Loop(at[t].n, at[t].m + 1, 0, << >>, "sum")
                              ELSE Start(at[t].n + 1, "sum")]
  /\ UNCHANGED << job, scores >>

(* rmsnorm: the squares are summed before anything is written.             *)
ScaleNorm(t) ==
  /\ Summing(t) /\ job.op = "norm" /\ at[t].k >= job.K
  /\ at' = [at EXCEPT ![t] = Loop(@.n, 0, 0, @.acc, "scale")]
  /\ UNCHANGED << job, out, scores >>

(* Four at a time in the NEON form, then one by one.                       *)
StoreNorm(t) ==
  /\ Busy(t) /\ at[t].phase = "scale" /\ at[t].k < job.K
  /\ LET k == at[t].k
         step == IF job.kind # "scalar" /\ k + Narrow <= job.K THEN Narrow ELSE 1 IN
     /\ out' = [c \in DOMAIN out |->
          IF c[2] \in k .. k + step - 1 THEN << 0, c[2], at[t].acc >> ELSE out[c]]
     /\ at' = [at EXCEPT ![t] = Loop(@.n, 0, k + step, @.acc, "scale")]
  /\ UNCHANGED << job, scores >>

EndNorm(t) ==
  /\ Busy(t) /\ at[t].phase = "scale" /\ at[t].k >= job.K
  /\ at' = [at EXCEPT ![t] = Loop(@.n + 1, 0, @.k, @.acc, "scale")]
  /\ UNCHANGED << job, out, scores >>

-----------------------------------------------------------------------------
(* Attention: per head the scores of the history, their softmax in place,  *)
(* and the weighted sum of the values.  The score row is thread_local.     *)

(* Plausible bug: the score row is static, one for all threads.            *)
ScoreRowStatic(t) == 0

ScoreRow(t) == t

KvHead(h) == h \div (job.q \div job.kv)

Phase(t, from, to) ==
  /\ job.op = "attention" /\ at[t].phase = from
  /\ at' = [at EXCEPT ![t].phase = to]
  /\ UNCHANGED job

(* resize(): what the row held stays, up to the new length.                *)
ResizeScores(t) ==
  /\ Busy(t) /\ Phase(t, "resize", "score")
  /\ scores' = [scores EXCEPT ![ScoreRow(t)] =
       [x \in 0 .. job.len - 1 |-> IF x \in DOMAIN @ THEN @[x] ELSE Stale]]
  /\ UNCHANGED out

(* q . K[x, kv_h] for every position x of the history.                     *)
Score(t) ==
  /\ Busy(t) /\ Phase(t, "score", "softmax")
  /\ scores' = [scores EXCEPT ![ScoreRow(t)] =
       [x \in 0 .. job.len - 1 |-> << "dot", at[t].n, KvHead(at[t].n), x >>]]
  /\ UNCHANGED out

(* Each weight depends on the whole row: its maximum and its sum.          *)
Softmax(t) ==
  /\ Busy(t) /\ Phase(t, "softmax", "weigh")
  /\ scores' = [scores EXCEPT ![ScoreRow(t)] =
       [x \in 0 .. job.len - 1 |-> << "softmax", @, x >>]]
  /\ UNCHANGED out

(* out[h] = sum of V[x, kv_h] by weight; then the next head of the chunk.  *)
Weigh(t) ==
  /\ Busy(t) /\ job.op = "attention" /\ at[t].phase = "weigh"
  /\ out' = [out EXCEPT ![<< 0, at[t].n >>] =
       [x \in 0 .. job.len - 1 |-> << scores[ScoreRow(t)][x], KvHead(at[t].n), x >>]]
  /\ at' = [at EXCEPT ![t] = Start(at[t].n + 1, "score")]
  /\ UNCHANGED << job, scores >>

-----------------------------------------------------------------------------
Init ==
  /\ job = NoJob /\ out = << >>
  /\ at = [t \in Threads |-> Start(0, "sum")]
  /\ scores = [t \in Threads |-> << >>]

Loops(t) ==
  \/ WideStep(t) \/ NarrowStep(t) \/ TailStep(t) \/ StoreDot(t)
  \/ ScaleNorm(t) \/ StoreNorm(t) \/ EndNorm(t)
  \/ ResizeScores(t) \/ Score(t) \/ Softmax(t) \/ Weigh(t)

Next ==
  \/ \E j \in Products \cup Attentions : Post(j)
  \/ \E t \in Threads : Loops(t)
  \/ Return

Spec == Init /\ [][Next]_vars

-----------------------------------------------------------------------------
(* Properties                                                              *)

(* Types and ranges of the call, the loops, the output and the score rows. *)
TypeOK ==
  /\ job \in Products \cup Attentions \cup {NoJob}
  /\ DOMAIN at = Threads /\ DOMAIN scores = Threads
  /\ \A t \in Threads :
       /\ at[t].phase \in {"sum", "scale", "resize", "score", "softmax", "weigh"}
       /\ {at[t].n, at[t].m, at[t].k} \subseteq Nat
       /\ job # NoJob => at[t].n \in First(job, t) .. End(job, t)
       /\ job \in Products => at[t].m < job.M /\ at[t].k <= job.K
       /\ job \in Products => Len(at[t].acc) = at[t].k \/ at[t].phase = "scale"
  /\ job # NoJob => DOMAIN out = Cells(job)

(* The addition order of one row: the lane of term k in a row of K.        *)
Lane(kind, K, k) ==
  CASE kind = "scalar" -> Scalar
    [] kind # "scalar" /\ k < Wide * (K \div Wide) -> k % Wide
    [] kind = "neon" /\ k >= Wide * (K \div Wide) /\ k < Narrow * (K \div Narrow)
         -> k % Narrow
    [] OTHER -> Scalar

Terms(j) == [i \in 1 .. j.K |-> << i - 1, Lane(j.kind, j.K, i - 1) >>]

(* "Each out[m, n] is still computed by exactly one thread as the same     *)
(* serial dot over K" (parallel.hpp:9-12): when a product or norm returns, *)
(* whatever the threads, the chunks, the batch size M and what the buffer  *)
(* held before, each element is that of its row and channel, and has every *)
(* term once, no term past the row, in an order that depends on K and the  *)
(* build alone (kernels.cpp:33-108, 209-371, 373-409).                     *)
DotsAreSerial ==
  Done /\ job \in Products =>
    \A c \in Cells(job) :
      out[c] = << c[1], c[2], Terms(job) >>

(* Two threads never write one element: their chunks are disjoint, so the  *)
(* threads of a call are never at the same row (parallel.cpp:19-27,        *)
(* kernels.cpp:46, 429).                                                   *)
OneWriter ==
  \A t, u \in Threads : Busy(t) /\ Busy(u) /\ at[t].n = at[u].n => t = u

(* A head's output is the weighted sum of the values of its own group's    *)
(* KV head over the whole history, with the softmax of its own scores: not *)
(* of another thread's, of the head before it or of an earlier call whose  *)
(* history was longer or shorter (kernels.cpp:433-471).                    *)
HeadRow(h, kv, len) == [x \in 0 .. len - 1 |-> << "dot", h, kv, x >>]

HeadsAreIndependent ==
  Done /\ job \in Attentions =>
    \A h \in 0 .. job.q - 1 :
      LET kv == (h * job.kv) \div job.q IN
      out[<< 0, h >>] = [x \in 0 .. job.len - 1 |->
                     << << "softmax", HeadRow(h, kv, job.len), x >>, kv, x >>]
=============================================================================
