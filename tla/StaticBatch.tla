---------------------------- MODULE StaticBatch -----------------------------
(***************************************************************************)
(* StaticBatchScheduler: prefill every sequence one after the other, then  *)
(* decode them in lockstep until all are terminal, then give back every    *)
(* block at once.  One thread drives it; requests enter between two runs.  *)
(***************************************************************************)
EXTENDS SequenceBase

VARIABLES
  seqs,         (* seqs_, the ids of the batch                             *)
  pc,           (* phase of run_until_done()                               *)
  it,           (* position of the loop over seqs_                         *)
  i,            (* prompt token of the prefill loop, from 0                *)
  logits,       (* the one buffer all sequences share                      *)
  anyRunning    (* any_running                                             *)

loop == << pc, it, i, logits, anyRunning >>
vars == << seq, nextId, results, freeBlocks, seqs, loop >>

Init ==
  /\ BaseInit
  /\ seqs = << >>
  /\ pc = "out" /\ it = 1 /\ i = 0 /\ logits = Garbage /\ anyRunning = FALSE

-----------------------------------------------------------------------------
Enqueue(r) ==
  /\ pc = "out" /\ nextId < MaxSeqs /\ Accepts(r)
  /\ seq' = [seq EXCEPT ![nextId] = NewSeq(r)]
  /\ seqs' = Append(seqs, nextId)
  /\ nextId' = nextId + 1
  /\ UNCHANGED << results, freeBlocks, loop >>

ClearResults ==
  /\ pc = "out" /\ results # << >>
  /\ results' = << >>
  /\ UNCHANGED << seq, nextId, freeBlocks, seqs, loop >>

(* run_until_done() without sequences changes nothing and is left out.     *)
BeginRun ==
  /\ pc = "out" /\ seqs # << >>
  /\ pc' = "prefill" /\ it' = 1 /\ i' = 0 /\ logits' = Garbage
  /\ UNCHANGED << seq, nextId, results, freeBlocks, seqs, anyRunning >>

-----------------------------------------------------------------------------
(* Prefill                                                                 *)

Current == seqs[it]

InPrompt == /\ pc = "prefill" /\ it <= Len(seqs) /\ i < seq[Current].req.prompt

PrefillToken ==
  /\ InPrompt /\ CanWrite(Current, i)
  /\ seq' = [seq EXCEPT ![Current] =
               [AfterWrite(Current, i) EXCEPT !.state = "PREFILLING"]]
  /\ freeBlocks' = FreeAfterWrite(Current, i)
  /\ logits' = IF i + 1 = seq[Current].req.prompt
                 THEN LogitsAt(Current, i) ELSE logits
  /\ i' = i + 1
  /\ UNCHANGED << nextId, results, seqs, pc, it, anyRunning >>

(* Pool exhausted: terminal, and its blocks stay taken until the drain.    *)
PrefillCapacity ==
  /\ InPrompt /\ ~ CanWrite(Current, i)
  /\ seq' = [seq EXCEPT ![Current] = Finish(@, "capacity")]
  /\ it' = it + 1 /\ i' = 0
  /\ UNCHANGED << nextId, results, freeBlocks, seqs, pc, logits, anyRunning >>

PrefillDone ==
  /\ pc = "prefill" /\ it <= Len(seqs) /\ i = seq[Current].req.prompt
  /\ seq' = [seq EXCEPT ![Current] = AfterPrefill(@, logits)]
  /\ it' = it + 1 /\ i' = 0
  /\ UNCHANGED << nextId, results, freeBlocks, seqs, pc, logits, anyRunning >>

BeginDecode ==
  /\ pc = "prefill" /\ it > Len(seqs)
  /\ pc' = "decode" /\ it' = 1
  /\ UNCHANGED << seq, nextId, results, freeBlocks, seqs, i, logits, anyRunning >>

-----------------------------------------------------------------------------
(* Lockstep decode                                                         *)

Skip ==
  /\ pc = "decode" /\ it <= Len(seqs) /\ seq[Current].state # "RUNNING"
  /\ it' = it + 1
  /\ UNCHANGED << seq, nextId, results, freeBlocks, seqs, pc, i, logits, anyRunning >>

(* One token: forward_step_paged, then sample it at once.                  *)
Decode ==
  /\ pc = "decode" /\ it <= Len(seqs) /\ seq[Current].state = "RUNNING"
  /\ LET p == LastPos(Current) IN
     IF CanWrite(Current, p)
       THEN /\ logits' = LogitsAt(Current, p)
            /\ freeBlocks' = FreeAfterWrite(Current, p)
            /\ seq' = [seq EXCEPT ![Current] =
                         AfterSample(AfterWrite(Current, p), LogitsAt(Current, p))]
       ELSE /\ seq' = [seq EXCEPT ![Current] = Finish(@, "capacity")]
            /\ UNCHANGED << freeBlocks, logits >>
  /\ anyRunning' = TRUE /\ it' = it + 1
  /\ UNCHANGED << nextId, results, seqs, pc, i >>

(* Plausible bug: any_running is declared outside the loop.                *)
NextPassStale ==
  /\ pc = "decode" /\ it > Len(seqs) /\ anyRunning
  /\ it' = 1
  /\ UNCHANGED << seq, nextId, results, freeBlocks, seqs, pc, i, logits, anyRunning >>

NextPass ==
  /\ pc = "decode" /\ it > Len(seqs) /\ anyRunning
  /\ it' = 1 /\ anyRunning' = FALSE
  /\ UNCHANGED << seq, nextId, results, freeBlocks, seqs, pc, i, logits >>

(* Plausible bug: the loop ends when the last sequence is not running.     *)
DrainLastIdle ==
  /\ pc = "decode" /\ it > Len(seqs)
  /\ ~ anyRunning \/ seq[Last(seqs)].state # "RUNNING"
  /\ Retire(seqs)
  /\ seqs' = << >>
  /\ pc' = "out" /\ it' = 1 /\ logits' = Garbage /\ anyRunning' = FALSE
  /\ UNCHANGED << nextId, i >>

(* Every sequence is terminal: release all caches, report in batch order.  *)
Drain ==
  /\ pc = "decode" /\ it > Len(seqs) /\ ~ anyRunning
  /\ Retire(seqs)
  /\ seqs' = << >>
  /\ pc' = "out" /\ it' = 1 /\ logits' = Garbage
  /\ UNCHANGED << nextId, i, anyRunning >>

-----------------------------------------------------------------------------
InRun ==
  \/ PrefillToken \/ PrefillCapacity \/ PrefillDone \/ BeginDecode
  \/ Skip \/ Decode \/ NextPass \/ Drain

(* All requests a behaviour can contain were enqueued and answered.        *)
Quiescent ==
  /\ pc = "out" /\ seqs = << >> /\ nextId = MaxSeqs
  /\ UNCHANGED vars

Next ==
  \/ \E r \in Requests : Enqueue(r)
  \/ ClearResults
  \/ BeginRun
  \/ InRun
  \/ Quiescent

(* run_until_done() runs to its end; nothing makes the driver call it.     *)
Spec == Init /\ [][Next]_vars /\ WF_vars(InRun)

-----------------------------------------------------------------------------
TypeOK ==
  /\ BaseTypeOK
  /\ seqs \in Seq(Ids)
  /\ pc \in {"out", "prefill", "decode"}
  /\ it \in Nat \ {0} /\ i \in Nat
  /\ logits \in Rows /\ anyRunning \in BOOLEAN

(* The scheduler is invisible in the output: it implements Serving with    *)
(* answers in the order of the requests.  Each request is answered once,   *)
(* with exactly the tokens and finish reason of engine.generate, or with   *)
(* "capacity" and the first of them (tests/test_scheduler.py:73 samples    *)
(* it; scheduler.hpp:39-41 "Returned in enqueue order").                   *)
Promise == INSTANCE Serving WITH asked <- Asked, pending <- Pending, InOrder <- TRUE
ImplementsServing == Promise!Spec

(* A batch whose sequences fit into the pool together is served in full:   *)
(* lockstep decoding never refuses one of them for another's blocks, and   *)
(* every run starts with the whole pool.                                   *)
FitsIsServed ==
  LET need(id) == Layout!BlocksFor(WrittenAtMost(seq[id].req))
      demand   == Total([id \in Ids |-> need(id)], ToSet(seqs))
  IN  demand <= NumBlocks =>
        \A id \in ToSet(seqs) : seq[id].reason # "capacity"

(* A run comes to its end and answers its whole batch.                     *)
RunEnds == pc = "prefill" ~> pc = "out" /\ seqs = << >>
=============================================================================
