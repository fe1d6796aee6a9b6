-------------------------- MODULE ContinuousBatch ---------------------------
(***************************************************************************)
(* ContinuousBatchScheduler: FIFO admission, chunked prefill under a       *)
(* per-step token budget, one batched decode per step, and one pool of KV  *)
(* blocks shared by all sequences.                                         *)
(*                                                                         *)
(* One thread drives the scheduler, as the bindings require; enqueue, the  *)
(* budget setter and clear_results are called between two steps.           *)
(***************************************************************************)
EXTENDS SequenceBase

CONSTANTS
  MaxConcurrent,          (* max_concurrent_                               *)
  Budgets,                (* values the driver gives budget_               *)
  MaxFaults               (* bound: forward passes that throw              *)

(* The constructor rejects max_concurrent <= 0, the budget setter <= 0.    *)
ASSUME KnobAssumption ==
  /\ MaxConcurrent \in Nat \ {0}
  /\ Budgets \subseteq Nat \ {0} /\ Budgets # {}
  /\ MaxFaults \in Nat

VARIABLES
  waiting, prefilling, running,   (* queues of seq ids                     *)
  budget,       (* budget_                                                 *)
  pc,           (* phase of step()                                         *)
  left,         (* advance_prefilling: budget left in this step            *)
  it,           (* position of the loop over prefilling_ or the batch      *)
  logits,       (* advance_prefilling's buffer                             *)
  batch, rows,  (* decode_running: gathered ids, logits or Dead per row    *)
  faults        (* forward passes that threw                               *)

lists == << waiting, prefilling, running, results, nextId >>
vars  == << seq, lists, freeBlocks, budget, pc, left, it, logits, batch, rows, faults >>

-----------------------------------------------------------------------------
Idle == waiting = << >> /\ prefilling = << >> /\ running = << >>

Init ==
  /\ BaseInit
  /\ waiting = << >> /\ prefilling = << >> /\ running = << >>
  /\ budget \in Budgets
  /\ pc = "out" /\ left = 0 /\ it = 1
  /\ logits = Garbage /\ batch = << >> /\ rows = << >>
  /\ faults = 0

-----------------------------------------------------------------------------
(* Calls between steps                                                     *)

Enqueue(r) ==
  /\ pc = "out" /\ nextId < MaxSeqs /\ Accepts(r)
  /\ seq' = [seq EXCEPT ![nextId] = NewSeq(r)]
  /\ waiting' = Append(waiting, nextId)
  /\ nextId' = nextId + 1
  /\ UNCHANGED << prefilling, running, results, freeBlocks, budget, pc, left,
                  it, logits, batch, rows, faults >>

SetBudget(v) ==
  /\ pc = "out" /\ v # budget
  /\ budget' = v
  /\ UNCHANGED << seq, lists, freeBlocks, pc, left, it, logits, batch, rows, faults >>

ClearResults ==
  /\ pc = "out" /\ results # << >>
  /\ results' = << >>
  /\ UNCHANGED << seq, nextId, waiting, prefilling, running, freeBlocks,
                  budget, pc, left, it, logits, batch, rows, faults >>

-----------------------------------------------------------------------------
(* step(): finalize_finished on both lists, then admission                 *)

(* std::partition moves the survivors to the front and keeps no order: the *)
(* k-th finished entry among the first n trades places with the k-th       *)
(* survivor from the back.                                                 *)
Partition(list) ==
  LET alive  == {i \in DOMAIN list : seq[list[i]].state # "FINISHED"}
      n      == Cardinality(alive)
      holes  == 1 .. n \ alive
      movers == alive \ 1 .. n
      Mirror(S, T, i) == Nth(T, Cardinality(T) + 1 - RankIn(S, i))
  IN  [i \in DOMAIN list |->
         IF i \in holes THEN list[Mirror(holes, movers, i)]
         ELSE IF i \in movers THEN list[Mirror(movers, holes, i)]
         ELSE list[i]]

Survivors(list) ==
  SubSeq(Partition(list), 1,
         Cardinality({i \in DOMAIN list : seq[list[i]].state # "FINISHED"}))
Finished(list) ==
  SubSeq(Partition(list), Len(Survivors(list)) + 1, Len(list))

(* step() on an idle scheduler changes nothing and is left out.            *)
BeginStep ==
  /\ pc = "out" /\ ~ Idle
  /\ pc' = "finalizeRunning"
  /\ Retire(Finished(prefilling))
  /\ prefilling' = Survivors(prefilling)
  /\ UNCHANGED << nextId, waiting, running, budget, left, it, logits, batch, rows, faults >>

FinalizeRunning ==
  /\ pc = "finalizeRunning"
  /\ pc' = "admit"
  /\ Retire(Finished(running))
  /\ running' = Survivors(running)
  /\ UNCHANGED << nextId, waiting, prefilling, budget, left, it, logits, batch, rows, faults >>

(* Plausible bug: sequences already running do not count as concurrent.    *)
RoomIgnoresRunning == MaxConcurrent - Len(prefilling)

Room == MaxConcurrent - (Len(running) + Len(prefilling))

(* The admission loop, then advance_prefilling starts with a fresh budget. *)
Admit ==
  /\ pc = "admit"
  /\ LET n == IF Room < Len(waiting) THEN Room ELSE Len(waiting)
         admitted == SubSeq(waiting, 1, n)
     IN  /\ seq' = [id \in Ids |-> IF id \in ToSet(admitted)
                                     THEN [seq[id] EXCEPT !.state = "PREFILLING"]
                                     ELSE seq[id]]
         /\ waiting' = SubSeq(waiting, n + 1, Len(waiting))
         /\ prefilling' = prefilling \o admitted
  /\ pc' = "prefill" /\ left' = budget /\ it' = 1 /\ logits' = Garbage
  /\ UNCHANGED << nextId, running, results, freeBlocks, budget, batch, rows, faults >>

-----------------------------------------------------------------------------
(* advance_prefilling()                                                    *)

Current == prefilling[it]

InPrompt == /\ pc = "prefill" /\ it <= Len(prefilling)
            /\ seq[Current].cursor < seq[Current].req.prompt

LastPromptToken(id) == seq[id].cursor + 1 = seq[id].req.prompt

(* Plausible bug: prefill_cursor is not advanced past the written token.   *)
AfterChunkTokenStuck(id) == AfterWrite(id, seq[id].cursor)

AfterChunkToken(id) == [AfterWrite(id, seq[id].cursor) EXCEPT !.cursor = @ + 1]

PrefillToken ==
  /\ InPrompt /\ left > 0 /\ CanWrite(Current, seq[Current].cursor)
  /\ seq' = [seq EXCEPT ![Current] = AfterChunkToken(Current)]
  /\ freeBlocks' = FreeAfterWrite(Current, seq[Current].cursor)
  /\ logits' = IF LastPromptToken(Current)
                 THEN LogitsAt(Current, seq[Current].cursor) ELSE logits
  /\ left' = left - 1
  /\ UNCHANGED << lists, budget, pc, it, batch, rows, faults >>

(* Pool exhausted: terminal, but the sequence stays in prefilling_, with   *)
(* its blocks, until the next step finalizes it.                           *)
PrefillCapacity ==
  /\ InPrompt /\ left > 0 /\ ~ CanWrite(Current, seq[Current].cursor)
  /\ seq' = [seq EXCEPT ![Current] = Finish(@, "capacity")]
  /\ it' = it + 1
  /\ UNCHANGED << lists, freeBlocks, budget, pc, left, logits, batch, rows, faults >>

(* The prompt is complete: sample its first token in the same iteration,   *)
(* even with the budget used up.                                           *)
PrefillDone ==
  /\ pc = "prefill" /\ it <= Len(prefilling)
  /\ seq[Current].cursor = seq[Current].req.prompt
  /\ LET s == AfterPrefill(seq[Current], logits)
     IN  /\ seq' = [seq EXCEPT ![Current] = s]
         /\ IF s.state = "RUNNING"
              THEN /\ running' = Append(running, Current)
                   /\ prefilling' = RemoveAt(prefilling, it)
                   /\ UNCHANGED it
              ELSE it' = it + 1 /\ UNCHANGED << running, prefilling >>
  /\ UNCHANGED << nextId, waiting, results, freeBlocks, budget, pc, left,
                  logits, batch, rows, faults >>

(* The entries of running_ that are RUNNING, in order.                     *)
Gathered ==
  LET on == {i \in DOMAIN running : seq[running[i]].state = "RUNNING"}
  IN  [k \in 1 .. Cardinality(on) |-> running[Nth(on, k)]]

(* End of the list, or budget used up in the middle of a prompt; then      *)
(* decode starts.                                                          *)
GatherBatch ==
  /\ pc = "prefill"
  /\ it > Len(prefilling) \/ (InPrompt /\ left = 0)
  /\ batch' = Gathered
  /\ pc' = "decode" /\ it' = 1 /\ rows' = << >>
  /\ UNCHANGED << seq, lists, freeBlocks, budget, left, logits, faults >>

-----------------------------------------------------------------------------
(* decode_running() and Engine::forward_decode_batch                       *)

(* Layer 0 writes the rows of the batch in order; a row whose write fails  *)
(* is dead for the rest of the pass, the others compute on.                *)
DecodeRow ==
  /\ pc = "decode" /\ it <= Len(batch)
  /\ LET id == batch[it] IN
     IF CanWrite(id, LastPos(id))
       THEN /\ seq' = [seq EXCEPT ![id] = AfterWrite(id, LastPos(id))]
            /\ freeBlocks' = FreeAfterWrite(id, LastPos(id))
            /\ rows' = Append(rows, LogitsAt(id, LastPos(id)))
       ELSE rows' = Append(rows, Dead) /\ UNCHANGED << seq, freeBlocks >>
  /\ it' = it + 1
  /\ UNCHANGED << lists, budget, pc, left, logits, batch, faults >>

DecodeDone ==
  /\ pc = "decode" /\ it > Len(batch)
  /\ pc' = "sample" /\ it' = 1
  /\ UNCHANGED << seq, lists, freeBlocks, budget, left, logits, batch, rows, faults >>

(* Plausible bug: dead rows are compacted away, shifting later logits.     *)
RowOfCompacted(i) ==
  LET live == SelectSeq(rows, LAMBDA r : r # Dead)
  IN  IF i <= Len(live) THEN live[i] ELSE Dead

RowOf(i) == rows[i]

SampleRow ==
  /\ pc = "sample" /\ it <= Len(batch)
  /\ seq' = [seq EXCEPT ![batch[it]] =
               IF RowOf(it) = Dead THEN Finish(@, "capacity")
                                   ELSE AfterSample(@, RowOf(it))]
  /\ it' = it + 1
  /\ UNCHANGED << lists, freeBlocks, budget, pc, left, logits, batch, rows, faults >>

Leave ==
  /\ pc' = "out" /\ left' = 0 /\ it' = 1
  /\ logits' = Garbage /\ batch' = << >> /\ rows' = << >>

EndStep ==
  /\ pc = "sample" /\ it > Len(batch)
  /\ Leave
  /\ UNCHANGED << seq, lists, freeBlocks, budget, faults >>

-----------------------------------------------------------------------------
(* A forward pass throws (the first use of a broken checkpoint, an         *)
(* allocation): the exception leaves step(), which catches nothing, before *)
(* or after the pass has written its row, and the driver may call step()   *)
(* again.  A batched pass throws between or after its rows.                *)
Throw ==
  /\ faults < MaxFaults
  /\ \/ InPrompt /\ left > 0 /\ UNCHANGED << seq, freeBlocks >>
     \/ /\ InPrompt /\ left > 0 /\ CanWrite(Current, seq[Current].cursor)
        /\ seq' = [seq EXCEPT ![Current] = AfterWrite(Current, seq[Current].cursor)]
        /\ freeBlocks' = FreeAfterWrite(Current, seq[Current].cursor)
     \/ pc = "decode" /\ batch # << >> /\ UNCHANGED << seq, freeBlocks >>
  /\ faults' = faults + 1
  /\ Leave
  /\ UNCHANGED << lists, budget >>

-----------------------------------------------------------------------------
InStep ==
  \/ BeginStep \/ FinalizeRunning \/ Admit
  \/ PrefillToken \/ PrefillCapacity \/ PrefillDone \/ GatherBatch
  \/ DecodeRow \/ DecodeDone \/ SampleRow \/ EndStep \/ Throw

(* All requests a behaviour can contain were enqueued and answered.        *)
Quiescent ==
  /\ pc = "out" /\ Idle /\ nextId = MaxSeqs
  /\ UNCHANGED vars

Next ==
  \/ \E r \in Requests : Enqueue(r)
  \/ \E v \in Budgets : SetBudget(v)
  \/ ClearResults
  \/ InStep
  \/ Quiescent

(* run_until_idle() calls step() until it returns false.                   *)
Spec == Init /\ [][Next]_vars /\ WF_vars(InStep)

-----------------------------------------------------------------------------
(* Properties                                                              *)

TypeOK ==
  /\ BaseTypeOK
  /\ waiting \in Seq(Ids) /\ prefilling \in Seq(Ids) /\ running \in Seq(Ids)
  /\ budget \in Budgets
  /\ pc \in {"out", "finalizeRunning", "admit", "prefill", "decode", "sample"}
  /\ left \in Nat /\ it \in Nat \ {0}
  /\ logits \in Rows /\ batch \in Seq(Ids) /\ rows \in Seq(Rows)
  /\ faults \in 0 .. MaxFaults

(* The scheduler is invisible in the output: it implements Serving.        *)
(* Whatever the batching, the chunking, the neighbours and the calls that  *)
(* throw on the way, a request is answered once, with exactly the tokens   *)
(* and finish reason of engine.generate, or, when the pool ran out, with   *)
(* "capacity" and the first of them (tests/test_scheduler.py:73, 97, 251   *)
(* sample it).                                                             *)
Promise == INSTANCE Serving WITH asked <- Asked, pending <- Pending, InOrder <- FALSE
ImplementsServing == Promise!Spec

(* Blocks are accounted for, and an idle scheduler has given the whole    *)
(* pool back (asserted after every run of the tests).                      *)
BlocksConserved == BlocksAccounted /\ (Idle => freeBlocks = NumBlocks)

(* The cache of every sequence holds exactly the prefix its next forward   *)
(* pass assumes, at every point between two calls: a resumed chunk or a    *)
(* decode step never skips or repeats a position, except the one that a    *)
(* pass that threw had written.                                            *)
Ready(s, p) == s.kvLen = p \/ (faults > 0 /\ s.kvLen = p + 1)

HistoryContiguous ==
  pc = "out" => \A id \in Ids :
    LET s == seq[id] IN
    /\ s.state = "WAITING" => s.kvLen = 0
    /\ s.state = "PREFILLING" => Ready(s, s.cursor) /\ s.cursor < s.req.prompt
    /\ s.state = "RUNNING" => Ready(s, LastPos(id)) /\ Len(s.gen) \in 1 .. s.req.max - 1

(* At most max_concurrent sequences hold blocks, finished ones not yet     *)
(* finalized included, so if any max_concurrent of the requests fit the    *)
(* pool together, no write is ever refused (the sizing rule a user of the  *)
(* class needs; the last sampled token of a request is never written).     *)
PoolFitsAny ==
  \A group \in SUBSET {id \in Ids : seq[id].state # "NONE"} :
    Cardinality(group) <= MaxConcurrent =>
      Total([id \in Ids |-> Layout!BlocksFor(WrittenAtMost(seq[id].req))], group)
        <= NumBlocks

HoldersBounded ==
  /\ Cardinality({id \in Ids : seq[id].held > 0}) <= MaxConcurrent
  /\ (\E id \in Ids : seq[id].reason = "capacity") => ~ PoolFitsAny

(* Every accepted request is answered: no admission, budget or capacity    *)
(* situation leaves one behind (the constructor's comment,                 *)
(* scheduler.cpp:142, names the two knobs that would).                     *)
EveryRequestAnswered ==
  \A id \in Ids : seq[id].state = "WAITING" ~> seq[id].state = "GONE"
=============================================================================
