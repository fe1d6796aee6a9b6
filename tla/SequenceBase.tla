---------------------------- MODULE SequenceBase ----------------------------
(***************************************************************************)
(* What the two batch schedulers share: the Sequence object, the pool of   *)
(* KV blocks behind its cache, greedy sampling and the result records.     *)
(*                                                                         *)
(* The engine's arithmetic is abstracted to what greedy decoding depends   *)
(* on: the logits after a sequence's first n tokens are the tag            *)
(* [of |-> id, at |-> n], and a sampled token is the tag it was sampled    *)
(* from.  A forward pass beyond the next position would attend to rows     *)
(* never written: its logits are Garbage.  PagedKV justifies counting      *)
(* blocks instead of naming them, and treating a forward pass of all       *)
(* layers as one step: only its first write can be refused.                *)
(***************************************************************************)
EXTENDS Counting, Sequences, SequencesExt

CONSTANTS
  NumBlocks, BlockSize,   (* the pool                                      *)
  MaxPos,                 (* engine.max_pos(): RoPE table rows             *)
  Requests,               (* [prompt, max, eos]: prompt length, max_new,   *)
                          (* and after how many tokens greedy sampling     *)
                          (* hits an EOS id                                *)
  MaxSeqs                 (* bound: requests enqueued in a behaviour       *)

(* BlockManager's constructor rejects an empty pool and empty blocks.      *)
ASSUME PoolAssumption == NumBlocks \in Nat \ {0} /\ BlockSize \in Nat \ {0}

ASSUME RequestAssumption ==
  /\ MaxSeqs \in Nat /\ MaxPos \in Nat
  /\ Requests \subseteq [prompt : Nat, max : Nat, eos : Nat]

Layout == INSTANCE PoolLayout WITH NumLayers <- 1

Ids == 0 .. MaxSeqs - 1

VARIABLES
  seq,          (* the Sequence objects, by seq_id                         *)
  nextId,       (* next_id_                                                *)
  results,      (* results_: completion order                              *)
  freeBlocks    (* BlockManager::free_blocks()                             *)

-----------------------------------------------------------------------------
(* Greedy decoding                                                         *)

Tag(id, n) == [of |-> id, at |-> n]
Garbage    == [of |-> -1, at |-> 0]
Dead       == [of |-> -2, at |-> 0]    (* alive[i] = 0                     *)

(* Logits of a forward pass that writes position p of sequence id, and     *)
(* attends to all before it.                                               *)
LogitsAt(id, p) == IF p <= seq[id].kvLen THEN Tag(id, p + 1) ELSE Garbage

IsEos(lg) == /\ lg.of \in Ids
             /\ lg.at - seq[lg.of].req.prompt = seq[lg.of].req.eos

-----------------------------------------------------------------------------
(* Sequence objects                                                        *)

NoRequest == [prompt |-> 0, max |-> 0, eos |-> 0]
Unfinished == ""        (* finish_reason until a sequence is FINISHED      *)
NewSeq(r) == [req |-> r, cursor |-> 0, gen |-> << >>, state |-> "WAITING",
              reason |-> Unfinished, kvLen |-> 0, held |-> 0]
NoSeq     == [NewSeq(NoRequest) EXCEPT !.state = "NONE"]

Finish(s, why) == [s EXCEPT !.state = "FINISHED", !.reason = why]

(* enqueue() throws, and changes nothing, on an empty prompt, a negative   *)
(* max_new_tokens or a request that could run past the RoPE table.         *)
Accepts(r) == r.prompt > 0 /\ r.prompt + r.max <= MaxPos

(* Position of the token whose forward pass comes next in decoding.        *)
LastPos(id) == seq[id].req.prompt + Len(seq[id].gen) - 1

(* write() needs a block it does not hold; it fails if none is free.       *)
NeedsBlock(id, p) == Layout!BlkIdx(p) >= seq[id].held

(* Plausible bug: the result of write() is ignored.                        *)
CanWriteUnchecked(id, p) == TRUE

CanWrite(id, p) == ~ NeedsBlock(id, p) \/ freeBlocks > 0

AfterWrite(id, p) ==
  [seq[id] EXCEPT !.kvLen = p + 1, !.held = IF NeedsBlock(id, p) THEN @ + 1 ELSE @]
FreeAfterWrite(id, p) ==
  IF NeedsBlock(id, p) THEN freeBlocks - 1 ELSE freeBlocks

(* Argmax, EOS test, push, cap test right after the push.                  *)
AfterSample(s, lg) ==
  LET pushed == [s EXCEPT !.gen = Append(@, lg)]
  IN  IF IsEos(lg) THEN Finish(s, "stop")
      ELSE IF Len(pushed.gen) >= s.req.max THEN Finish(pushed, "length")
      ELSE [pushed EXCEPT !.state = "RUNNING"]

AfterPrefill(s, lg) ==
  IF s.req.max = 0 THEN Finish(s, "length") ELSE AfterSample(s, lg)

-----------------------------------------------------------------------------
(* Retiring sequences: release_all(), snapshot, destruction                *)

ResultOf(id) == [id |-> id, gen |-> seq[id].gen, reason |-> seq[id].reason]

HeldBy(ids) == Total([id \in Ids |-> seq[id].held], ids)

(* Plausible bug: the blocks of finished sequences are not given back.     *)
RetireNoRelease(list) ==
  /\ seq' = [id \in Ids |-> IF id \in ToSet(list)
                              THEN [seq[id] EXCEPT !.state = "GONE"] ELSE seq[id]]
  /\ results' = results \o [i \in DOMAIN list |-> ResultOf(list[i])]
  /\ UNCHANGED freeBlocks

Retire(list) ==
  /\ seq' = [id \in Ids |-> IF id \in ToSet(list)
                              THEN [seq[id] EXCEPT !.state = "GONE", !.held = 0]
                              ELSE seq[id]]
  /\ freeBlocks' = freeBlocks + HeldBy(ToSet(list))
  /\ results' = results \o [i \in DOMAIN list |-> ResultOf(list[i])]

BaseInit ==
  /\ seq = [id \in Ids |-> NoSeq]
  /\ nextId = 0
  /\ results = << >>
  /\ freeBlocks = NumBlocks

-----------------------------------------------------------------------------
(* Properties both schedulers have                                         *)

States == {"NONE", "WAITING", "PREFILLING", "RUNNING", "FINISHED", "GONE"}
Rows   == [of : Ids \cup {-1, -2}, at : Nat]
SeqRecords ==
  [req : Requests \cup {NoRequest}, cursor : Nat, gen : Seq(Rows),
   state : States, reason : {Unfinished, "stop", "length", "capacity"},
   kvLen : Nat, held : Nat]

BaseTypeOK ==
  /\ seq \in [Ids -> SeqRecords]
  /\ nextId \in 0 .. MaxSeqs
  /\ results \in Seq([id : Ids, gen : Seq(Rows),
                      reason : {"stop", "length", "capacity"}])
  /\ freeBlocks \in 0 .. NumBlocks

(* The schedulers seen from outside, as Serving has it.                    *)
Asked   == [i \in 1 .. nextId |-> seq[i - 1].req]
Pending == {id \in 0 .. nextId - 1 : seq[id].state # "GONE"}

(* Blocks are conserved: free and held blocks are the pool, a sequence     *)
(* holds exactly those its tokens need, and nothing that left the          *)
(* scheduler holds any.                                                    *)
BlocksAccounted ==
  /\ freeBlocks + HeldBy(Ids) = NumBlocks
  /\ \A id \in Ids : seq[id].held = IF seq[id].state = "GONE" THEN 0
                                      ELSE Layout!BlocksFor(seq[id].kvLen)

(* Positions a request writes at most: its last sampled token is never     *)
(* written.                                                                *)
WrittenAtMost(r) == IF r.max = 0 THEN r.prompt ELSE r.prompt + r.max - 1
=============================================================================
