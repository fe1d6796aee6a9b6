-------------------------- MODULE MCContinuousBatch --------------------------
(* Short requests that meet every way to finish.                           *)
EXTENDS ContinuousBatch

Req(p, m, e) == [prompt |-> p, max |-> m, eos |-> e]

(* No sampling; one token; EOS at once; EOS after one; cut by the cap; too *)
(* long for the RoPE table (rejected).                                     *)
MCRequests == {Req(1, 0, 0), Req(2, 1, 9), Req(3, 2, 0), Req(3, 3, 1),
               Req(2, 4, 9), Req(5, 3, 9)}

(* The last request of a behaviour is the one that decodes longest, among  *)
(* three of any kind.                                                      *)
LastDecodes == nextId = MaxSeqs => seq[MaxSeqs - 1].req = Req(2, 4, 9)

(* For the liveness run.                                                   *)
MCRequestsFew == {Req(3, 2, 0), Req(2, 4, 9)}

-----------------------------------------------------------------------------
(* A driver that never stops: between two steps, an answered sequence      *)
(* whose result was cleared gives its place, and its number, to a new      *)
(* request.  Numbers are never compared, so this stands for ever new ones. *)
Renew(id, r) ==
  /\ pc = "out" /\ Accepts(r) /\ seq[id].state = "GONE"
  /\ \A i \in DOMAIN results : results[i].id # id
  /\ seq' = [seq EXCEPT ![id] = NewSeq(r)]
  /\ waiting' = Append(waiting, id)
  /\ UNCHANGED << prefilling, running, results, nextId, freeBlocks, budget, pc, left,
                  it, logits, batch, rows, faults >>

EndlessSpec ==
  /\ Init /\ [][Next \/ \E id \in Ids, r \in Requests : Renew(id, r)]_vars
  /\ WF_vars(InStep)

(* A prompt of three among requests that end with their prefill.           *)
MCRequestsLong == {Req(3, 1, 9), Req(1, 0, 0)}

(* What scheduler.hpp:88-90 says of a step, that it "advances every        *)
(* PREFILLING by at most" the budget: none stays PREFILLING for ever.      *)
EveryPrefillAdvances ==
  \A id \in Ids : seq[id].state = "PREFILLING" ~> seq[id].state # "PREFILLING"
=============================================================================
