------------------------------ MODULE Serving -------------------------------
(***************************************************************************)
(* What a batch scheduler promises its caller, whatever it does inside:    *)
(* each accepted request is answered at most once, as engine.generate      *)
(* would answer it alone, or, when the pool ran out, with "capacity" and   *)
(* the first of those tokens.  Greedy decoding is abstracted to the tag    *)
(* [of |-> id, at |-> n]: the token that follows the first n of request id.*)
(***************************************************************************)
EXTENDS Integers, Sequences, SequencesExt

CONSTANTS
  Requests,     (* [prompt, max, eos]: prompt length, max_new_tokens, and  *)
                (* after how many tokens greedy sampling hits an EOS id    *)
  MaxPos,       (* engine.max_pos(): RoPE table rows                       *)
  InOrder       (* answers come in the order of the requests               *)

VARIABLES
  asked,        (* the requests accepted so far; ids count from 0          *)
  pending,      (* ids not answered yet                                    *)
  results       (* answers since the last clear_results()                  *)

vars == << asked, pending, results >>

Tag(id, n) == [of |-> id, at |-> n]

(* enqueue() throws, and changes nothing, on an empty prompt, a negative   *)
(* max_new_tokens or a request that could run past the RoPE table.         *)
Accepts(r) == r.prompt > 0 /\ r.prompt + r.max <= MaxPos

(* engine.generate: tokens and finish reason.                              *)
Generate(id) ==
  LET r   == asked[id + 1]
      len == IF r.eos < r.max THEN r.eos ELSE r.max
  IN  [gen |-> [i \in 1 .. len |-> Tag(id, r.prompt + i - 1)],
       reason |-> IF r.eos < r.max THEN "stop" ELSE "length"]

(* A sequence refused a block loses what it still had to write: never an   *)
(* answer that the cap had already completed.                              *)
Answers(a) ==
  LET g == Generate(a.id) IN
  \/ a.gen = g.gen /\ a.reason = g.reason
  \/ /\ a.reason = "capacity" /\ IsPrefix(a.gen, g.gen)
     /\ a.gen = g.gen => g.reason = "stop" \/ a.gen = << >>

Init == asked = << >> /\ pending = {} /\ results = << >>

Accept ==
  /\ asked' \in {Append(asked, r) : r \in {q \in Requests : Accepts(q)}}
  /\ pending' = pending \cup {Len(asked)}
  /\ UNCHANGED results

(* One or more requests are answered at once.                              *)
Answer ==
  /\ IsStrictPrefix(results, results')
  /\ LET new == SubSeq(results', Len(results) + 1, Len(results'))
         ids == [i \in DOMAIN new |-> new[i].id] IN
     /\ IsInjective(ids) /\ ToSet(ids) \subseteq pending
     /\ \A i \in DOMAIN new : Answers(new[i])
     /\ pending' = pending \ ToSet(ids)
     /\ InOrder => \A i \in DOMAIN ids, id \in pending :
                     id < ids[i] => \E h \in 1 .. i - 1 : ids[h] = id
  /\ UNCHANGED asked

ClearResults ==
  /\ results' = << >>
  /\ UNCHANGED << asked, pending >>

Next == Accept \/ Answer \/ ClearResults

Spec == Init /\ [][Next]_vars
=============================================================================
