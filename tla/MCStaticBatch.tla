---------------------------- MODULE MCStaticBatch ----------------------------
(* Two batches share the ids; the pool fits some pairs and refuses others. *)
EXTENDS StaticBatch

Req(p, m, e) == [prompt |-> p, max |-> m, eos |-> e]

MCRequests == {Req(1, 0, 0), Req(2, 1, 9), Req(3, 2, 0), Req(3, 3, 1),
               Req(2, 4, 9), Req(5, 3, 9)}
=============================================================================
