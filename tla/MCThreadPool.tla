---------------------------- MODULE MCThreadPool -----------------------------
(* Two threads run forward passes, on one engine or on one each.           *)
EXTENDS ThreadPool

CONSTANTS a, b, e1, e2

OneEngine  == [c \in Callers |-> e1]
TwoEngines == [c \in Callers |-> IF c = a THEN e1 ELSE e2]
=============================================================================
