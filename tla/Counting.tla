------------------------------ MODULE Counting -------------------------------
(***************************************************************************)
(* Sums and ranks as cardinalities of finite sets.                         *)
(***************************************************************************)
EXTENDS Integers, FiniteSets

(* Sum of f over ids: the number of pairs <<id, k>> with k <= f[id].       *)
Entries(f, ids) == UNION {{id} \X (1 .. f[id]) : id \in ids}
Total(f, ids)   == Cardinality(Entries(f, ids))

(* How many members of S come up to i, and the k-th smallest of them.      *)
RankIn(S, i) == Cardinality({j \in S : j <= i})
Nth(S, k)    == CHOOSE i \in S : RankIn(S, i) = k
=============================================================================
