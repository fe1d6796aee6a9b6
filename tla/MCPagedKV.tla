----------------------------- MODULE MCPagedKV ------------------------------
(* Two sequences compete for a pool that is too small for both.            *)
EXTENDS PagedKV, TLC

CONSTANTS k1, k2, v1, v2, z

MCVecs        == {k1, k2, v1, v2, z}
MCProjections == {<< k1, v1 >>, << k2, v2 >>}

(* The caches are interchangeable, and so are the two tokens.              *)
SwapTokens == (k1 :> k2) @@ (k2 :> k1) @@ (v1 :> v2) @@ (v2 :> v1)
MCSymmetry ==
  Permutations(Caches) \cup {p @@ SwapTokens : p \in Permutations(Caches)}
=============================================================================
