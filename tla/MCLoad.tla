------------------------------- MODULE MCLoad -------------------------------
(* Two shards of a model with two layers.  The embedding is at home in the *)
(* first shard and, in a second copy, in the second; lm_head is in the     *)
(* second.                                                                 *)
EXTENDS ModelLoad, Functions, TLC

MCEmbed == << 0, "embed" >>
MCLmHead == << 0, "lm_head" >>
MCNorm == << 0, "norm" >>

LayerNames(l) ==
  << << l, "attn_norm" >>, << l, "ffn_norm" >> >> \o [i \in 1 .. 7 |-> << l, Mats[i] >>]

(* The largest tensor has 24 bytes.                                        *)
MCShards ==
  << [size |-> 40, header |-> 4, names |-> << MCEmbed >> \o LayerNames(1)],
     [size |-> 36, header |-> 4,
      names |-> << MCNorm, MCLmHead, MCEmbed >> \o LayerNames(2)] >>

MCNames == UNION {Range(MCShards[s].names) : s \in DOMAIN MCShards}

MCSound ==
  [n \in MCNames |->
     [dtype |-> IF n[1] = 2 THEN "F16" ELSE IF n = << 1, "q" >> THEN "F32" ELSE "BF16",
      shape |-> Shape(n)]]

(* A file shorter than the length prefix, and a truncated one.             *)
MCOddSizes == {5, 21}
(* Past the file, just inside it, and two whose sum with 8 wraps.          *)
MCOddHeaders == {30, 33, 120, 127}
MCOddNames == {MCEmbed, MCLmHead, << 1, "q" >>}
(* 43 * 3 wraps to 1.                                                      *)
MCOddDims == {-1, 0, 2, 3, 43}
MCOddOffsets == {0, 1, 8, 12, 24, 28}

MCSymmetry == Permutations(Threads)
=============================================================================
