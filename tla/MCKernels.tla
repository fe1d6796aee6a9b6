----------------------------- MODULE MCKernels ------------------------------
(* Rows that fill the wide loop, miss it, and leave every kind of rest;    *)
(* loops below and above the threshold, with fewer rows than threads and   *)
(* with a share that does not divide them.                                 *)
EXTENDS Kernels

Matmul(kind, m, n, k) == [op |-> "matmul", kind |-> kind, M |-> m, N |-> n, K |-> k]
Norm(kind, k) == [op |-> "norm", kind |-> kind, M |-> 1, N |-> 1, K |-> k]
Attend(q, kv, len) ==
  [op |-> "attention", q |-> q, kv |-> kv, hd |-> 2, len |-> len]

MCProducts ==
  {Matmul("neon", 2, 4, 23), Matmul("neon", 1, 2, 16), Matmul("neon_int8", 1, 4, 21),
   Matmul("scalar", 2, 5, 4), Matmul("scalar", 1, 1, 2), Matmul("neon", 1, 3, 3),
   Norm("neon", 22), Norm("scalar", 3)}

MCAttentions == {Attend(4, 2, 3), Attend(4, 2, 1), Attend(6, 2, 2), Attend(2, 2, 4)}
=============================================================================
