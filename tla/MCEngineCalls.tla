--------------------------- MODULE MCEngineCalls ----------------------------
(* Two threads; streams that end by cap and by EOS, a plain generate, and  *)
(* requests that are rejected before and after the lock.                   *)
EXTENDS EngineCalls

Req(k, p, m, e, f) == [kind |-> k, prompt |-> p, max |-> m, eos |-> e, fault |-> f]

MCRequests ==
  {Req("stream", 2, 3, 9, "none"), Req("stream", 1, 3, 1, "none"),
   Req("stream", 1, 0, 9, "none"),
   Req("generate", 1, 2, 9, "none"), Req("stream", 1, 1, 9, "token"),
   Req("stream", 1, 1, 9, "shape"), Req("generate", 1, 1, 9, "shape")}
=============================================================================
