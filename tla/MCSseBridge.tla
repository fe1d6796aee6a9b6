---------------------------- MODULE MCSseBridge -----------------------------
(* A few requests, in pairs that share the engine thread.                  *)
EXTENDS SseBridge

Req(k, n, why, h) == [kind |-> k, n |-> n, reason |-> why, holds |-> h]

(* A stream cut by the cap, whose second token completes the character the *)
(* first began; one that EOS ends inside a character; one that says        *)
(* nothing; a plain request.                                               *)
MCRequests ==
  {Req("stream", 2, "length", {1}), Req("stream", 1, "stop", {1}),
   Req("stream", 0, "stop", {}), Req("plain", 1, "length", {})}

(* The second request of a pair takes its turn on the engine thread and is *)
(* no longer than that needs.                                              *)
CONSTANT Second
MCInit ==
  /\ Init
  /\ \A c \in Clients \ {Second} :
       /\ req[c].n > 0 /\ req[c].kind = "stream"
       /\ req[Second].kind = "plain" \/ (req[Second].n = 0 /\ req[c].n = 1)

MCSpec == MCInit /\ [][Next]_vars /\ Fairness

(* What the comment on the clean branch of the safety net says of the      *)
(* worker (server.py:245): it "finished cleanly without enqueuing DONE".   *)
NetOnlyWithoutDone ==
  \A c \in Clients :
    task[c].how = "netClean" =>
      ~ \E i \in DOMAIN queue[c] : queue[c][i].reason # "none"
=============================================================================
