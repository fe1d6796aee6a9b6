---------------------------- MODULE EngineCalls -----------------------------
(***************************************************************************)
(* Engine::generate and Engine::generate_streaming called by several       *)
(* threads on one engine: forward_mu_ serializes the forward passes, which *)
(* share the scratch buffers; a stream drops it around on_token and        *)
(* on_done, and those callbacks may call back into engine.generate.        *)
(*                                                                         *)
(* The logits after n tokens of a call's sequence are the number n, and a  *)
(* sampled token is the number it was sampled from; a forward pass whose   *)
(* scratch was overwritten by another yields Garbage.                      *)
(*                                                                         *)
(* The Python bindings release the GIL before they enter the engine and    *)
(* take it only inside the callbacks, where forward_mu_ is free: it is     *)
(* never held by a thread that waits, and not modelled.                    *)
(***************************************************************************)
EXTENDS Integers, Sequences, FiniteSets

CONSTANTS
  Threads,
  Requests,     (* [kind, prompt, max, eos, fault]                         *)
  MaxCalls      (* bound: calls in a behaviour                             *)

(* fault: "none", "token" (an id outside the vocabulary), or "shape" (an   *)
(* empty prompt, a negative max_new_tokens, or beyond the RoPE table).     *)
Nobody  == "nobody"
Garbage == -1

ASSUME CallsAssumption ==
  /\ Nobody \notin Threads
  /\ MaxCalls \in Nat /\ Requests # {}
  /\ Requests \subseteq [kind : {"stream", "generate"}, prompt : Nat \ {0},
                         max : Nat, eos : Nat, fault : {"none", "token", "shape"}]

VARIABLES
  mu,           (* owner of forward_mu_                                    *)
  scratch,      (* whose values the scratch buffers hold                   *)
  calls,        (* calls made so far                                       *)
  pc, req,      (* where a thread is, and its call                         *)
  pos,          (* length of the call's KV cache                           *)
  logits,       (* the call's logits buffer                                *)
  generated, out,    (* tokens counted, tokens handed out                  *)
  reason,       (* the terminal reason, or "throw"                         *)
  cancel,       (* the CancelToken of the call                             *)
  late,         (* tokens handed out although cancel was set               *)
  done,         (* arguments of the on_done calls                          *)
  back          (* where a callback's nested generate returns to           *)

data == << req, calls >>
vars == << mu, scratch, data, pc, pos, logits, generated, out, reason,
           cancel, late, done, back >>

Request0 == CHOOSE r \in Requests : TRUE

Init ==
  /\ mu = Nobody /\ scratch = Nobody /\ calls = 0
  /\ pc = [t \in Threads |-> "idle"] /\ req = [t \in Threads |-> Request0]
  /\ pos = [t \in Threads |-> 0] /\ logits = [t \in Threads |-> Garbage]
  /\ generated = [t \in Threads |-> 0] /\ out = [t \in Threads |-> << >>]
  /\ reason = [t \in Threads |-> "none"] /\ cancel = [t \in Threads |-> FALSE]
  /\ late = [t \in Threads |-> 0] /\ done = [t \in Threads |-> << >>]
  /\ back = [t \in Threads |-> "idle"]

Streams(t) == req[t].kind = "stream"
Goto(t, l) == pc' = [pc EXCEPT ![t] = l]
End(t, why) == reason' = [reason EXCEPT ![t] = why] /\ Goto(t, "finish")

-----------------------------------------------------------------------------
(* A call; its token may be cancelled before the call starts.              *)
(* generate() rejects every bad input before it locks, generate_streaming  *)
(* only bad token ids.                                                     *)
Call(t, r, c) ==
  /\ pc[t] = "idle" /\ calls < MaxCalls
  /\ r.kind = "generate" => ~ c
  /\ calls' = calls + 1
  /\ req' = [req EXCEPT ![t] = r] /\ cancel' = [cancel EXCEPT ![t] = c]
  /\ pos' = [pos EXCEPT ![t] = 0] /\ logits' = [logits EXCEPT ![t] = Garbage]
  /\ generated' = [generated EXCEPT ![t] = 0] /\ out' = [out EXCEPT ![t] = << >>]
  /\ late' = [late EXCEPT ![t] = 0] /\ done' = [done EXCEPT ![t] = << >>]
  /\ IF r.fault = "token" \/ (r.fault = "shape" /\ r.kind = "generate")
       THEN End(t, IF r.kind = "stream" THEN "error" ELSE "throw")
       ELSE Goto(t, "lock") /\ reason' = [reason EXCEPT ![t] = "none"]
  /\ UNCHANGED << mu, scratch, back >>

Cancel(t) ==
  /\ pc[t] # "idle" /\ Streams(t) /\ ~ cancel[t]
  /\ cancel' = [cancel EXCEPT ![t] = TRUE]
  /\ UNCHANGED << mu, scratch, data, pc, pos, logits, generated, out, reason,
                  late, done, back >>

Lock(t) ==
  /\ pc[t] = "lock" /\ mu = Nobody
  /\ mu' = t
  /\ Goto(t, "setup")
  /\ UNCHANGED << scratch, data, pos, logits, generated, out, reason, cancel,
                  late, done, back >>

(* Load the model on first use, check the shape, allocate the KV cache and *)
(* the logits.                                                             *)
Setup(t) ==
  /\ pc[t] = "setup"
  /\ IF req[t].fault = "shape" THEN End(t, "error")
                               ELSE Goto(t, "prefill") /\ UNCHANGED reason
  /\ UNCHANGED << mu, scratch, data, pos, logits, generated, out, cancel,
                  late, done, back >>

(* Loading, an allocation or a kernel throws: the stream's catch blocks    *)
(* turn it into on_done("error"), generate() lets it escape.               *)
Throw(t) ==
  /\ pc[t] \in {"setup", "forward"}
  /\ End(t, IF Streams(t) THEN "error" ELSE "throw")
  /\ UNCHANGED << mu, scratch, data, pos, logits, generated, out, cancel,
                  late, done, back >>

-----------------------------------------------------------------------------
Cancelled(t) == Streams(t) /\ cancel[t]

(* A pass overwrites the scratch buffers, which have their full size: that *)
(* a failed ensure_scratch_loaded leaves them short is not modelled.       *)
BeginForward(t) ==
  /\ Goto(t, "forward")
  /\ scratch' = t

Prefill(t) ==
  /\ pc[t] = "prefill"
  /\ IF pos[t] = req[t].prompt
       THEN Goto(t, "loop") /\ UNCHANGED << scratch, reason >>
       ELSE IF Cancelled(t)
              THEN End(t, "cancelled") /\ UNCHANGED scratch
              ELSE BeginForward(t) /\ UNCHANGED reason
  /\ UNCHANGED << mu, data, pos, logits, generated, out, cancel, late, done, back >>

(* Logits are wanted for the last prompt token and for every decoded one.  *)
EndForward(t) ==
  /\ pc[t] = "forward"
  /\ pos' = [pos EXCEPT ![t] = @ + 1]
  /\ logits' = IF pos[t] + 1 < req[t].prompt THEN logits
               ELSE [logits EXCEPT ![t] = IF scratch = t THEN pos[t] + 1 ELSE Garbage]
  /\ Goto(t, IF pos[t] + 1 <= req[t].prompt THEN "prefill" ELSE "loop")
  /\ UNCHANGED << mu, scratch, data, generated, out, reason, cancel, late, done, back >>

Eos(t) == logits[t] - req[t].prompt = req[t].eos

(* Plausible bug: the mutex stays held while the callback runs.            *)
SampleHoldsLock(t) ==
  /\ pc[t] = "loop"
  /\ IF generated[t] >= req[t].max THEN End(t, "length")
     ELSE IF Cancelled(t) THEN End(t, "cancelled")
     ELSE IF Eos(t) THEN End(t, "stop")
     ELSE Goto(t, "token") /\ UNCHANGED reason
  /\ UNCHANGED << mu, scratch, data, pos, logits, generated, out, cancel,
                  late, done, back >>

(* Plausible bug: cancellation is not looked at between two tokens.        *)
SampleDeaf(t) ==
  /\ pc[t] = "loop"
  /\ IF generated[t] >= req[t].max THEN End(t, "length") /\ UNCHANGED mu
     ELSE IF Eos(t) THEN End(t, "stop") /\ UNCHANGED mu
     ELSE /\ Goto(t, "token")
          /\ mu' = IF Streams(t) THEN Nobody ELSE mu
          /\ UNCHANGED reason
  /\ UNCHANGED << scratch, data, pos, logits, generated, out, cancel,
                  late, done, back >>

(* Top of the decode loop; a stream unlocks before it calls on_token.      *)
Sample(t) ==
  /\ pc[t] = "loop"
  /\ IF generated[t] >= req[t].max THEN End(t, "length") /\ UNCHANGED mu
     ELSE IF Cancelled(t) THEN End(t, "cancelled") /\ UNCHANGED mu
     ELSE IF Eos(t) THEN End(t, "stop") /\ UNCHANGED mu
     ELSE /\ Goto(t, "token")
          /\ mu' = IF Streams(t) THEN Nobody ELSE mu
          /\ UNCHANGED reason
  /\ UNCHANGED << scratch, data, pos, logits, generated, out, cancel,
                  late, done, back >>

(* on_token, which may call engine.generate; generate() itself only pushes *)
(* the token and keeps the mutex.                                          *)
Token(t) ==
  /\ pc[t] = "token"
  /\ out' = [out EXCEPT ![t] = Append(@, logits[t])]
  /\ late' = [late EXCEPT ![t] = IF cancel[t] THEN @ + 1 ELSE @]
  /\ IF Streams(t)
       THEN \E nested \in BOOLEAN :
              /\ Goto(t, IF nested THEN "nestedLock" ELSE "relock")
              /\ back' = [back EXCEPT ![t] = "relock"]
       ELSE Goto(t, "advance") /\ UNCHANGED back
  /\ UNCHANGED << mu, scratch, data, pos, logits, generated, reason, cancel, done >>

(* Plausible bug: the stream computes on without the mutex.                *)
RelockForgotten(t) ==
  /\ pc[t] = "relock"
  /\ Goto(t, "advance")
  /\ UNCHANGED << mu, scratch, data, pos, logits, generated, out, reason,
                  cancel, late, done, back >>

Relock(t) ==
  /\ pc[t] = "relock" /\ mu = Nobody
  /\ mu' = t
  /\ Goto(t, "advance")
  /\ UNCHANGED << scratch, data, pos, logits, generated, out, reason, cancel,
                  late, done, back >>

(* Plausible bug: a forward pass follows even the last token.              *)
AdvanceAlways(t) ==
  /\ pc[t] = "advance"
  /\ generated' = [generated EXCEPT ![t] = @ + 1]
  /\ BeginForward(t)
  /\ UNCHANGED << mu, data, pos, logits, out, reason, cancel, late, done, back >>

(* No forward pass after the last token: nothing would be sampled from it. *)
Advance(t) ==
  /\ pc[t] = "advance"
  /\ generated' = [generated EXCEPT ![t] = @ + 1]
  /\ IF generated[t] + 1 < req[t].max THEN BeginForward(t)
                                      ELSE Goto(t, "loop") /\ UNCHANGED scratch
  /\ UNCHANGED << mu, data, pos, logits, out, reason, cancel, late, done, back >>

-----------------------------------------------------------------------------
(* The finish lambda: unlock if the mutex is owned, then on_done.          *)

(* Plausible bug: the mutex leaks on the error paths.                      *)
UnlockExceptError(t) ==
  /\ pc[t] = "finish"
  /\ mu' = IF mu = t /\ reason[t] # "error" THEN Nobody ELSE mu
  /\ Goto(t, IF Streams(t) THEN "onDone" ELSE "idle")
  /\ UNCHANGED << scratch, data, pos, logits, generated, out, reason, cancel,
                  late, done, back >>

Unlock(t) ==
  /\ pc[t] = "finish"
  /\ mu' = IF mu = t THEN Nobody ELSE mu
  /\ Goto(t, IF Streams(t) THEN "onDone" ELSE "idle")
  /\ UNCHANGED << scratch, data, pos, logits, generated, out, reason, cancel,
                  late, done, back >>

(* Plausible bug: an error ends the stream without a word.                 *)
OnDoneSilentError(t) ==
  /\ pc[t] = "onDone"
  /\ done' = [done EXCEPT ![t] = IF reason[t] = "error" THEN @ ELSE Append(@, reason[t])]
  /\ \E nested \in BOOLEAN :
       /\ Goto(t, IF nested THEN "nestedLock" ELSE "idle")
       /\ back' = [back EXCEPT ![t] = "idle"]
  /\ UNCHANGED << mu, scratch, data, pos, logits, generated, out, reason,
                  cancel, late >>

(* on_done, which throws nothing, as the bindings see to.                  *)
OnDone(t) ==
  /\ pc[t] = "onDone"
  /\ done' = [done EXCEPT ![t] = Append(@, reason[t])]
  /\ \E nested \in BOOLEAN :
       /\ Goto(t, IF nested THEN "nestedLock" ELSE "idle")
       /\ back' = [back EXCEPT ![t] = "idle"]
  /\ UNCHANGED << mu, scratch, data, pos, logits, generated, out, reason,
                  cancel, late >>

-----------------------------------------------------------------------------
(* engine.generate called from inside a callback, by the same thread: its  *)
(* forward passes overwrite the scratch buffers.                           *)
NestedLock(t) ==
  /\ pc[t] = "nestedLock" /\ mu = Nobody
  /\ mu' = t
  /\ Goto(t, "nested")
  /\ UNCHANGED << scratch, data, pos, logits, generated, out, reason, cancel,
                  late, done, back >>

NestedReturn(t) ==
  /\ pc[t] = "nested"
  /\ scratch' = Nobody
  /\ mu' = Nobody
  /\ Goto(t, back[t])
  /\ UNCHANGED << data, pos, logits, generated, out, reason, cancel, late, done, back >>

-----------------------------------------------------------------------------
ThreadStep(t) ==
  \/ Lock(t) \/ Setup(t) \/ Throw(t) \/ Prefill(t) \/ EndForward(t)
  \/ Sample(t) \/ Token(t) \/ Relock(t) \/ Advance(t)
  \/ Unlock(t) \/ OnDone(t) \/ NestedLock(t) \/ NestedReturn(t)

(* The bound on calls is used up and all have returned.                    *)
Quiescent ==
  /\ calls = MaxCalls /\ \A t \in Threads : pc[t] = "idle"
  /\ UNCHANGED vars

Next ==
  \/ \E t \in Threads :
       \/ \E r \in Requests, c \in BOOLEAN : Call(t, r, c)
       \/ Cancel(t)
       \/ ThreadStep(t)
  \/ Quiescent

(* A thread that can run, or whose mutex stays free, eventually goes on.   *)
Spec == Init /\ [][Next]_vars /\ \A t \in Threads : WF_vars(ThreadStep(t))

-----------------------------------------------------------------------------
Locked   == {"setup", "prefill", "forward", "loop", "advance", "nested"}
Unlocked == {"idle", "lock", "relock", "onDone", "nestedLock"}
Reasons  == {"none", "stop", "length", "cancelled", "error", "throw"}

(* Rows of its KV cache a call fills: the last token is never fed back.    *)
WrittenAtMost(r) == IF r.max = 0 THEN r.prompt ELSE r.prompt + r.max - 1

TypeOK ==
  /\ mu \in Threads \cup {Nobody} /\ scratch \in Threads \cup {Nobody}
  /\ calls \in 0 .. MaxCalls
  /\ pc \in [Threads -> Locked \cup Unlocked \cup {"token", "finish"}]
  /\ req \in [Threads -> Requests]
  /\ pos \in [Threads -> Nat]
  /\ \A t \in Threads : pos[t] <= WrittenAtMost(req[t])
  /\ logits \in [Threads -> Nat \cup {Garbage}]
  /\ generated \in [Threads -> Nat] /\ out \in [Threads -> Seq(Nat \cup {Garbage})]
  /\ reason \in [Threads -> Reasons]
  /\ cancel \in [Threads -> BOOLEAN] /\ late \in [Threads -> Nat]
  /\ done \in [Threads -> Seq(Reasons)] /\ back \in [Threads -> {"idle", "relock"}]

(* Whatever other calls, callbacks and cancellations interleave, a call    *)
(* hands out a prefix of the tokens that greedy decoding of its request    *)
(* yields, and all of them when it ends with "stop" or "length"            *)
(* (engine.hpp:38: concurrent callers "see correct per-call output").      *)
OutputUndisturbed ==
  \A t \in Threads :
    LET r    == req[t]
        full == IF r.eos < r.max THEN r.eos ELSE r.max
    IN  /\ Len(out[t]) <= full
        /\ \A i \in DOMAIN out[t] : out[t][i] = r.prompt + i - 1
        /\ reason[t] \in {"stop", "length"} =>
             /\ Len(out[t]) = full
             /\ reason[t] = IF r.eos < r.max THEN "stop" ELSE "length"

(* The mutex protects exactly what it should: it is owned during every     *)
(* computation and never while a callback may run (a callback that called  *)
(* back into the engine would wait for itself).                            *)
LockDiscipline ==
  \A t \in Threads :
    /\ pc[t] \in Locked => mu = t
    /\ pc[t] \in Unlocked => mu # t
    /\ pc[t] = "token" => (mu = t <=> ~ Streams(t))

(* A stream calls on_done exactly once however it ends, error paths        *)
(* included, so the bridge that waits for it never waits in vain; it is    *)
(* never called for generate().                                            *)
DoneExactlyOnce ==
  \A t \in Threads :
    /\ Len(done[t]) <= 1
    /\ pc[t] = "idle" /\ reason[t] # "none" =>
         done[t] = IF Streams(t) THEN << reason[t] >> ELSE << >>

(* Cancellation is cooperative: a stream reports it only if it was asked,  *)
(* and at most the one token already past its check still comes out.       *)
CancelStops ==
  \A t \in Threads :
    /\ reason[t] = "cancelled" => cancel[t]
    /\ late[t] <= 1

(* Every call returns, and with it every stream reports its end, while the *)
(* calls of a behaviour are finitely many: no callback, error or           *)
(* cancellation leaves the mutex locked.                                   *)
EveryCallReturns == \A t \in Threads : pc[t] = "lock" ~> pc[t] = "idle"
=============================================================================
