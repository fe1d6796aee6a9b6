----------------------------- MODULE SseBridge ------------------------------
(***************************************************************************)
(* The HTTP server between the asyncio loop and the engine: _stream_sse,   *)
(* the one-thread executor that all engine work is pinned to, the queue    *)
(* that carries tokens and the final reason from the engine's thread to    *)
(* the loop, and the plain request that waits for its engine call.         *)
(*                                                                         *)
(* Tasks of the loop interleave where they await; the executor's thread    *)
(* runs at any time.  A token is its number in the answer, and the decoded *)
(* text is the tokens it covers.                                           *)
(***************************************************************************)
EXTENDS Integers, Sequences, SequencesExt

CONSTANTS
  Clients,      (* one request each                                        *)
  Requests      (* [kind, n, reason, holds]: tokens and reason the engine  *)
                (* yields undisturbed, and after how many tokens the text  *)
                (* ends inside a character                                 *)

ASSUME RequestsAssumption ==
  Requests \subseteq [kind : {"stream", "plain"}, n : Nat,
                      reason : {"stop", "length"}, holds : SUBSET Nat]

VARIABLES
  req,
  task,         (* the request's asyncio task: its phase, the length of    *)
                (* buffer, what was sent, and how the stream ended         *)
  queue,        (* the janus queue                                         *)
  pool,         (* requests queued in engine_pool                          *)
  job,          (* the engine's side: state, tokens made, reason reported  *)
  worker,       (* the asyncio future of the job                           *)
  cancel,       (* the CancelToken                                         *)
  gone          (* the client disconnected                                 *)

vars == << req, task, queue, pool, job, worker, cancel, gone >>

Init ==
  /\ req \in [Clients -> Requests]
  /\ task = [c \in Clients |-> [phase |-> "new", buffer |-> 0, out |-> << >>,
                                finish |-> "none", how |-> "none", unseen |-> 0]]
  /\ queue = [c \in Clients |-> << >>] /\ pool = << >>
  /\ job = [c \in Clients |-> [state |-> "none", made |-> 0, reason |-> "none"]]
  /\ worker = [c \in Clients |-> "pending"]
  /\ cancel = [c \in Clients |-> FALSE] /\ gone = [c \in Clients |-> FALSE]

Streams(c)      == req[c].kind = "stream"
Goto(c, p)      == task' = [task EXCEPT ![c].phase = p]
Item(tok, why)  == [tok |-> tok, reason |-> why]
Put(c, item)    == queue' = [queue EXCEPT ![c] = Append(@, item)]
Job(c, s)       == job' = [job EXCEPT ![c].state = s]

-----------------------------------------------------------------------------
(* The executor's thread: generate_streaming reduced to its callbacks      *)
(* (EngineCalls has the whole of it), or one engine.generate.              *)

OnThread == {"running", "sampled", "reported"}

StartJob(c) ==
  /\ pool # << >> /\ Head(pool) = c
  /\ \A d \in Clients : job[d].state \notin OnThread
  /\ pool' = Tail(pool)
  /\ Job(c, "running")
  /\ UNCHANGED << req, task, queue, worker, cancel, gone >>

(* The cancellation check comes before the token, on_token after it.       *)
SampleToken(c) ==
  /\ job[c].state = "running" /\ Streams(c)
  /\ ~ cancel[c] /\ job[c].made < req[c].n
  /\ Job(c, "sampled")
  /\ UNCHANGED << req, task, queue, pool, worker, cancel, gone >>

OnToken(c) ==
  /\ job[c].state = "sampled"
  /\ Put(c, Item(job[c].made + 1, "none"))
  /\ job' = [job EXCEPT ![c].state = "running", ![c].made = @ + 1]
  /\ UNCHANGED << req, task, pool, worker, cancel, gone >>

(* The cap is tested before the cancellation, EOS after it; an exception   *)
(* may come at any time.                                                   *)
Terminal(c, why) ==
  \/ why = "cancelled" /\ cancel[c]
       /\ (job[c].made = 0 \/ job[c].made < req[c].n \/ req[c].reason = "stop")
  \/ why = req[c].reason /\ job[c].made = req[c].n
       /\ (cancel[c] => req[c].reason = "length")
  \/ why = "error"

OnDone(c) ==
  /\ job[c].state = "running" /\ Streams(c)
  /\ \E why \in {"cancelled", "stop", "length", "error"} :
       /\ Terminal(c, why)
       /\ Put(c, Item(0, why))
       /\ job' = [job EXCEPT ![c].state = "reported", ![c].reason = why]
  /\ UNCHANGED << req, task, pool, worker, cancel, gone >>

(* The call returns, or raises: a plain call for a bad input, a stream     *)
(* before it reached on_done (the case the polling loop guards against).   *)
EndJob(c) ==
  /\ \/ job[c].state = "reported" /\ Job(c, "ended")
     \/ job[c].state = "running" /\ ~ Streams(c) /\ Job(c, "ended")
     \/ job[c].state = "running" /\ Job(c, "raised")
  /\ UNCHANGED << req, task, queue, pool, worker, cancel, gone >>

(* The loop learns of it through a callback of its own.                    *)
FutureDone(c) ==
  /\ worker[c] = "pending" /\ job[c].state \in {"ended", "raised"}
  /\ worker' = [worker EXCEPT ![c] = IF job[c].state = "ended" THEN "result"
                                                              ELSE "exception"]
  /\ UNCHANGED << req, task, queue, pool, job, cancel, gone >>

-----------------------------------------------------------------------------
(* The tasks                                                               *)

(* A stream hands its job to the executor and starts to poll; a plain      *)
(* request awaits its call.                                                *)
Start(c) ==
  /\ task[c].phase = "new"
  /\ Goto(c, IF Streams(c) THEN "check" ELSE "call")
  /\ pool' = Append(pool, c)
  /\ Job(c, "queued")
  /\ UNCHANGED << req, queue, worker, cancel, gone >>

Respond(c) ==
  /\ task[c].phase = "call" /\ worker[c] # "pending"
  /\ Goto(c, "closed")
  /\ UNCHANGED << req, queue, pool, job, worker, cancel, gone >>

(* q.async_q.get() under wait_for: an item that is there is taken at once. *)
(* One that arrives while the timer is already due races with it: either   *)
(* wins, and an item the timer beat stays queued.                          *)
Poll(c) == Goto(c, IF queue[c] = << >> THEN "waiting" ELSE "get")

(* Plausible bug: the connection is looked at before the first token only. *)
CheckFirstOnly(c) ==
  /\ task[c].phase = "check"
  /\ cancel' = [cancel EXCEPT ![c] = @ \/ (gone[c] /\ task[c].buffer = 0)]
  /\ Poll(c)
  /\ UNCHANGED << req, queue, pool, job, worker, gone >>

Check(c) ==
  /\ task[c].phase = "check"
  /\ cancel' = [cancel EXCEPT ![c] = @ \/ gone[c]]
  /\ Poll(c)
  /\ UNCHANGED << req, queue, pool, job, worker, gone >>

(* 100 ms without an item.                                                 *)
Timeout(c) ==
  /\ task[c].phase = "waiting"
  /\ Goto(c, "timedOut")
  /\ UNCHANGED << req, queue, pool, job, worker, cancel, gone >>

(* Plausible bug: the internal reasons go out as they are.                 *)
ToOpenAIUnmapped(why) == why

ToOpenAI(why) == IF why \in {"cancelled", "error"} THEN "stop" ELSE why

Close(t, why, how) ==
  [t EXCEPT !.phase = "finally", !.finish = ToOpenAI(why), !.how = how]

(* Plausible bug: prev_text moves although the text was held back.         *)
ReceiveHeldLost(c, t) ==
  [t EXCEPT !.phase = "check", !.buffer = @ + 1,
            !.out = IF t.buffer + 1 \in req[c].holds THEN @ ELSE Append(@, t.buffer + 1)]

(* Decode the whole buffer; send what is new unless it ends inside a       *)
(* character.                                                              *)
Receive(c, t) ==
  LET len == t.buffer + 1
      new == [i \in 1 .. len - Len(t.out) |-> Len(t.out) + i]
  IN  [t EXCEPT !.phase = "check", !.buffer = len,
                !.out = IF len \in req[c].holds THEN @ ELSE @ \o new]

Take(c) ==
  /\ task[c].phase \in {"get", "waiting"} /\ queue[c] # << >>
  /\ LET item == Head(queue[c])
         t    == [task[c] EXCEPT !.unseen = IF gone[c] /\ ~ cancel[c] THEN @ + 1 ELSE @]
     IN  task' = [task EXCEPT ![c] =
                    IF item.reason = "none" THEN Receive(c, t)
                                            ELSE Close(t, item.reason, "done")]
  /\ queue' = [queue EXCEPT ![c] = Tail(@)]
  /\ UNCHANGED << req, pool, job, worker, cancel, gone >>

(* Plausible bug: nobody looks whether the worker still lives.             *)
AfterTimeoutPollOn(c) ==
  /\ task[c].phase = "timedOut"
  /\ Goto(c, "check")
  /\ UNCHANGED << req, queue, pool, job, worker, cancel, gone >>

AfterTimeout(c) ==
  /\ task[c].phase = "timedOut"
  /\ task' = [task EXCEPT ![c] =
       CASE worker[c] = "pending"   -> [@ EXCEPT !.phase = "check"]
         [] worker[c] = "exception" -> Close(@, "error", "netError")
         [] OTHER                   -> Close(@, "stop", "netClean")]
  /\ UNCHANGED << req, queue, pool, job, worker, cancel, gone >>

(* Plausible bug: a stream that is torn down leaves its job running.       *)
FinallyNoCancel(c) ==
  /\ task[c].phase = "finally"
  /\ Goto(c, "await")
  /\ UNCHANGED << req, queue, pool, job, worker, cancel, gone >>

Finally(c) ==
  /\ task[c].phase = "finally"
  /\ cancel' = [cancel EXCEPT ![c] = TRUE]
  /\ Goto(c, "await")
  /\ UNCHANGED << req, queue, pool, job, worker, gone >>

(* await worker, then "data: [DONE]" unless the task was interrupted.      *)
AwaitWorker(c) ==
  /\ task[c].phase = "await" /\ worker[c] # "pending"
  /\ Goto(c, "closed")
  /\ UNCHANGED << req, queue, pool, job, worker, cancel, gone >>

-----------------------------------------------------------------------------
(* The client and the web framework                                        *)

Disconnect(c) ==
  /\ ~ gone[c] /\ Streams(c) /\ task[c].phase \notin {"new", "closed"}
  /\ gone' = [gone EXCEPT ![c] = TRUE]
  /\ UNCHANGED << req, task, queue, pool, job, worker, cancel >>

(* Having seen the disconnect, the framework may cancel the response's     *)
(* task where it awaits or yields.                                         *)
Interrupt(c) ==
  /\ gone[c] /\ task[c].phase \in {"check", "waiting"}
  /\ task' = [task EXCEPT ![c].phase = "finally", ![c].how = "interrupted"]
  /\ UNCHANGED << req, queue, pool, job, worker, cancel, gone >>

(* Cancelled again while it awaits the worker: the future is cancelled     *)
(* with the task, and a job still queued never runs.                       *)
InterruptAwait(c) ==
  /\ gone[c] /\ task[c].phase = "await" /\ worker[c] = "pending"
  /\ task' = [task EXCEPT ![c].phase = "closed", ![c].how = "interrupted"]
  /\ worker' = [worker EXCEPT ![c] = "cancelled"]
  /\ IF job[c].state = "queued"
       THEN /\ Job(c, "dropped")
            /\ \E i \in DOMAIN pool : pool[i] = c /\ pool' = RemoveAt(pool, i)
       ELSE UNCHANGED << job, pool >>
  /\ UNCHANGED << req, queue, cancel, gone >>

-----------------------------------------------------------------------------
EngineStep(c) ==
  StartJob(c) \/ SampleToken(c) \/ OnToken(c) \/ OnDone(c) \/ EndJob(c)

TaskStep(c) ==
  \/ Respond(c) \/ Check(c) \/ Timeout(c) \/ Take(c)
  \/ AfterTimeout(c) \/ Finally(c) \/ AwaitWorker(c)

Quiescent ==
  /\ \A c \in Clients : /\ task[c].phase = "closed"
                        /\ job[c].state \in {"ended", "raised", "dropped"}
                        /\ worker[c] # "pending"
  /\ UNCHANGED vars

Next ==
  \/ \E c \in Clients :
       \/ Start(c) \/ TaskStep(c) \/ EngineStep(c) \/ FutureDone(c)
       \/ Disconnect(c) \/ Interrupt(c) \/ InterruptAwait(c)
  \/ Quiescent

(* The loop runs every ready task, timers fire, and the executor's thread  *)
(* computes; no client need come or go.                                    *)
Fairness ==
  \A c \in Clients : /\ WF_vars(TaskStep(c)) /\ WF_vars(EngineStep(c))
                     /\ WF_vars(FutureDone(c))

Spec == Init /\ [][Next]_vars /\ Fairness

-----------------------------------------------------------------------------
Reasons == {"none", "stop", "length", "cancelled", "error"}

(* The reason a client reads is one of the OpenAI enumeration.             *)
TypeOK ==
  /\ req \in [Clients -> Requests]
  /\ task \in [Clients ->
       [phase : {"new", "call", "check", "get", "waiting", "timedOut", "finally",
                 "await", "closed"},
        buffer : Nat, out : Seq(Nat), finish : {"none", "stop", "length"},
        how : {"none", "done", "netError", "netClean", "interrupted"}, unseen : Nat]]
  /\ queue \in [Clients -> Seq([tok : Nat, reason : Reasons])]
  /\ pool \in Seq(Clients)
  /\ job \in [Clients -> [state : OnThread \cup
                             {"none", "queued", "ended", "raised", "dropped"},
                           made : Nat, reason : Reasons]]
  /\ worker \in [Clients -> {"pending", "result", "exception", "cancelled"}]
  /\ cancel \in [Clients -> BOOLEAN] /\ gone \in [Clients -> BOOLEAN]

(* The text a stream sends is the answer from its first token on, without  *)
(* gap or repetition, whatever was held back on the way.  A stream that    *)
(* ends by the reason in the queue and was not cancelled or broken off     *)
(* has sent all of it but an unfinished character, with the true reason;   *)
(* and only a client that left is ever cancelled.                          *)
StreamFaithful ==
  \A c \in Clients :
    LET t == task[c]
    IN  /\ \A i \in DOMAIN t.out : t.out[i] = i
        /\ t.how = "done" =>
             /\ job[c].reason = "cancelled" => gone[c]
             /\ job[c].reason \in {"stop", "length"} =>
                  /\ t.finish = req[c].reason /\ t.buffer = req[c].n
                  /\ Len(t.out) + 1 .. t.buffer \subseteq req[c].holds

(* No orphans: a response that is over leaves a job behind only if the     *)
(* framework tore it down, and then the job has been told to stop; so the  *)
(* one engine thread is not held up by answers nobody reads (server.py:266).*)
NoOrphanJob ==
  \A c \in Clients :
    task[c].phase = "closed" /\ job[c].state \in OnThread \cup {"queued"} =>
      task[c].how = "interrupted" /\ cancel[c]

(* A disconnect is noticed before more than one further item is taken.     *)
DisconnectNoticed == \A c \in Clients : task[c].unseen <= 1

(* Every response ends, also when the job before it, or its own, fails     *)
(* without a word.                                                         *)
EveryResponseEnds ==
  \A c \in Clients : task[c].phase # "new" ~> task[c].phase = "closed"
=============================================================================
