-------------------------- MODULE SseBridge_proofs --------------------------
(***************************************************************************)
(* Proofs about SseBridge, for any number of clients and any requests:     *)
(* typing, that a stream is a prefix of its answer and ends with the true  *)
(* reason, that no response leaves an unstoppable job behind, and that a   *)
(* disconnect is noticed within one item.                                  *)
(***************************************************************************)
EXTENDS SseBridge, SequenceTheorems, TLAPS

-----------------------------------------------------------------------------
(* The inductive invariant                                                 *)

Polling == {"check", "get", "waiting", "timedOut"}
Closing == {"finally", "await", "closed"}
Active == OnThread \cup {"queued"}

TaskPhases == {"new", "call"} \cup Polling \cup Closing
Tasks ==
  [phase : TaskPhases, buffer : Nat, out : Seq(Nat), finish : {"none", "stop", "length"},
   how : {"none", "done", "netError", "netClean", "interrupted"}, unseen : Nat]
JobStates == OnThread \cup {"none", "queued", "ended", "raised", "dropped"}
Jobs == [state : JobStates, made : Nat, reason : Reasons]
Items == [tok : Nat, reason : Reasons]

(* TypeOK, by named parts.                                                 *)
Typed ==
  /\ req \in [Clients -> Requests] /\ task \in [Clients -> Tasks]
  /\ queue \in [Clients -> Seq(Items)] /\ pool \in Seq(Clients)
  /\ job \in [Clients -> Jobs]
  /\ worker \in [Clients -> {"pending", "result", "exception", "cancelled"}]
  /\ cancel \in [Clients -> BOOLEAN] /\ gone \in [Clients -> BOOLEAN]

(* engine_pool holds each queued job once, and nothing else.               *)
Pooled ==
  /\ \A i, k \in DOMAIN pool : pool[i] = pool[k] => i = k
  /\ \A c \in Clients : job[c].state = "queued" <=> \E i \in DOMAIN pool : pool[i] = c

(* A job exists from the start of its request; its reason is its last      *)
(* word; and the future follows the job unless the task gave it up.        *)
Futures(c) ==
  /\ task[c].phase = "new" <=> job[c].state = "none"
  /\ job[c].reason # "none" => job[c].state \in {"reported", "ended"}
  /\ worker[c] \in {"result", "exception"} => job[c].state \in {"ended", "raised"}
  /\ worker[c] = "cancelled" => task[c].phase = "closed"

(* Only a stream polls; a stream is past its finally block only with the   *)
(* token cancelled, and before it only if the client left.                 *)
Phases(c) ==
  /\ ~ Streams(c) => task[c].phase \in {"new", "call", "closed"}
  /\ Streams(c) => task[c].phase # "call"
  /\ task[c].how # "none" => task[c].phase \in Closing
  /\ task[c].phase = "await" => cancel[c]
  /\ cancel[c] => gone[c] \/ task[c].phase \in {"await", "closed"}
  /\ task[c].phase = "closed" /\ job[c].state \in Active =>
       task[c].how = "interrupted" /\ cancel[c]

(* What was sent is the answer's beginning, up to what is being held back. *)
Sent(c) ==
  /\ \A i \in DOMAIN task[c].out : task[c].out[i] = i
  /\ Len(task[c].out) <= task[c].buffer
  /\ Len(task[c].out) + 1 .. task[c].buffer \subseteq req[c].holds

(* While a stream polls, the queue holds the tokens made and not received, *)
(* in order, and then the reason if the job has reported it.               *)
Carried(c) ==
  task[c].phase \notin Closing =>
    /\ task[c].buffer <= job[c].made
    /\ Len(queue[c]) = job[c].made - task[c].buffer
                         + (IF job[c].reason = "none" THEN 0 ELSE 1)
    /\ \A i \in 1 .. job[c].made - task[c].buffer :
         queue[c][i] = Item(task[c].buffer + i, "none")
    /\ job[c].reason # "none" =>
         queue[c][job[c].made - task[c].buffer + 1] = Item(0, job[c].reason)

(* The reason reported is true, and a stream that took it took all before. *)
Finished(c) ==
  /\ task[c].how = "done" =>
       /\ job[c].reason # "none" /\ task[c].buffer = job[c].made
       /\ task[c].finish = ToOpenAI(job[c].reason)
  /\ job[c].reason = "cancelled" =>
       gone[c] \/ (task[c].phase \in {"await", "closed"} /\ task[c].how # "done")
  /\ job[c].reason \in {"stop", "length"} =>
       job[c].reason = req[c].reason /\ job[c].made = req[c].n

(* An item taken unseen is followed by a look at the connection.           *)
Noticed(c) ==
  \/ task[c].unseen = 0
  \/ /\ task[c].unseen = 1 /\ gone[c]
     /\ cancel[c] \/ task[c].phase \in {"check"} \cup Closing

ClientInv(c) ==
  Futures(c) /\ Phases(c) /\ Sent(c) /\ Carried(c) /\ Finished(c) /\ Noticed(c)

IInv == Typed /\ Pooled /\ \A c \in Clients : ClientInv(c)

-----------------------------------------------------------------------------
(* Parts of the state                                                      *)

(* What Goto and Job change, and what they leave.                          *)
LEMMA GotoTask ==
  ASSUME task \in [Clients -> Tasks], NEW c \in Clients, NEW p \in TaskPhases, Goto(c, p)
  PROVE  /\ task' \in [Clients -> Tasks]
         /\ task'[c].phase = p /\ task'[c].buffer = task[c].buffer
         /\ task'[c].out = task[c].out /\ task'[c].finish = task[c].finish
         /\ task'[c].how = task[c].how /\ task'[c].unseen = task[c].unseen
         /\ \A d \in Clients : d # c => task'[d] = task[d]
<1> DEFINE t == [task[c] EXCEPT !.phase = p]
<1>1. /\ t \in Tasks
      /\ t.phase = p /\ t.buffer = task[c].buffer
      /\ t.out = task[c].out /\ t.finish = task[c].finish
      /\ t.how = task[c].how /\ t.unseen = task[c].unseen
  BY DEF Tasks
<1>2. task' = [task EXCEPT ![c] = t]
  BY DEF Goto
<1> HIDE DEF t
<1> QED BY <1>1, <1>2

LEMMA JobTo ==
  ASSUME job \in [Clients -> Jobs], NEW c \in Clients, NEW s \in JobStates, Job(c, s)
  PROVE  /\ job' \in [Clients -> Jobs]
         /\ job'[c].state = s /\ job'[c].made = job[c].made
         /\ job'[c].reason = job[c].reason
         /\ \A d \in Clients : d # c => job'[d] = job[d]
<1> DEFINE j == [job[c] EXCEPT !.state = s]
<1>1. j \in Jobs /\ j.state = s /\ j.made = job[c].made /\ j.reason = job[c].reason
  BY DEF Jobs
<1>2. job' = [job EXCEPT ![c] = j]
  BY DEF Job
<1> HIDE DEF j
<1> QED BY <1>1, <1>2

(* A client's part of the invariant depends on its own state alone.        *)
LEMMA ClientInvFrame ==
  ASSUME NEW d \in Clients, ClientInv(d),
         req'[d] = req[d], task'[d] = task[d], queue'[d] = queue[d], job'[d] = job[d],
         worker'[d] = worker[d], cancel'[d] = cancel[d], gone'[d] = gone[d]
  PROVE  ClientInv(d)'
  BY DEF ClientInv, Futures, Phases, Sent, Carried, Finished, Noticed, Streams

(* A step that neither queues a job nor takes one off keeps the pool.      *)
LEMMA PooledFrame ==
  ASSUME Pooled, pool' = pool,
         \A c \in Clients : job'[c].state = "queued" <=> job[c].state = "queued"
  PROVE  Pooled'
  BY DEF Pooled

(* One client moves: the others' parts stay, and its own is to be shown.   *)
LEMMA OneMoves ==
  ASSUME \A d \in Clients : ClientInv(d), NEW c \in Clients, ClientInv(c)',
         \A d \in Clients : d # c =>
           /\ req'[d] = req[d] /\ task'[d] = task[d] /\ queue'[d] = queue[d]
           /\ job'[d] = job[d] /\ worker'[d] = worker[d] /\ cancel'[d] = cancel[d]
           /\ gone'[d] = gone[d]
  PROVE  \A d \in Clients : ClientInv(d)'
<1> SUFFICES ASSUME NEW d \in Clients, d # c PROVE ClientInv(d)'
  OBVIOUS
<1> QED BY ClientInvFrame

-----------------------------------------------------------------------------
(* The engine's thread                                                     *)

LEMMA StartJobStep ==
  ASSUME IInv, NEW c \in Clients, StartJob(c)
  PROVE  IInv'
<1>1. /\ req' = req /\ task' = task /\ queue' = queue /\ worker' = worker
      /\ cancel' = cancel /\ gone' = gone /\ pool' = Tail(pool)
      /\ pool # << >> /\ Head(pool) = c /\ Job(c, "running")
  BY DEF StartJob
<1>2. /\ job \in [Clients -> Jobs] /\ pool \in Seq(Clients) /\ "running" \in JobStates
      /\ Pooled /\ ClientInv(c)
  BY DEF IInv, Typed, JobStates, OnThread
<1>3. /\ job' \in [Clients -> Jobs]
      /\ job'[c].state = "running" /\ job'[c].made = job[c].made
      /\ job'[c].reason = job[c].reason
      /\ \A d \in Clients : d # c => job'[d] = job[d]
  BY <1>1, <1>2, JobTo
<1>4. /\ pool' \in Seq(Clients) /\ 1 \in DOMAIN pool /\ pool[1] = c
      /\ \A i \in DOMAIN pool' : i + 1 \in DOMAIN pool /\ pool'[i] = pool[i + 1]
      /\ \A i \in DOMAIN pool : i # 1 => i - 1 \in DOMAIN pool' /\ pool'[i - 1] = pool[i]
      /\ DOMAIN pool \subseteq Int /\ DOMAIN pool' \subseteq Nat \ {0}
  BY <1>1, <1>2
<1>5. job[c].state = "queued"
  BY <1>2, <1>4 DEF Pooled
<1>6. Pooled'
  <2>1. \A i, k \in DOMAIN pool' : pool'[i] = pool'[k] => i = k
    <3> SUFFICES ASSUME NEW i \in DOMAIN pool', NEW k \in DOMAIN pool', pool'[i] = pool'[k]
                 PROVE  i = k
      OBVIOUS
    <3>1. i + 1 = k + 1
      BY <1>2, <1>4 DEF Pooled
    <3> QED BY <1>4, <3>1
  <2>2. ASSUME NEW d \in Clients
        PROVE  job'[d].state = "queued" <=> \E i \in DOMAIN pool' : pool'[i] = d
    <3>1. CASE d = c
      <4>1. ASSUME NEW i \in DOMAIN pool', pool'[i] = c PROVE FALSE
        <5>1. i + 1 = 1
          BY <1>2, <1>4, <4>1 DEF Pooled
        <5> QED BY <1>4, <5>1
      <4> QED BY <1>3, <3>1, <4>1
    <3>2. CASE d # c
      <4>1. job[d].state = "queued" <=> \E i \in DOMAIN pool : pool[i] = d
        BY <1>2 DEF Pooled
      <4>2. ASSUME NEW i \in DOMAIN pool, pool[i] = d PROVE \E k \in DOMAIN pool' : pool'[k] = d
        BY <1>4, <3>2, <4>2
      <4>3. ASSUME NEW i \in DOMAIN pool', pool'[i] = d PROVE \E k \in DOMAIN pool : pool[k] = d
        BY <1>4, <4>3
      <4> QED BY <1>3, <3>2, <4>1, <4>2, <4>3
    <3> QED BY <3>1, <3>2
  <2> QED BY <2>1, <2>2 DEF Pooled
<1>7. ClientInv(c)'
  <2>1. Futures(c)'
    BY <1>1, <1>2, <1>3, <1>5 DEF ClientInv, Futures
  <2>2. Phases(c)'
    BY <1>1, <1>2, <1>3, <1>5 DEF ClientInv, Phases, Streams, Active, OnThread
  <2>3. Sent(c)' /\ Carried(c)' /\ Finished(c)' /\ Noticed(c)'
    BY <1>1, <1>2, <1>3 DEF ClientInv, Sent, Carried, Finished, Noticed
  <2> QED BY <2>1, <2>2, <2>3 DEF ClientInv
<1>8. \A d \in Clients : ClientInv(d)'
  BY <1>1, <1>3, <1>7, OneMoves DEF IInv
<1>9. Typed'
  BY <1>1, <1>3, <1>4 DEF IInv, Typed
<1> QED BY <1>6, <1>8, <1>9 DEF IInv

LEMMA SampleTokenStep ==
  ASSUME IInv, NEW c \in Clients, SampleToken(c)
  PROVE  IInv'
<1>1. /\ req' = req /\ task' = task /\ queue' = queue /\ worker' = worker
      /\ cancel' = cancel /\ gone' = gone /\ pool' = pool
      /\ job[c].state = "running" /\ Job(c, "sampled")
  BY DEF SampleToken
<1>2. /\ job \in [Clients -> Jobs] /\ "sampled" \in JobStates /\ ClientInv(c)
  BY DEF IInv, Typed, JobStates, OnThread
<1>3. /\ job' \in [Clients -> Jobs]
      /\ job'[c].state = "sampled" /\ job'[c].made = job[c].made
      /\ job'[c].reason = job[c].reason
      /\ \A d \in Clients : d # c => job'[d] = job[d]
  BY <1>1, <1>2, JobTo
<1>4. Pooled'
  <2>1. \A d \in Clients : job'[d].state = "queued" <=> job[d].state = "queued"
    BY <1>1, <1>3
  <2> QED BY <1>1, <2>1, PooledFrame DEF IInv
<1>5. ClientInv(c)'
  <2>1. Futures(c)' /\ Phases(c)'
    BY <1>1, <1>2, <1>3 DEF ClientInv, Futures, Phases, Streams, Active, OnThread
  <2>2. Sent(c)' /\ Carried(c)' /\ Finished(c)' /\ Noticed(c)'
    BY <1>1, <1>2, <1>3 DEF ClientInv, Sent, Carried, Finished, Noticed
  <2> QED BY <2>1, <2>2 DEF ClientInv
<1>6. \A d \in Clients : ClientInv(d)'
  BY <1>1, <1>3, <1>5, OneMoves DEF IInv
<1>7. Typed'
  BY <1>1, <1>3 DEF IInv, Typed
<1> QED BY <1>4, <1>6, <1>7 DEF IInv

LEMMA PutItem ==
  ASSUME queue \in [Clients -> Seq(Items)], NEW c \in Clients, NEW item \in Items,
         Put(c, item)
  PROVE  /\ queue' \in [Clients -> Seq(Items)]
         /\ Len(queue'[c]) = Len(queue[c]) + 1
         /\ queue'[c][Len(queue[c]) + 1] = item
         /\ \A i \in 1 .. Len(queue[c]) : queue'[c][i] = queue[c][i]
         /\ \A d \in Clients : d # c => queue'[d] = queue[d]
<1>1. queue[c] \in Seq(Items)
  OBVIOUS
<1>2. queue' \in [Clients -> Seq(Items)] /\ queue'[c] = Append(queue[c], item)
  BY <1>1 DEF Put
<1>3. \A d \in Clients : d # c => queue'[d] = queue[d]
  BY DEF Put
<1> QED BY <1>1, <1>2, <1>3

LEMMA OnTokenStep ==
  ASSUME IInv, NEW c \in Clients, OnToken(c)
  PROVE  IInv'
<1>1. /\ req' = req /\ task' = task /\ worker' = worker
      /\ cancel' = cancel /\ gone' = gone /\ pool' = pool
      /\ job[c].state = "sampled" /\ Put(c, Item(job[c].made + 1, "none"))
      /\ job' = [job EXCEPT ![c].state = "running", ![c].made = @ + 1]
  BY DEF OnToken
<1>2. /\ job \in [Clients -> Jobs] /\ job[c] \in Jobs /\ job[c].made \in Nat
      /\ queue \in [Clients -> Seq(Items)] /\ Len(queue[c]) \in Nat
      /\ task[c].buffer \in Nat /\ ClientInv(c)
  BY DEF IInv, Typed, Jobs, Tasks
<1>3. /\ job' \in [Clients -> Jobs]
      /\ job'[c].state = "running" /\ job'[c].made = job[c].made + 1
      /\ job'[c].reason = job[c].reason
      /\ \A d \in Clients : d # c => job'[d] = job[d]
  <2> DEFINE j == [job[c] EXCEPT !.state = "running", !.made = @ + 1]
  <2>1. /\ j \in Jobs /\ j.state = "running" /\ j.made = job[c].made + 1
        /\ j.reason = job[c].reason
    <3>1. job[c].made + 1 \in Nat /\ "running" \in JobStates
      BY <1>2 DEF JobStates, OnThread
    <3> QED BY <1>2, <3>1 DEF Jobs
  <2>2. job' = [job EXCEPT ![c] = j]
    BY <1>1
  <2> HIDE DEF j
  <2> QED BY <1>2, <2>1, <2>2
<1>4. Item(job[c].made + 1, "none") \in Items
  BY <1>2 DEF Item, Items, Reasons
<1>5. /\ queue' \in [Clients -> Seq(Items)]
      /\ Len(queue'[c]) = Len(queue[c]) + 1
      /\ queue'[c][Len(queue[c]) + 1] = Item(job[c].made + 1, "none")
      /\ \A i \in 1 .. Len(queue[c]) : queue'[c][i] = queue[c][i]
      /\ \A d \in Clients : d # c => queue'[d] = queue[d]
  BY <1>1, <1>2, <1>4, PutItem
<1>6. job[c].reason = "none"
  BY <1>1, <1>2 DEF ClientInv, Futures
<1>7. Pooled'
  <2>1. \A d \in Clients : job'[d].state = "queued" <=> job[d].state = "queued"
    BY <1>1, <1>3
  <2> QED BY <1>1, <2>1, PooledFrame DEF IInv
<1>8. ClientInv(c)'
  <2>1. Futures(c)' /\ Phases(c)'
    BY <1>1, <1>2, <1>3 DEF ClientInv, Futures, Phases, Streams, Active, OnThread
  <2>2. Carried(c)'
    <3> SUFFICES ASSUME task[c].phase \notin Closing PROVE Carried(c)'
      BY <1>1 DEF Carried
    <3>1. /\ task[c].buffer <= job[c].made
          /\ Len(queue[c]) = job[c].made - task[c].buffer
          /\ \A i \in 1 .. job[c].made - task[c].buffer :
               queue[c][i] = Item(task[c].buffer + i, "none")
      BY <1>2, <1>6 DEF ClientInv, Carried
    <3>2. Len(queue'[c]) = job'[c].made - task'[c].buffer
      BY <1>1, <1>2, <1>3, <1>5, <3>1
    <3>3. ASSUME NEW i \in 1 .. job'[c].made - task'[c].buffer
          PROVE  queue'[c][i] = Item(task'[c].buffer + i, "none")
      <4>1. CASE i = Len(queue[c]) + 1
        BY <1>1, <1>2, <1>5, <3>1, <4>1
      <4>2. CASE i # Len(queue[c]) + 1
        <5>1. i \in 1 .. Len(queue[c])
          BY <1>1, <1>2, <1>3, <3>1, <4>2
        <5> QED BY <1>1, <1>5, <3>1, <5>1
      <4> QED BY <4>1, <4>2
    <3>4. task'[c].buffer <= job'[c].made /\ job'[c].reason = "none"
      BY <1>1, <1>2, <1>3, <1>6, <3>1
    <3> QED BY <3>2, <3>3, <3>4, <1>2, <1>3 DEF Carried
  <2>3. Sent(c)' /\ Finished(c)' /\ Noticed(c)'
    BY <1>1, <1>2, <1>3, <1>6 DEF ClientInv, Sent, Finished, Noticed
  <2> QED BY <2>1, <2>2, <2>3 DEF ClientInv
<1>9. \A d \in Clients : ClientInv(d)'
  BY <1>1, <1>3, <1>5, <1>8, OneMoves DEF IInv
<1>10. Typed'
  BY <1>1, <1>3, <1>5 DEF IInv, Typed
<1> QED BY <1>7, <1>9, <1>10 DEF IInv

LEMMA OnDoneStep ==
  ASSUME IInv, NEW c \in Clients, OnDone(c)
  PROVE  IInv'
<1>1. PICK why \in {"cancelled", "stop", "length", "error"} :
        /\ Terminal(c, why) /\ Put(c, Item(0, why))
        /\ job' = [job EXCEPT ![c].state = "reported", ![c].reason = why]
  BY DEF OnDone
<1>2. /\ req' = req /\ task' = task /\ worker' = worker
      /\ cancel' = cancel /\ gone' = gone /\ pool' = pool
      /\ job[c].state = "running"
  BY DEF OnDone
<1>3. /\ job \in [Clients -> Jobs] /\ job[c] \in Jobs /\ job[c].made \in Nat
      /\ queue \in [Clients -> Seq(Items)] /\ Len(queue[c]) \in Nat
      /\ task[c].buffer \in Nat /\ ClientInv(c)
  BY DEF IInv, Typed, Jobs, Tasks
<1>4. /\ job' \in [Clients -> Jobs]
      /\ job'[c].state = "reported" /\ job'[c].made = job[c].made
      /\ job'[c].reason = why /\ why # "none"
      /\ \A d \in Clients : d # c => job'[d] = job[d]
  <2> DEFINE j == [job[c] EXCEPT !.state = "reported", !.reason = why]
  <2>1. /\ j \in Jobs /\ j.state = "reported" /\ j.made = job[c].made /\ j.reason = why
    BY <1>3 DEF Jobs, JobStates, OnThread, Reasons
  <2>2. job' = [job EXCEPT ![c] = j]
    BY <1>1
  <2> HIDE DEF j
  <2> QED BY <1>3, <2>1, <2>2
<1>5. Item(0, why) \in Items
  BY DEF Item, Items, Reasons
<1>6. /\ queue' \in [Clients -> Seq(Items)]
      /\ Len(queue'[c]) = Len(queue[c]) + 1
      /\ queue'[c][Len(queue[c]) + 1] = Item(0, why)
      /\ \A i \in 1 .. Len(queue[c]) : queue'[c][i] = queue[c][i]
      /\ \A d \in Clients : d # c => queue'[d] = queue[d]
  BY <1>1, <1>3, <1>5, PutItem
<1>7. job[c].reason = "none"
  BY <1>2, <1>3 DEF ClientInv, Futures
<1>8. Pooled'
  <2>1. \A d \in Clients : job'[d].state = "queued" <=> job[d].state = "queued"
    BY <1>2, <1>4
  <2> QED BY <1>2, <2>1, PooledFrame DEF IInv
<1>9. ClientInv(c)'
  <2>1. Futures(c)' /\ Phases(c)'
    BY <1>2, <1>3, <1>4 DEF ClientInv, Futures, Phases, Streams, Active, OnThread
  <2>2. Carried(c)'
    <3> SUFFICES ASSUME task[c].phase \notin Closing PROVE Carried(c)'
      BY <1>2 DEF Carried
    <3>1. /\ task[c].buffer <= job[c].made
          /\ Len(queue[c]) = job[c].made - task[c].buffer
          /\ \A i \in 1 .. job[c].made - task[c].buffer :
               queue[c][i] = Item(task[c].buffer + i, "none")
      BY <1>3, <1>7 DEF ClientInv, Carried
    <3>2. Len(queue'[c]) = job'[c].made - task'[c].buffer + 1
      BY <1>2, <1>3, <1>4, <1>6, <3>1
    <3>3. \A i \in 1 .. job'[c].made - task'[c].buffer :
            queue'[c][i] = Item(task'[c].buffer + i, "none")
      BY <1>2, <1>3, <1>4, <1>6, <3>1
    <3>4. queue'[c][job'[c].made - task'[c].buffer + 1] = Item(0, job'[c].reason)
      BY <1>2, <1>3, <1>4, <1>6, <3>1
    <3> QED BY <1>2, <1>3, <1>4, <3>1, <3>2, <3>3, <3>4 DEF Carried
  <2>3. Finished(c)'
    <3>1. task[c].how # "done"
      BY <1>3, <1>7 DEF ClientInv, Finished
    <3>2. why = "cancelled" => gone[c] \/ task[c].phase \in {"await", "closed"}
      <4>1. req[c].reason # "cancelled"
        <5>1. req[c] \in Requests
          BY DEF IInv, Typed
        <5> QED BY <5>1, RequestsAssumption
      <4>2. why = "cancelled" => cancel[c]
        BY <1>1, <4>1 DEF Terminal
      <4> QED BY <1>3, <4>2 DEF ClientInv, Phases
    <3>3. why \in {"stop", "length"} => why = req[c].reason /\ job[c].made = req[c].n
      BY <1>1 DEF Terminal
    <3> QED BY <1>2, <1>4, <3>1, <3>2, <3>3 DEF Finished
  <2>4. Sent(c)' /\ Noticed(c)'
    BY <1>2, <1>3 DEF ClientInv, Sent, Noticed
  <2> QED BY <2>1, <2>2, <2>3, <2>4 DEF ClientInv
<1>10. \A d \in Clients : ClientInv(d)'
  BY <1>2, <1>4, <1>6, <1>9, OneMoves DEF IInv
<1>11. Typed'
  BY <1>2, <1>4, <1>6 DEF IInv, Typed
<1> QED BY <1>8, <1>10, <1>11 DEF IInv

LEMMA EndJobStep ==
  ASSUME IInv, NEW c \in Clients, EndJob(c)
  PROVE  IInv'
<1>1. /\ req' = req /\ task' = task /\ queue' = queue /\ worker' = worker
      /\ cancel' = cancel /\ gone' = gone /\ pool' = pool
  BY DEF EndJob
<1>2. PICK s \in {"ended", "raised"} :
        /\ Job(c, s) /\ job[c].state \in {"reported", "running"}
        /\ s = "raised" => job[c].state = "running"
  BY DEF EndJob
<1>3. /\ job \in [Clients -> Jobs] /\ s \in JobStates /\ ClientInv(c)
  BY DEF IInv, Typed, JobStates
<1>4. /\ job' \in [Clients -> Jobs]
      /\ job'[c].state = s /\ job'[c].made = job[c].made
      /\ job'[c].reason = job[c].reason
      /\ \A d \in Clients : d # c => job'[d] = job[d]
  BY <1>2, <1>3, JobTo
<1>5. Pooled'
  <2>1. \A d \in Clients : job'[d].state = "queued" <=> job[d].state = "queued"
    BY <1>2, <1>4
  <2> QED BY <1>1, <2>1, PooledFrame DEF IInv
<1>6. ClientInv(c)'
  <2>1. Futures(c)' /\ Phases(c)'
    BY <1>1, <1>2, <1>3, <1>4 DEF ClientInv, Futures, Phases, Streams, Active, OnThread
  <2>2. Sent(c)' /\ Carried(c)' /\ Finished(c)' /\ Noticed(c)'
    BY <1>1, <1>3, <1>4 DEF ClientInv, Sent, Carried, Finished, Noticed
  <2> QED BY <2>1, <2>2 DEF ClientInv
<1>7. \A d \in Clients : ClientInv(d)'
  BY <1>1, <1>4, <1>6, OneMoves DEF IInv
<1>8. Typed'
  BY <1>1, <1>4 DEF IInv, Typed
<1> QED BY <1>5, <1>7, <1>8 DEF IInv

LEMMA FutureDoneStep ==
  ASSUME IInv, NEW c \in Clients, FutureDone(c)
  PROVE  IInv'
<1>1. /\ req' = req /\ task' = task /\ queue' = queue /\ job' = job
      /\ cancel' = cancel /\ gone' = gone /\ pool' = pool
      /\ worker[c] = "pending" /\ job[c].state \in {"ended", "raised"}
  BY DEF FutureDone
<1>2. PICK w \in {"result", "exception"} : worker' = [worker EXCEPT ![c] = w]
  BY DEF FutureDone
<1>3. worker' \in [Clients -> {"pending", "result", "exception", "cancelled"}]
      /\ worker'[c] = w /\ \A d \in Clients : d # c => worker'[d] = worker[d]
  BY <1>2 DEF IInv, Typed
<1>4. ClientInv(c)'
  <2>1. ClientInv(c)
    BY DEF IInv
  <2> QED BY <1>1, <1>3, <2>1 DEF ClientInv, Futures, Phases, Sent, Carried, Finished,
          Noticed, Streams
<1>5. \A d \in Clients : ClientInv(d)'
  BY <1>1, <1>3, <1>4, OneMoves DEF IInv
<1>6. Typed' /\ Pooled'
  BY <1>1, <1>3, PooledFrame DEF IInv, Typed
<1> QED BY <1>5, <1>6 DEF IInv

-----------------------------------------------------------------------------
(* The tasks                                                               *)

LEMMA StartStep ==
  ASSUME IInv, NEW c \in Clients, Start(c)
  PROVE  IInv'
<1>1. /\ req' = req /\ queue' = queue /\ worker' = worker
      /\ cancel' = cancel /\ gone' = gone /\ pool' = Append(pool, c)
      /\ task[c].phase = "new" /\ Job(c, "queued")
  BY DEF Start
<1>2. PICK p \in {"check", "call"} : Goto(c, p) /\ (Streams(c) <=> p = "check")
  BY DEF Start
<1>3. /\ task \in [Clients -> Tasks] /\ p \in TaskPhases
      /\ job \in [Clients -> Jobs] /\ "queued" \in JobStates
      /\ pool \in Seq(Clients) /\ Pooled /\ ClientInv(c)
  BY DEF IInv, Typed, TaskPhases, Polling, JobStates
<1>4. /\ task' \in [Clients -> Tasks]
      /\ task'[c].phase = p /\ task'[c].buffer = task[c].buffer
      /\ task'[c].out = task[c].out /\ task'[c].finish = task[c].finish
      /\ task'[c].how = task[c].how /\ task'[c].unseen = task[c].unseen
      /\ \A d \in Clients : d # c => task'[d] = task[d]
  BY <1>2, <1>3, GotoTask
<1>5. /\ job' \in [Clients -> Jobs]
      /\ job'[c].state = "queued" /\ job'[c].made = job[c].made
      /\ job'[c].reason = job[c].reason
      /\ \A d \in Clients : d # c => job'[d] = job[d]
  BY <1>1, <1>3, JobTo
<1>6. job[c].state = "none"
  BY <1>1, <1>3 DEF ClientInv, Futures
<1>7. Pooled'
  <2> DEFINE n == Len(pool)
  <2>1. /\ n \in Nat /\ DOMAIN pool = 1 .. n /\ DOMAIN pool' = 1 .. n + 1
        /\ pool'[n + 1] = c /\ \A i \in 1 .. n : pool'[i] = pool[i]
    BY <1>1, <1>3
  <2> HIDE DEF n
  <2>2. \A i \in 1 .. n : pool[i] # c
    BY <1>3, <1>6, <2>1 DEF Pooled
  <2>3. \A i, k \in 1 .. n : pool[i] = pool[k] => i = k
    BY <1>3, <2>1 DEF Pooled
  <2>4. \A i, k \in DOMAIN pool' : pool'[i] = pool'[k] => i = k
    BY <2>1, <2>2, <2>3
  <2>5. ASSUME NEW d \in Clients
        PROVE  job'[d].state = "queued" <=> \E i \in DOMAIN pool' : pool'[i] = d
    <3>1. CASE d = c
      BY <1>5, <2>1, <3>1
    <3>2. CASE d # c
      <4>1. job[d].state = "queued" <=> \E i \in 1 .. n : pool[i] = d
        BY <1>3, <2>1 DEF Pooled
      <4>2. (\E i \in 1 .. n : pool[i] = d) <=> \E i \in 1 .. n + 1 : pool'[i] = d
        BY <2>1, <3>2
      <4> QED BY <1>5, <2>1, <3>2, <4>1, <4>2
    <3> QED BY <3>1, <3>2
  <2> QED BY <2>4, <2>5 DEF Pooled
<1>8. ClientInv(c)'
  <2>1. Futures(c)' /\ Phases(c)'
    BY <1>1, <1>2, <1>3, <1>4, <1>5, <1>6
    DEF ClientInv, Futures, Phases, Streams, Closing, Active
  <2>2. Sent(c)' /\ Finished(c)'
    BY <1>1, <1>3, <1>4, <1>5 DEF ClientInv, Sent, Finished
  <2>3. Carried(c)' /\ Noticed(c)'
    BY <1>1, <1>3, <1>4, <1>5 DEF ClientInv, Carried, Noticed, Closing
  <2> QED BY <2>1, <2>2, <2>3 DEF ClientInv
<1>9. \A d \in Clients : ClientInv(d)'
  BY <1>1, <1>4, <1>5, <1>8, OneMoves DEF IInv
<1>10. Typed'
  BY <1>1, <1>3, <1>4, <1>5 DEF IInv, Typed
<1> QED BY <1>7, <1>9, <1>10 DEF IInv

(* A task that moves on with nothing else than, maybe, its token cancelled *)
(* or its client gone.                                                     *)
LEMMA PhaseStep ==
  ASSUME IInv, NEW c \in Clients, NEW p \in TaskPhases, Goto(c, p),
         req' = req, queue' = queue, pool' = pool, job' = job, worker' = worker,
         gone' = gone, cancel' \in [Clients -> BOOLEAN], cancel[c] => cancel'[c],
         \A d \in Clients : d # c => cancel'[d] = cancel[d],
         (Phases(c) /\ Noticed(c))',
         task[c].phase # "new", p # "new", p \notin Closing => task[c].phase \notin Closing,
         worker[c] = "cancelled" => p = "closed",
         p = "finally" => task[c].phase # "await" /\ task[c].phase # "closed"
  PROVE  IInv'
<1>1. /\ task \in [Clients -> Tasks] /\ ClientInv(c)
  BY DEF IInv, Typed
<1>2. /\ task' \in [Clients -> Tasks]
      /\ task'[c].phase = p /\ task'[c].buffer = task[c].buffer
      /\ task'[c].out = task[c].out /\ task'[c].finish = task[c].finish
      /\ task'[c].how = task[c].how /\ task'[c].unseen = task[c].unseen
      /\ \A d \in Clients : d # c => task'[d] = task[d]
  BY <1>1, GotoTask
<1>3. ClientInv(c)'
  <2>1. Futures(c)' /\ Sent(c)'
    BY <1>1, <1>2 DEF ClientInv, Futures, Sent
  <2>2. Carried(c)'
    BY <1>1, <1>2 DEF ClientInv, Carried
  <2>3. Finished(c)'
    <3>1. job[c].reason = "cancelled" /\ task[c].phase \in {"await", "closed"} /\ ~ gone[c] =>
            p \in {"await", "closed"}
      BY <1>1, <1>2 DEF TaskPhases, ClientInv, Closing, Polling
    <3> QED BY <1>1, <1>2, <3>1 DEF ClientInv, Finished
  <2> QED BY <2>1, <2>2, <2>3 DEF ClientInv
<1>4. \A d \in Clients : ClientInv(d)'
  BY <1>2, <1>3, OneMoves DEF IInv
<1>5. Typed' /\ Pooled'
  BY <1>2, PooledFrame DEF IInv, Typed
<1> QED BY <1>4, <1>5 DEF IInv

LEMMA RespondStep ==
  ASSUME IInv, NEW c \in Clients, Respond(c)
  PROVE  IInv'
<1>1. /\ Goto(c, "closed") /\ task[c].phase = "call" /\ worker[c] # "pending"
      /\ req' = req /\ queue' = queue /\ pool' = pool /\ job' = job
      /\ worker' = worker /\ cancel' = cancel /\ gone' = gone
  BY DEF Respond
<1>2. /\ task \in [Clients -> Tasks] /\ "closed" \in TaskPhases /\ ClientInv(c)
      /\ cancel \in [Clients -> BOOLEAN]
      /\ worker[c] \in {"pending", "result", "exception", "cancelled"}
  BY DEF IInv, Typed, TaskPhases, Closing
<1>3. task'[c].phase = "closed" /\ task'[c].how = task[c].how
      /\ task'[c].unseen = task[c].unseen
  BY <1>1, <1>2, GotoTask
<1>4. job[c].state \in {"ended", "raised"}
  BY <1>1, <1>2 DEF ClientInv, Futures
<1>5. (Phases(c) /\ Noticed(c))'
  BY <1>1, <1>2, <1>3, <1>4
  DEF ClientInv, Phases, Noticed, Streams, Closing, Active, OnThread
<1> QED BY <1>1, <1>2, <1>5, PhaseStep DEF Closing

LEMMA CheckStep ==
  ASSUME IInv, NEW c \in Clients, Check(c)
  PROVE  IInv'
<1>1. /\ task[c].phase = "check" /\ cancel' = [cancel EXCEPT ![c] = @ \/ gone[c]]
      /\ req' = req /\ queue' = queue /\ pool' = pool /\ job' = job
      /\ worker' = worker /\ gone' = gone
  BY DEF Check
<1>2. PICK p \in {"waiting", "get"} : Goto(c, p)
  BY DEF Check, Poll
<1>3. /\ task \in [Clients -> Tasks] /\ p \in TaskPhases /\ ClientInv(c)
      /\ cancel \in [Clients -> BOOLEAN] /\ gone \in [Clients -> BOOLEAN]
  BY DEF IInv, Typed, TaskPhases, Polling
<1>4. task'[c].phase = p /\ task'[c].how = task[c].how
      /\ task'[c].unseen = task[c].unseen
  BY <1>2, <1>3, GotoTask
<1>5. /\ cancel' \in [Clients -> BOOLEAN] /\ cancel'[c] = (cancel[c] \/ gone[c])
      /\ \A d \in Clients : d # c => cancel'[d] = cancel[d]
  BY <1>1, <1>3, Zenon
<1>6. Phases(c)'
  BY <1>1, <1>3, <1>4, <1>5 DEF ClientInv, Phases, Streams, Closing
<1>7. Noticed(c)'
  BY <1>1, <1>3, <1>4, <1>5 DEF ClientInv, Noticed, Closing
<1>8. worker[c] # "cancelled"
  BY <1>1, <1>3 DEF ClientInv, Futures
<1> QED BY <1>1, <1>2, <1>3, <1>5, <1>6, <1>7, <1>8, PhaseStep DEF Closing

LEMMA TimeoutStep ==
  ASSUME IInv, NEW c \in Clients, Timeout(c)
  PROVE  IInv'
<1>1. /\ Goto(c, "timedOut") /\ task[c].phase = "waiting"
      /\ req' = req /\ queue' = queue /\ pool' = pool /\ job' = job
      /\ worker' = worker /\ cancel' = cancel /\ gone' = gone
  BY DEF Timeout
<1>2. /\ task \in [Clients -> Tasks] /\ "timedOut" \in TaskPhases /\ ClientInv(c)
      /\ cancel \in [Clients -> BOOLEAN]
  BY DEF IInv, Typed, TaskPhases, Polling
<1>3. task'[c].phase = "timedOut" /\ task'[c].how = task[c].how
      /\ task'[c].unseen = task[c].unseen
  BY <1>1, <1>2, GotoTask
<1>4. (Phases(c) /\ Noticed(c))'
  BY <1>1, <1>2, <1>3 DEF ClientInv, Phases, Noticed, Streams, Closing
<1>5. worker[c] # "cancelled"
  BY <1>1, <1>2 DEF ClientInv, Futures
<1> QED BY <1>1, <1>2, <1>4, <1>5, PhaseStep DEF Closing

LEMMA FinallyStep ==
  ASSUME IInv, NEW c \in Clients, Finally(c)
  PROVE  IInv'
<1>1. /\ Goto(c, "await") /\ task[c].phase = "finally"
      /\ cancel' = [cancel EXCEPT ![c] = TRUE]
      /\ req' = req /\ queue' = queue /\ pool' = pool /\ job' = job
      /\ worker' = worker /\ gone' = gone
  BY DEF Finally
<1>2. /\ task \in [Clients -> Tasks] /\ "await" \in TaskPhases /\ ClientInv(c)
      /\ cancel \in [Clients -> BOOLEAN]
  BY DEF IInv, Typed, TaskPhases, Closing
<1>3. task'[c].phase = "await" /\ task'[c].how = task[c].how
      /\ task'[c].unseen = task[c].unseen
  BY <1>1, <1>2, GotoTask
<1>4. /\ cancel' \in [Clients -> BOOLEAN] /\ cancel'[c] = TRUE
      /\ \A d \in Clients : d # c => cancel'[d] = cancel[d]
  BY <1>1, <1>2
<1>5. (Phases(c) /\ Noticed(c))'
  BY <1>1, <1>2, <1>3, <1>4 DEF ClientInv, Phases, Noticed, Streams, Closing
<1>6. worker[c] # "cancelled"
  BY <1>1, <1>2 DEF ClientInv, Futures
<1> QED BY <1>1, <1>2, <1>4, <1>5, <1>6, PhaseStep DEF Closing

LEMMA AwaitWorkerStep ==
  ASSUME IInv, NEW c \in Clients, AwaitWorker(c)
  PROVE  IInv'
<1>1. /\ Goto(c, "closed") /\ task[c].phase = "await" /\ worker[c] # "pending"
      /\ req' = req /\ queue' = queue /\ pool' = pool /\ job' = job
      /\ worker' = worker /\ cancel' = cancel /\ gone' = gone
  BY DEF AwaitWorker
<1>2. /\ task \in [Clients -> Tasks] /\ "closed" \in TaskPhases /\ ClientInv(c)
      /\ cancel \in [Clients -> BOOLEAN]
      /\ worker[c] \in {"pending", "result", "exception", "cancelled"}
  BY DEF IInv, Typed, TaskPhases, Closing
<1>3. task'[c].phase = "closed" /\ task'[c].how = task[c].how
      /\ task'[c].unseen = task[c].unseen
  BY <1>1, <1>2, GotoTask
<1>4. job[c].state \in {"ended", "raised"}
  BY <1>1, <1>2 DEF ClientInv, Futures
<1>5. (Phases(c) /\ Noticed(c))'
  BY <1>1, <1>2, <1>3, <1>4
  DEF ClientInv, Phases, Noticed, Streams, Closing, Active, OnThread
<1> QED BY <1>1, <1>2, <1>5, PhaseStep DEF Closing

(* A stream that closes by its own doing, or by the framework's, goes to   *)
(* the finally block; it has not gone by the reason in the queue.          *)
LEMMA BreakOff ==
  ASSUME IInv, NEW c \in Clients, NEW t \in Tasks, task' = [task EXCEPT ![c] = t],
         task[c].phase \in Polling, t.phase = "finally",
         t.how \in {"netError", "netClean", "interrupted"},
         t.buffer = task[c].buffer, t.out = task[c].out, t.unseen = task[c].unseen,
         req' = req, queue' = queue, pool' = pool, job' = job, worker' = worker,
         cancel' = cancel, gone' = gone
  PROVE  IInv'
<1>1. task \in [Clients -> Tasks] /\ ClientInv(c)
  BY DEF IInv, Typed
<1>2. /\ task' \in [Clients -> Tasks] /\ task'[c] = t
      /\ \A d \in Clients : d # c => task'[d] = task[d]
  BY <1>1
<1>3. ClientInv(c)'
  <2>1. Futures(c)'
    BY <1>1, <1>2 DEF ClientInv, Futures, Polling
  <2>2. Phases(c)'
    BY <1>1, <1>2 DEF ClientInv, Phases, Streams, Polling, Closing
  <2>3. Sent(c)'
    BY <1>1, <1>2 DEF ClientInv, Sent
  <2>4. Carried(c)' /\ Finished(c)' /\ Noticed(c)'
    BY <1>1, <1>2 DEF ClientInv, Carried, Finished, Noticed, Polling, Closing
  <2> QED BY <2>1, <2>2, <2>3, <2>4 DEF ClientInv
<1>4. \A d \in Clients : ClientInv(d)'
  BY <1>2, <1>3, OneMoves DEF IInv
<1>5. Typed' /\ Pooled'
  BY <1>2, PooledFrame DEF IInv, Typed
<1> QED BY <1>4, <1>5 DEF IInv

LEMMA AfterTimeoutStep ==
  ASSUME IInv, NEW c \in Clients, AfterTimeout(c)
  PROVE  IInv'
<1>1. /\ task[c].phase = "timedOut"
      /\ req' = req /\ queue' = queue /\ pool' = pool /\ job' = job
      /\ worker' = worker /\ cancel' = cancel /\ gone' = gone
  BY DEF AfterTimeout
<1>2. /\ task \in [Clients -> Tasks] /\ "check" \in TaskPhases /\ ClientInv(c)
      /\ cancel \in [Clients -> BOOLEAN] /\ task[c] \in Tasks /\ "finally" \in TaskPhases
  BY DEF IInv, Typed, TaskPhases, Polling, Closing
<1>3. CASE worker[c] = "pending"
  <2>1. Goto(c, "check")
    BY <1>3 DEF AfterTimeout, Goto
  <2>2. task'[c].phase = "check" /\ task'[c].how = task[c].how
        /\ task'[c].unseen = task[c].unseen
    BY <1>2, <2>1, GotoTask
  <2>3. (Phases(c) /\ Noticed(c))'
    BY <1>1, <1>2, <2>2 DEF ClientInv, Phases, Noticed, Streams, Closing
  <2> QED BY <1>1, <1>2, <1>3, <2>1, <2>3, PhaseStep DEF Closing
<1>4. CASE worker[c] # "pending"
  <2>1. PICK why \in {"error", "stop"}, how \in {"netError", "netClean"} :
          task' = [task EXCEPT ![c] = Close(task[c], why, how)]
    BY <1>4 DEF AfterTimeout
  <2> DEFINE t == Close(task[c], why, how)
  <2>2. /\ t \in Tasks /\ t.phase = "finally" /\ t.how = how
        /\ t.buffer = task[c].buffer /\ t.out = task[c].out /\ t.unseen = task[c].unseen
    BY <1>2 DEF Close, ToOpenAI, Tasks
  <2> HIDE DEF t
  <2>3. task' = [task EXCEPT ![c] = t] /\ task[c].phase \in Polling
    BY <1>1, <2>1 DEF t, Polling
  <2> QED BY <1>1, <2>2, <2>3, BreakOff
<1> QED BY <1>3, <1>4

LEMMA InterruptStep ==
  ASSUME IInv, NEW c \in Clients, Interrupt(c)
  PROVE  IInv'
<1> DEFINE t == [task[c] EXCEPT !.phase = "finally", !.how = "interrupted"]
<1>1. /\ task[c].phase \in Polling /\ task' = [task EXCEPT ![c] = t]
      /\ req' = req /\ queue' = queue /\ pool' = pool /\ job' = job
      /\ worker' = worker /\ cancel' = cancel /\ gone' = gone
  BY DEF Interrupt, Polling
<1>2. task[c] \in Tasks /\ "finally" \in TaskPhases
  BY DEF IInv, Typed, TaskPhases, Closing
<1>3. /\ t \in Tasks /\ t.phase = "finally" /\ t.how = "interrupted"
      /\ t.buffer = task[c].buffer /\ t.out = task[c].out /\ t.unseen = task[c].unseen
  BY <1>2 DEF Tasks
<1> HIDE DEF t
<1> QED BY <1>1, <1>3, BreakOff

(* A token decodes to a longer beginning of the answer, or is held back.   *)
LEMMA Decoded ==
  ASSUME NEW c \in Clients, NEW t \in Tasks,
         \A i \in DOMAIN t.out : t.out[i] = i, Len(t.out) <= t.buffer,
         Len(t.out) + 1 .. t.buffer \subseteq req[c].holds
  PROVE  LET r == Receive(c, t)
         IN  /\ r \in Tasks /\ r.phase = "check" /\ r.buffer = t.buffer + 1
             /\ r.how = t.how /\ r.finish = t.finish /\ r.unseen = t.unseen
             /\ \A i \in DOMAIN r.out : r.out[i] = i
             /\ Len(r.out) <= r.buffer
             /\ Len(r.out) + 1 .. r.buffer \subseteq req[c].holds
<1> DEFINE len == t.buffer + 1
           sent == Len(t.out)
           new == [i \in 1 .. len - sent |-> sent + i]
           o == IF len \in req[c].holds THEN t.out ELSE t.out \o new
           r == Receive(c, t)
<1>1. t.out \in Seq(Nat) /\ t.buffer \in Nat /\ sent \in Nat /\ len \in Nat /\ sent < len
      /\ "check" \in TaskPhases
      /\ \A i \in 1 .. sent : t.out[i] = i
  BY DEF Tasks, TaskPhases, Polling
<1>2. new \in Seq(Nat) /\ Len(new) = len - sent
      /\ \A i \in 1 .. len - sent : new[i] = sent + i
  <2> HIDE DEF len, sent
  <2>1. len - sent \in Nat /\ \A i \in 1 .. len - sent : sent + i \in Nat
    BY <1>1
  <2> QED BY <2>1
<1> HIDE DEF new
<1>3. /\ o \in Seq(Nat) /\ Len(o) <= len
      /\ \A i \in 1 .. Len(o) : o[i] = i
      /\ Len(o) + 1 .. len \subseteq req[c].holds
  <2>1. CASE len \in req[c].holds
    <3>1. o = t.out
      BY <2>1
    <3>2. \A i \in sent + 1 .. len : i = len \/ i \in sent + 1 .. t.buffer
      BY <1>1
    <3>3. Len(o) + 1 .. len \subseteq req[c].holds
      BY <2>1, <3>1, <3>2
    <3>4. Len(o) = sent /\ o \in Seq(Nat)
      BY <1>1, <3>1
    <3> HIDE DEF sent, len, o
    <3>5. \A i \in 1 .. Len(o) : o[i] = i
      BY <1>1, <3>1, <3>4
    <3> QED BY <1>1, <3>3, <3>4, <3>5
  <2>2. CASE len \notin req[c].holds
    <3>1. o = t.out \o new
      BY <2>2
    <3> HIDE DEF o
    <3>2. /\ o \in Seq(Nat) /\ Len(o) = sent + Len(new)
          /\ \A i \in 1 .. Len(o) : o[i] = IF i <= sent THEN t.out[i] ELSE new[i - sent]
      BY <1>1, <1>2, <3>1
    <3> HIDE DEF len, sent
    <3>3. Len(o) = len
      BY <1>1, <1>2, <3>2
    <3>4. ASSUME NEW i \in 1 .. Len(o) PROVE o[i] = i
      <4>1. CASE i <= sent
        <5>1. o[i] = t.out[i]
          BY <3>2, <4>1
        <5>2. i \in 1 .. sent
          BY <1>1, <3>3, <4>1
        <5> QED BY <1>1, <5>1, <5>2
      <4>2. CASE ~ (i <= sent)
        <5>1. i - sent \in 1 .. len - sent /\ sent + (i - sent) = i
          BY <1>1, <3>3, <4>2
        <5> QED BY <1>2, <3>2, <4>2, <5>1
      <4> QED BY <4>1, <4>2
    <3>5. Len(o) + 1 .. len = {}
      BY <1>1, <3>3
    <3> QED BY <1>1, <3>2, <3>3, <3>4, <3>5
  <2> QED BY <2>1, <2>2
<1>4. r = [t EXCEPT !.phase = "check", !.buffer = len, !.out = o]
  BY DEF Receive, new
<1> HIDE DEF o
<1>5. /\ r \in Tasks /\ r.phase = "check" /\ r.buffer = len /\ r.out = o
      /\ r.how = t.how /\ r.finish = t.finish /\ r.unseen = t.unseen
  <2> HIDE DEF r, len
  <2> QED BY <1>1, <1>3, <1>4 DEF Tasks
<1> HIDE DEF r
<1>6. \A i \in DOMAIN r.out : r.out[i] = i
  BY <1>3, <1>5
<1> QED BY <1>3, <1>5, <1>6 DEF r

LEMMA TakeStep ==
  ASSUME IInv, NEW c \in Clients, Take(c)
  PROVE  IInv'
<1> DEFINE item == Head(queue[c])
           u == IF gone[c] /\ ~ cancel[c] THEN task[c].unseen + 1 ELSE task[c].unseen
           t == [task[c] EXCEPT !.unseen = u]
           r == IF item.reason = "none" THEN Receive(c, t) ELSE Close(t, item.reason, "done")
<1>1. /\ task[c].phase \in {"get", "waiting"} /\ queue[c] # << >>
      /\ task' = [task EXCEPT ![c] = r]
      /\ queue' = [queue EXCEPT ![c] = Tail(@)]
      /\ req' = req /\ pool' = pool /\ job' = job
      /\ worker' = worker /\ cancel' = cancel /\ gone' = gone
  BY DEF Take
<1>2. /\ task \in [Clients -> Tasks] /\ task[c] \in Tasks /\ task[c].unseen \in Nat
      /\ task[c].buffer \in Nat /\ job[c] \in Jobs /\ job[c].made \in Nat
      /\ queue \in [Clients -> Seq(Items)] /\ queue[c] \in Seq(Items)
      /\ job[c].reason \in Reasons /\ ClientInv(c)
  BY DEF IInv, Typed, Tasks, Jobs
<1>3. /\ u \in {0, 1} /\ (u = 1 => gone[c])
  BY <1>1, <1>2 DEF ClientInv, Noticed, Closing
<1>4. /\ t \in Tasks /\ t.unseen = u /\ t.phase = task[c].phase /\ t.out = task[c].out
      /\ t.buffer = task[c].buffer /\ t.how = task[c].how /\ t.finish = task[c].finish
  <2> HIDE DEF u
  <2>1. u \in Nat
    BY <1>3
  <2> QED BY <1>2, <2>1 DEF Tasks
<1> HIDE DEF u, t
<1> DEFINE n == job[c].made - task[c].buffer
<1>5. /\ n \in Nat
      /\ Len(queue[c]) = n + (IF job[c].reason = "none" THEN 0 ELSE 1)
      /\ \A i \in 1 .. n : queue[c][i] = Item(task[c].buffer + i, "none")
      /\ job[c].reason # "none" => queue[c][n + 1] = Item(0, job[c].reason)
  BY <1>1, <1>2, SMTT(30) DEF ClientInv, Carried, Closing
<1>6. /\ item = queue[c][1] /\ Len(queue[c]) \in Nat /\ Len(queue[c]) >= 1
      /\ Tail(queue[c]) \in Seq(Items) /\ Len(Tail(queue[c])) = Len(queue[c]) - 1
      /\ \A i \in 1 .. Len(queue[c]) - 1 : Tail(queue[c])[i] = queue[c][i + 1]
  BY <1>1, <1>2
<1>7. /\ queue' \in [Clients -> Seq(Items)] /\ queue'[c] = Tail(queue[c])
      /\ \A d \in Clients : d # c => queue'[d] = queue[d]
  BY <1>1, <1>2, <1>6
<1> HIDE DEF item
<1>8. r \in Tasks /\ ((Sent(c) /\ Carried(c) /\ Finished(c))' /\ r.unseen = u
                      /\ (\/ r.phase = "check" /\ r.how = task[c].how
                          \/ r.phase = "finally"))
  <2>1. task'[c] = r
    BY <1>1, <1>2
  <2> HIDE DEF n
  <2>2. CASE item.reason = "none"
    <3>1. n >= 1
      <4> SUFFICES ASSUME n = 0 PROVE FALSE
        BY <1>5
      <4>1. job[c].reason # "none" /\ item = Item(0, job[c].reason)
        BY <1>5, <1>6
      <4> QED BY <2>2, <4>1 DEF Item
    <3>2. r = Receive(c, t)
      BY <2>2
    <3>3. /\ \A i \in DOMAIN t.out : t.out[i] = i
          /\ Len(t.out) <= t.buffer
          /\ Len(t.out) + 1 .. t.buffer \subseteq req[c].holds
      BY <1>2, <1>4 DEF ClientInv, Sent
    <3> HIDE DEF r
    <3>4. /\ r \in Tasks /\ r.phase = "check" /\ r.buffer = t.buffer + 1
          /\ r.how = t.how /\ r.finish = t.finish /\ r.unseen = t.unseen
          /\ \A i \in DOMAIN r.out : r.out[i] = i
          /\ Len(r.out) <= r.buffer
          /\ Len(r.out) + 1 .. r.buffer \subseteq req[c].holds
      BY <1>4, <3>2, <3>3, Decoded
    <3>5. Sent(c)'
      BY <1>1, <2>1, <3>4 DEF Sent
    <3>6. Carried(c)'
      <4>1. job[c].made - r.buffer = n - 1 /\ r.buffer <= job[c].made
        BY <1>2, <1>4, <1>5, <3>1, <3>4 DEF n
      <4>2. Len(queue'[c]) = n - 1 + (IF job[c].reason = "none" THEN 0 ELSE 1)
        BY <1>5, <1>6, <1>7
      <4>3. ASSUME NEW i \in 1 .. n - 1
            PROVE  queue'[c][i] = Item(r.buffer + i, "none")
        <5>4. Len(queue[c]) >= n
          BY <1>5
        <5>1. i + 1 \in 1 .. n
          BY <1>5
        <5>2. i \in 1 .. Len(queue[c]) - 1
          BY <1>5, <1>6, <5>4
        <5>3. task[c].buffer + (i + 1) = r.buffer + i
          <6>1. r.buffer = task[c].buffer + 1
            BY <1>4, <3>4
          <6>2. i \in Nat
            BY <1>5
          <6>3. task[c].buffer \in Nat
            BY <1>2
          <6> QED BY <6>1, <6>2, <6>3
        <5> QED BY <1>5, <1>6, <1>7, <5>1, <5>2, <5>3
      <4>4. job[c].reason # "none" => queue'[c][n - 1 + 1] = Item(0, job[c].reason)
        <5> SUFFICES ASSUME job[c].reason # "none"
                     PROVE  queue'[c][n - 1 + 1] = Item(0, job[c].reason)
          OBVIOUS
        <5>1. n - 1 + 1 = n /\ n \in 1 .. Len(queue[c]) - 1
          BY <1>5, <1>6, <3>1
        <5> QED BY <1>5, <1>6, <1>7, <5>1
      <4> QED BY <1>1, <2>1, <4>1, <4>2, <4>3, <4>4 DEF Carried
    <3>7. Finished(c)'
      BY <1>1, <1>2, <1>4, <2>1, <3>4 DEF ClientInv, Finished, Phases, Closing
    <3> QED BY <1>4, <3>4, <3>5, <3>6, <3>7
  <2>3. CASE item.reason # "none"
    <3>1. n = 0
      <4> SUFFICES ASSUME n >= 1 PROVE FALSE
        BY <1>5
      <4>1. item = Item(task[c].buffer + 1, "none")
        BY <1>5, <1>6
      <4> QED BY <2>3, <4>1 DEF Item
    <3>2. /\ job[c].reason # "none" /\ item.reason = job[c].reason
      <4>1. job[c].reason # "none"
        BY <1>5, <1>6, <3>1
      <4>2. item = Item(0, job[c].reason)
        BY <1>5, <1>6, <3>1, <4>1
      <4> QED BY <4>1, <4>2 DEF Item
    <3>3. /\ r = Close(t, job[c].reason, "done")
      BY <2>3, <3>2
    <3>4. ToOpenAI(job[c].reason) \in {"none", "stop", "length"} /\ "finally" \in TaskPhases
      BY <1>2 DEF ToOpenAI, Reasons, TaskPhases, Closing
    <3> HIDE DEF r
    <3>5. /\ r \in Tasks /\ r.phase = "finally" /\ r.how = "done"
          /\ r.finish = ToOpenAI(job[c].reason) /\ r.buffer = t.buffer
          /\ r.out = t.out /\ r.unseen = t.unseen
      BY <1>4, <3>3, <3>4 DEF Close, Tasks
    <3>6. Sent(c)' /\ Carried(c)'
      BY <1>1, <1>2, <1>4, <2>1, <3>5 DEF ClientInv, Sent, Carried, Closing
    <3>7. task[c].buffer = job[c].made
      BY <1>2, <3>1 DEF n
    <3>8. job[c].reason = "cancelled" => gone[c]
      BY <1>1, <1>2 DEF ClientInv, Finished
    <3>9. Finished(c)'
      BY <1>1, <1>2, <1>4, <2>1, <3>2, <3>5, <3>7, <3>8 DEF ClientInv, Finished
    <3> QED BY <1>4, <3>5, <3>6, <3>9
  <2> QED BY <2>2, <2>3
<1> HIDE DEF r
<1>9. /\ task' \in [Clients -> Tasks] /\ task'[c] = r
      /\ \A d \in Clients : d # c => task'[d] = task[d]
  BY <1>1, <1>2, <1>8
<1>10. ClientInv(c)'
  <2>1. Futures(c)'
    BY <1>1, <1>2, <1>8, <1>9 DEF ClientInv, Futures
  <2>2. Phases(c)'
    BY <1>1, <1>2, <1>8, <1>9 DEF ClientInv, Phases, Streams, Closing
  <2>3. Noticed(c)'
    BY <1>1, <1>3, <1>8, <1>9 DEF Noticed, Closing
  <2> QED BY <1>8, <2>1, <2>2, <2>3 DEF ClientInv
<1>11. \A d \in Clients : ClientInv(d)'
  BY <1>1, <1>7, <1>9, <1>10, OneMoves DEF IInv
<1>12. Typed' /\ Pooled'
  BY <1>1, <1>7, <1>9, PooledFrame DEF IInv, Typed
<1> QED BY <1>11, <1>12 DEF IInv

-----------------------------------------------------------------------------
(* The client and the web framework                                        *)

LEMMA DisconnectStep ==
  ASSUME IInv, NEW c \in Clients, Disconnect(c)
  PROVE  IInv'
<1>1. /\ gone' = [gone EXCEPT ![c] = TRUE] /\ ~ gone[c]
      /\ req' = req /\ task' = task /\ queue' = queue /\ pool' = pool /\ job' = job
      /\ worker' = worker /\ cancel' = cancel
  BY DEF Disconnect
<1>2. gone \in [Clients -> BOOLEAN] /\ ClientInv(c)
  BY DEF IInv, Typed
<1>3. /\ gone' \in [Clients -> BOOLEAN] /\ gone'[c] = TRUE
      /\ \A d \in Clients : d # c => gone'[d] = gone[d]
  BY <1>1, <1>2
<1>4. ClientInv(c)'
  BY <1>1, <1>2, <1>3
  DEF ClientInv, Futures, Phases, Sent, Carried, Finished, Noticed, Streams
<1>5. \A d \in Clients : ClientInv(d)'
  BY <1>1, <1>3, <1>4, OneMoves DEF IInv
<1>6. Typed' /\ Pooled'
  BY <1>1, <1>3, PooledFrame DEF IInv, Typed
<1> QED BY <1>5, <1>6 DEF IInv

(* Taking an entry out of a list.                                          *)
LEMMA EntryRemoved ==
  ASSUME NEW S, NEW s \in Seq(S), NEW n \in DOMAIN s
  PROVE  LET r == RemoveAt(s, n)
         IN  /\ r \in Seq(S) /\ Len(r) = Len(s) - 1
             /\ \A i \in 1 .. Len(s) - 1 : r[i] = IF i < n THEN s[i] ELSE s[i + 1]
<1> DEFINE front == SubSeq(s, 1, n - 1)
           back  == SubSeq(s, n + 1, Len(s))
           r == front \o back
           l == Len(s)
<1>1. l \in Nat /\ n \in 1 .. l /\ s \in [1 .. l -> S]
  OBVIOUS
<1> HIDE DEF l
<1>2. \A i \in 1 .. n - 1 : s[i] \in S
  BY <1>1
<1>3. \A i \in n + 1 .. l : s[i] \in S
  BY <1>1
<1>4. front \in Seq(S) /\ Len(front) = n - 1 /\ \A i \in 1 .. n - 1 : front[i] = s[i]
  BY <1>1, <1>2
<1>5. back \in Seq(S) /\ Len(back) = l - n /\ \A i \in 1 .. l - n : back[i] = s[n + i]
  <2>1. CASE n + 1 <= l
    BY <1>1, <1>3, <2>1, SMTT(30) DEF l
  <2>2. CASE ~ (n + 1 <= l)
    <3>1. n = l
      BY <1>1, <2>2
    <3> QED BY <1>1, <3>1 DEF l
  <2> QED BY <2>1, <2>2
<1> HIDE DEF front, back
<1>6. /\ r \in Seq(S) /\ Len(r) = Len(front) + Len(back)
      /\ \A i \in 1 .. Len(r) :
           r[i] = IF i <= Len(front) THEN front[i] ELSE back[i - Len(front)]
  <2>1. front \in Seq(S) /\ back \in Seq(S)
    BY <1>4, <1>5
  <2>2. /\ Len(front) \in Nat /\ r \in Seq(S) /\ Len(r) = Len(front) + Len(back)
        /\ \A i \in 1 .. Len(front) + Len(back) :
             r[i] = IF i <= Len(front) THEN front[i] ELSE back[i - Len(front)]
    BY <2>1, ConcatProperties, LenProperties
  <2> HIDE DEF r
  <2> QED BY <2>2
<1>7. RemoveAt(s, n) = r
  BY DEF RemoveAt, r, front, back
<1> HIDE DEF r
<1>8. Len(r) = l - 1
  BY <1>1, <1>4, <1>5, <1>6
<1>9. ASSUME NEW i \in 1 .. l - 1 PROVE r[i] = IF i < n THEN s[i] ELSE s[i + 1]
  <2>1. CASE i < n
    <3>1. i \in 1 .. n - 1 /\ i \in 1 .. Len(r) /\ i <= Len(front)
      BY <1>1, <1>4, <1>8, <2>1
    <3> QED BY <1>4, <1>6, <2>1, <3>1
  <2>2. CASE ~ (i < n)
    <3>1. /\ i \in 1 .. Len(r) /\ ~ (i <= Len(front)) /\ i - Len(front) \in 1 .. l - n
          /\ n + (i - Len(front)) = i + 1
      BY <1>1, <1>4, <1>8, <2>2
    <3> QED BY <1>5, <1>6, <2>2, <3>1
  <2> QED BY <2>1, <2>2
<1> QED BY <1>6, <1>7, <1>8, <1>9 DEF l

LEMMA InterruptAwaitStep ==
  ASSUME IInv, NEW c \in Clients, InterruptAwait(c)
  PROVE  IInv'
<1> DEFINE t == [task[c] EXCEPT !.phase = "closed", !.how = "interrupted"]
<1>1. /\ task[c].phase = "await" /\ task' = [task EXCEPT ![c] = t]
      /\ worker[c] = "pending" /\ worker' = [worker EXCEPT ![c] = "cancelled"]
      /\ gone[c] /\ req' = req /\ queue' = queue /\ cancel' = cancel /\ gone' = gone
  BY DEF InterruptAwait
<1>2. /\ task \in [Clients -> Tasks] /\ task[c] \in Tasks /\ "closed" \in TaskPhases
      /\ job \in [Clients -> Jobs] /\ "dropped" \in JobStates
      /\ worker \in [Clients -> {"pending", "result", "exception", "cancelled"}]
      /\ pool \in Seq(Clients) /\ Pooled /\ ClientInv(c)
  BY DEF IInv, Typed, TaskPhases, Closing, JobStates
<1>3. /\ t \in Tasks /\ t.phase = "closed" /\ t.how = "interrupted"
      /\ t.buffer = task[c].buffer /\ t.out = task[c].out /\ t.unseen = task[c].unseen
  BY <1>2 DEF Tasks
<1> HIDE DEF t
<1>4. /\ task' \in [Clients -> Tasks] /\ task'[c] = t
      /\ \A d \in Clients : d # c => task'[d] = task[d]
  BY <1>1, <1>2, <1>3
<1>5. /\ worker' \in [Clients -> {"pending", "result", "exception", "cancelled"}]
      /\ worker'[c] = "cancelled" /\ \A d \in Clients : d # c => worker'[d] = worker[d]
  BY <1>1, <1>2
<1>6. /\ job' \in [Clients -> Jobs] /\ pool' \in Seq(Clients)
      /\ job'[c].made = job[c].made /\ job'[c].reason = job[c].reason
      /\ job'[c].state = job[c].state \/ (job'[c].state = "dropped" /\ job[c].state = "queued")
      /\ \A d \in Clients : d # c => job'[d] = job[d]
      /\ Pooled'
  <2>1. CASE job[c].state = "queued"
    <3>1. Job(c, "dropped")
      BY <2>1 DEF InterruptAwait
    <3>2. PICK n \in DOMAIN pool : pool[n] = c /\ pool' = RemoveAt(pool, n)
      BY <2>1 DEF InterruptAwait
    <3>3. /\ job' \in [Clients -> Jobs]
          /\ job'[c].state = "dropped" /\ job'[c].made = job[c].made
          /\ job'[c].reason = job[c].reason
          /\ \A d \in Clients : d # c => job'[d] = job[d]
      BY <1>2, <3>1, JobTo
    <3> DEFINE l == Len(pool)
    <3>4. /\ pool' \in Seq(Clients) /\ Len(pool') = l - 1
          /\ \A i \in 1 .. l - 1 : pool'[i] = IF i < n THEN pool[i] ELSE pool[i + 1]
      BY <1>2, <3>2, EntryRemoved
    <3>5. l \in Nat /\ n \in 1 .. l /\ DOMAIN pool = 1 .. l
      BY <1>2
    <3> HIDE DEF l
    <3>6. DOMAIN pool' = 1 .. l - 1
      BY <3>4
    <3>7. \A i, k \in 1 .. l : pool[i] = pool[k] => i = k
      BY <1>2, <3>5 DEF Pooled
    <3> DEFINE Old(i) == IF i < n THEN i ELSE i + 1
    <3>8. \A i \in 1 .. l - 1 : Old(i) \in 1 .. l /\ Old(i) # n /\ pool'[i] = pool[Old(i)]
      BY <3>4, <3>5
    <3>9. \A i, k \in 1 .. l - 1 : Old(i) = Old(k) => i = k
      BY <3>5
    <3>10. \A j \in 1 .. l : j # n => \E i \in 1 .. l - 1 : j = Old(i)
      <4> SUFFICES ASSUME NEW j \in 1 .. l, j # n PROVE \E i \in 1 .. l - 1 : j = Old(i)
        OBVIOUS
      <4>1. CASE j < n
        BY <3>5, <4>1
      <4>2. CASE ~ (j < n)
        <5>1. j - 1 \in 1 .. l - 1 /\ Old(j - 1) = j
          BY <3>5, <4>2
        <5> QED BY <5>1
      <4> QED BY <4>1, <4>2
    <3> HIDE DEF Old
    <3>11. \A i, k \in DOMAIN pool' : pool'[i] = pool'[k] => i = k
      <4> SUFFICES ASSUME NEW i \in 1 .. l - 1, NEW k \in 1 .. l - 1, pool'[i] = pool'[k]
                   PROVE  i = k
        BY <3>6
      <4>1. Old(i) = Old(k)
        BY <3>7, <3>8
      <4> QED BY <3>9, <4>1
    <3>12. ASSUME NEW d \in Clients
           PROVE  job'[d].state = "queued" <=> \E i \in DOMAIN pool' : pool'[i] = d
      <4>1. CASE d = c
        <5>1. ASSUME NEW i \in 1 .. l - 1, pool'[i] = c PROVE FALSE
          <6>1. Old(i) = n
            BY <3>2, <3>5, <3>7, <3>8, <5>1
          <6> QED BY <3>8, <6>1
        <5> QED BY <3>3, <3>6, <4>1, <5>1
      <4>2. CASE d # c
        <5>1. job[d].state = "queued" <=> \E j \in 1 .. l : pool[j] = d
          BY <1>2, <3>5 DEF Pooled
        <5>2. (\E j \in 1 .. l : pool[j] = d) => \E i \in 1 .. l - 1 : pool'[i] = d
          <6> SUFFICES ASSUME NEW j \in 1 .. l, pool[j] = d
                       PROVE  \E i \in 1 .. l - 1 : pool'[i] = d
            OBVIOUS
          <6>1. PICK i \in 1 .. l - 1 : j = Old(i)
            BY <3>2, <3>10, <4>2
          <6> QED BY <3>8, <6>1
        <5>3. (\E i \in 1 .. l - 1 : pool'[i] = d) => \E j \in 1 .. l : pool[j] = d
          BY <3>8
        <5>4. job'[d] = job[d]
          BY <3>3, <4>2
        <5> QED BY <3>6, <5>1, <5>2, <5>3, <5>4
      <4> QED BY <4>1, <4>2
    <3>13. Pooled'
      BY <3>11, <3>12 DEF Pooled
    <3> QED BY <2>1, <3>3, <3>4, <3>13
  <2>2. CASE job[c].state # "queued"
    <3>1. job' = job /\ pool' = pool
      BY <2>2 DEF InterruptAwait
    <3> QED BY <1>2, <3>1, PooledFrame
  <2> QED BY <2>1, <2>2
<1>7. ClientInv(c)'
  <2>1. job[c].reason # "none" => job'[c].state = job[c].state
    BY <1>2, <1>6 DEF ClientInv, Futures
  <2>2. Futures(c)'
    BY <1>1, <1>2, <1>3, <1>4, <1>5, <1>6, <2>1 DEF ClientInv, Futures
  <2>3. Phases(c)'
    BY <1>1, <1>2, <1>3, <1>4, <1>6 DEF ClientInv, Phases, Streams, Closing
  <2>4. Sent(c)' /\ Carried(c)'
    BY <1>1, <1>2, <1>3, <1>4 DEF ClientInv, Sent, Carried, Closing
  <2>5. Finished(c)' /\ Noticed(c)'
    BY <1>1, <1>2, <1>3, <1>4, <1>6 DEF ClientInv, Finished, Noticed, Closing
  <2> QED BY <2>2, <2>3, <2>4, <2>5 DEF ClientInv
<1>8. \A d \in Clients : ClientInv(d)'
  BY <1>1, <1>4, <1>5, <1>6, <1>7, OneMoves DEF IInv
<1>9. Typed'
  BY <1>1, <1>4, <1>5, <1>6 DEF IInv, Typed
<1> QED BY <1>6, <1>8, <1>9 DEF IInv

-----------------------------------------------------------------------------
(* The theorems                                                            *)

LEMMA Inductive ==
  ASSUME IInv, [Next]_vars
  PROVE  IInv'
<1>1. ASSUME NEW c \in Clients, TaskStep(c) PROVE IInv'
  BY <1>1, RespondStep, CheckStep, TimeoutStep, TakeStep, AfterTimeoutStep, FinallyStep,
     AwaitWorkerStep DEF TaskStep
<1>2. ASSUME NEW c \in Clients, EngineStep(c) PROVE IInv'
  BY <1>2, StartJobStep, SampleTokenStep, OnTokenStep, OnDoneStep, EndJobStep DEF EngineStep
<1>3. CASE UNCHANGED vars
  <2>1. /\ req' = req /\ task' = task /\ queue' = queue /\ pool' = pool /\ job' = job
        /\ worker' = worker /\ cancel' = cancel /\ gone' = gone
    BY <1>3 DEF vars
  <2>2. \A d \in Clients : ClientInv(d)'
    BY <2>1, ClientInvFrame DEF IInv
  <2> QED BY <2>1, <2>2, PooledFrame DEF IInv, Typed
<1> QED BY <1>1, <1>2, <1>3, StartStep, FutureDoneStep, DisconnectStep, InterruptStep,
        InterruptAwaitStep DEF Next, Quiescent

LEMMA Initially == Init => IInv
<1> SUFFICES ASSUME Init PROVE IInv
  OBVIOUS
<1> DEFINE t == [phase |-> "new", buffer |-> 0, out |-> << >>,
                 finish |-> "none", how |-> "none", unseen |-> 0]
           j == [state |-> "none", made |-> 0, reason |-> "none"]
<1>1. /\ t \in Tasks /\ t.phase = "new" /\ t.buffer = 0 /\ t.out = << >>
      /\ t.how = "none" /\ t.unseen = 0
      /\ j \in Jobs /\ j.state = "none" /\ j.made = 0 /\ j.reason = "none"
  BY DEF Tasks, TaskPhases, Jobs, JobStates, Reasons
<1>2. /\ task = [c \in Clients |-> t] /\ job = [c \in Clients |-> j]
  BY DEF Init
<1> HIDE DEF t, j
<1>3. Typed
  BY <1>1, <1>2 DEF Init, Typed
<1>4. Pooled
  BY <1>1, <1>2 DEF Init, Pooled
<1>5. ASSUME NEW c \in Clients PROVE ClientInv(c)
  <2>1. /\ task[c] = t /\ job[c] = j /\ queue[c] = << >> /\ worker[c] = "pending"
        /\ cancel[c] = FALSE /\ gone[c] = FALSE
    BY <1>2 DEF Init
  <2>2. Futures(c) /\ Phases(c) /\ Finished(c) /\ Noticed(c)
    BY <1>1, <2>1 DEF Futures, Phases, Finished, Noticed, Streams, Active, OnThread
  <2>3. Sent(c) /\ Carried(c)
    BY <1>1, <2>1 DEF Sent, Carried
  <2> QED BY <2>2, <2>3 DEF ClientInv
<1> QED BY <1>3, <1>4, <1>5 DEF IInv

(* The invariant holds of every behaviour.                                 *)
THEOREM Invariance == Spec => []IInv
  BY Initially, Inductive, PTL DEF Spec

(* Tasks, queues, jobs and futures keep their types, and the reason a      *)
(* client reads is one of the OpenAI enumeration (server.py:169-275).      *)
THEOREM BridgeTypes == Spec => []TypeOK
<1>1. IInv => TypeOK
  <2>1. TaskPhases = {"new", "call", "check", "get", "waiting", "timedOut", "finally",
                      "await", "closed"}
    BY DEF TaskPhases, Polling, Closing
  <2> QED BY <2>1, Zenon DEF IInv, Typed, TypeOK, Tasks, Jobs, JobStates, Items
<1> QED BY <1>1, Invariance, PTL

(* A stream sends the answer from its first token on without gap or        *)
(* repetition, whatever is held back; ended by the reason in the queue it  *)
(* has sent all but an unfinished character, with the true reason, and     *)
(* only a client that left is cancelled (server.py:180-262).               *)
THEOREM StreamsAreFaithful == Spec => []StreamFaithful
<1>1. IInv => StreamFaithful
  <2> SUFFICES ASSUME IInv, NEW c \in Clients
               PROVE  LET t == task[c]
                      IN  /\ \A i \in DOMAIN t.out : t.out[i] = i
                          /\ t.how = "done" =>
                               /\ job[c].reason = "cancelled" => gone[c]
                               /\ job[c].reason \in {"stop", "length"} =>
                                    /\ t.finish = req[c].reason /\ t.buffer = req[c].n
                                    /\ Len(t.out) + 1 .. t.buffer \subseteq req[c].holds
    BY DEF StreamFaithful
  <2>1. Sent(c) /\ Finished(c)
    BY DEF IInv, ClientInv
  <2> QED BY <2>1 DEF Sent, Finished, ToOpenAI
<1> QED BY <1>1, Invariance, PTL

(* A response that is over leaves a job behind only if the framework tore  *)
(* it down, and that job has been told to stop (server.py:262-270).        *)
THEOREM NoOrphans == Spec => []NoOrphanJob
<1>1. IInv => NoOrphanJob
  BY DEF IInv, ClientInv, Phases, NoOrphanJob, Active
<1> QED BY <1>1, Invariance, PTL

(* A disconnect is noticed before a second item is taken, whatever the     *)
(* timeouts and the queue (server.py:219-230).                             *)
THEOREM DisconnectsAreNoticed == Spec => []DisconnectNoticed
<1>1. IInv => DisconnectNoticed
  BY DEF IInv, ClientInv, Noticed, DisconnectNoticed
<1> QED BY <1>1, Invariance, PTL
=============================================================================
