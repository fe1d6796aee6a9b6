----------------------------- MODULE ThreadPool ------------------------------
(***************************************************************************)
(* The process-global fork-join pool behind the row-parallel kernels, and  *)
(* the threads that reach it through a forward pass of an engine.          *)
(*                                                                         *)
(* A critical section of m_ is one step.  A condition wait is a test of    *)
(* its predicate followed, if it is false, by sleep in the same critical   *)
(* section; a notification, or a spurious wakeup, sends a sleeper back to  *)
(* the test.  notify_all of the submitter happens after it left m_, the    *)
(* notify_one of the last worker inside its critical section.              *)
(*                                                                         *)
(* With one thread the code calls fn inline; here the same happens in      *)
(* steps, as there are no workers to wait for.                             *)
(*                                                                         *)
(* A kernel may throw (attention grows a score row, kernels.cpp:436).  In  *)
(* the caller's own chunk the exception leaves parallel_for without the    *)
(* wait for the workers.  In a worker's chunk nothing catches it and the   *)
(* process ends: a behaviour that takes no further step.                   *)
(***************************************************************************)
EXTENDS Chunks, FiniteSets

CONSTANTS
  Callers,      (* threads that run forward passes                         *)
  Engines,      (* engine objects of the process                           *)
  EngineOf,     (* which engine a caller uses                              *)
  Totals,       (* lengths of parallel loops                               *)
  MaxJobs,      (* bound: jobs posted in a behaviour                       *)
  MaxStray      (* bound: jobs that an exception leaves to its workers     *)

Workers == 1 .. NumThreads - 1
Nobody  == "nobody"
NoFn    == [by |-> Nobody, no |-> 0]

ASSUME PoolAssumption ==
  /\ Nobody \notin Callers
  /\ EngineOf \in [Callers -> Engines]
  /\ Totals \subseteq Nat /\ \E n \in Totals : \A m \in Totals : n >= m
  /\ MaxJobs \in Nat /\ MaxStray \in Nat

VARIABLES
  forwardMu,    (* forwardMu[e]: owner of e's forward_mu_                  *)
  jobFn,        (* job_fn_: the posted std::function, by caller and number *)
  jobTotal, remaining, generation, shutdown,    (* under m_                *)
  cpc,          (* where a caller is                                       *)
  call, total,  (* its parallel_for call                                   *)
  done,         (* done[c][x]: how often index x of its job was computed   *)
  wpc,          (* where a worker is                                       *)
  seen, fn, wtotal,   (* locals of worker_loop                             *)
  dpc,          (* the destructor, at process exit                         *)
  stray         (* history: jobs that an exception left while remaining_   *)
                (* was not 0                                               *)

shared   == << jobFn, jobTotal, remaining, generation, shutdown, stray >>
callers  == << forwardMu, cpc, call, total >>
workers  == << wpc, seen, fn, wtotal >>
poolVars == << shared, callers, done, workers, dpc >>

Indices  == 0 .. CHOOSE n \in Totals : \A m \in Totals : n >= m
Fresh    == [x \in Indices |-> 0]
PoolJobs == [by : Callers \cup {Nobody}, no : 0 .. MaxJobs]

(* Types; remaining_, from which every worker subtracts, stays within      *)
(* 0 .. n_ - 1 unless an exception has left workers behind.                *)
PoolTypeOK ==
  /\ forwardMu \in [Engines -> Callers \cup {Nobody}]
  /\ jobFn \in PoolJobs /\ jobTotal \in Totals \cup {0}
  /\ remaining \in Int /\ generation \in 0 .. MaxJobs /\ stray \subseteq PoolJobs
  /\ stray = {} => remaining \in 0 .. NumThreads - 1
  /\ shutdown \in BOOLEAN
  /\ cpc \in [Callers -> {"idle", "forward", "notify", "run", "test", "asleep"}]
  /\ call \in [Callers -> PoolJobs] /\ total \in [Callers -> Totals \cup {0}]
  /\ done \in [Callers -> [Indices -> Nat]]
  /\ wpc \in [Workers -> {"test", "asleep", "run", "finish", "exit"}]
  /\ seen \in [Workers -> 0 .. MaxJobs] /\ fn \in [Workers -> PoolJobs]
  /\ wtotal \in [Workers -> Totals \cup {0}]
  /\ dpc \in {"live", "notify", "join", "dead"}

PoolInit ==
  /\ forwardMu = [e \in Engines |-> Nobody]
  /\ jobFn = NoFn /\ jobTotal = 0 /\ remaining = 0 /\ generation = 0
  /\ shutdown = FALSE
  /\ cpc = [c \in Callers |-> "idle"]
  /\ call = [c \in Callers |-> NoFn] /\ total = [c \in Callers |-> 0]
  /\ done = [c \in Callers |-> Fresh]
  /\ wpc = [w \in Workers |-> "test"]
  /\ seen = [w \in Workers |-> 0] /\ fn = [w \in Workers |-> NoFn]
  /\ wtotal = [w \in Workers |-> 0]
  /\ dpc = "live" /\ stray = {}

(* A call of f(begin, end) for chunk k of job j.  A std::function whose    *)
(* parallel_for is over is gone: calling it is undefined.  FnAlive says    *)
(* that stray is not empty then, and of what follows nothing is claimed    *)
(* but types and the mutex; here such a call counts for nobody.            *)
Compute(j, k, n) ==
  done' = [c \in Callers |->
             IF call[c] = j /\ cpc[c] \in {"notify", "run", "test", "asleep"}
               THEN [x \in Indices |->
                       IF x \in Chunk(k, n) THEN done[c][x] + 1 ELSE done[c][x]]
               ELSE done[c]]

-----------------------------------------------------------------------------
(* A forward pass and its parallel loops                                   *)

(* Plausible bug: the forward pass is not serialized.                      *)
LockForwardNoMutex(c) ==
  /\ cpc[c] = "idle" /\ dpc = "live"
  /\ forwardMu' = [forwardMu EXCEPT ![EngineOf[c]] = c]
  /\ cpc' = [cpc EXCEPT ![c] = "forward"]
  /\ UNCHANGED << shared, call, total, done, workers, dpc >>

LockForward(c) ==
  /\ cpc[c] = "idle" /\ dpc = "live" /\ forwardMu[EngineOf[c]] = Nobody
  /\ forwardMu' = [forwardMu EXCEPT ![EngineOf[c]] = c]
  /\ cpc' = [cpc EXCEPT ![c] = "forward"]
  /\ UNCHANGED << shared, call, total, done, workers, dpc >>

UnlockForward(c) ==
  /\ cpc[c] = "forward"
  /\ forwardMu' = [forwardMu EXCEPT ![EngineOf[c]] = Nobody]
  /\ cpc' = [cpc EXCEPT ![c] = "idle"]
  /\ UNCHANGED << shared, call, total, done, workers, dpc >>

(* Plausible bug: the caller is counted among the workers to wait for.     *)
ToWaitForAll == NumThreads
(* Plausible bug: off by one the other way.                                *)
ToWaitForFew == IF NumThreads > 1 THEN NumThreads - 2 ELSE 0

ToWaitFor == NumThreads - 1

(* parallel_for: post the job under m_.                                    *)
PostJob(c, n) ==
  /\ cpc[c] = "forward" /\ generation < MaxJobs
  /\ LET j == [by |-> c, no |-> generation + 1] IN
     /\ call' = [call EXCEPT ![c] = j]
     /\ jobFn' = j
  /\ total' = [total EXCEPT ![c] = n]
  /\ done' = [done EXCEPT ![c] = Fresh]
  /\ jobTotal' = n
  /\ remaining' = ToWaitFor
  /\ generation' = generation + 1
  /\ cpc' = [cpc EXCEPT ![c] = "notify"]
  /\ UNCHANGED << forwardMu, shutdown, stray, workers, dpc >>

WakeWorkers ==
  wpc' = [w \in Workers |-> IF wpc[w] = "asleep" THEN "test" ELSE wpc[w]]

NotifyStart(c) ==
  /\ cpc[c] = "notify"
  /\ WakeWorkers
  /\ cpc' = [cpc EXCEPT ![c] = "run"]
  /\ UNCHANGED << shared, forwardMu, call, total, done, seen, fn, wtotal, dpc >>

RunOwnChunk(c) ==
  /\ cpc[c] = "run"
  /\ Compute(call[c], 0, total[c])
  /\ cpc' = [cpc EXCEPT ![c] = "test"]
  /\ UNCHANGED << shared, forwardMu, call, total, workers, dpc >>

(* fn throws: parallel_for, the forward pass and its lock unwind, the      *)
(* function object goes with the frame.  Nobody waits for the workers, and *)
(* job_fn_ and remaining_ stay as they are for the next job.               *)
ThrowOwn(c) ==
  /\ cpc[c] = "run"
  /\ \/ remaining = 0 /\ UNCHANGED stray
     \/ /\ remaining # 0 /\ Cardinality(stray) < MaxStray
        /\ stray' = stray \cup {call[c]}
  /\ forwardMu' = [forwardMu EXCEPT ![EngineOf[c]] = Nobody]
  /\ cpc' = [cpc EXCEPT ![c] = "idle"]
  /\ call' = [call EXCEPT ![c] = NoFn] /\ total' = [total EXCEPT ![c] = 0]
  /\ done' = [done EXCEPT ![c] = Fresh]
  /\ UNCHANGED << jobFn, jobTotal, remaining, generation, shutdown, workers, dpc >>

(* cv_done_.wait: the predicate holds, the job is over.                    *)
Join(c) ==
  /\ cpc[c] = "test" /\ remaining = 0
  /\ jobFn' = NoFn
  /\ cpc' = [cpc EXCEPT ![c] = "forward"]
  /\ UNCHANGED << jobTotal, remaining, generation, shutdown, stray, forwardMu,
                  call, total, done, workers, dpc >>

WaitDone(c) ==
  /\ cpc[c] = "test" /\ remaining # 0
  /\ cpc' = [cpc EXCEPT ![c] = "asleep"]
  /\ UNCHANGED << shared, forwardMu, call, total, done, workers, dpc >>

SpuriousDone(c) ==
  /\ cpc[c] = "asleep"
  /\ cpc' = [cpc EXCEPT ![c] = "test"]
  /\ UNCHANGED << shared, forwardMu, call, total, done, workers, dpc >>

-----------------------------------------------------------------------------
(* worker_loop                                                             *)

Take(w) ==
  /\ wpc[w] = "test" /\ ~ shutdown /\ generation # seen[w]
  /\ seen' = [seen EXCEPT ![w] = generation]
  /\ fn' = [fn EXCEPT ![w] = jobFn]
  /\ wtotal' = [wtotal EXCEPT ![w] = jobTotal]
  /\ wpc' = [wpc EXCEPT ![w] = "run"]
  /\ UNCHANGED << shared, callers, done, dpc >>

(* Plausible bug: the predicate forgets shutdown_.                         *)
WaitStartDeaf(w) ==
  /\ wpc[w] = "test" /\ generation = seen[w]
  /\ wpc' = [wpc EXCEPT ![w] = "asleep"]
  /\ UNCHANGED << shared, callers, done, seen, fn, wtotal, dpc >>

WaitStart(w) ==
  /\ wpc[w] = "test" /\ ~ shutdown /\ generation = seen[w]
  /\ wpc' = [wpc EXCEPT ![w] = "asleep"]
  /\ UNCHANGED << shared, callers, done, seen, fn, wtotal, dpc >>

SpuriousStart(w) ==
  /\ wpc[w] = "asleep"
  /\ wpc' = [wpc EXCEPT ![w] = "test"]
  /\ UNCHANGED << shared, callers, done, seen, fn, wtotal, dpc >>

Exit(w) ==
  /\ wpc[w] = "test" /\ shutdown
  /\ wpc' = [wpc EXCEPT ![w] = "exit"]
  /\ UNCHANGED << shared, callers, done, seen, fn, wtotal, dpc >>

RunChunk(w) ==
  /\ wpc[w] = "run"
  /\ Compute(fn[w], w, wtotal[w])
  /\ wpc' = [wpc EXCEPT ![w] = "finish"]
  /\ UNCHANGED << shared, callers, seen, fn, wtotal, dpc >>

(* Plausible bug: the last worker does not notify.                         *)
FinishSilent(w) ==
  /\ wpc[w] = "finish"
  /\ remaining' = remaining - 1
  /\ wpc' = [wpc EXCEPT ![w] = "test"]
  /\ UNCHANGED << jobFn, jobTotal, generation, shutdown, stray, callers, done,
                  seen, fn, wtotal, dpc >>

(* notify_one wakes one sleeping submitter, if there is one.               *)
Finish(w) ==
  /\ wpc[w] = "finish"
  /\ remaining' = remaining - 1
  /\ LET sleepers == {c \in Callers : cpc[c] = "asleep"} IN
     IF remaining = 1 /\ sleepers # {}
       THEN \E c \in sleepers : cpc' = [cpc EXCEPT ![c] = "test"]
       ELSE UNCHANGED cpc
  /\ wpc' = [wpc EXCEPT ![w] = "test"]
  /\ UNCHANGED << jobFn, jobTotal, generation, shutdown, stray, forwardMu, call,
                  total, done, seen, fn, wtotal, dpc >>

-----------------------------------------------------------------------------
(* ~ThreadPool: a static object, destroyed when the process exits and no   *)
(* forward pass is under way.                                              *)

BeginShutdown ==
  /\ dpc = "live" /\ \A c \in Callers : cpc[c] = "idle"
  /\ shutdown' = TRUE
  /\ dpc' = "notify"
  /\ UNCHANGED << jobFn, jobTotal, remaining, generation, stray, callers, done,
                  workers >>

NotifyShutdown ==
  /\ dpc = "notify"
  /\ WakeWorkers
  /\ dpc' = "join"
  /\ UNCHANGED << shared, callers, done, seen, fn, wtotal >>

JoinWorkers ==
  /\ dpc = "join" /\ \A w \in Workers : wpc[w] = "exit"
  /\ dpc' = "dead"
  /\ UNCHANGED << shared, callers, done, workers >>

Dead == dpc = "dead" /\ UNCHANGED poolVars

-----------------------------------------------------------------------------
CallerStep(c) ==
  \/ NotifyStart(c) \/ RunOwnChunk(c) \/ ThrowOwn(c) \/ Join(c) \/ WaitDone(c)

WorkerStep(w) ==
  \/ Take(w) \/ WaitStart(w) \/ Exit(w) \/ RunChunk(w) \/ Finish(w)

PoolNext ==
  \/ \E c \in Callers :
       \/ LockForward(c) \/ UnlockForward(c)
       \/ \E n \in Totals : PostJob(c, n)
       \/ CallerStep(c)
       \/ SpuriousDone(c)
  \/ \E w \in Workers : WorkerStep(w) \/ SpuriousStart(w)
  \/ BeginShutdown \/ NotifyShutdown \/ JoinWorkers \/ Dead

(* A runnable thread eventually runs; nothing makes a caller start another *)
(* pass, a wakeup come spuriously, or the process exit.                    *)
Fairness ==
  /\ \A c \in Callers : WF_poolVars(CallerStep(c))
  /\ \A w \in Workers : WF_poolVars(WorkerStep(w))
  /\ WF_poolVars(NotifyShutdown) /\ WF_poolVars(JoinWorkers)

PoolSpec == PoolInit /\ [][PoolNext]_poolVars /\ Fairness

-----------------------------------------------------------------------------
InLoop(c) == cpc[c] \in {"notify", "run", "test", "asleep"}

(* parallel.cpp:33: "Only one job runs at a time (parallel_for blocks      *)
(* until the previous one fully drains), which matches the engine's        *)
(* single-submitter discipline".  That the previous one has drained is     *)
(* FnAlive.                                                                *)
OneJobAtATime == \A c, d \in Callers : InLoop(c) /\ InLoop(d) => c = d

(* The next three hold until an exception leaves parallel_for while a      *)
(* worker still owes its chunk (stray).  From then on none does: that      *)
(* worker calls a function object that is gone, and subtracts its own from *)
(* the remaining_ of the next job, whose submitter then returns too early  *)
(* or waits for ever.  An exception after all workers are done does no     *)
(* harm, neither to its own job nor to later ones.                         *)

(* When parallel_for returns, every index of the loop was computed, by     *)
(* exactly one thread, and nothing beyond the range: the kernel may read   *)
(* its whole output.  Before, no index was computed twice.                 *)
EachIndexOnce ==
  stray = {} =>
    \A c \in Callers : \A x \in Indices :
      /\ done[c][x] <= IF x < total[c] THEN 1 ELSE 0
      /\ cpc[c] \in {"idle", "forward"} /\ x < total[c] => done[c][x] = 1

(* A worker about to call a job calls one whose submitter is still inside  *)
(* parallel_for: the std::function lives in the submitter's frame, and     *)
(* job_fn_ is nulled on return but not by an exception.                    *)
FnAlive ==
  stray = {} =>
    \A w \in Workers : wpc[w] = "run" =>
      \E c \in Callers : InLoop(c) /\ fn[w] = call[c] /\ wtotal[w] = total[c]

(* A posted job is always joined, unless it ends by an exception: no       *)
(* notification is lost between the critical section of the submitter, the *)
(* workers' test and their sleep.                                          *)
EveryJobJoined ==
  \A c \in Callers : cpc[c] = "notify" ~> ~ InLoop(c) \/ stray # {}

(* The destructor's joins return: no worker sleeps through the shutdown.   *)
(* (A worker that an exception left behind may be anywhere by then.)       *)
ShutdownCompletes == dpc = "notify" ~> dpc = "dead" \/ stray # {}
=============================================================================
