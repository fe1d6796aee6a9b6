# Verification of the LLM inference engine

TLA+ models of the concurrent and stateful parts of this repository, TLC runs that
check them on small instances, and TLAPS proofs of what should hold for every size.
Line numbers refer to the sources of the repository.

## 1. Inventory

| Component | State | Operations | Hard behaviour |
|---|---|---|---|
| Paged KV cache (`src/paged_kv.cpp`) | `free_list_`, `pool_` shared by all caches; `block_table_` per cache | `allocate`, `free` (each under `mu_`), `write`, `gather`, `release_all` | caches of several threads allocate and release between each other's critical sections; blocks are recycled without being cleared; the pool runs out in the middle of a batch |
| Contiguous KV cache (`src/kv_cache.cpp`) | one row per (layer, position) | `write`, `gather_layer`, `reset` | none of its own; it is what the paged cache must look like |
| Continuous scheduler (`src/scheduler.cpp` 134-319) | `waiting_`, `prefilling_`, `running_`, `results_`, the `Sequence` objects | `enqueue`, `step` (finalize, admit, prefill, decode), budget setter, `clear_results` | chunked prefill across steps, capacity in the middle of a batch, reordering by `std::partition`, termination, starvation, a pass that throws out of a step |
| Static scheduler (`src/scheduler.cpp` 24-132) | `seqs_`, `results_` | `enqueue`, `run_until_done`, `clear_results` | blocks held until the whole batch is done |
| Thread pool (`src/parallel.cpp`) | `generation_`, `remaining_`, `job_fn_`, `shutdown_`, two condition variables | `parallel_for`, `worker_loop`, destructor | missed, early and spurious wakeups; the job is a reference to the caller's stack, which an exception may leave while workers use it; one pool for all engines |
| Engine calls (`src/engine.cpp` 718-866) | `forward_mu_`, scratch buffers, `CancelToken` | `generate`, `generate_streaming` | the mutex is dropped around callbacks, which may call the engine; cancellation; exceptions |
| SSE server (`python/llmengine/server.py`) | queue, future and token per stream; one-thread executor | `_stream_sse`, `_engine_call` | timer against item, disconnect at any await, failing worker, jobs queued behind others |
| Weight files (`src/weights.cpp`) | `files_` (descriptors and mappings), `tensors_` | `load_safetensors_dir`, `load_one_file`, `apply_tied_lm_head_alias`, destructor | 64-bit arithmetic of bound checks on what a file says; failures between the opening of a descriptor and its owner |
| Model load (`src/model.cpp`, `src/engine.cpp` 81-85) | the converted buffers and the views into them, `model_built_` | `load`, `ensure_model_loaded` | a load that throws midway and is repeated on top of what is there; offsets into packed blobs |
| Kernels (`src/kernels.cpp`, `parallel_for_rows`) | the output, the locals of each thread's loops, a `thread_local` score row | matrix products, norm, attention | loop tails; threads that write one output; a scratch row that outlives the call |
| Config, bindings, tools, vendored JSON | - | - | - |

How they interact: the constructor of the engine maps the weight files; the first call that
needs the model converts them under `forward_mu_`. The server submits `generate_streaming` to its executor thread and
reads the tokens that thread puts into a queue. The engine serializes forward passes on
`forward_mu_`; every kernel of a pass posts jobs to the process-wide thread pool. A
forward pass writes and gathers a KV cache; the schedulers own paged caches over one
`BlockManager`, call the engine token by token or batch by batch, and turn a refused
write into the finish reason `capacity`.

What makes each part correct:

- paged cache: no block has two owners, none is lost, a sequence reads back exactly what
  it wrote;
- schedulers: the answer is the one of `engine.generate`, or a prefix of it with
  `capacity`; nothing is lost, duplicated or left waiting; blocks return to the pool;
- pool: each index of a job is computed exactly once before `parallel_for` returns, and no
  worker uses a job that is over;
- kernels: an output element is the same serial sum however the call is split, and no loop
  leaves its row;
- weight files: a published tensor lies inside the mapping of its shard; a failed
  constructor leaves nothing open (with one exception, section 4);
- model load: no forward pass runs on a model that a failed load left half built;
- engine calls: output is undisturbed by other callers, `on_done` comes exactly once, the
  mutex is held when and only when it must be;
- server: the streamed text is the answer, every response ends, no job is orphaned.

## 2. Modules

| Module | Models | State and actions in terms of the code |
|---|---|---|
| `PoolLayout` | pool addressing | `KPtr`, `VPtr`, `BlkIdx`, `BlkOff`; the unit is one K or V row of a token at a layer |
| `ContiguousKV` | `ContiguousKVCache` | abstract specification: rows per cache, layer, position; a write changes one row, a reset clears |
| `PagedKV` | `BlockManager`, `PagedKVCache`, the per-layer loop that drives them | one process per cache; `Allocate`/`Exhausted`/`PushBack`/`InPlace`/`Store` are the pieces of `write()` between which other threads run, `Gather` the read back, `FreeBlock` one `free()` of `release_all()`, `ClearTable` its end |
| `Counting` | - | cardinalities that stand for sums and ranks: the blocks held by a set of sequences, the place of a survivor of `std::partition` |
| `SequenceBase` | what both schedulers share | the `Sequence` record, block counting, greedy sampling, finish reasons, results |
| `Serving` | what a scheduler promises its caller | abstract specification: requests accepted, pending and answered with `generate`'s answer, or with `capacity` and its first tokens; both schedulers implement it |
| `ContinuousBatch` | `ContinuousBatchScheduler`, row control of `forward_decode_batch` | `pc` is the phase of `step()`; one action per token, row or list operation; `Throw` is a forward pass that leaves `step()` by an exception |
| `StaticBatch` | `StaticBatchScheduler` | `pc` is the phase of `run_until_done()` |
| `Chunks` | `chunk_bounds` | `ChunkLo`, `ChunkHi` |
| `Kernels` | the loops over rows, terms and heads of every kernel that forks, and of the norm | `at[t]` holds the locals of thread t's loops; a sum is the sequence of its terms with the lane that took each; `scores` is the `thread_local` row |
| `ThreadPool` | the pool, its callers and `forward_mu_` of each engine | critical sections are single steps; `WaitStart`/`WaitDone` enter a condition variable, `WakeWorkers`/`Spurious*` leave it; `ThrowOwn` is a kernel's exception in the caller's chunk, `stray` remembers the jobs it left to their workers |
| `EngineCalls` | `generate`, `generate_streaming` | `pc` per thread: lock, setup, prefill, forward, loop, token, relock, finish, onDone, and a nested `generate` |
| `WeightFiles` | `WeightMap` | `scan` is where `load_one_file` is; what the file holds is chosen as it is read; `fds` and `maps` are the descriptors and mappings of the process, `lost` those that a failed `push_back` left to nobody |
| `ModelLoad` | `ensure_model_loaded`, `ModelWeightsRef::load`, the engine's constructor and destructor (extends `WeightFiles`) | `Program` is `load()` from top to bottom, `at` the place in it; elements are named by tensor, row and column |
| `SseBridge` | `_stream_sse`, `_engine_call`, the executor | `task` is the coroutine, `job` the call on the executor's thread, `worker` its asyncio future |
| `*_proofs` | - | the theorems of section 5 |
| `MC*` | - | values of the constants for TLC, and the claims that the code refutes |

Operators whose comment starts with "Plausible bug" are not part of a model: they are
variants of the definition below them that a run must reject (`mutants` in
`PROJECT.json`), which shows that each property depends on the code.

Abstractions:

- Numbers are left out. In `PagedKV` a vector is a model value; in the schedulers and
  `EngineCalls` the logits after n tokens of a sequence are a tag (sequence, n), a sampled
  token is the tag it came from, and a pass at a wrong position or with foreign scratch
  buffers yields `Garbage`. Greedy decoding sees nothing else.
- The schedulers count blocks instead of naming them, and take a forward pass of all
  layers as one step. `PagedKV` justifies both: blocks have one owner, and a write can be
  refused only at layer 0.
- `gather`'s copy loop is one step in `PagedKV`, because nobody else can change the rows
  it reads; that is what the refinement shows.
- Mutexes are the program counters of their users, or a variable with the owner. A
  condition variable is the set of threads asleep on it.
- A file is sound except for at most `MaxOdd` deviations, so that every check meets what it
  is there for, alone and after each prefix of sound entries. `Word` stands for 2^64 and
  `MaxString` for the longest `std::string`; the checks only need that `MaxString + 8 < Word`
  and that a real file is shorter than half a word (`off_t` is signed).
- In `ModelLoad` a conversion writes names, not numbers: what a kernel reads must be the
  name of the element it takes it for. A buffer that was resized for a step that failed is
  not shown.
- In `Kernels` equal sequences of (term, lane) are the same additions in the same order, so
  bit-for-bit equality is equality of sequences.
- In `ThreadPool` a forward pass is a sequence of jobs under the mutex of an engine.
- The Python GIL is released before any engine mutex is taken and acquired only in
  callbacks, where none is held; it adds no wait and is not modelled.
- `SseBridge` keeps of the tokenizer only after which tokens the text ends inside a
  character, and of the web framework that it may cancel a response's task after a
  disconnect, once or twice. An exception that escapes before `on_done` is allowed, because
  the polling loop guards against it, although the catch blocks of
  `generate_streaming` leave little room for one.

## 3. Runs

| Run | Instance | Shows |
|---|---|---|
| `paged_kv` | 2 caches, 2 blocks of 2 positions, 1 layer, sequences of up to 3 tokens, two tokens with different rows | exclusive blocks, none lost, lazy allocation, refinement of `ContiguousKV` |
| `continuous` | up to 4 requests of 6 kinds, 3 at once, 5 blocks of 2, budgets 1 and 3 changed between steps, one forward pass that throws anywhere | implements `Serving`: results equal `generate`, exactly once; blocks conserved, history contiguous, the sizing rule |
| `continuous_live` | endless requests of 2 kinds, 2 at once, 3 blocks, one pass that throws | every accepted request is answered |
| `continuous_starvation` | endless requests of 2 kinds, 3 at once, budget 1 | finding 1 |
| `static` | 3 requests of 6 kinds, 4 blocks of 2, several batches | implements `Serving` with the answers in order; batches that fit are served, the run ends |
| `thread_pool` | 3 threads, 2 callers of one engine, 3 jobs of sizes 2 and 4, exceptions in the caller's chunk | one job at a time; each index once, job function alive while used, joins and shutdown end, unless an exception leaves workers behind |
| `engine_calls` | 2 threads, 2 calls out of 7 kinds, nested calls from both callbacks, cancellation and exceptions anywhere | undisturbed output, lock discipline, one `on_done`, cancellation, termination |
| `kernels` | 3 threads, 12 calls: products, norms and attention, forked and serial, one after the other in any order | serial sums, one writer per row, independent heads |
| `load` | 2 shards, 2 layers, one deviation, one failed allocation of the load and one of `files_`, 2 threads, 3 storage modes, tied and untied | reads inside mappings, nothing leaks but the shard `files_` cannot take, no forward pass on a partial model |
| `sse` | 2 clients, the first with one of 2 streams, the second with a plain request or, beside the shorter stream, an empty one | faithful text, no orphaned job, a noticed disconnect, every response ends |
| `thread_pool_two_engines` | as `thread_pool`, with an engine per caller | finding 2 |
| `sse_net` | 1 client | finding 3 |

Why the bounds suffice. `paged_kv`: two sequences need 2 blocks each and 2 exist, so
allocation, exhaustion, release and reuse of the other's blocks interleave in every order;
positions 0 to 2 cross a block boundary and use both offsets. Several layers are covered by
the proofs, which hold for any number. `continuous`: prompts of 1 to 3 against a budget
of 1 are chunked, a budget of 3 prefills several sequences in one step; 3 running
sequences can have a refused row before a served one and give `std::partition` something
to reorder; the kinds contain max_new 0 and 1, EOS as the first and a later token, and a
request that enqueue rejects. The constraint `LastDecodes` cuts the behaviours whose fourth
request is not the one that decodes longest: three requests of every kind already meet in any order, and
the fourth is there to decode beside them. `continuous_live` and `continuous_starvation` run
under `EndlessSpec`: an answered request whose result was cleared gives its number to a new
one, so that arrivals never end; numbers are never compared by the code, except for sorting
a copy of the results. `thread_pool`: 2 is fewer indices than threads and 4 is no
multiple of 3; three jobs let a worker be one whole job late, and an exception in one of them
be followed by others. `engine_calls`: one call may
be at any point of its own when the other runs a forward pass.
`sse`: one job runs while the other waits for the thread; the second request of a pair
(`MCInit`) is no longer than taking its turn needs.
`kernels`: the lengths 23, 22, 21, 16, 4, 3 and 2 enter and miss each of the three loops; with
the threshold at 16, five rows do not divide by three threads and two are fewer than them; a
score row meets a longer and a shorter history than the one before. `load`: header lengths
past the file, inside it and wrapping; dimensions negative, zero, and with a product that
wraps (43 * 3 modulo 128); byte ranges past the data section but inside the file; both shards
hold an embedding, so that the first is kept and a tied model aliases it; `q` is not square.
All bounds are constants (`MaxSeqs`, `MaxCalls`, `MaxJobs`, `MaxStray`, `MaxSeqLen`,
`MaxFaults`, `MaxOdd`, `MaxLost`).

No run switches deadlock checking off: for a bounded behaviour that is over the modules have an
explicit step (`Quiescent`, `Dead` for the pool after its destructor), enabled only when everything has ended as it should.

Fairness. The schedulers: weak fairness of the actions inside `step()` or
`run_until_done()`, because `run_until_idle` and the driver's loop call on until idle;
enqueuing is never fair. A step that throws is a step, and the driver calls the next. `ThreadPool`, `EngineCalls`: weak fairness of each thread's step, as
an operating system gives; a mutex that stays free is eventually acquired, and because a
behaviour has finitely many calls weak fairness is enough (nobody is passed over for ever).
Exceptions and nested calls are choices inside a fair step, cancellation is not fair;
spurious wakeups are not needed for progress.
`SseBridge`: the loop runs ready tasks, timers fire, the executor's thread computes;
no client is obliged to arrive, stay or leave.

## 4. Findings

1. `scheduler.hpp:87-90` says that each step advances every PREFILLING sequence by at most the
   budget. `advance_prefilling` spends the budget from the front of `prefilling_`, and
   `std::partition` puts the newest survivor into the place of a finished sequence. With three
   sequences at once, a budget of one and short requests (which end in `prefilling_`) that keep coming, the long
   prompt behind them gets no token for ever. With two at once
   (`continuous_live`) it does not happen: a finished sequence in front leaves its place to the one behind it.
2. `parallel.cpp:33` and `parallel.hpp:6` say that one caller at a time drives the pool, by
   `forward_mu_`. That mutex belongs to one engine, the pool to the process.
3. `server.py:245` says a worker cannot end cleanly without DONE having been seen, "shouldn't
   happen". When the 100 ms timer fires while the last items arrive, the branch is taken with
   items still in the queue; the reason sent is `stop`, whatever the engine's was.

Divergences too small for a run: `tests/test_scheduler.py:286` expects the second of two
sequences to end with `capacity`, with its parameters it is the first (the assertion does not
tell); `paged_kv.hpp:66` says `release_all()` runs on terminal transitions, the static
scheduler runs it after the last sequence of the batch.

Two error paths do less than a comment says of the code. No run refutes the comment: the
models take the path, and the properties say what holds beside it.

- `parallel.hpp:27` says that `pool_parallel_for` blocks until all chunks complete,
  `parallel.cpp:33` that a job blocks until the previous one has drained. If the kernel throws in the
  caller's own chunk (`parallel.cpp:67`; attention grows a score row, `kernels.cpp:436`, and
  `engine.cpp:794` counts on kernel exceptions), `parallel_for` unwinds without the wait at line
  70. Workers that have not finished, or not even started, call a function object that is gone,
  and `job_fn_` and `remaining_` stay for the next job. `FnAlive`, `EachIndexOnce` and
  `EveryJobJoined` therefore end with `stray = {}`. Without that condition TLC refutes all three:
  `FnAlive` after a post, a throw and a worker that takes the job late; `EachIndexOnce` because
  the straggler counts down the `remaining_` of the next job, which returns before its own worker
  is done; `EveryJobJoined` because `remaining_` gets negative, and a submitter waits for ever.
  A throw after the last worker is harmless, and the properties say so.
- `weights.hpp:13` calls `WeightMap` the owner of its mappings. Between `mmap` and the ownership
  `files_.push_back` allocates (`weights.cpp:168`); if it throws, the descriptor and the mapping
  of that shard are nobody's. `NothingElseLeaks` counts them in `lost`.

Last, `engine.hpp:89` lists `stop`, `length` and `cancelled` as
arguments of `on_done`; `engine.cpp:805` and the catch blocks also pass `error`, for which
`server.py:70` has a mapping.

## 5. Proofs

All proofs are checked by TLAPS for every value of the constants, under the named
assumptions only:

- `DimsAssumption`, `CacheAssumption`: the pool's dimensions are positive; the fill vector is a
  vector and projections are pairs of vectors.
- `PoolAssumption`, `KnobAssumption`, `RequestAssumption` of the schedulers: a pool, a
  concurrency and budgets of at least 1; requests are records of numbers.
- `ThreadsAssumption`, `PoolAssumption` of `ThreadPool`: a positive number of threads; each
  caller has an engine, there is a longest loop, and the bounds are numbers.
- `JobsAssumption`: dimensions are positive and query heads come in whole groups.
- `CallsAssumption`, `RequestsAssumption`: what a request of the engine or the server holds.
- `WordAssumption`, `TensorAssumption`: there is a shard, sizes of files fit a signed word and
  their headers give no more than a word, whatever that word is; sound entries have a known type.
- `ShapeAssumption`: the model's dimensions are positive and its tensors have different names.

`IInv` (`PoolIInv` for the pool) is the inductive invariant of a module. It was checked by TLC
before it was proved, on the instances of section 3: for the continuous scheduler in 227,336
states, for the static one in 11,807, for the bridge in 178,310, for the load in 571,329, for
the pool in 312,710.

- `SequenceBase_proofs`: the lemmas both schedulers rest on. About `Counting`: a sum over a finite
  set as the cardinality of pairs (`Total`), with one summand changed, moved or bounded; the k-th
  smallest member of a set (`Nth`), by which `std::partition` is described; lists cut at an
  element. About the operators of `SequenceBase`: what a sequence holds in each state
  (`Objects`: blocks for `kvLen` rows, the first tokens of `generate`'s answer, a reason that
  fits them, no more rows than its request writes) survives a write, a sampled token and a
  retirement; free and held blocks are the pool (`Accounted`); whoever is refused a block belongs
  to a group that needs more than the pool (`RefusalNeedsMore`: a block more than is free is
  wanted, and each of the other holders has no more than its request needs); a finished sequence
  holds an answer of `Serving` (`AnswersAsGenerate`), and retiring a list of them is answering
  them at once (`RetireAnswers`).
- `PagedKV_proofs`:
  - `RowsInPool`, `RowsDisjoint`. Addresses are positions in mixed radix (block, half and
    layer, offset); the lemmas bound one digit at a time, and equal addresses have equal digits.
  - `LazyAllocation`, `PagedTypes`: typing, `ControlOK` (where `pc`, `layer`, `relIdx` can be
    together) and `AllocationIsLazy` are inductive together. Typing alone is not: `Store`
    indexes the block table, which is long enough only because allocation is lazy.
  - `BlockOwnership`, `NoBlockIsLost`: during `release_all` freed ids still stand in the table,
    so ownership counts the entries from `relIdx` on, and an allocated id that is not yet pushed
    has an owner too.
  - `PagingIsInvisible`: the specification implements `ContiguousKV` under the mapping
    `RowsOf`. Under `IInv` a `Store` maps to a `Write` of one row, because `RowsDisjoint`
    keeps every other written row of every cache unchanged, `ClearTable`/`BeginRelease` to a
    reset or a stutter, and everything else to a stutter.
- `ContinuousBatch_proofs`: `TypeCorrect`, `BlocksAreConserved`, `HistoryIsContiguous`,
  `HoldersAreBounded`, `SchedulerImplementsServing`, with `IInv` of these parts:
  - `Queues`: no queue repeats an id and each sequence is in the queue of its state, so that a
    loop over a queue meets a sequence once, and the two queues of block holders together are
    no longer than `MaxConcurrent`.
  - `Phases`: how far a phase of `step()` has come. Sequences the loop has not reached yet still
    have the state of their queue, so prefill and decode never run one that is finished.
  - `Objects`, `Accounted`: as above.
  - `Positions`, `RowsMatch`: the cache ends where the next pass writes (or one further after a
    pass that threw), except for the sequences this step has written and not yet sampled, whose
    row of logits is theirs. Without this a resumed decode would not sample `generate`'s token.
  - `Refusals => ~ PoolFitsAny`: a refused block is a proof that the requests of the holders do
    not fit together, by `RefusalNeedsMore`.

  Under `IInv` an `Enqueue` that is not rejected maps to accepting a request, the moving of
  a finished sequence to `results_` to its answer, `ClearResults` to clearing, all else to a
  stutter; the answer is right by `Objects`.
- `StaticBatch_proofs`: `TypeCorrect`, `BatchThatFitsIsServed`, `SchedulerImplementsServing`,
  with `IInv` of these parts:
  - `Batch`: `seqs_` is every request not answered yet, the oldest first, without a gap. This is
    what makes the answers of the drain come in order, none of them late.
  - `Phases`: before the place of the prefill loop every sequence is running or finished, behind
    it untouched, and at it the cache, the prompt and the shared logits agree on `i`. In the
    lockstep `any_running` is false only while everything before the place of the loop is
    finished, so that the drain meets finished sequences alone.
  - `Positions`: the cache of a running sequence lacks exactly its last token.
  - `Objects`, `Accounted`, and `Served`: a refusal means that the batch needs more than the pool.
    `FitsIsServed` is its contraposition; it holds across batches because answered sequences hold
    nothing.

  `Drain` maps to one answer to the whole batch, `Enqueue` and `ClearResults` to their
  counterparts, all else to a stutter.
- `Parallel_proofs`, for `ThreadPool`: `ChunksPartition` (each index is in the chunk of exactly one thread), and
  `PoolTypes`, `OneJobHolds`, `EachIndexOnceHolds`, `FnAliveHolds`, each
  assuming `SameEngine`, that all callers use one engine: with two engines the second is false
  (finding 2). The invariant needs a notion the code has no variable for: a worker *owes* its
  chunk from the post of a job until its decrement, whether it has taken the job yet or not.
  `remaining` is the number of workers that owe (`Counted`), none owes when no loop runs
  (`NoneOwes`), one that has taken a job has the posted one (`OnJob`), and an index was
  computed so far if the thread of its chunk has run (`DoneSoFar`); together they are `PoolInv`.
  `PostJob` finds nobody owing,
  because `forward_mu_` admits one caller; `Join` finds nobody owing, because `remaining` is 0;
  `ChunksPartition` then turns "all threads have run" into "each index once". An exception of
  the caller (`ThrowInv`) finds nobody owing if `remaining` is 0; otherwise it puts the job into
  `stray`, and `PoolInv` ends: `PoolIInv` has it under the condition `stray = {}`, next to the types and
  the mutex (`StaysSerialized`), which hold for ever. `EachIndexOnceHolds` and `FnAliveHolds` carry
  the same condition, `OneJobHolds` does not.
- `EngineCalls_proofs`: all five invariants of `EngineCalls`. `IInv` adds to `TypeOK` and
  `LockDiscipline` that the scratch buffers are the caller's own during a forward pass
  (`ScratchOwned`), and what each call knows by where it is (`CallOK`): how many tokens it has
  handed out against `generated`, that the logits are those after all cached positions when
  they are sampled, that a reason is set exactly from `finish` on. A `generate` nested in a
  callback counts as being where the callback returns to (`Place`). `Moves` says that a step
  touches one call, the mutex only if free or its own, and the scratch buffers only under the
  mutex; `OneCall` concludes for all other calls, so that each operation is proved for its own
  call alone.
- `Parallel_proofs`, for `Kernels`: `KernelsTypes`, `RowsHaveOneWriter`, `SumsAreSerial`, `HeadsStayApart`. The
  invariant says of every thread that the sum in progress is the prefix of its row's terms in
  lane order, and that its place is a multiple of 16 (or 4) as long as the wide (or narrow) loop
  has not ended; without that alignment the lane of the next term does not follow. Of an
  attention head it says that the `thread_local` row holds this head's scores up to where the
  first loop has come, whatever an earlier call left there, and that the weighted sum ran over
  its own prefix. It says of every element
  behind a thread's place that it is stored, and of rows that `ChunksPartition` gives
  each of them to one thread, so that nobody else disturbs it. `Return` is enabled when every
  thread is at the end of its chunk, hence every element is stored.
- `ModelLoad_proofs`: `LoadTypes`, `TensorsStayInMappings`, `NothingElseLeaksHolds`,
  `ForwardSeesWhole`. The sizes are sums and products over sequences of dimensions; that the
  functions which define them exist is shown with least counterexamples (`Least`, `Carries`),
  as a schema of induction cannot be used. `IInv` is:
  - `FilesInv`. `SizeExact` says that what `expected_bytes` lets through is the exact product:
    each `Overflows` test excludes a wrap before the multiplication that would make it. An entry
    that passed every check then lies, header included, in its mapping (`Published`). The map
    owns the shards before the one in hand, and that one once `files_` has taken it
    (`OwnsScanned`); a shard is open, or mapped, once for the map, once for the hand of
    `load_one_file` and once for every time it was lost (`OpenAndMapped`). `DestroyInv` covers
    the exceptions with nothing in hand, `MapFailsInv` that of a failed mapping, where the code closes by
    hand what the map does not own yet, and `OwnFailsInv` that of `push_back`, where it does not;
    none of it depends on what a file says.
  - `Calls`: one thread is in the load, under `forward_mu_`, and `model_built_` is set only when
    `at` is behind the last step.
  - `Partial`: at every place of `load()` the buffers hold what the steps before it read,
    whatever a failed load has left behind them. The offsets of a layer's matrices grow by their
    areas, so that a later matrix of the blob leaves the earlier ones alone (`WrittenReads`,
    `WrittenKeeps`). At the last step this is `ForwardSeesWholeModel`.
- `SseBridge_proofs`: `BridgeTypes`, `StreamsAreFaithful`, `NoOrphans`, `DisconnectsAreNoticed`.
  `IInv` says where the job of each request is (`Pooled`: in the queue of the executor once, or
  on its one thread), and for each client: which future belongs to a job in which state
  (`Futures`), where the coroutine is when (`Phases`), that buffer, queue and sent chunks
  together are the tokens the job has made, in order, and the closing item if it is made
  (`Sent`, `Carried`), that a closed stream has read this item or was torn down (`Finished`), and
  that a cancelled token belongs to a client that left (`Noticed`). Events pass between threads
  only at the queue, so a step of the worker appends to `Carried` what a step of the coroutine
  takes off.

Every invariant and every safety property that a passing run checks is a theorem. Only
model-checked are the liveness properties (`EveryRequestAnswered`, `RunEnds`, `EveryJobJoined`,
`ShutdownCompletes`, `EveryCallReturns`, `EveryResponseEnds`), because fairness is outside the
prover. The prover offers no scheme of induction over
data and none of its backends supports recursive operators, so modules with proofs, and those
they extend, declare none; recursive functions take their place.

## 6. Not modelled

- The values of floating-point numbers, with silu, the RoPE tables and rotation, the
  embedding lookup, the fp16 rounding of cache rows and the quantization of weights.
- JSON parsing and `load_config` (vendored parser, plain defaults); request validation and
  response formatting of the server; argument conversion in the bindings; tools.
- Move operations of `PagedKVCache` and `WeightMap`, which nothing calls on live objects.
- The debug accessors (`engine.hpp:72`), which load the model without the mutex, and the
  reference counts that the bindings change without the GIL (`bindings.cpp:246`): data races
  without outcomes to enumerate.
- A static run left by an exception and started again (`scheduler.cpp:54`).
- An exception in a worker's chunk (`parallel.cpp:91`): nothing catches it, `std::terminate` ends
  the process, and the behaviour stops there. What follows the call of a function object that is gone is
  undefined; the model lets it count for nobody and claims nothing but types and the mutex.
- `ensure_scratch_loaded` (`engine.cpp:87-103`) looks at `h_` alone. If a later `resize` throws, the
  buffers behind it stay empty for every later call, whose forward passes write past them.
  `EngineCalls` throws in `Setup`, but its next call finds the buffers in order.
- Callbacks that throw. An `on_done` that throws inside the `try` (`engine.cpp:805`, `814`, `826`,
  `856`) would be called again by the catch blocks (`862`, `864`), and `DoneExactlyOnce` be false; the
  callbacks of the bindings swallow Python errors (`bindings.cpp:238`, `243`), and nothing else
  in the repository passes any.
- Application shutdown of the server: the order in which the web server cancels is not in
  this repository.
- `forward_logits` has the locking of `generate` and adds no behaviour.

## 7. Plan

Done: all modules of section 2, their runs, and the proofs of section 5, which cover every
safety property of the runs. Left: the static scheduler after an exception (whether the class may
be used again then, no document says), and the shutdown of the server.
