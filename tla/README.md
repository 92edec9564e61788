# TLA+ models of the llama.cpp fork in this repository

The repository is a fork of llama.cpp (the top-level README presents it as
"Geeked.Out Quantizer"; the Electron application and the scripts it describes are
not part of the repository). Its own logic is C++: an inference library
(`src/`, `ggml/`), support code (`common/`) and programs (`tools/`), of which the
HTTP server is by far the one with the most concurrency and the longest-lived
state. The models cover the server's queues, slots and router, and of the library below
it what is shared between threads (the threadpool, the log) or planned ahead (the KV cache, the memory of a graph).

Paths below are relative to the repository root.

## 1. Inventory

| component | state it keeps | operations | how it interacts | what is hard |
|---|---|---|---|---|
| task queues (`tools/server/server-queue.*`) | `queue_tasks`, `queue_tasks_deferred`, `running`, `sleeping`, `req_stop_sleeping`, `time_last_task` under one mutex and one condition variable | `post`, `defer`, `pop_deferred_task`, `wait_until_no_sleep`, `start_loop`, `terminate` | HTTP threads post, the main thread takes; callbacks into the slots | cancellations against tasks in flight, deferral, sleep and wake-up |
| result queue and readers (same files) | `waiting_task_ids`, `queue_results`, `received_count` | `add_waiting_task_ids`, `send`, `recv_with_timeout`, `next`, `stop` | one reader per HTTP request | late results, disconnecting clients |
| slots (`tools/server/server-context.cpp`) | state of each slot, its task, its prompt, the batch | `process_single_task`, `launch_slot_with_task`, `update_slots`, `release` | main thread only; results go out through the result queue | groups of slots (`n_cmpl > 1`), errors halfway, retries of a decode |
| prompt cache and checkpoints (`server-task.cpp`, `server-context.cpp`) | saved prompt states, within byte and token limits | save, load, evict | called when a slot is launched | limits, prefixes of each other |
| router (`tools/server/server-models.*`) | `mapping`, `stopping_models`, `is_reloading`; a child process and two threads per loaded model | `load`, `unload`, `unload_lru`, `load_models`, `unload_all`, proxying | HTTP threads, managing and stopping threads, child processes through pipes | races of load, unload, eviction, reload and the child's own exit |
| HTTP layer, chat conversion, built-in tools (`server-http.cpp`, `server-chat.cpp`, `server-common.cpp`, `server-tools.cpp`) | connections | parse, format, stream | above the queues | formats, no shared state of their own |
| CPU threadpool (`ggml/src/ggml-cpu/ggml-cpu.c`) | `n_graph`, barrier counters, `pause`, `stop`, `abort` | kick-off, polling, sleep, pause, resume, barrier, free | main thread against workers | memory-order-level hand-over of a graph |
| graph allocator (`ggml/src/ggml-alloc.c`) | free blocks, views, reference counts | alloc, free, reserve | sequential | overlap, coalescing |
| backend scheduler, GPU and RPC backends | splits, copies, events | graph split, async copies | devices outside the repository | device semantics |
| KV cache (`src/llama-kv-cells.h`, `llama-kv-cache.cpp`), recurrent memory | cells, sequence sets, used set, per-sequence position index, shifts | `seq_rm/cp/keep/add/div`, `find_slot`, `apply_ubatch`, `prepare` | one context, sequential | redundant indices that must agree after every call |
| batch splitting (`src/llama-batch.cpp`) | remaining tokens | `split_simple/equal/seq` | sequential | each token exactly once |
| quantization (`src/llama-quant.cpp`) | counters of the type decision, chunk counter | choose types, quantize in threads | work threads share a counter | decision table over data |
| reasoning budget (`common/reasoning-budget.cpp`), sampling, speculative drafts | small automata over tokens | `accept`, `apply`, `reset` | per slot | partial matches |
| asynchronous log (`common/log.cpp`) | ring of entries, head, tail, worker | `add`, `pause`, `resume`, `worker_stop` | every thread against one worker | growth of the ring, pause with entries queued |
| downloads (`common/download.cpp`) | partial files, etags | download with resume and retries | network | interrupted transfers |
| model files, loaders, vocabularies, grammars, graphs (`src/`, `gguf.cpp`) | large immutable data | construction | sequential | data formats |
| command-line tools, `app/llama.cpp`, `tools/ui`, examples, Python scripts | none that lives long | drivers | call the library | - |

`PROJECT.json` lists every component with what is or is not modelled, and under
"hazards" what a test would hardly reach, at its line.

### How the server's parts interact

An HTTP thread parses a request, waits until the server does not sleep
(`wait_until_no_sleep`), tokenizes, declares the ids it waits for
(`add_waiting_task_ids`) and posts its tasks (`post`). The main thread runs
`start_loop`: it takes every queued task (`process_single_task`: launch on a slot,
defer, answer, cancel), then calls `update_slots`, which advances all busy slots by one
batch, sends partial and final results, and releases slots; each release moves one
deferred task back to the queue. When nothing is queued the main thread waits, and
after an idle time it unloads the model and sleeps. Readers poll their results and, when
the client leaves, post CANCEL tasks in front of the queue. In router mode the process
has no slots: each model is a child server; the router keeps the mapping and talks to
each child over stdin (the exit command) and stdout (its state).

## 2. Modules

| module | models | checked by | proved in |
|---|---|---|---|
| `QueueOps` | what the queues do to their sequences: erase by id, erase at a position, iterate an unordered set | through the two below | `QueueOps_proofs` |
| `ServerSleep` | the sleep protocol: one mutex, one condition variable, main thread and HTTP threads | `MCServerSleep` | `ServerSleep_proofs` |
| `ServerTasks` | queues, readers, slots and their scheduling | `MCServerTasks` | `ServerTasks_proofs` |
| `ServerChain` | the chain of deferred tasks: `ServerTasks` with two history variables | `MCServerChain` | |
| `ServerRouter` | the router: mapping, instances, their threads and children | `MCServerRouter` | `ServerRouter_proofs` |
| `ParallelGraph` | abstract: what `ggml_graph_compute` promises its caller | as the property `ComputesInLockstep` | |
| `Threadpool` | the threadpool of the CPU backend and its spin barrier | `MCThreadpool` | `Threadpool_proofs` |
| `LogFifo` | abstract: what the log promises | as the property `NothingLostOrMoved` | |
| `LogRing` | the asynchronous log: ring, worker, pause and resume | `LogRing` | `LogRing_proofs` |
| `KvCells` | the cells of the KV cache with their two indices, one operator per method | through `KvCache` | `KvCache_proofs` |
| `KvCache` | the KV cache as `llama_decode` and `llama_memory_*` drive it | `MCKvCache` | `KvCache_proofs` |
| `DynTallocr` | the free blocks of the graph allocator's chunks | through `GraphAlloc` | `GraphAlloc_proofs` |
| `GraphAlloc` | the graph allocator: plan, buffer, reuse of a plan | `MCGraphAlloc` | `GraphAlloc_proofs` |

The four parts (server, threadpool, log, memory of the library) share no state in the
code beyond calls that are atomic to the caller, so they are not composed. Inside a part,
`KvCache` is built on `KvCells`, and `GraphAlloc` on `DynTallocr`; `Threadpool` and
`LogRing` implement an abstract specification under a refinement mapping.

### ServerSleep

*State.* The fields of `server_queue` (`running`, `sleeping`, `reqStopSleeping`,
`queue`), `idle` for the comparison of `time_last_task` with `idle_sleep_ms`, the wait
set of the condition variable, the program counters of the main thread (`mainPc`) and of
the HTTP threads (`pc`), and the requests on slots and answered.

*Actions.* A critical section is one action. `notify_one` removes any one thread from
the wait set (`NotifyOne`), `notify_all` empties it; a thread out of the wait set that has not yet
run is notified but does not hold the mutex. This distinction is what the module is
about: `WaiterResumes` re-evaluates the predicate later than the notification, when
the main thread may already sleep again. `MainTake`, `MainHandle`, `MainUpdate`, `MainCheck`,
`MainDoze`, `MainAsleep` are the parts of `start_loop`; `IdleElapses` and
`MainDozeTimeout` are time; `SpuriousWakeup` is what the C++ standard allows.

*Abstracted.* What a task does. A launched request holds a slot until some update ends it.
There are as many slots as requests, so nothing is deferred here.

### ServerTasks

*State.* `queue`, `deferred` and `current` (the task start_loop has taken but not
placed), one record of state per slot (`slot`, `stage`, `tokens`), `todo` and `freed`
for the position inside an update pass, and per reader its ids in `waiting`, its part of
`queue_results` (`inbox`), `got` and `pc`. Three auxiliary variables (`answered`,
`taken`, `failed`) record the past for the properties and guard nothing.

*Actions.* Slots belong to the main thread, so the steps of an update pass are split
only where a reader can observe them: at every access to a queue. `Take`; one action per
way to handle a task (`Launch`, `LaunchFailure`, `Defer`, `AnswerAtOnce`, `HandleCancel`,
`HandleNext`); `BeginUpdate` posts NEXT_RESPONSE, then the busy slots are visited in
order (`Quiet`, `Stream`, `Finish`, `SlotError`) or all fail (`DecodeFails`,
`FailSlot`); `Abort` is `GGML_ABORT` on batches that stay empty; `Release` is
`server_slot::release` with its callback `pop_deferred_task`. A reader goes through
`Register`, `PostTasks`, `Receive`/`Leave`, `StopWaiting`, `PostCancels`.

*ServerChain* adds what is needed to say when a request may wait for ever: `moved`, the tasks
that a release has put back into the queue, and `broken`, set when one of them ends
without taking a slot (its launch failed, it was erased, it is a task that needs no slot) and reset when no task is deferred any more.

*Abstracted.* The contents of prompts and batches; which free slot is chosen is left open
(`Placements`). The table of tasks a request posts is constant (`Parent`, `Kind`,
`Want`, `Batch`), because it is fixed when the request is parsed.

### ServerRouter

*State.* Per model name: whether the mapping has an entry (`entry`; "phantom" is the
empty entry that `mapping[name]` creates), `status`, `failed` (exit code), whether the
instance still holds its managing thread (`joinable`); `stopping`, `reloading`; the child
process with its exit code, unread output lines and received exit command; where
the managing thread and the stopping thread of each instance are; what each HTTP
thread is doing (`call`); `router`, which ends as "crashed" or "killed".

*Actions.* One per critical section of the mutex. `cv` waits are guards: their
predicates read only what the mutex protects, and every change is followed by
`notify_all`. The wait on `cv_stop` also reads whether the child is alive, which nobody
announces, so `NotifyStop` is explicit there: a stopping thread re-evaluates its
predicate only when told. `subprocess_alive` and `subprocess_join` reap the child (`AskAlive`, `Reap`), and a
kill after that signals process 0 (`Kill`).

*Errors.* A reload ends with `EndReload`, or with `ReloadThrows`: `add_model` throws on a name or alias
that conflicts with a listed one, after some of the new models have been added. The exception leaves
`is_reloading` set, and `ex_wrapper` answers the request (`AnswerError`). The first load may throw too, before any flag is set.

*Abstracted.* Presets, aliases (a conflict may always happen), ports, timestamps (the choice of the least recently used
instance is any running one) and the proxied bytes. Spurious wake-ups of `cv_stop` are left out.

### Threadpool and ParallelGraph

*State.* The fields of `ggml_threadpool`: the graph, `nGraph` (the count and the number of threads
that the code packs into one integer), `nBarrier` and `nBarrierPassed`, `stop`, `pause`,
`abort`, the wait set of `cond`; and per thread its place (`pc`) and its local variables
`node`, `last` (`last_graph`), `seen` (`n_passed`) and `final`. `roundStart` is history: the
node after the latest barrier.

*Actions.* Thread 0 belongs to the caller: `Compute`, `KickStore`, `KickWake` (the kick-off, in
the order of its stores), `SetPause`, `FreeStore`, `FreeWake`, `Join`. A worker goes
through its polling, `pause` and sleeping loops; each read outside the mutex is a step of its own.
Every thread of a graph goes through `Begin`, `Node`, `Op` and the barrier, which takes four
steps: read the number of passes, arrive, and for the last one reset the counter and release the
others. Memory is sequentially consistent.

*Abstracted.* A node is skipped, computed, or fused with its successor; what it
computes, `current_chunk` (work claimed inside one computation), affinities and priorities
are left out, and so is the build with OpenMP, whose barrier belongs to the compiler.

*ParallelGraph* says that a team of threads carries out the computations of a graph in
lockstep, and that the call returns when each has done all of them, or all have stopped
after the same one. The mapping counts the computations a thread has behind it
(`Behind`) and takes the node marked by an abort for the limit (`Limit`).

### LogRing and LogFifo

*State.* `entries`, `head`, `tail`, `running`, `file` of `common_log`; the worker's copy
`cur` and its place; where the controller is, the one thread that pauses, resumes, flushes or
changes the log. `accepted`, `shown`, `written` are history; so is the `file` field of an entry.

*Actions.* `Add` doubles a full ring (`Grow`). `Take`, `Show` and `Write` are the worker, which
takes the entry under the mutex and prints it, and then writes it, without. `Pause` pushes the
end entry, `Join` waits for the worker; `SwapFile` and `Resume` follow. The condition variable has one
waiter and each change of its predicate is notified, so the wait is a guard.

*Abstracted.* Formatting, and the filter of debug entries by verbosity when an entry is printed to
the terminal (`log.cpp:80-83`): every message stands for one that is printed. No property depends on it.

*LogFifo* is a queue whose messages are shown on the console and then written to the file
the log had when it accepted them; closing, a change of the file and reopening need it drained.
The mapping reads the queue off the ring, with the worker's copy in front.

### KvCells and KvCache

*State.* `KvCells` has no variables: a record with `pos`, `shift`, `seq`, `used`, `seq_pos`,
`has_shift` stands for a `llama_kv_cells`, and each method on one cell is an operator on it. `KvCache`
has one such record and one head per stream, the K data as the position each cell is
rotated for (`kv`), the copies between streams that wait (`sc_info`) and the ubatches left of the
batch being decoded (`batch`).

*Actions.* One per call of `llama_memory_*` (`MemorySeqRm`, `MemoryRmAny`, `MemorySeqCp`,
`MemorySeqCpAcross`, `MemorySeqKeep`, `MemorySeqAdd`, `MemorySeqDiv`, `MemoryClear`), and
`llama_decode` in parts: `Decode` carries out the copies and shifts that wait, finds the slots of every ubatch on a
trial and rolls back; `Compute` applies and computes one ubatch; `ComputeFails` takes what a
failed one added out again. The shift of K may fail as well (`Updates`): `update` returns, no layer or some of the layers are
rotated (`HalfShifted`), the shifts still wait, and `decode` goes on as if nothing had happened; when it
finds no slots it tries once more (`Attempts`). Batches are those that pass `llama_batch_allocr::init`. Between two calls
the cache is used by nobody else.

*Abstracted.* V data (which is not rotated), recurrent state, the contiguous search and
two-dimensional positions; the abort of a model that cannot shift (`llama-kv-cache.cpp:778`: the models are those that can) and models
without rotation; an output buffer that cannot be reserved, which makes `decode` return like a refused batch.

Four configurations: a shared stream with coupled tokens and shifts that may fail; an attention window,
where computations may fail; a stream for each sequence with copies between them, where both may fail; divided positions,
where a shift may fail or be half done.

Two details of the code are in the model and have no property of their own, since no call the
library documents depends on them: a head is restored from the place of its stream in
the ubatch (`llama-kv-cache.cpp`, `prepare`); copies that wait survive a `clear`.

### DynTallocr and GraphAlloc

*State.* `chunks` (free blocks sorted by offset, `max_size`), and for the current call: the
graph, the place in the code's loops (`at`), what is known of each tensor (`hash`: counts of readers and of
views, `allocated`, `addr`). Across calls: `plan` (`leaf_allocs`, `node_allocs`), `buffer`, and `data`,
the addresses given to the tensors.

*Actions.* `Call` begins `ggml_gallocr_reserve` or `ggml_gallocr_alloc_graph`
(`ggml_gallocr_needs_realloc` decides whether the plan is made again); one action per iteration of each
loop: `AllocateLeaf`, `CountNode`, `CountSource`, `AllocateParent`, `AllocateThis`, `UpdateParent`;
`Reserved` and `Assign` make the buffer and hand out the addresses; `Compute` runs the graph. In a step that allocates, a tensor
may take over the memory of an operand of the same layout. Its size (what the backend asks for) may differ from the operand's:
what it does not need is freed (`TailFreed`), and when it needs more, an assertion ends the process (`AssertionFails`, `at.loop = "aborted"`). The
backends of this repository whose sizes depend on the operation (`ggml-metal.cpp:213-245`, `ggml-webgpu.cpp:3530`) add memory for operations that
may not run in place, so that an operand may be larger than its user needs and not smaller; the module allows both.

*Abstracted.* Sizes and offsets count units of the alignment, to which alloc and free round alike.
One buffer type. Weights are passed over by every step. The branch of `allocate_node` that reuses the
source of a view is not taken, because a view never owns memory. The limit of 256 free blocks,
`ggml_gallocr_reserve_n_size` and `ggml_backend_alloc_ctx_tensors` are left out.

## 3. Runs

TLC, two workers; states are distinct states. Each run takes less than four minutes.

| run | question | bounds | result |
|---|---|---|---|
| `sleep` | Is the model unloaded only when the server is drained, and does every waiter return? | 2 HTTP threads, 2 requests each, spurious wake-ups, shutdown (95,000 states) | holds, under `PromptWakeups` |
| `tasks_mixed` | Are tasks and results neither lost, copied nor misdelivered? | a request with `n_cmpl = 2` whose client may leave, one that saves slot 0, a metrics task posted in front, 2 slots, 1 partial result, every failure (852,000 states) | holds |
| `tasks_abandon` | Does each request end, and does the slot of an abandoned one come back? | a request with two prompts, the second one empty, and one with `n_cmpl = 2` whose client may leave, all bound to slot 0, so that two tasks are deferred together; 2 slots, no partial results, every failure (149,000 states) | holds, unless the process aborts or the chain of deferred tasks breaks |
| `tasks_abort` | Can the batch stay empty? | `n_cmpl = 2`, 2 slots, a failing prompt | `NeverAborts` fails |
| `router` | Is the limit kept, no child lost, and does the status move only as it should? | 2 models, `models_max` 1, 3 clients with one call each (request or reload; unload or reload; load), 1 unread line, shutdown (891,000 states) | holds; the status makes one move that the diagram leaves out |
| `router_stops` | Do unloads and reloads end? | 2 models, 2 clients, one may reload, children may hang, `add_model` may throw (200,000 states) | holds, under `PromptReap`, unless `add_model` throws |
| `threadpool` | Is each graph computed once by each of its threads, in lockstep; does every call return? | 3 threads, 2 graphs out of two, with any number of threads asked for, aborts, pauses, spurious wake-ups, free (316,000 states) | holds |
| `log_ring` | Is every message shown and written once, in order, through growth, pauses and changes of the file? | a ring of 2, up to 5 messages, 1 file, any calls of the controller (663,000 states) | holds; a call returns unless its end entry filled the ring |
| `log_flush` | Does a flush return? | a ring of 2, up to 3 messages | `FlushReturns` fails |
| `kv_cache` | Do indices, K data and slots stay right; does a sequence keep its window? | 3 cells, 2 sequences, ubatches of 2 tokens, batches of up to 3 per sequence, positions up to 3, failures as above (159,000 states) | holds; with a window, for batches of one ubatch |
| `kv_prepare` | Does the search for slots leave the cache as it was? | one stream, a window of 2, batches of 2 ubatches | `PrepareRestores` fails |
| `graph_alloc` | Does planned memory hold every value until its last use? | every graph of five families with up to 6 tensors, and every pair and some triples of calls with small graphs, chunks of 3 units, 2 chunks (3,536,000 states) | holds |

Why these bounds. A lost wake-up needs a waiter, a second waker and the main thread; two threads with two
requests give every order of them around two sleeps. Every hazard of
the task queues is about one task against one other actor (its canceller, the slot's
previous owner, its sibling): two or three requests, one of them a group, and two slots contain
all of these pairs. The chain of deferred tasks needs three tasks, two of them deferred behind the first: `tasks_abandon` has them. In the router every race is
between two calls on one model and a third actor that holds the capacity: two models under
`models_max` 1, with the three clients split so that two may reload at the same time.
In the threadpool a worker may be one graph and one barrier behind: two graphs, the first of which has two
barriers, with a third thread that the second graph does not ask for. The ring of two grows twice
within five messages, at every position of its head, with the end entry of an earlier pause in it.
Three cells are the fewest in which a slot search wraps around a hole with a cell on either side, and two sequences share,
copy and outlive each other's cells. The families of graphs contain every small graph of their
shape: operands used twice, views of views, outputs, chains in place, tensors smaller than the operand they overwrite, and blocks that are merged
on either side; a chunk of three units overflows into the second.
Deadlock checking is off in every run because requests, messages, graphs and calls are bounded: the
system really stops when they have been served.

The three violations are disagreements between the code and what its comments,
README or assertions say; "findings" in `PROJECT.json` quotes both sides.

* *Children of a failed parent* (`tasks_abort`). Released parent, children in
  `SLOT_STATE_WAIT_OTHER`, empty batches, `GGML_ABORT` after four passes, unless the
  CANCEL of the reader arrives first. A group that is cancelled while the main loop has it in hand, to
  defer it, can end the same way: the CANCEL of the child is handled before the group starts, that of the parent after.
* *A flush that waits for ever* (`log_flush`). `pause` pushes its end entry without the check
  for a full ring. With one place left, `tail` meets `head`, the ring looks empty, the worker waits, and
  `pause` waits for the worker. With the default capacity (256) it takes 255 messages that the worker has not taken yet.
* *A trial that takes something* (`kv_prepare`). `prepare` puts back the cells of the
  slots it tried. Under a sliding window `apply_ubatch` also purges what the sequence has below an overwritten
  position, and that is not put back: positions inside the window of the
  next token are gone, although the batch may be refused and `llama_decode` promises the old state.

TLC refutes more statements on these modules. None of the refutations is a run of its own: they are hazards of
`PROJECT.json`, some with a property that holds short of them, and the properties name what they leave out.

* *Lost wake-up* (`sleep` without `PromptWakeups`). `wait_until_no_sleep` asks once and waits with
  the predicate `!sleeping`. If the server falls asleep again before the notified thread gets
  the mutex, that thread waits on, without a pending request; a later `notify_one` meant for the
  main thread may reach it instead, and then nobody notifies the main thread again. The main thread must
  run through an idle timeout in between, so it takes a starved thread or a very short timeout.
* *A task on a sleeping server.* The sleeping wait ignores the queue.
* *Deferred tasks on an idle server.* One release moves one deferred
  task; if that one takes no slot (it saves or erases a slot, its launch fails, its reader erases it), the next
  is not moved until something else is released. `RequestsEnd` allows for it with `broken`;
  without, TLC finds a request that waits for ever on an idle server.
* *A move the diagram leaves out.* In the diagram at `server-models.h:15-22` a sleeping instance can only go back to LOADED. The
  managing thread sets UNLOADED whatever the status was, and does so when a sleeping instance is unloaded, evicted or dies.
  `StatusMoves` lists that move besides those of the diagram.
* *A reload that throws.* `load_models` sets `is_reloading` at `server-models.cpp:412` and clears it at 549. If `add_model`
  throws in between (540), every later load waits at 734 for ever, unless another reload ends. `ReloadEnds` leaves that case out.
* *Cancellation of a task in hand.* It finds the task in no queue; the task is deferred afterwards.
* *Eviction.* The evicting thread waits for a status that can be overwritten before it looks, and then
  waits for the instance that was loaded in its place.
* *Kill of process 0.* `subprocess_alive` clears `child` when it reaps; the
  status is still LOADING until the managing thread reports, and an unload then signals the router's own group.
* *Divided positions.* `pos_div` (`llama-kv-cells.h:451`) adds the old position less the new one to the shift,
  `pos_add` the new one less the old one: K data is rotated the wrong way after a division.
* *A failed shift of K.* `update` (`llama-kv-cache.cpp:793-803`) returns without `reset_shift` and without telling
  `decode`, which computes the batch over data that is not rotated; the next `decode` tries again. After a shift that failed halfway the layers
  that were done are rotated twice. Under a window a slot may be given to a cell whose shift still waits, and the shift is lost with the old cell.
  `DataFollowsCells` says that data lags behind by the shift that waits, and leaves out half-done shifts and windows whose shifts fail.
* *A failed ubatch of coupled tokens.* `llama_context::decode` says it removes all positions of an ubatch that failed
  (`llama-context.cpp:1790`); it removes them for `seq_id[i][0]`, the first sequence of each token. The cells of
  a token of two sequences stay in the cache for the second one, and their data may never have been computed.
  `DataFollowsCells` leaves out configurations in which coupled tokens and failed computations meet, and those with divided positions.
* *Outputs that are views.* `ggml-alloc.h:46` says that output tensors are never freed and never
  overwritten; the allocator looks at the flag of the tensor that owns the memory, so an output
  that is a view of a tensor without the flag is overwritten. `ValuesSurvive` leaves these outputs out.
* *A plan for other edges.* A plan is used again when the numbers of nodes and the sizes match
  (`ggml_gallocr_needs_realloc`), whatever the edges; the header promises a reallocation if the
  topology changes. `ValuesSurvive` speaks of graphs with the edges the plan was made for. Under other edges a
  leaf that no node reads is not compared and may exceed its place: `TensorsInBuffer` speaks of the tensors that are (`Compared`).
* *A failed allocation.* The plan is recorded and the buffer gone: the next call with a matching graph
  follows the null buffer (`at.loop = "crashed"`).

## 4. Fairness and assumptions

* `ServerSleep`: weak fairness of the main thread, of each HTTP thread past its request, and of time
  (`IdleElapses`, `MainDozeTimeout`); strong fairness that a busy slot finishes at some update, since
  `n_predict` and the context size bound a generation. Clients, signals and spurious wake-ups are not fair.
  `PromptWakeups`: the idle timeout (whole seconds) does not elapse while a notified thread is on its way to the mutex.
* `ServerTasks`: weak fairness of the main thread and of each reader; strong fairness that a prompt is
  evaluated and a generation stops; and of `Abort`, since the fourth empty batch in a row ends the process. `Register` (a request is sent) and `Leave` are not fair.
* `ServerRouter`: weak fairness of the HTTP threads inside a call, of the managing and stopping threads, and of the kernel
  finishing a dying process. A child need not load, answer nor exit: it may hang, which is what the
  timeout is for. `PromptReap`: once a child's output has closed, the kernel has made it a zombie
  by the time the managing thread gets the mutex. Without it the stopping thread looks too early and is never told again.

* `Threadpool`: weak fairness of the owner inside a call, of each worker and of each thread in a graph: the
  operating system runs every thread. What the owner calls, and spurious wake-ups, are not fair. A
  thread that spins at the barrier is scheduled like any other.
* `LogRing`: weak fairness of the worker and of the controller inside a call. Messages and calls are not fair.
* `KvCache` and `GraphAlloc` are sequential and have no fairness.

## 5. Proofs

All are checked by TLAPS for every value of the constants that satisfies the named assumptions
(`SleepAssumption`, `TasksAssumption`, `BatchAssumption`, `RouterAssumption`, `PoolAssumption`,
`LogAssumption`, `KvAssumption`, `CacheAssumption`, `TallocrAssumption`, `GraphAssumption`).

* `QueueOps_proofs`: what erasing by position and by id does to membership, order and
  uniqueness, and that an unordered iteration lists each element once.
* `ServerSleep_proofs`: `TypeCorrect`. `SleepsDrained` needs `SleepInv`: the invariant alone is not
  inductive, because whether the main thread may sleep was decided several steps earlier. The
  strengthening says that, past the update, work on a slot implies a queued NEXT_RESPONSE, and it pins
  `sleeping` to the program counter. `NoWaiterForgotten`: a thread enters the wait set only while
  `sleeping`, and the step that clears `sleeping` notifies all.
* `ServerTasks_proofs`: `TypeCorrect` with `SlotShape` (a slot has a task exactly when it is
  not idle; `todo` holds busy slots only, and only inside an update). `TasksPlacedOnce` with
  `PlacedInv`, which adds what keeps the unposted tasks out: before a reader posts, none of its tasks is
  anywhere, and a group moves only through the four places its root passes. The other invariants need `AnswersInv`, which
  adds two more parts. `ResultsInv` says that a task is waited for exactly while its reader is between `Register` and
  `StopWaiting`, that the server holds no task that has been answered (`AnswersEnd`), and that a reader that receives can
  account for each of its tasks: held by the server, taken, or owed by a result in its inbox (`Accounted`).
  `CancelsInv` says that a CANCEL, queued or in hand, names a task of a reader that is done. `NobodyStranded` is read
  off `Accounted`; `LastResultIsLast` and `NoResultsLeft` need `AnswersEnd` and the waiting ids;
  `SlotsReleasedForAReason` needs `CancelsInv`, since by the time a CANCEL is handled its slot may have another task.
* `ServerRouter_proofs`: `TypeCorrect`, which needs `TypeInv`: a call names a model wherever it
  works on one. `InstancesKept` needs `RouterInv`: that a removal takes no running instance needs its
  thread to be in the mapping (`Joinable`), and that a stopped instance has no child left needs what the
  managing thread saw before it went on (`SeenOff`). `ReadyFirst` says what a loading instance has still
  to report; `StatusLegal` rests on it (the first line of a child is never "sleeping") and
  `LimitKept` on `Managed` (a line of a child never starts an instance) and on the check of the limit
  in the critical section of `Spawn`.

* `Threadpool_proofs`: any number of threads and any graphs. `IInv` is phrased per
  round, the stretch between two openings of the barrier: where each thread of the team may be
  (`TeamInv`), that the counter of the barrier is the number of threads that wait, or one thread is between
  its reset and its release (`BarrierInv`), where the abort mark may lie (`AbortInv`), and that outside of
  a graph everybody is at rest, some only about to notice that the last barrier opened (`QuietInv`).
  `TypeCorrect`, `NobodyReadsBetweenGraphs` and `TeamComputes` follow. `Lockstep` is the refinement of `ParallelGraph`: each
  step begins or ends a computation, starts or ends a graph, or stutters.
* `LogRing_proofs`: any capacity, any number of messages. `IInv` relates who runs to
  `running` and `ctl`, and says that what is queued was accepted for the present file and that the end entry comes
  last. `TypeCorrect`; `LogsInOrder` is the refinement of `LogFifo`; its lemmas say what adding, growing, pausing
  and taking do to the sequence that the ring stands for.
* `KvCache_proofs`: any number of cells, sequences and tokens, any configuration. `MethodsKeepIndices`: each method
  of `llama_kv_cells`, called where the cache may call it, keeps `used` and `seq_pos` in agreement with the
  cells. The argument counts: `seq_pos[s][p]` is the number of cells that hold `s` at `p`, and a method takes one
  cell out of that set and puts one back. A loop of the code is a recursive function on a number (`Rounds`), about which
  nothing can be proved by the library's induction; `LoopExists` and `LoopKeeps` take the least round at which the loop would be undefined or
  would break what its rounds keep, and refute it. With these, each call keeps every stream `Sound` (typed and consistent).
  The trial of `prepare` (`Trial`) sets aside the cells of its slots; what is left beside them is
  at its old positions (`AsBefore`), so that the rollback, last ubatch first, puts cells back that are consistent with the rest. `CacheTyped` and `IndicesAgree` follow from `KvInv`: the types, with ubatches
  that fit the slots found for them, and `Sound`. `DataFollows` adds `DataInv`: a batch being decoded has no
  copies waiting, and the K data of each cell in use, after the waiting copies, is its position less its shift,
  which is not negative and so never the mark of absent data. It speaks of the configurations `Followed` admits: no division, no half-done
  shift, no coupled tokens with failing computations, no window with failing shifts. A shift that fails changes neither cells nor data, so a decode
  either resets every shift with the data rotated or leaves both (`Shifted`, `UpdateTyped`, `AttemptData`, `DecodeOutcome`); where a shift still waits
  the cache has no window, so the trial took only empty cells, and the rollback leaves them empty. `SlotsUsable` proves `SlotsStayUsable` for caches without
  a window: `find_slot` goes once around the cache and so finds no cell twice (`FoundFree`); in the trial the slots
  of each ubatch were empty and are taken by no other (`FreeTrial`); nothing is purged, so the rollback leaves all of them empty
  (`RolledEmpty`), and computing an ubatch fills its own slots only (`SlotInv`).
* `GraphAlloc_proofs`: any graphs, sizes, chunk sizes and sequences of calls. `IInv` is about bytes: the
  blocks of a chunk are sorted and apart, the bytes of each owner are not free, no two owners share a byte,
  and up to an end not below `max_size` every byte is free or owned. `InsertBlockExact`, `MergeNextExact`,
  `FreeBytesExact`, `TakeFromExact` and `AllocSound` say what the operators of `DynTallocr` do to the set of free bytes;
  one lemma per step of the walk follows. A node that takes over its operand's memory owns the front of it, and `TailFreed` gives the rest
  to the free bytes, so that none is owned twice and none is lost. `MemorySafe` and `MemoryWhole` are read off it. `AInv` adds the
  order of the walk: where it is (`Where`), what the counts of readers and of views are at that point (`Counters`), that
  what is still to be read, and each output, owns its memory or has passed it on to its last reader (`Owned`), that nothing written later shares a byte with
  an owner (`OwnersApart`), that the nodes passed find their operands untouched (`ReadsSafe`), and that the last chunk has room for what is still to come (`Room`). When the walk ends, the plan it leaves satisfies `PlanHolds`, and
  `PlanServes` says that it serves a later graph that matches it. `AllocatorTyped`, `ValuesKept` and `TensorsPlaced` follow. They
  speak of the graphs the code is called with (`IsGraph`): operands and the sources of views precede their users and the leafs have
  no operation, a tensor that is a view and has no operation is no operand, and the last chunk, which is endless in the code, has room for all tensors together.

Out of reach for the prover and left to TLC: every liveness property (fairness and
ENABLED). `WindowKept` of `KvCache` is only model-checked, and `SlotsStayUsable` is where there is a window. Neither is a
theorem for all configurations: with a window and batches of several ubatches the trial of a later ubatch purges
cells that the rollback does not bring back (`PrepareRestores` above), so that a sequence loses positions, and
a slot found for an earlier ubatch, whose old token the window no longer reached, may be within reach again. TLC
finds the first in `kv_prepare` and the second with 4 cells, a window of 2 and ubatches of 3 tokens. Both hold for the configurations that `kv_cache` runs, whose batches are one
ubatch where there is a window.

## 6. Not modelled, and the plan

In `ServerTasks`: batch contents, `decode` retries with a halved batch, prompt cache,
checkpoints, context shift, speculative drafts, the count of empty batches before the abort (any
empty pass may be the fourth), termination of the result queue. In `ServerSleep`: the order of `clean_up`
against HTTP threads. TLC refutes four more statements on `ServerSleep` that are kept as
hazards and not as runs: that only the main thread waits when a wake-up is requested
(`server-queue.cpp:110`), that a route tokenizes only on a loaded model (`server-context.cpp:3860`),
that a shutdown always stops the loop (`server.cpp:309`; `start_loop` overwrites an early `terminate`), and
that waiters return at a shutdown during sleep.
In `KvCache`: saving and restoring states, the pair of caches for models with both kinds of attention, `split_seq`.

Numeric kernels (the bulk of the code: CPU operators and their variants per architecture, the GPU
backends), file formats, string processing and device drivers are outside what TLC can check
usefully; `PROJECT.json` gives the reason for each component.

Still open, in this order:

1. `ServerBatch` (`update_slots`): batch building, sharing between slots, decode with halving, parents and children by state.
2. The server's prompt cache: its limits, and prompts that are prefixes of each other.
3. `KvCache`: the two caches of iswa models, state save and restore; then recurrent memory.
4. `ReasoningBudget` and the scan for aLoRA tokens: sequential algorithms against reference definitions.
5. The event ring of the backend scheduler.
6. Proofs: `SlotsStayUsable` and `WindowKept` of `KvCache` for windows with batches of one ubatch, and
   an abstract "exactly one answer per task" specification implemented by `ServerTasks`.
