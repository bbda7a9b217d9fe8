# TLA+ verification of NWBLot

NWBLot is a C++ engine: allocators, a thread pool and a job system, a Vulkan
backend with a GPU task graph, an entity-component system, asset cooking and a
volume filesystem, crash and telemetry services, and a renderer on top. This
project models the parts that carry its concurrency and resource lifetimes,
checks them with TLC on small instances and proves part of the results with
TLAPS for every instance. `PROJECT.json` maps each definition to source lines.

## 1. Inventory

| Part | State | Operations | Interaction | What is hard | Correct when |
|---|---|---|---|---|---|
| `core/alloc/thread.h` ThreadPool | task FIFO, pending counter, published loop descriptor, workers | enqueue, enqueueBatch, parallelFor, wait, destruction | workers share one condition variable for tasks and loops | a descriptor on the caller's stack, lost wake-ups, nested loops | tasks and indices run once, waits return exactly when done |
| `core/alloc/job.h` JobSystem | node table, free list, generations, pending counter | submit/then, wait, waitAll, isComplete | runs on a ThreadPool; used by frame, graphics setup and ECS | stale handles, dependencies completing during submit, inline continuations | a job runs once, after its dependencies |
| `core/graphics/vulkan` Queue, CommandList, executeCommandLists | timeline ids, in-flight list, pools, pending waits | open, close, execute, garbage collection, waitForIdle | any thread records; the GPU completes | reuse before completion, rejected submissions, cross-queue waits | a buffer is not touched while the GPU may read it |
| `upload.cpp` UploadManager | active and pooled chunks with owner and version | suballocate, submitChunks, discardChunks | told by CommandList and executeCommandLists outside the queue's lock | owners known by address, stale completed ids | staged bytes are kept until copied, no chunk is lost |
| `gpu_descriptor_heap.cpp` | free list, live slots, retired slots, heap uses | allocate, free, track/submit/discard a use, collectRetired | command buffers and queues | polling with the heap unlocked, concurrent collections | a slot is not reused while commands index it |
| swapchain frames (`backend_context_*.cpp`, `queries.cpp`) | acquire/present semaphores, the presentation signal, frame fences | beginFrame, claim/prepare/confirm/cancel, present, resize | the Graphics queue's pending semaphores, the presentation engine | semaphore reuse, a wait taken by another submission, a signal nobody presents | signals and waits come in pairs, images are drawn to while they are the application's, no frame hangs |
| `core/graphics/task_graph` | compiled packets, persistent states, transactions | compile, record on workers, submit, accept/reject | JobSystem, VulkanQueue | partial rejection, state handoff between packets | submitted order respects the edges; a rejection leaves the old state |
| `core/ecs` | entity generations, sparse pools, type lists, systems, messages | create/destroy, add/remove, views, schedule, publish | JobSystem | generation wrap, swap removal, reused list nodes | a stale id names nothing, a component is its entity's; systems with conflicts do not overlap |
| `core/filesystem` | volume segments, staging | mount, stage, commit | file I/O | crash between the commit steps | a volume is the old or the new one |
| `core/assets` | registry, load states | load, wait, cook | JobSystem, volumes | concurrent loads of one asset | one load, all waiters see it |
| `core/crash` | request socket, acknowledgement pipe, spool directories | request, write, acknowledge, recover, prune, upload | application, handler processes, log server | late acknowledgements, killed handlers, several instances on one spool | an answer is about the caller's package; a package is delivered or kept |
| `logger` | queues | write, send, ingest | threads, HTTP | retries | messages are sent in order |
| `core/telemetry`, `core/perf` | bounded event buffers | record, drain | frame loop | overflow | counts of what was dropped are right |
| `core/metascript`, `core/common`, `global`, `impl`, loader, cooker, utilities | mostly sequential | parse, format, render | | | |

The hazards these parts are exposed to are listed, with line and property, in
`PROJECT.json`.

## 2. Modules

| Module | Models | Uses |
|---|---|---|
| `ThreadPool` | ThreadPool | |
| `ThreadPoolProofs` | theorems about ThreadPool | `ThreadPool`, TLAPS |
| `JobGraph` | what a job system promises (abstract) | |
| `JobSystem` | JobSystem | refines `JobGraph` |
| `JobSystemProofs` | theorems about JobSystem | `JobSystem`, TLAPS |
| `VulkanQueue` | Queue, CommandList open/close, executeCommandLists | |
| `VulkanQueueProofs` | theorems about VulkanQueue | `VulkanQueue`, TLAPS |
| `UploadManager` | UploadManager composed with the queue | `VulkanQueue` |
| `UploadManagerProofs` | theorems about UploadManager | `UploadManager`, `VulkanQueueProofs` |
| `GpuDescriptorHeap` | the heap composed with the queue | `VulkanQueue` |
| `GpuDescriptorHeapProofs` | theorems about GpuDescriptorHeap | `GpuDescriptorHeap`, `VulkanQueueProofs` |
| `FrameSync` | frame synchronisation of the swap chain | |
| `FrameSyncProofs` | theorems about FrameSync | `FrameSync`, TLAPS |
| `CrashPipeline` | crash requests, handler processes, spool and upload | |
| `CrashPipelineProofs` | theorems about CrashPipeline | `CrashPipeline`, TLAPS |
| `EntityStore` | what the entity-component store promises (abstract) | |
| `World` | EntityManager, component pools, type lists, views | refines `EntityStore` |
| `WorldProofs` | theorems about World | `World`, TLAPS |
| `MC*` | small instances for TLC | |

Names of the source are kept for members (`m_pendingCount`, `m_pfWork`,
`m_lastSubmittedID`, ...) and functions. A definition marked *mutant* is a
deliberately wrong variant of the one below it; the specifications never use it.

**ThreadPool.** One action per critical section of `m_taskMutex` and one per
atomic operation outside it. An atomic wait is a load, a compare-and-sleep and a
wake-up; a notify after an unlock is a step of its own. `parallelFor` publishes a
descriptor (`desc[l]`) that is `live` until the call returns; `loop[t]` is the
pointer a thread holds. Workers may wake spuriously; `notify_one` wakes any
sleeper. A pool without workers runs everything in the caller. `DestroyCall`
stands for `~ThreadPool`: clients no longer call, tasks may still enqueue.

**JobSystem.** One action per critical section of `m_mutex`. Activations of
`execute()` are a stack of frames per thread, the innermost last, because a pool
without workers runs jobs inside the call that released them. The loops over
dependents and dependencies are recursive functions of the turn. The pool is its queue (ThreadPool shows
that what is enqueued is run once). Generations wrap at `GenerationLimit`
(2^32 - 1 in the code) and skip 0. Two guards bound how long callers keep handles:
a handle is not used after `GenerationLimit` reuses of its node, and `wait` does
not last through `GenerationLimit - 1` of them, when the signal would show the
value it saw before.

**VulkanQueue.** One action per critical section of `Queue::m_mutex` or of a
worker arena's mutex. A TrackedCommandBuffer is its address, which the arena may
hand out again. Timeline queries may return any value up to the true one, or
fail. `open`, `close`, buffer creation and `vkQueueSubmit2` may fail. `SubmitRefused`
stands for every check `submit` makes before it detaches buffers (`valid = FALSE`
for the argument checks), and for the exhausted id. Submission with a null
timeline semaphore has the effect of `SubmitRejected`. `GpuFinish` is external:
the GPU executes a queue in order once its waits are met.

**UploadManager** and **GpuDescriptorHeap** extend VulkanQueue: each of its
actions is conjoined with what the code does to the chunks or the heap in the same
step, and what the code does after releasing the queue's lock (`BookAccepted`,
`BookRejected`, the three parts of `collectRetired`) is a step of its own.
`reads` and `refs` are histories of what recorded commands will read.

**FrameSync.** The render thread's frame, one action per driver call: `beginFrame`
(retire a leftover signal, acquire), the renderer's submissions, the terminal packet
with the claimed presentation signal, `present` (fallback submission, present,
throttle, fence). The Graphics queue keeps `m_waitSemaphores` and
`m_signalSemaphores` between calls and *any* thread's next submission takes them:
`OtherSubmit`. The device (`ExecuteBatch`) and the presentation engine
(`TakePresent`, `StopReading`) are external: batches run in order when their waits
are signalled, images are presented in order and may be handed out before the engine
has stopped reading them. A refused submission clears the pending semaphores and a
replacement of a semaphore may fail; nothing in the code repairs either, so the model
records it (`lost`) and stops there, and the properties except it by name.
`waitEventQuery` only logs a wait that failed: the query goes back to the pool still
marked started, and when the next frame takes it while the device has its fence,
`vkResetFences` is called on a fence in use (`ResetFenceInUse`, which sets `lost`);
`FenceReusable` excepts a started query in the pool. Every failure of `present`, and
every one of an acquisition but an outdated surface, is one failure: the session ends,
or the frame is skipped. `resize`
is modelled with the device idle and nothing left to present, as `vkDeviceWaitIdle`
in `destroySwapChain` is meant to achieve. `AbortFrame` is the case that the first
lines of `beginFrame` are for; `Graphics` itself ends the session after such a frame.

**CrashPipeline.** Clients (`RequestCrashDump` in several threads and processes),
their handler processes and the spool they share. A handler's file operations are
separate steps, since nothing locks the spool: a move is a removal of the destination
and a rename. Processes end and handlers are killed between any two steps; the server
may receive an archive whose answer is lost. The package is the set of its files:
the client's GPU files (`gpu`), those of `WriteCrashPackageBasics` (`basics`) and the
last one (`symbols`). Several failure statuses of the client are one, `noAnswer`.
Directories that cannot be made fail the request (`RequestGpuCrashDump`,
`ReadRequest`). A move may also fail with its source in place (`MoveFails`): no
destination directory, a removal that took only some of the files, a refused rename.
A handler killed halfway through a removal is such a removal and then `KillHandler`,
two faults: one more than the run has; the proofs cover any number.
`exposed` names the packages the code does not protect: removed by retention, taken
from `pending` before they were complete, or at hand in two live handlers at once.
The last two are open cases of the code, and there is a third, which is assumed away:
the id `crash-<pid>-<sequence>` comes again when a process id does while the spool
still has a package of that name; the later request then writes into the old package,
and a move of the one removes the other. Also assumed: a write that fails is
reported. `WriteTextFile` looks at its stream before the stream is closed, so a
failure of the last flush of a small file goes unseen and the package is acknowledged
as written. The Linux transport stands for all.

**World.** Calls come one at a time. Vectors that are too short read as filled with
the invalid value, indices count from 1, and a pool not yet made is an empty one.
`stale` are the ids of dead entities that callers hold; they keep calling through
them. One assumption about callers is needed and named: by the time the generation of
an index comes round, they have dropped the id that had it (`Forgotten`; 1024 lives
of the index in the code), and no id outlives `World::clear`. Without it `alive()`
is wrong for such an id: of the wrap itself only the masked arithmetic is checked
(`WorldTypeOK`). `addComponent` on a dead id is asserted only (`world.h:98`) and goes
on in a build without assertions; the model's callers add to living entities. A view is the sequence it visits from any smallest pool.

Abstractions: one command list per recorder and per submission; device loss,
pending signal semaphores and the pre-submit hook left out; the poll and the
discard of an abandoned recording are one step (the version only grows, so the two
commute with other threads' steps); staging requests take one slot and the upload
manager's memory limit is 0 (unlimited), so trimming returns at once; the three
descriptor namespaces do not interact and one stands for all; heap `initialize`
and `shutdown` are left out; `waitForIdle` collects after the wait returned and
does not model the lock being held meanwhile.

## 3. Runs

| Run | Instance | Shows |
|---|---|---|
| `thread_pool` | 2 or 0 workers, 1 client, 2 tasks, batches of 2, 2 loops over an uneven range | descriptor lifetime, every index once, exact pending count, no nested dispatch, waits and destruction see all tasks done |
| `thread_pool_live` | the same with 1 loop, fair | calls return, tasks run |
| `job_system` | 2 or 0 workers, 4 jobs, 2 dependencies, generations 1..3, inline depth 1 | node bookkeeping and refinement of `JobGraph` |
| `job_system_live` | 2 workers, 3 jobs, 1 dependency, a waiting client, fair | waits return and only after the end |
| `vulkan_queue` | 1 queue, 2 direct recorders and a worker, 3 buffers, ids up to 3 | buffers kept while executing, in one place, ids equal timeline values |
| `vulkan_queue_live` | 2 queues with tokens across, ids up to 2, fair | accepted submissions complete |
| `upload_manager` | direct and worker recorder, 2 buffers, 2 chunks of 2 slots | staged data kept, no chunk stranded |
| `upload_manager_direct` | two direct recorders | **violation**, see below |
| `descriptor_heap` | 1 recorder, 2 sweepers, 1 slot, 2 uses | slot not reused while indexed, exact accounting, every use can complete |
| `frame_sync` | 2 images, 2 frames in flight, 1 fault, fair | one signal and one wait per semaphore use, no drawing to an image the engine reads, fences free when taken (but for a failed wait), every frame ends |
| `crash_pipeline` | 2 requests in one thread, two threads or two processes, 1 fault, 1 package kept in `pending` | answers are about the caller's package, a complete package that is not `exposed` is never lost or cut, `uploaded` means received |
| `world` | 2 indices, 2 generations, 2 component types, 2 values | queries and views see exactly the living, `World` implements `EntityStore` |

The bounds are the smallest at which the cases of interest happen: two workers
race for the last chunk and the last task, a loop overlaps a task that dispatches
another, four jobs reuse nodes and wrap generations, three ids reach the id limit,
two chunks make the pool and the owner search matter, one slot makes every reuse a
reuse of the slot at stake. Two images with two frames in flight are the tightest
swap chain: every semaphore comes round after two frames; three images multiply the
states past what a run can take. Two requests reach every pair of places two packages
or two handlers can be in, with one fault at any point of the way. Two
generations make every second life of an index a wrap. Counters bounded by name:
`MaxFaults` (failing calls and file operations, refused submissions, killed handlers), `MaxEntities`,
`GenerationCount`, `SubmissionLimit`, `MaxJobs`, `MaxHeapUses`; `AbortFrame` leaves one
image, because a session that gave up as many frames as there are images would wait in
`vkAcquireNextImageKHR` for ever. Symmetry is used for workers, buffers, component
types and values, in safety runs only. Deadlock is checked except where the system
really may stop: `job_system` (all jobs done), `crash_pipeline` (all processes
ended), `frame_sync` (the session ends, or `lost`).

Fairness: weak fairness of each thread's steps *inside* a call (the operating
system runs every runnable thread), and of the GPU on a queue whose first
submission may start. In `frame_sync`: the render thread, the device and the
presentation engine (the frame loop calls `animateRenderPresent` again and again, a
driver executes what it accepted); other threads, resizes and faults owe nothing. No
fairness of calls, of spurious wake-ups, or of the
sleeper `notify_one` chooses.

### Finding

`executeCommandLists` books staging chunks by the address of the submitted
TrackedCommandBuffer after `Queue::submit` released its lock
(`device_queue.cpp:545`). If the submission is rejected, the buffer is in the
queue's pool by then; another direct recorder can take it, stage data in a chunk
owned by the same address, and have that chunk discarded by the first thread. Its
next request gets the same slot. `backend.h:831` says that direct recorders may
record from unrelated threads. A worker lease and a direct recorder do not share
buffers, so `upload_manager` passes.

## 4. Proofs

`ThreadPoolProofs` proves, for every set of workers and clients, every set of
requests and every bound (assumptions: finite disjoint thread sets, natural
bounds, natural loop arguments):

- `TypeCorrect`: `Spec => []TypeOK`;
- `DescriptorSafe`: `Spec => []DescriptorOutlivesUse`;
- `NestedLoopsSerial`: `Spec => []ChunkNeverDispatches`;
- `PendingCountExact`: `Spec => []PendingExact`;
- `DestructorDrains`: `Spec => []DestructionDrains`;
- `WaitSeesTasks`: `Spec => WaitSeesAllDone`, an action property;
- `IndicesOnce`: `Spec => []EachIndexOnce`;
- `ChunksTile`: the chunks of a descriptor tile `[begin, end)`.

These are all the safety properties the ThreadPool runs check. None is inductive; there
are three arguments. *Lifetime*: the invariant `Inv` adds `LocalsOK` (a
thread has a descriptor exactly at the control points of a loop, and is marked as
executing a chunk exactly while it processes one), `OwnerOK` (the descriptor of a
dispatcher, of a thread in a chunk and of a worker about to leave is live, and a
dispatcher's is its own), `CountOK` (`activeWorkers` of a descriptor is the number
of workers that hold it and have not left), and `PublishedOK` (`m_pfWork` is live
and its owner has not yet withdrawn it). A descriptor dies only in
`DispatchReturn`, when `activeWorkers` is 0 and `m_pfWork` withdrawn; by `CountOK`
no worker then holds it, and by `PublishedOK` none can take it. The argument does
not need `m_pfMutex`: mutual exclusion of dispatchers is not what keeps a
descriptor safe.

*Tasks*: `TaskInv` says that a task is in one place at a time: among those a thread is
about to push (`PushOK`), in the queue (`QueueOK`), with one worker (`ItemsOK`), or
finished. So a worker that finishes a task finishes one that was still counted, and
the count is exact. `ItemsOK` also says that a worker that calls the pool is inside a
task, which is unfinished; together with `CloseOK` (while one caller destroys the pool
the others are gone) nothing can be enqueued once the destructor has seen a count of
zero.

*Indices*: `IndexInv` follows a chunk from unclaimed to claimed to run. The claims are
distinct and below `nextChunk` (`ClaimsOK`), the latch is the number of chunks that are
unclaimed or held (`LatchOK`), and an index has been visited once exactly when its chunk
has run (`HitsOK`). `CutRange` proves for every range and grain that the chunks are
disjoint and cover the range. The latch at zero then means that every index was visited,
which `DrainOK` carries to the return.

**`JobSystemProofs`**, for every set of workers and clients, every number of jobs and
dependencies, every `GenerationLimit` and every depth of inline continuations
(`JobAssumption`: finite disjoint thread sets, `GenerationLimit` at least 1):

- `TypeCorrect`: `Spec => []TypeOK`;
- `RemainingCorrect`: `Spec => []RemainingExact`;
- `FreeListCorrect`: `Spec => []FreeListExact`;
- `CarrierCorrect`: `Spec => []OneCarrier`;
- `CompleteCorrect`: `Spec => []CompleteMeansEnded`;
- `WaitCorrect`: `Spec => WaitSeesEnd`, an action property;
- `JobGraphImplemented`: `Spec => ImplementsJobGraph`.

The properties lean on one another, so one invariant, `Inv`, carries them all. *Which job
a node belongs to*: `Numbered` and `FreeOnce`, and `Generations`, which says of every job
how many later jobs its node has had and that the node's generation has moved on by as
many, so that a handle resolves only to its own job until its generation comes round.
*Where a handle is*: `Owned` and `Frames` tie a scheduled job's function to its node
until `execute()` takes it; `Carriage` says that every scheduled job is at one place of
the pool's queue or of one frame, and no handle at two. *Who waits for whom*: `Lists` says
that `remainingDependencies` is the number of places the job is listed at by nodes in
use, duplicates included, and `Linked` that an unfinished dependency of a waiting job does
list it: an exact count alone would let a job start before a dependency that never listed
it. `PendingExact` counts the jobs between submit and retirement,
and `Calls` what a waiter may conclude from the generation or the count it read.
`completeLocked` and `submitWithDependencies` loop over lists of any length: `ReleaseStep`
and `LinkStep` are the loops' own invariants (the counts are exact once the listings
still ahead are subtracted; what became ready is collected once), carried through all
turns by a least-counterexample argument.

**`WorldProofs`**, for every number of indices and generations and every set of component
types and values (`WorldAssumption`: at least two generations):

- `TypeCorrect`: `Spec => []WorldTypeOK`;
- `QueriesCorrect`: `Spec => []QueriesExact`;
- `EntityStoreImplemented`: `Spec => ImplementsEntityStore`.

`Inv` has three parts. `EntitiesOK`: an index is in use or free, and free once; its
generation is that of no dead id callers hold, which `Forgotten` keeps true when the
generation moves on. `PoolsOK`: every entry of a pool is a living entity whose sparse slot
points back at it, so swap removal moves one entity and leaves the components of the
others (`PoolRemoveFact`). `Listed`: the nodes can be read as disjoint stacks, one for
each index and one for the free list (`Chains`), no index lists a type twice, and an index
lists exactly the types whose pools have its entity. The last clause is why destroying an
entity, which goes by its list, clears it out of every pool. The three ways the lists
change are a lemma each (`AddTypeFact`, `RemoveTypeFact`, `DestroyLists`). `Chain` and
`View` are recursive functions; that they exist and what they return for every length
(`ChainFact`, `ViewFact`) follows from the least-number principle as above. The
refinement maps the pools to the components each entity has (`contents`).

**`CrashPipelineProofs`**, for every set of processes, calls, workloads, retention
limits and faults (assumption: the constants' shapes, `CrashAssumption`):

- `CrashTypeCorrect`: `Spec => []CrashTypeOK`;
- `AcknowledgementsHonest`: `Spec => []AckHonest`;
- `PackagesKept`: `Spec => []NothingLost`;
- `UploadsReceived`: `Spec => []UploadedReceived`.

`AckHonest` is about an answer that is read long after it was written, so the
invariant has to say that what it reports cannot change any more: `RequestOK` (a
request is in its process's socket, once, or with that process's handler, never both)
makes a request that left both `Settled`, and `OutcomeOK` keeps every acknowledgement
in the pipe, every result and every completed package about a settled request. For
the spool, `PackageOK` of a package that is not `exposed`: at most one handler has it
at hand (`HolderOK`), a complete one has one copy, a whole one, and its holder finds it
where its next step takes it from (`WholeOK`), an incomplete one lies in `pending` only
(`UnfinishedOK`), and what is in `uploaded` or on its way there was received
(`ReportOK`). Without the clause about the holder's place, a move that removes its
destination first would not be seen to keep a copy; without the uniqueness of the copy,
a removal that fails halfway would not be seen to cut nothing but exposed packages.

**`FrameSyncProofs`**, for every number of images, frames in flight and faults:

- `FrameTypes`: `Spec => []FrameTypeOK`;
- `FencesReusable`: `Spec => []FenceReusable`;
- `SemaphoresDisciplined`: `Spec => []SemaphoreDiscipline`;
- `ImagesExclusive`: `Spec => []ImageExclusive`.

Fences: `PoolOK` and `DeviceFences` (a query is in the pool or in `m_framesInFlight`
once; a fence with the device belongs to a started query and is not signalled, so a
query that came back to the pool unstarted has its fence free). Present semaphores: a
signal is under way from the image's terminal submission until the engine takes the
image (`SignalDue`), in one place (`OneSignal`). Acquire semaphores: they are taken in turn, their waits are executed in
that order (`OrderOK`), and every outstanding one keeps an image of its own away from
the engine (`KeepOK`). A pigeonhole argument then shows that the semaphore whose turn
it is, is free whenever the engine has an image to give: as many semaphores as images
are enough, which is what `m_acquireSemaphores` relies on and no clause of the code
says. The semaphore half holds until `lost` (section 2).

**`VulkanQueueProofs`**, for every set of queues, recorders, worker leases and command
buffers and every largest submission id (`QueueAssumption`: a worker's lease is held by
one recorder of a queue, finitely many buffers):

- `QueueTypes`: `Spec => []TypeOK`;
- `TimelinesExact`: `Spec => []TimelineExact`;
- `ExecutingBuffersRetained`: `Spec => []ExecutingRetained`;
- `BuffersHeldOnce`: `Spec => []OneHolder`.

The last two need each other: a buffer of a submission under way is not destroyed,
reused or marked with another id because it is in flight, and so neither in a list
nor in a pool. The invariant `Core` is these with `OneHolder` stated without counting
(`Placed`: no two of the places in lists, in flight and in pools hold the same buffer).
The places change in three ways only, each a lemma: buffers move to the pools of their
recording workers (`MoveToPools`), a recorder takes a buffer (`TakeFromPool`) or gives
its own up (`LeaveList`). A collection takes a prefix of the buffers in flight whose ids
are at most the polled value (`CompletedPrefix`); an id under way is larger than the
timeline's value by `TimelineExact`, so it is not in the prefix. `OnlyFacts` (what
filtering a list keeps and drops) is an induction over the list, from a least-number
principle (`Smallest`) that follows from the library's well-foundedness theorem.

**`GpuDescriptorHeapProofs`**, for every number of slots, recorders and concurrent
collections, over every set of queues (assumptions: `QueueAssumption` and
`HeapAssumption`):

- `SlotsAccounted`: `HeapSpec => []SlotAccounting`;
- `DescriptorsRetained`: `HeapSpec => []DescriptorRetained`;
- `UsesComplete`: `HeapSpec => []UsesResolvable`.

Every step of the heap is a step of the queue or leaves it alone (`QueueSteps`), so the
queue's `IInv` is at hand. `HeapInv` adds: `SlotsOK` (a slot is in one place, once),
`UsesOK` (a buffer has one use at most, and a use with a buffer is one its list
tracked), `RefsOK` (a slot that a tracked or submitted buffer indexes is live, or retired
with a last required use no earlier than the buffer's), `SweepOK` (what a collection read
of the queues is still true when it acts on it: timelines only grow) and `OpenEmpty`.
A collection that runs late judges by old values: the token of a submission under way is
larger than the timeline (`TimelineExact`), hence larger than anything the collection
read, so that use stays pending and so do the slots retired after it. Without
`OpenEmpty` (a list that waits for a buffer holds none) a list that got a second buffer
would leave a use behind that nothing resolves. The steps
of the queue are reduced to one lemma (`SettledKeeps`): a step that discards the uses of
some buffers and moves no other one keeps `HeapInv`.

**`UploadManagerProofs`**, for every set of queues, recorders, command buffers and
chunks and every chunk size (assumptions: `QueueAssumption`, `UploadAssumption`):

- `ChunksNeverStranded`: `UploadSpec => []NoChunkStranded`;
- `StagedDataSafe`: `UploadSpec => []StagedDataKept`, if at most one recorder of a queue
  records directly (`OneDirectRecorder`).

The manager takes the queue's steps (`QueueKept`), so `IInv` holds again. `StoreInv` says
that a chunk is in one place, once, and that an active one is claimed by a recorder of
its queue: by its list, or by a call that has submitted the buffer and not yet booked
it (`OwnersOK`). That is all `NoChunkStranded` needs, and it holds for any number of
direct recorders. `StagedDataKept` needs `DataInv`: every slot a recorded copy reads is
in an active chunk of that buffer, or in a pooled chunk whose version is no smaller than
the submission that reads it (`ReadsOK`); what a recorder polled is true (`PolledOK`), so
a chunk it may reuse is read by nobody; and between `submit` and the bookkeeping the
buffer stays in flight or in its own pool (`BookOK`), so that the address still means
that buffer. `BookOK` is where `OneDirectRecorder` is used: two direct recorders share a
pool, the second may take the buffer first, and the finding of section 3 is the
execution in which it does. The hypothesis is therefore not a convenience of the proof:
`upload_manager_direct` refutes the theorem without it.

Every invariant, action property and refinement of a passing run is a theorem. Only
model-checked is liveness, which is outside the prover's reach (as is `ENABLED`):
`EveryCallReturns`, `EveryTaskRuns`, `EveryJobEnds`, `EveryWaitReturns`,
`AcceptedCompletes` and `FrameProgress`. Recursion over data (`Only` in VulkanQueue, `Chain` and `View`
in World, the loops of JobSystem) is written as recursive functions of a number, so every
module can be proved about.

## 5. Not modelled, and the plan

By lines the repository is mostly vendored libraries (`src/3rd_parties`: zstd, Basis
Universal, ufbx, Vulkan headers, JSON, Dear ImGui), which are not the program's own
logic. Of its own code, parsers, texts, rendering features and platform windows are
sequential, numeric or I/O. What is left is listed here.

1. Model, in this order: the task graph's packet runtime (recording frontier,
   submission, transaction accept/reject) over VulkanQueue; the ECS scheduler over
   JobSystem and the message bus; volume staging and commit; the logger client's
   queue; the asset manager; the telemetry recorder; the task graph compiler's
   dependency analysis as operators against a reference.
2. Not planned: renderer and asset implementations, parsers, platform windows and
   pipelines (sequential, numeric or I/O), raw-memory allocators unless time allows.
