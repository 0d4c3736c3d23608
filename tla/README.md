# Typhon: TLA+ models of the path from a client's commit to the screen

Typhon (`oblivion-one`) is a Wayland compositor that drives the display itself.
A picture travels a long way in it: a client's commit waits until its buffers are
ready, a frame is drawn by one thread, committed to the kernel by another, shown at
a refresh, and only then are the promises made to the client kept. Sessions are
switched away and back, workers fail, outputs change and the compositor is told to
stop while pictures are anywhere on that way. This project models the way, checks
it with TLC and proves its central safety properties with TLAPS.

Paths below are relative to the repository; `runtime/` stands for
`src/native_output/runtime/`, `kms_worker/` for `src/native_output/kms_worker/` and
`scanout/` for `src/native_output/scanout/`.

## The system and its parts

One **main thread** runs everything but a few workers. A turn of its loop (a
*cycle*) waits for readiness, handles worker events, seat events and DRM
pageflips, lets Wayland and X11 clients run, plans a frame and hands it on.

| part | where | here |
|---|---|---|
| Surface tree transactions: commits that wait to be published | `src/compositor/state/surface_transactions/`, `surface_tree_readiness.rs` | `SurfaceTransactions` |
| Explicit-sync acquire watches: what they wait for | `src/native/explicit_sync.rs` | `AcquireWatches` |
| Atomic render worker: a thread that owns the GL domain | `scanout/render_worker.rs`, `runtime/render_worker.rs` | `RenderWorker` |
| Output swapchain and output transaction ledger | `scanout/output_swapchain.rs`, `src/native_output/presentation/ledger.rs` | `OutputPipeline` |
| KMS commit worker: a thread that owns the atomic-commit ioctl | `kms_worker/` | `KmsWorker`, `CommitLane` |
| Atomic commit arbiter: the main thread's book of the lane | `runtime/atomic_commit.rs` | `AtomicCommitArbiter` |
| Presentation cycle; session suspend and resume | `runtime/cycle.rs`, `cycle/pageflip.rs`, `kms_worker.rs`, `session_io.rs` | `PageflipCycle`, and the session steps of the modules above |
| Output configuration | `runtime/output_configuration.rs` | its render-worker candidate (`RenderWorker`) and its epochs (`AcquireWatches`) |
| Shutdown lifecycle, child supervisor, XWayland service | `runtime/shutdown.rs`, `src/process.rs`, `src/xwayland/service*.rs` | `NativeShutdown`, `ChildSupervisor` |
| System action transport, DMA-BUF release, screen capture, window layout, pointer constraints | | plan |
| Renderer, effects, animations, input translation, decorations, bootstrap | | not planned: numeric, graphical or plain I/O |

`PROJECT.json` lists every part with its status, and the hazards with the
source line where they bite; hazards of one mechanism share an entry, which names the
other lines.

## Modules

**`CommitLane`** is the promise of the KMS worker, without threads or locks: commits
are accepted, submitted one at a time in order of acceptance, shown or returned; a
closed lane submits nothing more and only a closed lane may give up a submitted commit.

**`KmsWorker`** is the worker in detail. One step is one critical section of
`WorkerShared::state`, one section of the submit gate, or one publication of an
event. The variables of `WorkerState` keep their names (`lifecycle`, `queued`,
`inflight`, `phase`, ...). `executing` stands for the flag, the key and the bundle
identity the code keeps apart.

* The worker thread has the control point `pc`; its actions follow `run_worker`:
  take a commit, wait for its window and collect a cursor sidecar, validate its
  base, test it, enter the gate, run the ioctl, transfer it to in-flight, publish,
  wait for the pageflip; and the retry, rejection, quiesce, panic and fatal paths.
  A condvar wait is a separate sleeping state left by a notification or a spurious
  wake-up, so a missing notification shows.
* The main thread calls the handle, one action per critical section of a call:
  plan, reserve, enqueue, offer or cancel a sidecar, cancel, drain events,
  acknowledge, promote, quiesce, shut down, abandon, join. A join may begin whenever
  the main thread is between calls (a disabled seat joins during a shutdown's drain too),
  and while it lasts the main thread does nothing else. `DrainStuck` is the one case in which
  it does not return: the worker drains, its commit is in flight and unacknowledged.
* The kernel finishes commits (`CompleteFlip`). TEST_ONLY and the ioctl may each
  accept, refuse, be busy or, as a fault, panic.
* A bundle is the pair (commit, attached sidecar), since attaching one changes
  `KmsCommitBundleIdentity`. Payloads, timings and counters are left out; deadlines
  are a nondeterministic wait.
* `Faults` says which failures may happen: `notify` (the eventfd write fails),
  `panic` (the executor), `transition` (the compositor's bookkeeping fails after a
  submission), `rollback` (a permit cannot be rolled back).

**`AtomicCommitArbiter`** has one operator per method of the arbiter, on records:
the two slots, the pageflip that arrived before its acknowledgement, the watchdog.

**`PageflipCycle`** composes the arbiter with a cycle of the main thread, a coarse
worker, the kernel and the seat. A cycle is the sequence of phases *wait, events,
seat, (join), drain, present* of the code, with the wake reasons that decide which
phases act: worker events are handled only when the worker or DRM woke the cycle,
DRM is drained only for a DRM wake, or a timer wake with a commit pending. Errors
that end the runtime set `failed`. Each transport the program can start with
(worker, synchronous) is an initial state, and a recovery may fall back from the worker
to the synchronous one, as the Auto policy does when the worker cannot be restarted
(`RestartTransports`). The worker here is a queue of one, a
commit in hand, one in flight and a FIFO of events; `KmsWorker` is its detailed
form, related by the mapped code, not by a checked refinement.

**`OutputPipeline`** is the swapchain and the ledger with the handlers that move
both. A frame `[slot, txn, claim, pred]` is in one of the roles `rendering`, `ready`,
`queued` and `pending`, or among the `suspended` ones; `txn` is the ledger and `batch`
what became of a frame's protocol obligations. Actions are the handlers: render
admission and render-ahead, render completion with its refusals and failures,
re-targeting, the worker's answers (submitted, rejected, re-planned), pageflips,
fences, and a session switch with its recovery, retries and aborts. At a switch the
worker is joined and what it hands back is only retained (`Retained`): the frame is
abandoned with its fence, and its transaction stays as it was until the recovery drops
it. The vblank a
frame is claimed for, and how late its pageflip is, are choices within `Slip`.
`fatal` records why the runtime stopped. The scope is the fixed-refresh composited
path with the worker transport.

**`SurfaceTransactions`** is the queue of a root and its synchronized child. A commit
is a choice of what each part does (nothing, detach, attach a ready or a waiting
buffer) and whether it is FIFO-paced; it is merged, queued, refused at the limit or
published as `merge_or_queue_surface_tree_transaction` and
`queue_waiting_surface_tree_parts` decide. `Migrate` submits what a surface had cached
before it stopped being a synchronized subsurface (`InternalMigration`): that was
admitted when it was cached and is not refused at the limit. A buffer, its acquire point and the
dependency on it are one identity. The runtime is seen only through `registers` and
`cancels`, which `Deliver` answers after the point has signalled.

**`AcquireWatches`** EXTENDS it with the registry and the transitions that park,
re-arm and change epochs; it replaces `Deliver` by the real path and is shown to
implement the queue's specification. Both output paths (with and without the render
worker) are initial states. Park and register may fail `MaxFaults` times.

**`ChildSupervisor`** holds the operations of the supervisor and of the XWayland
service as operators on values. **`NativeShutdown`** composes them with the shutdown
lifecycle into a cycle of two steps, `Wake` and `Finish`, between which the kernel may
end a process, raise a signal or complete a flip; `EmergencyCleanup` is the end of a
runtime that failed. `SeatLost` is a seat disabled while the last flip is awaited: the
synchronous path quarantines the flip and goes on; with the worker the reactor may enter
the join it does not come back from (phase `joining`, see `worker_drain_join`).

**`RenderWorker`** is the second worker thread, the handle, the lane of renderer
controls and the reactor's jobs. The worker's steps are receive-and-execute, publish
and signal; the reactor's are queue a control, dispatch a job, take an event, and the
stages of an output configuration, a session switch and the teardown. `want` is the
domain the synchronous transport would have, so coalescing and mirroring are checked
against a reference.

**`MCKmsWorker`** holds TLC's commit shapes. The proofs are in eight modules, each named
after the module it is about: `KmsWorkerProofs`, `PageflipCycleProofs`,
`OutputPipelineProofs`, `SurfaceTransactionsProofs`, `AcquireWatchesProofs`,
`NativeShutdownProofs` and, because of its length in two parts, `RenderWorkerInvariant`
and `RenderWorkerProofs`.

## Runs

| run | question | states |
|---|---|---|
| `worker_core` | Are commits and sidecars conserved, submissions exclusive, stops complete, admissions sound (bases what the screen shows, direct keys unique, permits honoured), and is all of it a `CommitLane`? With panics, failed transitions and failed rollbacks. | 408,540 |
| `worker_join` | Does a join of the worker return whatever the kernel does, unless it interrupts a shutdown's drain with a flip unacknowledged, and does every accepted commit come back, with panics and lost notifications? | 74,793 |
| `cycle` | Both transports, the fallback from one to the other and two suspensions: do arbiter and worker agree, is an early pageflip its own commit's, is the awaited pageflip kept, do framebuffers keep an owner, are the "cannot happen" errors never taken, and do commits settle? | 21,286 |
| `pipeline` | Does every buffer have one owner and is it reused only after its fence? Do ledger and swapchain agree, is every batch settled once and no prepared frame overtaken? Does every frame, and every recovery, end? | 168,878 |
| `client_queue` | Are transactions of a root published in order, when ready, FIFO-spaced; is every buffer in exactly one place, and does the change list ask for what the queue waits for? With commits migrated past the limit. | 800,966 |
| `client_watches` | Does every acquire keep one owner through suspensions, reconfigurations and failing calls? Does the registry implement what the queue expects, and is every tree settled whose acquires signalled? | 212,072 |
| `shutdown` | Is KMS given back only after the last flip and the last process of the session? Is everyone told, nobody killed without a warning or restarted late, every exit reaped, and does a shutdown end (unless its seat is taken away while it waits for the worker's flip)? | 215,049 |
| `render_worker` | Does the worker draw what the synchronous transport would; are controls applied once and in order, pools kept while used, wake-ups not lost; does every job settle and every quiesce end? With refusals, partial batches, panics, failed maintenance and a stuck GPU. | 620,682 |

Four more runs end in a violation and are explained under *Findings*. A property that
is a conjunction groups invariants about one question; the conjuncts are definitions
of their own, named and explained in the module (`LedgerInv`, for example, is
`TypeOK`, `LedgerAgrees`, `DeferredWaitsForLive`, `FatalCauses` and `ResumeWatched`).

**Bounds.** `MaxJobs = 2` fills the lane (one in flight, one behind it), and
`MaxSidecars = 1` fills the one-slot mailbox. `worker_join` has no sidecars, since no wait
of the worker ends with one; for composited frames its properties were also checked once
with a sidecar (249,669 distinct states) and with three commits (253,712). The properties
of `worker_core` were also checked once with three commits (5,536,752) and with two
sidecars (1,383,386), without an error; the smaller bounds are kept because they run in
about a minute. `MaxToken = 5` and `MaxSuspend = 2` let a
pageflip and a worker event of one session meet the next one and the one after
it. `pipeline` has the three slots of the code, four transactions (one more than
slots, so a buffer is used again), a re-plan and two pool generations with an aborted
recovery. `client_queue` lowers the limit of eight to two so that three commits
reach it; three commits also give a target, a merge into it and a successor. Its
migrated commits detach the root, with or without a waiting child (`CachedKinds`), so
that they are queued, merged, or published and can stand behind a full queue.
`client_watches` uses only waiting roots, since the registry never sees another kind, and
no migration, which asks for its acquires as a commit does. `shutdown` has four processes: shell, application, and
two that a restart or XWayland may take. `render_worker` lowers the lane's capacity
of sixteen to two and has two pools, the most that exist at a time (active and
candidate).

**Deadlock.** `worker_join`, `shutdown` and the violation run of the worker check it; a
worker stuck in the drain still has its spurious wake-ups, so it shows in the liveness
properties only.
`worker_core` does not: with `transition` faults the system can stop for good
(`WorkerFatalJoin.cfg`; without them the same instance has no deadlock). The
others do not, since identities are bounded and an error ends the runtime.

**Fairness.** `JoinSpec`: the worker thread is scheduled and a join that can return
does; nothing is assumed of the kernel. `CommitSettles` of the worker is stated under
`ProgressFairness`, which adds that the main thread
finishes the calls it has begun (it runs them straight through), that the kernel
completes commits, and strong fairness of draining events and acknowledging
pageflips, since every cycle does both before it plans a frame. In the other modules
`Fairness` says that the main loop runs its handlers, that the worker goes on, and
that the kernel or GPU answers: a flip completes, a fence signals, a killed process
exits. In `AcquireWatches` the tree is settled only once its points have signalled,
and the client is not assumed to go on. In `RenderWorker` a GPU call may be stuck for ever; `JobSettles` is stated
under the assumption that it returns, `QuiesceEnds` is not. Refusals, timeouts, seat events,
spurious wake-ups and failures are never forced.

## Proofs

Every safety property and every action property that a passing run checks is also
proved, for all values of the constants that satisfy the named assumptions of the
modules: bounds are natural numbers (`BoundsAssumption`, `CycleAssumption`,
`RequestsAssumption`, `SupervisorAssumption`, `WatchAssumption`, `RenderAssumption`),
capacities and limits are positive (`RenderAssumption`, `QueueAssumption`), a pool has a
slot (`SlotsAssumption`), roots are finitely many, and shapes, kinds and faults are
among the ones the module distinguishes (`ShapesAssumption`, `FaultsAssumption`). One
theorem has one more hypothesis, `OwnershipKept` below.

Hardly any of the properties is inductive as it stands. For each component there is one
inductive invariant, checked by TLC before it was proved, with a lemma per action or per
conjunct, and the theorems follow from it.

**The KMS worker** (`KmsWorkerProofs`), for every `MaxJobs`, `MaxSidecars`, set of shapes
and set of faults:

* `TypeCorrect`: `Spec => []TypeOK`, one lemma per group of variables.
* `SubmissionSafe`, and from it `SubmissionExclusive` (the ioctl is entered only when
  nothing is in the kernel, unhandled or unacknowledged) and `StopComplete` (after a
  stopping call returned no ioctl runs, and all the kernel has is the in-flight commit
  unless it was abandoned).
* `AdmissionSafe`: `Spec => []AdmissionSound`, from `WorkerInvariant`.
* `WorkerImplementsLane`: `Spec => ImplementsLane`, the refinement of `CommitLane`.
* `OwnershipKept`: `Spec => []OwnershipConserved`, if `notify` is not among the faults.
  The hypothesis is that of the run, and it is needed: `WorkerNotifyLoss.cfg` (below) shows
  a commit that is lost when a notification fails.

*Submission.* That the kernel is empty on entry to the ioctl follows from what happened
when the commit was taken, many steps earlier, so `HandInv` carries "nothing is in
flight" through every control point at which the worker holds a commit, including the
ones it will return to after publishing an event (`ret`). `KernelInv` ties the kernel's
commits to the in-flight slot while nothing was abandoned, with the one exception of the
step between the ioctl and the transfer. That no stop slips into that gap is `GateInv`:
the gate is held exactly there. `QueueInv` (commits are numbered from 1) separates a real
commit from the empty slot.

*Admission.* `AdmissionInv` adds that the queue and the permit share one slot
(`SlotInv`), that the shared state names the commit the worker works on (`GuardInv`, the
reason why a key in execution is refused), that the keys of permit, queue, execution and
flight differ (`KeyInv`), that a commit in hand is alone (`AloneInv`), that the
compositor plans on the last pageflip it has seen (`PlanInv`), that what a running worker
validates against is what the screen shows (`EstablishedInv`), and that numbers are
taken and submitted in order (`OrderInv`). The last is also what the refinement needs:
the lane's flight, queue and closing are read off the worker (`ImplementsLane`), and only
an ioctl, an enqueue, an acknowledgement and an abandonment are steps of the lane; every
other step returns commits or changes nothing the lane sees.

*Ownership.* A commit is counted in six kinds of places, an unattached sidecar in four;
`TokenInv` says that the count is one for what was accepted and zero for what was not, and
that no two events carry the same one. A step moves the contents of one place, all
of them, into another (`Moves`: the eleven flows of bundles and seven of sidecars),
attaches a sidecar to a commit (`Joins`), or is `Enqueue` or `OfferSidecar`, which put a new
number into one place. That a place is empty before something is put there
in place of what it held is `HandoverInv`: an event that is not being published is none, and
a commit leaves the worker's hands only at points that settle it. The last lemmas
turn the count into the `Cardinality` of the property.

**The presentation cycle** (`PageflipCycleProofs`), for every number of tokens and
suspensions and either transport: `Inductive` (`Spec => []CycleInv`) and from it
`LaneRepresentation` (`LaneInv`), `CommitsOwned` (`OwnershipHeld`), `OnlyTimeouts`
(`OnlyTimeoutsFail`) and `CompletionsKept` (`CompletionKept`). Whether an event matches
the arbiter depends on which undelivered events there can be and in which order, so
`CycleInv` follows one commit from the queue to its acknowledgement: `LaneShape`,
`Traffic` and `Room` say what the worker can still hold and announce, `Order` and
`Refused` that tokens reach the kernel and the device file in order, `Agreement` that the
arbiter names the same commit at every moment in between, `Flow` where its pageflip is.

**The output pipeline** (`OutputPipelineProofs`), for every set of slots and every
bound: `BuffersExclusive` (`SlotExclusive`), `LedgerSound` (`LedgerInv`), `ReuseSafe`
(`ReuseAfterFence`) and `OutcomeUnique` (`OneOutcome`), from the invariant `IInv`. Its
core is `Lane`: while the runtime lives, at most one frame has a refresh reserved for it,
and a frame drawn behind it is deferred to it. From that, a pageflip never overtakes a
prepared frame (`FlipPlain`) and a finished render is never stale (`FinishPlain`): the
abandonment paths of the code for both cases are unreachable on this path. `Fresh`
(transactions are handed out in order) makes a settled batch stay settled; `LedgerAgrees`
separates the roles by the states of their transactions; and that a session switch leaves
room for what it abandons is a count of the frames it can find (`AtMostTwo`). A switch
settles nothing: a transaction of a retained frame is still `Queued` while the frame is
among the suspended ones, and the agreement is proved through that state to the recovery.

**The surface transactions** (`SurfaceTransactionsProofs`), for every set of roots, every
limit and every number of commits: `QueueKeepsOrder` (`QueueInv`), `OnlyReadyPublished`
(`PublishedReady`), `BuffersInOnePlace` (`BuffersPartition`), `ChangesMatch`
(`ChangesAgree`) and `FifoPaced` (`FifoSpaced`), from `QueueInvariant`
(`QueueSpec => []ClientInv`). `ClientInv` says what the queue looks like: a transaction
carries newer commits than what is shown and than every one before it, no two carry the
same buffer, queued, handed-out and freed buffers are disjoint, and a client's commit is
no deeper than the limit (`Bounded`). The last needs that a pass moves every transaction
toward the head by at least the ready prefix (`Advanced`), since the limit is compared
with what is left after the pass. Every handler is
composed of four changes of the queues (push, pop, cut at the front, mark as ready), and
each has its lemmas.

**The acquire watches** (`AcquireWatchesProofs`), for any number of epochs and failing
calls, with and without the render worker: `RuntimeImplementsQueue` (the registry and
the runtime implement `QueueSpec`, so that the theorems above hold here as well),
`AcquiresOwnedOnce` (`WatchesInv`) and `SyncPathSound` (`SyncSound`), from
`WatchInvariant`. `WatchInv` adds to `ClientInv` who may own an acquire (`OwnersInv`,
which allows the owner of a request that is being cancelled) and what the modes of the
session rule out (`ModeInv`, `EpochInv`, `ReachInv`).

**The shutdown** (`NativeShutdownProofs`), for every number of processes, restarts and
waiting requests: `GivenBack` (`KmsGivenBack`), whose `GivenBackInv` says that what the
lifecycle recorded of the last page flip (none expected, confirmed, forced) is what
became of it; `AskedToStop` (`StopsAsked`) and `StoppedInOrder` (`OrderlyStops`), whose
`StopInv` says that everyone who must stop has been told and that the grace period
begins only then; and `ShellsTrusted` (`SupervisorInv`), whose `TrustInv` follows a
restart from the reap that finds the exit to the transfer of the authorization.

**The render worker** (`RenderWorkerInvariant`, `RenderWorkerProofs`), for every capacity
of the lane, every number of pools, generations and reloads and every set of faults:
`RenderProtocol` (`ProtocolInv`), `PoolsOutliveDomains` (`PoolsBacked`), `WakeupsKept`
(`NoLostWakeup`) and `WorkerRendersAsSynchronous` (`RendersAsSynchronous`), from
`RenderInvariant`. `RenderInv` says that a busy worker has one job in one place and the
reactor the continuation of exactly that one, which pool each domain has at each stage of
a candidate, that a batch on its way continues what was applied, and that this batch and
the pending controls would make of the worker's domains what the reactor wants. The
central fact is `EnqueueApplies`: queueing a control, coalescing included, does to a
domain what applying it after the queue would have done.

Batches and queues are sequences of any length. Where a handler walks along one
(`HandleBatch`, `ApplyBatch`) the model uses a recursive function, and the proof argues
about the least position at which the claim would fail.

**Model-checked only:** liveness (`JoinTerminates`, `CommitSettles` and the other
progress properties of each module), which needs fairness and `ENABLED` and is out of the
prover's reach.

## Findings

Each is a run that TLC refutes, with the behaviour in its trace.

* `worker_drain_join`: a seat disabled during a shutdown's drain hangs the compositor.
  `request_quiesce` changes only a `Running` worker (`kms_worker/queue.rs:962`), so the
  draining worker goes on waiting for an acknowledgement or the drain's deadline
  (`kms_worker/thread.rs:1676`), and `join_kms_worker` (`runtime/session_io.rs:354`)
  blocks the thread that gives both. The test
  `seat_disable_during_pageflip_drain_preserves_bounded_deadline`
  (`runtime/shutdown.rs:348`) says that the deadline holds. `JoinTerminates`,
  `CommitSettles` and `ShutdownEnds` are the part that holds: in every other case.
* `cycle_stale_flip`: after a resume the drain may keep a stale pageflip and drop
  the awaited one read with it (`scanout/mod.rs:891`). `CompletionKept` is the part
  that holds: before the first resume, when no stale event can exist.
* `client_epoch`: "Callers must park every request before changing this epoch"
  (`src/native/explicit_sync.rs:185`). The render-worker path of an output
  configuration registers the parked requests again before it publishes the epoch;
  their completions are then dropped.
* `render_teardown`: a worker that fails while it prepares or promotes a candidate
  leaves the candidate unsettled, and the wait of the teardown, whose comments call it
  bounded, has a deadline only while the worker is busy.

**Further counterexamples.** These configurations are kept with the project; TLC
refutes each of them with the behaviour described.

| configuration | module | property | behaviour |
|---|---|---|---|
| `WorkerPromotion.cfg` | `MCKmsWorker` | `NoInflightAtPromotion` | `debug_assert!(state.inflight.is_none())` (`kms_worker/queue.rs:646`) can fail: the acknowledgement just before it lets the worker submit the successor. |
| `WorkerFatalJoin.cfg` | `MCKmsWorker` | `JoinTerminates` | A failed transition makes the worker fatal with its commit in flight; the pageflip wait does not leave on `Fatal` and the join waits for ever. |
| `WorkerNotifyLoss.cfg` | `MCKmsWorker` | `JobConserved` | When the first of three notifications about a refused commit fails, the commit is dropped. |
| `WorkerStaleBase.cfg` | `MCKmsWorker` | `IdleLaneAccepts` | A successor cancelled after the promotion leaves a base that no later plan matches. |
| `CycleUndrained.cfg` | `PageflipCycle` | `TimeoutAfterDrain` | A worker timeout in a cycle DRM did not wake ends the runtime with "DRM drain found no completion" although no drain ran. |
| `PipelinePoisoned.cfg` | `OutputPipeline` | `PoisonEndsRuntime` | A failed frame poisons the pool; every later operation is refused and the runtime goes on with a frozen picture. |
| `ClientAnchor.cfg` | `SurfaceTransactions` | `AnchorKept` | A bufferless commit in between hides the acquire a transaction is anchored on from the guard that keeps it from being replaced. |
| `ShutdownLaunches.cfg` | `NativeShutdown` | `LaunchesSettled` | Launch requests beyond what one turn settles are still queued when the shutdown is complete. |

## Not modelled

Numeric policy (pacing, dispatch windows, adaptive buffering), encoding of KMS
requests, GPU work, geometry and protocol formatting: most of the program's lines, and
out of a model checker's reach. One output and one CRTC throughout.

* `OutputPipeline`: direct scanout and variable refresh, cursor-only commits, and the
  consistency errors inside swapchain and ledger that the invariants exclude.
* `SurfaceTransactions`: content-update dependencies between roots, commit timing,
  resize captures and frame callbacks; a FIFO commit both waits for and sets the
  barrier.
* `AcquireWatches`: an error that ends the runtime is not a step; what precedes it is
  a prefix of a modelled behaviour.
* `RenderWorker`: the bootstrap before the first frame, the effect reload at startup,
  and the cancel of a preparation the worker has not taken.
* `NativeShutdown`: when the reactor sleeps (a cycle may always come), what the restore
  writes, XWayland's start-up handshake and its Satellite mode.
* Output configuration: validation, confirmation, rollback, persistence, and the
  cursor's part of the boundary.

## Plan

1. `SystemActionTransport`: the bounded, coalescing outbound queue and the handshake.
2. Direct scanout and variable refresh in `OutputPipeline`; DMA-BUF release beside it.
3. The confirmation and rollback of an output configuration, with the cursor's
   arbitration in the boundary.
4. Content-update dependencies between roots in `SurfaceTransactions`.
5. A checked refinement between `PageflipCycle`'s coarse worker and `KmsWorker`.
