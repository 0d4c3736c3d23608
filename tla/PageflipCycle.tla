--------------------------- MODULE PageflipCycle ---------------------------
(***************************************************************************)
(* The main thread's presentation cycle around the commit arbiter: wake,   *)
(* worker events, seat events, DRM drain, acknowledgment and the next      *)
(* enqueue (native_output/runtime: cycle.rs, cycle/pageflip.rs,            *)
(* kms_worker.rs, session_io.rs), interleaved with the commit worker, the  *)
(* kernel and the seat.  The worker appears as the lane that module        *)
(* KmsWorker describes in detail: a queue of one, a commit in hand, a      *)
(* commit in flight and a FIFO of events.  The kernel is external: it      *)
(* accepts one nonblocking commit and later makes its pageflip readable.   *)
(*                                                                         *)
(* Commits go through the worker or the synchronous path, as chosen at     *)
(* startup from "Transports".  The scanout is the explicit one             *)
(* (NativeScanoutBackend::AtomicEglGbm).  Bounds: MaxToken pageflip        *)
(* tokens, MaxSuspend session suspensions.                                 *)
(***************************************************************************)
EXTENDS AtomicCommitArbiter, Sequences

CONSTANTS Transports, MaxToken, MaxSuspend

ASSUME CycleAssumption ==
    /\ Transports \subseteq {"Worker", "Synchronous"} /\ Transports # {}
    /\ MaxToken \in Nat \ {0}
    /\ MaxSuspend \in Nat

VARIABLES
    transport,  \* kms_commit_worker_transport
    head,       \* OutputHead: arbiter, epoch, ownership, deferred pageflip
    session,    \* NativeSessionLifecycle.state
    cycle,      \* the cycle in progress: phase, wake reasons, its pageflip
    failed,     \* the error that ended the runtime, "none" while it runs
    lane,       \* the commit worker
    events,     \* worker events the main thread has not drained
    kernel,     \* the commit the kernel holds and the readable pageflips
    tokens,     \* tokens allocated so far
    suspends    \* suspensions so far

vars == <<transport, head, session, cycle, failed, lane, events, kernel,
          tokens, suspends>>

Tokens == 1 .. MaxToken
OptToken == 0 .. MaxToken
Epochs == 1 .. MaxSuspend + 1

Event(kind, token, generation) ==
    [kind |-> kind, token |-> token, generation |-> generation]
Waiting == [phase |-> "wait", reasons |-> {}, flip |-> 0, timeout |-> 0]
IdleLane == [alive |-> TRUE, stopping |-> FALSE, queue |-> 0, job |-> 0,
             pc |-> "idle", inflight |-> 0, overdue |-> FALSE, epoch |-> 1]

Init ==
    /\ transport \in Transports
    /\ head = [arb |-> NewArbiter, epoch |-> 1, ownership |-> {},
               quarantine |-> {}, deferred |-> 0, timeout |-> 0]
    /\ session = "Active"
    /\ cycle = Waiting
    /\ failed = "none"
    /\ lane = [IdleLane EXCEPT !.alive = (transport = "Worker")]
    /\ events = <<>>
    /\ kernel = [pending |-> 0, readable |-> <<>>]
    /\ tokens = 0
    /\ suspends = 0

(***************************************************************************)
(* The worker and the kernel                                               *)
(***************************************************************************)
Others == <<transport, head, session, cycle, failed, tokens, suspends>>

\* The loop takes the queued commit once nothing is in flight.
WorkerTake ==
    /\ lane.alive /\ ~lane.stopping
    /\ lane.pc = "idle" /\ lane.queue # 0 /\ lane.inflight = 0
    /\ lane' = [lane EXCEPT !.pc = "ioctl", !.job = lane.queue, !.queue = 0]
    /\ UNCHANGED <<events, kernel, Others>>

\* The ioctl returns success: from here the kernel owns the commit, but the
\* main thread has not been told.
WorkerSubmit ==
    /\ lane.pc = "ioctl"
    /\ kernel.pending = 0
    /\ kernel' = [kernel EXCEPT !.pending = lane.job]
    /\ lane' = [lane EXCEPT !.pc = "publish"]
    /\ UNCHANGED <<events, Others>>

\* TEST_ONLY or the ioctl refuses the commit, or its EBUSY retries run out.
WorkerReject ==
    /\ lane.pc = "ioctl"
    /\ lane' = [lane EXCEPT !.pc = "idle", !.job = 0]
    /\ events' = Append(events, Event("Rejected", lane.job, lane.epoch))
    /\ UNCHANGED <<kernel, Others>>

WorkerPublish ==
    /\ lane.pc = "publish"
    /\ lane' = [lane EXCEPT !.pc = "idle", !.job = 0, !.inflight = lane.job,
                            !.overdue = FALSE]
    /\ events' = Append(events, Event("Submitted", lane.job, lane.epoch))
    /\ UNCHANGED <<kernel, Others>>

\* The pageflip wait exceeds its limit; reported once per commit.
WorkerTimeout ==
    /\ lane.alive /\ lane.pc = "idle" /\ lane.inflight # 0 /\ ~lane.overdue
    /\ lane' = [lane EXCEPT !.overdue = TRUE]
    /\ events' = Append(events,
                        Event("PageflipTimeout", lane.inflight, lane.epoch))
    /\ UNCHANGED <<kernel, Others>>

\* A quiescing worker hands the queued commit back and exits; a commit in
\* flight does not hold it.
WorkerStop ==
    /\ lane.alive /\ lane.stopping /\ lane.pc = "idle"
    /\ lane' = [lane EXCEPT !.alive = FALSE, !.queue = 0, !.inflight = 0]
    /\ events' = Append(events, Event("Quiesced", lane.queue, lane.epoch))
    /\ UNCHANGED <<kernel, Others>>

KernelFlip ==
    /\ kernel.pending # 0
    /\ kernel' = [pending |-> 0,
                  readable |-> Append(kernel.readable, kernel.pending)]
    /\ UNCHANGED <<lane, events, Others>>

(***************************************************************************)
(* Wake: epoll reports what is ready; the DRM and worker sources are       *)
(* registered while the session owns the device.                           *)
(***************************************************************************)
Ready ==
    (IF session = "Active" /\ kernel.readable # <<>> THEN {"drm"} ELSE {})
    \cup (IF session = "Active" /\ lane.alive /\ events # <<>>
          THEN {"worker"} ELSE {})

Wake ==
    /\ cycle.phase = "wait" /\ failed = "none"
    /\ \E extra \in SUBSET {"timer", "seat", "fence"} :
        /\ "timer" \in extra => session = "Active"
        /\ "seat" \in extra => session # "Active" \/ suspends < MaxSuspend
        /\ "fence" \in extra => session = "Resuming"
        /\ Ready \cup extra # {}
        /\ cycle' = [Waiting EXCEPT !.phase = "events",
                                    !.reasons = Ready \cup extra]
    /\ UNCHANGED <<transport, head, session, failed, lane, events, kernel,
                   tokens, suspends>>

(***************************************************************************)
(* Worker events                                                           *)
(***************************************************************************)
Fail(h, why) == [h |-> h, failed |-> why]
Go(h) == [h |-> h, failed |-> "none"]

\* quarantine_submitted_ownership: the commit's resources are kept, and
\* quarantine_after_worker_fatal forgets everything pending.
QuarantineSubmitted(h, token) ==
    [h EXCEPT !.quarantine = @ \cup {token}, !.deferred = 0, !.timeout = 0,
              !.arb = AbandonForRecovery(h.arb)]

\* submitted_worker_ownership keeps the framebuffer leases of the commit.
RetainOwnership(h, token) == [h EXCEPT !.ownership = @ \cup {token}]

\* Submitted: validation against the queued slot, ownership, phase change and
\* replay of a pageflip that overtook this event.
HandleSubmitted(h, e) ==
    IF e.generation # h.epoch THEN Go(h)
    ELSE IF h.arb.worker_queued.token # e.token
    THEN Fail(QuarantineSubmitted(h, e.token), "unmatched submission")
    ELSE LET marked == MarkKernelSubmitted(h.arb, e.token)
             owned  == RetainOwnership(h, e.token)
         IN IF ~marked.ok THEN Fail(owned, "commit already submitted")
            ELSE Go([owned EXCEPT
                       !.arb = ReplayDeferredPageflip(marked.arb),
                       !.deferred = IF marked.arb.early_pageflip # 0
                                    THEN marked.arb.early_pageflip ELSE @])

\* process_kms_worker_event_inner, by kind of event.
HandleEvent(h, e) ==
    IF e.kind = "Submitted" THEN HandleSubmitted(h, e)
    ELSE IF e.kind = "PageflipTimeout"
    THEN Go(IF h.arb.kernel_submitted.token = e.token
            THEN [h EXCEPT !.timeout = e.token] ELSE h)
    ELSE Go([h EXCEPT !.arb = RejectWorkerQueued(h.arb, e.token)])

\* process_kms_worker_events: the first error abandons the rest of the batch.
HandleBatch(h, batch) ==
    LET done[n \in 0 .. Len(batch)] ==
            IF n = 0 THEN Go(h)
            ELSE IF done[n - 1].failed # "none" THEN done[n - 1]
            ELSE HandleEvent(done[n - 1].h, batch[n])
    IN done[Len(batch)]

\* The cycle runs the batch only when the worker or the DRM source woke it,
\* then takes the deferred pageflip and the timeout for itself.
ProcessEvents ==
    /\ cycle.phase = "events" /\ failed = "none"
    /\ LET run  == lane.alive /\ cycle.reasons \cap {"worker", "drm"} # {}
           done == IF run THEN HandleBatch(head, events) ELSE Go(head)
       IN /\ events' = IF run THEN <<>> ELSE events
          /\ failed' = done.failed
          /\ IF done.failed # "none"
             THEN head' = done.h /\ cycle' = Waiting
             ELSE /\ head' = [done.h EXCEPT !.deferred = 0, !.timeout = 0]
                  /\ cycle' = [cycle EXCEPT !.phase = "seat",
                                            !.flip = done.h.deferred,
                                            !.timeout = done.h.timeout]
    /\ UNCHANGED <<transport, session, lane, kernel, tokens, suspends>>

(***************************************************************************)
(* Seat events and session recovery                                        *)
(***************************************************************************)
NoSeatEvent ==
    /\ cycle.phase = "seat" /\ failed = "none"
    /\ "seat" \notin cycle.reasons /\ "fence" \notin cycle.reasons
    /\ cycle' = [cycle EXCEPT !.phase = "drain"]
    /\ UNCHANGED <<transport, head, session, failed, lane, events, kernel,
                   tokens, suspends>>

\* Disable: the worker is asked to quiesce, and the cycle blocks in join.
SeatDisable ==
    /\ cycle.phase = "seat" /\ failed = "none"
    /\ "seat" \in cycle.reasons /\ session = "Active"
    /\ session' = "Suspending"
    /\ suspends' = suspends + 1
    /\ lane' = [lane EXCEPT !.stopping = TRUE]
    /\ cycle' = [cycle EXCEPT !.phase = "join"]
    /\ UNCHANGED <<transport, head, failed, events, kernel, tokens>>

Quarantined(batch) ==
    {e.token : e \in {batch[i] : i \in {j \in DOMAIN batch :
                                        batch[j].kind = "Submitted"}}}

\* Mutant of QuarantinePageflip: the arbiter keeps what was pending.
QuarantineForgotten(h) == [h EXCEPT !.deferred = 0]

\* quarantine_pageflip: everything pending is forgotten, its resources are
\* not released before a recovery modeset.
QuarantinePageflip(h) ==
    [h EXCEPT !.deferred = 0, !.arb = AbandonForRecovery(h.arb)]

\* Mutant of JoinWorker: events left by the joined worker are discarded.
JoinDiscards ==
    /\ cycle.phase = "join" /\ ~lane.alive
    /\ events' = <<>>
    /\ head' = QuarantinePageflip(head)
    /\ session' = "Suspended"
    /\ cycle' = Waiting
    /\ UNCHANGED <<transport, failed, lane, kernel, tokens, suspends>>

\* The joined worker's last events: submissions are quarantined, returned
\* jobs kept; then the pageflip quarantine and the disable acknowledgment.
\* The cycle ends here because the session no longer permits output.
JoinWorker ==
    /\ cycle.phase = "join" /\ ~lane.alive
    /\ events' = <<>>
    /\ head' = QuarantinePageflip(
                 [head EXCEPT !.quarantine = @ \cup Quarantined(events)])
    /\ session' = "Suspended"
    /\ cycle' = Waiting
    /\ UNCHANGED <<transport, failed, lane, kernel, tokens, suspends>>

\* restart_kms_commit_worker_after_recovery: where the worker cannot be
\* restarted and the policy is Auto, the transport is synchronous from then on;
\* with another policy the recovery fails (RecoveryFails).
RestartTransports == {transport, "Synchronous"}

\* The rest of recovery once no suspended fence is outstanding: quarantined
\* resources are released, the epoch advances and the worker restarts.
FinishRecovery ==
    /\ session' = "Active"
    /\ head' = [head EXCEPT !.ownership = {}, !.quarantine = {},
                            !.epoch = @ + 1]
    /\ transport' \in RestartTransports
    /\ lane' = [IdleLane EXCEPT !.alive = (transport' = "Worker"),
                                !.epoch = head.epoch + 1]
    /\ cycle' = [cycle EXCEPT !.phase = "drain"]

WaitForSuspendedFence ==
    /\ session' = "Resuming"
    /\ cycle' = Waiting
    /\ UNCHANGED <<transport, head, lane>>

\* Enable: a blocking modeset, which the kernel runs after the commit it
\* holds has flipped, then recovery, at once or after a suspended fence.  The
\* device file is the same one, and nothing reads what is readable on it.
SeatEnable ==
    /\ cycle.phase = "seat" /\ failed = "none"
    /\ "seat" \in cycle.reasons /\ session = "Suspended"
    /\ kernel' = [pending |-> 0,
                  readable |-> IF kernel.pending = 0 THEN kernel.readable
                               ELSE Append(kernel.readable, kernel.pending)]
    /\ FinishRecovery \/ WaitForSuspendedFence
    /\ UNCHANGED <<failed, events, tokens, suspends>>

\* The suspended fence signals while the session is still resuming.
ContinueRecovery ==
    /\ cycle.phase = "seat" /\ failed = "none"
    /\ "fence" \in cycle.reasons /\ "seat" \notin cycle.reasons
    /\ session = "Resuming"
    /\ FinishRecovery
    /\ UNCHANGED <<failed, events, kernel, tokens, suspends>>

\* Disable during recovery: the recovery is abandoned.
AbortResume ==
    /\ cycle.phase = "seat" /\ failed = "none"
    /\ "seat" \in cycle.reasons /\ session = "Resuming"
    /\ session' = "Suspended"
    /\ cycle' = Waiting
    /\ UNCHANGED <<transport, head, failed, lane, events, kernel, tokens,
                   suspends>>

\* A failed recovery ends the runtime without touching the device again.
RecoveryFails ==
    /\ cycle.phase = "seat" /\ failed = "none"
    /\ \/ "seat" \in cycle.reasons /\ session = "Suspended"
       \/ "fence" \in cycle.reasons /\ "seat" \notin cycle.reasons
          /\ session = "Resuming"
    /\ session' = "Failed"
    /\ failed' = "recovery"
    /\ cycle' = Waiting
    /\ UNCHANGED <<transport, head, lane, events, kernel, tokens, suspends>>

(***************************************************************************)
(* DRM drain and acknowledgment                                            *)
(***************************************************************************)
ShouldDrain ==
    \/ "drm" \in cycle.reasons
    \/ "timer" \in cycle.reasons /\ atomic_commit_pending(head.arb)

\* drain_page_flip_events empties the device file and keeps the first event.
Drained == IF ShouldDrain THEN <<>> ELSE kernel.readable
FirstDrained ==
    IF ShouldDrain /\ kernel.readable # <<>> THEN Head(kernel.readable) ELSE 0

\* The cycle's completion: a deferred pageflip was already completed by its
\* replay; otherwise the arbiter validates the drained one.
Completion(overdue) ==
    IF cycle.flip # 0
    THEN [arb |-> head.arb, token |-> cycle.flip, timeout |-> FALSE]
    ELSE ValidateAtomicPageflip(head.arb, FirstDrained, head.epoch,
                                transport = "Worker", overdue)

\* With a worker, a completion must be one of the retained submissions, and
\* the worker must be waiting for exactly that commit.
AckError(token) ==
    IF transport = "Worker" /\ token # 0
       /\ (token \notin head.ownership \/ lane.inflight # token)
    THEN "unmatched acknowledgment" ELSE "none"

DrainError(done) ==
    IF done.timeout THEN "watchdog"
    ELSE IF cycle.timeout # 0 /\ done.token = 0 THEN "timeout"
    ELSE AckError(done.token)

\* Pageflip drain, validation, timeouts, and for a completion the promotion,
\* the worker acknowledgment and the release of the submitted ownership.
Drain ==
    /\ cycle.phase = "drain" /\ failed = "none"
    /\ \E overdue \in {FALSE, transport = "Synchronous"} :
        LET done == Completion(overdue)
        IN /\ failed' = DrainError(done)
           /\ head' = [head EXCEPT !.arb = done.arb,
                         !.ownership = IF DrainError(done) = "none"
                                       THEN @ \ {done.token} ELSE @]
           /\ lane' = IF DrainError(done) = "none" /\ done.token # 0
                      THEN [lane EXCEPT !.inflight = 0] ELSE lane
    /\ kernel' = [kernel EXCEPT !.readable = Drained]
    /\ cycle' = [cycle EXCEPT !.phase = "present", !.flip = 0, !.timeout = 0]
    /\ UNCHANGED <<transport, session, events, tokens, suspends>>

(***************************************************************************)
(* The end of the cycle: the next commit, if there is one                  *)
(***************************************************************************)
NothingToPresent ==
    /\ cycle.phase = "present" /\ failed = "none"
    /\ cycle' = Waiting
    /\ UNCHANGED <<transport, head, session, failed, lane, events, kernel,
                   tokens, suspends>>

\* A permit needs the worker's queue slot, the reservation the arbiter's.
Enqueue ==
    /\ cycle.phase = "present" /\ failed = "none"
    /\ transport = "Worker" /\ lane.queue = 0
    /\ worker_slot_available(head.arb)
    /\ tokens < MaxToken
    /\ tokens' = tokens + 1
    /\ head' = [head EXCEPT
                  !.arb = ReserveWorkerQueued(@, tokens + 1, head.epoch)]
    /\ lane' = [lane EXCEPT !.queue = tokens + 1]
    /\ cycle' = Waiting
    /\ UNCHANGED <<transport, session, failed, events, kernel, suspends>>

\* The synchronous path reserves, submits and on refusal cancels.
SubmitSynchronously ==
    /\ cycle.phase = "present" /\ failed = "none"
    /\ transport = "Synchronous" /\ CanReserve(head.arb)
    /\ tokens < MaxToken
    /\ tokens' = tokens + 1
    /\ LET reserved == Reserve(head.arb, tokens + 1, head.epoch)
       IN \/ /\ kernel.pending = 0
             /\ head' = [head EXCEPT !.arb = reserved]
             /\ kernel' = [kernel EXCEPT !.pending = tokens + 1]
          \/ /\ head' = [head EXCEPT !.arb = Cancel(reserved, tokens + 1)]
             /\ UNCHANGED kernel
    /\ cycle' = Waiting
    /\ UNCHANGED <<transport, session, failed, lane, events, suspends>>

MainStep ==
    \/ Wake \/ ProcessEvents
    \/ NoSeatEvent \/ SeatDisable \/ JoinWorker \/ SeatEnable
    \/ ContinueRecovery \/ AbortResume \/ RecoveryFails
    \/ Drain \/ NothingToPresent \/ Enqueue \/ SubmitSynchronously

WorkerStep ==
    \/ WorkerTake \/ WorkerSubmit \/ WorkerReject \/ WorkerPublish
    \/ WorkerTimeout \/ WorkerStop

Next == MainStep \/ WorkerStep \/ KernelFlip

Spec == Init /\ [][Next]_vars

\* The main loop runs, the worker thread runs, and the kernel completes what
\* it accepted.  Refusals, timeouts and seat events are never forced.
Fairness ==
    /\ WF_vars(MainStep)
    /\ WF_vars(WorkerTake)
    /\ WF_vars(WorkerSubmit \/ WorkerReject)
    /\ WF_vars(WorkerPublish)
    /\ WF_vars(WorkerStop)
    /\ WF_vars(KernelFlip)

FairSpec == Spec /\ Fairness

(***************************************************************************)
(* Properties                                                              *)
(***************************************************************************)
Commit == [token : OptToken, generation : 0 .. MaxSuspend + 1]
Phases == {"wait", "events", "seat", "join", "drain", "present"}
Failures == {"none", "timeout", "watchdog", "recovery", "unmatched submission",
             "commit already submitted", "unmatched acknowledgment"}

\* Every variable has its type, and the event queue of a lane of one commit
\* in flight and one queued stays short: a commit adds a submission, at most
\* one timeout (WorkerTimeout of the pageflip wait reports once) and a stop.
TypeOK ==
    /\ transport \in {"Worker", "Synchronous"}
    /\ head \in [arb : [kernel_submitted : Commit, worker_queued : Commit,
                        early_pageflip : OptToken,
                        watchdog_reported : BOOLEAN],
                 epoch : Epochs, ownership : SUBSET Tokens,
                 quarantine : SUBSET Tokens, deferred : OptToken,
                 timeout : OptToken]
    /\ session \in {"Active", "Suspending", "Suspended", "Resuming",
                   "Failed"}
    /\ cycle \in [phase : Phases, flip : OptToken, timeout : OptToken,
                  reasons : SUBSET {"drm", "worker", "timer", "seat", "fence"}]
    /\ failed \in Failures
    /\ lane \in [alive : BOOLEAN, stopping : BOOLEAN, queue : OptToken,
                 job : OptToken, pc : {"idle", "ioctl", "publish"},
                 inflight : OptToken, overdue : BOOLEAN, epoch : Epochs]
    /\ Len(events) <= 3
    /\ kernel.pending \in OptToken
    /\ Len(kernel.readable) <= MaxToken
    /\ tokens \in OptToken
    /\ suspends \in 0 .. MaxSuspend

Announced(kinds) ==
    {events[i].token : i \in {j \in DOMAIN events : events[j].kind \in kinds}}

Running == session = "Active" /\ failed = "none"

\* While the session is active the arbiter and the worker agree on the lane.
\* The arbiter's queued commit is the one the worker has queued, has in hand or
\* has just announced, its kernel commit is the one the worker waits for, and
\* the worker holds nothing the arbiter does not (reserve_worker_queued,
\* mark_kernel_submitted and reject_worker_queued against the worker's moves).
LaneAgrees ==
    Running /\ transport = "Worker" =>
        LET queued == {lane.queue, lane.job}
                      \cup Announced({"Submitted", "Rejected"})
        IN /\ head.arb.worker_queued.token \in queued \cup {0}
           /\ queued \ {0} \subseteq {head.arb.worker_queued.token}
           /\ head.arb.kernel_submitted # NoCommit =>
                  lane.inflight = head.arb.kernel_submitted.token

\* The early pageflip the arbiter stores always belongs to the commit it has
\* queued.  replay_deferred_pageflip completes the kernel slot without comparing
\* tokens and reserve_worker_queued clears the field, so both rest on this.
EarlyFlipIsOwn ==
    head.arb.early_pageflip # 0 =>
        head.arb.worker_queued.token = head.arb.early_pageflip

\* The representation of the lane: its types and bounds, and both agreements.
LaneInv == TypeOK /\ LaneAgrees /\ EarlyFlipIsOwn

\* A commit the kernel still holds has an owner that keeps its framebuffers
\* alive: the worker that has not announced it, an undelivered event, the
\* submitted ownership of the head or the quarantine.
OwnershipHeld ==
    transport = "Worker" /\ kernel.pending # 0 /\ failed = "none" =>
        \/ lane.pc = "publish" /\ lane.job = kernel.pending
        \/ kernel.pending \in Announced({"Submitted"})
        \/ kernel.pending \in head.ownership \cup head.quarantine

\* The error returns for a submission or an acknowledgment that matches nothing
\* (validate_submitted_ownership, mark_kernel_submitted, ack_pageflip_identity)
\* are never taken: only a timeout or a failed recovery ends the runtime.
OnlyTimeoutsFail == failed \in {"none", "timeout", "watchdog", "recovery"}

Awaited == IF transport = "Worker" THEN lane.inflight
                                   ELSE head.arb.kernel_submitted.token

\* The pageflip of the commit everybody waits for is never lost.  Once the
\* kernel has flipped, it is readable, stored by the arbiter, or with the head or
\* the cycle that will acknowledge it.
NoCompletionLost ==
    Running /\ Awaited # 0 =>
        \/ kernel.pending = Awaited
        \/ \E i \in DOMAIN kernel.readable : kernel.readable[i] = Awaited
        \/ Awaited \in {head.arb.early_pageflip, head.deferred, cycle.flip}

\* The same until the session is first resumed: before that no event of an abandoned
\* commit can be on the device file.
CompletionKept == head.epoch = 1 => NoCompletionLost

\* The step that ends the runtime with "DRM drain found no completion" leaves no
\* pageflip of the commit that timed out unread on the device file.
TimeoutAfterDrain ==
    [][failed = "none" /\ failed' \in {"timeout", "watchdog"} =>
         \A i \in DOMAIN kernel'.readable :
             kernel'.readable[i] # head'.arb.kernel_submitted.token]_vars

\* Every commit the arbiter accepts before a first resume leaves it: it is
\* completed, refused or quarantined, unless the runtime ends with an error.
CommitSettles ==
    \A t \in Tokens :
        (head.epoch = 1 /\ t \in {head.arb.worker_queued.token,
                                  head.arb.kernel_submitted.token})
            ~> (failed # "none" \/ t \notin {head.arb.worker_queued.token,
                                         head.arb.kernel_submitted.token})
=============================================================================
