----------------------------- MODULE KmsWorker -----------------------------
(***************************************************************************)
(* The KMS commit worker: the thread that owns the only path from the      *)
(* compositor to the display's atomic-commit ioctl, and the shared state   *)
(* (WorkerShared) through which the compositor thread talks to it.         *)
(*                                                                         *)
(* Three parties take steps:                                               *)
(*   - the worker thread (run_worker and the functions it calls), whose    *)
(*     control point is pc;                                                *)
(*   - the compositor thread, which calls the worker's handle and whose    *)
(*     control point is main;                                              *)
(*   - the kernel, which completes submitted commits.                      *)
(* One step is one critical section of WorkerShared::state, one submit-    *)
(* gate section, or one event publication.                                 *)
(***************************************************************************)
EXTENDS Integers, Sequences, FiniteSets

CONSTANTS
    MaxJobs,       \* bound: commits the compositor thread has accepted
    MaxSidecars,   \* bound: cursor sidecars it has accepted
    Shapes,        \* the commits it builds, see ShapeType
    Faults         \* the failures that may happen, a subset of FaultKinds

FaultKinds == {"notify", "panic", "transition", "rollback"}

\* primary: a framebuffer update of the primary plane, else a cursor delta.
\* target:  the fixed presentation target, 0 for a variable reservation.
\* test:    a TEST_ONLY commit precedes the real one.
\* key:     the direct-scanout candidate key, 0 for none.
ShapeType == [primary : BOOLEAN, target : Nat, test : BOOLEAN, key : Nat]

ASSUME BoundsAssumption == MaxJobs \in Nat /\ MaxSidecars \in Nat
ASSUME ShapesAssumption == Shapes \subseteq ShapeType
ASSUME FaultsAssumption == Faults \subseteq FaultKinds

QUEUED_JOB_CAPACITY == 1
MAX_BUSY_RETRIES == 2

VARIABLES
    \* WorkerState, guarded by the state mutex
    lifecycle,      \* KmsWorkerLifecycle
    queued,         \* the accepted commits not yet dequeued
    reserved,       \* the number of outstanding admission permits
    reservedKeys,   \* reserved_direct_content_keys
    executing,      \* executing, its key and its bundle identity: the dequeued
                    \* commit that has not been handed to the kernel
    inflight,       \* the submitted commit whose pageflip is not acknowledged
    phase,          \* KmsWorkerPhase
    sidecar,        \* the one-slot cursor mailbox
    established,    \* the display state the next commit is validated against
    probe,          \* the diagnostic geometry probe
    gate,           \* who holds the submit gate
    \* lossless results and jobs retained after a failure
    results, fatalJobs,
    \* the worker thread
    pc, job, retries, timeouts, verdict, out, ret,
    \* the compositor thread
    main, plan, permit, attach, revision, jobCount, sideCount,
    mainJobs, mainSides, owned,
    \* the kernel: commits in progress, completion events not yet handled
    kernel, flips,
    \* history: the bundle the last acknowledged pageflip put on screen, the
    \* number of acknowledged pageflips, the last commit the kernel accepted
    shown, acks, lastSubmitted

state  == <<lifecycle, queued, reserved, reservedKeys, executing, inflight,
            phase, sidecar, established, probe>>
thread == <<job, retries, timeouts, verdict, out, ret>>
client == <<main, plan, permit, attach, revision, jobCount, sideCount,
            mainJobs, mainSides, owned>>
device == <<kernel, flips, shown, acks, lastSubmitted>>
vars   == <<state, gate, results, fatalJobs, pc, thread, client, device>>

(***************************************************************************)
(* Data.  A commit bundle is identified by the commit's number n and the   *)
(* number s of the sidecar attached to it (0 for none): the code's         *)
(* KmsCommitBundleIdentity changes when a sidecar replaces the cursor.     *)
(***************************************************************************)
BaseType == [of : {"rev", "pred"}, n : Nat, s : Nat]
EstablishedType == [of : {"none", "rev", "pending", "bundle"}, n : Nat, s : Nat]
JobType == [id : Nat, primary : BOOLEAN, target : Nat, test : BOOLEAN,
            key : Nat, base : BaseType, crev : Nat, cur : Nat]
SidecarType == [id : Nat, with : Nat, target : Nat, base : BaseType]

Presented(r) == [of |-> "rev", n |-> r, s |-> 0]
Predecessor(j) == [of |-> "pred", n |-> j.id, s |-> j.cur]
Established(kind, j) == [of |-> kind, n |-> j.id, s |-> j.cur]
Unestablished == [of |-> "none", n |-> 0, s |-> 0]

NoJob == [id |-> 0, primary |-> FALSE, target |-> 0, test |-> FALSE,
          key |-> 0, base |-> Presented(0), crev |-> 0, cur |-> 0]
NoSidecar == [id |-> 0, with |-> 0, target |-> 0, base |-> Presented(0)]
NoShape == [primary |-> FALSE, target |-> 0, test |-> FALSE, key |-> -1]
NoPlan == [of |-> "no", n |-> 0, s |-> 0]

\* What a commit owns when it changes hands: itself and its sidecar.
BundleType == [n : Nat, s : Nat]
Bundle(j) == [n |-> j.id, s |-> j.cur]
Bundles(q) == {Bundle(q[i]) : i \in DOMAIN q}
SideIds(s) == {s.id} \ {0}

\* An event owns the commits and the unattached sidecars it carries.
EventKinds ==
    {"None", "Submitted", "TestRejected", "SubmitRejected", "BusyDeferred",
     "BusyExhausted", "PageflipTimeout", "ValidationBaseInvalidated",
     "CursorSidecarReturned", "Quiesced", "Fatal"}
EventType == [type : EventKinds, jobs : SUBSET BundleType, sides : SUBSET Nat]
Event(type, jobs, sides) == [type |-> type, jobs |-> jobs, sides |-> sides]
NoEvent == Event("None", {}, {})
EventJobs(evs) == UNION {evs[i].jobs : i \in DOMAIN evs}
EventSides(evs) == UNION {evs[i].sides : i \in DOMAIN evs}

Lifecycles == {"Running", "Quiescing", "ShutdownQuiescing",
               "ShutdownAbandoning", "Stopped", "Fatal"}
Exiting == {"Quiescing", "ShutdownQuiescing", "ShutdownAbandoning"}
Phases == {"Idle", "Dequeued", "Collecting", "Frozen", "TestOnly",
           "SubmitIoctl", "KernelInFlight"}

(***************************************************************************)
(* Helpers shared by both threads                                          *)
(***************************************************************************)

\* work_wakeup.notify: only the worker thread sleeps on that condvar.
Woken == IF pc = "takeSleep" THEN "take" ELSE IF pc = "flipSleep" THEN "flip" ELSE pc

\* A fixed-target framebuffer primary accepts a cursor sidecar until frozen.
Attachable(j) == j.primary /\ j.target # 0

\* state.executing_primary is set from dequeue to freeze.
ExecutingPrimary == Attachable(executing) /\ phase \in {"Dequeued", "Collecting"}

\* CursorSidecarMailbox::take_must_bundle_with
MustBundleWith(j) == sidecar.id # 0 /\ sidecar.with = j.id

\* CursorSidecarMailbox::claim_for, with the eligibility test of its caller
Claims(j) == /\ Attachable(j)
             /\ sidecar.id # 0
             /\ sidecar.target = j.target
             /\ sidecar.with \in {0, j.id}

\* Mutant of BaseReady: any acknowledged bundle validates any base.
BaseReadyAnyBundle(required) ==
    IF established.of = "rev" /\ required = established THEN "Ready"
    ELSE IF established.of = "bundle" THEN "Ready"
    ELSE IF established.of = "pending" THEN "Wait" ELSE "Invalidated"

\* validation_base_ready
BaseReady(required) ==
    IF established.of = "rev" /\ required = established THEN "Ready"
    ELSE IF required # [established EXCEPT !.of = "pred"] THEN "Invalidated"
    ELSE IF established.of = "bundle" THEN "Ready"
    ELSE IF established.of = "pending" THEN "Wait" ELSE "Invalidated"

\* validation_base_disposition
BaseDisposition(required) ==
    IF established.of # "none" THEN BaseReady(required)
    ELSE IF required.of = "rev" THEN "Ready"
    ELSE IF \/ inflight # NoJob /\ required = Predecessor(inflight)
            \/ ExecutingPrimary
            \/ queued # <<>> /\ Head(queued).primary
         THEN "Wait" ELSE "Invalidated"

\* pending_bundle_snapshot: the commit the next one will follow, or NoJob when
\* there is none or it may still take a cursor sidecar.
PendingBundle ==
    IF inflight # NoJob THEN inflight
    ELSE IF executing # NoJob
         THEN IF ExecutingPrimary THEN NoJob ELSE executing
         ELSE IF queued # <<>> /\ ~Head(queued).primary THEN Head(queued) ELSE NoJob

\* validation_base_for_submission
PlannedBase == IF PendingBundle = NoJob THEN Presented(revision)
               ELSE Predecessor(PendingBundle)

\* mark_fatal: the state change, the retained jobs and the Fatal event.
\* It wakes deadline sleepers only, never work_wakeup.
MarkFatal(evs) ==
    IF lifecycle = "Fatal"
    THEN /\ results' = evs
         /\ UNCHANGED <<lifecycle, queued, probe, fatalJobs>>
    ELSE /\ lifecycle' = "Fatal"
         /\ fatalJobs' = fatalJobs \cup Bundles(queued)
         /\ queued' = <<>>
         /\ probe' = "none"
         /\ results' = Append(evs, Event("Fatal", {}, {}))

-----------------------------------------------------------------------------
(***************************************************************************)
(* The worker thread                                                       *)
(***************************************************************************)

NoReturn == [ok |-> "exit", failed |-> "exit"]

\* publish_event: the caller hands over the event and the two points at
\* which it continues, after a successful and after a failed notification.
Publish(event, ok, failed) ==
    /\ out' = event
    /\ ret' = [ok |-> ok, failed |-> failed]
    /\ pc' = "publish"

PublishEvent ==
    /\ pc = "publish"
    /\ results' = Append(results, out)
    /\ out' = NoEvent
    /\ \/ pc' = ret.ok /\ ret' = NoReturn
       \/ "notify" \in Faults /\ pc' = "markFatal" /\ UNCHANGED ret
    /\ UNCHANGED <<state, gate, fatalJobs, job, retries, timeouts, verdict,
                   client, device>>

WorkerMarkFatal ==
    /\ pc = "markFatal"
    /\ MarkFatal(results)
    /\ pc' = ret.failed
    /\ ret' = NoReturn
    /\ UNCHANGED <<reserved, reservedKeys, executing, inflight, phase, sidecar,
                   established, gate, job, retries, timeouts, verdict, out,
                   client, device>>

\* Mutant of PublishQuiesced: the queued commits are not returned.
PublishQuiescedInHand(inHand) ==
    /\ lifecycle' = "Stopped"
    /\ queued' = <<>>
    /\ sidecar' = NoSidecar
    /\ Publish(Event("Quiesced", inHand, SideIds(sidecar)), "exit", "exit")

\* The Quiesced event returns the queue, the mailbox and the jobs in hand.
PublishQuiesced(inHand) ==
    /\ lifecycle' = "Stopped"
    /\ queued' = <<>>
    /\ sidecar' = NoSidecar
    /\ Publish(Event("Quiesced", inHand \cup Bundles(queued), SideIds(sidecar)),
               "exit", "exit")

\* take_next_work, one iteration per action.
TakeStopped ==
    /\ pc = "take"
    /\ lifecycle \in {"Fatal", "Stopped"}
    /\ pc' = "exit"
    /\ UNCHANGED <<state, gate, results, fatalJobs, thread, client, device>>

TakeQuiesced ==
    /\ pc = "take"
    /\ lifecycle \in Exiting
    /\ PublishQuiesced({})
    /\ probe' = IF probe = "queued" THEN "none" ELSE probe
    /\ UNCHANGED <<reserved, reservedKeys, executing, inflight, phase,
                   established, gate, results, fatalJobs, job, retries,
                   timeouts, verdict, client, device>>

ProbeIdle == /\ queued = <<>> /\ reserved = 0 /\ executing = NoJob
             /\ inflight = NoJob /\ phase = "Idle" /\ sidecar = NoSidecar

TakeProbe ==
    /\ pc = "take"
    /\ lifecycle = "Running"
    /\ probe = "queued"
    /\ IF ProbeIdle
       THEN probe' = "executing" /\ phase' = "TestOnly" /\ pc' = "probe"
       ELSE probe' = "none" /\ UNCHANGED <<phase, pc>>
    /\ UNCHANGED <<lifecycle, queued, reserved, reservedKeys, executing,
                   inflight, sidecar, established, gate, results, fatalJobs,
                   thread, client, device>>

\* run_primary_geometry_probe: whether the ioctl ran only changes the answer.
RunProbe ==
    /\ pc = "probe"
    /\ gate = "free"
    /\ probe' = "none"
    /\ phase' = IF phase = "TestOnly" /\ executing = NoJob THEN "Idle" ELSE phase
    /\ pc' = "take"
    /\ UNCHANGED <<lifecycle, queued, reserved, reservedKeys, executing,
                   inflight, sidecar, established, gate, results, fatalJobs,
                   thread, client, device>>

CanTakeJob == /\ pc = "take" /\ lifecycle = "Running" /\ probe # "queued"
              /\ inflight = NoJob /\ queued # <<>>

TakeInvalidated ==
    /\ CanTakeJob
    /\ BaseDisposition(Head(queued).base) = "Invalidated"
    /\ queued' = Tail(queued)
    /\ Publish(Event("ValidationBaseInvalidated", {Bundle(Head(queued))}, {}),
               "take", "exit")
    /\ UNCHANGED <<lifecycle, reserved, reservedKeys, executing, inflight,
                   phase, sidecar, established, probe, gate, results,
                   fatalJobs, job, retries, timeouts, verdict, client, device>>

\* The dequeued commit may be held until its wake time (wait_armed).
TakeReady ==
    /\ CanTakeJob
    /\ BaseDisposition(Head(queued).base) = "Ready"
    /\ queued' = Tail(queued)
    /\ job' = Head(queued)
    /\ executing' = Head(queued)
    /\ phase' = "Dequeued"
    /\ pc' \in {"deadline", "collect"}
    /\ UNCHANGED <<lifecycle, reserved, reservedKeys, inflight, sidecar,
                   established, probe, gate, results, fatalJobs, retries,
                   timeouts, verdict, out, ret, client, device>>

TakeSleep ==
    /\ pc = "take"
    /\ lifecycle = "Running"
    /\ probe # "queued"
    /\ \/ inflight # NoJob
       \/ queued = <<>>
       \/ queued # <<>> /\ BaseDisposition(Head(queued).base) = "Wait"
    /\ pc' = "takeSleep"
    /\ UNCHANGED <<state, gate, results, fatalJobs, thread, client, device>>

\* ExecutingDirectCandidateGuard::drop
DropGuard ==
    /\ executing' = NoJob
    /\ phase' = IF inflight = NoJob THEN "Idle" ELSE phase

\* wait_until_or_quiesce before the commit is frozen
DeadlineWait ==
    /\ pc = "deadline"
    /\ pc' = IF lifecycle \in Exiting THEN "dropQuiesce" ELSE "collect"
    /\ UNCHANGED <<state, gate, results, fatalJobs, thread, client, device>>

\* attach_sidecar: the sidecar replaces the commit's cursor and its test policy
\* for the cursor, which may ask for a test the commit itself skips.
AttachSidecar(j, test) ==
    [j EXCEPT !.cur = sidecar.id, !.crev = sidecar.id, !.test = test]

\* collect_cursor_sidecar_before_freeze: the mailbox is offered the commit for
\* the last time.  A sidecar that was planned on another base or is not newer
\* than the commit's own cursor goes back; so does one bound to this commit.
CollectSidecar ==
    /\ pc = "collect"
    /\ IF lifecycle # "Running"
       THEN /\ phase' = "Collecting"
            /\ pc' = "dropQuiesce"
            /\ UNCHANGED <<sidecar, executing, job, out, ret>>
       ELSE LET claimed == /\ Claims(job)
                           /\ sidecar.base = job.base
                           /\ sidecar.id > job.crev
                returned == ~claimed /\ (Claims(job) \/ MustBundleWith(job))
                next == IF job.test THEN "testGate" ELSE "submitGate"
            IN /\ phase' = "Frozen"
               /\ sidecar' = IF claimed \/ returned THEN NoSidecar ELSE sidecar
               /\ \/ /\ claimed
                     /\ \E t \in {job.test, TRUE} :
                          /\ job' = AttachSidecar(job, t)
                          /\ executing' = job'
                          /\ pc' = IF t THEN "testGate" ELSE "submitGate"
                     /\ UNCHANGED <<out, ret>>
                  \/ /\ returned
                     /\ Publish(Event("CursorSidecarReturned", {}, SideIds(sidecar)),
                                next, "dropQuiesce")
                     /\ UNCHANGED <<executing, job>>
                  \/ /\ ~claimed /\ ~returned
                     /\ pc' = next
                     /\ UNCHANGED <<executing, job, out, ret>>
    /\ UNCHANGED <<lifecycle, queued, reserved, reservedKeys, inflight,
                   established, probe, gate, results, fatalJobs,
                   retries, timeouts, verdict, client, device>>

\* drop(executing) ahead of quiesce_with_jobs
DropThenQuiesce ==
    /\ pc = "dropQuiesce"
    /\ DropGuard
    /\ pc' = "quiesceJobs"
    /\ UNCHANGED <<lifecycle, queued, reserved, reservedKeys, inflight,
                   sidecar, established, probe, gate, results, fatalJobs,
                   thread, client, device>>

QuiesceWithJobs ==
    /\ pc = "quiesceJobs"
    /\ PublishQuiesced({Bundle(job)})
    /\ job' = NoJob
    /\ UNCHANGED <<reserved, reservedKeys, executing, inflight, phase,
                   established, probe, gate, results, fatalJobs, retries,
                   timeouts, verdict, client, device>>

\* Mutant of EnterGate: the lifecycle is not looked at under the gate.
EnterGateUnchecked(at, ioctl, newPhase) ==
    /\ pc = at
    /\ gate = "free"
    /\ phase' = newPhase
    /\ gate' = "worker" /\ pc' = ioctl
    /\ UNCHANGED <<lifecycle, queued, reserved, reservedKeys, executing,
                   inflight, sidecar, established, probe, results, fatalJobs,
                   thread, client, device>>

\* Both ioctls run under the submit gate, which is taken only while Running.
EnterGate(at, ioctl, newPhase) ==
    /\ pc = at
    /\ gate = "free"
    /\ phase' = newPhase
    /\ IF lifecycle = "Running"
       THEN gate' = "worker" /\ pc' = ioctl
       ELSE pc' = "quiesceJobs" /\ UNCHANGED gate
    /\ UNCHANGED <<lifecycle, queued, reserved, reservedKeys, executing,
                   inflight, sidecar, established, probe, results, fatalJobs,
                   thread, client, device>>

EnterTest == EnterGate("testGate", "test", "TestOnly")
EnterSubmit == EnterGate("submitGate", "ioctl", "SubmitIoctl")

\* A panic of the executor: the job is retained, then the worker is fatal.
RetainAfterPanic ==
    /\ "panic" \in Faults
    /\ fatalJobs' = fatalJobs \cup {Bundle(job)}
    /\ job' = NoJob
    /\ ret' = NoReturn
    /\ pc' = "markFatal"

TestOnly ==
    /\ pc = "test"
    /\ gate' = "free"
    /\ \/ /\ pc' = "submitGate"
          /\ UNCHANGED <<fatalJobs, job, verdict, ret>>
       \/ /\ verdict' = "TestRejected"
          /\ pc' = "rejectSide"
          /\ UNCHANGED <<fatalJobs, job, ret>>
       \/ RetainAfterPanic /\ UNCHANGED verdict
    /\ UNCHANGED <<state, results, retries, timeouts, out, client, device>>

\* The ioctl.  A success leaves the gate held until the transfer.
SubmitOk ==
    /\ pc = "ioctl"
    /\ kernel' = kernel \cup {job.id}
    /\ lastSubmitted' = job.id
    /\ pc' = "transfer"
    /\ UNCHANGED <<state, gate, results, fatalJobs, thread, client, flips,
                   shown, acks>>

\* Mutant of SubmitBusy: one retry too many.
SubmitBusyOnceMore ==
    /\ pc = "ioctl"
    /\ gate' = "free"
    /\ IF retries > MAX_BUSY_RETRIES
       THEN /\ verdict' = "BusyExhausted"
            /\ pc' = "rejectSide"
            /\ UNCHANGED <<retries, out, ret>>
       ELSE /\ retries' = retries + 1
            /\ Publish(Event("BusyDeferred", {}, {}), "backoff", "retain")
            /\ UNCHANGED verdict
    /\ UNCHANGED <<state, results, fatalJobs, job, timeouts, client, device>>

SubmitBusy ==
    /\ pc = "ioctl"
    /\ gate' = "free"
    /\ IF retries >= MAX_BUSY_RETRIES
       THEN /\ verdict' = "BusyExhausted"
            /\ pc' = "rejectSide"
            /\ UNCHANGED <<retries, out, ret>>
       ELSE /\ retries' = retries + 1
            /\ Publish(Event("BusyDeferred", {}, {}), "backoff", "retain")
            /\ UNCHANGED verdict
    /\ UNCHANGED <<state, results, fatalJobs, job, timeouts, client, device>>

SubmitFailed ==
    /\ pc = "ioctl"
    /\ gate' = "free"
    /\ \/ /\ verdict' = "SubmitRejected"
          /\ pc' = "rejectSide"
          /\ UNCHANGED <<fatalJobs, job, ret>>
       \/ RetainAfterPanic /\ UNCHANGED verdict
    /\ UNCHANGED <<state, results, retries, timeouts, out, client, device>>

\* transfer_to_inflight, the release of the gate, the Submitted event
Transfer ==
    /\ pc = "transfer"
    /\ inflight' = job
    /\ established' = Established("pending", job)
    /\ executing' = NoJob
    /\ phase' = "KernelInFlight"
    /\ gate' = "free"
    /\ job' = NoJob
    /\ retries' = 0
    /\ Publish(Event("Submitted", {Bundle(job)}, {}), "flip", "exit")
    /\ UNCHANGED <<lifecycle, queued, reserved, reservedKeys, sidecar, probe,
                   results, fatalJobs, timeouts, verdict, client, device>>

\* retain_fatal_job after a BusyDeferred event that could not be notified
RetainJob ==
    /\ pc = "retain"
    /\ fatalJobs' = fatalJobs \cup {Bundle(job)}
    /\ job' = NoJob
    /\ pc' = "exit"
    /\ UNCHANGED <<state, gate, results, retries, timeouts, verdict, out, ret,
                   client, device>>

\* wait_until_or_quiesce between two attempts
BackoffWait ==
    /\ pc = "backoff"
    /\ pc' = IF lifecycle \in Exiting THEN "quiesceJobs" ELSE "submitGate"
    /\ UNCHANGED <<state, gate, results, fatalJobs, thread, client, device>>

\* A refused commit: publish_terminal_sidecar_return, then
\* invalidate_queued_dependents, then the verdict.  When the first
\* notification fails run_worker returns with the commit still in its hands.
RejectSidecar ==
    /\ pc = "rejectSide"
    /\ IF MustBundleWith(job)
       THEN /\ sidecar' = NoSidecar
            /\ Publish(Event("CursorSidecarReturned", {}, SideIds(sidecar)),
                       "rejectDeps", "exit")
       ELSE pc' = "rejectDeps" /\ UNCHANGED <<sidecar, out, ret>>
    /\ UNCHANGED <<lifecycle, queued, reserved, reservedKeys, executing,
                   inflight, phase, established, probe, gate, results,
                   fatalJobs, job, retries, timeouts, verdict, client, device>>

\* The queue holds one commit at most, so the code's loop over the queue
\* comes down to its head.
RejectDependents ==
    /\ pc = "rejectDeps"
    /\ IF queued # <<>> /\ Head(queued).base = Predecessor(job)
       THEN /\ queued' = Tail(queued)
            /\ Publish(Event("ValidationBaseInvalidated", {Bundle(Head(queued))}, {}),
                       "rejectEvent", "rejectEvent")
       ELSE pc' = "rejectEvent" /\ UNCHANGED <<queued, out, ret>>
    /\ UNCHANGED <<lifecycle, reserved, reservedKeys, executing, inflight,
                   phase, sidecar, established, probe, gate, results,
                   fatalJobs, job, retries, timeouts, verdict, client, device>>

RejectEvent ==
    /\ pc = "rejectEvent"
    /\ Publish(Event(verdict, {Bundle(job)}, {}), "drop", "exit")
    /\ job' = NoJob
    /\ retries' = 0
    /\ verdict' = "None"
    /\ UNCHANGED <<state, gate, results, fatalJobs, timeouts, client, device>>

\* The end of one iteration of run_worker's loop
EndIteration ==
    /\ pc = "drop"
    /\ DropGuard
    /\ pc' = "take"
    /\ UNCHANGED <<lifecycle, queued, reserved, reservedKeys, inflight,
                   sidecar, established, probe, gate, results, fatalJobs,
                   thread, client, device>>

\* wait_for_pageflip_or_quiesce
FlipQuiesces == \/ lifecycle = "Quiescing"
                \/ lifecycle \in Exiting /\ inflight = NoJob

FlipQuiesced ==
    /\ pc = "flip"
    /\ FlipQuiesces
    /\ PublishQuiesced({})
    /\ UNCHANGED <<reserved, reservedKeys, executing, inflight, phase,
                   established, probe, gate, results, fatalJobs, job, retries,
                   timeouts, verdict, client, device>>

FlipAcknowledged ==
    /\ pc = "flip"
    /\ ~FlipQuiesces
    /\ inflight = NoJob
    /\ timeouts' = 0
    /\ pc' = "take"
    /\ UNCHANGED <<state, gate, results, fatalJobs, job, retries, verdict, out,
                   ret, client, device>>

FlipSleep ==
    /\ pc = "flip"
    /\ ~FlipQuiesces
    /\ inflight # NoJob
    /\ pc' = "flipSleep"
    /\ UNCHANGED <<state, gate, results, fatalJobs, thread, client, device>>

\* PAGEFLIP_TIMEOUT_NS elapsed during the wait; reported once
FlipTimeout ==
    /\ pc = "flipSleep"
    /\ timeouts = 0
    /\ IF inflight # NoJob
       THEN /\ timeouts' = 1
            /\ Publish(Event("PageflipTimeout", {}, {}), "flip", "exit")
       ELSE pc' = "flip" /\ UNCHANGED <<timeouts, out, ret>>
    /\ UNCHANGED <<state, gate, results, fatalJobs, job, retries, verdict,
                   client, device>>

\* run_worker returns: its locals, the guard and any commit in hand, are
\* dropped.
Exit ==
    /\ pc = "exit"
    /\ DropGuard
    /\ job' = NoJob
    /\ retries' = 0
    /\ timeouts' = 0
    /\ verdict' = "None"
    /\ pc' = "exited"
    /\ UNCHANGED <<lifecycle, queued, reserved, reservedKeys, inflight,
                   sidecar, established, probe, gate, results, fatalJobs, out,
                   ret, client, device>>

WorkerStep ==
    \/ PublishEvent \/ WorkerMarkFatal
    \/ TakeStopped \/ TakeQuiesced \/ TakeProbe \/ RunProbe
    \/ TakeInvalidated \/ TakeReady \/ TakeSleep
    \/ DeadlineWait \/ CollectSidecar \/ DropThenQuiesce \/ QuiesceWithJobs
    \/ EnterTest \/ TestOnly \/ EnterSubmit
    \/ SubmitOk \/ SubmitBusy \/ SubmitFailed \/ Transfer
    \/ RetainJob \/ BackoffWait
    \/ RejectSidecar \/ RejectDependents \/ RejectEvent \/ EndIteration
    \/ FlipQuiesced \/ FlipAcknowledged \/ FlipSleep \/ FlipTimeout
    \/ Exit

\* A condition variable may wake its waiter for no reason.
SpuriousWake ==
    /\ pc \in {"takeSleep", "flipSleep"}
    /\ pc' = Woken
    /\ UNCHANGED <<state, gate, results, fatalJobs, thread, client, device>>

-----------------------------------------------------------------------------
(***************************************************************************)
(* The compositor thread.  It is sequential: between the first and the     *)
(* last step of a submission or of a sidecar offer it does nothing else.   *)
(***************************************************************************)
MainIdle == /\ main = "running" /\ plan = NoPlan /\ permit = NoShape
            /\ attach = NoSidecar

\* validation_base_for_submission, ahead of the admission of the commit
PlanCommit ==
    /\ MainIdle
    /\ jobCount < MaxJobs
    /\ plan' = PlannedBase
    /\ UNCHANGED <<state, gate, results, fatalJobs, pc, thread, main, permit,
                   attach, revision, jobCount, sideCount, mainJobs, mainSides,
                   owned, device>>

Occupied == Len(queued) + reserved + (IF executing # NoJob THEN 1 ELSE 0)
                + (IF inflight # NoJob THEN 1 ELSE 0)
Active == IF executing # NoJob \/ inflight # NoJob THEN 1 ELSE 0

DirectKeys == {queued[i].key : i \in DOMAIN queued} \cup {executing.key}
                 \cup {inflight.key} \cup reservedKeys

\* try_reserve, and try_reserve_direct when the commit has a key
TryReserve(shape) ==
    /\ plan # NoPlan /\ permit = NoShape
    /\ lifecycle = "Running"
    /\ shape.key # 0 => shape.key \notin DirectKeys
    /\ Occupied < Active + QUEUED_JOB_CAPACITY
    /\ reserved' = reserved + 1
    /\ reservedKeys' = reservedKeys \cup ({shape.key} \ {0})
    /\ permit' = shape
    /\ UNCHANGED <<lifecycle, queued, executing, inflight, phase, sidecar,
                   established, probe, gate, results, fatalJobs, pc, thread,
                   main, plan, attach, revision, jobCount, sideCount,
                   mainJobs, mainSides, owned, device>>

\* Admission refused: full, stopping, a duplicate key or a contended lock.
ReserveRefused ==
    /\ plan # NoPlan /\ permit = NoShape
    /\ plan' = NoPlan
    /\ UNCHANGED <<state, gate, results, fatalJobs, pc, thread, main, permit,
                   attach, revision, jobCount, sideCount, mainJobs, mainSides,
                   owned, device>>

\* The permit's slot and key are released by enqueue and by its drop.
ReleasePermit ==
    /\ plan # NoPlan /\ permit # NoShape
    /\ reserved' = IF reserved = 0 THEN 0 ELSE reserved - 1
    /\ reservedKeys' = reservedKeys \ {permit.key}
    /\ permit' = NoShape
    /\ plan' = NoPlan

\* Mutant of Enqueue: the sleeping worker is not notified.
EnqueueSilently ==
    /\ ReleasePermit
    /\ lifecycle = "Running" /\ Len(queued) < QUEUED_JOB_CAPACITY
    /\ \E crev \in {0, sideCount} :
         queued' = Append(queued,
             [id |-> jobCount + 1, primary |-> permit.primary,
              target |-> permit.target, test |-> permit.test,
              key |-> permit.key, base |-> plan, crev |-> crev, cur |-> 0])
    /\ established' = IF established.of = "none" /\ plan.of = "rev"
                      THEN plan ELSE established
    /\ jobCount' = jobCount + 1
    /\ UNCHANGED pc
    /\ UNCHANGED <<lifecycle, executing, inflight, phase, sidecar, probe, gate,
                   results, fatalJobs, thread, main, attach, revision,
                   sideCount, mainJobs, mainSides, owned, device>>

\* KmsCommitAdmissionPermit::enqueue, accepted
Enqueue ==
    /\ ReleasePermit
    /\ lifecycle = "Running" /\ Len(queued) < QUEUED_JOB_CAPACITY
    /\ \E crev \in {0, sideCount} :
         queued' = Append(queued,
             [id |-> jobCount + 1, primary |-> permit.primary,
              target |-> permit.target, test |-> permit.test,
              key |-> permit.key, base |-> plan, crev |-> crev, cur |-> 0])
    /\ established' = IF established.of = "none" /\ plan.of = "rev"
                      THEN plan ELSE established
    /\ jobCount' = jobCount + 1
    /\ pc' = Woken
    /\ UNCHANGED <<lifecycle, executing, inflight, phase, sidecar, probe, gate,
                   results, fatalJobs, thread, main, attach, revision,
                   sideCount, mainJobs, mainSides, owned, device>>

\* enqueue, refused: the commit goes back and the submission is rolled back.
EnqueueRefused ==
    /\ ReleasePermit
    /\ lifecycle # "Running" \/ Len(queued) >= QUEUED_JOB_CAPACITY
    /\ UNCHANGED <<lifecycle, queued, executing, inflight, phase, sidecar,
                   established, probe, gate, results, fatalJobs, pc, thread,
                   main, attach, revision, jobCount, sideCount, mainJobs,
                   mainSides, owned, device>>

\* KmsCommitAdmissionPermit::drop, when preparing the commit failed
DropPermit ==
    /\ ReleasePermit
    /\ pc' = Woken
    /\ UNCHANGED <<lifecycle, queued, executing, inflight, phase, sidecar,
                   established, probe, gate, results, fatalJobs, thread,
                   main, attach, revision, jobCount, sideCount, mainJobs,
                   mainSides, owned, device>>

\* quarantine_direct_admission_failure: the admission of a direct-scanout
\* commit failed and could not be rolled back.  The permit is dropped, then
\* the worker is made fatal; by then it may be asleep again.
QuarantineAdmission ==
    /\ "rollback" \in Faults
    /\ permit.key > 0
    /\ ReleasePermit
    /\ MarkFatal(results)
    /\ main' = "failed"
    /\ pc' \in {pc, Woken}
    /\ UNCHANGED <<executing, inflight, phase, sidecar, established, gate,
                   thread, attach, revision, jobCount, sideCount, mainJobs,
                   mainSides, owned, device>>

\* attachable_primary: the queued primary of that target, else the dequeued
\* one that is not frozen yet.
AttachablePrimary(target) ==
    IF queued # <<>> /\ Attachable(Head(queued)) /\ Head(queued).target = target
    THEN Head(queued)
    ELSE IF ExecutingPrimary /\ executing.target = target THEN executing ELSE NoJob

\* The compositor looks for a primary that can still take the cursor along.
LookForPrimary ==
    /\ MainIdle
    /\ sideCount < MaxSidecars
    /\ \E shape \in Shapes :
         LET j == AttachablePrimary(shape.target)
         IN /\ j # NoJob
            /\ attach' = [id |-> j.id, with |-> j.id, target |-> j.target, base |-> j.base]
    /\ UNCHANGED <<state, gate, results, fatalJobs, pc, thread, main, plan,
                   permit, revision, jobCount, sideCount, mainJobs, mainSides,
                   owned, device>>

\* offer_cursor_sidecar with the primary found a moment ago: bound to it
\* or independent.  The replaced sidecar returns to the compositor.
OfferSidecar ==
    /\ attach # NoSidecar
    /\ lifecycle = "Running"
    /\ \E with \in {0, attach.with} :
         sidecar' = [attach EXCEPT !.id = sideCount + 1, !.with = with]
    /\ sideCount' = sideCount + 1
    /\ mainSides' = mainSides \cup SideIds(sidecar)
    /\ attach' = NoSidecar
    /\ pc' = Woken
    /\ UNCHANGED <<lifecycle, queued, reserved, reservedKeys, executing,
                   inflight, phase, established, probe, gate, results,
                   fatalJobs, thread, main, plan, permit, revision, jobCount,
                   mainJobs, owned, device>>

OfferRefused ==
    /\ attach # NoSidecar
    /\ attach' = NoSidecar
    /\ UNCHANGED <<state, gate, results, fatalJobs, pc, thread, main, plan,
                   permit, revision, jobCount, sideCount, mainJobs, mainSides,
                   owned, device>>

\* take_due_independent_cursor_sidecar
TakeDueSidecar ==
    /\ MainIdle
    /\ sidecar.id # 0 /\ sidecar.with = 0
    /\ mainSides' = mainSides \cup SideIds(sidecar)
    /\ sidecar' = NoSidecar
    /\ UNCHANGED <<lifecycle, queued, reserved, reservedKeys, executing,
                   inflight, phase, established, probe, gate, results,
                   fatalJobs, pc, thread, main, plan, permit, attach, revision,
                   jobCount, sideCount, mainJobs, owned, device>>

\* cancel_queued_primary for the exact commit; a commit that has left the
\* queue is not touched.
CancelQueued ==
    /\ MainIdle
    /\ queued # <<>> /\ Head(queued).primary
    /\ queued' = Tail(queued)
    /\ mainJobs' = mainJobs \cup {Bundle(Head(queued))}
    /\ pc' = Woken
    /\ UNCHANGED <<lifecycle, reserved, reservedKeys, executing, inflight,
                   phase, sidecar, established, probe, gate, results,
                   fatalJobs, thread, main, plan, permit, attach, revision,
                   jobCount, sideCount, mainSides, owned, device>>

\* queue_primary_geometry_test_if_idle
QueueProbe ==
    /\ MainIdle
    /\ gate = "free"
    /\ lifecycle = "Running" /\ ProbeIdle /\ probe = "none"
    /\ probe' = "queued"
    /\ pc' = Woken
    /\ UNCHANGED <<lifecycle, queued, reserved, reservedKeys, executing,
                   inflight, phase, sidecar, established, gate, results,
                   fatalJobs, thread, client, device>>

\* Everything drained from the result queue is settled or, if Submitted,
\* kept as the ownership of the commit on its way to the screen.
SubmittedIn(evs) == UNION {evs[i].jobs : i \in
                       {k \in DOMAIN evs : evs[k].type = "Submitted"}}

DrainEvents ==
    /\ MainIdle
    /\ results # <<>>
    /\ results' = <<>>
    /\ mainJobs' = mainJobs \cup EventJobs(results)
    /\ mainSides' = mainSides \cup EventSides(results)
    /\ owned' = owned \cup SubmittedIn(results)
    /\ UNCHANGED <<state, gate, fatalJobs, pc, thread, main, plan, permit,
                   attach, revision, jobCount, sideCount, device>>

\* The matching acknowledgement frees the in-flight slot and returns the
\* sidecar that waited for this commit.  If that return cannot be notified
\* the worker becomes fatal and is not woken.
AckInflight ==
    LET returned == Append(results, Event("CursorSidecarReturned", {}, SideIds(sidecar)))
    IN /\ established' = Established("bundle", inflight)
       /\ inflight' = NoJob
       /\ phase' = "Idle"
       /\ sidecar' = IF MustBundleWith(inflight) THEN NoSidecar ELSE sidecar
       /\ \/ /\ results' = IF MustBundleWith(inflight) THEN returned ELSE results
             /\ main' = "acked"
             /\ pc' = Woken
             /\ UNCHANGED <<lifecycle, queued, probe, fatalJobs>>
          \/ /\ "notify" \in Faults /\ MustBundleWith(inflight)
             /\ MarkFatal(returned)
             /\ main' = "failed"
             /\ UNCHANGED pc

\* Mutant of AckPageflip: the submission itself is taken for the completion.
AckOnSubmitted ==
    /\ MainIdle
    /\ \E b \in owned :
         /\ b.n \in flips \cup kernel
         /\ flips' = flips \ {b.n}
         /\ owned' = owned \ {b}
         /\ shown' = b
         /\ acks' = acks + 1
         /\ \/ /\ inflight # NoJob /\ Bundle(inflight) = b
               /\ AckInflight
            \/ /\ inflight = NoJob
               /\ lifecycle \in {"ShutdownQuiescing", "ShutdownAbandoning", "Stopped"}
               /\ main' = "acked"
               /\ UNCHANGED <<lifecycle, queued, inflight, phase, sidecar,
                              established, probe, results, fatalJobs, pc>>
    /\ UNCHANGED <<reserved, reservedKeys, executing, gate, thread, plan,
                   permit, attach, revision, jobCount, sideCount, mainJobs,
                   mainSides, kernel, lastSubmitted>>

\* ack_pageflip_identity with the identity of the owned commit.  A late
\* acknowledgement during shutdown finds no in-flight commit and is accepted.
AckPageflip ==
    /\ MainIdle
    /\ \E b \in owned :
         /\ b.n \in flips
         /\ flips' = flips \ {b.n}
         /\ owned' = owned \ {b}
         /\ shown' = b
         /\ acks' = acks + 1
         /\ \/ /\ inflight # NoJob /\ Bundle(inflight) = b
               /\ AckInflight
            \/ /\ inflight = NoJob
               /\ lifecycle \in {"ShutdownQuiescing", "ShutdownAbandoning", "Stopped"}
               /\ main' = "acked"
               /\ UNCHANGED <<lifecycle, queued, inflight, phase, sidecar,
                              established, probe, results, fatalJobs, pc>>
    /\ UNCHANGED <<reserved, reservedKeys, executing, gate, thread, plan,
                   permit, attach, revision, jobCount, sideCount, mainJobs,
                   mainSides, kernel, lastSubmitted>>

\* The compositor promotes the presented planes and only then, in a critical
\* section of its own, calls set_established_presented_base_for_output.
PromotePresented ==
    /\ main = "acked"
    /\ main' = "running"
    /\ revision' = revision + 1
    /\ established' = IF queued = <<>> THEN Presented(revision + 1) ELSE established
    /\ pc' = Woken
    /\ UNCHANGED <<lifecycle, queued, reserved, reservedKeys, executing,
                   inflight, phase, sidecar, probe, gate, results, fatalJobs,
                   thread, plan, permit, attach, jobCount, sideCount, mainJobs,
                   mainSides, owned, device>>

\* fail_composited_transition: the completed frame cannot be promoted, so the
\* worker's admission is made fatal before the pageflip is acknowledged.
FailTransition ==
    /\ MainIdle
    /\ "transition" \in Faults
    /\ \E b \in owned : b.n \in flips /\ flips' = flips \ {b.n}
    /\ MarkFatal(results)
    /\ main' = "failed"
    /\ UNCHANGED <<reserved, reservedKeys, executing, inflight, phase, sidecar,
                   established, gate, pc, thread, plan, permit, attach,
                   revision, jobCount, sideCount, mainJobs, mainSides, owned,
                   kernel, shown, acks, lastSubmitted>>

\* mark_fatal called through mark_admission_fatal leaves the worker asleep;
\* quiesce requests are what wakes it.  request_quiesce waits for the gate.
Quiesced(l) == IF l = "Running" THEN "Quiescing" ELSE l

\* Session suspension, a policy change or the seat's pre-disable hook
RequestQuiesce ==
    /\ MainIdle
    /\ gate = "free"
    /\ lifecycle' = Quiesced(lifecycle)
    /\ pc' = Woken
    /\ UNCHANGED <<queued, reserved, reservedKeys, executing, inflight, phase,
                   sidecar, established, probe, gate, results, fatalJobs,
                   thread, client, device>>

\* The first queued commit and the mailbox return to the compositor.
TakeBack ==
    /\ queued' = IF queued = <<>> THEN queued ELSE Tail(queued)
    /\ mainJobs' = mainJobs \cup
                     (IF queued = <<>> THEN {} ELSE {Bundle(Head(queued))})
    /\ mainSides' = mainSides \cup SideIds(sidecar)
    /\ sidecar' = NoSidecar
    /\ pc' = Woken

\* Mutant of BeginShutdown: the submit gate is not taken.
BeginShutdownUngated ==
    /\ MainIdle
    /\ lifecycle \notin {"Fatal", "Stopped"}
    /\ lifecycle' = IF lifecycle = "ShutdownAbandoning" THEN lifecycle
                    ELSE "ShutdownQuiescing"
    /\ TakeBack
    /\ UNCHANGED <<reserved, reservedKeys, executing, inflight, phase,
                   established, probe, gate, results, fatalJobs, thread, main,
                   plan, permit, attach, revision, jobCount, sideCount, owned,
                   device>>

\* begin_shutdown_quiesce
BeginShutdown ==
    /\ MainIdle
    /\ gate = "free"
    /\ lifecycle \notin {"Fatal", "Stopped"}
    /\ lifecycle' = IF lifecycle = "ShutdownAbandoning" THEN lifecycle
                    ELSE "ShutdownQuiescing"
    /\ TakeBack
    /\ UNCHANGED <<reserved, reservedKeys, executing, inflight, phase,
                   established, probe, gate, results, fatalJobs, thread, main,
                   plan, permit, attach, revision, jobCount, sideCount, owned,
                   device>>

\* force_shutdown_abandon, after the shutdown's pageflip deadline
ForceAbandon ==
    /\ MainIdle \/ main = "failed"
    /\ gate = "free"
    /\ \/ /\ lifecycle \in {"ShutdownQuiescing", "ShutdownAbandoning"}
          /\ lifecycle' = "ShutdownAbandoning"
          /\ TakeBack
          /\ inflight' = NoJob
       \/ /\ lifecycle = "Stopped"
          /\ sidecar' = NoSidecar
          /\ mainSides' = mainSides \cup SideIds(sidecar)
          /\ UNCHANGED <<lifecycle, queued, inflight, mainJobs, pc>>
    /\ UNCHANGED <<reserved, reservedKeys, executing, phase, established,
                   probe, gate, results, fatalJobs, thread, main, plan, permit,
                   attach, revision, jobCount, sideCount, owned, device>>

\* Mutant of StartJoin: the quiesce request does not notify the worker.
StartJoinSilently ==
    /\ MainIdle \/ main = "failed"
    /\ gate = "free"
    /\ lifecycle' = Quiesced(lifecycle)
    /\ UNCHANGED pc
    /\ main' = "joining"
    /\ UNCHANGED <<queued, reserved, reservedKeys, executing, inflight, phase,
                   sidecar, established, probe, gate, results, fatalJobs,
                   thread, plan, permit, attach, revision, jobCount, sideCount,
                   mainJobs, mainSides, owned, device>>

\* Every join is preceded by request_quiesce (join_kms_worker, and the drop of
\* the handle), which leaves a lifecycle other than Running as it is.  Nothing
\* looks at the in-flight commit: an orderly shutdown joins once its last
\* pageflip is settled or abandoned, but a seat that is disabled while the
\* shutdown still waits for that pageflip joins with it in flight.
StartJoin ==
    /\ MainIdle \/ main = "failed"
    /\ gate = "free"
    /\ lifecycle' = Quiesced(lifecycle)
    /\ pc' = Woken
    /\ main' = "joining"
    /\ UNCHANGED <<queued, reserved, reservedKeys, executing, inflight, phase,
                   sidecar, established, probe, gate, results, fatalJobs,
                   thread, plan, permit, attach, revision, jobCount, sideCount,
                   mainJobs, mainSides, owned, device>>

\* The thread is gone: the last events, the retained jobs and the mailbox are
\* collected.
JoinReturns ==
    /\ main = "joining"
    /\ pc = "exited"
    /\ main' = "joined"
    /\ results' = <<>>
    /\ fatalJobs' = {}
    /\ sidecar' = NoSidecar
    /\ mainJobs' = mainJobs \cup EventJobs(results) \cup fatalJobs
    /\ mainSides' = mainSides \cup EventSides(results) \cup SideIds(sidecar)
    /\ owned' = owned \cup SubmittedIn(results)
    /\ UNCHANGED <<lifecycle, queued, reserved, reservedKeys, executing,
                   inflight, phase, established, probe, gate, pc, thread, plan,
                   permit, attach, revision, jobCount, sideCount, device>>

\* The kernel finishes a commit: its completion event becomes readable.
CompleteFlip ==
    /\ \E n \in kernel : kernel' = kernel \ {n} /\ flips' = flips \cup {n}
    /\ UNCHANGED <<state, gate, results, fatalJobs, pc, thread, client, shown, acks,
                   lastSubmitted>>

MainStep ==
    \/ PlanCommit \/ (\E shape \in Shapes : TryReserve(shape)) \/ ReserveRefused
    \/ Enqueue \/ EnqueueRefused \/ DropPermit \/ QuarantineAdmission
    \/ LookForPrimary \/ OfferSidecar \/ OfferRefused \/ TakeDueSidecar
    \/ CancelQueued \/ QueueProbe \/ DrainEvents
    \/ AckPageflip \/ PromotePresented \/ FailTransition
    \/ RequestQuiesce \/ BeginShutdown \/ ForceAbandon
    \/ StartJoin \/ JoinReturns

Init ==
    /\ lifecycle = "Running" /\ queued = <<>> /\ reserved = 0
    /\ reservedKeys = {} /\ executing = NoJob /\ inflight = NoJob
    /\ phase = "Idle" /\ sidecar = NoSidecar
    /\ established = Unestablished /\ probe = "none" /\ gate = "free"
    /\ results = <<>> /\ fatalJobs = {}
    /\ pc = "take" /\ job = NoJob /\ retries = 0 /\ timeouts = 0
    /\ verdict = "None" /\ out = NoEvent
    /\ ret = NoReturn
    /\ main = "running" /\ plan = NoPlan /\ permit = NoShape
    /\ attach = NoSidecar /\ revision = 0 /\ jobCount = 0 /\ sideCount = 0
    /\ mainJobs = {} /\ mainSides = {} /\ owned = {}
    /\ kernel = {} /\ flips = {} /\ shown = [n |-> 0, s |-> 0] /\ acks = 0
    /\ lastSubmitted = 0

\* The system may rest once the worker has been joined.
Joined == main = "joined" /\ UNCHANGED vars

Next == WorkerStep \/ SpuriousWake \/ MainStep \/ CompleteFlip \/ Joined

Spec == Init /\ [][Next]_vars

\* Under the scheduler's fairness the worker thread keeps running and a join
\* that can return does.  Nothing is assumed of the kernel.
JoinSpec == Spec /\ WF_vars(WorkerStep) /\ WF_vars(JoinReturns)

\* What CommitSettles assumes besides.  The reactor keeps serving: it finishes what it started, and since
\* every cycle drains results and handles a readable completion before it
\* plans a frame, new submissions cannot starve those two.  The kernel
\* completes commits.
ProgressFairness ==
    /\ WF_vars(ReserveRefused) /\ WF_vars(Enqueue \/ EnqueueRefused)
    /\ WF_vars(OfferRefused) /\ SF_vars(DrainEvents) /\ SF_vars(AckPageflip)
    /\ WF_vars(PromotePresented) /\ WF_vars(CompleteFlip)

-----------------------------------------------------------------------------
(***************************************************************************)
(* Properties                                                              *)
(***************************************************************************)
Pcs == {"take", "takeSleep", "probe", "deadline", "collect", "dropQuiesce",
        "quiesceJobs", "testGate", "test", "submitGate", "ioctl", "transfer",
        "backoff", "retain", "rejectSide", "rejectDeps", "rejectEvent", "drop",
        "flip", "flipSleep", "publish", "markFatal", "exit", "exited"}

StateType ==
    /\ lifecycle \in Lifecycles /\ queued \in Seq(JobType) /\ reserved \in Nat
    /\ reservedKeys \in SUBSET Nat /\ executing \in JobType
    /\ inflight \in JobType /\ phase \in Phases /\ sidecar \in SidecarType
    /\ established \in EstablishedType /\ probe \in {"none", "queued", "executing"}
ResultType == results \in Seq(EventType) /\ fatalJobs \in SUBSET BundleType
ThreadType ==
    /\ gate \in {"free", "worker"} /\ pc \in Pcs /\ job \in JobType
    /\ retries \in 0..MAX_BUSY_RETRIES /\ timeouts \in {0, 1}
    /\ verdict \in EventKinds /\ out \in EventType
    /\ ret \in [ok : Pcs, failed : Pcs]
ClientType ==
    /\ main \in {"running", "acked", "failed", "joining", "joined"}
    /\ plan \in BaseType \cup {NoPlan} /\ permit \in Shapes \cup {NoShape}
    /\ attach \in SidecarType /\ revision \in Nat /\ jobCount \in Nat
    /\ sideCount \in Nat /\ mainJobs \in SUBSET BundleType
    /\ mainSides \in SUBSET Nat /\ owned \in SUBSET BundleType
DeviceType ==
    /\ kernel \in SUBSET Nat /\ flips \in SUBSET Nat
    /\ shown \in BundleType /\ acks \in Nat /\ lastSubmitted \in Nat

\* Every variable has its type.
TypeOK == StateType /\ ResultType /\ ThreadType /\ ClientType /\ DeviceType

\* The places a commit can be, each as the set of bundles it holds.
Places == <<Bundles(queued), IF job = NoJob THEN {} ELSE {Bundle(job)},
            out.jobs, fatalJobs, mainJobs>>
             \o [i \in DOMAIN results |-> results[i].jobs]

\* Every commit enqueue accepted is in exactly one place: the queue, the
\* worker's hands, one event, the retained jobs or the compositor's hands.
\* No path of run_worker, of a quiesce, of a shutdown or of a failure loses
\* it or returns it twice.
JobConserved ==
    \A n \in 1..jobCount :
        Cardinality({k \in DOMAIN Places : \E b \in Places[k] : b.n = n}) = 1

\* The same of the cursor sidecars: each accepted sidecar is in the mailbox,
\* attached to one commit, in one event or back with the compositor.
SidecarConserved ==
    LET attached == [k \in DOMAIN Places |-> {b.s : b \in Places[k]}]
        loose == <<SideIds(sidecar), out.sides, mainSides>>
                    \o [i \in DOMAIN results |-> results[i].sides]
        places == attached \o loose
    IN \A s \in 1..sideCount :
         Cardinality({k \in DOMAIN places : s \in places[k]}) = 1

\* Both: nothing that was accepted is lost or returned twice.
OwnershipConserved == JobConserved /\ SidecarConserved

\* The atomic-commit ioctl is entered only when no earlier commit is in the
\* kernel, completed but not yet handled, or waiting for its acknowledgement.
SubmitExclusive ==
    pc = "ioctl" => inflight = NoJob /\ kernel \cup flips = {}

\* The submit gate: once request_quiesce, begin_shutdown_quiesce or
\* force_shutdown_abandon has returned, no ioctl is running, and every commit
\* the kernel accepted is visible as the in-flight commit (comment in
\* begin_shutdown_quiesce) unless it was abandoned.
StopSeesSubmission ==
    /\ lifecycle \in Exiting => pc \notin {"test", "ioctl", "transfer"}
    /\ lifecycle \in {"Quiescing", "ShutdownQuiescing"} =>
            kernel \cup flips \subseteq {inflight.id}

\* The strengthening that makes the last two inductive.  The gate is held
\* exactly during an ioctl and the transfer after it; a worker that holds a
\* commit, or will once its event is published, has none in flight; accepted
\* commits are numbered from 1; while nothing was abandoned, what the kernel
\* has is the in-flight commit.
Gated == {"test", "ioctl", "transfer"}
InHand == {"deadline", "collect", "dropQuiesce", "quiesceJobs", "testGate",
           "test", "submitGate", "ioctl", "transfer", "backoff", "retain",
           "rejectSide", "rejectDeps", "rejectEvent"}
Reporting == {"publish", "markFatal"}
Tracked == {"Running", "Quiescing", "ShutdownQuiescing"}
Holding == \/ pc \in InHand
           \/ pc \in Reporting /\ (ret.ok \in InHand \/ ret.failed \in InHand)

GateInv ==
    /\ gate = "worker" <=> pc \in Gated
    /\ pc \in Gated => lifecycle \in {"Running", "Fatal"}
    /\ ret.ok \notin Gated \cup Reporting /\ ret.failed \notin Gated \cup Reporting
HandInv == Holding => inflight = NoJob /\ job.id > 0
QueueInv == \A i \in DOMAIN queued : queued[i].id > 0
KernelInv ==
    /\ 0 \notin kernel /\ 0 \notin flips /\ \A n \in kernel : n \notin flips
    /\ pc = "ioctl" => kernel = {} /\ flips = {}
    /\ lifecycle \in Tracked =>
         \A n \in kernel \cup flips :
             n = IF pc = "transfer" THEN job.id ELSE inflight.id
SubmissionInv == GateInv /\ HandInv /\ QueueInv /\ KernelInv

\* A commit in the worker's hands was planned on what the screen shows: its
\* base is the bundle of the last acknowledged pageflip, sidecar included, or
\* the plane revision after exactly that many pageflips.
BaseIsShown ==
    job # NoJob =>
        \/ job.base.of = "pred" /\ [n |-> job.base.n, s |-> job.base.s] = shown
        \/ job.base = Presented(acks)

\* One direct-scanout candidate is never admitted twice: no key is shared by
\* the permit, the queue, the executing and the in-flight commit.
DirectKeysDistinct ==
    LET keys == <<permit.key, executing.key, inflight.key>>
                   \o [i \in DOMAIN queued |-> queued[i].key]
    IN \A i, k \in DOMAIN keys : i # k /\ keys[i] > 0 => keys[i] # keys[k]

\* A permit is worth a slot: while the worker runs, the commit admitted by
\* try_reserve finds room whatever the worker did in the meantime.
PermitHonoured ==
    permit # NoShape /\ lifecycle = "Running" => Len(queued) < QUEUED_JOB_CAPACITY

\* What admission promises of a commit: it was planned on what the screen
\* shows, no other has its key, and its permit finds a free slot.
AdmissionSound == BaseIsShown /\ DirectKeysDistinct /\ PermitHonoured

\* The lane the worker implements.  A commit leaves pending when it is
\* submitted or when it leaves the worker's hands; the lane is closed once no
\* ioctl can be entered any more.
Lane == INSTANCE CommitLane WITH
    accepted <- jobCount,
    pending <- {queued[i].id : i \in DOMAIN queued} \cup
                  (IF job = NoJob \/ pc = "transfer" THEN {} ELSE {job.id}),
    flight <- IF pc = "transfer" THEN job.id ELSE inflight.id,
    last <- lastSubmitted,
    shown <- shown.n,
    closed <- lifecycle # "Running" /\ pc # "ioctl"

\* The worker's threads, locks and events implement the abstract lane: one
\* submission at a time, in order of acceptance, none after closing, and an
\* open lane never forgets a submitted commit.
ImplementsLane == Lane!Spec

\* A worker that shuts down waits for the acknowledgement of the commit in
\* flight.  It never comes while the compositor thread, which would give it,
\* is inside the join.
DrainStuck == lifecycle = "ShutdownQuiescing" /\ inflight # NoJob

\* A join of the worker thread returns, whatever the kernel does, unless it
\* is started during the shutdown drain with a commit in flight.
JoinTerminates == main = "joining" ~> main = "joined" \/ DrainStuck

\* A seat that is disabled during the pageflip drain of a shutdown "preserves
\* bounded deadline" (runtime/shutdown.rs): with a kernel that completes its
\* commits, every join of the worker returns.
DrainJoinReturns == ProgressFairness => (main = "joining" ~> main = "joined")

\* With a reactor and a kernel that go on, every accepted commit comes back to
\* the compositor, shown, refused, invalidated or returned, or the worker has
\* failed and its health says so, or the compositor is stuck in a join that it
\* started during the shutdown drain.
CommitSettles ==
    ProgressFairness =>
        \A n \in 1..MaxJobs :
            jobCount >= n ~> \/ lifecycle = "Fatal"
                             \/ \E b \in mainJobs : b.n = n
                             \/ main = "joining" /\ DrainStuck

\* debug_assert!(state.inflight.is_none()) of
\* set_established_presented_base_for_output, reached after the ack.
NoInflightAtPromotion == main = "acked" => inflight = NoJob

\* An idle lane accepts the next commit: a worker asleep with nothing to do
\* has established the revision the compositor plans on, or none.
IdleLaneAccepts ==
    MainIdle /\ pc = "takeSleep" /\ lifecycle = "Running" /\ queued = <<>>
      /\ inflight = NoJob =>
         established \in {Unestablished, Presented(revision)}

=============================================================================
