--------------------------- MODULE OutputPipeline ---------------------------
(***************************************************************************)
(* The composited output pipeline of the native backend: the explicit      *)
(* swapchain (AtomicOutputSwapchain: three scanout slots and the frames    *)
(* that own them), the output transaction ledger (one transaction per      *)
(* frame, with the protocol batch it must settle), and the runtime's       *)
(* handlers that move both together: render admission, render completion,  *)
(* worker events, pageflips, render-fence wakes and session switches.      *)
(*                                                                         *)
(* A frame is [slot, txn, claim, pred].  claim is the refresh the frame is *)
(* reserved for (a vblank number; 0 for a deferred frame, whose claim is   *)
(* bound only after its predecessor's pageflip).  pred is the transaction  *)
(* of that predecessor, 0 for a frame rendered against an idle pipeline.   *)
(* The scope is the fixed-refresh composited path with the worker          *)
(* transport; direct scanout and variable refresh are left out.            *)
(***************************************************************************)
EXTENDS Integers, FiniteSets

CONSTANTS
    Slots,        \* the scanout buffers of the pool
    MaxTxn,       \* bound: transactions allocated in a behaviour
    Slip,         \* bound: how far ahead a claim or a late pageflip may lie
    MaxReplans,   \* bound: worker invalidations
    MaxGen,       \* bound: pool generations, one per session recovery
    MaxAborts     \* bound: recoveries cut short by another session switch

ASSUME SlotsAssumption == 0 \notin Slots /\ Slots # {}
ASSUME BoundsAssumption == /\ MaxTxn \in Nat /\ Slip \in Nat /\ MaxReplans \in Nat
                           /\ MaxGen \in Nat /\ MaxAborts \in Nat

VARIABLES
    current,      \* the slot on the screen
    pending,      \* the frame the kernel holds until its pageflip
    queued,       \* the frame the KMS worker holds
    ready,        \* the rendered frame not handed over yet
    rendering,    \* the frame being drawn
    quarantine,   \* the slot poisoned by a failed frame, 0 if none
    suspended,    \* frames abandoned before their fence is known to signal
    last,         \* claim consumed by the last primary pageflip, 0 if none
    anchor,       \* transaction of the last presented primary, 0 if none
    gen,          \* pool generation
    next,         \* the next transaction id
    txn,          \* ledger: transaction -> state
    batch,        \* transaction -> what became of its protocol frame batch
    signaled,     \* transactions whose render fence has signaled
    armed,        \* the fence the reactor watches for the output, 0 if none
    session,      \* "active", "suspended" or "resuming"
    fatal,        \* why the runtime stopped, "no" while it runs
    replans, aborts

swapchain == <<current, pending, queued, ready, rendering, quarantine, suspended,
               last, anchor, gen>>
ledger == <<next, txn, batch>>
runtime == <<signaled, armed, session, fatal, replans, aborts>>
vars == <<swapchain, ledger, runtime>>

Txns == 1..MaxTxn
NoFrame == [slot |-> 0, txn |-> 0, claim |-> 0, pred |-> 0]
Frame == [slot : Slots, txn : Txns, claim : Nat, pred : 0..MaxTxn]
Owned(f) == f.txn # 0
Deferred(f) == Owned(f) /\ f.claim = 0

TxnState == {"none", "built", "ready", "unbound", "queued", "submitted",
             "presented", "dropped", "failed"}
ActiveStates == {"built", "ready", "unbound", "queued", "submitted"}
BatchState == {"none", "held", "presented", "restored", "completed", "discarded"}

Active == {t \in Txns : txn[t] \in ActiveStates}

Running == fatal = "no" /\ session = "active"

\* Mutant: the frame at the worker is forgotten.
FreeSlotsNoQueued == Slots \ ({current, quarantine}
                        \cup {f.slot : f \in {pending, ready, rendering} \cup suspended})

\* Slots no role owns.
FreeSlots == Slots \ ({current, quarantine}
                        \cup {f.slot : f \in {pending, queued, ready, rendering} \cup suspended})

\* ensure_operational: neither poisoned nor holding abandoned frames.
Operational == quarantine = 0 /\ suspended = {}

\* The primary a deferred frame waits for: the worker's, else the kernel's.
Predecessor(q, p) == IF Owned(q) THEN q.txn ELSE p.txn

\* Reservable refreshes strictly after c.
Later(c) == c + 1 .. c + Slip

\* Mutant: one signaled fence releases all.
FencesSignaledAny(fs) == fs = {} \/ \E f \in fs : f.txn \in signaled

FencesSignaled(fs) == \A f \in fs : f.txn \in signaled

\* Mutant: the kernel's frame is not waited for.
FenceToWatchAbandoned(fs) ==
    IF FencesSignaled(suspended) THEN 0
    ELSE CHOOSE t \in Txns : \E f \in suspended : f.txn = t /\ t \notin signaled

\* suspended_fence_fd: an unsignaled fence of the frames fs.
FenceToWatch(fs) ==
    CHOOSE t \in Txns : \E f \in fs : f.txn = t /\ t \notin signaled

\* recover_or_arm_suspended_output_ownership on the frames fs: the watch it
\* leaves, and the frames that stay abandoned.
WatchFor(fs, watch) ==
    IF FencesSignaled(fs) \/ watch # 0 THEN watch ELSE FenceToWatch(fs)
Unrecovered(fs) == IF FencesSignaled(fs) THEN {} ELSE fs

\* Mutant: the ledger settles and the protocol batch is forgotten.
SettleLedgerOnly(t, state, outcome) ==
    /\ txn' = [txn EXCEPT ![t] = state]
    /\ batch' = [batch EXCEPT ![t] = IF outcome = "held" THEN "held" ELSE batch[t]]

\* settle_*_output_transaction: accept, settle the batch, finalize.
Settle(t, state, outcome) ==
    /\ txn' = [txn EXCEPT ![t] = state]
    /\ batch' = [batch EXCEPT ![t] = outcome]

Move(t, state) == txn' = [txn EXCEPT ![t] = state] /\ UNCHANGED batch

Init ==
    /\ current = CHOOSE s \in Slots : TRUE
    /\ pending = NoFrame /\ queued = NoFrame /\ ready = NoFrame /\ rendering = NoFrame
    /\ quarantine = 0 /\ suspended = {}
    /\ last = 0 /\ anchor = 0 /\ gen = 1
    /\ next = 1
    /\ txn = [t \in Txns |-> "none"]
    /\ batch = [t \in Txns |-> "none"]
    /\ signaled = {} /\ armed = 0
    /\ session = "active" /\ fatal = "no" /\ replans = 0 /\ aborts = 0

(***************************************************************************)
(* Render admission and completion.                                        *)
(***************************************************************************)

\* acquire a slot, take the frame batch, insert the transaction as Built
StartFrame(claim, pred) ==
    /\ next \in Txns /\ FreeSlots # {}
    /\ rendering' = [slot |-> CHOOSE s \in FreeSlots : TRUE,
                     txn |-> next, claim |-> claim, pred |-> pred]
    /\ next' = next + 1
    /\ Settle(next, "built", "held")
    /\ UNCHANGED <<current, pending, queued, ready, quarantine, suspended, last, anchor, gen,
                   runtime>>

\* Nothing prepared, and the pool renderable (free_compositor_slots > 0).
RenderAdmissible == Running /\ Operational /\ ~Owned(ready) /\ ~Owned(rendering)

\* SchedulerDecision::Render: no primary is queued or submitted.
Render ==
    /\ RenderAdmissible /\ ~Owned(queued) /\ ~Owned(pending)
    /\ \E c \in Later(last) : StartFrame(c, 0)

\* Mutant: a refresh is reserved behind a live primary.
RenderAheadReserved ==
    /\ RenderAdmissible
    /\ Owned(queued) # Owned(pending)
    /\ \E c \in Later(last) : StartFrame(c, 0)

\* SchedulerDecision::RenderAhead: drawn behind a live primary, its claim left
\* to be bound after that primary's pageflip.
RenderAhead ==
    /\ RenderAdmissible
    /\ Owned(queued) # Owned(pending)
    /\ StartFrame(0, Predecessor(queued, pending))

\* Mutant: bound only after a later anchor.
BindableAfter(f, a) == Deferred(f) /\ f.pred < a

\* deferred_o1_binding_readiness of frame f against the primaries q and p and
\* the last presented anchor a.
Bindable(f, a) == Deferred(f) /\ f.pred = a
Stale(f, q, p, a) == Deferred(f) /\ f.pred # a /\ f.pred # Predecessor(q, p)

\* finish_render_owned, mark_ready or mark_ready_unbound, bind_ready_deferred_o1;
\* a stale frame is abandoned, and no fence is armed for it.
FinishRender ==
    LET f == rendering
        stale == Stale(f, queued, pending, anchor)
    IN  \E c \in Later(last) :
        /\ Operational /\ ~Owned(ready)
        /\ rendering' = NoFrame
        /\ ready' = IF stale THEN NoFrame
                    ELSE IF Bindable(f, anchor) THEN [f EXCEPT !.claim = c] ELSE f
        /\ suspended' = IF stale THEN suspended \cup {f} ELSE suspended
        /\ IF stale THEN Settle(f.txn, "dropped", "completed")
           ELSE Move(f.txn, IF Deferred(ready') THEN "unbound" ELSE "ready")
        /\ UNCHANGED <<current, pending, queued, quarantine, last, anchor, gen, next, runtime>>

\* finish_render_owned refuses: the frame fails and the error ends the runtime.
RefuseRender ==
    /\ ~Operational \/ Owned(ready)
    /\ fatal' = "finish"
    /\ Settle(rendering.txn, "failed", "discarded")
    /\ UNCHANGED <<swapchain, next, signaled, armed, session, replans, aborts>>

\* Skipped or LifecycleFallback: the slot is released unpresented.
AbandonRender(state, outcome) ==
    /\ rendering' = NoFrame
    /\ Settle(rendering.txn, state, outcome)
    /\ UNCHANGED <<current, pending, queued, ready, quarantine, suspended, last, anchor, gen,
                   next, runtime>>

\* A render error.  After GPU work the slot is quarantined and the batch
\* discarded; before it the slot is released and the batch restored.
FailRender(gpuStarted) ==
    /\ rendering' = IF gpuStarted /\ quarantine # 0 THEN rendering ELSE NoFrame
    /\ quarantine' = IF gpuStarted /\ quarantine = 0 THEN rendering.slot ELSE quarantine
    /\ Settle(rendering.txn, "failed", IF gpuStarted THEN "discarded" ELSE "restored")
    /\ fatal' = "render"
    /\ UNCHANGED <<current, pending, queued, ready, suspended, last, anchor, gen, next,
                   signaled, armed, session, replans, aborts>>

\* settle_render_completion, for every outcome of the renderer.  The session
\* switch settles a render in flight first, so it happens while "active".
RenderCompletion ==
    /\ Running /\ Owned(rendering)
    /\ \/ FinishRender
       \/ RefuseRender
       \/ AbandonRender("dropped", "completed")
       \/ AbandonRender("failed", "restored")
       \/ \E gpuStarted \in BOOLEAN : FailRender(gpuStarted)

\* replace_ready_target: a bound READY frame is pulled in to an earlier refresh.
ReplaceReadyTarget ==
    /\ Running /\ Owned(ready) /\ ~Deferred(ready)
    /\ \E c \in Later(last) :
        /\ c < ready.claim
        /\ Owned(queued) => queued.claim < c
        /\ Owned(pending) => pending.claim < c
        /\ ready' = [ready EXCEPT !.claim = c]
    /\ UNCHANGED <<current, pending, queued, rendering, quarantine, suspended, last, anchor, gen,
                   ledger, runtime>>

(***************************************************************************)
(* The KMS worker's lane.                                                  *)
(***************************************************************************)

\* take_ready_for_worker and mark_queued.
QueueReady ==
    /\ Running /\ Operational
    /\ Owned(ready) /\ ~Deferred(ready) /\ ~Owned(queued)
    /\ queued' = ready /\ ready' = NoFrame
    /\ Move(ready.txn, "queued")
    /\ UNCHANGED <<current, pending, rendering, quarantine, suspended, last, anchor, gen, next,
                   runtime>>

\* KmsWorkerEvent::Submitted: promote_worker_queued, mark_submitted, and the
\* frame's fence is watched for its timing when no fence is.
Submitted ==
    /\ Running /\ Operational /\ Owned(queued) /\ ~Owned(pending)
    /\ pending' = queued /\ queued' = NoFrame
    /\ Move(queued.txn, "submitted")
    /\ armed' = IF armed = 0 /\ queued.txn \notin signaled THEN queued.txn ELSE armed
    /\ UNCHANGED <<current, ready, rendering, quarantine, suspended, last, anchor, gen, next,
                   signaled, session, fatal, replans, aborts>>

\* TestRejected, SubmitRejected and BusyExhausted of a fixed-refresh frame:
\* fail_worker_queued quarantines its slot, and the handler returns Ok.
Rejected ==
    /\ Running /\ Owned(queued) /\ ~Owned(pending)
    /\ queued' = NoFrame /\ quarantine' = queued.slot
    /\ Settle(queued.txn, "failed", "discarded")
    /\ UNCHANGED <<current, pending, ready, rendering, suspended, last, anchor, gen, next,
                   runtime>>

\* ValidationBaseInvalidated: the frame goes back to READY (rollback_queued).
\* With another frame prepared the re-plan, or the pipeline validation that
\* follows it, fails and ends the runtime.
Replanned ==
    /\ Running /\ Owned(queued) /\ ~Owned(pending) /\ replans < MaxReplans
    /\ replans' = replans + 1
    /\ IF Owned(ready)
       THEN fatal' = "replan" /\ UNCHANGED <<queued, ready, txn, batch>>
       ELSE /\ ready' = queued /\ queued' = NoFrame
            /\ Move(queued.txn, "ready")
            /\ fatal' = IF Owned(rendering) THEN "replan" ELSE fatal
    /\ UNCHANGED <<current, pending, rendering, quarantine, suspended, last, anchor, gen, next,
                   signaled, armed, session, aborts>>

(***************************************************************************)
(* The kernel: pageflips and render fences.                                *)
(***************************************************************************)

\* Prepared frames reserved for a refresh the flip at c has used up.
Overtaken(c) == {f \in {queued, ready} : Owned(f) /\ ~Deferred(f) /\ f.claim <= c}

\* A composited pageflip at refresh c: overtaken frames are abandoned and
\* recovered or watched, the frame becomes current and the anchor, and a READY
\* frame deferred to it is bound, to b; one deferred to neither this primary nor
\* the worker's is abandoned unwatched.
PageFlip ==
    \E c \in Later(last) : \E b \in Later(c) :
    LET over == Overtaken(c)
        left == suspended \cup over
        stale == {f \in {ready} : Stale(f, queued, NoFrame, pending.txn)}
        kept(f) == IF f \in over \cup stale THEN NoFrame ELSE f
        drop == {f.txn : f \in over \cup stale}
    IN
    /\ Running /\ Owned(pending) /\ pending.txn \in signaled
    /\ current' = pending.slot /\ pending' = NoFrame
    /\ last' = c /\ anchor' = pending.txn
    /\ queued' = kept(queued)
    /\ ready' = IF Bindable(ready, pending.txn) THEN [ready EXCEPT !.claim = b] ELSE kept(ready)
    /\ Bindable(ready, pending.txn) \/ b = c + 1
    /\ suspended' = Unrecovered(left) \cup stale
    /\ armed' = WatchFor(left, armed)
    /\ txn' = [t \in Txns |-> IF t = pending.txn THEN "presented"
                              ELSE IF t \in drop THEN "dropped"
                              ELSE IF t = ready.txn /\ Bindable(ready, pending.txn) THEN "ready"
                              ELSE txn[t]]
    /\ batch' = [t \in Txns |-> IF t = pending.txn THEN "presented"
                                ELSE IF t \in drop THEN "completed" ELSE batch[t]]
    /\ UNCHANGED <<rendering, quarantine, gen, next, signaled, session, fatal, replans, aborts>>

\* The GPU finishes a frame: its render fence signals.
FenceSignal ==
    /\ fatal = "no"
    /\ \E f \in {pending, queued, ready} \cup suspended :
        /\ Owned(f) /\ f.txn \notin signaled
        /\ signaled' = signaled \cup {f.txn}
    /\ UNCHANGED <<swapchain, ledger, armed, session, fatal, replans, aborts>>

\* settle_suspended_output_fence_wake, in an active session.
FenceWake ==
    /\ Running /\ armed \in signaled
    /\ suspended' = Unrecovered(suspended)
    /\ armed' = WatchFor(suspended, 0)
    /\ UNCHANGED <<current, pending, queued, ready, rendering, quarantine, last, anchor, gen,
                   ledger, signaled, session, fatal, replans, aborts>>

(***************************************************************************)
(* Session switches.                                                       *)
(***************************************************************************)

\* Frames the swapchain can hold abandoned.
SuspendCapacity == 2

\* process_kms_worker_event_after_join_safely: what the joined worker hands back
\* is only retained, whether it was rejected, returned or submitted, so its frame
\* keeps its fence and its transaction stays Queued.
Retained == {f \in {queued} : Owned(f)}

\* quiesce_and_acknowledge: the render worker is idle, the KMS worker is joined,
\* and suspend_page_flip abandons its frame and the READY one.  No transaction is
\* settled before the recovery; the kernel's frame stays pending.
Suspend ==
    LET left == suspended \cup Retained \cup {f \in {ready} : Owned(f)}
    IN
    /\ Running /\ ~Owned(rendering)
    /\ IF quarantine # 0 \/ Cardinality(left) > SuspendCapacity
       THEN /\ fatal' = IF quarantine # 0 THEN "poisoned" ELSE "capacity"
            /\ UNCHANGED <<queued, ready, suspended, session>>
       ELSE /\ suspended' = left /\ queued' = NoFrame /\ ready' = NoFrame
            /\ session' = "suspended" /\ UNCHANGED fatal
    /\ armed' = 0
    /\ UNCHANGED <<current, pending, rendering, quarantine, last, anchor, gen, ledger, signaled,
                   replans, aborts>>

\* finish_native_output_recovery: once every abandoned frame and the kernel's
\* frame have signaled, all are retired, every active transaction is dropped and
\* the pool is rebound to a new generation; until then one fence is watched.
Recover ==
    LET held == suspended \cup {f \in {pending} : Owned(f)}
    IN
    IF FencesSignaled(held)
    THEN /\ suspended' = {} /\ pending' = NoFrame
         /\ txn' = [t \in Txns |-> IF t \in Active THEN "dropped" ELSE txn[t]]
         /\ batch' = [t \in Txns |-> IF t \in Active THEN "completed" ELSE batch[t]]
         /\ fatal' = IF Owned(queued) \/ Owned(ready) \/ Owned(rendering) THEN "rebind" ELSE "no"
         /\ gen' = gen + 1 /\ last' = 0 /\ anchor' = 0
         /\ session' = "active" /\ armed' = 0
    ELSE /\ armed' = FenceToWatch(held)
         /\ session' = "resuming"
         /\ UNCHANGED <<suspended, pending, txn, batch, fatal, gen, last, anchor>>

\* resume_native_session.
Resume ==
    /\ fatal = "no" /\ session = "suspended" /\ gen < MaxGen
    /\ Recover
    /\ UNCHANGED <<current, queued, ready, rendering, quarantine, next, signaled, replans, aborts>>

\* continue_native_session_recovery, on the wake of the watched fence.
ContinueResume ==
    /\ fatal = "no" /\ session = "resuming" /\ armed \in signaled
    /\ Recover
    /\ UNCHANGED <<current, queued, ready, rendering, quarantine, next, signaled, replans, aborts>>

\* AbortResumeForSuspend: the seat is disabled again during the recovery.
AbortResume ==
    /\ fatal = "no" /\ session = "resuming" /\ aborts < MaxAborts
    /\ session' = "suspended" /\ armed' = 0 /\ aborts' = aborts + 1
    /\ UNCHANGED <<swapchain, ledger, signaled, fatal, replans>>

Next ==
    \/ Render \/ RenderAhead \/ RenderCompletion \/ ReplaceReadyTarget
    \/ QueueReady \/ Submitted \/ Rejected \/ Replanned
    \/ PageFlip \/ FenceSignal \/ FenceWake
    \/ Suspend \/ Resume \/ ContinueResume \/ AbortResume

Spec == Init /\ [][Next]_vars

\* The runtime handles what its reactor reports, the worker answers every job,
\* the kernel completes a commit whose fence signaled, and the GPU finishes.
\* A session switch and a new frame are never promised.
FairSpec ==
    /\ Spec
    /\ WF_vars(RenderCompletion) /\ WF_vars(QueueReady)
    /\ WF_vars(Submitted \/ Rejected \/ Replanned)
    /\ WF_vars(PageFlip) /\ WF_vars(FenceSignal) /\ WF_vars(FenceWake)
    /\ WF_vars(ContinueResume)

(***************************************************************************)
(* Properties.                                                             *)
(***************************************************************************)

\* Every variable stays in its type.
TypeOK ==
    /\ current \in Slots
    /\ {pending, queued, ready, rendering} \subseteq Frame \cup {NoFrame}
    /\ quarantine \in Slots \cup {0} /\ suspended \subseteq Frame
    /\ last \in Nat /\ anchor \in 0..MaxTxn /\ gen \in Nat /\ next \in 1..MaxTxn + 1
    /\ txn \in [Txns -> TxnState] /\ batch \in [Txns -> BatchState]
    /\ signaled \subseteq Txns /\ armed \in 0..MaxTxn
    /\ session \in {"active", "suspended", "resuming"}
    /\ fatal \in {"no", "render", "finish", "replan", "poisoned", "capacity", "rebind"}
    /\ replans \in Nat /\ aborts \in Nat

\* The frames that own a slot.
Holders == {f \in {pending, queued, ready, rendering} \cup suspended : Owned(f)}

Apart(f, g) == Owned(f) /\ Owned(g) => f.slot # g.slot

\* No buffer is the screen's, the kernel's, the worker's, the renderer's or an
\* abandoned frame's at once (validate_invariants, and what every buffer reuse
\* relies on).
SlotExclusive ==
    /\ Apart(pending, queued) /\ Apart(pending, ready) /\ Apart(pending, rendering)
    /\ Apart(queued, ready) /\ Apart(queued, rendering) /\ Apart(ready, rendering)
    /\ \A f \in suspended : \A g \in {pending, queued, ready, rendering} : Apart(f, g)
    /\ \A f, g \in suspended : f.slot = g.slot => f = g
    /\ \A f \in Holders : f.slot \notin {current, quarantine}
    /\ current # quarantine

\* While the runtime lives the ledger and the swapchain tell one story: each
\* role's transaction is in the state of that role, a frame abandoned by a session
\* switch keeps the transaction it had until the recovery drops it, every active
\* transaction is owned by exactly the frame that can still settle it, and a
\* protocol batch is held exactly as long as its transaction is active.
LedgerAgrees ==
    fatal = "no" =>
      /\ Owned(rendering) => txn[rendering.txn] = "built"
      /\ Owned(ready) => txn[ready.txn] = IF Deferred(ready) THEN "unbound" ELSE "ready"
      /\ Owned(queued) => txn[queued.txn] = "queued"
      /\ Owned(pending) => txn[pending.txn] = "submitted"
      /\ \A f \in suspended : txn[f.txn] \in {"ready", "unbound", "queued"}
      /\ Active \subseteq {f.txn : f \in Holders}
      /\ \A t \in Txns : batch[t] = "held" <=> t \in Active

\* A frame prepared behind a primary is claimed only once that primary is on
\* the screen, so no flip of an active session ever overtakes prepared work:
\* frames are abandoned by session switches alone.
NeverOvertaken ==
    [][session = "active" /\ session' = "active" => suspended' \subseteq suspended]_vars

\* A deferred frame waits for a primary that is still on its way (or, while it
\* is drawn, has just arrived), so its claim will be bound.
DeferredWaitsForLive ==
    fatal = "no" /\ Operational =>
      /\ Deferred(ready) => ready.pred \in {queued.txn, pending.txn}
      /\ Deferred(rendering) => rendering.pred \in {queued.txn, pending.txn, anchor}

\* A buffer returns to the pool only when the GPU has finished the frame it held.
ReuseAfterFence ==
    [][\A f \in {pending, queued, ready} \cup suspended :
          Owned(f) /\ f.slot \in FreeSlots' => f.txn \in signaled]_vars

\* The runtime ends itself only for a render failure, a poisoned pool or a
\* re-plan colliding with a prepared frame: the swapchain never refuses a
\* finished frame of a healthy pool, the abandoned frames always fit, and the
\* recovery never rebinds an owned pool.
FatalCauses ==
    /\ fatal \in {"no", "render", "finish", "replan", "poisoned"}
    /\ fatal = "finish" => quarantine # 0

\* A recovery that waits is watching the fence of a frame it still holds.
ResumeWatched ==
    fatal = "no" /\ session = "resuming" => armed \in {f.txn : f \in Holders}

\* The ledger's invariant: types, its agreement with the swapchain, and what
\* deferred frames, failures and a waiting recovery rest on.
LedgerInv == TypeOK /\ LedgerAgrees /\ DeferredWaitsForLive /\ FatalCauses /\ ResumeWatched

\* A settled protocol batch is never settled again, so a client sees one outcome
\* for every frame.
SettledOnce ==
    [][\A t \in Txns : batch[t] \notin {"none", "held"} => batch'[t] = batch[t]]_vars

\* A frame has one outcome, and prepared work is not overtaken.
OneOutcome == SettledOnce /\ NeverOvertaken

\* Every frame the runtime takes on is settled while the session stays active,
\* unless the pool is poisoned or the runtime stops.
FramesSettle ==
    \A t \in Txns : t \in Active ~> (t \notin Active \/ fatal # "no" \/ quarantine # 0
                                       \/ session # "active")

\* A recovery that has begun is finished or cut short.
RecoveryEnds == session = "resuming" ~> (session # "resuming" \/ fatal # "no")

\* A poisoned output ends the runtime.
PoisonEndsRuntime == quarantine # 0 ~> fatal # "no"

=============================================================================
