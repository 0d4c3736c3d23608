---------------------------- MODULE RenderWorker ----------------------------
(***************************************************************************)
(* The Atomic render worker (src/native_output/scanout/render_worker.rs):  *)
(* a thread that owns the GL render domain of the output, the handle the   *)
(* reactor drives it through, the lane of renderer controls               *)
(* (scanout/atomic_egl_gbm.rs) and the reactor's side of its jobs          *)
(* (runtime/render_worker.rs, the worker candidates of                     *)
(* runtime/output_configuration.rs, quiesce and rebind of a session).      *)
(*                                                                         *)
(* A domain is [cursor, history, effects, gen, bo]: the cursor image, the  *)
(* presented frame its damage history starts from (0: invalid), the effect *)
(* generation, the pool generation its slots carry, and the physical pool  *)
(* it has imported (0: no domain).  Renderer controls change it:           *)
(*   cursor   SetCursorImage (PublishMaterialEffectGeneration is alike)    *)
(*   damage   InvalidatePresentedDamageHistory                             *)
(*   present  CommitPresented          discard  DiscardRendered            *)
(*   rebind   RebindPoolGeneration                                         *)
(* want is the domain the Synchronous transport would have by now: every   *)
(* control applied when it is queued.                                      *)
(*                                                                         *)
(* The frame between its render and its pageflip is one variable, frame;   *)
(* OutputPipeline and PageflipCycle model what happens to it.  The boundary *)
(* of an output reconfiguration is the part of it the render worker is in: *)
(* no frame in flight, no continuation owned.                              *)
(***************************************************************************)
EXTENDS Integers, Sequences

CONSTANTS Capacity,     \* MAX_PENDING_RENDER_CONTROLS
          MaxEpoch,     \* bound: renderer control epochs
          MaxPool,      \* bound: physical pools that exist at a time
          MaxGen,       \* bound: pool generations
          MaxReload,    \* bound: effect generations
          Faults        \* what may go wrong: see Outcomes, MaintenanceFails, Timeout

ASSUME RenderAssumption ==
  /\ Capacity \in Nat \ {0} /\ MaxEpoch \in Nat /\ MaxPool \in Nat \ {0} /\ MaxGen \in Nat \ {0}
  /\ MaxReload \in Nat
  /\ Faults \subseteq {"refused", "partial", "panic", "maintenance", "timeout"}

VARIABLES lane,       \* pending_render_controls, render_control_epoch, overflowed
          want,       \* the domain the Synchronous transport would have
          handle,     \* busy; failure: control_lane_failure and whether it is reported
          own,        \* the continuations the reactor holds
          frame,      \* the rendered frame that is not presented yet (0: none)
          cand,       \* pending_output_configuration and its candidate
          scan,       \* the physical pool of the scanout and its generation
          held,       \* physical pools that are not torn down
          registry,   \* the authoritative effect generation
          status,     \* what the reactor does: see Statuses
          broken,     \* "control": a domain refused one; "protocol": an unexpected event
          fatal, cmds, events, eventfd, reply,        \* shared with the worker
          pc, seen, out, applied, active, candidate   \* the worker

reactor == <<lane, want, handle, own, frame, cand, scan, held, registry, status>>
worker == <<pc, seen, out, applied, active, candidate>>
vars == <<reactor, worker, broken, fatal, cmds, events, eventfd, reply>>

Statuses == {"run", "quiesce", "suspended", "rebinding", "teardown", "join", "joining", "down"}
Stages == {"none", "Unprepared", "Preparing", "Fence", "PromotionQueued", "Promoting",
           "Promoted", "Discarding", "DiscardQueued"}

NoDomain == [cursor |-> 0, history |-> 0, effects |-> 0, gen |-> 0, bo |-> 0]
Domain == [cursor : 0..2, history : 0..2, effects : 0..MaxReload, gen : 0..MaxGen, bo : 0..MaxPool]
NoCandidate == [stage |-> "none", bo |-> 0, gen |-> 0]
NoJob == [kind |-> "none"]
NoEvent == [kind |-> "none"]

-----------------------------------------------------------------------------
(* The lane of renderer controls *)

ControlKinds == {"cursor", "damage", "present", "discard", "rebind"}
Control(kind, v) == [epoch |-> 0, kind |-> kind, v |-> v]

\* apply_render_control
Apply(d, c) ==
  CASE c.kind = "cursor" -> [d EXCEPT !.cursor = c.v]
    [] c.kind = "damage" -> [d EXCEPT !.history = 0]
    [] c.kind = "present" -> [d EXCEPT !.history = c.v]
    [] c.kind = "rebind" -> [d EXCEPT !.gen = c.v]
    [] OTHER -> d

\* Mutant: a cursor image reaches the active domain only.
MirroredWithoutCursor == {"damage", "rebind"}

\* mirrored_candidate_control: the kinds the candidate follows too.
Mirrored == {"cursor", "damage", "rebind"}

\* coalescible_render_control
Coalescible(c) == c.kind \in {"cursor", "damage"}

\* The control of the same class in the last segment, which the new one replaces.
Replacement(pending, c) ==
  {i \in DOMAIN pending :
     /\ Coalescible(c) /\ pending[i].kind = c.kind
     /\ \A j \in DOMAIN pending : j >= i => Coalescible(pending[j])}

Full(l, c) == Replacement(l.pending, c) = {} /\ Len(l.pending) >= Capacity

\* enqueue_pending_render_control: the lane with c, renumbered from the epoch the worker knows.
Enqueue(l, c) ==
  LET base == l.epoch - Len(l.pending)
      old == Replacement(l.pending, c)
      gone == IF old = {} THEN Len(l.pending) + 1
              ELSE CHOOSE i \in old : \A j \in old : j <= i
      n == IF old = {} THEN Len(l.pending) + 1 ELSE Len(l.pending)
      next == [i \in 1..n |-> IF i = n THEN c ELSE l.pending[IF i < gone THEN i ELSE i + 1]]
  IN IF Full(l, c) THEN [l EXCEPT !.overflow = TRUE]
     ELSE [l EXCEPT !.pending = [i \in 1..n |-> [next[i] EXCEPT !.epoch = base + i]],
                    !.epoch = base + n]

\* validate_render_control_batch
Valid(from, controls, epoch) ==
  /\ \A i \in DOMAIN controls : controls[i].epoch = from + i
  /\ from + Len(controls) = epoch

\* Mutant: the failure does not wake the reactor.
FailControlLaneSilently ==
  /\ handle' = [handle EXCEPT !.failure = IF @ = "none" THEN "set" ELSE @]
  /\ fatal' = TRUE /\ UNCHANGED eventfd

\* fail_control_lane
FailControlLane ==
  /\ handle' = [handle EXCEPT !.failure = IF @ = "none" THEN "set" ELSE @]
  /\ fatal' = TRUE /\ eventfd' = TRUE

\* queue_render_control_parts: a full lane fails the worker for good.
Push(c) ==
  /\ lane' = Enqueue(lane, c)
  /\ IF Full(lane, c) THEN FailControlLane ELSE UNCHANGED <<handle, fatal, eventfd>>

\* queue_render_control
Queue(c) == Push(c) /\ want' = Apply(want, c)

-----------------------------------------------------------------------------
(* The worker: render_worker_loop.  One command is received and executed in *)
(* one step; its event is sent, and then the eventfd is written.            *)

\* What executing a command can do.  "refused": the work itself fails; "partial": a control
\* of its batch fails, after `n` of them; "panic": a panic the command catches.
Outcomes == {"ok"} \union (Faults \intersect {"refused", "partial", "panic"})

Fatal == [kind |-> "fatal"]

\* The batch's first n controls, on the active domain and mirrored on the candidate.
ApplyBatch(d, controls, n, kinds) ==
  LET after[k \in 0..n] ==
        IF k = 0 THEN d
        ELSE IF controls[k].kind \in kinds THEN Apply(after[k - 1], controls[k])
        ELSE after[k - 1]
  IN after[n]
Applied(d, controls, n) == ApplyBatch(d, controls, n, ControlKinds)
AppliedMirror(d, controls, n) ==
  IF d.bo = 0 THEN d ELSE ApplyBatch(d, controls, n, Mirrored)

\* The event of a job whose batch went in as far as `outcome` says.
EventOf(j, outcome) ==
  LET sound == outcome # "partial" /\ Valid(applied, j.controls, j.epoch)
      done == [kind |-> j.kind, ok |-> sound /\ outcome = "ok", bo |-> j.bo]
  IN CASE outcome = "panic" -> Fatal
       [] outcome # "panic" /\ j.kind \in {"capture", "prepare"} -> done
       [] outcome # "panic" /\ j.kind \in {"render", "fence", "reload"} ->
            IF sound THEN done ELSE Fatal
       [] outcome # "panic" /\ j.kind = "promote" ->
            IF sound /\ candidate.bo = j.bo THEN done ELSE Fatal
       [] OTHER -> IF candidate.bo = j.bo THEN done ELSE Fatal

\* The active domain once the command is done.
ActiveAfter(j, event, d, c) ==
  CASE j.kind = "promote" /\ event.kind = "promote" -> c
    [] j.kind = "reload" /\ event.kind = "reload" /\ event.ok -> [d EXCEPT !.effects = j.effects + 1]
    [] OTHER -> d

\* The candidate domain once the command is done: built fresh from what the job carries.
CandidateAfter(j, event, c) ==
  CASE j.kind = "prepare" /\ event.kind = "prepare" /\ event.ok ->
         [cursor |-> j.cursor, history |-> 0, effects |-> j.effects, gen |-> j.gen, bo |-> j.bo]
    [] j.kind \in {"promote", "discard"} /\ event.kind = j.kind -> NoDomain
    [] OTHER -> c

\* Promote and Discard only ever raise the flag; the others store whether they failed.
FatalAfter(j, event) ==
  IF j.kind \in {"promote", "discard"} THEN fatal \/ event = Fatal ELSE event = Fatal

Execute(outcome, n) ==
  LET j == cmds[1]
      m == IF outcome = "partial" THEN n
           ELSE IF Valid(applied, j.controls, j.epoch) THEN Len(j.controls) ELSE 0
      d == Applied(active, j.controls, m)
      c == IF j.kind = "prepare" THEN candidate ELSE AppliedMirror(candidate, j.controls, m)
      event == EventOf(j, outcome)
  IN /\ pc = "recv" /\ cmds # <<>> /\ j.kind \notin {"apply", "shutdown"}
     /\ IF outcome = "partial" THEN n < Len(j.controls) /\ Valid(applied, j.controls, j.epoch)
        ELSE n = 0
     /\ j.kind = "discard" => outcome = "ok"
     /\ cmds' = <<>>
     /\ seen' = [saw |-> d, want |-> j.want, kind |-> j.kind]
     /\ applied' = applied + m
     /\ active' = ActiveAfter(j, event, d, c)
     /\ candidate' = CandidateAfter(j, event, c)
     /\ fatal' = FatalAfter(j, event)
     /\ out' = event /\ pc' = "publish"
     /\ broken' = IF outcome = "partial" THEN "control" ELSE broken
     /\ UNCHANGED <<reactor, events, eventfd, reply>>

\* ApplyControls answers on a channel of its own; a failure also ends the worker.
ExecuteApply(outcome, n) ==
  LET j == cmds[1]
      sound == outcome = "ok" /\ Valid(applied, j.controls, j.epoch)
      m == IF sound THEN Len(j.controls) ELSE n
  IN /\ pc = "recv" /\ cmds # <<>> /\ j.kind = "apply"
     /\ IF outcome = "partial" THEN n < Len(j.controls) /\ Valid(applied, j.controls, j.epoch)
        ELSE outcome = "ok" /\ n = 0
     /\ cmds' = <<>>
     /\ applied' = applied + m
     /\ active' = Applied(active, j.controls, m)
     /\ candidate' = AppliedMirror(candidate, j.controls, m)
     /\ reply' = IF sound THEN "applied" ELSE "refused"
     /\ IF sound THEN UNCHANGED <<fatal, out, pc, broken>>
        ELSE fatal' = TRUE /\ out' = Fatal /\ pc' = "lastPublish" /\ broken' = "control"
     /\ UNCHANGED <<reactor, seen, events, eventfd>>

\* Shutdown tears both domains down.
ExecuteShutdown ==
  /\ pc = "recv" /\ cmds # <<>> /\ cmds[1].kind = "shutdown"
  /\ cmds' = <<>> /\ pc' = "gone"
  /\ active' = NoDomain /\ candidate' = NoDomain
  /\ UNCHANGED <<reactor, broken, fatal, events, eventfd, reply, seen, out, applied>>

\* Scratch maintenance fails, or the loop itself panics.
MaintenanceFails ==
  /\ "maintenance" \in Faults /\ pc = "recv"
  /\ fatal' = TRUE /\ out' = Fatal /\ pc' = "lastPublish"
  /\ UNCHANGED <<reactor, broken, cmds, events, eventfd, reply, seen, applied, active, candidate>>

\* Mutant: only a last event is followed by a write of the eventfd.
PublishSilently ==
  /\ pc \in {"publish", "lastPublish"} /\ events = <<>>
  /\ events' = <<out>>
  /\ pc' = IF pc = "publish" THEN "recv" ELSE "lastSignal"
  /\ UNCHANGED <<reactor, broken, fatal, cmds, eventfd, reply, seen, out, applied, active, candidate>>

\* publish_event: the event first (the send waits for room), then the eventfd.
Publish ==
  /\ pc \in {"publish", "lastPublish"} /\ events = <<>>
  /\ events' = <<out>>
  /\ pc' = IF pc = "publish" THEN "signal" ELSE "lastSignal"
  /\ UNCHANGED <<reactor, broken, fatal, cmds, eventfd, reply, seen, out, applied, active, candidate>>

Signal ==
  /\ pc \in {"signal", "lastSignal"}
  /\ eventfd' = TRUE /\ out' = NoEvent /\ seen' = NoJob
  /\ IF pc = "signal" THEN pc' = "recv" /\ UNCHANGED <<active, candidate>>
     ELSE pc' = "gone" /\ active' = NoDomain /\ candidate' = NoDomain
  /\ UNCHANGED <<reactor, broken, fatal, cmds, events, reply, applied>>

Worker ==
  \/ \E outcome \in Outcomes, n \in 0..Capacity : Execute(outcome, n) \/ ExecuteApply(outcome, n)
  \/ ExecuteShutdown \/ MaintenanceFails \/ Publish \/ Signal

-----------------------------------------------------------------------------
(* The reactor: jobs *)

shared == <<fatal, cmds, events, eventfd, reply>>

\* The checks of every try_* of the handle; a worker that is gone has dropped its channel.
Admits == ~handle.busy /\ ~fatal /\ cmds = <<>> /\ pc # "gone"

\* take_render_controls_for_job has moved the pending controls into the command.
Command(kind, bo, gen) ==
  [kind |-> kind, controls |-> lane.pending, epoch |-> lane.epoch, bo |-> bo, gen |-> gen,
   cursor |-> want.cursor, effects |-> registry, want |-> want]

\* Mutant: a discard, which carries no controls, empties the lane too.
SendEmptyingTheLane(command) ==
  /\ cmds' = <<command>>
  /\ handle' = [handle EXCEPT !.busy = TRUE]
  /\ lane' = [lane EXCEPT !.pending = <<>>]
  /\ UNCHANGED <<want, fatal, events, eventfd, reply, worker, broken>>

Send(command) ==
  /\ cmds' = <<command>>
  /\ handle' = [handle EXCEPT !.busy = TRUE]
  /\ lane' = [lane EXCEPT !.pending = IF command.kind = "discard" THEN @ ELSE <<>>]
  /\ UNCHANGED <<want, fatal, events, eventfd, reply, worker, broken>>

\* take_pending_render_controls_for_job
Takes == ~lane.overflow

\* A cursor image or a damage invalidation, at any time; the image is a new one.
QueueControl(kind) ==
  LET c == Control(kind, IF kind = "cursor" THEN 3 - want.cursor ELSE 0)
  IN /\ status \in {"run", "suspended"} /\ Enqueue(lane, c).epoch <= MaxEpoch
     /\ Queue(c)
     /\ UNCHANGED <<own, frame, cand, scan, held, registry, status, broken, cmds, events, reply, worker>>

\* The frame is presented (CommitPresented) or given up (DiscardRendered).
FrameSettles(kind) ==
  /\ status = "run" /\ frame # 0
  /\ Queue(Control(kind, frame))
  /\ frame' = 0
  /\ UNCHANGED <<own, cand, scan, held, registry, status, broken, cmds, events, reply, worker>>

\* Frames, captures and release fences wait while an output configuration is pending.
Dispatch(kind) ==
  /\ status = "run" /\ cand.stage = "none" /\ own = {}
  /\ kind = "render" => frame = 0
  /\ kind # "capture" => lane.epoch < MaxEpoch
  /\ Takes /\ Admits
  /\ Send(Command(kind, scan.bo, scan.gen))
  /\ own' = {kind}
  /\ UNCHANGED <<frame, cand, scan, held, registry, status>>

\* ControlCommand::EffectsReload
DispatchReload ==
  /\ status = "run" /\ "reload" \notin own /\ registry < MaxReload
  /\ Takes /\ Admits
  /\ Send(Command("reload", 0, 0))
  /\ own' = own \union {"reload"}
  /\ UNCHANGED <<frame, cand, scan, held, registry, status>>

-----------------------------------------------------------------------------
(* The reactor: an output configuration with a worker candidate *)

FreePools == (1..MaxPool) \ held

RequestConfiguration ==
  /\ status = "run" /\ cand.stage = "none" /\ scan.gen < MaxGen
  /\ cand' = [NoCandidate EXCEPT !.stage = "Unprepared"]
  /\ UNCHANGED <<lane, want, handle, own, frame, scan, held, registry, status, broken, shared, worker>>

\* native_output_reconfiguration_boundary, as far as the render worker is concerned.
Boundary == frame = 0 /\ own = {}

\* prepare_output_configuration_candidate, start_worker_output_configuration_candidate;
\* the candidate is built under the generation after the current one.
PrepareCandidate ==
  /\ status = "run" /\ cand.stage = "Unprepared" /\ Boundary /\ scan.gen < MaxGen
  /\ Takes /\ Admits
  /\ \E bo \in FreePools :
       /\ \A b \in FreePools : bo <= b
       /\ Send(Command("prepare", bo, scan.gen + 1))
       /\ held' = held \union {bo}
       /\ cand' = [stage |-> "Preparing", bo |-> bo, gen |-> scan.gen + 1]
  /\ UNCHANGED <<own, frame, scan, registry, status>>

\* The candidate cannot be built: the request fails.
PrepareRefused ==
  /\ "refused" \in Faults /\ status = "run" /\ cand.stage = "Unprepared" /\ Boundary
  /\ ~handle.busy
  /\ cand' = NoCandidate
  /\ UNCHANGED <<lane, want, handle, own, frame, scan, held, registry, status, broken, shared, worker>>

\* Mutant: the old pool goes when the modeset is committed, not when its domain is gone.
CommitModesetReleasingOld ==
  /\ status = "run" /\ cand.stage = "Fence" /\ Boundary /\ ~handle.busy
  /\ cand' = [cand EXCEPT !.stage = "PromotionQueued"]
  /\ held' = held \ {scan.bo}
  /\ UNCHANGED <<lane, want, handle, own, frame, scan, registry, status, broken, shared, worker>>

\* advance_worker_candidate_ready: the fence has signalled and the modeset is committed.
CommitModeset ==
  /\ status = "run" /\ cand.stage = "Fence" /\ Boundary /\ ~handle.busy
  /\ cand' = [cand EXCEPT !.stage = "PromotionQueued"]
  /\ UNCHANGED <<lane, want, handle, own, frame, scan, held, registry, status, broken, shared, worker>>

\* An error of the reactor ends the runtime: its Drop quiesces the worker, then joins it.
Failed == IF status = "teardown" THEN "join" ELSE "teardown"

\* fail_pending_output_configuration, queue_worker_candidate_discard: the modeset is refused,
\* or the session quiesces.
DiscardCandidate ==
  /\ ~handle.busy
  /\ \/ status = "run" /\ cand.stage = "Fence" /\ Boundary /\ "refused" \in Faults
     \/ status \in {"quiesce", "teardown"} /\ cand.stage \in {"Fence", "DiscardQueued"}
  /\ IF Admits
     THEN /\ Send([Command("discard", cand.bo, cand.gen) EXCEPT !.controls = <<>>])
          /\ cand' = [cand EXCEPT !.stage = "Discarding"]
          /\ UNCHANGED status
     ELSE /\ cand' = [cand EXCEPT !.stage = "DiscardQueued"] /\ status' = Failed
          /\ UNCHANGED <<lane, want, handle, broken, shared, worker>>
  /\ UNCHANGED <<own, frame, scan, held, registry>>

\* try_promote_worker_output_candidate, from the cycle or from a quiesce.
PromoteCandidate ==
  /\ status \in {"run", "quiesce", "teardown"} /\ cand.stage = "PromotionQueued" /\ ~handle.busy
  /\ IF Takes /\ Admits
     THEN /\ Send(Command("promote", cand.bo, cand.gen))
          /\ cand' = [cand EXCEPT !.stage = "Promoting"]
          /\ UNCHANGED status
     ELSE /\ status' = Failed
          /\ UNCHANGED <<lane, want, handle, broken, shared, worker, cand>>
  /\ UNCHANGED <<own, frame, scan, held, registry>>

\* complete_worker_output_configuration, adopt_worker_output_candidate: the new pool replaces
\* the old one, and its first frame counts as presented.
AdoptCandidate ==
  /\ status \in {"run", "quiesce", "teardown"} /\ cand.stage = "Promoted"
  /\ scan' = [bo |-> cand.bo, gen |-> cand.gen]
  /\ held' = held \ {scan.bo}
  /\ cand' = NoCandidate
  /\ LET fresh == [want EXCEPT !.history = 0, !.gen = cand.gen, !.bo = cand.bo]
         first == Control("present", 1)
     IN Push(first) /\ want' = Apply(fresh, first)
  /\ UNCHANGED <<own, frame, registry, status, broken, cmds, events, reply, worker>>

-----------------------------------------------------------------------------
(* The reactor: events of the worker *)

\* process_render_worker_events and the handlers it calls: is the event one the reactor owns?
Expected(e) ==
  CASE e.kind \in {"render", "capture"} -> e.kind \in own /\ own \subseteq {e.kind, "reload", "fence"}
    [] e.kind = "fence" -> "fence" \in own
    [] e.kind = "reload" -> own \intersect {"render", "capture"} = {} /\ "reload" \in own
    [] e.kind = "prepare" -> /\ own \intersect {"render", "capture", "reload"} = {}
                             /\ cand.stage = "Preparing" /\ cand.bo = e.bo
    [] e.kind = "promote" -> cand.stage = "Promoting" /\ cand.bo = e.bo
    [] OTHER -> cand.stage = "Discarding" /\ cand.bo = e.bo

\* A frame that was rendered is in flight until FrameSettles.
NewFrame == IF want.history = 1 THEN 2 ELSE 1

Settle(e) ==
  /\ own' = own \ {e.kind}
  /\ frame' = IF e.kind = "render" /\ e.ok THEN NewFrame ELSE frame
  /\ registry' = IF e.kind = "reload" /\ e.ok THEN registry + 1 ELSE registry
  /\ want' = [want EXCEPT !.effects = registry']
  /\ cand' = CASE e.kind = "prepare" /\ e.ok -> [cand EXCEPT !.stage = "Fence"]
               [] e.kind = "promote" -> [cand EXCEPT !.stage = "Promoted"]
               [] (e.kind = "prepare" /\ ~e.ok) \/ e.kind = "discard" -> NoCandidate
               [] OTHER -> cand
  /\ held' = IF (e.kind = "prepare" /\ ~e.ok) \/ e.kind = "discard" THEN held \ {cand.bo} ELSE held

\* The reactor looks: it is woken by the eventfd, or it steps a candidate of a quiesce.
Looks ==
  \/ status \in {"run", "quiesce", "teardown"} /\ eventfd /\ (status = "run" \/ handle.busy)
  \/ status \in {"quiesce", "teardown"} /\ ~handle.busy
     /\ cand.stage \in {"Preparing", "Promoting", "Discarding"}

\* try_take_event reports a failure of the lane, once, before any event.
LaneFailureDue == handle.failure = "set"

TakeEvent ==
  /\ Looks
  /\ eventfd' = FALSE
  /\ UNCHANGED <<lane, scan, fatal, cmds, reply, worker>>
  /\ CASE LaneFailureDue ->
            /\ handle' = [handle EXCEPT !.failure = "reported"] /\ status' = Failed
            /\ UNCHANGED <<want, own, frame, cand, held, registry, broken, events>>
       [] ~LaneFailureDue /\ events = <<>> ->
            /\ status' = IF pc = "gone" THEN Failed ELSE status
            /\ UNCHANGED <<want, handle, own, frame, cand, held, registry, broken, events>>
       [] ~LaneFailureDue /\ events # <<>> ->
            /\ events' = <<>> /\ handle' = [handle EXCEPT !.busy = FALSE]
            /\ IF events[1] = Fatal \/ ~Expected(events[1])
               THEN /\ status' = Failed
                    /\ broken' = IF events[1] = Fatal THEN broken ELSE "protocol"
                    /\ UNCHANGED <<want, own, frame, cand, held, registry>>
               ELSE Settle(events[1]) /\ UNCHANGED <<status, broken>>

-----------------------------------------------------------------------------
(* The reactor: a session that is suspended and resumed, and the end *)

Rest == <<lane, want, handle, own, frame, cand, scan, held, registry, broken, shared, worker>>

StartQuiesce == status = "run" /\ status' = "quiesce" /\ UNCHANGED Rest

\* The runtime returns, with or without an error, and is dropped.
EndRuntime == status \in {"run", "suspended"} /\ status' = "teardown" /\ UNCHANGED Rest

\* quiesce_render_worker: the worker is idle and no candidate is left.
QuiesceDone ==
  /\ status \in {"quiesce", "teardown"} /\ ~handle.busy /\ cand.stage \in {"none", "Unprepared"}
  /\ status' = CASE status = "teardown" -> "join"
                 [] status = "quiesce" /\ own # {} -> "teardown"
                 [] OTHER -> "suspended"
  /\ UNCHANGED Rest

\* Mutant: only a teardown has a deadline.
QuiesceTimeoutOfTeardown ==
  /\ "timeout" \in Faults /\ status = "teardown" /\ handle.busy
  /\ status' = Failed
  /\ UNCHANGED Rest

QuiesceTimeout ==
  /\ "timeout" \in Faults /\ status \in {"quiesce", "teardown"} /\ handle.busy
  /\ status' = Failed
  /\ UNCHANGED Rest

\* retire_quarantined_pageflip, rebind_for_session, apply_controls_while_quiesced
StartRebind ==
  LET gen == scan.gen + 1
      rebind == Control("rebind", gen)
      damage == Control("damage", 0)
      retired == IF frame # 0 THEN Enqueue(lane, Control("discard", frame)) ELSE lane
      next == Enqueue(Enqueue(retired, rebind), damage)
  IN /\ status = "suspended" /\ gen <= MaxGen
     /\ scan' = [scan EXCEPT !.gen = gen] /\ frame' = 0
     /\ want' = Apply(Apply(want, rebind), damage)
     /\ lane' = IF next.overflow THEN next ELSE [next EXCEPT !.pending = <<>>]
     /\ IF next.overflow
        THEN FailControlLane /\ status' = "teardown" /\ UNCHANGED cmds
        ELSE IF ~Admits
        THEN status' = "teardown" /\ UNCHANGED <<handle, fatal, eventfd, cmds>>
        ELSE /\ cmds' = <<[kind |-> "apply", controls |-> next.pending, epoch |-> next.epoch]>>
             /\ handle' = [handle EXCEPT !.busy = TRUE] /\ status' = "rebinding"
             /\ UNCHANGED <<fatal, eventfd>>
     /\ UNCHANGED <<own, cand, held, registry, broken, events, reply, worker>>

EndRebind ==
  /\ status = "rebinding" /\ reply # "none"
  /\ reply' = "none"
  /\ IF reply = "applied"
     THEN /\ handle' = [handle EXCEPT !.busy = FALSE] /\ status' = "run"
          /\ UNCHANGED <<fatal, eventfd>>
     ELSE /\ handle' = [busy |-> FALSE,
                        failure |-> IF handle.failure = "none" THEN "set" ELSE handle.failure]
          /\ fatal' = TRUE /\ eventfd' = TRUE /\ status' = "teardown"
  /\ UNCHANGED <<lane, want, own, frame, cand, scan, held, registry, broken, cmds, events, worker>>

\* No answer in three seconds, or a worker that is gone: busy stays.
RebindLost ==
  /\ status = "rebinding" /\ reply = "none" /\ ("timeout" \in Faults \/ pc = "gone")
  /\ FailControlLane /\ status' = "teardown"
  /\ UNCHANGED <<lane, want, own, frame, cand, scan, held, registry, broken, cmds, events, reply, worker>>

\* shutdown_and_join
SendShutdown ==
  /\ status = "join" /\ (cmds = <<>> \/ pc = "gone")
  /\ cmds' = IF pc = "gone" THEN cmds ELSE <<[kind |-> "shutdown"]>>
  /\ status' = "joining"
  /\ UNCHANGED <<lane, want, handle, own, frame, cand, scan, held, registry, broken,
                 fatal, events, eventfd, reply, worker>>

\* Drop for AtomicEglGbmScanout: the pool goes with the worker, and stays without it.
Joined ==
  /\ status = "joining" /\ pc = "gone"
  /\ held' = held \ {scan.bo} /\ status' = "down"
  /\ UNCHANGED <<lane, want, handle, own, frame, cand, scan, registry, broken, shared, worker>>

JoinTimeout ==
  /\ "timeout" \in Faults /\ status \in {"join", "joining"}
  /\ status' = "down"
  /\ UNCHANGED Rest

-----------------------------------------------------------------------------
Init ==
  /\ lane = [pending |-> <<>>, epoch |-> 0, overflow |-> FALSE]
  /\ active = [cursor |-> 1, history |-> 0, effects |-> 0, gen |-> 1, bo |-> 1]
  /\ want = active
  /\ handle = [busy |-> FALSE, failure |-> "none"]
  /\ own = {} /\ frame = 0 /\ cand = NoCandidate
  /\ scan = [bo |-> 1, gen |-> 1] /\ held = {1} /\ registry = 0
  /\ status = "run" /\ broken = "no"
  /\ fatal = FALSE /\ cmds = <<>> /\ events = <<>> /\ eventfd = FALSE /\ reply = "none"
  /\ pc = "recv" /\ seen = NoJob /\ out = NoEvent /\ applied = 0 /\ candidate = NoDomain

Timeouts == QuiesceTimeout \/ RebindLost \/ JoinTimeout

\* What the reactor does by itself; the rest waits for a client, the session or the display.
Settling ==
  \/ TakeEvent \/ DiscardCandidate \/ PromoteCandidate \/ AdoptCandidate
  \/ QuiesceDone \/ EndRebind \/ SendShutdown \/ Joined

Next ==
  \/ Worker \/ Settling \/ Timeouts
  \/ \E kind \in {"cursor", "damage"} : QueueControl(kind)
  \/ \E kind \in {"present", "discard"} : FrameSettles(kind)
  \/ \E kind \in {"render", "capture", "fence"} : Dispatch(kind)
  \/ DispatchReload
  \/ RequestConfiguration \/ PrepareCandidate \/ PrepareRefused \/ CommitModeset
  \/ StartQuiesce \/ StartRebind \/ EndRuntime

Spec == Init /\ [][Next]_vars

\* The reactor and its deadlines; the worker may be stuck in a GPU call for good.
FairSpec == Spec /\ WF_vars(Settling) /\ WF_vars(Timeouts)

-----------------------------------------------------------------------------
(* Properties *)

\* Types and bounds of the state.
TypeOK ==
  /\ Len(lane.pending) <= Capacity /\ lane.epoch \in Nat /\ lane.overflow \in BOOLEAN
  /\ want \in Domain /\ active \in Domain /\ candidate \in Domain
  /\ handle \in [busy : BOOLEAN, failure : {"none", "set", "reported"}]
  /\ own \subseteq {"render", "capture", "fence", "reload"} /\ frame \in 0..2
  /\ cand \in [stage : Stages, bo : 0..MaxPool, gen : 0..MaxGen]
  /\ scan \in [bo : 1..MaxPool, gen : 1..MaxGen] /\ held \subseteq 1..MaxPool
  /\ registry \in 0..MaxReload /\ status \in Statuses
  /\ broken \in {"no", "control", "protocol"} /\ reply \in {"none", "applied", "refused"}
  /\ pc \in {"recv", "publish", "signal", "lastPublish", "lastSignal", "gone"}
  /\ Len(cmds) <= 1 /\ Len(events) <= 1

\* A frame or a capture is drawn by the domain the Synchronous transport would have had when
\* it was dispatched: coalescing, mirroring and promotion lose and reorder nothing.  Its
\* effects are none the registry has not published (they may be older: a reload between the
\* preparation of a candidate and its promotion reaches the active domain only).
RendersAsSynchronous ==
  broken = "no" /\ seen.kind \in {"render", "capture"} /\ out.kind = seen.kind =>
    /\ \A field \in {"cursor", "history", "gen", "bo"} : seen.saw[field] = seen.want[field]
    /\ seen.saw.effects <= seen.want.effects

InFlight == IF cmds # <<>> /\ cmds[1].kind \notin {"discard", "shutdown"}
            THEN Len(cmds[1].controls) ELSE 0

\* While the runtime lives, what the worker has applied, what is on its way and what is pending
\* make up the reactor's epoch: no later batch is refused by validate_render_control_batch.
EpochsContiguous ==
  broken = "no" /\ status \in {"run", "quiesce", "suspended", "rebinding"} =>
    applied + InFlight + Len(lane.pending) = lane.epoch

\* A render domain never outlives the physical pool it has imported, whatever fails and
\* whoever times out.
PoolsBacked == {active.bo, candidate.bo} \ {0} \subseteq held

\* Every event of the worker is one the reactor has a continuation for.
NoProtocolError == broken # "protocol"

\* The protocol's invariant: types, the lane's capacity, epochs and events in step.
ProtocolInv == TypeOK /\ EpochsContiguous /\ NoProtocolError

\* Nothing waits for a running reactor unnoticed: an event or a failure of the lane that it has not
\* taken yet has written the eventfd, or is about to.
NoLostWakeup ==
  status = "run" =>
    /\ handle.failure = "set" => eventfd
    /\ events # <<>> => eventfd \/ pc \in {"signal", "lastSignal"}

\* While the worker is not stuck, a job that was dispatched is settled, or the runtime leaves
\* the running state.
JobSettles ==
  WF_vars(Worker) => (handle.busy /\ status = "run" ~> ~handle.busy \/ status # "run")

\* The runtime is torn down after the worker has failed while a candidate was with it.
CandidateStranded ==
  status = "teardown" /\ ~handle.busy /\ cand.stage \in {"Preparing", "Promoting", "Discarding"}

\* A session that is being suspended gets there, and a runtime that ends is torn down, even
\* when the worker is stuck in a GPU call; what TeardownEnds is about excepted.
QuiesceEnds ==
  status \in {"quiesce", "teardown"} ~> status \in {"suspended", "down"} \/ CandidateStranded

\* A runtime that ends is torn down: render_worker.rs says of the shutdown that "A wedged GPU
\* call must not make teardown wait forever".
TeardownEnds == status = "teardown" ~> status = "down"
=============================================================================
