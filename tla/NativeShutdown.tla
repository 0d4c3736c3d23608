---------------------------- MODULE NativeShutdown ----------------------------
(***************************************************************************)
(* How the native runtime ends: the shutdown lifecycle                     *)
(* (src/native_output/runtime/shutdown.rs, shutdown_cycle.rs), advanced by *)
(* the reactor's cycle (cycle.rs), which also reads the signals, reaps and *)
(* restarts children and serves XWayland (ChildSupervisor), and the        *)
(* emergency cleanup of a runtime error (mod.rs).                          *)
(*                                                                         *)
(* A cycle is two steps, Wake (the page flips and signals it read, the     *)
(* children it reaped) and Finish (XWayland, deadlines, lifecycle, input), *)
(* so that a signal, an exit or a page flip can come between the two.      *)
(* "joining" is a reactor that does not come back from the join of the KMS *)
(* worker (KmsWorker shows when, DrainStuck there).                        *)
(*                                                                         *)
(*   life      NativeShutdownLifecycle; life.expected: a token is awaited  *)
(*   flip      the page flip in flight when the shutdown was asked for:    *)
(*             "pending" in the kernel, "queued" as an unread event,       *)
(*             "read", or "none" (there was none, or it was given up)      *)
(*   completed NativeCycleState::completed_pageflip_token                  *)
(*   captures, launches   the requests that wait since then, in batches of *)
(*             what one turn settles                                       *)
(*   flipDue, graceOver   the drain's 250 ms and TERM_GRACE have passed    *)
(*   authorized the shell processes the server trusts                      *)
(*   discarded a shell's exit was reaped by kill_managed_now               *)
(*                                                                         *)
(* While the session runs, commits, captures and launches come and go; the *)
(* model leaves them out until the request, which finds any of them.       *)
(***************************************************************************)
EXTENDS ChildSupervisor

CONSTANTS MaxCaptures, MaxLaunches    \* bounds: batches waiting at a request

ASSUME RequestsAssumption == MaxCaptures \in Nat /\ MaxLaunches \in Nat

VARIABLES life, phase, completed, flip, flipDue, graceOver, captures, launches,
          sup, xw, authorized, discarded

lifeVars == <<life, flipDue, graceOver>>
requestVars == <<captures, launches>>
childVars == <<sup, xw, authorized, discarded>>
vars == <<life, phase, completed, flip, flipDue, graceOver, captures, launches,
          sup, xw, authorized, discarded>>

States == <<"Running", "Requested", "Draining", "StoppingChildren", "Restoring", "Complete">>
Phases == {"wait", "mid", "signalled", "joining", "over", "failed"}
Less(n) == IF n = 0 THEN 0 ELSE n - 1
Running == life.state = "Running"

Init ==
  /\ life = [state |-> "Running", expected |-> FALSE, outcome |-> "none", childStop |-> FALSE]
  /\ phase = "wait" /\ completed = FALSE
  /\ flip = "none" /\ flipDue = FALSE /\ graceOver = FALSE
  /\ captures = 0 /\ launches = 0
  /\ sup = NewSupervisor /\ xw = NewXwayland
  /\ authorized = {1} /\ discarded = FALSE

-----------------------------------------------------------------------------
(* The lifecycle *)

\* request_shutdown
RequestShutdown(l, pending) ==
  IF l.state # "Running" THEN l ELSE [l EXCEPT !.state = "Requested", !.expected = pending]

\* The Requested and Draining arms of advance_shutdown_lifecycle: a request with a token
\* in flight enters Draining and returns, whatever this cycle has read.
AdvanceFlip(l, read, due) ==
  CASE l.state = "Requested" /\ l.expected -> [l EXCEPT !.state = "Draining"]
    [] l.state = "Requested" /\ ~l.expected ->
         [l EXCEPT !.state = "StoppingChildren", !.outcome = "idle"]
    [] l.state = "Draining" /\ read ->
         [l EXCEPT !.state = "StoppingChildren", !.outcome = "confirmed"]
    [] l.state = "Draining" /\ ~read /\ due ->
         [l EXCEPT !.state = "StoppingChildren", !.outcome = "forced"]
    [] OTHER -> l

\* mark_child_stop_started and what it starts, once; then advance_shutdown.
StopChildren(l, p, over, fast) ==
  LET q == IF l.childStop THEN p
           ELSE LET r == StopXwayland(p) IN Pair(BeginShutdown(r.s), r.x)
  IN Pair(AdvanceShutdown(q.s, over, fast), q.x)

\* advance_shutdown_lifecycle up to the restore.
AdvanceLifecycle(l, p, read, due, over, fast) ==
  LET l1 == AdvanceFlip(l, read, due)
      q == StopChildren(l1, p, over, fast)
  IN IF l1.state # "StoppingChildren" THEN [l |-> l1, p |-> p]
     ELSE [l |-> [l1 EXCEPT !.childStop = TRUE,
                            !.state = IF SessionGone(q.s) THEN "Restoring" ELSE @],
           p |-> q]

\* restore_kms_for_shutdown: the forced path clears what the kernel still holds.
FlipAfter(l, f) == IF l.outcome = "forced" THEN "none" ELSE f

\* pageflip_deadline_ns is cleared when the drain ends.
DueAfter(l) == flipDue /\ l.state \in {"Requested", "Draining"}

\* The effect of a lifecycle advance on the variables, from the lifecycle l and the pair p;
\* a restore that fails ends the runtime with an error.
Advance(l, p, read, f) ==
  \E fast \in IF graceOver THEN SUBSET SessionChildren(p.s) ELSE {{}}, restored \in BOOLEAN :
    LET r == AdvanceLifecycle(l, p, read, flipDue, graceOver, fast)
        ends == r.l.state = "Restoring"
    IN /\ life' = IF ends /\ restored THEN [r.l EXCEPT !.state = "Complete"] ELSE r.l
       /\ sup' = r.p.s /\ xw' = r.p.x
       /\ flip' = IF ends /\ restored THEN FlipAfter(r.l, f) ELSE f
       /\ flipDue' = DueAfter(r.l)
       /\ phase' = IF ~ends THEN "wait" ELSE IF restored THEN "over" ELSE "failed"

\* A cycle that ends without advancing the lifecycle.
Return(l, p, f) ==
  life' = l /\ sup' = p.s /\ xw' = p.x /\ flip' = f /\ phase' = "wait" /\ UNCHANGED flipDue

\* request_native_shutdown_inner: it finds a page flip in flight or none, and fails a
\* first turn of the captures and launches that wait. Its begin_quiesce is RunSession's: a
\* signal has done it already.
Requests ==
  {[life |-> RequestShutdown(life, f # "none"), flip |-> f, captures |-> Less(c),
    launches |-> Less(n)] :
     f \in {"none", "pending", "queued"}, c \in 0..MaxCaptures, n \in 0..MaxLaunches}

-----------------------------------------------------------------------------
(* The cycle *)

\* take_termination_signal: the supervisor keeps quiescing.
TakeSignal(s) == [s EXCEPT !.pending = FALSE]

\* The exits reap_supervised_children passes to the service, that of the current
\* generation and that of a process it asked to stop.
ServiceExits(x, s, spent) ==
  LET gone == Exited(s)
      y == IF x.proc \in gone THEN HandleProcessExit(x, x.proc, s.children[x.proc].ok, spent)
           ELSE x
  IN IF y.term \in gone THEN HandleProcessExit(y, y.term, FALSE, spent) ELSE y

\* Mutant: the shell that exited stays trusted.
TransferWithoutRevoke(s, spawns) ==
  authorized \union (IF Restarts(s, spawns) THEN {s.nextId} ELSE {})

\* transfer_astrea_shell_authorization for a shell among the exits.
TransferAuthorization(s, spawns) ==
  LET shells == {i \in Exited(s) : s.children[i].kind = "shell"}
  IN (authorized \ shells) \union (IF Restarts(s, spawns) THEN {s.nextId} ELSE {})

\* The children branch of run_cycle: poll, take the signal, request, reap.
ServeChildren(f) ==
  LET polled == DrainSignalFd(sup)
      s == TakeSignal(polled)
  IN \E spawns \in BOOLEAN, spent \in BOOLEAN :
       /\ authorized' = TransferAuthorization(s, spawns)
       /\ sup' = ReapExited(s, spawns) /\ xw' = ServiceExits(xw, s, spent)
       /\ IF polled.pending /\ Running
          THEN \E q \in Requests : /\ phase' = "signalled" /\ life' = q.life /\ flip' = q.flip
                                   /\ captures' = q.captures /\ launches' = q.launches
          ELSE phase' = "mid" /\ flip' = f /\ UNCHANGED <<life, captures, launches>>

\* wait_for_events_and_pageflips, and the children if their descriptor woke the cycle.
Wake ==
  /\ phase = "wait"
  /\ completed' = (flip = "queued")
  /\ LET f == IF flip = "queued" THEN "read" ELSE flip
     IN IF sup.fd # {} \/ life.state = "StoppingChildren"
        THEN ServeChildren(f)
        ELSE /\ phase' = "mid" /\ flip' = f
             /\ UNCHANGED <<life, captures, launches, sup, xw, authorized>>
  /\ UNCHANGED <<flipDue, graceOver, discarded>>

\* The end of a cycle whose signal asked for the shutdown: it advances only if no capture
\* and no launch is left waiting.
FinishSignalled ==
  /\ phase = "signalled"
  /\ completed' = FALSE
  /\ IF captures = 0 /\ launches = 0
     THEN Advance(life, Pair(sup, xw), FALSE, flip)
     ELSE Return(life, Pair(sup, xw), flip)
  /\ UNCHANGED <<captures, launches, graceOver, authorized, discarded>>

\* dispatch_xwayland_events: what one readiness event makes of the service.
Dispatched(p, event, spawns, spent) ==
  CASE event = "listen" /\ p.x.state = "Armed" ->
         ListenerReady(p, spawns /\ CanSpawn(p.s), spent)
    [] event = "ready" /\ p.x.state = "Starting" -> Pair(p.s, [p.x EXCEPT !.state = "Running"])
    [] event = "broken" /\ Serving(p.x) -> FailGeneration(p, spent)
    [] OTHER -> p

Escalates(p, due) ==
  due /\ p.x.term \in DOMAIN p.s.children /\ ~p.x.escalated

\* dispatch_xwayland_events, then handle_deadline if the timer woke the cycle; a deadline
\* set by this cycle's events has not passed.
ServeXwayland(event, killDue, due, dies, spawns, spent) ==
  LET p == Dispatched(Pair(sup, xw), event, spawns, spent)
      late == killDue /\ p.x.term = xw.term
      q == EscalateTermination(p, late, dies, spawns)
  IN [p |-> ServiceDeadline(q, due /\ q.x.state = xw.state, spent),
      drops |-> Escalates(p, late) /\ \E i \in Exited(p.s) : p.s.children[i].kind = "shell"]

\* Input of a cycle that still runs: a shortcut may ask for the shutdown.
RunSession(p) ==
  \/ \E q \in Requests :
       /\ captures' = q.captures /\ launches' = q.launches
       /\ LET r == Pair([p.s EXCEPT !.quiescing = TRUE], p.x)
          IN IF q.captures = 0 /\ q.launches = 0
             THEN Advance(q.life, r, FALSE, q.flip) ELSE Return(q.life, r, q.flip)
  \/ Return(life, p, flip) /\ UNCHANGED <<captures, launches>>

\* What the XWayland half of a cycle can leave.
Choice(matters) == IF matters THEN BOOLEAN ELSE {FALSE}
Events ==
  {"none"} \union (IF xw.state = "Armed" THEN {"listen"} ELSE {})
  \union (IF xw.state = "Starting" THEN {"ready"} ELSE {})
  \union (IF Serving(xw) THEN {"broken"} ELSE {})
Served ==
  LET kills == Choice(Escalates(Pair(sup, xw), TRUE))
  IN {ServeXwayland(event, killDue, due, dies, spawns, spent) :
        event \in Events, killDue \in kills, dies \in kills, spawns \in BOOLEAN,
        due \in Choice(xw.state \in {"Starting", "Backoff"}),
        spent \in Choice(xw.state = "Armed" \/ Serving(xw))}

\* The rest of run_cycle. A cycle that finds the shutdown requested returns before the
\* branch that settles launches.
Finish ==
  /\ phase = "mid"
  /\ completed' = FALSE
  /\ \E r \in Served :
       LET left == Less(captures)
       IN /\ discarded' = (discarded \/ r.drops)
          /\ CASE Running -> RunSession(r.p)
               [] ~Running /\ left # 0 ->
                    captures' = left /\ Return(life, r.p, flip) /\ UNCHANGED launches
               [] OTHER ->
                    captures' = 0 /\ Advance(life, r.p, completed, flip) /\ UNCHANGED launches
  /\ UNCHANGED <<graceOver, authorized>>

\* NativeRuntime::run on an error of the cycle: the emergency cleanup.
EmergencyCleanup ==
  /\ phase \in {"mid", "signalled"}
  /\ phase' = "failed"
  /\ LET p == StopXwayland(Pair(sup, xw))
     IN sup' = KillSessionOwnedNow(p.s) /\ xw' = p.x
  /\ UNCHANGED <<life, completed, flip, flipDue, graceOver, captures, launches,
                 authorized, discarded>>

-----------------------------------------------------------------------------
(* The environment *)

Live == phase \in {"wait", "mid", "signalled"}

\* A process exits by itself or of the signal it was sent (only XWayland's status matters; an
\* application's exit wakes the reactor and nothing else).
ProcessExits(i) ==
  /\ Live /\ i \in SessionChildren(sup) /\ sup.children[i].up
  /\ \E ok \in {FALSE, sup.children[i].kind = "xwayland"} : sup' = Exit(sup, {i}, ok)
  /\ UNCHANGED <<lifeVars, requestVars, phase, completed, flip, xw, authorized,
                 discarded>>

KilledExits(i) ==
  i \in DOMAIN sup.children /\ sup.children[i].sig = 2 /\ ProcessExits(i)

\* Someone sends the compositor a termination signal; one that follows a request is
\* drained without effect.
Terminate ==
  /\ Live /\ Running /\ "TERM" \notin sup.fd
  /\ sup' = [sup EXCEPT !.fd = @ \union {"TERM"}]
  /\ UNCHANGED <<lifeVars, requestVars, phase, completed, flip, xw, authorized,
                 discarded>>

\* The kernel completes the commit in flight.
FlipCompletes ==
  /\ Live /\ flip = "pending"
  /\ flip' = "queued"
  /\ UNCHANGED <<lifeVars, requestVars, childVars, phase, completed>>

\* The seat is taken away while the flip is out (suspend_native_session): a turn of captures
\* is failed and the KMS worker is joined. A flip of the synchronous path is then
\* quarantined. A flip of the worker keeps the worker, and the reactor in the join: the
\* shutdown has stopped its admission, so it waits for the flip to be acknowledged.
SeatLost ==
  /\ phase = "wait" /\ flip \in {"pending", "queued"}
  /\ captures' = Less(captures)
  /\ \/ flip' = "none" /\ UNCHANGED phase
     \/ phase' = "joining" /\ UNCHANGED flip
  /\ UNCHANGED <<lifeVars, launches, childVars, completed>>

DrainTimeout ==
  /\ Live /\ life.state \in {"Requested", "Draining"} /\ life.expected /\ ~flipDue
  /\ flipDue' = TRUE
  /\ UNCHANGED <<life, graceOver, requestVars, childVars, phase, completed, flip>>

GraceEnds ==
  /\ Live /\ sup.stop = 1 /\ ~graceOver
  /\ graceOver' = TRUE
  /\ UNCHANGED <<life, flipDue, requestVars, childVars, phase, completed, flip>>

\* A restart of the shell falls out of the guard's window.
WindowPasses ==
  /\ Live /\ sup.history > 0
  /\ sup' = [sup EXCEPT !.history = @ - 1]
  /\ UNCHANGED <<lifeVars, requestVars, phase, completed, flip, xw, authorized,
                 discarded>>

\* The process has ended, or its reactor is inside the join for good.
Ended == ~Live /\ UNCHANGED vars

Next ==
  \/ Wake \/ FinishSignalled \/ Finish \/ EmergencyCleanup
  \/ \E i \in Procs : ProcessExits(i)
  \/ Terminate \/ FlipCompletes \/ SeatLost \/ DrainTimeout \/ GraceEnds \/ WindowPasses
  \/ Ended

Spec == Init /\ [][Next]_vars

\* Wake, FinishSignalled and Finish are possible whenever their phase is reached, and with
\* EmergencyCleanup they are the steps that change the phase.
CycleMoves == Live /\ phase' \in Phases

\* The reactor keeps cycling while it has a deadline, time passes, and a process that was
\* killed dies.
FairSpec ==
  /\ Spec
  /\ WF_phase(CycleMoves) /\ WF_vars(DrainTimeout) /\ WF_vars(GraceEnds)
  /\ WF_vars(\E i \in Procs : KilledExits(i))
-----------------------------------------------------------------------------
(* Properties *)

\* Every variable has its type.
ShutdownTypeOK ==
  /\ life \in [state : {States[k] : k \in 1..6}, expected : BOOLEAN, childStop : BOOLEAN,
              outcome : {"none", "idle", "confirmed", "forced"}]
  /\ phase \in Phases
  /\ flip \in {"none", "pending", "queued", "read"}
  /\ {completed, flipDue, graceOver, discarded} \subseteq BOOLEAN
  /\ captures \in 0..MaxCaptures /\ launches \in 0..MaxLaunches /\ authorized \subseteq Procs
  /\ DOMAIN sup.children \subseteq Procs /\ sup.nextId \in 3..MaxId + 1
  /\ sup.history \in 0..MaxRestarts /\ sup.stop \in 0..2 /\ sup.fd \subseteq {"CHLD", "TERM"}
  /\ {sup.quiescing, sup.pending, xw.escalated} \subseteq BOOLEAN
  /\ xw.state \in {"Disabled", "Armed", "Starting", "Running", "Backoff", "Failed"}
  /\ {xw.proc, xw.term} \subseteq Procs \union {NoProc}

\* KMS is given back only when no process of the session is left, although XWayland may
\* start one until its service is stopped (note_session_children_stopped).
SessionStopped ==
  life.state \in {"Restoring", "Complete"} => SessionChildren(sup) = {}

\* KMS is given back with no page flip in flight unless the drain timed out, and that path
\* has cleared it: a shutdown that found none pending submits none afterwards.
NothingInFlight ==
  life.state = "Complete" => flip \in {"none", "read"}

\* Nobody draws any more when KMS is given back: no process, no page flip.
KmsGivenBack == SessionStopped /\ NothingInFlight

\* From the moment children are being stopped every process of the session that is still
\* there has been told, and after an emergency cleanup killed; applications never are.
EveryoneTold ==
  /\ life.childStop => \A i \in SessionChildren(sup) : sup.children[i].sig >= 1
  /\ phase = "failed" => \A i \in SessionChildren(sup) : sup.children[i].sig = 2
  /\ \A i \in DOMAIN sup.children : ~SessionOwned(sup.children[i]) => sup.children[i].sig = 0

\* An XWayland process that is not the current generation's has been asked to stop, so
\* that a new generation never shares the display with one nobody is ending.
OldServersStopping ==
  \A i \in DOMAIN sup.children :
    sup.children[i].kind = "xwayland" /\ i # xw.proc => sup.children[i].sig >= 1

\* Whoever must stop has been told to.
StopsAsked == EveryoneTold /\ OldServersStopping

\* The shell that runs is the one the server trusts, across restarts, as long as its exits
\* reach reap_supervised_children.
ShellTrusted ==
  ~discarded => \A i \in DOMAIN sup.children :
                  sup.children[i].kind = "shell" => authorized = {i}

\* The supervisor's invariant: types, and the shell that is trusted is the one that runs.
SupervisorInv == ShutdownTypeOK /\ ShellTrusted

\* No process is killed before it was asked to stop and its grace period ended, except by
\* the emergency cleanup (TERM_GRACE, pending_termination.deadline_ns).
KillAfterTerm ==
  [][\A i \in DOMAIN sup.children \intersect DOMAIN sup'.children :
       sup.children[i].sig # 2 /\ sup'.children[i].sig = 2 =>
         phase' = "failed" \/ (sup.children[i].sig = 1 /\ (graceOver \/ i = xw.term))]_vars

\* Once a shutdown was requested or a termination signal read, no shell is started.
NoLateRestart ==
  [][sup.quiescing \/ ~Running => \A i \in DOMAIN sup'.children \ DOMAIN sup.children :
                        sup'.children[i].kind # "shell"]_vars

\* Processes are stopped in order, and no shell is started in between.
OrderlyStops == KillAfterTerm /\ NoLateRestart

\* Every exit is collected: SIGCHLD may be consumed by a drain that serves another purpose,
\* but never without the reap that goes with it, as long as the reactor cycles.
ExitsReaped ==
  (Exited(sup) # {}) ~> (Exited(sup) = {} \/ ~Live)

\* A seat taken away before the worker's flip was acknowledged has put the reactor in a
\* join that does not return.
Wedged == phase = "joining" /\ life.expected /\ flip \in {"pending", "queued"}

\* A requested shutdown ends, whatever the page flip, the children and the backlog do,
\* unless the seat is taken away while it waits for a flip of the KMS worker.
ShutdownEnds ==
  ~Running ~> (phase \in {"over", "failed"} \/ Wedged)

\* "queued requests must continue to receive error code 5": a shutdown settles every launch.
LaunchesSettled ==
  phase = "over" => launches = 0
==============================================================================
