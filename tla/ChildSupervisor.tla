--------------------------- MODULE ChildSupervisor ---------------------------
(***************************************************************************)
(* The processes the compositor owns (src/process.rs): the supervisor that *)
(* spawns, reaps, restarts and stops them and reads the signal descriptor, *)
(* and the XWayland service (src/xwayland/service*.rs), which spawns its   *)
(* server lazily and stops it with an escalation of its own.               *)
(*                                                                         *)
(* This module holds values only: s is a supervisor and x an XWayland      *)
(* service, and each operator gives the value an operation leaves.         *)
(* NativeShutdown composes them into the steps of the reactor.             *)
(*                                                                         *)
(*   s.children  id -> [kind, up, ok, sig]; a process that has exited      *)
(*               stays here (up is FALSE, ok is its status) until reaped;  *)
(*               sig is the strongest signal sent: 0 none, 1 TERM, 2 KILL  *)
(*   s.fd        the signals waiting in the signal descriptor              *)
(*   s.pending   pending_termination_signal                                *)
(*   s.stop      SupervisorShutdown: 0 none, 1 TERM sent, 2 sigkill_sent   *)
(*   s.history   restarts of the shell younger than the guard's window     *)
(*   x.proc      the process of the current generation                     *)
(*   x.term      the process of pending_termination; x.escalated with it   *)
(*                                                                         *)
(* Whether a failure exhausts the service's budget (three inside ten       *)
(* minutes) is a parameter, spent: it depends on when the earlier ones     *)
(* happened.                                                               *)
(*                                                                         *)
(* RunningBase, a server without the compositor's own window manager,      *)
(* behaves like Running here; the Satellite mode is left out.              *)
(***************************************************************************)
EXTENDS Integers, FiniteSets

CONSTANTS MaxRestarts,   \* RestartGuard::max_restarts
          MaxId          \* bound: process identities ever allocated

ASSUME SupervisorAssumption == MaxRestarts \in Nat /\ MaxId \in Nat /\ MaxId >= 2

NoProc == 0
Procs == 1..MaxId

\* Only the shell has a restart command; only applications outlive the session.
SessionOwned(child) == child.kind # "app"

Child(kind) == [kind |-> kind, up |-> TRUE, ok |-> FALSE, sig |-> 0]

NewSupervisor ==
  [children |-> [i \in {1, 2} |-> Child(IF i = 1 THEN "shell" ELSE "app")], nextId |-> 3,
   history |-> 0, quiescing |-> FALSE, stop |-> 0, fd |-> {}, pending |-> FALSE]

NewXwayland ==
  [state |-> "Armed", proc |-> NoProc, term |-> NoProc, escalated |-> FALSE]

-----------------------------------------------------------------------------
(* ChildSupervisor *)

CanSpawn(s) == s.nextId <= MaxId

SpawnInner(s, kind) ==
  [s EXCEPT !.children = [i \in DOMAIN s.children \union {s.nextId} |->
                            IF i = s.nextId THEN Child(kind) ELSE s.children[i]],
            !.nextId = @ + 1]

\* drain_signal_fd_with: a termination signal is kept and stops all restarts at once.
DrainSignalFd(s) ==
  [s EXCEPT !.fd = {}, !.pending = @ \/ "TERM" \in s.fd, !.quiescing = @ \/ "TERM" \in s.fd]

Exited(s) == {i \in DOMAIN s.children : ~s.children[i].up}

\* Mutant: restarts are not stopped by a quiescing supervisor.
RestartsWhileQuiescing(s, spawns) ==
  /\ \E i \in Exited(s) : s.children[i].kind = "shell"
  /\ ~s.pending /\ s.history < MaxRestarts /\ spawns /\ CanSpawn(s)

\* maybe_restart_child; `spawns` is whether the restart command starts.
Restarts(s, spawns) ==
  /\ \E i \in Exited(s) : s.children[i].kind = "shell"
  /\ ~s.quiescing /\ ~s.pending
  /\ s.history < MaxRestarts
  /\ spawns /\ CanSpawn(s)

\* reap_exited_after_signal_poll
ReapExited(s, spawns) ==
  LET kept == [s EXCEPT !.children =
                 [i \in DOMAIN s.children \ Exited(s) |-> s.children[i]]]
  IN IF Restarts(s, spawns)
     THEN [SpawnInner(kept, "shell") EXCEPT !.history = @ + 1]
     ELSE kept

\* signal_spawned_process
SignalTo(s, ids, sig) ==
  [s EXCEPT !.children = [i \in DOMAIN s.children |->
     IF i \in ids /\ s.children[i].sig < sig
     THEN [s.children[i] EXCEPT !.sig = sig] ELSE s.children[i]]]

\* The kernel: the processes of `ids` that are still up exit, and SIGCHLD is raised.
Exit(s, ids, ok) ==
  [s EXCEPT !.children = [i \in DOMAIN s.children |->
     IF i \in ids /\ s.children[i].up
     THEN [s.children[i] EXCEPT !.up = FALSE, !.ok = ok] ELSE s.children[i]],
   !.fd = IF \E i \in ids : s.children[i].up THEN @ \union {"CHLD"} ELSE @]

SessionChildren(s) == {i \in DOMAIN s.children : SessionOwned(s.children[i])}

\* begin_shutdown: SIGTERM, once, to every process of the session.
BeginShutdown(s) ==
  IF s.stop # 0 THEN [s EXCEPT !.quiescing = TRUE]
  ELSE SignalTo([s EXCEPT !.quiescing = TRUE, !.stop = 1], SessionChildren(s), 1)

\* advance_shutdown: reap; SIGKILL, once, to what outlives the grace period; reap again.
\* `fast` are the killed processes that are gone before the second reap.
AdvanceShutdown(s, graceOver, fast) ==
  LET reaped == ReapExited(DrainSignalFd(s), FALSE)
      left == SessionChildren(reaped)
      killed == SignalTo([reaped EXCEPT !.stop = 2], left, 2)
  IN IF reaped.stop # 1 \/ left = {} \/ ~graceOver
     THEN reaped
     ELSE ReapExited(DrainSignalFd(Exit(killed, left \intersect fast, FALSE)), FALSE)

\* Mutant: a session that was sent SIGKILL counts as gone.
SessionGoneOnceKilled(s) == s.stop = 2 \/ (s.stop # 0 /\ SessionChildren(s) = {})

\* The answer of advance_shutdown: no process of the session is left.
SessionGone(s) == s.stop # 0 /\ SessionChildren(s) = {}

\* kill_session_owned_now: TERM and KILL to the whole session, then one reap.
KillSessionOwnedNow(s) ==
  ReapExited(DrainSignalFd(SignalTo([s EXCEPT !.quiescing = TRUE], SessionChildren(s), 2)),
             FALSE)

\* Mutant: the signal descriptor is drained and the reap forgotten.
KillManagedUnreaped(s, id, dies, spawns) ==
  LET killed == SignalTo(s, {id}, 2)
  IN DrainSignalFd(IF dies THEN Exit(killed, {id}, FALSE) ELSE killed)

\* kill_managed_now: the reap that follows drops the exits it collects.
KillManagedNow(s, id, dies, spawns) ==
  LET killed == SignalTo(s, {id}, 2)
  IN ReapExited(DrainSignalFd(IF dies THEN Exit(killed, {id}, FALSE) ELSE killed), spawns)

-----------------------------------------------------------------------------
(* XwaylandService; a step takes and gives a pair [s, x] *)

Pair(s, x) == [s |-> s, x |-> x]
Serving(x) == x.state \in {"Starting", "Running"}

\* enter_failure_backoff
FailureBackoff(x, spent) ==
  [x EXCEPT !.proc = NoProc, !.state = IF spent THEN "Failed" ELSE "Backoff"]

\* request_process_termination
RequestTermination(p, id) ==
  IF id \notin DOMAIN p.s.children THEN p
  ELSE Pair(SignalTo(p.s, {id}, 1), [p.x EXCEPT !.term = id, !.escalated = FALSE])

\* handle_listener_readiness: nothing here asks whether the supervisor is quiescing.
ListenerReady(p, spawns, spent) ==
  IF spawns
  THEN Pair(SpawnInner(p.s, "xwayland"), [p.x EXCEPT !.state = "Starting", !.proc = p.s.nextId])
  ELSE Pair(p.s, FailureBackoff(p.x, spent))

\* Mutant: the failed generation is forgotten without being asked to stop.
FailGenerationAbandoned(p, spent) == Pair(p.s, FailureBackoff(p.x, spent))

\* fail_generation, fail_managed_xwm, handle_private_client_disconnected, a startup timeout.
FailGeneration(p, spent) ==
  LET q == RequestTermination(p, p.x.proc) IN Pair(q.s, FailureBackoff(q.x, spent))

\* handle_process_exit for the process `id`, whose exit status is `ok`.
HandleProcessExit(x, id, ok, spent) ==
  LET requested == x.term = id
      y == IF requested THEN [x EXCEPT !.term = NoProc, !.escalated = FALSE] ELSE x
  IN CASE ~Serving(x) \/ x.proc # id -> y
       [] Serving(x) /\ x.proc = id /\ requested ->
            [y EXCEPT !.state = "Disabled", !.proc = NoProc]
       [] x.state = "Running" /\ x.proc = id /\ ~requested /\ ok ->
            [y EXCEPT !.state = "Armed", !.proc = NoProc]
       [] OTHER -> FailureBackoff(y, spent)

\* handle_deadline, its escalation of pending_termination.
EscalateTermination(p, due, dies, spawns) ==
  CASE p.x.term = NoProc -> p
    [] p.x.term # NoProc /\ p.x.term \notin DOMAIN p.s.children ->
         Pair(p.s, [p.x EXCEPT !.term = NoProc, !.escalated = FALSE])
    [] p.x.term \in DOMAIN p.s.children /\ due /\ ~p.x.escalated ->
         Pair(KillManagedNow(p.s, p.x.term, dies, spawns), [p.x EXCEPT !.escalated = TRUE])
    [] OTHER -> p

\* handle_deadline, its second half: a startup that timed out, a backoff that ended.
ServiceDeadline(p, due, spent) ==
  CASE due /\ p.x.state = "Starting" -> FailGeneration(p, spent)
    [] due /\ p.x.state = "Backoff" -> Pair(p.s, [p.x EXCEPT !.state = "Armed"])
    [] OTHER -> p

\* Mutant: an idle service stays armed.
StopXwaylandIfServing(p) ==
  IF ~Serving(p.x) THEN p
  ELSE LET q == RequestTermination(p, p.x.proc)
       IN Pair(q.s, [q.x EXCEPT !.state = "Disabled", !.proc = NoProc])

\* begin_shutdown of the service: stop_current, and no state it could start from.
StopXwayland(p) ==
  LET q == IF Serving(p.x) THEN RequestTermination(p, p.x.proc) ELSE p
  IN Pair(q.s, [q.x EXCEPT !.state = "Disabled", !.proc = NoProc])
==============================================================================
