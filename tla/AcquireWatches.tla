---------------------------- MODULE AcquireWatches ----------------------------
(***************************************************************************)
(* The explicit-sync registry (native/explicit_sync.rs) and the parts of   *)
(* the native runtime that drive it, composed with the transaction queue   *)
(* of SurfaceTransactions.                                                 *)
(*                                                                         *)
(* Every acquire point a queued transaction waits for is owned by exactly  *)
(* one of: the change list of the server, an eventfd watch, the fallback   *)
(* polling list, the registry's list of requests whose watch is removed,   *)
(* or the runtime's list of parked requests.  A session suspension and an  *)
(* output reconfiguration park all of them, change the output epoch and    *)
(* register them again.  A watch remembers the epoch it was made in; a     *)
(* completion of another epoch is dropped.                                 *)
(*                                                                         *)
(* An error return that ends the runtime is not a step: what happens       *)
(* before it is a prefix of a modelled behaviour.                          *)
(***************************************************************************)
EXTENDS SurfaceTransactions

CONSTANTS
    RenderWorkers,  \* which output paths to explore: a subset of BOOLEAN
    MaxEpoch,       \* bound on output epochs
    MaxFaults       \* bound on failing park and register calls

ASSUME WatchAssumption ==
    RenderWorkers \subseteq BOOLEAN /\ MaxEpoch \in Nat /\ MaxFaults \in Nat

VARIABLES
    watches,      \* eventfd watches: acquire -> epoch
    fallback,     \* acquires polled because no eventfd could be made
    regParked,    \* registry.parked_requests
    runParked,    \* the runtime's parked_acquire_watches
    dropped,      \* acquires whose completion was dropped (BackendMismatch)
    epoch,        \* output_epoch of registry and runtime
    session,      \* "active" or "suspended"
    recon,        \* worker reconfiguration: "idle", "queued" or "promoted"
    worker,       \* TRUE when the output is driven through the render worker
    faults        \* failed calls so far

regVars == <<watches, fallback, regParked, runParked>>
modeVars == <<epoch, session, recon, worker, faults>>
vars == <<queueVars, regVars, dropped, modeVars>>
\* what the session and output transitions leave alone: all but "pending"
treeRest == <<latest, shown, out, freed, barrier, life, exhausted, registers,
              cancels, signaled, next>>

Held == DOMAIN watches \cup fallback \cup regParked \cup runParked

\* f restricted to S, and f extended by S -> e.
Keep(f, S) == [a \in DOMAIN f \cap S |-> f[a]]
Watch(f, S, e) == [a \in DOMAIN f \cup S |-> IF a \in S THEN e ELSE f[a]]

\* What is polled after a cycle that adds some requests (cancel_commit and
\* retry_fallback).
Polling(polled) == ((fallback \cup polled) \ cancels) \ signaled

\* The registrations and polls that find their point signalled.
\* Mutant: the end of a retry interval counts as readiness.
FoundReadyTimeout == (registers \cap signaled) \cup fallback
FoundReady == ((registers \cup fallback) \ cancels) \cap signaled

\* One cycle of the active runtime (service_acquire_watches): apply the
\* server's changes, handle the tokens of signalled eventfds, poll the
\* fallback list.  A registration finds its point signalled, gets an eventfd
\* or falls back.  A request is registered before it is cancelled, so the
\* change list needs no order between different acquires.
ServiceWatches ==
    LET fresh == registers \ (cancels \cup signaled)
        due == {a \in DOMAIN watches \ cancels : a \in signaled}
        stale == {a \in due : watches[a] # epoch}
    IN /\ session = "active"
       /\ registers # {} \/ cancels # {} \/ due # {} \/ fallback \cap signaled # {}
       /\ \E polled \in SUBSET fresh :
             /\ watches' = Watch(Keep(watches, DOMAIN watches \ (cancels \cup due)),
                                 fresh \ polled, epoch)
             /\ fallback' = Polling(polled)
       /\ pending' = Marked(FoundReady \cup (due \ stale))
       /\ dropped' = dropped \cup stale
       /\ registers' = {} /\ cancels' = {}
       /\ UNCHANGED <<latest, shown, out, freed, barrier, life, exhausted,
                      signaled, next, regParked, runParked, modeVars>>

\* rearm_parked_requests over the runtime's list par and the registry's
\* list rp, into a registry with watches ws and polls fs.  It is not called
\* when the runtime's list is empty.
RearmAll(par, ws, fs, rp, e) ==
    LET todo == IF par = {} THEN {} ELSE par \cup rp IN
    /\ \E polled \in SUBSET (todo \ signaled) :
          /\ watches' = Watch(ws, todo \ (signaled \cup polled), e)
          /\ fallback' = fs \cup polled
    /\ regParked' = rp \ todo /\ runParked' = {}
    /\ pending' = Marked(todo \cap signaled)
    /\ UNCHANGED faults

\* The requests a rollback hands back: those it parked, the failed one, the
\* ones found ready and the untouched rest.  Mutant: the rest is forgotten.
RestoredPrefix(ws, fs, todo) == DOMAIN ws \cup fs
Restored(ws, fs, todo) == DOMAIN ws \cup fs \cup todo

\* A registration fails: what was registered is parked again.  If that
\* fails too, the watches it removed stay with the registry, the others
\* stay registered, and the rest of the requests is parked with the runtime.
RearmFails(par, ws, fs, rp, e) ==
    /\ par # {} /\ faults < MaxFaults
    /\ LET todo == par \cup rp IN
       \/ /\ watches' = <<>> /\ fallback' = {} /\ regParked' = {}
          /\ runParked' = Restored(ws, fs, todo)
       \/ \E done \in SUBSET (todo \ signaled) :
             LET all == Watch(ws, done, e) IN
             \E removed \in SUBSET DOMAIN all :
                /\ removed # DOMAIN all
                /\ watches' = Keep(all, DOMAIN all \ removed)
                /\ fallback' = fs
                /\ regParked' = removed
                /\ runParked' = todo \ done
    /\ pending' = pending
    /\ faults' = faults + 1

Rearm(par, ws, fs, rp, e) ==
    RearmAll(par, ws, fs, rp, e) \/ RearmFails(par, ws, fs, rp, e)

\* suspend: quiesce_and_acknowledge parks every request.  With a promotion
\* under way it then drives the reconfiguration to its end, which registers
\* the parked requests again and publishes the new epoch.
Suspend ==
    /\ session = "active" /\ epoch < MaxEpoch
    /\ session' = "suspended"
    /\ IF recon = "idle"
       THEN /\ watches' = <<>> /\ fallback' = {} /\ regParked' = {}
            /\ runParked' = Held
            /\ pending' = pending
            /\ UNCHANGED <<epoch, recon, faults>>
       ELSE /\ Rearm(Held, <<>>, {}, {}, epoch)
            /\ epoch' = epoch + 1 /\ recon' = "idle"
    /\ UNCHANGED <<treeRest, dropped, worker>>

\* Mutant: the requests are registered before the epoch is set.
ResumeEarly ==
    /\ session = "suspended"
    /\ session' = "active" /\ epoch' = epoch + 1
    /\ RearmAll(runParked, watches, fallback, regParked, epoch)
    /\ UNCHANGED <<treeRest, dropped, recon, worker>>
\* rearm_explicit_sync of the resumed session; a failure ends the runtime.
Resume ==
    /\ session = "suspended"
    /\ session' = "active" /\ epoch' = epoch + 1
    /\ RearmAll(runParked, watches, fallback, regParked, epoch + 1)
    /\ UNCHANGED <<treeRest, dropped, recon, worker>>

\* An output reconfiguration up to its modeset (advance_output_configuration_
\* transition, advance_worker_candidate_ready).  It parks every request; a
\* failed park leaves the watches it removed with the registry.  A refused
\* modeset registers the requests again under the old epoch.  A successful
\* one does so under the new epoch, except that the render worker has to
\* promote its candidate first: the requests stay parked and the epoch stays.
Reconfigure(parked, committed) ==
    /\ session = "active" /\ recon = "idle" /\ epoch < MaxEpoch
    /\ \/ /\ ~parked /\ ~committed /\ faults < MaxFaults
          /\ \E removed \in SUBSET DOMAIN watches :
                /\ removed # DOMAIN watches
                /\ watches' = Keep(watches, DOMAIN watches \ removed)
                /\ regParked' = regParked \cup removed
          /\ pending' = pending
          /\ faults' = faults + 1
          /\ UNCHANGED <<fallback, runParked, epoch, recon>>
       \/ /\ parked /\ ~committed
          /\ Rearm(Held, <<>>, {}, {}, epoch)
          /\ UNCHANGED <<epoch, recon>>
       \/ /\ parked /\ committed /\ ~worker
          /\ Rearm(Held, <<>>, {}, {}, epoch + 1)
          /\ epoch' = epoch + 1
          /\ UNCHANGED recon
       \/ /\ parked /\ committed /\ worker
          /\ watches' = <<>> /\ fallback' = {} /\ regParked' = {}
          /\ runParked' = Held
          /\ pending' = pending
          /\ recon' = "queued"
          /\ UNCHANGED <<epoch, faults>>
    /\ UNCHANGED <<treeRest, dropped, session, worker>>

\* Mutant: a failed registration is not retried.
AdvanceQueued ==
    /\ session = "active" /\ recon = "queued"
    /\ Rearm(runParked, watches, fallback, regParked, epoch)
    /\ recon' = "promoted"
    /\ UNCHANGED <<treeRest, dropped, epoch, session, worker>>
\* advance_output_configuration while requests are parked: it registers them
\* before anything else, under the epoch that is current.  With a promotion
\* queued it then hands the candidate to the worker.
AdvanceParked ==
    /\ session = "active" /\ (runParked # {} \/ recon = "queued")
    /\ Rearm(runParked, watches, fallback, regParked, epoch)
    /\ recon' = IF recon = "queued" THEN "promoted" ELSE recon
    /\ UNCHANGED <<treeRest, dropped, epoch, session, worker>>

\* complete_worker_output_configuration: the promoted candidate's epoch is
\* published (publish_new_output_epoch calls set_output_epoch); then what is
\* still parked is registered under it.
CompletePromotion ==
    /\ session = "active" /\ recon = "promoted"
    /\ recon' = "idle" /\ epoch' = epoch + 1
    /\ Rearm(runParked, watches, fallback, regParked, epoch + 1)
    /\ UNCHANGED <<treeRest, dropped, session, worker>>

Init ==
    /\ QueueInit
    /\ watches = <<>> /\ fallback = {} /\ regParked = {} /\ runParked = {}
    /\ dropped = {} /\ epoch = 1 /\ session = "active" /\ recon = "idle"
    /\ worker \in RenderWorkers /\ faults = 0

Idle == UNCHANGED <<regVars, dropped, modeVars>>
ServerClears == (\E r \in Roots : ClearBarrier(r)) /\ Idle
ServerProgress == Progress /\ Idle

Next ==
    \/ (ServerStep \/ Signal) /\ Idle
    \/ ServiceWatches
    \/ Suspend
    \/ Resume
    \/ \E parked, committed \in BOOLEAN : Reconfigure(parked, committed)
    \/ AdvanceParked
    \/ CompletePromotion

Spec == Init /\ [][Next]_vars

\* The event loop runs while the compositor lives: it services the acquire
\* changes and completions, prepares frames, expires FIFO barriers, and
\* takes the retry deadline of a failed registration.  The seat hands an
\* active session back.  Clients and producers owe nothing.
FairSpec ==
    /\ Spec
    /\ WF_vars(ServiceWatches) /\ WF_vars(ServerProgress) /\ WF_vars(ServerClears)
    /\ WF_vars(Resume) /\ WF_vars(AdvanceParked) /\ WF_vars(CompletePromotion)
-----------------------------------------------------------------------------
(***************************************************************************)
(* Properties                                                              *)
(***************************************************************************)

\* The registry's stores hold acquires, at most one per store, and watches
\* carry an epoch that has been published.
WatchTypeOK ==
    /\ DOMAIN watches \subseteq Acquires /\ \A a \in DOMAIN watches : watches[a] \in 1 .. epoch
    /\ fallback \cup regParked \cup runParked \cup dropped \subseteq Acquires
    /\ epoch \in 1 .. MaxEpoch + 1 /\ session \in {"active", "suspended"}
    /\ recon \in {"idle", "queued", "promoted"} /\ (recon # "idle" => worker)
    /\ faults \in 0 .. MaxFaults

Stores(a) ==
    {i \in 1 .. 5 : a \in <<registers, DOMAIN watches, fallback, regParked, runParked>>[i]}

\* "request identity and exactly-once ownership are the contract"
\* (rearm_parked_requests): whatever fails halfway, every acquire a queued
\* transaction waits for has exactly one owner, and no acquire has two.
OwnedOnce ==
    /\ \A a \in AllWaiting : a \in dropped \/ Cardinality(Stores(a)) = 1
    /\ \A a \in Held : Cardinality(Stores(a) \ {1}) = 1

\* The registry's invariant: well formed, and one owner for every acquire.
WatchesInv == WatchTypeOK /\ OwnedOnce

\* Without the render worker no completion is ever dropped for its epoch:
\* every watch is of the current epoch when it is looked at.
SyncEpochAgrees ==
    ~worker => dropped = {} /\ \A a \in DOMAIN watches : watches[a] = epoch

\* Without the render worker and without failing calls, a Cancel always
\* finds the request it is for: no request outlives the transaction that
\* made it once the change list is taken.
CancelReaches ==
    ~worker /\ faults = 0 => Held \subseteq AllWaiting \cup cancels

\* Without the render worker requests and epochs stay in step.
SyncSound == SyncEpochAgrees /\ CancelReaches

\* "Callers must park every request before changing this epoch"
\* (set_output_epoch and its debug assertions).
ParkedAtEpochChange ==
    [][epoch' # epoch => \A a \in DOMAIN watches' : watches'[a] = epoch']_vars

\* Every queued tree whose acquires have all signalled is settled, across
\* suspensions, reconfigurations and failed registrations that are retried,
\* unless one of its requests is stranded in the registry by a failed
\* unregistration or its completion was dropped for the epoch of its watch.
TreesSettle ==
    \A r \in Roots :
        LET due == pending[r] # <<>> /\ Waiting(pending[r]) \subseteq signaled
        IN due ~> (~due \/ Waiting(pending[r]) \cap (dropped \cup regParked) # {})

\* The runtime implements what the queue expects of it: each of its steps is
\* a step of the queue's environment, or changes nothing of the queue.
ImplementsQueue == QueueSpec
=============================================================================
