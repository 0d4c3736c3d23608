------------------------ MODULE AtomicCommitArbiter ------------------------
(***************************************************************************)
(* AtomicCommitArbiter of native_output/runtime/atomic_commit.rs: the main *)
(* thread's book of the two nonblocking commits that may exist at once for *)
(* a CRTC.  An arbiter is a record; each operator is one method and        *)
(* returns the new record, with the method's result where it has one.      *)
(*                                                                         *)
(* Kept: both slots, the early pageflip, the once-only watchdog report and *)
(* every guard.  Left out: commit kinds, timestamps and counters, which no *)
(* method of the arbiter branches on (the watchdog's clock is the caller's *)
(* choice of whether the deadline has passed).  There is one CRTC, so the  *)
(* WrongCrtc answer cannot arise.                                          *)
(***************************************************************************)
EXTENDS Naturals

NoCommit == [token |-> 0, generation |-> 0]

NewArbiter == [kernel_submitted |-> NoCommit, worker_queued |-> NoCommit,
               early_pageflip |-> 0, watchdog_reported |-> FALSE]

(***************************************************************************)
(* Reservations                                                            *)
(***************************************************************************)
\* reserve succeeds only while no commit of either phase exists.
CanReserve(a) ==
    a.kernel_submitted = NoCommit /\ a.worker_queued = NoCommit

Reserve(a, token, generation) ==
    [a EXCEPT !.kernel_submitted = [token |-> token, generation |-> generation],
              !.watchdog_reported = FALSE]

worker_slot_available(a) == a.worker_queued = NoCommit

ReserveWorkerQueued(a, token, generation) ==
    [a EXCEPT !.early_pageflip = 0,
              !.worker_queued = [token |-> token, generation |-> generation]]

\* Mutant of MarkKernelSubmitted: the early pageflip is dropped when the
\* commit changes phase.
MarkForgetsEarly(a, token) ==
    IF a.kernel_submitted # NoCommit \/ a.worker_queued.token # token
    THEN [ok |-> FALSE, arb |-> a]
    ELSE [ok |-> TRUE,
          arb |-> [a EXCEPT !.kernel_submitted = a.worker_queued,
                            !.worker_queued = NoCommit,
                            !.watchdog_reported = FALSE,
                            !.early_pageflip = 0]]

MarkKernelSubmitted(a, token) ==
    IF a.kernel_submitted # NoCommit \/ a.worker_queued.token # token
    THEN [ok |-> FALSE, arb |-> a]
    ELSE [ok |-> TRUE,
          arb |-> [a EXCEPT !.kernel_submitted = a.worker_queued,
                            !.worker_queued = NoCommit,
                            !.watchdog_reported = FALSE]]

\* Mutant of RejectWorkerQueued: a refused commit keeps its slot.
RejectKeepsSlot(a, token) == a

RejectWorkerQueued(a, token) ==
    IF a.worker_queued # NoCommit /\ a.worker_queued.token = token
    THEN [a EXCEPT !.early_pageflip = 0, !.worker_queued = NoCommit]
    ELSE a

Cancel(a, token) ==
    IF a.kernel_submitted.token = token
    THEN [a EXCEPT !.kernel_submitted = NoCommit]
    ELSE IF a.worker_queued.token = token
         THEN [a EXCEPT !.worker_queued = NoCommit]
         ELSE a

AbandonForRecovery(a) ==
    [a EXCEPT !.kernel_submitted = NoCommit, !.worker_queued = NoCommit,
              !.early_pageflip = 0]

(***************************************************************************)
(* Completions                                                             *)
(***************************************************************************)
atomic_commit_pending(a) ==
    a.kernel_submitted # NoCommit \/ a.worker_queued # NoCommit

\* The commit a pageflip is compared with: the kernel's before the queued.
Pending(a) ==
    IF a.kernel_submitted # NoCommit THEN a.kernel_submitted
                                     ELSE a.worker_queued

\* Mutant of CompletePageflip: no deferral, an unacknowledged commit's
\* pageflip is answered as stale.
CompleteWithoutDeferral(a, token, generation) ==
    IF a.kernel_submitted = NoCommit
    THEN [arb |-> a, answer |-> "Stale"]
    ELSE IF token # a.kernel_submitted.token
    THEN [arb |-> a, answer |-> "Mismatched"]
    ELSE [arb |-> [a EXCEPT !.kernel_submitted = NoCommit],
          answer |-> "Completed"]

\* complete_pageflip: a pageflip of the commit the worker has not yet
\* acknowledged is stored, one at most, until the acknowledgment.
CompletePageflip(a, token, generation) ==
    IF ~atomic_commit_pending(a)
    THEN [arb |-> a, answer |-> "Stale"]
    ELSE IF token # Pending(a).token
    THEN [arb |-> a, answer |-> "Mismatched"]
    ELSE IF generation # Pending(a).generation
    THEN [arb |-> a, answer |-> "WrongGeneration"]
    ELSE IF a.kernel_submitted # NoCommit
    THEN [arb |-> [a EXCEPT !.kernel_submitted = NoCommit],
          answer |-> "Completed"]
    ELSE IF a.early_pageflip # 0
    THEN [arb |-> a, answer |-> "DuplicateEarlyPageflip"]
    ELSE [arb |-> [a EXCEPT !.early_pageflip = token],
          answer |-> "DeferredUntilSubmitAck"]

\* replay_deferred_pageflip: completes whatever the kernel slot holds, without
\* comparing its token with the stored pageflip's.
ReplayDeferredPageflip(a) ==
    IF a.kernel_submitted # NoCommit /\ a.early_pageflip # 0
    THEN [a EXCEPT !.kernel_submitted = NoCommit, !.early_pageflip = 0]
    ELSE a

\* watchdog_expired, given that the deadline has passed: reported once.
WatchdogExpired(a) ==
    IF a.kernel_submitted # NoCommit /\ ~a.watchdog_reported
    THEN [arb |-> [a EXCEPT !.watchdog_reported = TRUE], answer |-> TRUE]
    ELSE [arb |-> a, answer |-> FALSE]

(***************************************************************************)
(* validate_atomic_pageflip: "token" is 0 when the cycle has no event.     *)
(* Anything but a completion makes the cycle forget the event, and a cycle *)
(* without an event asks the watchdog when the main thread owns timeouts.  *)
(***************************************************************************)
ValidateAtomicPageflip(a, token, generation, workerWatchdog, overdue) ==
    LET done == IF token = 0 THEN [arb |-> a, answer |-> "None"]
                             ELSE CompletePageflip(a, token, generation)
        kept == IF done.answer = "Completed" THEN token ELSE 0
        dog  == IF ~workerWatchdog /\ kept = 0 /\ overdue
                THEN WatchdogExpired(done.arb)
                ELSE [arb |-> done.arb, answer |-> FALSE]
    IN [arb |-> dog.arb, token |-> kept, timeout |-> dog.answer]
=============================================================================
