------------------------ MODULE PageflipCycleProofs ------------------------
(***************************************************************************)
(* The presentation cycle is right for any number of pageflip tokens and   *)
(* session suspensions, with the worker or the synchronous transport.      *)
(*                                                                         *)
(* None of the checked invariants is inductive by itself.  Whether an      *)
(* event matches the arbiter depends on how many undelivered events there  *)
(* can be and on their order, so the invariant follows one commit from the *)
(* queue to its acknowledgment: LaneShape, Traffic and Room say what the   *)
(* worker can still hold and announce, Order and Refused that tokens reach *)
(* the kernel and the device file in order, Agreement that the arbiter     *)
(* names the same commit at every moment in between, and Flow where its    *)
(* pageflip is.                                                            *)
(*                                                                         *)
(* The worker, the kernel, the session steps and the commits come first.   *)
(* HandleBatch is a recursive function, so ProcessEvents is proved by an   *)
(* induction over the batch (Processed, for its first n events).  Drain    *)
(* splits on which commit a drained pageflip belongs to and shows that the *)
(* error returns of validate and acknowledge are never taken.              *)
(***************************************************************************)
EXTENDS PageflipCycle, TLAPS, WellFoundedInduction


(***************************************************************************)
(* The inductive invariant                                                 *)
(***************************************************************************)
EventType == [kind : {"Submitted", "Rejected", "PageflipTimeout", "Quiesced"},
              token : OptToken, generation : Epochs]
ArbiterType == [kernel_submitted : Commit, worker_queued : Commit,
                early_pageflip : OptToken, watchdog_reported : BOOLEAN]
HeadType == [arb : ArbiterType, epoch : Epochs, ownership : SUBSET Tokens,
             quarantine : SUBSET Tokens, deferred : OptToken,
             timeout : OptToken]
CycleType == [phase : Phases, flip : OptToken, timeout : OptToken,
              reasons : SUBSET {"drm", "worker", "timer", "seat", "fence"}]
LaneType == [alive : BOOLEAN, stopping : BOOLEAN, queue : OptToken,
             job : OptToken, pc : {"idle", "ioctl", "publish"},
             inflight : OptToken, overdue : BOOLEAN, epoch : Epochs]
KernelType == [pending : OptToken, readable : Seq(Tokens)]
Sessions == {"Active", "Suspending", "Suspended", "Resuming", "Failed"}

Typed ==
    /\ transport \in {"Worker", "Synchronous"} /\ session \in Sessions
    /\ head \in HeadType /\ cycle \in CycleType
    /\ lane \in LaneType /\ kernel \in KernelType
    /\ events \in Seq(EventType)
    /\ tokens \in OptToken /\ suspends \in 0 .. MaxSuspend

Worker == transport = "Worker"
Active == session = "Active"
Away == session \in {"Suspended", "Resuming", "Failed"}

\* What the phase of the cycle says of the session, and the epochs.
Control ==
    /\ cycle.phase = "join" <=> session = "Suspending"
    /\ Away => cycle.phase \in {"wait", "events", "seat"}
    /\ Away /\ cycle.phase \in {"events", "seat"} =>
           "seat" \in cycle.reasons \/ "fence" \in cycle.reasons
    /\ Active => head.epoch = suspends + 1
    /\ ~Active => head.epoch = suspends
    /\ Active /\ cycle.phase \in {"events", "seat"}
          /\ "seat" \in cycle.reasons => suspends < MaxSuspend
    /\ cycle.flip # 0 => /\ cycle.phase \in {"seat", "join", "drain"}
                         /\ ~Away /\ Worker
    /\ head.deferred = 0 /\ head.timeout = 0
    /\ lane.stopping <=> ~Active
    /\ lane.epoch = head.epoch

\* The worker by itself: one commit at a time.
LaneShape ==
    /\ lane.pc = "idle" <=> lane.job = 0
    /\ lane.job # 0 => lane.queue = 0 /\ lane.inflight = 0
    /\ lane.alive => Worker /\ ~Away
    /\ ~lane.alive => lane.queue = 0 /\ lane.job = 0 /\ lane.inflight = 0
    /\ Worker /\ Active => lane.alive
    /\ ~Worker => events = <<>>
    /\ Away => events = <<>>
    /\ session = "Resuming" => kernel.pending = 0
    /\ \A i \in DOMAIN events :
           /\ events[i].generation = head.epoch
           /\ Active => events[i].kind # "Quiesced"
           /\ events[i].kind = "Submitted" => events[i].token # 0

\* Commits reach the kernel, and its pageflips the device file, in the order
\* of their tokens.
Order ==
    /\ kernel.pending <= tokens /\ lane.queue <= tokens /\ lane.job <= tokens
    /\ \A i \in DOMAIN kernel.readable :
        /\ i <= kernel.readable[i] /\ kernel.readable[i] <= tokens
        /\ kernel.pending # 0 => kernel.readable[i] < kernel.pending
        /\ lane.queue # 0 => kernel.readable[i] < lane.queue
        /\ lane.pc = "ioctl" => kernel.readable[i] < lane.job
        /\ \A j \in DOMAIN kernel.readable :
               i < j => kernel.readable[i] < kernel.readable[j]
    /\ lane.queue # 0 => kernel.pending < lane.queue
    /\ lane.pc = "ioctl" => kernel.pending < lane.job

\* A refused commit never reached the kernel.
Refused ==
    Active => \A i \in DOMAIN events : events[i].kind = "Rejected" =>
        /\ kernel.pending < events[i].token
        /\ \A j \in DOMAIN kernel.readable :
              kernel.readable[j] < events[i].token

Answers == {"Submitted", "Rejected"}

\* The undelivered events of an active worker: at most one answer to a commit,
\* and what the worker holds while it is undelivered.
Traffic ==
    Worker /\ Active =>
    /\ \A i \in DOMAIN events : events[i].kind \in Answers =>
        /\ lane.queue = 0 /\ lane.job = 0 /\ events[i].token # 0
        /\ \A j \in DOMAIN events : events[j].kind \in Answers => i = j
        /\ events[i].kind = "Submitted" =>
             /\ lane.inflight = events[i].token
             /\ Len(events) <= IF lane.overdue THEN 3 ELSE 2
        /\ events[i].kind = "Rejected" =>
             lane.inflight = 0 /\ Len(events) <= 2
    /\ (\A i \in DOMAIN events : events[i].kind \notin Answers) =>
        Len(events) <= IF lane.inflight # 0 /\ ~lane.overdue THEN 0 ELSE 1

\* The events the worker can still add before the main thread looks.
Credit ==
    IF lane.job # 0 \/ (lane.queue # 0 /\ lane.inflight = 0) THEN 2
    ELSE IF lane.inflight # 0 /\ ~lane.overdue THEN 1 ELSE 0

Room ==
    /\ Len(events) <= 3
    /\ \/ cycle.phase = "seat"
       \/ cycle.phase = "events" /\ cycle.reasons \cap {"worker", "drm"} = {}
       \/ session = "Suspending" /\ lane.alive
       => Len(events) + Credit <= 2

\* The arbiter of h agrees with the worker, given that the main thread has
\* processed the first n of the undelivered events.
Fits(h, n) ==
    LET q == h.arb.worker_queued
        k == h.arb.kernel_submitted
        e == h.arb.early_pageflip
    IN
    /\ q.token = 0 => q = NoCommit
    /\ k.token = 0 => k = NoCommit
    /\ q.token # 0 =>
          /\ q.generation = h.epoch
          /\ \/ lane.queue = q.token \/ lane.job = q.token
             \/ \E i \in DOMAIN events : i > n /\ events[i].kind \in Answers
    /\ k.token # 0 => /\ k.generation = h.epoch /\ k.token = lane.inflight
                      /\ k.token \in h.ownership
    /\ lane.queue # 0 => q.token = lane.queue
    /\ lane.job # 0 => q.token = lane.job
    /\ \A i \in DOMAIN events : i > n /\ events[i].kind \in Answers =>
          /\ q.token = events[i].token
          /\ events[i].kind = "Submitted" => k.token = 0
    /\ lane.inflight # 0 =>
          lane.inflight \in {k.token, q.token, h.deferred, cycle.flip}
    /\ e # 0 => /\ q.token = e /\ k.token = 0 /\ kernel.pending # e
                /\ \/ lane.inflight = e
                   \/ lane.pc = "publish" /\ lane.job = e
    /\ h.deferred # 0 => /\ lane.inflight = h.deferred /\ k.token = 0
                         /\ h.deferred \in h.ownership
                         /\ h.deferred # kernel.pending

Agreement ==
    Worker /\ Active =>
      /\ Fits(head, 0)
      /\ cycle.flip # 0 => /\ lane.inflight = cycle.flip
                           /\ cycle.flip \in head.ownership
                           /\ head.arb.kernel_submitted.token = 0
                           /\ head.arb.early_pageflip = 0
                           /\ \A i \in DOMAIN events :
                                 events[i].kind # "Submitted"
                           /\ cycle.flip # kernel.pending

\* Without a session nothing is pending; without a worker nothing is queued.
Settled ==
    /\ Away => head.arb.kernel_submitted = NoCommit
               /\ head.arb.worker_queued = NoCommit
               /\ head.arb.early_pageflip = 0
    /\ ~Worker =>
         /\ head.arb.worker_queued = NoCommit /\ head.arb.early_pageflip = 0
         /\ head.arb.kernel_submitted.token = 0 =>
                head.arb.kernel_submitted = NoCommit
         /\ head.arb.kernel_submitted.token # 0 =>
                head.arb.kernel_submitted.generation = head.epoch

\* Where the pageflip of the awaited commit is before the first resume.
Just(t) == \/ kernel.pending = t /\ kernel.readable = <<>>
           \/ kernel.pending = 0 /\ kernel.readable = <<t>>
Nothing == kernel.pending = 0 /\ kernel.readable = <<>>

Flow ==
    head.epoch = 1 /\ Active =>
      IF Worker
      THEN /\ lane.inflight # 0 =>
                \/ Just(lane.inflight)
                \/ /\ Nothing
                   /\ lane.inflight \in {head.arb.early_pageflip, cycle.flip}
           /\ lane.pc = "publish" =>
                \/ Just(lane.job)
                \/ Nothing /\ lane.job = head.arb.early_pageflip
           /\ lane.inflight = 0 /\ lane.pc # "publish" => Nothing
           /\ cycle.flip # 0 \/ head.arb.early_pageflip # 0 => Nothing
      ELSE IF head.arb.kernel_submitted.token # 0
           THEN Just(head.arb.kernel_submitted.token) ELSE Nothing

CycleInv ==
    /\ Typed /\ Control /\ LaneShape /\ Order /\ Refused /\ Traffic /\ Room
    /\ Agreement /\ Settled /\ Flow /\ EarlyFlipIsOwn
    /\ OwnershipHeld /\ OnlyTimeoutsFail

Plain ==
    /\ lane.queue \in Nat /\ lane.job \in Nat /\ lane.inflight \in Nat
    /\ lane.pc \in {"idle", "ioctl", "publish"}
    /\ lane.alive \in BOOLEAN /\ lane.stopping \in BOOLEAN
    /\ lane.overdue \in BOOLEAN
    /\ kernel.pending \in Nat
    /\ Len(kernel.readable) \in Nat
    /\ DOMAIN kernel.readable = 1 .. Len(kernel.readable)
    /\ \A i \in DOMAIN kernel.readable : kernel.readable[i] \in Nat
    /\ Len(events) \in Nat /\ DOMAIN events = 1 .. Len(events)
    /\ \A i \in DOMAIN events : events[i].token \in Nat
    /\ tokens \in Nat /\ suspends \in Nat /\ head.epoch \in Nat
    /\ head.arb.kernel_submitted.token \in Nat
    /\ head.arb.worker_queued.token \in Nat
    /\ head.arb.early_pageflip \in Nat /\ cycle.flip \in Nat
    /\ kernel.readable = <<>> <=> Len(kernel.readable) = 0
    /\ events = <<>> <=> Len(events) = 0

\* The typing facts the arithmetic of the proofs uses.
LEMMA TypedPlain == Typed => Plain
<1> SUFFICES ASSUME Typed PROVE Plain BY Zenon
<1> USE CycleAssumption DEF Typed
<1>1. /\ lane.queue \in Nat /\ lane.job \in Nat /\ lane.inflight \in Nat
      /\ lane.pc \in {"idle", "ioctl", "publish"}
      /\ lane.alive \in BOOLEAN /\ lane.stopping \in BOOLEAN
      /\ lane.overdue \in BOOLEAN
  BY DEF LaneType, OptToken
<1>2. kernel.pending \in Nat /\ kernel.readable \in Seq(Tokens)
  BY DEF KernelType, OptToken
<1>3. /\ Len(kernel.readable) \in Nat
      /\ DOMAIN kernel.readable = 1 .. Len(kernel.readable)
      /\ \A i \in DOMAIN kernel.readable : kernel.readable[i] \in Tokens
      /\ kernel.readable = <<>> <=> Len(kernel.readable) = 0
  BY <1>2
<1>4. /\ Len(events) \in Nat /\ DOMAIN events = 1 .. Len(events)
      /\ \A i \in DOMAIN events : events[i] \in EventType
      /\ events = <<>> <=> Len(events) = 0
  OBVIOUS
<1>5. /\ tokens \in Nat /\ suspends \in Nat /\ head.epoch \in Nat
      /\ head.arb \in ArbiterType
  BY DEF HeadType, OptToken, Epochs
<1>6. /\ head.arb.kernel_submitted \in Commit /\ head.arb.worker_queued \in Commit
      /\ head.arb.early_pageflip \in Nat
  BY <1>5 DEF ArbiterType, OptToken
<1>7. cycle.flip \in Nat BY DEF CycleType, OptToken
<1>8. \A c \in Commit : c.token \in Nat BY DEF Commit, OptToken
<1>9. \A i \in DOMAIN events : events[i].token \in Nat
  BY <1>4
  DEF EventType, OptToken
<1>10. Tokens \subseteq Nat BY DEF Tokens
<1> QED BY Zenon, <1>1, <1>2, <1>3, <1>4, <1>5, <1>6, <1>7, <1>8, <1>9, <1>10 DEF Plain

\* The same in the next state.
LEMMA TypedPlainNext == Typed' => Plain'
<1>1. Typed => Plain BY Zenon, TypedPlain
<1> QED BY <1>1, PTL

(***************************************************************************)
(* Sequences that grow                                                     *)
(***************************************************************************)
\* What appending an element does, entry by entry.
LEMMA Grows ==
  ASSUME NEW T, NEW s \in Seq(T), NEW e \in T
  PROVE  /\ Append(s, e) \in Seq(T)
         /\ Len(Append(s, e)) = Len(s) + 1
         /\ Append(s, e)[Len(Append(s, e))] = e
         /\ Len(Append(s, e)) \in DOMAIN Append(s, e)
         /\ \A i \in DOMAIN s : /\ i \in DOMAIN Append(s, e)
                                /\ i # Len(Append(s, e))
                                /\ Append(s, e)[i] = s[i]
         /\ \A i \in DOMAIN Append(s, e) :
               \/ i = Len(Append(s, e))
               \/ i \in DOMAIN s /\ Append(s, e)[i] = s[i]
         /\ s = <<>> => Append(s, e) = <<e>>
<1>1. Append(s, e) \in Seq(T) /\ Len(Append(s, e)) = Len(s) + 1 OBVIOUS
<1>2. /\ DOMAIN s = 1 .. Len(s) /\ Len(s) \in Nat
      /\ DOMAIN Append(s, e) = 1 .. Len(s) + 1
  BY <1>1
<1>3. Append(s, e)[Len(s) + 1] = e OBVIOUS
<1>4. \A i \in 1 .. Len(s) : Append(s, e)[i] = s[i] OBVIOUS
<1>5. s = <<>> => Append(s, e) = <<e>> OBVIOUS
<1> QED BY <1>1, <1>2, <1>3, <1>4, <1>5

\* Pageflips that are readable in the order of their tokens stay so when a
\* later one is added.
LEMMA RisingGrows ==
  ASSUME NEW s \in Seq(Tokens), NEW p \in Tokens,
         \A i \in DOMAIN s : /\ i <= s[i] /\ s[i] < p
                             /\ \A j \in DOMAIN s : i < j => s[i] < s[j]
  PROVE  LET r == Append(s, p)
         IN \A i \in DOMAIN r : /\ i <= r[i] /\ r[i] <= p
                                /\ \A j \in DOMAIN r : i < j => r[i] < r[j]
<1> DEFINE r == Append(s, p)
<1>1. Tokens \subseteq Nat BY DEF Tokens
<1>2. /\ r \in Seq(Tokens) /\ Len(r) = Len(s) + 1 /\ r[Len(r)] = p
      /\ \A i \in DOMAIN r : i = Len(r) \/ (i \in DOMAIN s /\ r[i] = s[i])
  BY Grows
<1> HIDE DEF r
<1>3. DOMAIN r = 1 .. Len(r) /\ Len(r) \in Nat BY <1>2
<1>4. /\ DOMAIN s = 1 .. Len(s) /\ Len(s) \in Nat
      /\ \A i \in DOMAIN s : s[i] \in Nat
  <2>1. \A i \in DOMAIN s : s[i] \in Tokens OBVIOUS
  <2>2. DOMAIN s = 1 .. Len(s) /\ Len(s) \in Nat OBVIOUS
  <2> QED BY Zenon, <1>1, <2>1, <2>2
<1>5. Len(r) <= p
  <2>1. CASE Len(s) = 0 BY <1>1, <1>2, <2>1 DEF Tokens
  <2>2. CASE Len(s) # 0
    <3>1. Len(s) \in DOMAIN s BY <1>4, <2>2
    <3> QED BY <1>1, <1>2, <1>4, <3>1
  <2> QED BY Zenon, <2>1, <2>2
<1>6. \A i \in DOMAIN r : i <= r[i] /\ r[i] <= p
  BY <1>1, <1>2, <1>3, <1>4, <1>5
<1>7. ASSUME NEW i \in DOMAIN r, NEW j \in DOMAIN r, i < j
      PROVE  r[i] < r[j]
  <2>1. i \in DOMAIN s /\ r[i] = s[i] BY <1>2, <1>3, <1>7
  <2>2. CASE j = Len(r) BY Zenon, <1>2, <2>1, <2>2
  <2>3. CASE j # Len(r) BY Zenon, <1>2, <1>7, <2>1, <2>3
  <2> QED BY Zenon, <2>2, <2>3
<1> QED BY Zenon, <1>6, <1>7 DEF r

(***************************************************************************)
(* The worker and the kernel                                               *)
(***************************************************************************)
\* The worker takes the queued commit.
LEMMA WorkerTakeKeeps == CycleInv /\ WorkerTake => CycleInv'
<1> SUFFICES ASSUME CycleInv, WorkerTake PROVE CycleInv' BY Zenon
<1>0. Typed /\ Plain BY Zenon, TypedPlain DEF CycleInv
<1>1. /\ lane.alive /\ ~lane.stopping
      /\ lane.pc = "idle" /\ lane.queue # 0 /\ lane.inflight = 0
      /\ lane'.alive = lane.alive /\ lane'.stopping = lane.stopping
      /\ lane'.queue = 0
      /\ lane'.job = lane.queue
      /\ lane'.pc = "ioctl"
      /\ lane'.inflight = lane.inflight /\ lane'.overdue = lane.overdue
      /\ lane'.epoch = lane.epoch /\ events' = events /\ kernel' = kernel
      /\ transport' = transport /\ head' = head /\ session' = session
      /\ cycle' = cycle /\ failed' = failed /\ tokens' = tokens
      /\ suspends' = suspends
  BY Zenon, <1>0 DEF Typed, LaneType, WorkerTake, Others
<1>tlane. lane' \in LaneType
  BY Zenon, <1>0, CycleAssumption DEF Typed, LaneType, OptToken, WorkerTake, Others
<1>2. Typed' BY Zenon, <1>0, <1>1, <1>tlane DEF Typed
<1>3. Plain' BY Zenon, <1>2, TypedPlainNext
<1>4. Control'
  BY Zenon, <1>1 DEF CycleInv, Control, Active, Away, Worker
<1>5. LaneShape'
  BY Zenon, <1>1 DEF CycleInv, LaneShape, Active, Away, Worker
<1>6. Order'
  BY Zenon, <1>0, <1>1, <1>3
  DEF CycleInv, Plain, LaneShape, Active, Away, Worker, Order
<1>15. Refused'
  BY Zenon, <1>1 DEF CycleInv, Refused, Active
<1>7. Traffic'
  BY Zenon, <1>1 DEF CycleInv, Traffic, Active, Worker
<1>8. Room'
  BY Zenon, <1>1 DEF CycleInv, Room, Credit
<1>9. Agreement'
  BY Zenon, <1>1 DEF CycleInv, Agreement, Fits, Active, Worker
<1>10. Settled'
  BY Zenon, <1>1 DEF CycleInv, Settled, Away, Worker
<1>11. Flow'
  BY Zenon, <1>1 DEF CycleInv, Flow, Just, Nothing, Active, Worker
<1>12. EarlyFlipIsOwn'
  BY Zenon, <1>1 DEF CycleInv, EarlyFlipIsOwn
<1>13. OwnershipHeld'
  BY Zenon, <1>1 DEF CycleInv, OwnershipHeld, Announced
<1>14. OnlyTimeoutsFail'
  BY Zenon, <1>1 DEF CycleInv, OnlyTimeoutsFail
<1> QED
  BY Zenon, <1>2, <1>4, <1>5, <1>6, <1>7, <1>8, <1>9, <1>10, <1>11, <1>12, <1>13,
     <1>14, <1>15
  DEF CycleInv

\* The ioctl succeeds: the kernel holds the commit in hand.
LEMMA WorkerSubmitKeeps == CycleInv /\ WorkerSubmit => CycleInv'
<1> SUFFICES ASSUME CycleInv, WorkerSubmit PROVE CycleInv' BY Zenon
<1>0. Typed /\ Plain BY Zenon, TypedPlain DEF CycleInv
<1>1. /\ lane.pc = "ioctl" /\ kernel.pending = 0
      /\ lane'.alive = lane.alive /\ lane'.stopping = lane.stopping
      /\ lane'.queue = lane.queue /\ lane'.job = lane.job
      /\ lane'.pc = "publish"
      /\ lane'.inflight = lane.inflight /\ lane'.overdue = lane.overdue
      /\ lane'.epoch = lane.epoch
      /\ kernel'.pending = lane.job
      /\ kernel'.readable = kernel.readable /\ events' = events
      /\ transport' = transport /\ head' = head /\ session' = session
      /\ cycle' = cycle /\ failed' = failed /\ tokens' = tokens
      /\ suspends' = suspends
  BY Zenon, <1>0 DEF Typed, LaneType, KernelType, WorkerSubmit, Others
<1>tlane. lane' \in LaneType
  BY Zenon, <1>0, CycleAssumption DEF Typed, LaneType, OptToken, WorkerSubmit, Others
<1>tkernel. kernel' \in KernelType
  BY Zenon, <1>0, CycleAssumption
  DEF Typed, KernelType, LaneType, OptToken, WorkerSubmit, Others
<1>2. Typed' BY Zenon, <1>0, <1>1, <1>tlane, <1>tkernel DEF Typed
<1>3. Plain' BY Zenon, <1>2, TypedPlainNext
<1>4. Control'
  BY Zenon, <1>1 DEF CycleInv, Control, Active, Away, Worker
<1>5. LaneShape'
  BY Zenon, <1>1 DEF CycleInv, LaneShape, Active, Away, Worker
<1>6. Order'
  BY Zenon, <1>0, <1>1, <1>3
  DEF CycleInv, Plain, LaneShape, Active, Away, Worker, Order
<1>15. Refused'
  BY Zenon, <1>0, <1>1, <1>3
  DEF CycleInv, Plain, Control, LaneShape, Traffic, Answers, Refused, Active
<1>7. Traffic'
  BY ZenonT(60), <1>1 DEF CycleInv, Traffic, Active, Worker
<1>8. Room'
  BY Zenon, <1>1 DEF CycleInv, Room, Credit
<1>9. Agreement'
  BY <1>0, <1>1
  DEF CycleInv, Plain, LaneShape, Agreement, Fits, Active, Worker
<1>10. Settled'
  BY Zenon, <1>1 DEF CycleInv, Settled, Away, Worker
<1>11. Flow'
  <2>1. lane.job # 0 /\ lane.inflight = 0 /\ Worker
    BY Zenon, <1>1 DEF CycleInv, LaneShape
  <2>2. Active => cycle.flip = 0 /\ head.arb.early_pageflip = 0
    BY Zenon, <1>1, <2>1 DEF CycleInv, Agreement, Fits
  <2>3. head.epoch = 1 /\ Active => kernel.readable = <<>>
    BY Zenon, <1>1, <2>1 DEF CycleInv, Flow, Nothing
  <2> QED
    BY Zenon, <1>1, <2>1, <2>2, <2>3
    DEF Flow, Just, Nothing, Active, Worker
<1>12. EarlyFlipIsOwn'
  BY Zenon, <1>1 DEF CycleInv, EarlyFlipIsOwn
<1>13. OwnershipHeld'
  BY Zenon, <1>1 DEF CycleInv, OwnershipHeld, Announced
<1>14. OnlyTimeoutsFail'
  BY Zenon, <1>1 DEF CycleInv, OnlyTimeoutsFail
<1> QED
  BY Zenon, <1>2, <1>4, <1>5, <1>6, <1>7, <1>8, <1>9, <1>10, <1>11, <1>12, <1>13,
     <1>14, <1>15
  DEF CycleInv

\* A refusal: the one answer to the commit in hand.
LEMMA WorkerRejectKeeps == CycleInv /\ WorkerReject => CycleInv'
<1> SUFFICES ASSUME CycleInv, WorkerReject PROVE CycleInv' BY Zenon
<1>0. Typed /\ Plain BY Zenon, TypedPlain DEF CycleInv
<1>e. events' = Append(events, Event("Rejected", lane.job, lane.epoch))
  BY Zenon DEF WorkerReject
<1>f. Event("Rejected", lane.job, lane.epoch) \in EventType
  BY Zenon, <1>0 DEF Typed, LaneType, EventType, Event
<1>g. events \in Seq(EventType) BY Zenon, <1>0 DEF Typed
<1>h. /\ Len(events') = Len(events) + 1
      /\ \A i \in DOMAIN events' :
            i = Len(events') \/ (i \in DOMAIN events /\ events'[i] = events[i])
      /\ \A i \in DOMAIN events :
            i \in DOMAIN events' /\ events'[i] = events[i] /\ i # Len(events')
      /\ Len(events') \in DOMAIN events'
      /\ events'[Len(events')].kind = "Rejected"
      /\ events'[Len(events')].token = lane.job
      /\ events'[Len(events')].generation = lane.epoch
  BY <1>e, <1>f, <1>g, Grows DEF Event
<1>1. /\ lane.pc = "ioctl"
      /\ lane'.alive = lane.alive /\ lane'.stopping = lane.stopping
      /\ lane'.queue = lane.queue
      /\ lane'.job = 0
      /\ lane'.pc = "idle"
      /\ lane'.inflight = lane.inflight /\ lane'.overdue = lane.overdue
      /\ lane'.epoch = lane.epoch /\ kernel' = kernel /\ transport' = transport
      /\ head' = head /\ session' = session /\ cycle' = cycle
      /\ failed' = failed /\ tokens' = tokens /\ suspends' = suspends
  BY Zenon, <1>0 DEF Typed, LaneType, WorkerReject, Others
<1>tlane. lane' \in LaneType
  <2>1. lane' = [lane EXCEPT !.pc = "idle", !.job = 0]
    BY Zenon DEF WorkerReject
  <2>2. 0 \in OptToken BY CycleAssumption DEF OptToken
  <2> QED BY Zenon, <1>0, <2>1, <2>2 DEF Typed, LaneType
<1>tevents. events' \in Seq(EventType) BY <1>e, <1>f, <1>g, Grows
<1>2. Typed' BY Zenon, <1>0, <1>1, <1>tlane, <1>tevents DEF Typed
<1>3. Plain' BY Zenon, <1>2, TypedPlainNext
<1>4. Control'
  BY <1>1, <1>h DEF CycleInv, Control, Active, Away, Worker
<1>5. LaneShape'
  <2>1. Worker /\ ~Away /\ lane.epoch = head.epoch
    BY Zenon, <1>0, <1>1 DEF CycleInv, Plain, Control, LaneShape
  <2>2. \A i \in DOMAIN events' :
           /\ events'[i].generation = head.epoch
           /\ Active => events'[i].kind # "Quiesced"
           /\ events'[i].kind = "Submitted" => events'[i].token # 0
    BY <1>1, <1>h, <2>1 DEF CycleInv, LaneShape
  <2> QED
    BY Zenon, <1>0, <1>1, <1>3, <2>1, <2>2
    DEF CycleInv, Plain, Control, LaneShape, Active, Away, Worker
<1>6. Order'
  BY ZenonT(60), <1>0, <1>1, <1>h, <1>3
  DEF CycleInv, Plain, LaneShape, Active, Away, Worker, Order
<1>15. Refused'
  <2>1. /\ kernel.pending < lane.job
        /\ \A j \in DOMAIN kernel.readable : kernel.readable[j] < lane.job
    BY Zenon, <1>1 DEF CycleInv, Order
  <2> QED BY Zenon, <1>1, <1>h, <2>1 DEF CycleInv, Refused, Active
<1>7. Traffic'
  <2> SUFFICES ASSUME Worker, Active PROVE Traffic'
    BY Zenon, <1>1 DEF Traffic, Worker, Active
  <2>1. lane.job # 0 /\ lane.queue = 0 /\ lane.inflight = 0
    BY Zenon, <1>1 DEF CycleInv, LaneShape
  <2>2. \A i \in DOMAIN events : events[i].kind \notin Answers
    BY Zenon, <2>1 DEF CycleInv, Traffic
  <2>3. Len(events) <= 1 BY Zenon, <1>0, <2>1, <2>2 DEF CycleInv, Plain, Traffic
  <2>4. Len(events') <= 2 BY <1>0, <1>h, <2>3 DEF Plain
  <2>5. /\ \A i \in DOMAIN events' :
              events'[i].kind \in Answers => i = Len(events')
        /\ events'[Len(events')].kind \in Answers
    BY Zenon, <1>h, <2>2 DEF Answers
  <2> QED BY Zenon, <1>1, <1>h, <2>1, <2>4, <2>5 DEF Traffic
<1>8. Room'
  <2>1. Worker /\ ~Away /\ (Active \/ session = "Suspending")
    BY Zenon, <1>0, <1>1 DEF CycleInv, Typed, Sessions, Plain, LaneShape, Active, Away
  <2>2. Active => \A i \in DOMAIN events : events[i].kind \notin Answers
    BY Zenon, <1>0, <1>1, <2>1 DEF CycleInv, Plain, LaneShape, Traffic
  <2>3. Credit = 2 /\ Credit' = 0
    BY Zenon, <1>0, <1>1, <1>3 DEF CycleInv, Plain, LaneShape, Credit
  <2>4. Len(events) <= 1
    BY SMTT(60), <1>0, <2>1, <2>2, <2>3, <1>1
    DEF CycleInv, Plain, LaneShape, Traffic, Room
  <2> QED
    BY SMTT(60), <1>0, <1>1, <1>h, <2>3, <2>4 DEF CycleInv, Plain, Room
<1>9. Agreement'
  <2> SUFFICES ASSUME Worker, Active PROVE Agreement'
    BY Zenon, <1>1 DEF Agreement, Worker, Active
  <2>1. /\ lane.job # 0 /\ lane.queue = 0 /\ lane.inflight = 0
        /\ Fits(head, 0)
    BY Zenon, <1>0, <1>1 DEF CycleInv, Plain, LaneShape, Agreement
  <2>2. \A i \in DOMAIN events : events[i].kind \notin Answers
    BY Zenon, <1>0, <1>1, <2>1 DEF CycleInv, Traffic
  <2>3. /\ cycle.flip = 0 /\ head.deferred = 0
        /\ head.arb.worker_queued.token = lane.job
        /\ head.arb.kernel_submitted.token = 0
        /\ head.arb.early_pageflip = 0
    BY Zenon, <1>0, <1>1, <2>1 DEF CycleInv, Plain, Control, Agreement, Fits
  <2>4. /\ \A i \in DOMAIN events' :
              events'[i].kind \in Answers => i = Len(events')
        /\ Len(events') > 0
        /\ events'[Len(events')].kind \in Answers
    BY SMTT(60), <1>0, <1>h, <2>2 DEF Plain, Answers
  <2>5. Fits(head, 0)'
    BY SMTT(60), <1>0, <1>1, <1>h, <2>1, <2>3, <2>4 DEF Plain, Fits, NoCommit
  <2> QED BY Zenon, <1>1, <2>3, <2>5 DEF Agreement
<1>10. Settled'
  BY Zenon, <1>1, <1>h DEF CycleInv, Settled, Away, Worker
<1>11. Flow'
  BY Zenon, <1>1, <1>h DEF CycleInv, Flow, Just, Nothing, Active, Worker
<1>12. EarlyFlipIsOwn'
  BY Zenon, <1>1, <1>h DEF CycleInv, EarlyFlipIsOwn
<1>13. OwnershipHeld'
  BY <1>1, <1>h DEF CycleInv, OwnershipHeld, Announced
<1>14. OnlyTimeoutsFail'
  BY Zenon, <1>1, <1>h DEF CycleInv, OnlyTimeoutsFail
<1> QED
  BY Zenon, <1>2, <1>4, <1>5, <1>6, <1>7, <1>8, <1>9, <1>10, <1>11, <1>12, <1>13,
     <1>14, <1>15
  DEF CycleInv

\* The submission is announced; the commit is in flight.
LEMMA WorkerPublishKeeps == CycleInv /\ WorkerPublish => CycleInv'
<1> SUFFICES ASSUME CycleInv, WorkerPublish PROVE CycleInv' BY Zenon
<1>0. Typed /\ Plain BY Zenon, TypedPlain DEF CycleInv
<1>e. events' = Append(events, Event("Submitted", lane.job, lane.epoch))
  BY Zenon DEF WorkerPublish
<1>f. Event("Submitted", lane.job, lane.epoch) \in EventType
  BY Zenon, <1>0 DEF Typed, LaneType, EventType, Event
<1>g. events \in Seq(EventType) BY Zenon, <1>0 DEF Typed
<1>h. /\ Len(events') = Len(events) + 1
      /\ \A i \in DOMAIN events' :
            i = Len(events') \/ (i \in DOMAIN events /\ events'[i] = events[i])
      /\ \A i \in DOMAIN events :
            i \in DOMAIN events' /\ events'[i] = events[i] /\ i # Len(events')
      /\ Len(events') \in DOMAIN events'
      /\ events'[Len(events')].kind = "Submitted"
      /\ events'[Len(events')].token = lane.job
      /\ events'[Len(events')].generation = lane.epoch
  BY <1>e, <1>f, <1>g, Grows DEF Event
<1>1. /\ lane.pc = "publish"
      /\ lane'.alive = lane.alive /\ lane'.stopping = lane.stopping
      /\ lane'.queue = lane.queue
      /\ lane'.job = 0
      /\ lane'.pc = "idle"
      /\ lane'.inflight = lane.job
      /\ lane'.overdue = FALSE
      /\ lane'.epoch = lane.epoch /\ kernel' = kernel /\ transport' = transport
      /\ head' = head /\ session' = session /\ cycle' = cycle
      /\ failed' = failed /\ tokens' = tokens /\ suspends' = suspends
  BY Zenon, <1>0 DEF Typed, LaneType, WorkerPublish, Others
<1>tlane. lane' \in LaneType
  <2>1. lane' = [lane EXCEPT !.pc = "idle", !.job = 0,
                                !.inflight = lane.job, !.overdue = FALSE]
    BY Zenon DEF WorkerPublish
  <2>2. 0 \in OptToken BY CycleAssumption DEF OptToken
  <2> QED BY Zenon, <1>0, <2>1, <2>2 DEF Typed, LaneType
<1>tevents. events' \in Seq(EventType) BY <1>e, <1>f, <1>g, Grows
<1>2. Typed' BY Zenon, <1>0, <1>1, <1>tlane, <1>tevents DEF Typed
<1>3. Plain' BY Zenon, <1>2, TypedPlainNext
<1>4. Control'
  BY Zenon, <1>1, <1>h DEF CycleInv, Control, Active, Away, Worker
<1>5. LaneShape'
  <2>1. Worker /\ ~Away /\ lane.epoch = head.epoch /\ lane.job # 0
    BY Zenon, <1>0, <1>1 DEF CycleInv, Plain, Control, LaneShape
  <2>2. \A i \in DOMAIN events' :
           /\ events'[i].generation = head.epoch
           /\ Active => events'[i].kind # "Quiesced"
           /\ events'[i].kind = "Submitted" => events'[i].token # 0
    BY SMTT(60), <1>1, <1>h, <2>1 DEF CycleInv, LaneShape
  <2> QED
    BY Zenon, <1>0, <1>1, <1>3, <2>1, <2>2
    DEF CycleInv, Plain, Control, LaneShape, Active, Away, Worker
<1>6. Order'
  BY ZenonT(60), <1>0, <1>1, <1>h, <1>3
  DEF CycleInv, Plain, LaneShape, Active, Away, Worker, Order
<1>15. Refused'
  BY Zenon, <1>1, <1>h DEF CycleInv, Refused, Active
<1>7. Traffic'
  <2> SUFFICES ASSUME Worker, Active PROVE Traffic'
    BY Zenon, <1>1 DEF Traffic, Worker, Active
  <2>1. lane.job # 0 /\ lane.queue = 0 /\ lane.inflight = 0
    BY Zenon, <1>1 DEF CycleInv, LaneShape
  <2>2. \A i \in DOMAIN events : events[i].kind \notin Answers
    BY Zenon, <2>1 DEF CycleInv, Traffic
  <2>3. Len(events) <= 1 BY Zenon, <1>0, <2>1, <2>2 DEF CycleInv, Plain, Traffic
  <2>4. Len(events') <= 2 BY <1>0, <1>h, <2>3 DEF Plain
  <2>5. /\ \A i \in DOMAIN events' :
              events'[i].kind \in Answers => i = Len(events')
        /\ events'[Len(events')].kind \in Answers
    BY Zenon, <1>h, <2>2 DEF Answers
  <2> QED BY Zenon, <1>1, <1>h, <2>1, <2>4, <2>5 DEF Traffic
<1>8. Room'
  <2>1. Worker /\ ~Away /\ (Active \/ session = "Suspending")
    BY Zenon, <1>0, <1>1 DEF CycleInv, Typed, Sessions, Plain, LaneShape, Active, Away
  <2>2. Active => \A i \in DOMAIN events : events[i].kind \notin Answers
    BY Zenon, <1>0, <1>1, <2>1 DEF CycleInv, Plain, LaneShape, Traffic
  <2>3. Credit = 2 /\ Credit' = 1
    BY Zenon, <1>0, <1>1, <1>3 DEF CycleInv, Plain, LaneShape, Credit
  <2>4. Len(events) <= 1
    BY <1>0, <2>1, <2>2, <2>3, <1>1
    DEF CycleInv, Plain, LaneShape, Traffic, Room
  <2> QED
    BY SMTT(60), <1>0, <1>1, <1>h, <2>3, <2>4 DEF CycleInv, Plain, Room
<1>9. Agreement'
  <2> SUFFICES ASSUME Worker, Active PROVE Agreement'
    BY Zenon, <1>1 DEF Agreement, Worker, Active
  <2>1. /\ lane.job # 0 /\ lane.queue = 0 /\ lane.inflight = 0
        /\ Fits(head, 0)
    BY Zenon, <1>0, <1>1 DEF CycleInv, Plain, LaneShape, Agreement
  <2>2. \A i \in DOMAIN events : events[i].kind \notin Answers
    BY Zenon, <1>0, <1>1, <2>1 DEF CycleInv, Traffic
  <2>3. /\ cycle.flip = 0 /\ head.deferred = 0
        /\ head.arb.worker_queued.token = lane.job
        /\ head.arb.kernel_submitted.token = 0
    BY Zenon, <1>0, <1>1, <2>1 DEF CycleInv, Plain, Control, Agreement, Fits
  <2>4. /\ \A i \in DOMAIN events' :
              events'[i].kind \in Answers => i = Len(events')
        /\ Len(events') > 0
        /\ events'[Len(events')].kind \in Answers
    BY SMTT(60), <1>0, <1>h, <2>2 DEF Plain, Answers
  <2>5. Fits(head, 0)'
    BY SMTT(60), <1>0, <1>1, <1>h, <2>1, <2>3, <2>4 DEF Plain, Fits, NoCommit
  <2> QED BY Zenon, <1>1, <2>3, <2>5 DEF Agreement
<1>10. Settled'
  BY Zenon, <1>0, <1>1, <1>h, <1>3
  DEF CycleInv, Plain, Control, Active, Away, Worker, Settled
<1>11. Flow'
  BY <1>0, <1>1, <1>h
  DEF CycleInv, Plain, LaneShape, Flow, Just, Nothing, Active, Worker
<1>12. EarlyFlipIsOwn'
  BY Zenon, <1>1, <1>h DEF CycleInv, EarlyFlipIsOwn
<1>13. OwnershipHeld'
  BY <1>1, <1>h DEF CycleInv, OwnershipHeld, Announced
<1>14. OnlyTimeoutsFail'
  BY Zenon, <1>1, <1>h DEF CycleInv, OnlyTimeoutsFail
<1> QED
  BY Zenon, <1>2, <1>4, <1>5, <1>6, <1>7, <1>8, <1>9, <1>10, <1>11, <1>12, <1>13,
     <1>14, <1>15
  DEF CycleInv

\* The overdue commit is reported, after its submission at most.
LEMMA WorkerTimeoutKeeps == CycleInv /\ WorkerTimeout => CycleInv'
<1> SUFFICES ASSUME CycleInv, WorkerTimeout PROVE CycleInv' BY Zenon
<1>0. Typed /\ Plain BY Zenon, TypedPlain DEF CycleInv
<1>e. events' = Append(events, Event("PageflipTimeout", lane.inflight, lane.epoch))
  BY Zenon DEF WorkerTimeout
<1>f. Event("PageflipTimeout", lane.inflight, lane.epoch) \in EventType
  BY Zenon, <1>0 DEF Typed, LaneType, EventType, Event
<1>g. events \in Seq(EventType) BY Zenon, <1>0 DEF Typed
<1>h. /\ Len(events') = Len(events) + 1
      /\ \A i \in DOMAIN events' :
            i = Len(events') \/ (i \in DOMAIN events /\ events'[i] = events[i])
      /\ \A i \in DOMAIN events :
            i \in DOMAIN events' /\ events'[i] = events[i] /\ i # Len(events')
      /\ Len(events') \in DOMAIN events'
      /\ events'[Len(events')].kind = "PageflipTimeout"
      /\ events'[Len(events')].token = lane.inflight
      /\ events'[Len(events')].generation = lane.epoch
  BY <1>e, <1>f, <1>g, Grows DEF Event
<1>1. /\ lane.alive /\ lane.pc = "idle" /\ lane.inflight # 0 /\ ~lane.overdue
      /\ lane'.alive = lane.alive /\ lane'.stopping = lane.stopping
      /\ lane'.queue = lane.queue /\ lane'.job = lane.job /\ lane'.pc = lane.pc
      /\ lane'.inflight = lane.inflight
      /\ lane'.overdue = TRUE
      /\ lane'.epoch = lane.epoch /\ kernel' = kernel /\ transport' = transport
      /\ head' = head /\ session' = session /\ cycle' = cycle
      /\ failed' = failed /\ tokens' = tokens /\ suspends' = suspends
  BY Zenon, <1>0 DEF Typed, LaneType, WorkerTimeout, Others
<1>tlane. lane' \in LaneType
  BY Zenon, <1>0, CycleAssumption DEF Typed, LaneType, OptToken, WorkerTimeout, Others
<1>tevents. events' \in Seq(EventType) BY <1>e, <1>f, <1>g, Grows
<1>2. Typed' BY Zenon, <1>0, <1>1, <1>tlane, <1>tevents DEF Typed
<1>3. Plain' BY Zenon, <1>2, TypedPlainNext
<1>4. Control'
  BY Zenon, <1>1, <1>h DEF CycleInv, Control, Active, Away, Worker
<1>5. LaneShape'
  <2>1. Worker /\ ~Away /\ lane.epoch = head.epoch
    BY Zenon, <1>0, <1>1 DEF CycleInv, Plain, Control, LaneShape
  <2>2. \A i \in DOMAIN events' :
           /\ events'[i].generation = head.epoch
           /\ Active => events'[i].kind # "Quiesced"
           /\ events'[i].kind = "Submitted" => events'[i].token # 0
    BY <1>1, <1>h, <2>1 DEF CycleInv, LaneShape
  <2> QED
    BY Zenon, <1>0, <1>1, <1>3, <2>1, <2>2
    DEF CycleInv, Plain, Control, LaneShape, Active, Away, Worker
<1>6. Order'
  BY Zenon, <1>1, <1>h DEF CycleInv, Order
<1>15. Refused'
  BY Zenon, <1>1, <1>h DEF CycleInv, Refused, Active
<1>7. Traffic'
  <2> SUFFICES ASSUME Worker, Active PROVE Traffic'
    BY Zenon, <1>1 DEF Traffic, Worker, Active
  <2>1. CASE \A i \in DOMAIN events : events[i].kind \notin Answers
    <3>1. \A i \in DOMAIN events' : events'[i].kind \notin Answers
      BY Zenon, <1>h, <2>1 DEF Answers
    <3>2. Len(events) = 0
      BY <1>0, <1>1, <2>1 DEF CycleInv, Plain, Traffic
    <3> QED BY <1>1, <1>h, <3>1, <3>2 DEF Traffic
  <2>2. CASE \E i \in DOMAIN events : events[i].kind \in Answers
    <3>1. PICK i \in DOMAIN events : events[i].kind \in Answers BY Zenon, <2>2
    <3>2. /\ lane.queue = 0 /\ lane.job = 0 /\ events[i].token # 0
          /\ \A j \in DOMAIN events : events[j].kind \in Answers => i = j
          /\ events[i].kind = "Submitted"
          /\ lane.inflight = events[i].token /\ Len(events) <= 2
      BY Zenon, <1>0, <1>1, <3>1 DEF CycleInv, Plain, Traffic, Answers
    <3>3. \A j \in DOMAIN events' : events'[j].kind \in Answers => j = i
      BY Zenon, <1>h, <3>2 DEF Answers
    <3>4. i \in DOMAIN events' /\ events'[i] = events[i]
      BY Zenon, <1>h, <3>1
    <3>5. Len(events') <= 3 BY <1>0, <1>h, <3>2 DEF Plain
    <3> QED BY Zenon, <1>1, <3>1, <3>2, <3>3, <3>4, <3>5 DEF Traffic, Answers
  <2> QED BY Zenon, <2>1, <2>2
<1>8. Room'
  <2>1. Worker /\ ~Away /\ (Active \/ session = "Suspending")
    BY Zenon, <1>0, <1>1 DEF CycleInv, Typed, Sessions, Plain, LaneShape, Active, Away
  <2>2. Credit = 1 /\ Credit' = 0
    BY Zenon, <1>0, <1>1, <1>3 DEF CycleInv, Plain, LaneShape, Credit
  <2>3. Len(events) <= 2
    <3>1. CASE Active
      <4>1. CASE \A i \in DOMAIN events : events[i].kind \notin Answers
        BY <1>0, <1>1, <2>1, <3>1, <4>1 DEF CycleInv, Plain, Traffic
      <4>2. CASE \E i \in DOMAIN events : events[i].kind \in Answers
        BY Zenon, <1>0, <1>1, <2>1, <3>1, <4>2 DEF CycleInv, Plain, Traffic, Answers
      <4> QED BY Zenon, <4>1, <4>2
    <3>2. CASE session = "Suspending"
      BY <1>0, <1>1, <2>1, <2>2, <3>2 DEF CycleInv, Plain, Room
    <3> QED BY Zenon, <2>1, <3>1, <3>2
  <2> QED
    BY SMTT(60), <1>0, <1>1, <1>h, <2>2, <2>3 DEF CycleInv, Plain, Room
<1>9. Agreement'
  <2> SUFFICES ASSUME Worker, Active PROVE Agreement'
    BY Zenon, <1>1 DEF Agreement, Worker, Active
  <2>1. Fits(head, 0) BY Zenon DEF CycleInv, Agreement
  <2>2. /\ \A i \in DOMAIN events' : events'[i].kind \in Answers =>
              i \in DOMAIN events /\ events'[i] = events[i]
        /\ \A i \in DOMAIN events :
              i \in DOMAIN events' /\ events'[i] = events[i]
    BY Zenon, <1>h DEF Answers
  <2>3. Fits(head, 0)' BY <1>1, <2>1, <2>2 DEF Fits
  <2> QED BY <1>1, <1>h, <2>3 DEF CycleInv, Agreement
<1>10. Settled'
  BY Zenon, <1>1, <1>h DEF CycleInv, Settled, Away, Worker
<1>11. Flow'
  BY ZenonT(60), <1>1 DEF CycleInv, Flow, Just, Nothing, Active, Worker
<1>12. EarlyFlipIsOwn'
  BY Zenon, <1>1, <1>h DEF CycleInv, EarlyFlipIsOwn
<1>13. OwnershipHeld'
  BY <1>1, <1>h DEF CycleInv, OwnershipHeld, Announced
<1>14. OnlyTimeoutsFail'
  BY Zenon, <1>1, <1>h DEF CycleInv, OnlyTimeoutsFail
<1> QED
  BY Zenon, <1>2, <1>4, <1>5, <1>6, <1>7, <1>8, <1>9, <1>10, <1>11, <1>12, <1>13,
     <1>14, <1>15
  DEF CycleInv

\* A quiescing worker exits with its last event.
LEMMA WorkerStopKeeps == CycleInv /\ WorkerStop => CycleInv'
<1> SUFFICES ASSUME CycleInv, WorkerStop PROVE CycleInv' BY Zenon
<1>0. Typed /\ Plain BY Zenon, TypedPlain DEF CycleInv
<1>e. events' = Append(events, Event("Quiesced", lane.queue, lane.epoch))
  BY Zenon DEF WorkerStop
<1>f. Event("Quiesced", lane.queue, lane.epoch) \in EventType
  BY Zenon, <1>0 DEF Typed, LaneType, EventType, Event
<1>g. events \in Seq(EventType) BY Zenon, <1>0 DEF Typed
<1>h. /\ Len(events') = Len(events) + 1
      /\ \A i \in DOMAIN events' :
            i = Len(events') \/ (i \in DOMAIN events /\ events'[i] = events[i])
      /\ \A i \in DOMAIN events :
            i \in DOMAIN events' /\ events'[i] = events[i] /\ i # Len(events')
      /\ Len(events') \in DOMAIN events'
      /\ events'[Len(events')].kind = "Quiesced"
      /\ events'[Len(events')].token = lane.queue
      /\ events'[Len(events')].generation = lane.epoch
  BY <1>e, <1>f, <1>g, Grows DEF Event
<1>1. /\ lane.alive /\ lane.stopping /\ lane.pc = "idle"
      /\ lane'.alive = FALSE
      /\ lane'.stopping = lane.stopping
      /\ lane'.queue = 0
      /\ lane'.job = lane.job /\ lane'.pc = lane.pc
      /\ lane'.inflight = 0
      /\ lane'.overdue = lane.overdue /\ lane'.epoch = lane.epoch
      /\ kernel' = kernel /\ transport' = transport /\ head' = head
      /\ session' = session /\ cycle' = cycle /\ failed' = failed
      /\ tokens' = tokens /\ suspends' = suspends
  BY Zenon, <1>0 DEF Typed, LaneType, WorkerStop, Others
<1>tlane. lane' \in LaneType
  <2>1. lane' = [lane EXCEPT !.alive = FALSE, !.queue = 0, !.inflight = 0]
    BY Zenon DEF WorkerStop
  <2>2. 0 \in OptToken BY CycleAssumption DEF OptToken
  <2> QED BY Zenon, <1>0, <2>1, <2>2 DEF Typed, LaneType
<1>tevents. events' \in Seq(EventType) BY <1>e, <1>f, <1>g, Grows
<1>2. Typed' BY Zenon, <1>0, <1>1, <1>tlane, <1>tevents DEF Typed
<1>3. Plain' BY Zenon, <1>2, TypedPlainNext
<1>4. Control'
  BY Zenon, <1>1, <1>h DEF CycleInv, Control, Active, Away, Worker
<1>5. LaneShape'
  <2>1. Worker /\ ~Away /\ lane.epoch = head.epoch /\ ~Active
    BY Zenon, <1>0, <1>1 DEF CycleInv, Plain, Control, LaneShape
  <2>2. \A i \in DOMAIN events' :
           /\ events'[i].generation = head.epoch
           /\ Active => events'[i].kind # "Quiesced"
           /\ events'[i].kind = "Submitted" => events'[i].token # 0
    BY SMTT(60), <1>1, <1>h, <2>1 DEF CycleInv, LaneShape
  <2> QED
    BY Zenon, <1>0, <1>1, <1>3, <2>1, <2>2
    DEF CycleInv, Plain, Control, LaneShape, Active, Away, Worker
<1>6. Order'
  BY ZenonT(60), <1>0, <1>1, <1>h, <1>3
  DEF CycleInv, Plain, LaneShape, Active, Away, Worker, Order
<1>15. Refused'
  BY Zenon, <1>1, <1>h DEF CycleInv, Refused, Active
<1>7. Traffic'
  BY Zenon, <1>0, <1>1, <1>h, <1>3
  DEF CycleInv, Plain, Control, LaneShape, Traffic, Active, Worker
<1>8. Room'
  <2>1. session = "Suspending" /\ cycle.phase = "join"
    BY Zenon, <1>0, <1>1
    DEF CycleInv, Typed, Sessions, Plain, Control, LaneShape, Active, Away
  <2>2. Len(events) + Credit <= 2
    BY Zenon, <1>0, <1>1, <2>1 DEF CycleInv, Plain, Room
  <2>3. Credit \in Nat BY Zenon DEF Credit
  <2> QED
    BY SMTT(60), <1>0, <1>1, <1>h, <2>1, <2>2, <2>3 DEF Plain, Room
<1>9. Agreement'
  BY Zenon, <1>0, <1>1, <1>h, <1>3
  DEF CycleInv, Plain, Control, Active, Away, Worker, LaneShape, Order,
      Traffic, Answers, Agreement, Fits, NoCommit
<1>10. Settled'
  BY Zenon, <1>0, <1>1, <1>h, <1>3
  DEF CycleInv, Plain, Control, Active, Away, Worker, Settled
<1>11. Flow'
  BY Zenon, <1>0, <1>1, <1>h, <1>3
  DEF CycleInv, Plain, Control, LaneShape, Flow, Just, Nothing, Active, Worker
<1>12. EarlyFlipIsOwn'
  BY Zenon, <1>0, <1>1, <1>h, <1>3 DEF CycleInv, Plain, EarlyFlipIsOwn
<1>13. OwnershipHeld'
  BY <1>1, <1>h DEF CycleInv, OwnershipHeld, Announced
<1>14. OnlyTimeoutsFail'
  BY Zenon, <1>1, <1>h DEF CycleInv, OnlyTimeoutsFail
<1> QED
  BY Zenon, <1>2, <1>4, <1>5, <1>6, <1>7, <1>8, <1>9, <1>10, <1>11, <1>12, <1>13,
     <1>14, <1>15
  DEF CycleInv

\* The kernel completes the commit it holds.
LEMMA KernelFlipKeeps == CycleInv /\ KernelFlip => CycleInv'
<1> SUFFICES ASSUME CycleInv, KernelFlip PROVE CycleInv' BY Zenon
<1>0. Typed /\ Plain BY Zenon, TypedPlain DEF CycleInv
<1>e. /\ kernel'.readable = Append(kernel.readable, kernel.pending)
      /\ kernel'.pending = 0
  BY Zenon DEF KernelFlip
<1>k. kernel' = [pending |-> 0,
                 readable |-> Append(kernel.readable, kernel.pending)]
  BY Zenon DEF KernelFlip
<1>f. kernel.pending \in Tokens
  BY <1>0, CycleAssumption DEF Typed, KernelType, KernelFlip, OptToken, Tokens
<1>g. kernel.readable \in Seq(Tokens) BY Zenon, <1>0 DEF Typed, KernelType
<1>h. /\ Len(kernel'.readable) = Len(kernel.readable) + 1
      /\ \A i \in DOMAIN kernel'.readable :
            \/ i = Len(kernel'.readable)
            \/ /\ i \in DOMAIN kernel.readable
               /\ kernel'.readable[i] = kernel.readable[i]
      /\ \A i \in DOMAIN kernel.readable :
            /\ i \in DOMAIN kernel'.readable /\ i # Len(kernel'.readable)
            /\ kernel'.readable[i] = kernel.readable[i]
      /\ Len(kernel'.readable) \in DOMAIN kernel'.readable
      /\ kernel'.readable[Len(kernel'.readable)] = kernel.pending
      /\ kernel.readable = <<>> => kernel'.readable = <<kernel.pending>>
  BY <1>e, <1>f, <1>g, Grows DEF Event
<1>1. /\ kernel.pending # 0
      /\ kernel'.pending = 0
      /\ lane' = lane /\ events' = events /\ transport' = transport
      /\ head' = head /\ session' = session /\ cycle' = cycle
      /\ failed' = failed /\ tokens' = tokens /\ suspends' = suspends
  BY Zenon, <1>0 DEF Typed, KernelType, KernelFlip, Others
<1>tkernel. kernel' \in KernelType
  BY <1>e, <1>f, <1>g, <1>k, Grows, CycleAssumption DEF KernelType, OptToken
<1>2. Typed' BY Zenon, <1>0, <1>1, <1>tkernel DEF Typed
<1>3. Plain' BY Zenon, <1>2, TypedPlainNext
<1>4. Control'
  BY Zenon, <1>1, <1>h DEF CycleInv, Control, Active, Away, Worker
<1>5. LaneShape'
  BY Zenon, <1>1, <1>h DEF CycleInv, LaneShape, Active, Away, Worker
<1>6. Order'
  <2>1. \A i \in DOMAIN kernel.readable :
           /\ i <= kernel.readable[i] /\ kernel.readable[i] < kernel.pending
           /\ \A j \in DOMAIN kernel.readable :
                 i < j => kernel.readable[i] < kernel.readable[j]
    BY Zenon, <1>1 DEF CycleInv, Order
  <2>2. \A i \in DOMAIN kernel'.readable :
           /\ i <= kernel'.readable[i] /\ kernel'.readable[i] <= kernel.pending
           /\ \A j \in DOMAIN kernel'.readable :
                 i < j => kernel'.readable[i] < kernel'.readable[j]
    BY Zenon, <1>e, <1>f, <1>g, <2>1, RisingGrows
  <2>3. /\ kernel.pending <= tokens
        /\ lane.queue <= tokens /\ lane.job <= tokens
        /\ lane.queue # 0 => kernel.pending < lane.queue
        /\ lane.pc = "ioctl" => kernel.pending < lane.job
    BY Zenon DEF CycleInv, Order
  <2>4. ASSUME NEW i \in DOMAIN kernel'.readable
        PROVE  /\ kernel'.readable[i] <= tokens
               /\ lane.queue # 0 => kernel'.readable[i] < lane.queue
               /\ lane.pc = "ioctl" => kernel'.readable[i] < lane.job
    <3>1. /\ kernel'.readable[i] \in Nat /\ kernel.pending \in Nat
          /\ lane.queue \in Nat /\ lane.job \in Nat /\ tokens \in Nat
      BY Zenon, <1>0, <1>3 DEF Plain
    <3>2. kernel'.readable[i] <= kernel.pending BY Zenon, <2>2
    <3> QED BY <2>3, <3>1, <3>2
  <2>5. lane.pc = "ioctl" => lane.job # 0 BY Zenon DEF CycleInv, LaneShape
  <2> QED BY <1>0, <1>1, <2>2, <2>3, <2>4, <2>5 DEF Plain, Order
<1>15. Refused'
  <2> SUFFICES ASSUME Active, NEW i \in DOMAIN events,
                      events[i].kind = "Rejected"
               PROVE  /\ 0 < events[i].token
                      /\ \A j \in DOMAIN kernel'.readable :
                            kernel'.readable[j] < events[i].token
    BY Zenon, <1>1 DEF Refused, Active
  <2>1. /\ kernel.pending < events[i].token
        /\ \A j \in DOMAIN kernel.readable :
              kernel.readable[j] < events[i].token
    BY Zenon DEF CycleInv, Refused
  <2>2. kernel.pending \in Nat /\ events[i].token \in Nat BY Zenon, <1>0 DEF Plain
  <2> QED BY <1>1, <1>h, <2>1, <2>2
<1>7. Traffic'
  BY Zenon, <1>1, <1>h DEF CycleInv, Traffic, Active, Worker
<1>8. Room'
  BY Zenon, <1>1, <1>h DEF CycleInv, Room, Credit
<1>9. Agreement'
  BY Zenon, <1>1 DEF CycleInv, Agreement, Fits, Active, Worker
<1>10. Settled'
  BY Zenon, <1>0, <1>1, <1>h, <1>3
  DEF CycleInv, Plain, Control, Active, Away, Worker, Settled
<1>11. Flow'
  <2>1. \A t : Just(t) => Just(t)'
    BY Zenon, <1>0, <1>1, <1>h DEF Plain, Just
  <2>2. ~Nothing BY Zenon, <1>1 DEF Nothing
  <2> QED
    BY Zenon, <1>0, <1>1, <2>1, <2>2 DEF CycleInv, Flow, Active, Worker
<1>12. EarlyFlipIsOwn'
  BY Zenon, <1>1, <1>h DEF CycleInv, EarlyFlipIsOwn
<1>13. OwnershipHeld'
  BY Zenon, <1>1, <1>h DEF CycleInv, OwnershipHeld, Announced
<1>14. OnlyTimeoutsFail'
  BY Zenon, <1>1, <1>h DEF CycleInv, OnlyTimeoutsFail
<1> QED
  BY Zenon, <1>2, <1>4, <1>5, <1>6, <1>7, <1>8, <1>9, <1>10, <1>11, <1>12, <1>13,
     <1>14, <1>15
  DEF CycleInv

(***************************************************************************)
(* Waking, seat events and suspension                                      *)
(***************************************************************************)
\* A cycle starts: undelivered events of a live worker are a wake reason.
LEMMA WakeKeeps == CycleInv /\ Wake => CycleInv'
<1> SUFFICES ASSUME CycleInv, Wake PROVE CycleInv' BY Zenon
<1>0. Typed /\ Plain BY Zenon, TypedPlain DEF CycleInv
<1>1. /\ cycle.phase = "wait" /\ failed = "none"
      /\ cycle'.phase = "events" /\ cycle'.flip = 0 /\ cycle'.timeout = 0
      /\ "drm" \in cycle'.reasons \/ "worker" \in cycle'.reasons => session = "Active"
      /\ session # "Active" => "seat" \in cycle'.reasons \/ "fence" \in cycle'.reasons
      /\ session = "Active" /\ "seat" \in cycle'.reasons => suspends < MaxSuspend
      /\ lane.alive /\ session = "Active" /\ events # <<>> => "worker" \in cycle'.reasons
      /\ cycle'.reasons \subseteq {"drm", "worker", "timer", "seat", "fence"}
      /\ transport' = transport /\ head' = head /\ session' = session
      /\ failed' = failed /\ lane' = lane /\ events' = events
      /\ kernel' = kernel /\ tokens' = tokens /\ suspends' = suspends
  BY <1>0 DEF Typed, CycleType, Wake, Waiting, Ready
<1>tcycle. cycle' \in CycleType
  <2>1. Ready \subseteq {"drm", "worker"} BY Zenon DEF Ready
  <2>2. PICK extra \in SUBSET {"timer", "seat", "fence"} :
           cycle' = [Waiting EXCEPT !.phase = "events",
                                    !.reasons = Ready \cup extra]
    BY Zenon DEF Wake
  <2>3. Ready \cup extra \in SUBSET {"drm", "worker", "timer", "seat", "fence"}
    BY Zenon, <2>1
  <2>4. cycle' = [phase |-> "events", reasons |-> Ready \cup extra,
                  flip |-> 0, timeout |-> 0]
    BY Zenon, <2>2 DEF Waiting
  <2> QED BY <2>3, <2>4, CycleAssumption DEF CycleType, Phases, OptToken
<1>2. Typed' BY Zenon, <1>0, <1>1, <1>tcycle DEF Typed, Sessions
<1>3. Plain' BY Zenon, <1>2, TypedPlainNext
<1>4. Control'
  BY Zenon, <1>1 DEF CycleInv, Control, Active, Away, Worker
<1>5. LaneShape'
  BY Zenon, <1>1 DEF CycleInv, LaneShape, Active, Away, Worker
<1>6. Order'
  BY Zenon, <1>1 DEF CycleInv, Order
<1>15. Refused'
  BY Zenon, <1>1 DEF CycleInv, Refused, Active
<1>7. Traffic'
  BY Zenon, <1>1 DEF CycleInv, Traffic, Active, Worker
<1>8. Room'
  <2>1. Credit \in 0 .. 2 BY DEF Credit
  <2>2. cycle.phase # "join" /\ session # "Suspending"
    BY Zenon, <1>1 DEF CycleInv, Control
  <2>3. cycle'.reasons \cap {"worker", "drm"} = {} => events = <<>>
    BY Zenon, <1>0, <1>1, <2>2
    DEF CycleInv, Typed, Sessions, LaneShape, Active, Away, Worker
  <2>4. events = <<>> => Len(events) = 0 BY Zenon, <1>0 DEF Plain
  <2> QED
    BY <1>0, <1>1, <2>1, <2>2, <2>3, <2>4
    DEF CycleInv, Plain, Room, Credit
<1>9. Agreement'
  <2>1. cycle.flip = 0 /\ cycle'.flip = 0
    BY Zenon, <1>1 DEF CycleInv, Control
  <2> QED
    BY ZenonT(60), <1>1, <2>1 DEF CycleInv, Agreement, Fits, Active, Worker
<1>10. Settled'
  BY Zenon, <1>1 DEF CycleInv, Settled, Away, Worker
<1>11. Flow'
  BY Zenon, <1>0, <1>1, <1>3
  DEF CycleInv, Plain, Control, LaneShape, Flow, Just, Nothing, Active, Worker
<1>12. EarlyFlipIsOwn'
  BY Zenon, <1>1 DEF CycleInv, EarlyFlipIsOwn
<1>13. OwnershipHeld'
  BY Zenon, <1>1 DEF CycleInv, OwnershipHeld, Announced
<1>14. OnlyTimeoutsFail'
  BY Zenon, <1>1 DEF CycleInv, OnlyTimeoutsFail
<1> QED
  BY Zenon, <1>2, <1>4, <1>5, <1>6, <1>7, <1>8, <1>9, <1>10, <1>11, <1>12, <1>13,
     <1>14, <1>15
  DEF CycleInv

\* No seat event: on to the drain.
LEMMA NoSeatEventKeeps == CycleInv /\ NoSeatEvent => CycleInv'
<1> SUFFICES ASSUME CycleInv, NoSeatEvent PROVE CycleInv' BY Zenon
<1>0. Typed /\ Plain BY Zenon, TypedPlain DEF CycleInv
<1>1. /\ cycle.phase = "seat" /\ failed = "none"
      /\ "seat" \notin cycle.reasons /\ "fence" \notin cycle.reasons
      /\ cycle'.phase = "drain"
      /\ cycle'.flip = cycle.flip /\ cycle'.timeout = cycle.timeout
      /\ cycle'.reasons = cycle.reasons /\ transport' = transport
      /\ head' = head /\ session' = session /\ failed' = failed /\ lane' = lane
      /\ events' = events /\ kernel' = kernel /\ tokens' = tokens
      /\ suspends' = suspends
  BY Zenon, <1>0 DEF Typed, CycleType, NoSeatEvent
<1>tcycle. cycle' \in CycleType
  BY Zenon, <1>0, CycleAssumption DEF Typed, CycleType, OptToken, Phases, NoSeatEvent
<1>2. Typed' BY Zenon, <1>0, <1>1, <1>tcycle DEF Typed, Sessions
<1>3. Plain' BY Zenon, <1>2, TypedPlainNext
<1>4. Control'
  BY Zenon, <1>1 DEF CycleInv, Control, Active, Away, Worker
<1>5. LaneShape'
  BY Zenon, <1>1 DEF CycleInv, LaneShape, Active, Away, Worker
<1>6. Order'
  BY Zenon, <1>1 DEF CycleInv, Order
<1>15. Refused'
  BY Zenon, <1>1 DEF CycleInv, Refused, Active
<1>7. Traffic'
  BY ZenonT(60), <1>1 DEF CycleInv, Traffic, Active, Worker
<1>8. Room'
  BY Zenon, <1>1 DEF CycleInv, Room, Credit
<1>9. Agreement'
  BY Zenon, <1>1 DEF CycleInv, Agreement, Fits, Active, Worker
<1>10. Settled'
  BY Zenon, <1>1 DEF CycleInv, Settled, Away, Worker
<1>11. Flow'
  BY Zenon, <1>1 DEF CycleInv, Flow, Just, Nothing, Active, Worker
<1>12. EarlyFlipIsOwn'
  BY Zenon, <1>1 DEF CycleInv, EarlyFlipIsOwn
<1>13. OwnershipHeld'
  BY Zenon, <1>1 DEF CycleInv, OwnershipHeld, Announced
<1>14. OnlyTimeoutsFail'
  BY Zenon, <1>1 DEF CycleInv, OnlyTimeoutsFail
<1> QED
  BY Zenon, <1>2, <1>4, <1>5, <1>6, <1>7, <1>8, <1>9, <1>10, <1>11, <1>12, <1>13,
     <1>14, <1>15
  DEF CycleInv

\* The seat is disabled: the worker is asked to stop.
LEMMA SeatDisableKeeps == CycleInv /\ SeatDisable => CycleInv'
<1> SUFFICES ASSUME CycleInv, SeatDisable PROVE CycleInv' BY Zenon
<1>0. Typed /\ Plain BY Zenon, TypedPlain DEF CycleInv
<1>1. /\ cycle.phase = "seat" /\ failed = "none"
      /\ "seat" \in cycle.reasons /\ session = "Active"
      /\ session' = "Suspending"
      /\ suspends' = suspends + 1
      /\ cycle'.phase = "join"
      /\ cycle'.flip = cycle.flip /\ cycle'.timeout = cycle.timeout
      /\ cycle'.reasons = cycle.reasons /\ lane'.alive = lane.alive
      /\ lane'.stopping = TRUE
      /\ lane'.queue = lane.queue /\ lane'.job = lane.job /\ lane'.pc = lane.pc
      /\ lane'.inflight = lane.inflight /\ lane'.overdue = lane.overdue
      /\ lane'.epoch = lane.epoch /\ transport' = transport /\ head' = head
      /\ failed' = failed /\ events' = events /\ kernel' = kernel
      /\ tokens' = tokens
  BY Zenon, <1>0 DEF Typed, CycleType, LaneType, SeatDisable
<1>tcycle. cycle' \in CycleType
  BY Zenon, <1>0, CycleAssumption DEF Typed, CycleType, OptToken, Phases, SeatDisable
<1>tlane. lane' \in LaneType
  BY Zenon, <1>0, CycleAssumption DEF Typed, LaneType, OptToken, Phases, SeatDisable
<1>2. Typed'
  <2>1. suspends < MaxSuspend BY Zenon, <1>1 DEF CycleInv, Control, Active
  <2> QED
    BY <1>0, <1>1, <1>tcycle, <1>tlane, <2>1, CycleAssumption
    DEF Typed, Sessions
<1>3. Plain' BY Zenon, <1>2, TypedPlainNext
<1>4. Control'
  BY Zenon, <1>1 DEF CycleInv, Control, Active, Away, Worker
<1>5. LaneShape'
  BY Zenon, <1>1 DEF CycleInv, LaneShape, Active, Away, Worker
<1>6. Order'
  BY Zenon, <1>1 DEF CycleInv, Order
<1>15. Refused'
  BY Zenon, <1>1 DEF CycleInv, Refused, Active
<1>7. Traffic'
  BY Zenon, <1>1 DEF CycleInv, Traffic, Active, Worker
<1>8. Room'
  BY Zenon, <1>1 DEF CycleInv, Room, Credit
<1>9. Agreement'
  BY Zenon, <1>1 DEF CycleInv, Agreement, Fits, Active, Worker
<1>10. Settled'
  BY Zenon, <1>1 DEF CycleInv, Settled, Away, Worker
<1>11. Flow'
  BY Zenon, <1>1 DEF CycleInv, Flow, Just, Nothing, Active, Worker
<1>12. EarlyFlipIsOwn'
  BY Zenon, <1>1 DEF CycleInv, EarlyFlipIsOwn
<1>13. OwnershipHeld'
  BY <1>1 DEF CycleInv, OwnershipHeld, Announced
<1>14. OnlyTimeoutsFail'
  BY Zenon, <1>1 DEF CycleInv, OnlyTimeoutsFail
<1> QED
  BY Zenon, <1>2, <1>4, <1>5, <1>6, <1>7, <1>8, <1>9, <1>10, <1>11, <1>12, <1>13,
     <1>14, <1>15
  DEF CycleInv

\* The joined worker's submissions are quarantined.
LEMMA JoinWorkerKeeps == CycleInv /\ JoinWorker => CycleInv'
<1> SUFFICES ASSUME CycleInv, JoinWorker PROVE CycleInv' BY Zenon
<1>0. Typed /\ Plain BY Zenon, TypedPlain DEF CycleInv
<1>1. /\ cycle.phase = "join" /\ ~lane.alive
      /\ events' = <<>>
      /\ session' = "Suspended"
      /\ head'.epoch = head.epoch /\ head'.ownership = head.ownership
      /\ head'.quarantine = head.quarantine \cup Quarantined(events)
      /\ head'.deferred = 0
      /\ head'.timeout = head.timeout
      /\ head'.arb.kernel_submitted = NoCommit
      /\ head'.arb.worker_queued = NoCommit
      /\ head'.arb.early_pageflip = 0
      /\ cycle'.phase = "wait" /\ cycle'.flip = 0 /\ cycle'.timeout = 0
      /\ cycle'.reasons = {}
      /\ transport' = transport /\ failed' = failed /\ lane' = lane
      /\ kernel' = kernel /\ tokens' = tokens /\ suspends' = suspends
  BY Zenon, <1>0
  DEF Typed, CycleType, HeadType, ArbiterType, JoinWorker, QuarantinePageflip,
      AbandonForRecovery, Waiting
<1>tcycle. cycle' \in CycleType
  BY <1>0, CycleAssumption
  DEF Typed, CycleType, OptToken, Phases, JoinWorker, QuarantinePageflip,
      AbandonForRecovery, Waiting
<1>thead. head' \in HeadType
  <2>1. \A i \in DOMAIN events :
           events[i].kind = "Submitted" => events[i].token \in Tokens
    <3>1. \A i \in DOMAIN events : events[i] \in EventType BY <1>0 DEF Typed
    <3> QED BY <1>0, <3>1 DEF CycleInv, LaneShape, EventType, OptToken, Tokens
  <2>2. Quarantined(events) \subseteq Tokens BY Zenon, <2>1 DEF Quarantined
  <2>3. NoCommit \in Commit /\ 0 \in OptToken
    BY CycleAssumption DEF Commit, NoCommit, OptToken
  <2>4. head.arb \in ArbiterType BY Zenon, <1>0 DEF Typed, HeadType
  <2>5. AbandonForRecovery(head.arb) \in ArbiterType
    BY Zenon, <2>3, <2>4 DEF AbandonForRecovery, ArbiterType
  <2>6. head' = [head EXCEPT !.quarantine = head.quarantine \cup Quarantined(events),
                             !.deferred = 0,
                             !.arb = AbandonForRecovery(head.arb)]
    BY Zenon, <1>0 DEF Typed, HeadType, JoinWorker, QuarantinePageflip
  <2>7. head.quarantine \in SUBSET Tokens BY Zenon, <1>0 DEF Typed, HeadType
  <2>8. head.quarantine \cup Quarantined(events) \in SUBSET Tokens
    BY Zenon, <2>2, <2>7
  <2> QED BY Zenon, <1>0, <2>3, <2>5, <2>6, <2>8 DEF Typed, HeadType
<1>2. Typed' BY SMTT(60), <1>0, <1>1, <1>tcycle, <1>thead DEF Typed, Sessions
<1>3. Plain' BY Zenon, <1>2, TypedPlainNext
<1>4. Control'
  BY Zenon, <1>1 DEF CycleInv, Control, Active, Away, Worker
<1>5. LaneShape'
  BY SMTT(60), <1>1 DEF CycleInv, LaneShape, Active, Away, Worker
<1>6. Order'
  BY Zenon, <1>1 DEF CycleInv, Order
<1>15. Refused'
  BY Zenon, <1>1 DEF CycleInv, Refused, Active
<1>7. Traffic'
  BY Zenon, <1>1 DEF CycleInv, Traffic, Active, Worker
<1>8. Room'
  BY <1>1 DEF CycleInv, Room, Credit
<1>9. Agreement'
  BY Zenon, <1>1 DEF CycleInv, Agreement, Fits, Active, Worker
<1>10. Settled'
  BY <1>0, <1>1, <1>3
  DEF CycleInv, Plain, Control, Active, Away, Worker, Settled, NoCommit
<1>11. Flow'
  BY Zenon, <1>1 DEF CycleInv, Flow, Just, Nothing, Active, Worker
<1>12. EarlyFlipIsOwn'
  BY Zenon, <1>1 DEF CycleInv, EarlyFlipIsOwn
<1>13. OwnershipHeld'
  <2>1. lane.pc # "publish"
    BY Zenon, <1>0, <1>1 DEF CycleInv, Plain, LaneShape
  <2>2. Announced({"Submitted"}) \subseteq Quarantined(events)
    BY Zenon DEF Announced, Quarantined
  <2> QED BY Zenon, <1>1, <2>1, <2>2 DEF CycleInv, OwnershipHeld
<1>14. OnlyTimeoutsFail'
  BY Zenon, <1>1 DEF CycleInv, OnlyTimeoutsFail
<1> QED
  BY Zenon, <1>2, <1>4, <1>5, <1>6, <1>7, <1>8, <1>9, <1>10, <1>11, <1>12, <1>13,
     <1>14, <1>15
  DEF CycleInv

\* Disable during recovery.
LEMMA AbortResumeKeeps == CycleInv /\ AbortResume => CycleInv'
<1> SUFFICES ASSUME CycleInv, AbortResume PROVE CycleInv' BY Zenon
<1>0. Typed /\ Plain BY Zenon, TypedPlain DEF CycleInv
<1>1. /\ cycle.phase = "seat" /\ failed = "none"
      /\ session = "Resuming" /\ session' = "Suspended"
      /\ cycle'.phase = "wait" /\ cycle'.flip = 0 /\ cycle'.timeout = 0
      /\ cycle'.reasons = {}
      /\ transport' = transport /\ head' = head /\ failed' = failed
      /\ lane' = lane /\ events' = events /\ kernel' = kernel
      /\ tokens' = tokens /\ suspends' = suspends
  BY Zenon, <1>0 DEF Typed, CycleType, AbortResume, Waiting
<1>tcycle. cycle' \in CycleType
  BY <1>0, CycleAssumption
  DEF Typed, CycleType, OptToken, Phases, AbortResume, Waiting
<1>2. Typed' BY Zenon, <1>0, <1>1, <1>tcycle DEF Typed, Sessions
<1>3. Plain' BY Zenon, <1>2, TypedPlainNext
<1>4. Control'
  BY Zenon, <1>1 DEF CycleInv, Control, Active, Away, Worker
<1>5. LaneShape'
  BY Zenon, <1>1 DEF CycleInv, LaneShape, Active, Away, Worker
<1>6. Order'
  BY Zenon, <1>1 DEF CycleInv, Order
<1>15. Refused'
  BY Zenon, <1>1 DEF CycleInv, Refused, Active
<1>7. Traffic'
  BY Zenon, <1>1 DEF CycleInv, Traffic, Active, Worker
<1>8. Room'
  BY Zenon, <1>1 DEF CycleInv, Room, Credit
<1>9. Agreement'
  BY Zenon, <1>1 DEF CycleInv, Agreement, Fits, Active, Worker
<1>10. Settled'
  BY Zenon, <1>1 DEF CycleInv, Settled, Away, Worker
<1>11. Flow'
  BY Zenon, <1>1 DEF CycleInv, Flow, Just, Nothing, Active, Worker
<1>12. EarlyFlipIsOwn'
  BY Zenon, <1>1 DEF CycleInv, EarlyFlipIsOwn
<1>13. OwnershipHeld'
  BY Zenon, <1>1 DEF CycleInv, OwnershipHeld, Announced
<1>14. OnlyTimeoutsFail'
  BY Zenon, <1>1 DEF CycleInv, OnlyTimeoutsFail
<1> QED
  BY Zenon, <1>2, <1>4, <1>5, <1>6, <1>7, <1>8, <1>9, <1>10, <1>11, <1>12, <1>13,
     <1>14, <1>15
  DEF CycleInv

\* A failed recovery.
LEMMA RecoveryFailsKeeps == CycleInv /\ RecoveryFails => CycleInv'
<1> SUFFICES ASSUME CycleInv, RecoveryFails PROVE CycleInv' BY Zenon
<1>0. Typed /\ Plain BY Zenon, TypedPlain DEF CycleInv
<1>1. /\ cycle.phase = "seat" /\ failed = "none"
      /\ session = "Resuming" \/ session = "Suspended"
      /\ session' = "Failed"
      /\ failed' = "recovery"
      /\ cycle'.phase = "wait" /\ cycle'.flip = 0 /\ cycle'.timeout = 0
      /\ cycle'.reasons = {}
      /\ transport' = transport /\ head' = head /\ lane' = lane
      /\ events' = events /\ kernel' = kernel /\ tokens' = tokens
      /\ suspends' = suspends
  BY Zenon, <1>0 DEF Typed, CycleType, RecoveryFails, Waiting
<1>tcycle. cycle' \in CycleType
  BY <1>0, CycleAssumption
  DEF Typed, CycleType, OptToken, Phases, RecoveryFails, Waiting
<1>2. Typed' BY Zenon, <1>0, <1>1, <1>tcycle DEF Typed, Sessions
<1>3. Plain' BY Zenon, <1>2, TypedPlainNext
<1>4. Control'
  BY Zenon, <1>1 DEF CycleInv, Control, Active, Away, Worker
<1>5. LaneShape'
  BY Zenon, <1>1 DEF CycleInv, LaneShape, Active, Away, Worker
<1>6. Order'
  BY Zenon, <1>1 DEF CycleInv, Order
<1>15. Refused'
  BY Zenon, <1>1 DEF CycleInv, Refused, Active
<1>7. Traffic'
  BY Zenon, <1>1 DEF CycleInv, Traffic, Active, Worker
<1>8. Room'
  BY Zenon, <1>1 DEF CycleInv, Room, Credit
<1>9. Agreement'
  BY Zenon, <1>1 DEF CycleInv, Agreement, Fits, Active, Worker
<1>10. Settled'
  BY Zenon, <1>1 DEF CycleInv, Settled, Away, Worker
<1>11. Flow'
  BY Zenon, <1>1 DEF CycleInv, Flow, Just, Nothing, Active, Worker
<1>12. EarlyFlipIsOwn'
  BY Zenon, <1>1 DEF CycleInv, EarlyFlipIsOwn
<1>13. OwnershipHeld'
  BY Zenon, <1>1 DEF CycleInv, OwnershipHeld, Announced
<1>14. OnlyTimeoutsFail'
  BY Zenon, <1>1 DEF CycleInv, OnlyTimeoutsFail
<1> QED
  BY Zenon, <1>2, <1>4, <1>5, <1>6, <1>7, <1>8, <1>9, <1>10, <1>11, <1>12, <1>13,
     <1>14, <1>15
  DEF CycleInv

\* The cycle ends without a commit.
LEMMA NothingToPresentKeeps == CycleInv /\ NothingToPresent => CycleInv'
<1> SUFFICES ASSUME CycleInv, NothingToPresent PROVE CycleInv' BY Zenon
<1>0. Typed /\ Plain BY Zenon, TypedPlain DEF CycleInv
<1>1. /\ cycle.phase = "present" /\ failed = "none"
      /\ cycle'.phase = "wait" /\ cycle'.flip = 0 /\ cycle'.timeout = 0
      /\ cycle'.reasons = {}
      /\ transport' = transport /\ head' = head /\ session' = session
      /\ failed' = failed /\ lane' = lane /\ events' = events
      /\ kernel' = kernel /\ tokens' = tokens /\ suspends' = suspends
  BY Zenon, <1>0 DEF Typed, CycleType, NothingToPresent, Waiting
<1>tcycle. cycle' \in CycleType
  BY <1>0, CycleAssumption
  DEF Typed, CycleType, OptToken, Phases, NothingToPresent, Waiting
<1>2. Typed' BY Zenon, <1>0, <1>1, <1>tcycle DEF Typed, Sessions
<1>3. Plain' BY Zenon, <1>2, TypedPlainNext
<1>4. Control'
  BY Zenon, <1>1 DEF CycleInv, Control, Active, Away, Worker
<1>5. LaneShape'
  BY Zenon, <1>1 DEF CycleInv, LaneShape, Active, Away, Worker
<1>6. Order'
  BY Zenon, <1>1 DEF CycleInv, Order
<1>15. Refused'
  BY Zenon, <1>1 DEF CycleInv, Refused, Active
<1>7. Traffic'
  BY Zenon, <1>1 DEF CycleInv, Traffic, Active, Worker
<1>8. Room'
  BY Zenon, <1>1 DEF CycleInv, Room, Credit
<1>9. Agreement'
  BY ZenonT(60), <1>0, <1>1, <1>3
  DEF CycleInv, Plain, Control, LaneShape, Traffic, Answers, Agreement, Fits,
      Active, Worker
<1>10. Settled'
  BY Zenon, <1>0, <1>1, <1>3
  DEF CycleInv, Plain, Control, Active, Away, Worker, Settled, NoCommit
<1>11. Flow'
  BY Zenon, <1>0, <1>1, <1>3
  DEF CycleInv, Plain, Control, LaneShape, Flow, Just, Nothing, Active, Worker
<1>12. EarlyFlipIsOwn'
  BY Zenon, <1>1 DEF CycleInv, EarlyFlipIsOwn
<1>13. OwnershipHeld'
  BY Zenon, <1>1 DEF CycleInv, OwnershipHeld, Announced
<1>14. OnlyTimeoutsFail'
  BY Zenon, <1>1 DEF CycleInv, OnlyTimeoutsFail
<1> QED
  BY Zenon, <1>2, <1>4, <1>5, <1>6, <1>7, <1>8, <1>9, <1>10, <1>11, <1>12, <1>13,
     <1>14, <1>15
  DEF CycleInv

(***************************************************************************)
(* Recovery                                                                *)
(***************************************************************************)
\* Recovery restarts the worker, or goes on without one, with nothing pending
\* anywhere.
LEMMA FinishKeeps ==
  ASSUME CycleInv, FinishRecovery,
         cycle.phase = "seat", failed = "none",
         session \in {"Suspended", "Resuming"},
         kernel' \in KernelType, kernel'.pending = 0,
         \A i \in DOMAIN kernel'.readable :
            /\ i <= kernel'.readable[i] /\ kernel'.readable[i] <= tokens
            /\ \A j \in DOMAIN kernel'.readable :
                  i < j => kernel'.readable[i] < kernel'.readable[j],
         UNCHANGED <<failed, events, tokens, suspends>>
  PROVE  CycleInv'
<1>0. Typed /\ Plain BY Zenon, TypedPlain DEF CycleInv
<1> DEFINE up == transport' = "Worker"
<1>u. up \in BOOLEAN BY Zenon
<1>a. /\ session' = "Active"
      /\ head' = [head EXCEPT !.ownership = {}, !.quarantine = {},
                              !.epoch = head.epoch + 1]
      /\ cycle' = [cycle EXCEPT !.phase = "drain"]
  BY Zenon, <1>0 DEF FinishRecovery, RestartTransports, Typed, HeadType
<1>b. lane' = [IdleLane EXCEPT !.alive = up, !.epoch = head.epoch + 1]
  BY Zenon DEF FinishRecovery, RestartTransports
<1> HIDE DEF up
<1>c. lane' = [alive |-> up, stopping |-> FALSE, queue |-> 0, job |-> 0,
               pc |-> "idle", inflight |-> 0, overdue |-> FALSE,
               epoch |-> head.epoch + 1]
  BY Zenon, <1>b DEF IdleLane
<1>d. /\ ~Active /\ Away /\ events = <<>> /\ cycle.flip = 0
      /\ head.arb.kernel_submitted = NoCommit
      /\ head.arb.worker_queued = NoCommit
      /\ head.arb.early_pageflip = 0
      /\ head.epoch = suspends
  BY Zenon DEF CycleInv, Control, LaneShape, Settled, Active, Away
<1>e. head.epoch + 1 \in Epochs
  BY <1>0, <1>d, CycleAssumption DEF Typed, Epochs
<1>1. /\ head'.arb = head.arb
      /\ head'.epoch = head.epoch + 1
      /\ head'.deferred = head.deferred /\ head'.timeout = head.timeout
      /\ cycle'.phase = "drain"
      /\ cycle'.flip = 0
      /\ cycle'.reasons = cycle.reasons
      /\ session' = "Active"
      /\ transport' \in {"Worker", "Synchronous"}
      /\ failed' = failed /\ events' = events
      /\ tokens' = tokens /\ suspends' = suspends
  BY Zenon, <1>0, <1>a, <1>d DEF FinishRecovery, RestartTransports, Typed, HeadType, CycleType
<1>f. /\ lane'.alive <=> Worker'
      /\ ~lane'.stopping /\ lane'.queue = 0 /\ lane'.job = 0
      /\ lane'.pc = "idle" /\ lane'.inflight = 0
      /\ lane'.epoch = head.epoch + 1
  BY Zenon, <1>c DEF up, Worker
<1>thead. head' \in HeadType
  BY Zenon, <1>0, <1>a, <1>e DEF Typed, HeadType
<1>tlane. lane' \in LaneType
  BY <1>c, <1>e, <1>u, CycleAssumption DEF LaneType, OptToken
<1>tcycle. cycle' \in CycleType
  BY Zenon, <1>0, <1>a DEF Typed, CycleType, Phases
<1>2. Typed'
  BY Zenon, <1>0, <1>1, <1>thead, <1>tlane, <1>tcycle, CycleAssumption
  DEF Typed, Sessions, OptToken
<1>3. Plain' BY Zenon, <1>2, TypedPlainNext
<1>4. Control'
  BY Zenon, <1>1, <1>d, <1>f DEF CycleInv, Control, Active, Away, Worker
<1>n. NoCommit.token = 0 BY Zenon DEF NoCommit
<1>o. \A i \in DOMAIN events : FALSE BY <1>0, <1>d DEF Plain
<1>5. LaneShape'
  BY ZenonT(60), <1>1, <1>d, <1>f, <1>o DEF LaneShape, Active, Away, Worker
<1>6. Order'
  BY <1>0, <1>1, <1>d, <1>f DEF CycleInv, Plain, LaneShape, Order
<1>15. Refused' BY Zenon, <1>1, <1>o DEF Refused
<1>7. Traffic'
  BY SMTT(60), <1>1, <1>d, <1>f DEF CycleInv, Traffic, Active, Worker
<1>8. Room'
  BY Zenon, <1>1, <1>d, <1>f DEF CycleInv, Room, Credit
<1>9. Agreement'
  <2>1. head.deferred = 0 BY Zenon DEF CycleInv, Control
  <2> QED
    BY Zenon, <1>1, <1>d, <1>f, <1>n, <1>o, <2>1 DEF Agreement, Fits
<1>10. Settled'
  BY Zenon, <1>1, <1>d, <1>n DEF Settled
<1>11. Flow'
  <2>1. head.epoch + 1 # 1 BY SMTT(60), <1>0 DEF Typed, HeadType, Epochs
  <2> QED BY Zenon, <1>1, <2>1 DEF Flow
<1>12. EarlyFlipIsOwn'
  BY Zenon, <1>1, <1>d, <1>f DEF CycleInv, EarlyFlipIsOwn
<1>13. OwnershipHeld'
  BY Zenon, <1>1, <1>d, <1>f DEF CycleInv, OwnershipHeld, Announced
<1>14. OnlyTimeoutsFail'
  BY Zenon, <1>1, <1>d, <1>f DEF CycleInv, OnlyTimeoutsFail
<1> QED
  BY Zenon, <1>2, <1>4, <1>5, <1>6, <1>7, <1>8, <1>9, <1>10, <1>11, <1>12, <1>13,
     <1>14, <1>15
  DEF CycleInv

\* What the modeset of a recovery leaves on the device file.
LEMMA Modeset ==
  ASSUME CycleInv, SeatEnable
  PROVE  /\ kernel' \in KernelType /\ kernel'.pending = 0
         /\ \A i \in DOMAIN kernel'.readable :
               /\ i <= kernel'.readable[i] /\ kernel'.readable[i] <= tokens
               /\ \A j \in DOMAIN kernel'.readable :
                     i < j => kernel'.readable[i] < kernel'.readable[j]
<1>0. Typed /\ Plain BY Zenon, TypedPlain DEF CycleInv
<1>1. /\ kernel.readable \in Seq(Tokens) /\ 0 \in OptToken
      /\ kernel.pending \in OptToken
  BY SMTT(60), <1>0, CycleAssumption DEF Typed, KernelType, OptToken
<1>2. \A i \in DOMAIN kernel.readable :
         /\ i <= kernel.readable[i] /\ kernel.readable[i] <= tokens
         /\ kernel.pending # 0 => kernel.readable[i] < kernel.pending
         /\ \A j \in DOMAIN kernel.readable :
               i < j => kernel.readable[i] < kernel.readable[j]
  BY Zenon DEF CycleInv, Order
<1>3. CASE kernel.pending = 0
  <2>1. kernel' = [pending |-> 0, readable |-> kernel.readable]
    BY Zenon, <1>3 DEF SeatEnable
  <2> QED BY Zenon, <1>1, <1>2, <2>1 DEF KernelType
<1>4. CASE kernel.pending # 0
  <2> DEFINE r == Append(kernel.readable, kernel.pending)
  <2>1. kernel' = [pending |-> 0, readable |-> r]
    BY Zenon, <1>4 DEF SeatEnable
  <2>2. kernel.pending \in Tokens
    BY <1>1, <1>4, CycleAssumption
    DEF OptToken, Tokens
  <2>3. \A i \in DOMAIN r :
           /\ i <= r[i] /\ r[i] <= kernel.pending
           /\ \A j \in DOMAIN r : i < j => r[i] < r[j]
    BY Zenon, <1>1, <1>2, <1>4, <2>2, RisingGrows
  <2>4. r \in Seq(Tokens) BY Zenon, <1>1, <2>2, Grows
  <2> HIDE DEF r
  <2>5. ASSUME NEW i \in DOMAIN r PROVE r[i] <= tokens
    <3>1. kernel.pending <= tokens BY Zenon DEF CycleInv, Order
    <3>2. tokens \in Nat /\ kernel.pending \in Nat BY Zenon, <1>0 DEF Plain
    <3>3. r[i] \in Nat
      <4>1. r[i] \in Tokens BY <2>4
      <4> QED BY <4>1 DEF Tokens
    <3>4. r[i] <= kernel.pending BY Zenon, <2>3
    <3> QED BY <3>1, <3>2, <3>3, <3>4
  <2> QED BY Zenon, <1>1, <2>1, <2>3, <2>4, <2>5 DEF KernelType
<1> QED BY Zenon, <1>3, <1>4

\* The modeset of a recovery, which finishes or waits for a fence.
LEMMA SeatEnableKeeps == CycleInv /\ SeatEnable => CycleInv'
<1> SUFFICES ASSUME CycleInv, SeatEnable PROVE CycleInv' BY Zenon
<1>k. /\ kernel' \in KernelType /\ kernel'.pending = 0
      /\ \A i \in DOMAIN kernel'.readable :
            /\ i <= kernel'.readable[i] /\ kernel'.readable[i] <= tokens
            /\ \A j \in DOMAIN kernel'.readable :
                  i < j => kernel'.readable[i] < kernel'.readable[j]
  BY Zenon, Modeset
<1>f. CASE FinishRecovery
  BY Zenon, <1>f, <1>k, FinishKeeps DEF SeatEnable
<1> SUFFICES ASSUME WaitForSuspendedFence PROVE CycleInv'
  BY Zenon, <1>f DEF SeatEnable
<1>0. Typed /\ Plain BY Zenon, TypedPlain DEF CycleInv
<1>1. /\ session = "Suspended" /\ session' = "Resuming"
      /\ cycle.phase = "seat" /\ failed = "none"
      /\ cycle'.phase = "wait" /\ cycle'.flip = 0 /\ cycle'.timeout = 0
      /\ cycle'.reasons = {}
      /\ kernel'.pending = 0
      /\ transport' = transport /\ head' = head /\ failed' = failed
      /\ lane' = lane /\ events' = events /\ tokens' = tokens
      /\ suspends' = suspends
  BY Zenon, <1>0, <1>k DEF Typed, CycleType, SeatEnable, WaitForSuspendedFence, Waiting
<1>tcycle. cycle' \in CycleType
  BY <1>0, CycleAssumption
  DEF Typed, CycleType, OptToken, Phases, WaitForSuspendedFence, Waiting
<1>2. Typed' BY Zenon, <1>0, <1>1, <1>k, <1>tcycle DEF Typed, Sessions
<1>3. Plain' BY Zenon, <1>2, TypedPlainNext
<1>4. Control'
  BY Zenon, <1>1, <1>k DEF CycleInv, Control, Active, Away, Worker
<1>5. LaneShape'
  BY Zenon, <1>1, <1>k DEF CycleInv, LaneShape, Active, Away, Worker
<1>6. Order'
  BY Zenon, <1>0, <1>1, <1>k, <1>3
  DEF CycleInv, Plain, LaneShape, Active, Away, Worker, Order
<1>15. Refused'
  BY Zenon, <1>1, <1>k DEF CycleInv, Refused, Active
<1>7. Traffic'
  BY Zenon, <1>1, <1>k DEF CycleInv, Traffic, Active, Worker
<1>8. Room'
  BY Zenon, <1>1, <1>k DEF CycleInv, Room, Credit
<1>9. Agreement'
  BY Zenon, <1>1, <1>k DEF CycleInv, Agreement, Fits, Active, Worker
<1>10. Settled'
  BY Zenon, <1>1, <1>k DEF CycleInv, Settled, Away, Worker
<1>11. Flow'
  BY Zenon, <1>1, <1>k DEF CycleInv, Flow, Just, Nothing, Active, Worker
<1>12. EarlyFlipIsOwn'
  BY Zenon, <1>1, <1>k DEF CycleInv, EarlyFlipIsOwn
<1>13. OwnershipHeld'
  BY Zenon, <1>1, <1>k DEF CycleInv, OwnershipHeld, Announced
<1>14. OnlyTimeoutsFail'
  BY Zenon, <1>1, <1>k DEF CycleInv, OnlyTimeoutsFail
<1> QED
  BY Zenon, <1>2, <1>4, <1>5, <1>6, <1>7, <1>8, <1>9, <1>10, <1>11, <1>12, <1>13,
     <1>14, <1>15
  DEF CycleInv

\* The suspended fence has signaled.
LEMMA ContinueRecoveryKeeps == CycleInv /\ ContinueRecovery => CycleInv'
<1> SUFFICES ASSUME CycleInv, ContinueRecovery PROVE CycleInv' BY Zenon
<1>1. kernel' = kernel /\ session = "Resuming" BY Zenon DEF ContinueRecovery
<1>2. kernel \in KernelType /\ kernel.pending = 0
  BY Zenon, <1>1 DEF CycleInv, Typed, LaneShape
<1>3. \A i \in DOMAIN kernel.readable :
         /\ i <= kernel.readable[i] /\ kernel.readable[i] <= tokens
         /\ \A j \in DOMAIN kernel.readable :
               i < j => kernel.readable[i] < kernel.readable[j]
  BY Zenon DEF CycleInv, Order
<1> QED BY Zenon, <1>1, <1>2, <1>3, FinishKeeps DEF ContinueRecovery

(***************************************************************************)
(* The next commit                                                         *)
(***************************************************************************)
\* A commit is reserved and queued with the worker.
LEMMA EnqueueKeeps == CycleInv /\ Enqueue => CycleInv'
<1> SUFFICES ASSUME CycleInv, Enqueue PROVE CycleInv' BY Zenon
<1>0. Typed /\ Plain BY Zenon, TypedPlain DEF CycleInv
<1>1. /\ cycle.phase = "present" /\ failed = "none"
      /\ transport = "Worker" /\ lane.queue = 0 /\ head.arb.worker_queued = NoCommit
      /\ tokens < MaxToken /\ tokens' = tokens + 1
      /\ head'.arb = ReserveWorkerQueued(head.arb, tokens + 1, head.epoch)
      /\ head'.epoch = head.epoch /\ head'.ownership = head.ownership
      /\ head'.quarantine = head.quarantine /\ head'.deferred = head.deferred
      /\ head'.timeout = head.timeout
      /\ head'.arb.kernel_submitted = head.arb.kernel_submitted
      /\ head'.arb.worker_queued = [token |-> tokens + 1, generation |-> head.epoch]
      /\ head'.arb.early_pageflip = 0
      /\ lane'.alive = lane.alive /\ lane'.stopping = lane.stopping
      /\ lane'.queue = tokens + 1
      /\ lane'.job = lane.job /\ lane'.pc = lane.pc
      /\ lane'.inflight = lane.inflight /\ lane'.overdue = lane.overdue
      /\ lane'.epoch = lane.epoch
      /\ cycle'.phase = "wait" /\ cycle'.flip = 0 /\ cycle'.timeout = 0
      /\ cycle'.reasons = {}
      /\ transport' = transport /\ session' = session /\ failed' = failed
      /\ events' = events /\ kernel' = kernel /\ suspends' = suspends
  BY Zenon, <1>0
  DEF Typed, HeadType, ArbiterType, LaneType, CycleType, Enqueue, Waiting,
      worker_slot_available, ReserveWorkerQueued
<1>thead. head' \in HeadType
  <2>1. head.arb \in ArbiterType /\ head.epoch \in Epochs
    BY Zenon, <1>0 DEF Typed, HeadType
  <2>2. /\ [token |-> tokens + 1, generation |-> head.epoch] \in Commit
        /\ 0 \in OptToken
    BY <1>0, <1>1, <2>1, CycleAssumption DEF Typed, Commit, OptToken, Epochs
  <2>3. ReserveWorkerQueued(head.arb, tokens + 1, head.epoch) \in ArbiterType
    BY Zenon, <2>1, <2>2 DEF ArbiterType, ReserveWorkerQueued
  <2>4. head' = [head EXCEPT
                   !.arb = ReserveWorkerQueued(head.arb, tokens + 1, head.epoch)]
    BY Zenon, <1>0 DEF Enqueue, Typed, HeadType
  <2> QED BY Zenon, <1>0, <2>3, <2>4 DEF Typed, HeadType
<1>tlane. lane' \in LaneType
  <2>1. tokens + 1 \in OptToken
    BY <1>0, <1>1, CycleAssumption DEF Typed, OptToken
  <2>2. lane' = [lane EXCEPT !.queue = tokens + 1] BY Zenon DEF Enqueue
  <2> QED BY Zenon, <1>0, <2>1, <2>2 DEF Typed, LaneType
<1>tcycle. cycle' \in CycleType
  BY <1>0, CycleAssumption
  DEF Typed, CycleType, OptToken, Phases, Enqueue, Waiting,
      worker_slot_available, ReserveWorkerQueued
<1>2. Typed'
  BY <1>0, <1>1, <1>thead, <1>tlane, <1>tcycle, CycleAssumption
  DEF Typed, Sessions, OptToken
<1>3. Plain' BY Zenon, <1>2, TypedPlainNext
<1>a. Worker /\ Active /\ ~Away /\ Fits(head, 0)
  BY Zenon, <1>0, <1>1
  DEF CycleInv, Typed, Sessions, Control, Agreement, Worker, Active, Away
<1>b. head.arb.worker_queued.token = 0 BY SMTT(60), <1>1 DEF NoCommit
<1>c. /\ lane.job = 0 /\ head.arb.early_pageflip = 0
      /\ \A i \in DOMAIN events : events[i].kind \notin Answers
  <2>1. /\ lane.job # 0 => head.arb.worker_queued.token = lane.job
        /\ head.arb.early_pageflip # 0 =>
              head.arb.worker_queued.token = head.arb.early_pageflip
        /\ \A i \in DOMAIN events : i > 0 /\ events[i].kind \in Answers =>
              head.arb.worker_queued.token = events[i].token
    BY Zenon, <1>a DEF Fits
  <2>2. \A i \in DOMAIN events : i > 0 BY <1>0 DEF Plain
  <2>3. \A i \in DOMAIN events :
           events[i].kind \in Answers => events[i].token # 0
    BY Zenon, <1>a DEF CycleInv, Traffic
  <2> QED BY Zenon, <1>b, <2>1, <2>2, <2>3
<1>q. head'.arb.worker_queued =
         [token |-> tokens + 1, generation |-> head.epoch]
  BY Zenon, <1>1
<1>d. /\ head'.arb.worker_queued.token = tokens + 1
      /\ head'.arb.worker_queued.generation = head.epoch
  BY SMTT(60), <1>q
<1>4. Control'
  BY SMTT(60), <1>1, <1>a, <1>c DEF CycleInv, Control, Active, Away, Worker
<1>5. LaneShape'
  BY Zenon, <1>1, <1>a, <1>c DEF CycleInv, LaneShape, Active, Away, Worker
<1>6. Order'
  <2>1. /\ kernel.pending <= tokens
        /\ \A i \in DOMAIN kernel.readable :
              /\ i <= kernel.readable[i] /\ kernel.readable[i] <= tokens
              /\ kernel.pending # 0 => kernel.readable[i] < kernel.pending
              /\ \A j \in DOMAIN kernel.readable :
                    i < j => kernel.readable[i] < kernel.readable[j]
    BY Zenon DEF CycleInv, Order
  <2>2. lane'.pc # "ioctl" BY Zenon, <1>1, <1>c DEF CycleInv, LaneShape
  <2>3. /\ kernel.pending < tokens + 1 /\ kernel.pending <= tokens + 1
        /\ tokens <= tokens + 1
    <3>1. kernel.pending \in Nat /\ tokens \in Nat BY Zenon, <1>0 DEF Plain
    <3> QED BY <2>1, <3>1
  <2>4. ASSUME NEW i \in DOMAIN kernel.readable
        PROVE  kernel.readable[i] < tokens + 1 /\ kernel.readable[i] <= tokens + 1
    <3>1. kernel.readable[i] \in Nat /\ tokens \in Nat BY Zenon, <1>0 DEF Plain
    <3>2. kernel.readable[i] <= tokens BY Zenon, <2>1
    <3> QED BY <3>1, <3>2
  <2>5. lane'.queue <= tokens' /\ lane'.job <= tokens' /\ lane'.queue # 0
    BY SMTT(60), <1>0, <1>1, <1>c DEF Plain
  <2> QED BY ZenonT(60), <1>1, <2>1, <2>2, <2>3, <2>4, <2>5 DEF Order
<1>15. Refused'
  BY Zenon, <1>1, <1>a, <1>c, <1>d DEF CycleInv, Refused, Active
<1>7. Traffic'
  BY Zenon, <1>0, <1>1, <1>a, <1>c DEF CycleInv, Plain, Traffic
<1>8. Room'
  BY Zenon, <1>0, <1>1, <1>a, <1>c, <1>3
  DEF CycleInv, Plain, Control, LaneShape, Room, Credit
<1>9. Agreement'
  <2>1. Fits(head, 0)'
    <3>1. /\ head.arb.kernel_submitted.token = 0 =>
                head.arb.kernel_submitted = NoCommit
          /\ head.arb.kernel_submitted.token # 0 =>
                /\ head.arb.kernel_submitted.generation = head.epoch
                /\ head.arb.kernel_submitted.token = lane.inflight
                /\ head.arb.kernel_submitted.token \in head.ownership
          /\ lane.inflight # 0 =>
                lane.inflight \in {head.arb.kernel_submitted.token,
                                   head.arb.worker_queued.token,
                                   head.deferred, cycle.flip}
      BY Zenon, <1>a DEF Fits
    <3>2. head.deferred = 0 /\ cycle.flip = 0
      BY Zenon, <1>1 DEF CycleInv, Control
    <3>3. lane.inflight # 0 =>
             lane.inflight = head.arb.kernel_submitted.token
      BY Zenon, <1>b, <3>1, <3>2
    <3>4. tokens + 1 # 0 BY <1>0 DEF Plain
    <3> QED
      BY Zenon, <1>1, <1>c, <1>d, <3>1, <3>2, <3>3, <3>4 DEF Fits
  <2> QED BY Zenon, <1>1, <2>1 DEF Agreement
<1>10. Settled'
  BY Zenon, <1>1, <1>a, <1>c DEF CycleInv, Settled, Away, Worker
<1>11. Flow'
  <2>1. cycle.flip = 0 BY Zenon, <1>1 DEF CycleInv, Control
  <2>2. lane.pc = "idle" BY ZenonT(60), <1>c DEF CycleInv, LaneShape
  <2> QED
    BY Zenon, <1>1, <1>c, <2>1, <2>2
    DEF CycleInv, Flow, Just, Nothing, Active, Worker
<1>12. EarlyFlipIsOwn'
  BY Zenon, <1>1, <1>a, <1>c DEF CycleInv, EarlyFlipIsOwn
<1>13. OwnershipHeld'
  BY Zenon, <1>1, <1>a, <1>c DEF CycleInv, OwnershipHeld, Announced
<1>14. OnlyTimeoutsFail'
  BY Zenon, <1>1, <1>a, <1>c DEF CycleInv, OnlyTimeoutsFail
<1> QED
  BY Zenon, <1>2, <1>4, <1>5, <1>6, <1>7, <1>8, <1>9, <1>10, <1>11, <1>12, <1>13,
     <1>14, <1>15
  DEF CycleInv

\* A synchronous commit is accepted, or refused and cancelled.
LEMMA SubmitSynchronouslyKeeps == CycleInv /\ SubmitSynchronously => CycleInv'
<1> SUFFICES ASSUME CycleInv, SubmitSynchronously PROVE CycleInv' BY Zenon
<1>0. Typed /\ Plain BY Zenon, TypedPlain DEF CycleInv
<1>1. /\ cycle.phase = "present" /\ failed = "none"
      /\ transport = "Synchronous" /\ CanReserve(head.arb)
      /\ tokens < MaxToken /\ tokens' = tokens + 1
      /\ head'.epoch = head.epoch /\ head'.ownership = head.ownership
      /\ head'.quarantine = head.quarantine /\ head'.deferred = head.deferred
      /\ head'.timeout = head.timeout
      /\ cycle'.phase = "wait" /\ cycle'.flip = 0 /\ cycle'.timeout = 0
      /\ cycle'.reasons = {}
      /\ transport' = transport /\ session' = session /\ failed' = failed
      /\ lane' = lane /\ events' = events /\ suspends' = suspends
  BY Zenon, <1>0 DEF Typed, CycleType, HeadType, SubmitSynchronously, Waiting
<1>a. /\ ~Worker /\ Active /\ ~Away
      /\ head.arb.kernel_submitted = NoCommit
      /\ head.arb.worker_queued = NoCommit
      /\ head.arb.early_pageflip = 0
      /\ tokens + 1 \in OptToken /\ tokens \in Nat
  <2>1. ~Worker /\ Active /\ ~Away
    BY Zenon, <1>0, <1>1
    DEF CycleInv, Typed, Sessions, Control, Worker, Active, Away
  <2>2. head.arb.worker_queued = NoCommit /\ head.arb.early_pageflip = 0
    BY Zenon, <2>1 DEF CycleInv, Settled
  <2>3. head.arb.kernel_submitted = NoCommit BY Zenon, <1>1 DEF CanReserve
  <2>4. tokens + 1 \in OptToken /\ tokens \in Nat
    <3>1. tokens \in Nat BY Zenon, <1>0 DEF Plain
    <3>2. tokens < MaxToken BY Zenon, <1>1
    <3> QED BY <3>1, <3>2, CycleAssumption DEF OptToken
  <2> QED BY Zenon, <2>1, <2>2, <2>3, <2>4
<1>b. head.arb \in ArbiterType /\ head.epoch \in Epochs
  BY Zenon, <1>0 DEF Typed, HeadType
<1> DEFINE mine == [token |-> tokens + 1, generation |-> head.epoch]
           reserved == Reserve(head.arb, tokens + 1, head.epoch)
<1>c. mine \in Commit /\ NoCommit \in Commit
  BY <1>a, <1>b, CycleAssumption DEF Commit, NoCommit, OptToken, Epochs
<1>d. /\ reserved \in ArbiterType
      /\ reserved.kernel_submitted = mine
      /\ reserved.worker_queued = NoCommit /\ reserved.early_pageflip = 0
  BY Zenon, <1>a, <1>b, <1>c DEF Reserve, ArbiterType
<1>e. /\ Cancel(reserved, tokens + 1) \in ArbiterType
      /\ Cancel(reserved, tokens + 1).kernel_submitted = NoCommit
      /\ Cancel(reserved, tokens + 1).worker_queued = NoCommit
      /\ Cancel(reserved, tokens + 1).early_pageflip = 0
  BY <1>c, <1>d DEF Cancel, ArbiterType
<1>f. \/ /\ kernel.pending = 0 /\ head' = [head EXCEPT !.arb = reserved]
         /\ kernel' = [kernel EXCEPT !.pending = tokens + 1]
      \/ /\ head' = [head EXCEPT !.arb = Cancel(reserved, tokens + 1)]
         /\ kernel' = kernel
  BY Zenon DEF SubmitSynchronously
<1>m. mine.token = tokens + 1 /\ mine.generation = head.epoch BY Zenon
<1> HIDE DEF mine, reserved
<1>thead. head' \in HeadType
  BY Zenon, <1>0, <1>d, <1>e, <1>f DEF Typed, HeadType
<1>tkernel. kernel' \in KernelType
  BY Zenon, <1>0, <1>a, <1>f DEF Typed, KernelType
<1>g. /\ head'.arb.worker_queued = NoCommit /\ head'.arb.early_pageflip = 0
      /\ kernel'.readable = kernel.readable
      /\ \/ /\ kernel.pending = 0 /\ kernel'.pending = tokens + 1
            /\ head'.arb.kernel_submitted = mine
         \/ /\ kernel'.pending = kernel.pending
            /\ head'.arb.kernel_submitted = NoCommit
  BY Zenon, <1>0, <1>d, <1>e, <1>f DEF Typed, HeadType, KernelType
<1>tcycle. cycle' \in CycleType
  BY <1>0, CycleAssumption
  DEF Typed, CycleType, OptToken, Phases, SubmitSynchronously, Waiting
<1>2. Typed'
  BY Zenon, <1>0, <1>1, <1>a, <1>thead, <1>tkernel, <1>tcycle DEF Typed
<1>3. Plain' BY Zenon, <1>2, TypedPlainNext
<1>4. Control'
  BY Zenon, <1>1, <1>a, <1>m, <1>g DEF CycleInv, Control, Active, Away, Worker
<1>5. LaneShape'
  BY Zenon, <1>1, <1>a, <1>m, <1>g DEF CycleInv, LaneShape, Active, Away, Worker
<1>6. Order'
  <2>1. /\ kernel.pending <= tokens
        /\ \A i \in DOMAIN kernel.readable :
              /\ i <= kernel.readable[i] /\ kernel.readable[i] <= tokens
              /\ kernel.pending # 0 => kernel.readable[i] < kernel.pending
              /\ \A j \in DOMAIN kernel.readable :
                    i < j => kernel.readable[i] < kernel.readable[j]
    BY Zenon DEF CycleInv, Order
  <2>2. lane.queue = 0 /\ lane.job = 0 /\ lane.pc # "ioctl"
    BY Zenon, <1>a DEF CycleInv, LaneShape
  <2>3. kernel'.pending <= tokens + 1 /\ 0 <= tokens + 1
    <3>1. kernel.pending \in Nat /\ tokens \in Nat BY Zenon, <1>0 DEF Plain
    <3> QED BY SMTT(60), <1>g, <2>1, <3>1
  <2>4. ASSUME NEW i \in DOMAIN kernel.readable
        PROVE  kernel.readable[i] < tokens + 1 /\ kernel.readable[i] <= tokens + 1
    <3>1. kernel.readable[i] \in Nat /\ tokens \in Nat BY Zenon, <1>0 DEF Plain
    <3>2. kernel.readable[i] <= tokens BY Zenon, <2>1
    <3> QED BY <3>1, <3>2
  <2> QED BY Zenon, <1>1, <1>g, <2>1, <2>2, <2>3, <2>4 DEF Order
<1>15. Refused'
  BY SMTT(60), <1>0, <1>1, <1>a, <1>c, <1>d, <1>f, <1>g, <1>m
  DEF CycleInv, Plain, LaneShape, Refused, Active
<1>7. Traffic'
  BY Zenon, <1>1, <1>a, <1>m, <1>g DEF CycleInv, Traffic, Active, Worker
<1>8. Room'
  BY Zenon, <1>1, <1>a, <1>m, <1>g DEF CycleInv, Room, Credit
<1>9. Agreement'
  BY Zenon, <1>1, <1>a, <1>m, <1>g DEF CycleInv, Agreement, Fits, Active, Worker
<1>10. Settled'
  BY SMTT(60), <1>1, <1>a, <1>m, <1>g DEF CycleInv, Settled, Away, Worker
<1>11. Flow'
  <2> SUFFICES ASSUME head.epoch = 1
               PROVE  IF head'.arb.kernel_submitted.token # 0
                      THEN /\ kernel'.pending = head'.arb.kernel_submitted.token
                           /\ kernel'.readable = <<>>
                      ELSE kernel'.pending = 0 /\ kernel'.readable = <<>>
    BY Zenon, <1>1, <1>a DEF Flow, Just, Nothing, Worker
  <2>1. NoCommit.token = 0 BY Zenon DEF NoCommit
  <2>2. kernel.pending = 0 /\ kernel.readable = <<>>
    BY Zenon, <1>a, <2>1 DEF CycleInv, Flow, Nothing
  <2>3. tokens + 1 # 0 BY <1>a
  <2> QED BY Zenon, <1>g, <1>m, <2>1, <2>2, <2>3
<1>12. EarlyFlipIsOwn'
  BY Zenon, <1>1, <1>a, <1>m, <1>g DEF CycleInv, EarlyFlipIsOwn
<1>13. OwnershipHeld'
  BY SMTT(60), <1>1, <1>a, <1>m, <1>g DEF CycleInv, OwnershipHeld, Announced
<1>14. OnlyTimeoutsFail'
  BY Zenon, <1>1, <1>a, <1>m, <1>g DEF CycleInv, OnlyTimeoutsFail
<1> QED
  BY Zenon, <1>2, <1>4, <1>5, <1>6, <1>7, <1>8, <1>9, <1>10, <1>11, <1>12, <1>13,
     <1>14, <1>15
  DEF CycleInv


(***************************************************************************)
(* Induction over a batch                                                  *)
(***************************************************************************)
\* The least number principle, from the well-founded order of Nat.
LEMMA LeastNumber == ASSUME NEW S \in SUBSET Nat, S # {}
  PROVE \E n \in S : \A m \in S : n <= m
<1> DEFINE R == OpToRel(<, Nat)
<1>1. IsWellFoundedOn(R, Nat) BY Zenon, NatLessThanWellFounded DEF OpToRel
<1>2. \A x, y \in Nat : x < y => <<x, y>> \in R BY Zenon DEF OpToRel
<1> HIDE DEF R
<1>3. PICK x \in S : \A y \in S : ~ (<<y, x>> \in R)
  BY Zenon, <1>1, WFMin
<1>4. \A y \in S : ~ (y < x) BY Zenon, <1>2, <1>3
<1>5. x \in Nat /\ \A y \in S : y \in Nat BY Zenon
<1>6. \A y \in S : x <= y BY <1>4, <1>5
<1> QED BY Zenon, <1>6

\* Induction over Nat, for a set.
LEMMA SetInduction ==
  ASSUME NEW S \in SUBSET Nat, 0 \in S, \A n \in S : n + 1 \in S
  PROVE S = Nat
<1> DEFINE U == Nat \ S
<1> SUFFICES ASSUME U # {} PROVE FALSE BY Zenon
<1>1. PICK n \in U : \A m \in U : n <= m
  <2> U \in SUBSET Nat BY Zenon
  <2> QED BY Zenon, LeastNumber
<1> QED BY <1>1

BatchStep(m, e) == IF m.failed # "none" THEN m ELSE HandleEvent(m.h, e)

\* The recursion of HandleBatch, event by event.
LEMMA BatchUnfolds ==
  ASSUME NEW h, NEW batch, Len(batch) \in Nat
  PROVE \E f : /\ f[0] = Go(h)
               /\ \A n \in 1 .. Len(batch) : f[n] = BatchStep(f[n - 1], batch[n])
               /\ HandleBatch(h, batch) = f[Len(batch)]
<1> DEFINE D(f, N) ==
             [n \in 0 .. N |-> IF n = 0 THEN Go(h)
                               ELSE BatchStep(f[n - 1], batch[n])]
<1> DEFINE S == {N \in Nat : \E f : f = D(f, N)}
<1>1. 0 \in S
  <2> DEFINE f == [n \in 0 .. 0 |-> Go(h)]
  <2>1. f = D(f, 0) OBVIOUS
  <2> QED BY ZenonT(60), <2>1
<1>2. ASSUME NEW N \in S PROVE N + 1 \in S
  <2>1. PICK f : f = D(f, N) BY Zenon
  <2> DEFINE g == [n \in 0 .. N + 1 |->
                     IF n = N + 1 THEN BatchStep(f[N], batch[N + 1])
                     ELSE f[n]]
  <2>2. ASSUME NEW n \in 0 .. N + 1
        PROVE g[n] = D(g, N + 1)[n]
    <3>1. CASE n = 0 BY <3>1, <2>1
    <3>2. CASE n \in 1 .. N
      <4>1. f[n] = BatchStep(f[n - 1], batch[n]) BY <2>1, <3>2
      <4>2. g[n] = f[n] /\ g[n - 1] = f[n - 1] BY <3>2
      <4> QED BY <4>1, <4>2, <3>2
    <3>3. CASE n = N + 1 BY <3>3
    <3> QED BY <3>1, <3>2, <3>3
  <2>3. g = D(g, N + 1) BY Zenon, <2>2
  <2> HIDE DEF g, D
  <2>4. \E x : x = D(x, N + 1) BY Zenon, <2>3
  <2>5. N + 1 \in Nat OBVIOUS
  <2> QED BY Zenon, <2>4, <2>5
<1>3. S = Nat BY Zenon, <1>1, <1>2, SetInduction
<1>4. \E f : f = D(f, Len(batch)) BY Zenon, <1>3
<1> DEFINE d == CHOOSE f : f = D(f, Len(batch))
<1>5. d = D(d, Len(batch)) BY Zenon, <1>4
<1>6. HandleBatch(h, batch) = d[Len(batch)]
  BY Zenon DEF HandleBatch, BatchStep
<1> HIDE DEF d
<1>7. d[0] = Go(h) BY <1>5
<1>8. \A n \in 1 .. Len(batch) : d[n] = BatchStep(d[n - 1], batch[n]) BY <1>5
<1> QED BY Zenon, <1>6, <1>7, <1>8
(***************************************************************************)
(* Worker events                                                           *)
(***************************************************************************)
\* The head after the first n undelivered events, none of which failed.
Processed(h, n) ==
    /\ h \in HeadType /\ Fits(h, n)
    /\ h.epoch = head.epoch /\ h.quarantine = head.quarantine
    /\ head.ownership \subseteq h.ownership
    /\ \A i \in DOMAIN events :
          i <= n /\ events[i].kind = "Submitted" => events[i].token \in h.ownership
    /\ \/ h.arb.early_pageflip = head.arb.early_pageflip /\ h.deferred = 0
       \/ h.arb.early_pageflip = 0 /\ h.deferred = head.arb.early_pageflip
    /\ h.deferred # 0 =>
          \A i \in DOMAIN events : i > n => events[i].kind \notin Answers

\* Typing facts of a head, for the provers' arithmetic.
LEMMA HeadPlain ==
  ASSUME NEW h \in HeadType
  PROVE  /\ h.arb \in ArbiterType /\ h.arb.kernel_submitted \in Commit
         /\ h.arb.worker_queued \in Commit
         /\ h.arb.kernel_submitted.token \in Nat
         /\ h.arb.worker_queued.token \in Nat
         /\ h.arb.early_pageflip \in OptToken /\ h.arb.early_pageflip \in Nat
         /\ h.deferred \in OptToken /\ h.deferred \in Nat
         /\ h.ownership \in SUBSET Tokens
<1>1. /\ h.arb \in ArbiterType /\ h.deferred \in OptToken
      /\ h.ownership \in SUBSET Tokens
  BY Zenon DEF HeadType
<1>2. /\ h.arb.kernel_submitted \in Commit /\ h.arb.worker_queued \in Commit
      /\ h.arb.early_pageflip \in OptToken
  BY Zenon, <1>1 DEF ArbiterType
<1>3. \A c \in Commit : c.token \in Nat BY CycleAssumption DEF Commit, OptToken
<1>4. OptToken \subseteq Nat BY SMTT(60), CycleAssumption DEF OptToken
<1> QED BY Zenon, <1>1, <1>2, <1>3, <1>4

\* An event that is not an answer leaves what is still to come as it is.
LEMMA PassedOver ==
  ASSUME Plain, NEW h, NEW n \in 1 .. Len(events),
         events[n].kind \notin Answers, Fits(h, n - 1)
  PROVE  Fits(h, n)
<1>1. \A i \in DOMAIN events : events[i].kind \in Answers => (i > n <=> i > n - 1)
  BY SMTT(60) DEF Plain
<1> QED BY Zenon, <1>1 DEF Fits

\* A timeout is only remembered.
LEMMA TimeoutProcessed ==
  ASSUME CycleInv, NEW n \in 1 .. Len(events), NEW h, Processed(h, n - 1),
         events[n].kind = "PageflipTimeout"
  PROVE  /\ HandleEvent(h, events[n]).failed = "none"
         /\ Processed(HandleEvent(h, events[n]).h, n)
<1>0. Typed /\ Plain BY Zenon, TypedPlain DEF CycleInv
<1>1. n \in DOMAIN events /\ events[n].token \in OptToken
  <2>1. n \in DOMAIN events BY Zenon, <1>0 DEF Plain
  <2>2. events[n] \in EventType BY <1>0, <2>1 DEF Typed
  <2> QED BY Zenon, <2>1, <2>2 DEF EventType
<1>2. h \in HeadType BY Zenon DEF Processed
<1> DEFINE g == HandleEvent(h, events[n]).h
<1>3. HandleEvent(h, events[n]).failed = "none" BY Zenon DEF HandleEvent, Go
<1>4. g = h \/ g = [h EXCEPT !.timeout = events[n].token]
  BY Zenon DEF HandleEvent, Go
<1> HIDE DEF g
<1>5. /\ g \in HeadType /\ g.arb = h.arb /\ g.epoch = h.epoch
      /\ g.ownership = h.ownership /\ g.quarantine = h.quarantine
      /\ g.deferred = h.deferred
  BY Zenon, <1>1, <1>2, <1>4 DEF HeadType
<1>6. Fits(h, n)
  <2>1. "PageflipTimeout" \notin Answers BY DEF Answers
  <2>2. Fits(h, n - 1) BY Zenon DEF Processed
  <2> QED BY Zenon, <1>0, <2>1, <2>2, PassedOver
<1>7. Fits(g, n) BY SMTT(60), <1>5, <1>6 DEF Fits
<1>8. \A i \in DOMAIN events : (i <= n <=> i <= n - 1 \/ i = n) /\ (i > n => i > n - 1)
  BY SMTT(60), <1>0 DEF Plain
<1>9. Processed(g, n) BY Zenon, <1>5, <1>7, <1>8 DEF Processed
<1> QED BY Zenon, <1>3, <1>9 DEF g

\* A refusal frees the slot of the queued commit.
LEMMA RejectedProcessed ==
  ASSUME CycleInv, Worker, Active, NEW n \in 1 .. Len(events), NEW h,
         Processed(h, n - 1), events[n].kind = "Rejected"
  PROVE  /\ HandleEvent(h, events[n]).failed = "none"
         /\ Processed(HandleEvent(h, events[n]).h, n)
<1>0. Typed /\ Plain BY Zenon, TypedPlain DEF CycleInv
<1>1. n \in DOMAIN events /\ n > n - 1 BY <1>0 DEF Plain
<1>2. h \in HeadType /\ Fits(h, n - 1) BY Zenon DEF Processed
<1>3. /\ lane.queue = 0 /\ lane.job = 0 /\ lane.inflight = 0
      /\ events[n].token # 0
      /\ \A j \in DOMAIN events : events[j].kind \in Answers => n = j
  BY Zenon, <1>1 DEF CycleInv, Traffic, Answers
<1>4. /\ h.arb.worker_queued.token = events[n].token
      /\ h.arb.kernel_submitted = NoCommit
      /\ h.arb.early_pageflip = 0 /\ h.deferred = 0
  BY Zenon, <1>0, <1>1, <1>2, <1>3, HeadPlain DEF Fits, Answers, CycleInv, LaneShape
<1>5. h.arb.worker_queued # NoCommit BY <1>3, <1>4 DEF NoCommit
<1> DEFINE g == HandleEvent(h, events[n]).h
<1>6. /\ HandleEvent(h, events[n]).failed = "none"
      /\ g = [h EXCEPT !.arb = RejectWorkerQueued(h.arb, events[n].token)]
  BY Zenon DEF HandleEvent, Go
<1>7. RejectWorkerQueued(h.arb, events[n].token)
        = [h.arb EXCEPT !.early_pageflip = 0, !.worker_queued = NoCommit]
  BY Zenon, <1>4, <1>5 DEF RejectWorkerQueued
<1>8. NoCommit \in Commit /\ 0 \in OptToken
  BY CycleAssumption DEF NoCommit, Commit, OptToken
<1> HIDE DEF g
<1>9. /\ g \in HeadType /\ g.epoch = h.epoch /\ g.ownership = h.ownership
      /\ g.quarantine = h.quarantine /\ g.deferred = 0
      /\ g.arb.kernel_submitted = NoCommit /\ g.arb.worker_queued = NoCommit
      /\ g.arb.early_pageflip = 0
  <2>1. h.arb \in ArbiterType BY Zenon, <1>2, HeadPlain
  <2>2. RejectWorkerQueued(h.arb, events[n].token) \in ArbiterType
    BY Zenon, <1>7, <1>8, <2>1 DEF ArbiterType
  <2>3. g.arb = [h.arb EXCEPT !.early_pageflip = 0, !.worker_queued = NoCommit]
    BY Zenon, <1>2, <1>6, <1>7 DEF HeadType
  <2>4. /\ g \in HeadType /\ g.epoch = h.epoch /\ g.ownership = h.ownership
        /\ g.quarantine = h.quarantine /\ g.deferred = h.deferred
    BY Zenon, <1>2, <1>6, <2>2 DEF HeadType
  <2> QED BY Zenon, <1>4, <2>1, <2>3, <2>4 DEF ArbiterType
<1>10. \A i \in DOMAIN events : i > n => events[i].kind \notin Answers
  BY SMTT(60), <1>0, <1>3 DEF Plain
<1>11. Fits(g, n) BY <1>3, <1>9, <1>10 DEF Fits, NoCommit
<1>12. head.arb.early_pageflip = 0 BY Zenon, <1>4 DEF Processed
<1>13. \A i \in DOMAIN events : i <= n => i <= n - 1 \/ i = n
  BY <1>0 DEF Plain
<1>14. Processed(g, n) BY Zenon, <1>9, <1>11, <1>12, <1>13 DEF Processed
<1> QED BY Zenon, <1>6, <1>14 DEF g

\* A submission moves the queued commit to the kernel slot, or settles it if
\* its pageflip came first; it is never unmatched and never a second one.
LEMMA SubmittedProcessed ==
  ASSUME CycleInv, Worker, Active, NEW n \in 1 .. Len(events), NEW h,
         Processed(h, n - 1), events[n].kind = "Submitted"
  PROVE  /\ HandleEvent(h, events[n]).failed = "none"
         /\ Processed(HandleEvent(h, events[n]).h, n)
<1>0. Typed /\ Plain BY Zenon, TypedPlain DEF CycleInv
<1>1. n \in DOMAIN events /\ n > n - 1 BY <1>0 DEF Plain
<1>2. h \in HeadType /\ Fits(h, n - 1) /\ h.epoch = head.epoch BY Zenon DEF Processed
<1>3. /\ lane.queue = 0 /\ lane.job = 0
      /\ lane.inflight = events[n].token /\ events[n].token # 0
      /\ \A j \in DOMAIN events : events[j].kind \in Answers => n = j
      /\ events[n].generation = head.epoch
  BY Zenon, <1>1 DEF CycleInv, Traffic, Answers, LaneShape
<1> DEFINE t == events[n].token
           q == h.arb.worker_queued
           early == h.arb.early_pageflip
           marked == [h.arb EXCEPT !.kernel_submitted = q,
                                   !.worker_queued = NoCommit,
                                   !.watchdog_reported = FALSE]
           settled == ReplayDeferredPageflip(marked)
           g == [h EXCEPT !.ownership = h.ownership \cup {t}, !.arb = settled,
                          !.deferred = IF early # 0 THEN early ELSE h.deferred]
<1>4. /\ q.token = t /\ q # NoCommit /\ q.generation = h.epoch
      /\ h.arb.kernel_submitted = NoCommit
      /\ h.deferred = 0
      /\ early # 0 => early = t /\ kernel.pending # early
  <2>1. q.token = t /\ h.arb.kernel_submitted.token = 0
    BY Zenon, <1>1, <1>2 DEF Fits, Answers
  <2>2. h.deferred = 0 BY Zenon, <1>1 DEF Processed, Answers
  <2>3. q # NoCommit BY <1>3, <2>1 DEF NoCommit
  <2> QED BY Zenon, <1>2, <1>3, <2>1, <2>2, <2>3 DEF Fits
<1>5. t \in Tokens /\ t \in OptToken
  <2>1. events[n] \in EventType BY SMTT(60), <1>0, <1>1 DEF Typed
  <2> QED BY <1>3, <2>1 DEF EventType, OptToken, Tokens
<1>6. /\ q \in Commit /\ h.arb \in ArbiterType
      /\ NoCommit \in Commit /\ 0 \in OptToken
  BY <1>2, HeadPlain, CycleAssumption DEF NoCommit, Commit, OptToken
<1>7. /\ marked \in ArbiterType /\ marked.kernel_submitted = q
      /\ marked.worker_queued = NoCommit /\ marked.early_pageflip = early
  BY Zenon, <1>6 DEF ArbiterType
<1>8. /\ HandleEvent(h, events[n]).failed = "none"
      /\ HandleEvent(h, events[n]).h = g
  <2>1. MarkKernelSubmitted(h.arb, t) = [ok |-> TRUE, arb |-> marked]
    BY Zenon, <1>4 DEF MarkKernelSubmitted
  <2>2. HandleEvent(h, events[n]) = HandleSubmitted(h, events[n])
    BY Zenon DEF HandleEvent
  <2>3. HandleSubmitted(h, events[n])
          = Go([RetainOwnership(h, t) EXCEPT
                  !.arb = settled,
                  !.deferred = IF early # 0 THEN early ELSE @])
    <3>1. /\ MarkKernelSubmitted(h.arb, t).ok
          /\ MarkKernelSubmitted(h.arb, t).arb = marked
      BY <2>1
    <3>2. marked.early_pageflip = early BY Zenon, <1>7
    <3>3. ReplayDeferredPageflip(marked) = settled BY Zenon
    <3>4. events[n].generation = h.epoch /\ h.arb.worker_queued.token = events[n].token
      BY Zenon, <1>2, <1>3, <1>4
    <3> HIDE DEF marked, settled
    <3> QED BY Zenon, <3>1, <3>2, <3>3, <3>4 DEF HandleSubmitted
  <2>4. [RetainOwnership(h, t) EXCEPT
           !.arb = settled, !.deferred = IF early # 0 THEN early ELSE @] = g
    BY Zenon, <1>2 DEF RetainOwnership, HeadType
  <2> QED BY <2>2, <2>3, <2>4 DEF Go
<1>9. settled = IF early # 0
                THEN [marked EXCEPT !.kernel_submitted = NoCommit,
                                    !.early_pageflip = 0]
                ELSE marked
  BY Zenon, <1>4, <1>7 DEF ReplayDeferredPageflip
<1> HIDE DEF marked, settled
<1>10. /\ settled \in ArbiterType
       /\ settled.worker_queued = NoCommit /\ settled.early_pageflip = 0
       /\ settled.kernel_submitted = IF early # 0 THEN NoCommit ELSE q
  BY Zenon, <1>6, <1>7, <1>9 DEF ArbiterType
<1>11. /\ g \in HeadType /\ g.arb = settled /\ g.epoch = h.epoch
       /\ g.ownership = h.ownership \cup {t} /\ g.quarantine = h.quarantine
       /\ g.deferred = early
  <2>1. early \in OptToken BY Zenon, <1>2, HeadPlain
  <2>2. h.ownership \cup {t} \in SUBSET Tokens BY Zenon, <1>2, <1>5, HeadPlain
  <2> QED BY Zenon, <1>2, <1>4, <1>10, <2>1, <2>2 DEF HeadType
<1> HIDE DEF g
<1>12. \A i \in DOMAIN events : i > n => events[i].kind \notin Answers
  <2>1. ~(n > n) OBVIOUS
  <2> QED BY Zenon, <1>3, <2>1
<1>13. Fits(g, n)
  <2>1. NoCommit.token = 0 BY DEF NoCommit
  <2>2. g.arb.worker_queued = NoCommit /\ g.arb.early_pageflip = 0 BY Zenon, <1>10, <1>11
  <2>3. CASE early # 0
    <3>1. g.arb.kernel_submitted = NoCommit /\ g.deferred = t /\ t \in g.ownership /\ kernel.pending # t
      BY Zenon, <1>4, <1>10, <1>11, <2>3
    <3> HIDE DEF t
    <3> QED BY Zenon, <1>3, <1>12, <2>1, <2>2, <3>1 DEF Fits, t
  <2>4. CASE early = 0
    <3>1. g.arb.kernel_submitted = q /\ g.deferred = 0 BY Zenon, <1>10, <1>11, <2>4
    <3>2. q.token = t /\ q.generation = g.epoch /\ t # 0 /\ t \in g.ownership BY Zenon, <1>3, <1>4, <1>11
    <3> QED BY Zenon, <1>3, <1>12, <2>1, <2>2, <3>1, <3>2 DEF Fits
  <2> QED BY Zenon, <2>3, <2>4
<1>14. \A i \in DOMAIN events : i <= n => i <= n - 1 \/ i = n
  BY <1>0 DEF Plain
<1>15. early = head.arb.early_pageflip BY Zenon, <1>4 DEF Processed
<1>16. Processed(g, n)
  BY Zenon, <1>10, <1>11, <1>12, <1>13, <1>14, <1>15 DEF Processed
<1> QED BY Zenon, <1>8, <1>16

\* The whole batch succeeds and leaves a head that agrees with the worker.
LEMMA BatchProcessed ==
  ASSUME CycleInv, Worker, Active
  PROVE  /\ HandleBatch(head, events).failed = "none"
         /\ Processed(HandleBatch(head, events).h, Len(events))
<1>0. Typed /\ Plain BY Zenon, TypedPlain DEF CycleInv
<1>1. Len(events) \in Nat BY Zenon, <1>0 DEF Plain
<1>2. PICK f : /\ f[0] = Go(head)
               /\ \A n \in 1 .. Len(events) : f[n] = BatchStep(f[n - 1], events[n])
               /\ HandleBatch(head, events) = f[Len(events)]
  BY Zenon, <1>1, BatchUnfolds
<1> DEFINE S == {n \in Nat : n <= Len(events) =>
                    f[n].failed = "none" /\ Processed(f[n].h, n)}
<1>3. 0 \in S
  <2>1. f[0].failed = "none" /\ f[0].h = head BY SMTT(60), <1>2 DEF Go
  <2>2. Processed(head, 0)
    BY SMTT(60), <1>0 DEF CycleInv, Typed, Plain, Control, Agreement, Processed
  <2> QED BY Zenon, <2>1, <2>2
<1>4. ASSUME NEW n \in S PROVE n + 1 \in S
  <2> SUFFICES ASSUME n + 1 <= Len(events)
               PROVE  f[n + 1].failed = "none" /\ Processed(f[n + 1].h, n + 1)
    OBVIOUS
  <2>1. f[n].failed = "none" /\ Processed(f[n].h, n) BY <1>1
  <2>2. n + 1 \in 1 .. Len(events) /\ (n + 1) - 1 = n BY <1>1
  <2>3. f[n + 1] = HandleEvent(f[n].h, events[n + 1])
    BY Zenon, <1>2, <2>1, <2>2 DEF BatchStep
  <2> DEFINE m == n + 1
  <2>4. m \in 1 .. Len(events) /\ Processed(f[n].h, m - 1) BY Zenon, <2>1, <2>2
  <2> HIDE DEF m
  <2>5. events[m].kind \in {"Submitted", "Rejected", "PageflipTimeout"}
    <3>1. m \in DOMAIN events BY Zenon, <1>0, <2>4 DEF Plain
    <3>2. events[m] \in EventType BY <1>0, <3>1 DEF Typed
    <3>3. events[m].kind # "Quiesced" BY Zenon, <3>1 DEF CycleInv, LaneShape
    <3> QED BY Zenon, <3>2, <3>3 DEF EventType
  <2>6. /\ HandleEvent(f[n].h, events[m]).failed = "none"
        /\ Processed(HandleEvent(f[n].h, events[m]).h, m)
    BY Zenon, <2>4, <2>5, SubmittedProcessed, RejectedProcessed, TimeoutProcessed
  <2> QED BY Zenon, <2>3, <2>6 DEF m
<1>5. S = Nat
  <2> HIDE DEF S
  <2>1. S \in SUBSET Nat BY Zenon DEF S
  <2> QED BY Zenon, <1>3, <1>4, <2>1, SetInduction
<1> QED BY <1>1, <1>2, <1>5

\* The batch, then the pageflip it set free.
LEMMA ProcessEventsKeeps == CycleInv /\ ProcessEvents => CycleInv'
<1> SUFFICES ASSUME CycleInv, ProcessEvents PROVE CycleInv' BY Zenon
<1>0. Typed /\ Plain BY Zenon, TypedPlain DEF CycleInv
<1>1. /\ cycle.phase = "events" /\ failed = "none" /\ cycle.flip = 0
      /\ session # "Suspending"
      /\ head.deferred = 0 /\ head.timeout = 0
      /\ transport' = transport /\ session' = session /\ lane' = lane
      /\ kernel' = kernel /\ tokens' = tokens /\ suspends' = suspends
  BY Zenon DEF ProcessEvents, CycleInv, Control
<1> DEFINE run == lane.alive /\ cycle.reasons \cap {"worker", "drm"} # {}
           done == IF run THEN HandleBatch(head, events) ELSE Go(head)
<1>2. run => Worker /\ Active
  BY Zenon, <1>0, <1>1 DEF CycleInv, Typed, Sessions, LaneShape, Active, Away
<1>3. run => /\ done = HandleBatch(head, events)
             /\ done.failed = "none" /\ Processed(done.h, Len(events))
  BY Zenon, <1>2, BatchProcessed
<1>4. ~run => done = Go(head) BY Zenon
<1>5. /\ done.failed = "none" /\ done.h \in HeadType
      /\ done.h.epoch = head.epoch /\ done.h.quarantine = head.quarantine
      /\ head.ownership \subseteq done.h.ownership
  <2>1. CASE run BY Zenon, <1>3, <2>1 DEF Processed
  <2>2. CASE ~run BY Zenon, <1>0, <1>4, <2>2 DEF Go, Typed
  <2> QED BY Zenon, <2>1, <2>2
<1>6. /\ events' = IF run THEN <<>> ELSE events
      /\ failed' = "none"
      /\ head' = [done.h EXCEPT !.deferred = 0, !.timeout = 0]
      /\ cycle' = [cycle EXCEPT !.phase = "seat", !.flip = done.h.deferred,
                                !.timeout = done.h.timeout]
  BY Zenon, <1>5 DEF ProcessEvents
<1> DEFINE h == done.h
<1> HIDE DEF run, done
<1>7. /\ head'.arb = h.arb /\ head'.epoch = head.epoch
      /\ head'.ownership = h.ownership /\ head'.quarantine = head.quarantine
      /\ head'.deferred = 0 /\ head'.timeout = 0
      /\ cycle'.phase = "seat" /\ cycle'.flip = h.deferred
      /\ cycle'.reasons = cycle.reasons
  BY Zenon, <1>0, <1>5, <1>6 DEF Typed, HeadType, CycleType
<1>8. ~run => h = head /\ head'.arb = head.arb /\ cycle'.flip = 0
              /\ head'.ownership = head.ownership /\ events' = events
  BY <1>1, <1>4, <1>6, <1>7 DEF Go
<1>9. run => /\ Fits(h, Len(events)) /\ events' = <<>>
             /\ Worker /\ Active
             /\ \A i \in DOMAIN events :
                   events[i].kind = "Submitted" => events[i].token \in h.ownership
             /\ \/ h.arb.early_pageflip = head.arb.early_pageflip /\ h.deferred = 0
                \/ h.arb.early_pageflip = 0 /\ h.deferred = head.arb.early_pageflip
  BY <1>0, <1>2, <1>3, <1>6 DEF Processed, Plain
<1>thead. head' \in HeadType
  <2>1. h \in HeadType /\ 0 \in OptToken BY <1>5, CycleAssumption DEF OptToken
  <2>2. head' = [h EXCEPT !.deferred = 0, !.timeout = 0] BY Zenon, <1>6
  <2> HIDE DEF h
  <2> QED BY Zenon, <2>1, <2>2 DEF HeadType
<1>tcycle. cycle' \in CycleType
  <2>1. h.deferred \in OptToken /\ h.timeout \in OptToken BY Zenon, <1>5 DEF HeadType
  <2> HIDE DEF h
  <2>2. cycle' = [cycle EXCEPT !.phase = "seat", !.flip = h.deferred,
                               !.timeout = h.timeout]
    BY Zenon, <1>6 DEF h
  <2> QED BY Zenon, <1>0, <2>1, <2>2 DEF Typed, CycleType, Phases
<1>tevents. events' \in Seq(EventType)
  BY <1>0, <1>6 DEF Typed
<1> HIDE DEF h
<1>12. Typed' BY Zenon, <1>0, <1>1, <1>thead, <1>tcycle, <1>tevents DEF Typed
<1>13. Plain' BY Zenon, <1>12, TypedPlainNext
<1>14. Control'
  <2>1. h.deferred # 0 => ~Away /\ Worker
    BY Zenon, <1>1, <1>7, <1>8, <1>9
    DEF Active, Away
  <2> QED BY Zenon, <1>1, <1>7, <2>1 DEF CycleInv, Control, Active, Away, Worker
<1>15. LaneShape'
  BY <1>1, <1>6, <1>7 DEF CycleInv, LaneShape, Active, Away, Worker
<1>16. Order' BY Zenon, <1>1 DEF CycleInv, Order
<1>25. Refused'
  BY <1>1, <1>6 DEF CycleInv, Refused, Active
<1>17. Traffic'
  <2>1. CASE run
    <3>1. events' = <<>> /\ Len(events') = 0 /\ DOMAIN events' = {}
      BY <1>9, <1>13, <2>1 DEF Plain
    <3> QED BY <1>1, <3>1 DEF Traffic
  <2>2. CASE ~run
    BY <1>1, <1>8, <2>2 DEF CycleInv, Traffic, Worker, Active
  <2> QED BY Zenon, <2>1, <2>2
<1>18. Room'
  <2>1. Credit \in 0 .. 2 /\ Credit' = Credit BY <1>1 DEF Credit
  <2>2. CASE run
    <3>1. Len(events') = 0 BY Zenon, <1>9, <1>13, <2>2 DEF Plain
    <3> QED BY <2>1, <3>1 DEF Room
  <2>3. CASE ~run /\ lane.alive
    <3>1. cycle.reasons \cap {"worker", "drm"} = {} BY Zenon, <2>3 DEF run
    <3> QED BY Zenon, <1>1, <1>8, <2>1, <2>3, <3>1 DEF CycleInv, Room
  <2>4. CASE ~run /\ ~lane.alive
    <3>1. events = <<>> /\ Credit = 0
      BY Zenon, <1>0, <1>1, <2>4
      DEF CycleInv, Typed, Sessions, LaneShape, Active, Away, Worker, Credit
    <3>2. Len(events') = 0 BY Zenon, <1>0, <1>8, <2>4, <3>1 DEF Plain
    <3> QED BY <2>1, <3>1, <3>2 DEF Room
  <2> QED BY Zenon, <2>2, <2>3, <2>4
<1>19. Agreement'
  <2>1. CASE run
    <3>0. \A i \in DOMAIN events : ~(i > Len(events)) BY <1>0 DEF Plain
    <3>1. events' = <<>> /\ DOMAIN events' = {} BY <1>9, <2>1
    <3>2. Fits(h, Len(events)) BY ZenonT(60), <1>9, <2>1
    <3>3. Fits(head, 0)'
      <4> DEFINE q == h.arb.worker_queued
                 k == h.arb.kernel_submitted
                 e == h.arb.early_pageflip
      <4>1. /\ q.token = 0 => q = NoCommit
            /\ k.token = 0 => k = NoCommit
            /\ q.token # 0 => /\ q.generation = h.epoch
                              /\ lane.queue = q.token \/ lane.job = q.token
            /\ k.token # 0 => /\ k.generation = h.epoch /\ k.token = lane.inflight
                              /\ k.token \in h.ownership
            /\ lane.queue # 0 => q.token = lane.queue
            /\ lane.job # 0 => q.token = lane.job
        BY Zenon, <3>0, <3>2 DEF Fits
      <4>2. /\ lane.inflight # 0 => lane.inflight \in {k.token, q.token, h.deferred, cycle.flip}
            /\ e # 0 => /\ q.token = e /\ k.token = 0 /\ kernel.pending # e
                        /\ \/ lane.inflight = e
                           \/ lane.pc = "publish" /\ lane.job = e
        BY Zenon, <3>2 DEF Fits
      <4>3. h.epoch = head.epoch BY Zenon, <1>5 DEF h
      <4>4. /\ head'.arb.worker_queued = q /\ head'.arb.kernel_submitted = k
            /\ head'.arb.early_pageflip = e
        BY Zenon, <1>7
      <4> HIDE DEF q, k, e
      <4>5. lane'.inflight # 0 => lane'.inflight \in {k.token, q.token, head'.deferred, cycle'.flip}
        BY Zenon, <1>1, <1>7, <4>2
      <4>6. e # 0 => /\ q.token = e /\ k.token = 0 /\ kernel'.pending # e
                     /\ \/ lane'.inflight = e
                        \/ lane'.pc = "publish" /\ lane'.job = e
        BY Zenon, <1>1, <4>2
      <4>7. /\ q.token = 0 => q = NoCommit
            /\ k.token = 0 => k = NoCommit
            /\ q.token # 0 => /\ q.generation = head'.epoch
                              /\ lane'.queue = q.token \/ lane'.job = q.token
            /\ k.token # 0 => /\ k.generation = head'.epoch /\ k.token = lane'.inflight
                              /\ k.token \in head'.ownership
            /\ lane'.queue # 0 => q.token = lane'.queue
            /\ lane'.job # 0 => q.token = lane'.job
        BY Zenon, <1>1, <1>7, <4>1, <4>3
      <4>8. \A i \in DOMAIN events' : i > 0 /\ events'[i].kind \in Answers =>
               /\ q.token = events'[i].token
               /\ events'[i].kind = "Submitted" => k.token = 0
        BY Zenon, <3>1
      <4> QED BY Zenon, <1>7, <4>4, <4>5, <4>6, <4>7, <4>8 DEF Fits
    <3>4. h.deferred # 0 =>
            /\ lane.inflight = h.deferred /\ h.deferred \in h.ownership
            /\ h.arb.kernel_submitted.token = 0 /\ h.deferred # kernel.pending
            /\ h.arb.early_pageflip = 0
      BY Zenon, <1>9, <2>1, <3>2 DEF Fits
    <3> QED BY Zenon, <1>1, <1>7, <3>1, <3>3, <3>4 DEF Agreement
  <2>2. CASE ~run
    <3>1. Worker /\ Active => Fits(head, 0)'
      <4> SUFFICES ASSUME Worker, Active PROVE Fits(head, 0)' BY Zenon
      <4> DEFINE q == head.arb.worker_queued
                 k == head.arb.kernel_submitted
                 e == head.arb.early_pageflip
      <4>1. Fits(head, 0) BY Zenon DEF CycleInv, Agreement
      <4>2. /\ head'.arb.worker_queued = q /\ head'.arb.kernel_submitted = k
            /\ head'.arb.early_pageflip = e /\ head'.epoch = head.epoch
            /\ head'.ownership = head.ownership /\ head'.deferred = head.deferred
            /\ cycle'.flip = cycle.flip /\ events' = events
        BY Zenon, <1>1, <1>7, <1>8, <2>2
      <4> QED BY Zenon, <1>1, <4>1, <4>2 DEF Fits
    <3> QED BY ZenonT(60), <1>1, <1>8, <2>2, <3>1 DEF Agreement, Worker, Active
  <2> QED BY Zenon, <2>1, <2>2
<1>20. Settled'
  BY Zenon, <1>1, <1>7, <1>8, <1>9 DEF CycleInv, Settled, Active, Away, Worker
<1>21. Flow'
  <2>1. CASE run
    <3>1. /\ Worker' /\ Active' /\ Worker /\ Active
          /\ {head'.arb.early_pageflip, cycle'.flip} \ {0}
                = {head.arb.early_pageflip, cycle.flip} \ {0}
      BY <1>1, <1>7, <1>9, <2>1 DEF Worker, Active
    <3>2. (\A t : Just(t)' = Just(t)) /\ Nothing' = Nothing
      BY Zenon, <1>1 DEF Just, Nothing
    <3>3. lane.pc = "publish" =>
            head'.arb.early_pageflip = head.arb.early_pageflip
      BY <1>7, <1>9, <2>1 DEF Fits, CycleInv, LaneShape
    <3>4. /\ lane'.inflight = lane.inflight /\ lane'.pc = lane.pc
          /\ lane'.job = lane.job /\ head'.epoch = head.epoch
      BY Zenon, <1>1, <1>7
    <3> QED BY <3>1, <3>2, <3>3, <3>4 DEF CycleInv, Flow
  <2>2. CASE ~run
    BY Zenon, <1>1, <1>7, <1>8, <2>2 DEF CycleInv, Flow, Just, Nothing, Active, Worker
  <2> QED BY Zenon, <2>1, <2>2
<1>22. EarlyFlipIsOwn'
  BY Zenon, <1>7, <1>8, <1>9 DEF CycleInv, EarlyFlipIsOwn, Fits
<1>23. OwnershipHeld'
  BY Zenon, <1>1, <1>5, <1>6, <1>7, <1>8, <1>9
  DEF CycleInv, OwnershipHeld, Announced, h
<1>24. OnlyTimeoutsFail' BY Zenon, <1>6 DEF OnlyTimeoutsFail
<1> QED
  BY SMTT(60), <1>12, <1>14, <1>15, <1>16, <1>17, <1>18, <1>19, <1>20, <1>21, <1>22,
     <1>23, <1>24, <1>25
  DEF CycleInv

(***************************************************************************)
(* Drain and acknowledgment                                                *)
(***************************************************************************)
\* What the drain may find.  "done" is the completion the cycle works with.
Finished(done) ==
    /\ done.token # 0 /\ done.token # kernel.pending /\ ~done.timeout
    /\ done.arb.kernel_submitted = NoCommit
    /\ done.arb.worker_queued = head.arb.worker_queued
    /\ done.arb.early_pageflip = head.arb.early_pageflip
    /\ Worker => /\ lane.inflight = done.token /\ done.token \in head.ownership
                 /\ head.arb.early_pageflip = 0
                 /\ \A i \in DOMAIN events : events[i].kind # "Submitted"
    /\ head.epoch = 1 => kernel.pending = 0 /\ Drained = <<>>

Overtaken(done) ==
    LET e == done.arb.early_pageflip
    IN /\ done.token = 0 /\ cycle.flip = 0 /\ Worker /\ ~done.timeout
       /\ head.arb.kernel_submitted = NoCommit
       /\ done.arb.kernel_submitted = NoCommit
       /\ done.arb.worker_queued = head.arb.worker_queued
       /\ e # 0 /\ head.arb.worker_queued.token = e /\ kernel.pending # e
       /\ lane.inflight = e \/ (lane.pc = "publish" /\ lane.job = e)
       /\ head.epoch = 1 => kernel.pending = 0 /\ Drained = <<>>

Nought(done) ==
    /\ done.token = 0 /\ cycle.flip = 0
    /\ done.arb.kernel_submitted = head.arb.kernel_submitted
    /\ done.arb.worker_queued = head.arb.worker_queued
    /\ done.arb.early_pageflip = head.arb.early_pageflip
    /\ Worker => ~done.timeout
    /\ head.epoch = 1 => Drained = kernel.readable

\* The first readable pageflip, when the drain finds one.
LEMMA FirstFlip ==
  ASSUME CycleInv, FirstDrained # 0
  PROVE  /\ 1 \in DOMAIN kernel.readable /\ FirstDrained = kernel.readable[1]
         /\ FirstDrained \in Tokens /\ FirstDrained # kernel.pending
         /\ kernel.readable # <<>> /\ Drained = <<>>
<1>0. Typed /\ Plain BY Zenon, TypedPlain DEF CycleInv
<1>1. kernel.readable # <<>> /\ FirstDrained = Head(kernel.readable)
      /\ Drained = <<>>
  BY Zenon DEF FirstDrained, Drained
<1>2. kernel.readable \in Seq(Tokens) BY Zenon, <1>0 DEF Typed, KernelType
<1>3. /\ 1 \in DOMAIN kernel.readable
      /\ Head(kernel.readable) = kernel.readable[1]
      /\ kernel.readable[1] \in Tokens
  BY <1>1, <1>2
<1>4. kernel.readable[1] # kernel.pending
  <2>1. CASE kernel.pending # 0
    <3>1. kernel.readable[1] < kernel.pending
      BY Zenon, <1>3, <2>1 DEF CycleInv, Order
    <3>2. kernel.readable[1] \in Nat /\ kernel.pending \in Nat
      BY Zenon, <1>0, <1>3 DEF Plain
    <3> QED BY <3>1, <3>2
  <2>2. CASE kernel.pending = 0 BY <1>3, <2>2 DEF Tokens
  <2> QED BY Zenon, <2>1, <2>2
<1> QED BY Zenon, <1>1, <1>3, <1>4

\* Nothing drained is lost: an empty device file stays as it is.
LEMMA NoFlip ==
  ASSUME CycleInv, FirstDrained = 0
  PROVE  Drained = kernel.readable
<1>1. kernel.readable \in Seq(Tokens) BY Zenon DEF CycleInv, Typed, KernelType
<1>2. kernel.readable # <<>> => Head(kernel.readable) \in Tokens BY <1>1
<1> QED BY <1>2 DEF FirstDrained, Drained, Tokens

\* Only the worker's own commits can be stored as early.
LEMMA EarlyOwner ==
  ASSUME CycleInv, Worker, Active, FirstDrained # 0,
         head.arb.worker_queued.token = FirstDrained
  PROVE  lane.inflight = FirstDrained
           \/ (lane.pc = "publish" /\ lane.job = FirstDrained)
<1> DEFINE F == FirstDrained
<1>0. Typed /\ Plain BY Zenon, TypedPlain DEF CycleInv
<1>1. 1 \in DOMAIN kernel.readable /\ F = kernel.readable[1] /\ F \in Nat
  BY Zenon, <1>0, FirstFlip DEF Plain
<1> HIDE DEF F
<1>2. Fits(head, 0) /\ head.arb.worker_queued.token = F
  BY Zenon DEF CycleInv, Agreement, F
<1>3. lane.queue # F
  <2>1. lane.queue # 0 => F < lane.queue BY Zenon, <1>1 DEF CycleInv, Order
  <2> QED BY <1>0, <1>1, <2>1, FirstFlip DEF Plain, F
<1>4. lane.job = F => lane.pc = "publish"
  <2>1. lane.pc = "ioctl" => F < lane.job BY Zenon, <1>1 DEF CycleInv, Order
  <2>2. lane.pc = "idle" => lane.job = 0 BY Zenon DEF CycleInv, LaneShape
  <2> QED BY <1>0, <1>1, <2>1, <2>2, FirstFlip DEF Plain, F
<1>5. ASSUME NEW i \in DOMAIN events, events[i].kind \in Answers
      PROVE  lane.inflight = F
  <2>1. events[i].token = F BY <1>0, <1>2, <1>5 DEF Fits, Plain
  <2>2. events[i].kind # "Rejected"
    <3>1. events[i].kind = "Rejected" => F < events[i].token
      BY Zenon, <1>1 DEF CycleInv, Refused
    <3> QED BY <1>1, <2>1, <3>1
  <2> QED BY Zenon, <1>5, <2>1, <2>2 DEF CycleInv, Traffic, Answers
<1>6. \/ lane.queue = F \/ lane.job = F
      \/ \E i \in DOMAIN events : events[i].kind \in Answers
  BY Zenon, <1>2, FirstFlip DEF Fits, F
<1> QED BY Zenon, <1>3, <1>4, <1>5, <1>6 DEF F

\* validate_atomic_pageflip when the worker watches for timeouts; c is the
\* answer of complete_pageflip.
WorkerVerdict(v, c, a, token) ==
    /\ ~v.timeout
    /\ token = 0 => v.arb = a /\ v.token = 0
    /\ token # 0 => /\ v.arb = c.arb
                    /\ v.token = IF c.answer = "Completed" THEN token ELSE 0

\* The verdict when the worker watches for timeouts.
LEMMA ValidatedForWorker ==
  ASSUME NEW a, NEW token, NEW generation, NEW mine \in BOOLEAN, mine,
         NEW overdue \in BOOLEAN
  PROVE  WorkerVerdict(ValidateAtomicPageflip(a, token, generation, mine, overdue),
                       CompletePageflip(a, token, generation), a, token)
<1>1. CASE token = 0 BY Zenon, <1>1 DEF ValidateAtomicPageflip, WorkerVerdict
<1>2. CASE token # 0 BY Zenon, <1>2 DEF ValidateAtomicPageflip, WorkerVerdict
<1> QED BY Zenon, <1>1, <1>2

\* The same when the main thread watches for timeouts itself.
Examined(a, token, generation) ==
    IF token = 0 THEN [arb |-> a, answer |-> "None"]
                 ELSE CompletePageflip(a, token, generation)
MainVerdict(v, c, token) ==
    \/ /\ c.answer = "Completed"
       /\ v = [arb |-> c.arb, token |-> token, timeout |-> FALSE]
    \/ /\ c.answer # "Completed" /\ v.token = 0
       /\ v.arb = c.arb \/ v.arb = WatchdogExpired(c.arb).arb

\* validate_atomic_pageflip on the main thread completes the flip or, at most, lets the watchdog
\* expire.
LEMMA ValidatedForMain ==
  ASSUME NEW a, NEW token, NEW generation, NEW mine \in BOOLEAN, ~mine,
         NEW overdue \in BOOLEAN
  PROVE  MainVerdict(ValidateAtomicPageflip(a, token, generation, mine, overdue),
                     Examined(a, token, generation), token)
<1> DEFINE c == IF token = 0 THEN [arb |-> a, answer |-> "None"]
                             ELSE CompletePageflip(a, token, generation)
           dog == IF overdue THEN WatchdogExpired(c.arb)
                             ELSE [arb |-> c.arb, answer |-> FALSE]
<1>1. CASE c.answer = "Completed"
  <2>1. token # 0 BY Zenon, <1>1
  <2>2. ValidateAtomicPageflip(a, token, generation, mine, overdue)
          = [arb |-> c.arb, token |-> token, timeout |-> FALSE]
    BY Zenon, <1>1, <2>1 DEF ValidateAtomicPageflip
  <2> QED BY Zenon, <1>1, <2>2 DEF MainVerdict, Examined
<1>2. CASE c.answer # "Completed"
  <2>1. ValidateAtomicPageflip(a, token, generation, mine, overdue)
          = [arb |-> dog.arb, token |-> 0, timeout |-> dog.answer]
    BY Zenon, <1>2 DEF ValidateAtomicPageflip
  <2> QED BY <1>2, <2>1 DEF MainVerdict, Examined
<1> QED BY Zenon, <1>1, <1>2

\* With a worker: the deferred pageflip, the drained one of the kernel slot,
\* the drained one of the queued commit, or nothing.
LEMMA WorkerOutcome ==
  ASSUME CycleInv, cycle.phase = "drain", failed = "none", Worker,
         NEW overdue \in BOOLEAN
  PROVE  LET done == Completion(overdue)
         IN /\ done.arb \in ArbiterType /\ done.token \in OptToken
            /\ Finished(done) \/ Overtaken(done) \/ Nought(done)
<1>0. Typed /\ Plain BY Zenon, TypedPlain DEF CycleInv
<1>1. Active /\ Fits(head, 0) /\ head.deferred = 0
  BY Zenon, <1>0 DEF CycleInv, Typed, Sessions, Control, Agreement, Active, Away
<1>2. head.arb \in ArbiterType /\ cycle.flip \in OptToken
  BY Zenon, <1>0 DEF Typed, HeadType, CycleType
<1>3. NoCommit \in Commit /\ 0 \in OptToken
  BY CycleAssumption DEF NoCommit, Commit, OptToken
<1> DEFINE k == head.arb.kernel_submitted
           q == head.arb.worker_queued
           e == head.arb.early_pageflip
           done == Completion(overdue)
           F == FirstDrained
<1>4. CASE cycle.flip # 0
  <2>1. done = [arb |-> head.arb, token |-> cycle.flip, timeout |-> FALSE]
    BY Zenon, <1>4 DEF Completion
  <2>2. /\ k = NoCommit /\ lane.inflight = cycle.flip
        /\ cycle.flip \in head.ownership
        /\ cycle.flip # kernel.pending /\ e = 0
        /\ \A i \in DOMAIN events : events[i].kind # "Submitted"
    BY Zenon, <1>1, <1>4 DEF CycleInv, Agreement, Fits
  <2>3. head.epoch = 1 => kernel.pending = 0 /\ Drained = <<>>
    BY Zenon, <1>1, <1>4 DEF CycleInv, Flow, Nothing, Drained
  <2> HIDE DEF done
  <2>4. Finished(done) BY Zenon, <1>4, <2>1, <2>2, <2>3 DEF Finished
  <2> QED BY <1>2, <2>1, <2>4 DEF done
<1> DEFINE mine == transport = "Worker"
<1>5. mine \in BOOLEAN /\ mine BY Zenon DEF Worker
<1>6. CASE cycle.flip = 0
  <2>1. done = ValidateAtomicPageflip(head.arb, F, head.epoch, mine, overdue)
    BY Zenon, <1>6 DEF Completion
  <2> DEFINE c == CompletePageflip(head.arb, F, head.epoch)
  <2> HIDE DEF mine
  <2>2. /\ ~done.timeout
        /\ F = 0 => done.arb = head.arb /\ done.token = 0
        /\ F # 0 => /\ done.arb = c.arb
                    /\ done.token = IF c.answer = "Completed" THEN F ELSE 0
    <3> DEFINE v == ValidateAtomicPageflip(head.arb, F, head.epoch, mine, overdue)
    <3> HIDE DEF F
    <3>1. WorkerVerdict(v, c, head.arb, F)
      BY Zenon, <1>5, ValidatedForWorker
    <3>2. done = v BY Zenon, <2>1
    <3> HIDE DEF done, v, c
    <3> QED BY Zenon, <3>1, <3>2 DEF WorkerVerdict
  <2> HIDE DEF done
  <2>3. CASE F = 0
    <3>1. Drained = kernel.readable BY Zenon, <2>3, NoFlip
    <3> QED BY Zenon, <1>2, <1>3, <1>6, <2>2, <2>3, <3>1 DEF Nought, done
  <2>4. CASE F # 0
    <3>1. /\ F \in Tokens /\ F # kernel.pending /\ kernel.readable # <<>>
          /\ Drained = <<>>
      BY Zenon, <2>4, FirstFlip
    <3>2. ~Nothing BY Zenon, <3>1 DEF Nothing
    <3>3. head.epoch = 1 =>
            /\ kernel.pending = 0
            /\ \/ lane.inflight = F \/ (lane.pc = "publish" /\ lane.job = F)
      <4>1. \A t : Just(t) => F = t /\ kernel.pending = 0
        BY <2>4, <3>1, FirstFlip DEF Just
      <4> QED BY Zenon, <1>1, <3>2, <4>1 DEF CycleInv, Flow
    <3>4. head.epoch = 1 =>
            \/ k.token = F
            \/ k = NoCommit /\ q.token = F
      <4>1. lane.inflight # 0 /\ lane.inflight # k.token =>
               lane.inflight = q.token
        BY Zenon, <1>0, <1>1, <1>6 DEF Fits, Plain
      <4>2. k.token # 0 => k.token = lane.inflight BY Zenon, <1>1 DEF Fits
      <4>3. lane.job # 0 => q.token = lane.job /\ lane.inflight = 0
        BY Zenon, <1>1 DEF Fits, CycleInv, LaneShape
      <4>4. k.token = 0 => k = NoCommit BY Zenon, <1>1 DEF Fits
      <4> QED BY Zenon, <2>4, <3>3, <4>1, <4>2, <4>3, <4>4
    <3>5. CASE k # NoCommit /\ k.token = F
      <4>1. k.generation = head.epoch /\ k.token = lane.inflight
            /\ k.token \in head.ownership /\ e = 0
            /\ \A i \in DOMAIN events : events[i].kind # "Submitted"
        <5>1. \A i \in DOMAIN events : i > 0 BY <1>0 DEF Plain
        <5> QED BY Zenon, <1>1, <2>4, <3>5, <5>1 DEF Fits, Answers
      <4>2. c = [arb |-> [head.arb EXCEPT !.kernel_submitted = NoCommit],
                 answer |-> "Completed"]
        BY Zenon, <3>5, <4>1 DEF CompletePageflip, atomic_commit_pending, Pending
      <4>3. /\ done.token = F /\ done.arb \in ArbiterType
            /\ done.arb.kernel_submitted = NoCommit
            /\ done.arb.worker_queued = q /\ done.arb.early_pageflip = e
        BY <1>2, <1>3, <2>2, <2>4, <4>2 DEF ArbiterType
      <4>4. Finished(done)
        BY Zenon, <2>2, <2>4, <3>1, <3>3, <3>5, <4>1, <4>3 DEF Finished
      <4> QED BY <3>1, <4>3, <4>4 DEF done, Tokens, OptToken
    <3>6. CASE k = NoCommit /\ q.token = F /\ e = 0
      <4>1. q # NoCommit /\ q.generation = head.epoch
        BY <1>1, <2>4, <3>6 DEF Fits, NoCommit
      <4>2. c = [arb |-> [head.arb EXCEPT !.early_pageflip = F],
                 answer |-> "DeferredUntilSubmitAck"]
        BY Zenon, <3>6, <4>1 DEF CompletePageflip, atomic_commit_pending, Pending
      <4>3. /\ done.token = 0 /\ done.arb \in ArbiterType
            /\ done.arb.kernel_submitted = k
            /\ done.arb.worker_queued = q /\ done.arb.early_pageflip = F
        BY <1>2, <2>2, <2>4, <3>1, <4>2 DEF ArbiterType, Tokens, OptToken
      <4>4. lane.inflight = F \/ (lane.pc = "publish" /\ lane.job = F)
        BY Zenon, <1>1, <2>4, <3>6, EarlyOwner
      <4>5. Overtaken(done)
        BY Zenon, <1>6, <2>2, <2>4, <3>1, <3>3, <3>6, <4>3, <4>4 DEF Overtaken
      <4> QED BY Zenon, <1>3, <4>3, <4>5 DEF done
    <3>7. CASE ~(k # NoCommit /\ k.token = F) /\ ~(k = NoCommit /\ q.token = F /\ e = 0)
      <4>1. c.arb = head.arb /\ c.answer # "Completed"
        BY Zenon, <3>7 DEF CompletePageflip, atomic_commit_pending, Pending
      <4>2. head.epoch # 1
        <5>1. head.epoch = 1 /\ e # 0 => Nothing BY Zenon, <1>1 DEF CycleInv, Flow
        <5> QED BY <2>4, <3>2, <3>4, <3>7, <5>1 DEF NoCommit
      <4>3. done.arb = head.arb /\ done.token = 0 BY Zenon, <2>2, <2>4, <4>1
      <4>4. Nought(done) BY Zenon, <1>6, <2>2, <4>2, <4>3 DEF Nought
      <4> QED BY Zenon, <1>2, <1>3, <4>3, <4>4 DEF done
    <3> QED BY Zenon, <3>5, <3>6, <3>7
  <2> QED BY Zenon, <2>3, <2>4
<1> QED BY Zenon, <1>4, <1>6

\* Without a worker: the drained pageflip of the kernel slot, or nothing.
LEMMA MainOutcome ==
  ASSUME CycleInv, cycle.phase = "drain", failed = "none", ~Worker,
         NEW overdue \in BOOLEAN
  PROVE  LET done == Completion(overdue)
         IN /\ done.arb \in ArbiterType /\ done.token \in OptToken
            /\ Finished(done) \/ Nought(done)
<1>0. Typed /\ Plain BY Zenon, TypedPlain DEF CycleInv
<1> DEFINE k == head.arb.kernel_submitted
           q == head.arb.worker_queued
           e == head.arb.early_pageflip
           done == Completion(overdue)
           F == FirstDrained
           mine == transport = "Worker"
           c == Examined(head.arb, F, head.epoch)
<1>1. /\ Active /\ cycle.flip = 0 /\ q = NoCommit /\ e = 0
      /\ k.token = 0 => k = NoCommit
      /\ k.token # 0 => k.generation = head.epoch
  BY Zenon, <1>0 DEF CycleInv, Typed, Sessions, Control, Settled, Active, Away
<1>2. head.arb \in ArbiterType BY Zenon, <1>0 DEF Typed, HeadType
<1>3. NoCommit \in Commit /\ 0 \in OptToken
  BY CycleAssumption DEF NoCommit, Commit, OptToken
<1>4. mine \in BOOLEAN /\ ~mine BY Zenon DEF Worker
<1>5. done = ValidateAtomicPageflip(head.arb, F, head.epoch, mine, overdue)
  BY Zenon, <1>1 DEF Completion
<1>6. \/ /\ c.answer = "Completed"
         /\ done = [arb |-> c.arb, token |-> F, timeout |-> FALSE]
      \/ /\ c.answer # "Completed" /\ done.token = 0
         /\ done.arb = c.arb \/ done.arb = WatchdogExpired(c.arb).arb
  <2> DEFINE v == ValidateAtomicPageflip(head.arb, F, head.epoch, mine, overdue)
  <2> HIDE DEF F, mine
  <2>1. MainVerdict(v, c, F) BY Zenon, <1>4, ValidatedForMain
  <2>2. done = v BY Zenon, <1>5
  <2> HIDE DEF done, v, c
  <2> QED BY Zenon, <2>1, <2>2 DEF MainVerdict
<1> HIDE DEF done, mine
<1>7. F # 0 => /\ F \in Tokens /\ F # kernel.pending /\ kernel.readable # <<>>
               /\ Drained = <<>> /\ F \in OptToken
  BY FirstFlip DEF Tokens, OptToken
<1>8. F # 0 /\ head.epoch = 1 => k.token = F /\ kernel.pending = 0
  <2> SUFFICES ASSUME F # 0, head.epoch = 1
               PROVE  k.token = F /\ kernel.pending = 0
    BY Zenon
  <2>1. \A t : Just(t) => F = t /\ kernel.pending = 0
    BY <1>7, FirstFlip DEF Just
  <2>2. ~Nothing BY Zenon, <1>7 DEF Nothing
  <2> QED BY Zenon, <1>1, <2>1, <2>2 DEF CycleInv, Flow
<1>9. CASE F # 0 /\ k # NoCommit /\ k.token = F
  <2>1. c = [arb |-> [head.arb EXCEPT !.kernel_submitted = NoCommit],
             answer |-> "Completed"]
    BY Zenon, <1>1, <1>9 DEF Examined, CompletePageflip, atomic_commit_pending, Pending
  <2>2. /\ done.token = F /\ done.arb \in ArbiterType /\ ~done.timeout
        /\ done.arb.kernel_submitted = NoCommit
        /\ done.arb.worker_queued = q /\ done.arb.early_pageflip = e
    BY <1>2, <1>3, <1>6, <2>1 DEF ArbiterType
  <2>3. Finished(done) BY Zenon, <1>7, <1>8, <1>9, <2>2 DEF Finished
  <2> QED BY Zenon, <1>7, <1>9, <2>2, <2>3 DEF done
<1>10. CASE ~(F # 0 /\ k # NoCommit /\ k.token = F)
  <2>1. c.arb = head.arb /\ c.answer # "Completed"
    BY Zenon, <1>1, <1>10
    DEF Examined, CompletePageflip, atomic_commit_pending, Pending
  <2>2. head.epoch = 1 => Drained = kernel.readable
    <3>1. head.epoch = 1 => F = 0 BY <1>7, <1>8, <1>10, <1>1 DEF NoCommit
    <3> QED BY Zenon, <3>1, NoFlip
  <2>3. /\ done.token = 0
        /\ done.arb = head.arb \/ done.arb = WatchdogExpired(head.arb).arb
    BY Zenon, <1>6, <2>1
  <2>4. \/ done.arb = head.arb
        \/ done.arb = [head.arb EXCEPT !.watchdog_reported = TRUE]
    BY Zenon, <2>3 DEF WatchdogExpired
  <2>5. /\ done.arb \in ArbiterType
        /\ done.arb.kernel_submitted = k
        /\ done.arb.worker_queued = q /\ done.arb.early_pageflip = e
    BY Zenon, <1>2, <2>4 DEF ArbiterType
  <2>6. Nought(done) BY Zenon, <1>1, <2>2, <2>3, <2>5 DEF Nought
  <2> QED BY Zenon, <1>3, <2>3, <2>5, <2>6 DEF done
<1> QED BY Zenon, <1>9, <1>10

\* The drain, the acknowledgment and the timeouts.
LEMMA DrainKeeps == CycleInv /\ Drain => CycleInv'
<1> SUFFICES ASSUME CycleInv, Drain PROVE CycleInv' BY Zenon
<1>0. Typed /\ Plain BY Zenon, TypedPlain DEF CycleInv
<1>1. /\ cycle.phase = "drain" /\ failed = "none"
      /\ kernel' = [kernel EXCEPT !.readable = Drained]
      /\ cycle' = [cycle EXCEPT !.phase = "present", !.flip = 0, !.timeout = 0]
      /\ transport' = transport /\ session' = session /\ events' = events
      /\ tokens' = tokens /\ suspends' = suspends
  BY Zenon DEF Drain
<1>2. PICK overdue \in {FALSE, transport = "Synchronous"} :
        LET done == Completion(overdue)
        IN /\ failed' = DrainError(done)
           /\ head' = [head EXCEPT !.arb = done.arb,
                         !.ownership = IF DrainError(done) = "none"
                                       THEN head.ownership \ {done.token}
                                       ELSE head.ownership]
           /\ lane' = IF DrainError(done) = "none" /\ done.token # 0
                      THEN [lane EXCEPT !.inflight = 0] ELSE lane
  BY Zenon, <1>0 DEF Drain, Typed, HeadType
<1> DEFINE done == Completion(overdue)
           owned == IF DrainError(done) = "none"
                    THEN head.ownership \ {done.token} ELSE head.ownership
<1>3. overdue \in BOOLEAN BY Zenon
<1>4. /\ done.arb \in ArbiterType /\ done.token \in OptToken
      /\ Finished(done) \/ Overtaken(done) \/ Nought(done)
  BY Zenon, <1>1, <1>3, WorkerOutcome, MainOutcome
<1>5. /\ failed' = DrainError(done)
      /\ head' = [head EXCEPT !.arb = done.arb, !.ownership = owned]
      /\ lane' = IF DrainError(done) = "none" /\ done.token # 0
                 THEN [lane EXCEPT !.inflight = 0] ELSE lane
  BY Zenon, <1>2
<1> HIDE DEF done
<1>6. Active /\ ~Away /\ head.deferred = 0
  BY Zenon, <1>0, <1>1 DEF CycleInv, Typed, Sessions, Control, Active, Away
<1>7. Finished(done) => DrainError(done) = "none"
  BY Zenon DEF Finished, DrainError, AckError, Worker
<1>8. /\ DrainError(done) \in {"none", "timeout", "watchdog"}
      /\ done.token = 0 => owned = head.ownership /\ lane' = lane
  <2>1. done.token = 0 => DrainError(done) \in {"none", "timeout", "watchdog"}
    BY Zenon DEF DrainError, AckError
  <2>2. Finished(done) \/ done.token = 0 BY Zenon, <1>4 DEF Overtaken, Nought
  <2>3. 0 \notin head.ownership BY <1>0 DEF Typed, HeadType, Tokens
  <2> QED BY Zenon, <1>5, <1>7, <2>1, <2>2, <2>3
<1>9. owned \subseteq head.ownership /\ owned \in SUBSET Tokens
      /\ head.ownership \subseteq owned \cup {done.token}
  BY Zenon, <1>0 DEF Typed, HeadType
<1> HIDE DEF owned
<1>10. /\ head'.arb = done.arb /\ head'.ownership = owned
       /\ head'.epoch = head.epoch /\ head'.quarantine = head.quarantine
       /\ head'.deferred = 0 /\ head'.timeout = head.timeout
       /\ cycle'.phase = "present" /\ cycle'.flip = 0
       /\ cycle'.reasons = cycle.reasons
       /\ kernel'.pending = kernel.pending /\ kernel'.readable = Drained
       /\ Drained = <<>> \/ Drained = kernel.readable
  BY Zenon, <1>0, <1>1, <1>5, <1>6 DEF Typed, HeadType, CycleType, KernelType, Drained
<1>11. /\ lane'.alive = lane.alive /\ lane'.stopping = lane.stopping
       /\ lane'.queue = lane.queue /\ lane'.job = lane.job /\ lane'.pc = lane.pc
       /\ lane'.overdue = lane.overdue /\ lane'.epoch = lane.epoch
       /\ done.token = 0 => lane'.inflight = lane.inflight
       /\ Finished(done) => lane'.inflight = 0
  <2>1. lane' = lane \/ lane' = [lane EXCEPT !.inflight = 0] BY Zenon, <1>5
  <2>2. Finished(done) => lane' = [lane EXCEPT !.inflight = 0]
    BY Zenon, <1>5, <1>7 DEF Finished
  <2> QED BY Zenon, <1>0, <1>8, <2>1, <2>2 DEF Typed, LaneType
<1>thead. head' \in HeadType BY Zenon, <1>0, <1>4, <1>5, <1>9 DEF Typed, HeadType
<1>tlane. lane' \in LaneType
  BY SMTT(60), <1>0, <1>5, CycleAssumption DEF Typed, LaneType, OptToken
<1>tcycle. cycle' \in CycleType
  <2>1. cycle' = [cycle EXCEPT !.phase = "present", !.flip = 0, !.timeout = 0]
    BY Zenon, <1>1
  <2>2. 0 \in OptToken BY CycleAssumption DEF OptToken
  <2> QED BY Zenon, <1>0, <2>1, <2>2 DEF Typed, CycleType, Phases
<1>tkernel. kernel' \in KernelType
  <2>1. Drained \in Seq(Tokens) BY <1>0 DEF Typed, KernelType, Drained
  <2> QED BY Zenon, <1>0, <1>1, <2>1 DEF Typed, KernelType
<1>12. Typed'
  BY Zenon, <1>0, <1>1, <1>thead, <1>tlane, <1>tcycle, <1>tkernel DEF Typed
<1>13. Plain' BY Zenon, <1>12, TypedPlainNext
<1>14. Control'
  BY Zenon, <1>1, <1>6, <1>10, <1>11 DEF CycleInv, Control, Active, Away
<1>15. LaneShape'
  BY <1>1, <1>4, <1>6, <1>10, <1>11
  DEF CycleInv, LaneShape, Active, Away, Worker, Overtaken, Nought
<1>16. Order'
  <2>1. CASE Drained = kernel.readable
    BY <1>1, <1>10, <1>11, <2>1 DEF CycleInv, Order
  <2>2. CASE Drained = <<>>
    <3>1. DOMAIN kernel'.readable = {} BY <1>10, <2>2
    <3> QED BY Zenon, <1>1, <1>10, <1>11, <3>1 DEF CycleInv, Order
  <2> QED BY Zenon, <1>10, <2>1, <2>2
<1>17. Refused'
  <2>1. \A j \in DOMAIN kernel'.readable :
           j \in DOMAIN kernel.readable /\ kernel'.readable[j] = kernel.readable[j]
    BY <1>10
  <2> QED BY Zenon, <1>1, <1>10, <2>1 DEF CycleInv, Refused, Active
<1>18. Traffic'
  <2>1. CASE done.token = 0
    BY Zenon, <1>1, <1>11, <2>1 DEF CycleInv, Traffic, Worker, Active
  <2>2. CASE Finished(done) /\ Worker
    <3>1. \A i \in DOMAIN events : events[i].kind \notin Answers
      BY Zenon, <1>6, <2>2 DEF CycleInv, Traffic, Answers, Finished
    <3>2. Len(events) <= 1
      BY SMTT(60), <1>0, <1>6, <2>2, <3>1 DEF CycleInv, Plain, Traffic
    <3> QED BY Zenon, <1>1, <1>11, <2>2, <3>1, <3>2 DEF Traffic
  <2>3. CASE ~Worker BY Zenon, <1>1, <2>3 DEF Traffic, Worker
  <2> QED BY Zenon, <1>4, <2>1, <2>2, <2>3 DEF Overtaken, Nought
<1>19. Room'
  <2>1. cycle'.phase = "present" /\ session' # "Suspending"
    BY Zenon, <1>1, <1>6, <1>10 DEF Active
  <2> QED BY Zenon, <1>1, <2>1 DEF CycleInv, Room
<1>20. Agreement'
  <2> SUFFICES ASSUME Worker PROVE Agreement'
    BY Zenon, <1>1 DEF Agreement, Worker
  <2>0. Fits(head, 0) BY Zenon, <1>6 DEF CycleInv, Agreement
  <2>1. CASE Finished(done)
    <3>1. Fits(head, 0)'
      BY SMTT(60), <1>1, <1>6, <1>10, <1>11, <2>0, <2>1 DEF Fits, Finished, NoCommit
    <3> QED BY Zenon, <1>10, <3>1 DEF Agreement
  <2>2. CASE Overtaken(done)
    <3>1. done.token = 0 /\ owned = head.ownership /\ cycle.flip = 0
      BY Zenon, <1>8, <2>2 DEF Overtaken
    <3>2. Fits(head, 0)'
      BY SMTT(60), <1>1, <1>6, <1>10, <1>11, <2>0, <2>2, <3>1
      DEF Fits, Overtaken, NoCommit
    <3> QED BY Zenon, <1>10, <3>2 DEF Agreement
  <2>3. CASE Nought(done)
    <3>1. done.token = 0 /\ owned = head.ownership /\ cycle.flip = 0
      BY Zenon, <1>8, <2>3 DEF Nought
    <3>2. Fits(head, 0)'
      BY SMTT(60), <1>1, <1>6, <1>10, <1>11, <2>0, <2>3, <3>1 DEF Fits, Nought
    <3> QED BY Zenon, <1>10, <3>2 DEF Agreement
  <2> QED BY Zenon, <1>4, <2>1, <2>2, <2>3
<1>21. Settled'
  BY <1>1, <1>4, <1>6, <1>10
  DEF CycleInv, Settled, Active, Away, Worker, Finished, Overtaken, Nought,
      NoCommit
<1>22. Flow'
  <2> SUFFICES ASSUME head.epoch = 1 PROVE Flow' BY Zenon, <1>10 DEF Flow
  <2>1. CASE Finished(done)
    <3>1. Nothing' BY Zenon, <1>10, <2>1 DEF Finished, Nothing
    <3>2. Worker => lane.pc # "publish"
      BY ZenonT(60), <2>1 DEF Finished, CycleInv, LaneShape
    <3>3. head'.arb.kernel_submitted.token = 0
      BY <1>10, <2>1 DEF Finished, NoCommit
    <3> QED BY Zenon, <1>1, <1>11, <2>1, <3>1, <3>2, <3>3 DEF Flow, Worker
  <2>2. CASE Overtaken(done)
    <3>1. Nothing' BY Zenon, <1>10, <2>2 DEF Overtaken, Nothing
    <3>2. done.token = 0 BY Zenon, <2>2 DEF Overtaken
    <3> QED
      BY SMTT(60), <1>1, <1>10, <1>11, <2>2, <3>1, <3>2
      DEF Flow, Worker, Overtaken, CycleInv, LaneShape
  <2>3. CASE Nought(done)
    <3>1. done.token = 0 /\ cycle.flip = 0 BY Zenon, <2>3 DEF Nought
    <3>2. kernel'.readable = kernel.readable BY Zenon, <1>10, <2>3 DEF Nought
    <3> QED
      BY SMTT(60), <1>1, <1>10, <1>11, <2>3, <3>1, <3>2
      DEF Flow, Just, Nothing, Worker, Active, Nought, CycleInv
  <2> QED BY Zenon, <1>4, <2>1, <2>2, <2>3
<1>23. EarlyFlipIsOwn'
  BY Zenon, <1>4, <1>10 DEF CycleInv, EarlyFlipIsOwn, Finished, Overtaken, Nought
<1>24. OwnershipHeld'
  <2>1. done.token # kernel.pending \/ done.token = 0
    BY Zenon, <1>4 DEF Finished, Overtaken, Nought
  <2> QED
    BY SMTT(60), <1>1, <1>8, <1>9, <1>10, <1>11, <2>1
    DEF CycleInv, OwnershipHeld, Announced
<1>25. OnlyTimeoutsFail' BY Zenon, <1>5, <1>8 DEF OnlyTimeoutsFail
<1> QED
  BY SMTT(60), <1>12, <1>14, <1>15, <1>16, <1>17, <1>18, <1>19, <1>20, <1>21, <1>22,
     <1>23, <1>24, <1>25
  DEF CycleInv

(***************************************************************************)
(* The theorems                                                            *)
(***************************************************************************)
\* The initial state.
LEMMA InitHolds == Init => CycleInv
<1> SUFFICES ASSUME Init PROVE CycleInv BY Zenon
<1> DEFINE up == transport = "Worker"
<1>0. up \in BOOLEAN BY Zenon
<1>1. /\ transport \in {"Worker", "Synchronous"} /\ session = "Active" /\ failed = "none"
      /\ head = [arb |-> NewArbiter, epoch |-> 1, ownership |-> {},
                 quarantine |-> {}, deferred |-> 0, timeout |-> 0]
      /\ cycle = [phase |-> "wait", reasons |-> {}, flip |-> 0, timeout |-> 0]
      /\ lane = [IdleLane EXCEPT !.alive = up]
      /\ events = <<>> /\ kernel = [pending |-> 0, readable |-> <<>>]
      /\ tokens = 0 /\ suspends = 0
  BY Zenon, CycleAssumption DEF Init, Waiting
<1> HIDE DEF up
<1>2. lane = [alive |-> up, stopping |-> FALSE, queue |-> 0, job |-> 0,
              pc |-> "idle", inflight |-> 0, overdue |-> FALSE, epoch |-> 1]
  BY Zenon, <1>1 DEF IdleLane
<1>3. 0 \in OptToken /\ 1 \in Epochs /\ NoCommit \in Commit
  BY CycleAssumption DEF OptToken, Epochs, NoCommit, Commit
<1>4. NewArbiter \in ArbiterType BY Zenon, <1>3 DEF NewArbiter, ArbiterType
<1>5. Typed
  <2>1. head \in HeadType BY Zenon, <1>1, <1>3, <1>4 DEF HeadType
  <2>2. cycle \in CycleType BY Zenon, <1>1, <1>3 DEF CycleType, Phases
  <2>3. lane \in LaneType BY Zenon, <1>0, <1>2, <1>3 DEF LaneType
  <2>4. kernel \in KernelType BY <1>1, <1>3 DEF KernelType
  <2>5. events \in Seq(EventType) /\ suspends \in 0 .. MaxSuspend
    BY <1>1, CycleAssumption
  <2> QED BY Zenon, <1>1, <1>3, <2>1, <2>2, <2>3, <2>4, <2>5 DEF Typed, Sessions
<1>6. Plain BY Zenon, <1>5, TypedPlain
<1>7. /\ head.arb.kernel_submitted = NoCommit /\ head.arb.worker_queued = NoCommit
      /\ head.arb.early_pageflip = 0 /\ head.epoch = 1 /\ head.deferred = 0
      /\ head.timeout = 0
      /\ cycle.phase = "wait" /\ cycle.flip = 0
      /\ kernel.pending = 0 /\ kernel.readable = <<>>
  BY Zenon, <1>1 DEF NewArbiter
<1>8. /\ lane.alive <=> Worker
      /\ ~lane.stopping /\ lane.queue = 0 /\ lane.job = 0 /\ lane.pc = "idle"
      /\ lane.inflight = 0 /\ lane.epoch = 1
  BY Zenon, <1>2 DEF up, Worker
<1>9. Active /\ ~Away BY Zenon, <1>1 DEF Active, Away
<1>10. Control BY <1>1, <1>7, <1>8, <1>9 DEF Control
<1>11. LaneShape BY <1>1, <1>7, <1>8, <1>9 DEF LaneShape
<1>12. Order BY <1>1, <1>7, <1>8 DEF Order
<1>13. Refused BY <1>1 DEF Refused
<1>14. Traffic BY <1>1, <1>8 DEF Traffic
<1>15. Room
  <2>1. Credit = 0 /\ Len(events) = 0 BY Zenon, <1>1, <1>8 DEF Credit
  <2> QED BY <1>1, <1>7, <2>1 DEF Room
<1>16. Agreement BY <1>1, <1>7, <1>8 DEF Agreement, Fits, NoCommit
<1>17. Settled BY SMTT(60), <1>7, <1>9 DEF Settled, NoCommit
<1>18. Flow BY <1>7, <1>8 DEF Flow, Nothing, NoCommit
<1>19. EarlyFlipIsOwn /\ OwnershipHeld /\ OnlyTimeoutsFail
  BY Zenon, <1>1, <1>7 DEF EarlyFlipIsOwn, OwnershipHeld, OnlyTimeoutsFail
<1> QED
  BY Zenon, <1>5, <1>10, <1>11, <1>12, <1>13, <1>14, <1>15, <1>16, <1>17, <1>18, <1>19
  DEF CycleInv

\* A step that changes nothing.
LEMMA StutterKeeps == CycleInv /\ UNCHANGED vars => CycleInv'
<1> SUFFICES ASSUME CycleInv, UNCHANGED vars PROVE CycleInv' BY Zenon
<1> USE DEF CycleInv, vars
<1>1. Typed' BY Zenon DEF Typed
<1>2. Control' /\ LaneShape' BY Zenon DEF Control, LaneShape, Active, Away, Worker
<1>3. Order' /\ Refused' BY Zenon DEF Order, Refused, Active
<1>4. Traffic' /\ Room' BY Zenon DEF Traffic, Room, Credit, Worker, Active
<1>5. Agreement' BY Zenon DEF Agreement, Fits, Worker, Active
<1>6. Settled' /\ Flow'
  BY Zenon DEF Settled, Flow, Just, Nothing, Away, Worker, Active
<1>7. EarlyFlipIsOwn' /\ OwnershipHeld' /\ OnlyTimeoutsFail'
  BY Zenon DEF EarlyFlipIsOwn, OwnershipHeld, OnlyTimeoutsFail, Announced
<1> QED BY Zenon, <1>1, <1>2, <1>3, <1>4, <1>5, <1>6, <1>7

\* The invariant of the cycle, the worker and the kernel together.
THEOREM Inductive == Spec => []CycleInv
<1>1. Init => CycleInv BY Zenon, InitHolds
<1>2. CycleInv /\ [Next]_vars => CycleInv'
  <2> SUFFICES ASSUME CycleInv, [Next]_vars PROVE CycleInv' BY Zenon
  <2>1. CASE MainStep
    BY Zenon, <2>1, WakeKeeps, ProcessEventsKeeps, NoSeatEventKeeps, SeatDisableKeeps,
       JoinWorkerKeeps, SeatEnableKeeps, ContinueRecoveryKeeps,
       AbortResumeKeeps, RecoveryFailsKeeps, DrainKeeps, NothingToPresentKeeps,
       EnqueueKeeps, SubmitSynchronouslyKeeps
    DEF MainStep
  <2>2. CASE WorkerStep
    BY Zenon, <2>2, WorkerTakeKeeps, WorkerSubmitKeeps, WorkerRejectKeeps,
       WorkerPublishKeeps, WorkerTimeoutKeeps, WorkerStopKeeps
    DEF WorkerStep
  <2>3. CASE KernelFlip BY Zenon, <2>3, KernelFlipKeeps
  <2>4. CASE UNCHANGED vars BY Zenon, <2>4, StutterKeeps
  <2> QED BY Zenon, <2>1, <2>2, <2>3, <2>4 DEF Next
<1> QED BY <1>1, <1>2, PTL DEF Spec

\* The arbiter and the worker agree on the lane in every reachable state: what
\* reserve_worker_queued, mark_kernel_submitted and reject_worker_queued record
\* is what the worker holds, an early pageflip is the queued commit's, and the
\* event queue stays short.
THEOREM LaneRepresentation == Spec => []LaneInv
<1>1. CycleInv => LaneInv
  <2> SUFFICES ASSUME CycleInv PROVE LaneInv BY Zenon
  <2>0. Typed /\ Plain BY Zenon, TypedPlain DEF CycleInv
  <2>1. Len(kernel.readable) <= MaxToken
    <3>1. CASE Len(kernel.readable) = 0
      BY <3>1, CycleAssumption
    <3>2. CASE Len(kernel.readable) # 0
      <4> DEFINE n == Len(kernel.readable)
      <4>1. n \in DOMAIN kernel.readable /\ n \in Nat BY <2>0, <3>2 DEF Plain
      <4>2. n <= kernel.readable[n] BY Zenon, <4>1 DEF CycleInv, Order
      <4>3. kernel.readable[n] \in Tokens BY <2>0, <4>1 DEF Typed, KernelType
      <4> QED BY <4>1, <4>2, <4>3, CycleAssumption DEF Tokens
    <3> QED BY Zenon, <3>1, <3>2
  <2>2. TypeOK
    <3>1. failed \in Failures BY Zenon DEF CycleInv, OnlyTimeoutsFail, Failures
    <3>2. Len(events) <= 3 BY Zenon DEF CycleInv, Room
    <3>3. kernel.pending \in OptToken BY Zenon, <2>0 DEF Typed, KernelType
    <3>4. head \in HeadType /\ lane \in LaneType /\ cycle \in CycleType
          /\ session \in Sessions /\ transport \in {"Worker", "Synchronous"}
          /\ tokens \in OptToken /\ suspends \in 0 .. MaxSuspend
      BY Zenon, <2>0 DEF Typed
    <3> QED
      BY Zenon, <2>1, <3>1, <3>2, <3>3, <3>4
      DEF TypeOK, HeadType, ArbiterType, LaneType, CycleType, Sessions
  <2>3. LaneAgrees
    <3> SUFFICES ASSUME Running, transport = "Worker" PROVE LaneAgrees
      BY Zenon DEF LaneAgrees
    <3>1. Fits(head, 0) BY Zenon DEF CycleInv, Agreement, Running, Worker, Active
    <3>2. \A i \in DOMAIN events : i > 0 BY SMTT(60), <2>0 DEF Plain
    <3>3. Announced({"Submitted", "Rejected"}) \subseteq {head.arb.worker_queued.token}
      BY Zenon, <3>1, <3>2 DEF Announced, Fits, Answers
    <3>4. head.arb.worker_queued.token \in
            {lane.queue, lane.job, 0} \cup Announced({"Submitted", "Rejected"})
      BY Zenon, <3>1, <3>2 DEF Announced, Fits, Answers
    <3>5. head.arb.kernel_submitted # NoCommit =>
            lane.inflight = head.arb.kernel_submitted.token
      BY Zenon, <3>1 DEF Fits
    <3>6. {lane.queue, lane.job} \ {0} \subseteq {head.arb.worker_queued.token}
      BY Zenon, <3>1 DEF Fits
    <3> QED BY Zenon, <3>3, <3>4, <3>5, <3>6 DEF LaneAgrees
  <2> QED BY Zenon, <2>2, <2>3 DEF CycleInv, LaneInv
<1> QED BY <1>1, Inductive, PTL

\* A commit the kernel holds always has an owner that keeps its framebuffers:
\* the worker, an undelivered Submitted event, the submitted ownership of the
\* head or, after a suspended session joined its worker, the quarantine.
THEOREM CommitsOwned == Spec => []OwnershipHeld
<1>1. CycleInv => OwnershipHeld BY Zenon DEF CycleInv
<1> QED BY <1>1, Inductive, PTL

\* The error returns for unmatched submissions and acknowledgments
\* (validate_submitted_ownership, mark_kernel_submitted, ack_pageflip_identity)
\* are dead code: only timeouts and failed recoveries end the runtime.
THEOREM OnlyTimeouts == Spec => []OnlyTimeoutsFail
<1>1. CycleInv => OnlyTimeoutsFail BY Zenon DEF CycleInv
<1> QED BY <1>1, Inductive, PTL

\* Until the first resume the pageflip of the awaited commit is never lost
\* between the device file, the early pageflip the arbiter stores and
\* replay_deferred_pageflip.
THEOREM CompletionsKept == Spec => []CompletionKept
<1>1. CycleInv => CompletionKept
  <2> SUFFICES ASSUME CycleInv, head.epoch = 1, Running, Awaited # 0
               PROVE  \/ kernel.pending = Awaited
                      \/ \E i \in DOMAIN kernel.readable : kernel.readable[i] = Awaited
                      \/ Awaited \in {head.arb.early_pageflip, head.deferred, cycle.flip}
    BY Zenon DEF CompletionKept, NoCompletionLost
  <2>1. Active BY Zenon DEF Running, Active
  <2>2. \A t : Just(t) => \/ kernel.pending = t
                          \/ \E i \in DOMAIN kernel.readable : kernel.readable[i] = t
    BY SMTT(60) DEF Just
  <2>3. CASE Worker
    BY Zenon, <2>1, <2>2, <2>3 DEF CycleInv, Flow, Awaited, Worker
  <2>4. CASE ~Worker
    BY Zenon, <2>1, <2>2, <2>4 DEF CycleInv, Flow, Awaited, Worker
  <2> QED BY Zenon, <2>3, <2>4
<1> QED BY <1>1, Inductive, PTL
=============================================================================
