------------------------- MODULE OutputPipelineProofs -------------------------
(***************************************************************************)
(* The output pipeline is right for every pool of buffers, any number of   *)
(* frames, re-plans and session switches.  What makes it so is the lane:   *)
(* at most one frame has a refresh reserved for it, and the frame drawn    *)
(* behind it is deferred to it, so a pageflip never overtakes anything.    *)
(* LedgerAgrees alone is not inductive: that the transactions of the roles *)
(* differ follows from their ledger states, that a recovery finds only the *)
(* kernel's frame from what a session switch leaves, and that a settled    *)
(* batch stays settled from transactions being handed out in order.        *)
(***************************************************************************)
EXTENDS OutputPipeline, FiniteSetTheorems, TLAPS

\* A frame with a refresh reserved for it.
Bound(f) == Owned(f) /\ f.claim # 0

\* Transactions are handed out in order, and what a frame names was handed out.
Fresh ==
    /\ \A f \in Holders : f.txn < next
    /\ anchor < next
    /\ \A t \in Txns : t >= next => txn[t] = "none" /\ batch[t] = "none"
    /\ \A t \in signaled : t < next

\* What holds of the frames while the runtime lives.
Lane ==
    /\ Owned(pending) => Bound(pending)
    /\ Owned(queued) => Bound(queued)
    /\ ~(Bound(pending) /\ Bound(queued))
    /\ Bound(ready) \/ Bound(rendering) => ~Owned(pending) /\ ~Owned(queued)
    /\ ~(Owned(ready) /\ Owned(rendering))
    /\ Operational /\ Deferred(ready) => ready.pred \in {queued.txn, pending.txn} \ {0}
    /\ Operational /\ Deferred(rendering) =>
         rendering.pred \in IF Owned(queued) \/ Owned(pending)
                            THEN {queued.txn, pending.txn} \ {0} ELSE {anchor}
    /\ anchor # 0 => txn[anchor] = "presented"
    /\ quarantine # 0 => ~Owned(queued) /\ ~Owned(pending)
    /\ session = "active" => suspended = {}
    /\ session # "active" => /\ ~Owned(queued) /\ ~Owned(ready) /\ ~Owned(rendering)
                             /\ quarantine = 0

\* The inductive invariant.
IInv ==
    /\ TypeOK /\ SlotExclusive /\ Fresh /\ LedgerAgrees /\ FatalCauses /\ ResumeWatched
    /\ fatal = "no" => Lane

USE SlotsAssumption, BoundsAssumption

\* A frame owns a slot and a transaction, or is the empty one.
LEMMA FrameFacts ==
    ASSUME NEW f \in Frame \cup {NoFrame}
    PROVE  /\ Owned(f) => f \in Frame /\ f.slot \in Slots /\ f.txn \in Txns
           /\ ~Owned(f) => f = NoFrame
           /\ f.txn \in 0..MaxTxn /\ f.claim \in Nat /\ f.pred \in 0..MaxTxn
           /\ \A c \in Nat : f \in Frame => [f EXCEPT !.claim = c] \in Frame
BY DEF Frame, NoFrame, Owned, Txns

\* The fence a recovery watches is one of an abandoned frame that has not signaled.
LEMMA WatchedFence ==
    ASSUME NEW fs \in SUBSET Frame, ~FencesSignaled(fs)
    PROVE  /\ FenceToWatch(fs) \in Txns
           /\ \E f \in fs : f.txn = FenceToWatch(fs)
<1>1. \E t \in Txns : \E f \in fs : f.txn = t /\ t \notin signaled
  BY Zenon DEF FencesSignaled, Frame
<1> QED BY Zenon, <1>1 DEF FenceToWatch

\* Every step keeps the types.
LEMMA TypeStep == TypeOK /\ [Next]_vars => TypeOK'
<1> SUFFICES ASSUME TypeOK, [Next]_vars PROVE TypeOK'
  BY Zenon
<1>t. /\ pending \in Frame \cup {NoFrame} /\ queued \in Frame \cup {NoFrame}
      /\ ready \in Frame \cup {NoFrame} /\ rendering \in Frame \cup {NoFrame}
      /\ suspended \subseteq Frame
  BY Zenon DEF TypeOK
<1>l. ASSUME NEW c \in Nat, NEW b \in Later(c) PROVE b \in Nat
  BY <1>l DEF Later
<1>1. ASSUME NEW c \in Nat, NEW d \in 0..MaxTxn, StartFrame(c, d) PROVE TypeOK'
  <2>1. (CHOOSE s \in FreeSlots : TRUE) \in Slots
    BY Zenon, <1>1 DEF StartFrame, FreeSlots
  <2>2. rendering' \in Frame
    BY Zenon, <2>1, <1>1 DEF StartFrame, Frame
  <2>3. txn' \in [Txns -> TxnState] /\ batch' \in [Txns -> BatchState]
    BY Zenon, <1>1 DEF StartFrame, Settle, TypeOK, TxnState, BatchState
  <2>4. next' \in 1..MaxTxn + 1
    BY <1>1 DEF StartFrame, TypeOK, Txns
  <2> QED BY Zenon, <2>2, <2>3, <2>4, <1>1 DEF StartFrame, TypeOK, runtime
<1>2. CASE Render
  BY <1>1, <1>2, <1>l DEF Render, TypeOK
<1>3. CASE RenderAhead
  BY Zenon, <1>1, <1>3, <1>t, FrameFacts DEF RenderAhead, Predecessor
<1>4. CASE RenderCompletion
  <2>0. Owned(rendering) /\ rendering \in Frame /\ rendering.txn \in Txns
          /\ rendering.slot \in Slots
    BY Zenon, <1>4, <1>t, FrameFacts DEF RenderCompletion
  <2>1. CASE FinishRender
    <3> DEFINE f == rendering
               stale == Stale(f, queued, pending, anchor)
    <3> PICK c \in Later(last) :
        /\ Operational /\ ~Owned(ready)
        /\ rendering' = NoFrame
        /\ ready' = IF stale THEN NoFrame
                    ELSE IF Bindable(f, anchor) THEN [f EXCEPT !.claim = c] ELSE f
        /\ suspended' = IF stale THEN suspended \cup {f} ELSE suspended
        /\ IF stale THEN Settle(f.txn, "dropped", "completed")
           ELSE Move(f.txn, IF Deferred(ready') THEN "unbound" ELSE "ready")
        /\ UNCHANGED <<current, pending, queued, quarantine, last, anchor, gen, next, runtime>>
      BY Zenon, <2>1 DEF FinishRender
    <3>1. ready' \in Frame \cup {NoFrame} /\ suspended' \subseteq Frame
      BY Zenon, <2>0, <1>t, <1>l, FrameFacts DEF TypeOK
    <3>2. txn' \in [Txns -> TxnState] /\ batch' \in [Txns -> BatchState]
      BY Zenon, <2>0 DEF Settle, Move, TypeOK, TxnState, BatchState
    <3> QED BY Zenon, <3>1, <3>2 DEF TypeOK, runtime
  <2>2. CASE RefuseRender
    BY Zenon, <2>2, <2>0 DEF RefuseRender, Settle, TypeOK, swapchain, TxnState, BatchState
  <2>3. ASSUME NEW a \in {"dropped", "failed"}, NEW o \in {"completed", "restored"},
               AbandonRender(a, o)
        PROVE  TypeOK'
    BY Zenon, <2>3, <2>0 DEF AbandonRender, Settle, TypeOK, runtime, TxnState, BatchState
  <2>4. ASSUME NEW gpuStarted \in BOOLEAN, FailRender(gpuStarted) PROVE TypeOK'
    <3>1. txn' \in [Txns -> TxnState] /\ batch' \in [Txns -> BatchState]
      BY Zenon, <2>4, <2>0 DEF FailRender, Settle, TypeOK, TxnState, BatchState
    <3> QED BY Zenon, <3>1, <2>4, <2>0 DEF FailRender, TypeOK
  <2> QED BY Zenon, <1>4, <2>1, <2>2, <2>3, <2>4 DEF RenderCompletion
<1>5. CASE ReplaceReadyTarget
  <2> PICK c \in Later(last) : ready' = [ready EXCEPT !.claim = c]
    BY Zenon, <1>5 DEF ReplaceReadyTarget
  <2>1. ready' \in Frame
    BY Zenon, <1>5, <1>t, <1>l, FrameFacts DEF ReplaceReadyTarget, TypeOK
  <2> QED BY Zenon, <2>1, <1>5 DEF ReplaceReadyTarget, TypeOK, ledger, runtime
<1>6. CASE QueueReady
  <2>1. ready.txn \in Txns
    BY Zenon, <1>6, <1>t, FrameFacts DEF QueueReady
  <2> QED BY Zenon, <2>1, <1>6 DEF QueueReady, Move, TypeOK, runtime, TxnState
<1>7. CASE Submitted
  <2>1. queued.txn \in Txns
    BY Zenon, <1>7, <1>t, FrameFacts DEF Submitted
  <2> QED BY <2>1, <1>7 DEF Submitted, Move, TypeOK, TxnState, Txns
<1>8. CASE Rejected
  <2>1. queued.txn \in Txns /\ queued.slot \in Slots
    BY Zenon, <1>8, <1>t, FrameFacts DEF Rejected
  <2> QED BY Zenon, <2>1, <1>8 DEF Rejected, Settle, TypeOK, runtime, TxnState, BatchState
<1>9. CASE Replanned
  <2>1. queued.txn \in Txns
    BY Zenon, <1>9, <1>t, FrameFacts DEF Replanned
  <2> QED BY <2>1, <1>9 DEF Replanned, Move, TypeOK, TxnState
<1>10. CASE PageFlip
  <2>a. PICK c \in Later(last) : \E b \in Later(c) :
      LET over == Overtaken(c)
          left == suspended \cup over
          stale == {f \in {ready} : Stale(f, queued, NoFrame, pending.txn)}
          kept(f) == IF f \in over \cup stale THEN NoFrame ELSE f
      IN /\ queued' = kept(queued)
         /\ ready' = IF Bindable(ready, pending.txn) THEN [ready EXCEPT !.claim = b]
                     ELSE kept(ready)
         /\ suspended' = Unrecovered(left) \cup stale
         /\ armed' = WatchFor(left, armed)
         /\ last' = c
    BY ZenonT(60), <1>10 DEF PageFlip
  <2>b. PICK b \in Later(c) :
      LET over == Overtaken(c)
          left == suspended \cup over
          stale == {f \in {ready} : Stale(f, queued, NoFrame, pending.txn)}
          kept(f) == IF f \in over \cup stale THEN NoFrame ELSE f
      IN /\ queued' = kept(queued)
         /\ ready' = IF Bindable(ready, pending.txn) THEN [ready EXCEPT !.claim = b]
                     ELSE kept(ready)
         /\ suspended' = Unrecovered(left) \cup stale
         /\ armed' = WatchFor(left, armed)
         /\ last' = c
    BY Zenon, <2>a
  <2> DEFINE left == suspended \cup Overtaken(c)
  <2>0. pending.txn \in Txns /\ pending.slot \in Slots
    BY Zenon, <1>10, <1>t, FrameFacts DEF PageFlip
  <2>1. c \in Nat /\ b \in Nat
    BY Zenon, <1>l, <2>a, <2>b DEF TypeOK
  <2>2. Overtaken(c) \subseteq Frame
           /\ {f \in {ready} : Stale(f, queued, NoFrame, pending.txn)} \subseteq Frame
    BY Zenon, <1>t, FrameFacts DEF Overtaken, Stale, Deferred
  <2>3. suspended' \subseteq Frame
    BY Zenon, <2>2, <2>b, <1>t DEF Unrecovered
  <2>4. armed' \in 0..MaxTxn
    BY SMTT(60), <2>2, <2>b, <1>t, WatchedFence DEF WatchFor, TypeOK, Txns
  <2>5. ready' \in Frame \cup {NoFrame} /\ queued' \in Frame \cup {NoFrame}
    BY Zenon, <1>t, <2>1, <2>b, FrameFacts DEF Bindable, Deferred
  <2>6. txn' \in [Txns -> TxnState] /\ batch' \in [Txns -> BatchState]
    BY <1>10 DEF PageFlip, TypeOK, TxnState, BatchState
  <2>7. /\ current' = pending.slot /\ pending' = NoFrame /\ last' = c /\ anchor' = pending.txn
        /\ UNCHANGED <<rendering, quarantine, gen, next, signaled, session, fatal, replans, aborts>>
    BY Zenon, <1>10, <2>b DEF PageFlip
  <2> QED BY SMTT(60), <2>0, <2>1, <2>3, <2>4, <2>5, <2>6, <2>7 DEF TypeOK, Txns
<1>11. CASE FenceSignal
  <2>1. signaled' \subseteq Txns
    BY ZenonT(60), <1>11, <1>t, FrameFacts DEF FenceSignal, TypeOK
  <2> QED BY Zenon, <2>1, <1>11 DEF FenceSignal, TypeOK, swapchain, ledger
<1>12. CASE FenceWake
  <2>1. armed' \in 0..MaxTxn
    BY <1>12, <1>t, WatchedFence DEF FenceWake, WatchFor, Txns
  <2> QED BY Zenon, <2>1, <1>12 DEF FenceWake, TypeOK, ledger, Unrecovered
<1>13. CASE Suspend
  <2>1. suspended' \subseteq Frame
    BY Zenon, <1>13, <1>t, FrameFacts DEF Suspend, Retained
  <2> QED BY <2>1, <1>13 DEF Suspend, TypeOK, ledger
<1>14. ASSUME Recover, UNCHANGED <<current, queued, ready, rendering, quarantine, next, signaled,
                                   replans, aborts>>
       PROVE  TypeOK'
  <2> DEFINE held == suspended \cup {f \in {pending} : Owned(f)}
  <2>1. held \subseteq Frame
    BY Zenon, <1>t, FrameFacts
  <2>2. (txn' \in [Txns -> TxnState] /\ batch' \in [Txns -> BatchState])
    BY Zenon, <1>14 DEF Recover, TypeOK, TxnState, BatchState
  <2>3. armed' \in 0..MaxTxn
    BY <2>1, <1>14, WatchedFence DEF Recover, Txns
  <2> QED BY <2>2, <2>3, <1>14 DEF Recover, TypeOK
<1>15. CASE Resume \/ ContinueResume
  BY Zenon, <1>14, <1>15 DEF Resume, ContinueResume
<1>16. CASE AbortResume
  BY <1>16 DEF AbortResume, TypeOK, swapchain, ledger
<1>17. CASE UNCHANGED vars
  BY Zenon, <1>17 DEF vars, TypeOK, swapchain, ledger, runtime
<1> QED
  BY Zenon, <1>2, <1>3, <1>4, <1>5, <1>6, <1>7, <1>8, <1>9, <1>10, <1>11, <1>12, <1>13, <1>15,
     <1>16,
     <1>17
  DEF Next

\* While the runtime lives, a pageflip overtakes nothing and strands nothing: the frame
\* behind the primary is deferred to it, and is bound.
LEMMA FlipPlain ==
    ASSUME IInv, PageFlip
    PROVE  /\ fatal = "no" /\ session = "active" /\ quarantine = 0 /\ suspended = {}
           /\ Owned(pending) /\ pending.txn \in signaled
           /\ queued = NoFrame /\ ~Bound(ready) /\ ~Bound(rendering)
           /\ Owned(ready) => ready.pred = pending.txn
           /\ current' = pending.slot /\ pending' = NoFrame /\ queued' = NoFrame
           /\ suspended' = {} /\ armed' = armed /\ anchor' = pending.txn
           /\ IF Owned(ready)
              THEN /\ ready'.slot = ready.slot /\ ready'.txn = ready.txn /\ ready'.claim # 0
                   /\ Owned(ready')
              ELSE ready' = NoFrame
           /\ txn' = [t \in Txns |-> IF t = pending.txn THEN "presented"
                                     ELSE IF Owned(ready) /\ t = ready.txn THEN "ready"
                                     ELSE txn[t]]
           /\ batch' = [t \in Txns |-> IF t = pending.txn THEN "presented" ELSE batch[t]]
           /\ UNCHANGED <<rendering, quarantine, gen, next, signaled, session, fatal, replans,
                          aborts>>
<1>1. fatal = "no" /\ session = "active" /\ Owned(pending) /\ pending.txn \in signaled
  BY Zenon DEF PageFlip, Running
<1>2. Lane /\ suspended = {} /\ quarantine = 0 /\ Operational
  BY Zenon, <1>1 DEF IInv, Lane, Operational
<1>3. ~Owned(queued) /\ ~Bound(ready) /\ ~Bound(rendering)
  BY Zenon, <1>1, <1>2 DEF Lane
<1>4. queued = NoFrame /\ (~Owned(ready) => ready = NoFrame) /\ pending.txn \in Txns
  BY Zenon, <1>1, <1>3, FrameFacts DEF IInv, TypeOK
<1>5. Owned(ready) => Deferred(ready) /\ ready.pred = pending.txn
  BY Zenon, <1>2, <1>3, <1>4 DEF Lane, Bound, Deferred, NoFrame
<1>6. ~Owned(NoFrame)
  BY Zenon DEF Owned, NoFrame
<1> PICK c \in Later(last) : \E b \in Later(c) :
    LET over == Overtaken(c)
        left == suspended \cup over
        stale == {f \in {ready} : Stale(f, queued, NoFrame, pending.txn)}
        kept(f) == IF f \in over \cup stale THEN NoFrame ELSE f
        drop == {f.txn : f \in over \cup stale}
    IN
    /\ queued' = kept(queued)
    /\ ready' = IF Bindable(ready, pending.txn) THEN [ready EXCEPT !.claim = b] ELSE kept(ready)
    /\ suspended' = Unrecovered(left) \cup stale
    /\ armed' = WatchFor(left, armed)
    /\ txn' = [t \in Txns |-> IF t = pending.txn THEN "presented"
                              ELSE IF t \in drop THEN "dropped"
                              ELSE IF t = ready.txn /\ Bindable(ready, pending.txn) THEN "ready"
                              ELSE txn[t]]
    /\ batch' = [t \in Txns |-> IF t = pending.txn THEN "presented"
                                ELSE IF t \in drop THEN "completed" ELSE batch[t]]
  BY ZenonT(60) DEF PageFlip
<1>7. Overtaken(c) = {}
  BY Zenon, <1>3, <1>5 DEF Overtaken
<1>8. {f \in {ready} : Stale(f, queued, NoFrame, pending.txn)} = {}
  BY Zenon, <1>5 DEF Stale, Deferred
<1>9. Bindable(ready, pending.txn) <=> Owned(ready)
  BY Zenon, <1>5 DEF Bindable, Deferred
<1>10. Unrecovered({}) = {} /\ WatchFor({}, armed) = armed
  BY Zenon DEF Unrecovered, WatchFor, FencesSignaled
<1>11. /\ queued' = NoFrame /\ suspended' = {} /\ armed' = armed
  BY Zenon, <1>2, <1>4, <1>7, <1>8, <1>10
<1>12. IF Owned(ready)
       THEN /\ ready'.slot = ready.slot /\ ready'.txn = ready.txn /\ ready'.claim # 0
            /\ Owned(ready')
       ELSE ready' = NoFrame
  <2>1. PICK b \in Later(c) :
          ready' = IF Bindable(ready, pending.txn) THEN [ready EXCEPT !.claim = b]
                   ELSE IF ready \in {} \cup {} THEN NoFrame ELSE ready
    BY Zenon, <1>7, <1>8
  <2>2. b \in Nat \ {0}
    BY DEF Later, IInv, TypeOK
  <2>3. CASE Owned(ready)
    <3>1. ready' = [ready EXCEPT !.claim = b] /\ ready \in Frame
      BY Zenon, <2>1, <2>3, <1>9, FrameFacts DEF IInv, TypeOK
    <3> QED BY Zenon, <3>1, <2>2, <2>3 DEF Frame, Owned
  <2>4. CASE ~Owned(ready)
    BY Zenon, <2>1, <2>4, <1>9, <1>4
  <2> QED BY Zenon, <2>3, <2>4
<1>13. txn' = [t \in Txns |-> IF t = pending.txn THEN "presented"
                              ELSE IF Owned(ready) /\ t = ready.txn THEN "ready"
                              ELSE txn[t]]
  BY ZenonT(60), <1>7, <1>8, <1>9
<1>14. batch' = [t \in Txns |-> IF t = pending.txn THEN "presented" ELSE batch[t]]
  BY Zenon, <1>7, <1>8
<1>15. /\ current' = pending.slot /\ pending' = NoFrame /\ anchor' = pending.txn
       /\ UNCHANGED <<rendering, quarantine, gen, next, signaled, session, fatal, replans,
                      aborts>>
  BY Zenon DEF PageFlip
<1> QED BY Zenon, <1>1, <1>2, <1>3, <1>4, <1>5, <1>11, <1>12, <1>13, <1>14, <1>15

\* What the invariant says of the variables' values.
LEMMA Values ==
    ASSUME IInv
    PROVE  /\ pending \in Frame \cup {NoFrame} /\ queued \in Frame \cup {NoFrame}
           /\ ready \in Frame \cup {NoFrame} /\ rendering \in Frame \cup {NoFrame}
           /\ suspended \subseteq Frame /\ quarantine \in Slots \cup {0} /\ current \in Slots
           /\ txn \in [Txns -> TxnState] /\ batch \in [Txns -> BatchState]
           /\ next \in 1..MaxTxn + 1 /\ anchor \in 0..MaxTxn /\ last \in Nat
           /\ signaled \subseteq Txns
BY Zenon DEF IInv, TypeOK

\* What a step of a live runtime starts from.
Alive == /\ fatal = "no" /\ Lane /\ SlotExclusive /\ Fresh
         /\ LedgerAgrees /\ FatalCauses /\ ResumeWatched

\* A new frame takes a free slot and a new transaction.
LEMMA StartFrameStep == ASSUME IInv, TypeOK', RenderAdmissible,
           NEW c \in Nat, NEW d \in 0..MaxTxn, StartFrame(c, d),
           IF c # 0 THEN ~Owned(queued) /\ ~Owned(pending)
           ELSE Owned(queued) # Owned(pending) /\ d = Predecessor(queued, pending)
    PROVE IInv'
<1>0. Alive
  BY Zenon DEF IInv, Alive, RenderAdmissible, Running
<1>a. /\ Operational /\ ready = NoFrame /\ rendering = NoFrame /\ session = "active"
  BY Zenon, Values, FrameFacts DEF RenderAdmissible, Running
<1>b. /\ rendering'.slot \in FreeSlots /\ rendering'.txn = next /\ rendering'.claim = c
      /\ rendering'.pred = d /\ rendering' \in Frame
  <2>1. (CHOOSE s \in FreeSlots : TRUE) \in FreeSlots /\ FreeSlots \subseteq Slots
    BY Zenon DEF StartFrame, FreeSlots
  <2> QED BY Zenon, <2>1 DEF StartFrame, Frame
<1>c. FreeSlots \subseteq Slots /\ \A f \in {pending, queued, ready, rendering} \cup suspended :
          f.slot \notin FreeSlots
  BY Zenon DEF FreeSlots
<1>e. /\ next \in Txns /\ next' = next + 1
      /\ txn' = [txn EXCEPT ![next] = "built"] /\ batch' = [batch EXCEPT ![next] = "held"]
      /\ UNCHANGED <<current, pending, queued, ready, quarantine, suspended, anchor, signaled,
                     armed, session, fatal>>
  BY Zenon DEF StartFrame, Settle, runtime
<1>d. current \notin FreeSlots /\ quarantine \notin FreeSlots
  BY Zenon DEF FreeSlots
<1>1. SlotExclusive'
  BY SMTT(60), <1>0, Values, FrameFacts, <1>a, <1>b, <1>c, <1>d, <1>e
  DEF Alive, Predecessor, SlotExclusive, Apart, Holders, Owned, NoFrame
<1>2. Fresh'
  <2>1. Holders' = Holders \cup {rendering'}
    BY <1>a, <1>b, <1>e, FrameFacts DEF Holders, Owned, Txns, NoFrame
  <2>2. \A f \in Holders' : f.txn < next'
    <3>1. \A f \in Holders : f.txn \in Txns /\ f.txn < next
      BY Zenon, <1>0, Values, FrameFacts DEF Alive, Fresh, Holders
    <3> QED BY <3>1, <2>1, <1>b, <1>e, Values DEF Txns
  <2>3. \A t \in Txns : t >= next' => txn'[t] = "none" /\ batch'[t] = "none"
    BY <1>e, <1>0, Values DEF Alive, Fresh, Txns
  <2>4. anchor' < next' /\ \A t \in signaled' : t < next'
    BY SMTT(60), <1>e, <1>0, Values DEF Alive, Fresh, Txns
  <2> QED BY Zenon, <2>2, <2>3, <2>4 DEF Fresh
<1>3. LedgerAgrees'
  <2>1. \A f \in {pending, queued} \cup suspended : Owned(f) =>
          f.txn \in Txns /\ f.txn # next /\ txn'[f.txn] = txn[f.txn]
    BY SMTT(60), <1>e, <1>0, Values, FrameFacts DEF Alive, Fresh, Holders, Txns
  <2>2. Active' = Active \cup {next}
    BY Zenon, <1>e, Values DEF Active, ActiveStates
  <2>3. Holders' = Holders \cup {rendering'}
    BY <1>a, <1>b, <1>e, FrameFacts DEF Holders, Owned, Txns, NoFrame
  <2>4. \A t \in Txns : batch'[t] = "held" <=> t \in Active'
    BY Zenon, <2>2, <1>e, <1>0, Values DEF Alive, LedgerAgrees
  <2>5. Active' \subseteq {f.txn : f \in Holders'}
    BY <2>2, <2>3, <1>b, <1>0 DEF Alive, LedgerAgrees
  <2>6. txn'[rendering'.txn] = "built"
    BY Zenon, <1>b, <1>e, Values
  <2> QED BY SMTT(60), <2>1, <2>4, <2>5, <2>6, <1>a, <1>b, <1>e, <1>0
    DEF Alive, LedgerAgrees, Lane, Operational, Owned, NoFrame
<1>4. FatalCauses' /\ ResumeWatched'
  BY Zenon, <1>0, Values, FrameFacts, <1>a, <1>b, <1>c, <1>d, <1>e
  DEF Alive, Predecessor, FatalCauses, ResumeWatched, Holders, Owned, NoFrame
<1>5. fatal' = "no" => Lane'
  <2>1. anchor # next /\ (anchor # 0 => anchor \in Txns /\ txn'[anchor] = txn[anchor])
    BY <1>e, <1>0, Values DEF Alive, Fresh, Txns
  <2>2. c # 0 => rendering'.claim # 0 /\ ~Owned(queued) /\ ~Owned(pending)
    BY Zenon, <1>b
  <2>3. c = 0 => /\ rendering'.pred \in {queued.txn, pending.txn} \ {0}
                 /\ Owned(queued) \/ Owned(pending)
    BY Zenon, <1>b DEF Predecessor, Owned
  <2> QED BY Zenon, <2>1, <2>2, <2>3, <1>a, <1>b, <1>e, <1>0
    DEF Alive, Lane, Bound, Deferred, Operational, Owned, NoFrame
<1> QED BY Zenon, <1>1, <1>2, <1>3, <1>4, <1>5 DEF IInv

\* A new target changes the claim of a bound frame and nothing else.
LEMMA ReplaceReadyTargetStep == ASSUME IInv, TypeOK', ReplaceReadyTarget PROVE IInv'
<1>0. Alive
  BY Zenon DEF IInv, Alive, ReplaceReadyTarget, Running
<1>a. /\ ready'.slot = ready.slot /\ ready'.txn = ready.txn /\ ready'.pred = ready.pred
      /\ ready.claim # 0 /\ ready'.claim # 0 /\ Owned(ready)
  BY Values, FrameFacts DEF ReplaceReadyTarget, Deferred, Later, Frame, Owned
<1>b. UNCHANGED <<current, pending, queued, rendering, quarantine, suspended, anchor, next, txn,
                  batch, signaled, armed, session, fatal>>
  BY Zenon DEF ReplaceReadyTarget, ledger, runtime
<1>1. SlotExclusive'
  BY <1>0, Values, FrameFacts, <1>a, <1>b DEF Alive, Bound, SlotExclusive, Apart, Holders,
     Owned, NoFrame
<1>2. Fresh'
  BY Zenon, <1>0, Values, FrameFacts, <1>a, <1>b
  DEF Alive, Bound, Fresh, Holders, Owned, NoFrame
<1>3. LedgerAgrees'
  BY <1>0, Values, FrameFacts, <1>a, <1>b DEF Alive, Bound, LedgerAgrees, Active, ActiveStates,
     Holders, Owned, Deferred, NoFrame
<1>4. FatalCauses' /\ ResumeWatched'
  BY Zenon, <1>0, Values, FrameFacts, <1>a, <1>b
  DEF Alive, Bound, FatalCauses, ResumeWatched, Holders, Owned, NoFrame
<1>5. fatal' = "no" => Lane'
  BY Zenon, <1>0, Values, FrameFacts, <1>a, <1>b
  DEF Alive, Bound, Lane, Bound, Deferred, Operational, LedgerAgrees, Owned, NoFrame
<1> QED BY Zenon, <1>1, <1>2, <1>3, <1>4, <1>5 DEF IInv

\* The worker gets the bound frame.
LEMMA QueueReadyStep == ASSUME IInv, TypeOK', QueueReady PROVE IInv'
<1>0. Alive
  BY Zenon DEF IInv, Alive, QueueReady, Running, Operational, Move, runtime
<1>1. SlotExclusive'
  BY ZenonT(60), <1>0, Values, FrameFacts
  DEF Alive, QueueReady, Running, Operational, Move, runtime,
     SlotExclusive, Apart, Holders, Owned, NoFrame
<1>2. Fresh'
  BY <1>0, Values, FrameFacts DEF Alive, QueueReady, Running, Operational, Move, runtime, Fresh,
     Holders, Owned, NoFrame
<1>3. LedgerAgrees'
  BY SMTT(60), <1>0, Values, FrameFacts
  DEF Alive, QueueReady, Running, Operational, Move, runtime, LedgerAgrees, Active,
      ActiveStates, Holders, Owned, Deferred, NoFrame
<1>4. FatalCauses' /\ ResumeWatched'
  BY Zenon, <1>0, Values, FrameFacts
  DEF Alive, QueueReady, Running, Operational, Move, runtime, FatalCauses, ResumeWatched,
      Holders, Owned, NoFrame
<1>5. fatal' = "no" => Lane'
  BY SMTT(60), <1>0, Values, FrameFacts
  DEF Alive, QueueReady, Running, Operational, Move, runtime, Lane, Bound, Deferred,
      Operational, LedgerAgrees, Owned, NoFrame
<1> QED BY Zenon, <1>1, <1>2, <1>3, <1>4, <1>5 DEF IInv

\* The kernel gets the frame of the worker.
LEMMA SubmittedStep == ASSUME IInv, TypeOK', Submitted PROVE IInv'
<1>0. Alive
  BY Zenon DEF IInv, Alive, Submitted, Running, Operational, Move
<1>1. SlotExclusive'
  BY ZenonT(60), <1>0, Values, FrameFacts
  DEF Alive, Submitted, Running, Operational, Move, SlotExclusive,
     Apart, Holders, Owned, NoFrame
<1>2. Fresh'
  BY <1>0, Values, FrameFacts DEF Alive, Submitted, Running, Operational, Move, Fresh, Holders,
     Owned, NoFrame
<1>3. LedgerAgrees'
  BY <1>0, Values, FrameFacts DEF Alive, Submitted, Running, Operational, Move, LedgerAgrees,
     Active, ActiveStates, Holders, Owned, Deferred, NoFrame
<1>4. FatalCauses' /\ ResumeWatched'
  BY Zenon, <1>0, Values, FrameFacts
  DEF Alive, Submitted, Running, Operational, Move, FatalCauses, ResumeWatched, Holders,
      Owned, NoFrame
<1>5. fatal' = "no" => Lane'
  BY SMTT(60), <1>0, Values, FrameFacts
  DEF Alive, Submitted, Running, Operational, Move, Lane, Bound, Deferred, Operational,
      LedgerAgrees, Owned, NoFrame
<1> QED BY Zenon, <1>1, <1>2, <1>3, <1>4, <1>5 DEF IInv

\* A refused frame poisons the pool, and with it the lane behind.
LEMMA RejectedStep == ASSUME IInv, TypeOK', Rejected PROVE IInv'
<1>0. Alive
  BY Zenon DEF IInv, Alive, Rejected, Running, Settle, runtime
<1>1. SlotExclusive'
  BY ZenonT(60), <1>0, Values, FrameFacts
  DEF Alive, Rejected, Running, Settle, runtime, SlotExclusive,
     Apart, Holders, Owned, NoFrame
<1>2. Fresh'
  BY <1>0, Values, FrameFacts DEF Alive, Rejected, Running, Settle, runtime, Fresh, Holders,
     Owned, NoFrame
<1>3. LedgerAgrees'
  <2>1. suspended = {} /\ suspended' = {}
    BY Zenon, <1>0 DEF Alive, Rejected, Running, Lane
  <2> QED
    BY SMTT(60), <2>1, <1>0, Values, FrameFacts
    DEF Alive, Rejected, Running, Settle, runtime, LedgerAgrees,
        Active, ActiveStates, Holders, Owned, Deferred, NoFrame
<1>4. FatalCauses' /\ ResumeWatched'
  BY Zenon, <1>0, Values, FrameFacts
  DEF Alive, Rejected, Running, Settle, runtime, FatalCauses, ResumeWatched, Holders, Owned,
      NoFrame
<1>5. fatal' = "no" => Lane'
  BY SMTT(60), <1>0, Values, FrameFacts
  DEF Alive, Rejected, Running, Settle, runtime, Lane, Bound, Deferred, Operational,
      LedgerAgrees, Owned, NoFrame
<1> QED BY Zenon, <1>1, <1>2, <1>3, <1>4, <1>5 DEF IInv

\* A fence signals.
LEMMA FenceSignalStep == ASSUME IInv, TypeOK', FenceSignal PROVE IInv'
<1>0. Alive
  BY Zenon DEF IInv, Alive, FenceSignal, swapchain, ledger
<1>1. SlotExclusive'
  BY Zenon, <1>0, Values, FrameFacts
  DEF Alive, FenceSignal, swapchain, ledger, SlotExclusive, Apart,
     Holders, Owned, NoFrame
<1>2. Fresh'
  BY Zenon, <1>0, Values, FrameFacts
  DEF Alive, FenceSignal, swapchain, ledger, Fresh, Holders, Owned,
     NoFrame
<1>3. LedgerAgrees'
  BY Zenon, <1>0, Values, FrameFacts
  DEF Alive, FenceSignal, swapchain, ledger, LedgerAgrees, Active,
     ActiveStates, Holders, Owned, Deferred, NoFrame
<1>4. FatalCauses' /\ ResumeWatched'
  BY Zenon, <1>0, Values, FrameFacts
  DEF Alive, FenceSignal, swapchain, ledger, FatalCauses, ResumeWatched, Holders, Owned,
      NoFrame
<1>5. fatal' = "no" => Lane'
  BY Zenon, <1>0, Values, FrameFacts
  DEF Alive, FenceSignal, swapchain, ledger, Lane, Bound, Deferred, Operational,
      LedgerAgrees, Owned, NoFrame
<1> QED BY Zenon, <1>1, <1>2, <1>3, <1>4, <1>5 DEF IInv

\* A fence wakes an active session, which holds no abandoned frame.
LEMMA FenceWakeStep == ASSUME IInv, TypeOK', FenceWake PROVE IInv'
<1>0. Alive
  BY Zenon DEF IInv, Alive, FenceWake, Running, Unrecovered, WatchFor, FencesSignaled, ledger
<1>1. SlotExclusive'
  BY Zenon, <1>0, Values, FrameFacts DEF Alive, FenceWake, Running, Unrecovered, WatchFor,
     FencesSignaled, ledger, SlotExclusive, Apart, Holders, Owned, NoFrame
<1>2. Fresh'
  BY Zenon, <1>0, Values, FrameFacts DEF Alive, FenceWake, Running, Unrecovered, WatchFor,
     FencesSignaled, ledger, Fresh, Holders, Owned, NoFrame
<1>3. LedgerAgrees'
  <2>1. suspended = {} /\ suspended' = {}
    BY Zenon, <1>0 DEF Alive, FenceWake, Running, Lane, Unrecovered
  <2>2. UNCHANGED <<pending, queued, ready, rendering, txn, batch, fatal, suspended>>
    BY Zenon, <2>1 DEF FenceWake, ledger
  <2>3. Active' = Active /\ Holders' = Holders
    BY Zenon, <2>2 DEF Active, Holders
  <2> QED
    BY Zenon, <2>2, <2>3, <1>0 DEF Alive, LedgerAgrees
<1>4. FatalCauses' /\ ResumeWatched'
  BY Zenon, <1>0, Values, FrameFacts
  DEF Alive, FenceWake, Running, Unrecovered, WatchFor, FencesSignaled, ledger, FatalCauses,
      ResumeWatched, Holders, Owned, NoFrame
<1>5. fatal' = "no" => Lane'
  BY Zenon, <1>0, Values, FrameFacts
  DEF Alive, FenceWake, Running, Unrecovered, WatchFor, FencesSignaled, ledger, Lane, Bound,
      Deferred, Operational, LedgerAgrees, Owned, NoFrame
<1> QED BY Zenon, <1>1, <1>2, <1>3, <1>4, <1>5 DEF IInv

\* A recovery is cut short.
LEMMA AbortResumeStep == ASSUME IInv, TypeOK', AbortResume PROVE IInv'
<1>0. Alive
  BY Zenon DEF IInv, Alive, AbortResume, swapchain, ledger
<1>1. SlotExclusive'
  BY Zenon, <1>0, Values, FrameFacts
  DEF Alive, AbortResume, swapchain, ledger, SlotExclusive, Apart,
     Holders, Owned, NoFrame
<1>2. Fresh'
  BY Zenon, <1>0, Values, FrameFacts
  DEF Alive, AbortResume, swapchain, ledger, Fresh, Holders, Owned,
     NoFrame
<1>3. LedgerAgrees'
  BY Zenon, <1>0, Values, FrameFacts
  DEF Alive, AbortResume, swapchain, ledger, LedgerAgrees, Active,
     ActiveStates, Holders, Owned, Deferred, NoFrame
<1>4. FatalCauses' /\ ResumeWatched'
  BY Zenon, <1>0, Values, FrameFacts
  DEF Alive, AbortResume, swapchain, ledger, FatalCauses, ResumeWatched, Holders, Owned,
      NoFrame
<1>5. fatal' = "no" => Lane'
  BY Zenon, <1>0, Values, FrameFacts
  DEF Alive, AbortResume, swapchain, ledger, Lane, Bound, Deferred,
     Operational, LedgerAgrees, Owned, NoFrame
<1> QED BY Zenon, <1>1, <1>2, <1>3, <1>4, <1>5 DEF IInv

\* An invalidated frame goes back to READY, or ends the runtime.
LEMMA ReplannedStep == ASSUME IInv, TypeOK', Replanned PROVE IInv'
<1>0. Alive
  BY Zenon DEF IInv, Alive, Replanned, Running, Move
<1>a. /\ Owned(queued) /\ queued.txn \in Txns /\ queued.claim # 0
      /\ session = "active" /\ suspended = {} /\ quarantine = 0
  BY Zenon, <1>0, Values, FrameFacts DEF Alive, Lane, Bound, Replanned, Running
<1>b. CASE Owned(ready)
  <2>1. fatal' = "replan" /\ UNCHANGED <<swapchain, ledger, session>>
    BY Zenon, <1>b DEF Replanned, swapchain, ledger
  <2>2. SlotExclusive' /\ Fresh'
    BY <2>1, <1>0, Values, FrameFacts
    DEF Alive, SlotExclusive, Apart, Fresh, Holders, Owned, NoFrame, swapchain, ledger, Replanned
  <2> QED BY Zenon, <2>1, <2>2 DEF IInv, LedgerAgrees, FatalCauses, ResumeWatched
<1>c. CASE ~Owned(ready)
  <2>1. /\ ready = NoFrame /\ ready' = queued /\ queued' = NoFrame
        /\ txn' = [txn EXCEPT ![queued.txn] = "ready"] /\ batch' = batch
        /\ fatal' \in {"no", "replan"} /\ (fatal' = "no" => ~Owned(rendering))
        /\ UNCHANGED <<current, pending, rendering, quarantine, suspended, last, anchor, gen, next,
                       signaled, armed, session, aborts>>
    BY Zenon, <1>c, <1>0, Values, FrameFacts DEF Replanned, Move, Alive
  <2>2. SlotExclusive' /\ Fresh' /\ FatalCauses' /\ ResumeWatched'
    BY SMTT(60), <2>1, <1>a, <1>0, Values, FrameFacts
    DEF Alive, SlotExclusive, Apart, Fresh, Holders, Owned, NoFrame, FatalCauses, ResumeWatched
  <2>3. LedgerAgrees'
    BY SMTT(60), <2>1, <1>a, <1>0, Values, FrameFacts
    DEF Alive, LedgerAgrees, Active, ActiveStates, Holders, Owned, Deferred, NoFrame
  <2>4. fatal' = "no" => Lane'
    BY SMTT(60), <2>1, <1>a, <1>0, Values, FrameFacts
    DEF Alive, Lane, LedgerAgrees, Bound, Operational, Owned, Deferred, NoFrame
  <2> QED BY Zenon, <2>2, <2>3, <2>4 DEF IInv
<1> QED BY Zenon, <1>b, <1>c

\* A finished frame is never stale: it becomes READY, bound if its primary is on the
\* screen and otherwise still behind a primary on its way.
LEMMA FinishPlain ==
    ASSUME IInv, Running, Owned(rendering), FinishRender
    PROVE  /\ rendering' = NoFrame /\ ready = NoFrame /\ suspended = {} /\ suspended' = {}
           /\ rendering.txn \in Txns /\ ready' \in Frame
           /\ ready'.txn = rendering.txn /\ ready'.slot = rendering.slot
           /\ Deferred(ready') => ready'.pred \in {queued.txn, pending.txn} \ {0}
           /\ ~Deferred(ready') => ~Owned(queued) /\ ~Owned(pending)
           /\ txn' = [txn EXCEPT ![rendering.txn] = IF Deferred(ready') THEN "unbound" ELSE "ready"]
           /\ UNCHANGED <<current, pending, queued, quarantine, anchor, next, batch, signaled,
                          armed, session, fatal>>
<1>0. Alive /\ session = "active"
  BY Zenon DEF IInv, Alive, Running
<1> DEFINE f == rendering
           stale == Stale(f, queued, pending, anchor)
<1>1. PICK c \in Later(last) :
        /\ Operational /\ ~Owned(ready)
        /\ rendering' = NoFrame
        /\ ready' = IF stale THEN NoFrame
                    ELSE IF Bindable(f, anchor) THEN [f EXCEPT !.claim = c] ELSE f
        /\ suspended' = IF stale THEN suspended \cup {f} ELSE suspended
        /\ IF stale THEN Settle(f.txn, "dropped", "completed")
           ELSE Move(f.txn, IF Deferred(ready') THEN "unbound" ELSE "ready")
        /\ UNCHANGED <<current, pending, queued, quarantine, last, anchor, gen, next, runtime>>
  BY Zenon DEF FinishRender
<1>2. /\ f \in Frame /\ f.txn \in Txns /\ f.txn # 0 /\ ready = NoFrame /\ suspended = {}
      /\ pending.txn \in 0..MaxTxn /\ queued.txn \in 0..MaxTxn
  BY Zenon, <1>0, <1>1, Values, FrameFacts DEF Alive, Lane, Owned
<1>3. Deferred(f) => f.pred \in IF Owned(queued) \/ Owned(pending)
                                THEN {queued.txn, pending.txn} \ {0} ELSE {anchor}
  BY Zenon, <1>0, <1>1 DEF Alive, Lane
<1>4. ~(Owned(queued) /\ Owned(pending))
  BY Zenon, <1>0 DEF Alive, Lane
<1>5. ~stale
  BY Zenon, <1>3, <1>4 DEF Stale, Predecessor, Owned
<1>6. Owned(queued) \/ Owned(pending) => anchor \notin {queued.txn, pending.txn} \ {0}
  BY Zenon, <1>0, Values, FrameFacts DEF Alive, Lane, LedgerAgrees, Owned
<1>7. c \in Nat \ {0}
  BY <1>1, Values DEF Later
<1>8. CASE Bindable(f, anchor)
  <2>1. /\ ready' = [f EXCEPT !.claim = c] /\ ready' \in Frame /\ ready'.claim = c
        /\ ready'.txn = f.txn /\ ready'.slot = f.slot
    BY Zenon, <1>1, <1>2, <1>5, <1>7, <1>8 DEF Frame
  <2>2. ~Owned(queued) /\ ~Owned(pending) /\ ~Deferred(ready')
    BY Zenon, <1>3, <1>6, <1>7, <1>8, <2>1 DEF Bindable, Deferred
  <2> QED BY Zenon, <1>1, <1>2, <1>5, <2>1, <2>2 DEF Move, runtime
<1>9. CASE ~Bindable(f, anchor)
  <2>1. ready' = f
    BY Zenon, <1>1, <1>5, <1>9
  <2>2. Deferred(f) => f.pred \in {queued.txn, pending.txn} \ {0}
    BY Zenon, <1>3, <1>9 DEF Bindable
  <2>3. ~Deferred(f) => ~Owned(queued) /\ ~Owned(pending)
    BY Zenon, <1>0 DEF Alive, Lane, Bound, Deferred
  <2> QED BY Zenon, <1>1, <1>2, <1>5, <2>1, <2>2, <2>3 DEF Move, runtime
<1> QED BY Zenon, <1>8, <1>9

\* A finished frame is the READY one.
LEMMA FinishRenderStep == ASSUME IInv, TypeOK', Running, Owned(rendering),
           FinishRender
    PROVE IInv'
<1>0. Alive
  BY Zenon DEF IInv, Alive, Running, Txns
<1>1. SlotExclusive'
  BY Zenon, <1>0, Values, FrameFacts, FinishPlain
  DEF Alive, Running, Txns, SlotExclusive, Apart,
     Holders, Owned, NoFrame
<1>2. Fresh'
  BY SMTT(60), <1>0, Values, FrameFacts, FinishPlain
  DEF Alive, Running, Txns, Fresh, Holders, Owned,
     NoFrame
<1>3. LedgerAgrees'
  BY <1>0, Values, FrameFacts, FinishPlain DEF Alive, Running, LedgerAgrees, Active,
     ActiveStates, Holders, Owned, Deferred, NoFrame
<1>4. FatalCauses' /\ ResumeWatched'
  BY Zenon, <1>0, Values, FrameFacts, FinishPlain
  DEF Alive, Running, Txns, FatalCauses, ResumeWatched, Holders, Owned, NoFrame
<1>5. fatal' = "no" => Lane'
  <2>1. ~Owned(rendering') /\ Owned(ready')
    <3>1. ~Owned(NoFrame)
      BY SMT DEF Owned, NoFrame
    <3>2. rendering' = NoFrame /\ ready'.txn = rendering.txn
      BY Zenon, FinishPlain
    <3> QED BY Zenon, <3>1, <3>2 DEF Owned
  <2>2. anchor' # 0 => txn'[anchor'] = "presented"
    <3>1. txn[rendering.txn] # "presented"
      BY Zenon, <1>0 DEF Alive, LedgerAgrees
    <3>2. anchor # 0 => txn[anchor] = "presented"
      BY Zenon, <1>0 DEF Alive, Lane
    <3>3. anchor' = anchor /\ (anchor # 0 => anchor \in Txns)
      BY SMTT(60), FinishPlain, Values DEF Txns
    <3>4. anchor # 0 => txn'[anchor] = txn[anchor]
      BY Zenon, <3>1, <3>2, <3>3, FinishPlain, Values
    <3> QED BY Zenon, <3>2, <3>3, <3>4
  <2>3. Bound(ready') => ~Owned(pending') /\ ~Owned(queued')
    BY Zenon, FinishPlain DEF Bound, Deferred
  <2>4. Deferred(ready') => ready'.pred \in {queued'.txn, pending'.txn} \ {0}
    BY Zenon, FinishPlain
  <2>5. ~Bound(rendering') /\ ~Deferred(rendering')
    BY Zenon, <2>1 DEF Bound, Deferred
  <2>6. /\ Owned(pending') => Bound(pending')
        /\ Owned(queued') => Bound(queued')
        /\ ~(Bound(pending') /\ Bound(queued'))
        /\ quarantine' # 0 => ~Owned(queued') /\ ~Owned(pending')
    BY Zenon, <1>0, FinishPlain DEF Alive, Lane
  <2>7. session' = "active" /\ suspended' = {}
    BY Zenon, FinishPlain DEF Running
  <2> QED BY Zenon, <2>1, <2>2, <2>3, <2>4, <2>5, <2>6, <2>7 DEF Lane
<1> QED BY Zenon, <1>1, <1>2, <1>3, <1>4, <1>5 DEF IInv

\* A frame is refused by a poisoned pool only.
LEMMA RefuseRenderStep == ASSUME IInv, TypeOK', Running, Owned(rendering),
           RefuseRender
    PROVE IInv'
<1>0. Alive
  BY Zenon DEF IInv, Alive, RefuseRender, Running, Settle, swapchain
<1>1. SlotExclusive'
  BY Zenon, <1>0, Values, FrameFacts DEF Alive, RefuseRender, Running, Settle, swapchain,
     SlotExclusive, Apart, Holders, Owned, NoFrame
<1>2. Fresh'
  BY SMTT(60), <1>0, Values, FrameFacts
  DEF Alive, RefuseRender, Running, Settle, swapchain, Fresh, Holders, Owned, NoFrame
<1>3. LedgerAgrees'
  BY Zenon  DEF RefuseRender, LedgerAgrees
<1>4. FatalCauses' /\ ResumeWatched'
  BY Zenon, <1>0
  DEF Alive, Lane, RefuseRender, Operational, FatalCauses, ResumeWatched, Running, swapchain
<1>5. fatal' = "no" => Lane'
  BY Zenon DEF RefuseRender
<1> QED BY Zenon, <1>1, <1>2, <1>3, <1>4, <1>5 DEF IInv

\* A frame given up returns its slot and its transaction.
LEMMA AbandonRenderStep == ASSUME IInv, TypeOK', Running, Owned(rendering),
           NEW a \in {"dropped", "failed"}, NEW o \in {"completed", "restored"},
           AbandonRender(a, o)
    PROVE IInv'
<1>0. Alive
  BY Zenon DEF IInv, Alive, AbandonRender, Running, Settle, runtime
<1>1. SlotExclusive'
  BY <1>0, Values, FrameFacts DEF Alive, AbandonRender, Running, Settle, runtime, SlotExclusive,
     Apart, Holders, Owned, NoFrame
<1>2. Fresh'
  BY SMTT(60), <1>0, Values, FrameFacts
  DEF Alive, AbandonRender, Running, Settle, runtime, Fresh, Holders, Owned, NoFrame
<1>3. LedgerAgrees'
  BY <1>0, Values, FrameFacts DEF Alive, AbandonRender, Running, Settle, runtime, LedgerAgrees,
     Active, ActiveStates, Holders, Owned, Deferred, NoFrame
<1>4. FatalCauses' /\ ResumeWatched'
  BY Zenon, <1>0, Values, FrameFacts
  DEF Alive, AbandonRender, Running, Settle, runtime, FatalCauses, ResumeWatched, Holders,
      Owned, NoFrame
<1>5. fatal' = "no" => Lane'
  BY <1>0, Values, FrameFacts DEF Alive, AbandonRender, Running, Settle, runtime, Lane, Bound,
     Deferred, Operational, LedgerAgrees, Owned, NoFrame
<1> QED BY Zenon, <1>1, <1>2, <1>3, <1>4, <1>5 DEF IInv

\* A failed render ends the runtime.
LEMMA FailRenderStep == ASSUME IInv, TypeOK', Running, Owned(rendering),
           NEW gpuStarted \in BOOLEAN, FailRender(gpuStarted)
    PROVE IInv'
<1>0. Alive
  BY Zenon DEF IInv, Alive, FailRender, Running, Settle
<1>1. SlotExclusive'
  BY <1>0, Values, FrameFacts DEF Alive, FailRender, Running, Settle, SlotExclusive, Apart,
     Holders, Owned, NoFrame
<1>2. Fresh'
  BY SMTT(60), <1>0, Values, FrameFacts
  DEF Alive, FailRender, Running, Settle, Fresh, Holders, Owned, NoFrame
<1>3. LedgerAgrees'
  BY Zenon DEF FailRender, LedgerAgrees
<1>4. FatalCauses' /\ ResumeWatched'
  BY Zenon DEF FailRender, FatalCauses, ResumeWatched
<1>5. fatal' = "no" => Lane'
  BY Zenon DEF FailRender
<1> QED BY Zenon, <1>1, <1>2, <1>3, <1>4, <1>5 DEF IInv

\* The frame of the kernel is on the screen and the one behind it bound.
LEMMA PageFlipStep == ASSUME IInv, TypeOK', PageFlip PROVE IInv'
<1>0. Alive
  BY Zenon DEF IInv, Alive, PageFlip, Running
<1>1. SlotExclusive'
  BY SMTT(60), <1>0, Values, FrameFacts, FlipPlain
  DEF Alive, Running, Txns, SlotExclusive, Apart, Holders, Owned, NoFrame
<1>2. Fresh'
  BY SMTT(60), <1>0, Values, FrameFacts, FlipPlain
  DEF Alive, Running, Txns, Fresh, Holders, Owned,
     NoFrame
<1>3. LedgerAgrees'
  <2>1. /\ pending.txn \in Txns /\ (Owned(ready) => ready.txn \in Txns)
        /\ (Owned(rendering) => rendering.txn \in Txns)
    BY Zenon, FlipPlain, Values, FrameFacts
  <2>2. /\ txn[pending.txn] = "submitted" /\ (Owned(ready) => txn[ready.txn] = "unbound")
        /\ (Owned(rendering) => txn[rendering.txn] = "built")
    BY Zenon, FlipPlain, <1>0 DEF Alive, LedgerAgrees, Bound, Deferred
  <2>3. Active' = Active \ {pending.txn}
    BY ZenonT(60), FlipPlain, <2>1, <2>2 DEF Active, ActiveStates
  <2>4. \A t \in Txns : batch'[t] = "held" <=> t \in Active'
    BY ZenonT(60), FlipPlain, <2>3, <1>0 DEF Alive, LedgerAgrees
  <2>5. Active' \subseteq {f.txn : f \in Holders'}
    <3> SUFFICES ASSUME NEW t \in Active' PROVE \E f \in Holders' : f.txn = t
      BY Zenon
    <3>1. PICK f \in Holders : f.txn = t
      BY Zenon, <2>3, <1>0 DEF Alive, LedgerAgrees
    <3>2. f \in {ready, rendering} /\ Owned(f)
      BY SMTT(60), <2>3, <3>1, FlipPlain DEF Holders, Owned, NoFrame
    <3> QED BY Zenon, <3>1, <3>2, FlipPlain DEF Holders
  <2>6. Owned(rendering) => txn'[rendering.txn] = "built"
    BY Zenon, <2>1, <2>2, FlipPlain
  <2>7. Owned(ready) => txn'[ready.txn] = "ready"
    BY Zenon, <2>1, <2>2, FlipPlain
  <2> QED BY <2>4, <2>5, <2>6, <2>7, FlipPlain DEF LedgerAgrees, Deferred, Owned, NoFrame
<1>4. FatalCauses' /\ ResumeWatched'
  BY Zenon, <1>0, Values, FrameFacts, FlipPlain
  DEF Alive, Running, Txns, FatalCauses, ResumeWatched, Holders, Owned, NoFrame
<1>5. fatal' = "no" => Lane'
  BY SMTT(60), <1>0, Values, FrameFacts, FlipPlain
  DEF Alive, Running, Txns, Lane, Bound, Deferred, Operational, LedgerAgrees, Owned, NoFrame
<1> QED BY Zenon, <1>1, <1>2, <1>3, <1>4, <1>5 DEF IInv

\* At most the worker's frame and the READY one are abandoned, which the swapchain can hold.
LEMMA AtMostTwo ==
    ASSUME NEW f, NEW g, NEW S \in SUBSET {f, g} PROVE ~(Cardinality(S) > SuspendCapacity)
<1>1. IsFiniteSet({f}) /\ Cardinality({f}) = 1
  BY ZenonT(60), FS_Singleton
<1>2. IsFiniteSet({f} \cup {g}) /\ Cardinality({f} \cup {g}) <= 2
  <2>1. /\ IsFiniteSet({f} \cup {g})
        /\ \/ Cardinality({f} \cup {g}) = Cardinality({f})
           \/ Cardinality({f} \cup {g}) = Cardinality({f}) + 1
    BY <1>1, FS_AddElement, Zenon
  <2> QED BY <1>1, <2>1
<1>3. {f, g} = {f} \cup {g}
  BY Zenon
<1>4. IsFiniteSet(S) /\ Cardinality(S) <= Cardinality({f, g})
  BY Zenon, <1>2, <1>3, FS_Subset
<1>5. Cardinality(S) \in Nat /\ Cardinality({f, g}) \in Nat
  BY ZenonT(60), <1>2, <1>3, <1>4, FS_CardinalityType
<1> QED BY <1>2, <1>3, <1>4, <1>5 DEF SuspendCapacity

\* A session switch abandons the worker's frame and the READY one, which fit, and settles
\* nothing; or it finds the pool poisoned.
LEMMA SuspendPlain ==
    ASSUME IInv, Suspend
    PROVE  /\ Alive /\ session = "active" /\ ~Owned(rendering) /\ suspended = {}
           /\ UNCHANGED <<current, pending, rendering, quarantine, anchor, next, txn, batch,
                          signaled>>
           /\ IF quarantine # 0
              THEN /\ fatal' = "poisoned" /\ UNCHANGED <<queued, ready, suspended, session>>
              ELSE /\ suspended' = {f \in {queued, ready} : Owned(f)}
                   /\ queued' = NoFrame /\ ready' = NoFrame
                   /\ session' = "suspended" /\ fatal' = "no"
<1>0. Alive /\ session = "active" /\ ~Owned(rendering) /\ suspended = {}
  BY Zenon DEF IInv, Alive, Suspend, Running, Lane
<1>1. UNCHANGED <<current, pending, rendering, quarantine, anchor, next, txn, batch, signaled>>
  BY Zenon DEF Suspend, ledger
<1>2. CASE quarantine # 0
  BY Zenon, <1>0, <1>1, <1>2 DEF Suspend
<1>3. CASE quarantine = 0
  <2> DEFINE left == {f \in {queued, ready} : Owned(f)}
  <2>1. suspended \cup Retained \cup {f \in {ready} : Owned(f)} = left
    BY Zenon, <1>0 DEF Retained
  <2>2. ~(Cardinality(left) > SuspendCapacity)
    BY Zenon, AtMostTwo
  <2>3. /\ suspended' = left /\ queued' = NoFrame /\ ready' = NoFrame
        /\ session' = "suspended" /\ fatal' = fatal
    BY Zenon, <2>1, <2>2, <1>3 DEF Suspend
  <2> QED BY Zenon, <2>3, <1>0, <1>1, <1>3 DEF Alive
<1> QED BY Zenon, <1>2, <1>3

\* A session switch keeps the invariant: what it abandons keeps its transaction.
LEMMA SuspendStep == ASSUME IInv, TypeOK', Suspend PROVE IInv'
<1>0. /\ Alive /\ session = "active" /\ ~Owned(rendering) /\ suspended = {}
      /\ UNCHANGED <<current, pending, rendering, quarantine, anchor, next, txn, batch, signaled>>
  BY Zenon, SuspendPlain
<1>1. CASE quarantine # 0
  <2>1. fatal' = "poisoned" /\ UNCHANGED <<queued, ready, suspended, session>>
    BY Zenon, <1>1, SuspendPlain
  <2> QED
    BY ZenonT(60), <2>1, <1>0, <1>1
    DEF IInv, Alive, SlotExclusive, Apart, Fresh, Holders, LedgerAgrees, FatalCauses,
        ResumeWatched
<1>2. CASE quarantine = 0
  <2>1. /\ suspended' = {f \in {queued, ready} : Owned(f)}
        /\ queued' = NoFrame /\ ready' = NoFrame
        /\ session' = "suspended" /\ fatal' = "no"
    BY Zenon, <1>2, SuspendPlain
  <2>2. /\ \A f \in suspended' : Owned(f) /\ f \in {queued, ready}
        /\ Owned(ready) => ready \in suspended'
        /\ Owned(queued) => queued \in suspended'
        /\ ~Owned(NoFrame)
    BY Zenon, <2>1 DEF Owned, NoFrame
  <2>3. Holders' = Holders
    BY Zenon, <2>1, <2>2, <1>0 DEF Holders
  <2>4. SlotExclusive'
    BY SMTT(60), <2>1, <2>2, <2>3, <1>0 DEF Alive, SlotExclusive, Apart
  <2>5. Fresh'
    BY Zenon, <2>3, <1>0 DEF Alive, Fresh
  <2>6. Active' = Active
    BY Zenon, <1>0 DEF Active
  <2>7. \A f \in suspended' : txn[f.txn] \in {"ready", "unbound", "queued"}
    BY Zenon, <2>2, <1>0 DEF Alive, LedgerAgrees
  <2>8. LedgerAgrees'
    BY Zenon, <2>1, <2>2, <2>3, <2>6, <2>7, <1>0 DEF Alive, LedgerAgrees
  <2>9. Lane'
    BY Zenon, <2>1, <2>2, <1>0, <1>2 DEF Alive, Lane, Bound, Deferred
  <2> QED
    BY Zenon, <2>1, <2>4, <2>5, <2>8, <2>9 DEF IInv, FatalCauses, ResumeWatched
<1> QED BY Zenon, <1>1, <1>2

\* A recovery retires all that was abandoned once every fence has signaled; until then it
\* watches one of them.
LEMMA RecoverStep ==
    ASSUME IInv, TypeOK', fatal = "no", session # "active", Recover,
           UNCHANGED <<current, queued, ready, rendering, quarantine, next, signaled, replans,
                       aborts>>
    PROVE  IInv'
<1>0. /\ Alive /\ queued = NoFrame /\ ready = NoFrame /\ rendering = NoFrame /\ quarantine = 0
  BY Zenon, Values, FrameFacts DEF IInv, Alive, Lane
<1> DEFINE held == suspended \cup {f \in {pending} : Owned(f)}
<1>1. held \subseteq Frame /\ held = Holders
  <2>1. \A f \in Frame : Owned(f)
    BY DEF Owned, Frame, Txns
  <2> QED BY Zenon, <2>1, <1>0, Values, FrameFacts DEF Holders, Owned, NoFrame
<1>2. ~Owned(NoFrame)
  BY Zenon  DEF Owned, NoFrame
<1>3. CASE FencesSignaled(held)
  <2>1. /\ suspended' = {} /\ pending' = NoFrame /\ fatal' = "no" /\ session' = "active"
        /\ anchor' = 0
        /\ txn' = [t \in Txns |-> IF t \in Active THEN "dropped" ELSE txn[t]]
        /\ batch' = [t \in Txns |-> IF t \in Active THEN "completed" ELSE batch[t]]
    BY Zenon, <1>0, <1>2, <1>3 DEF Recover
  <2>2. Holders' = {} /\ Active' = {}
    BY Zenon, <2>1, <1>0, <1>2 DEF Holders, Active, ActiveStates
  <2>3. SlotExclusive'
    BY Zenon, <2>1, <2>2, <1>0, <1>2 DEF SlotExclusive, Apart, Alive
  <2>4. Fresh'
    BY SMTT(60), <2>1, <2>2, <1>0, Values DEF Fresh, Alive, Active, ActiveStates
  <2>5. LedgerAgrees'
    BY Zenon, <2>1, <2>2, <1>0, <1>2 DEF LedgerAgrees, Alive
  <2> QED
    BY ZenonT(60), <2>1, <2>3, <2>4, <2>5, <1>0, <1>2
    DEF IInv, Lane, Bound, Deferred, FatalCauses, ResumeWatched
<1>4. CASE ~FencesSignaled(held)
  <2>1. /\ armed' = FenceToWatch(held) /\ session' = "resuming"
        /\ UNCHANGED <<suspended, pending, txn, batch, fatal, anchor>>
    BY Zenon, <1>4 DEF Recover
  <2>2. \E f \in Holders : f.txn = armed'
    BY Zenon, <2>1, <1>1, <1>4, WatchedFence
  <2>3. Holders' = Holders /\ Active' = Active
    BY ZenonT(60), <2>1 DEF Holders, Active
  <2> QED
    BY ZenonT(60), <2>1, <2>2, <2>3, <1>0, <1>2
    DEF IInv, Alive, SlotExclusive, Apart, Fresh, LedgerAgrees, Lane, Bound, Deferred,
        Operational, FatalCauses, ResumeWatched
<1> QED BY Zenon, <1>3, <1>4

\* Every step keeps the invariant.
LEMMA PipelineStep == IInv /\ [Next]_vars => IInv'
<1> SUFFICES ASSUME IInv, [Next]_vars PROVE IInv'
  BY Zenon
<1>0. TypeOK'
  BY Zenon, TypeStep DEF IInv
<1>1. CASE Render
  <2>1. PICK c \in Later(last) : StartFrame(c, 0)
    BY Zenon, <1>1 DEF Render
  <2>2. c \in Nat /\ c # 0
    BY Values DEF Later
  <2> QED BY <1>0, <1>1, <2>1, <2>2, StartFrameStep DEF Render
<1>2. CASE RenderAhead
  <2>1. Predecessor(queued, pending) \in 0..MaxTxn
    BY Zenon, Values, FrameFacts DEF Predecessor
  <2> QED BY Zenon, <1>0, <1>2, <2>1, StartFrameStep DEF RenderAhead
<1>3. CASE RenderCompletion
  BY Zenon, <1>0, <1>3, FinishRenderStep, RefuseRenderStep, AbandonRenderStep, FailRenderStep
  DEF RenderCompletion
<1>4. CASE ReplaceReadyTarget
  BY Zenon, <1>0, <1>4, ReplaceReadyTargetStep
<1>5. CASE QueueReady
  BY ZenonT(60), <1>0, <1>5, QueueReadyStep
<1>6. CASE Submitted
  BY Zenon, <1>0, <1>6, SubmittedStep
<1>7. CASE Rejected
  BY Zenon, <1>0, <1>7, RejectedStep
<1>8. CASE Replanned
  BY Zenon, <1>0, <1>8, ReplannedStep
<1>9. CASE PageFlip
  BY Zenon, <1>0, <1>9, PageFlipStep
<1>10. CASE FenceSignal
  BY Zenon, <1>0, <1>10, FenceSignalStep
<1>11. CASE FenceWake
  BY Zenon, <1>0, <1>11, FenceWakeStep
<1>12. CASE Suspend
  BY Zenon, <1>0, <1>12, SuspendStep
<1>13. CASE Resume \/ ContinueResume
  BY Zenon, <1>0, <1>13, RecoverStep DEF Resume, ContinueResume
<1>14. CASE AbortResume
  BY Zenon, <1>0, <1>14, AbortResumeStep
<1>15. CASE UNCHANGED vars
  <2>0. UNCHANGED swapchain /\ UNCHANGED ledger /\ UNCHANGED runtime
    BY Zenon, <1>15 DEF vars
  <2>1. Holders' = Holders /\ Active' = Active
    BY Zenon, <2>0 DEF swapchain, ledger, Holders, Active
  <2>2. SlotExclusive'
    BY Zenon, <2>0, <2>1 DEF IInv, swapchain, SlotExclusive, Apart
  <2>3. Fresh' /\ LedgerAgrees'
    BY Zenon, <2>0, <2>1 DEF IInv, swapchain, ledger, runtime, Fresh, LedgerAgrees
  <2>4. FatalCauses' /\ ResumeWatched'
    BY ZenonT(60), <2>0, <2>1 DEF IInv, swapchain, runtime, FatalCauses, ResumeWatched
  <2>5. fatal' = "no" => Lane'
    BY Zenon, <2>0 DEF IInv, swapchain, ledger, runtime, Lane, Operational
  <2> QED BY Zenon, <1>0, <2>2, <2>3, <2>4, <2>5 DEF IInv
<1> QED
  BY Zenon, <1>1, <1>2, <1>3, <1>4, <1>5, <1>6, <1>7, <1>8, <1>9, <1>10, <1>11, <1>12, <1>13, <1>14,
     <1>15
  DEF Next

\* The runtime starts with an idle lane.
LEMMA PipelineInit == Init => IInv
<1> SUFFICES ASSUME Init PROVE IInv
  BY Zenon
<1>1. TypeOK
  BY SMTT(60) DEF Init, TypeOK, TxnState, BatchState, Txns
<1>2. Holders = {} /\ Active = {} /\ ~Owned(NoFrame)
  BY SMTT(60) DEF Init, Holders, Active, ActiveStates, Owned, NoFrame
<1>3. SlotExclusive
  BY Zenon, <1>2 DEF Init, SlotExclusive, Apart
<1>4. Fresh /\ LedgerAgrees /\ FatalCauses /\ ResumeWatched
  BY SMTT(60), <1>2 DEF Init, Fresh, LedgerAgrees, FatalCauses, ResumeWatched
<1>5. Lane
  BY Zenon, <1>2 DEF Init, Lane, Bound, Deferred
<1> QED BY Zenon, <1>1, <1>3, <1>4, <1>5 DEF IInv

\* The invariant holds in every behaviour.
LEMMA PipelineInvariant == Spec => []IInv
BY PipelineInit, PipelineStep, PTL DEF Spec

\* No buffer ever has two owners: what is on the screen, in the kernel, with the worker or
\* with the renderer is never drawn to again before it is given back (the roles of
\* output_swapchain.rs), for any pool and any number of frames and session switches.
THEOREM BuffersExclusive == Spec => []SlotExclusive
<1>1. IInv => SlotExclusive
  BY Zenon DEF IInv
<1> QED BY <1>1, PipelineInvariant, PTL

\* Ledger and swapchain always agree, a deferred frame waits for a live primary, and the
\* runtime stops for the failures FatalCauses lists alone (ledger.rs, presentation.rs).
THEOREM LedgerSound == Spec => []LedgerInv
<1>1. IInv => LedgerInv
  <2> SUFFICES ASSUME IInv PROVE LedgerInv
    BY Zenon
  <2>1. DeferredWaitsForLive
    BY Zenon DEF IInv, DeferredWaitsForLive, Lane
  <2> QED BY Zenon, <2>1 DEF IInv, LedgerInv
<1> QED BY <1>1, PipelineInvariant, PTL

\* A buffer goes back to the pool only after the fence of its frame has signaled
\* (recover_suspended_frames, output_swapchain.rs).
THEOREM ReuseSafe == Spec => ReuseAfterFence
<1> DEFINE Reuse == \A f \in {pending, queued, ready} \cup suspended :
                      Owned(f) /\ f.slot \in FreeSlots' => f.txn \in signaled
<1>1. ASSUME IInv, [Next]_vars PROVE Reuse
  <2> SUFFICES ASSUME NEW f \in {pending, queued, ready} \cup suspended, Owned(f),
                      f.txn \notin signaled
               PROVE  f.slot \notin FreeSlots'
    BY Zenon
  <2>h. ASSUME \/ f.slot \in {current', quarantine'}
               \/ \E g \in {pending', queued', ready', rendering'} \cup suspended' :
                    g.slot = f.slot
        PROVE  f.slot \notin FreeSlots'
    BY Zenon, <2>h DEF FreeSlots
  <2>0. ~Owned(NoFrame)
    BY Zenon DEF Owned, NoFrame
  <2>1. CASE UNCHANGED <<pending, queued, ready, suspended>>
    BY Zenon, <2>1, <2>h
  <2>2. CASE RenderCompletion
    <3>1. CASE FinishRender
      <4>1. /\ ready = NoFrame /\ suspended = {} /\ UNCHANGED <<pending, queued>>
        BY ZenonT(60), <3>1, <2>2, <1>1, FinishPlain DEF RenderCompletion
      <4> QED BY Zenon, <4>1, <2>0, <2>h
    <3>2. CASE UNCHANGED <<pending, queued, ready, suspended>>
      BY Zenon, <3>2, <2>1
    <3> QED BY Zenon, <2>2, <3>1, <3>2
      DEF RenderCompletion, RefuseRender, AbandonRender, FailRender, swapchain
  <2>3. CASE ReplaceReadyTarget
    <3>1. ready'.slot = ready.slot /\ UNCHANGED <<pending, queued, suspended>>
      <4>1. ready \in Frame
        BY Zenon, <1>1, <2>3, Values, FrameFacts DEF ReplaceReadyTarget
      <4> QED BY Zenon, <4>1, <2>3 DEF ReplaceReadyTarget, Frame
    <3> QED BY Zenon, <3>1, <2>h
  <2>4. CASE QueueReady
    BY Zenon, <2>4, <2>h, <2>0 DEF QueueReady
  <2>5. CASE Submitted
    BY Zenon, <2>5, <2>h DEF Submitted
  <2>6. CASE Rejected
    BY Zenon, <2>6, <2>h DEF Rejected
  <2>7. CASE Replanned
    BY Zenon, <2>7, <2>h DEF Replanned
  <2>8. CASE PageFlip
    <3>1. /\ queued = NoFrame /\ suspended = {} /\ current' = pending.slot
          /\ Owned(ready) => ready'.slot = ready.slot
      BY Zenon, <1>1, <2>8, FlipPlain
    <3> QED BY Zenon, <3>1, <2>0, <2>h
  <2>9. CASE FenceWake
    <3>1. suspended = {} /\ UNCHANGED <<pending, queued, ready>>
      BY Zenon, <1>1, <2>9 DEF FenceWake, Running, IInv, Lane
    <3> QED BY Zenon, <3>1, <2>h
  <2>10. CASE Suspend
    <3>1. suspended = {} /\ pending' = pending
      BY Zenon, <1>1, <2>10, SuspendPlain
    <3>2. CASE quarantine # 0
      BY Zenon, <1>1, <2>10, <3>2, <2>1, SuspendPlain
    <3>3. CASE quarantine = 0
      <4>1. suspended' = {g \in {queued, ready} : Owned(g)}
        BY Zenon, <1>1, <2>10, <3>3, SuspendPlain
      <4> QED BY Zenon, <4>1, <3>1, <2>h
    <3> QED BY Zenon, <3>2, <3>3
  <2>11. CASE Resume \/ ContinueResume
    <3>1. /\ fatal = "no" /\ session # "active" /\ Recover
          /\ UNCHANGED <<queued, ready>>
      BY Zenon, <2>11 DEF Resume, ContinueResume
    <3>2. CASE UNCHANGED <<suspended, pending>>
      BY Zenon, <3>1, <3>2, <2>1
    <3>3. CASE FencesSignaled(suspended \cup {g \in {pending} : Owned(g)})
      <4>1. f \notin suspended \cup {g \in {pending} : Owned(g)}
        BY Zenon, <3>3 DEF FencesSignaled
      <4> QED BY Zenon, <4>1, <3>1, <2>h
    <3> QED BY Zenon, <3>1, <3>2, <3>3 DEF Recover
  <2> QED
    BY ZenonT(60), <1>1, <2>1, <2>2, <2>3, <2>4, <2>5, <2>6, <2>7, <2>8, <2>9, <2>10, <2>11
    DEF Next, Render, RenderAhead, StartFrame, FenceSignal, AbortResume, vars, swapchain
<1>2. IInv /\ [Next]_vars => [Reuse]_vars
  BY Zenon, <1>1
<1> QED BY <1>2, PipelineInvariant, PTL DEF Spec, ReuseAfterFence

\* A frame has one outcome for its clients, and prepared work is abandoned by session
\* switches alone (the terminal settlements of ledger.rs).
THEOREM OutcomeUnique == Spec => OneOutcome
<1> DEFINE Once == \A t \in Txns : batch[t] \notin {"none", "held"} => batch'[t] = batch[t]
           Kept == session = "active" /\ session' = "active" => suspended' \subseteq suspended
<1>1. ASSUME IInv, [Next]_vars PROVE Once
  <2> SUFFICES ASSUME NEW t \in Txns, batch[t] \notin {"none", "held"}
               PROVE  batch'[t] = batch[t]
    BY Zenon
  <2>1. fatal = "no" => t \notin Active
    BY Zenon, <1>1 DEF IInv, LedgerAgrees
  <2>2. t < next
    BY SMTT(60), <1>1, Values DEF IInv, Fresh, Txns
  <2>3. ASSUME NEW a, NEW s, NEW o, Settle(a, s, o), a # t PROVE batch'[t] = batch[t]
    BY Zenon, <1>1, <2>3, Values DEF Settle
  <2>4. /\ fatal = "no" /\ Owned(rendering) => t # rendering.txn
        /\ fatal = "no" /\ Owned(queued) => t # queued.txn
        /\ fatal = "no" /\ Owned(pending) => t # pending.txn
    BY Zenon, <1>1, <2>1 DEF IInv, LedgerAgrees, Active, ActiveStates
  <2>5. CASE Render \/ RenderAhead
    <3>1. Settle(next, "built", "held")
      BY ZenonT(60), <2>5 DEF Render, RenderAhead, StartFrame
    <3>2. next # t
      BY <2>2, <1>1, Values DEF Txns
    <3> QED BY Zenon, <3>1, <3>2, <2>3
  <2>6. CASE RenderCompletion
    <3>1. t # rendering.txn
      BY Zenon, <2>6, <2>4 DEF RenderCompletion, Running
    <3> QED BY Zenon, <2>6, <2>3, <3>1
      DEF RenderCompletion, FinishRender, RefuseRender, AbandonRender, FailRender, Move
  <2>7. CASE Rejected
    BY Zenon, <2>7, <2>3, <2>4 DEF Rejected, Running
  <2>8. CASE PageFlip
    BY ZenonT(60), <1>1, <2>8, <2>4, FlipPlain
  <2>9. CASE Suspend
    BY Zenon, <2>9 DEF Suspend, ledger
  <2>10. CASE Resume \/ ContinueResume
    BY Zenon, <2>10, <2>1 DEF Resume, ContinueResume, Recover
  <2> QED
    BY Zenon, <1>1, <2>5, <2>6, <2>7, <2>8, <2>9, <2>10
    DEF Next, ReplaceReadyTarget, QueueReady, Submitted, Replanned, FenceSignal, FenceWake,
        AbortResume, Move, vars, ledger
<1>2. ASSUME IInv, [Next]_vars PROVE Kept
  <2>1. CASE RenderCompletion
    BY Zenon, <1>2, <2>1, FinishPlain
    DEF RenderCompletion, RefuseRender, AbandonRender, FailRender, swapchain
  <2>2. CASE PageFlip
    BY ZenonT(60), <1>2, <2>2, FlipPlain
  <2>3. CASE FenceWake
    BY Zenon, <2>3 DEF FenceWake, Unrecovered
  <2>4. CASE Suspend
    BY Zenon, <2>4 DEF Suspend
  <2>5. CASE Resume \/ ContinueResume
    BY Zenon, <2>5 DEF Resume, ContinueResume
  <2> QED
    BY Zenon, <1>2, <2>1, <2>2, <2>3, <2>4, <2>5
    DEF Next, Render, RenderAhead, StartFrame, ReplaceReadyTarget, QueueReady, Submitted,
        Rejected, Replanned, FenceSignal, AbortResume, vars, swapchain
<1>3. IInv /\ [Next]_vars => [Once]_vars /\ [Kept]_vars
  BY Zenon, <1>1, <1>2
<1> QED BY <1>3, PipelineInvariant, PTL DEF Spec, OneOutcome, SettledOnce, NeverOvertaken
==============================================================================
