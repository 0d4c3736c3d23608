------------------------- MODULE RenderWorkerProofs -------------------------
(***************************************************************************)
(* No other step of the reactor breaks the invariant, so that what the     *)
(* reactor and the render worker promise each other holds for every        *)
(* capacity of the control lane, every number of pools, generations and    *)
(* reloads, and every set of faults.                                       *)
(***************************************************************************)
EXTENDS RenderWorkerInvariant

-----------------------------------------------------------------------------
(* The reactor: jobs *)

\* What a command carries.
JobOK(j) ==
  /\ CommandOK(j) /\ j.kind \in JobKinds /\ j.epoch = lane.epoch
  /\ j.controls = IF j.kind = "discard" THEN <<>> ELSE lane.pending
  /\ j.effects = registry /\ j.want = want

\* A render command carries the whole pending batch and the epoch of the lane.
LEMMA CommandTyped ==
  ASSUME RenderInv, NEW kind \in JobKinds \ {"discard"}, NEW bo \in 0..MaxPool, NEW gen \in 0..MaxGen
  PROVE JobOK(Command(kind, bo, gen))
<1>1. /\ want \in Domain /\ want.cursor \in 1..2 /\ registry \in 0..MaxReload
      /\ lane.pending \in Seq(Controls) /\ lane.epoch \in Nat
  BY Zenon DEF RenderInv, Types, ReactorTypes, LaneTypes, LaneOK
<1> QED BY Zenon, <1>1 DEF JobOK, CommandOK, Command, JobKinds

\* A discard command carries no control.
LEMMA DiscardTyped ==
  ASSUME RenderInv, NEW bo \in 0..MaxPool, NEW gen \in 0..MaxGen
  PROVE JobOK([Command("discard", bo, gen) EXCEPT !.controls = <<>>])
<1>1. /\ want \in Domain /\ want.cursor \in 1..2 /\ registry \in 0..MaxReload
      /\ lane.pending \in Seq(Controls) /\ lane.epoch \in Nat
  BY Zenon DEF RenderInv, Types, ReactorTypes, LaneTypes, LaneOK
<1>2. <<>> \in Seq(Controls) OBVIOUS
<1> QED BY Zenon, <1>1, <1>2 DEF JobOK, CommandOK, Command, JobKinds

\* What sending a command leaves to the actions that send one.
SendLeaves == /\ ReactorTypes' /\ CandidateHeld' /\ ActivePool' /\ CandidatePool' /\ CandidateSync'

\* A command that the reactor holds a continuation for is sent to an idle worker.
LEMMA SendKeeps ==
  ASSUME RenderInv, Admits, NEW j, JobOK(j), Send(j), j.kind # "discard" => Takes,
         UNCHANGED <<frame, scan, registry, status>>, status # "rebinding", Owed(j)',
         j.kind \in {"render", "capture"} => Live /\ cand.stage = "none",
         cand.stage = "Promoted" <=> cand'.stage = "Promoted",
         cand.stage = "Promoted" => cand' = cand
  PROVE SendLeaves => RenderInv'
<1>1. /\ cmds' = <<j>> /\ cmds'[1] = j /\ handle' = [handle EXCEPT !.busy = TRUE]
      /\ lane' = [lane EXCEPT !.pending = IF j.kind = "discard" THEN @ ELSE <<>>]
      /\ UNCHANGED <<want, fatal, events, eventfd, reply, broken>>
      /\ UNCHANGED <<pc, seen, out, applied, active, candidate>>
  BY Zenon DEF Send, worker
<1>2. /\ Working /\ pc \in {"recv", "signal"} /\ cmds = <<>> /\ events = <<>>
      /\ ~handle.busy /\ ~Commanded /\ Flying = <<>> /\ InFlight = 0
      /\ \A kind : ~Came(kind) /\ ~CameWell(kind)
      /\ Live => own = {} /\ cand.stage \notin Awaiting
      /\ Live /\ status # "rebinding" => reply = "none"
  BY Zenon, AdmitsIdle
<1>3. /\ lane \in [pending : Seq(Controls), epoch : Nat, overflow : BOOLEAN] /\ LaneOK(lane)
      /\ handle \in [busy : BOOLEAN, failure : {"none", "set", "reported"}]
      /\ active \in Domain /\ candidate \in Domain /\ applied \in Nat
  BY Zenon DEF RenderInv, Types, LaneTypes, LaneOK, ReactorTypes, WorkerTypes
<1>4. CommandOK(j) /\ j.kind \in JobKinds /\ j.kind # "shutdown" /\ j.controls \in Seq(Controls)
  BY Zenon DEF JobOK, CommandOK, JobKinds
<1>5. /\ lane'.epoch = lane.epoch /\ lane'.overflow = lane.overflow
      /\ j.kind = "discard" => lane' = lane /\ j.controls = <<>>
      /\ j.kind # "discard" => lane'.pending = <<>> /\ j.controls = lane.pending
      /\ j.epoch = lane.epoch /\ j.want = want /\ j.effects = registry
  BY Zenon, <1>1, <1>3 DEF JobOK
<1>6. handle'.busy /\ handle'.failure = handle.failure BY Zenon, <1>1, <1>3
<1>7. Commanded' /\ Flying' = j.controls /\ Working' /\ (Live' <=> Live)
      /\ \A kind : ~Came(kind)' /\ ~CameWell(kind)'
  BY Zenon, <1>1, <1>2, <1>4 DEF Commanded, Flying, Working, Live, Came, CameWell
<1>8. SharedTypes' BY Zenon, <1>1, <1>4 DEF SharedTypes, RenderInv, Types
<1>9. WorkerTypes' /\ GoneDomains' /\ RendersAsSynchronous' /\ broken' \in {"no", "control"} /\ Ended'
  BY Zenon, <1>1 DEF RenderInv, Types, WorkerTypes, Pools, GoneDomains, Sync, RendersAsSynchronous, Epochs,
              Protocol, Ended, Working
<1>10. LaneTypes'
  <2>1. CASE j.kind = "discard" BY Zenon, <2>1, <1>5 DEF RenderInv, Types, LaneTypes, LaneOK
  <2>2. CASE j.kind # "discard"
    <3>1. /\ lane' \in [pending : Seq(Controls), epoch : Nat, overflow : BOOLEAN]
          /\ lane'.pending = <<>>
      <4>1. lane' = [lane EXCEPT !.pending = <<>>] BY Zenon, <2>2, <1>1
      <4>2. <<>> \in Seq(Controls) OBVIOUS
      <4> QED BY Zenon, <4>1, <4>2, <1>3
    <3> QED BY <3>1, RenderAssumption DEF LaneTypes, LaneOK, NoRebind
  <2> QED BY Zenon, <2>1, <2>2
<1>11. CommandHeld'
  BY <1>1, <1>2, <1>5, <1>6 DEF CommandHeld, RenderInv, Protocol, ReplyHeld, Live
<1>12. OutHeld' /\ EventHeld' BY <1>1, <1>2 DEF OutHeld, EventHeld
<1>13. ReactorIdle' BY <1>1, <1>4, <1>6 DEF ReactorIdle
<1>14. ReplyHeld' BY Zenon, <1>1, <1>2, <1>7 DEF ReplyHeld
<1>15. WakeInv' BY Zenon, <1>1, <1>2, <1>6 DEF RenderInv, WakeInv
<1>16. EffectsPublished'
  BY Zenon, <1>1, <1>2, <1>7 DEF RenderInv, Pools, EffectsPublished
<1>17. Live /\ broken = "no" => applied + Len(lane.pending) = lane.epoch
  <2>1. EpochsContiguous BY Zenon DEF RenderInv, Epochs
  <2> QED BY <2>1, <1>2, <1>3 DEF EpochsContiguous, Live
<1>18. EpochsContiguous' /\ BatchValid'
  <2>1. CASE j.kind = "discard"
    <3>1. InFlight' = 0 BY Zenon, <2>1, <1>1 DEF InFlight
    <3>2. EpochsContiguous'
      BY <3>1, <2>1, <1>1, <1>3, <1>5, <1>17 DEF EpochsContiguous, Live
    <3> QED BY Zenon, <3>2, <2>1, <1>1 DEF BatchValid
  <2>2. CASE j.kind # "discard"
    <3>1. InFlight' = Len(lane.pending) /\ Len(lane'.pending) = 0
      BY Zenon, <2>2, <1>1, <1>4, <1>5 DEF InFlight
    <3>2. EpochsContiguous'
      BY <3>1, <1>1, <1>3, <1>5, <1>17 DEF EpochsContiguous, Live
    <3>3. Live /\ broken = "no" => Valid(applied, j.controls, j.epoch)
      <4>1. \A i \in 1..Len(lane.pending) : lane.pending[i].epoch = lane.epoch - Len(lane.pending) + i
        BY Zenon, <1>3 DEF LaneOK
      <4>2. DOMAIN lane.pending = 1..Len(lane.pending) /\ Len(lane.pending) \in Nat BY <1>3
      <4>3. ASSUME Live, broken = "no" PROVE Valid(applied, lane.pending, lane.epoch)
        <5>1. applied + Len(lane.pending) = lane.epoch BY Zenon, <4>3, <1>17
        <5>2. lane.epoch - Len(lane.pending) = applied BY <5>1, <4>2, <1>3
        <5>3. \A i \in 1..Len(lane.pending) : lane.pending[i].epoch = applied + i
          BY Zenon, <4>1, <5>2
        <5> QED BY Zenon, <4>2, <5>1, <5>3 DEF Valid
      <4> QED BY Zenon, <4>3, <2>2, <1>5
    <3>4. BatchValid' BY Zenon, <3>3, <1>1, <1>7 DEF BatchValid, Valid
    <3> QED BY Zenon, <3>2, <3>4
  <2> QED BY Zenon, <2>1, <2>2
<1>19. /\ All(All(active, Flying'), lane'.pending) = All(active, lane.pending)
       /\ All(All(active, Flying), lane.pending) = All(active, lane.pending)
  BY Zenon, <1>2, <1>5, <1>7, EmptyAll
<1>20. ActiveSync'
  <2> SUFFICES ASSUME InStep'
               PROVE Same(All(All(active, Flying), lane.pending),
                          IF PromotionDone THEN Goal ELSE want)'
    BY Zenon DEF ActiveSync
  <2>1. InStep BY Zenon, <1>1, <1>2, <1>5, <1>7 DEF InStep
  <2>2. (PromotionDone' <=> PromotionDone) /\ (PromotionDone => Goal' = Goal)
    BY Zenon, <1>1, <1>2, <1>7 DEF PromotionDone, Goal
  <2>3. Same(All(active, lane.pending), IF PromotionDone THEN Goal ELSE want)
    BY Zenon, <2>1, <1>19 DEF RenderInv, Sync, ActiveSync
  <2> QED BY Zenon, <2>2, <2>3, <1>1, <1>19
<1>21. JobSync'
  <2> SUFFICES ASSUME broken = "no", j.kind \in {"render", "capture"}
               PROVE Same(All(active, lane.pending), want) /\ active.effects <= want.effects
    BY Zenon, <1>1, <1>5 DEF JobSync
  <2>1. InStep /\ ~PromotionDone
    BY Zenon, <1>2, <1>3 DEF InStep, PromotionDone, Takes
  <2>2. Same(All(active, lane.pending), want)
    BY Zenon, <2>1, <1>19 DEF RenderInv, Sync, ActiveSync
  <2>3. active.effects <= registry + 0 /\ registry \in Nat /\ want.effects = registry
    BY <1>2 DEF RenderInv, Pools, EffectsPublished, Types, ReactorTypes
  <2>4. active.effects \in Nat BY <1>3 DEF Domain
  <2> QED BY <2>2, <2>3, <2>4
<1> QED
  BY Zenon, <1>8, <1>9, <1>10, <1>11, <1>12, <1>13, <1>14, <1>15, <1>16, <1>18, <1>20, <1>21
  DEF SendLeaves, RenderInv, Types, Protocol, Pools, Epochs, Sync

\* Before and after a command is sent, no event is on its way.
LEMMA SendQuiet ==
  ASSUME RenderInv, Admits, NEW j, Send(j)
  PROVE /\ \A kind : ~Came(kind) /\ ~CameWell(kind) /\ ~Came(kind)' /\ ~CameWell(kind)'
        /\ active' = active /\ candidate' = candidate /\ want' = want /\ pc' = pc /\ cmds' = <<j>>
        /\ handle' \in [busy : BOOLEAN, failure : {"none", "set", "reported"}]
        /\ Flying = <<>> /\ pc # "gone" /\ ~Commanded
        /\ Live => own = {} /\ cand.stage \notin Awaiting
<1>1. /\ UNCHANGED <<want, events, pc, out, active, candidate>> /\ cmds' = <<j>>
      /\ handle' = [handle EXCEPT !.busy = TRUE]
  BY Zenon DEF Send, worker
<1>2. handle \in [busy : BOOLEAN, failure : {"none", "set", "reported"}]
  BY Zenon DEF RenderInv, Types, ReactorTypes
<1>3. handle' \in [busy : BOOLEAN, failure : {"none", "set", "reported"}] BY Zenon, <1>1, <1>2
<1> QED BY Zenon, <1>1, <1>3, AdmitsIdle DEF Came, CameWell, Admits

\* A frame, a capture or a release fence is dispatched.
LEMMA DispatchKeeps ==
  ASSUME RenderInv, NEW kind \in {"render", "capture", "fence"}, Dispatch(kind)
  PROVE RenderInv'
<1>0. PICK j : j = Command(kind, scan.bo, scan.gen) BY Zenon
<1>1. /\ status = "run" /\ cand.stage = "none" /\ Takes /\ Admits /\ Send(j) /\ own' = {kind}
      /\ UNCHANGED <<frame, cand, scan, held, registry, status>>
  BY Zenon, <1>0 DEF Dispatch
<1>2. /\ ReactorTypes /\ scan.bo \in 0..MaxPool /\ scan.gen \in 0..MaxGen /\ Live
  BY <1>1, RenderAssumption DEF RenderInv, Types, ReactorTypes, Live
<1>3. JobOK(j) /\ j.kind = kind
  BY Zenon, <1>0, <1>2, CommandTyped DEF JobKinds, Command
<1>4. Owed(j)' BY Zenon, <1>1, <1>3 DEF Owed, Continuations, Idle
<1>5. SendLeaves => RenderInv'
  BY Zenon, <1>1, <1>2, <1>3, <1>4, SendKeeps
<1>6. /\ \A k : ~Came(k) /\ ~CameWell(k) /\ ~Came(k)' /\ ~CameWell(k)'
      /\ active' = active /\ candidate' = candidate /\ want' = want /\ pc' = pc /\ cmds' = <<j>>
      /\ handle' \in [busy : BOOLEAN, failure : {"none", "set", "reported"}]
  BY Zenon, <1>1, SendQuiet
<1>7. ReactorTypes' BY Zenon, <1>1, <1>2, <1>6 DEF ReactorTypes, Continuations
<1>8. CandidateHeld' BY Zenon, <1>1 DEF RenderInv, Pools, CandidateHeld
<1>9. ActivePool' /\ CandidatePool'
  BY Zenon, <1>1, <1>6 DEF RenderInv, Pools, ActivePool, CandidatePool, PromotionDone
<1>10. CandidateSync'
  BY Zenon, <1>1, <1>3, <1>6 DEF CandidateSync, Following, Promoting, Building
<1> QED BY Zenon, <1>5, <1>7, <1>8, <1>9, <1>10 DEF SendLeaves

\* An effects reload is dispatched.
LEMMA ReloadKeeps == ASSUME RenderInv, DispatchReload PROVE RenderInv'
<1>0. PICK j : j = Command("reload", 0, 0) BY Zenon
<1>1. /\ status = "run" /\ registry < MaxReload /\ Takes /\ Admits /\ Send(j)
      /\ own' = own \union {"reload"} /\ UNCHANGED <<frame, cand, scan, held, registry, status>>
  BY Zenon, <1>0 DEF DispatchReload
<1>2. ReactorTypes /\ Live /\ 0 \in 0..MaxPool /\ 0 \in 0..MaxGen
  BY <1>1, RenderAssumption DEF RenderInv, Types, ReactorTypes, Live
<1>3. JobOK(j) /\ j.kind = "reload"
  BY Zenon, <1>0, <1>2, CommandTyped DEF JobKinds, Command
<1>6. /\ \A k : ~Came(k) /\ ~CameWell(k) /\ ~Came(k)' /\ ~CameWell(k)'
      /\ active' = active /\ candidate' = candidate /\ want' = want /\ pc' = pc /\ cmds' = <<j>>
      /\ handle' \in [busy : BOOLEAN, failure : {"none", "set", "reported"}]
      /\ Flying = <<>> /\ own = {} /\ cand.stage \notin Awaiting
  BY Zenon, <1>1, <1>2, SendQuiet
<1>4. Owed(j)' BY Zenon, <1>1, <1>3, <1>6 DEF Owed, Continuations
<1>5. SendLeaves => RenderInv'
  BY Zenon, <1>1, <1>2, <1>3, <1>4, SendKeeps
<1>7. ReactorTypes' BY Zenon, <1>1, <1>2, <1>6 DEF ReactorTypes, Continuations
<1>8. CandidateHeld' BY Zenon, <1>1 DEF RenderInv, Pools, CandidateHeld
<1>9. ActivePool' /\ CandidatePool'
  BY Zenon, <1>1, <1>6 DEF RenderInv, Pools, ActivePool, CandidatePool, PromotionDone
<1>10. CandidateSync'
  <2>1. ~Promoting' /\ ~Building' /\ (Following' <=> Following) /\ Goal' = Goal
    BY Zenon, <1>1, <1>3, <1>6 DEF Following, Promoting, Building, Awaiting, Goal
  <2>2. Flying' = lane.pending /\ lane'.pending = <<>> /\ lane'.overflow = lane.overflow
    BY <1>1, <1>3, <1>6
    DEF JobOK, Flying, Commanded, Send, RenderInv, Types, LaneTypes, LaneOK
  <2>3. InStep' => InStep BY Zenon, <2>2, <1>1 DEF InStep, Send, worker, Live, Working
  <2>4. AllMirror(AllMirror(candidate, lane.pending), <<>>)
          = AllMirror(AllMirror(candidate, <<>>), lane.pending)
    BY Zenon, EmptyAll
  <2> QED BY Zenon, <2>1, <2>2, <2>3, <2>4, <1>6 DEF CandidateSync, RenderInv, Sync
<1> QED BY Zenon, <1>5, <1>7, <1>8, <1>9, <1>10 DEF SendLeaves

\* A candidate is prepared on a free pool.
LEMMA PrepareKeeps == ASSUME RenderInv, PrepareCandidate PROVE RenderInv'
<1>0. PICK bo \in FreePools :
        /\ Send(Command("prepare", bo, scan.gen + 1)) /\ held' = held \union {bo}
        /\ cand' = [stage |-> "Preparing", bo |-> bo, gen |-> scan.gen + 1]
  BY Zenon DEF PrepareCandidate
<1>j. PICK j : j = Command("prepare", bo, scan.gen + 1) BY Zenon
<1>1. /\ status = "run" /\ cand.stage = "Unprepared" /\ frame = 0 /\ own = {} /\ scan.gen < MaxGen
      /\ Takes /\ Admits /\ Send(j) /\ UNCHANGED <<own, frame, scan, registry, status>>
  BY Zenon, <1>0, <1>j DEF PrepareCandidate, Boundary
<1>2. /\ ReactorTypes /\ Live /\ bo \in 1..MaxPool /\ bo \notin held /\ bo \in 0..MaxPool /\ bo # 0
      /\ scan.gen + 1 \in 0..MaxGen /\ scan.gen + 1 # 0
  BY <1>1, RenderAssumption DEF RenderInv, Types, ReactorTypes, Live, FreePools
<1>3. JobOK(j) /\ j.kind = "prepare" /\ j.bo = bo /\ j.gen = scan.gen + 1 /\ j.cursor = want.cursor
  BY Zenon, <1>j, <1>2, CommandTyped DEF JobKinds, Command
<1>4. /\ \A k : ~Came(k) /\ ~CameWell(k) /\ ~Came(k)' /\ ~CameWell(k)'
      /\ active' = active /\ candidate' = candidate /\ want' = want /\ pc' = pc /\ cmds' = <<j>>
      /\ handle' \in [busy : BOOLEAN, failure : {"none", "set", "reported"}] /\ pc # "gone"
  BY Zenon, <1>1, SendQuiet
<1>5. cand'.stage = "Preparing" /\ cand'.bo = bo /\ cand'.gen = scan.gen + 1 BY Zenon, <1>0
<1>6. Owed(j)' BY Zenon, <1>1, <1>3, <1>5 DEF Owed, Continuations
<1>7. SendLeaves => RenderInv'
  BY Zenon, <1>1, <1>2, <1>3, <1>5, <1>6, SendKeeps
<1>8. ReactorTypes' BY Zenon, <1>0, <1>1, <1>2, <1>4 DEF ReactorTypes, Stages
<1>9. CandidateHeld'
  BY Zenon, <1>0, <1>1, <1>2, <1>4, <1>5 DEF RenderInv, Pools, CandidateHeld, Idle
<1>10. ActivePool' /\ CandidatePool'
  BY Zenon, <1>1, <1>4, <1>5 DEF RenderInv, Pools, ActivePool, CandidatePool, PromotionDone, Idle
<1>11. CandidateSync'
  <2>1. ~Promoting' /\ ~Following' BY Zenon, <1>4, <1>5 DEF Following, Promoting
  <2>2. lane'.pending = <<>> BY Zenon, <1>1, <1>3 DEF Send, RenderInv, Types, LaneTypes, LaneOK
  <2>3. AllMirror(Built(j), <<>>) = Built(j) BY Zenon, EmptyAll
  <2>4. Same(Built(j), Goal')
    BY Zenon, <1>2, <1>3, <1>4, <1>5 DEF Same, Built, Goal, Aim, ReactorTypes, Domain
  <2>5. cmds'[1] = j BY Zenon, <1>4
  <2> QED BY Zenon, <2>1, <2>2, <2>3, <2>4, <2>5 DEF CandidateSync
<1> QED BY Zenon, <1>7, <1>8, <1>9, <1>10, <1>11 DEF SendLeaves

\* A candidate is discarded, or its discard waits for the end of the runtime.
LEMMA DiscardKeeps == ASSUME RenderInv, DiscardCandidate PROVE RenderInv'
<1>j. PICK j : j = [Command("discard", cand.bo, cand.gen) EXCEPT !.controls = <<>>] BY Zenon
<1>1. /\ ~handle.busy /\ status \in {"run", "quiesce", "teardown"}
      /\ cand.stage \in {"Fence", "DiscardQueued"} /\ UNCHANGED <<own, frame, scan, held, registry>>
  BY Zenon DEF DiscardCandidate
<1>2. /\ ReactorTypes /\ cand.bo \in 0..MaxPool /\ cand.gen \in 0..MaxGen
  BY Zenon DEF RenderInv, Types, ReactorTypes
<1>3. CASE Admits
  <2>1. /\ Send(j) /\ cand' = [cand EXCEPT !.stage = "Discarding"] /\ status' = status
    BY Zenon, <1>3, <1>j DEF DiscardCandidate
  <2>2. JobOK(j) BY Zenon, <1>j, <1>2, DiscardTyped
  <2>3. j.kind = "discard" /\ j.bo = cand.bo BY Zenon, <1>j DEF Command
  <2>4. cand'.stage = "Discarding" /\ cand'.bo = cand.bo /\ cand'.gen = cand.gen
    BY Zenon, <2>1, <1>2 DEF ReactorTypes
  <2>5. /\ \A k : ~Came(k) /\ ~CameWell(k) /\ ~Came(k)' /\ ~CameWell(k)'
        /\ active' = active /\ candidate' = candidate /\ want' = want /\ pc' = pc /\ cmds' = <<j>>
        /\ handle' \in [busy : BOOLEAN, failure : {"none", "set", "reported"}]
        /\ Live => own = {}
    BY Zenon, <1>3, <2>1, SendQuiet
  <2>6. Owed(j)' BY Zenon, <1>1, <2>1, <2>3, <2>4, <2>5 DEF Owed, Continuations, Live
  <2>7. SendLeaves => RenderInv'
    BY Zenon, <1>1, <1>3, <2>1, <2>2, <2>3, <2>4, <2>6, SendKeeps
  <2>8. ReactorTypes' BY Zenon, <1>1, <1>2, <2>1, <2>5 DEF ReactorTypes, Stages
  <2>9. CandidateHeld' BY <1>1, <2>1, <2>4 DEF RenderInv, Pools, CandidateHeld, Idle
  <2>10. ActivePool' /\ CandidatePool'
    BY Zenon, <1>1, <2>4, <2>5 DEF RenderInv, Pools, ActivePool, CandidatePool, PromotionDone, Idle
  <2>11. CandidateSync'
    BY Zenon, <2>3, <2>4, <2>5 DEF CandidateSync, Following, Promoting, Building
  <2> QED BY Zenon, <2>7, <2>8, <2>9, <2>10, <2>11 DEF SendLeaves
<1>4. CASE ~Admits
  <2>1. /\ cand' = [cand EXCEPT !.stage = "DiscardQueued"] /\ status' = Failed
        /\ UNCHANGED <<lane, want, handle, broken, shared, worker>>
    BY Zenon, <1>4 DEF DiscardCandidate
  <2>2. cand'.stage = "DiscardQueued" /\ cand'.bo = cand.bo /\ cand'.gen = cand.gen
    BY Zenon, <2>1, <1>2 DEF ReactorTypes
  <2>3. status' \in {"teardown", "join"} /\ ~Live' BY Zenon, <2>1 DEF Failed, Live
  <2>4. /\ UNCHANGED <<lane, want, handle, broken, fatal, cmds, events, eventfd, reply>>
        /\ UNCHANGED <<pc, seen, out, applied, active, candidate>>
    BY Zenon, <2>1 DEF shared, worker
  <2>5. Types'
    <3>1. ReactorTypes' BY Zenon, <1>1, <1>2, <2>1, <2>3, <2>4 DEF ReactorTypes, Stages, Statuses
    <3>2. WorkerTypes' /\ SharedTypes' /\ LaneTypes'
      BY Zenon, <2>4 DEF RenderInv, Types, WorkerTypes, SharedTypes, LaneTypes
    <3> QED BY Zenon, <3>1, <3>2 DEF Types
  <2>6. Protocol'
    <3>1. CommandHeld' BY Zenon, <1>1, <2>4 DEF RenderInv, Protocol, CommandHeld, Working, Commanded
    <3>2. OutHeld' BY Zenon, <1>1, <2>4 DEF RenderInv, Protocol, OutHeld
    <3>3. EventHeld' BY Zenon, <1>1, <2>4 DEF RenderInv, Protocol, EventHeld, Working
    <3>4. Ended' BY Zenon, <2>4 DEF RenderInv, Protocol, Ended, Working
    <3>5. ReactorIdle' /\ ReplyHeld' BY Zenon, <2>3 DEF ReactorIdle, ReplyHeld
    <3> QED BY Zenon, <3>1, <3>2, <3>3, <3>4, <3>5 DEF Protocol
  <2>7. ~Came("promote")
    BY <1>1 DEF Came, RenderInv, Protocol, OutHeld, EventHeld, Fatal
  <2>8. Pools'
    <3>1. CandidateHeld' BY Zenon, <1>1, <2>2, <2>3 DEF RenderInv, Pools, CandidateHeld, Idle
    <3>2. ActivePool'
      BY Zenon, <1>1, <2>2, <2>4, <2>7 DEF RenderInv, Pools, ActivePool, PromotionDone, Came
    <3>3. CandidatePool' BY Zenon, <1>1, <2>2, <2>4 DEF RenderInv, Pools, CandidatePool, Idle
    <3>4. GoneDomains' /\ EffectsPublished'
      BY Zenon, <1>1, <2>4 DEF RenderInv, Pools, GoneDomains, EffectsPublished, CameWell
    <3> QED BY Zenon, <3>1, <3>2, <3>3, <3>4 DEF Pools
  <2>9. Epochs' BY Zenon, <2>3, <2>4
    DEF RenderInv, Epochs, EpochsContiguous, BatchValid, Live, Commanded, Valid
  <2>10. WakeInv' BY Zenon, <2>3, <2>4 DEF RenderInv, WakeInv
  <2>11. Sync'
    BY Zenon, <2>3, <2>4 DEF RenderInv, Sync, ActiveSync, CandidateSync, InStep, JobSync, Working,
                            Commanded, RendersAsSynchronous
  <2> QED BY Zenon, <2>5, <2>6, <2>8, <2>9, <2>10, <2>11 DEF RenderInv
<1> QED BY Zenon, <1>3, <1>4

\* A candidate is promoted, or the promotion fails the reactor.
LEMMA PromoteKeeps == ASSUME RenderInv, PromoteCandidate PROVE RenderInv'
<1>j. PICK j : j = Command("promote", cand.bo, cand.gen) BY Zenon
<1>1. /\ status \in {"run", "quiesce", "teardown"} /\ cand.stage = "PromotionQueued"
      /\ UNCHANGED <<own, frame, scan, held, registry>>
  BY Zenon DEF PromoteCandidate
<1>2. /\ ReactorTypes /\ cand.bo \in 0..MaxPool /\ cand.gen \in 0..MaxGen
  BY DEF RenderInv, Types, ReactorTypes
<1>3. CASE Takes /\ Admits
  <2>1. /\ Send(j) /\ cand' = [cand EXCEPT !.stage = "Promoting"] /\ status' = status
    BY Zenon, <1>3, <1>j DEF PromoteCandidate
  <2>2. JobOK(j) /\ j.kind = "promote" /\ j.bo = cand.bo
    BY Zenon, <1>j, <1>2, CommandTyped DEF JobKinds, Command
  <2>4. cand'.stage = "Promoting" /\ cand'.bo = cand.bo /\ cand'.gen = cand.gen
    BY Zenon, <2>1, <1>2 DEF ReactorTypes
  <2>5. /\ \A k : ~Came(k) /\ ~CameWell(k) /\ ~Came(k)' /\ ~CameWell(k)'
        /\ active' = active /\ candidate' = candidate /\ want' = want /\ pc' = pc /\ cmds' = <<j>>
        /\ handle' \in [busy : BOOLEAN, failure : {"none", "set", "reported"}]
        /\ Flying = <<>> /\ (Live => own = {})
    BY Zenon, <1>3, <2>1, SendQuiet
  <2>6. Owed(j)' BY Zenon, <1>1, <2>1, <2>2, <2>4, <2>5 DEF Owed, Continuations, Live
  <2>7. SendLeaves => RenderInv'
    BY Zenon, <1>1, <1>3, <2>1, <2>2, <2>4, <2>6, SendKeeps
  <2>8. ReactorTypes' BY Zenon, <1>1, <1>2, <2>1, <2>5 DEF ReactorTypes, Stages
  <2>9. CandidateHeld' BY <1>1, <2>1, <2>4 DEF RenderInv, Pools, CandidateHeld, Idle
  <2>10. ActivePool' /\ CandidatePool'
    BY Zenon, <1>1, <2>4, <2>5 DEF RenderInv, Pools, ActivePool, CandidatePool, PromotionDone, Idle
  <2>11. CandidateSync'
    <3>1. ~Following' /\ ~Building' /\ Following /\ Goal' = Goal
      BY Zenon, <1>1, <2>2, <2>4, <2>5 DEF Following, Building, Goal
    <3>2. Flying' = lane.pending /\ lane'.pending = <<>> /\ lane'.overflow = lane.overflow
      BY <2>1, <2>2, <2>5
      DEF JobOK, Flying, Commanded, Send, RenderInv, Types, LaneTypes, LaneOK
    <3>3. InStep' => InStep BY Zenon, <3>2, <2>1 DEF InStep, Send, worker, Live, Working
    <3>4. All(AllMirror(candidate, lane.pending), <<>>)
            = AllMirror(AllMirror(candidate, <<>>), lane.pending)
      BY Zenon, EmptyAll
    <3> QED BY Zenon, <3>1, <3>2, <3>3, <3>4, <2>5 DEF CandidateSync, RenderInv, Sync
  <2> QED BY Zenon, <2>7, <2>8, <2>9, <2>10, <2>11 DEF SendLeaves
<1>4. CASE ~(Takes /\ Admits)
  <2>1. status' = Failed /\ UNCHANGED <<lane, want, handle, broken, shared, worker, cand>>
    BY Zenon, <1>4 DEF PromoteCandidate
  <2>2. UNCHANGED Rest BY Zenon, <2>1, <1>1 DEF Rest
  <2>3. status' \in {"teardown", "join"} BY Zenon, <2>1 DEF Failed
  <2> QED BY Zenon, <2>2, <2>3, <1>1, StatusKeeps DEF Live, Statuses
<1> QED BY Zenon, <1>3, <1>4

\* adopt_worker_output_candidate: the promoted pool is the scanout's, its first frame presented.
LEMMA AdoptKeeps == RenderInv /\ AdoptCandidate => RenderInv'
<1> SUFFICES ASSUME RenderInv, AdoptCandidate PROVE RenderInv' OBVIOUS
<1> DEFINE c == Control("present", 1)
<1>a. /\ status \in {"run", "quiesce", "teardown"} /\ cand.stage = "Promoted"
      /\ scan' = [bo |-> cand.bo, gen |-> cand.gen] /\ held' = held \ {scan.bo}
      /\ cand' = NoCandidate /\ Push(c) /\ want' = Apply(Goal, c)
      /\ UNCHANGED <<own, frame, registry, status, broken, cmds, events, reply, worker>>
  BY Zenon DEF AdoptCandidate, Goal, Aim
<1>b. /\ cand'.stage = "none" /\ cand'.bo = 0 /\ scan'.bo = cand.bo
      /\ UNCHANGED <<pc, seen, out, applied, active, candidate>>
  BY Zenon, <1>a DEF NoCandidate, worker
<1>c. c \in Controls /\ c.kind = "present"
  BY DEF Control, Controls, ControlKinds
<1> HIDE DEF c
<1>d. /\ LaneTypes'
      /\ lane'.epoch - Len(lane'.pending) = lane.epoch - Len(lane.pending)
      /\ handle' \in [busy : BOOLEAN, failure : {"none", "set", "reported"}]
      /\ handle'.busy = handle.busy /\ fatal' \in BOOLEAN /\ eventfd' \in BOOLEAN
      /\ fatal => fatal'
      /\ eventfd => eventfd'
      /\ handle'.failure = "set" => eventfd'
  <2>1. c.kind # "rebind" BY Zenon, <1>c
  <2> QED BY Zenon, <2>1, <1>a, <1>c, PushKeeps
<1>e. want \in Domain /\ active \in Domain /\ candidate \in Domain /\ lane.pending \in Seq(Controls)
  BY Zenon DEF RenderInv, Types, ReactorTypes, WorkerTypes, LaneTypes, LaneOK
<1>f. Goal \in Domain /\ Goal.effects = want.effects /\ Goal.cursor = want.cursor
  <2>1. cand.gen \in 0..MaxGen /\ cand.bo \in 0..MaxPool BY Zenon DEF RenderInv, Types, ReactorTypes
  <2> QED BY Zenon, <2>1, <1>e, AimTyped DEF Goal
<1>g. want' \in Domain /\ want'.effects = want.effects /\ want'.cursor = want.cursor
  <2>1. want' \in Domain /\ want'.effects = want.effects BY Zenon, <1>a, <1>c, <1>f, ApplyKeeps
  <2>2. want'.cursor = want.cursor BY Zenon, <1>a, <1>c, <1>f DEF Apply, Domain
  <2> QED BY Zenon, <2>1, <2>2
<1>h. Flying \in Seq(Controls) /\ Flying' = Flying
  BY SMTT(60), <1>a DEF RenderInv, Types, SharedTypes, CommandOK, Flying, Commanded
<1>i. /\ ~Came("promote") /\ ~Came("promote")' /\ PromotionDone /\ ~PromotionDone'
  BY SMTT(60), <1>a, <1>b DEF RenderInv, Protocol, OutHeld, EventHeld, Owed, Came, PromotionDone, Fatal
<1>1. /\ WorkerTypes' /\ ReplyHeld' /\ GoneDomains' /\ EffectsPublished' /\ BatchValid'
      /\ broken' \in {"no", "control"} /\ JobSync' /\ RendersAsSynchronous'
  <2>1. WorkerTypes' BY Zenon, <1>a, <1>b DEF RenderInv, Types, WorkerTypes, worker
  <2>2. ReplyHeld' BY Zenon, <1>a, <1>b DEF RenderInv, Protocol, ReplyHeld, Live, Working, worker
  <2>3. GoneDomains' BY Zenon, <1>a, <1>b DEF RenderInv, Pools, GoneDomains, worker
  <2>4. EffectsPublished' BY Zenon, <1>a, <1>b DEF RenderInv, Pools, EffectsPublished, CameWell,
      worker
  <2>5. BatchValid' BY Zenon, <1>a, <1>b DEF RenderInv, Epochs, BatchValid, Live, Commanded, Valid,
      worker
  <2>6. broken' \in {"no", "control"} BY Zenon, <1>a, <1>b DEF RenderInv, Epochs, worker
  <2>7. JobSync' BY Zenon, <1>a, <1>b DEF RenderInv, Sync, JobSync, Working, Commanded, worker
  <2>8. RendersAsSynchronous' BY Zenon, <1>a, <1>b DEF RenderInv, Sync, RendersAsSynchronous, worker
  <2> QED BY Zenon, <2>1, <2>2, <2>3, <2>4, <2>5, <2>6, <2>7, <2>8
<1>2. ReactorTypes'
  <2>1. ReactorTypes /\ CandidateHeld BY Zenon DEF RenderInv, Types, Pools
  <2>2. cand.bo \in 1..MaxPool /\ cand.gen \in 1..MaxGen
    BY <2>1, <1>a, RenderAssumption DEF ReactorTypes, CandidateHeld, Idle
  <2>3. scan' \in [bo : 1..MaxPool, gen : 1..MaxGen] /\ held' \subseteq 1..MaxPool
    BY Zenon, <2>1, <2>2, <1>a DEF ReactorTypes
  <2>4. cand' \in [stage : Stages, bo : 0..MaxPool, gen : 0..MaxGen]
    BY <1>a, RenderAssumption DEF NoCandidate, Stages
  <2> QED BY Zenon, <2>1, <2>3, <2>4, <1>a, <1>d, <1>g DEF ReactorTypes
<1>3. SharedTypes'
  BY <1>a, <1>d DEF RenderInv, Types, Protocol, Pools, Epochs, Sync, SharedTypes, worker
<1>4. LaneTypes'
  BY ZenonT(60), <1>d
<1>5. CommandHeld'
  BY <1>a, <1>b, <1>d DEF RenderInv, Types, Protocol, Pools, Epochs, Sync, CommandHeld, Owed,
      Commanded, Working, Live, Idle, Awaiting, worker
<1>6. OutHeld'
  BY Zenon, <1>a, <1>b, <1>d DEF RenderInv, Types, Protocol, Pools, Epochs, Sync, OutHeld, Owed, Live,
      Idle, Awaiting, worker
<1>7. EventHeld'
  BY Zenon, <1>a, <1>b, <1>d DEF RenderInv, Types, Protocol, Pools, Epochs, Sync, EventHeld, Owed,
      Working, Live, Fatal, Idle, Awaiting, worker
<1>8. Ended'
  BY Zenon, <1>b, <1>d DEF RenderInv, Types, Protocol, Pools, Epochs, Sync, Ended, Working, worker
<1>9. ReactorIdle'
  BY Zenon, <1>a, <1>b, <1>d DEF RenderInv, Types, Protocol, Pools, Epochs, Sync, ReactorIdle, Live,
      Awaiting, worker
<1>10. CandidateHeld'
  BY Zenon, <1>a, <1>b DEF RenderInv, Types, Protocol, Pools, Epochs, Sync, CandidateHeld, ReactorTypes,
      Idle, worker
<1>11. ActivePool'
  BY Zenon, <1>a, <1>b, <1>i DEF RenderInv, Pools, ActivePool
<1>12. CandidatePool'
  BY Zenon, <1>a, <1>b DEF RenderInv, Types, Protocol, Pools, Epochs, Sync, CandidatePool, Came,
      CameWell, Idle, worker
<1>13. EpochsContiguous'
  <2>1. UNCHANGED <<broken, status, applied, cmds>> /\ InFlight' = InFlight BY Zenon, <1>a, <1>b DEF InFlight
  <2> QED BY Zenon, <2>1, <1>d, PushEpochs
<1>14. WakeInv'
  BY Zenon, <1>a, <1>b, <1>d DEF RenderInv, Types, Protocol, Pools, Epochs, Sync, WakeInv, Live, worker
<1>15. ActiveSync'
  <2> SUFFICES ASSUME InStep'
                PROVE Same(All(All(active, Flying), lane.pending),
                           IF PromotionDone THEN Goal ELSE want)'
    BY Zenon DEF ActiveSync
  <2>1. InStep /\ ~lane'.overflow
    BY Zenon, <1>a, <1>b, <1>c, PushKept DEF InStep, Live, Working
  <2> DEFINE d == All(active, Flying)
             x == All(d, lane.pending)
  <2>2. d \in Domain BY Zenon, <1>e, <1>h, AllKeeps
  <2>3. (All(All(active, Flying), lane.pending))' = Apply(x, c) /\ x \in Domain
    <3>1. active' = active BY Zenon, <1>b
    <3>2. All(d, lane'.pending) = Apply(x, c) BY Zenon, <2>1, <2>2, <1>a, <1>c, PushApplies
    <3>3. x \in Domain BY Zenon, <2>2, <1>e, AllKeeps
    <3> QED BY Zenon, <3>1, <3>2, <3>3, <1>h
  <2>4. Same(x, Goal)
    BY Zenon, <2>1, <1>i DEF RenderInv, Sync, ActiveSync
  <2> HIDE DEF d, x
  <2>5. Same(Apply(x, c), Apply(Goal, c)) BY Zenon, <2>3, <2>4, <1>c, <1>f, ApplySame
  <2> QED BY Zenon, <2>3, <2>5, <1>a, <1>i
<1>16. CandidateSync'
  <2>1. ~Following' /\ ~Promoting' BY Zenon, <1>b DEF Following, Promoting
  <2>2. InStep' => ~Building'
    BY Zenon, <1>a, <1>b DEF InStep, Working, Building, Commanded, RenderInv, Protocol, CommandHeld, Owed
  <2> QED BY Zenon, <2>1, <2>2 DEF CandidateSync
<1> QED BY ZenonT(60), <1>1, <1>2, <1>3, <1>4, <1>5, <1>6, <1>7, <1>8, <1>9, <1>10, <1>11, <1>12,
    <1>13, <1>14, <1>15, <1>16 DEF RenderInv, Types, Protocol, Pools, Epochs, Sync

-----------------------------------------------------------------------------
(* The reactor: events *)

\* try_take_event without an event: a failure of the lane is reported, or nothing is there.
LEMMA LookKeeps ==
  ASSUME RenderInv, status \in {"run", "quiesce", "teardown"},
         status' \in {status, "teardown", "join"},
         status' = "run" \/ status' = "quiesce" => status' = status /\ events = <<>>,
         handle' \in [busy : BOOLEAN, failure : {"none", "set", "reported"}],
         handle'.busy = handle.busy, handle'.failure # "set", eventfd' = FALSE,
         UNCHANGED <<lane, scan, fatal, cmds, reply, worker, want, own, frame, cand, held, registry,
                     broken, events>>
  PROVE RenderInv'
<1>1. /\ WorkerTypes' /\ LaneTypes' /\ Ended' /\ GoneDomains' /\ ActivePool' /\ CandidatePool'
      /\ EffectsPublished' /\ broken' \in {"no", "control"} /\ JobSync' /\ RendersAsSynchronous'
  <2>1. WorkerTypes' BY Zenon DEF RenderInv, Types, WorkerTypes, worker
  <2>2. LaneTypes' BY Zenon DEF RenderInv, Types, LaneTypes, worker
  <2>3. Ended' BY Zenon DEF RenderInv, Protocol, Ended, Working, worker
  <2>4. GoneDomains' BY Zenon DEF RenderInv, Pools, GoneDomains, worker
  <2>5. ActivePool' BY Zenon DEF RenderInv, Pools, ActivePool, PromotionDone, Came, worker
  <2>6. CandidatePool' BY Zenon DEF RenderInv, Pools, CandidatePool, Came, CameWell, worker
  <2>7. EffectsPublished' BY Zenon DEF RenderInv, Pools, EffectsPublished, CameWell, worker
  <2>8. broken' \in {"no", "control"} BY Zenon DEF RenderInv, Epochs, worker
  <2>9. JobSync' BY Zenon DEF RenderInv, Sync, JobSync, Working, Commanded, worker
  <2>10. RendersAsSynchronous' BY Zenon DEF RenderInv, Sync, RendersAsSynchronous, worker
  <2> QED BY Zenon, <2>1, <2>2, <2>3, <2>4, <2>5, <2>6, <2>7, <2>8, <2>9, <2>10
<1>2. ReactorTypes'
  BY DEF RenderInv, Types, Protocol, Pools, Epochs, Sync, ReactorTypes, Statuses, worker
<1>3. SharedTypes'
  BY Zenon DEF RenderInv, Types, Protocol, Pools, Epochs, Sync, SharedTypes, worker
<1>4. CommandHeld'
  BY Zenon DEF RenderInv, Types, Protocol, Pools, Epochs, Sync, CommandHeld, Owed, Commanded, Working,
      Live, worker
<1>5. OutHeld'
  BY Zenon DEF RenderInv, Types, Protocol, Pools, Epochs, Sync, OutHeld, Owed, Live, worker
<1>6. EventHeld'
  BY DEF RenderInv, Types, Protocol, Pools, Epochs, Sync, EventHeld, Owed, Working, Live, worker
<1>7. ReactorIdle'
  BY Zenon DEF RenderInv, Types, Protocol, Pools, Epochs, Sync, ReactorIdle, Live, worker
<1>8. ReplyHeld'
  BY Zenon DEF RenderInv, Types, Protocol, Pools, Epochs, Sync, ReplyHeld, Live, Working, worker
<1>9. CandidateHeld'
  BY Zenon DEF RenderInv, Types, Protocol, Pools, Epochs, Sync, CandidateHeld, worker
<1>10. EpochsContiguous'
  BY Zenon DEF RenderInv, Types, Protocol, Pools, Epochs, Sync, EpochsContiguous, InFlight, Live,
      worker
<1>11. BatchValid'
  BY Zenon DEF RenderInv, Types, Protocol, Pools, Epochs, Sync, BatchValid, Commanded, Live, Valid,
      worker
<1>12. WakeInv'
  BY Zenon DEF RenderInv, Types, Protocol, Pools, Epochs, Sync, WakeInv, Live, worker
<1>13. ActiveSync'
  BY Zenon DEF RenderInv, Types, Protocol, Pools, Epochs, Sync, ActiveSync, InStep, Live, Working,
      PromotionDone, Came, Flying, Commanded, Goal, Aim, worker
<1>14. CandidateSync'
  BY Zenon DEF RenderInv, Types, Protocol, Pools, Epochs, Sync, CandidateSync, InStep, Live, Working,
      Following, Promoting, Building, Came, CameWell, Flying, Commanded, Goal, Aim, worker
<1> QED BY ZenonT(60), <1>1, <1>2, <1>3, <1>4, <1>5, <1>6, <1>7, <1>8, <1>9, <1>10, <1>11, <1>12,
    <1>13, <1>14 DEF RenderInv, Types, Protocol, Pools, Epochs, Sync

\* try_take_event with a fatal event: the runtime is torn down.
LEMMA FatalEventKeeps ==
  ASSUME RenderInv, status \in {"run", "quiesce", "teardown"}, status' \in {"teardown", "join"},
         events # <<>>, events[1] = Fatal, events' = <<>>, handle.failure # "set",
         handle' = [handle EXCEPT !.busy = FALSE], eventfd' = FALSE,
         UNCHANGED <<lane, scan, fatal, cmds, reply, worker, want, own, frame, cand, held, registry,
                     broken>>
  PROVE RenderInv'
<1>1. /\ WorkerTypes' /\ LaneTypes' /\ Ended' /\ GoneDomains' /\ broken' \in {"no", "control"}
      /\ JobSync' /\ RendersAsSynchronous'
  <2>1. WorkerTypes' BY Zenon DEF RenderInv, Types, WorkerTypes, worker
  <2>2. LaneTypes' BY Zenon DEF RenderInv, Types, LaneTypes, worker
  <2>3. Ended' BY Zenon DEF RenderInv, Protocol, Ended, Working, worker
  <2>4. GoneDomains' BY Zenon DEF RenderInv, Pools, GoneDomains, worker
  <2>5. broken' \in {"no", "control"} BY Zenon DEF RenderInv, Epochs, worker
  <2>6. JobSync' BY Zenon DEF RenderInv, Sync, JobSync, Working, Commanded, worker
  <2>7. RendersAsSynchronous' BY Zenon DEF RenderInv, Sync, RendersAsSynchronous, worker
  <2> QED BY Zenon, <2>1, <2>2, <2>3, <2>4, <2>5, <2>6, <2>7
<1>2. ReactorTypes'
  BY Zenon DEF RenderInv, Types, Protocol, Pools, Epochs, Sync, ReactorTypes, Statuses, worker
<1>3. SharedTypes'
  BY Zenon DEF RenderInv, Types, Protocol, Pools, Epochs, Sync, SharedTypes, worker
<1>4. CommandHeld'
  BY DEF RenderInv, Types, Protocol, Pools, Epochs, Sync, CommandHeld, Owed, Commanded, Working,
      Live, worker
<1>5. OutHeld'
  BY Zenon DEF RenderInv, Types, Protocol, Pools, Epochs, Sync, OutHeld, Owed, Live, worker
<1>6. EventHeld'
  BY Zenon DEF RenderInv, Types, Protocol, Pools, Epochs, Sync, EventHeld, Owed, Working, Live, worker
<1>7. ReactorIdle'
  BY Zenon DEF RenderInv, Types, Protocol, Pools, Epochs, Sync, ReactorIdle, Live, worker
<1>8. ReplyHeld'
  BY Zenon DEF RenderInv, Types, Protocol, Pools, Epochs, Sync, ReplyHeld, Live, Working, worker
<1>9. CandidateHeld'
  BY Zenon DEF RenderInv, Types, Protocol, Pools, Epochs, Sync, CandidateHeld, worker
<1>10. ActivePool'
  BY DEF RenderInv, Types, Protocol, Pools, Epochs, Sync, ActivePool, PromotionDone, Came,
      Fatal, worker
<1>11. CandidatePool'
  BY DEF RenderInv, Types, Protocol, Pools, Epochs, Sync, CandidatePool, Came, CameWell, Fatal,
      worker
<1>12. EffectsPublished'
  BY DEF RenderInv, Types, Protocol, Pools, Epochs, Sync, EffectsPublished, CameWell, Fatal,
      worker
<1>13. EpochsContiguous'
  BY Zenon DEF RenderInv, Types, Protocol, Pools, Epochs, Sync, EpochsContiguous, InFlight, Live,
      worker
<1>14. BatchValid'
  BY Zenon DEF RenderInv, Types, Protocol, Pools, Epochs, Sync, BatchValid, Commanded, Live, Valid,
      worker
<1>15. WakeInv'
  BY Zenon DEF RenderInv, Types, Protocol, Pools, Epochs, Sync, WakeInv, Live, ReactorTypes, worker
<1>16. ActiveSync'
  BY Zenon DEF RenderInv, Types, Protocol, Pools, Epochs, Sync, ActiveSync, InStep, Live, Working,
      PromotionDone, Came, Flying, Commanded, Goal, Aim, worker
<1>17. CandidateSync'
  BY Zenon DEF RenderInv, Types, Protocol, Pools, Epochs, Sync, CandidateSync, InStep, Live, Working,
      Following, Promoting, Building, Came, CameWell, Flying, Commanded, Goal, Aim, worker
<1> QED BY ZenonT(60), <1>1, <1>2, <1>3, <1>4, <1>5, <1>6, <1>7, <1>8, <1>9, <1>10, <1>11, <1>12,
    <1>13, <1>14, <1>15, <1>16, <1>17 DEF RenderInv, Types, Protocol, Pools, Epochs, Sync

\* The reactor settles the job that an event reports.
LEMMA SettleKeeps ==
  ASSUME RenderInv, NEW e, e = events[1], events # <<>>, e # Fatal, Settle(e), events' = <<>>,
         status \in {"run", "quiesce", "teardown"}, handle.failure # "set",
         handle' = [handle EXCEPT !.busy = FALSE], eventfd' = FALSE,
         UNCHANGED <<lane, scan, fatal, cmds, reply, worker, status, broken>>
  PROVE RenderInv'
<1>a. /\ e.kind \in JobKinds /\ e.ok \in BOOLEAN /\ Owed(e)
  BY Zenon DEF RenderInv, Types, SharedTypes, EventOK, Protocol, EventHeld
<1>b. /\ pc # "publish" /\ (Working => ~Commanded)
      /\ \A k : Came(k) <=> k = e.kind
      /\ \A k : CameWell(k) <=> k = e.kind /\ e.ok
      /\ \A k : ~Came(k)' /\ ~CameWell(k)'
  BY Zenon, <1>a DEF RenderInv, Protocol, OutHeld, CommandHeld, Came, CameWell, worker
<1>c. /\ ReactorTypes /\ handle'.busy = FALSE /\ handle'.failure = handle.failure
      /\ handle' \in [busy : BOOLEAN, failure : {"none", "set", "reported"}]
  BY Zenon DEF RenderInv, Types, ReactorTypes
<1>d. /\ own' = own \ {e.kind} /\ (frame' = frame \/ (e.kind = "render" /\ frame' \in 1..2))
      /\ registry' = IF e.kind = "reload" /\ e.ok THEN registry + 1 ELSE registry
      /\ want' = [want EXCEPT !.effects = registry']
      /\ held' = IF (e.kind = "prepare" /\ ~e.ok) \/ e.kind = "discard" THEN held \ {cand.bo} ELSE held
      /\ UNCHANGED <<pc, seen, out, applied, active, candidate>>
  BY DEF Settle, NewFrame, worker
<1>e. /\ e.kind = "prepare" /\ e.ok => cand'.stage = "Fence" /\ cand'.bo = cand.bo /\ cand'.gen = cand.gen
      /\ e.kind = "promote" => cand'.stage = "Promoted" /\ cand'.bo = cand.bo /\ cand'.gen = cand.gen
      /\ e.kind = "discard" \/ (e.kind = "prepare" /\ ~e.ok) => cand' = NoCandidate
      /\ e.kind \in Continuations => cand' = cand
  BY <1>a, <1>c DEF Settle, ReactorTypes, Continuations
<1>f. /\ e.kind = "prepare" => cand.stage = "Preparing" /\ own = {}
      /\ e.kind = "promote" => cand.stage = "Promoting"
      /\ e.kind = "discard" => cand.stage = "Discarding"
      /\ e.kind \in {"render", "capture", "fence"} => cand.stage \in Idle
      /\ e.kind = "reload" => registry < MaxReload /\ cand.stage \notin Awaiting
      /\ e.kind \in Continuations => own = {e.kind}
      /\ e.kind \in {"prepare", "promote", "discard"} /\ Live => own = {}
  BY <1>a DEF Owed
<1>g. e.kind \in Continuations \/ e.kind \in {"prepare", "promote", "discard"}
  BY <1>a DEF JobKinds, Continuations
<1>h. NoCandidate.stage = "none" /\ NoCandidate.bo = 0 BY DEF NoCandidate
<1>i. PromotionDone' <=> PromotionDone
  BY ZenonT(60), <1>b, <1>e, <1>f, <1>g, <1>h DEF PromotionDone, Continuations, Idle, Awaiting
<1>1. /\ WorkerTypes' /\ LaneTypes' /\ Ended' /\ GoneDomains' /\ EpochsContiguous' /\ BatchValid'
      /\ broken' \in {"no", "control"} /\ JobSync' /\ RendersAsSynchronous'
  <2>1. WorkerTypes' BY Zenon, <1>b DEF RenderInv, Types, WorkerTypes, worker
  <2>2. LaneTypes' BY Zenon, <1>b DEF RenderInv, Types, LaneTypes, worker
  <2>3. Ended' BY Zenon, <1>b DEF RenderInv, Protocol, Ended, Working, worker
  <2>4. GoneDomains' BY Zenon, <1>b DEF RenderInv, Pools, GoneDomains, worker
  <2>5. EpochsContiguous' BY Zenon, <1>b DEF RenderInv, Epochs, EpochsContiguous, InFlight, worker
  <2>6. BatchValid' BY Zenon, <1>b DEF RenderInv, Epochs, BatchValid, Live, Commanded, Valid, worker
  <2>7. broken' \in {"no", "control"} BY Zenon, <1>b DEF RenderInv, Epochs, worker
  <2>8. JobSync' BY Zenon, <1>b DEF RenderInv, Sync, JobSync, Working, Commanded, worker
  <2>9. RendersAsSynchronous' BY Zenon, <1>b DEF RenderInv, Sync, RendersAsSynchronous, worker
  <2> QED BY Zenon, <2>1, <2>2, <2>3, <2>4, <2>5, <2>6, <2>7, <2>8, <2>9
<1>2. ReactorTypes'
  <2>1. registry' \in 0..MaxReload BY <1>c, <1>d, <1>f, RenderAssumption DEF ReactorTypes
  <2>2. /\ want' \in Domain /\ want'.cursor \in 1..2 /\ want'.effects = registry'
    BY Zenon, <2>1, <1>c, <1>d DEF ReactorTypes, Domain
  <2>3. frame' \in 0..2 /\ own' \subseteq Continuations /\ held' \subseteq 1..MaxPool
    BY <1>c, <1>d DEF ReactorTypes
  <2>4. cand' \in [stage : Stages, bo : 0..MaxPool, gen : 0..MaxGen]
    BY <1>a, <1>c, <1>g, RenderAssumption
    DEF ReactorTypes, Settle, Stages, NoCandidate, Continuations
  <2> QED BY Zenon, <1>c, <2>1, <2>2, <2>3, <2>4 DEF ReactorTypes
<1>3. SharedTypes'
  BY Zenon DEF RenderInv, Types, Protocol, Pools, Epochs, Sync, SharedTypes, worker
<1>4. CommandHeld'
  BY Zenon, <1>b, <1>d DEF CommandHeld, Working, Commanded
<1>5. OutHeld'
  BY <1>b, <1>d DEF OutHeld
<1>6. EventHeld'
  BY DEF EventHeld
<1>7. ReactorIdle'
  <2>1. Live => own' = {} /\ cand'.stage \notin Awaiting
    BY <1>d, <1>e, <1>f, <1>g, <1>h DEF Continuations, Awaiting, Idle
  <2> QED BY <2>1 DEF RenderInv, Protocol, ReactorIdle, Live
<1>8. ReplyHeld'
  BY <1>d DEF RenderInv, Types, Protocol, Pools, Epochs, Sync, ReplyHeld, Live, Working, worker
<1>9. CandidateHeld'
  <2>1. CandidateHeld BY Zenon DEF RenderInv, Pools
  <2>2. CASE e.kind \in Continuations
    BY Zenon, <2>1, <2>2, <1>d, <1>e, <1>f DEF CandidateHeld, Idle, Continuations
  <2>3. CASE e.kind \in {"prepare", "promote", "discard"}
    BY Zenon, <2>1, <2>3, <1>d, <1>e, <1>f, <1>h DEF CandidateHeld, Idle
  <2> QED BY Zenon, <2>2, <2>3, <1>g
<1>10. ActivePool'
  <2>1. PromotionDone => cand'.bo = cand.bo
    BY Zenon, <1>b, <1>e, <1>f, <1>g, <1>h DEF PromotionDone, Continuations
  <2> QED BY Zenon, <2>1, <1>d, <1>i DEF RenderInv, Pools, ActivePool
<1>11. CandidatePool'
  <2>1. CandidatePool BY Zenon DEF RenderInv, Pools
  <2>2. CASE e.kind \in Continuations
    BY Zenon, <2>1, <2>2, <1>b, <1>d, <1>e, <1>f DEF CandidatePool, Idle, Continuations, Awaiting
  <2>3. CASE e.kind \in {"prepare", "promote", "discard"}
    BY Zenon, <2>1, <2>3, <1>b, <1>d, <1>e, <1>f, <1>h DEF CandidatePool, Idle
  <2> QED BY Zenon, <2>2, <2>3, <1>g
<1>12. EffectsPublished'
  <2>1. EffectsPublished /\ registry \in Nat /\ active.effects \in Nat /\ candidate.effects \in Nat
    BY <1>c DEF RenderInv, Pools, ReactorTypes, Types, WorkerTypes, Domain
  <2> QED BY <2>1, <1>b, <1>d DEF EffectsPublished
<1>13. WakeInv'
  BY Zenon, <1>c DEF WakeInv
<1>14. ActiveSync'
  <2> SUFFICES ASSUME InStep'
                PROVE Same(All(All(active, Flying), lane.pending),
                           IF PromotionDone THEN Goal ELSE want)'
    BY Zenon DEF ActiveSync
  <2>1. InStep /\ Flying' = Flying BY Zenon, <1>d DEF InStep, Live, Working, Flying, Commanded
  <2>2. Same(All(All(active, Flying), lane.pending), IF PromotionDone THEN Goal ELSE want)
    BY Zenon, <2>1 DEF RenderInv, Sync, ActiveSync
  <2> DEFINE x == All(All(active, Flying), lane.pending)
  <2>3. x' = x BY Zenon, <2>1, <1>d
  <2> HIDE DEF x
  <2>4. CASE PromotionDone
    <3>1. cand'.bo = cand.bo /\ cand'.gen = cand.gen
      BY Zenon, <2>4, <1>b, <1>e, <1>f, <1>g, <1>h DEF PromotionDone, Continuations
    <3>2. Same(x, Goal) BY Zenon, <2>2, <2>4 DEF x
    <3>3. Same(x, Goal') BY Zenon, <3>1, <3>2, <1>c, <1>d DEF Same, Goal, Aim, ReactorTypes, Domain
    <3> QED BY Zenon, <3>3, <2>3, <2>4, <1>i DEF x
  <2>5. CASE ~PromotionDone
    <3>1. Same(x, want) BY Zenon, <2>2, <2>5 DEF x
    <3>2. Same(x, want') BY Zenon, <3>1, <1>c, <1>d DEF Same, ReactorTypes, Domain
    <3> QED BY Zenon, <3>2, <2>3, <2>5, <1>i DEF x
  <2> QED BY Zenon, <2>4, <2>5
<1>15. CandidateSync'
  <2> SUFFICES ASSUME InStep' PROVE CandidateSync' BY Zenon DEF CandidateSync
  <2>1. InStep /\ Flying' = Flying BY <1>d DEF InStep, Live, Working, Flying, Commanded
  <2>2. ~Building' /\ ~Promoting'
    BY Zenon, <2>1, <1>b, <1>d, <1>e, <1>f, <1>g, <1>h
    DEF Building, Promoting, InStep, Commanded, Continuations, Idle, Awaiting
  <2>3. ASSUME Following'
        PROVE Same(AllMirror(AllMirror(candidate, Flying), lane.pending), Goal')
    <3>1. Following /\ cand'.bo = cand.bo /\ cand'.gen = cand.gen
      BY Zenon, <2>3, <1>b, <1>e, <1>f, <1>g, <1>h DEF Following, Continuations
    <3> DEFINE x == AllMirror(AllMirror(candidate, Flying), lane.pending)
    <3>2. Same(x, Goal) BY Zenon, <3>1, <2>1 DEF RenderInv, Sync, CandidateSync
    <3> HIDE DEF x
    <3>3. Same(x, Goal') BY Zenon, <3>1, <3>2, <1>c, <1>d DEF Same, Goal, Aim, ReactorTypes, Domain
    <3> QED BY Zenon, <3>3 DEF x
  <2> QED BY Zenon, <2>1, <2>2, <2>3, <1>d DEF CandidateSync
<1> QED BY ZenonT(60), <1>1, <1>2, <1>3, <1>4, <1>5, <1>6, <1>7, <1>8, <1>9, <1>10, <1>11, <1>12,
    <1>13, <1>14, <1>15 DEF RenderInv, Types, Protocol, Pools, Epochs, Sync

\* The reactor looks at what the worker has sent.
LEMMA TakeEventKeeps == ASSUME RenderInv, TakeEvent PROVE RenderInv'
<1>1. status \in {"run", "quiesce", "teardown"} BY Zenon DEF TakeEvent, Looks
<1>2. Failed \in {"teardown", "join"} BY Zenon DEF Failed
<1>3. eventfd' = FALSE /\ UNCHANGED <<lane, scan, fatal, cmds, reply, worker>> BY Zenon DEF TakeEvent
<1>4. handle \in [busy : BOOLEAN, failure : {"none", "set", "reported"}]
  BY Zenon DEF RenderInv, Types, ReactorTypes
<1>5. CASE LaneFailureDue
  <2>1. /\ handle' = [handle EXCEPT !.failure = "reported"] /\ status' = Failed
        /\ UNCHANGED <<want, own, frame, cand, held, registry, broken, events>>
    BY <1>5 DEF TakeEvent
  <2>2. /\ handle' \in [busy : BOOLEAN, failure : {"none", "set", "reported"}]
        /\ handle'.busy = handle.busy /\ handle'.failure # "set"
    BY <2>1, <1>4
  <2> QED BY Zenon, <2>1, <2>2, <1>1, <1>2, <1>3, LookKeeps
<1>6. CASE ~LaneFailureDue /\ events = <<>>
  <2>1. /\ status' \in {status, Failed}
        /\ UNCHANGED <<want, handle, own, frame, cand, held, registry, broken, events>>
    BY <1>6 DEF TakeEvent
  <2> QED BY Zenon, <2>1, <1>1, <1>2, <1>3, <1>4, <1>6, LookKeeps DEF LaneFailureDue
<1>7. CASE ~LaneFailureDue /\ events # <<>>
  <2>e. PICK e : e = events[1] BY Zenon
  <2>1. /\ events' = <<>> /\ handle' = [handle EXCEPT !.busy = FALSE]
        /\ IF e = Fatal \/ ~Expected(e)
           THEN /\ status' = Failed /\ broken' = IF e = Fatal THEN broken ELSE "protocol"
                /\ UNCHANGED <<want, own, frame, cand, held, registry>>
           ELSE Settle(e) /\ UNCHANGED <<status, broken>>
    BY <1>7, <2>e DEF TakeEvent
  <2>2. handle.failure # "set" BY Zenon, <1>7 DEF LaneFailureDue
  <2>3. CASE e = Fatal
    <3>1. /\ status' \in {"teardown", "join"} /\ broken' = broken
          /\ UNCHANGED <<want, own, frame, cand, held, registry>>
      BY Zenon, <2>1, <2>3, <1>2
    <3> QED BY Zenon, <3>1, <2>e, <2>1, <2>2, <2>3, <1>1, <1>3, <1>7, FatalEventKeeps
  \* The reactor holds the continuation of every other event.
  <2>4. CASE e # Fatal
    <3>1. e.kind \in JobKinds /\ Owed(e)
      BY Zenon, <2>e, <2>4, <1>7 DEF RenderInv, Types, SharedTypes, EventOK, Protocol, EventHeld
    <3>2. e.kind \in {"prepare", "promote", "discard"} => cand.bo = e.bo
      BY Zenon, <3>1 DEF Owed
    <3>3. Expected(e)
      BY Zenon, <3>1 DEF Expected, Owed, JobKinds, Continuations
    <3>4. Settle(e) /\ UNCHANGED <<status, broken>> BY Zenon, <2>1, <2>4, <3>3
    <3> QED BY Zenon, <3>4, <2>e, <2>1, <2>2, <2>4, <1>1, <1>3, <1>7, SettleKeeps
  <2> QED BY Zenon, <2>3, <2>4
<1> QED BY Zenon, <1>5, <1>6, <1>7

-----------------------------------------------------------------------------
(* The reactor: a session that is resumed *)

\* e is the lane l with the control c queued.
Queued(l, c, e) ==
  /\ LaneOK(e) /\ e.epoch - Len(e.pending) = l.epoch - Len(l.pending)
  /\ ~e.overflow => ~l.overflow /\ \A d \in Domain : All(d, e.pending) = Apply(All(d, l.pending), c)

\* Enqueueing a control adds its effect to the batch, or the lane overflows.
LEMMA EnqueueQueues ==
  ASSUME NEW l, LaneOK(l), NEW c \in Controls
  PROVE Queued(l, c, Enqueue(l, c))
<1> DEFINE e == Enqueue(l, c)
<1>1. /\ LaneOK(e) /\ e.epoch - Len(e.pending) = l.epoch - Len(l.pending)
      /\ Full(l, c) => e = [l EXCEPT !.overflow = TRUE]
      /\ ~Full(l, c) => e.overflow = l.overflow
  BY Zenon, EnqueueKeeps
<1>2. Full(l, c) => e.overflow
  <2>1. l \in [pending : Seq(Controls), epoch : Nat, overflow : BOOLEAN] BY Zenon DEF LaneOK
  <2> HIDE DEF e
  <2> QED BY Zenon, <2>1, <1>1
<1>3. ASSUME ~e.overflow, NEW d \in Domain PROVE All(d, e.pending) = Apply(All(d, l.pending), c)
  <2>1. ~Full(l, c) BY Zenon, <1>2, <1>3
  <2>2. {"cursor", "damage"} \subseteq ControlKinds BY Zenon DEF ControlKinds
  <2>3. c.kind \in ControlKinds BY Zenon DEF Controls
  <2>4. ApplyBatch(d, e.pending, Len(e.pending), ControlKinds)
          = ApplyOne(ApplyBatch(d, l.pending, Len(l.pending), ControlKinds), c, ControlKinds)
    BY Zenon, <2>1, <2>2, EnqueueApplies
  <2> QED BY Zenon, <2>3, <2>4 DEF All, Applied, ApplyOne
<1> QED BY Zenon, <1>1, <1>2, <1>3 DEF Queued

\* The controls of a rebind.
Rebinding(l, next, c1, c2) ==
  /\ LaneOK(next) /\ next.epoch - Len(next.pending) = l.epoch - Len(l.pending)
  /\ ~next.overflow =>
       ~l.overflow /\ \A d \in Domain : All(d, next.pending) = Apply(Apply(All(d, l.pending), c1), c2)

\* Resuming the session queues the rebind and the full damage behind what was pending.
LEMMA RebindQueues ==
  ASSUME RenderInv, NEW gen \in 0..MaxGen
  PROVE LET rebind == Control("rebind", gen)
            damage == Control("damage", 0)
            retired == IF frame # 0 THEN Enqueue(lane, Control("discard", frame)) ELSE lane
        IN /\ rebind \in Controls /\ damage \in Controls
           /\ Rebinding(lane, Enqueue(Enqueue(retired, rebind), damage), rebind, damage)
<1> DEFINE rebind == Control("rebind", gen)
           damage == Control("damage", 0)
           drop == Control("discard", frame)
           retired == IF frame # 0 THEN Enqueue(lane, drop) ELSE lane
           bound == Enqueue(retired, rebind)
           next == Enqueue(bound, damage)
<1>1. LaneOK(lane) /\ lane.pending \in Seq(Controls)
  BY Zenon DEF RenderInv, Types, LaneTypes, LaneOK
<1>2. rebind \in Controls /\ damage \in Controls /\ drop \in Controls /\ drop.kind = "discard"
  BY DEF RenderInv, Types, ReactorTypes, Control, Controls, ControlKinds
<1> HIDE DEF rebind, damage, drop
<1>3. \A d : Apply(d, drop) = d BY Zenon, <1>2 DEF Apply
<1>4. /\ LaneOK(retired) /\ retired.epoch - Len(retired.pending) = lane.epoch - Len(lane.pending)
      /\ ~retired.overflow =>
           ~lane.overflow /\ \A d \in Domain : All(d, retired.pending) = All(d, lane.pending)
  <2>1. CASE frame # 0
    <3>1. Queued(lane, drop, retired) BY Zenon, <2>1, <1>1, <1>2, EnqueueQueues
    <3> HIDE DEF retired
    <3> QED BY Zenon, <3>1, <1>3 DEF Queued
  <2>2. CASE frame = 0 BY Zenon, <2>2, <1>1
  <2> QED BY Zenon, <2>1, <2>2
<1> HIDE DEF retired
<1>5. Queued(retired, rebind, bound) BY Zenon, <1>2, <1>4, EnqueueQueues
<1> HIDE DEF bound
<1>6. Queued(bound, damage, next) BY Zenon, <1>2, <1>5, EnqueueQueues DEF Queued
<1> HIDE DEF next
<1>7. Rebinding(lane, next, rebind, damage) BY Zenon, <1>4, <1>5, <1>6 DEF Queued, Rebinding
<1> QED BY Zenon, <1>2, <1>7 DEF next, bound, retired, rebind, damage, drop

\* The rebind ends the runtime.
LEMMA RebindFailsKeeps ==
  ASSUME RenderInv, status = "suspended", status' = "teardown", LaneTypes', ReactorTypes', frame' = 0,
         handle'.busy = handle.busy, fatal' \in BOOLEAN, eventfd' \in BOOLEAN,
         fatal => fatal', handle'.failure = "set" => eventfd', scan'.bo = scan.bo,
         UNCHANGED <<own, cand, held, registry, broken, cmds, events, reply, worker>>
  PROVE RenderInv'
<1>1. /\ WorkerTypes' /\ GoneDomains' /\ CandidatePool' /\ EffectsPublished'
      /\ broken' \in {"no", "control"} /\ JobSync' /\ RendersAsSynchronous'
  <2>1. WorkerTypes' BY Zenon DEF RenderInv, Types, WorkerTypes, worker
  <2>2. GoneDomains' BY Zenon DEF RenderInv, Pools, GoneDomains, worker
  <2>3. CandidatePool' BY Zenon DEF RenderInv, Pools, CandidatePool, Came, CameWell, worker
  <2>4. EffectsPublished' BY Zenon DEF RenderInv, Pools, EffectsPublished, CameWell, worker
  <2>5. broken' \in {"no", "control"} BY Zenon DEF RenderInv, Epochs, worker
  <2>6. JobSync' BY Zenon DEF RenderInv, Sync, JobSync, Commanded, Working, worker
  <2>7. RendersAsSynchronous' BY Zenon DEF RenderInv, Sync, RendersAsSynchronous, worker
  <2> QED BY Zenon, <2>1, <2>2, <2>3, <2>4, <2>5, <2>6, <2>7
<1>2. ReactorTypes'
  OBVIOUS
<1>3. SharedTypes'
  BY DEF RenderInv, Types, Protocol, Pools, Epochs, Sync, SharedTypes, worker
<1>4. LaneTypes'
  OBVIOUS
<1>5. CommandHeld'
  BY DEF RenderInv, Types, Protocol, Pools, Epochs, Sync, CommandHeld, Owed, Commanded, Working,
      Live, worker
<1>6. OutHeld'
  BY Zenon DEF RenderInv, Types, Protocol, Pools, Epochs, Sync, OutHeld, Owed, Live, worker
<1>7. EventHeld'
  BY Zenon DEF RenderInv, Types, Protocol, Pools, Epochs, Sync, EventHeld, Owed, Working, Live, worker
<1>8. Ended'
  BY Zenon DEF RenderInv, Types, Protocol, Pools, Epochs, Sync, Ended, Working, worker
<1>9. ReactorIdle'
  BY Zenon DEF RenderInv, Types, Protocol, Pools, Epochs, Sync, ReactorIdle, Live, worker
<1>10. ReplyHeld'
  BY Zenon DEF RenderInv, Types, Protocol, Pools, Epochs, Sync, ReplyHeld, Live, Working, worker
<1>11. CandidateHeld'
  BY Zenon DEF RenderInv, Types, Protocol, Pools, Epochs, Sync, CandidateHeld, Idle, worker
<1>12. ActivePool'
  BY Zenon DEF RenderInv, Types, Protocol, Pools, Epochs, Sync, ActivePool, PromotionDone, Came, worker
<1>13. EpochsContiguous'
  BY Zenon DEF RenderInv, Types, Protocol, Pools, Epochs, Sync, EpochsContiguous, InFlight, Live,
      worker
<1>14. BatchValid'
  BY Zenon DEF RenderInv, Types, Protocol, Pools, Epochs, Sync, BatchValid, Commanded, Live, Valid,
      worker
<1>15. WakeInv'
  BY Zenon DEF RenderInv, Types, Protocol, Pools, Epochs, Sync, WakeInv, Live, worker
<1>16. ActiveSync'
  BY Zenon DEF RenderInv, Types, Protocol, Pools, Epochs, Sync, ActiveSync, InStep, Live, Working,
      PromotionDone, Came, Flying, Commanded, Goal, Aim, worker
<1>17. CandidateSync'
  BY Zenon DEF RenderInv, Types, Protocol, Pools, Epochs, Sync, CandidateSync, InStep, Live, Working,
      Following, Promoting, Building, Came, CameWell, Flying, Commanded, Goal, Aim, worker
<1> QED BY ZenonT(60), <1>1, <1>2, <1>3, <1>4, <1>5, <1>6, <1>7, <1>8, <1>9, <1>10, <1>11, <1>12,
    <1>13, <1>14, <1>15, <1>16, <1>17 DEF RenderInv, Types, Protocol, Pools, Epochs, Sync

\* The rebind goes to the worker, after what is pending.
LEMMA RebindSentKeeps ==
  ASSUME RenderInv, status = "suspended", status' = "rebinding", Admits, ReactorTypes', frame' = 0,
         handle'.busy, handle'.failure = handle.failure, scan'.bo = scan.bo,
         NEW j, j.kind = "apply", CommandOK(j), cmds' = <<j>>, NEW next, ~next.overflow,
         NEW c1 \in Controls, NEW c2 \in Controls, Rebinding(lane, next, c1, c2),
         j.controls = next.pending, j.epoch = next.epoch, lane' = [next EXCEPT !.pending = <<>>],
         want' = Apply(Apply(want, c1), c2),
         UNCHANGED <<own, cand, held, registry, broken, fatal, eventfd, events, reply, worker>>
  PROVE RenderInv'
<1>a. /\ Working /\ pc \in {"recv", "signal"} /\ cmds = <<>> /\ events = <<>> /\ Live
      /\ ~Commanded /\ Flying = <<>> /\ InFlight = 0 /\ own = {}
      /\ \A kind : ~Came(kind) /\ ~CameWell(kind)
      /\ reply = "none" /\ cand.stage \in Idle
  BY Zenon, AdmitsIdle DEF Live, RenderInv, Pools, CandidateHeld
<1>b. /\ LaneOK(next) /\ next.epoch - Len(next.pending) = lane.epoch - Len(lane.pending)
      /\ ~lane.overflow
      /\ \A d \in Domain : All(d, next.pending) = Apply(Apply(All(d, lane.pending), c1), c2)
  BY Zenon DEF Rebinding
<1>c. /\ next \in [pending : Seq(Controls), epoch : Nat, overflow : BOOLEAN]
      /\ lane \in [pending : Seq(Controls), epoch : Nat, overflow : BOOLEAN]
      /\ active \in Domain /\ want \in Domain /\ applied \in Nat
  BY Zenon, <1>b DEF LaneOK, RenderInv, Types, LaneTypes, WorkerTypes, ReactorTypes
<1>d. lane'.pending = <<>> /\ lane'.epoch = next.epoch /\ ~lane'.overflow BY Zenon, <1>c
<1>p. lane.pending \in Seq(Controls) /\ next.pending \in Seq(Controls) BY Zenon, <1>c
<1>e. /\ Commanded' /\ Flying' = next.pending /\ InFlight' = Len(next.pending)
      /\ \A kind : ~Came(kind)' /\ ~CameWell(kind)'
      /\ UNCHANGED <<pc, seen, out, applied, active, candidate>>
  BY Zenon, <1>a DEF Commanded, Flying, InFlight, Came, CameWell, worker
<1>f. Live /\ broken = "no" => applied = next.epoch - Len(next.pending)
  <2>1. EpochsContiguous BY Zenon DEF RenderInv, Epochs
  <2>2. Live /\ broken = "no" => applied + 0 + Len(lane.pending) = lane.epoch
    BY Zenon, <2>1, <1>a DEF EpochsContiguous, Live
  <2>3. Len(lane.pending) \in Nat /\ lane.epoch \in Nat BY <1>c
  <2>4. Live /\ broken = "no" => applied = lane.epoch - Len(lane.pending) BY SMTT(60), <2>2, <2>3, <1>c
  <2> QED BY Zenon, <2>4, <1>b
<1>1. /\ WorkerTypes' /\ Ended' /\ GoneDomains' /\ CandidatePool' /\ EffectsPublished'
      /\ broken' \in {"no", "control"} /\ RendersAsSynchronous'
  BY Zenon, <1>a, <1>e DEF RenderInv, Types, Protocol, Pools, Epochs, Sync, worker, CandidatePool,
      EffectsPublished, Ended, GoneDomains, RendersAsSynchronous, WorkerTypes, Working, Came,
      CameWell
<1>2. ReactorTypes'
  BY Zenon
<1>3. SharedTypes'
  BY Zenon DEF RenderInv, Types, Protocol, Pools, Epochs, Sync, SharedTypes, worker
<1>4. LaneTypes'
  <2>1. <<>> \in Seq(Controls) OBVIOUS
  <2>2. lane' \in [pending : Seq(Controls), epoch : Nat, overflow : BOOLEAN] BY Zenon, <2>1, <1>c
  <2> QED BY <2>2, <1>d, RenderAssumption DEF LaneTypes, LaneOK, NoRebind
<1>5. CommandHeld'
  <2>1. cmds'[1] = j OBVIOUS
  <2>2. Owed(cmds[1])' BY <2>1 DEF Owed, Continuations
  <2> QED BY <2>1, <2>2, <1>a, <1>e DEF CommandHeld, JobKinds
<1>6. OutHeld'
  BY <1>a, <1>e DEF OutHeld
<1>7. EventHeld'
  BY <1>a DEF EventHeld
<1>8. ReactorIdle'
  BY <1>a DEF ReactorIdle
<1>9. ReplyHeld'
  BY Zenon, <1>a DEF ReplyHeld
<1>10. CandidateHeld'
  BY Zenon, <1>a, <1>e DEF RenderInv, Types, Protocol, Pools, Epochs, Sync, CandidateHeld, Idle, worker
<1>11. ActivePool'
  BY Zenon, <1>a, <1>e DEF RenderInv, Pools, ActivePool, PromotionDone
<1>12. EpochsContiguous'
  <2>1. broken = "no" => applied + Len(next.pending) + 0 = next.epoch
    <3>1. Len(next.pending) \in Nat BY <1>c
    <3> QED BY <3>1, <1>a, <1>c, <1>f
  <2>2. Len(lane'.pending) = 0 BY Zenon, <1>d
  <2> QED BY Zenon, <2>1, <2>2, <1>d, <1>e DEF EpochsContiguous
<1>13. BatchValid'
  <2>1. broken = "no" => Valid(applied, next.pending, next.epoch)
    <3>1. DOMAIN next.pending = 1..Len(next.pending) /\ Len(next.pending) \in Nat BY <1>c
    <3>2. \A i \in 1..Len(next.pending) : next.pending[i].epoch = next.epoch - Len(next.pending) + i
      BY Zenon, <1>b DEF LaneOK
    <3>3. broken = "no" => applied + Len(next.pending) = next.epoch BY <3>1, <1>a, <1>c, <1>f
    <3> QED BY Zenon, <3>1, <3>2, <3>3, <1>a, <1>f DEF Valid
  <2>2. cmds'[1] = j OBVIOUS
  <2> QED BY Zenon, <2>1, <2>2, <1>e DEF BatchValid, Valid
<1>14. WakeInv'
  BY Zenon, <1>a DEF RenderInv, Types, Protocol, Pools, Epochs, Sync, WakeInv, Live, worker
<1>15. ActiveSync'
  <2> SUFFICES ASSUME InStep'
               PROVE Same(All(All(active, Flying), lane.pending),
                          IF PromotionDone THEN Goal ELSE want)'
    BY Zenon DEF ActiveSync
  <2>1. InStep /\ ~PromotionDone /\ ~PromotionDone'
    BY Zenon, <1>a, <1>b, <1>e DEF InStep, PromotionDone, Idle
  <2> DEFINE x == All(active, lane.pending)
  <2>2. x \in Domain BY Zenon, <1>c, <1>p, AllKeeps
  <2>3. Same(x, want)
    BY Zenon, <2>1, <1>a, EmptyAll DEF RenderInv, Sync, ActiveSync
  <2>4. (All(All(active, Flying), lane.pending))' = Apply(Apply(x, c1), c2)
    BY Zenon, <1>b, <1>c, <1>d, <1>e, EmptyAll
  <2> HIDE DEF x
  <2>5. Same(Apply(x, c1), Apply(want, c1)) BY Zenon, <2>2, <2>3, <1>c, ApplySame
  <2>6. Apply(x, c1) \in Domain /\ Apply(want, c1) \in Domain BY Zenon, <2>2, <1>c, ApplyKeeps
  <2>7. Same(Apply(Apply(x, c1), c2), Apply(Apply(want, c1), c2))
    BY Zenon, <2>5, <2>6, ApplySame
  <2> QED BY Zenon, <2>1, <2>4, <2>7
<1>16. CandidateSync'
  <2>1. cmds'[1] = j OBVIOUS
  <2> QED BY Zenon, <2>1, <1>a DEF CandidateSync, Following, Promoting, Building, Idle
<1>17. JobSync'
  BY Zenon DEF JobSync
<1> QED BY ZenonT(60), <1>1, <1>2, <1>3, <1>4, <1>5, <1>6, <1>7, <1>8, <1>9, <1>10, <1>11, <1>12,
    <1>13, <1>14, <1>15, <1>16, <1>17 DEF RenderInv, Types, Protocol, Pools, Epochs, Sync

\* A suspended session is resumed.
LEMMA StartRebindKeeps == ASSUME RenderInv, StartRebind PROVE RenderInv'
<1>g. PICK gen : gen = scan.gen + 1 BY Zenon
<1>1. ReactorTypes /\ SharedTypes /\ LaneTypes /\ WakeInv BY Zenon DEF RenderInv, Types
<1>2. gen \in 1..MaxGen /\ gen \in 0..MaxGen /\ scan.gen + 1 <= MaxGen
  BY <1>g, <1>1 DEF StartRebind, ReactorTypes
<1> DEFINE c1 == Control("rebind", gen)
           c2 == Control("damage", 0)
           retired == IF frame # 0 THEN Enqueue(lane, Control("discard", frame)) ELSE lane
           next == Enqueue(Enqueue(retired, c1), c2)
<1>3. c1 \in Controls /\ c2 \in Controls /\ Rebinding(lane, next, c1, c2)
  BY Zenon, <1>2, RebindQueues
<1>4. /\ status = "suspended" /\ scan' = [scan EXCEPT !.gen = gen] /\ frame' = 0
      /\ want' = Apply(Apply(want, c1), c2)
      /\ lane' = IF next.overflow THEN next ELSE [next EXCEPT !.pending = <<>>]
      /\ IF next.overflow
         THEN FailControlLane /\ status' = "teardown" /\ UNCHANGED cmds
         ELSE IF ~Admits
         THEN status' = "teardown" /\ UNCHANGED <<handle, fatal, eventfd, cmds>>
         ELSE /\ cmds' = <<[kind |-> "apply", controls |-> next.pending, epoch |-> next.epoch]>>
              /\ handle' = [handle EXCEPT !.busy = TRUE] /\ status' = "rebinding"
              /\ UNCHANGED <<fatal, eventfd>>
      /\ UNCHANGED <<own, cand, held, registry, broken, events, reply, worker>>
  BY Zenon, <1>g DEF StartRebind
<1> HIDE DEF next
<1>5. want' \in Domain /\ want'.cursor \in 1..2 /\ want'.effects = registry
  <2>1. want \in Domain /\ want.effects = registry /\ want.cursor \in 1..2
    BY Zenon, <1>1 DEF ReactorTypes
  <2>2. Apply(want, c1) \in Domain /\ Apply(want, c1).effects = registry
    BY Zenon, <2>1, <1>3, ApplyKeeps
  <2>3. want' \in Domain /\ want'.effects = registry BY Zenon, <2>2, <1>3, <1>4, ApplyKeeps
  <2>4. Apply(want, c1).cursor \in 1..2 BY Zenon, <2>1 DEF Control, Apply, Domain
  <2>5. want'.cursor \in 1..2 BY Zenon, <2>2, <2>4, <1>4 DEF Control, Apply, Domain
  <2> QED BY Zenon, <2>3, <2>5
<1> HIDE DEF c1, c2
<1>6. /\ handle \in [busy : BOOLEAN, failure : {"none", "set", "reported"}]
      /\ scan' \in [bo : 1..MaxPool, gen : 1..MaxGen] /\ scan'.bo = scan.bo /\ frame' \in 0..2
      /\ fatal \in BOOLEAN /\ eventfd \in BOOLEAN /\ (handle.failure = "set" => eventfd)
  BY <1>1, <1>2, <1>4 DEF ReactorTypes, SharedTypes, WakeInv
<1>7. /\ LaneOK(next) /\ next \in [pending : Seq(Controls), epoch : Nat, overflow : BOOLEAN]
      /\ next.pending \in Seq(Controls) /\ next.epoch \in Nat
  BY <1>3 DEF Rebinding, LaneOK
<1>8. ASSUME handle' \in [busy : BOOLEAN, failure : {"none", "set", "reported"}],
             status' \in {"teardown", "rebinding"}
      PROVE ReactorTypes'
  BY <1>1, <1>4, <1>5, <1>6, <1>8 DEF ReactorTypes, Statuses
<1>9. LaneTypes'
  <2>1. CASE next.overflow
    BY Zenon, <2>1, <1>4, <1>7 DEF LaneTypes, LaneOK
  <2>2. CASE ~next.overflow
    <3>1. <<>> \in Seq(Controls) OBVIOUS
    <3>2. lane' = [next EXCEPT !.pending = <<>>] BY Zenon, <2>2, <1>4
    <3>3. /\ lane' \in [pending : Seq(Controls), epoch : Nat, overflow : BOOLEAN]
          /\ lane'.pending = <<>>
      BY Zenon, <3>1, <3>2, <1>7
    <3> QED BY <3>3, RenderAssumption DEF LaneTypes, LaneOK, NoRebind
  <2> QED BY Zenon, <2>1, <2>2
<1>10. CASE next.overflow
  <2>1. FailControlLane /\ status' = "teardown" /\ UNCHANGED cmds BY Zenon, <1>4, <1>10
  <2>2. /\ handle' \in [busy : BOOLEAN, failure : {"none", "set", "reported"}]
        /\ handle'.busy = handle.busy /\ fatal' = TRUE /\ eventfd' = TRUE
    BY <2>1, <1>6 DEF FailControlLane
  <2> QED BY <2>1, <2>2, <1>4, <1>6, <1>8, <1>9, RebindFailsKeeps
<1>11. CASE ~next.overflow /\ ~Admits
  <2>1. status' = "teardown" /\ UNCHANGED <<handle, fatal, eventfd, cmds>>
    BY Zenon, <1>4, <1>11
  <2> QED BY <2>1, <1>4, <1>6, <1>8, <1>9, RebindFailsKeeps
<1>12. CASE ~next.overflow /\ Admits
  <2>j. PICK j : j = [kind |-> "apply", controls |-> next.pending, epoch |-> next.epoch] BY Zenon
  <2>1. /\ cmds' = <<j>> /\ handle' = [handle EXCEPT !.busy = TRUE] /\ status' = "rebinding"
        /\ UNCHANGED <<fatal, eventfd>> /\ lane' = [next EXCEPT !.pending = <<>>]
    BY Zenon, <1>4, <1>12, <2>j
  <2>2. /\ handle' \in [busy : BOOLEAN, failure : {"none", "set", "reported"}]
        /\ handle'.busy /\ handle'.failure = handle.failure
    BY Zenon, <2>1, <1>6
  <2>3. CommandOK(j) /\ j.kind = "apply" /\ j.controls = next.pending /\ j.epoch = next.epoch
    BY <2>j, <1>7 DEF CommandOK, JobKinds
  <2>4. ReactorTypes' BY <2>1, <2>2, <1>8
  <2> QED BY ZenonT(60), <2>1, <2>2, <2>3, <2>4, <1>3, <1>4, <1>6, <1>12, RebindSentKeeps
<1> QED BY Zenon, <1>10, <1>11, <1>12

\* The worker has answered ApplyControls.
LEMMA EndRebindKeeps == RenderInv /\ EndRebind => RenderInv'
<1> SUFFICES ASSUME RenderInv, EndRebind PROVE RenderInv' OBVIOUS
<1>a. /\ status = "rebinding" /\ reply # "none" /\ reply' = "none"
      /\ UNCHANGED <<lane, want, own, frame, cand, scan, held, registry, broken, cmds, events>>
      /\ UNCHANGED <<pc, seen, out, applied, active, candidate>>
  BY Zenon DEF EndRebind, worker
<1>b. /\ Live /\ cmds = <<>> /\ own = {} /\ cand.stage \in Idle
      /\ Working => events = <<>> /\ pc # "publish"
      /\ events # <<>> => events[1] = Fatal
  BY Zenon, <1>a DEF Live, RenderInv, Protocol, ReplyHeld, ReactorIdle, Pools, CandidateHeld
<1>c. /\ handle' \in [busy : BOOLEAN, failure : {"none", "set", "reported"}] /\ ~handle'.busy
      /\ fatal' \in BOOLEAN /\ eventfd' \in BOOLEAN /\ (fatal => fatal') /\ (eventfd => eventfd')
      /\ handle'.failure = "set" => eventfd'
      /\ status' \in {"run", "teardown"}
  <2>1. /\ handle \in [busy : BOOLEAN, failure : {"none", "set", "reported"}]
        /\ fatal \in BOOLEAN /\ eventfd \in BOOLEAN /\ (handle.failure = "set" => eventfd)
    BY Zenon DEF RenderInv, Types, ReactorTypes, SharedTypes, WakeInv
  <2>2. CASE reply = "applied"
    <3>1. handle' = [handle EXCEPT !.busy = FALSE] /\ status' = "run" /\ UNCHANGED <<fatal, eventfd>>
      BY <2>2 DEF EndRebind
    <3> QED BY Zenon, <3>1, <2>1
  <2>3. CASE reply # "applied"
    <3>1. /\ handle' = [busy |-> FALSE,
                        failure |-> IF handle.failure = "none" THEN "set" ELSE handle.failure]
          /\ fatal' = TRUE /\ eventfd' = TRUE /\ status' = "teardown"
      BY SMTT(60), <2>3 DEF EndRebind
    <3> QED BY <3>1, <2>1
  <2> QED BY Zenon, <2>2, <2>3
<1>1. /\ WorkerTypes' /\ LaneTypes' /\ GoneDomains' /\ ActivePool' /\ CandidatePool'
      /\ EffectsPublished' /\ broken' \in {"no", "control"} /\ JobSync' /\ RendersAsSynchronous'
  <2>1. WorkerTypes' BY Zenon, <1>a DEF RenderInv, Types, WorkerTypes, worker
  <2>2. LaneTypes' BY Zenon, <1>a DEF RenderInv, Types, LaneTypes, worker
  <2>3. GoneDomains' BY Zenon, <1>a DEF RenderInv, Pools, GoneDomains, worker
  <2>4. ActivePool' BY Zenon, <1>a DEF RenderInv, Pools, ActivePool, PromotionDone, Came, worker
  <2>5. CandidatePool' BY Zenon, <1>a DEF RenderInv, Pools, CandidatePool, Came, CameWell, worker
  <2>6. EffectsPublished' BY Zenon, <1>a DEF RenderInv, Pools, EffectsPublished, CameWell, worker
  <2>7. broken' \in {"no", "control"} BY Zenon, <1>a DEF RenderInv, Epochs, worker
  <2>8. JobSync' BY Zenon, <1>a DEF RenderInv, Sync, JobSync, Commanded, Working, worker
  <2>9. RendersAsSynchronous' BY Zenon, <1>a DEF RenderInv, Sync, RendersAsSynchronous, worker
  <2> QED BY Zenon, <2>1, <2>2, <2>3, <2>4, <2>5, <2>6, <2>7, <2>8, <2>9
<1>2. ReactorTypes'
  BY <1>a, <1>c DEF RenderInv, Types, Protocol, Pools, Epochs, Sync, ReactorTypes, Statuses,
      worker
<1>3. SharedTypes'
  BY <1>a, <1>c DEF RenderInv, Types, Protocol, Pools, Epochs, Sync, SharedTypes, worker
<1>4. CommandHeld'
  BY <1>a, <1>b DEF CommandHeld, Commanded
<1>5. OutHeld'
  BY <1>a, <1>b DEF OutHeld, Working
<1>6. EventHeld'
  BY <1>a, <1>b DEF EventHeld, Working
<1>7. Ended'
  BY <1>a, <1>c DEF RenderInv, Types, Protocol, Pools, Epochs, Sync, Ended, Working, worker
<1>8. ReactorIdle'
  BY Zenon, <1>a, <1>b, <1>c DEF ReactorIdle, Idle, Awaiting
<1>9. ReplyHeld'
  BY Zenon, <1>a DEF ReplyHeld
<1>10. CandidateHeld'
  BY Zenon, <1>a, <1>c DEF RenderInv, Types, Protocol, Pools, Epochs, Sync, CandidateHeld, worker
<1>11. EpochsContiguous'
  BY Zenon, <1>a, <1>b, <1>c DEF RenderInv, Types, Protocol, Pools, Epochs, Sync, EpochsContiguous,
      InFlight, Live, worker
<1>12. BatchValid'
  BY Zenon, <1>a, <1>b DEF BatchValid, Commanded
<1>13. WakeInv'
  BY Zenon, <1>a, <1>b, <1>c DEF RenderInv, Types, Protocol, Pools, Epochs, Sync, WakeInv, Live, worker
<1>14. ActiveSync'
  <2>1. InStep' => InStep BY Zenon, <1>a, <1>b DEF InStep, Working
  <2>2. (PromotionDone' <=> PromotionDone) /\ Flying' = Flying /\ Goal' = Goal
    BY Zenon, <1>a DEF PromotionDone, Came, Flying, Commanded, Goal
  <2> QED BY Zenon, <2>1, <2>2, <1>a DEF RenderInv, Sync, ActiveSync
<1>15. CandidateSync'
  BY SMTT(60), <1>a, <1>b DEF CandidateSync, Following, Promoting, Building, Commanded, Idle
<1> QED BY ZenonT(60), <1>1, <1>2, <1>3, <1>4, <1>5, <1>6, <1>7, <1>8, <1>9, <1>10, <1>11, <1>12,
    <1>13, <1>14, <1>15 DEF RenderInv, Types, Protocol, Pools, Epochs, Sync

\* No answer to ApplyControls: the lane fails and the runtime ends.
LEMMA RebindLostKeeps == RenderInv /\ RebindLost => RenderInv'
<1> SUFFICES ASSUME RenderInv, RebindLost PROVE RenderInv' OBVIOUS
<1>a. /\ handle' \in [busy : BOOLEAN, failure : {"none", "set", "reported"}]
      /\ handle'.busy = handle.busy /\ fatal' = TRUE /\ eventfd' = TRUE
  BY ZenonT(60) DEF RebindLost, FailControlLane, RenderInv, Types, ReactorTypes
<1>1. /\ WorkerTypes' /\ LaneTypes' /\ GoneDomains' /\ ActivePool' /\ CandidatePool'
      /\ EffectsPublished' /\ broken' \in {"no", "control"} /\ JobSync' /\ RendersAsSynchronous'
  <2>1. WorkerTypes' BY Zenon DEF RenderInv, Types, WorkerTypes, RebindLost, worker
  <2>2. LaneTypes' BY Zenon DEF RenderInv, Types, LaneTypes, RebindLost, worker
  <2>3. GoneDomains' BY Zenon DEF RenderInv, Pools, GoneDomains, RebindLost, worker
  <2>4. ActivePool' BY Zenon DEF RenderInv, Pools, ActivePool, PromotionDone, Came, RebindLost,
      worker
  <2>5. CandidatePool' BY Zenon DEF RenderInv, Pools, CandidatePool, Came, CameWell, RebindLost,
      worker
  <2>6. EffectsPublished' BY Zenon DEF RenderInv, Pools, EffectsPublished, CameWell, RebindLost,
      worker
  <2>7. broken' \in {"no", "control"} BY Zenon DEF RenderInv, Epochs, RebindLost, worker
  <2>8. JobSync' BY Zenon DEF RenderInv, Sync, JobSync, Commanded, Working, RebindLost, worker
  <2>9. RendersAsSynchronous' BY Zenon DEF RenderInv, Sync, RendersAsSynchronous, RebindLost, worker
  <2> QED BY Zenon, <2>1, <2>2, <2>3, <2>4, <2>5, <2>6, <2>7, <2>8, <2>9
<1>2. ReactorTypes'
  BY <1>a DEF RenderInv, Types, Protocol, Pools, Epochs, Sync, ReactorTypes, Statuses,
      RebindLost, worker
<1>3. SharedTypes'
  BY <1>a DEF RenderInv, Types, SharedTypes, RebindLost
<1>4. CommandHeld'
  BY <1>a DEF RenderInv, Types, Protocol, Pools, Epochs, Sync, CommandHeld, Owed, Commanded,
      Working, Live, RebindLost, worker
<1>5. OutHeld'
  BY Zenon, <1>a DEF RenderInv, Types, Protocol, Pools, Epochs, Sync, OutHeld, Owed, Live, RebindLost,
      worker
<1>6. EventHeld'
  BY Zenon, <1>a DEF RenderInv, Types, Protocol, Pools, Epochs, Sync, EventHeld, Owed, Working, Live,
      RebindLost, worker
<1>7. Ended'
  BY Zenon, <1>a DEF RenderInv, Types, Protocol, Pools, Epochs, Sync, Ended, Working, RebindLost, worker
<1>8. ReactorIdle'
  BY Zenon, <1>a DEF RenderInv, Types, Protocol, Pools, Epochs, Sync, ReactorIdle, Live, RebindLost,
      worker
<1>9. ReplyHeld'
  BY Zenon, <1>a DEF RenderInv, Types, Protocol, Pools, Epochs, Sync, ReplyHeld, Live, Working,
      RebindLost, worker
<1>10. CandidateHeld'
  BY Zenon DEF RenderInv, Types, Protocol, Pools, Epochs, Sync, CandidateHeld, RebindLost, worker
<1>11. EpochsContiguous'
  BY Zenon DEF RenderInv, Types, Protocol, Pools, Epochs, Sync, EpochsContiguous, InFlight, Live,
      RebindLost, worker
<1>12. BatchValid'
  BY Zenon DEF RenderInv, Types, Protocol, Pools, Epochs, Sync, BatchValid, Commanded, Live, Valid,
      RebindLost, worker
<1>13. WakeInv'
  BY Zenon, <1>a DEF RenderInv, Types, Protocol, Pools, Epochs, Sync, WakeInv, Live, RebindLost, worker
<1>14. ActiveSync'
  BY Zenon DEF RenderInv, Types, Protocol, Pools, Epochs, Sync, ActiveSync, InStep, Live, Working,
      PromotionDone, Came, Flying, Commanded, Goal, Aim, RebindLost, worker
<1>15. CandidateSync'
  BY Zenon DEF RenderInv, Types, Protocol, Pools, Epochs, Sync, CandidateSync, InStep, Live, Working,
      Following, Promoting, Building, Came, CameWell, Flying, Commanded, Goal, Aim, RebindLost,
      worker
<1> QED BY Zenon, <1>1, <1>2, <1>3, <1>4, <1>5, <1>6, <1>7, <1>8, <1>9, <1>10, <1>11, <1>12,
    <1>13, <1>14, <1>15 DEF RenderInv, Types, Protocol, Pools, Epochs, Sync

\* shutdown_and_join sends Shutdown.
LEMMA SendShutdownKeeps == RenderInv /\ SendShutdown => RenderInv'
<1> SUFFICES ASSUME RenderInv, SendShutdown PROVE RenderInv' OBVIOUS
<1>1. /\ WorkerTypes' /\ LaneTypes' /\ Ended' /\ GoneDomains' /\ ActivePool' /\ CandidatePool'
      /\ EffectsPublished' /\ broken' \in {"no", "control"} /\ RendersAsSynchronous'
  <2>1. WorkerTypes' BY Zenon DEF RenderInv, Types, WorkerTypes, SendShutdown, worker
  <2>2. LaneTypes' BY Zenon DEF RenderInv, Types, LaneTypes, SendShutdown, worker
  <2>3. Ended' BY Zenon DEF RenderInv, Protocol, Ended, Working, SendShutdown, worker
  <2>4. GoneDomains' BY Zenon DEF RenderInv, Pools, GoneDomains, SendShutdown, worker
  <2>5. ActivePool' BY Zenon DEF RenderInv, Pools, ActivePool, PromotionDone, Came, SendShutdown,
      worker
  <2>6. CandidatePool' BY Zenon DEF RenderInv, Pools, CandidatePool, Came, CameWell, SendShutdown,
      worker
  <2>7. EffectsPublished' BY Zenon DEF RenderInv, Pools, EffectsPublished, CameWell, SendShutdown,
      worker
  <2>8. broken' \in {"no", "control"} BY Zenon DEF RenderInv, Epochs, SendShutdown, worker
  <2>9. RendersAsSynchronous' BY Zenon DEF RenderInv, Sync, RendersAsSynchronous, SendShutdown,
      worker
  <2> QED BY Zenon, <2>1, <2>2, <2>3, <2>4, <2>5, <2>6, <2>7, <2>8, <2>9
<1>2. ReactorTypes'
  BY DEF RenderInv, Types, Protocol, Pools, Epochs, Sync, ReactorTypes, Statuses, SendShutdown,
      worker
<1>3. SharedTypes'
  <2>1. CommandOK([kind |-> "shutdown"]) BY SMTT(60) DEF CommandOK, JobKinds
  <2> QED BY <2>1 DEF RenderInv, Types, SharedTypes, SendShutdown
<1>4. CommandHeld'
  BY DEF RenderInv, Types, Protocol, Pools, Epochs, Sync, CommandHeld, Owed, Commanded, Working,
      Live, SendShutdown, worker
<1>5. OutHeld'
  BY Zenon DEF RenderInv, Types, Protocol, Pools, Epochs, Sync, OutHeld, Owed, Live, SendShutdown,
      worker
<1>6. EventHeld'
  BY Zenon DEF RenderInv, Types, Protocol, Pools, Epochs, Sync, EventHeld, Owed, Working, Live,
      SendShutdown, worker
<1>7. ReactorIdle'
  BY Zenon DEF RenderInv, Types, Protocol, Pools, Epochs, Sync, ReactorIdle, Live, SendShutdown, worker
<1>8. ReplyHeld'
  BY Zenon DEF RenderInv, Types, Protocol, Pools, Epochs, Sync, ReplyHeld, Live, Working,
      SendShutdown, worker
<1>9. CandidateHeld'
  BY Zenon DEF RenderInv, Types, Protocol, Pools, Epochs, Sync, CandidateHeld, SendShutdown, worker
<1>10. EpochsContiguous'
  BY Zenon DEF RenderInv, Types, Protocol, Pools, Epochs, Sync, EpochsContiguous, InFlight, Live,
      SendShutdown, worker
<1>11. BatchValid'
  BY Zenon DEF RenderInv, Types, Protocol, Pools, Epochs, Sync, BatchValid, Commanded, Live, Valid,
      SendShutdown, worker
<1>12. WakeInv'
  BY Zenon DEF RenderInv, Types, Protocol, Pools, Epochs, Sync, WakeInv, Live, SendShutdown, worker
<1>13. ActiveSync'
  BY Zenon DEF RenderInv, Types, Protocol, Pools, Epochs, Sync, ActiveSync, InStep, Live, Working,
      PromotionDone, Came, Flying, Commanded, Goal, Aim, SendShutdown, worker
<1>14. CandidateSync'
  BY Zenon DEF RenderInv, Types, Protocol, Pools, Epochs, Sync, CandidateSync, InStep, Live, Working,
      Following, Promoting, Building, Came, CameWell, Flying, Commanded, Goal, Aim, SendShutdown,
      worker
<1>15. JobSync'
  BY Zenon DEF RenderInv, Types, Protocol, Pools, Epochs, Sync, JobSync, Commanded, Working,
      SendShutdown, worker
<1> QED BY ZenonT(60), <1>1, <1>2, <1>3, <1>4, <1>5, <1>6, <1>7, <1>8, <1>9, <1>10, <1>11, <1>12,
    <1>13, <1>14, <1>15 DEF RenderInv, Types, Protocol, Pools, Epochs, Sync

\* The worker is joined and the scanout's pool goes.
LEMMA JoinedKeeps == RenderInv /\ Joined => RenderInv'
<1> SUFFICES ASSUME RenderInv, Joined PROVE RenderInv' OBVIOUS
<1>1. /\ WorkerTypes' /\ SharedTypes' /\ LaneTypes' /\ Ended' /\ GoneDomains' /\ ActivePool'
      /\ CandidatePool' /\ EffectsPublished' /\ broken' \in {"no", "control"} /\ JobSync'
      /\ RendersAsSynchronous'
  <2>1. WorkerTypes' BY Zenon DEF RenderInv, Types, WorkerTypes, Joined, worker, shared
  <2>2. SharedTypes' BY Zenon DEF RenderInv, Types, SharedTypes, Joined, worker, shared
  <2>3. LaneTypes' BY Zenon DEF RenderInv, Types, LaneTypes, Joined, worker, shared
  <2>4. Ended' BY Zenon DEF RenderInv, Protocol, Ended, Working, Joined, worker, shared
  <2>5. GoneDomains' BY Zenon DEF RenderInv, Pools, GoneDomains, Joined, worker, shared
  <2>6. ActivePool' BY Zenon DEF RenderInv, Pools, ActivePool, PromotionDone, Came, Joined, worker,
      shared
  <2>7. CandidatePool' BY Zenon DEF RenderInv, Pools, CandidatePool, Came, CameWell, Joined,
      worker, shared
  <2>8. EffectsPublished' BY Zenon DEF RenderInv, Pools, EffectsPublished, CameWell, Joined,
      worker, shared
  <2>9. broken' \in {"no", "control"} BY Zenon DEF RenderInv, Epochs, Joined, worker, shared
  <2>10. JobSync' BY Zenon DEF RenderInv, Sync, JobSync, Working, Commanded, Joined, worker, shared
  <2>11. RendersAsSynchronous' BY Zenon DEF RenderInv, Sync, RendersAsSynchronous, Joined, worker,
      shared
  <2> QED BY Zenon, <2>1, <2>2, <2>3, <2>4, <2>5, <2>6, <2>7, <2>8, <2>9, <2>10, <2>11
<1>2. ReactorTypes'
  BY ZenonT(60) DEF RenderInv, Types, Protocol, Pools, Epochs, Sync, ReactorTypes, Statuses, Joined,
      worker, shared
<1>3. CommandHeld'
  BY DEF RenderInv, Types, Protocol, Pools, Epochs, Sync, CommandHeld, Owed, Commanded, Working,
      Live, Joined, worker, shared
<1>4. OutHeld'
  BY Zenon DEF RenderInv, Types, Protocol, Pools, Epochs, Sync, OutHeld, Owed, Live, Joined, worker,
      shared
<1>5. EventHeld'
  BY Zenon DEF RenderInv, Types, Protocol, Pools, Epochs, Sync, EventHeld, Owed, Working, Live,
      Joined, worker, shared
<1>6. ReactorIdle'
  BY Zenon DEF RenderInv, Types, Protocol, Pools, Epochs, Sync, ReactorIdle, Live, Joined, worker,
      shared
<1>7. ReplyHeld'
  BY Zenon DEF RenderInv, Types, Protocol, Pools, Epochs, Sync, ReplyHeld, Live, Working, Joined,
      worker, shared
<1>8. CandidateHeld'
  BY Zenon DEF RenderInv, Types, Protocol, Pools, Epochs, Sync, CandidateHeld, Joined, worker, shared
<1>9. EpochsContiguous'
  BY Zenon DEF RenderInv, Types, Protocol, Pools, Epochs, Sync, EpochsContiguous, InFlight, Live,
      Joined, worker, shared
<1>10. BatchValid'
  BY Zenon DEF RenderInv, Types, Protocol, Pools, Epochs, Sync, BatchValid, Commanded, Live, Valid,
      Joined, worker, shared
<1>11. WakeInv'
  BY Zenon DEF RenderInv, Types, Protocol, Pools, Epochs, Sync, WakeInv, Live, Joined, worker, shared
<1>12. ActiveSync'
  BY Zenon DEF RenderInv, Types, Protocol, Pools, Epochs, Sync, ActiveSync, InStep, Live, Working,
      PromotionDone, Came, Flying, Commanded, Goal, Aim, Joined, worker, shared
<1>13. CandidateSync'
  BY Zenon DEF RenderInv, Types, Protocol, Pools, Epochs, Sync, CandidateSync, InStep, Live, Working,
      Following, Promoting, Building, Came, CameWell, Flying, Commanded, Goal, Aim, Joined,
      worker, shared
<1> QED BY Zenon, <1>1, <1>2, <1>3, <1>4, <1>5, <1>6, <1>7, <1>8, <1>9, <1>10, <1>11, <1>12,
    <1>13 DEF RenderInv, Types, Protocol, Pools, Epochs, Sync

-----------------------------------------------------------------------------
(* The invariant holds *)

\* A cursor image or a damage invalidation is queued.
LEMMA QueueControlKeeps ==
  ASSUME RenderInv, NEW kind \in {"cursor", "damage"}, QueueControl(kind) PROVE RenderInv'
<1>c. PICK c : c = Control(kind, IF kind = "cursor" THEN 3 - want.cursor ELSE 0) BY Zenon
<1>1. /\ Queue(c)
      /\ UNCHANGED <<own, frame, cand, scan, held, registry, status, broken, cmds, events, reply,
                     worker>>
  BY Zenon, <1>c DEF QueueControl
<1>2. c \in Controls /\ c.kind = kind
  <2>1. want.cursor \in 1..2 BY Zenon DEF RenderInv, Types, ReactorTypes
  <2> QED BY <2>1, <1>c DEF Control, Controls, ControlKinds
<1> QED BY Zenon, <1>1, <1>2, QueueKeeps

\* The frame is presented or given up.
LEMMA FrameSettlesKeeps ==
  ASSUME RenderInv, NEW kind \in {"present", "discard"}, FrameSettles(kind) PROVE RenderInv'
<1>c. PICK c : c = Control(kind, frame) BY Zenon
<1>1. /\ Queue(c) /\ frame # 0 /\ frame' = 0
      /\ UNCHANGED <<own, cand, scan, held, registry, status, broken, cmds, events, reply, worker>>
  BY Zenon, <1>c DEF FrameSettles
<1>2. c \in Controls /\ c.kind = kind /\ cand.stage \in Idle
  BY <1>1, <1>c DEF Control, Controls, ControlKinds, RenderInv, Types, ReactorTypes, Pools,
      CandidateHeld
<1> QED BY Zenon, <1>1, <1>2, QueueKeeps

\* The worker starts idle, with the domain of the scanout.
LEMMA InitHolds == Init => RenderInv
<1> SUFFICES ASSUME Init PROVE RenderInv BY Zenon
<1>1. /\ lane.pending = <<>> /\ lane.epoch = 0 /\ ~lane.overflow
      /\ lane \in [pending : Seq(Controls), epoch : Nat, overflow : BOOLEAN]
      /\ NoCandidate \in [stage : Stages, bo : 0..MaxPool, gen : 0..MaxGen]
      /\ cand.stage = "none" /\ cand.bo = 0
  BY SMTT(60), RenderAssumption DEF Init, NoCandidate, Stages
<1>2. /\ active \in Domain /\ want \in Domain /\ want.effects = 0 /\ want.cursor = 1
      /\ active.effects = 0 /\ active.bo = 1
  BY RenderAssumption DEF Init, Domain
<1>3. Types
  <2>1. ReactorTypes BY SMTT(60), <1>1, <1>2, RenderAssumption DEF Init, ReactorTypes, Statuses
  <2>2. WorkerTypes BY <1>2, NoDomainTyped DEF Init, WorkerTypes
  <2>3. SharedTypes BY Zenon DEF Init, SharedTypes
  <2>4. LaneTypes BY <1>1, RenderAssumption DEF LaneTypes, LaneOK, NoRebind
  <2> QED BY ZenonT(60), <2>1, <2>2, <2>3, <2>4 DEF Types
<1>4. Protocol
  BY ZenonT(60), <1>1 DEF Init, Protocol, CommandHeld, OutHeld, EventHeld, Ended, ReactorIdle, ReplyHeld,
      Commanded,
              Working, Awaiting
<1>5. Pools
  <2>1. CandidateHeld BY <1>1, <1>2 DEF Init, CandidateHeld, Idle
  <2>2. GoneDomains BY <1>1, <1>2, NoDomainTyped DEF Init, GoneDomains
  <2>3. ActivePool BY <1>1, <1>2, NoDomainTyped DEF Init, ActivePool, PromotionDone, Came
  <2>4. CandidatePool BY <1>1, <1>2, NoDomainTyped DEF Init, CandidatePool, CameWell, Came
  <2>5. EffectsPublished BY <1>1, <1>2, NoDomainTyped DEF Init, EffectsPublished, CameWell
  <2> QED BY Zenon, <2>1, <2>2, <2>3, <2>4, <2>5 DEF Pools
<1>6. Epochs
  BY SMTT(60), <1>1 DEF Init, Epochs, EpochsContiguous, InFlight, BatchValid, Commanded
<1>7. WakeInv BY DEF Init, WakeInv
<1>8. Sync
  <2>1. All(All(active, Flying), lane.pending) = active /\ ~PromotionDone /\ want = active
    <3>1. Flying = <<>> /\ ~PromotionDone /\ want = active
      BY Zenon, <1>1 DEF Init, Flying, Commanded, PromotionDone, Came
    <3> QED BY Zenon, <3>1, <1>1, EmptyAll
  <2>2. ActiveSync BY Zenon, <2>1 DEF ActiveSync, Same
  <2>3. CandidateSync /\ JobSync /\ RendersAsSynchronous
    BY Zenon, <1>1 DEF Init, CandidateSync, Following, Promoting, Building, Commanded, JobSync,
                RendersAsSynchronous, NoJob
  <2> QED BY Zenon, <2>2, <2>3 DEF Sync
<1> QED BY Zenon, <1>3, <1>4, <1>5, <1>6, <1>7, <1>8 DEF RenderInv

\* Every step of the worker keeps the invariant.
LEMMA WorkerKeeps == ASSUME RenderInv, Worker PROVE RenderInv'
BY Zenon, ExecuteKeeps, ExecuteApplyKeeps, ShutdownKeeps, MaintenanceKeeps, PublishKeeps,
    SignalKeeps
   DEF Worker

\* So does every step of the reactor's status.
LEMMA StatusStepKeeps ==
  ASSUME RenderInv, StartQuiesce \/ EndRuntime \/ QuiesceDone \/ QuiesceTimeout \/ JoinTimeout
  PROVE RenderInv'
<1>1. CASE StartQuiesce
  BY Zenon, <1>1, StatusKeeps DEF StartQuiesce, Live, Statuses
<1>2. CASE EndRuntime
  BY Zenon, <1>2, StatusKeeps DEF EndRuntime, Live, Statuses
<1>3. CASE QuiesceDone
  BY Zenon, <1>3, StatusKeeps DEF QuiesceDone, Live, Statuses, Idle
<1>4. CASE QuiesceTimeout
  BY Zenon, <1>4, StatusKeeps DEF QuiesceTimeout, Live, Statuses, Failed
<1>5. CASE JoinTimeout
  BY Zenon, <1>5, StatusKeeps DEF JoinTimeout, Live, Statuses
<1> QED BY Zenon, <1>1, <1>2, <1>3, <1>4, <1>5

\* A step that changes nothing.
LEMMA StutterKeeps == ASSUME RenderInv, UNCHANGED vars PROVE RenderInv'
<1>1. /\ UNCHANGED <<lane, want, handle, own, frame, cand, scan, held, registry, status>>
      /\ UNCHANGED <<pc, seen, out, applied, active, candidate>>
      /\ UNCHANGED <<broken, fatal, cmds, events, eventfd, reply>>
  BY Zenon DEF vars, reactor, worker
<1>2. Types'
  <2>1. ReactorTypes' /\ LaneTypes' BY Zenon, <1>1 DEF RenderInv, Types, ReactorTypes, LaneTypes
  <2>2. WorkerTypes' BY Zenon, <1>1 DEF RenderInv, Types, WorkerTypes
  <2>3. SharedTypes' BY Zenon, <1>1 DEF RenderInv, Types, SharedTypes
  <2> QED BY Zenon, <2>1, <2>2, <2>3 DEF Types
<1>3. Protocol'
  <2>1. CommandHeld' BY Zenon, <1>1 DEF RenderInv, Protocol, CommandHeld, Owed, Live, Working, Commanded
  <2>2. OutHeld' BY Zenon, <1>1 DEF RenderInv, Protocol, OutHeld, Owed, Live
  <2>3. EventHeld' BY Zenon, <1>1 DEF RenderInv, Protocol, EventHeld, Owed, Live, Working
  <2>4. Ended' /\ ReactorIdle' /\ ReplyHeld'
    BY Zenon, <1>1 DEF RenderInv, Protocol, Ended, ReactorIdle, ReplyHeld, Live, Working
  <2> QED BY Zenon, <2>1, <2>2, <2>3, <2>4 DEF Protocol
<1>4. Pools' /\ WakeInv'
  BY ZenonT(60), <1>1 DEF RenderInv, Pools, CandidateHeld, GoneDomains, ActivePool, CandidatePool,
                     EffectsPublished, PromotionDone, Came, CameWell, WakeInv, Live
<1>5. Epochs'
  BY Zenon, <1>1 DEF RenderInv, Epochs, EpochsContiguous, BatchValid, InFlight, Commanded, Live,
      Valid
<1>6. Sync'
  <2>1. /\ (InStep' <=> InStep) /\ Flying' = Flying
        /\ (PromotionDone' <=> PromotionDone) /\ Goal' = Goal
        /\ (Following' <=> Following) /\ (Promoting' <=> Promoting) /\ (Building' <=> Building)
    BY Zenon, <1>1 DEF InStep, Live, Working, Flying, Commanded, PromotionDone, Came, Goal,
        Following,
                       CameWell, Promoting, Building
  <2> QED BY Zenon, <2>1, <1>1 DEF RenderInv, Sync, ActiveSync, CandidateSync, JobSync,
      Commanded, Working,
                                   RendersAsSynchronous
<1> QED BY Zenon, <1>2, <1>3, <1>4, <1>5, <1>6 DEF RenderInv

\* Every step keeps the invariant.
LEMMA NextKeeps == ASSUME RenderInv, [Next]_vars PROVE RenderInv'
<1>1. CASE Worker BY Zenon, <1>1, WorkerKeeps
<1>2. CASE Settling
  BY ZenonT(60), <1>2, TakeEventKeeps, DiscardKeeps, PromoteKeeps, AdoptKeeps, StatusStepKeeps,
      EndRebindKeeps,
     SendShutdownKeeps, JoinedKeeps
  DEF Settling
<1>3. CASE Timeouts BY Zenon, <1>3, StatusStepKeeps, RebindLostKeeps DEF Timeouts
<1>4. CASE Next /\ ~Worker /\ ~Settling /\ ~Timeouts
  BY ZenonT(60), <1>4, QueueControlKeeps, FrameSettlesKeeps, DispatchKeeps, ReloadKeeps,
     RequestConfigurationKeeps, PrepareKeeps, PrepareRefusedKeeps, CommitModesetKeeps, StatusStepKeeps,
     StartRebindKeeps
  DEF Next
<1>5. CASE UNCHANGED vars BY Zenon, <1>5, StutterKeeps
<1> QED BY Zenon, <1>1, <1>2, <1>3, <1>4, <1>5

\* The inductive invariant holds in every state of the render worker and its reactor.
THEOREM RenderInvariant == Spec => []RenderInv
<1>1. Init => RenderInv BY Zenon, InitHolds
<1>2. RenderInv /\ [Next]_vars => RenderInv' BY Zenon, NextKeeps
<1> QED BY <1>1, <1>2, PTL DEF Spec

\* The protocol of process_render_worker_events, for every capacity and number of pools: every
\* event is one the reactor has a continuation for, and while the runtime lives the epochs that
\* the worker has applied, that are on their way and that are pending follow one another, so that
\* validate_render_control_batch refuses none.
THEOREM RenderProtocol == Spec => []ProtocolInv
<1>1. RenderInv => ProtocolInv
  <2> SUFFICES ASSUME RenderInv PROVE ProtocolInv BY Zenon
  <2>1. /\ ReactorTypes /\ WorkerTypes /\ SharedTypes /\ LaneOK(lane) /\ EpochsContiguous
        /\ broken \in {"no", "control"}
    BY Zenon DEF RenderInv, Types, LaneTypes, Epochs
  <2>2. Len(cmds) <= 1 /\ Len(events) <= 1
    <3>1. Len(<<>>) <= 1 /\ Len(<<cmds[1]>>) <= 1 /\ Len(<<events[1]>>) <= 1 OBVIOUS
    <3> QED BY Zenon, <3>1, <2>1 DEF SharedTypes
  <2>3. TypeOK
    BY Zenon, <2>1, <2>2 DEF TypeOK, ReactorTypes, WorkerTypes, SharedTypes, LaneOK, Continuations
  <2> QED BY Zenon, <2>1, <2>3 DEF ProtocolInv, NoProtocolError
<1> QED BY <1>1, RenderInvariant, PTL

\* A render domain never outlives the physical pool it has imported: promotion, discard, a failed
\* preparation, the adoption of a candidate and the Drop of the scanout release only pools that
\* the worker's domains have left.
THEOREM PoolsOutliveDomains == Spec => []PoolsBacked
<1>1. RenderInv => PoolsBacked
  <2> SUFFICES ASSUME RenderInv PROVE active.bo \in held \union {0} /\ candidate.bo \in held \union {0}
    BY Zenon DEF PoolsBacked
  <2>1. CASE pc = "gone"
    BY Zenon, <2>1, NoDomainTyped DEF RenderInv, Pools, GoneDomains
  <2>2. CASE pc # "gone"
    <3>1. PromotionDone => cand.stage \in {"Promoted", "Promoting"}
      BY SMTT(60) DEF PromotionDone, Came, RenderInv, Protocol, OutHeld, EventHeld, Owed, Fatal
    <3>2. active.bo \in held
      BY Zenon, <2>2, <3>1 DEF RenderInv, Pools, ActivePool, CandidateHeld, Idle
    <3>3. candidate.bo \in {0, cand.bo}
      BY Zenon, <2>2 DEF RenderInv, Pools, CandidatePool, Types, ReactorTypes, Stages, Idle
    <3>4. cand.bo \in held \union {0} BY Zenon DEF RenderInv, Pools, CandidateHeld
    <3> QED BY ZenonT(60), <3>2, <3>3, <3>4
  <2> QED BY Zenon, <2>1, <2>2
<1> QED BY <1>1, RenderInvariant, PTL

\* Nothing waits for a running reactor unnoticed: publish_event writes the eventfd after it has
\* sent, and fail_control_lane writes it too.
THEOREM WakeupsKept == Spec => []NoLostWakeup
<1>1. RenderInv => NoLostWakeup BY Zenon DEF RenderInv, WakeInv, NoLostWakeup, Live
<1> QED BY <1>1, RenderInvariant, PTL

\* A frame or a capture is drawn by the domain the Synchronous transport would have had when it
\* was dispatched, whatever enqueue_pending_render_control coalesces, whichever controls the
\* candidate mirrors, and whenever it is promoted.
THEOREM WorkerRendersAsSynchronous == Spec => []RendersAsSynchronous
<1>1. RenderInv => RendersAsSynchronous BY DEF RenderInv, Sync
<1> QED BY <1>1, RenderInvariant, PTL
=============================================================================
