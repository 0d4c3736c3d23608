----------------------- MODULE RenderWorkerInvariant ------------------------
(***************************************************************************)
(* The inductive invariant of the render worker, for every capacity of the *)
(* control lane, every number of pools, generations and reloads, and every *)
(* set of faults.                                                          *)
(*                                                                         *)
(* The lane.  A batch of controls is applied one by one (ApplyBatch); what *)
(* a batch does is shown by induction along it.  EnqueueApplies is the     *)
(* fact the rest needs: queueing a control, coalescing included, does to a *)
(* domain what applying it after the queue would have done.                *)
(*                                                                         *)
(* The invariant, RenderInv.  Protocol: a busy worker has one job, as a    *)
(* command, as the event it is about to send or as one that waits, and the *)
(* reactor holds the continuation of exactly that one (Owed).  Pools: by   *)
(* the stage of a candidate, which pool each domain of the worker has.     *)
(* Epochs: a batch on its way continues what the worker has applied.       *)
(* Sync: the batch on its way and the pending controls would make of the   *)
(* worker's domains what the reactor wants, of the candidate as well.      *)
(*                                                                         *)
(* The last parts show that no step of the worker breaks it, nor one of   *)
(* the reactor that changes its status or queues a control.                *)
(***************************************************************************)
EXTENDS RenderWorker, TLAPS, WellFoundedInduction

\* The well-formed controls.
Controls ==
  {c \in [epoch : Nat, kind : ControlKinds, v : Nat] :
     /\ c.kind = "cursor" => c.v \in 1..2
     /\ c.kind = "present" => c.v \in 0..2
     /\ c.kind = "rebind" => c.v \in 0..MaxGen}

\* A lane: within its capacity, numbered up to its epoch, and without a rebind while it works.
LaneOK(l) ==
  /\ l \in [pending : Seq(Controls), epoch : Nat, overflow : BOOLEAN]
  /\ Len(l.pending) <= Capacity /\ Len(l.pending) <= l.epoch
  /\ \A i \in 1..Len(l.pending) : l.pending[i].epoch = l.epoch - Len(l.pending) + i

-----------------------------------------------------------------------------
(* Induction *)

\* A nonempty set of naturals has a least element.
LEMMA LeastNumber == ASSUME NEW S \in SUBSET Nat, S # {}
  PROVE \E n \in S : \A m \in S : n <= m
<1> DEFINE R == OpToRel(<, Nat)
<1>1. IsWellFoundedOn(R, Nat) BY NatLessThanWellFounded DEF OpToRel
<1>2. \A x, y \in Nat : x < y => <<x, y>> \in R BY DEF OpToRel
<1> HIDE DEF R
<1>3. PICK x \in S : \A y \in S : ~ (<<y, x>> \in R)
  BY Zenon, <1>1, WFMin
<1>4. \A y \in S : ~ (y < x) BY Zenon, <1>2, <1>3
<1>5. x \in Nat /\ \A y \in S : y \in Nat OBVIOUS
<1>6. \A y \in S : x <= y BY <1>4, <1>5
<1> QED BY Zenon, <1>6

\* Induction over Nat, for a set.
LEMMA SetInduction ==
  ASSUME NEW S \in SUBSET Nat, 0 \in S, \A n \in S : n + 1 \in S
  PROVE S = Nat
<1> DEFINE U == Nat \ S
<1> SUFFICES ASSUME U # {} PROVE FALSE BY Zenon
<1>1. PICK n \in U : \A m \in U : n <= m
  <2> U \in SUBSET Nat BY Zenon
  <2> QED BY Zenon, LeastNumber
<1> QED BY <1>1

-----------------------------------------------------------------------------
(* Applying controls to a domain *)

\* One step of ApplyBatch.
ApplyOne(d, c, kinds) == IF c.kind \in kinds THEN Apply(d, c) ELSE d

\* The domain after each control of a batch.
Course(f, d, s, n, kinds) ==
  /\ f[0] = d
  /\ \A k \in 1..n : f[k] = ApplyOne(f[k - 1], s[k], kinds)
  /\ ApplyBatch(d, s, n, kinds) = f[n]

\* The recursion of ApplyBatch, control by control.
LEMMA BatchUnfolds ==
  ASSUME NEW d, NEW s, NEW n \in Nat, NEW kinds
  PROVE \E f : Course(f, d, s, n, kinds)
<1> DEFINE D(f, N) == [k \in 0..N |-> IF k = 0 THEN d ELSE ApplyOne(f[k - 1], s[k], kinds)]
<1> DEFINE S == {N \in Nat : \E f : f = D(f, N)}
<1>1. 0 \in S
  <2> DEFINE f == [k \in 0..0 |-> d]
  <2>1. f = D(f, 0) OBVIOUS
  <2> QED BY ZenonT(60), <2>1
<1>2. ASSUME NEW N \in S PROVE N + 1 \in S
  <2>1. PICK f : f = D(f, N) BY Zenon
  <2> DEFINE g == [k \in 0..N + 1 |->
                     IF k = N + 1 THEN ApplyOne(f[N], s[N + 1], kinds) ELSE f[k]]
  <2>2. ASSUME NEW k \in 0..N + 1 PROVE g[k] = D(g, N + 1)[k]
    <3>1. CASE k = 0 BY <3>1, <2>1
    <3>2. CASE k \in 1..N
      <4>1. f[k] = ApplyOne(f[k - 1], s[k], kinds) BY <2>1, <3>2
      <4>2. g[k] = f[k] /\ g[k - 1] = f[k - 1] BY <3>2
      <4> QED BY <4>1, <4>2, <3>2
    <3>3. CASE k = N + 1 BY <3>3
    <3> QED BY <3>1, <3>2, <3>3
  <2>3. g = D(g, N + 1) BY Zenon, <2>2
  <2> HIDE DEF g, D
  <2>4. \E x : x = D(x, N + 1) BY Zenon, <2>3
  <2>5. N + 1 \in Nat OBVIOUS
  <2> QED BY Zenon, <2>4, <2>5
<1>3. S = Nat BY Zenon, <1>1, <1>2, SetInduction
<1>4. \E f : f = D(f, n) BY Zenon, <1>3
<1> DEFINE e == CHOOSE f : f = D(f, n)
<1>5. e = D(e, n) BY Zenon, <1>4
<1>6. ApplyBatch(d, s, n, kinds) = e[n] BY DEF ApplyBatch, ApplyOne
<1> HIDE DEF e
<1>7. e[0] = d BY <1>5
<1>8. \A k \in 1..n : e[k] = ApplyOne(e[k - 1], s[k], kinds) BY <1>5
<1>9. Course(e, d, s, n, kinds) BY Zenon, <1>6, <1>7, <1>8 DEF Course
<1> QED BY Zenon, <1>9

\* No control leaves the domain as it is.
LEMMA EmptyBatch == ASSUME NEW d, NEW s, NEW kinds PROVE ApplyBatch(d, s, 0, kinds) = d
<1> DEFINE n == 0
<1>1. n \in Nat OBVIOUS
<1> HIDE DEF n
<1>2. PICK f : Course(f, d, s, n, kinds) BY Zenon, <1>1, BatchUnfolds
<1> QED BY Zenon, <1>2 DEF n, Course

\* apply_render_control keeps the type, the pool and the effects of a domain.
LEMMA ApplyKeeps ==
  ASSUME NEW d \in Domain, NEW c \in Controls
  PROVE Apply(d, c) \in Domain /\ Apply(d, c).bo = d.bo /\ Apply(d, c).effects = d.effects
BY RenderAssumption DEF Apply, Controls, Domain, ControlKinds

KeptAlong(f, d, n) ==
  \A k \in 0..n : f[k] \in Domain /\ f[k].bo = d.bo /\ f[k].effects = d.effects

\* So does every control of a batch.
LEMMA CourseKeeps ==
  ASSUME NEW d \in Domain, NEW s \in Seq(Controls), NEW n \in 0..Len(s), NEW kinds,
         NEW f, Course(f, d, s, n, kinds)
  PROVE KeptAlong(f, d, n)
<1> DEFINE P(k) == f[k] \in Domain /\ f[k].bo = d.bo /\ f[k].effects = d.effects
<1> DEFINE S == {k \in Nat : k <= n => P(k)}
<1>2. 0 \in S BY DEF Course
<1>3. ASSUME NEW k \in S PROVE k + 1 \in S
  <2>1. k + 1 \in Nat OBVIOUS
  <2>2. CASE k + 1 <= n
    <3>1. k + 1 \in 1..n /\ k <= n /\ k + 1 - 1 = k /\ k + 1 \in 1..Len(s) BY <2>2
    <3>2. P(k) BY <3>1
    <3>3. s[k + 1] \in Controls BY <3>1
    <3>4. f[k + 1] = ApplyOne(f[k], s[k + 1], kinds) BY <3>1 DEF Course
    <3> HIDE DEF S
    <3>5. P(k + 1) BY ZenonT(60), <3>2, <3>3, <3>4, ApplyKeeps DEF ApplyOne
    <3> USE DEF S
    <3> QED BY Zenon, <3>5, <2>1
  <2> QED BY Zenon, <2>1, <2>2
<1>4. S = Nat BY Zenon, <1>2, <1>3, SetInduction
<1>5. ASSUME NEW k \in 0..n PROVE P(k)
  <2>1. k \in S /\ k <= n BY <1>4
  <2> QED BY Zenon, <2>1
<1> QED BY Zenon, <1>5 DEF KeptAlong

\* So does a batch.
LEMMA BatchKeeps ==
  ASSUME NEW d \in Domain, NEW s \in Seq(Controls), NEW n \in 0..Len(s), NEW kinds
  PROVE /\ ApplyBatch(d, s, n, kinds) \in Domain
        /\ ApplyBatch(d, s, n, kinds).bo = d.bo
        /\ ApplyBatch(d, s, n, kinds).effects = d.effects
<1>1. n \in Nat /\ n \in 0..n OBVIOUS
<1>2. PICK f : Course(f, d, s, n, kinds) BY Zenon, <1>1, BatchUnfolds
<1>3. KeptAlong(f, d, n) BY Zenon, <1>2, CourseKeeps
<1> QED BY Zenon, <1>1, <1>2, <1>3 DEF Course, KeptAlong

-----------------------------------------------------------------------------
(* Queueing a control *)

\* A control that moves in the lane gets a new number.
Renumbered(c, epoch) == [c EXCEPT !.epoch = epoch]

\* q is the lane's queue p with its control g, if there is one, replaced by c at the end.
Requeued(p, c, q, g, base) ==
  /\ q \in Seq(Controls) /\ g \in 1..Len(p) + 1
  /\ Len(q) = IF g = Len(p) + 1 THEN Len(p) + 1 ELSE Len(p)
  /\ g <= Len(p) => Coalescible(c) /\ p[g].kind = c.kind
  /\ \A i \in 1..Len(q) :
       q[i] = Renumbered(IF i = Len(q) THEN c ELSE p[IF i < g THEN i ELSE i + 1], base + i)

\* A set of indices has a greatest one.
LEMMA GreatestIndex ==
  ASSUME NEW n \in Nat, NEW S \in SUBSET (1..n), S # {}
  PROVE \E i \in S : \A j \in S : j <= i
<1> DEFINE T == {n - i : i \in S}
<1>0. \A i \in S : n - i \in Nat OBVIOUS
<1>1. T \in SUBSET Nat /\ T # {} BY Zenon, <1>0
<1>2. PICK m \in T : \A k \in T : m <= k
  <2> HIDE DEF T
  <2> QED BY Zenon, <1>1, LeastNumber
<1>3. PICK i \in S : m = n - i OBVIOUS
<1>4. ASSUME NEW j \in S PROVE j <= i
  <2>1. m <= n - j BY <1>2
  <2> QED BY <2>1, <1>3
<1> QED BY <1>4

\* enqueue_pending_render_control on a lane that is not full.
LEMMA EnqueueShape ==
  ASSUME NEW l, LaneOK(l), NEW c \in Controls, ~Full(l, c)
  PROVE \E g : LET e == Enqueue(l, c)
               IN /\ Requeued(l.pending, c, e.pending, g, l.epoch - Len(l.pending))
                  /\ e \in [pending : Seq(Controls), epoch : Nat, overflow : BOOLEAN]
                  /\ e.epoch = l.epoch - Len(l.pending) + Len(e.pending)
                  /\ e.overflow = l.overflow
                  /\ Len(e.pending) <= Capacity
<1> DEFINE p == l.pending
           old == Replacement(p, c)
           base == l.epoch - Len(p)
           g == IF old = {} THEN Len(p) + 1 ELSE CHOOSE i \in old : \A j \in old : j <= i
           n == IF old = {} THEN Len(p) + 1 ELSE Len(p)
           next == [i \in 1..n |-> IF i = n THEN c ELSE p[IF i < g THEN i ELSE i + 1]]
           q == [i \in 1..n |-> [next[i] EXCEPT !.epoch = base + i]]
<1>1. /\ p \in Seq(Controls) /\ Len(p) \in Nat /\ l.epoch \in Nat /\ base \in Nat
      /\ Len(p) <= Capacity /\ l.overflow \in BOOLEAN
  BY DEF LaneOK
<1>2. Enqueue(l, c) = [l EXCEPT !.pending = q, !.epoch = base + n]
  BY Zenon DEF Enqueue
<1>3. old \in SUBSET (1..Len(p)) /\ \A i \in old : Coalescible(c) /\ p[i].kind = c.kind
  BY <1>1 DEF Replacement
<1>4. old = {} => Len(p) < Capacity
  BY <1>1, RenderAssumption DEF Full
<1>5. old # {} => g \in old
  <2>1. old # {} => \E i \in old : \A j \in old : j <= i
    <3> HIDE DEF old, p
    <3> QED BY Zenon, <1>1, <1>3, GreatestIndex
  <2> HIDE DEF old, p
  <2> QED BY Zenon, <2>1
<1> HIDE DEF old
<1>6. /\ g \in 1..Len(p) + 1 /\ n \in Nat /\ n >= 1 /\ n <= Capacity
      /\ n = IF g = Len(p) + 1 THEN Len(p) + 1 ELSE Len(p)
      /\ g <= Len(p) => Coalescible(c) /\ p[g].kind = c.kind
  <2> HIDE DEF p
  <2>1. CASE old = {}
    <3>1. g = Len(p) + 1 /\ n = Len(p) + 1 BY Zenon, <2>1
    <3> HIDE DEF g, n
    <3> QED BY <2>1, <3>1, <1>1, <1>4, RenderAssumption
  <2>2. CASE old # {}
    <3>1. g \in old /\ n = Len(p) BY Zenon, <2>2, <1>5
    <3> HIDE DEF g, n
    <3> QED BY <3>1, <1>1, <1>3
  <2> QED BY Zenon, <2>1, <2>2
<1> HIDE DEF g, n
<1>7. ASSUME NEW i \in 1..n
      PROVE next[i] \in Controls /\ next[i] = IF i = n THEN c ELSE p[IF i < g THEN i ELSE i + 1]
  BY <1>1, <1>6
<1> HIDE DEF next
<1>8. ASSUME NEW i \in 1..n
      PROVE /\ q[i] = Renumbered(IF i = n THEN c ELSE p[IF i < g THEN i ELSE i + 1], base + i)
            /\ q[i] \in Controls
  <2>1. q[i] = [next[i] EXCEPT !.epoch = base + i] BY Zenon, <1>6
  <2>2. base + i \in Nat BY <1>1, <1>6
  <2>3. next[i] \in Controls BY <1>7
  <2>4. [next[i] EXCEPT !.epoch = base + i] \in Controls
    <3> HIDE DEF base, q
    <3> QED BY Zenon, <2>2, <2>3 DEF Controls
  <2> QED BY Zenon, <2>1, <2>4, <1>7 DEF Renumbered
<1>9. q \in Seq(Controls) /\ Len(q) = n
  <2>1. q \in [1..n -> Controls] BY <1>8
  <2> HIDE DEF q
  <2> QED BY <2>1, <1>6
<1> HIDE DEF q, base
<1>10. Requeued(p, c, q, g, base) BY Zenon, <1>6, <1>8, <1>9 DEF Requeued
<1>11. /\ Enqueue(l, c).pending = q /\ Enqueue(l, c).epoch = base + n
       /\ Enqueue(l, c).overflow = l.overflow
       /\ Enqueue(l, c) \in [pending : Seq(Controls), epoch : Nat, overflow : BOOLEAN]
  <2>1. l \in [pending : Seq(Controls), epoch : Nat, overflow : BOOLEAN] BY DEF LaneOK
  <2>2. base + n \in Nat BY <1>1, <1>6
  <2> QED BY Zenon, <2>1, <2>2, <1>2, <1>9
<1> QED BY Zenon, <1>6, <1>9, <1>10, <1>11 DEF base

\* No control of a queue rebinds the pool.
NoRebind(s) == \A i \in 1..Len(s) : s[i].kind # "rebind"

\* enqueue_pending_render_control keeps a lane a lane and its base where it is; a full lane
\* only notes the overflow.
LEMMA EnqueueKeeps ==
  ASSUME NEW l, LaneOK(l), NEW c \in Controls
  PROVE /\ LaneOK(Enqueue(l, c))
        /\ Enqueue(l, c).epoch - Len(Enqueue(l, c).pending) = l.epoch - Len(l.pending)
        /\ Full(l, c) => Enqueue(l, c) = [l EXCEPT !.overflow = TRUE]
        /\ ~Full(l, c) => Enqueue(l, c).overflow = l.overflow
        /\ NoRebind(l.pending) /\ c.kind # "rebind" => NoRebind(Enqueue(l, c).pending)
<1> DEFINE e == Enqueue(l, c)
           base == l.epoch - Len(l.pending)
<1>0. /\ l.pending \in Seq(Controls) /\ Len(l.pending) \in Nat /\ l.epoch \in Nat /\ base \in Nat
      /\ Len(l.pending) <= Capacity /\ l.overflow \in BOOLEAN
  <2>1. /\ l.pending \in Seq(Controls) /\ l.epoch \in Nat /\ l.overflow \in BOOLEAN
        /\ Len(l.pending) <= Capacity /\ Len(l.pending) <= l.epoch
    BY Zenon DEF LaneOK
  <2>2. Len(l.pending) \in Nat
    BY <2>1
  <2>3. base \in Nat
    BY <2>1, <2>2
  <2> QED BY Zenon, <2>1, <2>2, <2>3
<1>1. CASE Full(l, c)
  <2>1. e = [l EXCEPT !.overflow = TRUE] BY Zenon, <1>1 DEF Enqueue
  <2>2. l \in [pending : Seq(Controls), epoch : Nat, overflow : BOOLEAN] BY Zenon DEF LaneOK
  <2>3. /\ e.pending = l.pending /\ e.epoch = l.epoch
        /\ e \in [pending : Seq(Controls), epoch : Nat, overflow : BOOLEAN]
    BY Zenon, <2>1, <2>2
  <2>4. LaneOK(e)
    <3> HIDE DEF e
    <3> QED BY Zenon, <2>3 DEF LaneOK
  <2> HIDE DEF e
  <2> QED BY ZenonT(60), <2>1, <2>3, <2>4, <1>1 DEF e
<1>2. CASE ~Full(l, c)
  <2>1. PICK g : /\ Requeued(l.pending, c, e.pending, g, base)
                 /\ e \in [pending : Seq(Controls), epoch : Nat, overflow : BOOLEAN]
                 /\ e.epoch = base + Len(e.pending)
                 /\ e.overflow = l.overflow
                 /\ Len(e.pending) <= Capacity
    BY Zenon, <1>2, EnqueueShape
  <2> DEFINE q == e.pending
  <2>2. q \in Seq(Controls) /\ Len(q) \in Nat /\ e.epoch = base + Len(q) BY <2>1
  <2> HIDE DEF base
  <2>3. e.epoch - Len(q) = base /\ Len(q) <= e.epoch
    <3> HIDE DEF e
    <3> QED BY <2>2, <1>0
  <2>4. ASSUME NEW i \in 1..Len(q)
        PROVE /\ q[i].epoch = base + i
              /\ q[i].kind = c.kind \/ \E j \in 1..Len(l.pending) : q[i].kind = l.pending[j].kind
    <3> DEFINE j == IF i < g THEN i ELSE i + 1
    <3>1. q[i] = Renumbered(IF i = Len(q) THEN c ELSE l.pending[j], base + i)
      BY Zenon, <2>1 DEF Requeued
    <3>2. i # Len(q) => j \in 1..Len(l.pending)
      <4>1. g \in 1..Len(l.pending) + 1 BY Zenon, <2>1 DEF Requeued
      <4>2. Len(q) = IF g = Len(l.pending) + 1 THEN Len(l.pending) + 1 ELSE Len(l.pending)
        BY Zenon, <2>1 DEF Requeued
      <4> HIDE DEF q
      <4> QED BY <4>1, <4>2, <1>0, <2>2
    <3>3. i # Len(q) => l.pending[j] \in Controls
      <4> HIDE DEF q, j
      <4> QED BY <3>2, <1>0
    <3> HIDE DEF q, j
    <3>4. CASE i = Len(q) BY Zenon, <3>1, <3>4 DEF Renumbered, Controls
    <3>5. CASE i # Len(q)
      <4>1. q[i] = Renumbered(l.pending[j], base + i) BY Zenon, <3>1, <3>5
      <4>2. q[i].epoch = base + i /\ q[i].kind = l.pending[j].kind
        BY Zenon, <4>1, <3>3, <3>5 DEF Renumbered, Controls
      <4> QED BY Zenon, <4>2, <3>2, <3>5
    <3> QED BY Zenon, <3>4, <3>5
  <2> HIDE DEF q, e
  <2>5. LaneOK(e)
    <3>1. \A i \in 1..Len(q) : q[i].epoch = e.epoch - Len(q) + i BY Zenon, <2>3, <2>4
    <3> QED BY Zenon, <3>1, <2>1, <2>3 DEF LaneOK, q
  <2>6. NoRebind(l.pending) /\ c.kind # "rebind" => NoRebind(q)
    BY Zenon, <2>4 DEF NoRebind
  <2> QED BY Zenon, <2>1, <2>3, <2>5, <2>6, <1>2 DEF q, base, e
<1> QED BY Zenon, <1>1, <1>2

\* A control replaces what an earlier one of its class did ...
LEMMA Overwrites ==
  ASSUME NEW d \in Domain, NEW b \in Controls, NEW c \in Controls,
         Coalescible(c), b.kind = c.kind
  PROVE Apply(Apply(d, b), c) = Apply(d, c)
BY Zenon DEF Apply, Controls, Domain, ControlKinds, Coalescible

\* ... also when other controls come in between.
LEMMA OverwritesLater ==
  ASSUME NEW d \in Domain, NEW e \in Domain, NEW b \in Controls, NEW c \in Controls,
         Coalescible(c), Apply(d, c) = Apply(e, c)
  PROVE Apply(Apply(d, b), c) = Apply(Apply(e, b), c)
<1>1. CASE c.kind = "cursor"
  <2>1. /\ d.history = e.history /\ d.effects = e.effects /\ d.gen = e.gen /\ d.bo = e.bo
    BY <1>1 DEF Apply, Domain
  <2> QED BY <1>1, <2>1 DEF Apply, Controls, Domain, ControlKinds
<1>2. CASE c.kind = "damage"
  <2>1. /\ d.cursor = e.cursor /\ d.effects = e.effects /\ d.gen = e.gen /\ d.bo = e.bo
    BY <1>2 DEF Apply, Domain
  <2> QED BY <1>2, <2>1 DEF Apply, Controls, Domain, ControlKinds
<1> QED BY Zenon, <1>1, <1>2 DEF Coalescible

\* The number of a control does not matter to a domain.
LEMMA RenumberedApplies ==
  ASSUME NEW d, NEW c \in Controls, NEW k, NEW kinds
  PROVE /\ ApplyOne(d, Renumbered(c, k), kinds) = ApplyOne(d, c, kinds)
        /\ Apply(d, Renumbered(c, k)) = Apply(d, c)
<1>1. Renumbered(c, k).kind = c.kind /\ Renumbered(c, k).v = c.v
  BY DEF Renumbered, Controls
<1> QED BY Zenon, <1>1 DEF ApplyOne, Apply

\* Queueing a control on a lane that is not full, coalescing included, does to a domain what
\* applying the control after the queue would have done.
LEMMA EnqueueApplies ==
  ASSUME NEW l, LaneOK(l), NEW c \in Controls, ~Full(l, c), NEW d \in Domain,
         NEW kinds, {"cursor", "damage"} \subseteq kinds
  PROVE ApplyBatch(d, Enqueue(l, c).pending, Len(Enqueue(l, c).pending), kinds)
          = ApplyOne(ApplyBatch(d, l.pending, Len(l.pending), kinds), c, kinds)
<1> DEFINE p == l.pending
           q == Enqueue(l, c).pending
           base == l.epoch - Len(p)
<1>1. PICK g : Requeued(p, c, q, g, base) BY Zenon, EnqueueShape
<1> HIDE DEF q
<1>2. p \in Seq(Controls) /\ Len(p) \in Nat BY DEF LaneOK
<1> HIDE DEF p, base
<1>3. /\ q \in Seq(Controls) /\ Len(q) \in Nat /\ g \in 1..Len(p) + 1
      /\ Len(q) = IF g = Len(p) + 1 THEN Len(p) + 1 ELSE Len(p)
  BY <1>1 DEF Requeued
<1>4. PICK f : Course(f, d, p, Len(p), kinds) BY Zenon, <1>2, BatchUnfolds
<1>5. PICK h : Course(h, d, q, Len(q), kinds) BY Zenon, <1>3, BatchUnfolds
<1>6. \A k \in 0..Len(p) : f[k] \in Domain
  <2>1. Len(p) \in 0..Len(p) BY <1>2
  <2> QED BY Zenon, <2>1, <1>2, <1>4, CourseKeeps DEF KeptAlong
<1>7. \A k \in 0..Len(q) : h[k] \in Domain
  <2>1. Len(q) \in 0..Len(q) BY <1>3
  <2> QED BY Zenon, <2>1, <1>3, <1>5, CourseKeeps DEF KeptAlong
<1>8. \A k \in 1..Len(p) : f[k] = ApplyOne(f[k - 1], p[k], kinds) /\ p[k] \in Controls
  BY <1>2, <1>4 DEF Course
<1>9. \A k \in 1..Len(q) : /\ h[k] = ApplyOne(h[k - 1], q[k], kinds)
                           /\ k # Len(q) /\ k < g => q[k] = Renumbered(p[k], base + k)
                           /\ k # Len(q) /\ ~(k < g) => q[k] = Renumbered(p[k + 1], base + k)
                           /\ k = Len(q) => q[k] = Renumbered(c, base + k)
  BY Zenon, <1>1, <1>5 DEF Course, Requeued
\* Up to the replaced control, the two queues are the same.
<1>10. \A k \in 0..Len(p) : k < g => h[k] = f[k]
  <2> DEFINE S == {k \in Nat : k < g => h[k] = f[k]}
  <2>1. 0 \in S BY Zenon, <1>4, <1>5, 0 \in Nat DEF Course
  <2>2. ASSUME NEW k \in S PROVE k + 1 \in S
    <3>1. k + 1 \in Nat /\ k \in Nat OBVIOUS
    <3>2. CASE k + 1 < g
      <4>1. /\ k + 1 \in 1..Len(p) /\ k + 1 \in 1..Len(q) /\ k + 1 # Len(q) /\ k < g
            /\ k + 1 - 1 = k
        BY <3>1, <3>2, <1>2, <1>3
      <4>2. h[k] = f[k] BY Zenon, <4>1
      <4> HIDE DEF S
      <4> DEFINE m == k + 1
      <4>3. f[m] = ApplyOne(f[m - 1], p[m], kinds) /\ p[m] \in Controls
        BY Zenon, <4>1, <1>8
      <4>4. h[m] = ApplyOne(h[m - 1], q[m], kinds) /\ q[m] = Renumbered(p[m], base + m)
        BY Zenon, <4>1, <3>2, <1>9
      <4>5. ApplyOne(h[k], Renumbered(p[m], base + m), kinds) = ApplyOne(h[k], p[m], kinds)
        BY ZenonT(60), <4>3, RenumberedApplies
      <4>6. m - 1 = k BY <3>1
      <4> HIDE DEF m
      <4>7. h[m] = f[m] BY Zenon, <4>2, <4>3, <4>4, <4>5, <4>6
      <4> USE DEF S
      <4> QED BY Zenon, <3>1, <4>7 DEF m
    <3> QED BY Zenon, <3>1, <3>2
  <2>3. S = Nat BY Zenon, <2>1, <2>2, SetInduction
  <2> QED BY <2>3, <1>2
<1>11. CASE g = Len(p) + 1
  <2>1. /\ Len(q) = Len(p) + 1 /\ Len(q) \in 1..Len(q) /\ Len(q) - 1 = Len(p)
        /\ Len(p) \in 0..Len(p) /\ Len(p) < g
    BY <1>11, <1>2, <1>3
  <2>2. h[Len(q)] = ApplyOne(h[Len(p)], Renumbered(c, base + Len(q)), kinds)
    BY Zenon, <2>1, <1>9
  <2>3. h[Len(p)] = f[Len(p)] BY Zenon, <2>1, <1>10
  <2>4. h[Len(q)] = ApplyOne(f[Len(p)], c, kinds)
    BY ZenonT(60), <2>2, <2>3, RenumberedApplies
  <2> QED BY Zenon, <2>4, <1>4, <1>5 DEF Course, p, q
<1>12. CASE g # Len(p) + 1
  <2>0. g \in 1..Len(p) /\ Len(q) = Len(p) BY <1>12, <1>2, <1>3
  <2>1. Coalescible(c) /\ p[g].kind = c.kind /\ c.kind \in kinds
    <3>1. g <= Len(p) BY <2>0, <1>2
    <3> QED BY Zenon, <3>1, <1>1 DEF Requeued, Coalescible
  \* After it, they differ by what c overwrites.
  <2>2. \A k \in 0..Len(p) : k >= g => Apply(f[k], c) = Apply(h[k - 1], c)
    <3> DEFINE S == {k \in Nat : g <= k /\ k <= Len(p) => Apply(f[k], c) = Apply(h[k - 1], c)}
    <3>1. 0 \in S BY <1>3
    <3>2. ASSUME NEW k \in S PROVE k + 1 \in S
      <4>1. k + 1 \in Nat /\ k \in Nat OBVIOUS
      <4>2. CASE k + 1 = g
        <5>1. /\ g \in 1..Len(p) /\ g - 1 \in 0..Len(p) /\ g - 1 < g /\ k = g - 1
          BY <4>1, <4>2, <2>0, <1>2
        <5> HIDE DEF S
        <5>2. f[g] = ApplyOne(f[g - 1], p[g], kinds) /\ p[g] \in Controls /\ f[g - 1] \in Domain
          BY Zenon, <5>1, <1>6, <1>8
        <5>3. f[g] = Apply(f[g - 1], p[g]) BY Zenon, <5>2, <2>1 DEF ApplyOne
        <5>4. Apply(Apply(f[g - 1], p[g]), c) = Apply(f[g - 1], c) BY Zenon, <5>2, <2>1, Overwrites
        <5>5. Apply(f[g], c) = Apply(h[g - 1], c) BY Zenon, <5>1, <5>3, <5>4, <1>10
        <5> USE DEF S
        <5> QED BY Zenon, <5>5, <4>1, <4>2
      <4>3. CASE g <= k /\ k + 1 <= Len(p)
        <5>1. /\ k + 1 \in 1..Len(p) /\ k \in 1..Len(q) /\ k # Len(q) /\ ~(k < g)
              /\ k + 1 - 1 = k /\ k \in 0..Len(p) /\ k - 1 \in 0..Len(q) /\ k <= Len(p)
          BY <4>1, <4>3, <2>0, <1>2
        <5>2. Apply(f[k], c) = Apply(h[k - 1], c) BY Zenon, <5>1, <4>3
        <5> HIDE DEF S
        <5> DEFINE m == k + 1
        <5>3. f[m] = ApplyOne(f[m - 1], p[m], kinds) /\ p[m] \in Controls
          BY Zenon, <5>1, <1>8
        <5>4. h[k] = ApplyOne(h[k - 1], Renumbered(p[m], base + k), kinds)
          BY Zenon, <5>1, <1>9
        <5>5. h[k] = ApplyOne(h[k - 1], p[m], kinds)
          BY ZenonT(60), <5>3, <5>4, RenumberedApplies
        <5>6. f[k] \in Domain /\ h[k - 1] \in Domain BY Zenon, <5>1, <1>6, <1>7
        <5>7. Apply(Apply(f[k], p[m]), c) = Apply(Apply(h[k - 1], p[m]), c)
          BY Zenon, <5>2, <5>3, <5>6, <2>1, OverwritesLater
        <5>8. m - 1 = k BY <4>1
        <5> HIDE DEF m
        <5>9. Apply(f[m], c) = Apply(h[m - 1], c)
          BY Zenon, <5>2, <5>3, <5>5, <5>7, <5>8 DEF ApplyOne
        <5> USE DEF S
        <5> QED BY Zenon, <4>1, <5>9 DEF m
      <4>4. CASE ~(g <= k + 1 /\ k + 1 <= Len(p)) BY Zenon, <4>1, <4>4
      <4>5. g <= k + 1 /\ k + 1 <= Len(p) => k + 1 = g \/ (g <= k /\ k + 1 <= Len(p))
        BY <4>1, <1>2, <1>3
      <4> QED BY Zenon, <4>2, <4>3, <4>4, <4>5
    <3>3. S = Nat BY Zenon, <3>1, <3>2, SetInduction
    <3> QED BY <3>3, <1>2, <1>3
  <2>3. /\ Len(p) \in 0..Len(p) /\ Len(p) >= g /\ Len(q) \in 1..Len(q) BY <2>0, <1>2
  <2>4. Apply(f[Len(p)], c) = Apply(h[Len(q) - 1], c) BY Zenon, <2>0, <2>2, <2>3
  <2>5. h[Len(q)] = ApplyOne(h[Len(q) - 1], Renumbered(c, base + Len(q)), kinds)
    BY Zenon, <2>3, <1>9
  <2>6. h[Len(q)] = Apply(h[Len(q) - 1], c)
    BY Zenon, <2>1, <2>5, RenumberedApplies DEF ApplyOne
  <2>7. h[Len(q)] = ApplyOne(f[Len(p)], c, kinds) BY Zenon, <2>1, <2>4, <2>6 DEF ApplyOne
  <2> QED BY Zenon, <2>7, <1>4, <1>5 DEF Course, p, q
<1> QED BY Zenon, <1>11, <1>12

-----------------------------------------------------------------------------
(* The inductive invariant *)

\* The runtime has not begun to end; the worker's loop has not ended.
Live == status \in {"run", "quiesce", "suspended", "rebinding"}
Working == pc \in {"recv", "publish", "signal"}

JobKinds == {"render", "capture", "fence", "reload", "prepare", "promote", "discard"}
Continuations == {"render", "capture", "fence", "reload"}
Idle == {"none", "Unprepared"}
Awaiting == {"Preparing", "Promoting", "Discarding"}

\* Types.
CommandOK(j) ==
  /\ j.kind \in JobKinds \union {"apply", "shutdown"}
  /\ j.kind # "shutdown" => j.controls \in Seq(Controls) /\ j.epoch \in Nat
  /\ j.kind = "discard" => j.controls = <<>>
  /\ j.kind \in JobKinds =>
       /\ j.bo \in 0..MaxPool /\ j.gen \in 0..MaxGen /\ j.cursor \in 1..2
       /\ j.effects \in 0..MaxReload /\ j.want \in Domain

EventOK(e) == e = Fatal \/ (e.kind \in JobKinds /\ e.ok \in BOOLEAN /\ e.bo \in 0..MaxPool)

ReactorTypes ==
  /\ want \in Domain /\ want.cursor \in 1..2 /\ want.effects = registry
  /\ handle \in [busy : BOOLEAN, failure : {"none", "set", "reported"}]
  /\ own \subseteq Continuations /\ frame \in 0..2
  /\ cand \in [stage : Stages, bo : 0..MaxPool, gen : 0..MaxGen]
  /\ scan \in [bo : 1..MaxPool, gen : 1..MaxGen] /\ held \subseteq 1..MaxPool
  /\ registry \in 0..MaxReload /\ status \in Statuses

WorkerTypes ==
  /\ active \in Domain /\ candidate \in Domain /\ applied \in Nat
  /\ pc \in {"recv", "publish", "signal", "lastPublish", "lastSignal", "gone"}
  /\ pc = "publish" => EventOK(out)
  /\ pc = "lastPublish" => out = Fatal

SharedTypes ==
  /\ fatal \in BOOLEAN /\ eventfd \in BOOLEAN /\ reply \in {"none", "applied", "refused"}
  /\ cmds = <<>> \/ (cmds = <<cmds[1]>> /\ CommandOK(cmds[1]))
  /\ events = <<>> \/ (events = <<events[1]>> /\ EventOK(events[1]))

LaneTypes == LaneOK(lane) /\ (~lane.overflow => NoRebind(lane.pending))

\* The continuation the reactor holds for a command or for its event.
Owed(m) ==
  /\ m.kind \in Continuations => own = {m.kind}
  /\ m.kind \in {"prepare", "promote", "discard"} => cand.bo = m.bo /\ (Live => own = {})
  /\ m.kind = "prepare" => cand.stage = "Preparing" /\ own = {}
  /\ m.kind = "promote" => cand.stage = "Promoting"
  /\ m.kind = "discard" => cand.stage = "Discarding"
  /\ m.kind \in {"render", "capture", "fence"} => cand.stage \in Idle
  /\ m.kind = "reload" => registry < MaxReload /\ cand.stage \notin Awaiting
  /\ m.kind = "apply" => (Live => status = "rebinding")

Commanded == cmds # <<>> /\ cmds[1].kind # "shutdown"

\* One command or event at a time: as a command ...
CommandHeld ==
  Working /\ Commanded =>
    /\ handle.busy /\ events = <<>> /\ pc # "publish" /\ Owed(cmds[1])
    /\ cmds[1].kind \in JobKinds => cmds[1].effects = registry

\* ... as the event the worker is about to send ...
OutHeld == pc = "publish" => handle.busy /\ Owed(out) /\ events = <<>>

\* ... and as the event that waits for the reactor.
EventHeld ==
  /\ events # <<>> /\ events[1] # Fatal => handle.busy /\ Owed(events[1])
  /\ Working /\ events # <<>> => handle.busy /\ pc # "publish"

\* A worker that has ended admits no job.
Ended == ~Working => fatal \/ pc = "gone"

\* Between jobs a live reactor holds no continuation.
ReactorIdle ==
  Live =>
    /\ ~handle.busy => own = {} /\ cand.stage \notin Awaiting
    /\ status = "rebinding" => own = {}
    /\ cmds # <<>> => cmds[1].kind # "shutdown"

\* The answer to ApplyControls ends a rebind.
ReplyHeld ==
  Live /\ reply # "none" =>
    /\ status = "rebinding" /\ cmds = <<>>
    /\ Working => events = <<>> /\ pc # "publish"
    /\ events # <<>> => events[1] = Fatal

\* The candidate and its pool.
CandidateHeld ==
  /\ cand.stage \in Idle => cand.bo = 0
  /\ cand.stage \notin Idle => cand.bo \in held /\ cand.bo # scan.bo /\ frame = 0 /\ cand.gen # 0
  /\ status # "down" \/ pc # "gone" => scan.bo \in held
  /\ status \in {"suspended", "rebinding"} => cand.stage \in Idle

\* An event of this kind is on its way to the reactor; and reports success.
Came(kind) == (pc = "publish" /\ out.kind = kind) \/ (events # <<>> /\ events[1].kind = kind)
CameWell(kind) ==
  \/ pc = "publish" /\ out.kind = kind /\ out.ok
  \/ events # <<>> /\ events[1].kind = kind /\ events[1].ok

PromotionDone == cand.stage = "Promoted" \/ Came("promote")

\* The pools of the worker's domains, by the stage of the candidate.
GoneDomains == pc = "gone" => active = NoDomain /\ candidate = NoDomain
ActivePool == pc # "gone" => active.bo = IF PromotionDone THEN cand.bo ELSE scan.bo
CandidatePool ==
  pc # "gone" =>
    /\ cand.stage \in Idle \union {"Promoted"} => candidate.bo = 0
    /\ cand.stage = "Preparing" => candidate.bo = IF CameWell("prepare") THEN cand.bo ELSE 0
    /\ cand.stage \in {"Fence", "PromotionQueued", "DiscardQueued"} => candidate.bo = cand.bo
    /\ cand.stage = "Promoting" => candidate.bo = IF Came("promote") THEN 0 ELSE cand.bo
    /\ cand.stage = "Discarding" => candidate.bo = IF Came("discard") THEN 0 ELSE cand.bo

\* No domain has effects the registry has not published, a reload on its way excepted.
EffectsPublished ==
  /\ active.effects <= registry + (IF CameWell("reload") THEN 1 ELSE 0)
  /\ candidate.effects <= registry

\* A batch continues what the worker has applied.
BatchValid ==
  /\ broken = "no" /\ Commanded /\ cmds[1].kind # "discard"
  /\ Live \/ cmds[1].kind \in {"render", "capture"}
  => Valid(applied, cmds[1].controls, cmds[1].epoch)

WakeInv ==
  /\ handle.failure = "set" => eventfd
  /\ Live /\ events # <<>> => eventfd \/ pc \in {"signal", "lastSignal"}

\* Two domains that draw the same, their effects aside.
Same(d, e) == d.cursor = e.cursor /\ d.history = e.history /\ d.gen = e.gen /\ d.bo = e.bo

Flying == IF Commanded THEN cmds[1].controls ELSE <<>>
All(d, s) == Applied(d, s, Len(s))
AllMirror(d, s) == AppliedMirror(d, s, Len(s))

\* The domain a candidate is to be when it is adopted, and the one a job builds.
Aim(w, gen, bo) == [w EXCEPT !.history = 0, !.gen = gen, !.bo = bo]
Goal == Aim(want, cand.gen, cand.bo)
Built(j) == [cursor |-> j.cursor, history |-> 0, effects |-> j.effects, gen |-> j.gen, bo |-> j.bo]

InStep == broken = "no" /\ Live /\ ~lane.overflow /\ Working

\* The candidate domain exists and follows the controls; its promotion, or its preparation, is
\* commanded.
Following == \/ cand.stage \in {"Fence", "PromotionQueued"}
             \/ cand.stage = "Preparing" /\ CameWell("prepare")
Promoting == cand.stage = "Promoting" /\ ~Came("promote")
Building == Commanded /\ cmds[1].kind = "prepare"

\* What is on its way and what is pending make of the worker's domains what is wanted.
ActiveSync ==
  InStep => Same(All(All(active, Flying), lane.pending), IF PromotionDone THEN Goal ELSE want)
CandidateSync ==
  InStep =>
    /\ Following => Same(AllMirror(AllMirror(candidate, Flying), lane.pending), Goal)
    /\ Promoting => Same(All(AllMirror(candidate, Flying), lane.pending), Goal)
    /\ Building => Same(AllMirror(Built(cmds[1]), lane.pending), Goal)

\* A frame or a capture that is commanded finds what was wanted when it was dispatched.
JobSync ==
  broken = "no" /\ Working /\ Commanded /\ cmds[1].kind \in {"render", "capture"} =>
    /\ Same(All(active, cmds[1].controls), cmds[1].want)
    /\ active.effects <= cmds[1].want.effects

Types == ReactorTypes /\ WorkerTypes /\ SharedTypes /\ LaneTypes
Protocol == CommandHeld /\ OutHeld /\ EventHeld /\ Ended /\ ReactorIdle /\ ReplyHeld
Pools == CandidateHeld /\ GoneDomains /\ ActivePool /\ CandidatePool /\ EffectsPublished
Epochs == EpochsContiguous /\ BatchValid /\ broken \in {"no", "control"}
Sync == ActiveSync /\ CandidateSync /\ JobSync /\ RendersAsSynchronous

RenderInv == Types /\ Protocol /\ Pools /\ Epochs /\ WakeInv /\ Sync

-----------------------------------------------------------------------------
(* Domains *)

\* No domain is a domain without a pool.
LEMMA NoDomainTyped == NoDomain \in Domain /\ NoDomain.bo = 0 /\ NoDomain.effects = 0
BY RenderAssumption DEF NoDomain, Domain

\* A batch keeps the type, the pool and the effects of a domain.
LEMMA AllKeeps ==
  ASSUME NEW d \in Domain, NEW s \in Seq(Controls)
  PROVE /\ All(d, s) \in Domain /\ All(d, s).bo = d.bo /\ All(d, s).effects = d.effects
        /\ AllMirror(d, s) \in Domain /\ AllMirror(d, s).bo = d.bo
        /\ AllMirror(d, s).effects = d.effects
<1>1. Len(s) \in 0..Len(s) OBVIOUS
<1> QED BY Zenon, <1>1, BatchKeeps DEF All, AllMirror, Applied, AppliedMirror

\* An empty batch does nothing.
LEMMA EmptyAll == ASSUME NEW d PROVE All(d, <<>>) = d /\ AllMirror(d, <<>>) = d
<1>1. Len(<<>>) = 0 OBVIOUS
<1> QED BY Zenon, <1>1, EmptyBatch DEF All, AllMirror, Applied, AppliedMirror

\* A control keeps two domains the same.
LEMMA ApplySame ==
  ASSUME NEW d \in Domain, NEW e \in Domain, NEW c \in Controls, Same(d, e)
  PROVE Same(Apply(d, c), Apply(e, c))
BY DEF Same, Apply, Domain, Controls, ControlKinds

\* A cursor image or a damage invalidation keeps a candidate on its way to its goal.
LEMMA ApplyGoal ==
  ASSUME NEW d \in Domain, NEW w \in Domain, NEW c \in Controls, NEW gen, NEW bo,
         Coalescible(c), Same(d, Aim(w, gen, bo))
  PROVE Same(Apply(d, c), Aim(Apply(w, c), gen, bo))
BY Zenon DEF Aim, Same, Apply, Domain, Controls, Coalescible

-----------------------------------------------------------------------------
(* Queueing and sending *)

\* What queue_render_control_parts does to the lane and to what it shares.
LEMMA PushKeeps ==
  ASSUME RenderInv, NEW c \in Controls, c.kind # "rebind", Push(c)
  PROVE /\ LaneTypes'
        /\ lane'.epoch - Len(lane'.pending) = lane.epoch - Len(lane.pending)
        /\ handle' \in [busy : BOOLEAN, failure : {"none", "set", "reported"}]
        /\ handle'.busy = handle.busy /\ fatal' \in BOOLEAN /\ eventfd' \in BOOLEAN
        /\ fatal => fatal'
        /\ eventfd => eventfd'
        /\ handle'.failure = "set" => eventfd'
<1>1. LaneOK(lane) /\ (~lane.overflow => NoRebind(lane.pending))
  BY Zenon DEF RenderInv, Types, LaneTypes
<1>2. /\ LaneOK(lane') /\ lane'.epoch - Len(lane'.pending) = lane.epoch - Len(lane.pending)
      /\ Full(lane, c) => lane' = [lane EXCEPT !.overflow = TRUE]
      /\ ~Full(lane, c) => lane'.overflow = lane.overflow
      /\ NoRebind(lane.pending) => NoRebind(lane'.pending)
  <2>1. lane' = Enqueue(lane, c) BY Zenon DEF Push
  <2> QED BY Zenon, <2>1, <1>1, EnqueueKeeps
<1>3. Full(lane, c) => lane'.overflow
  BY Zenon, <1>1, <1>2 DEF LaneOK
<1>4. LaneTypes' BY Zenon, <1>1, <1>2, <1>3 DEF LaneTypes, LaneOK
<1>5. /\ handle \in [busy : BOOLEAN, failure : {"none", "set", "reported"}]
      /\ fatal \in BOOLEAN /\ eventfd \in BOOLEAN /\ (handle.failure = "set" => eventfd)
  BY Zenon DEF RenderInv, Types, ReactorTypes, SharedTypes, WakeInv
<1>6. CASE Full(lane, c)
  <2>1. FailControlLane BY Zenon, <1>6 DEF Push
  <2> QED BY Zenon, <2>1, <1>2, <1>4, <1>5 DEF FailControlLane
<1>7. CASE ~Full(lane, c)
  <2>1. UNCHANGED <<handle, fatal, eventfd>> BY Zenon, <1>7 DEF Push
  <2> QED BY Zenon, <2>1, <1>2, <1>4, <1>5
<1> QED BY Zenon, <1>6, <1>7

\* An overflow is for good.
LEMMA PushKept ==
  ASSUME RenderInv, NEW c \in Controls, Push(c), ~lane'.overflow
  PROVE ~lane.overflow
<1>1. LaneOK(lane) /\ lane' = Enqueue(lane, c) BY Zenon DEF RenderInv, Types, LaneTypes, Push
<1>2. /\ Full(lane, c) => lane' = [lane EXCEPT !.overflow = TRUE]
      /\ ~Full(lane, c) => lane'.overflow = lane.overflow
  BY Zenon, <1>1, EnqueueKeeps
<1>3. lane \in [pending : Seq(Controls), epoch : Nat, overflow : BOOLEAN]
  BY Zenon, <1>1 DEF LaneOK
<1> QED BY Zenon, <1>2, <1>3

\* While the lane works, a queued control is applied after the ones before it.
LEMMA PushApplies ==
  ASSUME RenderInv, NEW c \in Controls, Push(c), ~lane'.overflow, NEW d \in Domain
  PROVE /\ All(d, lane'.pending) = Apply(All(d, lane.pending), c)
        /\ d.bo # 0 /\ c.kind \in Mirrored =>
             AllMirror(d, lane'.pending) = Apply(AllMirror(d, lane.pending), c)
<1>1. LaneOK(lane) /\ lane' = Enqueue(lane, c) BY Zenon DEF RenderInv, Types, LaneTypes, Push
<1>2. ~Full(lane, c)
  <2>1. Full(lane, c) => lane' = [lane EXCEPT !.overflow = TRUE] BY Zenon, <1>1, EnqueueKeeps
  <2>2. lane \in [pending : Seq(Controls), epoch : Nat, overflow : BOOLEAN]
    BY Zenon, <1>1 DEF LaneOK
  <2> QED BY Zenon, <2>1, <2>2
<1>3. {"cursor", "damage"} \subseteq ControlKinds /\ {"cursor", "damage"} \subseteq Mirrored
  BY Zenon DEF ControlKinds, Mirrored
<1>4. c.kind \in ControlKinds BY Zenon DEF Controls
<1>5. ApplyBatch(d, lane'.pending, Len(lane'.pending), ControlKinds)
        = ApplyOne(ApplyBatch(d, lane.pending, Len(lane.pending), ControlKinds), c, ControlKinds)
  BY Zenon, <1>1, <1>2, <1>3, EnqueueApplies
<1>6. ApplyBatch(d, lane'.pending, Len(lane'.pending), Mirrored)
        = ApplyOne(ApplyBatch(d, lane.pending, Len(lane.pending), Mirrored), c, Mirrored)
  BY Zenon, <1>1, <1>2, <1>3, EnqueueApplies
<1> QED BY Zenon, <1>4, <1>5, <1>6 DEF All, AllMirror, Applied, AppliedMirror, ApplyOne

\* A worker that admits a job is idle, and so is the reactor.
LEMMA AdmitsIdle ==
  ASSUME RenderInv, Admits
  PROVE /\ Working /\ pc \in {"recv", "signal"} /\ cmds = <<>> /\ events = <<>>
        /\ ~handle.busy /\ ~Commanded /\ Flying = <<>> /\ InFlight = 0
        /\ \A kind : ~Came(kind) /\ ~CameWell(kind)
        /\ Live => own = {} /\ cand.stage \notin Awaiting
        /\ Live /\ status # "rebinding" => reply = "none"
BY Zenon DEF RenderInv, Types, WorkerTypes, SharedTypes, Protocol, Ended, EventHeld, OutHeld, ReactorIdle,
       ReplyHeld, Admits, Working, Commanded, Flying, InFlight, Came, CameWell

\* A candidate's goal is a domain.
LEMMA AimTyped ==
  ASSUME NEW w \in Domain, NEW gen \in 0..MaxGen, NEW bo \in 0..MaxPool
  PROVE /\ Aim(w, gen, bo) \in Domain /\ Aim(w, gen, bo).effects = w.effects
        /\ Aim(w, gen, bo).cursor = w.cursor
<1>1. 0 \in 0..2 OBVIOUS
<1> QED BY Zenon, <1>1 DEF Aim, Domain

\* Queueing keeps the worker's epoch, the batch on its way and the queue in step.
LEMMA PushEpochs ==
  ASSUME RenderInv, LaneTypes', lane'.epoch - Len(lane'.pending) = lane.epoch - Len(lane.pending),
         UNCHANGED <<broken, status, applied, cmds>>, InFlight' = InFlight
  PROVE EpochsContiguous'
<1>1. /\ Len(lane'.pending) \in Nat /\ lane'.epoch \in Nat
      /\ Len(lane.pending) \in Nat /\ lane.epoch \in Nat /\ applied \in Nat
  BY DEF LaneTypes, LaneOK, RenderInv, Types, WorkerTypes
<1>2. InFlight \in Nat BY DEF InFlight, RenderInv, Types, SharedTypes, CommandOK
<1>3. EpochsContiguous BY Zenon DEF RenderInv, Epochs
<1>4. ASSUME broken = "no", status \in {"run", "quiesce", "suspended", "rebinding"}
      PROVE applied + InFlight + Len(lane'.pending) = lane'.epoch
  <2>1. applied + InFlight + Len(lane.pending) = lane.epoch
    BY Zenon, <1>3, <1>4 DEF EpochsContiguous
  <2> DEFINE f == InFlight
             p == Len(lane.pending)
             q == Len(lane'.pending)
             e == lane.epoch
             g == lane'.epoch
  <2>2. f \in Nat /\ p \in Nat /\ q \in Nat /\ e \in Nat /\ g \in Nat /\ applied \in Nat
    BY Zenon, <1>1, <1>2
  <2>3. applied + f + p = e /\ g - q = e - p BY Zenon, <2>1
  <2>4. applied + f + q = g
    <3> HIDE DEF f, p, q, e, g
    <3> QED BY <2>2, <2>3
  <2> QED BY Zenon, <2>4
<1> QED BY Zenon, <1>4 DEF EpochsContiguous

-----------------------------------------------------------------------------
(* The worker *)

\* publish_event: the event takes the place of the worker's.
LEMMA PublishKeeps == RenderInv /\ Publish => RenderInv'
<1> SUFFICES ASSUME RenderInv, Publish PROVE RenderInv' BY Zenon
<1>1. /\ ReactorTypes' /\ LaneTypes' /\ ReactorIdle' /\ EpochsContiguous' /\ BatchValid'
      /\ broken' \in {"no", "control"} /\ RendersAsSynchronous'
  <2>1. ReactorTypes' BY Zenon DEF RenderInv, Types, ReactorTypes, Publish, reactor
  <2>2. LaneTypes' BY Zenon DEF RenderInv, Types, LaneTypes, Publish, reactor
  <2>3. ReactorIdle' BY Zenon DEF RenderInv, Protocol, ReactorIdle, Live, Publish, reactor
  <2>4. EpochsContiguous' BY Zenon DEF RenderInv, Epochs, EpochsContiguous, InFlight, Publish,
      reactor
  <2>5. BatchValid' BY Zenon DEF RenderInv, Epochs, BatchValid, Live, Commanded, Valid, Publish,
      reactor
  <2>6. broken' \in {"no", "control"} BY Zenon DEF RenderInv, Epochs, Publish, reactor
  <2>7. RendersAsSynchronous' BY Zenon DEF RenderInv, Sync, RendersAsSynchronous, Publish, reactor
  <2> QED BY Zenon, <2>1, <2>2, <2>3, <2>4, <2>5, <2>6, <2>7
<1>2. WorkerTypes'
  BY Zenon DEF RenderInv, Types, Protocol, Pools, Epochs, Sync, WorkerTypes, Publish, reactor
<1>3. SharedTypes'
  BY Zenon DEF RenderInv, Types, Protocol, Pools, Epochs, Sync, SharedTypes, WorkerTypes, EventOK,
      Fatal, Publish, reactor
<1>4. CommandHeld'
  BY Zenon DEF RenderInv, Types, Protocol, Pools, Epochs, Sync, CommandHeld, Owed, Commanded, Working,
      Live, OutHeld, WorkerTypes, Publish, reactor
<1>5. OutHeld'
  BY Zenon DEF RenderInv, Types, Protocol, Pools, Epochs, Sync, OutHeld, Owed, Live, Publish, reactor
<1>6. EventHeld'
  <2>1. events' = <<out>> /\ events'[1] = out /\ UNCHANGED <<own, cand, registry, status, handle>>
    BY Zenon DEF Publish, reactor
  <2>2. CASE pc = "publish"
    <3>1. handle.busy /\ Owed(out) BY Zenon, <2>2 DEF RenderInv, Protocol, OutHeld
    <3>2. Owed(events[1])' BY Zenon, <3>1, <2>1 DEF Owed, Live
    <3>3. pc' = "signal" BY Zenon, <2>2 DEF Publish
    <3> QED BY Zenon, <3>1, <3>2, <3>3, <2>1 DEF EventHeld
  <2>3. CASE pc # "publish"
    <3>1. out = Fatal /\ pc' = "lastSignal"
      BY Zenon, <2>3 DEF RenderInv, Types, WorkerTypes, Publish
    <3> QED BY Zenon, <3>1, <2>1 DEF EventHeld, Working
  <2> QED BY Zenon, <2>2, <2>3
<1>7. Ended'
  BY Zenon DEF RenderInv, Types, Protocol, Pools, Epochs, Sync, Ended, Working, Publish, reactor
<1>8. ReplyHeld'
  BY Zenon DEF RenderInv, Types, Protocol, Pools, Epochs, Sync, ReplyHeld, Live, Working, WorkerTypes,
      Publish, reactor
<1>9. CandidateHeld'
  BY Zenon DEF RenderInv, Types, Protocol, Pools, Epochs, Sync, CandidateHeld, Publish, reactor
<1>10. GoneDomains'
  BY Zenon DEF RenderInv, Types, Protocol, Pools, Epochs, Sync, GoneDomains, Publish, reactor
<1>11. ActivePool'
  BY DEF RenderInv, Types, Protocol, Pools, Epochs, Sync, ActivePool, PromotionDone, Came,
      WorkerTypes, SharedTypes, Fatal, Publish, reactor
<1>12. CandidatePool'
  BY DEF RenderInv, Types, Protocol, Pools, Epochs, Sync, CandidatePool, Came, CameWell,
      WorkerTypes, Fatal, Publish, reactor
<1>13. EffectsPublished'
  BY DEF RenderInv, Types, Protocol, Pools, Epochs, Sync, EffectsPublished, CameWell, Fatal,
      WorkerTypes, Publish, reactor
<1>14. WakeInv'
  BY Zenon DEF RenderInv, Types, Protocol, Pools, Epochs, Sync, WakeInv, Live, Publish, reactor
<1>15. ActiveSync'
  BY Zenon DEF RenderInv, Types, Protocol, Pools, Epochs, Sync, ActiveSync, InStep, Live, Working,
      PromotionDone, Came, Flying, Commanded, Goal, Aim, WorkerTypes, Fatal, Publish, reactor
<1>16. CandidateSync'
  BY Zenon DEF RenderInv, Types, Protocol, Pools, Epochs, Sync, CandidateSync, InStep, Live, Working,
      Following, Promoting, Building, Came, CameWell, Flying, Commanded, Goal, Aim, WorkerTypes,
      Fatal, Publish, reactor
<1>17. JobSync'
  BY Zenon DEF RenderInv, Types, Protocol, Pools, Epochs, Sync, JobSync, Commanded, Working, Publish,
      reactor
<1> QED BY Zenon, <1>1, <1>2, <1>3, <1>4, <1>5, <1>6, <1>7, <1>8, <1>9, <1>10, <1>11, <1>12,
    <1>13, <1>14, <1>15, <1>16, <1>17 DEF RenderInv, Types, Protocol, Pools, Epochs, Sync

\* publish_event: the eventfd is written; after the last event the worker ends.
LEMMA SignalKeeps == RenderInv /\ Signal => RenderInv'
<1> SUFFICES ASSUME RenderInv, Signal PROVE RenderInv' OBVIOUS
<1>1. /\ ReactorTypes' /\ LaneTypes' /\ ReactorIdle' /\ EpochsContiguous' /\ BatchValid'
      /\ broken' \in {"no", "control"}
  <2>1. ReactorTypes' BY Zenon DEF RenderInv, Types, ReactorTypes, Signal, reactor
  <2>2. LaneTypes' BY Zenon DEF RenderInv, Types, LaneTypes, Signal, reactor
  <2>3. ReactorIdle' BY Zenon DEF RenderInv, Protocol, ReactorIdle, Live, Signal, reactor
  <2>4. EpochsContiguous' BY Zenon DEF RenderInv, Epochs, EpochsContiguous, InFlight, Signal,
      reactor
  <2>5. BatchValid' BY Zenon DEF RenderInv, Epochs, BatchValid, Live, Commanded, Valid, Signal,
      reactor
  <2>6. broken' \in {"no", "control"} BY Zenon DEF RenderInv, Epochs, Signal, reactor
  <2> QED BY Zenon, <2>1, <2>2, <2>3, <2>4, <2>5, <2>6
<1>2. WorkerTypes'
  BY Zenon, NoDomainTyped DEF RenderInv, Types, Protocol, Pools, Epochs, Sync, WorkerTypes, Signal,
      reactor
<1>3. SharedTypes'
  BY Zenon DEF RenderInv, Types, Protocol, Pools, Epochs, Sync, SharedTypes, Signal, reactor
<1>4. CommandHeld'
  BY Zenon DEF RenderInv, Types, Protocol, Pools, Epochs, Sync, CommandHeld, Owed, Commanded, Working,
      Live, Signal, reactor
<1>5. OutHeld'
  BY Zenon DEF RenderInv, Types, Protocol, Pools, Epochs, Sync, OutHeld, Owed, Live, Signal, reactor
<1>6. EventHeld'
  BY Zenon DEF RenderInv, Types, Protocol, Pools, Epochs, Sync, EventHeld, Owed, Working, Live,
      Signal, reactor
<1>7. Ended'
  BY Zenon DEF RenderInv, Types, Protocol, Pools, Epochs, Sync, Ended, Working, Signal, reactor
<1>8. ReplyHeld'
  BY Zenon DEF RenderInv, Types, Protocol, Pools, Epochs, Sync, ReplyHeld, Live, Working, Signal,
      reactor
<1>9. CandidateHeld'
  BY Zenon DEF RenderInv, Types, Protocol, Pools, Epochs, Sync, CandidateHeld, Signal, reactor
<1>10. GoneDomains'
  BY Zenon DEF RenderInv, Types, Protocol, Pools, Epochs, Sync, GoneDomains, Signal, reactor
<1>11. ActivePool'
  BY Zenon DEF RenderInv, Types, Protocol, Pools, Epochs, Sync, ActivePool, PromotionDone, Came,
      Signal, reactor
<1>12. CandidatePool'
  BY Zenon DEF RenderInv, Types, Protocol, Pools, Epochs, Sync, CandidatePool, Came, CameWell, Signal,
      reactor
<1>13. EffectsPublished'
  BY NoDomainTyped DEF RenderInv, Types, Protocol, Pools, Epochs, Sync, EffectsPublished,
      CameWell, ReactorTypes, Signal, reactor
<1>14. WakeInv'
  BY Zenon DEF RenderInv, Types, Protocol, Pools, Epochs, Sync, WakeInv, Live, Signal, reactor
<1>15. ActiveSync'
  BY Zenon DEF RenderInv, Types, Protocol, Pools, Epochs, Sync, ActiveSync, InStep, Live, Working,
      PromotionDone, Came, Flying, Commanded, Goal, Aim, Signal, reactor
<1>16. CandidateSync'
  BY Zenon DEF RenderInv, Types, Protocol, Pools, Epochs, Sync, CandidateSync, InStep, Live, Working,
      Following, Promoting, Building, Came, CameWell, Flying, Commanded, Goal, Aim, Signal,
      reactor
<1>17. JobSync'
  BY Zenon DEF RenderInv, Types, Protocol, Pools, Epochs, Sync, JobSync, Commanded, Working, Signal,
      reactor
<1>18. RendersAsSynchronous'
  BY ZenonT(60) DEF RenderInv, Types, Protocol, Pools, Epochs, Sync, RendersAsSynchronous, NoJob, NoEvent,
      Signal, reactor
<1> QED BY Zenon, <1>1, <1>2, <1>3, <1>4, <1>5, <1>6, <1>7, <1>8, <1>9, <1>10, <1>11, <1>12,
    <1>13, <1>14, <1>15, <1>16, <1>17, <1>18 DEF RenderInv, Types, Protocol, Pools, Epochs, Sync

\* Scratch maintenance fails.
LEMMA MaintenanceKeeps == RenderInv /\ MaintenanceFails => RenderInv'
<1> SUFFICES ASSUME RenderInv, MaintenanceFails PROVE RenderInv' OBVIOUS
<1>1. /\ ReactorTypes' /\ LaneTypes' /\ ReactorIdle' /\ EpochsContiguous' /\ BatchValid'
      /\ broken' \in {"no", "control"}
  <2>1. ReactorTypes' BY Zenon DEF RenderInv, Types, ReactorTypes, MaintenanceFails, reactor
  <2>2. LaneTypes' BY Zenon DEF RenderInv, Types, LaneTypes, MaintenanceFails, reactor
  <2>3. ReactorIdle' BY Zenon DEF RenderInv, Protocol, ReactorIdle, Live, MaintenanceFails, reactor
  <2>4. EpochsContiguous' BY Zenon DEF RenderInv, Epochs, EpochsContiguous, InFlight,
      MaintenanceFails, reactor
  <2>5. BatchValid' BY Zenon DEF RenderInv, Epochs, BatchValid, Live, Commanded, Valid,
      MaintenanceFails, reactor
  <2>6. broken' \in {"no", "control"} BY Zenon DEF RenderInv, Epochs, MaintenanceFails, reactor
  <2> QED BY Zenon, <2>1, <2>2, <2>3, <2>4, <2>5, <2>6
<1>2. WorkerTypes'
  BY Zenon DEF RenderInv, Types, Protocol, Pools, Epochs, Sync, WorkerTypes, MaintenanceFails, reactor
<1>3. SharedTypes'
  BY Zenon DEF RenderInv, Types, Protocol, Pools, Epochs, Sync, SharedTypes, MaintenanceFails, reactor
<1>4. CommandHeld'
  BY Zenon DEF RenderInv, Types, Protocol, Pools, Epochs, Sync, CommandHeld, Owed, Commanded, Working,
      Live, MaintenanceFails, reactor
<1>5. OutHeld'
  BY Zenon DEF RenderInv, Types, Protocol, Pools, Epochs, Sync, OutHeld, Owed, Live, MaintenanceFails,
      reactor
<1>6. EventHeld'
  BY Zenon DEF RenderInv, Types, Protocol, Pools, Epochs, Sync, EventHeld, Owed, Working, Live,
      MaintenanceFails, reactor
<1>7. Ended'
  BY Zenon DEF RenderInv, Types, Protocol, Pools, Epochs, Sync, Ended, Working, MaintenanceFails,
      reactor
<1>8. ReplyHeld'
  BY Zenon DEF RenderInv, Types, Protocol, Pools, Epochs, Sync, ReplyHeld, Live, Working,
      MaintenanceFails, reactor
<1>9. CandidateHeld'
  BY Zenon DEF RenderInv, Types, Protocol, Pools, Epochs, Sync, CandidateHeld, MaintenanceFails,
      reactor
<1>10. GoneDomains'
  BY Zenon DEF RenderInv, Types, Protocol, Pools, Epochs, Sync, GoneDomains, MaintenanceFails, reactor
<1>11. ActivePool'
  BY Zenon DEF RenderInv, Types, Protocol, Pools, Epochs, Sync, ActivePool, PromotionDone, Came,
      MaintenanceFails, reactor
<1>12. CandidatePool'
  BY Zenon DEF RenderInv, Types, Protocol, Pools, Epochs, Sync, CandidatePool, Came, CameWell,
      MaintenanceFails, reactor
<1>13. EffectsPublished'
  BY Zenon DEF RenderInv, Types, Protocol, Pools, Epochs, Sync, EffectsPublished, CameWell,
      MaintenanceFails, reactor
<1>14. WakeInv'
  BY Zenon DEF RenderInv, Types, Protocol, Pools, Epochs, Sync, WakeInv, Live, MaintenanceFails,
      reactor
<1>15. ActiveSync'
  BY Zenon DEF RenderInv, Types, Protocol, Pools, Epochs, Sync, ActiveSync, InStep, Live, Working,
      PromotionDone, Came, Flying, Commanded, Goal, Aim, MaintenanceFails, reactor
<1>16. CandidateSync'
  BY Zenon DEF RenderInv, Types, Protocol, Pools, Epochs, Sync, CandidateSync, InStep, Live, Working,
      Following, Promoting, Building, Came, CameWell, Flying, Commanded, Goal, Aim,
      MaintenanceFails, reactor
<1>17. JobSync'
  BY Zenon DEF RenderInv, Types, Protocol, Pools, Epochs, Sync, JobSync, Commanded, Working,
      MaintenanceFails, reactor
<1>18. RendersAsSynchronous'
  BY Zenon DEF RenderInv, Types, Protocol, Pools, Epochs, Sync, RendersAsSynchronous, Fatal,
      MaintenanceFails, reactor
<1> QED BY Zenon, <1>1, <1>2, <1>3, <1>4, <1>5, <1>6, <1>7, <1>8, <1>9, <1>10, <1>11, <1>12,
    <1>13, <1>14, <1>15, <1>16, <1>17, <1>18 DEF RenderInv, Types, Protocol, Pools, Epochs, Sync

\* Shutdown.
LEMMA ShutdownKeeps == RenderInv /\ ExecuteShutdown => RenderInv'
<1> SUFFICES ASSUME RenderInv, ExecuteShutdown PROVE RenderInv' OBVIOUS
<1>1. ReactorTypes' /\ LaneTypes' /\ broken' \in {"no", "control"} /\ RendersAsSynchronous'
  BY Zenon DEF RenderInv, Types, Protocol, Pools, Epochs, Sync, ExecuteShutdown, reactor, LaneTypes,
      ReactorTypes, RendersAsSynchronous
<1>2. WorkerTypes'
  BY Zenon, NoDomainTyped DEF RenderInv, Types, Protocol, Pools, Epochs, Sync, WorkerTypes,
      ExecuteShutdown, reactor
<1>3. SharedTypes'
  BY Zenon DEF RenderInv, Types, Protocol, Pools, Epochs, Sync, SharedTypes, ExecuteShutdown, reactor
<1>4. CommandHeld'
  BY Zenon DEF RenderInv, Types, Protocol, Pools, Epochs, Sync, CommandHeld, Owed, Commanded, Working,
      Live, ExecuteShutdown, reactor
<1>5. OutHeld'
  BY Zenon DEF RenderInv, Types, Protocol, Pools, Epochs, Sync, OutHeld, Owed, Live, ExecuteShutdown,
      reactor
<1>6. EventHeld'
  BY Zenon DEF RenderInv, Types, Protocol, Pools, Epochs, Sync, EventHeld, Owed, Working, Live,
      ExecuteShutdown, reactor
<1>7. Ended'
  BY Zenon DEF RenderInv, Types, Protocol, Pools, Epochs, Sync, Ended, Working, ExecuteShutdown,
      reactor
<1>8. ReactorIdle'
  BY Zenon DEF RenderInv, Types, Protocol, Pools, Epochs, Sync, ReactorIdle, Live, ExecuteShutdown,
      reactor
<1>9. ReplyHeld'
  BY Zenon DEF RenderInv, Types, Protocol, Pools, Epochs, Sync, ReplyHeld, Live, Working,
      ExecuteShutdown, reactor
<1>10. CandidateHeld'
  BY Zenon DEF RenderInv, Types, Protocol, Pools, Epochs, Sync, CandidateHeld, ExecuteShutdown, reactor
<1>11. GoneDomains'
  BY Zenon DEF RenderInv, Types, Protocol, Pools, Epochs, Sync, GoneDomains, ExecuteShutdown, reactor
<1>12. ActivePool'
  BY Zenon DEF RenderInv, Types, Protocol, Pools, Epochs, Sync, ActivePool, PromotionDone, Came,
      ExecuteShutdown, reactor
<1>13. CandidatePool'
  BY Zenon DEF RenderInv, Types, Protocol, Pools, Epochs, Sync, CandidatePool, Came, CameWell,
      ExecuteShutdown, reactor
<1>14. EffectsPublished'
  BY NoDomainTyped DEF RenderInv, Types, Protocol, Pools, Epochs, Sync, EffectsPublished,
      CameWell, ReactorTypes, ExecuteShutdown, reactor
<1>15. EpochsContiguous'
  BY Zenon DEF RenderInv, Types, Protocol, Pools, Epochs, Sync, EpochsContiguous, InFlight, Live,
      ExecuteShutdown, reactor
<1>16. BatchValid'
  BY Zenon DEF RenderInv, Types, Protocol, Pools, Epochs, Sync, BatchValid, Commanded, Live, Valid,
      ExecuteShutdown, reactor
<1>17. WakeInv'
  BY Zenon DEF RenderInv, Types, Protocol, Pools, Epochs, Sync, WakeInv, Live, ExecuteShutdown, reactor
<1>18. ActiveSync'
  BY Zenon DEF RenderInv, Types, Protocol, Pools, Epochs, Sync, ActiveSync, InStep, Live, Working,
      PromotionDone, Came, Flying, Commanded, Goal, Aim, ExecuteShutdown, reactor
<1>19. CandidateSync'
  BY Zenon DEF RenderInv, Types, Protocol, Pools, Epochs, Sync, CandidateSync, InStep, Live, Working,
      Following, Promoting, Building, Came, CameWell, Flying, Commanded, Goal, Aim,
      ExecuteShutdown, reactor
<1>20. JobSync'
  BY Zenon DEF RenderInv, Types, Protocol, Pools, Epochs, Sync, JobSync, Commanded, Working,
      ExecuteShutdown, reactor
<1> QED BY Zenon, <1>1, <1>2, <1>3, <1>4, <1>5, <1>6, <1>7, <1>8, <1>9, <1>10, <1>11, <1>12,
    <1>13, <1>14, <1>15, <1>16, <1>17, <1>18, <1>19, <1>20 DEF RenderInv, Types, Protocol, Pools,
    Epochs, Sync

-----------------------------------------------------------------------------
(* The worker: commands *)

\* A batch keeps two domains the same.
LEMMA AllSame ==
  ASSUME NEW d \in Domain, NEW e \in Domain, NEW s \in Seq(Controls), Same(d, e)
  PROVE Same(All(d, s), All(e, s))
<1> DEFINE n == Len(s)
<1>1. n \in Nat /\ n \in 0..n OBVIOUS
<1>2. PICK f : Course(f, d, s, n, ControlKinds) BY Zenon, <1>1, BatchUnfolds
<1>3. PICK g : Course(g, e, s, n, ControlKinds) BY Zenon, <1>1, BatchUnfolds
<1>4. KeptAlong(f, d, n) /\ KeptAlong(g, e, n) BY Zenon, <1>1, <1>2, <1>3, CourseKeeps
<1> DEFINE S == {k \in Nat : k <= n => Same(f[k], g[k])}
<1>5. 0 \in S BY Zenon, 0 \in Nat, <1>2, <1>3 DEF Course
<1>6. ASSUME NEW k \in S PROVE k + 1 \in S
  <2>1. k + 1 \in Nat /\ k \in Nat OBVIOUS
  <2>2. CASE k + 1 <= n
    <3> DEFINE m == k + 1
    <3>1. m \in 1..n /\ k <= n /\ m - 1 = k /\ k \in 0..n /\ s[m] \in Controls BY <2>1, <2>2, <1>1
    <3>2. Same(f[k], g[k]) BY Zenon, <3>1
    <3> HIDE DEF S, m, n
    <3>3. f[m] = ApplyOne(f[k], s[m], ControlKinds) /\ g[m] = ApplyOne(g[k], s[m], ControlKinds)
      BY Zenon, <3>1, <1>2, <1>3 DEF Course
    <3>4. f[k] \in Domain /\ g[k] \in Domain BY Zenon, <3>1, <1>4 DEF KeptAlong
    <3>5. Same(f[m], g[m]) BY Zenon, <3>1, <3>2, <3>3, <3>4, ApplySame DEF ApplyOne
    <3> USE DEF S
    <3> QED BY Zenon, <2>1, <3>5 DEF m
  <2> QED BY Zenon, <2>1, <2>2
<1>7. S = Nat BY Zenon, <1>5, <1>6, SetInduction
<1>8. Same(f[n], g[n])
  <2>1. n \in S /\ n <= n BY <1>1, <1>7
  <2> QED BY Zenon, <2>1
<1> QED BY Zenon, <1>2, <1>3, <1>8 DEF Course, All, Applied

\* The events a command can end in.
LEMMA EventShape ==
  ASSUME NEW j, j.kind \in JobKinds, NEW outcome
  PROVE LET e == EventOf(j, outcome)
        IN /\ e = Fatal \/ e = [kind |-> j.kind, ok |-> e.ok, bo |-> j.bo]
           /\ e # Fatal => e.kind = j.kind /\ e.bo = j.bo /\ e.ok \in BOOLEAN
           /\ e = Fatal => e.kind = "fatal"
           /\ e.kind = j.kind /\ j.kind \in {"promote", "discard"} => candidate.bo = j.bo
<1> DEFINE e == EventOf(j, outcome)
           sound == outcome # "partial" /\ Valid(applied, j.controls, j.epoch)
           ok == sound /\ outcome = "ok"
           done == [kind |-> j.kind, ok |-> ok, bo |-> j.bo]
<1>1. /\ e = Fatal \/ e = done
      /\ e = done /\ j.kind \in {"promote", "discard"} => candidate.bo = j.bo \/ e = Fatal
  BY Zenon DEF EventOf, JobKinds
<1>2. ok \in BOOLEAN BY Zenon
<1> HIDE DEF ok, e
<1>3. Fatal.kind = "fatal" BY Zenon DEF Fatal
<1>4. done.kind = j.kind /\ done.ok = ok /\ done.bo = j.bo /\ j.kind # "fatal" BY Zenon DEF JobKinds
<1>5. done = [kind |-> j.kind, ok |-> done.ok, bo |-> j.bo] BY Zenon, <1>4
<1> HIDE DEF done
<1> QED BY Zenon, <1>1, <1>2, <1>3, <1>4, <1>5 DEF e

\* What executing a job does to the domains: the batch up to m, then the job's own work.
Executed(j, event, m, d, c) ==
  /\ active' = ActiveAfter(j, event, d, c) /\ candidate' = CandidateAfter(j, event, c)
  /\ applied' = applied + m /\ cmds' = <<>> /\ out' = event /\ pc' = "publish"
  /\ seen' = [saw |-> d, want |-> j.want, kind |-> j.kind]
  /\ fatal' = FatalAfter(j, event)

\* A job of the reactor is executed.
LEMMA ExecuteKeeps ==
  ASSUME RenderInv, NEW outcome, NEW n \in 0..Capacity, Execute(outcome, n)
  PROVE RenderInv'
<1>j. PICK j : j = cmds[1] BY Zenon
<1>m. PICK m : m = IF outcome = "partial" THEN n
                   ELSE IF Valid(applied, j.controls, j.epoch) THEN Len(j.controls) ELSE 0
  BY Zenon
<1>d. PICK d : d = Applied(active, j.controls, m) BY Zenon
<1>c. PICK c : c = IF j.kind = "prepare" THEN candidate ELSE AppliedMirror(candidate, j.controls, m)
  BY Zenon
<1>e. PICK event : event = EventOf(j, outcome) BY Zenon
<1>1. /\ pc = "recv" /\ cmds # <<>> /\ j.kind \notin {"apply", "shutdown"}
      /\ IF outcome = "partial" THEN n < Len(j.controls) /\ Valid(applied, j.controls, j.epoch)
         ELSE n = 0
      /\ broken' = IF outcome = "partial" THEN "control" ELSE broken
      /\ UNCHANGED <<lane, want, handle, own, frame, cand, scan, held, registry, status>>
      /\ UNCHANGED <<events, eventfd, reply>>
  BY Zenon, <1>j DEF Execute, reactor
<1>2. Executed(j, event, m, d, c)
  BY Zenon, <1>j, <1>m, <1>d, <1>c, <1>e DEF Execute, Executed
<1>3. /\ CommandOK(j) /\ j.kind \in JobKinds /\ Commanded /\ Working /\ handle.busy /\ events = <<>>
      /\ Owed(j) /\ j.effects = registry
  BY Zenon, <1>1, <1>j DEF RenderInv, Types, SharedTypes, Protocol, CommandHeld, Working, Commanded,
      CommandOK
<1>4. /\ j.controls \in Seq(Controls) /\ Len(j.controls) \in Nat
      /\ j.kind = "discard" => j.controls = <<>>
      /\ j.bo \in 0..MaxPool /\ j.effects \in 0..MaxReload
  BY SMTT(60), <1>3 DEF CommandOK, JobKinds
<1>5. m \in 0..Len(j.controls) BY <1>1, <1>4, <1>m
<1>6. /\ d \in Domain /\ d.bo = active.bo /\ d.effects = active.effects
      /\ c \in Domain /\ c.bo = candidate.bo /\ c.effects = candidate.effects
      /\ active \in Domain /\ candidate \in Domain /\ applied \in Nat
  <2>1. active \in Domain /\ candidate \in Domain /\ applied \in Nat
    BY Zenon DEF RenderInv, Types, WorkerTypes
  <2> QED BY ZenonT(60), <2>1, <1>c, <1>d, <1>4, <1>5, BatchKeeps DEF Applied, AppliedMirror
<1>7. /\ event = Fatal \/ event = [kind |-> j.kind, ok |-> event.ok, bo |-> j.bo]
      /\ event # Fatal => event.kind = j.kind /\ event.bo = j.bo /\ event.ok \in BOOLEAN
      /\ event = Fatal => event.kind = "fatal"
      /\ event.kind = j.kind /\ j.kind \in {"promote", "discard"} => candidate.bo = j.bo
  BY Zenon, <1>e, <1>3, EventShape
<1>8. /\ cmds' = <<>> /\ applied' = applied + m /\ out' = event /\ pc' = "publish" /\ events' = <<>>
      /\ ~Commanded' /\ Flying' = <<>> /\ Flying = j.controls /\ Working'
      /\ \A k : ~Came(k) /\ ~CameWell(k)
      /\ \A k : Came(k)' <=> k = event.kind
      /\ \A k : CameWell(k)' <=> k = event.kind /\ event.ok
  BY Zenon, <1>1, <1>2, <1>3, <1>j DEF Executed, Commanded, Flying, Working, Came, CameWell
\* The domains afterwards.
<1>9. /\ event.kind = "promote" => active' = c
      /\ event.kind = "reload" /\ event.ok => active' = [d EXCEPT !.effects = registry + 1]
      /\ event.kind # "promote" /\ ~(event.kind = "reload" /\ event.ok) => active' = d
  BY Zenon, <1>2, <1>3, <1>7 DEF Executed, ActiveAfter, JobKinds
<1>10. /\ event.kind = "prepare" /\ event.ok => candidate' = Built(j)
       /\ event.kind \in {"promote", "discard"} => candidate' = NoDomain
       /\ event.kind \notin {"promote", "discard"} /\ ~(event.kind = "prepare" /\ event.ok) => candidate' = c
  BY Zenon, <1>2, <1>3, <1>7 DEF Executed, CandidateAfter, Built, JobKinds
<1>11. Built(j) \in Domain /\ Built(j).bo = j.bo /\ Built(j).effects = registry
  BY <1>3, RenderAssumption DEF CommandOK, Built, Domain
<1>12. event.kind # "fatal" => event.kind = j.kind BY Zenon, <1>7
\* A batch that nothing has broken is applied to the end.
<1>13. broken' = "no" => broken = "no" /\ outcome # "partial" BY Zenon, <1>1
<1>14. broken' = "no" /\ (Live \/ j.kind \in {"render", "capture"}) => m = Len(j.controls)
  <2>1. CASE j.kind = "discard" BY <2>1, <1>4, <1>5
  <2>2. CASE j.kind # "discard"
    <3>1. broken' = "no" /\ (Live \/ j.kind \in {"render", "capture"})
            => Valid(applied, j.controls, j.epoch)
      BY Zenon, <2>2, <1>3, <1>13, <1>j DEF RenderInv, Epochs, BatchValid
    <3> QED BY Zenon, <3>1, <1>13, <1>m
  <2> QED BY Zenon, <2>1, <2>2
<1>15. InStep' =>
         /\ InStep /\ d = All(active, Flying)
         /\ c = IF j.kind = "prepare" THEN candidate ELSE AllMirror(candidate, Flying)
  <2>1. InStep' => InStep /\ m = Len(j.controls)
    BY Zenon, <1>1, <1>3, <1>13, <1>14 DEF InStep, Live
  <2> QED BY Zenon, <2>1, <1>c, <1>d, <1>8 DEF All, AllMirror
\* Types.
<1>16. Types'
  <2>1. ReactorTypes' /\ LaneTypes' BY Zenon, <1>1 DEF RenderInv, Types, ReactorTypes, LaneTypes
  <2>2. active' \in Domain
    <3>1. event.kind = "reload" => registry + 1 \in 0..MaxReload
      BY <1>3, <1>4, <1>12, RenderAssumption DEF Owed
    <3>2. event.kind = "reload" => [d EXCEPT !.effects = registry + 1] \in Domain
      BY Zenon, <3>1, <1>6 DEF Domain
    <3> QED BY Zenon, <3>2, <1>6, <1>9
  <2>3. candidate' \in Domain BY Zenon, <1>6, <1>10, <1>11, NoDomainTyped
  <2>4. EventOK(event) BY Zenon, <1>3, <1>4, <1>7 DEF EventOK
  <2>5. WorkerTypes' BY <2>2, <2>3, <2>4, <1>5, <1>6, <1>8 DEF WorkerTypes
  <2>6. fatal' \in BOOLEAN BY Zenon, <1>2 DEF RenderInv, Types, SharedTypes, Executed, FatalAfter
  <2>7. SharedTypes' BY <2>6, <1>1, <1>8 DEF RenderInv, Types, SharedTypes
  <2> QED BY Zenon, <2>1, <2>5, <2>7 DEF Types
<1>17. Protocol'
  <2>1. Owed(out)'
    <3>1. CASE event = Fatal
      <4>1. out'.kind = "fatal" BY Zenon, <3>1, <1>7, <1>8
      <4> QED BY <4>1 DEF Owed, Continuations
    <3>2. CASE event # Fatal
      <4>1. out'.kind = j.kind /\ out'.bo = j.bo BY Zenon, <3>2, <1>7, <1>8
      <4> QED BY Zenon, <4>1, <1>1, <1>3 DEF Owed, Live
    <3> QED BY Zenon, <3>1, <3>2
  <2>2. CommandHeld' /\ OutHeld' /\ EventHeld' /\ Ended'
    BY Zenon, <2>1, <1>1, <1>3, <1>8 DEF CommandHeld, OutHeld, EventHeld, Ended
  <2>3. ReactorIdle' BY Zenon, <1>1, <1>8 DEF RenderInv, Protocol, ReactorIdle, Live
  <2>4. ReplyHeld' BY Zenon, <1>1 DEF RenderInv, Protocol, ReplyHeld, Live
  <2> QED BY Zenon, <2>2, <2>3, <2>4 DEF Protocol
<1>18. Pools'
  <2>1. CandidateHeld' /\ GoneDomains'
    BY Zenon, <1>1, <1>8 DEF RenderInv, Pools, CandidateHeld, GoneDomains
  <2>2. /\ active.bo = IF cand.stage = "Promoted" THEN cand.bo ELSE scan.bo
    BY Zenon, <1>1, <1>8 DEF RenderInv, Pools, ActivePool, PromotionDone
  <2>3. /\ j.kind = "promote" => cand.stage = "Promoting" /\ cand.bo = j.bo
        /\ j.kind = "discard" => cand.stage = "Discarding" /\ cand.bo = j.bo
        /\ j.kind = "prepare" => cand.stage = "Preparing" /\ cand.bo = j.bo
    BY Zenon, <1>3 DEF Owed
  <2>4. ActivePool'
    <3>1. CASE event.kind = "promote"
      BY Zenon, <3>1, <2>3, <1>1, <1>6, <1>7, <1>8, <1>9, <1>12 DEF ActivePool, PromotionDone
    <3>2. CASE event.kind # "promote"
      <4>1. active'.bo = active.bo BY Zenon, <3>2, <1>6, <1>9 DEF Domain
      <4> QED BY Zenon, <4>1, <3>2, <2>2, <1>1, <1>8 DEF ActivePool, PromotionDone
    <3> QED BY Zenon, <3>1, <3>2
  <2>5. CandidatePool
    BY Zenon DEF RenderInv, Pools
  <2>6. CandidatePool'
    <3>1. CASE event.kind = "prepare" /\ event.ok
      <4>1. candidate'.bo = cand.bo /\ cand.stage = "Preparing"
        BY Zenon, <3>1, <2>3, <1>10, <1>11, <1>12
      <4> QED BY Zenon, <4>1, <3>1, <1>1, <1>8 DEF CandidatePool, Idle
    <3>2. CASE event.kind \in {"promote", "discard"}
      <4>1. candidate'.bo = 0 BY Zenon, <3>2, <1>10, NoDomainTyped
      <4>2. /\ event.kind = "promote" => cand.stage = "Promoting"
            /\ event.kind = "discard" => cand.stage = "Discarding"
        BY Zenon, <3>2, <2>3, <1>12
      <4> QED BY Zenon, <4>1, <4>2, <3>2, <1>1, <1>8 DEF CandidatePool, Idle
    <3>3. CASE event.kind \notin {"promote", "discard"} /\ ~(event.kind = "prepare" /\ event.ok)
      <4>1. candidate'.bo = candidate.bo BY Zenon, <3>3, <1>6, <1>10
      <4> QED BY Zenon, <4>1, <3>3, <2>5, <1>1, <1>8 DEF CandidatePool, Idle
    <3> QED BY Zenon, <3>1, <3>2, <3>3
  <2>7. EffectsPublished'
    <3>1. /\ active.effects <= registry /\ candidate.effects <= registry /\ registry \in Nat
          /\ active.effects \in Nat /\ candidate.effects \in Nat
      BY <1>6, <1>8 DEF RenderInv, Pools, EffectsPublished, Types, ReactorTypes, Domain
    <3>2. candidate'.effects <= registry
      BY <3>1, <1>6, <1>10, <1>11, NoDomainTyped
    <3>3. CASE event.kind = "reload" /\ event.ok
      <4>1. active'.effects = registry + 1 BY Zenon, <3>3, <1>6, <1>9 DEF Domain
      <4> QED BY <4>1, <3>1, <3>2, <3>3, <1>1, <1>8 DEF EffectsPublished
    <3>4. CASE ~(event.kind = "reload" /\ event.ok)
      <4>1. active'.effects <= registry BY Zenon, <3>1, <3>4, <1>6, <1>9
      <4> QED BY <4>1, <3>1, <3>2, <3>4, <1>1, <1>8 DEF EffectsPublished
    <3> QED BY Zenon, <3>3, <3>4
  <2> QED BY Zenon, <2>1, <2>4, <2>6, <2>7 DEF Pools
<1>19. Epochs'
  <2>1. BatchValid' /\ broken' \in {"no", "control"}
    BY Zenon, <1>1, <1>8 DEF RenderInv, Epochs, BatchValid
  <2>2. InFlight' = 0 BY Zenon, <1>8 DEF InFlight
  <2>3. InFlight = Len(j.controls)
    BY Zenon, <1>1, <1>3, <1>4, <1>j DEF InFlight
  <2>4. EpochsContiguous'
    <3> SUFFICES ASSUME broken' = "no", Live PROVE applied + m + 0 + Len(lane.pending) = lane.epoch
      BY Zenon, <2>2, <1>1, <1>8 DEF EpochsContiguous, Live
    <3>1. applied + Len(j.controls) + Len(lane.pending) = lane.epoch
      BY Zenon, <2>3, <1>13 DEF RenderInv, Epochs, EpochsContiguous, Live
    <3>2. m = Len(j.controls) /\ Len(lane.pending) \in Nat
      BY <1>14 DEF RenderInv, Types, LaneTypes, LaneOK
    <3> DEFINE p == Len(lane.pending)
    <3>3. applied + m + p = lane.epoch /\ applied \in Nat /\ m \in Nat /\ p \in Nat
      BY Zenon, <3>1, <3>2, <1>4, <1>6
    <3> HIDE DEF p
    <3>4. applied + m + 0 + p = lane.epoch BY <3>3
    <3> QED BY Zenon, <3>4 DEF p
  <2> QED BY Zenon, <2>1, <2>4 DEF Epochs
<1>20. WakeInv' BY Zenon, <1>1, <1>8 DEF RenderInv, WakeInv
<1>21. ActiveSync'
  <2> SUFFICES ASSUME InStep'
               PROVE Same(All(All(active, Flying), lane.pending),
                          IF PromotionDone THEN Goal ELSE want)'
    BY Zenon DEF ActiveSync
  <2>1. InStep /\ d = All(active, Flying) /\ Goal' = Goal BY Zenon, <1>1, <1>15 DEF Goal
  <2>2. All(active', Flying') = active' BY Zenon, <1>8, EmptyAll
  <2>3. CASE event.kind = "promote"
    <3>1. Promoting /\ PromotionDone' /\ j.kind = "promote"
      BY Zenon, <2>3, <1>3, <1>8, <1>12 DEF Promoting, PromotionDone, Owed
    <3>2. c = AllMirror(candidate, Flying) BY Zenon, <3>1, <1>15
    <3>3. Same(All(c, lane.pending), Goal)
      BY Zenon, <3>1, <3>2, <2>1 DEF RenderInv, Sync, CandidateSync
    <3> QED BY Zenon, <3>1, <3>3, <2>1, <2>2, <2>3, <1>1, <1>9
  <2>4. CASE event.kind # "promote"
    <3>1. PromotionDone' <=> PromotionDone BY Zenon, <2>4, <1>1, <1>8 DEF PromotionDone
    <3>2. Same(All(d, lane.pending), IF PromotionDone THEN Goal ELSE want)
      BY Zenon, <2>1 DEF RenderInv, Sync, ActiveSync
    <3>3. active' \in Domain /\ Same(active', d)
      <4>1. active' \in Domain BY Zenon, <1>16 DEF Types, WorkerTypes
      <4> QED BY Zenon, <4>1, <2>4, <1>6, <1>9 DEF Same, Domain
    <3>4. lane.pending \in Seq(Controls) BY Zenon DEF RenderInv, Types, LaneTypes, LaneOK
    <3>5. Same(All(active', lane.pending), All(d, lane.pending))
      BY Zenon, <3>3, <3>4, <1>6, AllSame
    <3>6. Same(All(active', lane.pending), IF PromotionDone THEN Goal ELSE want)
      BY Zenon, <3>2, <3>5 DEF Same
    <3> QED BY Zenon, <3>1, <3>6, <2>1, <2>2, <1>1
  <2> QED BY Zenon, <2>3, <2>4
<1>22. CandidateSync'
  <2> SUFFICES ASSUME InStep' PROVE CandidateSync' BY Zenon DEF CandidateSync
  <2>1. InStep /\ CandidateSync /\ Goal' = Goal /\ ~Building'
    BY Zenon, <1>1, <1>8, <1>15 DEF Goal, Building, RenderInv, Sync
  <2>2. AllMirror(candidate', Flying') = candidate' BY Zenon, <1>8, EmptyAll
  <2>3. CASE event.kind = "prepare" /\ event.ok
    <3>1. Building /\ cand.stage = "Preparing" BY Zenon, <2>3, <1>3, <1>12, <1>j DEF Building, Owed
    <3>2. ~Promoting' BY Zenon, <3>1, <1>1 DEF Promoting
    <3>3. Same(AllMirror(candidate', lane.pending), Goal)
      BY Zenon, <3>1, <2>1, <2>3, <1>10, <1>j DEF CandidateSync
    <3> QED BY Zenon, <3>2, <3>3, <2>1, <2>2, <1>1 DEF CandidateSync
  <2>4. CASE event.kind \in {"promote", "discard"}
    <3>1. ~Following' /\ ~Promoting'
      BY Zenon, <2>4, <1>1, <1>3, <1>8, <1>12 DEF Following, Promoting, Owed
    <3> QED BY Zenon, <3>1, <2>1 DEF CandidateSync
  <2>5. CASE event.kind \notin {"promote", "discard"} /\ ~(event.kind = "prepare" /\ event.ok)
    <3>1. candidate' = c BY Zenon, <2>5, <1>10
    <3>2. CASE j.kind = "prepare"
      <4>1. ~Following' /\ ~Promoting'
        BY Zenon, <3>2, <2>5, <1>1, <1>3, <1>8 DEF Following, Promoting, Owed
      <4> QED BY Zenon, <4>1, <2>1 DEF CandidateSync
    <3>3. CASE j.kind # "prepare"
      <4>1. candidate' = AllMirror(candidate, Flying) BY Zenon, <3>1, <3>3, <1>15
      <4>2. (Following' => Following) /\ (Promoting' => Promoting)
        BY Zenon, <2>5, <1>1, <1>8 DEF Following, Promoting
      <4>3. /\ Following => Same(AllMirror(candidate', lane.pending), Goal)
            /\ Promoting => Same(All(candidate', lane.pending), Goal)
        BY Zenon, <4>1, <2>1 DEF CandidateSync
      <4> QED BY Zenon, <4>2, <4>3, <2>1, <2>2, <1>1 DEF CandidateSync
    <3> QED BY Zenon, <3>2, <3>3
  <2> QED BY Zenon, <2>3, <2>4, <2>5
<1>23. JobSync' BY Zenon, <1>8 DEF JobSync
<1>24. RendersAsSynchronous'
  <2> SUFFICES ASSUME broken' = "no", j.kind \in {"render", "capture"}
               PROVE RendersAsSynchronous'
    BY Zenon, <1>2 DEF Executed, RendersAsSynchronous
  <2>1. d = All(active, j.controls) BY Zenon, <1>14, <1>d DEF All
  <2>2. Same(d, j.want) /\ d.effects <= j.want.effects
    BY Zenon, <2>1, <1>3, <1>6, <1>13, <1>j DEF RenderInv, Sync, JobSync
  <2>3. seen'.saw = d /\ seen'.want = j.want BY Zenon, <1>2 DEF Executed
  <2> QED BY Zenon, <2>2, <2>3 DEF RendersAsSynchronous, Same
<1> QED BY Zenon, <1>16, <1>17, <1>18, <1>19, <1>20, <1>21, <1>22, <1>23, <1>24 DEF RenderInv, Sync

\* ApplyControls is executed.
LEMMA ExecuteApplyKeeps ==
  ASSUME RenderInv, NEW outcome, NEW n \in 0..Capacity, ExecuteApply(outcome, n)
  PROVE RenderInv'
<1>j. PICK j : j = cmds[1] BY Zenon
<1>s. PICK sound : sound = (outcome = "ok" /\ Valid(applied, j.controls, j.epoch)) BY Zenon
<1>m. PICK m : m = IF sound THEN Len(j.controls) ELSE n BY Zenon
<1>1. /\ pc = "recv" /\ cmds # <<>> /\ j.kind = "apply" /\ cmds' = <<>> /\ applied' = applied + m
      /\ IF outcome = "partial" THEN n < Len(j.controls) /\ Valid(applied, j.controls, j.epoch)
         ELSE outcome = "ok" /\ n = 0
      /\ active' = Applied(active, j.controls, m)
      /\ candidate' = AppliedMirror(candidate, j.controls, m)
      /\ reply' = IF sound THEN "applied" ELSE "refused"
      /\ IF sound THEN UNCHANGED <<fatal, out, pc, broken>>
         ELSE fatal' = TRUE /\ out' = Fatal /\ pc' = "lastPublish" /\ broken' = "control"
      /\ UNCHANGED <<lane, want, handle, own, frame, cand, scan, held, registry, status>>
      /\ UNCHANGED <<seen, events, eventfd>>
  BY Zenon, <1>j, <1>s, <1>m DEF ExecuteApply, reactor
<1>2. /\ CommandOK(j) /\ Commanded /\ Working /\ handle.busy /\ events = <<>>
      /\ Live => status = "rebinding" /\ cand.stage \in Idle
  BY Zenon, <1>1, <1>j DEF RenderInv, Types, SharedTypes, Protocol, CommandHeld, Owed, Working, Commanded,
                    Pools, CandidateHeld
<1>3. j.controls \in Seq(Controls) /\ Len(j.controls) \in Nat BY <1>1, <1>2 DEF CommandOK
<1>4. m \in 0..Len(j.controls) /\ m \in Nat BY <1>1, <1>3, <1>m
<1>5. /\ active \in Domain /\ candidate \in Domain /\ applied \in Nat
  BY Zenon DEF RenderInv, Types, WorkerTypes
<1>6. /\ active' \in Domain /\ active'.bo = active.bo /\ active'.effects = active.effects
      /\ candidate' \in Domain /\ candidate'.bo = candidate.bo
      /\ candidate'.effects = candidate.effects
  BY Zenon, <1>1, <1>3, <1>4, <1>5, BatchKeeps DEF Applied, AppliedMirror
<1>7. /\ ~Commanded' /\ Flying' = <<>> /\ Flying = j.controls /\ pc' \in {"recv", "lastPublish"}
      /\ \A k : ~Came(k) /\ ~CameWell(k) /\ ~Came(k)' /\ ~CameWell(k)'
  BY Zenon, <1>1, <1>2, <1>j DEF Commanded, Flying, Came, CameWell
<1>8. Types'
  <2>1. ReactorTypes' /\ LaneTypes' BY Zenon, <1>1 DEF RenderInv, Types, ReactorTypes, LaneTypes
  <2>2. WorkerTypes' BY SMTT(60), <1>1, <1>4, <1>5, <1>6 DEF WorkerTypes
  <2>3. SharedTypes' BY Zenon, <1>1, <1>2 DEF RenderInv, Types, SharedTypes
  <2> QED BY Zenon, <2>1, <2>2, <2>3 DEF Types
<1>9. Protocol'
  <2>1. CommandHeld' /\ OutHeld' /\ EventHeld' BY <1>1, <1>2, <1>7 DEF CommandHeld, OutHeld, EventHeld
  <2>2. Ended' BY <1>1 DEF Ended, Working
  <2>3. ReactorIdle' BY Zenon, <1>1 DEF RenderInv, Protocol, ReactorIdle, Live
  <2>4. ReplyHeld' BY Zenon, <1>1, <1>2 DEF ReplyHeld, Live
  <2> QED BY Zenon, <2>1, <2>2, <2>3, <2>4 DEF Protocol
<1>10. Pools'
  <2>1. CandidateHeld' /\ GoneDomains'
    BY Zenon, <1>1, <1>7 DEF RenderInv, Pools, CandidateHeld, GoneDomains
  <2>2. ActivePool'
    BY Zenon, <1>1, <1>2, <1>6, <1>7, "recv" # "gone" DEF RenderInv, Pools, ActivePool,
        PromotionDone
  <2>3. CandidatePool' BY Zenon, <1>1, <1>6, <1>7 DEF RenderInv, Pools, CandidatePool
  <2>4. EffectsPublished' BY Zenon, <1>1, <1>6, <1>7 DEF RenderInv, Pools, EffectsPublished
  <2> QED BY Zenon, <2>1, <2>2, <2>3, <2>4 DEF Pools
<1>11. Epochs'
  <2>1. BatchValid' /\ broken' \in {"no", "control"}
    BY Zenon, <1>1, <1>7 DEF RenderInv, Epochs, BatchValid
  <2>2. InFlight' = 0 /\ InFlight = Len(j.controls) BY Zenon, <1>1, <1>j DEF InFlight
  <2>3. EpochsContiguous'
    <3> SUFFICES ASSUME broken' = "no", Live PROVE applied + m + 0 + Len(lane.pending) = lane.epoch
      BY Zenon, <2>2, <1>1 DEF EpochsContiguous, Live
    <3>1. m = Len(j.controls) /\ broken = "no" BY Zenon, <1>1, <1>m
    <3>2. applied + m + Len(lane.pending) = lane.epoch
      BY Zenon, <2>2, <3>1 DEF RenderInv, Epochs, EpochsContiguous, Live
    <3> DEFINE p == Len(lane.pending)
    <3>3. p \in Nat BY DEF RenderInv, Types, LaneTypes, LaneOK
    <3>4. applied + m + p = lane.epoch BY Zenon, <3>2
    <3> HIDE DEF p
    <3>5. applied + m + 0 + p = lane.epoch BY <3>3, <3>4, <1>4, <1>5
    <3> QED BY Zenon, <3>5 DEF p
  <2> QED BY Zenon, <2>1, <2>3 DEF Epochs
<1>12. WakeInv' BY Zenon, <1>1, <1>2 DEF RenderInv, WakeInv
<1>13. Sync'
  <2>1. ActiveSync'
    <3> SUFFICES ASSUME InStep'
                 PROVE Same(All(All(active, Flying), lane.pending),
                            IF PromotionDone THEN Goal ELSE want)'
      BY Zenon DEF ActiveSync
    <3>1. sound /\ InStep BY Zenon, <1>1, <1>2 DEF InStep, Live, Working
    <3>2. active' = All(active, Flying) BY Zenon, <3>1, <1>1, <1>7, <1>m DEF All
    <3>3. All(active', Flying') = active' BY Zenon, <1>7, EmptyAll
    <3>4. (PromotionDone' <=> PromotionDone) /\ Goal' = Goal
      BY Zenon, <1>1, <1>7 DEF PromotionDone, Goal
    <3> QED BY Zenon, <3>1, <3>2, <3>3, <3>4, <1>1 DEF RenderInv, Sync, ActiveSync
  <2>2. CandidateSync'
    BY Zenon, <1>1, <1>2, <1>7 DEF CandidateSync, InStep, Live, Following, Promoting, Building, Idle
  <2>3. JobSync' BY Zenon, <1>7 DEF JobSync
  <2>4. RendersAsSynchronous' BY Zenon, <1>1 DEF RenderInv, Sync, RendersAsSynchronous
  <2> QED BY Zenon, <2>1, <2>2, <2>3, <2>4 DEF Sync
<1> QED BY Zenon, <1>8, <1>9, <1>10, <1>11, <1>12, <1>13 DEF RenderInv

-----------------------------------------------------------------------------
(* The reactor: what changes its status or its request only *)

\* A step of the reactor's status: forward, and to a suspension without a candidate only.
LEMMA StatusKeeps ==
  ASSUME RenderInv, UNCHANGED Rest, status' \in Statuses,
         Live' => Live /\ status # "rebinding", status' # "rebinding", status # "down",
         status' = "suspended" => cand.stage \in Idle
  PROVE RenderInv'
<1>1. /\ WorkerTypes' /\ SharedTypes' /\ LaneTypes' /\ Ended' /\ GoneDomains' /\ ActivePool'
      /\ CandidatePool' /\ EffectsPublished' /\ broken' \in {"no", "control"} /\ JobSync'
      /\ RendersAsSynchronous'
  <2>1. WorkerTypes' BY Zenon DEF RenderInv, Types, WorkerTypes, Rest, worker, shared
  <2>2. SharedTypes' BY Zenon DEF RenderInv, Types, SharedTypes, Rest, worker, shared
  <2>3. LaneTypes' BY Zenon DEF RenderInv, Types, LaneTypes, Rest, worker, shared
  <2>4. Ended' BY Zenon DEF RenderInv, Protocol, Ended, Working, Rest, worker, shared
  <2>5. GoneDomains' BY Zenon DEF RenderInv, Pools, GoneDomains, Rest, worker, shared
  <2>6. ActivePool' BY Zenon DEF RenderInv, Pools, ActivePool, PromotionDone, Came, Rest, worker,
      shared
  <2>7. CandidatePool' BY Zenon DEF RenderInv, Pools, CandidatePool, Came, CameWell, Rest, worker,
      shared
  <2>8. EffectsPublished' BY Zenon DEF RenderInv, Pools, EffectsPublished, CameWell, Rest, worker,
      shared
  <2>9. broken' \in {"no", "control"} BY Zenon DEF RenderInv, Epochs, Rest, worker, shared
  <2>10. JobSync' BY Zenon DEF RenderInv, Sync, JobSync, Working, Commanded, Rest, worker, shared
  <2>11. RendersAsSynchronous' BY Zenon DEF RenderInv, Sync, RendersAsSynchronous, Rest, worker,
      shared
  <2> QED BY Zenon, <2>1, <2>2, <2>3, <2>4, <2>5, <2>6, <2>7, <2>8, <2>9, <2>10, <2>11
<1>2. ReactorTypes'
  BY Zenon DEF RenderInv, Types, Protocol, Pools, Epochs, Sync, ReactorTypes, Rest, worker, shared
<1>3. CommandHeld'
  BY Zenon DEF RenderInv, Types, Protocol, Pools, Epochs, Sync, CommandHeld, Owed, Commanded, Working,
      Live, Rest, worker, shared
<1>4. OutHeld'
  BY Zenon DEF RenderInv, Types, Protocol, Pools, Epochs, Sync, OutHeld, Owed, Live, Rest, worker,
      shared
<1>5. EventHeld'
  BY Zenon DEF RenderInv, Types, Protocol, Pools, Epochs, Sync, EventHeld, Owed, Working, Live, Rest,
      worker, shared
<1>6. ReactorIdle'
  BY Zenon DEF RenderInv, Types, Protocol, Pools, Epochs, Sync, ReactorIdle, Live, Rest, worker, shared
<1>7. ReplyHeld'
  BY Zenon DEF RenderInv, Types, Protocol, Pools, Epochs, Sync, ReplyHeld, Live, Working, Rest,
      worker, shared
<1>8. CandidateHeld'
  BY Zenon DEF RenderInv, Types, Protocol, Pools, Epochs, Sync, CandidateHeld, Rest, worker, shared
<1>9. EpochsContiguous'
  BY Zenon DEF RenderInv, Types, Protocol, Pools, Epochs, Sync, EpochsContiguous, InFlight, Live,
      Rest, worker, shared
<1>10. BatchValid'
  BY Zenon DEF RenderInv, Types, Protocol, Pools, Epochs, Sync, BatchValid, Commanded, Live, Valid,
      Rest, worker, shared
<1>11. WakeInv'
  BY Zenon DEF RenderInv, Types, Protocol, Pools, Epochs, Sync, WakeInv, Live, Rest, worker, shared
<1>12. ActiveSync'
  BY Zenon DEF RenderInv, Types, Protocol, Pools, Epochs, Sync, ActiveSync, InStep, Live, Working,
      PromotionDone, Came, Flying, Commanded, Goal, Aim, Rest, worker, shared
<1>13. CandidateSync'
  BY Zenon DEF RenderInv, Types, Protocol, Pools, Epochs, Sync, CandidateSync, InStep, Live, Working,
      Following, Promoting, Building, Came, CameWell, Flying, Commanded, Goal, Aim, Rest, worker,
      shared
<1> QED BY ZenonT(60), <1>1, <1>2, <1>3, <1>4, <1>5, <1>6, <1>7, <1>8, <1>9, <1>10, <1>11, <1>12,
    <1>13 DEF RenderInv, Types, Protocol, Pools, Epochs, Sync

\* A configuration is requested.
LEMMA RequestConfigurationKeeps == RenderInv /\ RequestConfiguration => RenderInv'
<1> SUFFICES ASSUME RenderInv, RequestConfiguration PROVE RenderInv' BY Zenon
<1>1. /\ WorkerTypes' /\ SharedTypes' /\ LaneTypes' /\ Ended' /\ ReplyHeld' /\ GoneDomains'
      /\ EffectsPublished' /\ EpochsContiguous' /\ BatchValid' /\ broken' \in {"no", "control"}
      /\ WakeInv' /\ JobSync' /\ RendersAsSynchronous'
  <2>1. WorkerTypes' BY Zenon DEF RenderInv, Types, WorkerTypes, RequestConfiguration, shared,
      worker
  <2>2. SharedTypes' BY Zenon DEF RenderInv, Types, SharedTypes, RequestConfiguration, shared,
      worker
  <2>3. LaneTypes' BY Zenon DEF RenderInv, Types, LaneTypes, RequestConfiguration, shared, worker
  <2>4. Ended' BY Zenon DEF RenderInv, Protocol, Ended, Working, RequestConfiguration, shared,
      worker
  <2>5. ReplyHeld' BY Zenon DEF RenderInv, Protocol, ReplyHeld, Working, Live,
      RequestConfiguration, shared, worker
  <2>6. GoneDomains' BY Zenon DEF RenderInv, Pools, GoneDomains, RequestConfiguration, shared,
      worker
  <2>7. EffectsPublished' BY Zenon DEF RenderInv, Pools, EffectsPublished, CameWell,
      RequestConfiguration, shared, worker
  <2>8. EpochsContiguous' BY Zenon DEF RenderInv, Epochs, EpochsContiguous, InFlight,
      RequestConfiguration, shared, worker
  <2>9. BatchValid' BY Zenon DEF RenderInv, Epochs, BatchValid, Live, Commanded, Valid,
      RequestConfiguration, shared, worker
  <2>10. broken' \in {"no", "control"} BY Zenon DEF RenderInv, Epochs, RequestConfiguration,
      shared, worker
  <2>11. WakeInv' BY Zenon DEF RenderInv, WakeInv, Live, RequestConfiguration, shared, worker
  <2>12. JobSync' BY Zenon DEF RenderInv, Sync, JobSync, Working, Commanded, RequestConfiguration,
      shared, worker
  <2>13. RendersAsSynchronous' BY Zenon DEF RenderInv, Sync, RendersAsSynchronous,
      RequestConfiguration, shared, worker
  <2> QED BY Zenon, <2>1, <2>2, <2>3, <2>4, <2>5, <2>6, <2>7, <2>8, <2>9, <2>10, <2>11, <2>12, <2>13
<1>2. ReactorTypes'
  BY RenderAssumption DEF RenderInv, Types, Protocol, Pools, Epochs, Sync, ReactorTypes,
      NoCandidate, Stages, RequestConfiguration, shared, worker
<1>3. CommandHeld'
  BY Zenon DEF RenderInv, Types, Protocol, Pools, Epochs, Sync, CommandHeld, Owed, Commanded, Working,
      Live, NoCandidate, ReactorTypes, Idle, Awaiting, RequestConfiguration, shared, worker
<1>4. OutHeld'
  BY Zenon DEF RenderInv, Types, Protocol, Pools, Epochs, Sync, OutHeld, Owed, Live, NoCandidate,
      ReactorTypes, Idle, Awaiting, RequestConfiguration, shared, worker
<1>5. EventHeld'
  BY Zenon DEF RenderInv, Types, Protocol, Pools, Epochs, Sync, EventHeld, Owed, Working, Live,
      NoCandidate, ReactorTypes, Idle, Awaiting, RequestConfiguration, shared, worker
<1>6. ReactorIdle'
  BY Zenon DEF RenderInv, Types, Protocol, Pools, Epochs, Sync, ReactorIdle, Live, NoCandidate,
      Awaiting, ReactorTypes, RequestConfiguration, shared, worker
<1>7. CandidateHeld'
  BY Zenon DEF RenderInv, Types, Protocol, Pools, Epochs, Sync, CandidateHeld, NoCandidate, Idle,
      ReactorTypes, RequestConfiguration, shared, worker
<1>8. ActivePool'
  BY Zenon DEF RenderInv, Types, Protocol, Pools, Epochs, Sync, ActivePool, PromotionDone, Came,
      OutHeld, Owed, Live, EventHeld, Working, NoCandidate, CandidateHeld, ReactorTypes, Idle,
      Fatal, RequestConfiguration, shared, worker
<1>9. CandidatePool'
  BY Zenon DEF RenderInv, Types, Protocol, Pools, Epochs, Sync, CandidatePool, Came, CameWell,
      NoCandidate, Idle, ReactorTypes, CandidateHeld, RequestConfiguration, shared, worker
<1>10. ActiveSync'
  BY DEF RenderInv, Types, Protocol, Pools, Epochs, Sync, ActiveSync, InStep, Live, Working,
      PromotionDone, Came, Flying, Commanded, Goal, Aim, OutHeld, Owed, EventHeld, NoCandidate,
      ReactorTypes, Fatal, RequestConfiguration, shared, worker
<1>11. CandidateSync'
  BY ZenonT(60) DEF RenderInv, Types, Protocol, Pools, Epochs, Sync, CandidateSync, InStep, Live, Working,
      Following, Promoting, Building, Came, CameWell, Flying, Commanded, Goal, Aim, NoCandidate,
      ReactorTypes, CommandHeld, Owed, RequestConfiguration, shared, worker
<1> QED BY ZenonT(60), <1>1, <1>2, <1>3, <1>4, <1>5, <1>6, <1>7, <1>8, <1>9, <1>10, <1>11 DEF
    RenderInv, Types, Protocol, Pools, Epochs, Sync

\* The request fails before a candidate is built.
LEMMA PrepareRefusedKeeps == RenderInv /\ PrepareRefused => RenderInv'
<1> SUFFICES ASSUME RenderInv, PrepareRefused PROVE RenderInv' OBVIOUS
<1>1. /\ WorkerTypes' /\ SharedTypes' /\ LaneTypes' /\ Ended' /\ ReplyHeld' /\ GoneDomains'
      /\ EffectsPublished' /\ EpochsContiguous' /\ BatchValid' /\ broken' \in {"no", "control"}
      /\ WakeInv' /\ JobSync' /\ RendersAsSynchronous'
  <2>1. WorkerTypes' BY Zenon DEF RenderInv, Types, WorkerTypes, PrepareRefused, shared, worker
  <2>2. SharedTypes' BY Zenon DEF RenderInv, Types, SharedTypes, PrepareRefused, shared, worker
  <2>3. LaneTypes' BY Zenon DEF RenderInv, Types, LaneTypes, PrepareRefused, shared, worker
  <2>4. Ended' BY Zenon DEF RenderInv, Protocol, Ended, Working, PrepareRefused, shared, worker
  <2>5. ReplyHeld' BY Zenon DEF RenderInv, Protocol, ReplyHeld, Working, Live, PrepareRefused,
      shared, worker
  <2>6. GoneDomains' BY Zenon DEF RenderInv, Pools, GoneDomains, PrepareRefused, shared, worker
  <2>7. EffectsPublished' BY Zenon DEF RenderInv, Pools, EffectsPublished, CameWell,
      PrepareRefused, shared, worker
  <2>8. EpochsContiguous' BY Zenon DEF RenderInv, Epochs, EpochsContiguous, InFlight,
      PrepareRefused, shared, worker
  <2>9. BatchValid' BY Zenon DEF RenderInv, Epochs, BatchValid, Live, Commanded, Valid,
      PrepareRefused, shared, worker
  <2>10. broken' \in {"no", "control"} BY Zenon DEF RenderInv, Epochs, PrepareRefused, shared,
      worker
  <2>11. WakeInv' BY Zenon DEF RenderInv, WakeInv, Live, PrepareRefused, shared, worker
  <2>12. JobSync' BY Zenon DEF RenderInv, Sync, JobSync, Working, Commanded, PrepareRefused,
      shared, worker
  <2>13. RendersAsSynchronous' BY Zenon DEF RenderInv, Sync, RendersAsSynchronous, PrepareRefused,
      shared, worker
  <2> QED BY Zenon, <2>1, <2>2, <2>3, <2>4, <2>5, <2>6, <2>7, <2>8, <2>9, <2>10, <2>11, <2>12, <2>13
<1>2. ReactorTypes'
  BY RenderAssumption DEF RenderInv, Types, Protocol, Pools, Epochs, Sync, ReactorTypes,
      NoCandidate, Stages, PrepareRefused, shared, worker
<1>3. CommandHeld'
  BY Zenon DEF RenderInv, Types, Protocol, Pools, Epochs, Sync, CommandHeld, Owed, Commanded, Working,
      Live, NoCandidate, ReactorTypes, Idle, Awaiting, PrepareRefused, shared, worker
<1>4. OutHeld'
  BY Zenon DEF RenderInv, Types, Protocol, Pools, Epochs, Sync, OutHeld, Owed, Live, NoCandidate,
      ReactorTypes, Idle, Awaiting, PrepareRefused, shared, worker
<1>5. EventHeld'
  BY Zenon DEF RenderInv, Types, Protocol, Pools, Epochs, Sync, EventHeld, Owed, Working, Live,
      NoCandidate, ReactorTypes, Idle, Awaiting, PrepareRefused, shared, worker
<1>6. ReactorIdle'
  BY Zenon DEF RenderInv, Types, Protocol, Pools, Epochs, Sync, ReactorIdle, Live, NoCandidate,
      Awaiting, ReactorTypes, PrepareRefused, shared, worker
<1>7. CandidateHeld'
  BY Zenon DEF RenderInv, Types, Protocol, Pools, Epochs, Sync, CandidateHeld, NoCandidate, Idle,
      ReactorTypes, PrepareRefused, shared, worker
<1>8. ActivePool'
  BY Zenon DEF RenderInv, Types, Protocol, Pools, Epochs, Sync, ActivePool, PromotionDone, Came,
      OutHeld, Owed, Live, EventHeld, Working, NoCandidate, CandidateHeld, ReactorTypes, Idle,
      Fatal, PrepareRefused, shared, worker
<1>9. CandidatePool'
  BY Zenon DEF RenderInv, Types, Protocol, Pools, Epochs, Sync, CandidatePool, Came, CameWell,
      NoCandidate, Idle, ReactorTypes, CandidateHeld, PrepareRefused, shared, worker
<1>10. ActiveSync'
  BY Zenon DEF RenderInv, Types, Protocol, Pools, Epochs, Sync, ActiveSync, InStep, Live, Working,
      PromotionDone, Came, Flying, Commanded, Goal, Aim, OutHeld, Owed, EventHeld, NoCandidate,
      ReactorTypes, Fatal, PrepareRefused, shared, worker
<1>11. CandidateSync'
  <2>1. cand.stage = "Unprepared" /\ cand'.stage = "none" /\ cmds' = cmds
    BY Zenon DEF PrepareRefused, NoCandidate, shared
  <2>2. ~Following' /\ ~Promoting' BY Zenon, <2>1 DEF Following, Promoting
  <2>3. Working => ~Building
    BY Zenon, <2>1 DEF RenderInv, Protocol, CommandHeld, Owed, Building
  <2>4. InStep' => ~Building'
    BY Zenon, <2>1, <2>3 DEF Building, Commanded, InStep, Working, Live, PrepareRefused, shared, worker
  <2> QED BY Zenon, <2>2, <2>4 DEF CandidateSync
<1> QED BY Zenon, <1>1, <1>2, <1>3, <1>4, <1>5, <1>6, <1>7, <1>8, <1>9, <1>10, <1>11 DEF
    RenderInv, Types, Protocol, Pools, Epochs, Sync

\* The modeset is committed.
LEMMA CommitModesetKeeps == RenderInv /\ CommitModeset => RenderInv'
<1> SUFFICES ASSUME RenderInv, CommitModeset PROVE RenderInv' OBVIOUS
<1>1. /\ WorkerTypes' /\ SharedTypes' /\ LaneTypes' /\ Ended' /\ ReplyHeld' /\ GoneDomains'
      /\ EffectsPublished' /\ EpochsContiguous' /\ BatchValid' /\ broken' \in {"no", "control"}
      /\ WakeInv' /\ JobSync' /\ RendersAsSynchronous'
  <2>1. WorkerTypes' BY Zenon DEF RenderInv, Types, WorkerTypes, CommitModeset, shared, worker
  <2>2. SharedTypes' BY Zenon DEF RenderInv, Types, SharedTypes, CommitModeset, shared, worker
  <2>3. LaneTypes' BY Zenon DEF RenderInv, Types, LaneTypes, CommitModeset, shared, worker
  <2>4. Ended' BY Zenon DEF RenderInv, Protocol, Ended, Working, CommitModeset, shared, worker
  <2>5. ReplyHeld' BY Zenon DEF RenderInv, Protocol, ReplyHeld, Working, Live, CommitModeset,
      shared, worker
  <2>6. GoneDomains' BY Zenon DEF RenderInv, Pools, GoneDomains, CommitModeset, shared, worker
  <2>7. EffectsPublished' BY Zenon DEF RenderInv, Pools, EffectsPublished, CameWell, CommitModeset,
      shared, worker
  <2>8. EpochsContiguous' BY Zenon DEF RenderInv, Epochs, EpochsContiguous, InFlight,
      CommitModeset, shared, worker
  <2>9. BatchValid' BY Zenon DEF RenderInv, Epochs, BatchValid, Live, Commanded, Valid,
      CommitModeset, shared, worker
  <2>10. broken' \in {"no", "control"} BY Zenon DEF RenderInv, Epochs, CommitModeset, shared, worker
  <2>11. WakeInv' BY Zenon DEF RenderInv, WakeInv, Live, CommitModeset, shared, worker
  <2>12. JobSync' BY Zenon DEF RenderInv, Sync, JobSync, Working, Commanded, CommitModeset, shared,
      worker
  <2>13. RendersAsSynchronous' BY Zenon DEF RenderInv, Sync, RendersAsSynchronous, CommitModeset,
      shared, worker
  <2> QED BY Zenon, <2>1, <2>2, <2>3, <2>4, <2>5, <2>6, <2>7, <2>8, <2>9, <2>10, <2>11, <2>12, <2>13
<1>2. ReactorTypes'
  BY Zenon, RenderAssumption DEF RenderInv, Types, Protocol, Pools, Epochs, Sync, ReactorTypes,
      NoCandidate, Stages, CommitModeset, shared, worker
<1>3. CommandHeld'
  BY Zenon DEF RenderInv, Types, Protocol, Pools, Epochs, Sync, CommandHeld, Owed, Commanded, Working,
      Live, NoCandidate, ReactorTypes, Idle, Awaiting, CommitModeset, shared, worker
<1>4. OutHeld'
  BY Zenon DEF RenderInv, Types, Protocol, Pools, Epochs, Sync, OutHeld, Owed, Live, NoCandidate,
      ReactorTypes, Idle, Awaiting, CommitModeset, shared, worker
<1>5. EventHeld'
  BY Zenon DEF RenderInv, Types, Protocol, Pools, Epochs, Sync, EventHeld, Owed, Working, Live,
      NoCandidate, ReactorTypes, Idle, Awaiting, CommitModeset, shared, worker
<1>6. ReactorIdle'
  BY Zenon DEF RenderInv, Types, Protocol, Pools, Epochs, Sync, ReactorIdle, Live, NoCandidate,
      Awaiting, ReactorTypes, CommitModeset, shared, worker
<1>7. CandidateHeld'
  BY Zenon DEF RenderInv, Types, Protocol, Pools, Epochs, Sync, CandidateHeld, NoCandidate, Idle,
      ReactorTypes, CommitModeset, shared, worker
<1>8. ActivePool'
  BY Zenon DEF RenderInv, Types, Protocol, Pools, Epochs, Sync, ActivePool, PromotionDone, Came,
      OutHeld, Owed, Live, EventHeld, Working, NoCandidate, CandidateHeld, ReactorTypes, Idle,
      Fatal, CommitModeset, shared, worker
<1>9. CandidatePool'
  BY Zenon DEF RenderInv, Types, Protocol, Pools, Epochs, Sync, CandidatePool, Came, CameWell,
      NoCandidate, Idle, ReactorTypes, CandidateHeld, CommitModeset, shared, worker
<1>10. ActiveSync'
  BY Zenon DEF RenderInv, Types, Protocol, Pools, Epochs, Sync, ActiveSync, InStep, Live, Working,
      PromotionDone, Came, Flying, Commanded, Goal, Aim, OutHeld, Owed, EventHeld, NoCandidate,
      ReactorTypes, Fatal, CommitModeset, shared, worker
<1>11. CandidateSync'
  BY Zenon DEF RenderInv, Types, Protocol, Pools, Epochs, Sync, CandidateSync, InStep, Live, Working,
      Following, Promoting, Building, Came, CameWell, Flying, Commanded, Goal, Aim, NoCandidate,
      ReactorTypes, CommandHeld, Owed, CommitModeset, shared, worker
<1> QED BY Zenon, <1>1, <1>2, <1>3, <1>4, <1>5, <1>6, <1>7, <1>8, <1>9, <1>10, <1>11 DEF
    RenderInv, Types, Protocol, Pools, Epochs, Sync

-----------------------------------------------------------------------------
(* The reactor: controls *)

\* queue_render_control: while a candidate is under way, a cursor image or a damage invalidation.
LEMMA QueueKeeps ==
  ASSUME RenderInv, NEW c \in Controls, c.kind # "rebind", Queue(c), frame' \in {0, frame},
         c.kind \in {"cursor", "damage"} \/ cand.stage \in Idle,
         UNCHANGED <<own, cand, scan, held, registry, status, broken, cmds, events, reply, worker>>
  PROVE RenderInv'
<1>a. /\ LaneTypes'
      /\ lane'.epoch - Len(lane'.pending) = lane.epoch - Len(lane.pending)
      /\ handle' \in [busy : BOOLEAN, failure : {"none", "set", "reported"}]
      /\ handle'.busy = handle.busy /\ fatal' \in BOOLEAN /\ eventfd' \in BOOLEAN
      /\ fatal => fatal'
      /\ eventfd => eventfd'
      /\ handle'.failure = "set" => eventfd'
  BY Zenon, PushKeeps DEF Queue
<1>b. want \in Domain /\ active \in Domain /\ candidate \in Domain /\ lane.pending \in Seq(Controls)
  BY Zenon DEF RenderInv, Types, ReactorTypes, WorkerTypes, LaneTypes, LaneOK
<1>c. want' = Apply(want, c) /\ want' \in Domain /\ want'.effects = want.effects
  BY Zenon, <1>b, ApplyKeeps DEF Queue
<1>d. want'.cursor \in 1..2
  BY Zenon, <1>b, <1>c DEF RenderInv, Types, ReactorTypes, Domain, Apply, Controls, ControlKinds
<1>f. Goal' = Aim(Apply(want, c), cand.gen, cand.bo) BY Zenon, <1>c DEF Goal
<1>e. Flying \in Seq(Controls) /\ Flying' = Flying
  BY SMTT(60) DEF RenderInv, Types, SharedTypes, CommandOK, Flying, Commanded
<1>1. /\ WorkerTypes' /\ ReplyHeld' /\ GoneDomains' /\ ActivePool' /\ CandidatePool'
      /\ EffectsPublished' /\ BatchValid' /\ broken' \in {"no", "control"} /\ JobSync'
      /\ RendersAsSynchronous'
  <2>1. WorkerTypes' BY Zenon DEF RenderInv, Types, WorkerTypes, worker
  <2>2. ReplyHeld' BY Zenon DEF RenderInv, Protocol, ReplyHeld, Live, Working, worker
  <2>3. GoneDomains' BY Zenon DEF RenderInv, Pools, GoneDomains, worker
  <2>4. ActivePool' BY Zenon DEF RenderInv, Pools, ActivePool, PromotionDone, Came, worker
  <2>5. CandidatePool' BY Zenon DEF RenderInv, Pools, CandidatePool, Came, CameWell, worker
  <2>6. EffectsPublished' BY Zenon DEF RenderInv, Pools, EffectsPublished, CameWell, worker
  <2>7. BatchValid' BY Zenon DEF RenderInv, Epochs, BatchValid, Live, Commanded, Valid, worker
  <2>8. broken' \in {"no", "control"} BY Zenon DEF RenderInv, Epochs, worker
  <2>9. JobSync' BY Zenon DEF RenderInv, Sync, JobSync, Working, Commanded, worker
  <2>10. RendersAsSynchronous' BY Zenon DEF RenderInv, Sync, RendersAsSynchronous, worker
  <2> QED BY Zenon, <2>1, <2>2, <2>3, <2>4, <2>5, <2>6, <2>7, <2>8, <2>9, <2>10
<1>2. ReactorTypes'
  BY <1>a, <1>c, <1>d DEF RenderInv, Types, Protocol, Pools, Epochs, Sync, ReactorTypes, worker
<1>3. SharedTypes'
  BY Zenon, <1>a DEF RenderInv, Types, Protocol, Pools, Epochs, Sync, SharedTypes, worker
<1>4. LaneTypes'
  BY Zenon, <1>a
<1>5. CommandHeld'
  BY Zenon, <1>a DEF RenderInv, Types, Protocol, Pools, Epochs, Sync, CommandHeld, Owed, Commanded,
      Working, Live, worker
<1>6. OutHeld'
  BY Zenon, <1>a DEF RenderInv, Types, Protocol, Pools, Epochs, Sync, OutHeld, Owed, Live, worker
<1>7. EventHeld'
  BY Zenon, <1>a DEF RenderInv, Types, Protocol, Pools, Epochs, Sync, EventHeld, Owed, Working, Live,
      worker
<1>8. Ended'
  BY Zenon, <1>a DEF RenderInv, Types, Protocol, Pools, Epochs, Sync, Ended, Working, worker
<1>9. ReactorIdle'
  BY Zenon, <1>a DEF RenderInv, Types, Protocol, Pools, Epochs, Sync, ReactorIdle, Live, worker
<1>10. CandidateHeld'
  BY Zenon DEF RenderInv, Types, Protocol, Pools, Epochs, Sync, CandidateHeld, ReactorTypes, worker
<1>11. EpochsContiguous'
  <2>1. UNCHANGED <<broken, status, applied, cmds>> /\ InFlight' = InFlight BY Zenon DEF InFlight, worker
  <2> QED BY Zenon, <2>1, <1>a, PushEpochs
<1>12. WakeInv'
  BY Zenon, <1>a DEF RenderInv, Types, Protocol, Pools, Epochs, Sync, WakeInv, Live, worker
<1>13. ActiveSync'
  <2> SUFFICES ASSUME InStep'
                PROVE Same(All(All(active, Flying), lane.pending),
                           IF PromotionDone THEN Goal ELSE want)'
    BY Zenon DEF ActiveSync
  <2>1. InStep /\ ~lane'.overflow
    BY Zenon, PushKept DEF InStep, Live, Working, worker, Queue
  <2> DEFINE d == All(active, Flying)
             x == All(d, lane.pending)
  <2>2. d \in Domain BY Zenon, <1>b, <1>e, AllKeeps
  <2>3. (All(All(active, Flying), lane.pending))' = Apply(x, c) /\ x \in Domain
    <3>1. active' = active BY Zenon DEF worker
    <3>2. All(d, lane'.pending) = Apply(x, c) BY Zenon, <2>1, <2>2, PushApplies DEF Queue
    <3>3. x \in Domain BY Zenon, <2>2, <1>b, AllKeeps
    <3> QED BY Zenon, <3>1, <3>2, <3>3, <1>e
  <2>4. Same(x, IF PromotionDone THEN Goal ELSE want)
    BY Zenon, <2>1 DEF RenderInv, Sync, ActiveSync
  <2> HIDE DEF d, x
  <2>5. CASE PromotionDone
    <3>1. PromotionDone' BY ZenonT(60), <2>5 DEF PromotionDone, Came, worker
    <3>2. Coalescible(c)
      BY <2>5 DEF Coalescible, RenderInv, Protocol, OutHeld, EventHeld, Owed, PromotionDone,
          Came, Idle, Fatal
    <3>3. Same(Apply(x, c), Aim(Apply(want, c), cand.gen, cand.bo))
      <4>1. Same(x, Aim(want, cand.gen, cand.bo)) BY Zenon, <2>4, <2>5 DEF Goal
      <4> QED BY Zenon, <4>1, <2>3, <3>2, <1>b, ApplyGoal
    <3> QED BY Zenon, <2>3, <3>1, <3>3, <1>f
  <2>6. CASE ~PromotionDone
    <3>1. ~PromotionDone' BY Zenon, <2>6 DEF PromotionDone, Came, worker
    <3>2. Same(Apply(x, c), Apply(want, c)) BY Zenon, <2>3, <2>4, <2>6, <1>b, ApplySame
    <3> QED BY Zenon, <2>3, <3>1, <3>2, <1>c
  <2> QED BY Zenon, <2>5, <2>6
<1>14. CandidateSync'
  <2> SUFFICES ASSUME InStep' PROVE CandidateSync' BY Zenon DEF CandidateSync
  <2>1. InStep /\ ~lane'.overflow
    BY PushKept DEF InStep, Live, Working, worker, Queue
  <2>2. /\ candidate' = candidate /\ cmds' = cmds /\ Following' = Following
        /\ Promoting' = Promoting /\ Building' = Building
    BY Zenon DEF Following, Promoting, Building, Came, CameWell, Commanded, worker
  <2>3. /\ Building => cand.stage = "Preparing" /\ cmds[1].bo = cand.bo
        /\ Following \/ Promoting \/ Building => cand.stage \notin Idle
    BY Zenon, <2>1 DEF InStep, RenderInv, Protocol, CommandHeld, Owed, Following, Promoting, Building, Idle
  <2>4. Following \/ Promoting \/ Building =>
          cand.bo # 0 /\ Coalescible(c) /\ c.kind \in Mirrored
    BY <2>3 DEF Mirrored, Coalescible, RenderInv, Types, ReactorTypes, Pools, CandidateHeld
  <2>5. CandidateSync BY Zenon DEF RenderInv, Sync
  <2>6. AllMirror(candidate, Flying) \in Domain /\ AllMirror(candidate, Flying).bo = candidate.bo
    BY Zenon, <1>b, <1>e, AllKeeps
  <2>7. ASSUME NEW d \in Domain, d.bo # 0, Coalescible(c), c.kind \in Mirrored,
               Same(AllMirror(d, lane.pending), Goal)
        PROVE Same(AllMirror(d, lane'.pending), Goal')
    <3>1. /\ AllMirror(d, lane'.pending) = Apply(AllMirror(d, lane.pending), c)
          /\ AllMirror(d, lane.pending) \in Domain
      BY Zenon, <2>1, <2>7, <1>b, PushApplies, AllKeeps DEF Queue
    <3>2. Same(AllMirror(d, lane.pending), Aim(want, cand.gen, cand.bo)) BY Zenon, <2>7 DEF Goal
    <3>3. Same(Apply(AllMirror(d, lane.pending), c), Aim(Apply(want, c), cand.gen, cand.bo))
      BY Zenon, <3>1, <3>2, <2>7, <1>b, ApplyGoal
    <3> QED BY Zenon, <3>1, <3>3, <1>f
  <2>8. ASSUME Following PROVE Same(AllMirror(AllMirror(candidate, Flying), lane'.pending), Goal')
    <3>1. candidate.bo # 0
      BY Zenon, <2>1, <2>4, <2>8 DEF InStep, Working, Following, RenderInv, Pools, CandidatePool
    <3>2. Same(AllMirror(AllMirror(candidate, Flying), lane.pending), Goal)
      BY Zenon, <2>1, <2>5, <2>8 DEF CandidateSync
    <3> QED BY Zenon, <3>1, <3>2, <2>4, <2>6, <2>7, <2>8
  <2>9. ASSUME Promoting PROVE Same(All(AllMirror(candidate, Flying), lane'.pending), Goal')
    <3> DEFINE d == AllMirror(candidate, Flying)
    <3>1. All(d, lane'.pending) = Apply(All(d, lane.pending), c) /\ All(d, lane.pending) \in Domain
      BY Zenon, <2>1, <2>6, <1>b, PushApplies, AllKeeps DEF Queue
    <3>2. Same(All(d, lane.pending), Aim(want, cand.gen, cand.bo))
      BY Zenon, <2>1, <2>5, <2>9 DEF CandidateSync, Goal
    <3>3. Same(Apply(All(d, lane.pending), c), Aim(Apply(want, c), cand.gen, cand.bo))
      BY Zenon, <3>1, <3>2, <2>4, <2>9, <1>b, ApplyGoal
    <3> QED BY Zenon, <3>1, <3>3, <1>f
  <2>10. ASSUME Building PROVE Same(AllMirror(Built(cmds[1]), lane'.pending), Goal')
    <3>1. Same(AllMirror(Built(cmds[1]), lane.pending), Goal)
      BY Zenon, <2>1, <2>5, <2>10 DEF CandidateSync
    <3>2. Built(cmds[1]) \in Domain
      BY <2>10, RenderAssumption
      DEF Building, RenderInv, Types, SharedTypes, CommandOK, JobKinds, Commanded, Built, Domain
    <3>3. Built(cmds[1]).bo # 0 BY Zenon, <2>3, <2>4, <2>10 DEF Built
    <3> QED BY Zenon, <3>1, <3>2, <3>3, <2>4, <2>7, <2>10
  <2> QED BY Zenon, <2>2, <2>8, <2>9, <2>10, <1>e DEF CandidateSync
<1> QED BY Zenon, <1>1, <1>2, <1>3, <1>4, <1>5, <1>6, <1>7, <1>8, <1>9, <1>10, <1>11, <1>12,
    <1>13, <1>14 DEF RenderInv, Types, Protocol, Pools, Epochs, Sync
=============================================================================
