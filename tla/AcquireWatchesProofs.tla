----------------------- MODULE AcquireWatchesProofs ------------------------
(***************************************************************************)
(* The acquire registry and the runtime around the transaction queue, for  *)
(* any number of epochs and of failing calls.  First, that they implement  *)
(* the environment the queue assumes; then, that every acquire that is     *)
(* waited for has one owner.                                               *)
(*                                                                         *)
(* WatchInv is the invariant of the queue together with OwnersInv, which   *)
(* allows an owner more than a queued transaction needs (a request that is *)
(* being cancelled), and what the modes of the session rule out: ModeInv,  *)
(* EpochInv and ReachInv.                                                  *)
(***************************************************************************)
EXTENDS AcquireWatches, SurfaceTransactionsProofs

-----------------------------------------------------------------------------
(* The runtime implements what the queue expects *)

\* Only the acquires that are waited for matter to a delivery.
LEMMA MarkedWaiting ==
  ASSUME NEW S
  PROVE Marked(S) = Marked(S \cap AllWaiting)
<1>1. ASSUME NEW r \in Roots, NEW i \in DOMAIN pending[r]
      PROVE [pending[r][i] EXCEPT !.deps = @ \ S] = [pending[r][i] EXCEPT !.deps = @ \ (S \cap AllWaiting)]
  <2>3. pending[r][i] \in Range(pending[r]) BY Zenon, <1>1 DEF Range
  <2>4. pending[r][i].deps \subseteq Waiting(pending[r]) BY Zenon, <2>3 DEF Waiting
  <2>1. pending[r][i].deps \subseteq AllWaiting BY Zenon, <1>1, <2>4 DEF AllWaiting
  <2>2. pending[r][i].deps \ S = pending[r][i].deps \ (S \cap AllWaiting) BY Zenon, <2>1
  <2> QED BY Zenon, <2>2
<1> QED BY Zenon, <1>1 DEF Marked

\* Marking signalled acquires ready is what the queue expects.
LEMMA MarkDelivers ==
  ASSUME NEW S, S \subseteq signaled, pending' = Marked(S),
         \/ registers' = {} /\ cancels' = {}
         \/ registers' = registers /\ cancels' = cancels,
         latest' = latest /\ shown' = shown /\ out' = out /\ freed' = freed /\ barrier' = barrier
         /\ life' = life /\ exhausted' = exhausted /\ signaled' = signaled /\ next' = next
  PROVE Deliver
<1>1. S \cap AllWaiting \in SUBSET (AllWaiting \cap signaled) BY Zenon
<1>2. pending' = Marked(S \cap AllWaiting) BY Zenon, MarkedWaiting
<1>3. \E ready \in SUBSET (AllWaiting \cap signaled) : pending' = Marked(ready) BY Zenon, <1>1, <1>2
<1> QED BY Zenon, <1>3 DEF Deliver

\* treeRest is unchanged: the queue sees at most "pending" change.
LEMMA RestKept ==
  ASSUME UNCHANGED treeRest
  PROVE /\ latest' = latest /\ shown' = shown /\ out' = out /\ freed' = freed /\ barrier' = barrier
        /\ life' = life /\ exhausted' = exhausted /\ signaled' = signaled /\ next' = next
        /\ registers' = registers /\ cancels' = cancels
BY Zenon DEF treeRest

\* Rearming marks nothing ready but signalled acquires.
LEMMA RearmMarks ==
  ASSUME NEW par, NEW ws, NEW fs, NEW rp, NEW e, Rearm(par, ws, fs, rp, e)
  PROVE \/ pending' = pending
        \/ \E S : S \subseteq signaled /\ pending' = Marked(S)
<1>1. CASE RearmAll(par, ws, fs, rp, e)
  <2> DEFINE todo == IF par = {} THEN {} ELSE par \cup rp
  <2>1. pending' = Marked(todo \cap signaled) BY Zenon, <1>1 DEF RearmAll
  <2>2. todo \cap signaled \subseteq signaled BY Zenon
  <2> QED BY Zenon, <2>1, <2>2
<1>2. CASE RearmFails(par, ws, fs, rp, e) BY Zenon, <1>2 DEF RearmFails
<1> QED BY Zenon, <1>1, <1>2 DEF Rearm

\* The step of the runtime that leaves the tree alone but for what it marks.
LEMMA TransitionDelivers ==
  ASSUME UNCHANGED treeRest,
         \/ pending' = pending
         \/ \E S : S \subseteq signaled /\ pending' = Marked(S)
  PROVE Deliver \/ UNCHANGED queueVars
<1>1. CASE pending' = pending BY Zenon, <1>1, RestKept DEF queueVars, treeVars
<1>2. ASSUME NEW S, S \subseteq signaled, pending' = Marked(S) PROVE Deliver
  BY Zenon, <1>2, RestKept, MarkDelivers
<1> QED BY Zenon, <1>1, <1>2

\* Each step of the runtime is a step the queue expects.
LEMMA RuntimeDelivers ==
  ASSUME Next
  PROVE ServerStep \/ Signal \/ Deliver \/ UNCHANGED queueVars
<1>1. CASE (ServerStep \/ Signal) /\ Idle BY Zenon, <1>1
<1>2. CASE ServiceWatches
  <2> DEFINE due == {a \in DOMAIN watches \ cancels : a \in signaled}
             stale == {a \in due : watches[a] # epoch}
             S == FoundReady \cup (due \ stale)
  <2>1. pending' = Marked(S) /\ registers' = {} /\ cancels' = {} BY Zenon, <1>2 DEF ServiceWatches
  <2>2. latest' = latest /\ shown' = shown /\ out' = out /\ freed' = freed /\ barrier' = barrier
         /\ life' = life /\ exhausted' = exhausted /\ signaled' = signaled /\ next' = next
    BY Zenon, <1>2 DEF ServiceWatches
  <2>3. S \subseteq signaled BY Zenon DEF FoundReady
  <2> HIDE DEF S
  <2> QED BY Zenon, <2>1, <2>2, <2>3, MarkDelivers
<1>3. CASE Suspend
  <2>1. UNCHANGED treeRest BY Zenon, <1>3 DEF Suspend
  <2>2. pending' = pending \/ Rearm(Held, <<>>, {}, {}, epoch) BY Zenon, <1>3 DEF Suspend
  <2> QED BY Zenon, <2>1, <2>2, RearmMarks, TransitionDelivers
<1>4. CASE Resume
  <2>1. UNCHANGED treeRest BY Zenon, <1>4 DEF Resume
  <2>2. Rearm(runParked, watches, fallback, regParked, epoch + 1) BY Zenon, <1>4 DEF Resume, Rearm
  <2> QED BY Zenon, <2>1, <2>2, RearmMarks, TransitionDelivers
<1>5. ASSUME NEW parked \in BOOLEAN, NEW committed \in BOOLEAN, Reconfigure(parked, committed)
      PROVE Deliver \/ UNCHANGED queueVars
  <2>1. UNCHANGED treeRest BY Zenon, <1>5 DEF Reconfigure
  <2>2. \/ pending' = pending \/ Rearm(Held, <<>>, {}, {}, epoch)
        \/ Rearm(Held, <<>>, {}, {}, epoch + 1)
    BY Zenon, <1>5 DEF Reconfigure
  <2> QED BY Zenon, <2>1, <2>2, RearmMarks, TransitionDelivers
<1>6. CASE AdvanceParked
  <2>1. UNCHANGED treeRest BY Zenon, <1>6 DEF AdvanceParked
  <2>2. Rearm(runParked, watches, fallback, regParked, epoch) BY Zenon, <1>6 DEF AdvanceParked
  <2> QED BY Zenon, <2>1, <2>2, RearmMarks, TransitionDelivers
<1>7. CASE CompletePromotion
  <2>1. UNCHANGED treeRest BY Zenon, <1>7 DEF CompletePromotion
  <2>2. Rearm(runParked, watches, fallback, regParked, epoch + 1) BY Zenon, <1>7 DEF CompletePromotion
  <2> QED BY Zenon, <2>1, <2>2, RearmMarks, TransitionDelivers
<1> QED BY Zenon, <1>1, <1>2, <1>3, <1>4, <1>5, <1>6, <1>7 DEF Next

\* The registry and the runtime implement the environment that the queue of
\* transactions assumes: whatever is suspended, reconfigured or fails, the
\* queue only ever sees its change list taken and acquires reported ready
\* that have signalled.
THEOREM RuntimeImplementsQueue == Spec => ImplementsQueue
<1>1. Init => QueueInit BY Zenon DEF Init
<1>2. [Next]_vars => [QueueNext]_queueVars
  <2>1. ASSUME Next PROVE QueueNext \/ UNCHANGED queueVars BY Zenon, <2>1, RuntimeDelivers DEF QueueNext
  <2>2. UNCHANGED vars => UNCHANGED queueVars BY Zenon DEF vars
  <2> QED BY Zenon, <2>1, <2>2
<1> QED BY <1>1, <1>2, PTL DEF Spec, QueueSpec, ImplementsQueue


-----------------------------------------------------------------------------
(* One owner for every acquire *)

\* No acquire is in two of the four stores.
Stored(ws, fs, rp, rt) ==
    /\ \A a \in DOMAIN ws : a \notin fs /\ a \notin rp /\ a \notin rt
    /\ \A a \in fs : a \notin rp /\ a \notin rt
    /\ \A a \in rp : a \notin rt

In(ws, fs, rp, rt) == DOMAIN ws \cup fs \cup rp \cup rt

\* The stores hold acquires that were registered, once each, and every
\* acquire that is waited for is in one of them, in the change list, or lost
\* to a dropped completion.
OwnersInv ==
    /\ Stored(watches, fallback, regParked, runParked)
    /\ \A a \in Held : a \in Old(next) /\ a \notin registers
    /\ \A a : Awaits(pending, a) => a \in dropped \/ a \in registers \/ a \in Held

\* A promotion under way keeps the session active, and leaves room for the
\* epoch it publishes.
ModeInv ==
    /\ WatchTypeOK /\ worker \in BOOLEAN
    /\ recon # "idle" => session = "active" /\ epoch < MaxEpoch
    /\ session = "suspended" => epoch <= MaxEpoch

\* Without the render worker every watch is of the current epoch, and a
\* suspended registry has none.
EpochInv ==
    ~worker => /\ dropped = {}
               /\ \A a \in DOMAIN watches : watches[a] = epoch
               /\ session = "suspended" => DOMAIN watches = {}

\* Without the render worker and without failures nothing is parked while
\* the session is active, and every request is waited for or being cancelled.
ReachInv ==
    ~worker /\ faults = 0 =>
        /\ regParked = {}
        /\ session = "active" => runParked = {}
        /\ \A a \in Held : Awaits(pending, a) \/ a \in cancels

WatchInv == ClientInv /\ OwnersInv /\ ModeInv /\ EpochInv /\ ReachInv

\* Which acquires are watched, and with which epoch, once S is added.
LEMMA WatchIs ==
  ASSUME NEW f, NEW S, NEW e
  PROVE /\ DOMAIN Watch(f, S, e) = DOMAIN f \cup S
        /\ \A a : a \in DOMAIN Watch(f, S, e) <=> a \in DOMAIN f \/ a \in S
        /\ \A a \in DOMAIN Watch(f, S, e) :
              Watch(f, S, e)[a] = e \/ (a \in DOMAIN f /\ Watch(f, S, e)[a] = f[a])
<1>1. DOMAIN Watch(f, S, e) = DOMAIN f \cup S BY Zenon DEF Watch
<1>2. \A a : a \in DOMAIN Watch(f, S, e) <=> a \in DOMAIN f \/ a \in S BY Zenon, <1>1
<1>3. \A a \in DOMAIN f \cup S : Watch(f, S, e)[a] = IF a \in S THEN e ELSE f[a]
  BY Zenon DEF Watch
<1> QED BY Zenon, <1>1, <1>2, <1>3

\* Which acquires are watched once only S is kept.
LEMMA KeepIs ==
  ASSUME NEW f, NEW S
  PROVE /\ DOMAIN Keep(f, S) = DOMAIN f \cap S
        /\ \A a \in DOMAIN f \cap S : Keep(f, S)[a] = f[a]
BY Zenon DEF Keep

\* No acquire is watched by the empty function.
LEMMA EmptyIs == DOMAIN <<>> = {} /\ \A x : x \notin DOMAIN <<>>
OBVIOUS

\* The requests of the stores H are moved, but those of S, which are ready.
Moved(H, S, ws, e) ==
    /\ Stored(watches', fallback', regParked', runParked')
    /\ \A a \in Held' : a \in H /\ a \notin S
    /\ \A a \in H : a \in Held' \/ a \in S
    /\ \A a \in DOMAIN watches' : watches'[a] = e \/ (a \in DOMAIN ws /\ watches'[a] = ws[a])
    /\ S \subseteq signaled
    /\ (S = {} /\ pending' = pending) \/ pending' = Marked(S)

\* There are requests that are ready such that the others are moved.
Moves(H, ws, e) == \E S : Moved(H, S, ws, e)

\* rearm_parked_requests registers the parked requests, or a failure leaves
\* each of them in one store.
LEMMA RearmMoves ==
  ASSUME NEW par, NEW ws, NEW fs, NEW rp, NEW e, Stored(ws, fs, rp, par), Rearm(par, ws, fs, rp, e)
  PROVE /\ Moves(In(ws, fs, rp, par), ws, e)
        /\ \/ faults' = faults /\ runParked' = {} /\ (rp = {} => regParked' = {})
           \/ faults < MaxFaults /\ faults' = faults + 1
<1> DEFINE H == In(ws, fs, rp, par)
<1>1. \A a : a \in H <=> a \in DOMAIN ws \/ a \in fs \/ a \in rp \/ a \in par BY Zenon DEF In
<1>2. \A a : a \in Held' <=> a \in DOMAIN watches' \/ a \in fallback' \/ a \in regParked' \/ a \in runParked'
  BY Zenon DEF Held
<1>3. \A a : a \in DOMAIN ws => a \notin fs /\ a \notin rp /\ a \notin par BY Zenon DEF Stored
<1>4. \A a : a \in fs => a \notin rp /\ a \notin par BY Zenon DEF Stored
<1>5. \A a : a \in rp => a \notin par BY Zenon DEF Stored
<1> HIDE DEF H
<1>6. CASE RearmAll(par, ws, fs, rp, e)
  <2> DEFINE todo == IF par = {} THEN {} ELSE par \cup rp
             S == todo \cap signaled
  <2>1. PICK polled \in SUBSET (todo \ signaled) :
          /\ watches' = Watch(ws, todo \ (signaled \cup polled), e)
          /\ fallback' = fs \cup polled
    BY Zenon, <1>6 DEF RearmAll
  <2>2. /\ regParked' = rp \ todo /\ runParked' = {}
        /\ pending' = Marked(S)
        /\ faults' = faults
    BY Zenon, <1>6 DEF RearmAll
  <2>3. \A a : a \in todo => a \in par \/ a \in rp BY Zenon
  <2>4. \A a : a \in par => a \in todo BY Zenon
  <2>5. \A a : a \in polled => a \in todo /\ a \notin signaled BY Zenon
  <2> HIDE DEF todo
  <2>6. DOMAIN watches' = DOMAIN ws \cup (todo \ (signaled \cup polled)) BY Zenon, <2>1, WatchIs
  <2>7. \A a : a \in DOMAIN watches' <=> a \in DOMAIN ws \/ (a \in todo /\ a \notin signaled /\ a \notin polled)
    BY Zenon, <2>6
  <2>8. \A a : a \in fallback' <=> a \in fs \/ a \in polled BY Zenon, <2>1
  <2>9. \A a : (a \in regParked' <=> a \in rp /\ a \notin todo) /\ a \notin runParked' BY Zenon, <2>2
  <2>10. \A a \in DOMAIN watches' : watches'[a] = e \/ (a \in DOMAIN ws /\ watches'[a] = ws[a])
    <3> DEFINE armed == todo \ (signaled \cup polled)
    <3>1. watches' = Watch(ws, armed, e) BY Zenon, <2>1
    <3> HIDE DEF armed
    <3> TAKE a \in DOMAIN watches'
    <3>2. a \in DOMAIN ws \cup armed BY Zenon, <3>1, WatchIs
    <3>3. watches'[a] = Watch(ws, armed, e)[a] BY Zenon, <3>1
    <3>4. Watch(ws, armed, e)[a] = IF a \in armed THEN e ELSE ws[a] BY Zenon, <3>2 DEF Watch
    <3> QED BY Zenon, <3>2, <3>3, <3>4
  <2>11. Stored(watches', fallback', regParked', runParked')
    BY Zenon, <2>3, <2>5, <2>7, <2>8, <2>9, <1>3, <1>4, <1>5 DEF Stored
  <2>12. \A a \in Held' : a \in H /\ a \notin S
    <3> SUFFICES ASSUME NEW a \in Held' PROVE a \in H /\ (a \notin todo \/ a \notin signaled) BY Zenon
    <3>1. a \in DOMAIN watches' \/ a \in fallback' \/ a \in regParked' BY Zenon, <1>2, <2>9
    <3> QED BY Zenon, <3>1, <2>3, <2>5, <2>7, <2>8, <2>9, <1>1, <1>3, <1>4, <1>5
  <2>13. \A a \in H : a \in Held' \/ a \in S
    BY Zenon, <1>1, <1>2, <2>4, <2>7, <2>8, <2>9
  <2>14. S \subseteq signaled BY Zenon
  <2>15. rp = {} => regParked' = {} BY Zenon, <2>9
  <2> HIDE DEF S
  <2>16. Moved(H, S, ws, e) BY Zenon, <2>2, <2>10, <2>11, <2>12, <2>13, <2>14 DEF Moved
  <2> QED BY Zenon, <2>2, <2>15, <2>16 DEF Moves, H
<1>7. CASE RearmFails(par, ws, fs, rp, e)
  <2> DEFINE todo == par \cup rp
             no == {}
  <2>1. pending' = pending /\ faults' = faults + 1 /\ faults < MaxFaults BY Zenon, <1>7 DEF RearmFails
  <2>2. no \subseteq signaled /\ (no = {} /\ pending' = pending) /\ \A a : a \notin no BY Zenon, <2>1
  <2>3. CASE /\ watches' = <<>> /\ fallback' = {} /\ regParked' = {}
             /\ runParked' = Restored(ws, fs, todo)
    <3>1. \A a : a \notin DOMAIN watches' BY Zenon, <2>3, EmptyIs
    <3>2. \A a : a \notin fallback' /\ a \notin regParked' BY Zenon, <2>3
    <3>3. \A a : a \in runParked' <=> a \in DOMAIN ws \/ a \in fs \/ a \in par \/ a \in rp
      BY Zenon, <2>3 DEF Restored
    <3>4. Stored(watches', fallback', regParked', runParked') BY Zenon, <3>1, <3>2 DEF Stored
    <3>5. \A a : a \in Held' <=> a \in H BY Zenon, <3>1, <3>2, <3>3, <1>1, <1>2
    <3>6. \A a \in DOMAIN watches' : watches'[a] = e \/ (a \in DOMAIN ws /\ watches'[a] = ws[a]) BY Zenon, <3>1
    <3> HIDE DEF no
    <3>7. Moved(H, no, ws, e) BY Zenon, <2>2, <3>4, <3>5, <3>6 DEF Moved
    <3> QED BY Zenon, <2>1, <3>7 DEF Moves, H
  <2>4. ASSUME NEW done \in SUBSET (todo \ signaled), NEW removed \in SUBSET DOMAIN Watch(ws, done, e),
               /\ watches' = Keep(Watch(ws, done, e), DOMAIN Watch(ws, done, e) \ removed)
               /\ fallback' = fs
               /\ regParked' = removed
               /\ runParked' = todo \ done
        PROVE Moves(H, ws, e)
    <3> DEFINE all == Watch(ws, done, e)
    <3>1. \A a : a \in DOMAIN all <=> a \in DOMAIN ws \/ a \in done BY Zenon, WatchIs
    <3>2. \A a \in DOMAIN all : all[a] = e \/ (a \in DOMAIN ws /\ all[a] = ws[a]) BY Zenon, WatchIs
    <3>3. watches' = Keep(all, DOMAIN all \ removed) BY Zenon, <2>4
    <3> HIDE DEF all
    <3>4. DOMAIN watches' = DOMAIN all \cap (DOMAIN all \ removed) BY Zenon, <3>3, KeepIs
    <3>5. \A a : a \in DOMAIN watches' <=> a \in DOMAIN all /\ a \notin removed BY Zenon, <3>4
    <3>6. \A a \in DOMAIN watches' : watches'[a] = all[a] BY Zenon, <3>3, <3>4, KeepIs
    <3>7. \A a : a \in done => a \in par \/ a \in rp BY Zenon
    <3>8. \A a : a \in removed => a \in DOMAIN all BY Zenon DEF all
    <3>9. \A a : /\ a \in fallback' <=> a \in fs
                 /\ a \in regParked' <=> a \in removed
                 /\ a \in runParked' <=> (a \in par \/ a \in rp) /\ a \notin done
      BY Zenon, <2>4
    <3>10. Stored(watches', fallback', regParked', runParked')
      BY Zenon, <3>1, <3>5, <3>7, <3>8, <3>9, <1>3, <1>4, <1>5 DEF Stored
    <3>11. \A a : a \in Held' <=> a \in H BY Zenon, <3>1, <3>5, <3>7, <3>8, <3>9, <1>1, <1>2
    <3>12. \A a \in DOMAIN watches' : watches'[a] = e \/ (a \in DOMAIN ws /\ watches'[a] = ws[a])
      BY Zenon, <3>2, <3>5, <3>6
    <3> HIDE DEF no
    <3>13. Moved(H, no, ws, e) BY Zenon, <2>2, <3>10, <3>11, <3>12 DEF Moved
    <3> QED BY Zenon, <3>13 DEF Moves
  <2>5. \/ /\ watches' = <<>> /\ fallback' = {} /\ regParked' = {}
           /\ runParked' = Restored(ws, fs, todo)
        \/ \E done \in SUBSET (todo \ signaled) : \E removed \in SUBSET DOMAIN Watch(ws, done, e) :
               /\ watches' = Keep(Watch(ws, done, e), DOMAIN Watch(ws, done, e) \ removed)
               /\ fallback' = fs
               /\ regParked' = removed
               /\ runParked' = todo \ done
    BY Zenon, <1>7 DEF RearmFails
  <2> HIDE DEF todo
  <2> QED BY Zenon, <2>1, <2>3, <2>4, <2>5 DEF H
<1> QED BY Zenon, <1>6, <1>7 DEF Rearm


\* What an acquire that is waited for, and a request, become when the
\* acquires S are marked ready.
LEMMA MarkedAwaits ==
  ASSUME ClientInv, NEW S, (S = {} /\ pending' = pending) \/ pending' = Marked(S)
  PROVE \A a : Awaits(pending', a) <=> Awaits(pending, a) /\ a \notin S
<1>1. pending \in Queues BY Zenon, InvParts
<1>2. CASE S = {} /\ pending' = pending BY Zenon, <1>2
<1>3. CASE pending' = Marked(S)
  <2>1. /\ \A r \in Roots : Len(pending'[r]) = Len(pending[r])
        /\ \A r \in Roots : \A i \in 1..Len(pending[r]) : pending'[r][i].deps = pending[r][i].deps \ S
    BY <1>1, <1>3, MarkedEntries
  <2> QED BY <2>1 DEF Awaits
<1> QED BY Zenon, <1>2, <1>3

\* A transition that moves the requests keeps their owners.
LEMMA MoveKeeps ==
  ASSUME WatchInv, UNCHANGED treeRest, dropped' = dropped, NEW ws, NEW e, Moves(Held, ws, e)
  PROVE /\ OwnersInv'
        /\ fallback' \cup regParked' \cup runParked' \cup dropped' \subseteq Acquires
        /\ DOMAIN watches' \subseteq Acquires
        /\ \A a \in DOMAIN watches' : watches'[a] = e \/ (a \in DOMAIN ws /\ watches'[a] = ws[a])
        /\ (\A a \in Held : Awaits(pending, a) \/ a \in cancels)
             => (\A a \in Held' : Awaits(pending', a) \/ a \in cancels')
<1>1. PICK S : Moved(Held, S, ws, e) BY Zenon DEF Moves
<1>2. ClientInv /\ OwnersInv /\ WatchTypeOK BY Zenon DEF WatchInv, ModeInv
<1>3. \A a : Awaits(pending', a) <=> Awaits(pending, a) /\ a \notin S
  BY Zenon, <1>1, <1>2, MarkedAwaits DEF Moved
<1>4. registers' = registers /\ cancels' = cancels /\ next' = next BY Zenon, RestKept
<1>5. \A a \in Held' : a \in Held /\ a \notin S BY Zenon, <1>1 DEF Moved
<1>6. \A a \in Held : a \in Held' \/ a \in S BY Zenon, <1>1 DEF Moved
<1>7. \A a \in Held : a \in Old(next) /\ a \notin registers BY Zenon, <1>2 DEF OwnersInv
<1>8. \A a : Awaits(pending, a) => a \in dropped \/ a \in registers \/ a \in Held BY Zenon, <1>2 DEF OwnersInv
<1>9. \A a \in Held' : a \in Old(next') /\ a \notin registers' BY Zenon, <1>4, <1>5, <1>7
<1>10. \A a : Awaits(pending', a) => a \in dropped' \/ a \in registers' \/ a \in Held'
  BY Zenon, <1>3, <1>4, <1>6, <1>8
<1>11. Stored(watches', fallback', regParked', runParked') BY Zenon, <1>1 DEF Moved
<1>12. OwnersInv' BY Zenon, <1>9, <1>10, <1>11 DEF OwnersInv
<1>13. \A a \in Held' : a \in Acquires BY Zenon, <1>5, <1>7 DEF Old
<1>14. /\ fallback' \cup regParked' \cup runParked' \subseteq Acquires
       /\ DOMAIN watches' \subseteq Acquires
  BY Zenon, <1>13 DEF Held
<1>15. dropped' \subseteq Acquires BY Zenon, <1>2 DEF WatchTypeOK
<1>16. \A a \in DOMAIN watches' : watches'[a] = e \/ (a \in DOMAIN ws /\ watches'[a] = ws[a])
  BY Zenon, <1>1 DEF Moved
<1>17. (\A a \in Held : Awaits(pending, a) \/ a \in cancels)
             => (\A a \in Held' : Awaits(pending', a) \/ a \in cancels')
  BY Zenon, <1>3, <1>4, <1>5
<1> QED BY Zenon, <1>12, <1>14, <1>15, <1>16, <1>17

\* What the modes are.
LEMMA ModeParts ==
  ASSUME WatchInv
  PROVE /\ epoch \in Nat /\ 1 <= epoch /\ epoch <= MaxEpoch + 1 /\ MaxEpoch \in Nat
        /\ faults \in Nat /\ faults <= MaxFaults /\ MaxFaults \in Nat
        /\ session \in {"active", "suspended"} /\ recon \in {"idle", "queued", "promoted"}
        /\ recon # "idle" => worker
        /\ recon # "idle" => session = "active" /\ epoch < MaxEpoch
        /\ session = "suspended" => epoch <= MaxEpoch
        /\ worker \in BOOLEAN
        /\ \A a \in DOMAIN watches : watches[a] \in 1..epoch
<1>1. ModeInv /\ WatchTypeOK BY Zenon DEF WatchInv, ModeInv
<1>2. /\ epoch \in 1..MaxEpoch + 1 /\ faults \in 0..MaxFaults
      /\ session \in {"active", "suspended"} /\ recon \in {"idle", "queued", "promoted"}
      /\ recon # "idle" => worker
      /\ \A a \in DOMAIN watches : watches[a] \in 1..epoch
  BY Zenon, <1>1 DEF WatchTypeOK
<1>3. MaxEpoch \in Nat /\ MaxFaults \in Nat BY Zenon, WatchAssumption
<1>4. /\ epoch \in Nat /\ 1 <= epoch /\ epoch <= MaxEpoch + 1
      /\ faults \in Nat /\ faults <= MaxFaults
  BY <1>2, <1>3
<1> QED BY Zenon, <1>1, <1>2, <1>3, <1>4 DEF ModeInv

\* The stores as one set of parked requests.
LEMMA HeldStored ==
  /\ Stored(<<>>, {}, {}, Held) /\ In(<<>>, {}, {}, Held) = Held
  /\ In(watches, fallback, regParked, runParked) = Held
<1>1. Stored(<<>>, {}, {}, Held) BY Zenon, EmptyIs DEF Stored
<1>2. In(<<>>, {}, {}, Held) = Held BY Zenon, EmptyIs DEF In
<1> QED BY Zenon, <1>1, <1>2 DEF In, Held

\* All requests are parked with the runtime.
LEMMA ParkMoves ==
  ASSUME watches' = <<>>, fallback' = {}, regParked' = {}, runParked' = Held, pending' = pending
  PROVE Moves(Held, <<>>, epoch) /\ \A a : a \notin DOMAIN watches'
<1> DEFINE no == {}
<1>1. \A a : a \notin DOMAIN watches' /\ a \notin fallback' /\ a \notin regParked' BY Zenon, EmptyIs
<1>2. \A a : a \in Held' <=> a \in Held BY Zenon, <1>1 DEF Held
<1>3. Stored(watches', fallback', regParked', runParked') BY Zenon, <1>1 DEF Stored
<1>4. no \subseteq signaled /\ no = {} /\ \A a : a \notin no BY Zenon
<1> HIDE DEF no
<1>5. Moved(Held, no, <<>>, epoch) BY Zenon, <1>1, <1>2, <1>3, <1>4 DEF Moved
<1> QED BY Zenon, <1>1, <1>5 DEF Moves


\* Every step of the composition is a step of the queue or leaves it alone.
LEMMA NextClient == ASSUME ClientInv, Next PROVE ClientInv'
<1>1. ASSUME UNCHANGED queueVars PROVE ClientInv'
  BY Zenon, <1>1 DEF queueVars, treeVars, ClientInv
<1> QED BY Zenon, <1>1, RuntimeDelivers, ServerKeeps, SignalKeeps, DeliverKeeps

\* A transition that moves the requests, and what it has to show of the modes.
LEMMA MoveInv ==
  ASSUME WatchInv, Next, UNCHANGED treeRest, dropped' = dropped, worker' = worker,
         NEW ws, NEW e, Moves(Held, ws, e),
         \A a \in DOMAIN ws : a \in DOMAIN watches /\ ws[a] = watches[a],
         epoch' = epoch \/ epoch' = epoch + 1, e = epoch \/ e = epoch', epoch' <= MaxEpoch + 1,
         session' \in {"active", "suspended"}, recon' \in {"idle", "queued", "promoted"},
         recon' # "idle" => worker /\ session' = "active" /\ epoch' < MaxEpoch,
         session' = "suspended" => epoch' <= MaxEpoch,
         faults' = faults \/ (faults < MaxFaults /\ faults' = faults + 1),
         ~worker => /\ \A a \in DOMAIN watches' : watches'[a] = epoch'
                    /\ session' = "suspended" => DOMAIN watches' = {},
         faults' = faults /\ ~worker /\ faults = 0 =>
             regParked' = {} /\ (session' = "active" => runParked' = {})
  PROVE WatchInv'
<1>1. ClientInv' BY Zenon, NextClient DEF WatchInv
<1>2. /\ OwnersInv'
      /\ fallback' \cup regParked' \cup runParked' \cup dropped' \subseteq Acquires
      /\ DOMAIN watches' \subseteq Acquires
      /\ \A a \in DOMAIN watches' : watches'[a] = e \/ (a \in DOMAIN ws /\ watches'[a] = ws[a])
      /\ (\A a \in Held : Awaits(pending, a) \/ a \in cancels)
           => (\A a \in Held' : Awaits(pending', a) \/ a \in cancels')
  BY Zenon, MoveKeeps
<1>3. /\ epoch \in Nat /\ 1 <= epoch /\ MaxEpoch \in Nat
      /\ faults \in Nat /\ faults <= MaxFaults /\ MaxFaults \in Nat
      /\ worker \in BOOLEAN
      /\ \A a \in DOMAIN watches : watches[a] \in 1..epoch
  BY Zenon, ModeParts
<1>4. epoch' \in 1..MaxEpoch + 1 BY <1>3
<1>5. faults' \in 0..MaxFaults BY <1>3
<1>6. \A a \in DOMAIN watches' : watches'[a] \in 1..epoch'
  <2> TAKE a \in DOMAIN watches'
  <2>1. e \in 1..epoch' BY <1>3
  <2>2. CASE watches'[a] = e BY Zenon, <2>1, <2>2
  <2>3. CASE a \in DOMAIN ws /\ watches'[a] = ws[a]
    <3>1. watches'[a] \in 1..epoch BY Zenon, <2>3, <1>3
    <3> QED BY <3>1, <1>3
  <2> QED BY Zenon, <2>2, <2>3, <1>2
<1>7. WatchTypeOK' BY Zenon, <1>2, <1>4, <1>5, <1>6 DEF WatchTypeOK
<1>8. ModeInv' BY Zenon, <1>3, <1>7 DEF ModeInv
<1>9. ~worker => dropped = {} BY Zenon DEF WatchInv, EpochInv
<1>10. EpochInv' BY Zenon, <1>9 DEF EpochInv
<1>11. ReachInv'
  <2> SUFFICES ASSUME ~worker, faults' = 0
               PROVE /\ regParked' = {}
                     /\ session' = "active" => runParked' = {}
                     /\ \A a \in Held' : Awaits(pending', a) \/ a \in cancels'
    BY Zenon DEF ReachInv
  <2>1. faults' = faults /\ faults = 0 BY <1>3
  <2>2. \A a \in Held : Awaits(pending, a) \/ a \in cancels BY Zenon, <2>1 DEF WatchInv, ReachInv
  <2> QED BY Zenon, <2>1, <2>2, <1>2
<1> QED BY Zenon, <1>1, <1>2, <1>8, <1>10, <1>11 DEF WatchInv

\* A rearm of everything that is held.
LEMMA RearmHeld ==
  ASSUME NEW e, Rearm(Held, <<>>, {}, {}, e)
  PROVE /\ Moves(Held, <<>>, e)
        /\ \/ faults' = faults /\ runParked' = {} /\ regParked' = {}
           \/ faults < MaxFaults /\ faults' = faults + 1
        /\ \A a \in DOMAIN watches' : watches'[a] = e
<1> DEFINE no == {}
           ws == <<>>
<1>1. Stored(ws, no, no, Held) /\ In(ws, no, no, Held) = Held /\ Rearm(Held, ws, no, no, e)
  BY Zenon, HeldStored
<1>2. no = {} /\ \A x : x \notin DOMAIN ws BY Zenon, EmptyIs
<1> HIDE DEF no, ws
<1>3. /\ Moves(In(ws, no, no, Held), ws, e)
      /\ \/ faults' = faults /\ runParked' = {} /\ (no = {} => regParked' = {})
         \/ faults < MaxFaults /\ faults' = faults + 1
  BY Zenon, <1>1, RearmMoves
<1>4. Moves(Held, ws, e) BY Zenon, <1>1, <1>3
<1>5. \A a \in DOMAIN watches' : watches'[a] = e BY Zenon, <1>2, <1>4 DEF Moves, Moved
<1> QED BY Zenon, <1>2, <1>3, <1>4, <1>5 DEF ws

\* A rearm of what is parked, beside what is registered.
LEMMA RearmParked ==
  ASSUME WatchInv, NEW e, Rearm(runParked, watches, fallback, regParked, e)
  PROVE /\ Moves(Held, watches, e)
        /\ \/ faults' = faults /\ runParked' = {} /\ (regParked = {} => regParked' = {})
           \/ faults < MaxFaults /\ faults' = faults + 1
        /\ \A a \in DOMAIN watches' : watches'[a] = e \/ (a \in DOMAIN watches /\ watches'[a] = watches[a])
<1>1. Stored(watches, fallback, regParked, runParked) BY Zenon DEF WatchInv, OwnersInv
<1>2. /\ Moves(In(watches, fallback, regParked, runParked), watches, e)
      /\ \/ faults' = faults /\ runParked' = {} /\ (regParked = {} => regParked' = {})
         \/ faults < MaxFaults /\ faults' = faults + 1
  BY Zenon, <1>1, RearmMoves
<1>3. Moves(Held, watches, e) BY Zenon, <1>2, HeldStored
<1> QED BY Zenon, <1>2, <1>3 DEF Moves, Moved

\* A suspension preserves the invariant.
LEMMA SuspendKeeps == ASSUME WatchInv, Suspend PROVE WatchInv'
<1> DEFINE ws == <<>>
<1>1. Next /\ UNCHANGED treeRest /\ dropped' = dropped /\ worker' = worker /\ session = "active"
      /\ session' = "suspended" /\ epoch < MaxEpoch
  BY Zenon DEF Suspend, Next
<1>2. /\ epoch \in Nat /\ MaxEpoch \in Nat /\ (recon # "idle" => worker) BY Zenon, ModeParts
<1>3. \A a \in DOMAIN ws : a \in DOMAIN watches /\ ws[a] = watches[a] BY Zenon, EmptyIs
<1>4. epoch <= MaxEpoch + 1 /\ epoch <= MaxEpoch /\ epoch + 1 <= MaxEpoch + 1 /\ epoch + 1 <= MaxEpoch BY <1>1, <1>2
<1>5. CASE recon = "idle"
  <2>1. /\ watches' = <<>> /\ fallback' = {} /\ regParked' = {} /\ runParked' = Held /\ pending' = pending
        /\ epoch' = epoch /\ recon' = recon /\ faults' = faults
    BY Zenon, <1>5 DEF Suspend
  <2>2. Moves(Held, ws, epoch) /\ \A a : a \notin DOMAIN watches' BY Zenon, <2>1, ParkMoves
  <2>3. DOMAIN watches' = {} BY Zenon, <2>2
  <2>4. session' \in {"active", "suspended"} /\ session' # "active" BY <1>1
  <2>5. recon' \in {"idle", "queued", "promoted"} /\ recon' = "idle" BY Zenon, <2>1, <1>5
  <2> HIDE DEF ws
  <2> QED BY Zenon, <1>1, <1>3, <1>4, <2>1, <2>2, <2>3, <2>4, <2>5, MoveInv
<1>6. CASE recon # "idle"
  <2>1. Rearm(Held, <<>>, {}, {}, epoch) /\ epoch' = epoch + 1 /\ recon' = "idle"
    BY Zenon, <1>6 DEF Suspend
  <2>2. /\ Moves(Held, ws, epoch)
        /\ \/ faults' = faults
           \/ faults < MaxFaults /\ faults' = faults + 1
    BY Zenon, <2>1, RearmHeld
  <2>3. worker BY Zenon, <1>2, <1>6
  <2>4. session' \in {"active", "suspended"} BY Zenon, <1>1
  <2>5. recon' \in {"idle", "queued", "promoted"} BY Zenon, <2>1
  <2> HIDE DEF ws
  <2> QED BY Zenon, <1>1, <1>3, <1>4, <2>1, <2>2, <2>3, <2>4, <2>5, MoveInv
<1> QED BY Zenon, <1>5, <1>6

\* A resumption, with the rearming it does, preserves the invariant.
LEMMA ResumeKeeps == ASSUME WatchInv, Resume PROVE WatchInv'
<1>1. Next /\ UNCHANGED treeRest /\ dropped' = dropped /\ worker' = worker /\ recon' = recon
      /\ session = "suspended" /\ session' = "active" /\ epoch' = epoch + 1
      /\ RearmAll(runParked, watches, fallback, regParked, epoch + 1)
  BY Zenon DEF Resume, Next
<1>2. /\ epoch \in Nat /\ MaxEpoch \in Nat /\ epoch <= MaxEpoch
      /\ recon \in {"idle", "queued", "promoted"}
      /\ (recon # "idle" => session = "active")
  BY Zenon, <1>1, ModeParts
<1>3. recon' = "idle" /\ session' \in {"active", "suspended"} /\ session' # "suspended"
  <2>1. "suspended" # "active" OBVIOUS
  <2> QED BY Zenon, <1>1, <1>2, <2>1
<1>4. epoch' <= MaxEpoch + 1 BY <1>1, <1>2
<1>5. Rearm(runParked, watches, fallback, regParked, epoch') BY Zenon, <1>1 DEF Rearm
<1>6. /\ Moves(Held, watches, epoch')
      /\ \/ faults' = faults /\ runParked' = {} /\ (regParked = {} => regParked' = {})
         \/ faults < MaxFaults /\ faults' = faults + 1
      /\ \A a \in DOMAIN watches' : watches'[a] = epoch' \/ (a \in DOMAIN watches /\ watches'[a] = watches[a])
  BY Zenon, <1>5, RearmParked
<1>7. faults' = faults BY Zenon, <1>1 DEF RearmAll
<1>8. runParked' = {} BY Zenon, <1>1 DEF RearmAll
<1>9. regParked = {} => regParked' = {} BY Zenon, <1>1 DEF RearmAll
<1>10. ~worker => \A a \in DOMAIN watches' : watches'[a] = epoch'
  BY Zenon, <1>1, <1>6 DEF WatchInv, EpochInv
<1>11. ~worker /\ faults = 0 => regParked' = {} BY Zenon, <1>9 DEF WatchInv, ReachInv
<1>12. recon' \in {"idle", "queued", "promoted"} BY Zenon, <1>3
<1> QED BY Zenon, <1>1, <1>3, <1>4, <1>6, <1>7, <1>8, <1>10, <1>11, <1>12, MoveInv

\* The retry of parked acquires preserves the invariant.
LEMMA AdvanceKeeps == ASSUME WatchInv, AdvanceParked PROVE WatchInv'
<1>1. Next /\ UNCHANGED treeRest /\ dropped' = dropped /\ worker' = worker
      /\ session = "active" /\ session' = session /\ epoch' = epoch
      /\ Rearm(runParked, watches, fallback, regParked, epoch)
      /\ recon' = IF recon = "queued" THEN "promoted" ELSE recon
  BY Zenon DEF AdvanceParked, Next
<1>2. /\ epoch \in Nat /\ MaxEpoch \in Nat /\ epoch <= MaxEpoch + 1
      /\ recon \in {"idle", "queued", "promoted"}
      /\ (recon # "idle" => worker /\ epoch < MaxEpoch)
  BY Zenon, ModeParts
<1>3. recon' \in {"idle", "queued", "promoted"} /\ (recon' # "idle" => recon # "idle")
  <2>1. "queued" # "idle" OBVIOUS
  <2> QED BY Zenon, <1>1, <1>2, <2>1
<1>4. session' \in {"active", "suspended"} /\ session' = "active" /\ session' # "suspended"
  <2>1. "suspended" # "active" OBVIOUS
  <2> QED BY Zenon, <1>1, <2>1
<1>5. /\ Moves(Held, watches, epoch)
      /\ \/ faults' = faults /\ runParked' = {} /\ (regParked = {} => regParked' = {})
         \/ faults < MaxFaults /\ faults' = faults + 1
      /\ \A a \in DOMAIN watches' : watches'[a] = epoch \/ (a \in DOMAIN watches /\ watches'[a] = watches[a])
  BY Zenon, <1>1, RearmParked
<1>6. ~worker => \A a \in DOMAIN watches' : watches'[a] = epoch'
  BY Zenon, <1>1, <1>5 DEF WatchInv, EpochInv
<1>7. ~worker /\ faults = 0 => regParked = {} BY Zenon DEF WatchInv, ReachInv
<1>8. faults' = faults => runParked' = {} /\ (regParked = {} => regParked' = {})
  <2>1. faults \in Nat BY Zenon, ModeParts
  <2>2. faults + 1 # faults BY <2>1
  <2> QED BY Zenon, <1>5, <2>2
<1>9. faults' = faults \/ (faults < MaxFaults /\ faults' = faults + 1) BY Zenon, <1>5
<1> QED BY Zenon, <1>1, <1>2, <1>3, <1>4, <1>5, <1>6, <1>7, <1>8, <1>9, MoveInv

\* The completion of a promotion preserves the invariant.
LEMMA PromotionKeeps == ASSUME WatchInv, CompletePromotion PROVE WatchInv'
<1>1. Next /\ UNCHANGED treeRest /\ dropped' = dropped /\ worker' = worker
      /\ session = "active" /\ session' = session /\ epoch' = epoch + 1
      /\ Rearm(runParked, watches, fallback, regParked, epoch')
      /\ recon = "promoted" /\ recon' = "idle"
  BY Zenon DEF CompletePromotion, Next
<1>2. "promoted" # "idle" /\ "suspended" # "active" OBVIOUS
<1>3. /\ epoch \in Nat /\ MaxEpoch \in Nat /\ epoch < MaxEpoch /\ worker
  BY Zenon, <1>1, <1>2, ModeParts
<1>4. recon' \in {"idle", "queued", "promoted"} BY Zenon, <1>1
<1>5. session' \in {"active", "suspended"} /\ session' # "suspended" BY Zenon, <1>1, <1>2
<1>6. /\ Moves(Held, watches, epoch')
      /\ faults' = faults \/ (faults < MaxFaults /\ faults' = faults + 1)
  BY Zenon, <1>1, RearmParked
<1>7. epoch' <= MaxEpoch + 1 BY <1>1, <1>3
<1> QED BY Zenon, <1>1, <1>3, <1>4, <1>5, <1>6, <1>7, MoveInv


\* A reconfiguration, parked or not and committed or not, preserves the
\* invariant.
LEMMA ReconfigureKeeps ==
  ASSUME WatchInv, NEW parked \in BOOLEAN, NEW committed \in BOOLEAN, Reconfigure(parked, committed)
  PROVE WatchInv'
<1> DEFINE ws == <<>>
<1>1. Next /\ UNCHANGED treeRest /\ dropped' = dropped /\ worker' = worker
      /\ session = "active" /\ session' = session /\ recon = "idle" /\ epoch < MaxEpoch
  BY Zenon DEF Reconfigure, Next
<1>2. epoch \in Nat /\ MaxEpoch \in Nat /\ faults \in Nat BY Zenon, ModeParts
<1>3. session' \in {"active", "suspended"} /\ session' = "active" /\ session' # "suspended"
  <2>1. "suspended" # "active" OBVIOUS
  <2> QED BY Zenon, <1>1, <2>1
<1>4. epoch <= MaxEpoch + 1 /\ epoch + 1 <= MaxEpoch + 1 /\ faults # faults + 1 BY <1>1, <1>2
<1>5. \A a \in DOMAIN ws : a \in DOMAIN watches /\ ws[a] = watches[a] BY Zenon, EmptyIs
<1>6. recon \in {"idle", "queued", "promoted"} /\ "queued" \in {"idle", "queued", "promoted"} BY Zenon, <1>1
<1> HIDE DEF ws
<1>7. ASSUME NEW removed \in SUBSET DOMAIN watches,
             /\ watches' = Keep(watches, DOMAIN watches \ removed)
             /\ regParked' = regParked \cup removed
             /\ pending' = pending /\ faults < MaxFaults /\ faults' = faults + 1
             /\ fallback' = fallback /\ runParked' = runParked /\ epoch' = epoch /\ recon' = recon
      PROVE WatchInv'
  <2> DEFINE no == {}
  <2>1. DOMAIN watches' = DOMAIN watches \cap (DOMAIN watches \ removed) BY Zenon, <1>7, KeepIs
  <2>2. \A a : a \in DOMAIN watches' <=> a \in DOMAIN watches /\ a \notin removed BY Zenon, <2>1
  <2>3. \A a \in DOMAIN watches' : watches'[a] = watches[a] BY Zenon, <1>7, <2>1, KeepIs
  <2>4. Stored(watches, fallback, regParked, runParked) BY Zenon DEF WatchInv, OwnersInv
  <2>5. Stored(watches', fallback', regParked', runParked')
    BY Zenon, <1>7, <2>2, <2>4 DEF Stored
  <2>6. \A a : a \in Held' <=> a \in Held BY Zenon, <1>7, <2>2 DEF Held
  <2>7. no \subseteq signaled /\ no = {} /\ \A a : a \notin no BY Zenon
  <2> HIDE DEF no
  <2>8. Moved(Held, no, watches, epoch) BY Zenon, <1>7, <2>2, <2>3, <2>5, <2>6, <2>7 DEF Moved
  <2>9. Moves(Held, watches, epoch) BY Zenon, <2>8 DEF Moves
  <2>10. ~worker => \A a \in DOMAIN watches' : watches'[a] = epoch'
    BY Zenon, <1>7, <2>2, <2>3 DEF WatchInv, EpochInv
  <2> QED BY Zenon, <1>1, <1>3, <1>4, <1>6, <1>7, <2>9, <2>10, MoveInv
<1>8. ASSUME NEW e, Rearm(Held, <<>>, {}, {}, e), epoch' = e, recon' = recon, e = epoch \/ e = epoch + 1
      PROVE WatchInv'
  <2>1. /\ Moves(Held, ws, e)
        /\ \/ faults' = faults /\ runParked' = {} /\ regParked' = {}
           \/ faults < MaxFaults /\ faults' = faults + 1
        /\ \A a \in DOMAIN watches' : watches'[a] = e
    BY Zenon, <1>8, RearmHeld DEF ws
  <2>2. epoch' <= MaxEpoch + 1 BY Zenon, <1>4, <1>8
  <2>3. faults' = faults => runParked' = {} /\ regParked' = {} BY Zenon, <1>4, <2>1
  <2>4. faults' = faults \/ (faults < MaxFaults /\ faults' = faults + 1) BY Zenon, <2>1
  <2> QED BY Zenon, <1>1, <1>3, <1>5, <1>6, <1>8, <2>1, <2>2, <2>3, <2>4, MoveInv
<1>9. ASSUME /\ worker /\ watches' = <<>> /\ fallback' = {} /\ regParked' = {}
             /\ runParked' = Held /\ pending' = pending
             /\ recon' = "queued" /\ epoch' = epoch /\ faults' = faults
      PROVE WatchInv'
  <2>1. Moves(Held, ws, epoch) BY Zenon, <1>9, ParkMoves DEF ws
  <2> QED BY Zenon, <1>1, <1>3, <1>4, <1>5, <1>6, <1>9, <2>1, MoveInv
<1>10. \/ \E removed \in SUBSET DOMAIN watches :
             /\ watches' = Keep(watches, DOMAIN watches \ removed)
             /\ regParked' = regParked \cup removed
             /\ pending' = pending /\ faults < MaxFaults /\ faults' = faults + 1
             /\ fallback' = fallback /\ runParked' = runParked /\ epoch' = epoch /\ recon' = recon
       \/ Rearm(Held, <<>>, {}, {}, epoch) /\ epoch' = epoch /\ recon' = recon
       \/ Rearm(Held, <<>>, {}, {}, epoch + 1) /\ epoch' = epoch + 1 /\ recon' = recon
       \/ /\ worker /\ watches' = <<>> /\ fallback' = {} /\ regParked' = {}
          /\ runParked' = Held /\ pending' = pending
          /\ recon' = "queued" /\ epoch' = epoch /\ faults' = faults
  BY Zenon DEF Reconfigure
<1> QED BY Zenon, <1>7, <1>8, <1>9, <1>10

\* A cycle of the active runtime.
LEMMA ServiceKeeps == ASSUME WatchInv, ServiceWatches PROVE WatchInv'
<1> DEFINE fresh == registers \ (cancels \cup signaled)
           due == {a \in DOMAIN watches \ cancels : a \in signaled}
           stale == {a \in due : watches[a] # epoch}
           S == FoundReady \cup (due \ stale)
           rest == Keep(watches, DOMAIN watches \ (cancels \cup due))
<1>1. PICK polled \in SUBSET fresh :
             /\ watches' = Watch(rest, fresh \ polled, epoch)
             /\ fallback' = Polling(polled)
  BY Zenon DEF ServiceWatches
<1>2. /\ session = "active" /\ pending' = Marked(S) /\ dropped' = dropped \cup stale
      /\ registers' = {} /\ cancels' = {} /\ signaled' = signaled /\ next' = next
      /\ regParked' = regParked /\ runParked' = runParked /\ epoch' = epoch /\ session' = session
      /\ recon' = recon /\ worker' = worker /\ faults' = faults
  BY Zenon DEF ServiceWatches, modeVars
<1>3. ClientInv /\ OwnersInv /\ WatchTypeOK /\ ModeInv /\ EpochInv /\ ReachInv BY Zenon DEF WatchInv, ModeInv
<1>4. Stored(watches, fallback, regParked, runParked)
      /\ (\A a \in Held : a \in Old(next) /\ a \notin registers)
      /\ \A a : Awaits(pending, a) => a \in dropped \/ a \in registers \/ a \in Held
  BY Zenon, <1>3 DEF OwnersInv
<1>5. \A a : a \in Held <=> a \in DOMAIN watches \/ a \in fallback \/ a \in regParked \/ a \in runParked
  BY Zenon DEF Held
<1>6. \A a : a \in Held' <=> a \in DOMAIN watches' \/ a \in fallback' \/ a \in regParked \/ a \in runParked
  BY Zenon, <1>2 DEF Held
<1>7. \A a : a \in due <=> a \in DOMAIN watches /\ a \notin cancels /\ a \in signaled BY Zenon
<1>8. \A a : a \in fresh <=> a \in registers /\ a \notin cancels /\ a \notin signaled BY Zenon
<1>9. \A a : a \in stale <=> a \in due /\ watches[a] # epoch BY Zenon
<1>10. \A a : a \in polled => a \in fresh BY Zenon
<1>11. \A a : a \in S => a \in signaled /\ a \notin cancels BY Zenon, <1>7, <1>9 DEF FoundReady
<1>12. \A a : a \in S <=> \/ (a \in registers \/ a \in fallback) /\ a \notin cancels /\ a \in signaled
                          \/ a \in due /\ a \notin stale
  BY Zenon DEF FoundReady
<1> HIDE DEF due, fresh, stale, S
<1>13. \A a : a \in DOMAIN rest <=> a \in DOMAIN watches /\ a \notin cancels /\ a \notin due
  <2>1. DOMAIN rest = DOMAIN watches \cap (DOMAIN watches \ (cancels \cup due)) BY Zenon, KeepIs
  <2> QED BY Zenon, <2>1
<1>14. \A a \in DOMAIN rest : rest[a] = watches[a]
  <2>1. DOMAIN rest = DOMAIN watches \cap (DOMAIN watches \ (cancels \cup due)) BY Zenon, KeepIs
  <2> QED BY Zenon, <2>1, KeepIs
<1> HIDE DEF rest
<1>15. DOMAIN watches' = DOMAIN rest \cup (fresh \ polled) BY Zenon, <1>1, WatchIs
<1>16. \A a \in DOMAIN watches' : watches'[a] = epoch \/ (a \in DOMAIN rest /\ watches'[a] = rest[a])
  <2> DEFINE armed == fresh \ polled
  <2>1. watches' = Watch(rest, armed, epoch) BY Zenon, <1>1
  <2> HIDE DEF armed
  <2> TAKE a \in DOMAIN watches'
  <2>2. a \in DOMAIN rest \cup armed BY Zenon, <2>1, WatchIs
  <2>3. watches'[a] = Watch(rest, armed, epoch)[a] BY Zenon, <2>1
  <2>4. Watch(rest, armed, epoch)[a] = IF a \in armed THEN epoch ELSE rest[a] BY Zenon, <2>2 DEF Watch
  <2> QED BY Zenon, <2>2, <2>3, <2>4
<1>17. \A a : a \in DOMAIN watches' <=> \/ a \in DOMAIN watches /\ a \notin cancels /\ a \notin due
                                        \/ a \in fresh /\ a \notin polled
  BY Zenon, <1>13, <1>15
<1>18. \A a : a \in fallback' <=> (a \in fallback \/ a \in polled) /\ a \notin cancels /\ a \notin signaled
  BY Zenon, <1>1 DEF Polling
<1>19. \A a : Awaits(pending', a) <=> Awaits(pending, a) /\ a \notin S
  BY Zenon, <1>2, <1>3, MarkedAwaits
<1>20. /\ registers \subseteq Old(next)
       /\ \A b \in Acquires : /\ ~(b \in cancels /\ Awaits(pending, b))
                              /\ b \in registers => Awaits(pending, b) \/ b \in cancels \/ b \in signaled
  BY Zenon, <1>3 DEF ClientInv, Settled, Accounted
<1>21. \A a : Awaits(pending, a) => a \in Acquires
  <2>1. pending \in Queues BY Zenon, <1>3, InvParts
  <2> QED BY Zenon, <2>1, WaitsHeld
<1>22. \A a : a \in Old(next) => a \in Acquires BY Zenon DEF Old
<1>23. Stored(watches', fallback', regParked', runParked')
  <2>1. \A a : a \in fresh \/ a \in polled => a \in registers BY Zenon, <1>8, <1>10
  <2>2. \A a : a \in registers => a \notin DOMAIN watches /\ a \notin fallback /\ a \notin regParked /\ a \notin runParked
    BY Zenon, <1>4, <1>5
  <2>3. \A a \in DOMAIN watches : a \notin fallback /\ a \notin regParked /\ a \notin runParked
    BY Zenon, <1>4 DEF Stored
  <2>4. \A a \in fallback : a \notin regParked /\ a \notin runParked BY Zenon, <1>4 DEF Stored
  <2>5. \A a \in regParked : a \notin runParked BY Zenon, <1>4 DEF Stored
  <2>6. \A a \in DOMAIN watches' : a \notin fallback' /\ a \notin regParked' /\ a \notin runParked'
    BY Zenon, <1>2, <1>17, <1>18, <2>1, <2>2, <2>3
  <2>7. \A a \in fallback' : a \notin regParked' /\ a \notin runParked'
    BY Zenon, <1>2, <1>18, <2>1, <2>2, <2>4
  <2>8. \A a \in regParked' : a \notin runParked' BY Zenon, <1>2, <2>5
  <2> QED BY Zenon, <2>6, <2>7, <2>8 DEF Stored
<1>24. \A a \in Held' : a \in Held \/ (a \in registers /\ a \notin cancels /\ a \notin signaled)
  BY Zenon, <1>5, <1>6, <1>8, <1>10, <1>17, <1>18
<1>25. \A a \in Held' : a \in Old(next') /\ a \notin registers' BY Zenon, <1>2, <1>4, <1>20, <1>24
<1>26. ASSUME NEW a, Awaits(pending', a) PROVE a \in dropped' \/ a \in registers' \/ a \in Held'
  <2>1. Awaits(pending, a) /\ a \notin S /\ a \in Acquires BY Zenon, <1>19, <1>21, <1>26
  <2>2. a \notin cancels BY Zenon, <2>1, <1>20
  <2>3. a \in dropped \/ a \in registers \/ a \in Held BY Zenon, <2>1, <1>4
  <2>4. CASE a \in dropped BY Zenon, <2>4, <1>2
  <2>5. CASE a \in registers
    <3>1. a \in fresh BY Zenon, <2>1, <2>2, <2>5, <1>8, <1>12
    <3> QED BY Zenon, <3>1, <2>2, <1>6, <1>8, <1>17, <1>18
  <2>6. CASE a \in DOMAIN watches
    <3>1. CASE a \in due BY Zenon, <3>1, <2>1, <1>2, <1>12
    <3>2. CASE a \notin due BY Zenon, <3>2, <2>2, <2>6, <1>6, <1>17
    <3> QED BY Zenon, <3>1, <3>2
  <2>7. CASE a \in fallback
    <3>1. a \notin signaled BY Zenon, <2>1, <2>2, <2>7, <1>12
    <3> QED BY Zenon, <3>1, <2>2, <2>7, <1>6, <1>18
  <2>8. CASE a \in regParked \/ a \in runParked BY Zenon, <2>8, <1>6
  <2> QED BY Zenon, <2>3, <2>4, <2>5, <2>6, <2>7, <2>8, <1>5
<1>27. OwnersInv' BY Zenon, <1>23, <1>25, <1>26 DEF OwnersInv
<1>28. ClientInv'
  <2>1. Next BY Zenon DEF Next
  <2> QED BY Zenon, <1>3, <2>1, NextClient
<1>29. ModeInv'
  <2>1. \A a \in Held' : a \in Acquires BY Zenon, <1>2, <1>22, <1>25
  <2>2. /\ fallback' \cup regParked' \cup runParked' \subseteq Acquires
        /\ DOMAIN watches' \subseteq Acquires
    BY Zenon, <2>1 DEF Held
  <2>3. dropped' \subseteq Acquires
    <3>1. \A a \in stale : a \in Acquires BY Zenon, <1>3, <1>7, <1>9 DEF WatchTypeOK
    <3> QED BY Zenon, <3>1, <1>2, <1>3 DEF WatchTypeOK
  <2>4. \A a \in DOMAIN watches' : watches'[a] \in 1..epoch'
    <3>1. epoch \in 1..epoch
      <4>1. epoch \in Nat /\ 1 <= epoch BY Zenon, ModeParts
      <4> QED BY <4>1
    <3>2. \A a \in DOMAIN watches : watches[a] \in 1..epoch BY Zenon, ModeParts
    <3>3. \A a \in DOMAIN rest : rest[a] \in 1..epoch BY Zenon, <3>2, <1>13, <1>14
    <3> QED BY Zenon, <3>1, <3>3, <1>2, <1>16
  <2>5. WatchTypeOK' BY Zenon, <2>2, <2>3, <2>4, <1>2, <1>3 DEF WatchTypeOK
  <2> QED BY Zenon, <2>5, <1>2, <1>3 DEF ModeInv
<1>30. EpochInv'
  <2> SUFFICES ASSUME ~worker PROVE /\ dropped' = {}
                                    /\ \A a \in DOMAIN watches' : watches'[a] = epoch
                                    /\ session' = "suspended" => DOMAIN watches' = {}
    BY Zenon, <1>2 DEF EpochInv
  <2>1. dropped = {} /\ \A a \in DOMAIN watches : watches[a] = epoch BY Zenon, <1>3 DEF EpochInv
  <2>2. \A a : a \notin stale BY Zenon, <2>1, <1>7, <1>9
  <2>3. dropped' = {} BY Zenon, <2>1, <2>2, <1>2
  <2>4. \A a \in DOMAIN watches' : watches'[a] = epoch BY Zenon, <2>1, <1>13, <1>14, <1>16
  <2>5. session' # "suspended"
    <3>1. "active" # "suspended" OBVIOUS
    <3> QED BY Zenon, <3>1, <1>2
  <2> QED BY Zenon, <2>3, <2>4, <2>5
<1>31. ReachInv'
  <2> SUFFICES ASSUME ~worker, faults = 0
               PROVE /\ regParked' = {}
                     /\ session' = "active" => runParked' = {}
                     /\ \A a \in Held' : Awaits(pending', a)
    BY Zenon, <1>2 DEF ReachInv
  <2>1. regParked = {} /\ runParked = {} /\ \A a \in Held : Awaits(pending, a) \/ a \in cancels
    BY Zenon, <1>2, <1>3 DEF ReachInv
  <2>2. ASSUME NEW a \in Held' PROVE Awaits(pending', a)
    <3>1. a \in DOMAIN watches' \/ a \in fallback' BY Zenon, <2>1, <1>6
    <3>2. a \notin cancels BY Zenon, <3>1, <1>8, <1>17, <1>18
    <3>3. a \notin signaled
      <4>1. CASE a \in DOMAIN watches' BY Zenon, <4>1, <3>2, <1>7, <1>8, <1>17
      <4>2. CASE a \in fallback' BY Zenon, <4>2, <1>18
      <4> QED BY Zenon, <3>1, <4>1, <4>2
    <3>4. Awaits(pending, a)
      <4>1. CASE a \in Held BY Zenon, <4>1, <2>1, <3>2
      <4>2. CASE a \in registers
        <5>1. a \in Acquires BY Zenon, <4>2, <1>20, <1>22
        <5> QED BY Zenon, <4>2, <5>1, <3>2, <3>3, <1>20
      <4> QED BY Zenon, <1>24, <4>1, <4>2
    <3> QED BY Zenon, <3>3, <3>4, <1>11, <1>19
  <2> QED BY Zenon, <1>2, <2>1, <2>2
<1> QED BY Zenon, <1>27, <1>28, <1>29, <1>30, <1>31 DEF WatchInv


\* The server's steps and signals leave the registry alone.
LEMMA ServerInv == ASSUME WatchInv, ServerStep \/ Signal, Idle PROVE WatchInv'
<1>1. ClientInv /\ OwnersInv BY Zenon DEF WatchInv
<1>2. /\ watches' = watches /\ fallback' = fallback /\ regParked' = regParked /\ runParked' = runParked
      /\ dropped' = dropped /\ epoch' = epoch /\ session' = session /\ recon' = recon
      /\ worker' = worker /\ faults' = faults
  BY Zenon DEF Idle, regVars, modeVars
<1>3. Told
  <2>1. CASE ServerStep BY Zenon, <2>1, <1>1, ServerTells
  <2>2. CASE Signal
    <3>1. pending' = pending /\ registers' = registers /\ cancels' = cancels /\ next' = next
      BY Zenon, <2>2 DEF Signal, treeVars
    <3> QED BY Zenon, <3>1 DEF Told
  <2> QED BY Zenon, <2>1, <2>2
<1>4. Held' = Held BY Zenon, <1>2 DEF Held
<1>5. OwnersInv'
  <2>1. Stored(watches, fallback, regParked, runParked)
        /\ (\A a \in Held : a \in Old(next) /\ a \notin registers)
        /\ \A a : Awaits(pending, a) => a \in dropped \/ a \in registers \/ a \in Held
    BY Zenon, <1>1 DEF OwnersInv
  <2>2. \A a \in Held' : a \in Old(next') /\ a \notin registers' BY Zenon, <1>3, <1>4, <2>1 DEF Told
  <2>3. \A a : Awaits(pending', a) => a \in dropped' \/ a \in registers' \/ a \in Held'
    BY Zenon, <1>2, <1>3, <1>4, <2>1 DEF Told
  <2> QED BY Zenon, <1>2, <2>1, <2>2, <2>3 DEF OwnersInv
<1>6. ModeInv' BY Zenon, <1>2 DEF WatchInv, ModeInv, WatchTypeOK
<1>7. EpochInv' BY Zenon, <1>2 DEF WatchInv, EpochInv
<1>8. ReachInv'
  <2> SUFFICES ASSUME ~worker, faults = 0
               PROVE /\ regParked = {}
                     /\ session = "active" => runParked = {}
                     /\ \A a \in Held : Awaits(pending', a) \/ a \in cancels'
    BY Zenon, <1>2, <1>4 DEF ReachInv
  <2>1. /\ regParked = {}
        /\ session = "active" => runParked = {}
        /\ \A a \in Held : Awaits(pending, a) \/ a \in cancels
    BY Zenon DEF WatchInv, ReachInv
  <2> QED BY Zenon, <2>1, <1>3 DEF Told
<1>9. ClientInv' BY Zenon, <1>1, ServerKeeps, SignalKeeps
<1> QED BY Zenon, <1>5, <1>6, <1>7, <1>8, <1>9 DEF WatchInv

\* Every step of the composition preserves the invariant.
LEMMA WatchStepKeeps == ASSUME WatchInv, [Next]_vars PROVE WatchInv'
<1>1. ASSUME Next PROVE WatchInv'
  BY Zenon, <1>1, ServerInv, ServiceKeeps, SuspendKeeps, ResumeKeeps, ReconfigureKeeps, AdvanceKeeps, PromotionKeeps
     DEF Next
<1>2. ASSUME UNCHANGED vars PROVE WatchInv'
  <2>1. /\ pending' = pending /\ registers' = registers /\ cancels' = cancels /\ next' = next
        /\ latest' = latest /\ shown' = shown /\ out' = out /\ freed' = freed /\ signaled' = signaled
        /\ barrier' = barrier /\ life' = life /\ exhausted' = exhausted
    BY Zenon, <1>2 DEF vars, queueVars, treeVars
  <2>2. /\ watches' = watches /\ fallback' = fallback /\ regParked' = regParked /\ runParked' = runParked
        /\ dropped' = dropped /\ epoch' = epoch /\ session' = session /\ recon' = recon
        /\ worker' = worker /\ faults' = faults
    BY Zenon, <1>2 DEF vars, regVars, modeVars
  <2>3. ClientInv' BY Zenon, <2>1 DEF WatchInv, ClientInv
  <2>4. Held' = Held BY Zenon, <2>2 DEF Held
  <2>5. OwnersInv' BY Zenon, <2>1, <2>2, <2>4 DEF WatchInv, OwnersInv
  <2>6. ModeInv' BY Zenon, <2>2 DEF WatchInv, ModeInv, WatchTypeOK
  <2>7. EpochInv' BY Zenon, <2>2 DEF WatchInv, EpochInv
  <2>8. ReachInv' BY Zenon, <2>1, <2>2, <2>4 DEF WatchInv, ReachInv
  <2> QED BY Zenon, <2>3, <2>5, <2>6, <2>7, <2>8 DEF WatchInv
<1> QED BY Zenon, <1>1, <1>2

\* The invariant holds initially.
LEMMA WatchInitKeeps == ASSUME Init PROVE WatchInv
<1>1. QueueInit /\ watches = <<>> /\ fallback = {} /\ regParked = {} /\ runParked = {}
      /\ dropped = {} /\ epoch = 1 /\ session = "active" /\ recon = "idle"
      /\ worker \in RenderWorkers /\ faults = 0
  BY Zenon DEF Init
<1>2. ClientInv /\ pending \in Queues BY Zenon, <1>1, QueueInitKeeps, InvParts
<1>3. \A a : a \notin DOMAIN watches /\ a \notin fallback /\ a \notin regParked /\ a \notin runParked
  BY Zenon, <1>1, EmptyIs
<1>4. \A a : a \notin Held BY Zenon, <1>3 DEF Held
<1>5. \A a : ~Awaits(pending, a)
  <2>1. \A r \in Roots : pending[r] = <<>> BY Zenon, <1>1 DEF QueueInit
  <2>2. Len(<<>>) = 0 /\ 1..0 = {} OBVIOUS
  <2> QED BY Zenon, <2>1, <2>2 DEF Awaits
<1>6. OwnersInv BY Zenon, <1>3, <1>4, <1>5 DEF OwnersInv, Stored
<1>7. worker \in BOOLEAN /\ MaxEpoch \in Nat /\ MaxFaults \in Nat BY Zenon, <1>1, WatchAssumption
<1>8. WatchTypeOK
  <2>1. epoch \in 1..MaxEpoch + 1 /\ faults \in 0..MaxFaults BY <1>1, <1>7
  <2>2. session \in {"active", "suspended"} /\ recon \in {"idle", "queued", "promoted"} BY Zenon, <1>1
  <2> QED BY Zenon, <2>1, <2>2, <1>1, <1>3 DEF WatchTypeOK
<1>9. session # "suspended"
  <2>1. "active" # "suspended" OBVIOUS
  <2> QED BY Zenon, <1>1, <2>1
<1>10. ModeInv BY Zenon, <1>1, <1>7, <1>8, <1>9 DEF ModeInv
<1>11. EpochInv BY Zenon, <1>1, <1>3, <1>9 DEF EpochInv
<1>12. ReachInv BY Zenon, <1>1, <1>4 DEF ReachInv
<1> QED BY Zenon, <1>2, <1>6, <1>10, <1>11, <1>12 DEF WatchInv

\* The stores that hold an acquire, by number.
LEMMA StoresAre ==
  ASSUME NEW a
  PROVE /\ 1 \in Stores(a) <=> a \in registers
        /\ 2 \in Stores(a) <=> a \in DOMAIN watches
        /\ 3 \in Stores(a) <=> a \in fallback
        /\ 4 \in Stores(a) <=> a \in regParked
        /\ 5 \in Stores(a) <=> a \in runParked
        /\ \A i \in Stores(a) : i \in {1, 2, 3, 4, 5}
BY DEF Stores

\* The invariant says what the runs check.
LEMMA WatchInvSays == ASSUME WatchInv PROVE WatchesInv /\ SyncSound
<1>1. ClientInv /\ OwnersInv /\ WatchTypeOK BY Zenon DEF WatchInv, ModeInv
<1>2. Stored(watches, fallback, regParked, runParked)
      /\ (\A a \in Held : a \notin registers)
      /\ \A a : Awaits(pending, a) => a \in dropped \/ a \in registers \/ a \in Held
  BY Zenon, <1>1 DEF OwnersInv
<1>3. \A a : a \in AllWaiting <=> Awaits(pending, a)
  <2>1. AllWaiting = WaitIn(pending) BY Zenon DEF AllWaiting, WaitIn
  <2>2. pending \in Queues BY Zenon, <1>1, InvParts
  <2> QED BY Zenon, <2>1, <2>2, Members
<1>4. \A a : a \in Held <=> a \in DOMAIN watches \/ a \in fallback \/ a \in regParked \/ a \in runParked
  BY Zenon DEF Held
<1>5. \A i \in {1, 2, 3, 4, 5} : \A j \in {1, 2, 3, 4, 5} : i = j \/ i # j BY Zenon
<1>6. ASSUME NEW a \in Held PROVE \E i \in {2, 3, 4, 5} : \A j \in {1, 2, 3, 4, 5} : j \in Stores(a) <=> j = i
  <2>1. a \notin registers BY Zenon, <1>2
  <2>2. CASE a \in DOMAIN watches
    <3>1. a \notin fallback /\ a \notin regParked /\ a \notin runParked BY Zenon, <2>2, <1>2 DEF Stored
    <3>2. \A j \in {1, 2, 3, 4, 5} : j \in Stores(a) <=> j = 2 BY <2>1, <2>2, <3>1, StoresAre
    <3> QED BY Zenon, <3>2
  <2>3. CASE a \in fallback
    <3>1. a \notin DOMAIN watches /\ a \notin regParked /\ a \notin runParked BY Zenon, <2>3, <1>2 DEF Stored
    <3>2. \A j \in {1, 2, 3, 4, 5} : j \in Stores(a) <=> j = 3 BY <2>1, <2>3, <3>1, StoresAre
    <3> QED BY Zenon, <3>2
  <2>4. CASE a \in regParked
    <3>1. a \notin DOMAIN watches /\ a \notin fallback /\ a \notin runParked BY Zenon, <2>4, <1>2 DEF Stored
    <3>2. \A j \in {1, 2, 3, 4, 5} : j \in Stores(a) <=> j = 4 BY <2>1, <2>4, <3>1, StoresAre
    <3> QED BY Zenon, <3>2
  <2>5. CASE a \in runParked
    <3>1. a \notin DOMAIN watches /\ a \notin fallback /\ a \notin regParked BY Zenon, <2>5, <1>2 DEF Stored
    <3>2. \A j \in {1, 2, 3, 4, 5} : j \in Stores(a) <=> j = 5 BY <2>1, <2>5, <3>1, StoresAre
    <3> QED BY Zenon, <3>2
  <2> QED BY Zenon, <2>2, <2>3, <2>4, <2>5, <1>4
<1>7. ASSUME NEW a \in Held PROVE Cardinality(Stores(a)) = 1 /\ Cardinality(Stores(a) \ {1}) = 1
  <2>1. PICK i \in {2, 3, 4, 5} : \A j \in {1, 2, 3, 4, 5} : j \in Stores(a) <=> j = i BY Zenon, <1>6
  <2>2. i # 1 /\ i \in {1, 2, 3, 4, 5} OBVIOUS
  <2>3. Stores(a) = {i} BY Zenon, <2>1, <2>2, StoresAre
  <2>4. Stores(a) \ {1} = {i} BY Zenon, <2>2, <2>3
  <2> QED BY Zenon, <2>3, <2>4, Singleton
<1>8. ASSUME NEW a, a \in registers, a \notin Held PROVE Cardinality(Stores(a)) = 1
  <2>1. a \notin DOMAIN watches /\ a \notin fallback /\ a \notin regParked /\ a \notin runParked
    BY Zenon, <1>8, <1>4
  <2>2. \A j \in {1, 2, 3, 4, 5} : j \in Stores(a) <=> j = 1 BY <2>1, <1>8, StoresAre
  <2>3. Stores(a) = {1} BY Zenon, <2>2, StoresAre
  <2> QED BY Zenon, <2>3, Singleton
<1>9. OwnedOnce BY Zenon, <1>2, <1>3, <1>7, <1>8 DEF OwnedOnce
<1>10. SyncEpochAgrees BY Zenon DEF WatchInv, EpochInv, SyncEpochAgrees
<1>11. CancelReaches BY Zenon, <1>3 DEF WatchInv, ReachInv, CancelReaches
<1> QED BY Zenon, <1>1, <1>9, <1>10, <1>11 DEF WatchesInv, SyncSound

\* The inductive invariant of the registry and the runtime.
THEOREM WatchInvariant == Spec => []WatchInv
<1> QED BY WatchInitKeeps, WatchStepKeeps, PTL DEF Spec

\* Exactly-once ownership: every acquire a queued transaction waits for has
\* one owner, through suspensions, reconfigurations and failing calls.
THEOREM AcquiresOwnedOnce == Spec => []WatchesInv
<1> QED BY WatchInvariant, WatchInvSays, PTL

\* Without the render worker no completion is dropped for its epoch, and a
\* Cancel finds its request.
THEOREM SyncPathSound == Spec => []SyncSound
<1> QED BY WatchInvariant, WatchInvSays, PTL
=============================================================================
