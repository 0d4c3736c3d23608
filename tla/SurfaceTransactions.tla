------------------------- MODULE SurfaceTransactions -------------------------
(***************************************************************************)
(* The queue of surface-tree transactions of the compositor state          *)
(* (compositor/state/surface_transactions, surface_tree_readiness.rs).     *)
(*                                                                         *)
(* A wl_surface.commit of a tree's root, with the updates its synchronized *)
(* child cached, becomes one transaction.  So does the commit a subsurface *)
(* cached while it was synchronized, when it stops being so and becomes    *)
(* the root of a tree of its own.  A transaction is published when         *)
(* every acquire point of its buffers has signalled and its FIFO barrier   *)
(* is clear, and never before an older transaction of the same root.       *)
(* Newer commits are merged into the last waiting transaction where that   *)
(* is legal.  What the transactions wait for is handed to the runtime as   *)
(* Register and Cancel changes, consumed by AcquireWatches.                *)
(*                                                                         *)
(* A tree has the two parts "root" and "child".  A buffer, its acquire     *)
(* point and the AcquireCommitId of its dependency are one identity, the   *)
(* pair <<commit, part>>; two attachments never share one.  "fifo" stands  *)
(* for a commit that both waits for and sets its surface's FIFO barrier.   *)
(* External content-update dependencies between roots, commit timing and   *)
(* frame callbacks are left out.                                           *)
(***************************************************************************)
EXTENDS Integers, Sequences, FiniteSets, FiniteSetsExt

CONSTANTS
    Roots,       \* surfaces that are or become the root of a tree, each
                 \* owned by a client of its own
    RootKinds,   \* what a commit does to the root: see Updates
    CachedKinds, \* what a commit that was cached and migrates does to it
    ChildKinds,  \* what the child cached since the last commit
    MaxCommit,   \* bound on commits
    QueueLimit   \* MAX_SURFACE_TREE_TRANSACTIONS_PER_ROOT (8 in the code)

ASSUME QueueAssumption ==
    /\ MaxCommit \in Nat /\ QueueLimit \in Nat \ {0} /\ IsFiniteSet(Roots)
    /\ RootKinds \cup CachedKinds \subseteq {"none", "remove", "ready", "wait"}
    /\ ChildKinds \subseteq {"absent", "ready", "wait"}

VARIABLES
    pending,     \* per root, its queued transactions, oldest first
    latest,      \* per root and part, latest_received commit (0: none)
    shown,       \* per root and part, latest_published commit (0: none)
    out,         \* buffers handed to the scene
    freed,       \* buffers released without publication
    barrier,     \* roots with an active FIFO barrier
    life,        \* per root: "live", "terminal" (client in error) or "gone"
    exhausted,   \* roots whose client is to be killed for resource exhaustion
    registers,   \* AcquireWatchChange::Register not yet taken by the runtime
    cancels,     \* AcquireWatchChange::Cancel not yet taken by the runtime
    signaled,    \* acquire points that have signalled
    next         \* the next commit identity

treeVars == <<pending, latest, shown, out, freed, barrier, life, exhausted>>
queueVars == <<treeVars, registers, cancels, signaled, next>>

Parts == {"root", "child"}
NoBuffer == <<0, "none">>
RemoveContent == <<0, "remove">>
IsBuffer(att) == att[1] > 0

\* SurfaceTreeSubmissionKind: a commit the client makes, or one it made and
\* that was cached until its surface was no longer synchronized.
Kinds == {"client", "migration"}

\* What one part of a commit does: nothing to the content, detach it, attach
\* a buffer that is usable at once, or one whose acquire point has not
\* signalled yet.  The root is part of every update, the child only when it
\* cached one.
Updates(kind) ==
    [root : IF kind = "client" THEN RootKinds ELSE CachedKinds, child : ChildKinds]

Attached(kind, p) ==
    CASE kind = "none" -> NoBuffer
      [] kind = "remove" -> RemoveContent
      [] OTHER -> <<next, p>>

\* prepare_surface_tree_acquires and build_surface_tree_transaction: every
\* unsignalled acquire becomes a dependency.  "deps" holds the ones that are
\* not ready; how the runtime backs a waiting one (eventfd or polling) is
\* recorded in the code for diagnostics only.  The queue does not keep the
\* submission kind; it is recorded here to state what the limit is about.
Incoming(update, fifo, kind) ==
    LET parts == {p \in Parts : update[p] # "absent"} IN
    [nodes |-> [p \in parts |-> [commit |-> next,
                                 att |-> Attached(update[p], p)]],
     deps |-> {<<next, p>> : p \in {p \in parts : update[p] = "wait"}},
     fifo |-> fifo, kind |-> kind]

BuffersOf(tx) ==
    {att \in {tx.nodes[p].att : p \in DOMAIN tx.nodes} : IsBuffer(att)}
Buffers(q) == UNION {BuffersOf(tx) : tx \in Range(q)}
Waiting(q) == UNION {tx.deps : tx \in Range(q)}
HasAttachment(tx) == \E p \in DOMAIN tx.nodes : tx.nodes[p].att # NoBuffer

\* Mutant: only the root's acquires hold a tree back.
ReadyRootOnly(r, tx) ==
    (\A a \in tx.deps : a[2] # "root") /\ (tx.fifo => r \notin barrier)
\* transaction_is_ready: all acquires ready, and a FIFO wait not blocked.
Ready(r, tx) == tx.deps = {} /\ (tx.fifo => r \notin barrier)

\* Mutant: the barrier a FIFO transaction sets is not seen by the next one.
ReadyPrefixUnpaced(r, q) ==
    LET ok(n) == \A i \in 1 .. n : Ready(r, q[i])
    IN CHOOSE n \in 0 .. Len(q) : ok(n) /\ (n < Len(q) => ~ok(n + 1))
\* How many transactions the loop of commit_ready_surface_tree_transactions
\* takes from the head of one root's queue.  A published FIFO transaction
\* sets the barrier the next one waits for.
ReadyPrefix(r, q) ==
    LET ok(n) == \A i \in 1 .. n :
                    /\ Ready(r, q[i])
                    /\ q[i].fifo => \A j \in 1 .. i - 1 : ~q[j].fifo
    IN CHOOSE n \in 0 .. Len(q) : ok(n) /\ (n < Len(q) => ~ok(n + 1))

\* publish_surface_tree_nodes releases a transaction that would attach a
\* commit not newer than what the surface already shows.
Stale(r, q, i) ==
    \E p \in DOMAIN q[i].nodes :
        /\ q[i].nodes[p].att # NoBuffer
        /\ \/ q[i].nodes[p].commit <= shown[r][p]
           \/ \E j \in 1 .. i - 1 : /\ p \in DOMAIN q[j].nodes
                                    /\ q[j].nodes[p].commit >= q[i].nodes[p].commit

\* What stays queued of q after its first k transactions are taken.
Remaining(q, k) == SubSeq(q, k + 1, Len(q))

\* commit_ready_surface_tree_transactions for the roots R of a queue pend:
\* publish each root's ready prefix; a ready head whose client is terminal
\* is discarded with every later transaction of its root.  A client the
\* handler has just put in error is terminal already (life').
CommitReady(R, pend, released, canceled) ==
    LET k == [r \in Roots |-> IF r \in R THEN ReadyPrefix(r, pend[r]) ELSE 0]
        dead == {r \in Roots : k[r] > 0 /\ life'[r] # "live"}
        live == {r \in Roots : k[r] > 0 /\ life'[r] = "live"}
        Published(r) == {i \in 1 .. k[r] : ~Stale(r, pend[r], i)}
        Taken(r) == {pend[r][i] : i \in Published(r)}
        Refused(r) == {pend[r][i] : i \in (1 .. k[r]) \ Published(r)}
    IN /\ pending' = [r \in Roots |-> IF r \in dead THEN <<>>
                        ELSE Remaining(pend[r], k[r])]
       /\ shown' = [r \in Roots |-> [p \in Parts |->
                       Max({shown[r][p]} \cup
                           (IF r \in live
                            THEN {tx.nodes[p].commit : tx \in
                                     {tx \in Taken(r) : p \in DOMAIN tx.nodes}}
                            ELSE {}))]]
       /\ barrier' = barrier \cup {r \in live : \E tx \in Taken(r) : tx.fifo}
       /\ out' = out \cup UNION {BuffersOf(tx) : tx \in UNION {Taken(r) : r \in live}}
       /\ freed' = freed \cup released \cup UNION {Buffers(pend[r]) : r \in dead}
                     \cup UNION {BuffersOf(tx) : tx \in UNION {Refused(r) : r \in live}}
       /\ cancels' = cancels \cup canceled \cup UNION {Waiting(pend[r]) : r \in dead}

\* surface_tree_merge_would_replace_progress_acquire: the last transaction
\* still waits for a buffer of a part, and the incoming commit would replace
\* it by another one that waits.
ReplacesProgressAcquire(target, tx) ==
    \E d \in target.deps : LET p == d[2] IN
        /\ target.nodes[p] = [commit |-> d[1], att |-> d]
        /\ p \in DOMAIN tx.nodes
        /\ tx.nodes[p].att \in tx.deps

\* can_coalesce_pending_surface_tree_transaction: neither side is paced and
\* each common part of the target covers the incoming commit's predecessor.
CanCoalesce(r, target, tx) ==
    /\ ~target.fifo /\ ~tx.fifo
    /\ \A p \in DOMAIN tx.nodes \cap DOMAIN target.nodes :
          target.nodes[p].commit = latest[r][p]

\* The transaction of a root that a newer commit may be merged into, and
\* those before it.
Last(q) == q[Len(q)]
Front(q) == SubSeq(q, 1, Len(q) - 1)

\* The outcome of merge_or_queue_surface_tree_transaction for the incoming
\* transaction: merge it into the last one of its root, or queue it.
Merges(r, tx) ==
    LET q == pending[r] IN
    /\ q # <<>>
    /\ ~(HasAttachment(tx) /\ Ready(r, Last(q)))
    /\ CanCoalesce(r, Last(q), tx)
    /\ ~(Len(q) = 1 /\ ReplacesProgressAcquire(Last(q), tx))

\* merge_surface_tree_nodes_into_transaction
Merged(target, tx, replaced) ==
    [nodes |-> [p \in DOMAIN target.nodes \cup DOMAIN tx.nodes |->
        IF p \notin DOMAIN tx.nodes THEN target.nodes[p]
        ELSE IF p \notin DOMAIN target.nodes \/ tx.nodes[p].att # NoBuffer
             THEN tx.nodes[p]
             ELSE [commit |-> tx.nodes[p].commit, att |-> target.nodes[p].att]],
     deps |-> (target.deps \ replaced) \cup tx.deps,
     fifo |-> FALSE, kind |-> target.kind]

\* Mutant: a bufferless update counts as a replacement too.
ReplacedAlways(target, tx) ==
    {b \in BuffersOf(target) : b[2] \in DOMAIN tx.nodes}
\* The buffers of the target that the incoming commit replaces.
Replaced(target, tx) ==
    {b \in BuffersOf(target) : /\ b[2] \in DOMAIN tx.nodes
                               /\ tx.nodes[b[2]].att # NoBuffer}

\* The merge path, commit_ready included when the result is ready or the
\* commit attached nothing.  A merged tree that fails validation is released
\* and its client is in error.  A migration ends with a commit_ready always.
MergeTree(r, tx, valid) ==
    LET target == Last(pending[r])
        replaced == Replaced(target, tx)
        superseded == target.deps \cap replaced
        merged == Merged(target, tx, replaced)
        rest == Front(pending[r])
        migrated == tx.kind = "migration"
        R == IF migrated \/ Ready(r, merged) \/ ~HasAttachment(tx) THEN Roots ELSE {}
    IN /\ registers' = registers \cup tx.deps
       /\ IF valid
          THEN /\ UNCHANGED life
               /\ CommitReady(R, [pending EXCEPT ![r] = Append(rest, merged)],
                              replaced, superseded)
          ELSE /\ life' = [life EXCEPT ![r] = "terminal"]
               /\ CommitReady(IF migrated THEN Roots ELSE {},
                              [pending EXCEPT ![r] = rest],
                              replaced \cup BuffersOf(merged),
                              superseded \cup merged.deps)
       /\ UNCHANGED exhausted

\* The limit test of queue_waiting_surface_tree_parts, after the ready
\* transactions are published.
Full(r, q) == Len(q) - ReadyPrefix(r, q) >= QueueLimit

\* Mutant: the limit test is off by one.
RefusesLate(r, tx) ==
    tx.kind = "client" /\ Len(pending[r]) - ReadyPrefix(r, pending[r]) > QueueLimit
\* Only a commit the client makes is refused: migrated work was admitted
\* when it was cached.
Refuses(r, tx) == tx.kind = "client" /\ Full(r, pending[r])

\* queue_waiting_surface_tree_parts and the commit_ready of its callers: a
\* queue that is still full after its ready transactions are published
\* refuses the commit, and its client is to be killed.
QueueTree(r, tx) ==
    LET q == pending[r]
    IN /\ UNCHANGED life
       /\ IF Refuses(r, tx)
          THEN /\ CommitReady(Roots, pending, BuffersOf(tx), {})
               /\ exhausted' = exhausted \cup {r}
               /\ UNCHANGED registers
          ELSE /\ CommitReady(IF q = <<>> /\ tx.kind = "client" THEN {r} ELSE Roots,
                              [pending EXCEPT ![r] = Append(q, tx)], {}, {})
               /\ registers' = registers \cup tx.deps
               /\ UNCHANGED exhausted

\* submit_surface_tree_nodes_with_kind: an update of the tree of r, merged
\* into the last waiting transaction or queued.
Submit(r, kind) ==
    /\ life[r] = "live" /\ next <= MaxCommit
    /\ \E update \in Updates(kind), fifo \in BOOLEAN, valid \in BOOLEAN :
          LET tx == Incoming(update, fifo, kind) IN
          /\ IF Merges(r, tx) THEN MergeTree(r, tx, valid)
                              ELSE valid /\ QueueTree(r, tx)
          /\ latest' = [latest EXCEPT ![r] = [p \in Parts |->
                           IF p \in DOMAIN tx.nodes THEN next ELSE @[p]]]
          /\ signaled' = signaled \cup (BuffersOf(tx) \ tx.deps)
    /\ next' = next + 1

\* A client commits an update of its tree.
Commit(r) == Submit(r, "client")

\* set_desync, or the end of the subsurface role: the surface r is no longer
\* synchronized and the commit it cached is submitted for a tree of its own
\* (reclassify_unreachable_synchronized_commits).  The commits of r that may
\* be merged are merged in the cache, so one is left unless pacing keeps
\* them apart; then each one is a step.
Migrate(r) == Submit(r, "migration")

\* Mutant: the acquires of the released transactions are not cancelled.
CancelTreesSilent(r) ==
    /\ pending' = [pending EXCEPT ![r] = <<>>]
    /\ freed' = freed \cup Buffers(pending[r])
    /\ UNCHANGED <<latest, shown, out, registers, cancels, signaled, next>>
\* cancel_pending_surface_trees_for_root / _for_surface: every queued
\* transaction of the root is released, its unready acquires are cancelled.
CancelTrees(r) ==
    /\ pending' = [pending EXCEPT ![r] = <<>>]
    /\ cancels' = cancels \cup Waiting(pending[r])
    /\ freed' = freed \cup Buffers(pending[r])
    /\ UNCHANGED <<latest, shown, out, registers, signaled, next>>

\* A wl_buffer of a queued transaction, or the role of the root, is
\* destroyed: the surface itself lives on.
DestroyBuffer(r) ==
    /\ life[r] # "gone" /\ pending[r] # <<>>
    /\ CancelTrees(r)
    /\ UNCHANGED <<barrier, life, exhausted>>

\* The root surface is destroyed, by a request or because its client is gone.
DestroySurface(r) ==
    /\ life[r] # "gone"
    /\ CancelTrees(r)
    /\ life' = [life EXCEPT ![r] = "gone"]
    /\ barrier' = barrier \ {r}
    /\ UNCHANGED exhausted

\* kill_pending_resource_exhaustion_clients: the client is terminal at once,
\* its surfaces are destroyed later.
KillExhausted(r) ==
    /\ r \in exhausted
    /\ exhausted' = exhausted \ {r}
    /\ life' = [life EXCEPT ![r] = IF @ = "gone" THEN @ ELSE "terminal"]
    /\ UNCHANGED <<pending, latest, shown, out, freed, barrier, registers, cancels,
                   signaled, next>>

\* clear_fifo_barrier_claim: the barrier's frame was presented, or its
\* forward-progress deadline passed.
ClearBarrier(r) ==
    /\ r \in barrier
    /\ barrier' = barrier \ {r}
    /\ UNCHANGED <<pending, latest, shown, out, freed, life, exhausted,
                   registers, cancels, signaled, next>>

\* prepare_frame and progress_surface_pacing.
Progress ==
    /\ \E r \in Roots : ReadyPrefix(r, pending[r]) > 0
    /\ UNCHANGED life
    /\ CommitReady(Roots, pending, {}, {})
    /\ UNCHANGED <<latest, exhausted, registers, signaled, next>>

QueueInit ==
    /\ pending = [r \in Roots |-> <<>>]
    /\ latest = [r \in Roots |-> [p \in Parts |-> 0]]
    /\ shown = [r \in Roots |-> [p \in Parts |-> 0]]
    /\ out = {} /\ freed = {} /\ barrier = {} /\ exhausted = {}
    /\ life = [r \in Roots |-> "live"]
    /\ registers = {} /\ cancels = {} /\ signaled = {}
    /\ next = 1

\* mark_acquire_commit_ready for the acquires S.
Marked(S) ==
    [r \in Roots |-> [i \in DOMAIN pending[r] |->
        [pending[r][i] EXCEPT !.deps = @ \ S]]]

AllWaiting == UNION {Waiting(pending[r]) : r \in Roots}

\* The producer of a buffer signals its acquire point, whether or not the
\* transaction that attached the buffer is still there.
Signal ==
    /\ \E a \in (AllWaiting \cup freed) \ signaled : signaled' = signaled \cup {a}
    /\ UNCHANGED <<treeVars, registers, cancels, next>>

\* What the queue expects of the runtime: it takes the change list now and
\* then, and reports acquires ready only after they signalled.
Deliver ==
    /\ \E ready \in SUBSET (AllWaiting \cap signaled) : pending' = Marked(ready)
    /\ \/ registers' = {} /\ cancels' = {}
       \/ UNCHANGED <<registers, cancels>>
    /\ UNCHANGED <<latest, shown, out, freed, barrier, life, exhausted, signaled, next>>

\* A request or event of the server, handled while the session is active or
\* suspended (dispatch_suspended_sources).
ServerStep ==
    \/ \E r \in Roots : \/ Commit(r)
                         \/ Migrate(r)
                         \/ DestroyBuffer(r)
                         \/ DestroySurface(r)
                         \/ KillExhausted(r)
                         \/ ClearBarrier(r)
    \/ Progress

QueueNext == ServerStep \/ Signal \/ Deliver

QueueSpec == QueueInit /\ [][QueueNext]_queueVars
-----------------------------------------------------------------------------
(***************************************************************************)
(* Properties                                                              *)
(***************************************************************************)
Acquires == (1 .. MaxCommit) \X Parts
Nodes == [commit : 1 .. MaxCommit, att : Acquires \cup {NoBuffer, RemoveContent}]

\* Every queued transaction has a node for its root, and every acquire it
\* waits for belongs to a buffer that the transaction still holds
\* (validate_surface_tree_transaction's premise for publishing it).
QueueTypeOK ==
    /\ \A r \in Roots : \A tx \in Range(pending[r]) :
          /\ "root" \in DOMAIN tx.nodes /\ DOMAIN tx.nodes \subseteq Parts
          /\ \A p \in DOMAIN tx.nodes : tx.nodes[p] \in Nodes
          /\ tx.deps \subseteq BuffersOf(tx)
          /\ tx.fifo \in BOOLEAN /\ tx.kind \in Kinds
    /\ latest \in [Roots -> [Parts -> 0 .. MaxCommit]]
    /\ shown \in [Roots -> [Parts -> 0 .. MaxCommit]]
    /\ out \cup freed \cup signaled \cup registers \cup cancels \subseteq Acquires
    /\ life \in [Roots -> {"live", "terminal", "gone"}]
    /\ barrier \subseteq Roots /\ exhausted \subseteq Roots

\* No buffer reaches the scene before its acquire point signalled, through
\* any sequence of merges, cancellations and partial deliveries.
PublishedReady == out \subseteq signaled

\* The commits of a surface are published in the order it made them: along a
\* root's queue, and after what is shown, the commits of each part increase.
\* The stale branch of publish_surface_tree_nodes is therefore never taken
\* by this queue.
QueueOrdered ==
    \A r \in Roots : \A i \in DOMAIN pending[r] :
        \A p \in DOMAIN pending[r][i].nodes :
            LET c == pending[r][i].nodes[p].commit IN
            /\ shown[r][p] < c /\ c <= latest[r][p]
            /\ \A j \in 1 .. i - 1 : p \in DOMAIN pending[r][j].nodes =>
                                        pending[r][j].nodes[p].commit < c

\* Every attached buffer is in one place: held by one queued transaction,
\* handed to the scene, or released.  So none is released twice, none is
\* released while it can still be shown, and none is lost.
BuffersPartition ==
    LET held == UNION {Buffers(pending[r]) : r \in Roots} IN
    /\ held \cap out = {} /\ held \cap freed = {} /\ out \cap freed = {}
    /\ signaled \cup registers \subseteq held \cup out \cup freed
    /\ \A r \in Roots : \A i, j \in DOMAIN pending[r] :
          i # j => BuffersOf(pending[r][i]) \cap BuffersOf(pending[r][j]) = {}

\* A Cancel is only ever sent for an acquire that nobody waits for any more,
\* and an acquire nobody waits for is one that is ready or was cancelled: the
\* registrations that are outstanding are waited for or about to be undone.
ChangesAgree ==
    /\ cancels \cap AllWaiting = {}
    /\ registers \subseteq AllWaiting \cup cancels \cup signaled

\* The limit holds for what clients submit: no commit of a client stands
\* deeper in the queue of its root than the limit.  Only migrated work, which
\* was admitted before ("Already-admitted work materialized after a
\* synchronization transition"), may stand behind it.
QueueBounded ==
    \A r \in Roots : \A i \in DOMAIN pending[r] :
        pending[r][i].kind = "client" => i <= QueueLimit

\* The queue's invariant: well formed, within its limit, and in order.
QueueInv == QueueTypeOK /\ QueueBounded /\ QueueOrdered

\* FIFO pacing: while a root's barrier is up none of its FIFO transactions is
\* published, and one pass of commit_ready publishes at most one of them.
FifoSpaced ==
    [][\A r \in Roots :
        LET Published == {i \in DOMAIN pending[r] :
                /\ pending[r][i].fifo
                /\ shown'[r]["root"] >= pending[r][i].nodes["root"].commit}
        IN /\ Cardinality(Published) <= 1
           /\ r \in barrier => Published = {}]_queueVars

\* A waiting head makes progress: a commit that needs another unsignalled
\* buffer never takes away the buffer the only queued transaction waits for
\* ("progress anchor must retain its pending buffer").
AnchorKept ==
    [][\A r \in Roots :
        (/\ next' # next /\ Len(pending[r]) = 1 /\ ~pending[r][1].fifo
         /\ life'[r] = "live" /\ pending'[r] # <<>>) =>
        \A a \in pending[r][1].deps :
            \/ a \in pending'[r][1].deps
            \/ \A b \in pending'[r][1].deps : b[2] # a[2]]_queueVars
=============================================================================
