--------------------- MODULE SurfaceTransactionsProofs ---------------------
(***************************************************************************)
(* The queue of surface-tree transactions is right for every set of roots, *)
(* every limit and every number of commits.                                *)
(*                                                                         *)
(* The checked invariants speak of what was published and of which buffers *)
(* are where; a step preserves them only because of what the queue looks   *)
(* like.  ClientInv adds it: Ordered, that a transaction carries newer     *)
(* commits than what is shown and than every transaction before it, Apart, *)
(* that no two transactions carry the same buffer, and Settled, that the   *)
(* buffers which are queued, handed out and freed are disjoint and that    *)
(* the change list agrees with what is waited for.                         *)
(*                                                                         *)
(* The steps are compositions of four changes to the queues, and each has  *)
(* its lemmas: Push and Pop at the end of one queue, Cut at the beginning  *)
(* of any of them (a publishing pass, a cancellation) and Marked (acquires *)
(* reported ready).                                                        *)
(***************************************************************************)
EXTENDS SurfaceTransactions, TLAPS, WellFoundedInduction

\* The well-formed transactions: a node for the root, every acquire that is
\* waited for belongs to a buffer, and a buffer is that of its own part.
Shapes == [nodes : UNION {[D -> Nodes] : D \in SUBSET Parts},
           deps : SUBSET Acquires, fifo : BOOLEAN, kind : Kinds]
Trees ==
    {tx \in Shapes :
        /\ "root" \in DOMAIN tx.nodes
        /\ tx.deps \subseteq BuffersOf(tx)
        /\ \A p \in DOMAIN tx.nodes :
              tx.nodes[p].att \in Acquires => tx.nodes[p].att[2] = p}

-----------------------------------------------------------------------------
(* Small sets *)

\* The empty set has cardinality zero.
LEMMA Emptiness == Cardinality({}) = 0
<1> DEFINE Fn(CS) == [T \in SUBSET {} |-> IF T = {} THEN 0 ELSE 1 + CS[T \ {CHOOSE x : x \in T}]]
           CS == CHOOSE CS : CS = Fn(CS)
           g == [T \in SUBSET {} |-> 0]
<1>1. Cardinality({}) = CS[{}] BY DEF Cardinality
<1>2. SUBSET {} = {{}} OBVIOUS
<1>3. g = Fn(g) BY Zenon, <1>2
<1>4. CS = Fn(CS)
  <2>1. \E f : f = Fn(f) BY Zenon, <1>3
  <2> HIDE DEF Fn
  <2> QED BY Zenon, <2>1
<1> HIDE DEF CS
<1>5. CS[{}] = 0 BY Zenon, <1>2, <1>4
<1> QED BY Zenon, <1>1, <1>5

\* A set of one element has cardinality one.
LEMMA Singleton == ASSUME NEW p PROVE Cardinality({p}) = 1
<1> DEFINE S == {p}
           Fn(CS) == [T \in SUBSET S |-> IF T = {} THEN 0 ELSE 1 + CS[T \ {CHOOSE x : x \in T}]]
           CS == CHOOSE CS : CS = Fn(CS)
           g == [T \in SUBSET S |-> IF T = {} THEN 0 ELSE 1]
<1>1. Cardinality(S) = CS[S] BY DEF Cardinality
<1>2. SUBSET S = {{}, S} /\ {} # S OBVIOUS
<1>3. (CHOOSE x : x \in S) = p
  <2>1. \E x : x \in S OBVIOUS
  <2>2. (CHOOSE x : x \in S) \in S BY Zenon, <2>1
  <2> QED BY <2>2
<1>4. S \ {CHOOSE x : x \in S} = {} BY <1>3
<1>5. g = Fn(g)
  <2>1. g[{}] = 0 BY <1>2
  <2>2. \A T \in SUBSET S : (IF T = {} THEN 0 ELSE 1) = IF T = {} THEN 0 ELSE 1 + g[T \ {CHOOSE x : x \in T}]
    <3> HIDE DEF g
    <3>1. 1 = 1 + g[S \ {CHOOSE x : x \in S}] BY <1>4, <2>1
    <3> HIDE DEF S
    <3> QED BY Zenon, <1>2, <3>1
  <2> QED BY Zenon, <2>2
<1>6. CS = Fn(CS)
  <2>1. \E f : f = Fn(f) BY Zenon, <1>5
  <2> HIDE DEF Fn
  <2> QED BY Zenon, <2>1
<1> HIDE DEF CS
<1>7. \A T \in SUBSET S : CS[T] = IF T = {} THEN 0 ELSE 1 + CS[T \ {CHOOSE x : x \in T}] BY Zenon, <1>6
<1>8. CS[{}] = 0 BY Zenon, <1>2, <1>7
<1>9. CS[S] = 1 + CS[S \ {CHOOSE x : x \in S}]
  <2> HIDE DEF S
  <2> QED BY Zenon, <1>2, <1>7
<1>10. CS[S] = 1 + CS[{}] BY Zenon, <1>4, <1>9
<1> QED BY <1>1, <1>8, <1>10

-----------------------------------------------------------------------------
(* One transaction *)

\* What an attachment is.
LEMMA Attachments ==
  ASSUME NEW att \in Acquires \cup {NoBuffer, RemoveContent}
  PROVE /\ IsBuffer(att) <=> att \in Acquires
        /\ att \in Acquires => att # NoBuffer /\ att[1] \in 1..MaxCommit /\ att[2] \in Parts
BY QueueAssumption DEF Acquires, NoBuffer, RemoveContent, IsBuffer, Parts

\* The parts of a transaction's record.
LEMMA ShapeParts ==
  ASSUME NEW tx \in Shapes
  PROVE /\ DOMAIN tx.nodes \subseteq Parts
        /\ \A p \in DOMAIN tx.nodes : tx.nodes[p] \in Nodes
        /\ tx.deps \subseteq Acquires /\ tx.fifo \in BOOLEAN /\ tx.kind \in Kinds
<1>1. PICK D \in SUBSET Parts : tx.nodes \in [D -> Nodes]
  BY DEF Shapes
<1> QED BY <1>1 DEF Shapes

\* The parts of a node.
LEMMA NodeParts ==
  ASSUME NEW n \in Nodes
  PROVE n.commit \in 1..MaxCommit /\ n.att \in Acquires \cup {NoBuffer, RemoveContent}
BY DEF Nodes

\* The buffers of a record of the right shape.
LEMMA ShapeBuffers ==
  ASSUME NEW tx \in Shapes, NEW b
  PROVE b \in BuffersOf(tx) <=> b \in Acquires /\ \E p \in DOMAIN tx.nodes : tx.nodes[p].att = b
<1>1. \A p \in DOMAIN tx.nodes : tx.nodes[p].att \in Acquires \cup {NoBuffer, RemoveContent}
  BY Zenon, ShapeParts, NodeParts
<1>2. \A p \in DOMAIN tx.nodes : IsBuffer(tx.nodes[p].att) <=> tx.nodes[p].att \in Acquires
  BY Zenon, <1>1, Attachments
<1> QED BY Zenon, <1>2 DEF BuffersOf

\* The buffers of a well-formed transaction, by their part.
LEMMA TreeBuffers ==
  ASSUME NEW tx \in Trees, NEW b
  PROVE /\ tx \in Shapes
        /\ b \in BuffersOf(tx) <=> /\ b \in Acquires /\ b[2] \in DOMAIN tx.nodes
                                   /\ tx.nodes[b[2]].att = b
        /\ tx.deps \subseteq BuffersOf(tx) /\ BuffersOf(tx) \subseteq Acquires
        /\ "root" \in DOMAIN tx.nodes
<1>1. tx \in Shapes BY Zenon DEF Trees
<1>2. \A p \in DOMAIN tx.nodes : tx.nodes[p].att \in Acquires => tx.nodes[p].att[2] = p
  BY Zenon DEF Trees
<1>3. b \in BuffersOf(tx) <=> b \in Acquires /\ \E p \in DOMAIN tx.nodes : tx.nodes[p].att = b
  BY Zenon, <1>1, ShapeBuffers
<1>4. BuffersOf(tx) \subseteq Acquires
  <2>1. \A x : x \in BuffersOf(tx) => x \in Acquires BY Zenon, <1>1, ShapeBuffers
  <2> QED BY Zenon, <2>1
<1>5. tx.deps \subseteq BuffersOf(tx) /\ "root" \in DOMAIN tx.nodes
  BY Zenon DEF Trees
<1>6. b \in BuffersOf(tx) => /\ b \in Acquires /\ b[2] \in DOMAIN tx.nodes
                                   /\ tx.nodes[b[2]].att = b
  BY Zenon, <1>2, <1>3
<1> QED BY Zenon, <1>1, <1>3, <1>4, <1>5, <1>6

\* How a well-formed transaction is made.
LEMMA MakeTree ==
  ASSUME NEW D \in SUBSET Parts, NEW f \in [D -> Nodes], NEW ds, NEW fifo \in BOOLEAN, NEW kind \in Kinds,
         "root" \in D,
         \A p \in D : f[p].att \in Acquires => f[p].att[2] = p,
         \A d \in ds : d \in Acquires /\ \E p \in D : f[p].att = d
  PROVE [nodes |-> f, deps |-> ds, fifo |-> fifo, kind |-> kind] \in Trees
<1> DEFINE tx == [nodes |-> f, deps |-> ds, fifo |-> fifo, kind |-> kind]
<1>1. tx.nodes = f /\ tx.deps = ds /\ DOMAIN f = D OBVIOUS
<1>2. tx \in Shapes
  <2>1. ds \in SUBSET Acquires BY Zenon
  <2>2. f \in UNION {[E -> Nodes] : E \in SUBSET Parts} BY Zenon
  <2> QED BY <2>1, <2>2 DEF Shapes
<1> HIDE DEF tx
<1>3. \A d \in tx.deps : d \in BuffersOf(tx)
  BY <1>1, <1>2, ShapeBuffers
<1>4. tx \in Trees BY Zenon, <1>1, <1>2, <1>3 DEF Trees
<1> QED BY Zenon, <1>4 DEF tx

\* A commit becomes a well-formed transaction, all of it new.
LEMMA IncomingTree ==
  ASSUME NEW kind \in Kinds, NEW update \in Updates(kind), NEW fifo \in BOOLEAN, next \in 1..MaxCommit
  PROVE /\ Incoming(update, fifo, kind) \in Trees
        /\ Incoming(update, fifo, kind).fifo = fifo
        /\ \A p \in DOMAIN Incoming(update, fifo, kind).nodes : Incoming(update, fifo, kind).nodes[p].commit = next
        /\ \A b \in BuffersOf(Incoming(update, fifo, kind)) : b[1] = next
<1> DEFINE D == {p \in Parts : update[p] # "absent"}
           f == [p \in D |-> [commit |-> next, att |-> Attached(update[p], p)]]
           ds == {<<next, p>> : p \in {p \in D : update[p] = "wait"}}
           tx == Incoming(update, fifo, kind)
<1>1. tx = [nodes |-> f, deps |-> ds, fifo |-> fifo, kind |-> kind] BY Zenon DEF Incoming
<1>2. D \in SUBSET Parts /\ "root" \in D
  <2>1. update.root \in RootKinds \cup CachedKinds
    <3>1. CASE kind = "client" BY <3>1 DEF Updates
    <3>2. CASE kind # "client" BY <3>2 DEF Updates
    <3> QED BY Zenon, <3>1, <3>2
  <2>2. update.root # "absent" BY <2>1, QueueAssumption
  <2>3. update["root"] # "absent" BY Zenon, <2>2
  <2> QED BY Zenon, <2>3 DEF Parts
<1>3. \A p \in D : /\ Attached(update[p], p) \in {NoBuffer, RemoveContent, <<next, p>>}
                   /\ update[p] = "wait" => Attached(update[p], p) = <<next, p>>
  <2> TAKE p \in D
  <2>1. CASE update[p] = "none" BY <2>1 DEF Attached
  <2>2. CASE update[p] = "remove" BY <2>2 DEF Attached
  <2>3. CASE update[p] # "none" /\ update[p] # "remove" BY <2>3 DEF Attached
  <2> QED BY Zenon, <2>1, <2>2, <2>3
<1>4. \A p \in D : <<next, p>> \in Acquires /\ <<next, p>>[2] = p /\ <<next, p>>[1] = next
  BY DEF Acquires
<1>5. NoBuffer \notin Acquires /\ RemoveContent \notin Acquires
  BY DEF Acquires, NoBuffer, RemoveContent
<1>6. \A p \in D : /\ f[p].att = Attached(update[p], p) /\ f[p].commit = next
  BY Zenon
<1>7. f \in [D -> Nodes]
  <2> SUFFICES ASSUME NEW p \in D
               PROVE [commit |-> next, att |-> Attached(update[p], p)] \in Nodes
    BY Zenon
  <2>1. Attached(update[p], p) \in Acquires \cup {NoBuffer, RemoveContent} BY Zenon, <1>3, <1>4
  <2> QED BY Zenon, <2>1 DEF Nodes
<1> HIDE DEF f
<1>8. \A p \in D : f[p].att \in Acquires => f[p].att[2] = p /\ f[p].att[1] = next
  BY <1>3, <1>4, <1>5, <1>6
<1>9. \A d \in ds : d \in Acquires /\ \E p \in D : f[p].att = d
  BY <1>3, <1>4, <1>6
<1> HIDE DEF ds, D
<1>10. tx \in Trees BY <1>1, <1>2, <1>7, <1>8, <1>9, MakeTree
<1>11. tx.nodes = f /\ tx.fifo = fifo /\ DOMAIN f = D BY <1>1, <1>7
<1> HIDE DEF tx
<1>12. \A p \in DOMAIN tx.nodes : tx.nodes[p].commit = next BY Zenon, <1>6, <1>11
<1>13. \A b \in BuffersOf(tx) : b[1] = next
  <2> TAKE b \in BuffersOf(tx)
  <2>1. b \in Acquires /\ b[2] \in D /\ f[b[2]].att = b BY Zenon, <1>10, <1>11, TreeBuffers
  <2> QED BY Zenon, <2>1, <1>8
<1> QED BY Zenon, <1>10, <1>11, <1>12, <1>13 DEF tx


\* Merging: the replaced buffers leave the target, those of the commit join
\* it, and each node carries the newer commit.
Newer(target, tx, merged) ==
    \A p \in DOMAIN merged.nodes : merged.nodes[p].commit =
        IF p \in DOMAIN tx.nodes THEN tx.nodes[p].commit ELSE target.nodes[p].commit

\* Merging two transactions (merge_surface_tree_nodes_into_transaction) gives a
\* transaction with the nodes of both, the newer one's where both have one,
\* and the buffers of both but the replaced ones.
LEMMA MergedTree ==
  ASSUME NEW target \in Trees, NEW tx \in Trees
  PROVE LET replaced == Replaced(target, tx)
            merged == Merged(target, tx, replaced) IN
        /\ merged \in Trees
        /\ BuffersOf(merged) = (BuffersOf(target) \ replaced) \cup BuffersOf(tx)
        /\ merged.deps = (target.deps \ replaced) \cup tx.deps
        /\ DOMAIN merged.nodes = DOMAIN target.nodes \cup DOMAIN tx.nodes
        /\ Newer(target, tx, merged)
        /\ merged.fifo = FALSE /\ merged.kind = target.kind
<1> DEFINE replaced == Replaced(target, tx)
           merged == Merged(target, tx, replaced)
           D == DOMAIN target.nodes \cup DOMAIN tx.nodes
           f == [p \in D |->
                   IF p \notin DOMAIN tx.nodes THEN target.nodes[p]
                   ELSE IF p \notin DOMAIN target.nodes \/ tx.nodes[p].att # NoBuffer
                        THEN tx.nodes[p]
                        ELSE [commit |-> tx.nodes[p].commit, att |-> target.nodes[p].att]]
           ds == (target.deps \ replaced) \cup tx.deps
           no == FALSE
           kind == target.kind
<1>1. merged = [nodes |-> f, deps |-> ds, fifo |-> no, kind |-> kind] BY Zenon DEF Merged
<1>2. target \in Shapes /\ tx \in Shapes BY Zenon DEF Trees
<1>3. D \in SUBSET Parts /\ "root" \in D BY Zenon, <1>2, ShapeParts, TreeBuffers
<1>4. /\ \A p \in DOMAIN target.nodes : target.nodes[p] \in Nodes
      /\ \A p \in DOMAIN tx.nodes : tx.nodes[p] \in Nodes
  BY Zenon, <1>2, ShapeParts
<1>5. \A p \in D : p \notin DOMAIN tx.nodes => f[p] = target.nodes[p] BY Zenon
<1>6. \A p \in DOMAIN tx.nodes : p \notin DOMAIN target.nodes \/ tx.nodes[p].att # NoBuffer
                                    => f[p] = tx.nodes[p]
  BY Zenon
<1>7. \A p \in DOMAIN tx.nodes : ~(p \notin DOMAIN target.nodes \/ tx.nodes[p].att # NoBuffer)
                                    => f[p] = [commit |-> tx.nodes[p].commit, att |-> target.nodes[p].att]
  BY Zenon
<1>8. \A p \in D : f[p] \in Nodes
  <2> TAKE p \in D
  <2>1. CASE p \notin DOMAIN tx.nodes BY Zenon, <2>1, <1>4, <1>5
  <2>2. CASE p \in DOMAIN tx.nodes /\ (p \notin DOMAIN target.nodes \/ tx.nodes[p].att # NoBuffer)
    BY Zenon, <2>2, <1>4, <1>6
  <2>3. CASE p \in DOMAIN tx.nodes /\ ~(p \notin DOMAIN target.nodes \/ tx.nodes[p].att # NoBuffer)
    <3>1. f[p] = [commit |-> tx.nodes[p].commit, att |-> target.nodes[p].att] BY Zenon, <2>3, <1>7
    <3>2. tx.nodes[p] \in Nodes /\ target.nodes[p] \in Nodes BY Zenon, <2>3, <1>4
    <3> QED BY Zenon, <3>1, <3>2, NodeParts DEF Nodes
  <2> QED BY Zenon, <2>1, <2>2, <2>3
<1>9. f \in [D -> Nodes] BY Zenon, <1>8
<1>10. DOMAIN f = D OBVIOUS
<1>11. \A p \in D : f[p].commit =
          IF p \in DOMAIN tx.nodes THEN tx.nodes[p].commit ELSE target.nodes[p].commit
  BY Zenon, <1>5, <1>6, <1>7
<1>12. \A p \in D : f[p].att =
          IF p \in DOMAIN tx.nodes /\ (p \notin DOMAIN target.nodes \/ tx.nodes[p].att # NoBuffer)
          THEN tx.nodes[p].att ELSE target.nodes[p].att
  BY Zenon, <1>5, <1>6, <1>7
<1> HIDE DEF f
<1>13. NoBuffer \notin Acquires /\ \A b \in Acquires : b[2] \in Parts
  BY DEF Acquires, NoBuffer
<1>14. /\ \A b : b \in BuffersOf(target) <=> b \in Acquires /\ b[2] \in DOMAIN target.nodes
                                               /\ target.nodes[b[2]].att = b
       /\ \A b : b \in BuffersOf(tx) <=> b \in Acquires /\ b[2] \in DOMAIN tx.nodes
                                               /\ tx.nodes[b[2]].att = b
  BY Zenon, TreeBuffers
<1>15. \A b : b \in replaced <=> /\ b \in BuffersOf(target) /\ b[2] \in DOMAIN tx.nodes
                                 /\ tx.nodes[b[2]].att # NoBuffer
  BY Zenon DEF Replaced
<1>16. \A p \in D : f[p].att \in Acquires => f[p].att[2] = p
  <2>1. /\ \A p \in DOMAIN target.nodes : target.nodes[p].att \in Acquires => target.nodes[p].att[2] = p
        /\ \A p \in DOMAIN tx.nodes : tx.nodes[p].att \in Acquires => tx.nodes[p].att[2] = p
    BY Zenon DEF Trees
  <2> QED BY Zenon, <1>12, <2>1
<1> HIDE DEF replaced
<1>17. \A b \in Acquires :
          (b[2] \in D /\ f[b[2]].att = b)
             <=> (b \in BuffersOf(target) /\ b \notin replaced) \/ b \in BuffersOf(tx)
  <2> TAKE b \in Acquires
  <2>1. CASE b[2] \notin DOMAIN tx.nodes BY Zenon, <2>1, <1>12, <1>14, <1>15
  <2>2. CASE b[2] \in DOMAIN tx.nodes /\ tx.nodes[b[2]].att # NoBuffer
    BY Zenon, <2>2, <1>12, <1>14, <1>15
  <2>3. CASE b[2] \in DOMAIN tx.nodes /\ tx.nodes[b[2]].att = NoBuffer
    <3>1. b # NoBuffer BY Zenon, <1>13
    <3>2. b \notin BuffersOf(tx) BY Zenon, <2>3, <3>1, <1>14
    <3>3. CASE b[2] \in DOMAIN target.nodes
      BY Zenon, <2>3, <3>2, <3>3, <1>12, <1>14, <1>15
    <3>4. CASE b[2] \notin DOMAIN target.nodes
      BY Zenon, <2>3, <3>1, <3>2, <3>4, <1>12, <1>14
    <3> QED BY Zenon, <3>3, <3>4
  <2> QED BY Zenon, <2>1, <2>2, <2>3
<1>18. \A d \in ds : d \in Acquires /\ \E p \in D : f[p].att = d
  <2> TAKE d \in ds
  <2>1. (d \in BuffersOf(target) /\ d \notin replaced) \/ d \in BuffersOf(tx)
    BY Zenon, TreeBuffers
  <2>2. d \in Acquires BY Zenon, <2>1, <1>14
  <2> QED BY Zenon, <2>1, <2>2, <1>17
<1>k. kind \in Kinds BY Zenon, <1>2, ShapeParts
<1> HIDE DEF ds, D, no, kind
<1>19. merged \in Trees
  <2>1. no \in BOOLEAN BY DEF no
  <2> QED BY <2>1, <1>1, <1>3, <1>9, <1>16, <1>18, <1>k, MakeTree
<1>20. merged.nodes = f /\ merged.deps = ds /\ merged.fifo = no /\ merged.kind = kind BY <1>1
<1> HIDE DEF merged
<1>21. BuffersOf(merged) = (BuffersOf(target) \ replaced) \cup BuffersOf(tx)
  <2>1. \A b : b \in BuffersOf(merged) <=> b \in Acquires /\ b[2] \in D /\ f[b[2]].att = b
    BY Zenon, <1>10, <1>19, <1>20, TreeBuffers
  <2>2. \A b : b \in BuffersOf(target) \/ b \in BuffersOf(tx) => b \in Acquires BY Zenon, <1>14
  <2> QED BY Zenon, <2>1, <2>2, <1>17
<1>22. merged.fifo = FALSE /\ merged.kind = target.kind BY Zenon, <1>20 DEF no, kind
<1>23. Newer(target, tx, merged) BY Zenon, <1>10, <1>11, <1>20 DEF Newer
<1>24. merged.deps = (target.deps \ replaced) \cup tx.deps BY Zenon, <1>20 DEF ds
<1>25. DOMAIN merged.nodes = DOMAIN target.nodes \cup DOMAIN tx.nodes BY Zenon, <1>10, <1>20 DEF D
<1> QED BY Zenon, <1>19, <1>21, <1>22, <1>23, <1>24, <1>25 DEF merged, replaced


-----------------------------------------------------------------------------
(* A queue per root *)

Queues == [Roots -> Seq(Trees)]
Commits == [Roots -> [Parts -> 0 .. MaxCommit]]

\* The commits on the screen are numbers.
LEMMA CommitsInt == ASSUME NEW c \in Commits, NEW r \in Roots, NEW p \in Parts PROVE c[r][p] \in Int
BY DEF Commits

\* The buffers that are held and the acquires that are waited for.
HeldIn(pend) == UNION {Buffers(pend[r]) : r \in Roots}
WaitIn(pend) == UNION {Waiting(pend[r]) : r \in Roots}
Holds(pend, b) == \E r \in Roots : \E i \in 1..Len(pend[r]) : b \in BuffersOf(pend[r][i])
Awaits(pend, a) == \E r \in Roots : \E i \in 1..Len(pend[r]) : a \in pend[r][i].deps

\* Along each queue, after what is shown, the commits of each part increase.
Follows(pend, sh, r, i, p) ==
    LET c == pend[r][i].nodes[p].commit IN
    /\ sh[r][p] < c
    /\ \A j \in 1 .. i - 1 : p \in DOMAIN pend[r][j].nodes => pend[r][j].nodes[p].commit < c
Ordered(pend, sh, la) ==
    \A r \in Roots : \A i \in 1..Len(pend[r]) : \A p \in DOMAIN pend[r][i].nodes :
        Follows(pend, sh, r, i, p) /\ pend[r][i].nodes[p].commit <= la[r][p]

\* No two transactions, of one root or of two, share a buffer.
Apart(pend) ==
    \A r, s \in Roots : \A i \in 1..Len(pend[r]), j \in 1..Len(pend[s]) :
        \A b \in BuffersOf(pend[r][i]) : b \in BuffersOf(pend[s][j]) => r = s /\ i = j

QueueOK(pend, sh, la, nx) ==
    /\ pend \in Queues /\ sh \in Commits /\ la \in Commits /\ nx \in 1 .. MaxCommit + 1
    /\ \A r \in Roots : \A p \in Parts : sh[r][p] <= la[r][p] /\ la[r][p] < nx
    /\ Ordered(pend, sh, la)
    /\ Apart(pend)
    /\ \A r \in Roots : \A i \in 1..Len(pend[r]) : \A b \in BuffersOf(pend[r][i]) : b[1] < nx

\* The queue of a root is a sequence of well-formed transactions.
LEMMA QueueEntries ==
  ASSUME NEW pend \in Queues, NEW r \in Roots
  PROVE /\ pend[r] \in Seq(Trees) /\ Len(pend[r]) \in Nat /\ DOMAIN pend[r] = 1..Len(pend[r])
        /\ \A i \in 1..Len(pend[r]) : pend[r][i] \in Trees
BY DEF Queues

\* The two ways to say what is held and what is waited for.
LEMMA Members ==
  ASSUME NEW pend \in Queues
  PROVE /\ \A b : b \in HeldIn(pend) <=> Holds(pend, b)
        /\ \A b : b \in WaitIn(pend) <=> Awaits(pend, b)
<1>1. \A r \in Roots : DOMAIN pend[r] = 1..Len(pend[r]) BY Zenon, QueueEntries
<1>2. \A b : b \in HeldIn(pend) <=> Holds(pend, b)
  BY <1>1 DEF HeldIn, Holds, Buffers, Range
<1>3. \A b : b \in WaitIn(pend) <=> Awaits(pend, b)
  BY <1>1 DEF WaitIn, Awaits, Waiting, Range
<1> QED BY Zenon, <1>2, <1>3

\* What is waited for is held, and what is held is a buffer.
LEMMA WaitsHeld ==
  ASSUME NEW pend \in Queues
  PROVE /\ \A a : Awaits(pend, a) => Holds(pend, a)
        /\ \A b : Holds(pend, b) => b \in Acquires
<1>1. \A r \in Roots : \A i \in 1..Len(pend[r]) : pend[r][i] \in Trees BY Zenon, QueueEntries
<1>2. \A tx \in Trees : tx.deps \subseteq BuffersOf(tx) /\ BuffersOf(tx) \subseteq Acquires
  BY Zenon, TreeBuffers
<1> QED BY Zenon, <1>1, <1>2 DEF Awaits, Holds

\* A queue made from another by taking transactions off either end, with the
\* nodes of the others unchanged.
From(pend2, pend, cut) ==
    \A r \in Roots : \A j \in 1..Len(pend2[r]) :
        /\ j + cut[r] \in 1..Len(pend[r])
        /\ pend2[r][j].nodes = pend[r][j + cut[r]].nodes

\* A transaction that moved up a queue carries the buffers it carried.
LEMMA FromBuffers ==
  ASSUME NEW pend2, NEW pend, NEW cut, From(pend2, pend, cut),
         NEW r \in Roots, NEW j \in 1..Len(pend2[r])
  PROVE /\ j + cut[r] \in 1..Len(pend[r])
        /\ pend2[r][j].nodes = pend[r][j + cut[r]].nodes
        /\ BuffersOf(pend2[r][j]) = BuffersOf(pend[r][j + cut[r]])
BY Zenon DEF From, BuffersOf

\* Taking transactions away keeps the rest in order.
LEMMA FromOK ==
  ASSUME NEW pend, NEW sh, NEW la, NEW nx, QueueOK(pend, sh, la, nx),
         NEW pend2 \in Queues, NEW cut \in [Roots -> Nat], From(pend2, pend, cut),
         NEW sh2 \in Commits,
         \A r \in Roots : \A p \in Parts : sh2[r][p] <= la[r][p],
         \A r \in Roots : \A i \in 1..Len(pend2[r]) : \A p \in DOMAIN pend2[r][i].nodes :
            sh2[r][p] < pend2[r][i].nodes[p].commit
  PROVE QueueOK(pend2, sh2, la, nx)
<1>1. /\ pend \in Queues /\ la \in Commits /\ nx \in 1 .. MaxCommit + 1
      /\ \A r \in Roots : \A p \in Parts : la[r][p] < nx
      /\ Ordered(pend, sh, la)
      /\ Apart(pend)
      /\ \A r \in Roots : \A i \in 1..Len(pend[r]) : \A b \in BuffersOf(pend[r][i]) : b[1] < nx
  BY Zenon DEF QueueOK
<1>2. \A r \in Roots : cut[r] \in Nat OBVIOUS
<1>3. Ordered(pend2, sh2, la)
  <2> SUFFICES ASSUME NEW r \in Roots, NEW i \in 1..Len(pend2[r]), NEW p \in DOMAIN pend2[r][i].nodes
               PROVE Follows(pend2, sh2, r, i, p) /\ pend2[r][i].nodes[p].commit <= la[r][p]
    BY Zenon DEF Ordered
  <2> DEFINE k == i + cut[r]
  <2>1. k \in 1..Len(pend[r]) /\ pend2[r][i].nodes = pend[r][k].nodes BY FromBuffers
  <2>2. Follows(pend, sh, r, k, p) /\ pend[r][k].nodes[p].commit <= la[r][p]
    BY Zenon, <2>1, <1>1 DEF Ordered
  <2>3. ASSUME NEW j \in 1 .. i - 1, p \in DOMAIN pend2[r][j].nodes
        PROVE pend2[r][j].nodes[p].commit < pend2[r][i].nodes[p].commit
    <3>1. Len(pend2[r]) \in Nat /\ i \in Int BY QueueEntries
    <3>2. j \in 1..Len(pend2[r]) /\ j + cut[r] \in 1 .. k - 1 BY <3>1, <1>2
    <3>3. pend2[r][j].nodes = pend[r][j + cut[r]].nodes BY SMTT(30), <3>2, FromBuffers
    <3> QED BY Zenon, <2>1, <2>2, <2>3, <3>2, <3>3 DEF Follows
  <2> QED BY Zenon, <2>1, <2>2, <2>3 DEF Follows
<1>4. Apart(pend2)
  <2> SUFFICES ASSUME NEW r \in Roots, NEW s \in Roots, NEW i \in 1..Len(pend2[r]),
                      NEW j \in 1..Len(pend2[s]), NEW b \in BuffersOf(pend2[r][i]),
                      b \in BuffersOf(pend2[s][j])
               PROVE r = s /\ i = j
    BY Zenon DEF Apart
  <2>1. /\ i + cut[r] \in 1..Len(pend[r]) /\ j + cut[s] \in 1..Len(pend[s])
        /\ b \in BuffersOf(pend[r][i + cut[r]]) /\ b \in BuffersOf(pend[s][j + cut[s]])
    <3>1. /\ i + cut[r] \in 1..Len(pend[r])
          /\ BuffersOf(pend2[r][i]) = BuffersOf(pend[r][i + cut[r]])
      BY SMTT(30), FromBuffers
    <3>2. /\ j + cut[s] \in 1..Len(pend[s])
          /\ BuffersOf(pend2[s][j]) = BuffersOf(pend[s][j + cut[s]])
      BY FromBuffers
    <3> QED BY Zenon, <3>1, <3>2
  <2>2. r = s /\ i + cut[r] = j + cut[s] BY Zenon, <2>1, <1>1 DEF Apart
  <2> QED BY <2>2, <1>2
<1>5. \A r \in Roots : \A i \in 1..Len(pend2[r]) : \A b \in BuffersOf(pend2[r][i]) : b[1] < nx
  <2> TAKE r \in Roots
  <2> TAKE i \in 1..Len(pend2[r])
  <2>1. /\ i + cut[r] \in 1..Len(pend[r])
        /\ BuffersOf(pend2[r][i]) = BuffersOf(pend[r][i + cut[r]])
    BY FromBuffers
  <2> QED BY Zenon, <2>1, <1>1
<1> QED BY Zenon, <1>1, <1>3, <1>4, <1>5 DEF QueueOK

\* One transaction is added to the end of a root's queue.
Push(pend, r, tx) == [pend EXCEPT ![r] = Append(pend[r], tx)]

\* What a queue is after an Append.
LEMMA PushEntries ==
  ASSUME NEW pend \in Queues, NEW r \in Roots, NEW tx \in Trees
  PROVE /\ Push(pend, r, tx) \in Queues
        /\ \A s \in Roots : s # r => Push(pend, r, tx)[s] = pend[s]
        /\ Len(Push(pend, r, tx)[r]) = Len(pend[r]) + 1
        /\ \A i \in 1..Len(pend[r]) : Push(pend, r, tx)[r][i] = pend[r][i]
        /\ Push(pend, r, tx)[r][Len(pend[r]) + 1] = tx
<1>1. pend[r] \in Seq(Trees) BY Zenon, QueueEntries
<1>2. /\ Append(pend[r], tx) \in Seq(Trees)
      /\ Len(Append(pend[r], tx)) = Len(pend[r]) + 1
      /\ \A i \in 1..Len(pend[r]) : Append(pend[r], tx)[i] = pend[r][i]
      /\ Append(pend[r], tx)[Len(pend[r]) + 1] = tx
  BY <1>1
<1> DEFINE q == Append(pend[r], tx)
<1> HIDE DEF q
<1>3. [pend EXCEPT ![r] = q] \in Queues /\ [pend EXCEPT ![r] = q][r] = q
      /\ \A s \in Roots : s # r => [pend EXCEPT ![r] = q][s] = pend[s]
  <2>1. q \in Seq(Trees) BY Zenon, <1>2 DEF q
  <2> QED BY Zenon, <2>1 DEF Queues
<1> QED BY Zenon, <1>2, <1>3 DEF Push, q

\* Its parts.
LEMMA PushLen ==
  ASSUME NEW pend \in Queues, NEW r \in Roots, NEW tx \in Trees
  PROVE Len(Push(pend, r, tx)[r]) = Len(pend[r]) + 1
BY PushEntries

\* The queues of the other roots stay.
LEMMA PushOthers ==
  ASSUME NEW pend \in Queues, NEW r \in Roots, NEW tx \in Trees, NEW s \in Roots, s # r
  PROVE Push(pend, r, tx)[s] = pend[s]
BY PushEntries

\* So do the entries before the new one.
LEMMA PushBefore ==
  ASSUME NEW pend \in Queues, NEW r \in Roots, NEW tx \in Trees, NEW i \in 1..Len(pend[r])
  PROVE Push(pend, r, tx)[r][i] = pend[r][i]
BY PushEntries

\* Every index of the longer queue is an old one or the new one.
LEMMA PushCases ==
  ASSUME NEW pend \in Queues, NEW r \in Roots, NEW tx \in Trees, NEW s \in Roots,
         NEW i \in 1..Len(Push(pend, r, tx)[s])
  PROVE \/ i \in 1..Len(pend[s]) /\ Push(pend, r, tx)[s][i] = pend[s][i]
        \/ s = r /\ i = Len(pend[r]) + 1 /\ Push(pend, r, tx)[s][i] = tx
<1>1. CASE s # r BY <1>1, PushEntries
<1>2. CASE s = r
  <2>1. Len(pend[r]) \in Nat BY Zenon, QueueEntries
  <2>2. i \in 1..Len(pend[r]) + 1 BY <1>2, PushEntries
  <2>3. i \in 1..Len(pend[r]) \/ i = Len(pend[r]) + 1 BY <2>1, <2>2
  <2> QED BY <2>3, <1>2, PushEntries
<1> QED BY Zenon, <1>1, <1>2

\* An Append leaves the transactions that are queued in their places.
LEMMA PushOld ==
  ASSUME NEW pend \in Queues, NEW r \in Roots, NEW tx \in Trees, NEW s \in Roots,
         NEW i \in 1..Len(pend[s])
  PROVE i \in 1..Len(Push(pend, r, tx)[s]) /\ Push(pend, r, tx)[s][i] = pend[s][i]
<1>1. CASE s # r BY <1>1, PushEntries
<1>2. CASE s = r
  <2>1. Len(pend[r]) \in Nat BY Zenon, QueueEntries
  <2>2. i \in 1..Len(pend[r]) + 1 BY <1>2, <2>1
  <2> QED BY <2>2, <1>2, PushEntries
<1> QED BY Zenon, <1>1, <1>2

\* An Append adds the buffers and the waits of one transaction.
LEMMA PushMembers ==
  ASSUME NEW pend \in Queues, NEW r \in Roots, NEW tx \in Trees, NEW b
  PROVE /\ Holds(Push(pend, r, tx), b) <=> Holds(pend, b) \/ b \in BuffersOf(tx)
        /\ Awaits(Push(pend, r, tx), b) <=> Awaits(pend, b) \/ b \in tx.deps
<1> DEFINE n == Len(pend[r]) + 1
           pend2 == Push(pend, r, tx)
<1>1. n \in 1..Len(pend2[r]) /\ pend2[r][n] = tx
  <2>1. Len(pend[r]) \in Nat BY Zenon, QueueEntries
  <2>2. n \in 1..n BY <2>1
  <2> QED BY <2>2, PushEntries
<1>2. \A s \in Roots : \A i \in 1..Len(pend[s]) : i \in 1..Len(pend2[s]) /\ pend2[s][i] = pend[s][i]
  BY Zenon, PushOld
<1>3. \A s \in Roots : \A i \in 1..Len(pend2[s]) :
         (i \in 1..Len(pend[s]) /\ pend2[s][i] = pend[s][i]) \/ pend2[s][i] = tx
  BY PushCases
<1> HIDE DEF pend2, n
<1>4. Holds(pend2, b) <=> Holds(pend, b) \/ b \in BuffersOf(tx) BY Zenon, <1>1, <1>2, <1>3 DEF Holds
<1>5. Awaits(pend2, b) <=> Awaits(pend, b) \/ b \in tx.deps BY Zenon, <1>1, <1>2, <1>3 DEF Awaits
<1> QED BY Zenon, <1>4, <1>5 DEF pend2


\* A newer transaction with buffers of its own keeps the queue in order.
LEMMA PushOK ==
  ASSUME NEW pend, NEW sh, NEW la, NEW nx, QueueOK(pend, sh, la, nx),
         NEW r \in Roots, NEW tx \in Trees, NEW la2 \in Commits, NEW nx2 \in 1 .. MaxCommit + 1,
         nx <= nx2,
         \A s \in Roots : \A p \in Parts : la[s][p] <= la2[s][p] /\ la2[s][p] < nx2,
         \A p \in DOMAIN tx.nodes :
            /\ sh[r][p] < tx.nodes[p].commit /\ tx.nodes[p].commit <= la2[r][p]
            /\ \A j \in 1..Len(pend[r]) :
                  p \in DOMAIN pend[r][j].nodes => pend[r][j].nodes[p].commit < tx.nodes[p].commit,
         \A b \in BuffersOf(tx) : b[1] < nx2 /\ ~Holds(pend, b)
  PROVE QueueOK(Push(pend, r, tx), sh, la2, nx2)
<1> DEFINE pend2 == Push(pend, r, tx)
<1>1. /\ pend \in Queues /\ sh \in Commits /\ la \in Commits /\ nx \in 1 .. MaxCommit + 1
      /\ \A s \in Roots : \A p \in Parts : sh[s][p] <= la[s][p]
      /\ Ordered(pend, sh, la)
      /\ Apart(pend)
      /\ \A s \in Roots : \A i \in 1..Len(pend[s]) : \A b \in BuffersOf(pend[s][i]) : b[1] < nx
  BY Zenon DEF QueueOK
<1>2. pend2 \in Queues BY Zenon, <1>1, PushEntries
<1>3. /\ \A s \in Roots : \A i \in 1..Len(pend2[s]) :
            \/ i \in 1..Len(pend[s]) /\ pend2[s][i] = pend[s][i]
            \/ s = r /\ i = Len(pend[r]) + 1 /\ pend2[s][i] = tx
      /\ \A s \in Roots : \A i \in 1..Len(pend[s]) : i \in 1..Len(pend2[s]) /\ pend2[s][i] = pend[s][i]
  BY <1>1, PushCases, PushOld
<1>4. \A s \in Roots : Len(pend[s]) \in Nat BY Zenon, <1>1, QueueEntries
<1> HIDE DEF pend2
<1>5. \A s \in Roots : \A p \in Parts : sh[s][p] <= la2[s][p]
  <2> TAKE s \in Roots
  <2> TAKE p \in Parts
  <2>1. sh[s][p] \in Int /\ la[s][p] \in Int /\ la2[s][p] \in Int BY <1>1 DEF Commits
  <2> QED BY <2>1, <1>1
<1>6. ASSUME NEW s \in Roots, NEW i \in 1..Len(pend2[s]), NEW p \in DOMAIN pend2[s][i].nodes
      PROVE Follows(pend2, sh, s, i, p) /\ pend2[s][i].nodes[p].commit <= la2[s][p]
  <2>1. CASE i \in 1..Len(pend[s]) /\ pend2[s][i] = pend[s][i]
    <3>1. Follows(pend, sh, s, i, p) /\ pend[s][i].nodes[p].commit <= la[s][p]
      BY Zenon, <1>1, <1>6, <2>1 DEF Ordered
    <3>2. \A j \in 1..i-1 : pend2[s][j] = pend[s][j]
      <4> TAKE j \in 1..i-1
      <4>1. j \in 1..Len(pend[s]) BY <2>1, <1>4
      <4> QED BY Zenon, <4>1, <1>3
    <3>3. Follows(pend2, sh, s, i, p) BY Zenon, <3>1, <3>2, <2>1 DEF Follows
    <3>4. pend[s][i] \in Trees BY Zenon, <2>1, <1>1, QueueEntries
    <3>5. p \in Parts /\ pend[s][i].nodes[p] \in Nodes BY Zenon, <3>4, <2>1, <1>6, TreeBuffers, ShapeParts
    <3>6. pend[s][i].nodes[p].commit \in Int /\ la[s][p] \in Int /\ la2[s][p] \in Int /\ la[s][p] <= la2[s][p]
      BY SMTT(30), <3>5, <1>1, NodeParts DEF Commits
    <3>7. pend[s][i].nodes[p].commit <= la2[s][p] BY <3>1, <3>6
    <3> QED BY Zenon, <3>3, <3>7, <2>1
  <2>2. CASE s = r /\ i = Len(pend[r]) + 1 /\ pend2[s][i] = tx
    <3>1. \A j \in 1..i-1 : j \in 1..Len(pend[r]) BY <2>2, <1>4
    <3>2. \A j \in 1..i-1 : pend2[s][j] = pend[r][j] BY Zenon, <3>1, <1>3, <2>2
    <3> QED BY Zenon, <3>1, <3>2, <2>2, <1>6 DEF Follows
  <2> QED BY Zenon, <2>1, <2>2, <1>3
<1>7. Ordered(pend2, sh, la2) BY Zenon, <1>6 DEF Ordered
<1>8. \A b \in BuffersOf(tx) : \A s \in Roots : \A i \in 1..Len(pend[s]) : b \notin BuffersOf(pend[s][i])
  BY Zenon DEF Holds
<1>9. Apart(pend2)
  <2> SUFFICES ASSUME NEW s \in Roots, NEW t \in Roots, NEW i \in 1..Len(pend2[s]),
                      NEW j \in 1..Len(pend2[t]), NEW b \in BuffersOf(pend2[s][i]),
                      b \in BuffersOf(pend2[t][j])
               PROVE s = t /\ i = j
    BY Zenon DEF Apart
  <2>1. CASE pend2[s][i] = tx /\ s = r /\ i = Len(pend[r]) + 1 BY Zenon, <2>1, <1>3, <1>8
  <2>2. CASE i \in 1..Len(pend[s]) /\ pend2[s][i] = pend[s][i]
    <3>1. b \in BuffersOf(pend[s][i]) BY Zenon, <2>2
    <3>2. CASE j \in 1..Len(pend[t]) /\ pend2[t][j] = pend[t][j]
      <4>1. b \in BuffersOf(pend[t][j]) BY Zenon, <3>2
      <4>2. \A b2 \in BuffersOf(pend[s][i]) : b2 \in BuffersOf(pend[t][j]) => s = t /\ i = j
        <5>1. i \in 1..Len(pend[s]) /\ j \in 1..Len(pend[t]) BY Zenon, <2>2, <3>2
        <5> QED BY Zenon, <1>1, <5>1 DEF Apart
      <4> QED BY Zenon, <3>1, <4>1, <4>2
    <3>3. CASE pend2[t][j] = tx BY Zenon, <2>2, <3>1, <3>3, <1>8
    <3> QED BY Zenon, <3>2, <3>3, <1>3
  <2> QED BY ZenonT(60), <2>1, <2>2, <1>3
<1>10. \A s \in Roots : \A i \in 1..Len(pend2[s]) : \A b \in BuffersOf(pend2[s][i]) : b[1] < nx2
  <2> TAKE s \in Roots
  <2> TAKE i \in 1..Len(pend2[s])
  <2> TAKE b \in BuffersOf(pend2[s][i])
  <2>1. CASE pend2[s][i] = tx BY Zenon, <2>1
  <2>2. CASE i \in 1..Len(pend[s]) /\ pend2[s][i] = pend[s][i]
    <3>1. b[1] < nx BY Zenon, <2>2, <1>1
    <3>2. b \in Acquires BY Zenon, <2>2, <1>1, QueueEntries, TreeBuffers
    <3>3. b[1] \in Int BY <3>2 DEF Acquires
    <3> QED BY <3>1, <3>3, <1>1
  <2> QED BY Zenon, <2>1, <2>2, <1>3
<1>11. QueueOK(pend2, sh, la2, nx2) BY Zenon, <1>1, <1>2, <1>5, <1>7, <1>9, <1>10 DEF QueueOK
<1> QED BY Zenon, <1>11 DEF pend2

\* The last transaction of a root is taken off its queue.
Pop(pend, r) == [pend EXCEPT ![r] = Front(pend[r])]

\* What a queue is without its last transaction.
LEMMA PopEntries ==
  ASSUME NEW pend \in Queues, NEW r \in Roots, pend[r] # <<>>
  PROVE /\ Pop(pend, r) \in Queues
        /\ \A s \in Roots : s # r => Pop(pend, r)[s] = pend[s]
        /\ Len(pend[r]) \in 1..Len(pend[r])
        /\ Len(Pop(pend, r)[r]) = Len(pend[r]) - 1
        /\ \A i \in 1..Len(pend[r]) - 1 : i \in 1..Len(pend[r]) /\ Pop(pend, r)[r][i] = pend[r][i]
<1>1. pend[r] \in Seq(Trees) /\ Len(pend[r]) \in Nat BY Zenon, QueueEntries
<1>2. Len(pend[r]) > 0 BY <1>1
<1> DEFINE q == Front(pend[r])
<1>3. /\ q \in Seq(Trees)
      /\ Len(q) = Len(pend[r]) - 1
      /\ \A i \in 1..Len(pend[r]) - 1 : q[i] = pend[r][i]
  BY <1>1, <1>2 DEF Front
<1> HIDE DEF q
<1>4. [pend EXCEPT ![r] = q] \in Queues /\ [pend EXCEPT ![r] = q][r] = q
      /\ \A s \in Roots : s # r => [pend EXCEPT ![r] = q][s] = pend[s]
  BY Zenon, <1>3 DEF Queues
<1>5. /\ Len(pend[r]) \in 1..Len(pend[r])
      /\ \A i \in 1..Len(pend[r]) - 1 : i \in 1..Len(pend[r])
  BY <1>1, <1>2
<1> QED BY Zenon, <1>3, <1>4, <1>5 DEF Pop, q

\* Taking the last transaction off takes off its buffers and its waits, and
\* they are nowhere else in the queues.
LEMMA PopMembers ==
  ASSUME NEW pend \in Queues, NEW r \in Roots, pend[r] # <<>>, Apart(pend), NEW b
  PROVE LET target == Last(pend[r]) IN
        /\ target \in Trees /\ target = pend[r][Len(pend[r])]
        /\ Holds(pend, b) <=> Holds(Pop(pend, r), b) \/ b \in BuffersOf(target)
        /\ Awaits(pend, b) <=> Awaits(Pop(pend, r), b) \/ b \in target.deps
        /\ ~(Holds(Pop(pend, r), b) /\ b \in BuffersOf(target))
<1> DEFINE target == Last(pend[r])
           n == Len(pend[r])
           pend2 == Pop(pend, r)
<1>1. target = pend[r][n] /\ n \in 1..n /\ target \in Trees
  BY Zenon, PopEntries, QueueEntries DEF Last
<1>2. \A s \in Roots : \A i \in 1..Len(pend[s]) :
         \/ i \in 1..Len(pend2[s]) /\ pend2[s][i] = pend[s][i]
         \/ s = r /\ i = n
  <2> TAKE s \in Roots
  <2> TAKE i \in 1..Len(pend[s])
  <2>1. CASE s # r BY <2>1, PopEntries
  <2>2. CASE s = r
    <3>1. n \in Nat BY Zenon, QueueEntries
    <3>2. i \in 1..n-1 \/ i = n BY <3>1, <2>2
    <3> QED BY Zenon, <2>2, <3>2, PopEntries
  <2> QED BY Zenon, <2>1, <2>2
<1>3. \A s \in Roots : \A i \in 1..Len(pend2[s]) :
         i \in 1..Len(pend[s]) /\ pend2[s][i] = pend[s][i] /\ (s # r \/ i # n)
  <2> TAKE s \in Roots
  <2> TAKE i \in 1..Len(pend2[s])
  <2>1. CASE s # r BY <2>1, PopEntries
  <2>2. CASE s = r
    <3>1. n \in Nat BY Zenon, QueueEntries
    <3>2. i \in 1..n-1 BY Zenon, <2>2, PopEntries
    <3>3. i # n BY <3>1, <3>2
    <3> QED BY Zenon, <2>2, <3>2, <3>3, PopEntries
  <2> QED BY Zenon, <2>1, <2>2
<1> HIDE DEF pend2, n, target
<1>4. Holds(pend, b) <=> Holds(pend2, b) \/ b \in BuffersOf(target) BY Zenon, <1>1, <1>2, <1>3 DEF Holds, n
<1>5. Awaits(pend, b) <=> Awaits(pend2, b) \/ b \in target.deps BY Zenon, <1>1, <1>2, <1>3 DEF Awaits, n
<1>6. ~(Holds(pend2, b) /\ b \in BuffersOf(target))
  <2> SUFFICES ASSUME NEW s \in Roots, NEW i \in 1..Len(pend2[s]), b \in BuffersOf(pend2[s][i]),
                      b \in BuffersOf(target)
               PROVE FALSE
    BY Zenon DEF Holds
  <2>1. /\ i \in 1..Len(pend[s]) /\ b \in BuffersOf(pend[s][i]) /\ (s # r \/ i # n)
        /\ n \in 1..Len(pend[r]) /\ b \in BuffersOf(pend[r][n])
    BY Zenon, <1>1, <1>3 DEF n
  <2> QED BY Zenon, <2>1 DEF Apart
<1> QED BY Zenon, <1>1, <1>4, <1>5, <1>6 DEF pend2, target, n

\* The queues stay right without the last transaction of a root.
LEMMA PopOK ==
  ASSUME NEW pend, NEW sh, NEW la, NEW nx, QueueOK(pend, sh, la, nx), NEW r \in Roots, pend[r] # <<>>
  PROVE QueueOK(Pop(pend, r), sh, la, nx)
<1> DEFINE pend2 == Pop(pend, r)
           cut == [s \in Roots |-> 0]
<1>1. /\ pend \in Queues /\ sh \in Commits /\ Ordered(pend, sh, la)
      /\ \A s \in Roots : \A p \in Parts : sh[s][p] <= la[s][p]
  BY Zenon DEF QueueOK
<1>2. pend2 \in Queues BY Zenon, <1>1, PopEntries
<1>3. \A s \in Roots : \A i \in 1..Len(pend2[s]) : i \in 1..Len(pend[s]) /\ pend2[s][i] = pend[s][i]
  <2> TAKE s \in Roots
  <2> TAKE i \in 1..Len(pend2[s])
  <2>1. CASE s # r BY Zenon, <1>1, <2>1, PopEntries
  <2>2. CASE s = r BY SMTT(30), <1>1, <2>2, PopEntries
  <2> QED BY Zenon, <2>1, <2>2
<1> HIDE DEF pend2
<1>4. cut \in [Roots -> Nat] OBVIOUS
<1>5. \A s \in Roots : \A i \in 1..Len(pend2[s]) : i + cut[s] = i BY SMTT(30), <1>2, QueueEntries
<1>6. From(pend2, pend, cut) BY SMTT(30), <1>3, <1>5 DEF From
<1>7. \A s \in Roots : \A i \in 1..Len(pend2[s]) : \A p \in DOMAIN pend2[s][i].nodes :
            sh[s][p] < pend2[s][i].nodes[p].commit
  BY <1>1, <1>3 DEF Ordered, Follows
<1> HIDE DEF cut
<1>8. QueueOK(pend2, sh, la, nx) BY Zenon, <1>1, <1>2, <1>4, <1>6, <1>7, FromOK
<1> QED BY Zenon, <1>8 DEF pend2


\* The first cut[r] transactions of each root r are taken off its queue.
Cut(pend, cut) == [r \in Roots |-> Remaining(pend[r], cut[r])]
Within(pend, cut) == cut \in [Roots -> Nat] /\ \A r \in Roots : cut[r] <= Len(pend[r])
Gone(pend, cut, S) ==
    {b \in Acquires : \E r \in S : \E i \in 1..cut[r] : b \in BuffersOf(pend[r][i])}
GoneWaits(pend, cut, S) ==
    {b \in Acquires : \E r \in S : \E i \in 1..cut[r] : b \in pend[r][i].deps}

\* No commit of a client is deeper in its queue than the limit.
Bounded(pend) == \A r \in Roots : \A i \in 1..Len(pend[r]) : pend[r][i].kind = "client" => i <= QueueLimit
\* Every transaction of pend2 is one of pend that was k places deeper at least.
Advanced(pend, pend2, k) ==
    \A r \in Roots : \A j \in 1..Len(pend2[r]) : \E i \in 1..Len(pend[r]) :
        pend2[r][j].kind = pend[r][i].kind /\ j + k[r] <= i

\* What advances stays within the limit.
LEMMA AdvanceBounded ==
  ASSUME NEW pend \in Queues, NEW pend2 \in Queues, NEW k, \A r \in Roots : k[r] \in Nat,
         Bounded(pend), Advanced(pend, pend2, k)
  PROVE Bounded(pend2)
<1> SUFFICES ASSUME NEW r \in Roots, NEW j \in 1..Len(pend2[r]), pend2[r][j].kind = "client"
             PROVE j <= QueueLimit
  BY Zenon DEF Bounded
<1>1. PICK i \in 1..Len(pend[r]) : pend2[r][j].kind = pend[r][i].kind /\ j + k[r] <= i
  BY Zenon DEF Advanced
<1>2. i <= QueueLimit BY Zenon, <1>1 DEF Bounded
<1>3. Len(pend[r]) \in Nat /\ Len(pend2[r]) \in Nat /\ k[r] \in Nat /\ QueueLimit \in Nat
  BY QueueEntries, QueueAssumption
<1> QED BY SMTT(30), <1>1, <1>2, <1>3

\* Nothing stays of a queue all of which is taken.
LEMMA NothingLeft ==
  ASSUME NEW q \in Seq(Trees)
  PROVE SubSeq(q, Len(q) + 1, Len(q)) = <<>>
<1>1. /\ SubSeq(q, Len(q) + 1, Len(q)) \in Seq(Trees)
      /\ Len(SubSeq(q, Len(q) + 1, Len(q))) = 0
  OBVIOUS
<1> DEFINE s == SubSeq(q, Len(q) + 1, Len(q))
<1> HIDE DEF s
<1>2. s \in Seq(Trees) /\ Len(s) = 0 BY Zenon, <1>1 DEF s
<1>3. s = <<>> BY <1>2
<1> QED BY Zenon, <1>3 DEF s

\* What the queues are after their first transactions were taken.
LEMMA CutEntries ==
  ASSUME NEW pend \in Queues, NEW cut, Within(pend, cut)
  PROVE /\ Cut(pend, cut) \in Queues
        /\ \A r \in Roots : /\ Len(Cut(pend, cut)[r]) = Len(pend[r]) - cut[r]
                            /\ \A j \in 1..Len(pend[r]) - cut[r] : Cut(pend, cut)[r][j] = pend[r][j + cut[r]]
<1>1. ASSUME NEW r \in Roots
      PROVE /\ Remaining(pend[r], cut[r]) \in Seq(Trees)
            /\ Len(Remaining(pend[r], cut[r])) = Len(pend[r]) - cut[r]
            /\ \A j \in 1..Len(pend[r]) - cut[r] : Remaining(pend[r], cut[r])[j] = pend[r][j + cut[r]]
  <2>1. pend[r] \in Seq(Trees) /\ Len(pend[r]) \in Nat BY Zenon, QueueEntries
  <2>2. cut[r] \in Nat /\ cut[r] <= Len(pend[r]) BY DEF Within
  <2> DEFINE q == pend[r]
             c == cut[r]
  <2> HIDE DEF q, c
  <2>3. q \in Seq(Trees) /\ Len(q) \in Nat /\ c \in Nat /\ c <= Len(q) BY Zenon, <2>1, <2>2 DEF q, c
  <2>4. /\ SubSeq(q, c + 1, Len(q)) \in Seq(Trees)
        /\ Len(SubSeq(q, c + 1, Len(q))) = Len(q) - c
        /\ \A j \in 1..Len(q) - c : SubSeq(q, c + 1, Len(q))[j] = q[j + c]
    BY <2>3
  <2> QED BY Zenon, <2>4 DEF Remaining, q, c
<1> QED BY Zenon, <1>1 DEF Cut, Queues

\* Every old index is taken, or is an index of the rest.
LEMMA CutCases ==
  ASSUME NEW pend \in Queues, NEW cut, Within(pend, cut), NEW r \in Roots
  PROVE /\ \A i \in 1..Len(pend[r]) :
              \/ i \in 1..cut[r]
              \/ \E j \in 1..Len(Cut(pend, cut)[r]) : Cut(pend, cut)[r][j] = pend[r][i]
        /\ \A j \in 1..Len(Cut(pend, cut)[r]) :
              /\ j + cut[r] \in 1..Len(pend[r]) /\ j + cut[r] \notin 1..cut[r]
              /\ Cut(pend, cut)[r][j] = pend[r][j + cut[r]]
        /\ \A i \in 1..cut[r] : i \in 1..Len(pend[r])
<1> DEFINE pend2 == Cut(pend, cut)
<1>1. Len(pend2[r]) = Len(pend[r]) - cut[r] /\ \A j \in 1..Len(pend[r]) - cut[r] : pend2[r][j] = pend[r][j + cut[r]]
  BY Zenon, CutEntries
<1>2. Len(pend[r]) \in Nat /\ cut[r] \in Nat /\ cut[r] <= Len(pend[r])
  BY QueueEntries DEF Within
<1> HIDE DEF pend2
<1>3. ASSUME NEW i \in 1..Len(pend[r]), i \notin 1..cut[r]
      PROVE \E j \in 1..Len(pend2[r]) : pend2[r][j] = pend[r][i]
  <2> DEFINE j == i - cut[r]
  <2>1. j \in 1..Len(pend[r]) - cut[r] /\ j + cut[r] = i BY <1>2, <1>3
  <2> HIDE DEF j
  <2> QED BY Zenon, <2>1, <1>1
<1>4. ASSUME NEW j \in 1..Len(pend2[r])
      PROVE j + cut[r] \in 1..Len(pend[r]) /\ j + cut[r] \notin 1..cut[r]
  BY <1>1, <1>2
<1>5. \A i \in 1..cut[r] : i \in 1..Len(pend[r]) BY <1>2
<1> QED BY Zenon, <1>1, <1>3, <1>4, <1>5 DEF pend2

\* What is held before is held after or gone, never both.
LEMMA CutMembers ==
  ASSUME NEW pend \in Queues, NEW cut, Within(pend, cut), Apart(pend), NEW S \in SUBSET Roots, NEW b
  PROVE /\ Holds(pend, b) <=> \/ Holds(Cut(pend, cut), b) \/ b \in Gone(pend, cut, S)
                              \/ b \in Gone(pend, cut, Roots \ S)
        /\ Awaits(pend, b) <=> \/ Awaits(Cut(pend, cut), b) \/ b \in GoneWaits(pend, cut, S)
                               \/ b \in GoneWaits(pend, cut, Roots \ S)
        /\ ~(Holds(Cut(pend, cut), b) /\ b \in Gone(pend, cut, S))
        /\ ~(Holds(Cut(pend, cut), b) /\ b \in Gone(pend, cut, Roots \ S))
        /\ ~(b \in Gone(pend, cut, S) /\ b \in Gone(pend, cut, Roots \ S))
        /\ b \in GoneWaits(pend, cut, S) => b \in Gone(pend, cut, S)
        /\ b \in GoneWaits(pend, cut, Roots \ S) => b \in Gone(pend, cut, Roots \ S)
<1> DEFINE pend2 == Cut(pend, cut)
<1>1. /\ \A r \in Roots : \A i \in 1..Len(pend[r]) :
            i \in 1..cut[r] \/ \E j \in 1..Len(pend2[r]) : pend2[r][j] = pend[r][i]
      /\ \A r \in Roots : \A j \in 1..Len(pend2[r]) :
              /\ j + cut[r] \in 1..Len(pend[r]) /\ j + cut[r] \notin 1..cut[r]
              /\ pend2[r][j] = pend[r][j + cut[r]]
      /\ \A r \in Roots : \A i \in 1..cut[r] : i \in 1..Len(pend[r])
  BY CutCases
<1>2. \A r \in Roots : \A i \in 1..Len(pend[r]) :
         BuffersOf(pend[r][i]) \subseteq Acquires /\ pend[r][i].deps \subseteq BuffersOf(pend[r][i])
  BY Zenon, QueueEntries, TreeBuffers
<1> HIDE DEF pend2
<1>3. Holds(pend, b) <=> \/ Holds(pend2, b) \/ b \in Gone(pend, cut, S)
                         \/ b \in Gone(pend, cut, Roots \ S)
  <2>1. Holds(pend, b) => \/ Holds(pend2, b) \/ b \in Gone(pend, cut, S)
                          \/ b \in Gone(pend, cut, Roots \ S)
    <3> SUFFICES ASSUME NEW r \in Roots, NEW i \in 1..Len(pend[r]), b \in BuffersOf(pend[r][i])
                 PROVE \/ Holds(pend2, b) \/ b \in Gone(pend, cut, S)
                       \/ b \in Gone(pend, cut, Roots \ S)
      BY Zenon DEF Holds
    <3>1. b \in Acquires BY Zenon, <1>2
    <3>2. CASE i \in 1..cut[r] BY Zenon, <3>1, <3>2 DEF Gone
    <3>3. ASSUME NEW j \in 1..Len(pend2[r]), pend2[r][j] = pend[r][i] PROVE Holds(pend2, b)
      BY Zenon, <3>3 DEF Holds
    <3> QED BY Zenon, <3>2, <3>3, <1>1
  <2>2. Holds(pend2, b) => Holds(pend, b)
    <3> SUFFICES ASSUME NEW r \in Roots, NEW j \in 1..Len(pend2[r]), b \in BuffersOf(pend2[r][j])
                 PROVE Holds(pend, b)
      BY Zenon DEF Holds
    <3>1. j + cut[r] \in 1..Len(pend[r]) /\ b \in BuffersOf(pend[r][j + cut[r]]) BY Zenon, <1>1
    <3> QED BY Zenon, <3>1 DEF Holds
  <2>3. b \in Gone(pend, cut, S) \/ b \in Gone(pend, cut, Roots \ S) => Holds(pend, b)
    BY Zenon, <1>1 DEF Holds, Gone
  <2> QED BY Zenon, <2>1, <2>2, <2>3
<1>4. Awaits(pend, b) <=> \/ Awaits(pend2, b) \/ b \in GoneWaits(pend, cut, S)
                          \/ b \in GoneWaits(pend, cut, Roots \ S)
  <2>1. Awaits(pend, b) => \/ Awaits(pend2, b) \/ b \in GoneWaits(pend, cut, S)
                          \/ b \in GoneWaits(pend, cut, Roots \ S)
    <3> SUFFICES ASSUME NEW r \in Roots, NEW i \in 1..Len(pend[r]), b \in pend[r][i].deps
                 PROVE \/ Awaits(pend2, b) \/ b \in GoneWaits(pend, cut, S)
                       \/ b \in GoneWaits(pend, cut, Roots \ S)
      BY Zenon DEF Awaits
    <3>1. b \in Acquires BY Zenon, <1>2
    <3>2. CASE i \in 1..cut[r] BY Zenon, <3>1, <3>2 DEF GoneWaits
    <3>3. ASSUME NEW j \in 1..Len(pend2[r]), pend2[r][j] = pend[r][i] PROVE Awaits(pend2, b)
      BY Zenon, <3>3 DEF Awaits
    <3> QED BY Zenon, <3>2, <3>3, <1>1
  <2>2. Awaits(pend2, b) => Awaits(pend, b)
    <3> SUFFICES ASSUME NEW r \in Roots, NEW j \in 1..Len(pend2[r]), b \in pend2[r][j].deps
                 PROVE Awaits(pend, b)
      BY Zenon DEF Awaits
    <3>1. j + cut[r] \in 1..Len(pend[r]) /\ b \in pend[r][j + cut[r]].deps BY Zenon, <1>1
    <3> QED BY Zenon, <3>1 DEF Awaits
  <2>3. b \in GoneWaits(pend, cut, S) \/ b \in GoneWaits(pend, cut, Roots \ S) => Awaits(pend, b)
    BY Zenon, <1>1 DEF Awaits, GoneWaits
  <2> QED BY Zenon, <2>1, <2>2, <2>3
<1>5. \A T \in SUBSET Roots : ~(Holds(pend2, b) /\ b \in Gone(pend, cut, T))
  <2> SUFFICES ASSUME NEW T \in SUBSET Roots, NEW r \in Roots, NEW j \in 1..Len(pend2[r]),
                      b \in BuffersOf(pend2[r][j]), NEW s \in T, NEW i \in 1..cut[s],
                      b \in BuffersOf(pend[s][i])
               PROVE FALSE
    BY Zenon DEF Holds, Gone
  <2>1. /\ j + cut[r] \in 1..Len(pend[r]) /\ j + cut[r] \notin 1..cut[r]
        /\ b \in BuffersOf(pend[r][j + cut[r]])
    BY Zenon, <1>1
  <2>2. s \in Roots /\ i \in 1..Len(pend[s]) BY Zenon, <1>1
  <2>3. r = s /\ j + cut[r] = i BY Zenon, <2>1, <2>2 DEF Apart
  <2> QED BY Zenon, <2>1, <2>3
<1>6. ~(b \in Gone(pend, cut, S) /\ b \in Gone(pend, cut, Roots \ S))
  BY Zenon, <1>1 DEF Gone, Apart
<1>7. \A T \in SUBSET Roots : b \in GoneWaits(pend, cut, T) => b \in Gone(pend, cut, T)
  BY Zenon, <1>1, <1>2 DEF Gone, GoneWaits
<1>8. S \in SUBSET Roots /\ Roots \ S \in SUBSET Roots BY Zenon
<1> QED BY Zenon, <1>3, <1>4, <1>5, <1>6, <1>7, <1>8 DEF pend2

\* A queue stays in order when its first transactions are taken and no shown
\* commit gets past those that stay.
LEMMA CutOK ==
  ASSUME NEW pend, NEW sh, NEW la, NEW nx, QueueOK(pend, sh, la, nx),
         NEW cut, Within(pend, cut), NEW sh2 \in Commits,
         \A r \in Roots : \A p \in Parts : sh2[r][p] <= la[r][p],
         \A r \in Roots : \A i \in 1..Len(pend[r]) : i \notin 1..cut[r] =>
            \A p \in DOMAIN pend[r][i].nodes : sh2[r][p] < pend[r][i].nodes[p].commit
  PROVE QueueOK(Cut(pend, cut), sh2, la, nx)
<1> DEFINE pend2 == Cut(pend, cut)
<1>1. pend \in Queues BY Zenon DEF QueueOK
<1>2. pend2 \in Queues BY Zenon, <1>1, CutEntries
<1>3. cut \in [Roots -> Nat] BY Zenon DEF Within
<1>4. \A r \in Roots : \A j \in 1..Len(pend2[r]) :
              /\ j + cut[r] \in 1..Len(pend[r]) /\ j + cut[r] \notin 1..cut[r]
              /\ pend2[r][j] = pend[r][j + cut[r]]
  BY <1>1, CutCases
<1> HIDE DEF pend2
<1>5. From(pend2, pend, cut) BY Zenon, <1>4 DEF From
<1>6. \A r \in Roots : \A i \in 1..Len(pend2[r]) : \A p \in DOMAIN pend2[r][i].nodes :
            sh2[r][p] < pend2[r][i].nodes[p].commit
  <2> TAKE r \in Roots
  <2> TAKE i \in 1..Len(pend2[r])
  <2> TAKE p \in DOMAIN pend2[r][i].nodes
  <2>1. PICK k : k = i + cut[r] BY Zenon
  <2>2. k \in 1..Len(pend[r]) /\ k \notin 1..cut[r] /\ pend2[r][i] = pend[r][k] BY Zenon, <1>4, <2>1
  <2>3. p \in DOMAIN pend[r][k].nodes BY Zenon, <2>2
  <2>4. sh2[r][p] < pend[r][k].nodes[p].commit BY Zenon, <2>2, <2>3
  <2> QED BY Zenon, <2>2, <2>4
<1>7. QueueOK(pend2, sh2, la, nx) BY Zenon, <1>2, <1>3, <1>5, <1>6, FromOK
<1> QED BY Zenon, <1>7 DEF pend2


-----------------------------------------------------------------------------
(* Buffers and acquires *)

\* The acquires of commits before nx.
Old(nx) == {b \in Acquires : b[1] < nx}

\* Where a buffer is, and what is known of its acquire.
Accounted(pend, ou, fr, rg, ca, sg, b) ==
    /\ ~(Holds(pend, b) /\ b \in ou) /\ ~(Holds(pend, b) /\ b \in fr) /\ ~(b \in ou /\ b \in fr)
    /\ b \in sg \/ b \in rg => Holds(pend, b) \/ b \in ou \/ b \in fr
    /\ b \in ou => b \in sg
    /\ ~(b \in ca /\ Awaits(pend, b))
    /\ b \in rg => Awaits(pend, b) \/ b \in ca \/ b \in sg

\* The buffers of a queued transaction that it does not wait for have signalled.
TxReady(tx, sg) == \A b \in BuffersOf(tx) : b \in tx.deps \/ b \in sg

Settled(pend, ou, fr, rg, ca, sg, nx) ==
    /\ ou \subseteq Old(nx) /\ fr \subseteq Old(nx) /\ rg \subseteq Old(nx)
    /\ ca \subseteq Old(nx) /\ sg \subseteq Old(nx)
    /\ \A r \in Roots : \A i \in 1..Len(pend[r]) : TxReady(pend[r][i], sg)
    /\ \A b \in Acquires : Accounted(pend, ou, fr, rg, ca, sg, b)

\* What is held, of a queue in order, is old.
LEMMA HeldOld ==
  ASSUME NEW pend, NEW sh, NEW la, NEW nx, QueueOK(pend, sh, la, nx)
  PROVE /\ pend \in Queues /\ Apart(pend) /\ nx \in 1 .. MaxCommit + 1
        /\ \A b : Holds(pend, b) => b \in Old(nx)
        /\ \A a : Awaits(pend, a) => Holds(pend, a)
<1>1. /\ pend \in Queues /\ Apart(pend) /\ nx \in 1 .. MaxCommit + 1
      /\ \A r \in Roots : \A i \in 1..Len(pend[r]) : \A b \in BuffersOf(pend[r][i]) : b[1] < nx
  BY Zenon DEF QueueOK
<1>2. \A b : Holds(pend, b) => b[1] < nx BY Zenon, <1>1 DEF Holds
<1> QED BY Zenon, <1>1, <1>2, WaitsHeld DEF Old

\* Transactions are taken: those of the roots S are published, all of them
\* ready, and the others are released.
LEMMA CutSettled ==
  ASSUME NEW pend, NEW sh, NEW la, NEW nx, QueueOK(pend, sh, la, nx),
         NEW ou, NEW fr, NEW rg, NEW ca, NEW sg, Settled(pend, ou, fr, rg, ca, sg, nx),
         NEW cut, Within(pend, cut), NEW S \in SUBSET Roots,
         \A r \in S : \A i \in 1..cut[r] : pend[r][i].deps = {}
  PROVE Settled(Cut(pend, cut), ou \cup Gone(pend, cut, S), fr \cup Gone(pend, cut, Roots \ S),
                rg, ca \cup GoneWaits(pend, cut, Roots \ S), sg, nx)
<1> DEFINE pend2 == Cut(pend, cut)
           P == Gone(pend, cut, S)
           F == Gone(pend, cut, Roots \ S)
           C == GoneWaits(pend, cut, Roots \ S)
<1>1. /\ pend \in Queues /\ Apart(pend) /\ \A b : Holds(pend, b) => b \in Old(nx)
  BY Zenon, HeldOld
<1>2. /\ ou \subseteq Old(nx) /\ fr \subseteq Old(nx) /\ rg \subseteq Old(nx)
      /\ ca \subseteq Old(nx) /\ sg \subseteq Old(nx)
      /\ \A r \in Roots : \A i \in 1..Len(pend[r]) : TxReady(pend[r][i], sg)
      /\ \A b \in Acquires : Accounted(pend, ou, fr, rg, ca, sg, b)
  BY Zenon DEF Settled
<1>3. \A b : /\ Holds(pend, b) <=> \/ Holds(pend2, b) \/ b \in P \/ b \in F
             /\ Awaits(pend, b) <=> \/ Awaits(pend2, b) \/ b \in GoneWaits(pend, cut, S) \/ b \in C
             /\ ~(Holds(pend2, b) /\ b \in P) /\ ~(Holds(pend2, b) /\ b \in F) /\ ~(b \in P /\ b \in F)
             /\ b \in C => b \in F
  BY Zenon, <1>1, CutMembers
<1>4. \A b : b \notin GoneWaits(pend, cut, S) BY Zenon DEF GoneWaits
<1>5. pend2 \in Queues BY Zenon, <1>1, CutEntries
<1>6. \A b : Awaits(pend2, b) => Holds(pend2, b) BY Zenon, <1>5, WaitsHeld
<1>7. \A r \in Roots : /\ \A i \in 1..cut[r] : i \in 1..Len(pend[r])
                       /\ \A j \in 1..Len(pend2[r]) : /\ j + cut[r] \in 1..Len(pend[r])
                                                      /\ pend2[r][j] = pend[r][j + cut[r]]
  BY <1>1, CutCases
<1>8. \A b : b \in P => b \in sg BY Zenon, <1>2, <1>7 DEF Gone, TxReady
<1> HIDE DEF P, F, C, pend2
<1>9. \A r \in Roots : \A j \in 1..Len(pend2[r]) : TxReady(pend2[r][j], sg) BY Zenon, <1>2, <1>7
<1>10. \A b \in Acquires : Accounted(pend2, ou \cup P, fr \cup F, rg, ca \cup C, sg, b)
  <2> TAKE b \in Acquires
  <2>1. Accounted(pend, ou, fr, rg, ca, sg, b) BY Zenon, <1>2
  <2> QED BY Zenon, <2>1, <1>3, <1>4, <1>6, <1>8 DEF Accounted
<1>11. ou \cup P \subseteq Old(nx) /\ fr \cup F \subseteq Old(nx) /\ ca \cup C \subseteq Old(nx)
  BY Zenon, <1>1, <1>2, <1>3
<1>12. Settled(pend2, ou \cup P, fr \cup F, rg, ca \cup C, sg, nx)
  BY Zenon, <1>2, <1>9, <1>10, <1>11 DEF Settled
<1> QED BY Zenon, <1>12 DEF pend2, P, F, C

\* A commit is new: its buffers are nowhere yet.
Fresh(tx, nx) == \A b \in BuffersOf(tx) : b[1] = nx

\* The buffers of a new commit are not those of any earlier one.
LEMMA FreshNew ==
  ASSUME NEW tx \in Trees, NEW nx \in 1 .. MaxCommit, Fresh(tx, nx)
  PROVE /\ \A b \in BuffersOf(tx) : b \in Acquires /\ b \notin Old(nx) /\ b \in Old(nx + 1)
        /\ \A b \in tx.deps : b \in BuffersOf(tx)
        /\ Old(nx) \subseteq Old(nx + 1)
<1>1. \A b \in BuffersOf(tx) : b \in Acquires /\ b[1] = nx BY Zenon, TreeBuffers DEF Fresh
<1>2. \A b \in BuffersOf(tx) : b \notin Old(nx) /\ b \in Old(nx + 1) BY <1>1 DEF Old
<1>3. Old(nx) \subseteq Old(nx + 1) BY DEF Old, Acquires
<1> QED BY Zenon, <1>1, <1>2, <1>3, TreeBuffers

\* A commit is queued.
LEMMA PushSettled ==
  ASSUME NEW pend, NEW sh, NEW la, NEW nx \in 1 .. MaxCommit, QueueOK(pend, sh, la, nx),
         NEW ou, NEW fr, NEW rg, NEW ca, NEW sg, Settled(pend, ou, fr, rg, ca, sg, nx),
         NEW r \in Roots, NEW tx \in Trees, Fresh(tx, nx)
  PROVE Settled(Push(pend, r, tx), ou, fr, rg \cup tx.deps, ca, sg \cup (BuffersOf(tx) \ tx.deps), nx + 1)
<1> DEFINE pend2 == Push(pend, r, tx)
           sg2 == sg \cup (BuffersOf(tx) \ tx.deps)
<1>1. /\ pend \in Queues /\ \A b : Holds(pend, b) => b \in Old(nx)
      /\ \A b : Awaits(pend, b) => Holds(pend, b)
  BY Zenon, HeldOld
<1>2. /\ ou \subseteq Old(nx) /\ fr \subseteq Old(nx) /\ rg \subseteq Old(nx)
      /\ ca \subseteq Old(nx) /\ sg \subseteq Old(nx)
      /\ \A s \in Roots : \A i \in 1..Len(pend[s]) : TxReady(pend[s][i], sg)
      /\ \A b \in Acquires : Accounted(pend, ou, fr, rg, ca, sg, b)
  BY Zenon DEF Settled
<1>3. \A b : /\ Holds(pend2, b) <=> Holds(pend, b) \/ b \in BuffersOf(tx)
             /\ Awaits(pend2, b) <=> Awaits(pend, b) \/ b \in tx.deps
  BY Zenon, <1>1, PushMembers
<1>4. /\ \A b \in BuffersOf(tx) : b \in Acquires /\ b \notin Old(nx) /\ b \in Old(nx + 1)
      /\ \A b \in tx.deps : b \in BuffersOf(tx)
      /\ Old(nx) \subseteq Old(nx + 1)
  BY Zenon, FreshNew
<1>5. \A s \in Roots : \A i \in 1..Len(pend2[s]) :
         (i \in 1..Len(pend[s]) /\ pend2[s][i] = pend[s][i]) \/ pend2[s][i] = tx
  BY <1>1, PushCases
<1> HIDE DEF pend2
<1>6. \A s \in Roots : \A i \in 1..Len(pend2[s]) : TxReady(pend2[s][i], sg2)
  BY Zenon, <1>2, <1>5 DEF TxReady
<1>7. \A b \in Acquires : Accounted(pend2, ou, fr, rg \cup tx.deps, ca, sg2, b)
  <2> TAKE b \in Acquires
  <2>1. Accounted(pend, ou, fr, rg, ca, sg, b) BY Zenon, <1>2
  <2>2. CASE b \in BuffersOf(tx)
    <3>1. b \notin ou /\ b \notin fr /\ b \notin ca /\ b \notin rg /\ b \notin sg BY Zenon, <2>2, <1>2, <1>4
    <3> QED BY Zenon, <2>2, <3>1, <1>1, <1>3, <1>4 DEF Accounted
  <2>3. CASE b \notin BuffersOf(tx)
    <3>1. b \notin tx.deps BY Zenon, <2>3, <1>4
    <3>2. b \in sg2 <=> b \in sg BY Zenon, <2>3
    <3> QED BY Zenon, <2>1, <2>3, <3>1, <3>2, <1>3 DEF Accounted
  <2> QED BY Zenon, <2>2, <2>3
<1>8. /\ ou \subseteq Old(nx + 1) /\ fr \subseteq Old(nx + 1) /\ rg \cup tx.deps \subseteq Old(nx + 1)
      /\ ca \subseteq Old(nx + 1) /\ sg2 \subseteq Old(nx + 1)
  BY Zenon, <1>2, <1>4
<1> HIDE DEF sg2
<1>9. Settled(pend2, ou, fr, rg \cup tx.deps, ca, sg2, nx + 1)
  BY Zenon, <1>6, <1>7, <1>8 DEF Settled
<1> QED BY Zenon, <1>9 DEF pend2, sg2


\* What merging does to one buffer, with the names of merge_surface_tree_nodes_into_transaction.
MergeFacts(pend, r, tx, nx) ==
    LET target == Last(pend[r])
        replaced == Replaced(target, tx)
        merged == Merged(target, tx, replaced)
        rest == Pop(pend, r)
    IN /\ rest \in Queues /\ merged \in Trees
       /\ \A b : /\ Holds(pend, b) <=> Holds(rest, b) \/ b \in BuffersOf(target)
                 /\ Awaits(pend, b) <=> Awaits(rest, b) \/ b \in target.deps
                 /\ ~(Holds(rest, b) /\ b \in BuffersOf(target))
                 /\ b \in BuffersOf(merged) <=>
                       ((b \in BuffersOf(target) /\ b \notin replaced) \/ b \in BuffersOf(tx))
                 /\ b \in merged.deps <=> ((b \in target.deps /\ b \notin replaced) \/ b \in tx.deps)
                 /\ b \in replaced => b \in BuffersOf(target)
                 /\ b \in target.deps => b \in BuffersOf(target)
                 /\ Holds(pend, b) => b \in Old(nx)
                 /\ Awaits(rest, b) => Holds(rest, b)

\* A merge of a new commit into the last transaction of its root releases
\* exactly the buffers it replaces.
LEMMA MergeIsSo ==
  ASSUME NEW pend, NEW sh, NEW la, NEW nx, QueueOK(pend, sh, la, nx),
         NEW r \in Roots, pend[r] # <<>>, NEW tx \in Trees
  PROVE MergeFacts(pend, r, tx, nx) /\ Last(pend[r]) \in Trees
<1> DEFINE target == Last(pend[r])
           replaced == Replaced(target, tx)
           merged == Merged(target, tx, replaced)
           rest == Pop(pend, r)
<1>1. pend \in Queues /\ Apart(pend) /\ \A b : Holds(pend, b) => b \in Old(nx) BY Zenon, HeldOld
<1>2. rest \in Queues BY Zenon, <1>1, PopEntries
<1>3. \A b : /\ target \in Trees
             /\ Holds(pend, b) <=> Holds(rest, b) \/ b \in BuffersOf(target)
             /\ Awaits(pend, b) <=> Awaits(rest, b) \/ b \in target.deps
             /\ ~(Holds(rest, b) /\ b \in BuffersOf(target))
  BY Zenon, <1>1, PopMembers
<1>4. target \in Trees BY Zenon, <1>3
<1>5. /\ merged \in Trees
      /\ BuffersOf(merged) = (BuffersOf(target) \ replaced) \cup BuffersOf(tx)
      /\ merged.deps = (target.deps \ replaced) \cup tx.deps
  BY Zenon, <1>4, MergedTree
<1>6. \A b : b \in replaced => b \in BuffersOf(target) BY Zenon DEF Replaced
<1>7. target.deps \subseteq BuffersOf(target) BY Zenon, <1>4, TreeBuffers
<1>8. \A b : Awaits(rest, b) => Holds(rest, b) BY Zenon, <1>2, WaitsHeld
<1> HIDE DEF rest, merged, replaced, target
<1>9. \A b : /\ b \in BuffersOf(merged) <=>
                   ((b \in BuffersOf(target) /\ b \notin replaced) \/ b \in BuffersOf(tx))
             /\ b \in merged.deps <=> ((b \in target.deps /\ b \notin replaced) \/ b \in tx.deps)
  BY Zenon, <1>5
<1> QED BY Zenon, <1>1, <1>2, <1>3, <1>4, <1>5, <1>6, <1>7, <1>8, <1>9
       DEF MergeFacts, rest, merged, replaced, target

\* A commit is merged into the last transaction.
LEMMA MergeSettled ==
  ASSUME NEW pend, NEW sh, NEW la, NEW nx \in 1 .. MaxCommit, QueueOK(pend, sh, la, nx),
         NEW ou, NEW fr, NEW rg, NEW ca, NEW sg, Settled(pend, ou, fr, rg, ca, sg, nx),
         NEW r \in Roots, pend[r] # <<>>, NEW tx \in Trees, Fresh(tx, nx)
  PROVE LET target == Last(pend[r])
            replaced == Replaced(target, tx)
            merged == Merged(target, tx, replaced)
            sg2 == sg \cup (BuffersOf(tx) \ tx.deps) IN
        /\ Settled(Push(Pop(pend, r), r, merged), ou, fr \cup replaced, rg \cup tx.deps,
                   ca \cup (target.deps \cap replaced), sg2, nx + 1)
        /\ Settled(Pop(pend, r), ou, fr \cup replaced \cup BuffersOf(merged), rg \cup tx.deps,
                   ca \cup (target.deps \cap replaced) \cup merged.deps, sg2, nx + 1)
<1> DEFINE target == Last(pend[r])
           replaced == Replaced(target, tx)
           merged == Merged(target, tx, replaced)
           rest == Pop(pend, r)
           pend2 == Push(rest, r, merged)
           sg2 == sg \cup (BuffersOf(tx) \ tx.deps)
           fr2 == fr \cup replaced
           ca2 == ca \cup (target.deps \cap replaced)
           fr3 == fr \cup replaced \cup BuffersOf(merged)
           ca3 == ca \cup (target.deps \cap replaced) \cup merged.deps
           rg2 == rg \cup tx.deps
<1>1. MergeFacts(pend, r, tx, nx) BY Zenon, MergeIsSo
<1>2. /\ ou \subseteq Old(nx) /\ fr \subseteq Old(nx) /\ rg \subseteq Old(nx)
      /\ ca \subseteq Old(nx) /\ sg \subseteq Old(nx)
      /\ \A s \in Roots : \A i \in 1..Len(pend[s]) : TxReady(pend[s][i], sg)
      /\ \A b \in Acquires : Accounted(pend, ou, fr, rg, ca, sg, b)
  BY Zenon DEF Settled
<1>3. /\ \A b \in BuffersOf(tx) : b \in Acquires /\ b \notin Old(nx) /\ b \in Old(nx + 1)
      /\ \A b \in tx.deps : b \in BuffersOf(tx)
      /\ Old(nx) \subseteq Old(nx + 1)
  BY Zenon, FreshNew
<1>4. pend \in Queues BY Zenon DEF QueueOK
<1>5. rest \in Queues /\ merged \in Trees BY Zenon, <1>1 DEF MergeFacts
<1>6. /\ Len(pend[r]) \in 1..Len(pend[r]) /\ target = pend[r][Len(pend[r])]
      /\ \A s \in Roots : \A i \in 1..Len(rest[s]) : i \in 1..Len(pend[s]) /\ rest[s][i] = pend[s][i]
  <2>1. ASSUME NEW s \in Roots, NEW i \in 1..Len(rest[s])
        PROVE i \in 1..Len(pend[s]) /\ rest[s][i] = pend[s][i]
    <3>1. CASE s # r BY Zenon, <1>4, <2>1, <3>1, PopEntries
    <3>2. CASE s = r
      <4>1. /\ Len(rest[r]) = Len(pend[r]) - 1
            /\ \A n \in 1..Len(pend[r]) - 1 : n \in 1..Len(pend[r]) /\ rest[r][n] = pend[r][n]
        BY Zenon, <1>4, PopEntries
      <4>2. i \in 1..Len(pend[r]) - 1 BY Zenon, <2>1, <3>2, <4>1
      <4> QED BY Zenon, <3>2, <4>1, <4>2
    <3> QED BY Zenon, <3>1, <3>2
  <2> QED BY Zenon, <2>1, <1>4, PopEntries DEF Last
<1>7. \A b : /\ Holds(pend2, b) <=> Holds(rest, b) \/ b \in BuffersOf(merged)
             /\ Awaits(pend2, b) <=> Awaits(rest, b) \/ b \in merged.deps
  BY Zenon, <1>5, PushMembers
<1>8. \A s \in Roots : \A i \in 1..Len(pend2[s]) :
         (i \in 1..Len(rest[s]) /\ pend2[s][i] = rest[s][i]) \/ pend2[s][i] = merged
  BY <1>5, PushCases
<1>9. \A b :     /\ Holds(pend, b) <=> Holds(rest, b) \/ b \in BuffersOf(target)
                 /\ Awaits(pend, b) <=> Awaits(rest, b) \/ b \in target.deps
                 /\ ~(Holds(rest, b) /\ b \in BuffersOf(target))
                 /\ b \in BuffersOf(merged) <=>
                       ((b \in BuffersOf(target) /\ b \notin replaced) \/ b \in BuffersOf(tx))
                 /\ b \in merged.deps <=> ((b \in target.deps /\ b \notin replaced) \/ b \in tx.deps)
                 /\ b \in replaced => b \in BuffersOf(target)
                 /\ b \in target.deps => b \in BuffersOf(target)
                 /\ Holds(pend, b) => b \in Old(nx)
                 /\ Awaits(rest, b) => Holds(rest, b)
  BY Zenon, <1>1 DEF MergeFacts
<1> HIDE DEF pend2, rest, merged, replaced, target
<1>10. TxReady(merged, sg2)
  <2> SUFFICES ASSUME NEW b \in BuffersOf(merged), b \notin merged.deps PROVE b \in sg2
    BY Zenon DEF TxReady
  <2>1. CASE b \in BuffersOf(tx) BY Zenon, <2>1, <1>9
  <2>2. CASE b \in BuffersOf(target) /\ b \notin replaced
    <3>1. TxReady(target, sg) BY Zenon, <1>2, <1>6
    <3> QED BY Zenon, <2>2, <3>1, <1>9 DEF TxReady
  <2> QED BY Zenon, <2>1, <2>2, <1>9
<1>11. \A s \in Roots : \A i \in 1..Len(rest[s]) : TxReady(rest[s][i], sg2)
  BY Zenon, <1>2, <1>6 DEF TxReady
<1>12. \A s \in Roots : \A i \in 1..Len(pend2[s]) : TxReady(pend2[s][i], sg2)
  BY Zenon, <1>8, <1>10, <1>11
<1>13. ASSUME NEW b \in Acquires
       PROVE /\ Accounted(pend2, ou, fr2, rg2, ca2, sg2, b)
             /\ Accounted(rest, ou, fr3, rg2, ca3, sg2, b)
  <2>1. Accounted(pend, ou, fr, rg, ca, sg, b) BY Zenon, <1>2
  <2>2.          /\ Holds(pend2, b) <=> Holds(rest, b) \/ b \in BuffersOf(merged)
                 /\ Awaits(pend2, b) <=> Awaits(rest, b) \/ b \in merged.deps
                 /\ Holds(pend, b) <=> Holds(rest, b) \/ b \in BuffersOf(target)
                 /\ Awaits(pend, b) <=> Awaits(rest, b) \/ b \in target.deps
                 /\ ~(Holds(rest, b) /\ b \in BuffersOf(target))
                 /\ b \in BuffersOf(merged) <=>
                       ((b \in BuffersOf(target) /\ b \notin replaced) \/ b \in BuffersOf(tx))
                 /\ b \in merged.deps <=> ((b \in target.deps /\ b \notin replaced) \/ b \in tx.deps)
                 /\ b \in replaced => b \in BuffersOf(target)
                 /\ b \in target.deps => b \in BuffersOf(target)
                 /\ Holds(pend, b) => b \in Old(nx)
                 /\ Awaits(rest, b) => Holds(rest, b)
                 /\ b \in tx.deps => b \in BuffersOf(tx)
    BY Zenon, <1>3, <1>7, <1>9
  <2>3. CASE b \in BuffersOf(tx)
    <3>1. /\ b \notin ou /\ b \notin fr /\ b \notin ca /\ b \notin rg /\ b \notin sg
          /\ ~Holds(pend, b)
      BY Zenon, <2>3, <1>2, <1>3, <1>9
    <3>2. Accounted(pend2, ou, fr2, rg2, ca2, sg2, b) BY Zenon, <2>2, <2>3, <3>1 DEF Accounted
    <3>3. Accounted(rest, ou, fr3, rg2, ca3, sg2, b) BY Zenon, <2>2, <2>3, <3>1 DEF Accounted
    <3> QED BY Zenon, <3>2, <3>3
  <2>4. CASE b \notin BuffersOf(tx)
    <3>1. b \in sg2 <=> b \in sg BY Zenon, <2>4
    <3>2. b \in rg2 <=> b \in rg BY Zenon, <2>4, <1>3
    <3>3. /\ b \in fr2 <=> b \in fr \/ b \in replaced
          /\ b \in ca2 <=> b \in ca \/ (b \in target.deps /\ b \in replaced)
          /\ b \in fr3 <=> b \in fr \/ b \in BuffersOf(target)
          /\ b \in ca3 <=> b \in ca \/ b \in target.deps
      BY Zenon, <2>2, <2>4
    <3> HIDE DEF sg2, rg2, fr2, ca2, fr3, ca3
    <3>4. Accounted(pend2, ou, fr2, rg2, ca2, sg2, b) BY Zenon, <2>1, <2>2, <2>4, <3>1, <3>2, <3>3 DEF Accounted
    <3>5. Accounted(rest, ou, fr3, rg2, ca3, sg2, b) BY Zenon, <2>1, <2>2, <2>4, <3>1, <3>2, <3>3 DEF Accounted
    <3> QED BY Zenon, <3>4, <3>5
  <2> QED BY Zenon, <2>3, <2>4
<1>14. /\ ou \subseteq Old(nx + 1) /\ fr2 \subseteq Old(nx + 1) /\ fr3 \subseteq Old(nx + 1)
       /\ rg2 \subseteq Old(nx + 1) /\ sg2 \subseteq Old(nx + 1)
       /\ ca2 \subseteq Old(nx + 1) /\ ca3 \subseteq Old(nx + 1)
  <2>1. ou \subseteq Old(nx + 1) /\ rg2 \subseteq Old(nx + 1) /\ sg2 \subseteq Old(nx + 1)
    BY Zenon, <1>2, <1>3
  <2>2. \A b : b \in BuffersOf(merged) \/ b \in BuffersOf(target) \/ b \in merged.deps => b \in Old(nx + 1)
    BY Zenon, <1>3, <1>9
  <2>3. fr2 \subseteq Old(nx + 1) /\ fr3 \subseteq Old(nx + 1) BY Zenon, <1>2, <1>3, <1>9, <2>2
  <2>4. ca2 \subseteq Old(nx + 1) /\ ca3 \subseteq Old(nx + 1) BY Zenon, <1>2, <1>3, <1>9, <2>2
  <2> QED BY Zenon, <2>1, <2>3, <2>4
<1> HIDE DEF sg2, rg2, fr2, ca2, fr3, ca3
<1>15. Settled(pend2, ou, fr2, rg2, ca2, sg2, nx + 1)
  BY Zenon, <1>12, <1>13, <1>14 DEF Settled
<1>16. Settled(rest, ou, fr3, rg2, ca3, sg2, nx + 1)
  BY Zenon, <1>11, <1>13, <1>14 DEF Settled
<1> QED BY Zenon, <1>15, <1>16 DEF pend2, rest, merged, replaced, target, sg2, rg2, fr2, ca2, fr3, ca3

\* A commit is refused: its buffers are released at once.
LEMMA RefuseSettled ==
  ASSUME NEW pend, NEW sh, NEW la, NEW nx \in 1 .. MaxCommit, QueueOK(pend, sh, la, nx),
         NEW ou, NEW fr, NEW rg, NEW ca, NEW sg, Settled(pend, ou, fr, rg, ca, sg, nx),
         NEW tx \in Trees, Fresh(tx, nx)
  PROVE Settled(pend, ou, fr \cup BuffersOf(tx), rg, ca, sg \cup (BuffersOf(tx) \ tx.deps), nx + 1)
<1> DEFINE sg2 == sg \cup (BuffersOf(tx) \ tx.deps)
           fr2 == fr \cup BuffersOf(tx)
<1>1. /\ \A b : Holds(pend, b) => b \in Old(nx)
      /\ \A b : Awaits(pend, b) => Holds(pend, b)
  BY Zenon, HeldOld
<1>2. /\ ou \subseteq Old(nx) /\ fr \subseteq Old(nx) /\ rg \subseteq Old(nx)
      /\ ca \subseteq Old(nx) /\ sg \subseteq Old(nx)
      /\ \A s \in Roots : \A i \in 1..Len(pend[s]) : TxReady(pend[s][i], sg)
      /\ \A b \in Acquires : Accounted(pend, ou, fr, rg, ca, sg, b)
  BY Zenon DEF Settled
<1>3. /\ \A b \in BuffersOf(tx) : b \in Acquires /\ b \notin Old(nx) /\ b \in Old(nx + 1)
      /\ Old(nx) \subseteq Old(nx + 1)
  BY Zenon, FreshNew
<1>4. \A s \in Roots : \A i \in 1..Len(pend[s]) : TxReady(pend[s][i], sg2) BY Zenon, <1>2 DEF TxReady
<1>5. \A b \in Acquires : Accounted(pend, ou, fr2, rg, ca, sg2, b)
  <2> TAKE b \in Acquires
  <2>1. Accounted(pend, ou, fr, rg, ca, sg, b) BY Zenon, <1>2
  <2>2. CASE b \in BuffersOf(tx)
    <3>1. b \notin ou /\ b \notin ca /\ b \notin rg /\ ~Holds(pend, b) BY Zenon, <2>2, <1>1, <1>2, <1>3
    <3> QED BY Zenon, <2>2, <3>1, <1>1 DEF Accounted
  <2>3. CASE b \notin BuffersOf(tx) BY Zenon, <2>1, <2>3 DEF Accounted
  <2> QED BY Zenon, <2>2, <2>3
<1>6. /\ ou \subseteq Old(nx + 1) /\ fr2 \subseteq Old(nx + 1) /\ rg \subseteq Old(nx + 1)
      /\ ca \subseteq Old(nx + 1) /\ sg2 \subseteq Old(nx + 1)
  BY Zenon, <1>2, <1>3
<1> HIDE DEF sg2, fr2
<1>7. Settled(pend, ou, fr2, rg, ca, sg2, nx + 1) BY Zenon, <1>4, <1>5, <1>6 DEF Settled
<1> QED BY Zenon, <1>7 DEF sg2, fr2


-----------------------------------------------------------------------------
(* Publishing *)

\* A nonempty set of naturals has a least element.
LEMMA LeastNumber == ASSUME NEW S \in SUBSET Nat, S # {}
  PROVE \E n \in S : \A m \in S : n <= m
<1> DEFINE R == OpToRel(<, Nat)
<1>1. IsWellFoundedOn(R, Nat) BY NatLessThanWellFounded DEF OpToRel
<1>2. \A x, y \in Nat : x < y => <<x, y>> \in R BY DEF OpToRel
<1> HIDE DEF R
<1>3. PICK x \in S : \A y \in S : ~ (<<y, x>> \in R)
  BY Zenon, <1>1, WFMin
<1>4. \A y \in S : ~ (y < x) BY Zenon, <1>2, <1>3
<1>5. x \in Nat /\ \A y \in S : y \in Nat OBVIOUS
<1>6. \A y \in S : x <= y BY <1>4, <1>5
<1> QED BY Zenon, <1>6

\* A nonempty bounded set of naturals has a maximum.
LEMMA MaxMember ==
  ASSUME NEW N \in Nat, NEW S \in SUBSET (0..N), S # {}
  PROVE Max(S) \in S /\ \A y \in S : Max(S) >= y
<1> DEFINE U == {n \in Nat : N - n \in S}
<1>1. U # {}
  <2>1. PICK x \in S : TRUE BY Zenon
  <2>2. N - x \in Nat /\ N - (N - x) = x OBVIOUS
  <2>3. N - x \in U BY Zenon, <2>1, <2>2
  <2> QED BY Zenon, <2>3
<1>2. U \in SUBSET Nat BY Zenon
<1>3. PICK n \in U : \A m \in U : n <= m BY Zenon, <1>1, <1>2, LeastNumber
<1>4. ASSUME NEW y \in S PROVE N - n >= y
  <2>1. y \in 0..N /\ n \in Nat BY Zenon, <1>2
  <2>2. N - y \in Nat /\ N - (N - y) = y BY <2>1
  <2>3. N - y \in U BY Zenon, <2>2
  <2>4. n <= N - y BY Zenon, <1>3, <2>3
  <2> QED BY <2>1, <2>4
<1>5. \E x \in S : \A y \in S : x >= y
  <2>1. N - n \in S BY Zenon
  <2> QED BY Zenon, <2>1, <1>4
<1> QED BY Zenon, <1>5 DEF Max

\* The loop can publish the first n transactions of q.
Passes(r, q, n) ==
    \A i \in 1 .. n : /\ Ready(r, q[i])
                      /\ q[i].fifo => \A j \in 1 .. i - 1 : ~q[j].fifo

\* The ready prefix is the longest one that can be published.
LEMMA PrefixIs ==
  ASSUME NEW r, NEW q \in Seq(Trees)
  PROVE /\ ReadyPrefix(r, q) \in 0..Len(q)
        /\ Passes(r, q, ReadyPrefix(r, q))
        /\ ReadyPrefix(r, q) < Len(q) => ~Passes(r, q, ReadyPrefix(r, q) + 1)
<1> DEFINE U == {n \in Nat : n >= Len(q) \/ ~Passes(r, q, n + 1)}
<1>1. Len(q) \in Nat OBVIOUS
<1>2. PICK n \in U : \A m \in U : n <= m
  <2>1. Len(q) \in U BY <1>1
  <2>2. U \in SUBSET Nat /\ U # {} BY Zenon, <2>1
  <2> HIDE DEF U
  <2> QED BY Zenon, <2>2, LeastNumber
<1>3. n \in 0..Len(q) /\ (n < Len(q) => ~Passes(r, q, n + 1))
  <2>1. Len(q) \in U BY <1>1
  <2>2. n <= Len(q) BY Zenon, <2>1, <1>2
  <2>3. n \in Nat /\ (n >= Len(q) \/ ~Passes(r, q, n + 1)) BY Zenon
  <2> QED BY <2>2, <2>3, <1>1
<1>4. Passes(r, q, n)
  <2>1. CASE n = 0
    <3>1. 1..n = {} BY <2>1
    <3> QED BY Zenon, <3>1 DEF Passes
  <2>2. CASE n # 0
    <3>1. n - 1 \in Nat /\ ~(n <= n - 1) /\ n - 1 + 1 = n BY <1>3, <2>2
    <3>2. n - 1 \notin U BY Zenon, <3>1, <1>2
    <3> QED BY Zenon, <3>1, <3>2
  <2> QED BY Zenon, <2>1, <2>2
<1>5. \E m \in 0..Len(q) : Passes(r, q, m) /\ (m < Len(q) => ~Passes(r, q, m + 1))
  BY Zenon, <1>3, <1>4
<1>6. ReadyPrefix(r, q) = CHOOSE m \in 0..Len(q) : Passes(r, q, m) /\ (m < Len(q) => ~Passes(r, q, m + 1))
  BY Zenon DEF ReadyPrefix, Passes
<1> QED BY Zenon, <1>5, <1>6

\* How many transactions a pass takes of each root, and the roots it discards.
Prefix(R, pend) == [r \in Roots |-> IF r \in R THEN ReadyPrefix(r, pend[r]) ELSE 0]
Dead(R, pend) == {r \in Roots : Prefix(R, pend)[r] > 0 /\ life'[r] # "live"}
Taking(R, pend) == [r \in Roots |-> IF r \in Dead(R, pend) THEN Len(pend[r]) ELSE Prefix(R, pend)[r]]

\* The ready prefix of a queue is a prefix of it, and nothing in it waits.
LEMMA PrefixBounds ==
  ASSUME NEW R, NEW pend \in Queues, NEW r \in Roots
  PROVE /\ Prefix(R, pend)[r] \in 0..Len(pend[r])
        /\ Passes(r, pend[r], Prefix(R, pend)[r])
        /\ Within(pend, Taking(R, pend))
<1>1. ASSUME NEW s \in Roots
      PROVE /\ Prefix(R, pend)[s] \in 0..Len(pend[s])
            /\ Passes(s, pend[s], Prefix(R, pend)[s])
  <2>1. pend[s] \in Seq(Trees) /\ Len(pend[s]) \in Nat BY Zenon, QueueEntries
  <2>2. CASE s \in R
    <3>1. Prefix(R, pend)[s] = ReadyPrefix(s, pend[s]) BY Zenon, <2>2 DEF Prefix
    <3> QED BY Zenon, <3>1, <2>1, PrefixIs
  <2>3. CASE s \notin R
    <3>1. Prefix(R, pend)[s] = 0 BY Zenon, <2>3 DEF Prefix
    <3>2. 0 \in 0..Len(pend[s]) /\ 1..0 = {} BY <2>1
    <3>3. Passes(s, pend[s], 0) BY Zenon, <3>2 DEF Passes
    <3> QED BY Zenon, <3>1, <3>2, <3>3
  <2> QED BY Zenon, <2>2, <2>3
<1>2. Within(pend, Taking(R, pend))
  <2>1. ASSUME NEW s \in Roots PROVE Taking(R, pend)[s] \in Nat /\ Taking(R, pend)[s] <= Len(pend[s])
    <3>1. Len(pend[s]) \in Nat BY Zenon, QueueEntries
    <3>2. Taking(R, pend)[s] \in {Len(pend[s]), Prefix(R, pend)[s]} BY Zenon DEF Taking
    <3> QED BY <3>1, <3>2, <1>1
  <2>2. Taking(R, pend) \in [Roots -> Nat] BY ZenonT(60), <2>1 DEF Taking
  <2> QED BY Zenon, <2>1, <2>2 DEF Within
<1> QED BY Zenon, <1>1, <1>2

\* No transaction of the prefix is stale: the queue is in order.
LEMMA NoneStale ==
  ASSUME NEW pend, NEW la, NEW nx, QueueOK(pend, shown, la, nx), NEW r \in Roots,
         NEW i \in 1..Len(pend[r])
  PROVE ~Stale(r, pend[r], i)
<1>1. pend \in Queues /\ Ordered(pend, shown, la) /\ shown \in Commits BY Zenon DEF QueueOK
<1> SUFFICES ASSUME NEW p \in DOMAIN pend[r][i].nodes,
                    \/ pend[r][i].nodes[p].commit <= shown[r][p]
                    \/ \E j \in 1 .. i - 1 : /\ p \in DOMAIN pend[r][j].nodes
                                             /\ pend[r][j].nodes[p].commit >= pend[r][i].nodes[p].commit
             PROVE FALSE
  BY Zenon DEF Stale
<1>2. Follows(pend, shown, r, i, p) BY Zenon, <1>1 DEF Ordered
<1>3. \A j \in 1..Len(pend[r]) : p \in DOMAIN pend[r][j].nodes => pend[r][j].nodes[p].commit \in Int /\ p \in Parts
  <2> TAKE j \in 1..Len(pend[r])
  <2>1. pend[r][j] \in Trees BY Zenon, <1>1, QueueEntries
  <2>2. pend[r][j] \in Shapes BY Zenon, <2>1 DEF Trees
  <2>3. ASSUME p \in DOMAIN pend[r][j].nodes PROVE pend[r][j].nodes[p].commit \in 1..MaxCommit /\ p \in Parts
    BY ZenonT(60), <2>2, <2>3, ShapeParts, NodeParts
  <2> QED BY <2>3, QueueAssumption
<1>4. shown[r][p] \in Int BY <1>1, <1>3 DEF Commits
<1>5. Len(pend[r]) \in Nat BY Zenon, <1>1, QueueEntries
<1>6. \A j \in 1..i-1 : j \in 1..Len(pend[r]) BY <1>5
<1>7. pend[r][i].nodes[p].commit \in Int BY Zenon, <1>1, <1>3
<1>8. CASE pend[r][i].nodes[p].commit <= shown[r][p]
  <2>1. shown[r][p] < pend[r][i].nodes[p].commit BY Zenon, <1>2 DEF Follows
  <2> QED BY <1>4, <1>7, <1>8, <2>1
<1>9. ASSUME NEW j \in 1..i-1, p \in DOMAIN pend[r][j].nodes,
             pend[r][j].nodes[p].commit >= pend[r][i].nodes[p].commit
      PROVE FALSE
  <2>1. pend[r][j].nodes[p].commit \in Int BY Zenon, <1>3, <1>6, <1>9
  <2>2. pend[r][j].nodes[p].commit < pend[r][i].nodes[p].commit BY Zenon, <1>2, <1>9 DEF Follows
  <2> QED BY <1>7, <1>9, <2>1, <2>2
<1> QED BY Zenon, <1>8, <1>9


\* The names of CommitReady's definition.
Live(R, pend) == {r \in Roots : Prefix(R, pend)[r] > 0 /\ life'[r] = "live"}
Fit(R, pend, r) == {i \in 1 .. Prefix(R, pend)[r] : ~Stale(r, pend[r], i)}
Taken(R, pend, r) == {pend[r][i] : i \in Fit(R, pend, r)}
Refused(R, pend, r) == {pend[r][i] : i \in (1 .. Prefix(R, pend)[r]) \ Fit(R, pend, r)}
ShownOf(R, pend, r, p) ==
    {shown[r][p]} \cup
    (IF r \in Live(R, pend)
     THEN {tx.nodes[p].commit : tx \in {tx \in Taken(R, pend, r) : p \in DOMAIN tx.nodes}}
     ELSE {})

\* What one pass of commit_ready_surface_tree_transactions shows.
Shows(R, pend) == [r \in Roots |-> [p \in Parts |-> Max(ShownOf(R, pend, r, p))]]

\* What a pass shows is that.
LEMMA PassShows ==
  ASSUME NEW R, NEW pend, NEW released, NEW canceled, CommitReady(R, pend, released, canceled)
  PROVE shown' = Shows(R, pend)
BY Zenon DEF CommitReady, Live, Prefix, Fit, Taken, ShownOf, Shows

\* x is what was shown or the commit of something that is taken.
ShownBy(R, pend, r, p, x) ==
    \/ x = shown[r][p]
    \/ r \in Live(R, pend) /\ \E i \in 1..Prefix(R, pend)[r] :
          p \in DOMAIN pend[r][i].nodes /\ x = pend[r][i].nodes[p].commit

\* The maximum of what was shown and what is taken is one of them.
LEMMA ShownIs ==
  ASSUME NEW R, NEW pend, NEW la, NEW nx, QueueOK(pend, shown, la, nx), NEW r \in Roots, NEW p \in Parts
  PROVE ShownBy(R, pend, r, p, Max(ShownOf(R, pend, r, p)))
<1>1. pend \in Queues /\ shown \in Commits BY Zenon DEF QueueOK
<1>2. shown[r][p] \in 0..MaxCommit BY <1>1 DEF Commits
<1>3. \A x \in ShownOf(R, pend, r, p) :
         \/ x = shown[r][p]
         \/ r \in Live(R, pend) /\ \E i \in 1..Prefix(R, pend)[r] :
               p \in DOMAIN pend[r][i].nodes /\ x = pend[r][i].nodes[p].commit
  BY Zenon DEF ShownOf, Taken, Fit
<1>4. \A i \in 1..Prefix(R, pend)[r] : p \in DOMAIN pend[r][i].nodes => pend[r][i].nodes[p].commit \in 0..MaxCommit
  <2> SUFFICES ASSUME NEW i \in 1..Prefix(R, pend)[r], p \in DOMAIN pend[r][i].nodes
               PROVE pend[r][i].nodes[p].commit \in 0..MaxCommit
    BY Zenon
  <2>1. Prefix(R, pend)[r] \in 0..Len(pend[r]) /\ Len(pend[r]) \in Nat BY Zenon, <1>1, PrefixBounds, QueueEntries
  <2>2. i \in 1..Len(pend[r]) BY <2>1
  <2>3. pend[r][i] \in Trees BY Zenon, <2>2, <1>1, QueueEntries
  <2>4. pend[r][i] \in Shapes BY Zenon, <2>3 DEF Trees
  <2>5. pend[r][i].nodes[p].commit \in 1..MaxCommit BY Zenon, <2>4, ShapeParts, NodeParts
  <2> QED BY <2>5, QueueAssumption
<1>5. ShownOf(R, pend, r, p) \in SUBSET (0..MaxCommit) BY Zenon, <1>2, <1>3, <1>4
<1>6. ShownOf(R, pend, r, p) # {} BY Zenon DEF ShownOf
<1>7. MaxCommit \in Nat BY QueueAssumption
<1>8. Max(ShownOf(R, pend, r, p)) \in ShownOf(R, pend, r, p) BY Zenon, <1>5, <1>6, <1>7, MaxMember
<1> QED BY Zenon, <1>3, <1>8 DEF ShownBy

\* What is shown after a pass is known, and older than what stays queued.
LEMMA ShownKeeps ==
  ASSUME NEW R, NEW pend, NEW la, NEW nx, QueueOK(pend, shown, la, nx),
         shown' = Shows(R, pend)
  PROVE /\ shown' \in Commits
        /\ \A r \in Roots : \A p \in Parts : shown'[r][p] <= la[r][p]
        /\ \A r \in Roots : \A i \in 1..Len(pend[r]) :
              (r \notin Live(R, pend) \/ i \notin 1..Prefix(R, pend)[r]) =>
              \A p \in DOMAIN pend[r][i].nodes : shown'[r][p] < pend[r][i].nodes[p].commit
<1>1. /\ pend \in Queues /\ shown \in Commits /\ la \in Commits /\ Ordered(pend, shown, la)
      /\ \A r \in Roots : \A p \in Parts : shown[r][p] <= la[r][p]
  BY Zenon DEF QueueOK
<1>2. \A r \in Roots : \A i \in 1..Len(pend[r]) : \A p \in DOMAIN pend[r][i].nodes :
         p \in Parts /\ pend[r][i].nodes[p].commit \in 1..MaxCommit
  <2> TAKE r \in Roots
  <2> TAKE i \in 1..Len(pend[r])
  <2>1. pend[r][i] \in Trees BY Zenon, <1>1, QueueEntries
  <2>2. pend[r][i] \in Shapes BY Zenon, <2>1 DEF Trees
  <2> QED BY ZenonT(60), <2>2, ShapeParts, NodeParts
<1>3. \A r \in Roots : /\ Prefix(R, pend)[r] \in 0..Len(pend[r]) /\ Len(pend[r]) \in Nat
                       /\ \A i \in 1..Prefix(R, pend)[r] : i \in 1..Len(pend[r])
  <2> TAKE r \in Roots
  <2>1. Prefix(R, pend)[r] \in 0..Len(pend[r]) /\ Len(pend[r]) \in Nat BY Zenon, <1>1, PrefixBounds, QueueEntries
  <2> QED BY <2>1
<1>4. \A r \in Roots : \A p \in Parts : shown'[r][p] = Max(ShownOf(R, pend, r, p)) BY Zenon DEF Shows
<1>5. \A r \in Roots : \A p \in Parts : shown[r][p] \in 0..MaxCommit /\ la[r][p] \in 0..MaxCommit
  BY <1>1 DEF Commits
<1>a. ASSUME NEW r \in Roots, NEW p \in Parts PROVE ShownBy(R, pend, r, p, shown'[r][p])
  <2>1. ShownBy(R, pend, r, p, Max(ShownOf(R, pend, r, p))) BY Zenon, ShownIs
  <2> QED BY Zenon, <2>1, <1>4
<1>6. ASSUME NEW r \in Roots, NEW p \in Parts
      PROVE shown'[r][p] \in 0..MaxCommit /\ shown'[r][p] <= la[r][p]
  <2>1. CASE shown'[r][p] = shown[r][p] BY Zenon, <2>1, <1>1, <1>5
  <2>2. ASSUME NEW i \in 1..Prefix(R, pend)[r], p \in DOMAIN pend[r][i].nodes,
               shown'[r][p] = pend[r][i].nodes[p].commit
        PROVE shown'[r][p] \in 0..MaxCommit /\ shown'[r][p] <= la[r][p]
    <3>1. pend[r][i].nodes[p].commit \in 1..MaxCommit /\ pend[r][i].nodes[p].commit <= la[r][p]
      BY Zenon, <1>1, <1>2, <1>3, <2>2 DEF Ordered
    <3> QED BY <3>1, <2>2
  <2>3. ShownBy(R, pend, r, p, shown'[r][p]) BY Zenon, <1>a
  <2> QED BY Zenon, <2>1, <2>2, <2>3 DEF ShownBy
<1>7. shown' \in Commits
  <2>1. \A r \in Roots : [p \in Parts |-> Max(ShownOf(R, pend, r, p))] \in [Parts -> 0..MaxCommit]
    BY Zenon, <1>4, <1>6
  <2> QED BY Zenon, <2>1 DEF Commits, Shows
<1>8. ASSUME NEW r \in Roots, NEW i \in 1..Len(pend[r]), r \notin Live(R, pend) \/ i \notin 1..Prefix(R, pend)[r],
             NEW p \in DOMAIN pend[r][i].nodes
      PROVE shown'[r][p] < pend[r][i].nodes[p].commit
  <2>1. Follows(pend, shown, r, i, p) /\ p \in Parts BY Zenon, <1>1, <1>2 DEF Ordered
  <2>2. CASE shown'[r][p] = shown[r][p] BY Zenon, <2>1, <2>2 DEF Follows
  <2>3. ASSUME r \in Live(R, pend), NEW j \in 1..Prefix(R, pend)[r], p \in DOMAIN pend[r][j].nodes,
               shown'[r][p] = pend[r][j].nodes[p].commit
        PROVE shown'[r][p] < pend[r][i].nodes[p].commit
    <3>1. i \notin 1..Prefix(R, pend)[r] BY ZenonT(60), <1>8, <2>3
    <3>2. j \in 1..i-1 BY <3>1, <1>3
    <3> QED BY Zenon, <3>2, <2>1, <2>3 DEF Follows
  <2>4. ShownBy(R, pend, r, p, shown'[r][p]) BY Zenon, <2>1, <1>a
  <2> QED BY Zenon, <2>2, <2>3, <2>4 DEF ShownBy
<1> QED BY Zenon, <1>6, <1>7, <1>8


\* A pass of commit_ready_surface_tree_transactions takes the first
\* transactions of each root: all of a dead root, the ready ones of others.
PassIs(R, pend, released, canceled, la) ==
    LET cut == Taking(R, pend)
        S == Roots \ Dead(R, pend)
    IN /\ pending' = Cut(pend, cut)
       /\ out' = out \cup Gone(pend, cut, S)
       /\ freed' = (freed \cup released) \cup Gone(pend, cut, Roots \ S)
       /\ cancels' = (cancels \cup canceled) \cup GoneWaits(pend, cut, Roots \ S)
       /\ \A r \in S : \A i \in 1..cut[r] : pend[r][i].deps = {}
       /\ shown' \in Commits
       /\ \A r \in Roots : \A p \in Parts : shown'[r][p] <= la[r][p]
       /\ \A r \in Roots : \A i \in 1..Len(pend[r]) : i \notin 1..cut[r] =>
             \A p \in DOMAIN pend[r][i].nodes : shown'[r][p] < pend[r][i].nodes[p].commit

\* What a pass over the ready transactions does, on queues that are right:
\* it takes prefixes off, shows or releases their buffers, and never lets
\* "shown" reach a transaction that stays queued.
LEMMA Pass ==
  ASSUME NEW R, NEW pend, NEW la, NEW nx, QueueOK(pend, shown, la, nx),
         NEW released, NEW canceled, CommitReady(R, pend, released, canceled)
  PROVE PassIs(R, pend, released, canceled, la)
<1> DEFINE k == Prefix(R, pend)
           cut == Taking(R, pend)
           D == Dead(R, pend)
           S == Roots \ D
           L == Live(R, pend)
<1>1. pend \in Queues BY Zenon DEF QueueOK
<1>2. \A r \in Roots : /\ k[r] \in 0..Len(pend[r]) /\ Passes(r, pend[r], k[r])
                       /\ Len(pend[r]) \in Nat /\ DOMAIN pend[r] = 1..Len(pend[r])
                       /\ \A i \in 1..Len(pend[r]) : pend[r][i] \in Trees
  BY Zenon, <1>1, PrefixBounds, QueueEntries
<1>3. D \subseteq Roots /\ L \subseteq Roots /\ Roots \ S = D BY Zenon DEF Dead, Live
<1>4. \A r \in Roots : /\ r \in D => cut[r] = Len(pend[r])
                       /\ r \in S => cut[r] = k[r]
                       /\ r \in L => r \in S
                       /\ r \in S /\ r \notin L => ~(k[r] > 0)
  BY Zenon DEF Taking, Dead, Live
<1>5. \A r \in Roots : r \in S /\ r \notin L => k[r] = 0
  BY SMTT(30), <1>2, <1>4
<1>6. \A r \in Roots : \A i \in 1..k[r] : i \in 1..Len(pend[r]) BY <1>2
<1>7. \A r \in Roots : Fit(R, pend, r) = 1..k[r]
  <2> TAKE r \in Roots
  <2>1. \A i \in 1..k[r] : ~Stale(r, pend[r], i) BY Zenon, <1>6, NoneStale
  <2> QED BY Zenon, <2>1 DEF Fit
<1>8. \A tx \in Trees : tx.deps \subseteq BuffersOf(tx) /\ BuffersOf(tx) \subseteq Acquires BY Zenon, TreeBuffers
<1>9. 1..0 = {} OBVIOUS
<1> HIDE DEF k, cut, D, S, L
<1>10. pending' = Cut(pend, cut)
  <2>1. pending' = [r \in Roots |-> IF r \in D THEN <<>> ELSE Remaining(pend[r], k[r])]
    BY Zenon DEF CommitReady, Dead, Prefix, D, k
  <2>2. \A r \in Roots : Remaining(pend[r], cut[r]) = IF r \in D THEN <<>> ELSE Remaining(pend[r], k[r])
    <3> TAKE r \in Roots
    <3>1. CASE r \in D
      <4>1. Remaining(pend[r], Len(pend[r])) = <<>>
        <5>1. pend[r] \in Seq(Trees) /\ Len(pend[r]) \in Nat BY Zenon, <1>1, QueueEntries
        <5> DEFINE q == pend[r]
        <5> HIDE DEF q
        <5>2. SubSeq(q, Len(q) + 1, Len(q)) = <<>>
          <6>1. q \in Seq(Trees) /\ Len(q) \in Nat BY Zenon, <5>1 DEF q
          <6> QED BY Zenon, <6>1, NothingLeft
        <5> QED BY Zenon, <5>2 DEF Remaining, q
      <4> QED BY Zenon, <3>1, <4>1, <1>4
    <3>2. CASE r \notin D BY Zenon, <3>2, <1>4 DEF S
    <3> QED BY Zenon, <3>1, <3>2
  <2> QED BY ZenonT(60), <2>1, <2>2 DEF Cut
<1>11. out' = out \cup Gone(pend, cut, S)
  <2>1. out' = out \cup UNION {BuffersOf(tx) : tx \in UNION {Taken(R, pend, r) : r \in L}}
    BY Zenon DEF CommitReady, Live, Prefix, Fit, Taken, L
  <2>2. \A b : b \in UNION {BuffersOf(tx) : tx \in UNION {Taken(R, pend, r) : r \in L}}
               <=> \E r \in L : \E i \in 1..k[r] : b \in BuffersOf(pend[r][i])
    <3>1. \A r \in L : \A tx : tx \in Taken(R, pend, r) <=> \E i \in 1..k[r] : tx = pend[r][i]
      BY Zenon, <1>3, <1>7 DEF Taken
    <3> TAKE b
    <3>2. ASSUME NEW r \in L, NEW tx \in Taken(R, pend, r), b \in BuffersOf(tx)
          PROVE \E s \in L : \E i \in 1..k[s] : b \in BuffersOf(pend[s][i])
      <4>1. PICK i \in 1..k[r] : tx = pend[r][i] BY Zenon, <3>1, <3>2
      <4> QED BY Zenon, <3>2, <4>1
    <3>3. ASSUME NEW r \in L, NEW i \in 1..k[r], b \in BuffersOf(pend[r][i])
          PROVE \E s \in L : \E tx \in Taken(R, pend, s) : b \in BuffersOf(tx)
      BY Zenon, <3>1, <3>3
    <3>4. b \in UNION {BuffersOf(tx) : tx \in UNION {Taken(R, pend, r) : r \in L}}
          <=> \E r \in L : \E tx \in Taken(R, pend, r) : b \in BuffersOf(tx)
      BY Zenon
    <3> QED BY Zenon, <3>2, <3>3, <3>4
  <2>3. \A b : (\E r \in L : \E i \in 1..k[r] : b \in BuffersOf(pend[r][i])) <=> b \in Gone(pend, cut, S)
    <3> SUFFICES ASSUME NEW b PROVE (\E r \in L : \E i \in 1..k[r] : b \in BuffersOf(pend[r][i]))
                                      <=> b \in Gone(pend, cut, S)
      BY Zenon
    <3>1. (\E r \in L : \E i \in 1..k[r] : b \in BuffersOf(pend[r][i])) => b \in Gone(pend, cut, S)
      BY Zenon, <1>2, <1>3, <1>4, <1>6, <1>8 DEF Gone
    <3>2. ASSUME NEW r \in S, NEW i \in 1..cut[r], b \in BuffersOf(pend[r][i])
          PROVE \E s \in L : \E j \in 1..k[s] : b \in BuffersOf(pend[s][j])
      <4>1. r \in Roots BY Zenon DEF S
      <4>2. i \in 1..k[r] BY Zenon, <3>2, <4>1, <1>4
      <4>3. r \in L BY Zenon, <4>1, <4>2, <1>5, <1>9
      <4> QED BY Zenon, <3>2, <4>2, <4>3
    <3> QED BY Zenon, <3>1, <3>2 DEF Gone
  <2> QED BY ZenonT(60), <2>1, <2>2, <2>3
<1>12. ASSUME NEW b
       PROVE /\ b \in UNION {Buffers(pend[r]) : r \in D} <=> b \in Gone(pend, cut, D)
             /\ b \in UNION {Waiting(pend[r]) : r \in D} <=> b \in GoneWaits(pend, cut, D)
  <2>1. b \in UNION {Buffers(pend[r]) : r \in D}
           <=> \E r \in D : \E i \in 1..Len(pend[r]) : b \in BuffersOf(pend[r][i])
    BY SMTT(30), <1>2, <1>3 DEF Buffers, Range
  <2>2. b \in UNION {Waiting(pend[r]) : r \in D}
           <=> \E r \in D : \E i \in 1..Len(pend[r]) : b \in pend[r][i].deps
    BY <1>2, <1>3 DEF Waiting, Range
  <2>3. \A r \in D : r \in Roots /\ cut[r] = Len(pend[r]) BY Zenon, <1>3, <1>4
  <2>4. \A r \in D : \A i \in 1..cut[r] : BuffersOf(pend[r][i]) \subseteq Acquires /\ pend[r][i].deps \subseteq Acquires
    BY Zenon, <1>2, <1>8, <2>3
  <2>5. (\E r \in D : \E i \in 1..Len(pend[r]) : b \in BuffersOf(pend[r][i])) <=> b \in Gone(pend, cut, D)
    BY Zenon, <2>3, <2>4 DEF Gone
  <2>6. (\E r \in D : \E i \in 1..Len(pend[r]) : b \in pend[r][i].deps) <=> b \in GoneWaits(pend, cut, D)
    BY Zenon, <2>3, <2>4 DEF GoneWaits
  <2> QED BY Zenon, <2>1, <2>2, <2>5, <2>6
<1>13. freed' = (freed \cup released) \cup Gone(pend, cut, Roots \ S)
  <2>1. freed' = freed \cup released \cup UNION {Buffers(pend[r]) : r \in D}
              \cup UNION {BuffersOf(tx) : tx \in UNION {Refused(R, pend, r) : r \in L}}
    BY Zenon DEF CommitReady, Live, Dead, Prefix, Fit, Refused, L, D
  <2>2. \A r \in L : \A tx : tx \notin Refused(R, pend, r) BY Zenon, <1>3, <1>7 DEF Refused, k
  <2>3. \A b : b \notin UNION {BuffersOf(tx) : tx \in UNION {Refused(R, pend, r) : r \in L}} BY Zenon, <2>2
  <2>4. \A b : b \in UNION {Buffers(pend[r]) : r \in D} <=> b \in Gone(pend, cut, D) BY Zenon, <1>12
  <2> QED BY ZenonT(60), <2>1, <2>3, <2>4, <1>3
<1>14. cancels' = (cancels \cup canceled) \cup GoneWaits(pend, cut, Roots \ S)
  <2>1. cancels' = cancels \cup canceled \cup UNION {Waiting(pend[r]) : r \in D}
    BY Zenon DEF CommitReady, Dead, Prefix, D
  <2>2. \A b : b \in UNION {Waiting(pend[r]) : r \in D} <=> b \in GoneWaits(pend, cut, D) BY Zenon, <1>12
  <2> QED BY ZenonT(60), <2>1, <2>2, <1>3
<1>15. \A r \in S : \A i \in 1..cut[r] : pend[r][i].deps = {}
  <2> TAKE r \in S
  <2> TAKE i \in 1..cut[r]
  <2>1. r \in Roots BY Zenon DEF S
  <2>2. i \in 1..k[r] /\ Passes(r, pend[r], k[r]) BY ZenonT(60), <2>1, <1>2, <1>4
  <2> QED BY Zenon, <2>2 DEF Passes, Ready
<1>16. shown' = Shows(R, pend) BY Zenon, PassShows
<1>17. /\ shown' \in Commits
       /\ \A r \in Roots : \A p \in Parts : shown'[r][p] <= la[r][p]
       /\ \A r \in Roots : \A i \in 1..Len(pend[r]) :
             (r \notin L \/ i \notin 1..k[r]) =>
             \A p \in DOMAIN pend[r][i].nodes : shown'[r][p] < pend[r][i].nodes[p].commit
  BY Zenon, <1>16, ShownKeeps DEF L, k
<1>18. \A r \in Roots : \A i \in 1..Len(pend[r]) : i \notin 1..cut[r] => r \notin L \/ i \notin 1..k[r]
  BY Zenon, <1>3, <1>4
<1> QED BY Zenon, <1>10, <1>11, <1>13, <1>14, <1>15, <1>17, <1>18 DEF PassIs, cut, S, D


\* A pass keeps the queue and its accounts, and advances the queues.
LEMMA PassKeeps ==
  ASSUME NEW R, NEW pend, NEW la, NEW nx, QueueOK(pend, shown, la, nx),
         NEW released, NEW canceled, CommitReady(R, pend, released, canceled),
         NEW rg, NEW sg, Settled(pend, out, freed \cup released, rg, cancels \cup canceled, sg, nx)
  PROVE /\ QueueOK(pending', shown', la, nx)
        /\ Settled(pending', out', freed', rg, cancels', sg, nx)
        /\ Advanced(pend, pending', Prefix(R, pend))
        /\ barrier' \subseteq barrier \cup Roots
<1> DEFINE cut == Taking(R, pend)
           S == Roots \ Dead(R, pend)
<1>1. PassIs(R, pend, released, canceled, la) BY Zenon, Pass
<1>2. pend \in Queues BY Zenon DEF QueueOK
<1>3. /\ \A r \in Roots : Prefix(R, pend)[r] \in 0..Len(pend[r]) /\ Len(pend[r]) \in Nat
      /\ Roots # {} => Within(pend, cut)
  BY Zenon, <1>2, PrefixBounds, QueueEntries
<1>4. Within(pend, cut)
  <2>1. CASE Roots = {}
    <3>1. cut \in [Roots -> Nat] BY Zenon, <2>1 DEF Taking
    <3> QED BY Zenon, <2>1, <3>1 DEF Within
  <2> QED BY Zenon, <2>1, <1>3
<1>5. S \in SUBSET Roots BY Zenon
<1>6. /\ pending' = Cut(pend, cut)
      /\ out' = out \cup Gone(pend, cut, S)
      /\ freed' = (freed \cup released) \cup Gone(pend, cut, Roots \ S)
      /\ cancels' = (cancels \cup canceled) \cup GoneWaits(pend, cut, Roots \ S)
      /\ \A r \in S : \A i \in 1..cut[r] : pend[r][i].deps = {}
      /\ shown' \in Commits
      /\ \A r \in Roots : \A p \in Parts : shown'[r][p] <= la[r][p]
      /\ \A r \in Roots : \A i \in 1..Len(pend[r]) : i \notin 1..cut[r] =>
             \A p \in DOMAIN pend[r][i].nodes : shown'[r][p] < pend[r][i].nodes[p].commit
  BY Zenon, <1>1 DEF PassIs
<1>7. \A r \in Roots : cut[r] = Len(pend[r]) \/ cut[r] = Prefix(R, pend)[r] BY Zenon DEF Taking
<1> HIDE DEF cut, S
<1>8. QueueOK(Cut(pend, cut), shown', la, nx) BY Zenon, <1>4, <1>6, CutOK
<1>9. Settled(Cut(pend, cut), out \cup Gone(pend, cut, S), (freed \cup released) \cup Gone(pend, cut, Roots \ S),
              rg, (cancels \cup canceled) \cup GoneWaits(pend, cut, Roots \ S), sg, nx)
  BY ZenonT(60), <1>4, <1>5, <1>6, CutSettled
<1>10. Advanced(pend, pending', Prefix(R, pend))
  <2> SUFFICES ASSUME NEW r \in Roots, NEW j \in 1..Len(pending'[r])
               PROVE \E i \in 1..Len(pend[r]) :
                        pending'[r][j].kind = pend[r][i].kind /\ j + Prefix(R, pend)[r] <= i
    BY Zenon DEF Advanced
  <2>1. Len(pending'[r]) = Len(pend[r]) - cut[r] BY Zenon, <1>2, <1>4, <1>6, CutEntries
  <2>2. /\ j + cut[r] \in 1..Len(pend[r])
        /\ pending'[r][j] = pend[r][j + cut[r]]
    <3>1. pending' = Cut(pend, cut) BY Zenon, <1>6
    <3>2. j \in 1..Len(Cut(pend, cut)[r]) BY Zenon, <3>1
    <3>3. j + cut[r] \in 1..Len(pend[r]) /\ Cut(pend, cut)[r][j] = pend[r][j + cut[r]]
      BY <1>2, <1>4, <3>2, CutCases
    <3> QED BY Zenon, <3>1, <3>3
  <2>3. Prefix(R, pend)[r] <= cut[r] /\ cut[r] \in Nat BY <1>3, <1>7
  <2>4. j + Prefix(R, pend)[r] <= j + cut[r]
    <3>1. Len(pend[r]) \in Nat /\ Prefix(R, pend)[r] \in Nat BY <1>3
    <3> QED BY <2>1, <2>3, <3>1
  <2> QED BY Zenon, <2>2, <2>4
<1>11. barrier' = barrier \cup {r \in Live(R, pend) : \E tx \in Taken(R, pend, r) : tx.fifo}
  BY Zenon DEF CommitReady, Live, Prefix, Fit, Taken
<1>12. barrier' \subseteq barrier \cup Roots BY Zenon, <1>11 DEF Live
<1> QED BY Zenon, <1>6, <1>8, <1>9, <1>10, <1>12

\* A longer queue has no shorter ready prefix.
LEMMA PrefixGrows ==
  ASSUME NEW pend \in Queues, NEW r \in Roots, NEW tx \in Trees
  PROVE /\ ReadyPrefix(r, pend[r]) <= ReadyPrefix(r, Push(pend, r, tx)[r])
        /\ ReadyPrefix(r, pend[r]) \in 0..Len(pend[r])
        /\ ReadyPrefix(r, Push(pend, r, tx)[r]) \in 0..Len(pend[r]) + 1
<1> DEFINE q == pend[r]
           q2 == Push(pend, r, tx)[r]
           k == ReadyPrefix(r, q)
           k2 == ReadyPrefix(r, q2)
<1>1. q \in Seq(Trees) /\ Len(q) \in Nat BY Zenon, QueueEntries
<1>2. q2 \in Seq(Trees) /\ Len(q2) = Len(q) + 1 /\ \A i \in 1..Len(q) : q2[i] = q[i]
  <2>1. Push(pend, r, tx) \in Queues BY Zenon, PushEntries
  <2>2. Push(pend, r, tx)[r] \in Seq(Trees) BY Zenon, <2>1, QueueEntries
  <2>3. Len(Push(pend, r, tx)[r]) = Len(pend[r]) + 1 BY Zenon, PushLen
  <2>4. \A i \in 1..Len(pend[r]) : Push(pend, r, tx)[r][i] = pend[r][i] BY Zenon, PushBefore
  <2> QED BY Zenon, <2>2, <2>3, <2>4
<1> HIDE DEF q, q2
<1>3. k \in 0..Len(q) /\ Passes(r, q, k) BY Zenon, <1>1, PrefixIs
<1>4. k2 \in 0..Len(q2) /\ (k2 < Len(q2) => ~Passes(r, q2, k2 + 1)) BY Zenon, <1>2, PrefixIs
<1> HIDE DEF k, k2
<1>5. ASSUME k2 < k PROVE FALSE
  <2>1. k2 + 1 \in 1..k /\ k2 < Len(q2) /\ k2 \in Nat /\ k \in 0..Len(q) BY SMTT(30), <1>1, <1>2, <1>3, <1>4, <1>5
  <2>2. Passes(r, q2, k2 + 1)
    <3> SUFFICES ASSUME NEW i \in 1..k2 + 1
                 PROVE Ready(r, q2[i]) /\ (q2[i].fifo => \A j \in 1 .. i - 1 : ~q2[j].fifo)
      BY Zenon DEF Passes
    <3>1. i \in 1..k /\ i \in 1..Len(q) /\ \A j \in 1..i-1 : j \in 1..Len(q) BY <2>1, <1>1
    <3>2. q2[i] = q[i] /\ \A j \in 1..i-1 : q2[j] = q[j] BY Zenon, <3>1, <1>2
    <3> QED BY Zenon, <3>1, <3>2, <1>3 DEF Passes
  <2> QED BY Zenon, <2>1, <2>2, <1>4
<1>6. k <= k2 BY SMTT(30), <1>1, <1>2, <1>3, <1>4, <1>5
<1>7. k2 \in 0..Len(q) + 1 BY Zenon, <1>2, <1>4
<1> QED BY Zenon, <1>3, <1>6, <1>7 DEF q, q2, k, k2

-----------------------------------------------------------------------------
(* The invariant *)

\* The queue is in order, every buffer and acquire is accounted for, and no
\* commit of a client is deeper in it than the limit.
ClientInv ==
    /\ QueueOK(pending, shown, latest, next)
    /\ Settled(pending, out, freed, registers, cancels, signaled, next)
    /\ Bounded(pending)
    /\ life \in [Roots -> {"live", "terminal", "gone"}]
    /\ barrier \subseteq Roots /\ exhausted \subseteq Roots

\* The commits of latest after a commit of root r.
Raised(la, nx, r, tx) ==
    [la EXCEPT ![r] = [p \in Parts |-> IF p \in DOMAIN tx.nodes THEN nx ELSE la[r][p]]]

\* A commit raises the newest commit of the parts it has a node for, to its
\* own number.
LEMMA LatestGrows ==
  ASSUME NEW pend, NEW sh, NEW la, NEW nx \in 1 .. MaxCommit, QueueOK(pend, sh, la, nx),
         NEW r \in Roots, NEW tx \in Trees, NEW la2,
         la2 = Raised(la, nx, r, tx)
  PROVE /\ la2 \in Commits /\ nx + 1 \in 1 .. MaxCommit + 1 /\ nx <= nx + 1
        /\ \A s \in Roots : \A p \in Parts : la[s][p] <= la2[s][p] /\ la2[s][p] < nx + 1
        /\ \A p \in DOMAIN tx.nodes : la2[r][p] = nx
        /\ \A p \in Parts : p \notin DOMAIN tx.nodes => la2[r][p] = la[r][p]
<1>1. /\ la \in Commits /\ nx \in 1..MaxCommit + 1
      /\ \A s \in Roots : \A p \in Parts : la[s][p] < nx
  BY Zenon DEF QueueOK
<1>2. DOMAIN tx.nodes \subseteq Parts BY Zenon, TreeBuffers, ShapeParts
<1>3. MaxCommit \in Nat BY QueueAssumption
<1>4. \A s \in Roots : \A p \in Parts : la[s][p] \in 0..MaxCommit BY <1>1 DEF Commits
<1> DEFINE row == [p \in Parts |-> IF p \in DOMAIN tx.nodes THEN nx ELSE la[r][p]]
<1>5. \A p \in Parts : row[p] = IF p \in DOMAIN tx.nodes THEN nx ELSE la[r][p] BY Zenon
<1>6. nx \in 0..MaxCommit BY <1>3
<1>7. row \in [Parts -> 0..MaxCommit] BY Zenon, <1>4, <1>6
<1>8. la2 = [la EXCEPT ![r] = row] BY Zenon DEF Raised
<1> HIDE DEF row
<1>9. la2 \in Commits /\ la2[r] = row /\ \A s \in Roots : s # r => la2[s] = la[s]
  BY Zenon, <1>1, <1>7, <1>8 DEF Commits
<1>10. \A p \in Parts : la[r][p] <= row[p] /\ row[p] < nx + 1
  BY SMTT(30), <1>1, <1>3, <1>4, <1>5
<1>11. \A s \in Roots : \A p \in Parts : la[s][p] <= la[s][p] /\ la[s][p] < nx + 1
  BY <1>1, <1>3, <1>4
<1>12. \A s \in Roots : \A p \in Parts : la[s][p] <= la2[s][p] /\ la2[s][p] < nx + 1
  BY Zenon, <1>9, <1>10, <1>11
<1>13. nx + 1 \in 1 .. MaxCommit + 1 /\ nx <= nx + 1 BY <1>3
<1> QED BY Zenon, <1>2, <1>5, <1>9, <1>12, <1>13

\* A queue in order stays so under later commits of latest.
LEMMA LaterOK ==
  ASSUME NEW pend, NEW sh, NEW la, NEW nx, QueueOK(pend, sh, la, nx),
         NEW la2 \in Commits, NEW nx2 \in 1 .. MaxCommit + 1, nx <= nx2,
         \A s \in Roots : \A p \in Parts : la[s][p] <= la2[s][p] /\ la2[s][p] < nx2
  PROVE QueueOK(pend, sh, la2, nx2)
<1>1. /\ pend \in Queues /\ sh \in Commits /\ la \in Commits /\ nx \in 1 .. MaxCommit + 1
      /\ \A s \in Roots : \A p \in Parts : sh[s][p] <= la[s][p]
      /\ Ordered(pend, sh, la)
      /\ Apart(pend)
      /\ \A s \in Roots : \A i \in 1..Len(pend[s]) : \A b \in BuffersOf(pend[s][i]) : b[1] < nx
  BY Zenon DEF QueueOK
<1>2. \A s \in Roots : \A p \in Parts : sh[s][p] \in Int /\ la[s][p] \in Int /\ la2[s][p] \in Int
  BY SMTT(30), <1>1 DEF Commits
<1>3. \A s \in Roots : \A p \in Parts : sh[s][p] <= la2[s][p] BY SMTT(30), <1>1, <1>2
<1>4. ASSUME NEW s \in Roots, NEW i \in 1..Len(pend[s]), NEW p \in DOMAIN pend[s][i].nodes
      PROVE pend[s][i].nodes[p].commit <= la2[s][p]
  <2>1. pend[s][i] \in Trees BY Zenon, <1>1, QueueEntries
  <2>2. p \in Parts /\ pend[s][i].nodes[p] \in Nodes BY ZenonT(60), <2>1, TreeBuffers, ShapeParts
  <2>3. pend[s][i].nodes[p].commit \in Int /\ pend[s][i].nodes[p].commit <= la[s][p]
    <3>1. pend[s][i].nodes[p].commit \in 1..MaxCommit BY Zenon, <2>2, NodeParts
    <3>2. pend[s][i].nodes[p].commit <= la[s][p] BY Zenon, <1>1, <1>4 DEF Ordered
    <3> QED BY <3>1, <3>2
  <2> QED BY <2>2, <2>3, <1>2
<1>5. Ordered(pend, sh, la2) BY ZenonT(60), <1>1, <1>4 DEF Ordered
<1>6. \A s \in Roots : \A i \in 1..Len(pend[s]) : \A b \in BuffersOf(pend[s][i]) : b[1] < nx2
  <2> TAKE s \in Roots
  <2> TAKE i \in 1..Len(pend[s])
  <2> TAKE b \in BuffersOf(pend[s][i])
  <2>1. b \in Acquires /\ b[1] < nx BY Zenon, <1>1, QueueEntries, TreeBuffers
  <2>2. b[1] \in Int BY <2>1 DEF Acquires
  <2> QED BY SMTT(30), <2>1, <2>2, <1>1
<1> QED BY Zenon, <1>1, <1>3, <1>5, <1>6 DEF QueueOK


\* A commit that is newer than everything known of its root.
Newest(tx) == /\ tx \in Trees /\ Fresh(tx, next)
              /\ \A p \in DOMAIN tx.nodes : tx.nodes[p].commit = next
\* What a commit leaves of the counters.
Counted(r, tx) ==
    /\ latest' = Raised(latest, next, r, tx)
    /\ signaled' = signaled \cup (BuffersOf(tx) \ tx.deps)
    /\ next' = next + 1

\* What the invariant says of each variable.
LEMMA InvParts ==
  ASSUME ClientInv
  PROVE /\ QueueOK(pending, shown, latest, next) /\ pending \in Queues
        /\ Settled(pending, out, freed, registers, cancels, signaled, next)
        /\ Bounded(pending) /\ \A r \in Roots : Len(pending[r]) \in Nat
        /\ life \in [Roots -> {"live", "terminal", "gone"}]
        /\ barrier \subseteq Roots /\ exhausted \subseteq Roots
BY Zenon, QueueEntries DEF ClientInv, QueueOK

\* The numbering of a new commit keeps the queues right.
LEMMA CountedOK ==
  ASSUME ClientInv, next <= MaxCommit, NEW r \in Roots, NEW tx, Newest(tx), Counted(r, tx)
  PROVE /\ next \in 1..MaxCommit /\ latest' \in Commits /\ next' = next + 1
        /\ next + 1 \in 1..MaxCommit + 1 /\ next <= next + 1
        /\ \A s \in Roots : \A p \in Parts : latest[s][p] <= latest'[s][p] /\ latest'[s][p] < next + 1
        /\ \A p \in DOMAIN tx.nodes : latest'[r][p] = next
        /\ \A p \in Parts : p \notin DOMAIN tx.nodes => latest'[r][p] = latest[r][p]
        /\ QueueOK(pending, shown, latest', next + 1)
        /\ \A b \in BuffersOf(tx) : b[1] < next + 1 /\ ~Holds(pending, b)
<1>1. QueueOK(pending, shown, latest, next) BY Zenon DEF ClientInv
<1>2. next \in 1..MaxCommit
  <2>1. next \in 1..MaxCommit + 1 BY Zenon, <1>1 DEF QueueOK
  <2> QED BY <2>1, QueueAssumption
<1>3. tx \in Trees /\ Fresh(tx, next) BY Zenon DEF Newest
<1>4. /\ latest' \in Commits /\ next + 1 \in 1 .. MaxCommit + 1 /\ next <= next + 1
      /\ \A s \in Roots : \A p \in Parts : latest[s][p] <= latest'[s][p] /\ latest'[s][p] < next + 1
      /\ \A p \in DOMAIN tx.nodes : latest'[r][p] = next
      /\ \A p \in Parts : p \notin DOMAIN tx.nodes => latest'[r][p] = latest[r][p]
  <2>1. latest' = Raised(latest, next, r, tx) BY Zenon DEF Counted
  <2> QED BY SMTT(30), <2>1, <1>1, <1>2, <1>3, LatestGrows
<1>5. QueueOK(pending, shown, latest', next + 1) BY Zenon, <1>1, <1>4, LaterOK
<1>6. \A b \in BuffersOf(tx) : b[1] < next + 1 /\ ~Holds(pending, b)
  <2>1. \A b \in BuffersOf(tx) : b \notin Old(next) /\ b \in Old(next + 1) BY Zenon, <1>2, <1>3, FreshNew
  <2>2. \A b : Holds(pending, b) => b \in Old(next) BY Zenon, <1>1, HeldOld
  <2> QED BY Zenon, <2>1, <2>2 DEF Old
<1>7. next' = next + 1 BY Zenon DEF Counted
<1> QED BY Zenon, <1>2, <1>4, <1>5, <1>6, <1>7

\* The queue after an incoming commit is appended.
LEMMA AppendedOK ==
  ASSUME ClientInv, next <= MaxCommit, NEW r \in Roots, NEW tx, Newest(tx), Counted(r, tx)
  PROVE QueueOK(Push(pending, r, tx), shown, latest', next + 1)
<1>1. /\ next \in 1..MaxCommit /\ latest' \in Commits
      /\ next + 1 \in 1..MaxCommit + 1
      /\ \A s \in Roots : \A p \in Parts : latest[s][p] <= latest'[s][p] /\ latest'[s][p] < next + 1
      /\ \A p \in DOMAIN tx.nodes : latest'[r][p] = next
      /\ QueueOK(pending, shown, latest', next + 1)
      /\ \A b \in BuffersOf(tx) : b[1] < next + 1 /\ ~Holds(pending, b)
  BY Zenon, CountedOK
<1>2. /\ pending \in Queues /\ shown \in Commits /\ latest \in Commits /\ Ordered(pending, shown, latest)
      /\ \A s \in Roots : \A p \in Parts : shown[s][p] <= latest[s][p] /\ latest[s][p] < next
  BY Zenon DEF ClientInv, QueueOK
<1>3. tx \in Trees /\ (\A p \in DOMAIN tx.nodes : tx.nodes[p].commit = next) /\ DOMAIN tx.nodes \subseteq Parts
  BY ZenonT(60), TreeBuffers, ShapeParts DEF Newest
<1>4. \A p \in Parts : shown[r][p] < next
  <2> TAKE p \in Parts
  <2>1. shown[r][p] \in Int /\ latest[r][p] \in Int BY ZenonT(60), <1>2, CommitsInt
  <2> QED BY SMTT(30), <2>1, <1>2, <1>1
<1>5. ASSUME NEW p \in DOMAIN tx.nodes, NEW j \in 1..Len(pending[r]), p \in DOMAIN pending[r][j].nodes
      PROVE pending[r][j].nodes[p].commit < next
  <2>1. pending[r][j].nodes[p].commit <= latest[r][p] /\ p \in Parts
    BY Zenon, <1>2, <1>3, <1>5 DEF Ordered
  <2>2. pending[r][j] \in Trees BY Zenon, <1>2, QueueEntries
  <2>3. pending[r][j].nodes[p].commit \in 1..MaxCommit
    BY ZenonT(60), <2>2, <1>5, TreeBuffers, ShapeParts, NodeParts
  <2>4. latest[r][p] \in Int BY ZenonT(60), <1>2, <2>1, CommitsInt
  <2> QED BY SMTT(30), <2>1, <2>3, <2>4, <1>1, <1>2
<1>6. next <= next /\ next + 1 <= next + 1 BY <1>1
<1>7. \A p \in DOMAIN tx.nodes :
            /\ shown[r][p] < tx.nodes[p].commit /\ tx.nodes[p].commit <= latest'[r][p]
            /\ \A j \in 1..Len(pending[r]) :
                  p \in DOMAIN pending[r][j].nodes => pending[r][j].nodes[p].commit < tx.nodes[p].commit
  BY ZenonT(60), <1>1, <1>3, <1>4, <1>5, <1>6
<1>8. \A s \in Roots : \A p \in Parts : latest'[s][p] <= latest'[s][p] /\ latest'[s][p] < next + 1
  <2> TAKE s \in Roots
  <2> TAKE p \in Parts
  <2>1. latest'[s][p] \in Int BY Zenon, <1>1, CommitsInt
  <2> QED BY SMTT(30), <2>1, <1>1
<1> QED BY Zenon, <1>1, <1>3, <1>6, <1>7, <1>8, PushOK

\* Queueing a commit keeps the invariant, refused or not.
LEMMA QueueTreeKeeps ==
  ASSUME ClientInv, next <= MaxCommit, NEW r \in Roots, NEW tx, Newest(tx), Counted(r, tx), QueueTree(r, tx)
  PROVE ClientInv'
<1>1. /\ QueueOK(pending, shown, latest, next) /\ pending \in Queues
      /\ Settled(pending, out, freed, registers, cancels, signaled, next)
      /\ Bounded(pending) /\ \A s \in Roots : Len(pending[s]) \in Nat
      /\ life \in [Roots -> {"live", "terminal", "gone"}]
      /\ barrier \subseteq Roots /\ exhausted \subseteq Roots
  BY Zenon, InvParts
<1>2. next \in 1..MaxCommit /\ next' = next + 1 BY Zenon, CountedOK
<1>3. tx \in Trees /\ Fresh(tx, next) /\ signaled' = signaled \cup (BuffersOf(tx) \ tx.deps)
  BY Zenon DEF Newest, Counted
<1>4. QueueLimit \in Nat /\ QueueLimit > 0 BY QueueAssumption
<1>5. life' = life BY Zenon DEF QueueTree
<1>6. CASE Refuses(r, tx)
  <2>1. /\ CommitReady(Roots, pending, BuffersOf(tx), {}) /\ exhausted' = exhausted \cup {r}
        /\ registers' = registers
    BY Zenon, <1>6 DEF QueueTree
  <2>2. QueueOK(pending, shown, latest', next + 1) BY Zenon, CountedOK
  <2>3. Settled(pending, out, freed \cup BuffersOf(tx), registers, cancels, signaled', next + 1)
    BY Zenon, <1>1, <1>2, <1>3, RefuseSettled
  <2>4. cancels = cancels \cup {} BY Zenon
  <2>5. Settled(pending, out, freed \cup BuffersOf(tx), registers, cancels \cup {}, signaled', next + 1)
    BY Zenon, <2>3, <2>4
  <2>6. /\ QueueOK(pending', shown', latest', next + 1)
        /\ Settled(pending', out', freed', registers, cancels', signaled', next + 1)
        /\ Advanced(pending, pending', Prefix(Roots, pending))
        /\ barrier' \subseteq barrier \cup Roots
    BY ZenonT(60), <2>1, <2>2, <2>5, PassKeeps
  <2>7. Bounded(pending')
    <3>1. \A s \in Roots : Prefix(Roots, pending)[s] \in Nat
      <4>1. \A s \in Roots : Prefix(Roots, pending)[s] \in 0..Len(pending[s]) BY Zenon, <1>1, PrefixBounds
      <4> QED BY <4>1, <1>1
    <3>2. pending' \in Queues BY Zenon, <2>6 DEF QueueOK
    <3> QED BY Zenon, <3>1, <3>2, <2>6, <1>1, AdvanceBounded
  <2> QED BY Zenon, <1>1, <1>2, <1>5, <2>1, <2>6, <2>7 DEF ClientInv
<1>7. CASE ~Refuses(r, tx)
  <2> DEFINE R == IF pending[r] = <<>> /\ tx.kind = "client" THEN {r} ELSE Roots
             pend == Push(pending, r, tx)
  <2>1. /\ CommitReady(R, pend, {}, {}) /\ registers' = registers \cup tx.deps
        /\ exhausted' = exhausted
    BY Zenon, <1>7 DEF QueueTree, Push
  <2>2. QueueOK(pend, shown, latest', next + 1) BY Zenon, AppendedOK
  <2>3. Settled(pend, out, freed, registers', cancels, signaled', next + 1)
    BY Zenon, <1>1, <1>2, <1>3, <2>1, PushSettled
  <2>4. cancels = cancels \cup {} /\ freed = freed \cup {} BY Zenon
  <2>5. Settled(pend, out, freed \cup {}, registers', cancels \cup {}, signaled', next + 1)
    BY Zenon, <2>3, <2>4
  <2>6. r \in R BY Zenon
  <2> HIDE DEF R, pend
  <2>7. /\ QueueOK(pending', shown', latest', next + 1)
        /\ Settled(pending', out', freed', registers', cancels', signaled', next + 1)
        /\ Advanced(pend, pending', Prefix(R, pend))
        /\ barrier' \subseteq barrier \cup Roots
    BY Zenon, <2>1, <2>2, <2>5, PassKeeps
  <2>8. Bounded(pending')
    <3> SUFFICES ASSUME NEW s \in Roots, NEW j \in 1..Len(pending'[s]), pending'[s][j].kind = "client"
                 PROVE j <= QueueLimit
      BY Zenon DEF Bounded
    <3>0. pend \in Queues /\ pending' \in Queues BY Zenon, <2>2, <2>7 DEF QueueOK
    <3>1. Len(pending'[s]) \in Nat /\ Len(pend[s]) \in Nat /\ Prefix(R, pend)[s] \in 0..Len(pend[s])
      BY ZenonT(60), <3>0, PrefixBounds, QueueEntries
    <3>2. PICK i \in 1..Len(pend[s]) : pending'[s][j].kind = pend[s][i].kind /\ j + Prefix(R, pend)[s] <= i
      BY Zenon, <2>7 DEF Advanced
    <3>3. CASE i \in 1..Len(pending[s]) /\ pend[s][i] = pending[s][i]
      <4>1. i <= QueueLimit BY Zenon, <3>2, <3>3, <1>1 DEF Bounded
      <4> QED BY SMTT(30), <4>1, <3>1, <3>2, <1>4
    <3>4. CASE s = r /\ i = Len(pending[r]) + 1 /\ pend[s][i] = tx
      <4>1. Prefix(R, pend)[r] = ReadyPrefix(r, pend[r]) BY Zenon, <2>6 DEF Prefix
      <4>2. /\ ReadyPrefix(r, pending[r]) <= ReadyPrefix(r, pend[r])
            /\ ReadyPrefix(r, pending[r]) \in 0..Len(pending[r])
        BY Zenon, <1>1, <1>3, PrefixGrows DEF pend
      <4>3. tx.kind = "client" BY Zenon, <3>2, <3>4
      <4>4. ~(Len(pending[r]) - ReadyPrefix(r, pending[r]) >= QueueLimit)
        BY Zenon, <1>7, <4>3 DEF Refuses, Full
      <4> QED BY SMTT(30), <4>1, <4>2, <4>4, <3>1, <3>2, <3>4, <1>1, <1>4
    <3>5. \/ i \in 1..Len(pending[s]) /\ pend[s][i] = pending[s][i]
          \/ s = r /\ i = Len(pending[r]) + 1 /\ pend[s][i] = tx
      <4>1. pending \in Queues /\ tx \in Trees BY Zenon, <1>1, <1>3
      <4>2. i \in 1..Len(Push(pending, r, tx)[s]) BY Zenon DEF pend
      <4>3. \/ i \in 1..Len(pending[s]) /\ Push(pending, r, tx)[s][i] = pending[s][i]
            \/ s = r /\ i = Len(pending[r]) + 1 /\ Push(pending, r, tx)[s][i] = tx
        BY <4>1, <4>2, PushCases
      <4> QED BY Zenon, <4>3 DEF pend
    <3> QED BY Zenon, <3>3, <3>4, <3>5
  <2> QED BY Zenon, <1>1, <1>2, <1>5, <2>1, <2>7, <2>8 DEF ClientInv
<1> QED BY Zenon, <1>6, <1>7

\* The queue after an incoming commit is merged into its last transaction.
LEMMA MergedOK ==
  ASSUME ClientInv, next <= MaxCommit, NEW r \in Roots, NEW tx, Newest(tx), Counted(r, tx),
         pending[r] # <<>>
  PROVE LET target == Last(pending[r])
            merged == Merged(target, tx, Replaced(target, tx)) IN
        /\ QueueOK(Push(Pop(pending, r), r, merged), shown, latest', next + 1)
        /\ QueueOK(Pop(pending, r), shown, latest', next + 1)
        /\ Len(Push(Pop(pending, r), r, merged)[r]) = Len(pending[r])
        /\ \A s \in Roots : s # r => Push(Pop(pending, r), r, merged)[s] = pending[s]
<1> DEFINE target == Last(pending[r])
           replaced == Replaced(target, tx)
           merged == Merged(target, tx, replaced)
           rest == Pop(pending, r)
           n == Len(pending[r])
<1>1. /\ next \in 1..MaxCommit /\ latest' \in Commits
      /\ next + 1 \in 1..MaxCommit + 1
      /\ \A s \in Roots : \A p \in Parts : latest[s][p] <= latest'[s][p] /\ latest'[s][p] < next + 1
      /\ \A p \in DOMAIN tx.nodes : latest'[r][p] = next
      /\ QueueOK(pending, shown, latest', next + 1)
      /\ \A b \in BuffersOf(tx) : b[1] < next + 1 /\ ~Holds(pending, b)
  BY Zenon, CountedOK
<1>2. /\ QueueOK(pending, shown, latest, next)
      /\ pending \in Queues /\ shown \in Commits /\ latest \in Commits /\ Ordered(pending, shown, latest)
      /\ \A s \in Roots : \A p \in Parts : shown[s][p] <= latest[s][p] /\ latest[s][p] < next
  BY Zenon DEF ClientInv, QueueOK
<1>3. tx \in Trees /\ (\A p \in DOMAIN tx.nodes : tx.nodes[p].commit = next) /\ DOMAIN tx.nodes \subseteq Parts
  BY Zenon, TreeBuffers, ShapeParts DEF Newest
<1>4. MergeFacts(pending, r, tx, next) /\ target \in Trees BY Zenon, <1>2, <1>3, MergeIsSo
<1>5. QueueOK(rest, shown, latest', next + 1) /\ rest \in Queues
  <2>1. QueueOK(rest, shown, latest', next + 1) BY Zenon, <1>1, PopOK
  <2> QED BY Zenon, <2>1 DEF QueueOK
<1>6. /\ \A s \in Roots : s # r => rest[s] = pending[s]
      /\ n \in 1..n /\ Len(rest[r]) = n - 1
      /\ \A i \in 1..n - 1 : i \in 1..n /\ rest[r][i] = pending[r][i]
  BY Zenon, <1>2, PopEntries
<1>7. target = pending[r][n] BY Zenon DEF Last
<1>8. /\ merged \in Trees
      /\ DOMAIN merged.nodes = DOMAIN target.nodes \cup DOMAIN tx.nodes
      /\ Newer(target, tx, merged)
  BY Zenon, <1>3, <1>4, MergedTree
<1>9. \A b : /\ Holds(pending, b) <=> Holds(rest, b) \/ b \in BuffersOf(target)
             /\ ~(Holds(rest, b) /\ b \in BuffersOf(target))
             /\ b \in BuffersOf(merged) => b \in BuffersOf(target) \/ b \in BuffersOf(tx)
             /\ Holds(pending, b) => b \in Old(next)
  BY Zenon, <1>4 DEF MergeFacts
<1> HIDE DEF target, replaced, merged, rest, n
<1>10. \A b \in BuffersOf(merged) : b[1] < next + 1 /\ ~Holds(rest, b)
  <2> TAKE b \in BuffersOf(merged)
  <2>1. CASE b \in BuffersOf(tx) BY Zenon, <2>1, <1>1, <1>9
  <2>2. CASE b \in BuffersOf(target)
    <3>1. b \in Acquires /\ b[1] < next BY Zenon, <2>2, <1>9 DEF Old
    <3>2. b[1] \in Int BY SMTT(30), <3>1 DEF Acquires
    <3>3. b[1] < next + 1 BY SMTT(30), <3>1, <3>2, <1>1
    <3> QED BY Zenon, <2>2, <3>3, <1>9
  <2> QED BY Zenon, <2>1, <2>2, <1>9
<1>11. \A p \in Parts : shown[r][p] < next
  <2> TAKE p \in Parts
  <2>1. shown[r][p] \in Int /\ latest[r][p] \in Int BY ZenonT(60), <1>2, CommitsInt
  <2> QED BY SMTT(30), <2>1, <1>2, <1>1
<1>12. ASSUME NEW p \in DOMAIN tx.nodes, NEW j \in 1..n, p \in DOMAIN pending[r][j].nodes
      PROVE pending[r][j].nodes[p].commit < next
  <2>1. pending[r][j].nodes[p].commit <= latest[r][p] /\ p \in Parts
    BY Zenon, <1>2, <1>3, <1>12 DEF Ordered, n
  <2>2. pending[r][j] \in Trees BY Zenon, <1>2, QueueEntries DEF n
  <2>3. pending[r][j].nodes[p].commit \in 1..MaxCommit
    BY ZenonT(60), <2>2, <1>12, TreeBuffers, ShapeParts, NodeParts
  <2>4. latest[r][p] \in Int BY ZenonT(60), <1>2, <2>1, CommitsInt
  <2> QED BY SMTT(30), <2>1, <2>3, <2>4, <1>1, <1>2
<1>13. next <= next /\ next + 1 <= next + 1 BY <1>1
<1>14. ASSUME NEW p \in DOMAIN merged.nodes
       PROVE /\ shown[r][p] < merged.nodes[p].commit /\ merged.nodes[p].commit <= latest'[r][p]
             /\ \A j \in 1..Len(rest[r]) :
                   p \in DOMAIN rest[r][j].nodes => rest[r][j].nodes[p].commit < merged.nodes[p].commit
  <2>1. CASE p \in DOMAIN tx.nodes
    <3>1. merged.nodes[p].commit = next /\ p \in Parts /\ latest'[r][p] = next
      BY Zenon, <2>1, <1>1, <1>3, <1>8 DEF Newer
    <3> QED BY Zenon, <3>1, <2>1, <1>6, <1>11, <1>12, <1>13
  <2>2. CASE p \notin DOMAIN tx.nodes
    <3>1. p \in DOMAIN target.nodes /\ merged.nodes[p].commit = target.nodes[p].commit
      BY Zenon, <2>2, <1>8 DEF Newer
    <3>2. Ordered(pending, shown, latest') BY Zenon, <1>1 DEF QueueOK
    <3>3. Follows(pending, shown, r, n, p) /\ target.nodes[p].commit <= latest'[r][p]
      BY ZenonT(60), <3>1, <3>2, <1>6, <1>7 DEF Ordered, n
    <3> QED BY Zenon, <3>1, <3>3, <1>6, <1>7 DEF Follows
  <2> QED BY Zenon, <2>1, <2>2
<1>15. \A s \in Roots : \A p \in Parts : latest'[s][p] <= latest'[s][p] /\ latest'[s][p] < next + 1
  <2> TAKE s \in Roots
  <2> TAKE p \in Parts
  <2>1. latest'[s][p] \in Int BY Zenon, <1>1, CommitsInt
  <2> QED BY SMTT(30), <2>1, <1>1
<1>16. QueueOK(Push(rest, r, merged), shown, latest', next + 1)
  BY Zenon, <1>1, <1>5, <1>8, <1>10, <1>13, <1>14, <1>15, PushOK
<1>17. /\ Len(Push(rest, r, merged)[r]) = Len(rest[r]) + 1
       /\ \A s \in Roots : s # r => Push(rest, r, merged)[s] = rest[s]
  BY SMTT(30), <1>5, <1>8, PushEntries
<1>18. n \in Nat BY Zenon, <1>2, QueueEntries DEF n
<1>19. Len(Push(rest, r, merged)[r]) = n BY SMTT(30), <1>6, <1>17, <1>18
<1> QED BY Zenon, <1>5, <1>6, <1>16, <1>17, <1>19 DEF rest, merged, replaced, target, n


\* A merge keeps the place of the last transaction, and whose it is.
LEMMA MergedBounded ==
  ASSUME ClientInv, NEW r \in Roots, NEW tx \in Trees, pending[r] # <<>>
  PROVE LET target == Last(pending[r])
            merged == Merged(target, tx, Replaced(target, tx)) IN
        Bounded(Push(Pop(pending, r), r, merged)) /\ Bounded(Pop(pending, r))
<1> DEFINE target == Last(pending[r])
           replaced == Replaced(target, tx)
           merged == Merged(target, tx, replaced)
           rest == Pop(pending, r)
           n == Len(pending[r])
<1>1. pending \in Queues /\ Bounded(pending) /\ n \in Nat BY Zenon, InvParts
<1>2. /\ rest \in Queues
      /\ \A s \in Roots : s # r => rest[s] = pending[s]
      /\ n \in 1..n /\ Len(rest[r]) = n - 1
      /\ \A i \in 1..n - 1 : i \in 1..n /\ rest[r][i] = pending[r][i]
  BY Zenon, <1>1, PopEntries
<1>3. target = pending[r][n] BY Zenon DEF Last
<1>4. target \in Trees BY Zenon, <1>1, <1>2, <1>3, QueueEntries
<1>5. merged \in Trees /\ merged.kind = target.kind BY Zenon, <1>4, MergedTree
<1> HIDE DEF target, replaced, merged, rest
<1>6. Bounded(rest)
  <2> SUFFICES ASSUME NEW s \in Roots, NEW i \in 1..Len(rest[s]), rest[s][i].kind = "client"
               PROVE i <= QueueLimit
    BY Zenon DEF Bounded
  <2>1. i \in 1..Len(pending[s]) /\ rest[s][i] = pending[s][i]
    <3>1. CASE s # r BY Zenon, <3>1, <1>2
    <3>2. CASE s = r BY Zenon, <3>2, <1>2
    <3> QED BY Zenon, <3>1, <3>2
  <2> QED BY Zenon, <2>1, <1>1 DEF Bounded
<1>7. Bounded(Push(rest, r, merged))
  <2> SUFFICES ASSUME NEW s \in Roots, NEW i \in 1..Len(Push(rest, r, merged)[s]),
                      Push(rest, r, merged)[s][i].kind = "client"
               PROVE i <= QueueLimit
    BY Zenon DEF Bounded
  <2>1. CASE i \in 1..Len(rest[s]) /\ Push(rest, r, merged)[s][i] = rest[s][i]
    BY Zenon, <2>1, <1>6 DEF Bounded
  <2>2. CASE s = r /\ i = Len(rest[r]) + 1 /\ Push(rest, r, merged)[s][i] = merged
    <3>1. i = n BY <2>2, <1>1, <1>2
    <3>2. pending[r][n].kind = "client" BY Zenon, <2>2, <1>3, <1>5
    <3>3. n <= QueueLimit BY Zenon, <3>2, <1>1, <1>2 DEF Bounded
    <3> QED BY Zenon, <3>1, <3>3
  <2>3. \/ i \in 1..Len(rest[s]) /\ Push(rest, r, merged)[s][i] = rest[s][i]
        \/ s = r /\ i = Len(rest[r]) + 1 /\ Push(rest, r, merged)[s][i] = merged
    BY <1>2, <1>5, PushCases
  <2> QED BY Zenon, <2>1, <2>2, <2>3
<1> QED BY Zenon, <1>6, <1>7 DEF rest, merged, replaced, target

\* Merging a commit keeps the invariant, valid or not.
LEMMA MergeTreeKeeps ==
  ASSUME ClientInv, next <= MaxCommit, NEW r \in Roots, NEW tx, Newest(tx), Counted(r, tx),
         pending[r] # <<>>, NEW valid \in BOOLEAN, MergeTree(r, tx, valid)
  PROVE ClientInv'
<1> DEFINE target == Last(pending[r])
           replaced == Replaced(target, tx)
           merged == Merged(target, tx, replaced)
           superseded == target.deps \cap replaced
           pend == Push(Pop(pending, r), r, merged)
           R == IF tx.kind = "migration" \/ Ready(r, merged) \/ ~HasAttachment(tx) THEN Roots ELSE {}
<1>1. /\ QueueOK(pending, shown, latest, next) /\ pending \in Queues
      /\ Settled(pending, out, freed, registers, cancels, signaled, next)
      /\ Bounded(pending) /\ \A s \in Roots : Len(pending[s]) \in Nat
      /\ life \in [Roots -> {"live", "terminal", "gone"}]
      /\ barrier \subseteq Roots /\ exhausted \subseteq Roots
  BY Zenon, InvParts
<1>2. next \in 1..MaxCommit /\ next' = next + 1 BY Zenon, CountedOK
<1>3. tx \in Trees /\ Fresh(tx, next) /\ signaled' = signaled \cup (BuffersOf(tx) \ tx.deps)
  BY Zenon DEF Newest, Counted
<1>4. QueueLimit \in Nat BY QueueAssumption
<1>5. registers' = registers \cup tx.deps /\ exhausted' = exhausted BY Zenon DEF MergeTree
<1>6. /\ Settled(pend, out, freed \cup replaced, registers', cancels \cup superseded, signaled', next + 1)
      /\ Settled(Pop(pending, r), out, freed \cup replaced \cup BuffersOf(merged), registers',
                 cancels \cup superseded \cup merged.deps, signaled', next + 1)
  BY Zenon, <1>1, <1>2, <1>3, <1>5, MergeSettled
<1>7. /\ QueueOK(pend, shown, latest', next + 1)
      /\ QueueOK(Pop(pending, r), shown, latest', next + 1)
      /\ Len(pend[r]) = Len(pending[r])
      /\ \A s \in Roots : s # r => pend[s] = pending[s]
  BY Zenon, MergedOK
<1>10. Bounded(pend) /\ Bounded(Pop(pending, r)) BY Zenon, <1>3, MergedBounded
<1>8. CASE valid
  <2>1. [pending EXCEPT ![r] = Append(Front(pending[r]), merged)] = pend
    <3> DEFINE f == Front(pending[r])
    <3> HIDE DEF f, merged
    <3>1. [pending EXCEPT ![r] = f] \in [Roots -> Seq(Trees) \cup {f}] /\ [pending EXCEPT ![r] = f][r] = f
      BY Zenon, <1>1 DEF Queues
    <3>2. pending \in [Roots -> Seq(Trees)] BY Zenon, <1>1 DEF Queues
    <3>3. [[pending EXCEPT ![r] = f] EXCEPT ![r] = Append(f, merged)] = [pending EXCEPT ![r] = Append(f, merged)]
      BY <3>2
    <3> QED BY Zenon, <3>1, <3>3 DEF Push, Pop, f
  <2>2. CommitReady(R, [pending EXCEPT ![r] = Append(Front(pending[r]), merged)], replaced, superseded)
        /\ life' = life
    BY Zenon, <1>8 DEF MergeTree
  <2>3. CommitReady(R, pend, replaced, superseded) BY Zenon, <2>1, <2>2
  <2> HIDE DEF pend, R, replaced, superseded
  <2>4. /\ QueueOK(pending', shown', latest', next + 1)
        /\ Settled(pending', out', freed', registers', cancels', signaled', next + 1)
        /\ Advanced(pend, pending', Prefix(R, pend))
        /\ barrier' \subseteq barrier \cup Roots
    BY ZenonT(60), <2>3, <1>6, <1>7, PassKeeps
  <2>5. Bounded(pending')
    <3>1. pend \in Queues /\ pending' \in Queues BY Zenon, <1>7, <2>4 DEF QueueOK
    <3>2. \A s \in Roots : Prefix(R, pend)[s] \in 0..Len(pend[s]) /\ Len(pend[s]) \in Nat
      BY Zenon, <3>1, PrefixBounds, QueueEntries
    <3>3. \A s \in Roots : Prefix(R, pend)[s] \in Nat BY <3>2
    <3> QED BY Zenon, <3>1, <3>3, <2>4, <1>10, AdvanceBounded
  <2> QED BY Zenon, <1>1, <1>2, <1>5, <2>2, <2>4, <2>5 DEF ClientInv
<1>9. CASE ~valid
  <2> DEFINE R2 == IF tx.kind = "migration" THEN Roots ELSE {}
             lost == replaced \cup BuffersOf(merged)
             ended == superseded \cup merged.deps
             rest == Pop(pending, r)
  <2>1. /\ CommitReady(R2, [pending EXCEPT ![r] = Front(pending[r])], lost, ended)
        /\ life' = [life EXCEPT ![r] = "terminal"]
    BY Zenon, <1>9 DEF MergeTree
  <2>2. CommitReady(R2, rest, lost, ended) BY Zenon, <2>1 DEF Pop
  <2>3. life' \in [Roots -> {"live", "terminal", "gone"}] BY Zenon, <2>1, <1>1
  <2>4. Settled(rest, out, freed \cup lost, registers', cancels \cup ended, signaled', next + 1)
    <3>1. freed \cup lost = freed \cup replaced \cup BuffersOf(merged) BY Zenon
    <3>2. cancels \cup ended = cancels \cup superseded \cup merged.deps BY Zenon
    <3> QED BY Zenon, <3>1, <3>2, <1>6
  <2> HIDE DEF R2, lost, ended, rest
  <2>5. QueueOK(rest, shown, latest', next + 1) /\ Bounded(rest) BY Zenon, <1>7, <1>10 DEF rest
  <2>6. /\ QueueOK(pending', shown', latest', next + 1)
        /\ Settled(pending', out', freed', registers', cancels', signaled', next + 1)
        /\ Advanced(rest, pending', Prefix(R2, rest))
        /\ barrier' \subseteq barrier \cup Roots
    BY ZenonT(60), <2>2, <2>4, <2>5, PassKeeps
  <2>7. Bounded(pending')
    <3>1. rest \in Queues /\ pending' \in Queues BY Zenon, <2>5, <2>6 DEF QueueOK
    <3>2. \A s \in Roots : Prefix(R2, rest)[s] \in 0..Len(rest[s]) /\ Len(rest[s]) \in Nat
      BY Zenon, <3>1, PrefixBounds, QueueEntries
    <3>3. \A s \in Roots : Prefix(R2, rest)[s] \in Nat BY <3>2
    <3> QED BY Zenon, <3>1, <3>3, <2>5, <2>6, AdvanceBounded
  <2> QED BY Zenon, <1>1, <1>2, <1>5, <2>3, <2>6, <2>7 DEF ClientInv
<1> QED BY Zenon, <1>8, <1>9

\* A submitted update keeps the invariant.
LEMMA SubmitKeeps == ASSUME ClientInv, NEW r \in Roots, NEW kind \in Kinds, Submit(r, kind) PROVE ClientInv'
<1>1. next <= MaxCommit /\ next' = next + 1 BY Zenon DEF Submit
<1>2. PICK update \in Updates(kind), fifo \in BOOLEAN, valid \in BOOLEAN :
        LET tx == Incoming(update, fifo, kind) IN
          /\ IF Merges(r, tx) THEN MergeTree(r, tx, valid)
                              ELSE valid /\ QueueTree(r, tx)
          /\ latest' = [latest EXCEPT ![r] = [p \in Parts |->
                           IF p \in DOMAIN tx.nodes THEN next ELSE @[p]]]
          /\ signaled' = signaled \cup (BuffersOf(tx) \ tx.deps)
  BY Zenon DEF Submit
<1> DEFINE tx == Incoming(update, fifo, kind)
<1>3. next \in 1..MaxCommit
  <2>1. next \in 1..MaxCommit + 1 BY Zenon DEF ClientInv, QueueOK
  <2> QED BY <2>1, <1>1, QueueAssumption
<1>4. Newest(tx) BY Zenon, <1>3, IncomingTree DEF Newest, Fresh
<1>5. Counted(r, tx) BY Zenon, <1>1, <1>2 DEF Counted, Raised
<1> HIDE DEF tx
<1>6. CASE Merges(r, tx)
  <2>1. pending[r] # <<>> BY Zenon, <1>6 DEF Merges
  <2>2. MergeTree(r, tx, valid) BY Zenon, <1>2, <1>6 DEF tx
  <2> QED BY Zenon, <2>1, <2>2, <1>1, <1>4, <1>5, MergeTreeKeeps
<1>7. CASE ~Merges(r, tx)
  <2>1. QueueTree(r, tx) BY Zenon, <1>2, <1>7 DEF tx
  <2> QED BY Zenon, <2>1, <1>1, <1>4, <1>5, QueueTreeKeeps
<1> QED BY Zenon, <1>6, <1>7

\* Releasing a root's queue keeps the queues and their accounts.
LEMMA CancelKeeps ==
  ASSUME ClientInv, NEW r \in Roots, CancelTrees(r)
  PROVE /\ QueueOK(pending', shown', latest', next')
        /\ Settled(pending', out', freed', registers', cancels', signaled', next')
        /\ Bounded(pending')
<1> DEFINE cut == [s \in Roots |-> IF s = r THEN Len(pending[r]) ELSE 0]
           none == {}
<1>1. /\ QueueOK(pending, shown, latest, next) /\ pending \in Queues
      /\ Settled(pending, out, freed, registers, cancels, signaled, next)
      /\ Bounded(pending) /\ \A s \in Roots : Len(pending[s]) \in Nat
  BY Zenon, InvParts
<1>2. /\ pending' = [pending EXCEPT ![r] = <<>>]
      /\ cancels' = cancels \cup Waiting(pending[r])
      /\ freed' = freed \cup Buffers(pending[r])
      /\ latest' = latest /\ shown' = shown /\ out' = out /\ registers' = registers
      /\ signaled' = signaled /\ next' = next
  BY Zenon DEF CancelTrees
<1>3. /\ cut[r] = Len(pending[r]) /\ \A s \in Roots : s # r => cut[s] = 0
      /\ DOMAIN cut = Roots
  BY Zenon
<1>4. Within(pending, cut)
  <2>1. \A s \in Roots : cut[s] \in Nat /\ cut[s] <= Len(pending[s]) BY <1>1, <1>3
  <2>2. cut \in [Roots -> Nat] BY Zenon, <2>1
  <2> QED BY Zenon, <2>1, <2>2 DEF Within
<1> HIDE DEF cut
<1>5. \A s \in Roots : Remaining(pending[s], cut[s]) = IF s = r THEN <<>> ELSE pending[s]
  <2> TAKE s \in Roots
  <2>1. pending[s] \in Seq(Trees) /\ Len(pending[s]) \in Nat BY Zenon, <1>1, QueueEntries
  <2> DEFINE q == pending[s]
  <2> HIDE DEF q
  <2>2. q \in Seq(Trees) /\ Len(q) \in Nat BY Zenon, <2>1 DEF q
  <2>3. SubSeq(q, Len(q) + 1, Len(q)) = <<>> BY Zenon, <2>2, NothingLeft
  <2>4. SubSeq(q, 0 + 1, Len(q)) = q
    <3>1. 0 + 1 = 1 OBVIOUS
    <3>2. SubSeq(q, 1, Len(q)) = q BY <2>2
    <3> QED BY Zenon, <3>1, <3>2
  <2> QED BY Zenon, <2>3, <2>4, <1>3 DEF Remaining, q
<1>6. pending' = Cut(pending, cut)
  <2>1. pending' = [s \in Roots |-> IF s = r THEN <<>> ELSE pending[s]] BY Zenon, <1>1, <1>2 DEF Queues
  <2> QED BY Zenon, <2>1, <1>5 DEF Cut
<1>7. 1..0 = {} OBVIOUS
<1>8. /\ \A s \in Roots : DOMAIN pending[s] = 1..Len(pending[s])
      /\ \A i \in 1..Len(pending[r]) : BuffersOf(pending[r][i]) \subseteq Acquires
                                       /\ pending[r][i].deps \subseteq BuffersOf(pending[r][i])
  BY Zenon, <1>1, QueueEntries, TreeBuffers
<1>9. Buffers(pending[r]) = Gone(pending, cut, Roots \ none)
  <2>1. \A b : b \in Buffers(pending[r]) <=> \E i \in 1..Len(pending[r]) : b \in BuffersOf(pending[r][i])
    BY Zenon, <1>8 DEF Buffers, Range
  <2>2. \A b : b \in Gone(pending, cut, Roots \ none) <=> \E i \in 1..Len(pending[r]) : b \in BuffersOf(pending[r][i])
    BY Zenon, <1>3, <1>7, <1>8 DEF Gone
  <2> QED BY Zenon, <2>1, <2>2
<1>10. Waiting(pending[r]) = GoneWaits(pending, cut, Roots \ none)
  <2>1. \A b : b \in Waiting(pending[r]) <=> \E i \in 1..Len(pending[r]) : b \in pending[r][i].deps
    BY Zenon, <1>8 DEF Waiting, Range
  <2>2. \A b : b \in GoneWaits(pending, cut, Roots \ none) <=> \E i \in 1..Len(pending[r]) : b \in pending[r][i].deps
    BY Zenon, <1>3, <1>7, <1>8 DEF GoneWaits
  <2> QED BY Zenon, <2>1, <2>2
<1>11. out = out \cup Gone(pending, cut, none) BY Zenon DEF Gone
<1>12. none \in SUBSET Roots /\ \A s \in none : \A i \in 1..cut[s] : pending[s][i].deps = {} BY Zenon
<1> HIDE DEF none
<1>13. Settled(Cut(pending, cut), out \cup Gone(pending, cut, none), freed \cup Gone(pending, cut, Roots \ none),
              registers, cancels \cup GoneWaits(pending, cut, Roots \ none), signaled, next)
  BY Zenon, <1>1, <1>4, <1>12, CutSettled
<1>14. Settled(pending', out', freed', registers', cancels', signaled', next')
  BY Zenon, <1>2, <1>6, <1>9, <1>10, <1>11, <1>13
<1>15. QueueOK(Cut(pending, cut), shown, latest, next)
  <2>1. /\ shown \in Commits /\ \A s \in Roots : \A p \in Parts : shown[s][p] <= latest[s][p]
        /\ Ordered(pending, shown, latest)
    BY Zenon, <1>1 DEF QueueOK
  <2>2. \A s \in Roots : \A i \in 1..Len(pending[s]) : i \notin 1..cut[s] =>
            \A p \in DOMAIN pending[s][i].nodes : shown[s][p] < pending[s][i].nodes[p].commit
    BY Zenon, <2>1 DEF Ordered, Follows
  <2> QED BY Zenon, <2>1, <2>2, <1>1, <1>4, CutOK
<1>16. Bounded(pending')
  <2> SUFFICES ASSUME NEW s \in Roots, NEW i \in 1..Len(pending'[s]), pending'[s][i].kind = "client"
               PROVE i <= QueueLimit
    BY Zenon DEF Bounded
  <2>1. pending'[r] = <<>> /\ \A t \in Roots : t # r => pending'[t] = pending[t]
    BY Zenon, <1>1, <1>2 DEF Queues
  <2>2. Len(<<>>) = 0 OBVIOUS
  <2>3. s # r BY Zenon, <2>1, <2>2, <1>7
  <2> QED BY Zenon, <2>1, <2>3, <1>1 DEF Bounded
<1> QED BY Zenon, <1>2, <1>6, <1>14, <1>15, <1>16


\* Marking acquires ready.
LEMMA MarkedEntries ==
  ASSUME pending \in Queues, NEW S
  PROVE /\ Marked(S) \in Queues
        /\ \A r \in Roots : Len(Marked(S)[r]) = Len(pending[r])
        /\ \A r \in Roots : \A i \in 1..Len(pending[r]) :
              /\ Marked(S)[r][i].nodes = pending[r][i].nodes
              /\ Marked(S)[r][i].deps = pending[r][i].deps \ S
              /\ Marked(S)[r][i].fifo = pending[r][i].fifo
              /\ Marked(S)[r][i].kind = pending[r][i].kind
<1> DEFINE mark(tx) == [tx EXCEPT !.deps = @ \ S]
           row(r) == [i \in DOMAIN pending[r] |-> mark(pending[r][i])]
<1>1. ASSUME NEW tx \in Trees
      PROVE /\ mark(tx) \in Trees /\ mark(tx).nodes = tx.nodes /\ mark(tx).deps = tx.deps \ S
            /\ mark(tx).fifo = tx.fifo /\ mark(tx).kind = tx.kind
  <2>1. tx \in Shapes BY Zenon DEF Trees
  <2>2. /\ mark(tx).nodes = tx.nodes /\ mark(tx).deps = tx.deps \ S
        /\ mark(tx).fifo = tx.fifo /\ mark(tx).kind = tx.kind /\ mark(tx) \in Shapes
    BY <2>1 DEF Shapes
  <2>3. BuffersOf(mark(tx)) = BuffersOf(tx) BY Zenon, <2>2 DEF BuffersOf
  <2> HIDE DEF mark
  <2> QED BY Zenon, <2>2, <2>3 DEF Trees
<1>2. ASSUME NEW r \in Roots
      PROVE /\ Marked(S)[r] \in Seq(Trees) /\ Len(Marked(S)[r]) = Len(pending[r])
            /\ \A i \in 1..Len(pending[r]) : Marked(S)[r][i] = mark(pending[r][i])
  <2>1. /\ pending[r] \in Seq(Trees) /\ Len(pending[r]) \in Nat /\ DOMAIN pending[r] = 1..Len(pending[r])
        /\ \A i \in 1..Len(pending[r]) : pending[r][i] \in Trees
    BY Zenon, QueueEntries
  <2>2. Marked(S)[r] = [i \in 1..Len(pending[r]) |-> mark(pending[r][i])] BY Zenon, <2>1 DEF Marked
  <2>3. \A i \in 1..Len(pending[r]) : mark(pending[r][i]) \in Trees BY Zenon, <2>1, <1>1
  <2> DEFINE n == Len(pending[r])
             f == Marked(S)[r]
  <2>4. f \in [1..n -> Trees] BY Zenon, <2>2, <2>3
  <2>5. \A i \in 1..n : f[i] = mark(pending[r][i]) BY Zenon, <2>2
  <2>6. n \in Nat BY Zenon, <2>1
  <2> HIDE DEF n, f, mark
  <2>7. f \in Seq(Trees) /\ Len(f) = n BY <2>4, <2>6
  <2> QED BY Zenon, <2>5, <2>7 DEF n, f
<1>3. Marked(S) \in Queues BY Zenon, <1>2 DEF Marked, Queues
<1>4. \A r \in Roots : \A i \in 1..Len(pending[r]) : pending[r][i] \in Trees BY Zenon, QueueEntries
<1> HIDE DEF mark, row
<1> QED BY Zenon, <1>1, <1>2, <1>3, <1>4

\* Acquires that have signalled are marked ready; the change list is taken or not.
LEMMA MarkKeeps ==
  ASSUME ClientInv, NEW S, S \subseteq signaled, pending' = Marked(S),
         \/ registers' = {} /\ cancels' = {}
         \/ registers' = registers /\ cancels' = cancels,
         UNCHANGED <<latest, shown, out, freed, barrier, life, exhausted, signaled, next>>
  PROVE ClientInv'
<1> DEFINE pend2 == Marked(S)
           cut == [r \in Roots |-> 0]
<1>1. /\ QueueOK(pending, shown, latest, next) /\ pending \in Queues
      /\ Settled(pending, out, freed, registers, cancels, signaled, next)
      /\ Bounded(pending) /\ \A s \in Roots : Len(pending[s]) \in Nat
      /\ life \in [Roots -> {"live", "terminal", "gone"}]
      /\ barrier \subseteq Roots /\ exhausted \subseteq Roots
  BY ZenonT(60), InvParts
<1>2. /\ pend2 \in Queues
      /\ \A r \in Roots : Len(pend2[r]) = Len(pending[r])
      /\ \A r \in Roots : \A i \in 1..Len(pending[r]) :
              /\ pend2[r][i].nodes = pending[r][i].nodes
              /\ pend2[r][i].deps = pending[r][i].deps \ S
              /\ pend2[r][i].kind = pending[r][i].kind
  BY <1>1, MarkedEntries
<1> HIDE DEF pend2
<1>3. \A r \in Roots : \A i \in 1..Len(pending[r]) : BuffersOf(pend2[r][i]) = BuffersOf(pending[r][i])
  BY Zenon, <1>2 DEF BuffersOf
<1>4. \A b : /\ Holds(pend2, b) <=> Holds(pending, b)
             /\ Awaits(pend2, b) <=> Awaits(pending, b) /\ b \notin S
  <2>1. \A b : Holds(pend2, b) <=> Holds(pending, b)
    <3> TAKE b
    <3>1. \A r \in Roots : 1..Len(pend2[r]) = 1..Len(pending[r]) BY Zenon, <1>2
    <3>2. ASSUME Holds(pend2, b) PROVE Holds(pending, b)
      <4>1. PICK r \in Roots : \E i \in 1..Len(pend2[r]) : b \in BuffersOf(pend2[r][i])
        BY Zenon, <3>2 DEF Holds
      <4>2. PICK i \in 1..Len(pending[r]) : b \in BuffersOf(pend2[r][i]) BY Zenon, <4>1, <3>1
      <4>3. b \in BuffersOf(pending[r][i]) BY Zenon, <4>2, <1>3
      <4> QED BY Zenon, <4>3 DEF Holds
    <3>3. ASSUME Holds(pending, b) PROVE Holds(pend2, b)
      <4>1. PICK r \in Roots : \E i \in 1..Len(pending[r]) : b \in BuffersOf(pending[r][i])
        BY Zenon, <3>3 DEF Holds
      <4>2. PICK i \in 1..Len(pending[r]) : b \in BuffersOf(pending[r][i]) BY Zenon, <4>1
      <4>3. b \in BuffersOf(pend2[r][i]) /\ i \in 1..Len(pend2[r]) BY Zenon, <4>2, <1>3, <3>1
      <4> QED BY Zenon, <4>3 DEF Holds
    <3> QED BY Zenon, <3>2, <3>3
  <2>2. \A b : Awaits(pend2, b) <=> Awaits(pending, b) /\ b \notin S
    <3> TAKE b
    <3>1. \A r \in Roots : 1..Len(pend2[r]) = 1..Len(pending[r]) BY Zenon, <1>2
    <3>2. \A r \in Roots : \A i \in 1..Len(pending[r]) :
            b \in pend2[r][i].deps <=> b \in pending[r][i].deps /\ b \notin S
      BY Zenon, <1>2
    <3>3. ASSUME Awaits(pend2, b) PROVE Awaits(pending, b) /\ b \notin S
      <4>1. PICK r \in Roots : \E i \in 1..Len(pend2[r]) : b \in pend2[r][i].deps
        BY Zenon, <3>3 DEF Awaits
      <4>2. PICK i \in 1..Len(pending[r]) : b \in pend2[r][i].deps BY Zenon, <4>1, <3>1
      <4> QED BY Zenon, <4>2, <3>2 DEF Awaits
    <3>4. ASSUME Awaits(pending, b), b \notin S PROVE Awaits(pend2, b)
      <4>1. PICK r \in Roots : \E i \in 1..Len(pending[r]) : b \in pending[r][i].deps
        BY Zenon, <3>4 DEF Awaits
      <4>2. PICK i \in 1..Len(pending[r]) : b \in pending[r][i].deps BY Zenon, <4>1
      <4>3. b \in pend2[r][i].deps /\ i \in 1..Len(pend2[r]) BY ZenonT(60), <4>2, <3>1, <3>2, <3>4
      <4> QED BY Zenon, <4>3 DEF Awaits
    <3> QED BY Zenon, <3>3, <3>4
  <2> QED BY Zenon, <2>1, <2>2
<1>5. cut \in [Roots -> Nat] /\ \A r \in Roots : \A j \in 1..Len(pend2[r]) : j + cut[r] = j
  <2>1. 0 \in Nat /\ \A n \in Nat : \A j \in 1..n : j + 0 = j OBVIOUS
  <2>2. cut \in [Roots -> Nat] /\ \A r \in Roots : cut[r] = 0 BY Zenon, <2>1
  <2>3. \A r \in Roots : Len(pend2[r]) \in Nat BY Zenon, <1>1, <1>2
  <2> HIDE DEF cut
  <2> QED BY Zenon, <2>1, <2>2, <2>3
<1>6. From(pend2, pending, cut)
  <2> SUFFICES ASSUME NEW r \in Roots, NEW j \in 1..Len(pend2[r])
               PROVE /\ j + cut[r] \in 1..Len(pending[r])
                     /\ pend2[r][j].nodes = pending[r][j + cut[r]].nodes
    BY Zenon DEF From
  <2>1. j \in 1..Len(pending[r]) /\ j + cut[r] = j BY Zenon, <1>2, <1>5
  <2>2. pend2[r][j].nodes = pending[r][j].nodes BY Zenon, <2>1, <1>2
  <2> QED BY Zenon, <2>1, <2>2
<1> HIDE DEF cut
<1>7. QueueOK(pend2, shown, latest, next)
  <2>1. /\ shown \in Commits /\ \A r \in Roots : \A p \in Parts : shown[r][p] <= latest[r][p]
        /\ Ordered(pending, shown, latest)
    BY Zenon, <1>1 DEF QueueOK
  <2>2. \A r \in Roots : \A i \in 1..Len(pend2[r]) : \A p \in DOMAIN pend2[r][i].nodes :
            shown[r][p] < pend2[r][i].nodes[p].commit
    BY Zenon, <1>2, <2>1 DEF Ordered, Follows
  <2> QED BY Zenon, <1>1, <1>2, <1>5, <1>6, <2>1, <2>2, FromOK
<1>8. /\ out \subseteq Old(next) /\ freed \subseteq Old(next) /\ registers \subseteq Old(next)
      /\ cancels \subseteq Old(next) /\ signaled \subseteq Old(next)
      /\ \A r \in Roots : \A i \in 1..Len(pending[r]) : TxReady(pending[r][i], signaled)
      /\ \A b \in Acquires : Accounted(pending, out, freed, registers, cancels, signaled, b)
  BY ZenonT(60), <1>1 DEF Settled
<1>9. \A r \in Roots : \A i \in 1..Len(pend2[r]) : TxReady(pend2[r][i], signaled)
  <2> TAKE r \in Roots
  <2> TAKE i \in 1..Len(pend2[r])
  <2>1. i \in 1..Len(pending[r]) BY Zenon, <1>2
  <2>2. TxReady(pending[r][i], signaled) BY Zenon, <1>8, <2>1
  <2>3. BuffersOf(pend2[r][i]) = BuffersOf(pending[r][i]) BY Zenon, <1>3, <2>1
  <2>4. pend2[r][i].deps = pending[r][i].deps \ S BY Zenon, <1>2, <2>1
  <2> QED BY Zenon, <2>2, <2>3, <2>4 DEF TxReady
<1>10. \A b \in Acquires : Accounted(pend2, out, freed, registers', cancels', signaled, b)
  <2> TAKE b \in Acquires
  <2>1. Accounted(pending, out, freed, registers, cancels, signaled, b) BY Zenon, <1>8
  <2>2. CASE registers' = {} /\ cancels' = {} BY Zenon, <2>1, <2>2, <1>4 DEF Accounted
  <2>3. CASE registers' = registers /\ cancels' = cancels BY Zenon, <2>1, <2>3, <1>4 DEF Accounted
  <2> QED BY Zenon, <2>2, <2>3
<1>11. Settled(pend2, out, freed, registers', cancels', signaled, next)
  BY Zenon, <1>8, <1>9, <1>10 DEF Settled
<1>12. Bounded(pend2)
  <2> SUFFICES ASSUME NEW s \in Roots, NEW i \in 1..Len(pend2[s]), pend2[s][i].kind = "client"
               PROVE i <= QueueLimit
    BY Zenon DEF Bounded
  <2>1. i \in 1..Len(pending[s]) BY Zenon, <1>2
  <2>2. pending[s][i].kind = "client" BY Zenon, <2>1, <1>2
  <2> QED BY Zenon, <2>1, <2>2, <1>1 DEF Bounded
<1> QED BY Zenon, <1>1, <1>7, <1>11, <1>12 DEF ClientInv, pend2

\* A producer signals an acquire point.
LEMMA SignalKeeps == ASSUME ClientInv, Signal PROVE ClientInv'
<1>1. /\ QueueOK(pending, shown, latest, next) /\ pending \in Queues
      /\ Settled(pending, out, freed, registers, cancels, signaled, next)
  BY Zenon, InvParts
<1>2. /\ pending' = pending /\ latest' = latest /\ shown' = shown /\ out' = out /\ freed' = freed
      /\ barrier' = barrier /\ life' = life /\ exhausted' = exhausted
      /\ registers' = registers /\ cancels' = cancels /\ next' = next
  BY Zenon DEF Signal, treeVars
<1>3. PICK a \in AllWaiting \cup freed : signaled' = signaled \cup {a} BY Zenon DEF Signal
<1>4. /\ out \subseteq Old(next) /\ freed \subseteq Old(next) /\ registers \subseteq Old(next)
      /\ cancels \subseteq Old(next) /\ signaled \subseteq Old(next)
      /\ \A r \in Roots : \A i \in 1..Len(pending[r]) : TxReady(pending[r][i], signaled)
      /\ \A b \in Acquires : Accounted(pending, out, freed, registers, cancels, signaled, b)
  BY Zenon, <1>1 DEF Settled
<1>5. Holds(pending, a) \/ a \in freed
  <2>1. \A b : b \in WaitIn(pending) <=> Awaits(pending, b) BY Zenon, <1>1, Members
  <2>2. \A b : Awaits(pending, b) => Holds(pending, b) BY Zenon, <1>1, WaitsHeld
  <2>3. AllWaiting = WaitIn(pending) BY Zenon DEF AllWaiting, WaitIn
  <2> QED BY Zenon, <2>1, <2>2, <2>3
<1>6. a \in Old(next) BY Zenon, <1>1, <1>4, <1>5, HeldOld
<1>7. signaled' \subseteq Old(next) BY Zenon, <1>3, <1>4, <1>6
<1>8. \A r \in Roots : \A i \in 1..Len(pending[r]) : TxReady(pending[r][i], signaled')
  BY Zenon, <1>3, <1>4 DEF TxReady
<1>9. \A b \in Acquires : Accounted(pending, out, freed, registers, cancels, signaled', b)
  <2> TAKE b \in Acquires
  <2>1. Accounted(pending, out, freed, registers, cancels, signaled, b) BY Zenon, <1>4
  <2>2. b \in signaled' <=> b \in signaled \/ b = a BY Zenon, <1>3
  <2>3. b = a => Holds(pending, b) \/ b \in freed BY Zenon, <1>5
  <2> QED BY Zenon, <2>1, <2>2, <2>3 DEF Accounted
<1>10. Settled(pending, out, freed, registers, cancels, signaled', next)
  BY Zenon, <1>4, <1>7, <1>8, <1>9 DEF Settled
<1> QED BY Zenon, <1>2, <1>10 DEF ClientInv


\* prepare_frame publishes what is ready.
LEMMA ProgressKeeps == ASSUME ClientInv, Progress PROVE ClientInv'
<1> DEFINE no == {}
<1>1. /\ QueueOK(pending, shown, latest, next) /\ pending \in Queues
      /\ Settled(pending, out, freed, registers, cancels, signaled, next)
      /\ Bounded(pending) /\ \A s \in Roots : Len(pending[s]) \in Nat
      /\ life \in [Roots -> {"live", "terminal", "gone"}]
      /\ barrier \subseteq Roots /\ exhausted \subseteq Roots
  BY Zenon, InvParts
<1>2. /\ CommitReady(Roots, pending, no, no) /\ latest' = latest /\ life' = life /\ exhausted' = exhausted
      /\ registers' = registers /\ signaled' = signaled /\ next' = next
  BY Zenon DEF Progress
<1>3. freed = freed \cup no /\ cancels = cancels \cup no BY Zenon
<1> HIDE DEF no
<1>4. Settled(pending, out, freed \cup no, registers, cancels \cup no, signaled, next) BY Zenon, <1>1, <1>3
<1>5. /\ QueueOK(pending', shown', latest, next)
      /\ Settled(pending', out', freed', registers, cancels', signaled, next)
      /\ Advanced(pending, pending', Prefix(Roots, pending))
      /\ barrier' \subseteq barrier \cup Roots
  BY Zenon, <1>1, <1>2, <1>4, PassKeeps
<1>6. Bounded(pending')
  <2>1. \A s \in Roots : Prefix(Roots, pending)[s] \in Nat
    <3>1. \A s \in Roots : Prefix(Roots, pending)[s] \in 0..Len(pending[s]) BY Zenon, <1>1, PrefixBounds
    <3> QED BY <3>1, <1>1
  <2>2. pending' \in Queues BY Zenon, <1>5 DEF QueueOK
  <2> QED BY Zenon, <2>1, <2>2, <1>1, <1>5, AdvanceBounded
<1> QED BY Zenon, <1>1, <1>2, <1>5, <1>6 DEF ClientInv

\* No step of the server breaks the invariant.
LEMMA ServerKeeps == ASSUME ClientInv, ServerStep PROVE ClientInv'
<1>1. /\ life \in [Roots -> {"live", "terminal", "gone"}]
      /\ barrier \subseteq Roots /\ exhausted \subseteq Roots
  BY Zenon DEF ClientInv
<1>2. ASSUME NEW r \in Roots, Commit(r) \/ Migrate(r) PROVE ClientInv'
  <2>1. PICK kind \in Kinds : Submit(r, kind) BY Zenon, <1>2 DEF Commit, Migrate, Kinds
  <2> QED BY Zenon, <2>1, SubmitKeeps
<1>3. ASSUME NEW r \in Roots, DestroyBuffer(r) PROVE ClientInv'
  <2>1. CancelTrees(r) /\ barrier' = barrier /\ life' = life /\ exhausted' = exhausted
    BY Zenon, <1>3 DEF DestroyBuffer
  <2> QED BY Zenon, <2>1, <1>1, CancelKeeps DEF ClientInv
<1>4. ASSUME NEW r \in Roots, DestroySurface(r) PROVE ClientInv'
  <2>1. CancelTrees(r) /\ life' = [life EXCEPT ![r] = "gone"] /\ barrier' = barrier \ {r}
        /\ exhausted' = exhausted
    BY Zenon, <1>4 DEF DestroySurface
  <2>2. life' \in [Roots -> {"live", "terminal", "gone"}] /\ barrier' \subseteq Roots
    BY Zenon, <1>1, <2>1
  <2> QED BY Zenon, <2>1, <2>2, <1>1, CancelKeeps DEF ClientInv
<1>5. ASSUME NEW r \in Roots, KillExhausted(r) PROVE ClientInv'
  <2>1. /\ exhausted' = exhausted \ {r}
        /\ life' = [life EXCEPT ![r] = IF life[r] = "gone" THEN life[r] ELSE "terminal"]
        /\ pending' = pending /\ latest' = latest /\ shown' = shown /\ out' = out /\ freed' = freed
        /\ barrier' = barrier /\ registers' = registers /\ cancels' = cancels
        /\ signaled' = signaled /\ next' = next
    BY Zenon, <1>5 DEF KillExhausted
  <2>2. life' \in [Roots -> {"live", "terminal", "gone"}] /\ exhausted' \subseteq Roots
    BY Zenon, <1>1, <2>1
  <2> QED BY Zenon, <2>1, <2>2 DEF ClientInv
<1>6. ASSUME NEW r \in Roots, ClearBarrier(r) PROVE ClientInv'
  <2>1. /\ exhausted' = exhausted /\ life' = life /\ barrier' = barrier \ {r}
        /\ pending' = pending /\ latest' = latest /\ shown' = shown /\ out' = out /\ freed' = freed
        /\ registers' = registers /\ cancels' = cancels
        /\ signaled' = signaled /\ next' = next
    BY Zenon, <1>6 DEF ClearBarrier
  <2>2. barrier' \subseteq Roots BY Zenon, <1>1, <2>1
  <2> QED BY Zenon, <2>1, <2>2 DEF ClientInv
<1> QED BY Zenon, <1>2, <1>3, <1>4, <1>5, <1>6, ProgressKeeps DEF ServerStep

\* A delivery of signalled acquires preserves the invariant.
LEMMA DeliverKeeps == ASSUME ClientInv, Deliver PROVE ClientInv'
<1>1. PICK ready \in SUBSET (AllWaiting \cap signaled) : pending' = Marked(ready) BY Zenon DEF Deliver
<1>2. ready \subseteq signaled BY Zenon
<1>3. /\ \/ registers' = {} /\ cancels' = {}
         \/ registers' = registers /\ cancels' = cancels
      /\ UNCHANGED <<latest, shown, out, freed, barrier, life, exhausted, signaled, next>>
  BY Zenon DEF Deliver
<1> QED BY Zenon, <1>1, <1>2, <1>3, MarkKeeps

\* The invariant holds before the first commit.
LEMMA QueueInitKeeps == ASSUME QueueInit PROVE ClientInv
<1>1. /\ pending = [r \in Roots |-> <<>>]
      /\ latest = [r \in Roots |-> [p \in Parts |-> 0]]
      /\ shown = [r \in Roots |-> [p \in Parts |-> 0]]
      /\ out = {} /\ freed = {} /\ barrier = {} /\ exhausted = {}
      /\ life = [r \in Roots |-> "live"]
      /\ registers = {} /\ cancels = {} /\ signaled = {}
      /\ next = 1
  BY Zenon DEF QueueInit
<1>2. /\ MaxCommit \in Nat /\ QueueLimit \in Nat BY QueueAssumption
<1>3. pending \in Queues
  <2>1. <<>> \in Seq(Trees) OBVIOUS
  <2> QED BY Zenon, <1>1, <2>1 DEF Queues
<1>4. shown \in Commits /\ latest \in Commits
  <2>1. 0 \in 0..MaxCommit BY <1>2
  <2> QED BY Zenon, <1>1, <2>1 DEF Commits
<1>5. next \in 1..MaxCommit + 1 /\ \A r \in Roots : \A p \in Parts : shown[r][p] <= latest[r][p] /\ latest[r][p] < next
  <2>1. \A r \in Roots : \A p \in Parts : shown[r][p] = 0 /\ latest[r][p] = 0 BY Zenon, <1>1
  <2> QED BY SMTT(30), <1>1, <1>2, <2>1
<1>6. \A r \in Roots : 1..Len(pending[r]) = {}
  <2>1. \A r \in Roots : pending[r] = <<>> BY Zenon, <1>1
  <2>2. Len(<<>>) = 0 OBVIOUS
  <2>3. 1..0 = {} OBVIOUS
  <2> QED BY Zenon, <2>1, <2>2, <2>3
<1>7. QueueOK(pending, shown, latest, next)
  BY Zenon, <1>3, <1>4, <1>5, <1>6 DEF QueueOK, Ordered, Apart
<1>8. \A b \in Acquires : Accounted(pending, out, freed, registers, cancels, signaled, b)
  BY Zenon, <1>1, <1>6 DEF Accounted, Holds, Awaits
<1>9. Settled(pending, out, freed, registers, cancels, signaled, next)
  BY Zenon, <1>1, <1>6, <1>8 DEF Settled
<1>10. life \in [Roots -> {"live", "terminal", "gone"}] BY Zenon, <1>1
<1>11. Bounded(pending) BY Zenon, <1>6 DEF Bounded
<1> QED BY Zenon, <1>1, <1>7, <1>9, <1>10, <1>11 DEF ClientInv

\* The invariant says what the runs check.
LEMMA InvSays ==
  ASSUME ClientInv
  PROVE QueueInv /\ PublishedReady /\ BuffersPartition /\ ChangesAgree
<1>1. /\ QueueOK(pending, shown, latest, next) /\ pending \in Queues
      /\ life \in [Roots -> {"live", "terminal", "gone"}]
      /\ barrier \subseteq Roots /\ exhausted \subseteq Roots
  BY Zenon, InvParts
<1>2. /\ out \subseteq Old(next) /\ freed \subseteq Old(next) /\ registers \subseteq Old(next)
      /\ cancels \subseteq Old(next) /\ signaled \subseteq Old(next)
      /\ \A b \in Acquires : Accounted(pending, out, freed, registers, cancels, signaled, b)
  BY Zenon DEF ClientInv, Settled
<1>3. /\ shown \in Commits /\ latest \in Commits /\ Ordered(pending, shown, latest) /\ Apart(pending)
  BY Zenon, <1>1 DEF QueueOK
<1>4. \A r \in Roots : /\ DOMAIN pending[r] = 1..Len(pending[r])
                       /\ \A i \in 1..Len(pending[r]) : pending[r][i] \in Trees
  BY Zenon, <1>1, QueueEntries
<1>5. \A tx \in Trees : /\ "root" \in DOMAIN tx.nodes /\ DOMAIN tx.nodes \subseteq Parts
                        /\ \A p \in DOMAIN tx.nodes : tx.nodes[p] \in Nodes
                        /\ tx.deps \subseteq BuffersOf(tx)
                        /\ tx.fifo \in BOOLEAN /\ tx.kind \in Kinds
  BY Zenon, TreeBuffers, ShapeParts
<1>6. \A S : S \subseteq Old(next) => S \subseteq Acquires BY Zenon DEF Old
<1>7. QueueTypeOK
  <2>1. \A r \in Roots : \A tx \in Range(pending[r]) : tx \in Trees BY Zenon, <1>4 DEF Range
  <2>2. out \cup freed \cup signaled \cup registers \cup cancels \subseteq Acquires BY Zenon, <1>2, <1>6
  <2>3. /\ latest \in [Roots -> [Parts -> 0 .. MaxCommit]]
        /\ shown \in [Roots -> [Parts -> 0 .. MaxCommit]]
    BY Zenon, <1>3 DEF Commits
  <2> QED BY Zenon, <1>1, <1>5, <2>1, <2>2, <2>3 DEF QueueTypeOK
<1>8. QueueOrdered BY Zenon, <1>3, <1>4 DEF QueueOrdered, Ordered, Follows
<1>9. QueueInv
  <2>1. Bounded(pending) BY Zenon, InvParts
  <2>2. QueueBounded BY Zenon, <2>1, <1>4 DEF Bounded, QueueBounded
  <2> QED BY Zenon, <2>2, <1>7, <1>8 DEF QueueInv
<1>10. PublishedReady
  <2>1. \A b \in out : b \in Acquires BY Zenon, <1>2 DEF Old
  <2>2. \A b \in out : b \in signaled BY Zenon, <2>1, <1>2 DEF Accounted
  <2> QED BY Zenon, <2>2 DEF PublishedReady
<1>11. \A b : /\ b \in HeldIn(pending) <=> Holds(pending, b)
              /\ b \in WaitIn(pending) <=> Awaits(pending, b)
              /\ Holds(pending, b) => b \in Acquires
  BY Zenon, <1>1, Members, WaitsHeld
<1>12. BuffersPartition
  <2> DEFINE held == UNION {Buffers(pending[r]) : r \in Roots}
  <2>1. held = HeldIn(pending) BY Zenon DEF HeldIn
  <2> HIDE DEF held
  <2>2. \A b : b \in held => b \in Acquires /\ Holds(pending, b) BY Zenon, <2>1, <1>11
  <2>3. held \cap out = {} /\ held \cap freed = {} BY Zenon, <2>2, <1>2 DEF Accounted
  <2>4. out \cap freed = {}
    <3>1. \A b \in out : b \in Acquires BY Zenon, <1>2 DEF Old
    <3> QED BY Zenon, <3>1, <1>2 DEF Accounted
  <2>5. signaled \cup registers \subseteq held \cup out \cup freed
    <3>1. \A b \in signaled \cup registers : b \in Acquires BY Zenon, <1>2 DEF Old
    <3>2. \A b \in signaled \cup registers : Holds(pending, b) \/ b \in out \/ b \in freed
      BY Zenon, <3>1, <1>2 DEF Accounted
    <3> QED BY Zenon, <3>2, <2>1, <1>11
  <2>6. \A r \in Roots : \A i, j \in DOMAIN pending[r] :
          i # j => BuffersOf(pending[r][i]) \cap BuffersOf(pending[r][j]) = {}
    BY Zenon, <1>3, <1>4 DEF Apart
  <2> QED BY Zenon, <2>3, <2>4, <2>5, <2>6 DEF BuffersPartition, held
<1>13. ChangesAgree
  <2>1. AllWaiting = WaitIn(pending) BY Zenon DEF AllWaiting, WaitIn
  <2>2. \A b \in cancels \cup registers : b \in Acquires BY Zenon, <1>2 DEF Old
  <2>3. \A b \in cancels : ~Awaits(pending, b) BY Zenon, <2>2, <1>2 DEF Accounted
  <2>4. \A b \in registers : Awaits(pending, b) \/ b \in cancels \/ b \in signaled
    BY Zenon, <2>2, <1>2 DEF Accounted
  <2> QED BY Zenon, <2>1, <2>3, <2>4, <1>11 DEF ChangesAgree
<1> QED BY Zenon, <1>9, <1>10, <1>12, <1>13


-----------------------------------------------------------------------------
(* What the server tells the runtime *)

\* A step of the server: what is newly waited for is registered, what is no
\* longer waited for is cancelled, and only new acquires are registered.
Told ==
    /\ registers \subseteq registers' /\ cancels \subseteq cancels'
    /\ \A a : a \in registers' => a \in registers \/ a \notin Old(next)
    /\ \A a : Awaits(pending', a) => Awaits(pending, a) \/ a \in registers'
    /\ \A a : Awaits(pending, a) => Awaits(pending', a) \/ a \in cancels'
    /\ \A a : a \in Old(next) => a \in Old(next')

\* A pass starts no wait, and cancels every wait it ends.
LEMMA PassTells ==
  ASSUME NEW R, NEW pend, NEW la, NEW nx, QueueOK(pend, shown, la, nx),
         NEW released, NEW canceled, CommitReady(R, pend, released, canceled)
  PROVE /\ \A a : Awaits(pending', a) => Awaits(pend, a)
        /\ \A a : Awaits(pend, a) => Awaits(pending', a) \/ a \in cancels'
        /\ cancels \subseteq cancels' /\ canceled \subseteq cancels'
<1> DEFINE cut == Taking(R, pend)
           S == Roots \ Dead(R, pend)
<1>1. PassIs(R, pend, released, canceled, la) BY Zenon, Pass
<1>2. pend \in Queues /\ Apart(pend) BY Zenon DEF QueueOK
<1>3. /\ pending' = Cut(pend, cut)
      /\ cancels' = (cancels \cup canceled) \cup GoneWaits(pend, cut, Roots \ S)
      /\ \A r \in S : \A i \in 1..cut[r] : pend[r][i].deps = {}
  BY Zenon, <1>1 DEF PassIs
<1>4. Within(pend, cut)
  <2>1. CASE Roots = {}
    <3>1. cut \in [Roots -> Nat] BY Zenon, <2>1 DEF Taking
    <3> QED BY Zenon, <2>1, <3>1 DEF Within
  <2> QED BY Zenon, <2>1, <1>2, PrefixBounds
<1>5. S \in SUBSET Roots BY Zenon
<1> HIDE DEF cut, S
<1>6. \A a : Awaits(pend, a) <=> \/ Awaits(Cut(pend, cut), a) \/ a \in GoneWaits(pend, cut, S)
                                 \/ a \in GoneWaits(pend, cut, Roots \ S)
  BY Zenon, <1>2, <1>4, <1>5, CutMembers
<1>7. \A a : a \notin GoneWaits(pend, cut, S) BY Zenon, <1>3 DEF GoneWaits
<1> QED BY Zenon, <1>3, <1>6, <1>7

\* A submitted update tells the runtime of every wait it starts or ends.
LEMMA SubmitTells == ASSUME ClientInv, NEW r \in Roots, NEW kind \in Kinds, Submit(r, kind) PROVE Told
<1>1. next <= MaxCommit /\ next' = next + 1 BY Zenon DEF Submit
<1>2. PICK update \in Updates(kind), fifo \in BOOLEAN, valid \in BOOLEAN :
        LET tx == Incoming(update, fifo, kind) IN
          /\ IF Merges(r, tx) THEN MergeTree(r, tx, valid)
                              ELSE valid /\ QueueTree(r, tx)
          /\ latest' = [latest EXCEPT ![r] = [p \in Parts |->
                           IF p \in DOMAIN tx.nodes THEN next ELSE @[p]]]
          /\ signaled' = signaled \cup (BuffersOf(tx) \ tx.deps)
  BY Zenon DEF Submit
<1> DEFINE tx == Incoming(update, fifo, kind)
<1>3. next \in 1..MaxCommit
  <2>1. next \in 1..MaxCommit + 1 BY Zenon DEF ClientInv, QueueOK
  <2> QED BY <2>1, <1>1, QueueAssumption
<1>4. Newest(tx) BY Zenon, <1>3, IncomingTree DEF Newest, Fresh
<1>5. Counted(r, tx) BY Zenon, <1>1, <1>2 DEF Counted, Raised
<1>8. \A a : a \in Old(next) => a \in Old(next')
  <2> SUFFICES ASSUME NEW a \in Old(next) PROVE a \in Old(next') BY Zenon
  <2>1. a \in Acquires /\ a[1] < next BY Zenon DEF Old
  <2>2. a[1] \in 1..MaxCommit BY Zenon, <2>1 DEF Acquires
  <2>3. a[1] < next' BY SMTT(30), <1>1, <1>3, <2>1, <2>2
  <2> QED BY Zenon, <2>1, <2>3 DEF Old
<1>6. CASE Merges(r, tx)
  <2> DEFINE target == Last(pending[r])
             replaced == Replaced(target, tx)
             merged == Merged(target, tx, replaced)
             superseded == target.deps \cap replaced
             pend == Push(Pop(pending, r), r, merged)
             R == IF tx.kind = "migration" \/ Ready(r, merged) \/ ~HasAttachment(tx) THEN Roots ELSE {}
  <2>1. pending[r] # <<>> BY Zenon, <1>6 DEF Merges
  <2>2. MergeTree(r, tx, valid) BY Zenon, <1>2, <1>6
  <2> HIDE DEF tx
  <2>3. registers' = registers \cup tx.deps BY Zenon, <2>2 DEF MergeTree
  <2>4. QueueOK(pending, shown, latest, next) /\ tx \in Trees BY Zenon, <1>4 DEF ClientInv, Newest
  <2>5. MergeFacts(pending, r, tx, next) BY Zenon, <2>1, <2>4, MergeIsSo
  <2>6. Pop(pending, r) \in Queues /\ merged \in Trees
        /\ \A b : /\ Awaits(pending, b) <=> Awaits(Pop(pending, r), b) \/ b \in target.deps
                  /\ b \in merged.deps <=> ((b \in target.deps /\ b \notin replaced) \/ b \in tx.deps)
    BY Zenon, <2>5 DEF MergeFacts
  <2>7. \A b : Awaits(pend, b) <=> Awaits(Pop(pending, r), b) \/ b \in merged.deps
    BY Zenon, <2>6, PushMembers
  <2>8. \A a \in tx.deps : a \notin Old(next) BY Zenon, <1>3, <1>4, FreshNew DEF Newest
  <2>9. CASE valid
    <3>1. [pending EXCEPT ![r] = Append(Front(pending[r]), merged)] = pend
      <4> DEFINE f == Front(pending[r])
      <4> HIDE DEF f, merged
      <4>1. pending \in [Roots -> Seq(Trees)] BY Zenon, <2>4 DEF QueueOK, Queues
      <4>2. [pending EXCEPT ![r] = f][r] = f BY Zenon, <4>1
      <4>3. [[pending EXCEPT ![r] = f] EXCEPT ![r] = Append(f, merged)] = [pending EXCEPT ![r] = Append(f, merged)]
        BY <4>1
      <4> QED BY Zenon, <4>2, <4>3 DEF Push, Pop, f
    <3>2. CommitReady(R, [pending EXCEPT ![r] = Append(Front(pending[r]), merged)], replaced, superseded)
      BY Zenon, <2>2, <2>9 DEF MergeTree
    <3>3. CommitReady(R, pend, replaced, superseded) BY Zenon, <3>1, <3>2
    <3>4. QueueOK(pend, shown, latest', next + 1) BY Zenon, <1>1, <1>4, <1>5, <2>1, MergedOK
    <3> HIDE DEF R, pend
    <3>5. /\ \A a : Awaits(pending', a) => Awaits(pend, a)
          /\ \A a : Awaits(pend, a) => Awaits(pending', a) \/ a \in cancels'
          /\ cancels \subseteq cancels' /\ superseded \subseteq cancels'
      BY Zenon, <3>3, <3>4, PassTells
    <3> HIDE DEF merged, replaced, target
    <3>6. \A a : Awaits(pending', a) => Awaits(pending, a) \/ a \in registers'
      BY Zenon, <2>3, <2>6, <2>7, <3>5
    <3>7. \A a : Awaits(pending, a) => Awaits(pending', a) \/ a \in cancels'
      BY Zenon, <2>6, <2>7, <3>5
    <3> QED BY ZenonT(60), <2>3, <2>8, <3>5, <3>6, <3>7, <1>8 DEF Told
  <2>10. CASE ~valid
    <3> DEFINE R2 == IF tx.kind = "migration" THEN Roots ELSE {}
               lost == replaced \cup BuffersOf(merged)
               ended == superseded \cup merged.deps
               rest == Pop(pending, r)
    <3>1. CommitReady(R2, [pending EXCEPT ![r] = Front(pending[r])], lost, ended)
      BY Zenon, <2>2, <2>10 DEF MergeTree
    <3>2. CommitReady(R2, rest, lost, ended) BY Zenon, <3>1 DEF Pop
    <3>3. QueueOK(rest, shown, latest', next + 1) BY Zenon, <1>1, <1>4, <1>5, <2>1, MergedOK
    <3>4. superseded \subseteq ended /\ merged.deps \subseteq ended BY Zenon
    <3> HIDE DEF R2, lost, ended
    <3>5. /\ \A a : Awaits(pending', a) => Awaits(rest, a)
          /\ \A a : Awaits(rest, a) => Awaits(pending', a) \/ a \in cancels'
          /\ cancels \subseteq cancels' /\ ended \subseteq cancels'
      BY ZenonT(60), <3>2, <3>3, PassTells
    <3> HIDE DEF merged, replaced, target
    <3>6. \A a : Awaits(pending', a) => Awaits(pending, a) \/ a \in registers'
      BY Zenon, <2>6, <3>5
    <3>7. \A a : Awaits(pending, a) => Awaits(pending', a) \/ a \in cancels'
      BY Zenon, <2>6, <3>4, <3>5
    <3> QED BY ZenonT(60), <2>3, <2>8, <3>5, <3>6, <3>7, <1>8 DEF Told
  <2> QED BY Zenon, <2>9, <2>10
<1>7. CASE ~Merges(r, tx)
  <2>1. QueueTree(r, tx) BY Zenon, <1>2, <1>7
  <2> HIDE DEF tx
  <2>2. QueueOK(pending, shown, latest, next) /\ pending \in Queues /\ tx \in Trees
    BY Zenon, <1>4 DEF ClientInv, Newest, QueueOK
  <2>3. CASE Refuses(r, tx)
    <3>1. CommitReady(Roots, pending, BuffersOf(tx), {}) /\ registers' = registers
      BY Zenon, <2>1, <2>3 DEF QueueTree
    <3>2. /\ \A a : Awaits(pending', a) => Awaits(pending, a)
          /\ \A a : Awaits(pending, a) => Awaits(pending', a) \/ a \in cancels'
          /\ cancels \subseteq cancels'
      BY Zenon, <2>2, <3>1, PassTells
    <3> QED BY Zenon, <3>1, <3>2, <1>8 DEF Told
  <2>4. CASE ~Refuses(r, tx)
    <3> DEFINE R == IF pending[r] = <<>> /\ tx.kind = "client" THEN {r} ELSE Roots
               pend == Push(pending, r, tx)
    <3>1. CommitReady(R, pend, {}, {}) /\ registers' = registers \cup tx.deps
      BY Zenon, <2>1, <2>4 DEF QueueTree, Push
    <3>2. QueueOK(pend, shown, latest', next + 1) BY Zenon, <1>1, <1>4, <1>5, AppendedOK
    <3>3. \A b : Awaits(pend, b) <=> Awaits(pending, b) \/ b \in tx.deps BY Zenon, <2>2, PushMembers
    <3>4. \A a \in tx.deps : a \notin Old(next) BY Zenon, <1>3, <1>4, FreshNew DEF Newest
    <3> HIDE DEF R, pend
    <3>5. /\ \A a : Awaits(pending', a) => Awaits(pend, a)
          /\ \A a : Awaits(pend, a) => Awaits(pending', a) \/ a \in cancels'
          /\ cancels \subseteq cancels'
      BY Zenon, <3>1, <3>2, PassTells
    <3> QED BY Zenon, <3>1, <3>3, <3>4, <3>5, <1>8 DEF Told
  <2> QED BY ZenonT(60), <2>3, <2>4
<1> QED BY Zenon, <1>6, <1>7

\* So does the cancellation of a root's transactions.
LEMMA CancelTells == ASSUME ClientInv, NEW r \in Roots, CancelTrees(r) PROVE Told
<1>1. pending \in Queues BY Zenon, InvParts
<1>2. /\ pending' = [pending EXCEPT ![r] = <<>>]
      /\ cancels' = cancels \cup Waiting(pending[r]) /\ registers' = registers /\ next' = next
  BY Zenon DEF CancelTrees
<1>3. pending'[r] = <<>> /\ \A s \in Roots : s # r => pending'[s] = pending[s]
  BY Zenon, <1>1, <1>2 DEF Queues
<1>4. Len(<<>>) = 0 /\ 1..0 = {} OBVIOUS
<1>5. \A a : Awaits(pending', a) => Awaits(pending, a) BY Zenon, <1>3, <1>4 DEF Awaits
<1>6. DOMAIN pending[r] = 1..Len(pending[r]) BY Zenon, <1>1, QueueEntries
<1>7. \A i \in 1..Len(pending[r]) : pending[r][i].deps \subseteq Waiting(pending[r])
  BY Zenon, <1>6 DEF Waiting, Range
<1>8. \A a : Awaits(pending, a) => Awaits(pending', a) \/ a \in cancels'
  BY Zenon, <1>2, <1>3, <1>7 DEF Awaits
<1> QED BY Zenon, <1>2, <1>5, <1>8 DEF Told

\* Every step of the server tells the runtime what changed.
LEMMA ServerTells == ASSUME ClientInv, ServerStep PROVE Told
<1>1. ASSUME NEW r \in Roots, Commit(r) \/ Migrate(r) PROVE Told
  <2>1. PICK kind \in Kinds : Submit(r, kind) BY Zenon, <1>1 DEF Commit, Migrate, Kinds
  <2> QED BY Zenon, <2>1, SubmitTells
<1>2. ASSUME NEW r \in Roots, DestroyBuffer(r) \/ DestroySurface(r) PROVE Told
  <2>1. CancelTrees(r) BY Zenon, <1>2 DEF DestroyBuffer, DestroySurface
  <2> QED BY Zenon, <2>1, CancelTells
<1>3. ASSUME NEW r \in Roots, KillExhausted(r) \/ ClearBarrier(r) PROVE Told
  <2>1. pending' = pending /\ registers' = registers /\ cancels' = cancels /\ next' = next
    BY Zenon, <1>3 DEF KillExhausted, ClearBarrier
  <2> QED BY Zenon, <2>1 DEF Told
<1>4. ASSUME Progress PROVE Told
  <2> DEFINE no == {}
  <2>1. CommitReady(Roots, pending, no, no) /\ registers' = registers /\ next' = next BY Zenon, <1>4 DEF Progress
  <2>2. QueueOK(pending, shown, latest, next) BY Zenon DEF ClientInv
  <2> HIDE DEF no
  <2>3. /\ \A a : Awaits(pending', a) => Awaits(pending, a)
        /\ \A a : Awaits(pending, a) => Awaits(pending', a) \/ a \in cancels'
        /\ cancels \subseteq cancels'
    BY ZenonT(60), <2>1, <2>2, PassTells
  <2> QED BY Zenon, <2>1, <2>3 DEF Told
<1> QED BY Zenon, <1>1, <1>2, <1>3, <1>4 DEF ServerStep


-----------------------------------------------------------------------------
(* FIFO pacing *)

\* The FIFO transaction i of root r is published.
Publishes(r, i) == /\ pending[r][i].fifo
                   /\ shown'[r]["root"] >= pending[r][i].nodes["root"].commit
\* At most one is, and none while the barrier is up.
Spaced(r) ==
    /\ \A i, j \in 1..Len(pending[r]) : Publishes(r, i) /\ Publishes(r, j) => i = j
    /\ r \in barrier => \A i \in 1..Len(pending[r]) : ~Publishes(r, i)

\* Every FIFO transaction stays where it is in pend.
Carries(pend) ==
    \A r \in Roots : \A i \in 1..Len(pending[r]) :
        pending[r][i].fifo => i \in 1..Len(pend[r]) /\ pend[r][i] = pending[r][i]

\* The root's commit of a queued transaction is a number that is not shown yet.
LEMMA RootCommits ==
  ASSUME NEW pend, NEW la, NEW nx, QueueOK(pend, shown, la, nx), NEW r \in Roots,
         NEW i \in 1..Len(pend[r])
  PROVE /\ "root" \in DOMAIN pend[r][i].nodes /\ pend[r][i].nodes["root"].commit \in Nat
        /\ shown[r]["root"] < pend[r][i].nodes["root"].commit
<1>1. pend \in Queues /\ Ordered(pend, shown, la) BY Zenon DEF QueueOK
<1>2. pend[r][i] \in Trees BY Zenon, <1>1, QueueEntries
<1>3. pend[r][i] \in Shapes BY Zenon, <1>2 DEF Trees
<1>4. "root" \in DOMAIN pend[r][i].nodes /\ pend[r][i].nodes["root"].commit \in 1..MaxCommit
  <2>1. "root" \in DOMAIN pend[r][i].nodes BY Zenon, <1>2 DEF Trees
  <2>2. pend[r][i].nodes["root"] \in Nodes BY Zenon, <1>3, <2>1, ShapeParts
  <2> QED BY Zenon, <2>1, <2>2, NodeParts
<1>5. shown[r]["root"] < pend[r][i].nodes["root"].commit BY Zenon, <1>1, <1>4 DEF Ordered, Follows
<1> QED BY SMTT(30), <1>4, <1>5, QueueAssumption

\* A pass publishes the FIFO transactions one at a time.
LEMMA PassSpaces ==
  ASSUME NEW R, NEW pend, NEW la, NEW nx, QueueOK(pend, shown, la, nx),
         NEW released, NEW canceled, CommitReady(R, pend, released, canceled),
         Carries(pend), pending \in Queues, NEW r \in Roots
  PROVE Spaced(r)
<1> DEFINE k == Prefix(R, pend)[r]
<1>1. /\ k \in 0..Len(pend[r]) /\ Passes(r, pend[r], k) /\ Len(pend[r]) \in Nat
  <2>1. pend \in Queues BY Zenon DEF QueueOK
  <2> QED BY Zenon, <2>1, PrefixBounds, QueueEntries
<1>2. shown' = Shows(R, pend) BY Zenon, PassShows
<1>3. /\ shown' \in Commits
      /\ \A i \in 1..Len(pend[r]) : i \notin 1..k =>
              \A p \in DOMAIN pend[r][i].nodes : shown'[r][p] < pend[r][i].nodes[p].commit
  BY Zenon, <1>2, ShownKeeps
<1> HIDE DEF k
<1>4. ASSUME NEW i \in 1..Len(pending[r]), Publishes(r, i)
      PROVE i \in 1..k /\ pend[r][i].fifo /\ r \notin barrier /\ \A j \in 1..i-1 : ~pend[r][j].fifo
  <2>1. i \in 1..Len(pend[r]) /\ pend[r][i] = pending[r][i] /\ pend[r][i].fifo
    BY Zenon, <1>4 DEF Carries, Publishes
  <2>2. "root" \in DOMAIN pend[r][i].nodes /\ pend[r][i].nodes["root"].commit \in Nat
    BY Zenon, <2>1, RootCommits
  <2>3. shown'[r]["root"] \in 0..MaxCommit
    <3>1. "root" \in Parts BY Zenon DEF Parts
    <3> QED BY Zenon, <1>3, <3>1 DEF Commits
  <2>4. shown'[r]["root"] >= pend[r][i].nodes["root"].commit BY Zenon, <1>4, <2>1 DEF Publishes
  <2>5. ~(shown'[r]["root"] < pend[r][i].nodes["root"].commit) BY SMTT(30), <2>2, <2>3, <2>4, QueueAssumption
  <2>6. i \in 1..k BY Zenon, <2>1, <2>2, <2>5, <1>3
  <2>7. Ready(r, pend[r][i]) /\ (pend[r][i].fifo => \A j \in 1..i-1 : ~pend[r][j].fifo)
    BY Zenon, <2>6, <1>1 DEF Passes
  <2> QED BY Zenon, <2>1, <2>6, <2>7 DEF Ready
<1>5. ASSUME NEW i \in 1..Len(pending[r]), NEW j \in 1..Len(pending[r]), Publishes(r, i), Publishes(r, j), i # j
      PROVE FALSE
  <2>1. i \in Nat /\ j \in Nat /\ i >= 1 /\ j >= 1
    <3>1. Len(pending[r]) \in Nat BY Zenon, QueueEntries
    <3> QED BY <3>1
  <2>2. i \in 1..j-1 \/ j \in 1..i-1 BY <2>1, <1>5
  <2> QED BY Zenon, <2>2, <1>4, <1>5
<1> QED BY Zenon, <1>4, <1>5 DEF Spaced

\* Where nothing is published the FIFO transactions wait.
LEMMA StillSpaced ==
  ASSUME ClientInv, shown' = shown, NEW r \in Roots
  PROVE Spaced(r)
<1>1. QueueOK(pending, shown, latest, next) /\ shown \in Commits BY Zenon DEF ClientInv, QueueOK
<1>2. ASSUME NEW i \in 1..Len(pending[r]) PROVE ~Publishes(r, i)
  <2>1. /\ pending[r][i].nodes["root"].commit \in Nat
        /\ shown[r]["root"] < pending[r][i].nodes["root"].commit
    BY Zenon, <1>1, RootCommits
  <2>2. shown[r]["root"] \in 0..MaxCommit
    <3>1. "root" \in Parts BY Zenon DEF Parts
    <3> QED BY Zenon, <1>1, <3>1 DEF Commits
  <2>3. ~(shown[r]["root"] >= pending[r][i].nodes["root"].commit) BY SMTT(30), <2>1, <2>2, QueueAssumption
  <2> QED BY Zenon, <2>3 DEF Publishes
<1> QED BY Zenon, <1>2 DEF Spaced

\* A submitted update publishes at most one FIFO transaction of a root, and none while
\* its barrier is up.
LEMMA SubmitSpaces ==
  ASSUME ClientInv, NEW c \in Roots, NEW kind \in Kinds, Submit(c, kind), NEW r \in Roots
  PROVE Spaced(r)
<1>1. next <= MaxCommit /\ next' = next + 1 BY Zenon DEF Submit
<1>2. PICK update \in Updates(kind), fifo \in BOOLEAN, valid \in BOOLEAN :
        LET tx == Incoming(update, fifo, kind) IN
          /\ IF Merges(c, tx) THEN MergeTree(c, tx, valid)
                              ELSE valid /\ QueueTree(c, tx)
          /\ latest' = [latest EXCEPT ![c] = [p \in Parts |->
                           IF p \in DOMAIN tx.nodes THEN next ELSE @[p]]]
          /\ signaled' = signaled \cup (BuffersOf(tx) \ tx.deps)
  BY Zenon DEF Submit
<1> DEFINE tx == Incoming(update, fifo, kind)
<1>3. next \in 1..MaxCommit
  <2>1. next \in 1..MaxCommit + 1 BY Zenon DEF ClientInv, QueueOK
  <2> QED BY SMTT(30), <2>1, <1>1, QueueAssumption
<1>4. Newest(tx) BY Zenon, <1>3, IncomingTree DEF Newest, Fresh
<1>5. Counted(c, tx) BY Zenon, <1>1, <1>2 DEF Counted, Raised
<1>6. QueueOK(pending, shown, latest, next) /\ pending \in Queues BY Zenon DEF ClientInv, QueueOK
<1>7. tx \in Trees BY Zenon, <1>4 DEF Newest
<1>8. /\ Len(pending[c]) \in Nat
      /\ \A i \in 1..Len(pending[c]) : i \in 1..Len(pending[c]) + 1
  <2>1. Len(pending[c]) \in Nat BY Zenon, <1>6, QueueEntries
  <2> QED BY <2>1
<1>9. CASE Merges(c, tx)
  <2> DEFINE target == Last(pending[c])
             replaced == Replaced(target, tx)
             merged == Merged(target, tx, replaced)
             superseded == target.deps \cap replaced
             pend == Push(Pop(pending, c), c, merged)
             R == IF tx.kind = "migration" \/ Ready(c, merged) \/ ~HasAttachment(tx) THEN Roots ELSE {}
  <2>1. pending[c] # <<>> /\ ~target.fifo BY Zenon, <1>9 DEF Merges, CanCoalesce
  <2>2. MergeTree(c, tx, valid) BY Zenon, <1>2, <1>9
  <2> HIDE DEF tx
  <2>3. CASE valid
    <3>1. MergeFacts(pending, c, tx, next) BY Zenon, <2>1, <1>6, <1>7, MergeIsSo
    <3>2. Pop(pending, c) \in Queues /\ merged \in Trees BY Zenon, <3>1 DEF MergeFacts
    <3>3. [pending EXCEPT ![c] = Append(Front(pending[c]), merged)] = pend
      <4> DEFINE f == Front(pending[c])
      <4> HIDE DEF f, merged
      <4>1. pending \in [Roots -> Seq(Trees)] BY Zenon, <1>6 DEF Queues
      <4>2. [pending EXCEPT ![c] = f][c] = f BY Zenon, <4>1
      <4>3. [[pending EXCEPT ![c] = f] EXCEPT ![c] = Append(f, merged)] = [pending EXCEPT ![c] = Append(f, merged)]
        BY <4>1
      <4> QED BY Zenon, <4>2, <4>3 DEF Push, Pop, f
    <3>4. CommitReady(R, [pending EXCEPT ![c] = Append(Front(pending[c]), merged)], replaced, superseded)
      BY Zenon, <2>2, <2>3 DEF MergeTree
    <3>5. CommitReady(R, pend, replaced, superseded) BY Zenon, <3>3, <3>4
    <3>6. QueueOK(pend, shown, latest', next + 1) BY Zenon, <1>1, <1>4, <1>5, <2>1, MergedOK
    <3>7. /\ \A s \in Roots : s # c => Pop(pending, c)[s] = pending[s]
          /\ Len(Pop(pending, c)[c]) = Len(pending[c]) - 1
          /\ \A i \in 1..Len(pending[c]) - 1 : Pop(pending, c)[c][i] = pending[c][i]
      BY ZenonT(60), <1>6, <2>1, PopEntries
    <3>8. /\ \A s \in Roots : s # c => pend[s] = Pop(pending, c)[s]
          /\ Len(pend[c]) = Len(Pop(pending, c)[c]) + 1
          /\ \A i \in 1..Len(Pop(pending, c)[c]) : pend[c][i] = Pop(pending, c)[c][i]
      BY SMTT(30), <3>2, PushEntries
    <3>9. \A i \in 1..Len(pending[c]) : i \in 1..Len(pending[c]) - 1 \/ i = Len(pending[c])
      <4>1. \A n \in Nat : \A i \in 1..n : i \in 1..n - 1 \/ i = n BY SMTT(30)
      <4> QED BY Zenon, <4>1, <1>8
    <3>10. Len(pend[c]) = Len(pending[c]) BY SMTT(30), <3>7, <3>8, <1>8
    <3>11. ~pending[c][Len(pending[c])].fifo BY Zenon, <2>1 DEF Last
    <3> HIDE DEF R, pend, superseded
    <3>12. Carries(pend)
      <4> SUFFICES ASSUME NEW s \in Roots, NEW i \in 1..Len(pending[s]), pending[s][i].fifo
                   PROVE i \in 1..Len(pend[s]) /\ pend[s][i] = pending[s][i]
        BY Zenon DEF Carries
      <4>1. CASE s # c
        <5>1. pend[s] = pending[s] BY Zenon, <4>1, <3>7, <3>8
        <5> QED BY Zenon, <5>1
      <4>2. CASE s = c
        <5>1. i \in 1..Len(pending[c]) - 1 BY Zenon, <4>2, <3>9, <3>11
        <5>2. i \in 1..Len(Pop(pending, c)[c]) BY Zenon, <5>1, <3>7
        <5>3. i \in 1..Len(pend[c]) BY Zenon, <4>2, <3>10
        <5> QED BY Zenon, <4>2, <5>1, <5>2, <5>3, <3>7, <3>8
      <4> QED BY Zenon, <4>1, <4>2
    <3> QED BY Zenon, <1>6, <3>5, <3>6, <3>12, PassSpaces
  <2>4. CASE ~valid
    <3> DEFINE R2 == IF tx.kind = "migration" THEN Roots ELSE {}
               lost == replaced \cup BuffersOf(merged)
               ended == superseded \cup merged.deps
               rest == Pop(pending, c)
    <3>1. CommitReady(R2, [pending EXCEPT ![c] = Front(pending[c])], lost, ended)
      BY Zenon, <2>2, <2>4 DEF MergeTree
    <3>2. CommitReady(R2, rest, lost, ended) BY Zenon, <3>1 DEF Pop
    <3>3. QueueOK(rest, shown, latest', next + 1) BY Zenon, <1>1, <1>4, <1>5, <2>1, MergedOK
    <3>4. /\ \A s \in Roots : s # c => rest[s] = pending[s]
          /\ Len(rest[c]) = Len(pending[c]) - 1
          /\ \A i \in 1..Len(pending[c]) - 1 : rest[c][i] = pending[c][i]
      BY ZenonT(60), <1>6, <2>1, PopEntries
    <3>5. \A i \in 1..Len(pending[c]) : i \in 1..Len(pending[c]) - 1 \/ i = Len(pending[c])
      <4>1. \A n \in Nat : \A i \in 1..n : i \in 1..n - 1 \/ i = n BY SMTT(30)
      <4> QED BY Zenon, <4>1, <1>8
    <3>6. ~pending[c][Len(pending[c])].fifo BY Zenon, <2>1 DEF Last
    <3> HIDE DEF R2, lost, ended, rest
    <3>7. Carries(rest)
      <4> SUFFICES ASSUME NEW s \in Roots, NEW i \in 1..Len(pending[s]), pending[s][i].fifo
                   PROVE i \in 1..Len(rest[s]) /\ rest[s][i] = pending[s][i]
        BY Zenon DEF Carries
      <4>1. CASE s # c
        <5>1. rest[s] = pending[s] BY Zenon, <4>1, <3>4
        <5> QED BY Zenon, <5>1
      <4>2. CASE s = c
        <5>1. i \in 1..Len(pending[c]) - 1 BY Zenon, <4>2, <3>5, <3>6
        <5>2. i \in 1..Len(rest[c]) BY Zenon, <5>1, <3>4
        <5> QED BY Zenon, <4>2, <5>1, <5>2, <3>4
      <4> QED BY Zenon, <4>1, <4>2
    <3> QED BY Zenon, <1>6, <3>2, <3>3, <3>7, PassSpaces
  <2> QED BY Zenon, <2>3, <2>4
<1>10. CASE ~Merges(c, tx)
  <2>1. QueueTree(c, tx) BY Zenon, <1>2, <1>10
  <2> HIDE DEF tx
  <2>2. CASE Refuses(c, tx)
    <3> DEFINE no == {}
    <3>1. CommitReady(Roots, pending, BuffersOf(tx), no) BY Zenon, <2>1, <2>2 DEF QueueTree
    <3>2. Carries(pending) BY Zenon DEF Carries
    <3> HIDE DEF no
    <3> QED BY Zenon, <1>6, <3>1, <3>2, PassSpaces
  <2>3. CASE ~Refuses(c, tx)
    <3> DEFINE R == IF pending[c] = <<>> /\ tx.kind = "client" THEN {c} ELSE Roots
               pend == Push(pending, c, tx)
               no == {}
    <3>1. CommitReady(R, pend, no, no) BY Zenon, <2>1, <2>3 DEF QueueTree, Push
    <3>2. QueueOK(pend, shown, latest', next + 1) BY Zenon, <1>1, <1>4, <1>5, AppendedOK
    <3>3. /\ \A s \in Roots : s # c => pend[s] = pending[s]
          /\ Len(pend[c]) = Len(pending[c]) + 1
          /\ \A i \in 1..Len(pending[c]) : pend[c][i] = pending[c][i]
      <4>1. \A s \in Roots : s # c => Push(pending, c, tx)[s] = pending[s]
        BY ZenonT(60), <1>6, <1>7, PushOthers
      <4>2. Len(Push(pending, c, tx)[c]) = Len(pending[c]) + 1 BY Zenon, <1>6, <1>7, PushLen
      <4>3. \A i \in 1..Len(pending[c]) : Push(pending, c, tx)[c][i] = pending[c][i]
        BY ZenonT(60), <1>6, <1>7, PushBefore
      <4> QED BY ZenonT(60), <4>1, <4>2, <4>3
    <3> HIDE DEF R, pend, no
    <3>4. Carries(pend) BY Zenon, <3>3, <1>8 DEF Carries
    <3> QED BY Zenon, <1>6, <3>1, <3>2, <3>4, PassSpaces
  <2> QED BY Zenon, <2>2, <2>3
<1> QED BY Zenon, <1>9, <1>10

\* So does every step of the queue.
LEMMA StepSpaces == ASSUME ClientInv, QueueNext, NEW r \in Roots PROVE Spaced(r)
<1>1. ASSUME NEW c \in Roots, Commit(c) \/ Migrate(c) PROVE Spaced(r)
  <2>1. PICK kind \in Kinds : Submit(c, kind) BY Zenon, <1>1 DEF Commit, Migrate, Kinds
  <2> QED BY Zenon, <2>1, SubmitSpaces
<1>2. ASSUME NEW c \in Roots, \/ DestroyBuffer(c) \/ DestroySurface(c)
                              \/ KillExhausted(c) \/ ClearBarrier(c)
      PROVE Spaced(r)
  <2>1. shown' = shown
    BY Zenon, <1>2 DEF DestroyBuffer, DestroySurface, KillExhausted, ClearBarrier, CancelTrees
  <2> QED BY Zenon, <2>1, StillSpaced
<1>3. ASSUME Progress PROVE Spaced(r)
  <2> DEFINE no == {}
  <2>1. CommitReady(Roots, pending, no, no) BY Zenon, <1>3 DEF Progress
  <2>2. QueueOK(pending, shown, latest, next) /\ pending \in Queues BY Zenon DEF ClientInv, QueueOK
  <2>3. Carries(pending) BY Zenon DEF Carries
  <2> HIDE DEF no
  <2> QED BY Zenon, <2>1, <2>2, <2>3, PassSpaces
<1>4. ASSUME Signal \/ Deliver PROVE Spaced(r)
  <2>1. shown' = shown BY Zenon, <1>4 DEF Signal, Deliver, treeVars
  <2> QED BY Zenon, <2>1, StillSpaced
<1> QED BY ZenonT(60), <1>1, <1>2, <1>3, <1>4 DEF QueueNext, ServerStep

\* The action of FifoSpaced.
SpacedStep ==
    \A r \in Roots :
        LET Published == {i \in DOMAIN pending[r] :
                /\ pending[r][i].fifo
                /\ shown'[r]["root"] >= pending[r][i].nodes["root"].commit}
        IN /\ Cardinality(Published) <= 1
           /\ r \in barrier => Published = {}

\* Every step of the queue is one that FifoSpaced allows.
LEMMA StepIsSpaced == ASSUME ClientInv, QueueNext PROVE SpacedStep
<1> SUFFICES ASSUME NEW r \in Roots
             PROVE LET Published == {i \in DOMAIN pending[r] :
                          /\ pending[r][i].fifo
                          /\ shown'[r]["root"] >= pending[r][i].nodes["root"].commit}
                   IN Cardinality(Published) <= 1 /\ (r \in barrier => Published = {})
  BY Zenon DEF SpacedStep
<1> DEFINE Published == {i \in DOMAIN pending[r] : /\ pending[r][i].fifo
                          /\ shown'[r]["root"] >= pending[r][i].nodes["root"].commit}
<1>1. Spaced(r) BY Zenon, StepSpaces
<1>2. pending \in Queues BY Zenon DEF ClientInv, QueueOK
<1>3. DOMAIN pending[r] = 1..Len(pending[r]) BY Zenon, <1>2, QueueEntries
<1>4. /\ \A i, j \in Published : i = j
      /\ r \in barrier => Published = {}
  BY Zenon, <1>1, <1>3 DEF Spaced, Publishes
<1> HIDE DEF Published
<1>5. Cardinality(Published) <= 1
  <2>1. CASE Published = {} BY SMTT(30), <2>1, Emptiness
  <2>2. CASE Published # {}
    <3>1. PICK i : i \in Published BY Zenon, <2>2
    <3>2. Published = {i} BY Zenon, <3>1, <1>4
    <3> QED BY <3>2, Singleton
  <2> QED BY Zenon, <2>1, <2>2
<1> QED BY Zenon, <1>4, <1>5 DEF Published

-----------------------------------------------------------------------------
(* Theorems *)

\* Every step of the queue preserves the invariant.
LEMMA QueueStepKeeps == ASSUME ClientInv, [QueueNext]_queueVars PROVE ClientInv'
<1>1. ASSUME QueueNext PROVE ClientInv' BY Zenon, <1>1, ServerKeeps, SignalKeeps, DeliverKeeps DEF QueueNext
<1>2. ASSUME UNCHANGED queueVars PROVE ClientInv'
  BY Zenon, <1>2 DEF queueVars, treeVars, ClientInv
<1> QED BY Zenon, <1>1, <1>2

\* The inductive invariant of the queue: the commits of each part are in
\* order, every buffer is in one place, and what is not waited for is ready.
THEOREM QueueInvariant == QueueSpec => []ClientInv
<1> QED BY QueueInitKeeps, QueueStepKeeps, PTL DEF QueueSpec

\* The queue is well formed, within its limit, and publishes the commits of
\* a surface in the order it made them.
THEOREM QueueKeepsOrder == QueueSpec => []QueueInv
<1> QED BY QueueInvariant, InvSays, PTL

\* No buffer reaches the scene before its acquire point signalled.
THEOREM OnlyReadyPublished == QueueSpec => []PublishedReady
<1> QED BY QueueInvariant, InvSays, PTL

\* Every buffer is held, handed to the scene or released, once.
THEOREM BuffersInOnePlace == QueueSpec => []BuffersPartition
<1> QED BY QueueInvariant, InvSays, PTL

\* The change list never cancels what is waited for, and what it registers
\* is waited for, cancelled or ready.
THEOREM ChangesMatch == QueueSpec => []ChangesAgree
<1> QED BY QueueInvariant, InvSays, PTL

\* FIFO transactions of a root are published one pass apart and never while
\* its barrier is up.
THEOREM FifoPaced == QueueSpec => FifoSpaced
<1>1. ClientInv /\ [QueueNext]_queueVars => [SpacedStep]_queueVars BY Zenon, StepIsSpaced
<1> QED BY <1>1, QueueInvariant, PTL DEF QueueSpec, FifoSpaced, SpacedStep
=============================================================================
