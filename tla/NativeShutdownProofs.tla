------------------------- MODULE NativeShutdownProofs -------------------------
(***************************************************************************)
(* How the runtime ends, for every number of processes, restarts and       *)
(* waiting requests.                                                       *)
(*                                                                         *)
(* The first part is about the operations of the supervisor and of the     *)
(* XWayland service: who must stop has been told to (Told), and how a      *)
(* supervisor may develop (After).                                         *)
(*                                                                         *)
(* KMS is given back with nobody left to draw: GivenBackInv follows the    *)
(* page flip through the drain, so that what the lifecycle recorded of it  *)
(* (none expected, confirmed, forced) is what became of it.                *)
(*                                                                         *)
(* The children are stopped in order: StopInv shows that each has been     *)
(* told to stop, that none is killed before the grace period is over, and  *)
(* that what is started once the session stops is no shell.                *)
(*                                                                         *)
(* The shell that runs is trusted: TrustInv follows a restart from the     *)
(* reap that finds the exit to the transfer of the authorization.          *)
(***************************************************************************)
EXTENDS NativeShutdown, TLAPS

-----------------------------------------------------------------------------
(* The supervisor and the XWayland service *)

Kinds == {"shell", "app", "xwayland"}
ChildType == [kind : Kinds, up : BOOLEAN, ok : BOOLEAN, sig : {0, 1, 2}]
Children == UNION {[D -> ChildType] : D \in SUBSET (Nat \ {0})}
Supervisor ==
  [children : Children, nextId : Nat \ {0}, history : Nat, quiescing : BOOLEAN,
   stop : {0, 1, 2}, fd : SUBSET {"CHLD", "TERM"}, pending : BOOLEAN]
Service ==
  [state : {"Disabled", "Armed", "Starting", "Running", "Backoff", "Failed"},
   proc : Nat, term : Nat, escalated : BOOLEAN]

\* Identities are handed out in order, and a termination signal stops restarts.
WellFormed(s) ==
  /\ s \in Supervisor
  /\ \A i \in DOMAIN s.children : i < s.nextId
  /\ s.pending => s.quiescing

\* Whoever must stop has been told to: a server that is not the current one always, and
\* everybody of the session once it is being stopped.
Told(s, x) ==
  /\ x \in Service /\ x.proc < s.nextId /\ x.term < s.nextId
  /\ ~Serving(x) => x.proc = NoProc
  /\ \A i \in DOMAIN s.children :
       /\ s.children[i].kind = "app" => s.children[i].sig = 0
       /\ i \in {x.proc, x.term} => s.children[i].kind = "xwayland"
       /\ i = x.term => s.children[i].sig >= 1
       /\ s.children[i].kind = "xwayland" /\ i # x.proc => s.children[i].sig >= 1
  /\ s.stop # 0 => /\ s.quiescing /\ x.state = "Disabled"
                   /\ \A i \in SessionChildren(s) : s.children[i].sig >= 1

\* How a supervisor develops from a to b, if only processes of K are killed.
After(a, b, K) ==
  /\ a.nextId <= b.nextId
  /\ a.quiescing => b.quiescing
  /\ a.stop # 0 => b.stop # 0
  /\ \A i \in DOMAIN b.children :
       \/ /\ i \in DOMAIN a.children
          /\ b.children[i].kind = a.children[i].kind
          /\ b.children[i].sig >= a.children[i].sig
          /\ b.children[i].sig = 2 => a.children[i].sig = 2 \/ i \in K
       \/ /\ i >= a.nextId
          /\ b.children[i].kind = "shell" => ~a.quiescing

\* A table of children, by its entries.
LEMMA ChildrenFacts ==
  ASSUME NEW c
  PROVE  c \in Children <=> /\ c = [i \in DOMAIN c |-> c[i]] /\ DOMAIN c \subseteq Nat \ {0}
                            /\ \A i \in DOMAIN c : c[i] \in ChildType
<1>1. ASSUME c \in Children
      PROVE  /\ c = [i \in DOMAIN c |-> c[i]] /\ DOMAIN c \subseteq Nat \ {0}
             /\ \A i \in DOMAIN c : c[i] \in ChildType
  <2>1. PICK D \in SUBSET (Nat \ {0}) : c \in [D -> ChildType]
    BY Zenon, <1>1 DEF Children
  <2> QED BY Zenon, <2>1
<1>2. ASSUME c = [i \in DOMAIN c |-> c[i]], DOMAIN c \subseteq Nat \ {0},
             \A i \in DOMAIN c : c[i] \in ChildType
      PROVE  c \in Children
  <2>1. c \in [DOMAIN c -> ChildType]
    BY Zenon, <1>2
  <2>2. DOMAIN c \in SUBSET (Nat \ {0})
    BY Zenon, <1>2
  <2> QED BY Zenon, <2>1, <2>2 DEF Children
<1> QED BY Zenon, <1>1, <1>2

\* A table is built from its domain and its entries.
LEMMA TableOf ==
  ASSUME NEW D, D \subseteq Nat \ {0}, NEW c \in [D -> ChildType]
  PROVE  c \in Children
BY Zenon DEF Children

\* The values of a table that is in use.
LEMMA Entries ==
  ASSUME NEW s \in Supervisor
  PROVE  /\ DOMAIN s.children \subseteq Nat \ {0}
         /\ \A i \in DOMAIN s.children : /\ s.children[i] \in ChildType
                                         /\ s.children[i].kind \in Kinds
                                         /\ s.children[i].sig \in {0, 1, 2}
         /\ s.nextId \in Nat \ {0} /\ s.stop \in {0, 1, 2}
         /\ s.quiescing \in BOOLEAN /\ s.pending \in BOOLEAN
<1>1. s.children \in Children
  BY Zenon DEF Supervisor
<1>2. /\ DOMAIN s.children \subseteq Nat \ {0}
      /\ \A i \in DOMAIN s.children : s.children[i] \in ChildType
  BY Zenon, <1>1, ChildrenFacts
<1> QED BY Zenon, <1>2 DEF Supervisor, ChildType

\* The flags of a supervisor that most operations leave alone.
Flags(s, r) ==
  r.nextId = s.nextId /\ r.quiescing = s.quiescing /\ r.stop = s.stop /\ r.pending = s.pending

\* signal_spawned_process, field by field.
LEMMA SignalPlain ==
  ASSUME NEW s \in Supervisor, NEW ids, NEW g \in {1, 2}, NEW r, r = SignalTo(s, ids, g)
  PROVE  /\ r \in Supervisor /\ Flags(s, r)
         /\ DOMAIN r.children = DOMAIN s.children
         /\ \A i \in DOMAIN s.children :
              /\ r.children[i].kind = s.children[i].kind
              /\ r.children[i].sig = IF i \in ids /\ s.children[i].sig < g THEN g
                                     ELSE s.children[i].sig
<1> DEFINE c == [i \in DOMAIN s.children |->
                   IF i \in ids /\ s.children[i].sig < g
                   THEN [s.children[i] EXCEPT !.sig = g] ELSE s.children[i]]
<1>1. c \in Children
  <2>1. \A i \in DOMAIN s.children : c[i] \in ChildType
    BY Entries DEF ChildType
  <2>2. c \in [DOMAIN s.children -> ChildType]
    BY Zenon, <2>1
  <2> QED BY Zenon, <2>2, Entries, TableOf
<1>2. r = [s EXCEPT !.children = c]
  BY Zenon DEF SignalTo
<1> HIDE DEF c
<1>3. r.children = c /\ r \in Supervisor /\ Flags(s, r)
  BY Zenon, <1>1, <1>2 DEF Supervisor, Flags
<1> QED BY <1>3, Entries DEF c, ChildType

\* The kernel ends processes, field by field.
LEMMA ExitPlain ==
  ASSUME NEW s \in Supervisor, NEW ids, NEW ok \in BOOLEAN, NEW r, r = Exit(s, ids, ok)
  PROVE  /\ r \in Supervisor /\ Flags(s, r)
         /\ DOMAIN r.children = DOMAIN s.children
         /\ \A i \in DOMAIN s.children : /\ r.children[i].kind = s.children[i].kind
                                         /\ r.children[i].sig = s.children[i].sig
<1> DEFINE c == [i \in DOMAIN s.children |->
                   IF i \in ids /\ s.children[i].up
                   THEN [s.children[i] EXCEPT !.up = FALSE, !.ok = ok] ELSE s.children[i]]
           d == IF \E i \in ids : s.children[i].up THEN s.fd \union {"CHLD"} ELSE s.fd
<1>1. c \in Children
  <2>1. ASSUME NEW i \in DOMAIN s.children PROVE c[i] \in ChildType
    <3>1. s.children[i] \in ChildType
      BY Zenon, Entries
    <3>2. [s.children[i] EXCEPT !.up = FALSE, !.ok = ok] \in ChildType
      BY Zenon, <3>1 DEF ChildType
    <3> QED BY Zenon, <3>1, <3>2
  <2>2. c \in [DOMAIN s.children -> ChildType]
    BY Zenon, <2>1
  <2> QED BY Zenon, <2>2, Entries, TableOf
<1>2. r = [s EXCEPT !.children = c, !.fd = d]
  BY Zenon DEF Exit
<1>3. d \in SUBSET {"CHLD", "TERM"}
  <2>1. s.fd \in SUBSET {"CHLD", "TERM"}
    BY Zenon DEF Supervisor
  <2> QED BY Zenon, <2>1
<1>5. /\ DOMAIN c = DOMAIN s.children
      /\ \A i \in DOMAIN s.children : /\ c[i].kind = s.children[i].kind
                                      /\ c[i].sig = s.children[i].sig
  BY Zenon, Entries DEF ChildType
<1> HIDE DEF c, d
<1>4. r.children = c /\ r \in Supervisor /\ Flags(s, r)
  BY Zenon, <1>1, <1>2, <1>3 DEF Supervisor, Flags
<1> QED BY Zenon, <1>4, <1>5
\* drain_signal_fd, field by field.
LEMMA DrainPlain ==
  ASSUME NEW s, WellFormed(s), NEW r, r = DrainSignalFd(s)
  PROVE  /\ WellFormed(r) /\ r.children = s.children /\ r.nextId = s.nextId /\ r.stop = s.stop
         /\ s.quiescing => r.quiescing
<1>1. s \in Supervisor /\ (s.pending => s.quiescing)
  BY Zenon DEF WellFormed
<1>2. /\ r \in Supervisor /\ r.children = s.children /\ r.nextId = s.nextId /\ r.stop = s.stop
      /\ r.quiescing = (s.quiescing \/ "TERM" \in s.fd)
      /\ r.pending = (s.pending \/ "TERM" \in s.fd)
  BY Zenon, <1>1 DEF DrainSignalFd, Supervisor
<1> QED BY Zenon, <1>1, <1>2 DEF WellFormed

\* reap_exited, field by field: the table loses the exited, and may gain a new shell.
LEMMA ReapPlain ==
  ASSUME NEW s, WellFormed(s), NEW spawns \in BOOLEAN, NEW r, r = ReapExited(s, spawns)
  PROVE  /\ WellFormed(r)
         /\ r.quiescing = s.quiescing /\ r.stop = s.stop /\ r.nextId >= s.nextId
         /\ \A i \in DOMAIN r.children :
              \/ i \in DOMAIN s.children \ Exited(s) /\ r.children[i] = s.children[i]
              \/ /\ ~s.quiescing /\ i = s.nextId
                 /\ r.children[i].kind = "shell" /\ r.children[i].sig = 0
<1> DEFINE D == DOMAIN s.children \ Exited(s)
           c == [i \in D |-> s.children[i]]
           kept == [s EXCEPT !.children = c]
           d == [i \in D \union {s.nextId} |-> IF i = s.nextId THEN Child("shell") ELSE s.children[i]]
<1>1. s \in Supervisor /\ (s.pending => s.quiescing) /\ \A i \in DOMAIN s.children : i < s.nextId
  BY Zenon DEF WellFormed
<1>2. c \in Children
  BY <1>1, Entries, ChildrenFacts
<1>3. d \in Children
  <2>1. Child("shell") \in ChildType
    BY Zenon DEF Child, ChildType, Kinds
  <2>2. \A i \in D \union {s.nextId} : d[i] \in ChildType
    BY Zenon, <1>1, <2>1, Entries
  <2>3. D \union {s.nextId} \subseteq Nat \ {0}
    BY Zenon, <1>1, Entries
  <2> QED BY Zenon, <2>2, <2>3, ChildrenFacts
<1>4. /\ kept \in Supervisor /\ Flags(s, kept) /\ kept.children = c
  BY Zenon, <1>1, <1>2 DEF Supervisor, Flags
<1>5. CASE ~Restarts(s, spawns)
  <2>1. r = kept
    BY Zenon, <1>5 DEF ReapExited
  <2> HIDE DEF kept
  <2>2. \A i \in DOMAIN c : i \in D /\ c[i] = s.children[i]
    BY Zenon
  <2> HIDE DEF c
  <2> QED BY <1>1, <1>4, <2>1, <2>2, Entries DEF WellFormed, Flags
<1>6. CASE Restarts(s, spawns)
  <2>1. ~s.quiescing
    BY Zenon, <1>6 DEF Restarts
  <2>2. SpawnInner(kept, "shell") = [kept EXCEPT !.children = d, !.nextId = s.nextId + 1]
    <3>1. DOMAIN kept.children = D /\ \A i \in D : kept.children[i] = s.children[i]
      BY Zenon, <1>4
    <3>2. kept.nextId = s.nextId
      BY Zenon, <1>4 DEF Flags
    <3> HIDE DEF kept
    <3>3. [i \in DOMAIN kept.children \union {kept.nextId} |->
             IF i = kept.nextId THEN Child("shell") ELSE kept.children[i]] = d
      BY Zenon, <3>1, <3>2
    <3> QED BY Zenon, <1>4, <3>2, <3>3 DEF SpawnInner, Supervisor
  <2>3. r = [SpawnInner(kept, "shell") EXCEPT !.history = @ + 1]
    BY Zenon, <1>6 DEF ReapExited
  <2> HIDE DEF kept
  <2>4. \A i \in DOMAIN d : \/ i \in D /\ d[i] = s.children[i]
                            \/ i = s.nextId /\ d[i].kind = "shell" /\ d[i].sig = 0
    BY Zenon DEF Child
  <2>5. DOMAIN d = D \union {s.nextId}
    BY Zenon
  <2> HIDE DEF d
  <2> DEFINE m == SpawnInner(kept, "shell")
  <2>7. /\ m \in Supervisor /\ m.children = d /\ m.nextId = s.nextId + 1
        /\ m.quiescing = s.quiescing /\ m.stop = s.stop /\ m.pending = s.pending
    <3>1. s.nextId + 1 \in Nat \ {0}
      BY <1>1, Entries
    <3>2. m = [kept EXCEPT !.children = d, !.nextId = s.nextId + 1]
      BY Zenon, <2>2
    <3> HIDE DEF m
    <3> QED BY Zenon, <1>3, <1>4, <3>1, <3>2 DEF Supervisor, Flags
  <2> HIDE DEF m
  <2>6. /\ r \in Supervisor /\ r.children = d /\ r.nextId = s.nextId + 1
        /\ r.quiescing = s.quiescing /\ r.stop = s.stop /\ r.pending = s.pending
    <3>1. r = [m EXCEPT !.history = @ + 1]
      BY Zenon, <2>3 DEF m
    <3> QED BY <2>7, <3>1 DEF Supervisor
  <2> QED BY <1>1, <2>1, <2>4, <2>5, <2>6, Entries DEF WellFormed
<1> QED BY Zenon, <1>5, <1>6

\* Developments compose.
LEMMA AfterTrans ==
  ASSUME NEW a, NEW b, NEW c, NEW K, WellFormed(a), WellFormed(b), WellFormed(c),
         After(a, b, K), After(b, c, K)
  PROVE  After(a, c, K)
<1>1. a \in Supervisor /\ b \in Supervisor /\ c \in Supervisor
  BY Zenon DEF WellFormed
<1>2. /\ a.nextId <= c.nextId /\ (a.quiescing => c.quiescing) /\ (a.stop # 0 => c.stop # 0)
  BY <1>1, Entries DEF After
<1>3. ASSUME NEW i \in DOMAIN c.children
      PROVE  \/ /\ i \in DOMAIN a.children
                /\ c.children[i].kind = a.children[i].kind
                /\ c.children[i].sig >= a.children[i].sig
                /\ c.children[i].sig = 2 => a.children[i].sig = 2 \/ i \in K
             \/ /\ i >= a.nextId
                /\ c.children[i].kind = "shell" => ~a.quiescing
  <2>1. i \in Nat
    BY Zenon, <1>1, Entries
  <2>2. CASE i >= b.nextId /\ (c.children[i].kind = "shell" => ~b.quiescing)
    BY <1>1, <2>1, <2>2, Entries DEF After
  <2>3. CASE /\ i \in DOMAIN b.children
             /\ c.children[i].kind = b.children[i].kind
             /\ c.children[i].sig >= b.children[i].sig
             /\ c.children[i].sig = 2 => b.children[i].sig = 2 \/ i \in K
    <3>1. CASE i >= a.nextId /\ (b.children[i].kind = "shell" => ~a.quiescing)
      BY Zenon, <2>3, <3>1
    <3>2. CASE /\ i \in DOMAIN a.children
               /\ b.children[i].kind = a.children[i].kind
               /\ b.children[i].sig >= a.children[i].sig
               /\ b.children[i].sig = 2 => a.children[i].sig = 2 \/ i \in K
      <4>1. /\ a.children[i].sig \in {0, 1, 2} /\ b.children[i].sig \in {0, 1, 2}
            /\ c.children[i].sig \in {0, 1, 2}
        BY Zenon, <1>1, <2>3, <3>2, Entries
      <4> QED BY <2>3, <3>2, <4>1
    <3> QED BY Zenon, <2>3, <3>1, <3>2 DEF After
  <2> QED BY Zenon, <2>2, <2>3 DEF After
<1> QED BY Zenon, <1>2, <1>3 DEF After

\* The hypotheses and the conclusion of the lemmas that follow: a good pair develops
\* from a to b, with the service x afterwards.
Good(s, x) == WellFormed(s) /\ Told(s, x)
Keeps(a, b, x, K) == Good(b, x) /\ After(a, b, K)

\* Signals go up, and only to whom they may.
LEMMA SignalKeeps ==
  ASSUME NEW s, NEW x, Good(s, x), NEW ids, NEW g \in {1, 2}, NEW K,
         \A i \in ids \cap DOMAIN s.children : s.children[i].kind # "app",
         g = 2 => ids \subseteq K,
         NEW r, r = SignalTo(s, ids, g)
  PROVE  Keeps(s, r, x, K)
<1>1. s \in Supervisor
  BY Zenon DEF Good, WellFormed
<1>2. /\ r \in Supervisor /\ Flags(s, r)
      /\ DOMAIN r.children = DOMAIN s.children
      /\ \A i \in DOMAIN s.children :
           /\ r.children[i].kind = s.children[i].kind
           /\ r.children[i].sig = IF i \in ids /\ s.children[i].sig < g THEN g
                                  ELSE s.children[i].sig
  BY <1>1, SignalPlain
<1>3. \A i \in DOMAIN s.children : s.children[i].sig \in {0, 1, 2}
  BY Zenon, <1>1, Entries
<1>4. \A i \in DOMAIN s.children : r.children[i].sig >= s.children[i].sig
  BY <1>2, <1>3
<1>5. WellFormed(r)
  BY Zenon, <1>2 DEF Good, WellFormed, Flags
<1>6. SessionChildren(r) = SessionChildren(s)
  BY Zenon, <1>2 DEF SessionChildren, SessionOwned
<1>7. Told(r, x)
  <2>1. ASSUME NEW i \in DOMAIN r.children
        PROVE  /\ r.children[i].kind = "app" => r.children[i].sig = 0
               /\ i \in {x.proc, x.term} => r.children[i].kind = "xwayland"
               /\ i = x.term => r.children[i].sig >= 1
               /\ r.children[i].kind = "xwayland" /\ i # x.proc => r.children[i].sig >= 1
    BY <1>2, <1>3, <1>4 DEF Good, Told
  <2>2. s.stop # 0 => \A i \in SessionChildren(s) : r.children[i].sig >= 1
    BY <1>2, <1>3, <1>4 DEF Good, Told, SessionChildren
  <2> QED BY Zenon, <1>2, <1>6, <2>1, <2>2 DEF Good, Told, Flags
<1>8. After(s, r, K)
  <2>1. s.nextId <= r.nextId
    BY <1>1, <1>2, Entries DEF Flags
  <2> QED BY Zenon, <1>2, <1>3, <1>4, <2>1 DEF After, Flags
<1> QED BY Zenon, <1>5, <1>7, <1>8 DEF Keeps, Good

\* An exit changes neither who is there nor what was sent.
LEMMA ExitKeeps ==
  ASSUME NEW s, NEW x, Good(s, x), NEW ids, NEW ok \in BOOLEAN, NEW r, r = Exit(s, ids, ok)
  PROVE  Keeps(s, r, x, {})
<1>1. s \in Supervisor
  BY Zenon DEF Good, WellFormed
<1>2. /\ r \in Supervisor /\ Flags(s, r)
      /\ DOMAIN r.children = DOMAIN s.children
      /\ \A i \in DOMAIN s.children : /\ r.children[i].kind = s.children[i].kind
                                      /\ r.children[i].sig = s.children[i].sig
  BY <1>1, ExitPlain
<1>3. \A i \in DOMAIN s.children : s.children[i].sig \in {0, 1, 2}
  BY Zenon, <1>1, Entries
<1>4. WellFormed(r)
  BY Zenon, <1>2 DEF Good, WellFormed, Flags
<1>5. SessionChildren(r) = SessionChildren(s)
  BY Zenon, <1>2 DEF SessionChildren, SessionOwned
<1>6. Told(r, x)
  <2>1. \A i \in SessionChildren(s) : r.children[i].sig = s.children[i].sig
    BY Zenon, <1>2 DEF SessionChildren
  <2> QED BY <1>2, <1>5, <2>1 DEF Good, Told, Flags
<1>7. s.nextId <= r.nextId
  BY <1>1, <1>2, Entries DEF Flags
<1> QED BY <1>2, <1>3, <1>4, <1>6, <1>7 DEF Keeps, Good, After, Flags

\* A change of the flags that only stops restarts.
LEMMA FlagsKeep ==
  ASSUME NEW s, NEW x, Good(s, x), NEW t \in Supervisor,
         t.children = s.children, t.nextId = s.nextId, t.stop = s.stop,
         s.quiescing => t.quiescing, t.pending => t.quiescing
  PROVE  Keeps(s, t, x, {})
<1>1. /\ s.nextId \in Nat
      /\ \A i \in DOMAIN s.children : s.children[i].sig \in {0, 1, 2}
  BY Zenon, Entries DEF Good, WellFormed
<1>2. SessionChildren(t) = SessionChildren(s)
  BY Zenon DEF SessionChildren
<1>3. WellFormed(t)
  BY Zenon DEF Good, WellFormed
<1>4. Told(t, x)
  BY Zenon, <1>2 DEF Good, Told
<1>5. After(s, t, {})
  BY <1>1 DEF After
<1> QED BY Zenon, <1>3, <1>4, <1>5 DEF Keeps, Good

\* Draining the signal descriptor may stop restarts and nothing else.
LEMMA DrainKeeps ==
  ASSUME NEW s, NEW x, Good(s, x), NEW r, r = DrainSignalFd(s)
  PROVE  Keeps(s, r, x, {})
<1>1. /\ WellFormed(r) /\ r.children = s.children /\ r.nextId = s.nextId /\ r.stop = s.stop
      /\ s.quiescing => r.quiescing
  BY Zenon, DrainPlain DEF Good
<1> QED BY Zenon, <1>1, FlagsKeep DEF WellFormed

\* A reap leaves the others as they are, and starts a shell only while nothing stops. The
\* service may have been told of the exits: y is what it makes of them.
LEMMA ReapKeeps ==
  ASSUME NEW s, NEW x, NEW y, Good(s, x), NEW spawns \in BOOLEAN,
         NEW r, r = ReapExited(s, spawns),
         y \in Service, ~Serving(y) => y.proc = NoProc,
         x.state = "Disabled" => y.state = "Disabled",
         y.proc = x.proc \/ (y.proc = NoProc /\ x.proc \in Exited(s)),
         y.term \in {x.term, NoProc}
  PROVE  Keeps(s, r, y, {})
<1>1. /\ WellFormed(r)
      /\ r.quiescing = s.quiescing /\ r.stop = s.stop /\ r.nextId >= s.nextId
      /\ \A i \in DOMAIN r.children :
           \/ i \in DOMAIN s.children \ Exited(s) /\ r.children[i] = s.children[i]
           \/ /\ ~s.quiescing /\ i = s.nextId
              /\ r.children[i].kind = "shell" /\ r.children[i].sig = 0
  BY ReapPlain DEF Good
<1>2. s \in Supervisor /\ r \in Supervisor
  BY Zenon, <1>1 DEF Good, WellFormed
<1>3. /\ s.nextId \in Nat \ {0} /\ r.nextId \in Nat \ {0} /\ DOMAIN r.children \subseteq Nat \ {0}
      /\ \A i \in DOMAIN s.children : s.children[i].sig \in {0, 1, 2}
  BY Zenon, <1>2, Entries
<1>4. x.proc \in Nat /\ x.term \in Nat /\ x.proc < s.nextId /\ x.term < s.nextId
  BY Zenon DEF Good, Told, Service
<1>5. y.proc < r.nextId /\ y.term < r.nextId /\ y.proc # s.nextId /\ y.term # s.nextId
  BY <1>1, <1>3, <1>4 DEF NoProc
<1>6. ASSUME NEW i \in DOMAIN r.children
      PROVE  /\ r.children[i].kind = "app" => r.children[i].sig = 0
             /\ i \in {y.proc, y.term} => r.children[i].kind = "xwayland"
             /\ i = y.term => r.children[i].sig >= 1
             /\ r.children[i].kind = "xwayland" /\ i # y.proc => r.children[i].sig >= 1
  <2>1. CASE i = s.nextId /\ r.children[i].kind = "shell"
    BY Zenon, <1>5, <2>1
  <2>2. CASE i \in DOMAIN s.children \ Exited(s) /\ r.children[i] = s.children[i]
    BY <1>3, <2>2 DEF Good, Told, NoProc
  <2> QED BY Zenon, <1>1, <2>1, <2>2
<1>7. s.stop # 0 => \A i \in SessionChildren(r) : r.children[i].sig >= 1
  BY Zenon, <1>1 DEF Good, Told, SessionChildren
<1>8. Told(r, y)
  BY Zenon, <1>1, <1>5, <1>6, <1>7 DEF Good, Told
<1>9. After(s, r, {})
  BY <1>1, <1>2, <1>3 DEF After
<1> QED BY Zenon, <1>1, <1>8, <1>9 DEF Keeps, Good

\* The same when the service is not told.
LEMMA QuietReapKeeps ==
  ASSUME NEW s, NEW x, Good(s, x), NEW spawns \in BOOLEAN, NEW r, r = ReapExited(s, spawns)
  PROVE  Keeps(s, r, x, {})
<1>1. x \in Service /\ (~Serving(x) => x.proc = NoProc)
  BY Zenon DEF Good, Told
<1> QED BY Zenon, <1>1, ReapKeeps

\* Developments of good pairs compose; the service of the last one counts.
LEMMA KeepsTrans ==
  ASSUME NEW a, NEW b, NEW c, NEW x, NEW y, NEW K, WellFormed(a), Keeps(a, b, x, K), Keeps(b, c, y, K)
  PROVE  Keeps(a, c, y, K)
BY Zenon, AfterTrans DEF Keeps, Good

\* A development is one whoever else may be killed, and one that kills nobody always is.
LEMMA KeepsWiden ==
  ASSUME NEW a, NEW b, NEW x, NEW J, NEW K, J \subseteq K, Keeps(a, b, x, J)
  PROVE  Keeps(a, b, x, K)
BY Zenon DEF Keeps, After

\* The case of nobody killed.
LEMMA KeepsQuiet ==
  ASSUME NEW a, NEW b, NEW x, NEW K, Keeps(a, b, x, {})
  PROVE  Keeps(a, b, x, K)
BY Zenon DEF Keeps, After

\* A supervisor develops to itself.
LEMMA KeepsRefl ==
  ASSUME NEW a, NEW x, NEW K, Good(a, x)
  PROVE  Keeps(a, a, x, K)
<1>1. /\ a.nextId \in Nat
      /\ \A i \in DOMAIN a.children : a.children[i].sig \in {0, 1, 2}
  BY Zenon, Entries DEF Good, WellFormed
<1> QED BY <1>1 DEF Keeps, After

\* drain_signal_fd followed by the reap.
LEMMA DrainReapKeeps ==
  ASSUME NEW s, NEW x, Good(s, x), NEW spawns \in BOOLEAN, NEW K,
         NEW r, r = ReapExited(DrainSignalFd(s), spawns)
  PROVE  Keeps(s, r, x, K)
<1>1. Keeps(s, DrainSignalFd(s), x, {})
  BY Zenon, DrainKeeps
<1>2. Keeps(DrainSignalFd(s), r, x, {})
  BY Zenon, <1>1, QuietReapKeeps DEF Keeps
<1> QED BY Zenon, <1>1, <1>2, KeepsTrans, KeepsQuiet DEF Good

\* kill_managed_now for the process that was asked to stop.
LEMMA KillManagedKeeps ==
  ASSUME NEW s, NEW x, Good(s, x), x.term \in DOMAIN s.children,
         NEW dies \in BOOLEAN, NEW spawns \in BOOLEAN, NEW K, x.term \in K,
         NEW r, r = KillManagedNow(s, x.term, dies, spawns)
  PROVE  Keeps(s, r, x, K)
<1> DEFINE k == SignalTo(s, {x.term}, 2)
           e == IF dies THEN Exit(k, {x.term}, FALSE) ELSE k
<1>1. Keeps(s, k, x, K)
  <2>1. s.children[x.term].kind = "xwayland"
    BY Zenon DEF Good, Told
  <2>2. \A i \in {x.term} \cap DOMAIN s.children : s.children[i].kind # "app"
    BY Zenon, <2>1
  <2>3. {x.term} \subseteq K
    BY Zenon
  <2> QED BY Zenon, <2>2, <2>3, SignalKeeps
<1> HIDE DEF k
<1>2. Keeps(k, e, x, K)
  <2>1. Good(k, x)
    BY Zenon, <1>1 DEF Keeps
  <2>2. CASE dies
    <3>1. Keeps(k, e, x, {})
      BY Zenon, <2>1, <2>2, ExitKeeps
    <3> QED BY Zenon, <3>1, KeepsQuiet
  <2>3. CASE ~dies
    BY Zenon, <2>1, <2>3, KeepsRefl
  <2> QED BY Zenon, <2>2, <2>3
<1>3. r = ReapExited(DrainSignalFd(e), spawns)
  BY Zenon DEF KillManagedNow, k
<1> HIDE DEF e
<1>4. Keeps(e, r, x, K)
  BY Zenon, <1>2, <1>3, DrainReapKeeps DEF Keeps
<1>5. WellFormed(s) /\ WellFormed(k)
  BY Zenon, <1>1 DEF Keeps, Good
<1>6. Keeps(s, e, x, K)
  BY Zenon, <1>1, <1>2, <1>5, KeepsTrans
<1> QED BY Zenon, <1>4, <1>5, <1>6, KeepsTrans

\* advance_shutdown: it kills only after the grace period.
LEMMA AdvanceShutdownKeeps ==
  ASSUME NEW s, NEW x, Good(s, x), NEW over, NEW fast, NEW K, over => Nat \subseteq K, s.stop # 0,
         NEW r, r = AdvanceShutdown(s, over, fast)
  PROVE  Keeps(s, r, x, K)
<1> DEFINE reaped == ReapExited(DrainSignalFd(s), FALSE)
           left == SessionChildren(reaped)
           armed == [reaped EXCEPT !.stop = 2]
           killed == SignalTo(armed, left, 2)
           e == Exit(killed, left \intersect fast, FALSE)
<1>1. Keeps(s, reaped, x, K)
  BY Zenon, DrainReapKeeps
<1>2. CASE reaped.stop # 1 \/ left = {} \/ ~over
  <2>1. r = reaped
    BY Zenon, <1>2 DEF AdvanceShutdown
  <2> QED BY Zenon, <1>1, <2>1
<1>3. CASE reaped.stop = 1 /\ left # {} /\ over
  <2>1. r = ReapExited(DrainSignalFd(e), FALSE)
    BY Zenon, <1>3 DEF AdvanceShutdown
  <2> HIDE DEF reaped
  <2>2. Keeps(reaped, armed, x, K)
    <3>1. Good(reaped, x) /\ reaped \in Supervisor
      BY Zenon, <1>1 DEF Keeps, Good, WellFormed
    <3>2. /\ armed \in Supervisor /\ armed.stop = 2 /\ armed.children = reaped.children
          /\ armed.nextId = reaped.nextId /\ armed.quiescing = reaped.quiescing
          /\ armed.pending = reaped.pending
      BY Zenon, <3>1 DEF Supervisor
    <3> HIDE DEF armed
    <3>3. SessionChildren(armed) = SessionChildren(reaped)
      BY Zenon, <3>2 DEF SessionChildren
    <3>4. WellFormed(armed)
      BY Zenon, <3>1, <3>2 DEF Good, WellFormed
    <3>5. Told(armed, x)
      BY <1>3, <3>1, <3>2, <3>3 DEF Good, Told
    <3>6. /\ reaped.nextId \in Nat
          /\ \A i \in DOMAIN reaped.children : reaped.children[i].sig \in {0, 1, 2}
      BY Zenon, <3>1, Entries
    <3> QED BY <3>2, <3>4, <3>5, <3>6 DEF Keeps, Good, After
  <2>3. SessionChildren(armed) = left /\ armed \in Supervisor
    <3>1. reaped \in Supervisor
      BY Zenon, <1>1 DEF Keeps, Good, WellFormed
    <3>2. armed.children = reaped.children
      BY Zenon, <3>1 DEF Supervisor
    <3> QED BY Zenon, <2>2, <3>2 DEF SessionChildren, Keeps, Good, WellFormed
  <2> HIDE DEF armed, left
  <2>4. Keeps(armed, killed, x, K)
    <3>1. \A i \in left \cap DOMAIN armed.children : armed.children[i].kind # "app"
      BY Zenon, <2>3 DEF SessionChildren, SessionOwned
    <3>2. left \subseteq K
      BY Zenon, <1>3, <2>3, Entries DEF SessionChildren
    <3> QED BY Zenon, <2>2, <3>1, <3>2, SignalKeeps DEF Keeps
  <2> HIDE DEF killed
  <2>5. Keeps(killed, e, x, K)
    <3>1. Keeps(killed, e, x, {})
      BY Zenon, <2>4, ExitKeeps DEF Keeps
    <3> QED BY Zenon, <3>1, KeepsQuiet
  <2> HIDE DEF e
  <2>6. Keeps(e, r, x, K)
    BY Zenon, <2>1, <2>5, DrainReapKeeps DEF Keeps
  <2>7. WellFormed(s)
    BY Zenon DEF Good
  <2>8. Keeps(s, armed, x, K)
    BY Zenon, <1>1, <2>2, <2>7, KeepsTrans
  <2>9. Keeps(s, killed, x, K)
    BY Zenon, <2>4, <2>7, <2>8, KeepsTrans
  <2>10. Keeps(s, e, x, K)
    BY Zenon, <2>5, <2>7, <2>9, KeepsTrans
  <2> QED BY Zenon, <2>6, <2>7, <2>10, KeepsTrans
<1> QED BY Zenon, <1>2, <1>3

\* begin_shutdown: everybody of the session is told, and the service cannot start another.
LEMMA BeginShutdownKeeps ==
  ASSUME NEW s, NEW x, Good(s, x), x.state = "Disabled", NEW r, r = BeginShutdown(s)
  PROVE  Keeps(s, r, x, {}) /\ r.stop # 0 /\ r.quiescing
<1>1. s \in Supervisor
  BY Zenon DEF Good, WellFormed
<1>2. /\ s.nextId \in Nat
      /\ \A i \in DOMAIN s.children : s.children[i].sig \in {0, 1, 2}
  BY Zenon, <1>1, Entries
<1>3. CASE s.stop # 0
  <2>1. r = [s EXCEPT !.quiescing = TRUE]
    BY Zenon, <1>3 DEF BeginShutdown
  <2>2. /\ r \in Supervisor /\ r.stop = s.stop /\ r.children = s.children
        /\ r.nextId = s.nextId /\ r.quiescing = TRUE
    BY Zenon, <1>1, <2>1 DEF Supervisor
  <2> QED BY Zenon, <1>3, <2>2, FlagsKeep
<1>4. CASE s.stop = 0
  <2> DEFINE t == [s EXCEPT !.quiescing = TRUE, !.stop = 1]
  <2>1. r = SignalTo(t, SessionChildren(s), 1)
    BY Zenon, <1>4 DEF BeginShutdown
  <2>2. /\ t \in Supervisor /\ t.stop = 1 /\ t.children = s.children
        /\ t.nextId = s.nextId /\ t.quiescing = TRUE /\ t.pending = s.pending
    BY Zenon, <1>1 DEF Supervisor
  <2> HIDE DEF t
  <2>3. /\ r \in Supervisor /\ Flags(t, r)
        /\ DOMAIN r.children = DOMAIN s.children
        /\ \A i \in DOMAIN s.children :
             /\ r.children[i].kind = s.children[i].kind
             /\ r.children[i].sig = IF i \in SessionChildren(s) /\ s.children[i].sig < 1 THEN 1
                                    ELSE s.children[i].sig
    BY <2>1, <2>2, SignalPlain
  <2>4. \A i \in DOMAIN s.children : r.children[i].sig >= s.children[i].sig
    BY <1>2, <2>3
  <2>5. \A i \in SessionChildren(r) : r.children[i].sig >= 1
    BY <1>2, <2>3 DEF SessionChildren, SessionOwned
  <2>6. WellFormed(r)
    BY Zenon, <2>2, <2>3 DEF Good, WellFormed, Flags
  <2>7. ASSUME NEW i \in DOMAIN r.children
        PROVE  /\ r.children[i].kind = "app" => r.children[i].sig = 0
               /\ i \in {x.proc, x.term} => r.children[i].kind = "xwayland"
               /\ i = x.term => r.children[i].sig >= 1
               /\ r.children[i].kind = "xwayland" /\ i # x.proc => r.children[i].sig >= 1
    BY <1>2, <2>3, <2>4 DEF Good, Told, SessionChildren, SessionOwned
  <2>8. Told(r, x)
    BY ZenonT(60), <2>2, <2>3, <2>5, <2>7 DEF Good, Told, Flags
  <2>9. After(s, r, {})
    BY <1>2, <2>2, <2>3, <2>4 DEF After, Flags
  <2> QED BY <2>2, <2>3, <2>6, <2>8, <2>9 DEF Keeps, Good, Flags
<1> QED BY Zenon, <1>3, <1>4

\* request_process_termination for the current generation, which is then forgotten: it has
\* been told first.
Forget(x, st) == [x EXCEPT !.state = st, !.proc = NoProc]

\* The generation a service gives up (stop, fail_generation) has been asked to terminate first.
LEMMA ForgetKeeps ==
  ASSUME NEW p, NEW s, NEW x, s = p.s, x = p.x, Good(s, x), NEW st \in {"Disabled", "Backoff", "Failed"},
         s.stop # 0 => st = "Disabled",
         NEW q, q = RequestTermination(p, x.proc),
         NEW y, y = Forget(q.x, st)
  PROVE  Keeps(s, q.s, y, {}) /\ y.state = st
<1>1. s \in Supervisor /\ x \in Service
  BY Zenon DEF Good, WellFormed, Told
<1>2. DOMAIN s.children \subseteq Nat \ {0} /\ s.nextId \in Nat \ {0}
  BY Zenon, <1>1, Entries
<1>3. CASE x.proc \notin DOMAIN s.children
  <2>1. q.s = s /\ q.x = x
    BY Zenon, <1>3 DEF RequestTermination, Pair
  <2>2. /\ y \in Service /\ y.state = st /\ y.proc = NoProc /\ y.term = x.term
    BY Zenon, <1>1, <2>1 DEF Service, NoProc, Forget
  <2>3. Told(s, y)
    BY <1>2, <1>3, <2>2 DEF Good, Told, NoProc
  <2> QED BY Zenon, <2>1, <2>2, <2>3, KeepsRefl DEF Good
<1>4. CASE x.proc \in DOMAIN s.children
  <2> DEFINE r == SignalTo(s, {x.proc}, 1)
  <2>1. q.s = r /\ q.x = [x EXCEPT !.term = x.proc, !.escalated = FALSE]
    BY Zenon, <1>4 DEF RequestTermination, Pair
  <2>2. /\ y \in Service /\ y.state = st /\ y.proc = NoProc /\ y.term = x.proc
    BY Zenon, <1>1, <2>1 DEF Service, NoProc, Forget
  <2>3. s.children[x.proc].kind = "xwayland"
    BY Zenon, <1>4 DEF Good, Told
  <2>4. Keeps(s, r, x, {})
    <3>1. \A i \in {x.proc} \cap DOMAIN s.children : s.children[i].kind # "app"
      BY Zenon, <2>3
    <3> QED BY <3>1, SignalKeeps
  <2>5. /\ r.nextId = s.nextId /\ r.stop = s.stop /\ DOMAIN r.children = DOMAIN s.children
        /\ r.children[x.proc].kind = "xwayland"
        /\ r.children[x.proc].sig = IF s.children[x.proc].sig < 1 THEN 1 ELSE s.children[x.proc].sig
    <3>1. /\ Flags(s, r) /\ DOMAIN r.children = DOMAIN s.children
          /\ \A i \in DOMAIN s.children :
               /\ r.children[i].kind = s.children[i].kind
               /\ r.children[i].sig = IF i \in {x.proc} /\ s.children[i].sig < 1 THEN 1
                                      ELSE s.children[i].sig
      BY SMTT(60), <1>1, SignalPlain
    <3> HIDE DEF r
    <3> QED BY Zenon, <1>4, <2>3, <3>1 DEF Flags
  <2>6. r.children[x.proc].sig >= 1
    BY <1>1, <1>4, <2>5, Entries
  <2> HIDE DEF r
  <2>7. Told(r, x)
    BY Zenon, <2>4 DEF Keeps, Good
  <2>8. ASSUME NEW i \in DOMAIN r.children
        PROVE  /\ r.children[i].kind = "app" => r.children[i].sig = 0
               /\ i \in {y.proc, y.term} => r.children[i].kind = "xwayland"
               /\ i = y.term => r.children[i].sig >= 1
               /\ r.children[i].kind = "xwayland" /\ i # y.proc => r.children[i].sig >= 1
    <3>1. i # NoProc
      BY Zenon, <1>2, <2>5 DEF NoProc
    <3> QED BY ZenonT(60), <2>2, <2>5, <2>6, <2>7, <3>1 DEF Told
  <2>9. y.proc < r.nextId /\ y.term < r.nextId
    <3>1. x.proc < r.nextId
      BY Zenon, <2>7 DEF Told
    <3>2. r.nextId \in Nat \ {0}
      BY Zenon, <1>2, <2>5
    <3>3. 0 < r.nextId
      BY <3>2
    <3>4. y.proc = 0 /\ y.term = x.proc
      BY Zenon, <2>2 DEF NoProc
    <3> QED BY Zenon, <3>1, <3>3, <3>4
  <2>10. Told(r, y)
    BY Zenon, <2>2, <2>5, <2>7, <2>8, <2>9 DEF Told
  <2> QED BY Zenon, <2>1, <2>2, <2>4, <2>10 DEF Keeps, Good
<1> QED BY Zenon, <1>3, <1>4

\* begin_shutdown of the service.
LEMMA StopXwaylandKeeps ==
  ASSUME NEW p, NEW s, NEW x, s = p.s, x = p.x, Good(s, x), NEW q, q = StopXwayland(p)
  PROVE  Keeps(s, q.s, q.x, {}) /\ q.x.state = "Disabled"
<1>1. CASE Serving(x)
  <2> DEFINE t == RequestTermination(p, x.proc)
  <2>1. q.s = t.s /\ q.x = Forget(t.x, "Disabled")
    BY Zenon, <1>1 DEF StopXwayland, Pair, Forget
  <2> HIDE DEF t
  <2>2. t = RequestTermination(p, x.proc)
    BY Zenon DEF t
  <2> QED BY <2>1, <2>2, ForgetKeeps
<1>2. CASE ~Serving(x)
  <2>1. q.s = s /\ q.x = [x EXCEPT !.state = "Disabled", !.proc = NoProc]
    BY Zenon, <1>2 DEF StopXwayland, Pair
  <2>2. x \in Service /\ x.proc = NoProc
    BY Zenon, <1>2 DEF Good, Told
  <2>3. /\ q.x \in Service /\ q.x.state = "Disabled" /\ q.x.proc = x.proc /\ q.x.term = x.term
        /\ q.x.proc = NoProc
    BY Zenon, <2>1, <2>2 DEF Service, NoProc
  <2>4. Told(s, q.x)
    BY <2>3 DEF Good, Told
  <2> QED BY <2>1, <2>3, <2>4, KeepsRefl DEF Good
<1> QED BY Zenon, <1>1, <1>2

\* fail_generation.
LEMMA FailGenerationKeeps ==
  ASSUME NEW p, NEW s, NEW x, s = p.s, x = p.x, Good(s, x), Serving(x), NEW spent,
         NEW q, q = FailGeneration(p, spent)
  PROVE  Keeps(s, q.s, q.x, {})
<1> DEFINE t == RequestTermination(p, x.proc)
           st == IF spent THEN "Failed" ELSE "Backoff"
<1>1. q.s = t.s /\ q.x = [t.x EXCEPT !.proc = NoProc, !.state = st]
  BY Zenon DEF FailGeneration, FailureBackoff, Pair
<1>2. s.stop = 0
  BY Zenon DEF Good, Told, Serving
<1>3. t = RequestTermination(p, x.proc) /\ st \in {"Disabled", "Backoff", "Failed"}
  BY Zenon
<1>4. t.x \in Service
  BY Zenon DEF RequestTermination, Pair, Good, Told, Service
<1> HIDE DEF t, st
<1>5. q.x = Forget(t.x, st)
  BY Zenon, <1>1, <1>4 DEF Service, Forget
<1> QED BY <1>1, <1>2, <1>3, <1>5, ForgetKeeps

\* handle_listener_readiness of an armed service.
LEMMA ListenerKeeps ==
  ASSUME NEW p, NEW s, NEW x, s = p.s, x = p.x, Good(s, x), x.state = "Armed", NEW spawns, NEW spent,
         NEW q, q = ListenerReady(p, spawns, spent)
  PROVE  Keeps(s, q.s, q.x, {})
<1>1. /\ s \in Supervisor /\ x \in Service /\ x.proc = NoProc /\ s.stop = 0
      /\ \A i \in DOMAIN s.children : i < s.nextId
  BY Zenon DEF Good, WellFormed, Told, Serving
<1>2. /\ DOMAIN s.children \subseteq Nat \ {0} /\ s.nextId \in Nat \ {0}
      /\ \A i \in DOMAIN s.children : s.children[i].sig \in {0, 1, 2}
  BY Zenon, <1>1, Entries
<1>3. CASE ~spawns
  <2>1. q.s = s /\ q.x = [x EXCEPT !.proc = NoProc, !.state = IF spent THEN "Failed" ELSE "Backoff"]
    BY Zenon, <1>3 DEF ListenerReady, FailureBackoff, Pair
  <2> DEFINE st == IF spent THEN "Failed" ELSE "Backoff"
  <2>4. st \in {"Failed", "Backoff"} /\ q.x = [x EXCEPT !.proc = NoProc, !.state = st]
    BY Zenon, <2>1
  <2> HIDE DEF st
  <2>2. q.x \in Service /\ q.x.proc = NoProc /\ q.x.term = x.term
    BY Zenon, <1>1, <2>4 DEF Service, NoProc
  <2>3. Told(s, q.x)
    BY <1>1, <2>2 DEF Good, Told
  <2> QED BY <2>1, <2>3, KeepsRefl DEF Good
<1>4. CASE spawns
  <2> DEFINE n == s.nextId
             d == [i \in DOMAIN s.children \union {n} |->
                     IF i = n THEN Child("xwayland") ELSE s.children[i]]
  <2>1. q.s = [s EXCEPT !.children = d, !.nextId = @ + 1]
    BY Zenon, <1>4 DEF ListenerReady, SpawnInner, Pair
  <2>2. q.x = [x EXCEPT !.state = "Starting", !.proc = n]
    BY Zenon, <1>4 DEF ListenerReady, Pair
  <2>3. d \in Children
    <3>1. Child("xwayland") \in ChildType
      BY Zenon DEF Child, ChildType, Kinds
    <3>2. \A i \in DOMAIN s.children \union {n} : d[i] \in ChildType
      BY Zenon, <1>1, <3>1, Entries
    <3> QED BY ZenonT(60), <1>2, <3>2, ChildrenFacts
  <2>4. /\ DOMAIN d = DOMAIN s.children \union {n}
        /\ d[n].kind = "xwayland"
        /\ \A i \in DOMAIN s.children : i # n => d[i] = s.children[i]
    BY Zenon DEF Child
  <2> HIDE DEF d
  <2>5. /\ q.s \in Supervisor /\ q.s.children = d /\ q.s.nextId = n + 1 /\ q.s.stop = 0
        /\ q.s.quiescing = s.quiescing /\ q.s.pending = s.pending
    <3>1. q.s = [s EXCEPT !.children = d, !.nextId = n + 1]
      BY Zenon, <2>1
    <3>2. n + 1 \in Nat \ {0}
      BY <1>2
    <3> QED BY ZenonT(60), <1>1, <2>3, <3>1, <3>2 DEF Supervisor
  <2>6. q.x \in Service /\ q.x.proc = n /\ q.x.term = x.term /\ q.x.state = "Starting"
    BY Zenon, <1>1, <1>2, <2>2 DEF Service
  <2>7. WellFormed(q.s)
    BY <1>1, <1>2, <2>4, <2>5 DEF Good, WellFormed
  <2>8. x.term \in Nat /\ x.term < n
    BY Zenon DEF Good, Told, Service
  <2>9. ASSUME NEW i \in DOMAIN q.s.children
        PROVE  /\ q.s.children[i].kind = "app" => q.s.children[i].sig = 0
               /\ i \in {q.x.proc, q.x.term} => q.s.children[i].kind = "xwayland"
               /\ i = q.x.term => q.s.children[i].sig >= 1
               /\ q.s.children[i].kind = "xwayland" /\ i # q.x.proc => q.s.children[i].sig >= 1
    <3>1. CASE i = n
      BY <1>2, <2>4, <2>5, <2>6, <2>8, <3>1
    <3>2. CASE i # n
      <4>1. i \in DOMAIN s.children /\ q.s.children[i] = s.children[i]
        BY Zenon, <2>4, <2>5, <3>2
      <4> QED BY <1>1, <1>2, <2>6, <3>2, <4>1 DEF Good, Told, NoProc
    <3> QED BY Zenon, <3>1, <3>2
  <2>10. Told(q.s, q.x)
    BY <1>2, <2>5, <2>6, <2>8, <2>9 DEF Told, Serving
  <2>11. After(s, q.s, {})
    BY <1>1, <1>2, <2>4, <2>5 DEF After
  <2> QED BY Zenon, <2>7, <2>10, <2>11 DEF Keeps, Good
<1> QED BY Zenon, <1>3, <1>4

\* handle_deadline: the escalation kills only the process that was asked to stop.
LEMMA EscalateKeeps ==
  ASSUME NEW p, NEW s, NEW x, s = p.s, x = p.x, Good(s, x), NEW due \in BOOLEAN, NEW dies \in BOOLEAN, NEW spawns \in BOOLEAN,
         NEW K, due => x.term \in K,
         NEW q, q = EscalateTermination(p, due, dies, spawns)
  PROVE  Keeps(s, q.s, q.x, K)
<1>0. x \in Service
  BY Zenon DEF Good, Told
<1>1. CASE x.term # NoProc /\ x.term \notin DOMAIN s.children
  <2>1. q = Pair(s, [x EXCEPT !.term = NoProc, !.escalated = FALSE])
    BY Zenon, <1>1 DEF EscalateTermination, Pair
  <2>2. /\ q.s = s /\ q.x \in Service /\ q.x.proc = x.proc /\ q.x.state = x.state
        /\ q.x.term = NoProc
    <3>1. q.s = s /\ q.x = [x EXCEPT !.term = NoProc, !.escalated = FALSE]
      BY <2>1 DEF Pair
    <3>2. [x EXCEPT !.term = NoProc, !.escalated = FALSE] \in Service
      BY Zenon, <1>0 DEF Service, NoProc
    <3>3. /\ q.x.proc = x.proc /\ q.x.state = x.state /\ q.x.term = NoProc
      BY Zenon, <1>0, <3>1 DEF Service
    <3> QED BY Zenon, <3>1, <3>2, <3>3
  <2>3. s.nextId \in Nat \ {0} /\ DOMAIN s.children \subseteq Nat \ {0}
    BY Zenon, Entries DEF Good, WellFormed
  <2>4. Told(s, q.x)
    BY <2>2, <2>3 DEF Good, Told, Serving, NoProc
  <2> QED BY Zenon, <2>2, <2>4, KeepsRefl DEF Good
<1>2. CASE x.term # NoProc /\ x.term \in DOMAIN s.children /\ due /\ ~x.escalated
  <2> DEFINE r == KillManagedNow(s, x.term, dies, spawns)
             y == [x EXCEPT !.escalated = TRUE]
  <2>1. q = Pair(r, y)
    BY Zenon, <1>2 DEF EscalateTermination, Pair
  <2>2. /\ q.s = r /\ q.x \in Service /\ q.x.proc = x.proc /\ q.x.state = x.state
        /\ q.x.term = x.term
    <3> HIDE DEF r, y
    <3>1. q.s = r /\ q.x = y
      BY <2>1 DEF Pair
    <3> USE DEF y
    <3>2. [x EXCEPT !.escalated = TRUE] \in Service
      BY Zenon, <1>0 DEF Service
    <3>3. /\ q.x.proc = x.proc /\ q.x.state = x.state /\ q.x.term = x.term
      BY Zenon, <1>0, <3>1 DEF Service
    <3> QED BY Zenon, <3>1, <3>2, <3>3
  <2>3. Keeps(s, r, x, K)
    BY Zenon, <1>2, KillManagedKeeps
  <2> HIDE DEF r
  <2>4. Told(r, q.x)
    BY <2>2, <2>3 DEF Keeps, Good, Told, Serving
  <2> QED BY Zenon, <2>2, <2>3, <2>4 DEF Keeps, Good
<1>3. ASSUME q = p PROVE Keeps(s, q.s, q.x, K)
  BY Zenon, <1>3, KeepsRefl DEF Pair
<1>4. CASE x.term = NoProc
  <2>1. NoProc \notin DOMAIN s.children
    BY Zenon, Entries DEF Good, WellFormed, NoProc
  <2>2. q = p
    BY Zenon, <1>4, <2>1 DEF EscalateTermination, Pair
  <2> QED BY Zenon, <1>3, <2>2
<1>5. CASE x.term # NoProc /\ x.term \in DOMAIN s.children /\ ~(due /\ ~x.escalated)
  BY Zenon, <1>3, <1>5 DEF EscalateTermination, Pair
<1> QED BY Zenon, <1>0, <1>1, <1>2, <1>4, <1>5

\* handle_deadline, its second half.
LEMMA DeadlineKeeps ==
  ASSUME NEW p, NEW s, NEW x, s = p.s, x = p.x, Good(s, x), NEW due, NEW spent,
         NEW q, q = ServiceDeadline(p, due, spent)
  PROVE  Keeps(s, q.s, q.x, {})
<1>1. CASE due /\ x.state = "Starting"
  <2>1. q = FailGeneration(p, spent)
    BY Zenon, <1>1 DEF ServiceDeadline, Pair
  <2> QED BY Zenon, <1>1, <2>1, FailGenerationKeeps DEF Serving
<1>2. CASE due /\ x.state = "Backoff"
  <2>1. q = Pair(s, [x EXCEPT !.state = "Armed"])
    BY Zenon, <1>2 DEF ServiceDeadline, Pair
  <2>2. x \in Service /\ x.proc = NoProc /\ s.stop = 0
    BY Zenon, <1>2 DEF Good, Told, Serving
  <2>3. q.s = s /\ q.x \in Service /\ q.x.proc = NoProc /\ q.x.term = x.term
    BY <2>1, <2>2 DEF Service, Pair
  <2>4. Told(s, q.x)
    BY <2>2, <2>3 DEF Good, Told
  <2> QED BY Zenon, <2>3, <2>4, KeepsRefl DEF Good
<1>3. CASE ~(due /\ x.state \in {"Starting", "Backoff"})
  <2>1. q = p
    BY Zenon, <1>3 DEF ServiceDeadline, Pair
  <2> QED BY Zenon, <2>1, KeepsRefl DEF Pair
<1> QED BY Zenon, <1>1, <1>2, <1>3

\* handle_process_exit: the service forgets only what has exited, and stays disabled.
LEMMA ExitHandled ==
  ASSUME NEW x \in Service, ~Serving(x) => x.proc = NoProc, NEW id, NEW ok, NEW spent,
         NEW y, y = HandleProcessExit(x, id, ok, spent)
  PROVE  /\ y \in Service /\ (~Serving(y) => y.proc = NoProc)
         /\ x.state = "Disabled" => y.state = "Disabled"
         /\ y.proc = x.proc \/ (y.proc = NoProc /\ x.proc = id)
         /\ y.term \in {x.term, NoProc}
<1> DEFINE z == IF x.term = id THEN [x EXCEPT !.term = NoProc, !.escalated = FALSE] ELSE x
<1>1. /\ z \in Service /\ z.state = x.state /\ z.proc = x.proc /\ z.term \in {x.term, NoProc}
  <2>1. [x EXCEPT !.term = NoProc, !.escalated = FALSE] \in Service
    BY Zenon DEF Service, NoProc
  <2> QED BY Zenon, <2>1 DEF Service
<1>2. CASE ~Serving(x) \/ x.proc # id
  <2>1. y = z
    BY Zenon, <1>2 DEF HandleProcessExit, Serving
  <2> QED BY Zenon, <1>1, <2>1 DEF Serving
<1>3. CASE Serving(x) /\ x.proc = id
  <2>1. \E st \in {"Disabled", "Armed", "Failed", "Backoff"} : y = Forget(z, st)
    <3>1. CASE x.term = id
      <4>1. y = Forget(z, "Disabled")
        BY Zenon, <1>3, <3>1 DEF HandleProcessExit, Forget
      <4> QED BY Zenon, <4>1
    <3>2. CASE x.term # id /\ x.state = "Running" /\ ok
      <4>1. y = Forget(z, "Armed")
        BY Zenon, <1>3, <3>2 DEF HandleProcessExit, Forget
      <4> QED BY Zenon, <4>1
    <3>3. CASE x.term # id /\ ~(x.state = "Running" /\ ok)
      <4>1. y = FailureBackoff(z, spent)
        BY Zenon, <1>3, <3>3 DEF HandleProcessExit
      <4>2. y = [z EXCEPT !.proc = NoProc, !.state = IF spent THEN "Failed" ELSE "Backoff"]
        BY Zenon, <4>1 DEF FailureBackoff
      <4> HIDE DEF z
      <4>3. y = Forget(z, IF spent THEN "Failed" ELSE "Backoff")
        BY Zenon, <1>1, <4>2 DEF Forget, Service
      <4> QED BY Zenon, <4>3
    <3> QED BY Zenon, <3>1, <3>2, <3>3
  <2> HIDE DEF z
  <2>2. PICK st \in {"Disabled", "Armed", "Failed", "Backoff"} : y = Forget(z, st)
    BY Zenon, <2>1
  <2>3. y \in Service /\ y.proc = NoProc /\ y.term = z.term
    <3>1. [z EXCEPT !.state = st, !.proc = NoProc] \in Service
      BY Zenon, <1>1 DEF Service, NoProc
    <3>2. y = [z EXCEPT !.state = st, !.proc = NoProc]
      BY Zenon, <2>2 DEF Forget
    <3>3. y.proc = NoProc /\ y.term = z.term
      BY Zenon, <1>1, <3>2 DEF Service
    <3> QED BY Zenon, <3>1, <3>2, <3>3
  <2> QED BY Zenon, <1>1, <1>3, <2>3 DEF Serving
<1> QED BY Zenon, <1>2, <1>3

\* kill_session_owned_now: everybody of the session is killed.
LEMMA KillSessionKeeps ==
  ASSUME NEW s, NEW x, Good(s, x), NEW r, r = KillSessionOwnedNow(s)
  PROVE  /\ Keeps(s, r, x, Nat) /\ r.quiescing
         /\ \A i \in SessionChildren(r) : r.children[i].sig = 2
<1> DEFINE t == [s EXCEPT !.quiescing = TRUE]
           k == SignalTo(t, SessionChildren(s), 2)
           d == DrainSignalFd(k)
<1>1. s \in Supervisor
  BY Zenon DEF Good, WellFormed
<1>2. /\ t \in Supervisor /\ t.stop = s.stop /\ t.children = s.children
      /\ t.nextId = s.nextId /\ t.quiescing = TRUE /\ t.pending = s.pending
  BY Zenon, <1>1 DEF Supervisor
<1>3. r = ReapExited(d, FALSE)
  BY Zenon DEF KillSessionOwnedNow
<1> HIDE DEF t
<1>4. Keeps(s, t, x, {})
  BY Zenon, <1>2, FlagsKeep
<1>5. Keeps(s, t, x, Nat)
  BY Zenon, <1>4, KeepsQuiet
<1>6. Keeps(t, k, x, Nat)
  <2>1. \A i \in SessionChildren(s) \cap DOMAIN t.children : t.children[i].kind # "app"
    BY Zenon, <1>2 DEF SessionChildren, SessionOwned
  <2>2. SessionChildren(s) \subseteq Nat
    BY Zenon, <1>1, Entries DEF SessionChildren
  <2> QED BY Zenon, <1>5, <2>1, <2>2, SignalKeeps DEF Keeps
<1>7. /\ k.quiescing = TRUE /\ DOMAIN k.children = DOMAIN s.children
      /\ \A i \in DOMAIN s.children :
           /\ k.children[i].kind = s.children[i].kind
           /\ k.children[i].sig = IF i \in SessionChildren(s) /\ s.children[i].sig < 2 THEN 2
                                  ELSE s.children[i].sig
  BY <1>2, SignalPlain DEF Flags
<1> HIDE DEF k
<1>8. WellFormed(k) /\ Good(k, x)
  BY Zenon, <1>6 DEF Keeps, Good
<1>9. WellFormed(d) /\ d.children = k.children /\ d.quiescing
  BY Zenon, <1>7, <1>8, DrainPlain
<1>10. Keeps(k, r, x, Nat)
  BY Zenon, <1>3, <1>8, DrainReapKeeps
<1> HIDE DEF d
<1>11. \A i \in DOMAIN r.children : i \in DOMAIN k.children /\ r.children[i] = k.children[i]
  <2>1. \A i \in DOMAIN r.children :
          \/ i \in DOMAIN d.children \ Exited(d) /\ r.children[i] = d.children[i]
          \/ /\ ~d.quiescing /\ i = d.nextId
             /\ r.children[i].kind = "shell" /\ r.children[i].sig = 0
    BY Zenon, <1>3, <1>9, ReapPlain
  <2> QED BY Zenon, <1>9, <2>1
<1>12. \A i \in SessionChildren(r) : r.children[i].sig = 2
  <2>1. \A i \in DOMAIN s.children : s.children[i].sig \in {0, 1, 2}
    BY Zenon, <1>1, Entries
  <2> QED BY <1>7, <1>11, <2>1 DEF SessionChildren, SessionOwned
<1>13. r.quiescing
  BY Zenon, <1>3, <1>9, ReapPlain
<1>14. Keeps(s, k, x, Nat)
  BY Zenon, <1>5, <1>6, KeepsTrans DEF Good
<1>15. Keeps(s, r, x, Nat)
  BY Zenon, <1>10, <1>14, KeepsTrans DEF Good
<1> QED BY Zenon, <1>12, <1>13, <1>15

-----------------------------------------------------------------------------
(* The page flip, and the order in which the children are stopped *)

Early == {"Running", "Requested", "Draining"}
Late == {"StoppingChildren", "Restoring", "Complete"}
Life == [state : Early \union Late, expected : BOOLEAN, childStop : BOOLEAN,
         outcome : {"none", "idle", "confirmed", "forced"}]

\* What the lifecycle l says of the page flip f.
FlipKnown(l, f) ==
  /\ l \in Life
  /\ ~l.expected => f = "none"
  /\ l.state = "Running" => ~l.expected
  /\ l.state \in Early => l.outcome = "none"
  /\ l.state \in Late => l.outcome # "none"
  /\ l.outcome = "idle" => f = "none"
  /\ l.outcome = "confirmed" => f = "read"

\* The inductive invariant.
GivenBackInv ==
  /\ phase \in Phases /\ completed \in BOOLEAN /\ flip \in {"none", "pending", "queued", "read"}
  /\ completed => flip = "read"
  /\ FlipKnown(life, flip)
  /\ life.state \in {"Restoring", "Complete"} => ~Live /\ SessionChildren(sup) = {}
  /\ life.state = "Complete" => flip \in {"none", "read"}

\* The Requested and Draining arms: only a completion that was read confirms the flip
\* (advance_shutdown_lifecycle, shutdown.rs).
LEMMA AdvanceFlipKnown ==
  ASSUME NEW l, NEW f, NEW read \in BOOLEAN, NEW due,
         FlipKnown(l, f), read => f = "read"
  PROVE  /\ FlipKnown(AdvanceFlip(l, read, due), f)
         /\ AdvanceFlip(l, read, due).state \in {l.state, "Draining", "StoppingChildren"}
<1>1. CASE l.state = "Requested" /\ l.expected
  BY Zenon, <1>1 DEF FlipKnown, Life, AdvanceFlip, Early, Late
<1>2. CASE l.state = "Requested" /\ ~l.expected
  BY Zenon, <1>2 DEF FlipKnown, Life, AdvanceFlip, Early, Late
<1>3. CASE l.state = "Draining" /\ read
  BY Zenon, <1>3 DEF FlipKnown, Life, AdvanceFlip, Early, Late
<1>4. CASE l.state = "Draining" /\ ~read /\ due
  BY Zenon, <1>4 DEF FlipKnown, Life, AdvanceFlip, Early, Late
<1>5. CASE ~(l.state = "Requested") /\ ~(l.state = "Draining" /\ (read \/ due))
  <2>1. AdvanceFlip(l, read, due) = l
    BY Zenon, <1>5 DEF AdvanceFlip
  <2> QED BY Zenon, <2>1
<1> QED BY Zenon, <1>1, <1>2, <1>3, <1>4, <1>5 DEF FlipKnown, Life

\* A lifecycle advance that restores KMS has found the session gone
\* (note_session_children_stopped) and settled the flip (restore_kms_for_shutdown).
LEMMA AdvanceKeeps ==
  ASSUME NEW l, NEW p, NEW read \in BOOLEAN, NEW f \in {"none", "pending", "queued", "read"},
         FlipKnown(l, f), l.state \notin {"Restoring", "Complete"}, read => f = "read",
         Advance(l, p, read, f), completed' = FALSE
  PROVE  GivenBackInv'
<1> PICK fast \in IF graceOver THEN SUBSET SessionChildren(p.s) ELSE {{}},
         restored \in BOOLEAN :
      LET r == AdvanceLifecycle(l, p, read, flipDue, graceOver, fast)
          ends == r.l.state = "Restoring"
      IN /\ life' = IF ends /\ restored THEN [r.l EXCEPT !.state = "Complete"] ELSE r.l
         /\ sup' = r.p.s /\ xw' = r.p.x
         /\ flip' = IF ends /\ restored THEN FlipAfter(r.l, f) ELSE f
         /\ flipDue' = DueAfter(r.l)
         /\ phase' = IF ~ends THEN "wait" ELSE IF restored THEN "over" ELSE "failed"
  BY Zenon DEF Advance
<1> DEFINE l1 == AdvanceFlip(l, read, flipDue)
           q == StopChildren(l1, p, graceOver, fast)
           r == AdvanceLifecycle(l, p, read, flipDue, graceOver, fast)
<1>1. FlipKnown(l1, f) /\ l1.state \notin {"Restoring", "Complete"}
  BY Zenon, AdvanceFlipKnown
<1> HIDE DEF l1, q
<1>2. r = IF l1.state # "StoppingChildren" THEN [l |-> l1, p |-> p]
          ELSE [l |-> [l1 EXCEPT !.childStop = TRUE,
                                 !.state = IF SessionGone(q.s) THEN "Restoring" ELSE @],
                p |-> q]
  BY Zenon DEF AdvanceLifecycle, l1, q
<1>3. CASE l1.state # "StoppingChildren"
  <2>1. r.l = l1 /\ r.p = p
    BY <1>2, <1>3
  <2>2. life' = l1 /\ flip' = f /\ phase' = "wait"
    BY Zenon, <2>1, <1>1
  <2> QED BY Zenon, <2>2, <1>1 DEF GivenBackInv, Phases, FlipKnown, Life
<1>4. CASE l1.state = "StoppingChildren" /\ ~SessionGone(q.s)
  <2>1. r.l = [l1 EXCEPT !.childStop = TRUE, !.state = "StoppingChildren"] /\ r.p = q
    BY <1>2, <1>4, <1>1 DEF FlipKnown, Life
  <2>2. /\ life' = [l1 EXCEPT !.childStop = TRUE, !.state = "StoppingChildren"]
        /\ flip' = f /\ phase' = "wait"
    BY Zenon, <2>1, <1>1, <1>4 DEF FlipKnown, Life
  <2> QED BY Zenon, <2>2, <1>1, <1>4 DEF GivenBackInv, Phases, FlipKnown, Life, Early, Late
<1>5. CASE l1.state = "StoppingChildren" /\ SessionGone(q.s)
  <2>1. r.l = [l1 EXCEPT !.childStop = TRUE, !.state = "Restoring"] /\ r.p = q
    BY <1>2, <1>5, <1>1 DEF FlipKnown, Life
  <2>2. sup' = q.s /\ SessionChildren(sup') = {}
    BY Zenon, <2>1, <1>5 DEF SessionGone
  <2>3. CASE restored
    <3>1. /\ life' = [l1 EXCEPT !.childStop = TRUE, !.state = "Complete"]
          /\ flip' = FlipAfter(r.l, f) /\ phase' = "over"
      BY Zenon, <2>1, <2>3, <1>1 DEF FlipKnown, Life
    <3>2. flip' = IF l1.outcome = "forced" THEN "none" ELSE f
      BY Zenon, <3>1, <2>1, <1>1 DEF FlipAfter, FlipKnown, Life
    <3> QED
      BY Zenon, <3>1, <3>2, <2>2, <1>1, <1>5
      DEF GivenBackInv, Phases, FlipKnown, Life, Early, Late, Live, SessionChildren
  <2>4. CASE ~restored
    <3>1. /\ life' = [l1 EXCEPT !.childStop = TRUE, !.state = "Restoring"]
          /\ flip' = f /\ phase' = "failed"
      BY Zenon, <2>1, <2>4, <1>1 DEF FlipKnown, Life
    <3> QED
      BY ZenonT(60), <3>1, <2>2, <1>1, <1>5
      DEF GivenBackInv, Phases, FlipKnown, Life, Early, Late, Live, SessionChildren
  <2> QED BY Zenon, <2>3, <2>4
<1> QED BY Zenon, <1>3, <1>4, <1>5

\* A request finds the flip it will wait for (request_native_shutdown_inner).
LEMMA RequestKnows ==
  ASSUME GivenBackInv, Running, NEW q \in Requests
  PROVE  /\ FlipKnown(q.life, q.flip) /\ q.life.state = "Requested"
         /\ q.flip \in {"none", "pending", "queued", "read"}
<1> PICK f \in {"none", "pending", "queued"}, c \in 0..MaxCaptures, n \in 0..MaxLaunches :
      q = [life |-> RequestShutdown(life, f # "none"), flip |-> f, captures |-> Less(c),
           launches |-> Less(n)]
  BY DEF Requests
<1>1. q.flip = f /\ q.life = [life EXCEPT !.state = "Requested", !.expected = (f # "none")]
  BY Zenon DEF RequestShutdown, Running
<1> QED BY ZenonT(60), <1>1 DEF GivenBackInv, FlipKnown, Life, Early, Late, Running

\* Every step keeps the invariant.
LEMMA GivenBackStep == GivenBackInv /\ [Next]_vars => GivenBackInv'
<1> SUFFICES ASSUME GivenBackInv, [Next]_vars PROVE GivenBackInv'
  BY Zenon
<1>1. CASE Wake
  <2>0. phase = "wait" /\ Live /\ life.state \notin {"Restoring", "Complete"}
    BY Zenon, <1>1 DEF Wake, Live, GivenBackInv
  <2> DEFINE f == IF flip = "queued" THEN "read" ELSE flip
  <2>1. completed' = (flip = "queued") /\ (completed' => f = "read")
    BY Zenon, <1>1 DEF Wake
  <2>2. FlipKnown(life, f) /\ f \in {"none", "pending", "queued", "read"}
    BY Zenon DEF GivenBackInv, FlipKnown
  <2>3. CASE life' = life /\ flip' = f /\ phase' = "mid"
    BY Zenon, <2>0, <2>1, <2>2, <2>3 DEF GivenBackInv, Phases
  <2>4. CASE Running /\ \E q \in Requests : phase' = "signalled" /\ life' = q.life /\ flip' = q.flip
    <3> PICK q \in Requests : phase' = "signalled" /\ life' = q.life /\ flip' = q.flip
      BY Zenon, <2>4
    <3>1. FlipKnown(q.life, q.flip) /\ q.life.state = "Requested"
            /\ q.flip \in {"none", "pending", "queued", "read"}
      BY Zenon, <2>4, RequestKnows
    <3>2. completed' = FALSE
      BY Zenon, <2>1, <2>4 DEF Running, GivenBackInv, FlipKnown
    <3> QED BY Zenon, <3>1, <3>2 DEF GivenBackInv, Phases
  <2> QED BY Zenon, <1>1, <2>3, <2>4 DEF Wake, ServeChildren
<1>2. CASE FinishSignalled
  <2>0. Live /\ life.state \notin {"Restoring", "Complete"} /\ completed' = FALSE
    BY Zenon, <1>2 DEF FinishSignalled, Live, GivenBackInv
  <2>1. CASE Advance(life, Pair(sup, xw), FALSE, flip)
    BY Zenon, <2>0, <2>1, AdvanceKeeps DEF GivenBackInv
  <2>2. CASE Return(life, Pair(sup, xw), flip)
    BY Zenon, <2>0, <2>2 DEF GivenBackInv, Return, Phases
  <2> QED BY Zenon, <1>2, <2>1, <2>2 DEF FinishSignalled
<1>3. CASE Finish
  <2>0. Live /\ life.state \notin {"Restoring", "Complete"} /\ completed' = FALSE
    BY Zenon, <1>3 DEF Finish, Live, GivenBackInv
  <2> PICK r \in Served :
        CASE Running -> RunSession(r.p)
          [] ~Running /\ Less(captures) # 0 ->
               captures' = Less(captures) /\ Return(life, r.p, flip) /\ UNCHANGED launches
          [] OTHER ->
               captures' = 0 /\ Advance(life, r.p, completed, flip) /\ UNCHANGED launches
    BY Zenon, <1>3 DEF Finish
  <2>1. ASSUME NEW p, Return(life, p, flip) PROVE GivenBackInv'
    BY Zenon, <2>0, <2>1 DEF GivenBackInv, Return, Phases
  <2>2. CASE ~Running /\ Advance(life, r.p, completed, flip)
    BY Zenon, <2>0, <2>2, AdvanceKeeps DEF GivenBackInv
  <2>3. CASE Running /\ RunSession(r.p)
    <3>1. CASE Return(life, r.p, flip)
      BY Zenon, <3>1, <2>1
    <3>2. ASSUME NEW q \in Requests, NEW p, Advance(q.life, p, FALSE, q.flip)
          PROVE  GivenBackInv'
      <4>1. FlipKnown(q.life, q.flip) /\ q.life.state = "Requested"
              /\ q.flip \in {"none", "pending", "queued", "read"}
        BY Zenon, <2>3, RequestKnows
      <4> QED BY Zenon, <4>1, <3>2, <2>0, AdvanceKeeps
    <3>3. ASSUME NEW q \in Requests, NEW p, Return(q.life, p, q.flip)
          PROVE  GivenBackInv'
      <4>1. FlipKnown(q.life, q.flip) /\ q.life.state = "Requested"
              /\ q.flip \in {"none", "pending", "queued", "read"}
        BY Zenon, <2>3, RequestKnows
      <4> QED BY Zenon, <4>1, <3>3, <2>0 DEF GivenBackInv, Return, Phases
    <3> QED BY Zenon, <2>3, <3>1, <3>2, <3>3 DEF RunSession
  <2> QED BY Zenon, <2>1, <2>2, <2>3
<1>4. CASE EmergencyCleanup
  BY Zenon, <1>4 DEF EmergencyCleanup, GivenBackInv, Live, Phases
<1>5. ASSUME NEW i \in Procs, ProcessExits(i) PROVE GivenBackInv'
  BY Zenon, <1>5 DEF ProcessExits, GivenBackInv, Live, lifeVars
<1>6. CASE Terminate
  BY Zenon, <1>6 DEF Terminate, GivenBackInv, Live, lifeVars
<1>7. CASE FlipCompletes
  BY Zenon, <1>7 DEF FlipCompletes, GivenBackInv, FlipKnown, Live, lifeVars, childVars
<1>8. CASE SeatLost
  <2>1. Live /\ life.state \notin {"Restoring", "Complete"} /\ UNCHANGED <<life, sup, completed>>
    BY Zenon, <1>8 DEF SeatLost, GivenBackInv, Live, lifeVars, childVars
  <2>2. flip \in {"pending", "queued"} /\ flip' \in {"none", flip} /\ phase' \in Phases
    BY Zenon, <1>8 DEF SeatLost, GivenBackInv, Phases
  <2> QED BY Zenon, <2>1, <2>2 DEF GivenBackInv, FlipKnown
<1>9. CASE DrainTimeout
  BY Zenon, <1>9 DEF DrainTimeout, GivenBackInv, Live, childVars
<1>10. CASE GraceEnds
  BY Zenon, <1>10 DEF GraceEnds, GivenBackInv, Live, childVars
<1>11. CASE WindowPasses
  BY Zenon, <1>11 DEF WindowPasses, GivenBackInv, Live, lifeVars
<1>12. CASE UNCHANGED vars
  BY Zenon, <1>12 DEF vars, GivenBackInv, Live, SessionChildren, FlipKnown
<1> QED
  BY Zenon, <1>1, <1>2, <1>3, <1>4, <1>5, <1>6, <1>7, <1>8, <1>9, <1>10, <1>11, <1>12
  DEF Next, Ended

\* The runtime starts with no page flip expected.
LEMMA InitGivenBack == Init => GivenBackInv
<1> SUFFICES ASSUME Init PROVE GivenBackInv
  BY Zenon
<1>1. /\ life.state = "Running" /\ life.outcome = "none" /\ life.expected = FALSE
      /\ life \in Life
  BY Zenon DEF Init, Life, Early
<1>2. phase = "wait" /\ completed = FALSE /\ flip = "none"
  BY Zenon DEF Init
<1> QED BY Zenon, <1>1, <1>2 DEF GivenBackInv, FlipKnown, Early, Late, Phases

\* KMS is given back only when no process of the session and no page flip is left
\* (note_session_children_stopped and restore_kms_for_shutdown), whatever signals, exits,
\* XWayland starts and timeouts happened on the way.
THEOREM GivenBack == Spec => []KmsGivenBack
<1>1. GivenBackInv => KmsGivenBack
  BY Zenon DEF GivenBackInv, KmsGivenBack, SessionStopped, NothingInFlight
<1> QED BY InitGivenBack, <1>1, GivenBackStep, PTL DEF Spec

-----------------------------------------------------------------------------
(* Who must stop is told, and stopped in order *)

\* The inductive invariant: everyone who must stop has been told (Good),
\* a shutdown that was requested quiesces the supervisor, and the grace period runs only
\* once the session was told.
StopInv ==
  /\ Good(sup, xw)
  /\ life.childStop => sup.stop # 0
  /\ graceOver => sup.stop # 0
  /\ ~Running => sup.quiescing
  /\ phase = "signalled" => ~Running
  /\ phase = "failed" => \A i \in SessionChildren(sup) : sup.children[i].sig = 2

\* Whom a step may kill: the process XWayland asked to stop, and everybody once the grace
\* period ended.
Killable == IF graceOver THEN Nat ELSE {xw.term}

\* What a step leaves.
StopStep ==
  /\ StopInv'
  /\ After(sup, sup', Nat)
  /\ phase' = "failed" \/ After(sup, sup', Killable)

\* What remains to be shown of a step whose supervisor develops as it may.
LEMMA StepStops ==
  ASSUME StopInv, NEW K, Keeps(sup, sup', xw', K), K = Nat \/ K = Killable,
         phase' = "failed" \/ K = Killable,
         life'.childStop => sup'.stop # 0,
         graceOver' => graceOver \/ sup'.stop # 0,
         life'.state # "Running" => sup'.quiescing,
         phase' = "signalled" => life'.state # "Running",
         phase' = "failed" => \A i \in SessionChildren(sup') : sup'.children[i].sig = 2
  PROVE  StopStep
<1>1. Killable \subseteq Nat
  BY Zenon DEF Killable, StopInv, Good, Told, Service
<1>2. Good(sup', xw') /\ After(sup, sup', K)
  BY Zenon DEF Keeps
<1>3. After(sup, sup', Nat)
  BY Zenon, <1>1, <1>2, KeepsWiden DEF Keeps
<1>4. graceOver' => sup'.stop # 0
  BY Zenon, <1>2 DEF StopInv, After
<1>5. StopInv'
  BY Zenon, <1>2, <1>4 DEF StopInv, Running
<1> QED BY Zenon, <1>2, <1>3, <1>5 DEF StopStep

\* mark_child_stop_started, what it starts, and advance_shutdown.
LEMMA StopChildrenKeeps ==
  ASSUME NEW l, NEW p, NEW s, NEW x, s = p.s, x = p.x, Good(s, x), l.childStop => s.stop # 0,
         NEW over, NEW fast, NEW K, over => Nat \subseteq K,
         NEW q, q = StopChildren(l, p, over, fast)
  PROVE  Keeps(s, q.s, q.x, K) /\ q.s.stop # 0
<1> DEFINE u == StopXwayland(p)
           v == BeginShutdown(u.s)
<1>1. CASE l.childStop
  <2>1. q.s = AdvanceShutdown(s, over, fast) /\ q.x = x
    BY Zenon, <1>1 DEF StopChildren, Pair
  <2>2. Keeps(s, q.s, x, K)
    BY Zenon, <1>1, <2>1, AdvanceShutdownKeeps
  <2> QED BY Zenon, <1>1, <2>1, <2>2 DEF Keeps, After
<1>2. CASE ~l.childStop
  <2>1. q.s = AdvanceShutdown(v, over, fast) /\ q.x = u.x
    BY Zenon, <1>2 DEF StopChildren, Pair
  <2>2. Keeps(s, u.s, u.x, {}) /\ u.x.state = "Disabled"
    BY Zenon, StopXwaylandKeeps
  <2> HIDE DEF u
  <2>3. Keeps(u.s, v, u.x, {}) /\ v.stop # 0
    BY Zenon, <2>2, BeginShutdownKeeps DEF Keeps
  <2> HIDE DEF v
  <2>4. Keeps(s, v, u.x, {})
    BY Zenon, <2>2, <2>3, KeepsTrans DEF Good
  <2>5. Keeps(s, v, u.x, K)
    BY Zenon, <2>4, KeepsQuiet
  <2>6. Keeps(v, q.s, u.x, K)
    BY Zenon, <2>1, <2>3, <2>4, AdvanceShutdownKeeps DEF Keeps
  <2>7. Keeps(s, q.s, u.x, K)
    BY Zenon, <2>5, <2>6, KeepsTrans DEF Good
  <2>8. q.s.stop # 0
    BY Zenon, <2>3, <2>6 DEF Keeps, After
  <2> QED BY Zenon, <2>1, <2>7, <2>8
<1> QED BY Zenon, <1>1, <1>2

\* A lifecycle advance stops the children in order, and fails only with nobody left.
LEMMA AdvanceStops ==
  ASSUME StopInv, UNCHANGED graceOver, NEW l \in Life, NEW p, NEW read, NEW f,
         Keeps(sup, p.s, p.x, Killable), l.childStop => p.s.stop # 0, p.s.quiescing,
         l.state \notin {"Running", "Restoring", "Complete"},
         Advance(l, p, read, f)
  PROVE  StopStep
<1> PICK fast \in IF graceOver THEN SUBSET SessionChildren(p.s) ELSE {{}},
         restored \in BOOLEAN :
      LET r == AdvanceLifecycle(l, p, read, flipDue, graceOver, fast)
          ends == r.l.state = "Restoring"
      IN /\ life' = IF ends /\ restored THEN [r.l EXCEPT !.state = "Complete"] ELSE r.l
         /\ sup' = r.p.s /\ xw' = r.p.x
         /\ flip' = IF ends /\ restored THEN FlipAfter(r.l, f) ELSE f
         /\ flipDue' = DueAfter(r.l)
         /\ phase' = IF ~ends THEN "wait" ELSE IF restored THEN "over" ELSE "failed"
  BY Zenon DEF Advance
<1> DEFINE l1 == AdvanceFlip(l, read, flipDue)
           q == StopChildren(l1, p, graceOver, fast)
           r == AdvanceLifecycle(l, p, read, flipDue, graceOver, fast)
<1>1. /\ l1 \in Life /\ l1.childStop = l.childStop
      /\ l1.state \notin {"Running", "Restoring", "Complete"}
  <2>1. CASE l.state = "Requested"
    BY Zenon, <2>1 DEF AdvanceFlip, Life, Early, Late
  <2>2. CASE l.state = "Draining"
    BY Zenon, <2>2 DEF AdvanceFlip, Life, Early, Late
  <2>3. CASE l.state = "StoppingChildren"
    BY Zenon, <2>3 DEF AdvanceFlip
  <2> QED BY Zenon, <2>1, <2>2, <2>3 DEF Life, Early, Late
<1>2. Good(p.s, p.x) /\ WellFormed(sup)
  BY Zenon DEF Keeps, StopInv, Good
<1>3. graceOver => Nat \subseteq Killable
  BY Zenon DEF Killable
<1>4. Keeps(p.s, q.s, q.x, Killable) /\ q.s.stop # 0
  <2> HIDE DEF l1
  <2> QED BY Zenon, <1>1, <1>2, <1>3, StopChildrenKeeps
<1> HIDE DEF l1, q
<1>5. r = IF l1.state # "StoppingChildren" THEN [l |-> l1, p |-> p]
          ELSE [l |-> [l1 EXCEPT !.childStop = TRUE,
                                 !.state = IF SessionGone(q.s) THEN "Restoring" ELSE @],
                p |-> q]
  BY Zenon DEF AdvanceLifecycle, l1, q
<1>6. CASE l1.state # "StoppingChildren"
  <2>1. r.l = l1 /\ r.p = p
    BY <1>5, <1>6
  <2>2. life' = l1 /\ phase' = "wait" /\ sup' = p.s /\ xw' = p.x
    BY Zenon, <2>1, <1>1
  <2> QED BY Zenon, <1>1, <2>2, StepStops
<1>7. CASE l1.state = "StoppingChildren"
  <2>1. r.p = q /\ r.l = [l1 EXCEPT !.childStop = TRUE,
                                    !.state = IF SessionGone(q.s) THEN "Restoring" ELSE @]
    BY <1>5, <1>7
  <2>2. sup' = q.s /\ xw' = q.x
    BY Zenon, <2>1
  <2>3. r.l.state = "Restoring" => SessionGone(q.s)
    BY Zenon, <1>1, <2>1 DEF Life
  <2>4. phase' = "failed" => SessionChildren(sup') = {}
    BY Zenon, <2>2, <2>3 DEF SessionGone
  <2>5. Keeps(sup, sup', xw', Killable)
    BY <1>2, <1>4, <2>2, KeepsTrans
  <2>6. sup'.stop # 0 /\ sup'.quiescing
    BY Zenon, <1>4, <2>2 DEF Keeps, Good, Told
  <2> QED BY Zenon, <2>4, <2>5, <2>6, StepStops
<1> QED BY Zenon, <1>6, <1>7

\* A cycle that returns early leaves what its XWayland half made.
LEMMA ReturnStops ==
  ASSUME StopInv, UNCHANGED graceOver, NEW l, NEW p, NEW f,
         Keeps(sup, p.s, p.x, Killable), l.childStop => p.s.stop # 0,
         l.state # "Running" => p.s.quiescing, Return(l, p, f)
  PROVE  StopStep
<1>1. life' = l /\ sup' = p.s /\ xw' = p.x /\ phase' = "wait"
  BY Zenon DEF Return
<1> QED BY Zenon, <1>1, StepStops

\* The events of one cycle leave a good service, and kill at most the process that was
\* asked to stop (dispatch_xwayland_events, handle_deadline).
LEMMA DispatchedKeeps ==
  ASSUME NEW p, NEW s, NEW x, s = p.s, x = p.x, Good(s, x), NEW event, NEW spawns, NEW spent,
         NEW q, q = Dispatched(p, event, spawns, spent)
  PROVE  Keeps(s, q.s, q.x, {})
<1>1. CASE event = "listen" /\ x.state = "Armed"
  <2> DEFINE can == spawns /\ CanSpawn(p.s)
  <2>1. q = ListenerReady(p, can, spent)
    BY Zenon, <1>1 DEF Dispatched
  <2> HIDE DEF can
  <2> QED BY Zenon, <1>1, <2>1, ListenerKeeps
<1>2. CASE event = "ready" /\ x.state = "Starting"
  <2>1. q.s = s /\ q.x = [x EXCEPT !.state = "Running"]
    BY Zenon, <1>2 DEF Dispatched, Pair
  <2>2. x \in Service /\ s.stop = 0
    BY Zenon, <1>2 DEF Good, Told
  <2>3. q.x \in Service /\ q.x.proc = x.proc /\ q.x.term = x.term /\ q.x.state = "Running"
    BY Zenon, <2>1, <2>2 DEF Service
  <2>4. Told(s, q.x)
    BY <2>2, <2>3 DEF Good, Told, Serving
  <2> QED BY <2>1, <2>4, KeepsRefl DEF Good
<1>3. CASE event = "broken" /\ Serving(x)
  <2>1. q = FailGeneration(p, spent)
    BY Zenon, <1>3 DEF Dispatched
  <2> QED BY Zenon, <1>3, <2>1, FailGenerationKeeps
<1>4. CASE /\ ~(event = "listen" /\ x.state = "Armed") /\ ~(event = "ready" /\ x.state = "Starting")
           /\ ~(event = "broken" /\ Serving(x))
  <2>1. q = p
    BY Zenon, <1>4 DEF Dispatched
  <2> QED BY Zenon, <2>1, KeepsRefl
<1> QED BY Zenon, <1>1, <1>2, <1>3, <1>4

\* One round of the Xwayland service develops the supervisor, killing only what may be killed.
LEMMA ServedKeeps ==
  ASSUME StopInv, NEW r \in Served
  PROVE  Keeps(sup, r.p.s, r.p.x, Killable)
<1> DEFINE kills == Choice(Escalates(Pair(sup, xw), TRUE))
           dues == Choice(xw.state \in {"Starting", "Backoff"})
           spents == Choice(xw.state = "Armed" \/ Serving(xw))
<1>1. kills \subseteq BOOLEAN
  BY Zenon DEF Choice
<1>0. Served = {ServeXwayland(event, killDue, due, dies, spawns, spent) :
                  event \in Events, killDue \in kills, dies \in kills, spawns \in BOOLEAN,
                  due \in dues, spent \in spents}
  BY DEF Served
<1> HIDE DEF kills, dues, spents
<1>2. PICK event \in Events, killDue \in kills, dies \in kills, spawns \in BOOLEAN,
           due \in dues, spent \in spents :
        r = ServeXwayland(event, killDue, due, dies, spawns, spent)
  BY <1>0
<1> DEFINE p0 == Pair(sup, xw)
           p == Dispatched(p0, event, spawns, spent)
           late == killDue /\ p.x.term = xw.term
           q == EscalateTermination(p, late, dies, spawns)
           d == due /\ q.x.state = xw.state
           w == ServiceDeadline(q, d, spent)
<1>3. r.p = w
  BY Zenon, <1>2 DEF ServeXwayland
<1>4. sup = p0.s /\ xw = p0.x /\ Good(sup, xw)
  BY Zenon DEF StopInv, Pair
<1> HIDE DEF p0
<1>5. Keeps(sup, p.s, p.x, {})
  BY Zenon, <1>4, DispatchedKeeps
<1> HIDE DEF p
<1>6. Keeps(p.s, q.s, q.x, {xw.term})
  <2>1. late \in BOOLEAN /\ (late => p.x.term \in {xw.term}) /\ dies \in BOOLEAN
    BY Zenon, <1>1
  <2>2. Good(p.s, p.x)
    BY Zenon, <1>5 DEF Keeps
  <2> HIDE DEF late
  <2> QED BY Zenon, <2>1, <2>2, EscalateKeeps
<1> HIDE DEF q
<1>7. Keeps(q.s, w.s, w.x, {})
  <2> HIDE DEF d
  <2> QED BY Zenon, <1>6, DeadlineKeeps DEF Keeps
<1> HIDE DEF w
<1>8. Keeps(sup, p.s, p.x, {xw.term}) /\ Keeps(q.s, w.s, w.x, {xw.term})
  BY Zenon, <1>5, <1>7, KeepsQuiet
<1>9. WellFormed(sup)
  BY Zenon, <1>4 DEF Good
<1>10. Keeps(sup, q.s, q.x, {xw.term})
  BY Zenon, <1>6, <1>8, <1>9, KeepsTrans
<1>11. Keeps(sup, w.s, w.x, {xw.term})
  BY Zenon, <1>8, <1>9, <1>10, KeepsTrans
<1>12. {xw.term} \subseteq Killable
  BY Zenon, <1>4 DEF Killable, Good, Told, Service
<1> DEFINE J == {xw.term}
<1>13. Keeps(sup, w.s, w.x, J) /\ J \subseteq Killable
  BY Zenon, <1>11, <1>12
<1> HIDE DEF J
<1> QED BY Zenon, <1>3, <1>13, KeepsWiden

\* The exits reap_supervised_children passes on, and the reap itself.
LEMMA ServiceExitsKeep ==
  ASSUME NEW s, NEW x, Good(s, x), NEW spawns \in BOOLEAN, NEW spent,
         NEW r, r = ReapExited(s, spawns), NEW y, y = ServiceExits(x, s, spent)
  PROVE  Keeps(s, r, y, {})
<1> DEFINE gone == Exited(s)
           ok == s.children[x.proc].ok
           z == IF x.proc \in gone THEN HandleProcessExit(x, x.proc, ok, spent) ELSE x
<1>1. x \in Service /\ (~Serving(x) => x.proc = NoProc)
  BY Zenon DEF Good, Told
<1>2. y = IF z.term \in gone THEN HandleProcessExit(z, z.term, FALSE, spent) ELSE z
  BY Zenon DEF ServiceExits
<1>3. /\ z \in Service /\ (~Serving(z) => z.proc = NoProc)
      /\ x.state = "Disabled" => z.state = "Disabled"
      /\ z.proc = x.proc \/ (z.proc = NoProc /\ x.proc \in gone)
      /\ z.term \in {x.term, NoProc}
  <2> HIDE DEF ok, gone
  <2>1. CASE x.proc \in gone
    <3>1. z = HandleProcessExit(x, x.proc, ok, spent)
      BY Zenon, <2>1
    <3> HIDE DEF z
    <3> QED BY <1>1, <2>1, <3>1, ExitHandled
  <2>2. CASE x.proc \notin gone
    BY Zenon, <1>1, <2>2
  <2> QED BY Zenon, <2>1, <2>2
<1> HIDE DEF z, gone
<1>4. /\ y \in Service /\ (~Serving(y) => y.proc = NoProc)
      /\ z.state = "Disabled" => y.state = "Disabled"
      /\ y.proc = z.proc \/ (y.proc = NoProc /\ z.proc \in gone)
      /\ y.term \in {z.term, NoProc}
  <2>1. CASE z.term \in gone
    <3> DEFINE bad == FALSE
    <3>1. y = HandleProcessExit(z, z.term, bad, spent)
      BY Zenon, <1>2, <2>1
    <3> HIDE DEF bad
    <3> QED BY <1>3, <2>1, <3>1, ExitHandled
  <2>2. CASE z.term \notin gone
    BY Zenon, <1>2, <1>3, <2>2
  <2> QED BY Zenon, <2>1, <2>2
<1>5. y.proc = x.proc \/ (y.proc = NoProc /\ x.proc \in Exited(s))
  <2>1. NoProc \notin gone
    BY Zenon, Entries DEF gone, Exited, Good, WellFormed, NoProc
  <2> QED BY Zenon, <1>3, <1>4, <2>1 DEF gone
<1> QED BY Zenon, <1>3, <1>4, <1>5, ReapKeeps

\* A request keeps what the lifecycle knows of the children.
LEMMA RequestLife ==
  ASSUME GivenBackInv, Running, NEW q \in Requests
  PROVE  q.life \in Life /\ q.life.state = "Requested" /\ q.life.childStop = life.childStop
<1> PICK f \in {"none", "pending", "queued"}, c \in 0..MaxCaptures, n \in 0..MaxLaunches :
      q = [life |-> RequestShutdown(life, f # "none"), flip |-> f, captures |-> Less(c),
           launches |-> Less(n)]
  BY DEF Requests
<1>1. q.life = [life EXCEPT !.state = "Requested", !.expected = (f # "none")]
  BY Zenon DEF RequestShutdown, Running
<1>2. life \in Life
  BY Zenon DEF GivenBackInv, FlipKnown
<1> QED BY Zenon, <1>1, <1>2 DEF Life, Early

\* The children branch of a cycle: a signal that is taken has stopped the restarts.
LEMMA ServeChildrenStops ==
  ASSUME GivenBackInv, StopInv, UNCHANGED graceOver, NEW f, ServeChildren(f)
  PROVE  StopStep
<1> DEFINE polled == DrainSignalFd(sup)
           s == TakeSignal(polled)
<1>1. PICK spawns \in BOOLEAN, spent \in BOOLEAN :
        /\ sup' = ReapExited(s, spawns) /\ xw' = ServiceExits(xw, s, spent)
        /\ IF polled.pending /\ Running
           THEN \E q \in Requests : /\ phase' = "signalled" /\ life' = q.life /\ flip' = q.flip
                                    /\ captures' = q.captures /\ launches' = q.launches
           ELSE phase' = "mid" /\ flip' = f /\ UNCHANGED <<life, captures, launches>>
  BY Zenon DEF ServeChildren
<1>2. Keeps(sup, polled, xw, {})
  BY Zenon, DrainKeeps DEF StopInv
<1> HIDE DEF polled
<1>3. Keeps(polled, s, xw, {})
  <2>1. polled \in Supervisor /\ Good(polled, xw)
    BY Zenon, <1>2 DEF Keeps, Good, WellFormed
  <2>2. /\ s \in Supervisor /\ s.stop = polled.stop /\ s.children = polled.children
        /\ s.nextId = polled.nextId /\ s.quiescing = polled.quiescing /\ s.pending = FALSE
    BY Zenon, <2>1 DEF TakeSignal, Supervisor
  <2> HIDE DEF s
  <2> QED BY Zenon, <2>1, <2>2, FlagsKeep
<1> HIDE DEF s
<1>4. Keeps(s, sup', xw', {})
  BY Zenon, <1>1, <1>3, ServiceExitsKeep DEF Keeps
<1>5. Keeps(polled, sup', xw', {})
  BY Zenon, <1>2, <1>3, <1>4, KeepsTrans DEF Keeps, Good
<1>6. Keeps(sup, sup', xw', {})
  BY Zenon, <1>2, <1>5, KeepsTrans DEF Keeps, Good, StopInv
<1>7. Keeps(sup, sup', xw', Killable)
  BY Zenon, <1>6, KeepsQuiet
<1>8. CASE polled.pending /\ Running
  <2>1. PICK q \in Requests : phase' = "signalled" /\ life' = q.life
    BY Zenon, <1>1, <1>8
  <2>2. life'.childStop = life.childStop /\ life'.state # "Running"
    BY Zenon, <1>8, <2>1, RequestLife
  <2>3. sup'.quiescing
    BY Zenon, <1>2, <1>5, <1>8 DEF Keeps, Good, WellFormed, After
  <2>4. life'.childStop => sup'.stop # 0
    BY Zenon, <1>6, <2>2 DEF StopInv, Keeps, After
  <2> QED BY Zenon, <1>7, <2>1, <2>2, <2>3, <2>4, StepStops
<1>9. CASE ~(polled.pending /\ Running)
  <2>1. phase' = "mid" /\ life' = life
    BY Zenon, <1>1, <1>9
  <2>2. (life'.childStop => sup'.stop # 0) /\ (life'.state # "Running" => sup'.quiescing)
    BY Zenon, <1>6, <2>1 DEF StopInv, Keeps, After, Running
  <2> QED BY Zenon, <1>7, <2>1, <2>2, StepStops
<1> QED BY Zenon, <1>8, <1>9

\* A step that leaves the lifecycle alone and develops the supervisor without a kill.
LEMMA QuietStops ==
  ASSUME StopInv, Keeps(sup, sup', xw', {}), UNCHANGED life,
         graceOver' => graceOver \/ sup'.stop # 0, phase' = phase, phase # "failed"
  PROVE  StopStep
<1>1. Keeps(sup, sup', xw', Killable)
  BY Zenon, KeepsQuiet
<1>2. (life'.childStop => sup'.stop # 0) /\ (life'.state # "Running" => sup'.quiescing)
  BY Zenon DEF StopInv, Keeps, After, Running
<1>3. phase' = "signalled" => life'.state # "Running"
  BY Zenon DEF StopInv, Running
<1> QED BY Zenon, <1>1, <1>2, <1>3, StepStops

\* One that leaves the children alone too.
LEMMA IdleStops ==
  ASSUME StopInv, UNCHANGED <<sup, xw, life>>, graceOver' => graceOver \/ sup.stop # 0,
         phase' \in {phase, "mid", "joining"}
  PROVE  StopStep
<1>1. Keeps(sup, sup', xw', Killable)
  BY Zenon, KeepsRefl DEF StopInv
<1>2. phase' = "failed" => \A i \in SessionChildren(sup') : sup'.children[i].sig = 2
  BY Zenon DEF StopInv
<1> QED BY Zenon, <1>1, <1>2, StepStops DEF StopInv, Running

\* The rest of a cycle: XWayland's half, then input or the lifecycle.
LEMMA FinishStops ==
  ASSUME GivenBackInv, StopInv, Finish
  PROVE  StopStep
<1>1. PICK r \in Served :
        CASE Running -> RunSession(r.p)
          [] ~Running /\ Less(captures) # 0 ->
               captures' = Less(captures) /\ Return(life, r.p, flip) /\ UNCHANGED launches
          [] OTHER ->
               captures' = 0 /\ Advance(life, r.p, completed, flip) /\ UNCHANGED launches
  BY Zenon DEF Finish
<1> DEFINE p == r.p
<1>2. Keeps(sup, p.s, p.x, Killable)
  BY Zenon, ServedKeeps
<1>3. (life.childStop => p.s.stop # 0) /\ (life.state # "Running" => p.s.quiescing)
  BY Zenon, <1>2 DEF StopInv, Keeps, After, Running
<1>4. UNCHANGED graceOver /\ Live
  BY Zenon DEF Finish, Live
<1>5. CASE Return(life, p, flip)
  BY Zenon, <1>2, <1>3, <1>4, <1>5, ReturnStops
<1>6. CASE ~Running /\ Advance(life, p, completed, flip)
  <2>1. life \in Life /\ life.state \notin {"Running", "Restoring", "Complete"}
    BY Zenon, <1>4, <1>6 DEF GivenBackInv, FlipKnown, Running
  <2> HIDE DEF p
  <2> QED BY Zenon, <1>2, <1>3, <1>4, <1>6, <2>1, AdvanceStops
<1>7. CASE Running /\ RunSession(p)
  <2>1. CASE Return(life, p, flip)
    BY Zenon, <1>5, <2>1
  <2> DEFINE s == [p.s EXCEPT !.quiescing = TRUE]
             w == Pair(s, p.x)
  <2>2. w.s = s /\ w.x = p.x
    BY Zenon DEF Pair
  <2>3. Keeps(sup, s, p.x, Killable) /\ s.quiescing /\ s.stop = p.s.stop
    <3>1. Good(p.s, p.x) /\ p.s \in Supervisor
      BY Zenon, <1>2 DEF Keeps, Good, WellFormed
    <3> HIDE DEF p
    <3>2. /\ s \in Supervisor /\ s.stop = p.s.stop /\ s.children = p.s.children
          /\ s.nextId = p.s.nextId /\ s.quiescing = TRUE
      BY Zenon, <3>1 DEF Supervisor
    <3> HIDE DEF s
    <3>7. Keeps(p.s, s, p.x, Killable)
      BY Zenon, <3>1, <3>2, FlagsKeep, KeepsQuiet
    <3>8. Keeps(sup, s, p.x, Killable)
      BY Zenon, <1>2, <3>7, KeepsTrans DEF StopInv, Good
    <3> QED BY Zenon, <3>2, <3>8
  <2>4. ASSUME NEW q \in Requests,
               Advance(q.life, w, FALSE, q.flip) \/ Return(q.life, w, q.flip)
        PROVE  StopStep
    <3>1. q.life \in Life /\ q.life.state = "Requested" /\ q.life.childStop = life.childStop
      BY Zenon, <1>7, RequestLife
    <3> DEFINE no == FALSE
    <3>2. Advance(q.life, w, no, q.flip) \/ Return(q.life, w, q.flip)
      BY Zenon, <2>4
    <3> HIDE DEF no, s, w, p
    <3>3. Keeps(sup, w.s, w.x, Killable) /\ w.s.quiescing /\ (q.life.childStop => w.s.stop # 0)
      BY Zenon, <1>3, <2>2, <2>3, <3>1
    <3>4. CASE Return(q.life, w, q.flip)
      BY Zenon, <1>4, <3>3, <3>4, ReturnStops
    <3>5. CASE Advance(q.life, w, no, q.flip)
      BY Zenon, <1>4, <3>1, <3>3, <3>5, AdvanceStops
    <3> QED BY Zenon, <3>2, <3>4, <3>5
  <2> QED BY Zenon, <1>7, <2>1, <2>4 DEF RunSession
<1> QED BY Zenon, <1>1, <1>5, <1>6, <1>7

\* Every step keeps the invariant and develops the supervisor as it may.
LEMMA StopsStep ==
  ASSUME GivenBackInv, StopInv, Next
  PROVE  StopStep
<1>0. Good(sup, xw) /\ sup \in Supervisor
  BY Zenon DEF StopInv, Good, WellFormed
<1>1. CASE Wake
  <2>1. CASE sup.fd # {} \/ life.state = "StoppingChildren"
    <3> DEFINE f == IF flip = "queued" THEN "read" ELSE flip
    <3>1. ServeChildren(f) /\ UNCHANGED graceOver
      BY Zenon, <1>1, <2>1 DEF Wake
    <3> HIDE DEF f
    <3> QED BY Zenon, <3>1, ServeChildrenStops
  <2>2. CASE ~(sup.fd # {} \/ life.state = "StoppingChildren")
    <3>1. UNCHANGED <<sup, xw, life>> /\ UNCHANGED graceOver /\ phase' = "mid"
      BY Zenon, <1>1, <2>2 DEF Wake
    <3> QED BY Zenon, <3>1, IdleStops
  <2> QED BY Zenon, <2>1, <2>2
<1>2. CASE FinishSignalled
  <2> DEFINE p == Pair(sup, xw)
  <2>1. p.s = sup /\ p.x = xw
    BY Zenon DEF Pair
  <2>2. Advance(life, p, FALSE, flip) \/ Return(life, p, flip)
    BY Zenon, <1>2 DEF FinishSignalled
  <2>3. UNCHANGED graceOver /\ Live
    BY Zenon, <1>2 DEF FinishSignalled, Live
  <2> HIDE DEF p
  <2>4. Keeps(sup, p.s, p.x, Killable)
    BY Zenon, <1>0, <2>1, KeepsRefl
  <2>5. (life.childStop => p.s.stop # 0) /\ (life.state # "Running" => p.s.quiescing)
    BY Zenon, <2>1 DEF StopInv, Running
  <2>6. CASE Return(life, p, flip)
    BY Zenon, <2>3, <2>4, <2>5, <2>6, ReturnStops
  <2>7. CASE Advance(life, p, FALSE, flip) /\ life.state # "Running"
    <3> DEFINE no == FALSE
    <3>1. Advance(life, p, no, flip)
      BY Zenon, <2>7
    <3> HIDE DEF no
    <3>2. life \in Life /\ life.state \notin {"Running", "Restoring", "Complete"}
      BY Zenon, <2>3, <2>7 DEF GivenBackInv, FlipKnown
    <3> QED BY Zenon, <2>3, <2>4, <2>5, <2>7, <3>1, <3>2, AdvanceStops
  <2>8. life.state # "Running"
    BY Zenon, <1>2 DEF FinishSignalled, StopInv, Running
  <2> QED BY Zenon, <2>2, <2>6, <2>7, <2>8
<1>4. CASE EmergencyCleanup
  <2> DEFINE p0 == Pair(sup, xw)
             p == StopXwayland(p0)
  <2>1. phase' = "failed" /\ sup' = KillSessionOwnedNow(p.s) /\ xw' = p.x
        /\ UNCHANGED <<life, graceOver>>
    BY Zenon, <1>4 DEF EmergencyCleanup
  <2>2. p0.s = sup /\ p0.x = xw
    BY Zenon DEF Pair
  <2> HIDE DEF p0
  <2>3. Keeps(sup, p.s, p.x, {})
    BY Zenon, <1>0, <2>2, StopXwaylandKeeps
  <2> HIDE DEF p
  <2>4. Keeps(sup, p.s, p.x, Nat)
    BY Zenon, <2>3, KeepsQuiet
  <2>5. /\ Keeps(p.s, sup', xw', Nat) /\ sup'.quiescing
        /\ \A i \in SessionChildren(sup') : sup'.children[i].sig = 2
    BY Zenon, <2>1, <2>3, KillSessionKeeps DEF Keeps
  <2>6. Keeps(sup, sup', xw', Nat)
    BY Zenon, <1>0, <2>4, <2>5, KeepsTrans DEF Good
  <2>7. life'.childStop => sup'.stop # 0
    BY Zenon, <2>1, <2>6 DEF StopInv, Keeps, After
  <2> QED BY Zenon, <2>1, <2>5, <2>6, <2>7, StepStops
<1>5. ASSUME NEW i \in Procs, ProcessExits(i) PROVE StopStep
  <2>1. PICK ok \in {FALSE, sup.children[i].kind = "xwayland"} : sup' = Exit(sup, {i}, ok)
    BY Zenon, <1>5 DEF ProcessExits
  <2>2. xw' = xw /\ UNCHANGED <<life, graceOver>> /\ phase' = phase /\ phase # "failed"
    BY Zenon, <1>5 DEF ProcessExits, lifeVars, Live
  <2>3. ok \in BOOLEAN
    BY ZenonT(60)
  <2>4. Keeps(sup, sup', xw, {})
    BY Zenon, <1>0, <2>1, <2>3, ExitKeeps
  <2> QED BY Zenon, <2>2, <2>4, QuietStops
<1>6. ASSUME NEW fd, NEW h, sup' = [sup EXCEPT !.fd = fd, !.history = h], sup' \in Supervisor,
             xw' = xw, UNCHANGED <<life, graceOver>>, phase' = phase, phase # "failed"
      PROVE  StopStep
  <2>1. /\ sup'.stop = sup.stop /\ sup'.children = sup.children /\ sup'.nextId = sup.nextId
        /\ sup'.quiescing = sup.quiescing /\ sup'.pending = sup.pending
    BY Zenon, <1>0, <1>6 DEF Supervisor
  <2>2. Keeps(sup, sup', xw, {})
    BY Zenon, <1>0, <1>6, <2>1, FlagsKeep DEF Good, WellFormed
  <2> QED BY Zenon, <1>6, <2>2, QuietStops
<1>7. CASE Terminate
  <2>1. sup' = [sup EXCEPT !.fd = sup.fd \union {"TERM"}, !.history = sup.history]
    BY Zenon, <1>0, <1>7 DEF Terminate, Supervisor
  <2>2. sup' \in Supervisor
    <3>1. sup.fd \union {"TERM"} \in SUBSET {"CHLD", "TERM"}
      BY Zenon, <1>0 DEF Supervisor
    <3> QED BY Zenon, <1>0, <2>1, <3>1 DEF Supervisor
  <2>3. xw' = xw /\ UNCHANGED <<life, graceOver>> /\ phase' = phase /\ phase # "failed"
    BY Zenon, <1>7 DEF Terminate, lifeVars, Live
  <2> QED BY Zenon, <1>6, <2>1, <2>2, <2>3
<1>8. CASE WindowPasses
  <2>1. sup' = [sup EXCEPT !.fd = sup.fd, !.history = sup.history - 1]
    BY Zenon, <1>0, <1>8 DEF WindowPasses, Supervisor
  <2>2. sup.history - 1 \in Nat
    BY <1>0, <1>8 DEF WindowPasses, Supervisor
  <2>3. sup' \in Supervisor
    BY Zenon, <1>0, <2>1, <2>2 DEF Supervisor
  <2>4. xw' = xw /\ UNCHANGED <<life, graceOver>> /\ phase' = phase /\ phase # "failed"
    BY Zenon, <1>8 DEF WindowPasses, lifeVars, Live
  <2> QED BY Zenon, <1>6, <2>1, <2>3, <2>4
<1>9. CASE FlipCompletes \/ SeatLost \/ DrainTimeout
  <2>1. UNCHANGED <<sup, xw, life>> /\ UNCHANGED graceOver /\ phase' \in {phase, "joining"}
    BY Zenon, <1>9 DEF FlipCompletes, SeatLost, DrainTimeout, lifeVars, childVars
  <2> QED BY Zenon, <2>1, IdleStops
<1>10. CASE GraceEnds
  <2>1. UNCHANGED <<sup, xw, life>> /\ sup.stop # 0 /\ phase' = phase
    BY <1>10 DEF GraceEnds, childVars
  <2> QED BY Zenon, <2>1, IdleStops
<1>11. CASE Ended
  <2>1. UNCHANGED <<sup, xw, life>> /\ UNCHANGED graceOver /\ phase' = phase
    BY Zenon, <1>11 DEF Ended, vars
  <2> QED BY Zenon, <2>1, IdleStops
<1>3. CASE Finish
  BY Zenon, <1>3, FinishStops
<1> QED
  BY Zenon, <1>1, <1>2, <1>3, <1>4, <1>5, <1>7, <1>8, <1>9, <1>10, <1>11 DEF Next

\* Both invariants hold throughout.
LEMMA StopsThroughout == Spec => [](GivenBackInv /\ StopInv)
<1>1. Init => GivenBackInv
  BY Zenon, InitGivenBack
<1>2. Init => StopInv
  <2> SUFFICES ASSUME Init PROVE StopInv
    BY Zenon
  <2> DEFINE c == [i \in {1, 2} |-> Child(IF i = 1 THEN "shell" ELSE "app")]
  <2>1. c \in Children
    <3>1. c \in [{1, 2} -> ChildType]
      BY Zenon DEF Child, ChildType, Kinds
    <3>2. {1, 2} \subseteq Nat \ {0}
      OBVIOUS
    <3> QED BY Zenon, <3>1, <3>2, TableOf
  <2>2. /\ DOMAIN c = {1, 2} /\ \A i \in {1, 2} : c[i].kind # "xwayland" /\ c[i].sig = 0
    BY Zenon DEF Child
  <2>3. sup = [children |-> c, nextId |-> 3, history |-> 0, quiescing |-> FALSE, stop |-> 0,
               fd |-> {}, pending |-> FALSE]
    BY Zenon DEF Init, NewSupervisor
  <2> HIDE DEF c
  <2>4. /\ sup \in Supervisor /\ sup.children = c /\ sup.nextId = 3 /\ sup.stop = 0
        /\ sup.pending = FALSE
    BY <2>1, <2>3 DEF Supervisor
  <2>5. xw \in Service /\ xw.state = "Armed" /\ xw.proc = 0 /\ xw.term = 0
    BY Zenon DEF Init, NewXwayland, Service, NoProc
  <2>6. WellFormed(sup)
    BY <2>2, <2>4 DEF WellFormed
  <2>7. Told(sup, xw)
    BY <2>2, <2>4, <2>5 DEF Told, NoProc
  <2>8. /\ life.state = "Running" /\ life.childStop = FALSE /\ phase = "wait"
        /\ graceOver = FALSE
    BY Zenon DEF Init
  <2> QED BY Zenon, <2>6, <2>7, <2>8 DEF StopInv, Good, Running
<1>3. GivenBackInv /\ StopInv /\ [Next]_vars => StopInv'
  <2>1. ASSUME GivenBackInv, StopInv, Next PROVE StopInv'
    BY Zenon, <2>1, StopsStep DEF StopStep
  <2>2. ASSUME StopInv, UNCHANGED vars PROVE StopInv'
    <3>1. UNCHANGED <<sup, xw, life>> /\ UNCHANGED graceOver /\ phase' = phase
      BY Zenon, <2>2 DEF vars
    <3> QED BY Zenon, <2>2, <3>1, IdleStops DEF StopStep
  <2> QED BY Zenon, <2>1, <2>2
<1> QED BY <1>1, <1>2, <1>3, GivenBackStep, PTL DEF Spec

\* Whoever must stop has been told to: everybody of the session once the children are being
\* stopped (begin_shutdown), killed after an emergency cleanup (kill_session_owned_now), an
\* XWayland server as soon as it is not the current one (request_process_termination), and
\* never an application.
THEOREM AskedToStop == Spec => []StopsAsked
<1>1. StopInv => StopsAsked
  <2> SUFFICES ASSUME StopInv PROVE StopsAsked
    BY Zenon
  <2>1. Told(sup, xw)
    BY Zenon DEF StopInv, Good
  <2>2. EveryoneTold
    BY Zenon, <2>1 DEF StopInv, Told, EveryoneTold, SessionChildren, SessionOwned
  <2>3. OldServersStopping
    BY Zenon, <2>1 DEF Told, OldServersStopping
  <2> QED BY Zenon, <2>2, <2>3 DEF StopsAsked
<1> QED BY <1>1, StopsThroughout, PTL

\* Processes are stopped in order, TERM, grace period, KILL (advance_shutdown,
\* handle_deadline), and no shell is started once a shutdown was requested or a signal read
\* (maybe_restart_child).
THEOREM StoppedInOrder == Spec => OrderlyStops
<1> DEFINE Kill == \A i \in DOMAIN sup.children \intersect DOMAIN sup'.children :
             sup.children[i].sig # 2 /\ sup'.children[i].sig = 2 =>
               phase' = "failed" \/ (sup.children[i].sig = 1 /\ (graceOver \/ i = xw.term))
           Restart == sup.quiescing \/ ~Running =>
             \A i \in DOMAIN sup'.children \ DOMAIN sup.children : sup'.children[i].kind # "shell"
<1>1. ASSUME GivenBackInv, StopInv, Next PROVE Kill /\ Restart
  <2>1. StopInv' /\ After(sup, sup', Nat) /\ (phase' = "failed" \/ After(sup, sup', Killable))
    BY Zenon, <1>1, StopsStep DEF StopStep
  <2>2. Told(sup, xw) /\ sup \in Supervisor /\ Told(sup', xw') /\ sup' \in Supervisor
    BY Zenon, <1>1, <2>1 DEF StopInv, Good, WellFormed
  <2>3. Kill
    <3> SUFFICES ASSUME NEW i \in DOMAIN sup.children \intersect DOMAIN sup'.children,
                        sup.children[i].sig # 2, sup'.children[i].sig = 2, phase' # "failed"
                 PROVE  sup.children[i].sig = 1 /\ (graceOver \/ i = xw.term)
      BY SMTT(60)
    <3>1. i < sup.nextId /\ i \in Nat /\ sup.nextId \in Nat /\ sup.children[i].sig \in {0, 1, 2}
      BY Zenon, <1>1, <2>2, Entries DEF StopInv, Good, WellFormed
    <3>2. i \in Killable /\ sup'.children[i].kind = sup.children[i].kind
      BY <2>1, <3>1 DEF After
    <3>3. graceOver \/ i = xw.term
      BY Zenon, <3>2 DEF Killable
    <3>4. sup'.children[i].kind # "app"
      BY <2>2 DEF Told
    <3>5. sup.children[i].sig >= 1
      <4>1. CASE i = xw.term
        BY Zenon, <2>2, <4>1 DEF Told
      <4>2. CASE graceOver
        BY Zenon, <1>1, <2>2, <3>2, <3>4, <4>2
        DEF StopInv, Told, SessionChildren, SessionOwned
      <4> QED BY Zenon, <3>3, <4>1, <4>2
    <3> QED BY <3>1, <3>3, <3>5
  <2>4. Restart
    <3>1. ~Running => sup.quiescing
      BY Zenon, <1>1 DEF StopInv
    <3> QED BY Zenon, <2>1, <3>1 DEF After
  <2> QED BY Zenon, <2>3, <2>4
<1>2. GivenBackInv /\ StopInv /\ [Next]_vars => [Kill]_vars /\ [Restart]_vars
  BY Zenon, <1>1
<1>3. Spec => [][Kill]_vars /\ [][Restart]_vars
  BY <1>2, StopsThroughout, PTL DEF Spec
<1> QED BY Zenon, <1>3 DEF OrderlyStops, KillAfterTerm, NoLateRestart

-----------------------------------------------------------------------------
(* The shell that runs is the one the server trusts *)

\* The supervisor's counters are within their bounds.
Sized(s) == s.nextId \in 3..MaxId + 1 /\ s.history \in 0..MaxRestarts

ShellIds(s) == {i \in DOMAIN s.children : s.children[i].kind = "shell"}

\* A development in which no shell is started.
Calm(a, b) == (Sized(a) => Sized(b)) /\ ShellIds(b) \subseteq ShellIds(a)

\* A supervisor that does not change starts no shell.
LEMMA CalmRefl ==
  ASSUME NEW a
  PROVE  Calm(a, a)
BY Zenon DEF Calm

\* Two developments that start no shell make one.
LEMMA CalmTrans ==
  ASSUME NEW a, NEW b, NEW c, Calm(a, b), Calm(b, c)
  PROVE  Calm(a, c)
BY Zenon DEF Calm

\* Every process of the new table was in the old one, of the same kind.
KindsKept(a, b) ==
  \A i \in DOMAIN b.children : i \in DOMAIN a.children /\ b.children[i].kind = a.children[i].kind

\* A table whose processes were all there before, under the same counters, has no new shell.
LEMMA CalmTable ==
  ASSUME NEW a, NEW b, b.nextId = a.nextId, b.history = a.history, KindsKept(a, b)
  PROVE  Calm(a, b)
<1>1. Sized(a) => Sized(b)
  BY Zenon DEF Sized
<1>2. ShellIds(b) \subseteq ShellIds(a)
  BY Zenon DEF ShellIds, KindsKept
<1> QED BY Zenon, <1>1, <1>2 DEF Calm

\* Signalling starts no shell.
LEMMA SignalCalm ==
  ASSUME NEW s \in Supervisor, NEW ids, NEW g \in {1, 2}, NEW r, r = SignalTo(s, ids, g)
  PROVE  /\ Calm(s, r) /\ KindsKept(s, r) /\ r \in Supervisor
         /\ WellFormed(s) => WellFormed(r)
<1>1. r \in Supervisor /\ Flags(s, r) /\ DOMAIN r.children = DOMAIN s.children
  BY SignalPlain
<1>2. KindsKept(s, r)
  BY SignalPlain DEF KindsKept
<1>3. r.history = s.history
  BY Zenon DEF SignalTo, Supervisor
<1>4. WellFormed(s) => WellFormed(r)
  BY Zenon, <1>1 DEF WellFormed, Flags
<1> QED BY Zenon, <1>1, <1>2, <1>3, <1>4, CalmTable DEF Flags

\* The kill signal in particular.
LEMMA KillCalm ==
  ASSUME NEW s, WellFormed(s), NEW ids, NEW r, r = SignalTo(s, ids, 2)
  PROVE  Calm(s, r) /\ WellFormed(r)
<1>1. s \in Supervisor
  BY Zenon DEF WellFormed
<1> QED BY <1>1, SignalCalm

\* A process that exits starts no shell: the restart waits for the reap.
LEMMA ExitCalm ==
  ASSUME NEW s \in Supervisor, NEW ids, NEW ok \in BOOLEAN, NEW r, r = Exit(s, ids, ok)
  PROVE  /\ Calm(s, r) /\ KindsKept(s, r) /\ r \in Supervisor
         /\ WellFormed(s) => WellFormed(r)
<1>1. r \in Supervisor /\ Flags(s, r) /\ DOMAIN r.children = DOMAIN s.children
  BY ExitPlain
<1>2. KindsKept(s, r)
  BY ExitPlain DEF KindsKept
<1>3. r.history = s.history
  BY Zenon DEF Exit, Supervisor
<1>4. WellFormed(s) => WellFormed(r)
  BY Zenon, <1>1 DEF WellFormed, Flags
<1> QED BY Zenon, <1>1, <1>2, <1>3, <1>4, CalmTable DEF Flags

\* Draining the signal descriptor starts no shell.
LEMMA DrainCalm ==
  ASSUME NEW s, WellFormed(s), NEW r, r = DrainSignalFd(s)
  PROVE  Calm(s, r) /\ WellFormed(r) /\ r.children = s.children
<1>1. WellFormed(r) /\ r.children = s.children /\ r.nextId = s.nextId
  BY Zenon, DrainPlain
<1>2. r.history = s.history
  BY Zenon DEF DrainSignalFd, WellFormed, Supervisor
<1>3. Calm(s, r)
  BY Zenon, <1>1, <1>2, CalmTable DEF KindsKept
<1> QED BY Zenon, <1>1, <1>3

\* A reap that restarts nothing only forgets the exited; one that restarts the shell adds it,
\* within the guard's limit.
LEMMA ReapCalm ==
  ASSUME NEW s, WellFormed(s), NEW spawns \in BOOLEAN, NEW r, r = ReapExited(s, spawns)
  PROVE  /\ ~Restarts(s, spawns) => Calm(s, r)
         /\ Restarts(s, spawns) => /\ Sized(s) => Sized(r)
                                   /\ ShellIds(r) \subseteq (ShellIds(s) \ Exited(s)) \union {s.nextId}
         /\ ~Restarts(s, spawns) => ShellIds(r) = ShellIds(s) \ Exited(s)
         /\ WellFormed(r)
<1> DEFINE D == DOMAIN s.children \ Exited(s)
           c == [i \in D |-> s.children[i]]
           kept == [s EXCEPT !.children = c]
           d == [i \in D \union {s.nextId} |-> IF i = s.nextId THEN Child("shell") ELSE c[i]]
           spawned == SpawnInner(kept, "shell")
<1>0. s \in Supervisor /\ s.nextId \in Nat /\ s.history \in Nat
  BY Zenon DEF WellFormed, Supervisor
<1>1. r = IF Restarts(s, spawns) THEN [spawned EXCEPT !.history = @ + 1] ELSE kept
  BY Zenon DEF ReapExited
<1>2. /\ kept.children = c /\ kept.nextId = s.nextId /\ kept.history = s.history
      /\ DOMAIN c = D /\ \A i \in D : c[i] = s.children[i]
  BY Zenon, <1>0 DEF Supervisor
<1>3. WellFormed(r)
  BY Zenon, ReapPlain
<1>4. CASE ~Restarts(s, spawns)
  <2>1. r = kept
    BY Zenon, <1>1, <1>4
  <2>2. Calm(s, r)
    <3> HIDE DEF kept, c, D
    <3>1. D \subseteq DOMAIN s.children
      BY Zenon DEF D
    <3>2. KindsKept(s, kept)
      BY Zenon, <1>2, <3>1 DEF KindsKept
    <3> QED BY Zenon, <1>2, <2>1, <3>2, CalmTable
  <2>3. ShellIds(r) = ShellIds(s) \ Exited(s)
    <3> HIDE DEF kept, c
    <3> QED BY Zenon, <1>2, <2>1 DEF ShellIds
  <2> QED BY Zenon, <1>3, <1>4, <2>2, <2>3
<1>5. CASE Restarts(s, spawns)
  <2>1. r = [spawned EXCEPT !.history = @ + 1]
    BY Zenon, <1>1, <1>5
  <2>2. spawned = [kept EXCEPT !.children = d, !.nextId = s.nextId + 1]
    <3> HIDE DEF D
    <3> QED BY Zenon, <1>0, <1>2 DEF SpawnInner, Supervisor
  <2>3. r.children = d /\ r.nextId = s.nextId + 1 /\ r.history = s.history + 1
    <3>1. spawned.children = d /\ spawned.nextId = s.nextId + 1 /\ spawned.history = s.history
      <4> HIDE DEF d, c
      <4> QED BY Zenon, <1>0, <2>2 DEF Supervisor
    <3>2. DOMAIN spawned = DOMAIN s
      <4> HIDE DEF d, c
      <4> QED BY Zenon, <2>2
    <3>3. "history" \in DOMAIN s /\ "children" \in DOMAIN s /\ "nextId" \in DOMAIN s
      BY Zenon, <1>0 DEF Supervisor
    <3> HIDE DEF d, c, spawned
    <3> QED BY Zenon, <2>1, <3>1, <3>2, <3>3
  <2>4. Sized(s) => Sized(r)
    <3>1. s.history < MaxRestarts /\ s.nextId <= MaxId
      BY Zenon, <1>5 DEF Restarts, CanSpawn
    <3> QED BY <1>0, <2>3, <3>1, SupervisorAssumption DEF Sized
  <2>5. ShellIds(r) \subseteq (ShellIds(s) \ Exited(s)) \union {s.nextId}
    <3>1. \A i \in D : i \in DOMAIN s.children /\ i \notin Exited(s)
      BY Zenon
    <3> HIDE DEF c, D
    <3>2. DOMAIN d = D \union {s.nextId} /\ \A i \in D \ {s.nextId} : d[i] = s.children[i]
      BY Zenon, <1>2
    <3> HIDE DEF d
    <3> QED BY Zenon, <2>3, <3>1, <3>2 DEF ShellIds
  <2> QED BY Zenon, <1>3, <1>5, <2>4, <2>5
<1> QED BY Zenon, <1>4, <1>5

\* A change of the flags alone.
LEMMA FlagCalm ==
  ASSUME NEW s, WellFormed(s), NEW b, NEW r,
         r = [s EXCEPT !.quiescing = TRUE] \/ r = [s EXCEPT !.quiescing = TRUE, !.stop = 1]
           \/ r = [s EXCEPT !.stop = 2] \/ r = [s EXCEPT !.pending = FALSE]
  PROVE  Calm(s, r) /\ WellFormed(r) /\ r.children = s.children
<1>0. s \in Supervisor
  BY Zenon DEF WellFormed
<1>1. /\ r \in Supervisor /\ r.children = s.children /\ r.nextId = s.nextId
      /\ r.history = s.history /\ (r.pending => r.quiescing)
  <2>1. CASE r = [s EXCEPT !.quiescing = TRUE]
    BY Zenon, <1>0, <2>1 DEF Supervisor
  <2>2. CASE r = [s EXCEPT !.quiescing = TRUE, !.stop = 1]
    BY Zenon, <1>0, <2>2 DEF Supervisor
  <2>3. CASE r = [s EXCEPT !.stop = 2]
    BY Zenon, <1>0, <2>3 DEF Supervisor, WellFormed
  <2>4. CASE r = [s EXCEPT !.pending = FALSE]
    BY Zenon, <1>0, <2>4 DEF Supervisor
  <2> QED BY Zenon, <2>1, <2>2, <2>3, <2>4
<1>2. Calm(s, r)
  BY Zenon, <1>1, CalmTable DEF KindsKept
<1> QED BY Zenon, <1>1, <1>2 DEF WellFormed

\* A reap during which nothing may be spawned starts no shell.
LEMMA QuietReapCalm ==
  ASSUME NEW s, WellFormed(s), NEW r, r = ReapExited(s, FALSE)
  PROVE  Calm(s, r) /\ WellFormed(r)
<1> DEFINE no == FALSE
<1>1. r = ReapExited(s, no) /\ ~Restarts(s, no) /\ no \in BOOLEAN
  BY Zenon DEF Restarts
<1> HIDE DEF no
<1> QED BY Zenon, <1>1, ReapCalm

\* drain_signal_fd followed by a reap that restarts nothing.
LEMMA DrainReapCalm ==
  ASSUME NEW s, WellFormed(s), NEW r, r = ReapExited(DrainSignalFd(s), FALSE)
  PROVE  Calm(s, r) /\ WellFormed(r)
<1> DEFINE d == DrainSignalFd(s)
<1>1. Calm(s, d) /\ WellFormed(d)
  BY Zenon, DrainCalm
<1> HIDE DEF d
<1>2. Calm(d, r) /\ WellFormed(r)
  BY Zenon, <1>1, QuietReapCalm DEF d
<1> QED BY Zenon, <1>1, <1>2, CalmTrans

\* kill_session_owned_now restarts nothing.
LEMMA KillSessionCalm ==
  ASSUME NEW s, WellFormed(s), NEW r, r = KillSessionOwnedNow(s)
  PROVE  Calm(s, r)
<1> DEFINE t == [s EXCEPT !.quiescing = TRUE]
           k == SignalTo(t, SessionChildren(s), 2)
<1>1. Calm(s, t) /\ WellFormed(t)
  BY Zenon, FlagCalm
<1>2. r = ReapExited(DrainSignalFd(k), FALSE)
  BY Zenon DEF KillSessionOwnedNow
<1>a. k = SignalTo(t, SessionChildren(s), 2)
  BY Zenon
<1> HIDE DEF t, k
<1>3. Calm(t, k) /\ WellFormed(k)
  BY Zenon, <1>a, <1>1, KillCalm
<1>4. Calm(k, r)
  BY Zenon, <1>2, <1>3, DrainReapCalm
<1> QED BY Zenon, <1>1, <1>3, <1>4, CalmTrans

\* begin_shutdown and advance_shutdown restart nothing.
LEMMA BeginShutdownCalm ==
  ASSUME NEW s, WellFormed(s), NEW r, r = BeginShutdown(s)
  PROVE  Calm(s, r) /\ WellFormed(r)
<1>1. CASE s.stop # 0
  <2>1. r = [s EXCEPT !.quiescing = TRUE]
    BY Zenon, <1>1 DEF BeginShutdown
  <2> QED BY Zenon, <2>1, FlagCalm
<1>2. CASE s.stop = 0
  <2> DEFINE t == [s EXCEPT !.quiescing = TRUE, !.stop = 1]
  <2>1. r = SignalTo(t, SessionChildren(s), 1)
    BY Zenon, <1>2 DEF BeginShutdown
  <2>2. Calm(s, t) /\ WellFormed(t)
    BY Zenon, FlagCalm
  <2> HIDE DEF t
  <2>3. Calm(t, r) /\ WellFormed(r)
    BY Zenon, SignalCalm, <2>1, <2>2 DEF WellFormed
  <2> QED BY Zenon, <2>2, <2>3, CalmTrans
<1> QED BY Zenon, <1>1, <1>2

\* advance_shutdown reaps and kills, and starts no shell.
LEMMA AdvanceShutdownCalm ==
  ASSUME NEW s, WellFormed(s), NEW over, NEW fast, NEW r, r = AdvanceShutdown(s, over, fast)
  PROVE  Calm(s, r)
<1> DEFINE reaped == ReapExited(DrainSignalFd(s), FALSE)
           left == SessionChildren(reaped)
           armed == [reaped EXCEPT !.stop = 2]
           killed == SignalTo(armed, left, 2)
           ids == left \intersect fast
           e == Exit(killed, ids, FALSE)
<1>1. r = reaped \/ r = ReapExited(DrainSignalFd(e), FALSE)
  BY Zenon DEF AdvanceShutdown
<1>2. Calm(s, reaped) /\ WellFormed(reaped)
  BY Zenon, DrainReapCalm
<1> HIDE DEF reaped
<1>3. Calm(reaped, armed) /\ WellFormed(armed)
  BY Zenon, <1>2, FlagCalm
<1>a. killed = SignalTo(armed, left, 2) /\ e = Exit(killed, ids, FALSE)
  BY Zenon
<1> HIDE DEF armed, killed, left, ids, e
<1>4. Calm(armed, killed) /\ WellFormed(killed)
  BY Zenon, <1>a, <1>3, KillCalm
<1>5. Calm(killed, e) /\ WellFormed(e)
  BY Zenon, <1>a, ExitCalm, <1>4 DEF WellFormed
<1>6. r = reaped \/ Calm(e, r)
  BY Zenon, <1>1, <1>5, DrainReapCalm
<1> QED BY Zenon, <1>2, <1>3, <1>4, <1>5, <1>6, CalmTrans

\* What the service asks of the supervisor starts no shell either: it signals, and it spawns
\* XWayland servers.
LEMMA RequestTerminationCalm ==
  ASSUME NEW p, NEW s, s = p.s, WellFormed(s), NEW id, NEW q, q = RequestTermination(p, id)
  PROVE  Calm(s, q.s) /\ WellFormed(q.s)
<1>1. CASE id \notin DOMAIN s.children
  <2>1. q = p
    BY Zenon, <1>1 DEF RequestTermination
  <2> QED BY Zenon, <2>1, CalmRefl
<1>2. CASE id \in DOMAIN s.children
  <2> DEFINE ids == {id}
  <2>1. q.s = SignalTo(s, ids, 1)
    BY Zenon, <1>2 DEF RequestTermination, Pair
  <2> HIDE DEF ids
  <2> QED BY Zenon, SignalCalm, <2>1 DEF WellFormed
<1> QED BY Zenon, <1>1, <1>2

\* Stopping the Xwayland service starts no shell.
LEMMA StopXwaylandCalm ==
  ASSUME NEW p, NEW s, s = p.s, WellFormed(s), NEW q, q = StopXwayland(p)
  PROVE  Calm(s, q.s) /\ WellFormed(q.s)
<1>1. q.s = s \/ q.s = RequestTermination(p, p.x.proc).s
  BY Zenon DEF StopXwayland, Pair
<1> QED BY Zenon, <1>1, CalmRefl, RequestTerminationCalm

\* Failing the generation of the Xwayland service starts no shell.
LEMMA FailGenerationCalm ==
  ASSUME NEW p, NEW s, s = p.s, WellFormed(s), NEW spent, NEW q, q = FailGeneration(p, spent)
  PROVE  Calm(s, q.s) /\ WellFormed(q.s)
<1>1. q.s = RequestTermination(p, p.x.proc).s
  BY Zenon DEF FailGeneration, Pair
<1> QED BY Zenon, <1>1, RequestTerminationCalm

\* What the ready listener spawns is Xwayland, never a shell.
LEMMA ListenerCalm ==
  ASSUME NEW p, NEW s, s = p.s, WellFormed(s), NEW spawns, spawns => CanSpawn(s), NEW spent,
         NEW q, q = ListenerReady(p, spawns, spent)
  PROVE  Calm(s, q.s)
<1>1. CASE ~spawns
  BY Zenon, <1>1, CalmRefl DEF ListenerReady, Pair
<1>2. CASE spawns
  <2> DEFINE D == DOMAIN s.children \union {s.nextId}
             c == [i \in D |-> IF i = s.nextId THEN Child("xwayland") ELSE s.children[i]]
  <2>1. q.s = [s EXCEPT !.children = c, !.nextId = @ + 1]
    BY Zenon, <1>2 DEF ListenerReady, Pair, SpawnInner
  <2>2. s \in Supervisor /\ s.nextId \in Nat /\ s.history \in Nat
    BY Zenon DEF WellFormed, Supervisor
  <2>3. \A i \in D : c[i].kind = "shell" => i \in DOMAIN s.children /\ s.children[i].kind = "shell"
    BY Zenon DEF Child
  <2>4. DOMAIN c = D
    BY Zenon
  <2> HIDE DEF c, D
  <2>5. q.s.children = c /\ q.s.nextId = s.nextId + 1 /\ q.s.history = s.history
    BY Zenon, <2>1, <2>2 DEF Supervisor
  <2>6. ShellIds(q.s) \subseteq ShellIds(s)
    BY Zenon, <2>3, <2>4, <2>5 DEF ShellIds
  <2>7. Sized(s) => Sized(q.s)
    <3>1. s.nextId <= MaxId
      BY Zenon, <1>2 DEF CanSpawn
    <3> QED BY SMTT(60), <2>2, <2>5, <3>1, SupervisorAssumption DEF Sized
  <2> QED BY Zenon, <2>6, <2>7 DEF Calm
<1> QED BY Zenon, <1>1, <1>2

\* The service's deadline starts no shell.
LEMMA DeadlineCalm ==
  ASSUME NEW p, NEW s, s = p.s, WellFormed(s), NEW due, NEW spent,
         NEW q, q = ServiceDeadline(p, due, spent)
  PROVE  Calm(s, q.s)
<1>1. CASE due /\ p.x.state = "Starting"
  <2>1. q = FailGeneration(p, spent)
    BY Zenon, <1>1 DEF ServiceDeadline
  <2> QED BY Zenon, <2>1, FailGenerationCalm
<1>2. CASE ~(due /\ p.x.state = "Starting")
  <2>1. q.s = s
    BY Zenon, <1>2 DEF ServiceDeadline, Pair
  <2> QED BY Zenon, <2>1, CalmRefl
<1> QED BY Zenon, <1>1, <1>2

\* A shell has exited and waits to be reaped.
ShellExited(s) == \E i \in Exited(s) : s.children[i].kind = "shell"

\* kill_managed_now: only an exit of the shell that it finds can start one.
LEMMA KillManagedShell ==
  ASSUME NEW s, WellFormed(s), NEW id, s.children[id].kind # "shell",
         NEW dies \in BOOLEAN, NEW spawns \in BOOLEAN,
         NEW r, r = KillManagedNow(s, id, dies, spawns)
  PROVE  /\ Sized(s) => Sized(r)
         /\ Calm(s, r) \/ ShellExited(s)
<1> DEFINE ids == {id}
           k == SignalTo(s, ids, 2)
           e == IF dies THEN Exit(k, ids, FALSE) ELSE k
           d == DrainSignalFd(e)
<1>0. s \in Supervisor
  BY Zenon DEF WellFormed
<1>1. r = ReapExited(d, spawns)
  BY Zenon DEF KillManagedNow
<1>2. /\ DOMAIN k.children = DOMAIN s.children
      /\ \A i \in DOMAIN s.children : i # id => k.children[i] = s.children[i]
  BY Zenon, <1>0 DEF SignalTo, Supervisor
<1>3. Calm(s, k) /\ WellFormed(k) /\ KindsKept(s, k)
  <2> HIDE DEF ids
  <2> QED BY SignalCalm, <1>0
<1>ids. \A i : i # id => i \notin ids
  BY Zenon
<1> HIDE DEF k, ids
<1>4. /\ Calm(k, e) /\ WellFormed(e) /\ KindsKept(k, e)
      /\ \A i \in DOMAIN e.children : i # id => e.children[i] = k.children[i]
  <2>1. CASE ~dies
    BY Zenon, <1>3, <2>1, CalmRefl DEF KindsKept
  <2>2. CASE dies
    <3>1. k \in Supervisor
      BY Zenon, <1>3 DEF WellFormed
    <3>2. e = Exit(k, ids, FALSE)
      BY Zenon, <2>2
    <3> HIDE DEF e
    <3>3. Calm(k, e) /\ WellFormed(e) /\ KindsKept(k, e)
      BY Zenon, ExitCalm, <1>3, <3>1, <3>2
    <3>5. \A i \in DOMAIN e.children : i # id => e.children[i] = k.children[i]
      BY Zenon, <1>ids, <3>1, <3>2 DEF Exit, Supervisor
    <3> QED BY Zenon, <3>3, <3>5
  <2> QED BY Zenon, <2>1, <2>2
<1> HIDE DEF e
<1>5. Calm(e, d) /\ WellFormed(d) /\ d.children = e.children
  BY Zenon, <1>4, DrainCalm
<1> HIDE DEF d
<1>6. Calm(s, d)
  BY Zenon, <1>3, <1>4, <1>5, CalmTrans
<1>7. (Sized(d) => Sized(r)) /\ (~Restarts(d, spawns) => Calm(d, r))
  BY Zenon, <1>1, <1>5, ReapCalm DEF Calm
<1>8. CASE ~Restarts(d, spawns)
  BY Zenon, <1>6, <1>7, <1>8, CalmTrans DEF Calm
<1>9. CASE Restarts(d, spawns)
  <2>1. PICK i \in Exited(d) : d.children[i].kind = "shell"
    BY Zenon, <1>9 DEF Restarts
  <2>2. i \in DOMAIN e.children /\ ~e.children[i].up /\ e.children[i].kind = "shell"
    BY Zenon, <1>5, <2>1 DEF Exited
  <2>3. i \in DOMAIN s.children /\ s.children[i].kind = "shell"
    BY Zenon, <1>3, <1>4, <2>2 DEF KindsKept
  <2>4. i \in DOMAIN k.children /\ i # id
    BY Zenon, <1>4, <2>2, <2>3 DEF KindsKept
  <2>5. i \in Exited(s)
    BY Zenon, <1>2, <1>4, <2>2, <2>3, <2>4 DEF Exited
  <2> QED BY Zenon, <1>6, <1>7, <2>3, <2>5 DEF Calm, ShellExited
<1> QED BY Zenon, <1>8, <1>9

\* An escalation reaps, so it can start a shell; it does so only for one that has exited.
LEMMA EscalateShell ==
  ASSUME NEW p, NEW s, NEW x, s = p.s, x = p.x, Good(s, x),
         NEW due \in BOOLEAN, NEW dies \in BOOLEAN, NEW spawns \in BOOLEAN,
         NEW q, q = EscalateTermination(p, due, dies, spawns)
  PROVE  /\ Sized(s) => Sized(q.s)
         /\ Calm(s, q.s) \/ (Escalates(p, due) /\ ShellExited(s))
<1>1. CASE Escalates(p, due)
  <2>1. x.term \in DOMAIN s.children /\ due /\ ~x.escalated
    BY Zenon, <1>1 DEF Escalates
  <2>2. WellFormed(s) /\ s.children[x.term].kind = "xwayland" /\ x.term # NoProc
    <3>1. x.term \in Nat \ {0}
      BY Zenon, <2>1, Entries DEF Good, WellFormed
    <3> QED BY Zenon, <2>1, <3>1 DEF Good, Told, NoProc
  <2>3. q.s = KillManagedNow(s, x.term, dies, spawns)
    BY Zenon, <2>1, <2>2 DEF EscalateTermination, Pair
  <2>4. s.children[x.term].kind # "shell"
    BY Zenon, <2>2
  <2> QED BY Zenon, <1>1, <2>2, <2>3, <2>4, KillManagedShell
<1>2. CASE ~Escalates(p, due)
  <2>1. q.s = s
    BY Zenon, <1>2 DEF EscalateTermination, Pair, Escalates
  <2> QED BY Zenon, <2>1, CalmRefl
<1> QED BY Zenon, <1>1, <1>2

\* An event of the Xwayland service starts no shell.
LEMMA DispatchedCalm ==
  ASSUME NEW p, NEW s, s = p.s, WellFormed(s), NEW event, NEW spawns, NEW spent,
         NEW q, q = Dispatched(p, event, spawns, spent)
  PROVE  Calm(s, q.s)
<1>1. CASE event = "listen" /\ p.x.state = "Armed"
  <2> DEFINE can == spawns /\ CanSpawn(p.s)
  <2>1. q = ListenerReady(p, can, spent) /\ (can => CanSpawn(s))
    BY Zenon, <1>1 DEF Dispatched
  <2> HIDE DEF can
  <2> QED BY Zenon, <2>1, ListenerCalm
<1>2. CASE event = "broken" /\ Serving(p.x)
  <2>1. q = FailGeneration(p, spent)
    BY Zenon, <1>2 DEF Dispatched
  <2> QED BY Zenon, <2>1, FailGenerationCalm
<1>3. CASE ~(event = "listen" /\ p.x.state = "Armed") /\ ~(event = "broken" /\ Serving(p.x))
  <2>1. q.s = s
    BY Zenon, <1>3 DEF Dispatched, Pair
  <2> QED BY Zenon, <2>1, CalmRefl
<1> QED BY Zenon, <1>1, <1>2, <1>3

\* The variables beside the supervisor and its service have their types.
RestTyped ==
  /\ captures \in 0..MaxCaptures /\ launches \in 0..MaxLaunches
  /\ flipDue \in BOOLEAN /\ graceOver \in BOOLEAN /\ discarded \in BOOLEAN

\* The inductive invariant: counters within bounds, and a shell is the one the server trusts.
TrustInv ==
  /\ RestTyped /\ Sized(sup) /\ authorized \subseteq Procs
  /\ ~discarded => \A i \in ShellIds(sup) : authorized = {i}

\* A step that starts no shell, or whose reap was not passed on.
LEMMA StepTrusts ==
  ASSUME TrustInv, Sized(sup) => Sized(sup'), Calm(sup, sup') \/ discarded', UNCHANGED authorized,
         RestTyped', discarded => discarded'
  PROVE  TrustInv'
<1>1. ~discarded' => \A i \in ShellIds(sup') : authorized' = {i}
  BY Zenon DEF TrustInv, Calm
<1>2. ShellIds(sup)' = ShellIds(sup')
  BY Zenon DEF ShellIds
<1>3. Sized(sup)' = Sized(sup')
  BY Zenon DEF Sized
<1> QED BY Zenon, <1>1, <1>2, <1>3 DEF TrustInv

\* Stopping the children starts no shell.
LEMMA StopChildrenCalm ==
  ASSUME NEW l, NEW p, NEW s, s = p.s, WellFormed(s), NEW over, NEW fast,
         NEW q, q = StopChildren(l, p, over, fast)
  PROVE  Calm(s, q.s)
<1> DEFINE u == StopXwayland(p)
           v == BeginShutdown(u.s)
<1>1. q.s = AdvanceShutdown(s, over, fast) \/ q.s = AdvanceShutdown(v, over, fast)
  BY Zenon DEF StopChildren, Pair
<1>2. Calm(s, u.s) /\ WellFormed(u.s)
  BY Zenon, StopXwaylandCalm
<1> HIDE DEF u
<1>3. Calm(u.s, v) /\ WellFormed(v)
  BY Zenon, <1>2, BeginShutdownCalm
<1> HIDE DEF v
<1>4. Calm(s, v)
  BY Zenon, <1>2, <1>3, CalmTrans
<1>5. CASE q.s = AdvanceShutdown(s, over, fast)
  BY Zenon, <1>5, AdvanceShutdownCalm
<1>6. CASE q.s = AdvanceShutdown(v, over, fast)
  <2>1. Calm(v, q.s)
    BY Zenon, <1>3, <1>6, AdvanceShutdownCalm
  <2> QED BY Zenon, <1>4, <2>1, CalmTrans
<1> QED BY Zenon, <1>1, <1>5, <1>6

\* Nor does the lifecycle.
LEMMA AdvanceCalm ==
  ASSUME flipDue \in BOOLEAN, NEW l, NEW p, WellFormed(p.s), NEW read, NEW f, Advance(l, p, read, f)
  PROVE  Calm(p.s, sup') /\ flipDue' \in BOOLEAN
<1> PICK fast \in IF graceOver THEN SUBSET SessionChildren(p.s) ELSE {{}},
         restored \in BOOLEAN :
      LET r == AdvanceLifecycle(l, p, read, flipDue, graceOver, fast)
      IN sup' = r.p.s /\ flipDue' = DueAfter(r.l)
  BY Zenon DEF Advance
<1> DEFINE l1 == AdvanceFlip(l, read, flipDue)
           q == StopChildren(l1, p, graceOver, fast)
           r == AdvanceLifecycle(l, p, read, flipDue, graceOver, fast)
<1>1. r.p = p \/ r.p = q
  BY Zenon DEF AdvanceLifecycle
<1>2. sup' = r.p.s /\ flipDue' = DueAfter(r.l)
  BY Zenon
<1> HIDE DEF l1, r
<1>3. Calm(p.s, q.s)
  BY Zenon, StopChildrenCalm
<1> HIDE DEF q
<1>4. Calm(p.s, sup')
  BY Zenon, <1>1, <1>2, <1>3, CalmRefl
<1>5. flipDue' \in BOOLEAN
  BY Zenon, <1>2 DEF DueAfter
<1> QED BY Zenon, <1>4, <1>5

\* A turn that returns early starts no shell.
LEMMA ReturnCalm ==
  ASSUME flipDue \in BOOLEAN, NEW l, NEW p, NEW f, Return(l, p, f)
  PROVE  Calm(p.s, sup') /\ flipDue' \in BOOLEAN
<1>1. sup' = p.s /\ flipDue' = flipDue
  BY Zenon DEF Return
<1> QED BY Zenon, <1>1, CalmRefl

\* A request finds a bounded backlog and settles a turn of it.
LEMMA RequestBacklog ==
  ASSUME NEW q \in Requests
  PROVE  q.captures \in 0..MaxCaptures /\ q.launches \in 0..MaxLaunches
<1> PICK f \in {"none", "pending", "queued"}, c \in 0..MaxCaptures, n \in 0..MaxLaunches :
      q = [life |-> RequestShutdown(life, f # "none"), flip |-> f, captures |-> Less(c),
           launches |-> Less(n)]
  BY DEF Requests
<1>1. q.captures = Less(c) /\ q.launches = Less(n)
  BY Zenon
<1>2. Less(c) \in 0..MaxCaptures /\ Less(n) \in 0..MaxLaunches
  BY RequestsAssumption DEF Less
<1> QED BY Zenon, <1>1, <1>2

\* XWayland's half of a cycle: a shell starts only where an exit of it was discarded.
LEMMA ServedShell ==
  ASSUME StopInv, NEW r \in Served
  PROVE  /\ Sized(sup) => Sized(r.p.s)
         /\ Calm(sup, r.p.s) \/ r.drops
         /\ WellFormed(r.p.s)
<1>0. WellFormed(r.p.s)
  BY Zenon, ServedKeeps DEF Keeps, Good
<1> DEFINE kills == Choice(Escalates(Pair(sup, xw), TRUE))
           dues == Choice(xw.state \in {"Starting", "Backoff"})
           spents == Choice(xw.state = "Armed" \/ Serving(xw))
<1>1. kills \subseteq BOOLEAN
  BY Zenon DEF Choice
<1>a. Served = {ServeXwayland(event, killDue, due, dies, spawns, spent) :
                  event \in Events, killDue \in kills, dies \in kills, spawns \in BOOLEAN,
                  due \in dues, spent \in spents}
  BY DEF Served
<1> HIDE DEF kills, dues, spents
<1>2. PICK event \in Events, killDue \in kills, dies \in kills, spawns \in BOOLEAN,
           due \in dues, spent \in spents :
        r = ServeXwayland(event, killDue, due, dies, spawns, spent)
  BY <1>a
<1> DEFINE p0 == Pair(sup, xw)
           p == Dispatched(p0, event, spawns, spent)
           late == killDue /\ p.x.term = xw.term
           q == EscalateTermination(p, late, dies, spawns)
           d == due /\ q.x.state = xw.state
           w == ServiceDeadline(q, d, spent)
<1>3. r.p = w /\ r.drops = (Escalates(p, late) /\ ShellExited(p.s))
  BY Zenon, <1>2 DEF ServeXwayland, ShellExited
<1>4. sup = p0.s /\ xw = p0.x /\ Good(sup, xw)
  BY Zenon DEF StopInv, Pair
<1> HIDE DEF p0
<1>5. Calm(sup, p.s) /\ Good(p.s, p.x)
  BY Zenon, <1>4, DispatchedCalm, DispatchedKeeps DEF Good, Keeps
<1> HIDE DEF p
<1>6. /\ Sized(p.s) => Sized(q.s)
      /\ Calm(p.s, q.s) \/ (Escalates(p, late) /\ ShellExited(p.s))
  <2>1. late \in BOOLEAN /\ dies \in BOOLEAN
    BY Zenon, <1>1
  <2> HIDE DEF late
  <2> QED BY Zenon, <1>5, <2>1, EscalateShell
<1>7. WellFormed(q.s)
  <2>1. late \in BOOLEAN /\ dies \in BOOLEAN
    BY Zenon, <1>1
  <2> DEFINE K == {p.x.term}
  <2>2. late => p.x.term \in K
    BY Zenon
  <2> HIDE DEF late, K
  <2>3. Keeps(p.s, q.s, q.x, K)
    BY Zenon, <1>5, <2>1, <2>2, EscalateKeeps
  <2> QED BY Zenon, <2>3 DEF Keeps, Good
<1> HIDE DEF q, late
<1>8. Calm(q.s, w.s)
  <2> HIDE DEF d
  <2> QED BY Zenon, <1>7, DeadlineCalm
<1> HIDE DEF w
<1>9. Sized(sup) => Sized(r.p.s)
  BY Zenon, <1>3, <1>5, <1>6, <1>8 DEF Calm
<1>10. Calm(sup, r.p.s) \/ r.drops
  BY Zenon, <1>3, <1>5, <1>6, <1>8, CalmTrans
<1> QED BY Zenon, <1>0, <1>9, <1>10

\* The children branch passes every exit on: the shell that exited loses the trust in the same
\* step in which its successor gets it.
LEMMA ServeChildrenTrusts ==
  ASSUME StopInv, TrustInv, UNCHANGED <<flipDue, graceOver, discarded>>, NEW f, ServeChildren(f)
  PROVE  TrustInv'
<1> DEFINE polled == DrainSignalFd(sup)
           s == TakeSignal(polled)
<1>1. PICK spawns \in BOOLEAN :
        /\ authorized' = TransferAuthorization(s, spawns)
        /\ sup' = ReapExited(s, spawns)
        /\ \/ \E q \in Requests : captures' = q.captures /\ launches' = q.launches
           \/ UNCHANGED <<captures, launches>>
  BY Zenon DEF ServeChildren
<1>2. Calm(sup, polled) /\ WellFormed(polled) /\ polled.children = sup.children
  BY Zenon, DrainCalm DEF StopInv, Good
<1> HIDE DEF polled
<1>3. Calm(polled, s) /\ WellFormed(s) /\ s.children = polled.children
  BY Zenon, <1>2, FlagCalm DEF TakeSignal
<1> HIDE DEF s
<1>4. ShellIds(s) = ShellIds(sup) /\ Sized(s)
  BY Zenon, <1>2, <1>3 DEF ShellIds, Calm, TrustInv
<1>5. RestTyped'
  <2>1. captures' \in 0..MaxCaptures /\ launches' \in 0..MaxLaunches
    BY Zenon, <1>1, RequestBacklog DEF TrustInv, RestTyped
  <2> QED BY Zenon, <2>1 DEF TrustInv, RestTyped
<1> DEFINE gone == {i \in Exited(s) : s.children[i].kind = "shell"}
<1>6. gone = ShellIds(s) \intersect Exited(s)
  BY Zenon DEF ShellIds, Exited
<1>7. authorized' = (authorized \ gone) \union (IF Restarts(s, spawns) THEN {s.nextId} ELSE {})
  BY Zenon, <1>1 DEF TransferAuthorization
<1>8. /\ Sized(sup')
      /\ Restarts(s, spawns) => ShellIds(sup') \subseteq (ShellIds(s) \ Exited(s)) \union {s.nextId}
      /\ ~Restarts(s, spawns) => ShellIds(sup') = ShellIds(s) \ Exited(s)
  BY Zenon, <1>1, <1>3, <1>4, ReapCalm DEF Calm
<1>9. Restarts(s, spawns) => gone # {} /\ s.nextId \in Procs
  <2>1. Restarts(s, spawns) => gone # {} /\ s.nextId <= MaxId
    BY Zenon DEF Restarts, CanSpawn
  <2> HIDE DEF gone
  <2> QED BY <1>4, <2>1, SupervisorAssumption DEF Sized, Procs
<1> HIDE DEF gone
<1>10. authorized' \subseteq Procs
  BY Zenon, <1>7, <1>9 DEF TrustInv
<1>11. ASSUME ~discarded, NEW i \in ShellIds(sup') PROVE authorized' = {i}
  <2>1. \A j \in ShellIds(s) : authorized = {j}
    BY Zenon, <1>4, <1>11 DEF TrustInv
  <2>2. CASE Restarts(s, spawns)
    <3>1. PICK j : j \in ShellIds(s) /\ j \in Exited(s) /\ j \in gone
      BY Zenon, <1>6, <1>9, <2>2
    <3>2. \A k \in ShellIds(s) : k = j
      BY Zenon, <2>1, <3>1
    <3>3. i = s.nextId
      BY Zenon, <1>8, <1>11, <2>2, <3>1, <3>2
    <3>4. authorized \ gone = {}
      BY Zenon, <2>1, <3>1
    <3> QED BY Zenon, <1>7, <2>2, <3>3, <3>4
  <2>3. CASE ~Restarts(s, spawns)
    <3>1. i \in ShellIds(s) /\ i \notin gone
      BY Zenon, <1>6, <1>8, <1>11, <2>3
    <3>2. authorized = {i}
      BY Zenon, <2>1, <3>1
    <3> QED BY Zenon, <1>7, <2>3, <3>1, <3>2
  <2> QED BY Zenon, <2>2, <2>3
<1>12. ~discarded' => \A i \in ShellIds(sup') : authorized' = {i}
  BY Zenon, <1>11
<1>13. ShellIds(sup)' = ShellIds(sup') /\ Sized(sup)' = Sized(sup')
  BY Zenon DEF ShellIds, Sized
<1> QED BY Zenon, <1>5, <1>8, <1>10, <1>12, <1>13 DEF TrustInv

\* The rest of a cycle.
LEMMA FinishTrusts ==
  ASSUME StopInv, TrustInv, Finish
  PROVE  TrustInv'
<1>1. PICK r \in Served :
        /\ discarded' = (discarded \/ r.drops)
        /\ CASE Running -> RunSession(r.p)
             [] ~Running /\ Less(captures) # 0 ->
                  captures' = Less(captures) /\ Return(life, r.p, flip) /\ UNCHANGED launches
             [] OTHER ->
                  captures' = 0 /\ Advance(life, r.p, completed, flip) /\ UNCHANGED launches
  BY Zenon DEF Finish
<1> DEFINE p == r.p
<1>2. (Sized(sup) => Sized(p.s)) /\ (Calm(sup, p.s) \/ r.drops) /\ WellFormed(p.s)
  BY Zenon, ServedShell
<1>3. UNCHANGED <<graceOver, authorized>> /\ flipDue \in BOOLEAN
  BY Zenon DEF Finish, TrustInv, RestTyped
<1>4. ASSUME Calm(p.s, sup'), flipDue' \in BOOLEAN,
             captures' \in 0..MaxCaptures, launches' \in 0..MaxLaunches
      PROVE  TrustInv'
  <2>1. RestTyped'
    BY Zenon, <1>1, <1>3, <1>4 DEF TrustInv, RestTyped
  <2>2. Sized(sup) => Sized(sup')
    BY Zenon, <1>2, <1>4 DEF Calm
  <2>3. Calm(sup, sup') \/ discarded'
    <3> HIDE DEF p
    <3> QED BY Zenon, <1>1, <1>2, <1>4, CalmTrans
  <2> QED BY Zenon, <1>1, <1>3, <2>1, <2>2, <2>3, StepTrusts
<1>5. /\ captures \in 0..MaxCaptures /\ launches \in 0..MaxLaunches
      /\ Less(captures) \in 0..MaxCaptures /\ 0 \in 0..MaxCaptures
  BY RequestsAssumption DEF TrustInv, RestTyped, Less
<1> HIDE DEF p
<1>6. CASE Running
  <2>1. RunSession(p)
    BY Zenon, <1>1, <1>6 DEF p
  <2>2. CASE Return(life, p, flip) /\ UNCHANGED <<captures, launches>>
    BY Zenon, <1>3, <1>4, <1>5, <2>2, ReturnCalm
  <2>3. ASSUME NEW q \in Requests, captures' = q.captures, launches' = q.launches,
               NEW w, w = Pair([p.s EXCEPT !.quiescing = TRUE], p.x),
               Advance(q.life, w, FALSE, q.flip) \/ Return(q.life, w, q.flip)
        PROVE  TrustInv'
    <3> DEFINE t == [p.s EXCEPT !.quiescing = TRUE]
               no == FALSE
    <3>1. Calm(p.s, t) /\ WellFormed(t)
      BY Zenon, <1>2, FlagCalm
    <3>2. w.s = t
      BY Zenon, <2>3 DEF Pair
    <3>3. Advance(q.life, w, no, q.flip) \/ Return(q.life, w, q.flip)
      BY Zenon, <2>3
    <3> HIDE DEF t, no
    <3>4. Calm(w.s, sup') /\ flipDue' \in BOOLEAN
      BY Zenon, <1>3, <3>1, <3>2, <3>3, AdvanceCalm, ReturnCalm
    <3>5. Calm(p.s, sup')
      BY Zenon, <3>1, <3>2, <3>4, CalmTrans
    <3>6. captures' \in 0..MaxCaptures /\ launches' \in 0..MaxLaunches
      BY Zenon, <2>3, RequestBacklog
    <3> QED BY Zenon, <1>4, <3>4, <3>5, <3>6
  <2> QED BY Zenon, <2>1, <2>2, <2>3 DEF RunSession
<1>7. CASE captures' = Less(captures) /\ Return(life, p, flip) /\ UNCHANGED launches
  BY Zenon, <1>3, <1>4, <1>5, <1>7, ReturnCalm
<1>8. CASE captures' = 0 /\ Advance(life, p, completed, flip) /\ UNCHANGED launches
  BY Zenon, <1>2, <1>3, <1>4, <1>5, <1>8, AdvanceCalm
<1> QED BY Zenon, <1>1, <1>6, <1>7, <1>8 DEF p

\* Every step keeps the shell that runs the one the server trusts, as long as the result of no
\* reap was discarded.
LEMMA TrustStep ==
  ASSUME StopInv, TrustInv, [Next]_vars
  PROVE  TrustInv'
<1>0. WellFormed(sup) /\ sup \in Supervisor
  BY Zenon DEF StopInv, Good, WellFormed
<1>a. ASSUME Calm(sup, sup'), UNCHANGED <<authorized, discarded, captures, launches>>,
             flipDue' \in BOOLEAN, graceOver' \in BOOLEAN
      PROVE  TrustInv'
  <2>1. RestTyped'
    BY Zenon, <1>a DEF TrustInv, RestTyped
  <2>2. Sized(sup) => Sized(sup')
    BY Zenon, <1>a DEF Calm
  <2> QED BY Zenon, <1>a, <2>1, <2>2, StepTrusts
<1>b. flipDue \in BOOLEAN /\ graceOver \in BOOLEAN
  BY Zenon DEF TrustInv, RestTyped
<1>1. CASE Wake
  <2>1. UNCHANGED <<flipDue, graceOver, discarded>>
    BY Zenon, <1>1 DEF Wake
  <2>2. CASE sup.fd # {} \/ life.state = "StoppingChildren"
    <3> DEFINE f == IF flip = "queued" THEN "read" ELSE flip
    <3>1. ServeChildren(f)
      BY Zenon, <1>1, <2>2 DEF Wake
    <3> HIDE DEF f
    <3> QED BY Zenon, <2>1, <3>1, ServeChildrenTrusts
  <2>3. CASE ~(sup.fd # {} \/ life.state = "StoppingChildren")
    <3>1. UNCHANGED <<sup, authorized, captures, launches>>
      BY Zenon, <1>1, <2>3 DEF Wake
    <3> QED BY Zenon, <1>a, <1>b, <2>1, <3>1, CalmRefl
  <2> QED BY Zenon, <2>2, <2>3
<1>2. CASE FinishSignalled
  <2> DEFINE p == Pair(sup, xw)
             no == FALSE
  <2>1. p.s = sup
    BY Zenon DEF Pair
  <2>2. Advance(life, p, no, flip) \/ Return(life, p, flip)
    BY Zenon, <1>2 DEF FinishSignalled
  <2>3. UNCHANGED <<captures, launches, graceOver, authorized, discarded>>
    BY Zenon, <1>2 DEF FinishSignalled
  <2> HIDE DEF p, no
  <2>4. Calm(sup, sup') /\ flipDue' \in BOOLEAN
    BY Zenon, <1>0, <1>b, <2>1, <2>2, AdvanceCalm, ReturnCalm
  <2> QED BY Zenon, <1>a, <1>b, <2>3, <2>4
<1>3. CASE EmergencyCleanup
  <2> DEFINE p0 == Pair(sup, xw)
             p == StopXwayland(p0)
  <2>1. sup' = KillSessionOwnedNow(p.s)
    BY Zenon, <1>3 DEF EmergencyCleanup
  <2>2. p0.s = sup
    BY Zenon DEF Pair
  <2> HIDE DEF p0
  <2>3. Calm(sup, p.s) /\ WellFormed(p.s)
    BY Zenon, <1>0, <2>2, StopXwaylandCalm
  <2> HIDE DEF p
  <2>4. Calm(sup, sup')
    BY Zenon, <2>1, <2>3, KillSessionCalm, CalmTrans
  <2>5. UNCHANGED <<flipDue, graceOver, captures, launches, authorized, discarded>>
    BY Zenon, <1>3 DEF EmergencyCleanup
  <2> QED BY Zenon, <1>a, <1>b, <2>4, <2>5
<1>4. ASSUME NEW i \in Procs, ProcessExits(i) PROVE TrustInv'
  <2>1. PICK ok \in {FALSE, sup.children[i].kind = "xwayland"} : sup' = Exit(sup, {i}, ok)
    BY Zenon, <1>4 DEF ProcessExits
  <2>2. ok \in BOOLEAN
    BY ZenonT(60)
  <2> DEFINE ids == {i}
  <2>3. sup' = Exit(sup, ids, ok)
    BY Zenon, <2>1
  <2> HIDE DEF ids
  <2>4. Calm(sup, sup')
    BY Zenon, ExitCalm, <1>0, <2>2, <2>3
  <2>5. UNCHANGED <<flipDue, graceOver, captures, launches, authorized, discarded>>
    BY Zenon, <1>4 DEF ProcessExits, lifeVars, requestVars
  <2> QED BY Zenon, <1>a, <1>b, <2>4, <2>5
<1>5. CASE Terminate
  <2>1. sup'.children = sup.children /\ sup'.nextId = sup.nextId /\ sup'.history = sup.history
    BY Zenon, <1>0, <1>5 DEF Terminate, Supervisor
  <2>2. Calm(sup, sup')
    BY Zenon, <2>1, CalmTable DEF KindsKept
  <2>3. UNCHANGED <<flipDue, graceOver, captures, launches, authorized, discarded>>
    BY Zenon, <1>5 DEF Terminate, lifeVars, requestVars
  <2> QED BY Zenon, <1>a, <1>b, <2>2, <2>3
<1>6. CASE WindowPasses
  <2>1. sup' = [sup EXCEPT !.history = @ - 1] /\ sup.history > 0
    BY Zenon, <1>6 DEF WindowPasses
  <2>2. sup'.children = sup.children /\ sup'.nextId = sup.nextId /\ sup'.history = sup.history - 1
    BY Zenon, <1>0, <2>1 DEF Supervisor
  <2>3. Sized(sup) => Sized(sup')
    BY <2>1, <2>2, SupervisorAssumption DEF Sized
  <2>4. ShellIds(sup') = ShellIds(sup)
    BY Zenon, <2>2 DEF ShellIds
  <2>5. UNCHANGED <<flipDue, graceOver, captures, launches, authorized, discarded>>
    BY Zenon, <1>6 DEF WindowPasses, lifeVars, requestVars
  <2> QED BY Zenon, <1>a, <1>b, <2>3, <2>4, <2>5 DEF Calm
<1>7. CASE FlipCompletes \/ DrainTimeout \/ GraceEnds \/ Ended \/ UNCHANGED vars
  <2>1. UNCHANGED <<sup, captures, launches, authorized, discarded>>
    BY Zenon, <1>7
    DEF FlipCompletes, DrainTimeout, GraceEnds, Ended, requestVars, childVars, vars
  <2>2. flipDue' \in BOOLEAN /\ graceOver' \in BOOLEAN
    BY Zenon, <1>7, <1>b
    DEF FlipCompletes, DrainTimeout, GraceEnds, Ended, lifeVars, vars
  <2> QED BY Zenon, <1>a, <2>1, <2>2, CalmRefl
<1>8. CASE Finish
  BY Zenon, <1>8, FinishTrusts
<1>9. CASE SeatLost
  <2>1. captures \in 0..MaxCaptures /\ captures' = Less(captures)
    BY Zenon, <1>9 DEF SeatLost, TrustInv, RestTyped
  <2>2. captures' \in 0..MaxCaptures
    BY <2>1, RequestsAssumption DEF Less
  <2>3. UNCHANGED <<sup, launches, authorized, discarded, flipDue, graceOver>>
    BY Zenon, <1>9 DEF SeatLost, lifeVars, childVars
  <2>4. RestTyped'
    BY Zenon, <2>2, <2>3 DEF TrustInv, RestTyped
  <2>5. Calm(sup, sup')
    BY Zenon, <2>3, CalmRefl
  <2>6. Sized(sup) => Sized(sup')
    BY Zenon, <2>5 DEF Calm
  <2> QED BY Zenon, <2>3, <2>4, <2>5, <2>6, StepTrusts
<1> QED BY Zenon, <1>1, <1>2, <1>3, <1>4, <1>5, <1>6, <1>7, <1>8, <1>9 DEF Next

\* So it is at the start: the first shell is spawned and authorized together.
LEMMA InitTrusts ==
  ASSUME Init
  PROVE  TrustInv
<1> DEFINE c == [i \in {1, 2} |-> Child(IF i = 1 THEN "shell" ELSE "app")]
<1>1. sup.children = c /\ sup.nextId = 3 /\ sup.history = 0
  BY Zenon DEF Init, NewSupervisor
<1>2. ShellIds(sup) \subseteq {1}
  <2>1. DOMAIN c = {1, 2} /\ c[2].kind = "app"
    BY DEF Child
  <2> HIDE DEF c
  <2> QED BY Zenon, <1>1, <2>1 DEF ShellIds
<1>3. RestTyped
  <2>1. 0 \in 0..MaxCaptures /\ 0 \in 0..MaxLaunches
    BY RequestsAssumption
  <2> QED BY Zenon, <2>1 DEF Init, RestTyped
<1>4. Sized(sup) /\ {1} \subseteq Procs
  BY <1>1, SupervisorAssumption DEF Sized, Procs
<1>5. authorized = {1}
  BY Zenon DEF Init
<1>6. \A i \in ShellIds(sup) : authorized = {i}
  BY Zenon, <1>2, <1>5
<1> QED BY Zenon, <1>3, <1>4, <1>5, <1>6 DEF TrustInv

\* The shell that runs is the one the server trusts (transfer_astrea_shell_authorization), as long
\* as its exits reach reap_supervised_children, and every counter stays within its bound: the
\* restarts of the shell within the guard's limit (maybe_restart_child).
THEOREM ShellsTrusted == Spec => []SupervisorInv
<1>1. Init => TrustInv
  BY Zenon, InitTrusts
<1>2. StopInv /\ TrustInv /\ [Next]_vars => TrustInv'
  BY Zenon, TrustStep
<1>3. GivenBackInv /\ StopInv /\ TrustInv => SupervisorInv
  <2> SUFFICES ASSUME GivenBackInv, StopInv, TrustInv PROVE SupervisorInv
    BY Zenon
  <2>1. ShellTrusted
    BY Zenon DEF TrustInv, ShellTrusted, ShellIds
  <2>2. sup \in Supervisor /\ Told(sup, xw) /\ xw \in Service
        /\ \A i \in DOMAIN sup.children : i < sup.nextId
    BY Zenon DEF StopInv, Good, WellFormed, Told
  <2>3. DOMAIN sup.children \subseteq Procs /\ {xw.proc, xw.term} \subseteq Procs \union {NoProc}
    <3>1. /\ DOMAIN sup.children \subseteq Nat \ {0} /\ xw.proc \in Nat /\ xw.term \in Nat
          /\ xw.proc < sup.nextId /\ xw.term < sup.nextId
      BY Zenon, <2>2, Entries DEF Told, Service
    <3>2. sup.nextId \in 3..MaxId + 1
      BY Zenon DEF TrustInv, Sized
    <3> QED BY SMTT(60), <2>2, <3>1, <3>2, SupervisorAssumption DEF Procs, NoProc
  <2>4. /\ {sup.quiescing, sup.pending, xw.escalated} \subseteq BOOLEAN
        /\ xw.state \in {"Disabled", "Armed", "Starting", "Running", "Backoff", "Failed"}
        /\ sup.fd \subseteq {"CHLD", "TERM"}
    BY Zenon, <2>2 DEF Supervisor, Service
  <2>5. sup.stop \in 0..2
    BY <2>2 DEF Supervisor
  <2>6. life \in [state : {States[k] : k \in 1..6}, expected : BOOLEAN, childStop : BOOLEAN,
                  outcome : {"none", "idle", "confirmed", "forced"}]
    <3>1. Early \union Late \subseteq {States[k] : k \in 1..6}
      <4>1. /\ 1 \in 1..6 /\ 2 \in 1..6 /\ 3 \in 1..6 /\ 4 \in 1..6 /\ 5 \in 1..6 /\ 6 \in 1..6
        OBVIOUS
      <4>2. /\ States[1] = "Running" /\ States[2] = "Requested" /\ States[3] = "Draining"
            /\ States[4] = "StoppingChildren" /\ States[5] = "Restoring" /\ States[6] = "Complete"
        BY Zenon DEF States
      <4> QED BY Zenon, <4>1, <4>2 DEF Early, Late
    <3>2. life \in Life
      BY Zenon DEF GivenBackInv, FlipKnown
    <3> QED BY Zenon, <3>1, <3>2 DEF Life
  <2>7. phase \in Phases /\ flip \in {"none", "pending", "queued", "read"}
        /\ {completed, flipDue, graceOver, discarded} \subseteq BOOLEAN
    BY Zenon DEF GivenBackInv, TrustInv, RestTyped
  <2>8. ShutdownTypeOK
    BY Zenon, <2>3, <2>4, <2>5, <2>6, <2>7 DEF ShutdownTypeOK, TrustInv, RestTyped, Sized
  <2> QED BY Zenon, <2>1, <2>8 DEF SupervisorInv
<1> QED BY <1>1, <1>2, <1>3, StopsThroughout, PTL DEF Spec
===============================================================================
