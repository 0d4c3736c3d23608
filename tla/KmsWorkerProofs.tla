-------------------------- MODULE KmsWorkerProofs --------------------------
(***************************************************************************)
(* Type correctness and the safety theorems about KmsWorker, for every     *)
(* bound, every set of shapes and every set of faults.                     *)
(***************************************************************************)
EXTENDS KmsWorker, TLAPS

(***************************************************************************)
(* Counting the places of a commit or a sidecar: the six kinds of places   *)
(* of a bundle are the queue, the worker's hands, the event being          *)
(* published, the retained jobs, the compositor's hands and the events     *)
(* published; a sidecar that is not attached has four.                     *)
(***************************************************************************)

\* What a step may do to them: it moves the bundles, or the sidecars, of a place
\* all together.
Nums(S) == {b.n : b \in S}
Subs(S) == {b.s : b \in S}

Flow(Q, H, O, F, M, R, Q2, H2, O2, F2, M2, R2) ==
    \/ Q2 = Q /\ H2 = H /\ O2 = O /\ F2 = F /\ M2 = M /\ R2 = R
    \/ Q2 = Q /\ H2 = H /\ O2 = {} /\ F2 = F /\ M2 = M /\ R2 = R \cup O
    \/ Q2 = {} /\ H2 = H /\ O2 = O /\ F2 = F \cup Q /\ M2 = M /\ R2 = R
    \/ O = {} /\ Q2 = {} /\ H2 = {} /\ O2 = H \cup Q /\ F2 = F /\ M2 = M /\ R2 = R
    \/ O = {} /\ Q2 = {} /\ H2 = H /\ O2 = Q /\ F2 = F /\ M2 = M /\ R2 = R
    \/ H = {} /\ Q2 = {} /\ H2 = Q /\ O2 = O /\ F2 = F /\ M2 = M /\ R2 = R
    \/ O = {} /\ Q2 = Q /\ H2 = {} /\ O2 = H /\ F2 = F /\ M2 = M /\ R2 = R
    \/ Q2 = Q /\ H2 = {} /\ O2 = O /\ F2 = F \cup H /\ M2 = M /\ R2 = R
    \/ Q2 = {} /\ H2 = H /\ O2 = O /\ F2 = F /\ M2 = M \cup Q /\ R2 = R
    \/ Q2 = Q /\ H2 = H /\ O2 = O /\ F2 = F /\ M2 = M \cup R /\ R2 = {}
    \/ Q2 = Q /\ H2 = H /\ O2 = O /\ F2 = {} /\ M2 = M \cup R \cup F /\ R2 = {}

LooseFlow(X, O, M, R, X2, O2, M2, R2) ==
    \/ X2 = X /\ O2 = O /\ M2 = M /\ R2 = R
    \/ X2 = X /\ O2 = {} /\ M2 = M /\ R2 = R \cup O
    \/ O = {} /\ X2 = {} /\ O2 = X /\ M2 = M /\ R2 = R
    \/ X2 = {} /\ O2 = O /\ M2 = M \cup X /\ R2 = R
    \/ X2 = X /\ O2 = O /\ M2 = M \cup R /\ R2 = {}
    \/ X2 = {} /\ O2 = O /\ M2 = M \cup R \cup X /\ R2 = {}
    \/ X2 = {} /\ O2 = O /\ M2 = M /\ R2 = R \cup X

\* In how many of these sets a token is.
In(t, S) == IF t \in S THEN 1 ELSE 0
Held(Q, H, O, F, M, R, t) ==
    In(t, Q) + In(t, H) + In(t, O) + In(t, F) + In(t, M) + In(t, R)
Loose(X, O, M, R, t) == In(t, X) + In(t, O) + In(t, M) + In(t, R)

\* A set counts for 0 or 1, the empty set for 0, a disjoint union for the sum.
LEMMA InFacts ==
  ASSUME NEW t, NEW S, NEW T
  PROVE /\ In(t, S) \in {0, 1} /\ In(t, {}) = 0
        /\ In(t, S) + In(t, T) <= 1 => In(t, S \cup T) = In(t, S) + In(t, T)
BY DEF In

\* Disjoint sets are counted together.
LEMMA InUnion ==
  ASSUME NEW t, NEW S, NEW T, In(t, S) + In(t, T) <= 1
  PROVE In(t, S \cup T) = In(t, S) + In(t, T)
BY DEF In

\* The bundle flows keep the number of places of a token that is in one at most.
LEMMA FlowKeeps ==
  ASSUME NEW Q, NEW H, NEW O, NEW F, NEW M, NEW R, NEW Q2, NEW H2, NEW O2, NEW F2, NEW M2, NEW R2,
         Flow(Q, H, O, F, M, R, Q2, H2, O2, F2, M2, R2), NEW t, Held(Q, H, O, F, M, R, t) <= 1
  PROVE Held(Q2, H2, O2, F2, M2, R2, t) = Held(Q, H, O, F, M, R, t)
<1>1. /\ In(t, Q) \in {0, 1} /\ In(t, H) \in {0, 1} /\ In(t, O) \in {0, 1}
      /\ In(t, F) \in {0, 1} /\ In(t, M) \in {0, 1} /\ In(t, R) \in {0, 1} /\ In(t, {}) = 0
  BY Zenon, InFacts
<1>2. In(t, Q) + In(t, H) + In(t, O) + In(t, F) + In(t, M) + In(t, R) <= 1 BY Zenon DEF Held
<1>4. /\ In(t, R \cup O) = In(t, R) + In(t, O) /\ In(t, F \cup Q) = In(t, F) + In(t, Q)
      /\ In(t, H \cup Q) = In(t, H) + In(t, Q)
  BY <1>2 DEF In
<1>5. /\ In(t, F \cup H) = In(t, F) + In(t, H)
      /\ In(t, M \cup Q) = In(t, M) + In(t, Q) /\ In(t, M \cup R) = In(t, M) + In(t, R)
  BY <1>2 DEF In
<1>6. In(t, M \cup R \cup F) = In(t, M) + In(t, R) + In(t, F) BY <1>2 DEF In
<1> DEFINE q == In(t, Q)
           h == In(t, H)
           o == In(t, O)
           f == In(t, F)
           m == In(t, M)
           r == In(t, R)
<1>7. \/ Held(Q2, H2, O2, F2, M2, R2, t) = q + h + o + f + m + r
      \/ Held(Q2, H2, O2, F2, M2, R2, t) = q + h + 0 + f + m + (r + o)
      \/ Held(Q2, H2, O2, F2, M2, R2, t) = 0 + h + o + (f + q) + m + r
      \/ o = 0 /\ Held(Q2, H2, O2, F2, M2, R2, t) = 0 + 0 + (h + q) + f + m + r
      \/ o = 0 /\ Held(Q2, H2, O2, F2, M2, R2, t) = 0 + h + q + f + m + r
      \/ h = 0 /\ Held(Q2, H2, O2, F2, M2, R2, t) = 0 + q + o + f + m + r
      \/ o = 0 /\ Held(Q2, H2, O2, F2, M2, R2, t) = q + 0 + h + f + m + r
      \/ Held(Q2, H2, O2, F2, M2, R2, t) = q + 0 + o + (f + h) + m + r
      \/ Held(Q2, H2, O2, F2, M2, R2, t) = 0 + h + o + f + (m + q) + r
      \/ Held(Q2, H2, O2, F2, M2, R2, t) = q + h + o + f + (m + r) + 0
      \/ Held(Q2, H2, O2, F2, M2, R2, t) = q + h + o + 0 + (m + r + f) + 0
  BY Zenon, <1>1, <1>4, <1>5, <1>6 DEF Flow, Held
<1>8. /\ q \in {0, 1} /\ h \in {0, 1} /\ o \in {0, 1} /\ f \in {0, 1} /\ m \in {0, 1} /\ r \in {0, 1}
  BY Zenon, <1>1
<1>9. Held(Q, H, O, F, M, R, t) = q + h + o + f + m + r BY Zenon DEF Held
<1> HIDE DEF q, h, o, f, m, r
<1> QED BY <1>7, <1>8, <1>9

\* So do the flows of the sidecars that are not attached.
LEMMA LooseKeeps ==
  ASSUME NEW X, NEW O, NEW M, NEW R, NEW X2, NEW O2, NEW M2, NEW R2,
         LooseFlow(X, O, M, R, X2, O2, M2, R2), NEW t, Loose(X, O, M, R, t) <= 1
  PROVE Loose(X2, O2, M2, R2, t) = Loose(X, O, M, R, t)
<1>1. /\ In(t, X) \in {0, 1} /\ In(t, O) \in {0, 1} /\ In(t, M) \in {0, 1} /\ In(t, R) \in {0, 1}
      /\ In(t, {}) = 0
  BY Zenon, InFacts
<1>2. In(t, X) + In(t, O) + In(t, M) + In(t, R) <= 1 BY Zenon DEF Loose
<1>4. /\ In(t, R \cup O) = In(t, R) + In(t, O) /\ In(t, M \cup X) = In(t, M) + In(t, X)
      /\ In(t, M \cup R) = In(t, M) + In(t, R) /\ In(t, R \cup X) = In(t, R) + In(t, X)
  BY <1>2 DEF In
<1>6. In(t, M \cup R \cup X) = In(t, M) + In(t, R) + In(t, X) BY <1>2 DEF In
<1> DEFINE x == In(t, X)
           o == In(t, O)
           m == In(t, M)
           r == In(t, R)
<1>7. \/ Loose(X2, O2, M2, R2, t) = x + o + m + r
      \/ Loose(X2, O2, M2, R2, t) = x + 0 + m + (r + o)
      \/ o = 0 /\ Loose(X2, O2, M2, R2, t) = 0 + x + m + r
      \/ Loose(X2, O2, M2, R2, t) = 0 + o + (m + x) + r
      \/ Loose(X2, O2, M2, R2, t) = x + o + (m + r) + 0
      \/ Loose(X2, O2, M2, R2, t) = 0 + o + (m + r + x) + 0
      \/ Loose(X2, O2, M2, R2, t) = 0 + o + m + (r + x)
  BY Zenon, <1>1, <1>4, <1>6 DEF LooseFlow, Loose
<1>8. x \in {0, 1} /\ o \in {0, 1} /\ m \in {0, 1} /\ r \in {0, 1} BY Zenon, <1>1
<1>9. Loose(X, O, M, R, t) = x + o + m + r BY Zenon DEF Loose
<1> HIDE DEF x, o, m, r
<1> QED BY <1>7, <1>8, <1>9

\* The numbers of a set of bundles, and of their sidecars.
LEMMA NumsUnion ==
  ASSUME NEW S, NEW T
  PROVE /\ Nums(S \cup T) = Nums(S) \cup Nums(T) /\ Nums({}) = {}
        /\ Subs(S \cup T) = Subs(S) \cup Subs(T) /\ Subs({}) = {}
<1>1. Nums(S \cup T) = Nums(S) \cup Nums(T) BY Zenon DEF Nums
<1>2. Subs(S \cup T) = Subs(S) \cup Subs(T) BY Zenon DEF Subs
<1>3. Nums({}) = {} /\ Subs({}) = {} BY Zenon DEF Nums, Subs
<1> QED BY Zenon, <1>1, <1>2, <1>3

\* A flow of bundles is a flow of commits and a flow of attached sidecars.
LEMMA FlowImage ==
  ASSUME NEW Q, NEW H, NEW O, NEW F, NEW M, NEW R, NEW Q2, NEW H2, NEW O2, NEW F2, NEW M2, NEW R2,
         Flow(Q, H, O, F, M, R, Q2, H2, O2, F2, M2, R2)
  PROVE /\ Flow(Nums(Q), Nums(H), Nums(O), Nums(F), Nums(M), Nums(R),
                Nums(Q2), Nums(H2), Nums(O2), Nums(F2), Nums(M2), Nums(R2))
        /\ Flow(Subs(Q), Subs(H), Subs(O), Subs(F), Subs(M), Subs(R),
                Subs(Q2), Subs(H2), Subs(O2), Subs(F2), Subs(M2), Subs(R2))
<1>1. \A S, T : Nums(S \cup T) = Nums(S) \cup Nums(T) /\ Subs(S \cup T) = Subs(S) \cup Subs(T)
  BY Zenon, NumsUnion
<1>2. Nums({}) = {} /\ Subs({}) = {} BY Zenon, NumsUnion
<1>3. /\ Nums(R \cup O) = Nums(R) \cup Nums(O) /\ Nums(F \cup Q) = Nums(F) \cup Nums(Q)
      /\ Nums(H \cup Q) = Nums(H) \cup Nums(Q) /\ Nums(F \cup H) = Nums(F) \cup Nums(H)
      /\ Nums(M \cup Q) = Nums(M) \cup Nums(Q) /\ Nums(M \cup R) = Nums(M) \cup Nums(R)
      /\ Nums(M \cup R \cup F) = Nums(M) \cup Nums(R) \cup Nums(F)
  <2>1. Nums(M \cup R \cup F) = Nums(M \cup R) \cup Nums(F) BY Zenon, <1>1
  <2>2. Nums(M \cup R) = Nums(M) \cup Nums(R) BY Zenon, <1>1
  <2>3. /\ Nums(R \cup O) = Nums(R) \cup Nums(O) /\ Nums(F \cup Q) = Nums(F) \cup Nums(Q)
        /\ Nums(H \cup Q) = Nums(H) \cup Nums(Q)
    BY Zenon, <1>1
  <2>4. Nums(F \cup H) = Nums(F) \cup Nums(H) /\ Nums(M \cup Q) = Nums(M) \cup Nums(Q) BY Zenon, <1>1
  <2> QED BY Zenon, <2>1, <2>2, <2>3, <2>4
<1>4. /\ Subs(R \cup O) = Subs(R) \cup Subs(O) /\ Subs(F \cup Q) = Subs(F) \cup Subs(Q)
      /\ Subs(H \cup Q) = Subs(H) \cup Subs(Q) /\ Subs(F \cup H) = Subs(F) \cup Subs(H)
      /\ Subs(M \cup Q) = Subs(M) \cup Subs(Q) /\ Subs(M \cup R) = Subs(M) \cup Subs(R)
      /\ Subs(M \cup R \cup F) = Subs(M) \cup Subs(R) \cup Subs(F)
  <2>1. Subs(M \cup R \cup F) = Subs(M \cup R) \cup Subs(F) BY Zenon, <1>1
  <2>2. Subs(M \cup R) = Subs(M) \cup Subs(R) BY Zenon, <1>1
  <2>3. /\ Subs(R \cup O) = Subs(R) \cup Subs(O) /\ Subs(F \cup Q) = Subs(F) \cup Subs(Q)
        /\ Subs(H \cup Q) = Subs(H) \cup Subs(Q)
    BY Zenon, <1>1
  <2>4. Subs(F \cup H) = Subs(F) \cup Subs(H) /\ Subs(M \cup Q) = Subs(M) \cup Subs(Q) BY Zenon, <1>1
  <2> QED BY Zenon, <2>1, <2>2, <2>3, <2>4
<1>5. Flow(Nums(Q), Nums(H), Nums(O), Nums(F), Nums(M), Nums(R),
           Nums(Q2), Nums(H2), Nums(O2), Nums(F2), Nums(M2), Nums(R2))
  BY Zenon, <1>2, <1>3 DEF Flow
<1>6. Flow(Subs(Q), Subs(H), Subs(O), Subs(F), Subs(M), Subs(R),
           Subs(Q2), Subs(H2), Subs(O2), Subs(F2), Subs(M2), Subs(R2))
  BY Zenon, <1>2, <1>4 DEF Flow
<1> QED BY Zenon, <1>5, <1>6

\* c is the concatenation of a and b, sequences of elements of S.
Chained(S, a, b, c) ==
    /\ c \in Seq(S) /\ Len(c) = Len(a) + Len(b) /\ DOMAIN c = 1..(Len(a) + Len(b))
    /\ \A i \in 1..Len(a) : c[i] = a[i]
    /\ \A i \in 1..Len(b) : c[Len(a) + i] = b[i]

\* What the concatenation of two sequences holds, and where.
LEMMA Concatenated == ASSUME NEW S, NEW a \in Seq(S), NEW b \in Seq(S) PROVE Chained(S, a, b, a \o b)
<1>1. a \o b \in Seq(S) /\ Len(a \o b) = Len(a) + Len(b) OBVIOUS
<1>2. \A i \in 1..Len(a) : (a \o b)[i] = a[i] OBVIOUS
<1>3. \A i \in 1..Len(b) : (a \o b)[Len(a) + i] = b[i] OBVIOUS
<1>4. DOMAIN (a \o b) = 1..(Len(a) + Len(b)) BY <1>1
<1> QED BY Zenon, <1>1, <1>2, <1>3, <1>4 DEF Chained

\* D is E with the last element, n + 1, spread over a row that holds it once.
Spread(n, len, D, E) ==
    /\ D \in SUBSET (1..(n + len)) /\ E \in SUBSET (1..(n + 1))
    /\ \A k \in 1..n : k \in D <=> k \in E
    /\ (n + 1) \in E <=> \E i \in 1..len : (n + i) \in D
    /\ \A i, k \in 1..len : (n + i) \in D /\ (n + k) \in D => i = k
AsLarge(D, E) == (E = {} => D = {}) /\ ((\E x : E = {x}) => \E p : D = {p})

\* D, the places of a token among n single ones and a row of len more, is as
\* large as E, its places when the row counts as one and holds it once at most.
LEMMA OnePlace ==
  ASSUME NEW n \in Nat, NEW len \in Nat, NEW D, NEW E, Spread(n, len, D, E)
  PROVE AsLarge(D, E)
<1>0. /\ D \in SUBSET (1..(n + len)) /\ E \in SUBSET (1..(n + 1))
      /\ \A k \in 1..n : k \in D <=> k \in E
      /\ (n + 1) \in E <=> \E i \in 1..len : (n + i) \in D
      /\ \A i, k \in 1..len : (n + i) \in D /\ (n + k) \in D => i = k
  BY Zenon DEF Spread
<1>1. \A k \in D : k \in 1..n \/ \E i \in 1..len : k = n + i
  <2> SUFFICES ASSUME NEW k \in D, k \notin 1..n PROVE \E i \in 1..len : k = n + i OBVIOUS
  <2>1. k \in 1..(n + len) BY Zenon, <1>0
  <2>2. k - n \in 1..len /\ k = n + (k - n) BY <2>1
  <2> QED BY Zenon, <2>2
<1>2. E = {} => D = {} BY Zenon, <1>0, <1>1
<1>3. ASSUME NEW x, E = {x} PROVE \E p : D = {p}
  <2>1. CASE x = n + 1
    <3>1. PICK i \in 1..len : (n + i) \in D BY Zenon, <1>0, <1>3, <2>1
    <3>2. \A k \in 1..n : k # n + 1 OBVIOUS
    <3>3. ASSUME NEW k \in D PROVE k = n + i
      <4>1. k \notin 1..n BY Zenon, <1>0, <1>3, <2>1, <3>2
      <4>2. PICK l \in 1..len : k = n + l BY Zenon, <1>1, <4>1
      <4>3. l = i BY Zenon, <1>0, <3>1, <4>2
      <4> QED BY Zenon, <4>2, <4>3
    <3>4. D = {n + i} BY Zenon, <3>1, <3>3
    <3> QED BY Zenon, <3>4
  <2>2. CASE x # n + 1
    <3>1. x \in 1..(n + 1) BY Zenon, <1>0, <1>3
    <3>2. x \in 1..n BY <2>2, <3>1
    <3>3. ASSUME NEW k \in D PROVE k = x
      <4>1. (n + 1) \notin E BY Zenon, <1>3, <2>2
      <4>2. k \in 1..n BY Zenon, <1>0, <1>1, <4>1
      <4> QED BY Zenon, <1>0, <1>3, <4>2
    <3>4. x \in D BY Zenon, <1>0, <1>3, <3>2
    <3>5. D = {x} BY Zenon, <3>3, <3>4
    <3> QED BY Zenon, <3>5
  <2> QED BY Zenon, <2>1, <2>2
<1> QED BY Zenon, <1>2, <1>3 DEF AsLarge

\* A set of one element has cardinality one.
LEMMA Singleton == ASSUME NEW p PROVE Cardinality({p}) = 1
<1> DEFINE S == {p}
           Fn(CS) == [T \in SUBSET S |-> IF T = {} THEN 0 ELSE 1 + CS[T \ {CHOOSE x : x \in T}]]
           CS == CHOOSE CS : CS = Fn(CS)
           g == [T \in SUBSET S |-> IF T = {} THEN 0 ELSE 1]
<1>1. Cardinality(S) = CS[S] BY DEF Cardinality
<1>2. SUBSET S = {{}, S} /\ {} # S OBVIOUS
<1>3. (CHOOSE x : x \in S) = p
  <2>1. \E x : x \in S OBVIOUS
  <2>2. (CHOOSE x : x \in S) \in S BY Zenon, <2>1
  <2> QED BY <2>2
<1>4. S \ {CHOOSE x : x \in S} = {} BY <1>3
<1>5. g = Fn(g)
  <2>1. g[{}] = 0 BY <1>2
  <2>2. \A T \in SUBSET S : (IF T = {} THEN 0 ELSE 1) = IF T = {} THEN 0 ELSE 1 + g[T \ {CHOOSE x : x \in T}]
    <3> HIDE DEF g
    <3>1. 1 = 1 + g[S \ {CHOOSE x : x \in S}] BY <1>4, <2>1
    <3> HIDE DEF S
    <3> QED BY Zenon, <1>2, <3>1
  <2> QED BY Zenon, <2>2
<1>6. CS = Fn(CS)
  <2>1. \E f : f = Fn(f) BY Zenon, <1>5
  <2> HIDE DEF Fn
  <2> QED BY Zenon, <2>1
<1> HIDE DEF CS
<1>7. \A T \in SUBSET S : CS[T] = IF T = {} THEN 0 ELSE 1 + CS[T \ {CHOOSE x : x \in T}] BY Zenon, <1>6
<1>8. CS[{}] = 0 BY Zenon, <1>2, <1>7
<1>9. CS[S] = 1 + CS[S \ {CHOOSE x : x \in S}]
  <2> HIDE DEF S
  <2> QED BY Zenon, <1>2, <1>7
<1>10. CS[S] = 1 + CS[{}] BY Zenon, <1>4, <1>9
<1> QED BY <1>1, <1>8, <1>10

\* The kinds of places that hold a token.
HeldKinds(Q, H, O, F, M, R, t) ==
    {k \in 1..6 : \/ (k = 1 /\ t \in Q) \/ (k = 2 /\ t \in H) \/ (k = 3 /\ t \in O)
                  \/ (k = 4 /\ t \in F) \/ (k = 5 /\ t \in M) \/ (k = 6 /\ t \in R)}
LooseKinds(X, O, M, R, t) ==
    {k \in 1..4 : \/ (k = 1 /\ t \in X) \/ (k = 2 /\ t \in O) \/ (k = 3 /\ t \in M) \/ (k = 4 /\ t \in R)}

\* A token counted once is in one kind of places, one not counted in none.
LEMMA HeldOnce ==
  ASSUME NEW Q, NEW H, NEW O, NEW F, NEW M, NEW R, NEW t
  PROVE /\ Held(Q, H, O, F, M, R, t) = 0 => HeldKinds(Q, H, O, F, M, R, t) = {}
        /\ Held(Q, H, O, F, M, R, t) = 1 => \E x : HeldKinds(Q, H, O, F, M, R, t) = {x}
<1> DEFINE q == In(t, Q)
           h == In(t, H)
           o == In(t, O)
           f == In(t, F)
           m == In(t, M)
           r == In(t, R)
           K == HeldKinds(Q, H, O, F, M, R, t)
<1>1. /\ q \in {0, 1} /\ h \in {0, 1} /\ o \in {0, 1} /\ f \in {0, 1} /\ m \in {0, 1} /\ r \in {0, 1}
      /\ t \in Q <=> q = 1
      /\ t \in H <=> h = 1
      /\ t \in O <=> o = 1
      /\ t \in F <=> f = 1
      /\ t \in M <=> m = 1
      /\ t \in R <=> r = 1
  BY DEF In
<1>2. Held(Q, H, O, F, M, R, t) = q + h + o + f + m + r BY Zenon DEF Held
<1>3. \A k : k \in K <=> \/ (k = 1 /\ q = 1) \/ (k = 2 /\ h = 1) \/ (k = 3 /\ o = 1)
                         \/ (k = 4 /\ f = 1) \/ (k = 5 /\ m = 1) \/ (k = 6 /\ r = 1)
  <2>1. {1, 2, 3, 4, 5, 6} \subseteq 1..6 OBVIOUS
  <2> QED BY Zenon, <1>1, <2>1 DEF HeldKinds
<1>0. 0 # 1 OBVIOUS
<1> HIDE DEF q, h, o, f, m, r, K
<1>4. q + h + o + f + m + r = 0 => K = {}
  <2>1. q + h + o + f + m + r = 0 => q = 0 /\ h = 0 /\ o = 0 /\ f = 0 /\ m = 0 /\ r = 0 BY <1>1
  <2> QED BY Zenon, <1>3, <1>0, <2>1
<1>5. ASSUME q + h + o + f + m + r = 1 PROVE \E x : K = {x}
  <2>1. CASE q = 1
    <3>1. h # 1 /\ o # 1 /\ f # 1 /\ m # 1 /\ r # 1 BY <1>1, <1>5, <2>1
    <3>2. 1 \in K BY Zenon, <1>3, <2>1
    <3>3. \A k : k \in K => k = 1 BY Zenon, <1>3, <3>1
    <3>4. K = {1} BY Zenon, <3>2, <3>3
    <3> QED BY Zenon, <3>4
  <2>2. CASE h = 1
    <3>1. q # 1 /\ o # 1 /\ f # 1 /\ m # 1 /\ r # 1 BY <1>1, <1>5, <2>2
    <3>2. 2 \in K BY Zenon, <1>3, <2>2
    <3>3. \A k : k \in K => k = 2 BY Zenon, <1>3, <3>1
    <3>4. K = {2} BY Zenon, <3>2, <3>3
    <3> QED BY Zenon, <3>4
  <2>3. CASE o = 1
    <3>1. q # 1 /\ h # 1 /\ f # 1 /\ m # 1 /\ r # 1 BY <1>1, <1>5, <2>3
    <3>2. 3 \in K BY Zenon, <1>3, <2>3
    <3>3. \A k : k \in K => k = 3 BY Zenon, <1>3, <3>1
    <3>4. K = {3} BY Zenon, <3>2, <3>3
    <3> QED BY Zenon, <3>4
  <2>4. CASE f = 1
    <3>1. q # 1 /\ h # 1 /\ o # 1 /\ m # 1 /\ r # 1 BY <1>1, <1>5, <2>4
    <3>2. 4 \in K BY Zenon, <1>3, <2>4
    <3>3. \A k : k \in K => k = 4 BY Zenon, <1>3, <3>1
    <3>4. K = {4} BY Zenon, <3>2, <3>3
    <3> QED BY Zenon, <3>4
  <2>5. CASE m = 1
    <3>1. q # 1 /\ h # 1 /\ o # 1 /\ f # 1 /\ r # 1 BY <1>1, <1>5, <2>5
    <3>2. 5 \in K BY Zenon, <1>3, <2>5
    <3>3. \A k : k \in K => k = 5 BY Zenon, <1>3, <3>1
    <3>4. K = {5} BY Zenon, <3>2, <3>3
    <3> QED BY Zenon, <3>4
  <2>6. CASE r = 1
    <3>1. q # 1 /\ h # 1 /\ o # 1 /\ f # 1 /\ m # 1 BY <1>1, <1>5, <2>6
    <3>2. 6 \in K BY Zenon, <1>3, <2>6
    <3>3. \A k : k \in K => k = 6 BY Zenon, <1>3, <3>1
    <3>4. K = {6} BY Zenon, <3>2, <3>3
    <3> QED BY Zenon, <3>4
  <2>7. q = 1 \/ h = 1 \/ o = 1 \/ f = 1 \/ m = 1 \/ r = 1 BY <1>1, <1>5
  <2> QED BY Zenon, <2>1, <2>2, <2>3, <2>4, <2>5, <2>6, <2>7
<1> QED BY Zenon, <1>2, <1>4, <1>5 DEF K

\* The same of the places of a sidecar that is not attached.
LEMMA LooseOnce ==
  ASSUME NEW X, NEW O, NEW M, NEW R, NEW t
  PROVE /\ Loose(X, O, M, R, t) = 0 => LooseKinds(X, O, M, R, t) = {}
        /\ Loose(X, O, M, R, t) = 1 => \E x : LooseKinds(X, O, M, R, t) = {x}
<1> DEFINE a == In(t, X)
           o == In(t, O)
           m == In(t, M)
           r == In(t, R)
           K == LooseKinds(X, O, M, R, t)
<1>1. /\ a \in {0, 1} /\ o \in {0, 1} /\ m \in {0, 1} /\ r \in {0, 1}
      /\ t \in X <=> a = 1
      /\ t \in O <=> o = 1
      /\ t \in M <=> m = 1
      /\ t \in R <=> r = 1
  BY DEF In
<1>2. Loose(X, O, M, R, t) = a + o + m + r BY Zenon DEF Loose
<1>3. \A k : k \in K <=> (k = 1 /\ a = 1) \/ (k = 2 /\ o = 1) \/ (k = 3 /\ m = 1) \/ (k = 4 /\ r = 1)
  <2>1. {1, 2, 3, 4} \subseteq 1..4 OBVIOUS
  <2> QED BY Zenon, <1>1, <2>1 DEF LooseKinds
<1>0. 0 # 1 OBVIOUS
<1> HIDE DEF a, o, m, r, K
<1>4. a + o + m + r = 0 => K = {}
  <2>1. a + o + m + r = 0 => a = 0 /\ o = 0 /\ m = 0 /\ r = 0 BY <1>1
  <2> QED BY Zenon, <1>3, <1>0, <2>1
<1>5. ASSUME a + o + m + r = 1 PROVE \E x : K = {x}
  <2>1. CASE a = 1
    <3>1. o # 1 /\ m # 1 /\ r # 1 BY <1>1, <1>5, <2>1
    <3>2. 1 \in K BY Zenon, <1>3, <2>1
    <3>3. \A k : k \in K => k = 1 BY Zenon, <1>3, <3>1
    <3>4. K = {1} BY Zenon, <3>2, <3>3
    <3> QED BY Zenon, <3>4
  <2>2. CASE o = 1
    <3>1. a # 1 /\ m # 1 /\ r # 1 BY <1>1, <1>5, <2>2
    <3>2. 2 \in K BY Zenon, <1>3, <2>2
    <3>3. \A k : k \in K => k = 2 BY Zenon, <1>3, <3>1
    <3>4. K = {2} BY Zenon, <3>2, <3>3
    <3> QED BY Zenon, <3>4
  <2>3. CASE m = 1
    <3>1. a # 1 /\ o # 1 /\ r # 1 BY <1>1, <1>5, <2>3
    <3>2. 3 \in K BY Zenon, <1>3, <2>3
    <3>3. \A k : k \in K => k = 3 BY Zenon, <1>3, <3>1
    <3>4. K = {3} BY Zenon, <3>2, <3>3
    <3> QED BY Zenon, <3>4
  <2>4. CASE r = 1
    <3>1. a # 1 /\ o # 1 /\ m # 1 BY <1>1, <1>5, <2>4
    <3>2. 4 \in K BY Zenon, <1>3, <2>4
    <3>3. \A k : k \in K => k = 4 BY Zenon, <1>3, <3>1
    <3>4. K = {4} BY Zenon, <3>2, <3>3
    <3> QED BY Zenon, <3>4
  <2>5. a = 1 \/ o = 1 \/ m = 1 \/ r = 1 BY <1>1, <1>5
  <2> QED BY Zenon, <2>1, <2>2, <2>3, <2>4, <2>5
<1> QED BY Zenon, <1>2, <1>4, <1>5 DEF K

\* D is the set of places of a token: the single ones and the row of events,
\* which holds it once at most; and what its number of places says of D.
HeldAt(len, D, Q, H, O, F, M, R, t) ==
    /\ D \in SUBSET (1..(5 + len))
    /\ 1 \in D <=> t \in Q
    /\ 2 \in D <=> t \in H
    /\ 3 \in D <=> t \in O
    /\ 4 \in D <=> t \in F
    /\ 5 \in D <=> t \in M
    /\ t \in R <=> \E i \in 1..len : (5 + i) \in D
    /\ \A i, k \in 1..len : (5 + i) \in D /\ (5 + k) \in D => i = k
LooseIn(len, D, X, O, M, R, t) ==
    /\ D \in SUBSET (1..(3 + len))
    /\ 1 \in D <=> t \in X
    /\ 2 \in D <=> t \in O
    /\ 3 \in D <=> t \in M
    /\ t \in R <=> \E i \in 1..len : (3 + i) \in D
    /\ \A i, k \in 1..len : (3 + i) \in D /\ (3 + k) \in D => i = k
Counted(D, c) == (c = 0 => D = {}) /\ (c = 1 => \E p : D = {p})

\* A token counted once is in one place, one not counted in none.
LEMMA HeldSpread ==
  ASSUME NEW len \in Nat, NEW D, NEW t, NEW Q, NEW H, NEW O, NEW F, NEW M, NEW R,
         HeldAt(len, D, Q, H, O, F, M, R, t)
  PROVE Counted(D, Held(Q, H, O, F, M, R, t))
<1> DEFINE E == HeldKinds(Q, H, O, F, M, R, t)
<1>1. /\ 1 \in E <=> t \in Q
      /\ 2 \in E <=> t \in H
      /\ 3 \in E <=> t \in O
      /\ 4 \in E <=> t \in F
      /\ 5 \in E <=> t \in M
      /\ 6 \in E <=> t \in R
      /\ E \in SUBSET (1..6)
  BY DEF HeldKinds
<1> HIDE DEF E
<1>0. 5 \in Nat OBVIOUS
<1>2. 5 + 1 = 6 /\ 1..5 = {1, 2, 3, 4, 5} OBVIOUS
<1>3. \A k \in 1..5 : k \in D <=> k \in E BY Zenon, <1>1, <1>2 DEF HeldAt
<1>4. E \in SUBSET (1..(5 + 1)) BY Zenon, <1>1, <1>2
<1>5. (5 + 1) \in E <=> \E i \in 1..len : (5 + i) \in D BY Zenon, <1>1, <1>2 DEF HeldAt
<1>6. Spread(5, len, D, E) BY Zenon, <1>3, <1>4, <1>5 DEF Spread, HeldAt
<1>7. AsLarge(D, E) BY Zenon, <1>0, <1>6, OnePlace
<1> QED BY Zenon, <1>7, HeldOnce DEF AsLarge, Counted, E

\* The same of a sidecar that is not attached.
LEMMA LooseSpread ==
  ASSUME NEW len \in Nat, NEW D, NEW t, NEW X, NEW O, NEW M, NEW R, LooseIn(len, D, X, O, M, R, t)
  PROVE Counted(D, Loose(X, O, M, R, t))
<1> DEFINE E == LooseKinds(X, O, M, R, t)
<1>1. /\ 1 \in E <=> t \in X
      /\ 2 \in E <=> t \in O
      /\ 3 \in E <=> t \in M
      /\ 4 \in E <=> t \in R
      /\ E \in SUBSET (1..4)
  BY DEF LooseKinds
<1> HIDE DEF E
<1>0. 3 \in Nat OBVIOUS
<1>2. 3 + 1 = 4 /\ 1..3 = {1, 2, 3} OBVIOUS
<1>3. \A k \in 1..3 : k \in D <=> k \in E BY Zenon, <1>1, <1>2 DEF LooseIn
<1>4. E \in SUBSET (1..(3 + 1)) BY Zenon, <1>1, <1>2
<1>5. (3 + 1) \in E <=> \E i \in 1..len : (3 + i) \in D BY Zenon, <1>1, <1>2 DEF LooseIn
<1>6. Spread(3, len, D, E) BY Zenon, <1>3, <1>4, <1>5 DEF Spread, LooseIn
<1>7. AsLarge(D, E) BY Zenon, <1>0, <1>6, OnePlace
<1> QED BY Zenon, <1>7, LooseOnce DEF AsLarge, Counted, E

(***************************************************************************)
(* What the data operators return                                          *)
(***************************************************************************)

\* The constant records that stand for "none" are typed.
LEMMA NoneTyped ==
    /\ NoJob \in JobType /\ NoSidecar \in SidecarType
    /\ Unestablished \in EstablishedType
    /\ NoReturn \in [ok : Pcs, failed : Pcs]
    /\ [n |-> 0, s |-> 0] \in BundleType
BY Zenon DEF NoJob, JobType, NoSidecar, SidecarType, Unestablished, EstablishedType,
       NoReturn, Pcs, BundleType, Presented, BaseType

\* A commit's bundle identity and the bases built from it are typed.
LEMMA JobDerivedTyped ==
    ASSUME NEW j \in JobType
    PROVE  /\ Bundle(j) \in BundleType
           /\ Predecessor(j) \in BaseType
           /\ \A k \in {"pending", "bundle"} : Established(k, j) \in EstablishedType
           /\ j.base \in BaseType
BY Zenon DEF Bundle, BundleType, Predecessor, BaseType, Established, EstablishedType, JobType

\* The base of a presented revision is typed, as a base and as the
\* established one.
LEMMA PresentedTyped ==
    ASSUME NEW r \in Nat
    PROVE  Presented(r) \in BaseType /\ Presented(r) \in EstablishedType
BY Zenon DEF Presented, BaseType, EstablishedType

\* Bundles of a queue, and the sidecar number of a mailbox.
LEMMA BundlesTyped ==
    ASSUME NEW q \in Seq(JobType)
    PROVE  Bundles(q) \in SUBSET BundleType
<1>1. SUFFICES ASSUME NEW i \in DOMAIN q PROVE Bundle(q[i]) \in BundleType
  BY Zenon, <1>1 DEF Bundles
<1>2. q[i] \in JobType
  OBVIOUS
<1> QED
  BY Zenon, <1>2, JobDerivedTyped

\* The sidecar of a mailbox, as a set of numbers.
LEMMA SideIdsTyped ==
    ASSUME NEW s \in SidecarType
    PROVE  SideIds(s) \in SUBSET Nat
BY Zenon DEF SideIds, SidecarType

\* Events are typed, whatever they carry: nothing, one commit, one sidecar,
\* the queue and the mailbox; and so is what they own.
LEMMA EventTyped ==
    ASSUME NEW t \in EventKinds, NEW js \in SUBSET BundleType, NEW ss \in SUBSET Nat
    PROVE  Event(t, js, ss) \in EventType
BY Zenon DEF Event, EventType

\* An event that carries nothing.
LEMMA BareEventTyped ==
    ASSUME NEW t \in EventKinds PROVE Event(t, {}, {}) \in EventType
BY EventTyped, Zenon

\* An event that carries one commit.
LEMMA JobEventTyped ==
    ASSUME NEW t \in EventKinds, NEW j \in JobType
    PROVE  Event(t, {Bundle(j)}, {}) \in EventType
<1>1. {Bundle(j)} \in SUBSET BundleType
  BY JobDerivedTyped, Zenon
<1> QED
  BY <1>1, EventTyped, Zenon

\* An event that returns a sidecar.
LEMMA SideEventTyped ==
    ASSUME NEW c \in SidecarType
    PROVE  Event("CursorSidecarReturned", {}, SideIds(c)) \in EventType
<1>1. "CursorSidecarReturned" \in EventKinds
  BY Zenon DEF EventKinds
<1> QED
  BY <1>1, SideIdsTyped, EventTyped, Zenon

\* The Quiesced event, with what it returns.
LEMMA QuiescedEventTyped ==
    ASSUME NEW js \in SUBSET BundleType, NEW q \in Seq(JobType), NEW c \in SidecarType
    PROVE  Event("Quiesced", js \cup Bundles(q), SideIds(c)) \in EventType
<1>1. "Quiesced" \in EventKinds
  BY Zenon DEF EventKinds
<1>2. js \cup Bundles(q) \in SUBSET BundleType
  BY BundlesTyped, Zenon
<1> QED
  BY <1>1, <1>2, SideIdsTyped, EventTyped, Zenon

\* What a sequence of events owns.
LEMMA EventsOwn ==
    ASSUME NEW evs \in Seq(EventType)
    PROVE  /\ EventJobs(evs) \in SUBSET BundleType
           /\ EventSides(evs) \in SUBSET Nat
           /\ SubmittedIn(evs) \in SUBSET BundleType
<1>1. \A i \in DOMAIN evs : evs[i].jobs \in SUBSET BundleType /\ evs[i].sides \in SUBSET Nat
  <2> SUFFICES ASSUME NEW i \in DOMAIN evs
               PROVE  evs[i].jobs \in SUBSET BundleType /\ evs[i].sides \in SUBSET Nat
    BY Zenon
  <2>1. evs[i] \in EventType
    OBVIOUS
  <2> QED
    BY Zenon, <2>1 DEF EventType
<1>2. EventJobs(evs) \in SUBSET BundleType
  BY <1>1, Zenon DEF EventJobs
<1>3. EventSides(evs) \in SUBSET Nat
  BY <1>1, Zenon DEF EventSides
<1>4. SubmittedIn(evs) \in SUBSET BundleType
  BY <1>1, Zenon DEF SubmittedIn
<1> QED
  BY Zenon, <1>2, <1>3, <1>4

\* A notification leaves the worker at a control point.
LEMMA WokenTyped == pc \in Pcs => Woken \in Pcs
BY Zenon DEF Woken, Pcs

\* The fields of a commit and of a sidecar are typed.
LEMMA FieldsTyped ==
    /\ \A j \in JobType : j.id \in Nat /\ j.key \in Nat /\ j.target \in Nat /\ j.cur \in Nat
    /\ \A c \in SidecarType : c.id \in Nat
BY Zenon DEF JobType, SidecarType

\* A commit that takes a sidecar along is still a commit.
LEMMA AttachTyped ==
    ASSUME NEW j \in JobType, sidecar \in SidecarType, NEW t \in {j.test, TRUE}
    PROVE  AttachSidecar(j, t) \in JobType
<1>1. sidecar.id \in Nat
  BY Zenon DEF SidecarType
<1>2. j.test \in BOOLEAN
  BY Zenon DEF JobType
<1>3. t \in BOOLEAN
  BY <1>2, Zenon
<1> QED
  BY <1>1, <1>3, Zenon DEF AttachSidecar, JobType

\* Making the worker fatal keeps the types of what it changes.
LEMMA MarkFatalTyped ==
    ASSUME StateType, ResultType, NEW evs \in Seq(EventType), MarkFatal(evs)
    PROVE  /\ lifecycle' \in Lifecycles /\ queued' \in Seq(JobType)
           /\ probe' \in {"none", "queued", "executing"}
           /\ fatalJobs' \in SUBSET BundleType /\ results' \in Seq(EventType)
<1>1. Bundles(queued) \in SUBSET BundleType
  BY Zenon, BundlesTyped DEF StateType
<1>2. Event("Fatal", {}, {}) \in EventType
  BY Zenon, BareEventTyped DEF EventKinds
<1>3. CASE lifecycle = "Fatal"
  BY Zenon, <1>3 DEF MarkFatal, StateType, ResultType
<1>4. CASE lifecycle # "Fatal"
  <2>1. fatalJobs' \in SUBSET BundleType
    BY <1>1, <1>4, Zenon DEF MarkFatal, ResultType
  <2>2. results' \in Seq(EventType)
    BY <1>2, <1>4 DEF MarkFatal
  <2>3. lifecycle' \in Lifecycles /\ queued' \in Seq(JobType) /\ probe' = "none"
    BY <1>4 DEF MarkFatal, Lifecycles
  <2> QED
    BY Zenon, <2>1, <2>2, <2>3
<1> QED
  BY Zenon, <1>3, <1>4

\* Handing the queue and the mailbox back keeps the types of what it changes.
LEMMA TakeBackTyped ==
    ASSUME StateType, ClientType, TakeBack
    PROVE  /\ queued' \in Seq(JobType) /\ mainJobs' \in SUBSET BundleType
           /\ mainSides' \in SUBSET Nat /\ sidecar' \in SidecarType
<1>1. mainSides' \in SUBSET Nat
  BY SideIdsTyped, Zenon DEF StateType, ClientType, TakeBack
<1>2. sidecar' \in SidecarType
  BY Zenon, NoneTyped DEF TakeBack
<1>3. CASE queued = <<>>
  <2>1. mainJobs' \in SUBSET BundleType
    BY <1>3, Zenon DEF ClientType, TakeBack
  <2> QED
    BY Zenon, <1>1, <1>2, <1>3, <2>1 DEF StateType, TakeBack
<1>4. CASE queued # <<>>
  <2>1. Head(queued) \in JobType /\ Tail(queued) \in Seq(JobType)
    BY <1>4 DEF StateType
  <2>2. mainJobs' \in SUBSET BundleType
    BY <1>4, <2>1, JobDerivedTyped, Zenon DEF ClientType, TakeBack
  <2> QED
    BY Zenon, <1>1, <1>2, <1>4, <2>1, <2>2 DEF TakeBack
<1> QED
  BY Zenon, <1>3, <1>4

\* So does the acknowledgement of the in-flight commit.
LEMMA AckInflightTyped ==
    ASSUME StateType, ResultType, AckInflight
    PROVE  /\ lifecycle' \in Lifecycles /\ queued' \in Seq(JobType)
           /\ probe' \in {"none", "queued", "executing"}
           /\ fatalJobs' \in SUBSET BundleType /\ results' \in Seq(EventType)
           /\ established' \in EstablishedType /\ inflight' \in JobType
           /\ phase' \in Phases /\ sidecar' \in SidecarType
           /\ main' \in {"acked", "failed"}
<1> DEFINE returned == Append(results, Event("CursorSidecarReturned", {}, SideIds(sidecar)))
<1>1. returned \in Seq(EventType)
  <2>1. Event("CursorSidecarReturned", {}, SideIds(sidecar)) \in EventType
    BY Zenon, SideEventTyped DEF StateType
  <2> QED
    BY <2>1 DEF ResultType
<1>2. established' \in EstablishedType
  BY Zenon, JobDerivedTyped DEF StateType, AckInflight
<1>3. inflight' \in JobType /\ phase' \in Phases /\ sidecar' \in SidecarType
  BY Zenon, NoneTyped DEF StateType, AckInflight, Phases
<1> HIDE DEF returned
<1>4. \/ /\ results' \in {returned, results} /\ main' = "acked"
         /\ UNCHANGED <<lifecycle, queued, probe, fatalJobs>>
      \/ MarkFatal(returned) /\ main' = "failed"
  BY Zenon DEF AckInflight, returned
<1>5. CASE MarkFatal(returned) /\ main' = "failed"
  BY Zenon, <1>1, <1>2, <1>3, <1>5, MarkFatalTyped
<1>6. CASE /\ results' \in {returned, results} /\ main' = "acked"
           /\ UNCHANGED <<lifecycle, queued, probe, fatalJobs>>
  BY Zenon, <1>1, <1>2, <1>3, <1>6 DEF StateType, ResultType
<1> QED
  BY Zenon, <1>4, <1>5, <1>6

-----------------------------------------------------------------------------
(***************************************************************************)
(* Type correctness, one group of variables at a time                      *)
(***************************************************************************)

\* The initial state is typed.
LEMMA TypeInit == Init => TypeOK
<1> SUFFICES ASSUME Init PROVE TypeOK
  BY Zenon
<1>1. StateType
  BY NoneTyped DEF Init, StateType, Lifecycles, Phases
<1>2. ThreadType
  <2>1. NoEvent \in EventType
    BY Zenon, BareEventTyped DEF NoEvent, EventKinds
  <2> QED
    BY <2>1, NoneTyped DEF Init, ThreadType, Pcs, MAX_BUSY_RETRIES, EventKinds
<1>3. ResultType /\ ClientType /\ DeviceType
  BY NoneTyped DEF Init, ResultType, ClientType, DeviceType
<1> QED
  BY Zenon, <1>1, <1>2, <1>3 DEF TypeOK

\* Dequeuing keeps the types.
LEMMA HeadTailTyped ==
    ASSUME NEW q \in Seq(JobType), q # <<>>
    PROVE  Head(q) \in JobType /\ Tail(q) \in Seq(JobType)
OBVIOUS

\* The worker thread never touches what belongs to the compositor thread.
LEMMA WorkerFrame == WorkerStep => UNCHANGED client
BY Zenon DEF WorkerStep, PublishEvent, WorkerMarkFatal, TakeStopped,
             TakeQuiesced, TakeProbe, RunProbe, TakeInvalidated, TakeReady,
             TakeSleep, DeadlineWait, CollectSidecar, DropThenQuiesce,
             QuiesceWithJobs, EnterTest, TestOnly, EnterSubmit, SubmitOk,
             SubmitBusy, SubmitFailed, Transfer, RetainJob, BackoffWait,
             RejectSidecar, RejectDependents, RejectEvent, EndIteration,
             FlipQuiesced, FlipAcknowledged, FlipSleep, FlipTimeout, Exit,
             EnterGate

\* The compositor thread never touches the worker thread's locals or the
\* submit gate; it only wakes the worker up.
LEMMA MainFrame ==
    MainStep => UNCHANGED <<gate, thread>> /\ pc' \in {pc, Woken}
<1> SUFFICES ASSUME MainStep PROVE UNCHANGED <<gate, thread>> /\ pc' \in {pc, Woken}
  BY Zenon
<1>1. CASE PlanCommit
  BY Zenon, <1>1 DEF PlanCommit
<1>2. CASE \E shape \in Shapes : TryReserve(shape)
  BY Zenon, <1>2 DEF TryReserve
<1>3. CASE ReserveRefused
  BY Zenon, <1>3 DEF ReserveRefused
<1>4. CASE Enqueue
  BY Zenon, <1>4 DEF Enqueue
<1>5. CASE EnqueueRefused
  BY Zenon, <1>5 DEF EnqueueRefused
<1>6. CASE DropPermit
  BY Zenon, <1>6 DEF DropPermit
<1>7. CASE QuarantineAdmission
  BY Zenon, <1>7 DEF QuarantineAdmission
<1>8. CASE LookForPrimary
  BY Zenon, <1>8 DEF LookForPrimary
<1>9. CASE OfferSidecar
  BY Zenon, <1>9 DEF OfferSidecar
<1>10. CASE OfferRefused
  BY Zenon, <1>10 DEF OfferRefused
<1>11. CASE TakeDueSidecar
  BY Zenon, <1>11 DEF TakeDueSidecar
<1>12. CASE CancelQueued
  BY Zenon, <1>12 DEF CancelQueued
<1>13. CASE QueueProbe
  BY Zenon, <1>13 DEF QueueProbe
<1>14. CASE DrainEvents
  BY Zenon, <1>14 DEF DrainEvents
<1>15. CASE AckPageflip
  BY Zenon, <1>15 DEF AckPageflip, AckInflight
<1>16. CASE PromotePresented
  BY Zenon, <1>16 DEF PromotePresented
<1>17. CASE FailTransition
  BY Zenon, <1>17 DEF FailTransition
<1>18. CASE RequestQuiesce
  BY Zenon, <1>18 DEF RequestQuiesce
<1>19. CASE BeginShutdown
  BY Zenon, <1>19 DEF BeginShutdown, TakeBack
<1>20. CASE ForceAbandon
  BY Zenon, <1>20 DEF ForceAbandon, TakeBack
<1>21. CASE StartJoin
  BY Zenon, <1>21 DEF StartJoin
<1>22. CASE JoinReturns
  BY Zenon, <1>22 DEF JoinReturns
<1> QED
  BY Zenon, <1>1, <1>2, <1>3, <1>4, <1>5, <1>6, <1>7, <1>8, <1>9, <1>10, <1>11,
     <1>12, <1>13, <1>14, <1>15, <1>16, <1>17, <1>18, <1>19, <1>20, <1>21,
     <1>22 DEF MainStep

\* Releasing the permit keeps the types.
LEMMA ReleaseTyped ==
    ASSUME StateType, ReleasePermit
    PROVE  reserved' \in Nat /\ reservedKeys' \in SUBSET Nat
<1>1. reserved' \in Nat
  BY DEF ReleasePermit, StateType
<1>2. reservedKeys' \in SUBSET Nat
  BY Zenon DEF ReleasePermit, StateType
<1> QED
  BY Zenon, <1>1, <1>2

\* The shared state keeps its types.
LEMMA StateTyped == ASSUME TypeOK, Next PROVE StateType'
<1> USE DEF TypeOK
<1>1. ASSUME UNCHANGED state PROVE StateType'
  BY Zenon, <1>1 DEF StateType, state
<1>2. CASE PublishEvent \/ TakeStopped \/ TakeSleep \/ DeadlineWait \/
            TestOnly \/ SubmitOk \/ SubmitBusy \/ SubmitFailed \/ RetainJob
            \/ BackoffWait \/ RejectEvent \/ FlipAcknowledged \/ FlipSleep
            \/ FlipTimeout \/ SpuriousWake \/ CompleteFlip \/ PlanCommit \/
            ReserveRefused \/ LookForPrimary \/ OfferRefused \/ DrainEvents
  BY <1>2, <1>1, Zenon DEF PublishEvent, TakeStopped, TakeSleep, DeadlineWait,
                        TestOnly, SubmitOk, SubmitBusy, SubmitFailed,
                        RetainJob, BackoffWait, RejectEvent, FlipAcknowledged,
                        FlipSleep, FlipTimeout, SpuriousWake, CompleteFlip,
                        PlanCommit, ReserveRefused, LookForPrimary,
                        OfferRefused, DrainEvents
<1>3. CASE WorkerMarkFatal
  <2>1. MarkFatal(results)
    BY Zenon, <1>3 DEF WorkerMarkFatal
  <2> QED
    BY Zenon, <1>3, <2>1, MarkFatalTyped DEF WorkerMarkFatal, StateType, ResultType
<1>4. CASE TakeQuiesced
  BY <1>4, NoneTyped DEF TakeQuiesced, StateType, PublishQuiesced, Lifecycles
<1>5. CASE TakeProbe
  BY Zenon, <1>5 DEF TakeProbe, StateType, Phases
<1>6. CASE RunProbe
  BY Zenon, <1>6 DEF RunProbe, StateType, Phases
<1>7. CASE TakeInvalidated
  BY <1>7 DEF TakeInvalidated, StateType, CanTakeJob
<1>8. CASE TakeReady
  <2>1. Head(queued) \in JobType /\ Tail(queued) \in Seq(JobType)
    BY Zenon, <1>8, HeadTailTyped DEF TakeReady, CanTakeJob, StateType
  <2> QED
    BY Zenon, <1>8, <2>1 DEF TakeReady, StateType, Phases
<1>9. CASE CollectSidecar
  <2>1. sidecar' \in SidecarType
    BY <1>9, NoneTyped, Zenon DEF CollectSidecar, StateType
  <2>2. phase' \in Phases
    BY <1>9, Zenon DEF CollectSidecar, Phases
  <2>3. executing' \in JobType
    <3>1. \/ \E t \in {job.test, TRUE} : executing' = AttachSidecar(job, t)
          \/ UNCHANGED executing
      BY <1>9, Zenon DEF CollectSidecar
    <3> QED
      BY <3>1, AttachTyped, Zenon DEF StateType, ThreadType
  <2> QED
    BY Zenon, <1>9, <2>1, <2>2, <2>3 DEF CollectSidecar, StateType
<1>10. CASE DropThenQuiesce
  BY Zenon, <1>10, NoneTyped DEF DropThenQuiesce, StateType, DropGuard, Phases
<1>11. CASE QuiesceWithJobs
  BY <1>11, NoneTyped DEF QuiesceWithJobs, StateType, PublishQuiesced, Lifecycles
<1>12. CASE EnterTest
  BY Zenon, <1>12 DEF EnterTest, StateType, EnterGate, Phases
<1>13. CASE EnterSubmit
  BY Zenon, <1>13 DEF EnterSubmit, StateType, EnterGate, Phases
<1>14. CASE Transfer
  <2>1. Established("pending", job) \in EstablishedType
    BY Zenon, JobDerivedTyped DEF ThreadType
  <2> QED
    BY Zenon, <1>14, <2>1, NoneTyped DEF Transfer, StateType, ThreadType, Phases
<1>15. CASE RejectSidecar
  BY Zenon, <1>15, NoneTyped DEF RejectSidecar, StateType
<1>16. CASE RejectDependents
  BY <1>16 DEF RejectDependents, StateType
<1>17. CASE EndIteration
  BY Zenon, <1>17, NoneTyped DEF EndIteration, StateType, DropGuard, Phases
<1>18. CASE FlipQuiesced
  BY <1>18, NoneTyped DEF FlipQuiesced, StateType, PublishQuiesced, Lifecycles
<1>19. CASE Exit
  BY Zenon, <1>19, NoneTyped DEF Exit, StateType, DropGuard, Phases
<1>20. CASE \E shape \in Shapes : TryReserve(shape)
  <2>1. PICK shape \in Shapes : TryReserve(shape)
    BY Zenon, <1>20
  <2>2. shape.key \in Nat
    BY Zenon, ShapesAssumption DEF ShapeType
  <2>3. reservedKeys' \in SUBSET Nat
    BY <2>1, <2>2, Zenon DEF TryReserve, StateType
  <2> QED
    BY <2>1, <2>3 DEF TryReserve, StateType
<1>21. CASE Enqueue
  <2>1. PICK crev \in {0, sideCount} :
           queued' = Append(queued,
               [id |-> jobCount + 1, primary |-> permit.primary,
                target |-> permit.target, test |-> permit.test,
                key |-> permit.key, base |-> plan, crev |-> crev, cur |-> 0])
    BY Zenon, <1>21 DEF Enqueue
  <2>2. plan \in BaseType /\ permit \in ShapeType
    BY Zenon, <1>21, ShapesAssumption DEF Enqueue, ReleasePermit, ClientType
  <2>3. queued' \in Seq(JobType)
    <3>1. permit.primary \in BOOLEAN /\ permit.test \in BOOLEAN
      BY <2>2, Zenon DEF ShapeType
    <3>2. permit.target \in Nat /\ permit.key \in Nat
      BY Zenon, <2>2 DEF ShapeType
    <3>3. [id |-> jobCount + 1, primary |-> permit.primary,
           target |-> permit.target, test |-> permit.test,
           key |-> permit.key, base |-> plan, crev |-> crev, cur |-> 0] \in JobType
      BY <2>2, <3>1, <3>2 DEF JobType, ClientType
    <3> QED
      BY <2>1, <3>3 DEF StateType
  <2>4. established' \in EstablishedType
    <3>1. CASE plan.of = "rev"
      <4>1. plan \in EstablishedType
        BY Zenon, <2>2, <3>1 DEF BaseType, EstablishedType
      <4> QED
        BY Zenon, <1>21, <4>1 DEF Enqueue, StateType
    <3>2. CASE plan.of # "rev"
      BY Zenon, <1>21, <3>2 DEF Enqueue, StateType
    <3> QED
      BY Zenon, <3>1, <3>2
  <2>5. reserved' \in Nat /\ reservedKeys' \in SUBSET Nat
    BY Zenon, <1>21, ReleaseTyped DEF Enqueue
  <2> QED
    BY Zenon, <1>21, <2>3, <2>4, <2>5 DEF Enqueue, StateType
<1>22. CASE EnqueueRefused
  BY Zenon, <1>22, ReleaseTyped DEF EnqueueRefused, StateType
<1>23. CASE DropPermit
  BY Zenon, <1>23, ReleaseTyped DEF DropPermit, StateType
<1>24. CASE QuarantineAdmission
  <2>1. MarkFatal(results) /\ ReleasePermit
    BY Zenon, <1>24 DEF QuarantineAdmission
  <2>2. reserved' \in Nat /\ reservedKeys' \in SUBSET Nat
    BY Zenon, <2>1, ReleaseTyped
  <2> QED
    BY Zenon, <1>24, <2>1, <2>2, MarkFatalTyped DEF QuarantineAdmission, StateType, ResultType
<1>25. CASE OfferSidecar
  <2>1. PICK with \in {0, attach.with} :
           sidecar' = [attach EXCEPT !.id = sideCount + 1, !.with = with]
    BY <1>25, Zenon DEF OfferSidecar
  <2>2. attach \in SidecarType /\ sideCount + 1 \in Nat
    BY DEF ClientType
  <2>3. with \in Nat
    BY <2>2 DEF SidecarType
  <2>4. sidecar' \in SidecarType
    BY <2>1, <2>2, <2>3, Zenon DEF SidecarType
  <2> QED
    BY Zenon, <1>25, <2>4 DEF OfferSidecar, StateType
<1>26. CASE TakeDueSidecar
  BY Zenon, <1>26, NoneTyped DEF TakeDueSidecar, StateType
<1>27. CASE CancelQueued
  BY <1>27 DEF CancelQueued, StateType
<1>28. CASE QueueProbe
  BY Zenon, <1>28 DEF QueueProbe, StateType
<1>29. CASE AckPageflip
  <2>1. \/ AckInflight
        \/ UNCHANGED <<lifecycle, queued, inflight, phase, sidecar, established, probe>>
    BY <1>29, Zenon DEF AckPageflip
  <2>2. UNCHANGED <<reserved, reservedKeys, executing>>
    BY Zenon, <1>29 DEF AckPageflip
  <2>3. CASE AckInflight
    BY Zenon, <2>2, <2>3, AckInflightTyped DEF StateType
  <2>4. CASE UNCHANGED <<lifecycle, queued, inflight, phase, sidecar, established, probe>>
    BY Zenon, <2>2, <2>4 DEF StateType
  <2> QED
    BY Zenon, <2>1, <2>3, <2>4
<1>30. CASE PromotePresented
  <2>1. established' \in EstablishedType
    BY <1>30, PresentedTyped DEF PromotePresented, StateType, ClientType
  <2> QED
    BY Zenon, <1>30, <2>1 DEF PromotePresented, StateType
<1>31. CASE FailTransition
  <2>1. MarkFatal(results)
    BY Zenon, <1>31 DEF FailTransition
  <2> QED
    BY Zenon, <1>31, <2>1, MarkFatalTyped DEF FailTransition, StateType, ResultType
<1>32. CASE RequestQuiesce
  BY Zenon, <1>32 DEF RequestQuiesce, StateType, Quiesced, Lifecycles
<1>33. CASE BeginShutdown
  <2>1. TakeBack
    BY Zenon, <1>33 DEF BeginShutdown
  <2>2. lifecycle' \in Lifecycles
    BY Zenon, <1>33 DEF BeginShutdown, Lifecycles
  <2> QED
    BY Zenon, <1>33, <2>1, <2>2, TakeBackTyped DEF BeginShutdown, StateType
<1>34. CASE ForceAbandon
  <2>1. CASE lifecycle' = "ShutdownAbandoning" /\ TakeBack /\ inflight' = NoJob
    BY Zenon, <1>34, <2>1, TakeBackTyped, NoneTyped DEF ForceAbandon, StateType, Lifecycles
  <2>2. CASE sidecar' = NoSidecar /\ UNCHANGED <<lifecycle, queued, inflight>>
    BY Zenon, <1>34, <2>2, NoneTyped DEF ForceAbandon, StateType
  <2> QED
    BY Zenon, <1>34, <2>1, <2>2 DEF ForceAbandon
<1>35. CASE StartJoin
  BY Zenon, <1>35 DEF StartJoin, StateType, Quiesced, Lifecycles
<1>36. CASE JoinReturns
  BY Zenon, <1>36, NoneTyped DEF JoinReturns, StateType
<1>37. CASE Joined
  BY Zenon, <1>37, <1>1 DEF Joined, vars
<1> HIDE DEF TypeOK
<1> QED
  BY Zenon, <1>2, <1>3, <1>4, <1>5, <1>6, <1>7, <1>8, <1>9, <1>10, <1>11, <1>12,
     <1>13, <1>14, <1>15, <1>16, <1>17, <1>18, <1>19, <1>20, <1>21, <1>22,
     <1>23, <1>24, <1>25, <1>26, <1>27, <1>28, <1>29, <1>30, <1>31, <1>32,
     <1>33, <1>34, <1>35, <1>36, <1>37 DEF Next, WorkerStep, MainStep, Joined

\* The results and the retained jobs keep their types.
LEMMA ResultTyped == ASSUME TypeOK, Next PROVE ResultType'
<1> USE DEF TypeOK
<1>1. ASSUME UNCHANGED <<results, fatalJobs>> PROVE ResultType'
  BY Zenon, <1>1 DEF ResultType
<1>2. CASE TakeStopped \/ TakeQuiesced \/ TakeProbe \/ RunProbe \/
            TakeInvalidated \/ TakeReady \/ TakeSleep \/ DeadlineWait \/
            CollectSidecar \/ DropThenQuiesce \/ QuiesceWithJobs \/
            EnterTest \/ EnterSubmit \/ SubmitOk \/ SubmitBusy \/ Transfer
            \/ BackoffWait \/ RejectSidecar \/ RejectDependents \/
            RejectEvent \/ EndIteration \/ FlipQuiesced \/ FlipAcknowledged
            \/ FlipSleep \/ FlipTimeout \/ Exit \/ SpuriousWake \/
            PlanCommit \/ (\E shape \in Shapes : TryReserve(shape)) \/
            ReserveRefused \/ Enqueue \/ EnqueueRefused \/ DropPermit \/
            LookForPrimary \/ OfferSidecar \/ OfferRefused \/ TakeDueSidecar
            \/ CancelQueued \/ QueueProbe \/ PromotePresented \/
            RequestQuiesce \/ BeginShutdown \/ ForceAbandon \/ StartJoin \/
            CompleteFlip
  BY <1>2, <1>1, Zenon DEF TakeStopped, TakeQuiesced, TakeProbe, RunProbe,
                        TakeInvalidated, TakeReady, TakeSleep, DeadlineWait,
                        CollectSidecar, DropThenQuiesce, QuiesceWithJobs,
                        EnterTest, EnterSubmit, SubmitOk, SubmitBusy,
                        Transfer, BackoffWait, RejectSidecar,
                        RejectDependents, RejectEvent, EndIteration,
                        FlipQuiesced, FlipAcknowledged, FlipSleep,
                        FlipTimeout, Exit, SpuriousWake, PlanCommit,
                        TryReserve, ReserveRefused, Enqueue, EnqueueRefused,
                        DropPermit, LookForPrimary, OfferSidecar,
                        OfferRefused, TakeDueSidecar, CancelQueued,
                        QueueProbe, PromotePresented, RequestQuiesce,
                        BeginShutdown, ForceAbandon, StartJoin, CompleteFlip,
                        EnterGate
<1>3. CASE PublishEvent
  BY <1>3 DEF PublishEvent, ResultType, ThreadType
<1>4. CASE WorkerMarkFatal
  BY Zenon, <1>4, MarkFatalTyped DEF WorkerMarkFatal, ResultType
<1>5. CASE TestOnly
  <2>1. CASE RetainAfterPanic
    <3>1. fatalJobs' \in SUBSET BundleType
      BY <2>1, JobDerivedTyped, Zenon DEF RetainAfterPanic, ResultType, ThreadType
    <3> QED
      BY Zenon, <1>5, <3>1 DEF TestOnly, ResultType
  <2>2. CASE UNCHANGED fatalJobs
    BY Zenon, <1>5, <2>2 DEF TestOnly, ResultType
  <2> QED
    BY <1>5, <2>1, <2>2, Zenon DEF TestOnly
<1>6. CASE SubmitFailed
  <2>1. CASE RetainAfterPanic
    <3>1. fatalJobs' \in SUBSET BundleType
      BY <2>1, JobDerivedTyped, Zenon DEF RetainAfterPanic, ResultType, ThreadType
    <3> QED
      BY Zenon, <1>6, <3>1 DEF SubmitFailed, ResultType
  <2>2. CASE UNCHANGED fatalJobs
    BY Zenon, <1>6, <2>2 DEF SubmitFailed, ResultType
  <2> QED
    BY <1>6, <2>1, <2>2, Zenon DEF SubmitFailed
<1>7. CASE RetainJob
  <2>1. fatalJobs' \in SUBSET BundleType
    BY <1>7, JobDerivedTyped, Zenon DEF RetainJob, ResultType, ThreadType
  <2> QED
    BY Zenon, <1>7, <2>1 DEF RetainJob, ResultType
<1>8. CASE QuarantineAdmission
  BY Zenon, <1>8, MarkFatalTyped DEF QuarantineAdmission, ResultType
<1>9. CASE DrainEvents
  BY <1>9 DEF DrainEvents, ResultType
<1>10. CASE AckPageflip
  <2>1. CASE AckInflight
    BY Zenon, <2>1, AckInflightTyped DEF ResultType
  <2>2. CASE UNCHANGED <<results, fatalJobs>>
    BY Zenon, <2>2, <1>1
  <2> QED
    BY <1>10, <2>1, <2>2, Zenon DEF AckPageflip
<1>11. CASE FailTransition
  BY Zenon, <1>11, MarkFatalTyped DEF FailTransition, ResultType
<1>12. CASE JoinReturns
  BY <1>12 DEF JoinReturns, ResultType
<1>13. CASE Joined
  BY Zenon, <1>13, <1>1 DEF Joined, vars
<1> HIDE DEF TypeOK
<1> QED
  BY Zenon, <1>2, <1>3, <1>4, <1>5, <1>6, <1>7, <1>8, <1>9, <1>10, <1>11, <1>12,
     <1>13 DEF Next, WorkerStep, MainStep, Joined

\* Handing an event over and naming two control points to return to.
LEMMA PublishTyped ==
    ASSUME NEW e \in EventType, NEW a \in Pcs, NEW b \in Pcs, Publish(e, a, b)
    PROVE  out' \in EventType /\ ret' \in [ok : Pcs, failed : Pcs] /\ pc' \in Pcs
<1>1. pc' \in Pcs
  BY Zenon DEF Publish, Pcs
<1> QED
  BY Zenon, <1>1 DEF Publish

\* The worker thread's locals and the gate keep their types.
LEMMA ThreadTyped == ASSUME TypeOK, Next PROVE ThreadType'
<1> USE DEF TypeOK
<1>1. ASSUME UNCHANGED <<gate, thread>>, pc' \in {pc, Woken} PROVE ThreadType'
  BY Zenon, <1>1, WokenTyped DEF ThreadType, thread
<1>2. CASE MainStep
  BY Zenon, <1>2, <1>1, MainFrame
<1>3. CASE SpuriousWake
  BY Zenon, <1>3, <1>1 DEF SpuriousWake
<1>4. CASE CompleteFlip
  BY Zenon, <1>4, <1>1 DEF CompleteFlip
<1>5. CASE TakeStopped
  BY <1>5 DEF TakeStopped, ThreadType, thread, Pcs
<1>6. CASE TakeSleep
  BY <1>6 DEF TakeSleep, ThreadType, thread, Pcs
<1>7. CASE DeadlineWait
  BY <1>7 DEF DeadlineWait, ThreadType, thread, Pcs
<1>8. CASE BackoffWait
  BY <1>8 DEF BackoffWait, ThreadType, thread, Pcs
<1>9. CASE FlipSleep
  BY <1>9 DEF FlipSleep, ThreadType, thread, Pcs
<1>10. CASE TakeProbe
  BY <1>10 DEF TakeProbe, ThreadType, thread, Pcs
<1>11. CASE RunProbe
  BY <1>11 DEF RunProbe, ThreadType, thread, Pcs
<1>12. CASE TakeReady
  BY <1>12, HeadTailTyped DEF TakeReady, ThreadType, CanTakeJob, StateType, Pcs
<1>13. CASE DropThenQuiesce
  BY <1>13 DEF DropThenQuiesce, ThreadType, thread, Pcs
<1>14. CASE EndIteration
  BY <1>14 DEF EndIteration, ThreadType, thread, Pcs
<1>15. CASE EnterTest
  BY <1>15 DEF EnterTest, ThreadType, EnterGate, thread, Pcs
<1>16. CASE EnterSubmit
  BY <1>16 DEF EnterSubmit, ThreadType, EnterGate, thread, Pcs
<1>17. CASE SubmitOk
  BY <1>17 DEF SubmitOk, ThreadType, thread, Pcs
<1>18. CASE FlipAcknowledged
  BY <1>18 DEF FlipAcknowledged, ThreadType, Pcs
<1>19. CASE Exit
  BY <1>19, NoneTyped DEF Exit, ThreadType, Pcs, MAX_BUSY_RETRIES, EventKinds
<1>20. CASE RetainJob
  BY <1>20, NoneTyped DEF RetainJob, ThreadType, Pcs
<1>21. CASE PublishEvent
  <2>1. NoEvent \in EventType
    BY Zenon, BareEventTyped DEF NoEvent, EventKinds
  <2>2. ret.ok \in Pcs /\ "markFatal" \in Pcs
    BY Zenon DEF ThreadType, Pcs
  <2> QED
    BY Zenon, <1>21, <2>1, <2>2, NoneTyped DEF PublishEvent, ThreadType
<1>22. CASE WorkerMarkFatal
  <2>1. ret.failed \in Pcs
    BY Zenon DEF ThreadType
  <2> QED
    BY Zenon, <1>22, <2>1, NoneTyped DEF WorkerMarkFatal, ThreadType
<1>23. CASE TakeQuiesced
  <2>1. Event("Quiesced", {} \cup Bundles(queued), SideIds(sidecar)) \in EventType
    BY Zenon, QuiescedEventTyped DEF StateType
  <2>2. "exit" \in Pcs /\ "exit" \in Pcs
    BY Zenon DEF Pcs
  <2>3. out' \in EventType /\ ret' \in [ok : Pcs, failed : Pcs] /\ pc' \in Pcs
    BY Zenon, <1>23, <2>1, <2>2, PublishTyped DEF TakeQuiesced, PublishQuiesced
  <2> QED
    BY Zenon, <1>23, <2>3 DEF TakeQuiesced, ThreadType
<1>24. CASE FlipQuiesced
  <2>1. Event("Quiesced", {} \cup Bundles(queued), SideIds(sidecar)) \in EventType
    BY Zenon, QuiescedEventTyped DEF StateType
  <2>2. "exit" \in Pcs /\ "exit" \in Pcs
    BY Zenon DEF Pcs
  <2>3. out' \in EventType /\ ret' \in [ok : Pcs, failed : Pcs] /\ pc' \in Pcs
    BY Zenon, <1>24, <2>1, <2>2, PublishTyped DEF FlipQuiesced, PublishQuiesced
  <2> QED
    BY Zenon, <1>24, <2>3 DEF FlipQuiesced, ThreadType
<1>25. CASE QuiesceWithJobs
  <2>1. Event("Quiesced", {Bundle(job)} \cup Bundles(queued), SideIds(sidecar)) \in EventType
    <3>1. {Bundle(job)} \in SUBSET BundleType
      BY JobDerivedTyped, Zenon DEF ThreadType
    <3> QED
      BY <3>1, QuiescedEventTyped, Zenon DEF StateType
  <2>2. "exit" \in Pcs /\ "exit" \in Pcs
    BY Zenon DEF Pcs
  <2>3. out' \in EventType /\ ret' \in [ok : Pcs, failed : Pcs] /\ pc' \in Pcs
    BY Zenon, <1>25, <2>1, <2>2, PublishTyped DEF QuiesceWithJobs, PublishQuiesced
  <2> QED
    BY Zenon, <1>25, <2>3, NoneTyped DEF QuiesceWithJobs, ThreadType
<1>26. CASE TakeInvalidated
  <2>1. Event("ValidationBaseInvalidated", {Bundle(Head(queued))}, {}) \in EventType
    BY Zenon, <1>26, HeadTailTyped, JobEventTyped DEF TakeInvalidated, CanTakeJob, StateType, EventKinds
  <2>2. "take" \in Pcs /\ "exit" \in Pcs
    BY Zenon DEF Pcs
  <2>3. out' \in EventType /\ ret' \in [ok : Pcs, failed : Pcs] /\ pc' \in Pcs
    BY Zenon, <1>26, <2>1, <2>2, PublishTyped DEF TakeInvalidated
  <2> QED
    BY Zenon, <1>26, <2>3 DEF TakeInvalidated, ThreadType
<1>27. CASE Transfer
  <2>1. Event("Submitted", {Bundle(job)}, {}) \in EventType
    BY Zenon, JobEventTyped DEF ThreadType, EventKinds
  <2>2. "flip" \in Pcs /\ "exit" \in Pcs
    BY Zenon DEF Pcs
  <2>3. out' \in EventType /\ ret' \in [ok : Pcs, failed : Pcs] /\ pc' \in Pcs
    BY Zenon, <1>27, <2>1, <2>2, PublishTyped DEF Transfer
  <2> QED
    BY <1>27, <2>3, NoneTyped DEF Transfer, ThreadType, MAX_BUSY_RETRIES
<1>28. CASE RejectEvent
  <2>1. Event(verdict, {Bundle(job)}, {}) \in EventType
    BY Zenon, JobEventTyped DEF ThreadType
  <2>2. "drop" \in Pcs /\ "exit" \in Pcs
    BY Zenon DEF Pcs
  <2>3. out' \in EventType /\ ret' \in [ok : Pcs, failed : Pcs] /\ pc' \in Pcs
    BY Zenon, <1>28, <2>1, <2>2, PublishTyped DEF RejectEvent
  <2> QED
    BY <1>28, <2>3, NoneTyped DEF RejectEvent, ThreadType, MAX_BUSY_RETRIES,
       EventKinds
<1>29. CASE TestOnly
  BY <1>29, NoneTyped DEF TestOnly, RetainAfterPanic, ThreadType, Pcs, EventKinds
<1>30. CASE SubmitFailed
  BY Zenon, <1>30, NoneTyped DEF SubmitFailed, RetainAfterPanic, ThreadType, Pcs,
     EventKinds
<1>31. CASE SubmitBusy
  <2>1. CASE ~(retries >= MAX_BUSY_RETRIES)
    <3>1. Event("BusyDeferred", {}, {}) \in EventType
      BY Zenon, BareEventTyped DEF EventKinds
    <3>2. "backoff" \in Pcs /\ "retain" \in Pcs
      BY Zenon DEF Pcs
    <3>3. out' \in EventType /\ ret' \in [ok : Pcs, failed : Pcs] /\ pc' \in Pcs
      BY Zenon, <1>31, <2>1, <3>1, <3>2, PublishTyped DEF SubmitBusy
    <3> QED
      BY <1>31, <2>1, <3>3 DEF SubmitBusy, ThreadType, MAX_BUSY_RETRIES
  <2>2. CASE ~(~(retries >= MAX_BUSY_RETRIES))
    BY Zenon, <1>31, <2>2 DEF SubmitBusy, ThreadType, Pcs, EventKinds, MAX_BUSY_RETRIES
  <2> QED
    BY Zenon, <2>1, <2>2
<1>32. CASE RejectSidecar
  <2>1. CASE MustBundleWith(job)
    <3>1. Event("CursorSidecarReturned", {}, SideIds(sidecar)) \in EventType
      BY Zenon, SideEventTyped DEF StateType
    <3>2. "rejectDeps" \in Pcs /\ "exit" \in Pcs
      BY Zenon DEF Pcs
    <3>3. out' \in EventType /\ ret' \in [ok : Pcs, failed : Pcs] /\ pc' \in Pcs
      BY Zenon, <1>32, <2>1, <3>1, <3>2, PublishTyped DEF RejectSidecar
    <3> QED
      BY Zenon, <1>32, <2>1, <3>3 DEF RejectSidecar, ThreadType
  <2>2. CASE ~(MustBundleWith(job))
    BY Zenon, <1>32, <2>2 DEF RejectSidecar, ThreadType, Pcs
  <2> QED
    BY Zenon, <2>1, <2>2
<1>33. CASE RejectDependents
  <2>1. CASE queued # <<>> /\ Head(queued).base = Predecessor(job)
    <3>1. Event("ValidationBaseInvalidated", {Bundle(Head(queued))}, {}) \in EventType
      BY Zenon, <2>1, HeadTailTyped, JobEventTyped DEF StateType, EventKinds
    <3>2. "rejectEvent" \in Pcs /\ "rejectEvent" \in Pcs
      BY Zenon DEF Pcs
    <3>3. out' \in EventType /\ ret' \in [ok : Pcs, failed : Pcs] /\ pc' \in Pcs
      BY Zenon, <1>33, <2>1, <3>1, <3>2, PublishTyped DEF RejectDependents
    <3> QED
      BY Zenon, <1>33, <2>1, <3>3 DEF RejectDependents, ThreadType
  <2>2. CASE ~(queued # <<>> /\ Head(queued).base = Predecessor(job))
    BY Zenon, <1>33, <2>2 DEF RejectDependents, ThreadType, Pcs
  <2> QED
    BY Zenon, <2>1, <2>2
<1>34. CASE FlipTimeout
  <2>1. CASE inflight # NoJob
    <3>1. Event("PageflipTimeout", {}, {}) \in EventType
      BY Zenon, BareEventTyped DEF EventKinds
    <3>2. "flip" \in Pcs /\ "exit" \in Pcs
      BY Zenon DEF Pcs
    <3>3. out' \in EventType /\ ret' \in [ok : Pcs, failed : Pcs] /\ pc' \in Pcs
      BY Zenon, <1>34, <2>1, <3>1, <3>2, PublishTyped DEF FlipTimeout
    <3> QED
      BY Zenon, <1>34, <2>1, <3>3 DEF FlipTimeout, ThreadType
  <2>2. CASE ~(inflight # NoJob)
    BY Zenon, <1>34, <2>2 DEF FlipTimeout, ThreadType, Pcs
  <2> QED
    BY Zenon, <2>1, <2>2
<1>35. CASE CollectSidecar
  <2>1. job' \in JobType
    <3>1. \/ \E t \in {job.test, TRUE} : job' = AttachSidecar(job, t)
          \/ UNCHANGED job
      BY <1>35, Zenon DEF CollectSidecar
    <3> QED
      BY <3>1, AttachTyped, Zenon DEF StateType, ThreadType
  <2>2. Event("CursorSidecarReturned", {}, SideIds(sidecar)) \in EventType
    BY Zenon, SideEventTyped DEF StateType
  <2>3. "testGate" \in Pcs /\ "submitGate" \in Pcs /\ "dropQuiesce" \in Pcs
    BY Zenon DEF Pcs
  <2>4. \/ \E next \in {"testGate", "submitGate"} :
             Publish(Event("CursorSidecarReturned", {}, SideIds(sidecar)),
                     next, "dropQuiesce")
        \/ UNCHANGED <<out, ret>> /\ pc' \in {"testGate", "submitGate", "dropQuiesce"}
    BY <1>35, Zenon DEF CollectSidecar
  <2>5. out' \in EventType /\ ret' \in [ok : Pcs, failed : Pcs] /\ pc' \in Pcs
    BY Zenon, <2>2, <2>3, <2>4, PublishTyped DEF ThreadType
  <2> QED
    BY <1>35, <2>1, <2>5, Zenon DEF CollectSidecar, ThreadType
<1>36. CASE Joined
  BY Zenon, <1>36, <1>1 DEF Joined, vars
<1> HIDE DEF TypeOK
<1> QED
  BY Zenon, <1>2, <1>3, <1>4, <1>5, <1>6, <1>7, <1>8, <1>9, <1>10, <1>11, <1>12,
     <1>13, <1>14, <1>15, <1>16, <1>17, <1>18, <1>19, <1>20, <1>21, <1>22,
     <1>23, <1>24, <1>25, <1>26, <1>27, <1>28, <1>29, <1>30, <1>31, <1>32,
     <1>33, <1>34, <1>35, <1>36 DEF Next, WorkerStep, Joined

\* What belongs to the compositor thread keeps its types.
LEMMA ClientTyped == ASSUME TypeOK, Next PROVE ClientType'
<1> USE DEF TypeOK
<1>1. ASSUME UNCHANGED client PROVE ClientType'
  BY Zenon, <1>1 DEF ClientType, client
<1>2. CASE WorkerStep
  BY Zenon, <1>2, <1>1, WorkerFrame
<1>3. CASE SpuriousWake \/ CompleteFlip \/ QueueProbe \/ RequestQuiesce \/ Joined
  BY <1>3, <1>1, Zenon DEF SpuriousWake, CompleteFlip, QueueProbe, RequestQuiesce, Joined, vars
<1>4. CASE PlanCommit
  <2>1. PendingBundle \in JobType
    BY Zenon, HeadTailTyped, NoneTyped DEF PendingBundle, StateType
  <2>2. PlannedBase \in BaseType
    BY Zenon, <2>1, JobDerivedTyped, PresentedTyped DEF PlannedBase, ClientType
  <2> QED
    BY Zenon, <1>4, <2>2 DEF PlanCommit, ClientType
<1>5. CASE \E shape \in Shapes : TryReserve(shape)
  BY Zenon, <1>5 DEF TryReserve, ClientType
<1>6. CASE ReserveRefused
  BY Zenon, <1>6 DEF ReserveRefused, ClientType
<1>7. CASE Enqueue
  BY <1>7 DEF Enqueue, ClientType, ReleasePermit
<1>8. CASE EnqueueRefused
  BY Zenon, <1>8 DEF EnqueueRefused, ClientType, ReleasePermit
<1>9. CASE DropPermit
  BY Zenon, <1>9 DEF DropPermit, ClientType, ReleasePermit
<1>10. CASE QuarantineAdmission
  BY Zenon, <1>10 DEF QuarantineAdmission, ClientType, ReleasePermit
<1>11. CASE LookForPrimary
  <2>1. PICK shape \in Shapes :
           LET j == AttachablePrimary(shape.target)
           IN attach' = [id |-> j.id, with |-> j.id, target |-> j.target, base |-> j.base]
    BY <1>11, Zenon DEF LookForPrimary
  <2>2. AttachablePrimary(shape.target) \in JobType
    BY HeadTailTyped, NoneTyped, Zenon DEF AttachablePrimary, StateType
  <2>3. attach' \in SidecarType
    BY Zenon, <2>1, <2>2 DEF JobType, SidecarType
  <2> QED
    BY Zenon, <1>11, <2>3 DEF LookForPrimary, ClientType
<1>12. CASE OfferSidecar
  <2>1. mainSides' \in SUBSET Nat
    BY <1>12, SideIdsTyped, Zenon DEF OfferSidecar, StateType, ClientType
  <2> QED
    BY <1>12, <2>1, NoneTyped DEF OfferSidecar, ClientType
<1>13. CASE OfferRefused
  BY Zenon, <1>13, NoneTyped DEF OfferRefused, ClientType
<1>14. CASE TakeDueSidecar
  <2>1. mainSides' \in SUBSET Nat
    BY <1>14, SideIdsTyped, Zenon DEF TakeDueSidecar, StateType, ClientType
  <2> QED
    BY Zenon, <1>14, <2>1, NoneTyped DEF TakeDueSidecar, ClientType
<1>15. CASE CancelQueued
  <2>1. Head(queued) \in JobType
    BY Zenon, <1>15, HeadTailTyped DEF CancelQueued, StateType
  <2>2. mainJobs' \in SUBSET BundleType
    BY <1>15, <2>1, JobDerivedTyped, Zenon DEF CancelQueued, ClientType
  <2> QED
    BY Zenon, <1>15, <2>2 DEF CancelQueued, ClientType
<1>16. CASE DrainEvents
  <2>1. /\ mainJobs' \in SUBSET BundleType /\ mainSides' \in SUBSET Nat
        /\ owned' \in SUBSET BundleType
    BY <1>16, EventsOwn, Zenon DEF DrainEvents, ResultType, ClientType
  <2> QED
    BY Zenon, <1>16, <2>1 DEF DrainEvents, ClientType
<1>17. CASE AckPageflip
  <2>1. owned' \in SUBSET BundleType
    BY <1>17, Zenon DEF AckPageflip, ClientType
  <2>2. main' \in {"acked", "failed"}
    BY <1>17, AckInflightTyped, Zenon DEF AckPageflip
  <2> QED
    BY Zenon, <1>17, <2>1, <2>2 DEF AckPageflip, ClientType
<1>18. CASE PromotePresented
  BY <1>18 DEF PromotePresented, ClientType
<1>19. CASE FailTransition
  BY Zenon, <1>19 DEF FailTransition, ClientType
<1>20. CASE BeginShutdown
  <2>1. TakeBack
    BY Zenon, <1>20 DEF BeginShutdown
  <2> QED
    BY Zenon, <1>20, <2>1, TakeBackTyped DEF BeginShutdown, ClientType
<1>21. CASE ForceAbandon
  <2>1. CASE TakeBack
    BY Zenon, <1>21, <2>1, TakeBackTyped DEF ForceAbandon, ClientType
  <2>2. CASE mainSides' = mainSides \cup SideIds(sidecar) /\ UNCHANGED mainJobs
    <3>1. mainSides' \in SUBSET Nat
      BY <2>2, SideIdsTyped, Zenon DEF StateType, ClientType
    <3> QED
      BY Zenon, <1>21, <2>2, <3>1 DEF ForceAbandon, ClientType
  <2> QED
    BY <1>21, <2>1, <2>2, Zenon DEF ForceAbandon
<1>22. CASE StartJoin
  BY Zenon, <1>22 DEF StartJoin, ClientType
<1>23. CASE JoinReturns
  <2>1. /\ EventJobs(results) \in SUBSET BundleType /\ EventSides(results) \in SUBSET Nat
        /\ SubmittedIn(results) \in SUBSET BundleType /\ SideIds(sidecar) \in SUBSET Nat
    BY Zenon, EventsOwn, SideIdsTyped DEF ResultType, StateType
  <2>2. mainJobs' \in SUBSET BundleType /\ owned' \in SUBSET BundleType
    BY <1>23, <2>1, Zenon DEF JoinReturns, ResultType, ClientType
  <2>3. mainSides' \in SUBSET Nat
    BY <1>23, <2>1, Zenon DEF JoinReturns, ClientType
  <2> QED
    BY Zenon, <1>23, <2>2, <2>3 DEF JoinReturns, ClientType
<1> HIDE DEF TypeOK
<1> QED
  BY Zenon, <1>2, <1>3, <1>4, <1>5, <1>6, <1>7, <1>8, <1>9, <1>10, <1>11, <1>12,
     <1>13, <1>14, <1>15, <1>16, <1>17, <1>18, <1>19, <1>20, <1>21, <1>22,
     <1>23 DEF Next, MainStep

\* The kernel's view and the history keep their types.
LEMMA DeviceTyped == ASSUME TypeOK, Next PROVE DeviceType'
<1> USE DEF TypeOK
<1>1. ASSUME UNCHANGED device PROVE DeviceType'
  BY Zenon, <1>1 DEF DeviceType, device
<1>2. CASE PublishEvent \/ WorkerMarkFatal \/ TakeStopped \/ TakeQuiesced
            \/ TakeProbe \/ RunProbe \/ TakeInvalidated \/ TakeReady \/
            TakeSleep \/ DeadlineWait \/ CollectSidecar \/ DropThenQuiesce
            \/ QuiesceWithJobs \/ EnterTest \/ TestOnly \/ EnterSubmit \/
            SubmitBusy \/ SubmitFailed \/ Transfer \/ RetainJob \/
            BackoffWait \/ RejectSidecar \/ RejectDependents \/ RejectEvent
            \/ EndIteration \/ FlipQuiesced \/ FlipAcknowledged \/ FlipSleep
            \/ FlipTimeout \/ Exit \/ PlanCommit \/ (\E shape \in Shapes :
            TryReserve(shape)) \/ ReserveRefused \/ Enqueue \/
            EnqueueRefused \/ DropPermit \/ QuarantineAdmission \/
            LookForPrimary \/ OfferSidecar \/ OfferRefused \/ TakeDueSidecar
            \/ CancelQueued \/ QueueProbe \/ DrainEvents \/ PromotePresented
            \/ RequestQuiesce \/ BeginShutdown \/ ForceAbandon \/ StartJoin
            \/ JoinReturns
  BY <1>2, <1>1, ZenonT(60) DEF PublishEvent, WorkerMarkFatal, TakeStopped,
                        TakeQuiesced, TakeProbe, RunProbe, TakeInvalidated,
                        TakeReady, TakeSleep, DeadlineWait, CollectSidecar,
                        DropThenQuiesce, QuiesceWithJobs, EnterTest, TestOnly,
                        EnterSubmit, SubmitBusy, SubmitFailed, Transfer,
                        RetainJob, BackoffWait, RejectSidecar,
                        RejectDependents, RejectEvent, EndIteration,
                        FlipQuiesced, FlipAcknowledged, FlipSleep,
                        FlipTimeout, Exit, PlanCommit, TryReserve,
                        ReserveRefused, Enqueue, EnqueueRefused, DropPermit,
                        QuarantineAdmission, LookForPrimary, OfferSidecar,
                        OfferRefused, TakeDueSidecar, CancelQueued,
                        QueueProbe, DrainEvents, PromotePresented,
                        RequestQuiesce, BeginShutdown, ForceAbandon,
                        StartJoin, JoinReturns, EnterGate
<1>3. CASE SpuriousWake \/ Joined
  BY <1>3, <1>1, Zenon DEF SpuriousWake, Joined, vars
<1>4. CASE SubmitOk
  <2>1. job.id \in Nat
    BY Zenon, FieldsTyped DEF ThreadType
  <2>2. kernel' \in SUBSET Nat
    BY <1>4, <2>1, Zenon DEF SubmitOk, DeviceType
  <2> QED
    BY Zenon, <1>4, <2>1, <2>2 DEF SubmitOk, DeviceType
<1>5. CASE AckPageflip
  <2>1. flips' \in SUBSET Nat /\ shown' \in BundleType
    BY <1>5, Zenon DEF AckPageflip, DeviceType, ClientType
  <2>2. acks' \in Nat
    BY <1>5 DEF AckPageflip, DeviceType
  <2> QED
    BY Zenon, <1>5, <2>1, <2>2 DEF AckPageflip, DeviceType
<1>6. CASE FailTransition
  <2>1. flips' \in SUBSET Nat
    BY <1>6, Zenon DEF FailTransition, DeviceType
  <2> QED
    BY Zenon, <1>6, <2>1 DEF FailTransition, DeviceType
<1>7. CASE CompleteFlip
  <2>1. kernel' \in SUBSET Nat /\ flips' \in SUBSET Nat
    BY <1>7, Zenon DEF CompleteFlip, DeviceType
  <2> QED
    BY Zenon, <1>7, <2>1 DEF CompleteFlip, DeviceType
<1> HIDE DEF TypeOK
<1> QED
  BY ZenonT(60), <1>2, <1>3, <1>4, <1>5, <1>6, <1>7 DEF Next, WorkerStep, MainStep

\* Every step preserves the types.
LEMMA TypeNext == TypeOK /\ [Next]_vars => TypeOK'
<1>1. TypeOK /\ Next => TypeOK'
  BY Zenon, StateTyped, ResultTyped, ThreadTyped, ClientTyped, DeviceTyped DEF TypeOK
<1>2. TypeOK /\ UNCHANGED vars => TypeOK'
  <2> SUFFICES ASSUME TypeOK, UNCHANGED vars PROVE TypeOK'
    BY Zenon
  <2>1. UNCHANGED <<state, gate, results, fatalJobs, pc, thread, client, device>>
    BY Zenon DEF vars
  <2>2. StateType' /\ ResultType'
    BY Zenon, <2>1 DEF TypeOK, StateType, ResultType, state
  <2>3. ThreadType'
    BY Zenon, <2>1 DEF TypeOK, ThreadType, thread
  <2>4. ClientType' /\ DeviceType'
    BY Zenon, <2>1 DEF TypeOK, ClientType, DeviceType, client, device
  <2> QED
    BY Zenon, <2>2, <2>3, <2>4 DEF TypeOK
<1> QED
  BY Zenon, <1>1, <1>2

\* Every variable always has its type, for every bound, every set of shapes
\* and every set of faults.
THEOREM TypeCorrect == Spec => []TypeOK
BY TypeInit, TypeNext, PTL DEF Spec

(***************************************************************************)
(* The submit gate, the in-flight commit and the kernel                    *)
(***************************************************************************)

\* Apart from making it fatal, the compositor changes the lifecycle only while
\* the submit gate is free, and never back to a state in which submissions are
\* tracked.
LEMMA MainLifecycle ==
    ASSUME StateType, MainStep
    PROVE  /\ lifecycle' \in {lifecycle, "Fatal"} \/ gate = "free"
           /\ lifecycle' \in Tracked => lifecycle \in Tracked
<1>1. CASE PlanCommit
  BY Zenon, <1>1 DEF PlanCommit, Tracked, state
<1>2. CASE \E shape \in Shapes : TryReserve(shape)
  BY Zenon, <1>2 DEF TryReserve, Tracked
<1>3. CASE ReserveRefused
  BY Zenon, <1>3 DEF ReserveRefused, Tracked, state
<1>4. CASE Enqueue
  BY Zenon, <1>4 DEF Enqueue, Tracked
<1>5. CASE EnqueueRefused
  BY Zenon, <1>5 DEF EnqueueRefused, Tracked
<1>6. CASE DropPermit
  BY Zenon, <1>6 DEF DropPermit, Tracked
<1>7. CASE QuarantineAdmission
  BY Zenon, <1>7 DEF QuarantineAdmission, Tracked, MarkFatal
<1>8. CASE LookForPrimary
  BY Zenon, <1>8 DEF LookForPrimary, Tracked, state
<1>9. CASE OfferSidecar
  BY Zenon, <1>9 DEF OfferSidecar, Tracked
<1>10. CASE OfferRefused
  BY Zenon, <1>10 DEF OfferRefused, Tracked, state
<1>11. CASE TakeDueSidecar
  BY Zenon, <1>11 DEF TakeDueSidecar, Tracked
<1>12. CASE CancelQueued
  BY Zenon, <1>12 DEF CancelQueued, Tracked
<1>13. CASE QueueProbe
  BY Zenon, <1>13 DEF QueueProbe, Tracked
<1>14. CASE DrainEvents
  BY Zenon, <1>14 DEF DrainEvents, Tracked, state
<1>15. CASE AckPageflip
  BY Zenon, <1>15 DEF AckPageflip, Tracked, AckInflight, MarkFatal
<1>16. CASE PromotePresented
  BY Zenon, <1>16 DEF PromotePresented, Tracked
<1>17. CASE FailTransition
  BY Zenon, <1>17 DEF FailTransition, Tracked, MarkFatal
<1>18. CASE RequestQuiesce
  BY Zenon, <1>18 DEF RequestQuiesce, Tracked, Quiesced
<1>19. CASE BeginShutdown
  BY Zenon, <1>19 DEF BeginShutdown, Tracked, StateType, Lifecycles
<1>20. CASE ForceAbandon
  BY Zenon, <1>20 DEF ForceAbandon, Tracked
<1>21. CASE StartJoin
  BY Zenon, <1>21 DEF StartJoin, Tracked, Quiesced
<1>22. CASE JoinReturns
  BY Zenon, <1>22 DEF JoinReturns, Tracked
<1> QED
  BY ZenonT(60), <1>1, <1>2, <1>3, <1>4, <1>5, <1>6, <1>7, <1>8, <1>9, <1>10, <1>11,
     <1>12, <1>13, <1>14, <1>15, <1>16, <1>17, <1>18, <1>19, <1>20, <1>21,
     <1>22 DEF MainStep

\* The compositor never puts a commit in flight.
LEMMA MainInflight ==
    ASSUME MainStep
    PROVE  inflight' \in {inflight, NoJob}
<1>1. CASE PlanCommit
  BY Zenon, <1>1 DEF PlanCommit, state
<1>2. CASE \E shape \in Shapes : TryReserve(shape)
  BY Zenon, <1>2 DEF TryReserve
<1>3. CASE ReserveRefused
  BY Zenon, <1>3 DEF ReserveRefused, state
<1>4. CASE Enqueue
  BY Zenon, <1>4 DEF Enqueue
<1>5. CASE EnqueueRefused
  BY Zenon, <1>5 DEF EnqueueRefused
<1>6. CASE DropPermit
  BY Zenon, <1>6 DEF DropPermit
<1>7. CASE QuarantineAdmission
  BY Zenon, <1>7 DEF QuarantineAdmission
<1>8. CASE LookForPrimary
  BY Zenon, <1>8 DEF LookForPrimary, state
<1>9. CASE OfferSidecar
  BY Zenon, <1>9 DEF OfferSidecar
<1>10. CASE OfferRefused
  BY Zenon, <1>10 DEF OfferRefused, state
<1>11. CASE TakeDueSidecar
  BY Zenon, <1>11 DEF TakeDueSidecar
<1>12. CASE CancelQueued
  BY Zenon, <1>12 DEF CancelQueued
<1>13. CASE QueueProbe
  BY Zenon, <1>13 DEF QueueProbe
<1>14. CASE DrainEvents
  BY Zenon, <1>14 DEF DrainEvents, state
<1>15. CASE AckPageflip
  BY Zenon, <1>15 DEF AckPageflip, AckInflight
<1>16. CASE PromotePresented
  BY Zenon, <1>16 DEF PromotePresented
<1>17. CASE FailTransition
  BY Zenon, <1>17 DEF FailTransition
<1>18. CASE RequestQuiesce
  BY Zenon, <1>18 DEF RequestQuiesce
<1>19. CASE BeginShutdown
  BY Zenon, <1>19 DEF BeginShutdown
<1>20. CASE ForceAbandon
  BY Zenon, <1>20 DEF ForceAbandon
<1>21. CASE StartJoin
  BY Zenon, <1>21 DEF StartJoin
<1>22. CASE JoinReturns
  BY Zenon, <1>22 DEF JoinReturns
<1> QED
  BY Zenon, <1>1, <1>2, <1>3, <1>4, <1>5, <1>6, <1>7, <1>8, <1>9, <1>10, <1>11,
     <1>12, <1>13, <1>14, <1>15, <1>16, <1>17, <1>18, <1>19, <1>20, <1>21,
     <1>22 DEF MainStep

\* The compositor only ever removes completions it has handled.
LEMMA MainKernel ==
    ASSUME MainStep
    PROVE  kernel' = kernel /\ flips' \subseteq flips
<1>1. CASE PlanCommit
  BY Zenon, <1>1 DEF PlanCommit, device
<1>2. CASE \E shape \in Shapes : TryReserve(shape)
  BY Zenon, <1>2 DEF TryReserve, device
<1>3. CASE ReserveRefused
  BY Zenon, <1>3 DEF ReserveRefused, device
<1>4. CASE Enqueue
  BY Zenon, <1>4 DEF Enqueue, device
<1>5. CASE EnqueueRefused
  BY Zenon, <1>5 DEF EnqueueRefused, device
<1>6. CASE DropPermit
  BY Zenon, <1>6 DEF DropPermit, device
<1>7. CASE QuarantineAdmission
  BY Zenon, <1>7 DEF QuarantineAdmission, device
<1>8. CASE LookForPrimary
  BY Zenon, <1>8 DEF LookForPrimary, device
<1>9. CASE OfferSidecar
  BY Zenon, <1>9 DEF OfferSidecar, device
<1>10. CASE OfferRefused
  BY Zenon, <1>10 DEF OfferRefused, device
<1>11. CASE TakeDueSidecar
  BY Zenon, <1>11 DEF TakeDueSidecar, device
<1>12. CASE CancelQueued
  BY Zenon, <1>12 DEF CancelQueued, device
<1>13. CASE QueueProbe
  BY Zenon, <1>13 DEF QueueProbe, device
<1>14. CASE DrainEvents
  BY Zenon, <1>14 DEF DrainEvents, device
<1>15. CASE AckPageflip
  BY Zenon, <1>15 DEF AckPageflip
<1>16. CASE PromotePresented
  BY Zenon, <1>16 DEF PromotePresented, device
<1>17. CASE FailTransition
  BY Zenon, <1>17 DEF FailTransition
<1>18. CASE RequestQuiesce
  BY Zenon, <1>18 DEF RequestQuiesce, device
<1>19. CASE BeginShutdown
  BY Zenon, <1>19 DEF BeginShutdown, device
<1>20. CASE ForceAbandon
  BY Zenon, <1>20 DEF ForceAbandon, device
<1>21. CASE StartJoin
  BY Zenon, <1>21 DEF StartJoin, device
<1>22. CASE JoinReturns
  BY ZenonT(60), <1>22 DEF JoinReturns, device
<1> QED
  BY Zenon, <1>1, <1>2, <1>3, <1>4, <1>5, <1>6, <1>7, <1>8, <1>9, <1>10, <1>11,
     <1>12, <1>13, <1>14, <1>15, <1>16, <1>17, <1>18, <1>19, <1>20, <1>21,
     <1>22 DEF MainStep

\* Who holds the submit gate, action by action.
LEMMA GateStep ==
    ASSUME TypeOK, GateInv, Next PROVE GateInv'
<1> USE DEF GateInv, Gated, Reporting
<1>1. CASE MainStep
  <2>1. /\ UNCHANGED <<gate, ret>> /\ pc' \in {pc, Woken}
        /\ lifecycle' \in {lifecycle, "Fatal"} \/ gate = "free"
    BY Zenon, <1>1, MainFrame, MainLifecycle DEF thread, TypeOK
  <2> QED
    BY Zenon, <2>1 DEF Woken
<1>2. CASE SpuriousWake
  BY Zenon, <1>2 DEF SpuriousWake, Woken, state, thread
<1>3. CASE CompleteFlip \/ Joined
  BY Zenon, <1>3 DEF CompleteFlip, Joined, vars, state, thread
<1>4. CASE PublishEvent
  BY <1>4 DEF PublishEvent, NoReturn, state
<1>5. CASE WorkerMarkFatal
  BY Zenon, <1>5 DEF WorkerMarkFatal, MarkFatal, NoReturn
<1>6. CASE TakeStopped
  BY Zenon, <1>6 DEF TakeStopped, state, thread
<1>7. CASE TakeQuiesced
  BY Zenon, <1>7 DEF TakeQuiesced, PublishQuiesced, Publish
<1>8. CASE TakeProbe
  BY Zenon, <1>8 DEF TakeProbe, thread
<1>9. CASE RunProbe
  BY Zenon, <1>9 DEF RunProbe, thread
<1>10. CASE TakeInvalidated
  BY Zenon, <1>10 DEF TakeInvalidated, CanTakeJob, Publish
<1>11. CASE TakeReady
  BY Zenon, <1>11 DEF TakeReady, CanTakeJob
<1>12. CASE TakeSleep
  BY Zenon, <1>12 DEF TakeSleep, state, thread
<1>13. CASE DeadlineWait
  BY Zenon, <1>13 DEF DeadlineWait, state, thread
<1>14. CASE CollectSidecar
  <2>1. UNCHANGED <<lifecycle, gate>> /\ pc = "collect"
    BY <1>14, Zenon DEF CollectSidecar
  <2>2. pc' \in {"testGate", "submitGate", "dropQuiesce", "publish"}
    BY <1>14, Zenon DEF CollectSidecar, Publish
  <2>3. \/ UNCHANGED ret
        \/ \E next \in {"testGate", "submitGate"} :
             ret' = [ok |-> next, failed |-> "dropQuiesce"]
    BY <1>14, Zenon DEF CollectSidecar, Publish
  <2> QED
    BY <2>1, <2>2, <2>3
<1>15. CASE DropThenQuiesce
  BY Zenon, <1>15 DEF DropThenQuiesce, thread
<1>16. CASE QuiesceWithJobs
  BY Zenon, <1>16 DEF QuiesceWithJobs, PublishQuiesced, Publish
<1>17. CASE EnterTest
  BY ZenonT(60), <1>17 DEF EnterTest, EnterGate, thread
<1>18. CASE TestOnly
  BY <1>18 DEF TestOnly, RetainAfterPanic, NoReturn, state
<1>19. CASE EnterSubmit
  BY Zenon, <1>19 DEF EnterSubmit, EnterGate, thread
<1>20. CASE SubmitOk
  BY ZenonT(60), <1>20 DEF SubmitOk, state, thread
<1>21. CASE SubmitBusy
  BY <1>21 DEF SubmitBusy, Publish, state
<1>22. CASE SubmitFailed
  BY <1>22 DEF SubmitFailed, RetainAfterPanic, NoReturn, state
<1>23. CASE Transfer
  BY Zenon, <1>23 DEF Transfer, Publish
<1>24. CASE RetainJob
  BY Zenon, <1>24 DEF RetainJob, state
<1>25. CASE BackoffWait
  BY ZenonT(60), <1>25 DEF BackoffWait, state, thread
<1>26. CASE RejectSidecar
  BY <1>26 DEF RejectSidecar, Publish
<1>27. CASE RejectDependents
  BY <1>27 DEF RejectDependents, Publish
<1>28. CASE RejectEvent
  BY Zenon, <1>28 DEF RejectEvent, Publish, state
<1>29. CASE EndIteration
  BY Zenon, <1>29 DEF EndIteration, thread
<1>30. CASE FlipQuiesced
  BY Zenon, <1>30 DEF FlipQuiesced, PublishQuiesced, Publish
<1>31. CASE FlipAcknowledged
  BY Zenon, <1>31 DEF FlipAcknowledged, state
<1>32. CASE FlipSleep
  BY ZenonT(60), <1>32 DEF FlipSleep, state, thread
<1>33. CASE FlipTimeout
  BY <1>33 DEF FlipTimeout, Publish, state
<1>34. CASE Exit
  BY ZenonT(60), <1>34 DEF Exit
<1> HIDE DEF GateInv, Gated, Reporting
<1> QED
  BY Zenon, <1>1, <1>2, <1>3, <1>4, <1>5, <1>6, <1>7, <1>8, <1>9, <1>10, <1>11,
     <1>12, <1>13, <1>14, <1>15, <1>16, <1>17, <1>18, <1>19, <1>20, <1>21,
     <1>22, <1>23, <1>24, <1>25, <1>26, <1>27, <1>28, <1>29, <1>30, <1>31,
     <1>32, <1>33, <1>34 DEF Next, WorkerStep

\* Dequeuing keeps the numbers of the commits that stay.
LEMMA TailPositive ==
    ASSUME StateType, QueueInv, queued # <<>>, queued' = Tail(queued)
    PROVE  QueueInv' /\ Head(queued).id > 0
BY DEF StateType, QueueInv

\* Enqueuing numbers the commit it adds.
LEMMA AppendPositive ==
    ASSUME StateType, QueueInv, NEW j, j.id > 0, queued' = Append(queued, j)
    PROVE  QueueInv'
<1>1. queued \in Seq(JobType)
  BY Zenon DEF StateType
<1>2. \A i \in DOMAIN queued' : (i \in DOMAIN queued /\ queued'[i] = queued[i]) \/ queued'[i] = j
  BY <1>1
<1> QED
  BY Zenon, <1>2 DEF QueueInv

\* Accepted commits are numbered from 1.
LEMMA QueueStep ==
    ASSUME TypeOK, QueueInv, Next PROVE QueueInv'
<1> USE DEF TypeOK
<1>1. ASSUME UNCHANGED queued PROVE QueueInv'
  BY Zenon, <1>1 DEF QueueInv
<1>2. ASSUME queued' = <<>> PROVE QueueInv'
  BY <1>2 DEF QueueInv
<1>3. ASSUME NEW evs, MarkFatal(evs) PROVE QueueInv'
  BY Zenon, <1>1, <1>2, <1>3 DEF MarkFatal
<1>4. ASSUME TakeBack PROVE QueueInv'
  BY ZenonT(60), <1>1, <1>4, TailPositive DEF TakeBack
<1>5. CASE PublishEvent \/ TakeStopped \/ TakeProbe \/ RunProbe \/
            TakeSleep \/ DeadlineWait \/ CollectSidecar \/ DropThenQuiesce
            \/ EnterTest \/ TestOnly \/ EnterSubmit \/ SubmitOk \/
            SubmitBusy \/ SubmitFailed \/ Transfer \/ RetainJob \/
            BackoffWait \/ RejectSidecar \/ RejectEvent \/ EndIteration \/
            FlipAcknowledged \/ FlipSleep \/ FlipTimeout \/ Exit \/
            PlanCommit \/ (\E shape \in Shapes : TryReserve(shape)) \/
            ReserveRefused \/ EnqueueRefused \/ DropPermit \/ LookForPrimary
            \/ OfferSidecar \/ OfferRefused \/ TakeDueSidecar \/ QueueProbe
            \/ DrainEvents \/ PromotePresented \/ RequestQuiesce \/
            StartJoin \/ JoinReturns \/ SpuriousWake \/ CompleteFlip \/
            Joined
  BY <1>5, <1>1, ZenonT(60) DEF PublishEvent, TakeStopped, TakeProbe, RunProbe,
                        TakeSleep, DeadlineWait, CollectSidecar,
                        DropThenQuiesce, EnterTest, TestOnly, EnterSubmit,
                        SubmitOk, SubmitBusy, SubmitFailed, Transfer,
                        RetainJob, BackoffWait, RejectSidecar, RejectEvent,
                        EndIteration, FlipAcknowledged, FlipSleep,
                        FlipTimeout, Exit, PlanCommit, TryReserve,
                        ReserveRefused, EnqueueRefused, DropPermit,
                        LookForPrimary, OfferSidecar, OfferRefused,
                        TakeDueSidecar, QueueProbe, DrainEvents,
                        PromotePresented, RequestQuiesce, StartJoin,
                        JoinReturns, SpuriousWake, CompleteFlip, Joined, vars,
                        state, EnterGate
<1>6. CASE WorkerMarkFatal \/ QuarantineAdmission \/ FailTransition
  BY <1>6, <1>3, Zenon DEF WorkerMarkFatal, QuarantineAdmission, FailTransition
<1>7. CASE TakeQuiesced \/ QuiesceWithJobs \/ FlipQuiesced
  BY <1>7, <1>2, Zenon DEF TakeQuiesced, QuiesceWithJobs, FlipQuiesced, PublishQuiesced
<1>8. CASE TakeInvalidated \/ TakeReady \/ CancelQueued
  BY <1>8, TailPositive, Zenon DEF TakeInvalidated, TakeReady, CancelQueued, CanTakeJob
<1>9. CASE RejectDependents
  BY <1>9, <1>1, TailPositive, ZenonT(60) DEF RejectDependents
<1>10. CASE Enqueue
  <2>1. PICK j : queued' = Append(queued, j) /\ j.id = jobCount + 1
    BY <1>10 DEF Enqueue
  <2>2. jobCount \in Nat
    BY Zenon DEF ClientType
  <2>3. \A n \in Nat : n + 1 > 0
    OBVIOUS
  <2> QED
    BY Zenon, <2>1, <2>2, <2>3, AppendPositive
<1>11. CASE AckPageflip
  BY <1>11, <1>1, <1>3, Zenon DEF AckPageflip, AckInflight
<1>12. CASE BeginShutdown \/ ForceAbandon
  BY <1>12, <1>1, <1>4, ZenonT(60) DEF BeginShutdown, ForceAbandon
<1> HIDE DEF TypeOK
<1> QED
  BY Zenon, <1>5, <1>6, <1>7, <1>8, <1>9, <1>10, <1>11, <1>12 DEF Next, WorkerStep,
     MainStep

\* A commit in hand excludes one in flight, action by action.
LEMMA HandStep ==
    ASSUME TypeOK, GateInv, QueueInv, HandInv, Next PROVE HandInv'
<1> USE DEF HandInv, Holding, InHand, Reporting
<1>1. ASSUME UNCHANGED thread, pc' \in {pc, Woken}, inflight' \in {inflight, NoJob}
      PROVE  HandInv'
  BY Zenon, <1>1 DEF thread, Woken
<1>2. CASE MainStep
  BY Zenon, <1>2, <1>1, MainFrame, MainInflight
<1>3. CASE SpuriousWake \/ CompleteFlip \/ Joined
  BY Zenon, <1>3, <1>1 DEF SpuriousWake, CompleteFlip, Joined, vars, state
<1>4. CASE PublishEvent
  BY <1>4 DEF PublishEvent, NoReturn, state
<1>5. CASE WorkerMarkFatal
  BY Zenon, <1>5 DEF WorkerMarkFatal, NoReturn
<1>6. CASE TakeStopped
  BY Zenon, <1>6 DEF TakeStopped, state, thread
<1>7. CASE TakeQuiesced
  BY Zenon, <1>7 DEF TakeQuiesced, PublishQuiesced, Publish
<1>8. CASE TakeProbe
  BY Zenon, <1>8 DEF TakeProbe, thread
<1>9. CASE RunProbe
  BY Zenon, <1>9 DEF RunProbe, thread
<1>10. CASE TakeInvalidated
  BY Zenon, <1>10 DEF TakeInvalidated, CanTakeJob, Publish
<1>11. CASE TakeReady
  <2>1. job' = Head(queued) /\ queued # <<>> /\ inflight' = NoJob /\ queued' = Tail(queued)
    BY Zenon, <1>11 DEF TakeReady, CanTakeJob
  <2> QED
    BY Zenon, <2>1, TailPositive DEF TypeOK
<1>12. CASE TakeSleep
  BY Zenon, <1>12 DEF TakeSleep, state, thread
<1>13. CASE DeadlineWait
  BY Zenon, <1>13 DEF DeadlineWait, state, thread
<1>14. CASE CollectSidecar
  <2>1. (job').id = job.id
    <3>1. \/ \E t : job' = AttachSidecar(job, t)
          \/ UNCHANGED job
      BY <1>14, Zenon DEF CollectSidecar
    <3> QED
      BY <3>1, Zenon DEF AttachSidecar, TypeOK, ThreadType, JobType
  <2>2. pc = "collect" /\ UNCHANGED inflight
    BY <1>14, Zenon DEF CollectSidecar
  <2> QED
    BY Zenon, <2>1, <2>2
<1>15. CASE DropThenQuiesce
  BY Zenon, <1>15 DEF DropThenQuiesce, thread
<1>16. CASE QuiesceWithJobs
  BY Zenon, <1>16 DEF QuiesceWithJobs, PublishQuiesced, Publish
<1>17. CASE EnterTest
  BY Zenon, <1>17 DEF EnterTest, EnterGate, thread
<1>18. CASE TestOnly
  BY <1>18 DEF TestOnly, RetainAfterPanic, NoReturn, state
<1>19. CASE EnterSubmit
  BY Zenon, <1>19 DEF EnterSubmit, EnterGate, thread
<1>20. CASE SubmitOk
  BY Zenon, <1>20 DEF SubmitOk, state, thread
<1>21. CASE SubmitBusy
  BY Zenon, <1>21 DEF SubmitBusy, Publish, state
<1>22. CASE SubmitFailed
  BY <1>22 DEF SubmitFailed, RetainAfterPanic, NoReturn, state
<1>23. CASE Transfer
  BY Zenon, <1>23 DEF Transfer, Publish
<1>24. CASE RetainJob
  BY Zenon, <1>24 DEF RetainJob, state
<1>25. CASE BackoffWait
  BY Zenon, <1>25 DEF BackoffWait, state, thread
<1>26. CASE RejectSidecar
  BY Zenon, <1>26 DEF RejectSidecar, Publish
<1>27. CASE RejectDependents
  BY Zenon, <1>27 DEF RejectDependents, Publish
<1>28. CASE RejectEvent
  BY Zenon, <1>28 DEF RejectEvent, Publish, state
<1>29. CASE EndIteration
  BY Zenon, <1>29 DEF EndIteration, thread
<1>30. CASE FlipQuiesced
  BY Zenon, <1>30 DEF FlipQuiesced, PublishQuiesced, Publish
<1>31. CASE FlipAcknowledged
  BY Zenon, <1>31 DEF FlipAcknowledged, state
<1>32. CASE FlipSleep
  BY Zenon, <1>32 DEF FlipSleep, state, thread
<1>33. CASE FlipTimeout
  BY <1>33 DEF FlipTimeout, Publish, state
<1>34. CASE Exit
  BY Zenon, <1>34 DEF Exit
<1> HIDE DEF HandInv, Holding, InHand, Reporting
<1> QED
  BY Zenon, <1>2, <1>3, <1>4, <1>5, <1>6, <1>7, <1>8, <1>9, <1>10, <1>11, <1>12,
     <1>13, <1>14, <1>15, <1>16, <1>17, <1>18, <1>19, <1>20, <1>21, <1>22,
     <1>23, <1>24, <1>25, <1>26, <1>27, <1>28, <1>29, <1>30, <1>31, <1>32,
     <1>33, <1>34 DEF Next, WorkerStep

\* What the kernel has is what the shared state says, action by action.
LEMMA KernelStep ==
    ASSUME TypeOK, GateInv, HandInv, KernelInv, Next PROVE KernelInv'
<1>1. ASSUME UNCHANGED <<lifecycle, inflight, kernel, flips>>,
             pc' \notin {"ioctl", "transfer"}, pc # "transfer"
      PROVE  KernelInv'
  BY Zenon, <1>1 DEF KernelInv
<1>2. ASSUME lifecycle' \notin Tracked, kernel' = kernel, flips' = flips, pc' # "ioctl"
      PROVE  KernelInv'
  BY Zenon, <1>2 DEF KernelInv
<1>3. CASE MainStep
  <2>1. /\ kernel' = kernel /\ flips' \subseteq flips
        /\ job' = job /\ (pc' = "ioctl" <=> pc = "ioctl")
        /\ (pc' = "transfer" <=> pc = "transfer")
        /\ lifecycle' \in Tracked => lifecycle \in Tracked
    BY Zenon, <1>3, MainKernel, MainFrame, MainLifecycle DEF thread, Woken, TypeOK
  <2>2. CASE UNCHANGED inflight
    BY Zenon, <2>1, <2>2 DEF KernelInv
  <2>3. CASE lifecycle' \notin Tracked
    BY Zenon, <2>1, <2>3 DEF KernelInv
  <2>4. CASE AckPageflip /\ lifecycle' \in Tracked /\ inflight' # inflight
    <3>1. PICK b \in owned : /\ flips' = flips \ {b.n} /\ b.n \in flips
                             /\ inflight # NoJob /\ Bundle(inflight) = b
      BY <2>4, Zenon DEF AckPageflip
    <3>2. pc # "transfer"
      BY Zenon, <3>1 DEF HandInv, Holding, InHand
    <3>3. \A n \in kernel \cup flips : n = b.n
      BY Zenon, <2>1, <2>4, <3>1, <3>2 DEF KernelInv, Bundle
    <3>4. kernel = {} /\ flips' = {}
      BY Zenon, <3>1, <3>3 DEF KernelInv
    <3> QED
      BY Zenon, <2>1, <3>4 DEF KernelInv
  <2>5. CASE ForceAbandon /\ lifecycle' \in Tracked
    BY Zenon, <2>2, <2>5 DEF ForceAbandon, Tracked
  <2> QED
    BY <1>3, <2>2, <2>3, <2>4, <2>5, Zenon DEF MainStep, PlanCommit, TryReserve,
       ReserveRefused, Enqueue, EnqueueRefused, DropPermit,
       QuarantineAdmission, LookForPrimary, OfferSidecar, OfferRefused,
       TakeDueSidecar, CancelQueued, QueueProbe, DrainEvents,
       PromotePresented, FailTransition, RequestQuiesce, BeginShutdown,
       StartJoin, JoinReturns, state
<1>4. CASE SpuriousWake
  BY Zenon, <1>4, <1>1 DEF SpuriousWake, Woken, state, device
<1>5. CASE CompleteFlip
  <2>1. PICK n \in kernel : kernel' = kernel \ {n} /\ flips' = flips \cup {n}
    BY Zenon, <1>5 DEF CompleteFlip
  <2>2. UNCHANGED <<lifecycle, inflight, pc, job>>
    BY Zenon, <1>5 DEF CompleteFlip, state, thread
  <2> QED
    BY Zenon, <2>1, <2>2 DEF KernelInv
<1>6. CASE Joined
  BY Zenon, <1>6 DEF Joined, vars, state, thread, device, KernelInv
<1>7. CASE TakeQuiesced \/ QuiesceWithJobs \/ FlipQuiesced
  BY <1>7, <1>2, Zenon DEF TakeQuiesced, QuiesceWithJobs, FlipQuiesced, PublishQuiesced, Publish,
                 Tracked, device
<1>8. CASE WorkerMarkFatal
  <2>1. lifecycle' = "Fatal" /\ UNCHANGED device
    BY Zenon, <1>8 DEF WorkerMarkFatal, MarkFatal
  <2>2. pc' # "ioctl"
    BY Zenon, <1>8 DEF WorkerMarkFatal, GateInv, Gated
  <2> QED
    BY Zenon, <2>1, <2>2, <1>2 DEF Tracked, device
<1>9. CASE PublishEvent
  BY Zenon, <1>9, <1>1 DEF PublishEvent, GateInv, Gated, state, device
<1>10. CASE EnterSubmit
  <2>1. UNCHANGED <<lifecycle, inflight, kernel, flips>> /\ pc = "submitGate"
    BY Zenon, <1>10 DEF EnterSubmit, EnterGate, device
  <2>2. CASE lifecycle = "Running"
    <3>1. inflight.id = 0
      BY <2>1 DEF HandInv, Holding, InHand, NoJob
    <3>2. kernel = {} /\ flips = {}
      BY Zenon, <2>1, <2>2, <3>1 DEF KernelInv, Tracked
    <3> QED
      BY Zenon, <2>1, <3>2 DEF KernelInv
  <2>3. CASE lifecycle # "Running"
    BY Zenon, <1>10, <2>1, <2>3, <1>1 DEF EnterSubmit, EnterGate
  <2> QED
    BY Zenon, <2>2, <2>3
<1>11. CASE SubmitOk
  <2>1. job.id > 0 /\ kernel = {} /\ flips = {}
    BY Zenon, <1>11 DEF SubmitOk, HandInv, Holding, InHand, KernelInv
  <2>2. kernel' = {job.id} /\ flips' = {} /\ pc' = "transfer" /\ UNCHANGED job
    BY Zenon, <1>11, <2>1 DEF SubmitOk, thread
  <2> QED
    BY <2>1, <2>2 DEF KernelInv
<1>12. CASE Transfer
  <2>1. /\ UNCHANGED <<lifecycle, kernel, flips>> /\ pc = "transfer"
        /\ inflight' = job /\ pc' = "publish"
    BY Zenon, <1>12 DEF Transfer, Publish, device
  <2> QED
    BY Zenon, <2>1 DEF KernelInv
<1>13. CASE TakeStopped
  BY Zenon, <1>13, <1>1 DEF TakeStopped, state, device
<1>14. CASE TakeProbe
  BY Zenon, <1>14, <1>1 DEF TakeProbe, device
<1>15. CASE RunProbe
  BY Zenon, <1>15, <1>1 DEF RunProbe, device
<1>16. CASE TakeInvalidated
  BY Zenon, <1>16, <1>1 DEF TakeInvalidated, CanTakeJob, Publish, device
<1>17. CASE TakeReady
  BY Zenon, <1>17, <1>1 DEF TakeReady, CanTakeJob, device
<1>18. CASE TakeSleep
  BY Zenon, <1>18, <1>1 DEF TakeSleep, state, device
<1>19. CASE DeadlineWait
  BY Zenon, <1>19, <1>1 DEF DeadlineWait, state, device
<1>20. CASE CollectSidecar
  BY <1>20, <1>1, Zenon DEF CollectSidecar, Publish, device
<1>21. CASE DropThenQuiesce
  BY Zenon, <1>21, <1>1 DEF DropThenQuiesce, device
<1>22. CASE EnterTest
  BY Zenon, <1>22, <1>1 DEF EnterTest, EnterGate, device
<1>23. CASE TestOnly
  BY Zenon, <1>23, <1>1 DEF TestOnly, RetainAfterPanic, state, device
<1>24. CASE SubmitBusy
  BY Zenon, <1>24, <1>1 DEF SubmitBusy, Publish, state, device
<1>25. CASE SubmitFailed
  BY Zenon, <1>25, <1>1 DEF SubmitFailed, RetainAfterPanic, state, device
<1>26. CASE RetainJob
  BY Zenon, <1>26, <1>1 DEF RetainJob, state, device
<1>27. CASE BackoffWait
  BY Zenon, <1>27, <1>1 DEF BackoffWait, state, device
<1>28. CASE RejectSidecar
  BY Zenon, <1>28, <1>1 DEF RejectSidecar, Publish, device
<1>29. CASE RejectDependents
  BY Zenon, <1>29, <1>1 DEF RejectDependents, Publish, device
<1>30. CASE RejectEvent
  BY Zenon, <1>30, <1>1 DEF RejectEvent, Publish, state, device
<1>31. CASE EndIteration
  BY Zenon, <1>31, <1>1 DEF EndIteration, device
<1>32. CASE FlipAcknowledged
  BY Zenon, <1>32, <1>1 DEF FlipAcknowledged, state, device
<1>33. CASE FlipSleep
  BY Zenon, <1>33, <1>1 DEF FlipSleep, state, device
<1>34. CASE FlipTimeout
  BY Zenon, <1>34, <1>1 DEF FlipTimeout, Publish, state, device
<1>35. CASE Exit
  BY Zenon, <1>35, <1>1 DEF Exit, device
<1> QED
  BY Zenon, <1>3, <1>4, <1>5, <1>6, <1>7, <1>8, <1>9, <1>10, <1>11, <1>12, <1>13,
     <1>14, <1>15, <1>16, <1>17, <1>18, <1>19, <1>20, <1>21, <1>22, <1>23,
     <1>24, <1>25, <1>26, <1>27, <1>28, <1>29, <1>30, <1>31, <1>32, <1>33,
     <1>34, <1>35 DEF Next, WorkerStep

\* The strengthening is inductive.
LEMMA SubmissionInductive == TypeOK /\ SubmissionInv /\ [Next]_vars => SubmissionInv'
<1>1. TypeOK /\ SubmissionInv /\ Next => SubmissionInv'
  BY Zenon, GateStep, QueueStep, HandStep, KernelStep DEF SubmissionInv
<1>2. SubmissionInv /\ UNCHANGED vars => SubmissionInv'
  <2> SUFFICES ASSUME SubmissionInv, UNCHANGED vars PROVE SubmissionInv'
    BY Zenon
  <2>1. UNCHANGED <<lifecycle, queued, inflight, gate, pc, job, ret, kernel, flips>>
    BY Zenon DEF vars, state, thread, device
  <2>2. GateInv' /\ QueueInv'
    BY Zenon, <2>1 DEF SubmissionInv, GateInv, QueueInv
  <2>3. HandInv'
    BY Zenon, <2>1 DEF SubmissionInv, HandInv, Holding
  <2>4. KernelInv'
    BY Zenon, <2>1 DEF SubmissionInv, KernelInv
  <2> QED
    BY Zenon, <2>2, <2>3, <2>4 DEF SubmissionInv
<1> QED
  BY Zenon, <1>1, <1>2

\* The strengthening holds at the start.
LEMMA SubmissionInit == Init => SubmissionInv
<1> SUFFICES ASSUME Init PROVE SubmissionInv
  BY Zenon
<1>1. GateInv
  BY Zenon DEF Init, GateInv, Gated, Reporting, NoReturn
<1>2. HandInv /\ QueueInv
  BY DEF Init, HandInv, QueueInv, Holding, InHand, Reporting
<1>3. KernelInv
  BY Zenon DEF Init, KernelInv
<1> QED
  BY Zenon, <1>1, <1>2, <1>3 DEF SubmissionInv

\* The strengthening holds always.
THEOREM SubmissionSafe == Spec => []SubmissionInv
<1>1. TypeOK /\ SubmissionInv /\ [Next]_vars => (TypeOK /\ SubmissionInv)'
  BY Zenon, TypeNext, SubmissionInductive
<1> QED
  BY <1>1, TypeInit, SubmissionInit, PTL DEF Spec

\* The ioctl is never entered while an earlier commit is in the kernel, is
\* complete but not handled, or waits for its acknowledgement: the worker
\* submits one commit at a time whatever the compositor and the kernel do.
THEOREM SubmissionExclusive == Spec => []SubmitExclusive
<1>1. SubmissionInv => SubmitExclusive
  BY Zenon DEF SubmissionInv, HandInv, KernelInv, InHand, Holding, SubmitExclusive
<1> QED
  BY <1>1, SubmissionSafe, PTL

\* After any call that stops the worker has returned no ioctl runs, and the
\* in-flight slot names everything the kernel still has.
THEOREM StopComplete == Spec => []StopSeesSubmission
<1>1. SubmissionInv => StopSeesSubmission
  BY Zenon DEF SubmissionInv, GateInv, KernelInv, Gated, Tracked, Exiting, StopSeesSubmission
<1> QED
  BY <1>1, SubmissionSafe, PTL

(***************************************************************************)
(* Admission                                                               *)
(***************************************************************************)

\* A permit is the one slot of the queue.
SlotInv ==
    /\ Len(queued) + reserved <= 1
    /\ permit # NoShape => reserved = 1 /\ plan # NoPlan

\* While the worker works on a commit the shared state names it, so that its
\* key is refused (executing_direct_content_key).
Hot == {"deadline", "collect", "testGate", "test", "submitGate", "ioctl",
        "transfer", "backoff"}
GuardInv ==
    /\ pc \in Hot \/ (pc \in Reporting /\ ret.ok \in Hot) => executing = job
    /\ ret.failed \notin Hot

\* Two keys are apart unless they are the same candidate; 0 and -1 are none.
Dif(a, b) == a > 0 => a # b
KeyInv ==
    /\ Dif(permit.key, executing.key) /\ Dif(permit.key, inflight.key)
    /\ Dif(executing.key, inflight.key)
    /\ \A i \in DOMAIN queued :
          Dif(queued[i].key, executing.key) /\ Dif(queued[i].key, inflight.key)

\* A commit in hand is alone: nothing is in flight, nothing in the kernel.
AloneInv ==
    job # NoJob => inflight = NoJob /\ (pc # "transfer" => kernel = {} /\ flips = {})

\* The compositor has seen every acknowledged pageflip, the last one perhaps
\* not yet, and plans on what it has seen.
PlanInv ==
    /\ main = "running" => acks = revision
    /\ main = "acked" => acks = revision + 1
    /\ plan # NoPlan => main = "running"
    /\ plan.of = "rev" => plan = Presented(revision)

\* What a running worker validates against is what the screen shows.
EstablishedInv ==
    /\ established.of = "none" => \A i \in DOMAIN queued : queued[i].base.of # "rev"
    /\ lifecycle = "Running" =>
         /\ established.of = "rev" => established = Presented(acks)
         /\ established.of = "bundle" => shown = [n |-> established.n, s |-> established.s]

\* Commits are accepted, taken and submitted in the order of their numbers.
OrderInv ==
    /\ job.id <= jobCount
    /\ \A i \in DOMAIN queued : queued[i].id <= jobCount /\ job.id < queued[i].id
    /\ \A n \in kernel \cup flips : n = lastSubmitted

AdmissionInv ==
    /\ SlotInv /\ GuardInv /\ KeyInv /\ AloneInv /\ PlanInv /\ EstablishedInv
    /\ OrderInv /\ BaseIsShown

\* A queue that is not empty holds one commit.
LEMMA OneQueued ==
  ASSUME TypeOK, SlotInv, queued # <<>>
  PROVE Tail(queued) = <<>> /\ DOMAIN queued = {1} /\ Head(queued) = queued[1] /\ reserved = 0
<1>1. queued \in Seq(JobType) /\ reserved \in Nat BY Zenon DEF TypeOK, StateType
<1>2. Len(queued) + reserved <= 1 BY Zenon DEF SlotInv
<1>3. Len(queued) \in Nat /\ DOMAIN queued = 1..Len(queued) /\ Len(queued) # 0 BY <1>1
<1>4. Len(queued) = 1 /\ reserved = 0 BY <1>1, <1>2, <1>3
<1>5. Tail(queued) = <<>>
  <2> DEFINE t == Tail(queued)
  <2>1. t \in Seq(JobType) /\ Len(t) = 0 BY <1>1, <1>3, <1>4
  <2> HIDE DEF t
  <2>2. t = <<>> BY <2>1
  <2> QED BY Zenon, <2>2 DEF t
<1>6. 1..1 = {1} OBVIOUS
<1> QED BY <1>1, <1>3, <1>4, <1>5, <1>6

\* Commits enter the queue only through enqueue.
LEMMA QueueMoves ==
  ASSUME TypeOK, SlotInv, Next
  PROVE queued' = queued \/ queued' = <<>> \/ Enqueue
<1>1. ASSUME NEW evs, MarkFatal(evs) PROVE queued' = queued \/ queued' = <<>>
  BY Zenon, <1>1 DEF MarkFatal
<1>2. ASSUME TakeBack PROVE queued' = queued \/ queued' = <<>>
  BY Zenon, <1>2, OneQueued DEF TakeBack
<1>3. CASE PublishEvent \/ TakeStopped \/ TakeProbe \/ RunProbe \/ TakeSleep
         \/ DeadlineWait \/ CollectSidecar \/ DropThenQuiesce \/ EnterTest
         \/ TestOnly \/ EnterSubmit \/ SubmitOk \/ SubmitBusy
         \/ SubmitFailed \/ Transfer \/ RetainJob \/ BackoffWait
         \/ RejectSidecar \/ RejectEvent \/ EndIteration \/ FlipAcknowledged
         \/ FlipSleep \/ FlipTimeout \/ Exit \/ PlanCommit
         \/ (\E shape \in Shapes : TryReserve(shape)) \/ ReserveRefused
         \/ EnqueueRefused \/ DropPermit \/ LookForPrimary \/ OfferSidecar
         \/ OfferRefused \/ TakeDueSidecar \/ QueueProbe \/ DrainEvents
         \/ PromotePresented \/ RequestQuiesce \/ StartJoin \/ JoinReturns
         \/ SpuriousWake \/ CompleteFlip \/ Joined
  BY Zenon, <1>3 DEF PublishEvent, TakeStopped, TakeProbe, RunProbe,
    TakeSleep, DeadlineWait, CollectSidecar, DropThenQuiesce, EnterTest,
    TestOnly, EnterSubmit, SubmitOk, SubmitBusy, SubmitFailed, Transfer,
    RetainJob, BackoffWait, RejectSidecar, RejectEvent, EndIteration,
    FlipAcknowledged, FlipSleep, FlipTimeout, Exit, PlanCommit, TryReserve,
    ReserveRefused, EnqueueRefused, DropPermit, LookForPrimary, OfferSidecar,
    OfferRefused, TakeDueSidecar, QueueProbe, DrainEvents, PromotePresented,
    RequestQuiesce, StartJoin, JoinReturns, SpuriousWake, CompleteFlip,
    Joined, EnterGate, vars, state
<1>4. CASE WorkerMarkFatal \/ QuarantineAdmission \/ FailTransition
  BY Zenon, <1>4, <1>1 DEF WorkerMarkFatal, QuarantineAdmission, FailTransition
<1>5. CASE TakeQuiesced \/ QuiesceWithJobs \/ FlipQuiesced
  BY Zenon, <1>5 DEF TakeQuiesced, QuiesceWithJobs, FlipQuiesced, PublishQuiesced
<1>6. CASE TakeInvalidated \/ TakeReady \/ CancelQueued
  BY Zenon, <1>6, OneQueued DEF TakeInvalidated, TakeReady, CancelQueued, CanTakeJob
<1>7. CASE RejectDependents BY Zenon, <1>7, OneQueued DEF RejectDependents
<1>8. CASE AckPageflip BY Zenon, <1>8, <1>1 DEF AckPageflip, AckInflight
<1>9. CASE BeginShutdown \/ ForceAbandon
  BY Zenon, <1>9, <1>2 DEF BeginShutdown, ForceAbandon
<1> QED BY Zenon, <1>3, <1>4, <1>5, <1>6, <1>7, <1>8, <1>9
  DEF Next, WorkerStep, MainStep

\* The sidecar is attached to the commit in hand, which keeps its identity.
Attaches == \E t : pc = "collect" /\ job' = AttachSidecar(job, t) /\ executing' = job'

\* Commits come into the worker's hands only from the queue.
LEMMA JobMoves ==
  ASSUME Next PROVE job' = job \/ job' = NoJob \/ TakeReady \/ Attaches
<1>1. CASE PublishEvent \/ WorkerMarkFatal \/ TakeStopped \/ TakeQuiesced
         \/ TakeProbe \/ RunProbe \/ TakeInvalidated \/ TakeSleep
         \/ DeadlineWait \/ DropThenQuiesce \/ EnterTest \/ EnterSubmit
         \/ SubmitOk \/ SubmitBusy \/ BackoffWait \/ RejectSidecar
         \/ RejectDependents \/ EndIteration \/ FlipQuiesced
         \/ FlipAcknowledged \/ FlipSleep \/ FlipTimeout \/ PlanCommit
         \/ (\E shape \in Shapes : TryReserve(shape)) \/ ReserveRefused
         \/ Enqueue \/ EnqueueRefused \/ DropPermit \/ QuarantineAdmission
         \/ LookForPrimary \/ OfferSidecar \/ OfferRefused \/ TakeDueSidecar
         \/ CancelQueued \/ QueueProbe \/ DrainEvents \/ AckPageflip
         \/ PromotePresented \/ FailTransition \/ RequestQuiesce
         \/ BeginShutdown \/ ForceAbandon \/ StartJoin \/ JoinReturns
         \/ SpuriousWake \/ CompleteFlip \/ Joined
  BY Zenon, <1>1 DEF PublishEvent, WorkerMarkFatal, TakeStopped,
    TakeQuiesced, TakeProbe, RunProbe, TakeInvalidated, TakeSleep,
    DeadlineWait, DropThenQuiesce, EnterTest, EnterSubmit, SubmitOk,
    SubmitBusy, BackoffWait, RejectSidecar, RejectDependents, EndIteration,
    FlipQuiesced, FlipAcknowledged, FlipSleep, FlipTimeout, PlanCommit,
    TryReserve, ReserveRefused, Enqueue, EnqueueRefused, DropPermit,
    QuarantineAdmission, LookForPrimary, OfferSidecar, OfferRefused,
    TakeDueSidecar, CancelQueued, QueueProbe, DrainEvents, AckPageflip,
    PromotePresented, FailTransition, RequestQuiesce, BeginShutdown,
    ForceAbandon, StartJoin, JoinReturns, SpuriousWake, CompleteFlip, Joined,
    EnterGate, vars, thread
<1>2. CASE CollectSidecar BY Zenon, <1>2 DEF CollectSidecar, Attaches
<1>3. CASE QuiesceWithJobs \/ TestOnly \/ SubmitFailed \/ Transfer \/ RetainJob \/ RejectEvent \/ Exit
  BY Zenon, <1>3 DEF QuiesceWithJobs, TestOnly, SubmitFailed, Transfer, RetainJob, RejectEvent,
    Exit, RetainAfterPanic
<1> QED BY Zenon, <1>1, <1>2, <1>3
  DEF Next, WorkerStep, MainStep

\* The commit the shared state names is the one taken, until it is dropped.
LEMMA ExecMoves ==
  ASSUME Next PROVE executing' = executing \/ executing' = NoJob \/ TakeReady \/ Attaches
<1>1. CASE PublishEvent \/ WorkerMarkFatal \/ TakeStopped \/ TakeQuiesced
         \/ TakeProbe \/ RunProbe \/ TakeInvalidated \/ TakeSleep
         \/ DeadlineWait \/ QuiesceWithJobs \/ EnterTest \/ TestOnly
         \/ EnterSubmit \/ SubmitOk \/ SubmitBusy \/ SubmitFailed
         \/ RetainJob \/ BackoffWait \/ RejectSidecar \/ RejectDependents
         \/ RejectEvent \/ FlipQuiesced \/ FlipAcknowledged \/ FlipSleep
         \/ FlipTimeout \/ PlanCommit
         \/ (\E shape \in Shapes : TryReserve(shape)) \/ ReserveRefused
         \/ Enqueue \/ EnqueueRefused \/ DropPermit \/ QuarantineAdmission
         \/ LookForPrimary \/ OfferSidecar \/ OfferRefused \/ TakeDueSidecar
         \/ CancelQueued \/ QueueProbe \/ DrainEvents \/ AckPageflip
         \/ PromotePresented \/ FailTransition \/ RequestQuiesce
         \/ BeginShutdown \/ ForceAbandon \/ StartJoin \/ JoinReturns
         \/ SpuriousWake \/ CompleteFlip \/ Joined
  BY Zenon, <1>1 DEF PublishEvent, WorkerMarkFatal, TakeStopped,
    TakeQuiesced, TakeProbe, RunProbe, TakeInvalidated, TakeSleep,
    DeadlineWait, QuiesceWithJobs, EnterTest, TestOnly, EnterSubmit,
    SubmitOk, SubmitBusy, SubmitFailed, RetainJob, BackoffWait,
    RejectSidecar, RejectDependents, RejectEvent, FlipQuiesced,
    FlipAcknowledged, FlipSleep, FlipTimeout, PlanCommit, TryReserve,
    ReserveRefused, Enqueue, EnqueueRefused, DropPermit, QuarantineAdmission,
    LookForPrimary, OfferSidecar, OfferRefused, TakeDueSidecar, CancelQueued,
    QueueProbe, DrainEvents, AckPageflip, PromotePresented, FailTransition,
    RequestQuiesce, BeginShutdown, ForceAbandon, StartJoin, JoinReturns,
    SpuriousWake, CompleteFlip, Joined, EnterGate, vars, state
<1>2. CASE CollectSidecar BY Zenon, <1>2 DEF CollectSidecar, Attaches
<1>3. CASE DropThenQuiesce \/ Transfer \/ EndIteration \/ Exit
  BY Zenon, <1>3 DEF DropThenQuiesce, Transfer, EndIteration, Exit, DropGuard
<1> QED BY Zenon, <1>1, <1>2, <1>3
  DEF Next, WorkerStep, MainStep

\* A commit gets in flight by the transfer after its ioctl, and leaves with
\* its acknowledgment or when it is abandoned.
LEMMA FlightMoves ==
  ASSUME Next PROVE inflight' = inflight \/ Transfer \/ (inflight' = NoJob /\ (AckPageflip \/ ForceAbandon))
<1>1. CASE PublishEvent \/ WorkerMarkFatal \/ TakeStopped \/ TakeQuiesced
         \/ TakeProbe \/ RunProbe \/ TakeInvalidated \/ TakeReady
         \/ TakeSleep \/ DeadlineWait \/ CollectSidecar \/ DropThenQuiesce
         \/ QuiesceWithJobs \/ EnterTest \/ TestOnly \/ EnterSubmit
         \/ SubmitOk \/ SubmitBusy \/ SubmitFailed \/ RetainJob
         \/ BackoffWait \/ RejectSidecar \/ RejectDependents \/ RejectEvent
         \/ EndIteration \/ FlipQuiesced \/ FlipAcknowledged \/ FlipSleep
         \/ FlipTimeout \/ Exit \/ PlanCommit
         \/ (\E shape \in Shapes : TryReserve(shape)) \/ ReserveRefused
         \/ Enqueue \/ EnqueueRefused \/ DropPermit \/ QuarantineAdmission
         \/ LookForPrimary \/ OfferSidecar \/ OfferRefused \/ TakeDueSidecar
         \/ CancelQueued \/ QueueProbe \/ DrainEvents \/ PromotePresented
         \/ FailTransition \/ RequestQuiesce \/ BeginShutdown \/ StartJoin
         \/ JoinReturns \/ SpuriousWake \/ CompleteFlip \/ Joined
  BY Zenon, <1>1 DEF PublishEvent, WorkerMarkFatal, TakeStopped,
    TakeQuiesced, TakeProbe, RunProbe, TakeInvalidated, TakeReady, TakeSleep,
    DeadlineWait, CollectSidecar, DropThenQuiesce, QuiesceWithJobs,
    EnterTest, TestOnly, EnterSubmit, SubmitOk, SubmitBusy, SubmitFailed,
    RetainJob, BackoffWait, RejectSidecar, RejectDependents, RejectEvent,
    EndIteration, FlipQuiesced, FlipAcknowledged, FlipSleep, FlipTimeout,
    Exit, PlanCommit, TryReserve, ReserveRefused, Enqueue, EnqueueRefused,
    DropPermit, QuarantineAdmission, LookForPrimary, OfferSidecar,
    OfferRefused, TakeDueSidecar, CancelQueued, QueueProbe, DrainEvents,
    PromotePresented, FailTransition, RequestQuiesce, BeginShutdown,
    StartJoin, JoinReturns, SpuriousWake, CompleteFlip, Joined, EnterGate,
    vars, state
<1>2. CASE AckPageflip BY Zenon, <1>2 DEF AckPageflip, AckInflight
<1>3. CASE ForceAbandon BY Zenon, <1>3 DEF ForceAbandon
<1> QED BY Zenon, <1>1, <1>2, <1>3
  DEF Next, WorkerStep, MainStep

\* The kernel gets commits from the ioctl only.
LEMMA DeviceMoves ==
  ASSUME Next
  PROVE \/ lastSubmitted' = lastSubmitted /\ \A n \in kernel' \cup flips' : n \in kernel \cup flips
        \/ SubmitOk
<1>1. CASE PublishEvent \/ WorkerMarkFatal \/ TakeStopped \/ TakeQuiesced
         \/ TakeProbe \/ RunProbe \/ TakeInvalidated \/ TakeReady
         \/ TakeSleep \/ DeadlineWait \/ CollectSidecar \/ DropThenQuiesce
         \/ QuiesceWithJobs \/ EnterTest \/ TestOnly \/ EnterSubmit
         \/ SubmitBusy \/ SubmitFailed \/ Transfer \/ RetainJob
         \/ BackoffWait \/ RejectSidecar \/ RejectDependents \/ RejectEvent
         \/ EndIteration \/ FlipQuiesced \/ FlipAcknowledged \/ FlipSleep
         \/ FlipTimeout \/ Exit \/ PlanCommit
         \/ (\E shape \in Shapes : TryReserve(shape)) \/ ReserveRefused
         \/ Enqueue \/ EnqueueRefused \/ DropPermit \/ QuarantineAdmission
         \/ LookForPrimary \/ OfferSidecar \/ OfferRefused \/ TakeDueSidecar
         \/ CancelQueued \/ QueueProbe \/ DrainEvents \/ PromotePresented
         \/ RequestQuiesce \/ BeginShutdown \/ ForceAbandon \/ StartJoin
         \/ JoinReturns \/ SpuriousWake \/ Joined
  BY Zenon, <1>1 DEF PublishEvent, WorkerMarkFatal, TakeStopped,
    TakeQuiesced, TakeProbe, RunProbe, TakeInvalidated, TakeReady, TakeSleep,
    DeadlineWait, CollectSidecar, DropThenQuiesce, QuiesceWithJobs,
    EnterTest, TestOnly, EnterSubmit, SubmitBusy, SubmitFailed, Transfer,
    RetainJob, BackoffWait, RejectSidecar, RejectDependents, RejectEvent,
    EndIteration, FlipQuiesced, FlipAcknowledged, FlipSleep, FlipTimeout,
    Exit, PlanCommit, TryReserve, ReserveRefused, Enqueue, EnqueueRefused,
    DropPermit, QuarantineAdmission, LookForPrimary, OfferSidecar,
    OfferRefused, TakeDueSidecar, CancelQueued, QueueProbe, DrainEvents,
    PromotePresented, RequestQuiesce, BeginShutdown, ForceAbandon, StartJoin,
    JoinReturns, SpuriousWake, Joined, EnterGate, vars, device
<1>2. CASE AckPageflip BY Zenon, <1>2 DEF AckPageflip
<1>3. CASE FailTransition BY Zenon, <1>3 DEF FailTransition
<1>4. CASE CompleteFlip BY Zenon, <1>4 DEF CompleteFlip
<1> QED BY Zenon, <1>1, <1>2, <1>3, <1>4
  DEF Next, WorkerStep, MainStep

\* A worker that stopped running never runs again.
LEMMA StopsForGood == ASSUME Next, lifecycle # "Running" PROVE lifecycle' # "Running"
<1>0. "Stopped" # "Running" /\ "Fatal" # "Running" /\ "Quiescing" # "Running"
      /\ "ShutdownQuiescing" # "Running" /\ "ShutdownAbandoning" # "Running" BY Zenon
<1>1. ASSUME NEW evs, MarkFatal(evs) PROVE lifecycle' # "Running"
  BY Zenon, <1>0, <1>1 DEF MarkFatal
<1>2. CASE PublishEvent \/ TakeStopped \/ TakeProbe \/ RunProbe
         \/ TakeInvalidated \/ TakeReady \/ TakeSleep \/ DeadlineWait
         \/ CollectSidecar \/ DropThenQuiesce \/ EnterTest \/ TestOnly
         \/ EnterSubmit \/ SubmitOk \/ SubmitBusy \/ SubmitFailed
         \/ Transfer \/ RetainJob \/ BackoffWait \/ RejectSidecar
         \/ RejectDependents \/ RejectEvent \/ EndIteration
         \/ FlipAcknowledged \/ FlipSleep \/ FlipTimeout \/ Exit
         \/ PlanCommit \/ (\E shape \in Shapes : TryReserve(shape))
         \/ ReserveRefused \/ Enqueue \/ EnqueueRefused \/ DropPermit
         \/ LookForPrimary \/ OfferSidecar \/ OfferRefused \/ TakeDueSidecar
         \/ CancelQueued \/ QueueProbe \/ DrainEvents \/ PromotePresented
         \/ JoinReturns \/ SpuriousWake \/ CompleteFlip \/ Joined
  BY Zenon, <1>2 DEF PublishEvent, TakeStopped, TakeProbe, RunProbe,
    TakeInvalidated, TakeReady, TakeSleep, DeadlineWait, CollectSidecar,
    DropThenQuiesce, EnterTest, TestOnly, EnterSubmit, SubmitOk, SubmitBusy,
    SubmitFailed, Transfer, RetainJob, BackoffWait, RejectSidecar,
    RejectDependents, RejectEvent, EndIteration, FlipAcknowledged, FlipSleep,
    FlipTimeout, Exit, PlanCommit, TryReserve, ReserveRefused, Enqueue,
    EnqueueRefused, DropPermit, LookForPrimary, OfferSidecar, OfferRefused,
    TakeDueSidecar, CancelQueued, QueueProbe, DrainEvents, PromotePresented,
    JoinReturns, SpuriousWake, CompleteFlip, Joined, EnterGate, vars, state
<1>3. CASE WorkerMarkFatal \/ QuarantineAdmission \/ FailTransition
  BY Zenon, <1>3, <1>1 DEF WorkerMarkFatal, QuarantineAdmission, FailTransition
<1>4. CASE TakeQuiesced \/ QuiesceWithJobs \/ FlipQuiesced
  BY Zenon, <1>4, <1>0 DEF TakeQuiesced, QuiesceWithJobs, FlipQuiesced, PublishQuiesced
<1>5. CASE AckPageflip BY Zenon, <1>5, <1>1 DEF AckPageflip, AckInflight
<1>6. CASE RequestQuiesce \/ StartJoin BY Zenon, <1>6, <1>0 DEF RequestQuiesce, StartJoin, Quiesced
<1>7. CASE BeginShutdown BY Zenon, <1>7, <1>0 DEF BeginShutdown
<1>8. CASE ForceAbandon BY Zenon, <1>8, <1>0 DEF ForceAbandon
<1> QED BY Zenon, <1>2, <1>3, <1>4, <1>5, <1>6, <1>7, <1>8
  DEF Next, WorkerStep, MainStep

\* What the worker validates against changes with the planned base of the
\* first commit, a submission, an acknowledgment and a promotion; what is
\* shown, with an acknowledgment.
LEMMA BaseMoves ==
  ASSUME Next
  PROVE /\ established' = established \/ Enqueue \/ Transfer \/ AckPageflip \/ PromotePresented
        /\ (shown' = shown /\ acks' = acks) \/ AckPageflip
<1>1. CASE PublishEvent \/ WorkerMarkFatal \/ TakeStopped \/ TakeQuiesced
         \/ TakeProbe \/ RunProbe \/ TakeInvalidated \/ TakeReady
         \/ TakeSleep \/ DeadlineWait \/ CollectSidecar \/ DropThenQuiesce
         \/ QuiesceWithJobs \/ EnterTest \/ TestOnly \/ EnterSubmit
         \/ SubmitOk \/ SubmitBusy \/ SubmitFailed \/ RetainJob
         \/ BackoffWait \/ RejectSidecar \/ RejectDependents \/ RejectEvent
         \/ EndIteration \/ FlipQuiesced \/ FlipAcknowledged \/ FlipSleep
         \/ FlipTimeout \/ Exit \/ PlanCommit
         \/ (\E shape \in Shapes : TryReserve(shape)) \/ ReserveRefused
         \/ EnqueueRefused \/ DropPermit \/ QuarantineAdmission
         \/ LookForPrimary \/ OfferSidecar \/ OfferRefused \/ TakeDueSidecar
         \/ CancelQueued \/ QueueProbe \/ DrainEvents \/ FailTransition
         \/ RequestQuiesce \/ BeginShutdown \/ ForceAbandon \/ StartJoin
         \/ JoinReturns \/ SpuriousWake \/ CompleteFlip \/ Joined
  BY Zenon, <1>1 DEF PublishEvent, WorkerMarkFatal, TakeStopped,
    TakeQuiesced, TakeProbe, RunProbe, TakeInvalidated, TakeReady, TakeSleep,
    DeadlineWait, CollectSidecar, DropThenQuiesce, QuiesceWithJobs,
    EnterTest, TestOnly, EnterSubmit, SubmitOk, SubmitBusy, SubmitFailed,
    RetainJob, BackoffWait, RejectSidecar, RejectDependents, RejectEvent,
    EndIteration, FlipQuiesced, FlipAcknowledged, FlipSleep, FlipTimeout,
    Exit, PlanCommit, TryReserve, ReserveRefused, EnqueueRefused, DropPermit,
    QuarantineAdmission, LookForPrimary, OfferSidecar, OfferRefused,
    TakeDueSidecar, CancelQueued, QueueProbe, DrainEvents, FailTransition,
    RequestQuiesce, BeginShutdown, ForceAbandon, StartJoin, JoinReturns,
    SpuriousWake, CompleteFlip, Joined, EnterGate, vars, state, device
<1>2. CASE Enqueue \/ Transfer \/ PromotePresented
  BY Zenon, <1>2 DEF Enqueue, Transfer, PromotePresented, device
<1> QED BY Zenon, <1>1, <1>2
  DEF Next, WorkerStep, MainStep

\* Commits are numbered by enqueue, and planned, admitted and promoted by the
\* compositor.
LEMMA ClientMoves ==
  ASSUME Next
  PROVE /\ jobCount' = jobCount \/ Enqueue
        /\ revision' = revision \/ PromotePresented
        /\ \/ plan' = plan /\ permit' = permit /\ reserved' = reserved
           \/ plan' = NoPlan /\ permit' = NoShape
              /\ reserved' = (IF reserved = 0 THEN 0 ELSE reserved - 1)
           \/ plan' = NoPlan /\ permit = NoShape /\ permit' = permit /\ reserved' = reserved
           \/ PlanCommit \/ (\E shape \in Shapes : TryReserve(shape))
<1>1. ASSUME UNCHANGED <<client, reserved>> PROVE jobCount' = jobCount /\ revision' = revision
            /\ plan' = plan /\ permit' = permit /\ reserved' = reserved
  BY Zenon, <1>1 DEF client
<1>2. CASE WorkerStep
  <2>1. UNCHANGED client BY Zenon, <1>2, WorkerFrame
  <2>2. reserved' = reserved
    BY Zenon, <1>2 DEF WorkerStep, PublishEvent, WorkerMarkFatal, TakeStopped,
      TakeQuiesced, TakeProbe, RunProbe, TakeInvalidated, TakeReady, TakeSleep,
      DeadlineWait, CollectSidecar, DropThenQuiesce, QuiesceWithJobs,
      EnterTest, TestOnly, EnterSubmit, SubmitOk, SubmitBusy, SubmitFailed,
      Transfer, RetainJob, BackoffWait, RejectSidecar, RejectDependents,
      RejectEvent, EndIteration, FlipQuiesced, FlipAcknowledged, FlipSleep,
      FlipTimeout, Exit, EnterGate, state
  <2> QED BY Zenon, <2>1, <2>2, <1>1
<1>3. CASE SpuriousWake \/ CompleteFlip \/ Joined
  BY Zenon, <1>3, <1>1 DEF SpuriousWake, CompleteFlip, Joined, vars, state
<1>4. CASE ReserveRefused \/ LookForPrimary \/ OfferSidecar \/ OfferRefused
         \/ TakeDueSidecar \/ CancelQueued \/ QueueProbe \/ DrainEvents
         \/ AckPageflip \/ PromotePresented \/ FailTransition
         \/ RequestQuiesce \/ BeginShutdown \/ ForceAbandon \/ StartJoin
         \/ JoinReturns
  BY Zenon, <1>4 DEF ReserveRefused, LookForPrimary, OfferSidecar,
    OfferRefused, TakeDueSidecar, CancelQueued, QueueProbe, DrainEvents,
    AckPageflip, PromotePresented, FailTransition, RequestQuiesce,
    BeginShutdown, ForceAbandon, StartJoin, JoinReturns, state, client
<1>5. CASE Enqueue \/ EnqueueRefused \/ DropPermit \/ QuarantineAdmission
  BY Zenon, <1>5 DEF Enqueue, EnqueueRefused, DropPermit,
    QuarantineAdmission, ReleasePermit
<1>6. CASE PlanCommit \/ (\E shape \in Shapes : TryReserve(shape))
  BY Zenon, <1>6 DEF PlanCommit, TryReserve
<1> QED BY Zenon, <1>2, <1>3, <1>4, <1>5, <1>6
  DEF Next, MainStep

\* The slot a permit stands for stays free until it is used.
LEMMA SlotStep == ASSUME TypeOK, SlotInv, Next PROVE SlotInv'
<1>1. queued \in Seq(JobType) /\ reserved \in Nat /\ Len(queued) \in Nat BY DEF TypeOK, StateType
<1>2. Len(queued) + reserved <= 1 /\ (permit # NoShape => reserved = 1 /\ plan # NoPlan)
  BY Zenon DEF SlotInv
<1>3. Len(<<>>) = 0 BY Zenon
<1>4. CASE Enqueue
  <2>1. PICK j : queued' = Append(queued, j) BY Zenon, <1>4 DEF Enqueue
  <2>2. Len(queued') = Len(queued) + 1 BY <1>1, <2>1
  <2>3. permit # NoShape /\ permit' = NoShape /\ reserved' = IF reserved = 0 THEN 0 ELSE reserved - 1
    BY Zenon, <1>4 DEF Enqueue, ReleasePermit
  <2>4. Len(queued') + reserved' <= 1 BY <1>1, <1>2, <2>2, <2>3
  <2> QED BY Zenon, <2>3, <2>4 DEF SlotInv
<1>5. CASE queued' = queued \/ queued' = <<>>
  <2>1. Len(queued') \in Nat /\ Len(queued') <= Len(queued) BY <1>1, <1>3, <1>5
  <2>2. CASE plan' = plan /\ permit' = permit /\ reserved' = reserved
    <3>1. Len(queued') + reserved' <= 1 BY <1>1, <1>2, <2>1, <2>2
    <3> QED BY Zenon, <3>1, <2>2, <1>2 DEF SlotInv
  <2>3. CASE plan' = NoPlan /\ permit' = NoShape /\ reserved' = (IF reserved = 0 THEN 0 ELSE reserved - 1)
    <3>1. Len(queued') + reserved' <= 1 BY <1>1, <1>2, <2>1, <2>3
    <3> QED BY Zenon, <3>1, <2>3 DEF SlotInv
  <2>4. CASE permit = NoShape /\ permit' = permit /\ reserved' = reserved
    <3>1. Len(queued') + reserved' <= 1 BY <1>1, <1>2, <2>1, <2>4
    <3> QED BY Zenon, <3>1, <2>4 DEF SlotInv
  <2>5. CASE PlanCommit
    <3>1. permit = NoShape /\ permit' = permit /\ reserved' = reserved
      BY Zenon, <2>5 DEF PlanCommit, MainIdle, state
    <3> QED BY Zenon, <3>1, <2>4
  <2>6. CASE \E shape \in Shapes : TryReserve(shape)
    <3>1. /\ Occupied < Active + QUEUED_JOB_CAPACITY
          /\ reserved' = reserved + 1 /\ queued' = queued /\ plan # NoPlan /\ plan' = plan
      BY Zenon, <2>6 DEF TryReserve
    <3>2. Len(queued) + reserved < 1 BY <1>1, <3>1 DEF Occupied, Active, QUEUED_JOB_CAPACITY
    <3>3. Len(queued') + reserved' <= 1 /\ reserved' = 1 BY <1>1, <3>1, <3>2
    <3> QED BY Zenon, <3>1, <3>3 DEF SlotInv
  <2> QED BY Zenon, <2>2, <2>3, <2>4, <2>5, <2>6, ClientMoves
<1> QED BY Zenon, <1>4, <1>5, QueueMoves

\* While it is worked on, the commit in hand is the one the shared state names.
LEMMA GuardStep == ASSUME TypeOK, GateInv, GuardInv, Next PROVE GuardInv'
<1> USE DEF GuardInv, Hot, Reporting
<1>1. CASE MainStep
  <2>1. UNCHANGED <<ret, job>> /\ pc' \in {pc, Woken} BY Zenon, <1>1, MainFrame DEF thread
  <2>2. executing' = executing
    BY Zenon, <1>1 DEF MainStep, PlanCommit, TryReserve, ReserveRefused,
      Enqueue, EnqueueRefused, DropPermit, QuarantineAdmission, LookForPrimary,
      OfferSidecar, OfferRefused, TakeDueSidecar, CancelQueued, QueueProbe,
      DrainEvents, AckPageflip, PromotePresented, FailTransition,
      RequestQuiesce, BeginShutdown, ForceAbandon, StartJoin, JoinReturns,
      state
  <2> QED BY Zenon, <2>1, <2>2 DEF Woken
<1>2. CASE SpuriousWake BY Zenon, <1>2 DEF SpuriousWake, Woken, state, thread
<1>3. CASE CompleteFlip \/ Joined BY Zenon, <1>3 DEF CompleteFlip, Joined, vars, state, thread
<1>4. CASE PublishEvent
  BY <1>4 DEF PublishEvent, NoReturn, state
<1>5. CASE WorkerMarkFatal
  BY Zenon, <1>5 DEF WorkerMarkFatal, NoReturn, GateInv
<1>6. CASE TakeStopped
  BY Zenon, <1>6 DEF TakeStopped, state, thread
<1>7. CASE TakeQuiesced
  BY Zenon, <1>7 DEF TakeQuiesced, PublishQuiesced, Publish
<1>8. CASE TakeProbe
  BY Zenon, <1>8 DEF TakeProbe, thread
<1>9. CASE RunProbe
  BY Zenon, <1>9 DEF RunProbe, thread
<1>10. CASE TakeInvalidated
  BY Zenon, <1>10 DEF TakeInvalidated, CanTakeJob, Publish
<1>11. CASE TakeReady
  BY Zenon, <1>11 DEF TakeReady, CanTakeJob
<1>12. CASE TakeSleep
  BY Zenon, <1>12 DEF TakeSleep, state, thread
<1>13. CASE DeadlineWait
  BY Zenon, <1>13 DEF DeadlineWait, state, thread
<1>14. CASE CollectSidecar
  <2>1. pc = "collect" /\ executing = job BY Zenon, <1>14 DEF CollectSidecar
  <2>2. executing' = job'
    BY Zenon, <1>14, <2>1 DEF CollectSidecar
  <2>3. ret' = ret \/ ret'.failed = "dropQuiesce"
    <3>1. ret' = ret \/ \E next : ret' = [ok |-> next, failed |-> "dropQuiesce"]
      BY Zenon, <1>14 DEF CollectSidecar, Publish
    <3> QED BY <3>1
  <2> QED BY Zenon, <2>2, <2>3
<1>15. CASE DropThenQuiesce
  BY Zenon, <1>15 DEF DropThenQuiesce, thread
<1>16. CASE QuiesceWithJobs
  BY Zenon, <1>16 DEF QuiesceWithJobs, PublishQuiesced, Publish
<1>17. CASE EnterTest
  BY Zenon, <1>17 DEF EnterTest, EnterGate, thread
<1>18. CASE TestOnly
  BY <1>18 DEF TestOnly, RetainAfterPanic, NoReturn, state
<1>19. CASE EnterSubmit
  BY Zenon, <1>19 DEF EnterSubmit, EnterGate, thread
<1>20. CASE SubmitOk
  BY Zenon, <1>20 DEF SubmitOk, state, thread
<1>21. CASE SubmitBusy
  BY <1>21 DEF SubmitBusy, Publish, state
<1>22. CASE SubmitFailed
  BY <1>22 DEF SubmitFailed, RetainAfterPanic, NoReturn, state
<1>23. CASE Transfer
  BY Zenon, <1>23 DEF Transfer, Publish
<1>24. CASE RetainJob
  BY Zenon, <1>24 DEF RetainJob, state
<1>25. CASE BackoffWait
  BY Zenon, <1>25 DEF BackoffWait, state, thread
<1>26. CASE RejectSidecar
  BY <1>26 DEF RejectSidecar, Publish
<1>27. CASE RejectDependents
  BY <1>27 DEF RejectDependents, Publish
<1>28. CASE RejectEvent
  BY Zenon, <1>28 DEF RejectEvent, Publish, state
<1>29. CASE EndIteration
  BY Zenon, <1>29 DEF EndIteration, thread
<1>30. CASE FlipQuiesced
  BY Zenon, <1>30 DEF FlipQuiesced, PublishQuiesced, Publish
<1>31. CASE FlipAcknowledged
  BY Zenon, <1>31 DEF FlipAcknowledged, state
<1>32. CASE FlipSleep
  BY Zenon, <1>32 DEF FlipSleep, state, thread
<1>33. CASE FlipTimeout
  BY <1>33 DEF FlipTimeout, Publish, state
<1>34. CASE Exit
  BY Zenon, <1>34 DEF Exit
<1> HIDE DEF GuardInv, Hot, Reporting
<1> QED BY Zenon, <1>1, <1>2, <1>3, <1>4, <1>5, <1>6, <1>7, <1>8, <1>9,
    <1>10, <1>11, <1>12, <1>13, <1>14, <1>15, <1>16, <1>17, <1>18, <1>19,
    <1>20, <1>21, <1>22, <1>23, <1>24, <1>25, <1>26, <1>27, <1>28, <1>29,
    <1>30, <1>31, <1>32, <1>33, <1>34
  DEF Next, WorkerStep

\* Attaching a sidecar changes the cursor of a commit and whether it is tested.
LEMMA AttachKeeps ==
  ASSUME NEW j \in JobType, NEW t
  PROVE /\ AttachSidecar(j, t).id = j.id /\ AttachSidecar(j, t).key = j.key
        /\ AttachSidecar(j, t).base = j.base
BY Zenon DEF AttachSidecar, JobType

\* The fields of the commits, and of none.
LEMMA KeysTyped ==
  ASSUME TypeOK
  PROVE /\ NoJob.key = 0 /\ NoJob.id = 0 /\ NoShape.key = -1
        /\ \A j \in JobType : j.key \in Nat /\ j.id \in Nat
        /\ permit.key \in Int /\ queued \in Seq(JobType) /\ jobCount \in Nat
        /\ job \in JobType /\ executing \in JobType /\ inflight \in JobType
        /\ \A i \in DOMAIN queued : queued[i] \in JobType
<1>1. \A j \in JobType : j.key \in Nat /\ j.id \in Nat BY Zenon DEF JobType
<1>2. permit.key \in Int
  BY ShapesAssumption DEF TypeOK, ClientType, ShapeType, NoShape
<1>3. NoJob.key = 0 /\ NoJob.id = 0 /\ NoShape.key = -1 BY Zenon DEF NoJob, NoShape
<1>4. job \in JobType /\ executing \in JobType /\ inflight \in JobType /\ queued \in Seq(JobType)
      /\ jobCount \in Nat
  BY Zenon DEF TypeOK, StateType, ThreadType, ClientType
<1>5. \A i \in DOMAIN queued : queued[i] \in JobType BY <1>4
<1> QED BY Zenon, <1>1, <1>2, <1>3, <1>4, <1>5

\* What enqueue appends, and to which queue.
LEMMA EnqueueAppends ==
  ASSUME TypeOK, SlotInv, Enqueue
  PROVE /\ queued = <<>> /\ DOMAIN queued' = {1}
        /\ queued'[1].id = jobCount + 1 /\ queued'[1].key = permit.key /\ queued'[1].base = plan
        /\ jobCount' = jobCount + 1 /\ permit' = NoShape /\ plan # NoPlan
        /\ UNCHANGED <<lifecycle, executing, inflight, job, shown, acks, kernel, flips, lastSubmitted>>
        /\ lifecycle = "Running" /\ pc' = Woken
        /\ established' = IF established.of = "none" /\ plan.of = "rev" THEN plan ELSE established
<1>1. PICK crev : queued' = Append(queued,
           [id |-> jobCount + 1, primary |-> permit.primary,
            target |-> permit.target, test |-> permit.test,
            key |-> permit.key, base |-> plan, crev |-> crev, cur |-> 0])
  BY Zenon DEF Enqueue
<1>2. permit # NoShape /\ permit' = NoShape /\ plan # NoPlan /\ jobCount' = jobCount + 1
  BY Zenon DEF Enqueue, ReleasePermit
<1>3. reserved = 1 BY Zenon, <1>2 DEF SlotInv
<1>4. queued = <<>>
  <2>1. ASSUME queued # <<>> PROVE FALSE
    <3>1. reserved = 0 BY Zenon, <2>1, OneQueued
    <3> QED BY <3>1, <1>3
  <2> QED BY Zenon, <2>1
<1>5. /\ DOMAIN queued' = {1} /\ queued'[1].id = jobCount + 1
      /\ queued'[1].key = permit.key /\ queued'[1].base = plan
  <2> DEFINE j == [id |-> jobCount + 1, primary |-> permit.primary,
            target |-> permit.target, test |-> permit.test,
            key |-> permit.key, base |-> plan, crev |-> crev, cur |-> 0]
  <2>1. queued' = Append(<<>>, j) BY Zenon, <1>1, <1>4
  <2>2. j.id = jobCount + 1 /\ j.key = permit.key /\ j.base = plan BY Zenon
  <2> HIDE DEF j
  <2>3. DOMAIN Append(<<>>, j) = {1} /\ Append(<<>>, j)[1] = j
    <3>1. Append(<<>>, j) = <<j>> OBVIOUS
    <3>2. DOMAIN <<j>> = {1} /\ <<j>>[1] = j OBVIOUS
    <3> QED BY Zenon, <3>1, <3>2
  <2>4. DOMAIN queued' = {1} /\ queued'[1] = j BY Zenon, <2>1, <2>3
  <2> QED BY Zenon, <2>2, <2>4
<1>6. /\ UNCHANGED <<lifecycle, executing, inflight, job, shown, acks, kernel, flips, lastSubmitted>>
      /\ lifecycle = "Running" /\ pc' = Woken
      /\ established' = IF established.of = "none" /\ plan.of = "rev" THEN plan ELSE established
  BY Zenon DEF Enqueue, thread, device
<1> QED BY Zenon, <1>2, <1>4, <1>5, <1>6

\* What the worker takes from the queue.
LEMMA TakeTakes ==
  ASSUME TypeOK, SlotInv, TakeReady
  PROVE /\ pc = "take" /\ lifecycle = "Running" /\ inflight = NoJob
        /\ DOMAIN queued = {1} /\ queued' = <<>>
        /\ job' = queued[1] /\ executing' = queued[1] /\ pc' \in {"deadline", "collect"}
        /\ BaseDisposition(queued[1].base) = "Ready"
        /\ UNCHANGED <<inflight, lifecycle, established, permit, kernel, flips, jobCount, shown, acks>>
<1>1. queued # <<>> BY Zenon DEF TakeReady, CanTakeJob
<1>2. Tail(queued) = <<>> /\ DOMAIN queued = {1} /\ Head(queued) = queued[1] BY Zenon, <1>1, OneQueued
<1> QED BY Zenon, <1>2 DEF TakeReady, CanTakeJob, client, device

\* How keys are apart.
LEMMA DifFacts ==
  ASSUME NEW a \in Int, NEW b \in Int
  PROVE /\ Dif(a, 0) /\ Dif(0, a) /\ Dif(a, -1) /\ Dif(-1, a)
        /\ Dif(a, b) => Dif(b, a)
BY DEF Dif

\* Nobody shares a direct-scanout key.
LEMMA KeyStep == ASSUME TypeOK, SlotInv, GuardInv, KeyInv, Next PROVE KeyInv'
<1> DEFINE p == permit.key
           e == executing.key
           f == inflight.key
<1>1. /\ Dif(p, e) /\ Dif(p, f) /\ Dif(e, f)
      /\ \A i \in DOMAIN queued : Dif(queued[i].key, e) /\ Dif(queued[i].key, f)
  BY Zenon DEF KeyInv
<1>2. /\ NoJob.key = 0 /\ NoShape.key = -1 /\ p \in Int /\ e \in Int /\ f \in Int
      /\ \A i \in DOMAIN queued : queued[i].key \in Int
  <2>1. \A n \in Nat : n \in Int OBVIOUS
  <2> QED BY Zenon, <2>1, KeysTyped
<1>3. /\ \A a \in Int : Dif(a, 0) /\ Dif(0, a) /\ Dif(a, -1) /\ Dif(-1, a)
      /\ \A a, b \in Int : Dif(a, b) => Dif(b, a)
  BY Zenon, DifFacts
<1>4. CASE \E shape \in Shapes : TryReserve(shape)
  <2>1. PICK shape \in Shapes : TryReserve(shape) BY Zenon, <1>4
  <2>2. /\ permit' = shape /\ executing' = executing /\ inflight' = inflight /\ queued' = queued
        /\ shape.key # 0 => shape.key # e /\ shape.key # f
    BY Zenon, <2>1 DEF TryReserve, DirectKeys
  <2>3. shape.key \in Nat BY Zenon, ShapesAssumption DEF ShapeType
  <2>4. shape.key > 0 => shape.key # 0 BY <2>3
  <2>5. Dif(shape.key, e) /\ Dif(shape.key, f) BY Zenon, <2>2, <2>4 DEF Dif
  <2> QED BY Zenon, <2>2, <2>5, <1>1 DEF KeyInv
<1>5. CASE Enqueue
  <2>1. /\ DOMAIN queued' = {1} /\ queued'[1].key = p /\ permit'.key = -1
        /\ executing' = executing /\ inflight' = inflight
    BY Zenon, <1>5, <1>2, EnqueueAppends
  <2> QED BY Zenon, <2>1, <1>1, <1>2, <1>3 DEF KeyInv
<1>6. CASE TakeReady
  <2>1. /\ DOMAIN queued = {1} /\ queued' = <<>> /\ executing' = queued[1]
        /\ permit' = permit /\ inflight = NoJob /\ inflight' = inflight
    BY Zenon, <1>6, TakeTakes
  <2>2. DOMAIN queued' = {}
    <3>1. DOMAIN <<>> = {} OBVIOUS
    <3> QED BY Zenon, <2>1, <3>1
  <2>3. permit = NoShape
    <3>1. queued # <<>>
      <4>1. DOMAIN <<>> # {1} OBVIOUS
      <4> QED BY Zenon, <4>1, <2>1
    <3>2. reserved = 0 BY Zenon, <3>1, OneQueued
    <3>3. permit # NoShape => reserved = 1 BY Zenon DEF SlotInv
    <3>4. reserved # 1 BY <3>2
    <3> QED BY Zenon, <3>3, <3>4
  <2>4. executing'.key \in Int BY Zenon, <2>1, <1>2
  <2> QED BY Zenon, <2>1, <2>2, <2>3, <2>4, <1>2, <1>3 DEF KeyInv
<1>7. CASE Transfer
  <2>1. inflight' = job /\ executing' = NoJob /\ queued' = queued /\ permit' = permit /\ pc = "transfer"
    BY Zenon, <1>7 DEF Transfer, client
  <2>2. executing = job BY Zenon, <2>1 DEF GuardInv, Hot
  <2>3. inflight'.key = e /\ executing'.key = 0 BY Zenon, <2>1, <2>2, <1>2
  <2>4. Dif(permit'.key, executing'.key) /\ Dif(executing'.key, inflight'.key)
    <3>1. Dif(p, 0) /\ Dif(0, e) BY Zenon, <1>2, <1>3
    <3>2. permit'.key = p BY Zenon, <2>1
    <3> QED BY Zenon, <3>1, <3>2, <2>3
  <2>5. Dif(permit'.key, inflight'.key) BY Zenon, <2>1, <2>3, <1>1
  <2>6. \A i \in DOMAIN queued : Dif(queued[i].key, executing'.key)
    <3> TAKE i \in DOMAIN queued
    <3>1. Dif(queued[i].key, 0) BY Zenon, <1>2, <1>3
    <3> QED BY Zenon, <3>1, <2>3
  <2>7. \A i \in DOMAIN queued : Dif(queued[i].key, inflight'.key)
    BY Zenon, <2>3, <1>1
  <2> QED BY Zenon, <2>1, <2>4, <2>5, <2>6, <2>7 DEF KeyInv
<1>8. ASSUME ~(\E shape \in Shapes : TryReserve(shape)), ~Enqueue, ~TakeReady, ~Transfer
      PROVE KeyInv'
  <2>1. permit'.key = p \/ permit'.key = -1
    <3>1. PlanCommit => permit' = permit BY Zenon DEF PlanCommit
    <3> QED BY Zenon, <3>1, <1>8, <1>2, ClientMoves
  <2>2. executing'.key = e \/ executing'.key = 0
    <3>1. ASSUME Attaches PROVE executing'.key = e
      <4>1. PICK t : pc = "collect" /\ job' = AttachSidecar(job, t) /\ executing' = job'
        BY Zenon, <3>1 DEF Attaches
      <4>2. executing = job BY Zenon, <4>1 DEF GuardInv, Hot
      <4>3. AttachSidecar(job, t).key = job.key BY Zenon, KeysTyped, AttachKeeps
      <4> QED BY Zenon, <4>1, <4>2, <4>3
    <3> QED BY Zenon, <3>1, <1>8, <1>2, ExecMoves
  <2>3. inflight'.key = f \/ inflight'.key = 0 BY Zenon, <1>8, <1>2, FlightMoves
  <2>4. queued' = queued \/ DOMAIN queued' = {}
    <3>1. DOMAIN <<>> = {} OBVIOUS
    <3> QED BY Zenon, <3>1, <1>8, QueueMoves
  <2>5. permit'.key \in Int /\ executing'.key \in Int /\ inflight'.key \in Int
    <3>1. 0 \in Int /\ -1 \in Int OBVIOUS
    <3> QED BY Zenon, <3>1, <2>1, <2>2, <2>3, <1>2
  <2>6. Dif(permit'.key, executing'.key) /\ Dif(permit'.key, inflight'.key)
        /\ Dif(executing'.key, inflight'.key)
    <3>1. Dif(permit'.key, executing'.key) BY Zenon, <2>1, <2>2, <2>5, <1>1, <1>2, <1>3
    <3>2. Dif(permit'.key, inflight'.key) BY Zenon, <2>1, <2>3, <2>5, <1>1, <1>2, <1>3
    <3>3. Dif(executing'.key, inflight'.key) BY Zenon, <2>2, <2>3, <2>5, <1>1, <1>2, <1>3
    <3> QED BY Zenon, <3>1, <3>2, <3>3
  <2>7. \A i \in DOMAIN queued' : Dif(queued'[i].key, executing'.key) /\ Dif(queued'[i].key, inflight'.key)
    <3> TAKE i \in DOMAIN queued'
    <3>1. queued' = queued /\ i \in DOMAIN queued BY Zenon, <2>4
    <3>2. queued'[i].key \in Int /\ Dif(queued'[i].key, e) /\ Dif(queued'[i].key, f)
      BY Zenon, <3>1, <1>1, <1>2
    <3>3. Dif(queued'[i].key, executing'.key) BY ZenonT(60), <3>2, <2>2, <1>3
    <3>4. Dif(queued'[i].key, inflight'.key) BY ZenonT(60), <3>2, <2>3, <1>3
    <3> QED BY Zenon, <3>3, <3>4
  <2> QED BY Zenon, <2>6, <2>7 DEF KeyInv
<1> QED BY Zenon, <1>4, <1>5, <1>6, <1>7, <1>8

\* After a successful ioctl the worker's next step is the transfer.
LEMMA TransferEnds ==
  ASSUME GateInv, Next, pc = "transfer" PROVE Transfer \/ (pc' = "transfer" /\ job' = job)
<1>0. /\ "transfer" \notin {"take", "takeSleep", "probe", "deadline", "collect", "dropQuiesce",
        "quiesceJobs", "testGate", "test", "submitGate", "ioctl",
        "backoff", "retain", "rejectSide", "rejectDeps", "rejectEvent", "drop",
        "flip", "flipSleep", "publish", "markFatal", "exit", "exited"}
      /\ Woken = "transfer"
  BY Zenon DEF Woken
<1>1. CASE PublishEvent \/ WorkerMarkFatal \/ TakeStopped \/ TakeQuiesced
         \/ TakeProbe \/ RunProbe \/ TakeInvalidated \/ TakeReady
         \/ TakeSleep \/ DeadlineWait \/ CollectSidecar \/ DropThenQuiesce
         \/ QuiesceWithJobs \/ EnterTest \/ TestOnly \/ EnterSubmit
         \/ SubmitOk \/ SubmitBusy \/ SubmitFailed \/ RetainJob
         \/ BackoffWait \/ RejectSidecar \/ RejectDependents \/ RejectEvent
         \/ EndIteration \/ FlipQuiesced \/ FlipAcknowledged \/ FlipSleep
         \/ FlipTimeout \/ Exit
  BY Zenon, <1>0, <1>1 DEF PublishEvent, WorkerMarkFatal, TakeStopped,
    TakeQuiesced, TakeProbe, RunProbe, TakeInvalidated, TakeReady, TakeSleep,
    DeadlineWait, CollectSidecar, DropThenQuiesce, QuiesceWithJobs,
    EnterTest, TestOnly, EnterSubmit, SubmitOk, SubmitBusy, SubmitFailed,
    RetainJob, BackoffWait, RejectSidecar, RejectDependents, RejectEvent,
    EndIteration, FlipQuiesced, FlipAcknowledged, FlipSleep, FlipTimeout,
    Exit, EnterGate, CanTakeJob
<1>2. CASE SpuriousWake BY Zenon, <1>0, <1>2 DEF SpuriousWake, thread
<1>3. CASE MainStep BY Zenon, <1>0, <1>3, MainFrame DEF thread
<1>4. CASE CompleteFlip \/ Joined BY Zenon, <1>4 DEF CompleteFlip, Joined, vars, thread
<1> QED BY Zenon, <1>1, <1>2, <1>3, <1>4 DEF Next, WorkerStep

\* A pageflip is acknowledged only while the worker has no commit in hand.
LEMMA AckUnheld ==
  ASSUME TypeOK, GateInv, AloneInv, AckPageflip PROVE job = NoJob
<1> SUFFICES ASSUME job # NoJob PROVE FALSE BY Zenon
<1>1. inflight = NoJob /\ (pc # "transfer" => flips = {}) BY Zenon DEF AloneInv
<1>2. PICK b \in owned :
         /\ b.n \in flips
         /\ \/ inflight # NoJob
            \/ lifecycle \in {"ShutdownQuiescing", "ShutdownAbandoning", "Stopped"}
  BY Zenon DEF AckPageflip
<1>3. pc = "transfer" BY Zenon, <1>1, <1>2
<1>4. lifecycle \in {"Running", "Fatal"} BY Zenon, <1>3 DEF GateInv, Gated
<1> QED BY Zenon, <1>1, <1>2, <1>4

\* A commit in hand stays alone.
LEMMA AloneStep ==
  ASSUME TypeOK, SubmissionInv, SlotInv, AloneInv, Next PROVE AloneInv'
<1>1. GateInv /\ HandInv /\ KernelInv BY Zenon DEF SubmissionInv
<1> SUFFICES ASSUME job' # NoJob
             PROVE inflight' = NoJob /\ (pc' # "transfer" => kernel' = {} /\ flips' = {})
  BY Zenon DEF AloneInv
<1>2. CASE TakeReady
  <2>1. /\ pc = "take" /\ lifecycle = "Running" /\ inflight = NoJob /\ inflight' = inflight
        /\ kernel' = kernel /\ flips' = flips
    BY Zenon, <1>2, TakeTakes
  <2>2. NoJob.id = 0 BY Zenon DEF NoJob
  <2>3. \A n \in kernel \cup flips : n = inflight.id BY Zenon, <1>1, <2>1 DEF KernelInv, Tracked
  <2>4. 0 \notin kernel /\ 0 \notin flips BY Zenon, <1>1 DEF KernelInv
  <2>5. kernel = {} /\ flips = {} BY Zenon, <2>1, <2>2, <2>3, <2>4
  <2> QED BY Zenon, <2>1, <2>5
<1>3. CASE ~TakeReady
  <2>1. job # NoJob
    <3>1. ASSUME Attaches PROVE job # NoJob
      <4>1. pc = "collect" BY Zenon, <3>1 DEF Attaches
      <4>2. job.id > 0 BY Zenon, <1>1, <4>1 DEF HandInv, Holding, InHand
      <4> QED BY <4>2 DEF NoJob
    <3> QED BY Zenon, <3>1, <1>3, JobMoves
  <2>2. inflight = NoJob /\ (pc # "transfer" => kernel = {} /\ flips = {}) BY Zenon, <2>1 DEF AloneInv
  <2>3. ~Transfer BY Zenon DEF Transfer
  <2>4. inflight' = NoJob BY Zenon, <2>2, <2>3, FlightMoves
  <2>5. ASSUME pc' # "transfer" PROVE kernel' = {} /\ flips' = {}
    <3>1. pc # "transfer" BY Zenon, <1>1, <2>3, <2>5, TransferEnds
    <3>2. ~SubmitOk BY Zenon, <2>5 DEF SubmitOk
    <3>3. \A n \in kernel' \cup flips' : n \in kernel \cup flips BY Zenon, <3>2, DeviceMoves
    <3> QED BY Zenon, <2>2, <3>1, <3>3
  <2> QED BY Zenon, <2>4, <2>5
<1> QED BY Zenon, <1>2, <1>3

\* The compositor thread's control point only moves at a pageflip, at its
\* promotion, at a failure and at the join.
LEMMA MainMoves ==
  ASSUME Next
  PROVE \/ main' = main
        \/ main' \in {"failed", "joining", "joined"}
             /\ (plan' = NoPlan \/ (plan' = plan /\ main # "running"))
        \/ AckPageflip \/ PromotePresented
<1>1. CASE PublishEvent \/ WorkerMarkFatal \/ TakeStopped \/ TakeQuiesced
         \/ TakeProbe \/ RunProbe \/ TakeInvalidated \/ TakeReady
         \/ TakeSleep \/ DeadlineWait \/ CollectSidecar \/ DropThenQuiesce
         \/ QuiesceWithJobs \/ EnterTest \/ TestOnly \/ EnterSubmit
         \/ SubmitOk \/ SubmitBusy \/ SubmitFailed \/ Transfer \/ RetainJob
         \/ BackoffWait \/ RejectSidecar \/ RejectDependents \/ RejectEvent
         \/ EndIteration \/ FlipQuiesced \/ FlipAcknowledged \/ FlipSleep
         \/ FlipTimeout \/ Exit \/ PlanCommit
         \/ (\E shape \in Shapes : TryReserve(shape)) \/ ReserveRefused
         \/ Enqueue \/ EnqueueRefused \/ DropPermit \/ LookForPrimary
         \/ OfferSidecar \/ OfferRefused \/ TakeDueSidecar \/ CancelQueued
         \/ QueueProbe \/ DrainEvents \/ RequestQuiesce \/ BeginShutdown
         \/ ForceAbandon \/ SpuriousWake \/ CompleteFlip \/ Joined
  BY Zenon, <1>1 DEF PublishEvent, WorkerMarkFatal, TakeStopped,
    TakeQuiesced, TakeProbe, RunProbe, TakeInvalidated, TakeReady, TakeSleep,
    DeadlineWait, CollectSidecar, DropThenQuiesce, QuiesceWithJobs,
    EnterTest, TestOnly, EnterSubmit, SubmitOk, SubmitBusy, SubmitFailed,
    Transfer, RetainJob, BackoffWait, RejectSidecar, RejectDependents,
    RejectEvent, EndIteration, FlipQuiesced, FlipAcknowledged, FlipSleep,
    FlipTimeout, Exit, PlanCommit, TryReserve, ReserveRefused, Enqueue,
    EnqueueRefused, DropPermit, LookForPrimary, OfferSidecar, OfferRefused,
    TakeDueSidecar, CancelQueued, QueueProbe, DrainEvents, RequestQuiesce,
    BeginShutdown, ForceAbandon, SpuriousWake, CompleteFlip, Joined,
    EnterGate, vars, client
<1>2. CASE QuarantineAdmission BY Zenon, <1>2 DEF QuarantineAdmission, ReleasePermit
<1>3. CASE FailTransition BY Zenon, <1>3 DEF FailTransition, MainIdle
<1>4. CASE StartJoin
  <2>1. "failed" # "running" BY Zenon
  <2> QED BY Zenon, <2>1, <1>4 DEF StartJoin, MainIdle
<1>5. CASE JoinReturns
  <2>1. "joining" # "running" BY Zenon
  <2> QED BY Zenon, <2>1, <1>5 DEF JoinReturns
<1>6. CASE AckPageflip \/ PromotePresented BY Zenon, <1>6
<1> QED BY Zenon, <1>1, <1>2, <1>3, <1>4, <1>5, <1>6
  DEF Next, WorkerStep, MainStep

\* The compositor has seen every pageflip it acknowledged.
LEMMA PlanStep == ASSUME TypeOK, PlanInv, Next PROVE PlanInv'
<1>0. NoPlan.of = "no" /\ "no" # "rev" BY Zenon DEF NoPlan
<1>1. CASE AckPageflip
  <2>1. main = "running" /\ plan = NoPlan BY Zenon, <1>1 DEF AckPageflip, MainIdle
  <2>2. acks' = acks + 1 /\ revision' = revision /\ plan' = plan BY Zenon, <1>1 DEF AckPageflip
  <2>3. main' \in {"acked", "failed"} BY Zenon, <1>1 DEF AckPageflip, AckInflight
  <2>4. acks = revision BY Zenon, <2>1 DEF PlanInv
  <2>5. main' # "running" BY Zenon, <2>3
  <2>6. plan' = NoPlan /\ plan'.of # "rev" BY Zenon, <2>1, <2>2, <1>0
  <2>7. acks' = revision' + 1 BY Zenon, <2>2, <2>4
  <2> QED BY Zenon, <2>5, <2>6, <2>7 DEF PlanInv
<1>2. CASE PromotePresented
  <2>1. /\ main = "acked" /\ main' = "running" /\ revision' = revision + 1 /\ plan' = plan /\ acks' = acks
    BY Zenon, <1>2 DEF PromotePresented, device
  <2>2. acks = revision + 1 BY Zenon, <2>1 DEF PlanInv
  <2>3. "acked" # "running" BY Zenon
  <2>4. plan = NoPlan BY Zenon, <2>1, <2>3 DEF PlanInv
  <2>5. plan'.of # "rev" BY Zenon, <2>1, <2>4, <1>0
  <2> QED BY Zenon, <2>1, <2>2, <2>3, <2>4, <2>5 DEF PlanInv
<1>3. CASE PlanCommit
  <2>1. /\ main = "running" /\ main' = main /\ revision' = revision /\ acks' = acks
        /\ plan' = PlannedBase
    BY Zenon, <1>3 DEF PlanCommit, MainIdle, device
  <2>2. \A j : Predecessor(j).of = "pred" BY Zenon DEF Predecessor
  <2>3. "pred" # "rev" BY Zenon
  <2>4. plan'.of = "rev" => plan' = Presented(revision')
    BY Zenon, <2>1, <2>2, <2>3 DEF PlannedBase
  <2>5. acks = revision BY Zenon, <2>1 DEF PlanInv
  <2>6. "running" # "acked" BY Zenon
  <2> QED BY Zenon, <2>1, <2>4, <2>5, <2>6 DEF PlanInv
<1>4. CASE ~AckPageflip /\ ~PromotePresented /\ ~PlanCommit
  <2>1. acks' = acks /\ revision' = revision BY Zenon, <1>4, BaseMoves, ClientMoves
  <2>2. plan' = plan \/ plan' = NoPlan
    <3>1. (\E shape \in Shapes : TryReserve(shape)) => plan' = plan BY Zenon DEF TryReserve
    <3> QED BY Zenon, <3>1, <1>4, ClientMoves
  <2>3. \/ main' = main
        \/ main' \in {"failed", "joining", "joined"}
             /\ (plan' = NoPlan \/ (plan' = plan /\ main # "running"))
    BY Zenon, <1>4, MainMoves
  <2>4. plan'.of = "rev" => plan' = Presented(revision') BY Zenon, <1>0, <2>1, <2>2 DEF PlanInv
  <2>5. plan' # NoPlan => main' = "running" BY Zenon, <2>2, <2>3 DEF PlanInv
  <2>6. main' # main => main' # "running" /\ main' # "acked"
    <3>1. \A m \in {"failed", "joining", "joined"} : m # "running" /\ m # "acked" BY Zenon
    <3> QED BY Zenon, <2>3, <3>1
  <2> QED BY Zenon, <2>1, <2>4, <2>5, <2>6 DEF PlanInv
<1> QED BY Zenon, <1>1, <1>2, <1>3, <1>4

\* What a running worker validates against is what the screen shows.
LEMMA EstablishedStep ==
  ASSUME TypeOK, SlotInv, PlanInv, EstablishedInv, Next PROVE EstablishedInv'
<1>0. lifecycle' = "Running" => lifecycle = "Running" BY Zenon, StopsForGood
<1>1. CASE Enqueue
  <2>1. /\ DOMAIN queued' = {1} /\ queued'[1].base = plan /\ shown' = shown /\ acks' = acks
        /\ established' = IF established.of = "none" /\ plan.of = "rev" THEN plan ELSE established
        /\ plan # NoPlan
    BY Zenon, <1>1, EnqueueAppends
  <2>2. plan.of = "rev" => plan = Presented(acks)
    BY Zenon, <2>1 DEF PlanInv
  <2>3. "rev" # "none" /\ "rev" # "bundle" BY Zenon
  <2>4. CASE established.of = "none" /\ plan.of = "rev"
    <3>1. established' = plan BY Zenon, <2>1, <2>4
    <3> QED BY Zenon, <3>1, <2>1, <2>2, <2>3, <2>4 DEF EstablishedInv
  <2>5. CASE ~(established.of = "none" /\ plan.of = "rev")
    <3>1. established' = established BY Zenon, <2>1, <2>5
    <3>2. established'.of = "none" => \A i \in DOMAIN queued' : queued'[i].base.of # "rev"
      BY Zenon, <3>1, <2>1, <2>5
    <3> QED BY Zenon, <3>1, <3>2, <2>1, <1>0 DEF EstablishedInv
  <2> QED BY Zenon, <2>4, <2>5
<1>2. CASE Transfer
  <2>1. established'.of = "pending" BY Zenon, <1>2 DEF Transfer, Established
  <2>2. "pending" # "none" /\ "pending" # "rev" /\ "pending" # "bundle" BY Zenon
  <2> QED BY Zenon, <2>1, <2>2 DEF EstablishedInv
<1>3. CASE AckPageflip
  <2>1. PICK b \in owned :
         /\ shown' = b
         /\ \/ Bundle(inflight) = b /\ established' = Established("bundle", inflight)
            \/ lifecycle \in {"ShutdownQuiescing", "ShutdownAbandoning", "Stopped"}
                 /\ queued' = queued /\ established' = established /\ lifecycle' = lifecycle
    BY Zenon, <1>3 DEF AckPageflip, AckInflight
  <2>2. CASE Bundle(inflight) = b /\ established' = Established("bundle", inflight)
    <3>1. established' = [of |-> "bundle", n |-> inflight.id, s |-> inflight.cur]
      BY Zenon, <2>2 DEF Established
    <3>2. shown' = [n |-> inflight.id, s |-> inflight.cur] BY Zenon, <2>1, <2>2 DEF Bundle
    <3>3. established'.of = "bundle" /\ established'.n = inflight.id /\ established'.s = inflight.cur
      BY Zenon, <3>1
    <3>4. "bundle" # "none" /\ "bundle" # "rev" BY Zenon
    <3> QED BY Zenon, <3>2, <3>3, <3>4 DEF EstablishedInv
  <2>3. CASE lifecycle \in {"ShutdownQuiescing", "ShutdownAbandoning", "Stopped"}
                 /\ queued' = queued /\ established' = established /\ lifecycle' = lifecycle
    <3>1. lifecycle' # "Running" BY Zenon, <2>3
    <3> QED BY Zenon, <2>3, <3>1 DEF EstablishedInv
  <2> QED BY Zenon, <2>1, <2>2, <2>3
<1>4. CASE PromotePresented
  <2>1. /\ main = "acked" /\ queued' = queued /\ acks' = acks /\ shown' = shown
        /\ established' = IF queued = <<>> THEN Presented(revision + 1) ELSE established
    BY Zenon, <1>4 DEF PromotePresented, device
  <2>2. acks = revision + 1 BY Zenon, <2>1 DEF PlanInv
  <2>3. Presented(acks).of = "rev" BY Zenon DEF Presented
  <2>4. "rev" # "none" /\ "rev" # "bundle" BY Zenon
  <2>5. established' = Presented(acks) \/ established' = established BY Zenon, <2>1, <2>2
  <2> QED BY Zenon, <2>1, <2>3, <2>4, <2>5, <1>0 DEF EstablishedInv
<1>5. CASE ~Enqueue /\ ~Transfer /\ ~AckPageflip /\ ~PromotePresented
  <2>1. established' = established /\ shown' = shown /\ acks' = acks BY Zenon, <1>5, BaseMoves
  <2>2. queued' = queued \/ DOMAIN queued' = {}
    <3>1. DOMAIN <<>> = {} OBVIOUS
    <3> QED BY Zenon, <3>1, <1>5, QueueMoves
  <2> QED BY Zenon, <2>1, <2>2, <1>0 DEF EstablishedInv
<1> QED BY Zenon, <1>1, <1>2, <1>3, <1>4, <1>5

\* Commits are accepted, taken and submitted in order.
LEMMA OrderStep ==
  ASSUME TypeOK, SubmissionInv, SlotInv, OrderInv, Next PROVE OrderInv'
<1>0. /\ job.id \in Nat /\ jobCount \in Nat /\ NoJob.id = 0
      /\ \A i \in DOMAIN queued : queued[i].id \in Nat
  BY Zenon, KeysTyped
<1>1. /\ job.id <= jobCount
      /\ \A i \in DOMAIN queued : queued[i].id <= jobCount /\ job.id < queued[i].id /\ 0 < queued[i].id
      /\ \A n \in kernel \cup flips : n = lastSubmitted
  <2>1. QueueInv BY Zenon DEF SubmissionInv
  <2>2. \A i \in DOMAIN queued : 0 < queued[i].id
    <3> TAKE i \in DOMAIN queued
    <3>1. queued[i].id > 0 BY Zenon, <2>1 DEF QueueInv
    <3> QED BY Zenon, <3>1, <1>0
  <2> QED BY Zenon, <2>2 DEF OrderInv
<1>2. \A n \in kernel' \cup flips' : n = lastSubmitted'
  <2>1. CASE SubmitOk
    <3>1. /\ pc = "ioctl" /\ kernel' = kernel \cup {job.id} /\ flips' = flips
          /\ lastSubmitted' = job.id
      BY Zenon, <2>1 DEF SubmitOk
    <3>2. kernel = {} /\ flips = {} BY Zenon, <3>1 DEF SubmissionInv, KernelInv
    <3> QED BY Zenon, <3>1, <3>2
  <2> QED BY Zenon, <2>1, <1>1, DeviceMoves
<1>3. CASE Enqueue
  <2>1. /\ DOMAIN queued' = {1} /\ queued'[1].id = jobCount + 1 /\ jobCount' = jobCount + 1
        /\ job' = job
    BY Zenon, <1>3, EnqueueAppends
  <2>2. job.id <= jobCount + 1 /\ jobCount + 1 <= jobCount + 1 /\ job.id < jobCount + 1
    BY <1>0, <1>1
  <2> QED BY Zenon, <2>1, <2>2, <1>2 DEF OrderInv
<1>4. CASE TakeReady
  <2>1. DOMAIN queued = {1} /\ queued' = <<>> /\ job' = queued[1] /\ jobCount' = jobCount
    BY Zenon, <1>4, TakeTakes
  <2>2. DOMAIN queued' = {}
    <3>1. DOMAIN <<>> = {} OBVIOUS
    <3> QED BY Zenon, <3>1, <2>1
  <2> QED BY Zenon, <2>1, <2>2, <1>1, <1>2 DEF OrderInv
<1>5. CASE ~Enqueue /\ ~TakeReady
  <2>1. jobCount' = jobCount BY Zenon, <1>5, ClientMoves
  <2>2. queued' = queued \/ DOMAIN queued' = {}
    <3>1. DOMAIN <<>> = {} OBVIOUS
    <3> QED BY Zenon, <3>1, <1>5, QueueMoves
  <2>3. job'.id = job.id \/ job'.id = 0
    <3>1. ASSUME Attaches PROVE job'.id = job.id
      <4>1. PICK t : job' = AttachSidecar(job, t) BY Zenon, <3>1 DEF Attaches
      <4>2. AttachSidecar(job, t).id = job.id BY Zenon, KeysTyped, AttachKeeps
      <4> QED BY Zenon, <4>1, <4>2
    <3> QED BY Zenon, <3>1, <1>0, <1>5, JobMoves
  <2>4. 0 <= jobCount BY <1>0
  <2>5. job'.id <= jobCount' BY Zenon, <2>1, <2>3, <2>4, <1>1
  <2>6. \A i \in DOMAIN queued' : queued'[i].id <= jobCount' /\ job'.id < queued'[i].id
    <3> TAKE i \in DOMAIN queued'
    <3>1. queued' = queued /\ i \in DOMAIN queued BY Zenon, <2>2
    <3>2. queued[i].id <= jobCount /\ job.id < queued[i].id /\ 0 < queued[i].id BY Zenon, <3>1, <1>1
    <3> QED BY Zenon, <3>1, <3>2, <2>1, <2>3
  <2> QED BY Zenon, <2>5, <2>6, <1>2 DEF OrderInv
<1> QED BY Zenon, <1>3, <1>4, <1>5

\* A commit found Ready by a running worker was planned on what is shown.
LEMMA ReadyIsShown ==
  ASSUME TypeOK, EstablishedInv, lifecycle = "Running", NEW i \in DOMAIN queued,
         NEW r \in BaseType, r = queued[i].base, BaseDisposition(r) = "Ready"
  PROVE (r.of = "pred" /\ [n |-> r.n, s |-> r.s] = shown) \/ r = Presented(acks)
<1>0. "Wait" # "Ready" /\ "Invalidated" # "Ready" BY Zenon
<1>1. established.of # "none"
  <2>1. ASSUME established.of = "none" PROVE FALSE
    <3>1. r.of # "rev" BY Zenon, <2>1 DEF EstablishedInv
    <3> QED BY Zenon, <2>1, <3>1, <1>0 DEF BaseDisposition
  <2> QED BY Zenon, <2>1
<1>2. BaseReady(r) = "Ready" BY Zenon, <1>1 DEF BaseDisposition
<1>3. CASE established.of = "rev" /\ r = established
  BY Zenon, <1>3 DEF EstablishedInv
<1>4. CASE ~(established.of = "rev" /\ r = established)
  <2>1. r = [established EXCEPT !.of = "pred"] /\ established.of = "bundle"
    BY Zenon, <1>0, <1>2, <1>4 DEF BaseReady
  <2>2. established \in EstablishedType BY Zenon DEF TypeOK, StateType
  <2>3. r.of = "pred" /\ r.n = established.n /\ r.s = established.s BY Zenon, <2>1, <2>2 DEF EstablishedType
  <2>4. shown = [n |-> established.n, s |-> established.s] BY Zenon, <2>1 DEF EstablishedInv
  <2> QED BY Zenon, <2>3, <2>4
<1> QED BY Zenon, <1>3, <1>4

\* The commit in hand was planned on what the screen shows.
LEMMA BaseStep ==
  ASSUME TypeOK, SubmissionInv, SlotInv, AloneInv, EstablishedInv, BaseIsShown, Next PROVE BaseIsShown'
<1> SUFFICES ASSUME job' # NoJob
             PROVE \/ job'.base.of = "pred" /\ [n |-> job'.base.n, s |-> job'.base.s] = shown'
                   \/ job'.base = Presented(acks')
  BY Zenon DEF BaseIsShown
<1>0. GateInv /\ HandInv BY Zenon DEF SubmissionInv
<1>1. CASE TakeReady
  <2>1. /\ lifecycle = "Running" /\ DOMAIN queued = {1} /\ job' = queued[1]
        /\ BaseDisposition(queued[1].base) = "Ready" /\ shown' = shown /\ acks' = acks
    BY Zenon, <1>1, TakeTakes
  <2> DEFINE r == queued[1].base
  <2>2. 1 \in DOMAIN queued BY Zenon, <2>1
  <2>3. r \in BaseType
    <3>1. queued[1] \in JobType BY Zenon, <2>2, KeysTyped
    <3> QED BY Zenon, <3>1, JobDerivedTyped
  <2>4. (r.of = "pred" /\ [n |-> r.n, s |-> r.s] = shown) \/ r = Presented(acks)
    <3>1. r = queued[1].base /\ BaseDisposition(r) = "Ready" BY Zenon, <2>1
    <3> HIDE DEF r
    <3> QED BY Zenon, <3>1, <2>1, <2>2, <2>3, ReadyIsShown
  <2> QED BY Zenon, <2>1, <2>4
<1>2. CASE ~TakeReady
  <2>1. job # NoJob /\ job'.base = job.base
    <3>1. ASSUME Attaches PROVE job # NoJob /\ job'.base = job.base
      <4>1. PICK t : pc = "collect" /\ job' = AttachSidecar(job, t) BY Zenon, <3>1 DEF Attaches
      <4>2. job.id > 0 BY Zenon, <1>0, <4>1 DEF HandInv, Holding, InHand
      <4>3. job # NoJob BY <4>2 DEF NoJob
      <4>4. AttachSidecar(job, t).base = job.base BY Zenon, KeysTyped, AttachKeeps
      <4> QED BY Zenon, <4>1, <4>3, <4>4
    <3> QED BY Zenon, <3>1, <1>2, JobMoves
  <2>2. ~AckPageflip BY Zenon, <2>1, <1>0, AckUnheld
  <2>3. shown' = shown /\ acks' = acks BY Zenon, <2>2, BaseMoves
  <2> QED BY Zenon, <2>1, <2>3 DEF BaseIsShown
<1> QED BY Zenon, <1>1, <1>2

\* Admission starts sound.
LEMMA AdmissionInit == Init => AdmissionInv
<1> SUFFICES ASSUME Init PROVE AdmissionInv BY Zenon
<1>0. DOMAIN queued = {} /\ Len(queued) = 0 BY DEF Init
<1>1. SlotInv BY <1>0 DEF Init, SlotInv
<1>2. GuardInv BY Zenon DEF Init, GuardInv, Hot, NoReturn, Reporting
<1>3. KeyInv BY <1>0 DEF Init, KeyInv, Dif, NoJob, NoShape
<1>4. AloneInv /\ BaseIsShown BY Zenon DEF Init, AloneInv, BaseIsShown
<1>5. PlanInv BY Zenon DEF Init, PlanInv, NoPlan
<1>6. EstablishedInv BY ZenonT(60), <1>0 DEF Init, EstablishedInv, Unestablished
<1>7. OrderInv BY <1>0 DEF Init, OrderInv, NoJob
<1> QED BY ZenonT(60), <1>1, <1>2, <1>3, <1>4, <1>5, <1>6, <1>7 DEF AdmissionInv

\* Every step keeps it sound.
LEMMA AdmissionInductive ==
  ASSUME TypeOK, SubmissionInv, AdmissionInv, [Next]_vars PROVE AdmissionInv'
<1>0. GateInv BY Zenon DEF SubmissionInv
<1>1. CASE Next
  <2>1. SlotInv' /\ GuardInv' BY Zenon, <1>0, <1>1, SlotStep, GuardStep DEF AdmissionInv
  <2>2. KeyInv' /\ AloneInv' BY Zenon, <1>1, KeyStep, AloneStep DEF AdmissionInv
  <2>3. PlanInv' /\ EstablishedInv' BY Zenon, <1>1, PlanStep, EstablishedStep DEF AdmissionInv
  <2>4. OrderInv' /\ BaseIsShown' BY Zenon, <1>1, OrderStep, BaseStep DEF AdmissionInv
  <2> QED BY Zenon, <2>1, <2>2, <2>3, <2>4 DEF AdmissionInv
<1>2. CASE UNCHANGED vars
  <2>1. UNCHANGED <<state, pc, thread, client, device>> BY Zenon, <1>2 DEF vars
  <2>2. SlotInv' BY Zenon, <2>1 DEF AdmissionInv, SlotInv, state, client
  <2>3. GuardInv' BY Zenon, <2>1 DEF AdmissionInv, GuardInv, state, thread
  <2>4. KeyInv' BY Zenon, <2>1 DEF AdmissionInv, KeyInv, state, client
  <2>5. AloneInv' BY Zenon, <2>1 DEF AdmissionInv, AloneInv, state, thread, device
  <2>6. PlanInv' BY Zenon, <2>1 DEF AdmissionInv, PlanInv, client, device
  <2>7. EstablishedInv' BY Zenon, <2>1 DEF AdmissionInv, EstablishedInv, state, device
  <2>8. OrderInv' BY Zenon, <2>1 DEF AdmissionInv, OrderInv, state, thread, client, device
  <2>9. BaseIsShown' BY Zenon, <2>1 DEF AdmissionInv, BaseIsShown, thread, device
  <2> QED BY Zenon, <2>2, <2>3, <2>4, <2>5, <2>6, <2>7, <2>8, <2>9 DEF AdmissionInv
<1> QED BY Zenon, <1>1, <1>2

\* What is known of every reachable state of the worker.
WorkerInv == TypeOK /\ SubmissionInv /\ AdmissionInv

\* Types, the submission invariant and the admission invariant hold always.
THEOREM WorkerInvariant == Spec => []WorkerInv
<1>1. Init => WorkerInv BY Zenon, TypeInit, SubmissionInit, AdmissionInit DEF WorkerInv
<1>2. WorkerInv /\ [Next]_vars => WorkerInv'
  <2> SUFFICES ASSUME WorkerInv, [Next]_vars PROVE WorkerInv' BY Zenon
  <2>1. TypeOK /\ SubmissionInv /\ AdmissionInv BY Zenon DEF WorkerInv
  <2>2. TypeOK' BY Zenon, <2>1, TypeNext
  <2>3. SubmissionInv' BY Zenon, <2>1, SubmissionInductive
  <2>4. AdmissionInv' BY Zenon, <2>1, AdmissionInductive
  <2> QED BY Zenon, <2>2, <2>3, <2>4 DEF WorkerInv
<1> QED BY <1>1, <1>2, PTL DEF Spec

\* The elements of a concatenation.
LEMMA Concat ==
  ASSUME NEW a \in Seq(Int), NEW b \in Seq(Int)
  PROVE /\ DOMAIN (a \o b) = 1..(Len(a) + Len(b))
        /\ \A i \in 1..Len(a) : (a \o b)[i] = a[i]
        /\ \A i \in (Len(a) + 1)..(Len(a) + Len(b)) : (a \o b)[i] = b[i - Len(a)]
<1>1. a \o b \in Seq(Int) /\ Len(a \o b) = Len(a) + Len(b) OBVIOUS
<1>2. \A i \in 1..Len(a) : (a \o b)[i] = a[i] OBVIOUS
<1>3. \A i \in (Len(a) + 1)..(Len(a) + Len(b)) : (a \o b)[i] = b[i - Len(a)] OBVIOUS
<1>4. DOMAIN (a \o b) = 1..(Len(a) + Len(b)) BY <1>1
<1> QED BY Zenon, <1>2, <1>3, <1>4

\* No two places hold the same key.
LEMMA KeysApart == ASSUME TypeOK, SlotInv, KeyInv PROVE DirectKeysDistinct
<1> DEFINE p == permit.key
           e == executing.key
           f == inflight.key
           q == [i \in DOMAIN queued |-> queued[i].key]
           keys == <<p, e, f>> \o q
<1>1. p \in Int /\ e \in Int /\ f \in Int
  <2>1. \A n \in Nat : n \in Int OBVIOUS
  <2> QED BY Zenon, <2>1, KeysTyped
<1>2. Dif(p, e) /\ Dif(p, f) /\ Dif(e, f) BY Zenon DEF KeyInv
<1>3. Dif(e, p) /\ Dif(f, p) /\ Dif(f, e) BY Zenon, <1>1, <1>2, DifFacts
<1>4. SUFFICES \A i, k \in DOMAIN keys : i # k /\ keys[i] > 0 => keys[i] # keys[k]
  BY Zenon DEF DirectKeysDistinct
<1>5. CASE queued = <<>>
  <2>1. q = <<>>
    <3>1. DOMAIN queued = {} BY <1>5
    <3> QED BY <3>1
  <2> HIDE DEF p, e, f, q
  <2>2. keys = <<p, e, f>> BY <2>1
  <2> QED BY <2>2, <1>2, <1>3 DEF Dif
<1>6. CASE queued # <<>>
  <2>1. DOMAIN queued = {1} /\ reserved = 0 BY Zenon, <1>6, OneQueued
  <2> DEFINE x == queued[1].key
  <2>2. q = <<x>>
    <3>1. q = [i \in {1} |-> queued[i].key] BY Zenon, <2>1
    <3>2. [i \in {1} |-> queued[i].key] = <<x>> OBVIOUS
    <3> QED BY Zenon, <3>1, <3>2
  <2>3. permit = NoShape
    <3>1. permit # NoShape => reserved = 1 BY Zenon DEF SlotInv
    <3>2. reserved # 1 BY <2>1
    <3> QED BY Zenon, <3>1, <3>2
  <2>4. p = -1 BY Zenon, <2>3, KeysTyped
  <2>5. x \in Int /\ Dif(x, e) /\ Dif(x, f)
    <3>1. 1 \in DOMAIN queued BY Zenon, <2>1
    <3>2. x \in Nat BY Zenon, <3>1, KeysTyped
    <3>3. \A n \in Nat : n \in Int OBVIOUS
    <3> QED BY Zenon, <3>1, <3>2, <3>3 DEF KeyInv
  <2>6. Dif(e, x) /\ Dif(f, x) BY Zenon, <2>5, <1>1, DifFacts
  <2>7. Dif(p, x) /\ Dif(x, p)
    <3>1. Dif(-1, x) /\ Dif(x, -1) BY <2>5 DEF Dif
    <3> QED BY Zenon, <2>4, <3>1
  <2> HIDE DEF p, e, f, q, x
  <2>8. keys = <<p, e, f>> \o <<x>> BY Zenon, <2>2
  <2>9. DOMAIN keys = {1, 2, 3, 4} /\ keys[1] = p /\ keys[2] = e /\ keys[3] = f /\ keys[4] = x
    <3> DEFINE a == <<p, e, f>>
               b == <<x>>
    <3>1. a \in Seq(Int) /\ Len(a) = 3 /\ a[1] = p /\ a[2] = e /\ a[3] = f BY <1>1
    <3>2. b \in Seq(Int) /\ Len(b) = 1 /\ b[1] = x BY <2>5
    <3>3. keys = a \o b BY Zenon, <2>8
    <3> HIDE DEF a, b, keys
    <3>4. /\ DOMAIN keys = 1..(3 + 1) /\ \A i \in 1..3 : keys[i] = a[i]
          /\ \A i \in (3 + 1)..(3 + 1) : keys[i] = b[i - 3]
      <4>1. /\ DOMAIN (a \o b) = 1..(Len(a) + Len(b))
            /\ \A i \in 1..Len(a) : (a \o b)[i] = a[i]
            /\ \A i \in (Len(a) + 1)..(Len(a) + Len(b)) : (a \o b)[i] = b[i - Len(a)]
        BY Zenon, <3>1, <3>2, Concat
      <4>2. Len(a) = 3 /\ Len(b) = 1 BY Zenon, <3>1, <3>2
      <4>3. /\ DOMAIN keys = 1..(Len(a) + Len(b))
            /\ \A i \in 1..Len(a) : keys[i] = a[i]
            /\ \A i \in (Len(a) + 1)..(Len(a) + Len(b)) : keys[i] = b[i - Len(a)]
        BY Zenon, <4>1, <3>3
      <4> QED BY Zenon, <4>2, <4>3
    <3>5. 4 \in (3 + 1)..(3 + 1) /\ 4 - 3 = 1 OBVIOUS
    <3>6. 1..(3 + 1) = {1, 2, 3, 4} /\ 1 \in 1..3 /\ 2 \in 1..3 /\ 3 \in 1..3 OBVIOUS
    <3>7. keys[4] = b[1] BY Zenon, <3>4, <3>5
    <3> QED BY Zenon, <3>1, <3>2, <3>4, <3>6, <3>7
  <2> HIDE DEF keys
  <2>10. \A i, k \in {1, 2, 3, 4} : i # k => Dif(keys[i], keys[k])
    BY Zenon, <2>9, <1>2, <1>3, <2>5, <2>6, <2>7
  <2> QED BY Zenon, <2>9, <2>10 DEF Dif
<1> QED BY Zenon, <1>5, <1>6

\* A commit in the worker's hands was planned on what the screen shows, no two
\* admitted commits share a direct-scanout key and a permit of a running worker
\* finds its slot free (try_reserve, enqueue, take_next_work, ack_pageflip),
\* under every fault.
THEOREM AdmissionSafe == Spec => []AdmissionSound
<1>1. WorkerInv => AdmissionSound
  <2> SUFFICES ASSUME WorkerInv PROVE AdmissionSound BY Zenon
  <2>1. TypeOK /\ SlotInv /\ KeyInv /\ BaseIsShown BY Zenon DEF WorkerInv, AdmissionInv
  <2>2. DirectKeysDistinct BY Zenon, <2>1, KeysApart
  <2>3. PermitHonoured
    <3> SUFFICES ASSUME permit # NoShape PROVE Len(queued) < 1
      BY Zenon DEF PermitHonoured, QUEUED_JOB_CAPACITY
    <3>1. queued = <<>>
      <4>1. reserved = 1 BY Zenon, <2>1 DEF SlotInv
      <4>2. reserved # 0 BY <4>1
      <4> QED BY Zenon, <2>1, <4>2, OneQueued
    <3> QED BY <3>1
  <2> QED BY Zenon, <2>1, <2>2, <2>3 DEF AdmissionSound
<1> QED BY <1>1, WorkerInvariant, PTL

(***************************************************************************)
(* The lane                                                                *)
(***************************************************************************)
InHandId == IF job = NoJob \/ pc = "transfer" THEN {} ELSE {job.id}
Pending == {queued[i].id : i \in DOMAIN queued} \cup InHandId
Flight == IF pc = "transfer" THEN job.id ELSE inflight.id
Closed == lifecycle # "Running" /\ pc # "ioctl"

\* The ioctl is entered only through the gate, the transfer only after it.
LEMMA GateEnters ==
  ASSUME GateInv, Next
  PROVE /\ pc' = "ioctl" => pc = "ioctl" \/ lifecycle = "Running"
        /\ pc' = "transfer" => pc = "transfer" \/ SubmitOk
<1> DEFINE Others == {"take", "takeSleep", "probe", "deadline", "collect", "dropQuiesce",
        "quiesceJobs", "testGate", "test", "submitGate",
        "backoff", "retain", "rejectSide", "rejectDeps", "rejectEvent", "drop",
        "flip", "flipSleep", "publish", "markFatal", "exit", "exited"}
<1>0. /\ "ioctl" \notin Others /\ "transfer" \notin Others /\ "ioctl" # "transfer"
      /\ "take" \in Others /\ "takeSleep" \in Others /\ "probe" \in Others
      /\ "deadline" \in Others /\ "collect" \in Others /\ "dropQuiesce" \in Others
      /\ "quiesceJobs" \in Others /\ "testGate" \in Others /\ "test" \in Others
      /\ "submitGate" \in Others /\ "rejectSide" \in Others
      /\ "rejectDeps" \in Others /\ "rejectEvent" \in Others
      /\ "flip" \in Others /\ "flipSleep" \in Others /\ "publish" \in Others
      /\ "markFatal" \in Others /\ "exit" \in Others /\ "exited" \in Others
  BY Zenon
<1>w. Woken = pc \/ Woken \in Others BY Zenon, <1>0 DEF Woken
<1> HIDE DEF Others
<1>1. CASE PublishEvent \/ WorkerMarkFatal
  <2>1. pc' \in {ret.ok, ret.failed, "markFatal"} BY Zenon, <1>1 DEF PublishEvent, WorkerMarkFatal
  <2> QED BY Zenon, <2>1 DEF GateInv, Gated
<1>2. CASE TakeStopped \/ TakeQuiesced \/ TakeProbe \/ RunProbe
         \/ TakeInvalidated \/ TakeReady \/ TakeSleep \/ DeadlineWait
         \/ CollectSidecar \/ DropThenQuiesce \/ QuiesceWithJobs
         \/ EnterTest \/ TestOnly \/ SubmitBusy \/ SubmitFailed \/ Transfer
         \/ RetainJob \/ BackoffWait \/ RejectSidecar \/ RejectDependents
         \/ RejectEvent \/ EndIteration \/ FlipQuiesced \/ FlipAcknowledged
         \/ FlipSleep \/ FlipTimeout \/ Exit
  <2>1. pc' \in Others
    BY Zenon, <1>0, <1>2 DEF TakeStopped, TakeQuiesced, TakeProbe, RunProbe,
    TakeInvalidated, TakeReady, TakeSleep, DeadlineWait, CollectSidecar,
    DropThenQuiesce, QuiesceWithJobs, EnterTest, TestOnly, SubmitBusy,
    SubmitFailed, Transfer, RetainJob, BackoffWait, RejectSidecar,
    RejectDependents, RejectEvent, EndIteration, FlipQuiesced,
    FlipAcknowledged, FlipSleep, FlipTimeout, Exit, EnterGate,
    PublishQuiesced, Publish, RetainAfterPanic
  <2> QED BY Zenon, <2>1, <1>0
<1>3. CASE EnterSubmit BY Zenon, <1>0, <1>3 DEF EnterSubmit, EnterGate
<1>4. CASE SubmitOk BY Zenon, <1>0, <1>4 DEF SubmitOk
<1>5. CASE MainStep \/ SpuriousWake \/ CompleteFlip \/ Joined
  <2>1. pc' = pc \/ pc' = Woken
    BY Zenon, <1>5, MainFrame DEF SpuriousWake, CompleteFlip, Joined, vars
  <2> QED BY Zenon, <2>1, <1>w, <1>0
<1> QED BY Zenon, <1>1, <1>2, <1>3, <1>4, <1>5 DEF Next, WorkerStep

\* A closed lane stays closed.
LEMMA ClosedMoves == ASSUME GateInv, Next PROVE Closed' \in {Closed, TRUE}
<1>1. Closed => Closed' BY Zenon, StopsForGood, GateEnters DEF Closed
<1>2. Closed \in BOOLEAN /\ Closed' \in BOOLEAN BY Zenon DEF Closed
<1> QED BY Zenon, <1>1, <1>2

\* Only enqueue adds to what is pending.
LEMMA PendingMoves ==
  ASSUME TypeOK, GateInv, SlotInv, HandInv, Next, ~Enqueue PROVE Pending' \in SUBSET Pending
<1> SUFFICES ASSUME NEW n \in Pending' PROVE n \in Pending BY Zenon
<1>1. CASE TakeReady
  <2>1. DOMAIN queued = {1} /\ queued' = <<>> /\ job' = queued[1] BY Zenon, <1>1, TakeTakes
  <2>2. DOMAIN queued' = {}
    <3>1. DOMAIN <<>> = {} OBVIOUS
    <3> QED BY Zenon, <3>1, <2>1
  <2>3. n = queued[1].id /\ 1 \in DOMAIN queued BY Zenon, <2>1, <2>2 DEF Pending, InHandId
  <2> QED BY Zenon, <2>3 DEF Pending
<1>2. CASE ~TakeReady
  <2>1. queued' = queued \/ DOMAIN queued' = {}
    <3>1. DOMAIN <<>> = {} OBVIOUS
    <3> QED BY Zenon, <3>1, QueueMoves
  <2>2. CASE n \in {queued'[i].id : i \in DOMAIN queued'}
    BY Zenon, <2>1, <2>2 DEF Pending
  <2>3. CASE n \in InHandId'
    <3>1. job' # NoJob /\ pc' # "transfer" /\ n = job'.id BY Zenon, <2>3 DEF InHandId
    <3>2. job # NoJob /\ job'.id = job.id
      <4>1. ASSUME Attaches PROVE job # NoJob /\ job'.id = job.id
        <5>1. PICK t : pc = "collect" /\ job' = AttachSidecar(job, t) BY Zenon, <4>1 DEF Attaches
        <5>2. job.id > 0 BY Zenon, <5>1 DEF HandInv, Holding, InHand
        <5>3. job # NoJob BY <5>2 DEF NoJob
        <5>4. AttachSidecar(job, t).id = job.id BY Zenon, KeysTyped, AttachKeeps
        <5> QED BY Zenon, <5>1, <5>3, <5>4
      <4> QED BY Zenon, <4>1, <3>1, <1>2, JobMoves
    <3>3. ~Transfer BY Zenon, <3>1 DEF Transfer
    <3>4. pc # "transfer" BY Zenon, <3>1, <3>3, TransferEnds
    <3> QED BY Zenon, <3>1, <3>2, <3>4 DEF Pending, InHandId
  <2> QED BY Zenon, <2>2, <2>3 DEF Pending
<1> QED BY Zenon, <1>1, <1>2

\* The flight changes at the ioctl, at the acknowledgement and at an abandon.
LEMMA LaneFlightMoves ==
  ASSUME GateInv, Next, ~SubmitOk, ~AckPageflip, ~ForceAbandon PROVE Flight' = Flight
<1>1. CASE Transfer
  <2>1. pc = "transfer" /\ inflight' = job /\ pc' = "publish" BY Zenon, <1>1 DEF Transfer, Publish
  <2>2. "publish" # "transfer" BY Zenon
  <2> QED BY Zenon, <2>1, <2>2 DEF Flight
<1>2. CASE ~Transfer /\ pc = "transfer" BY Zenon, <1>2, TransferEnds DEF Flight
<1>3. CASE ~Transfer /\ pc # "transfer"
  <2>1. pc' # "transfer" BY Zenon, <1>3, GateEnters
  <2>2. inflight' = inflight BY Zenon, <1>3, FlightMoves
  <2> QED BY Zenon, <1>3, <2>1, <2>2 DEF Flight
<1> QED BY Zenon, <1>1, <1>2, <1>3

\* The ioctl of the worker is the submission of the oldest pending commit.
LEMMA SubmitImplements == ASSUME WorkerInv, Next, SubmitOk PROVE Lane!Submit
<1>0. TypeOK /\ GateInv /\ HandInv /\ SlotInv /\ OrderInv
  BY Zenon DEF WorkerInv, SubmissionInv, AdmissionInv
<1>1. /\ pc = "ioctl" /\ pc' = "transfer" /\ lastSubmitted' = job.id /\ job' = job
      /\ inflight' = inflight /\ queued' = queued /\ jobCount' = jobCount /\ shown' = shown
  BY Zenon DEF SubmitOk, state, thread, client
<1>2. inflight = NoJob /\ job.id > 0 BY Zenon, <1>0, <1>1 DEF HandInv, Holding, InHand
<1>3. job # NoJob /\ NoJob.id = 0 BY <1>2 DEF NoJob
<1>4. "ioctl" # "transfer" BY Zenon
<1>5. ~Closed /\ Flight = 0 /\ Flight' = job.id BY Zenon, <1>1, <1>2, <1>3, <1>4 DEF Closed, Flight
<1>6. Pending = {queued[i].id : i \in DOMAIN queued} \cup {job.id}
  BY Zenon, <1>1, <1>3, <1>4 DEF Pending, InHandId
<1>7. Pending' = {queued[i].id : i \in DOMAIN queued} BY Zenon, <1>1 DEF Pending, InHandId
<1>8. \A m \in Pending : job.id <= m
  <2> TAKE m \in Pending
  <2>1. job.id \in Nat BY Zenon, <1>0, KeysTyped
  <2>2. CASE m = job.id BY <2>1, <2>2
  <2>3. CASE m \in {queued[i].id : i \in DOMAIN queued}
    <3>1. PICK i \in DOMAIN queued : m = queued[i].id BY Zenon, <2>3
    <3>2. m \in Nat /\ job.id < m BY ZenonT(60), <1>0, <3>1, KeysTyped DEF OrderInv
    <3> QED BY <2>1, <3>2
  <2> QED BY Zenon, <1>6, <2>2, <2>3
<1>9. \A i \in DOMAIN queued : queued[i].id # job.id
  <2> TAKE i \in DOMAIN queued
  <2>1. job.id \in Nat /\ queued[i].id \in Nat BY Zenon, <1>0, KeysTyped
  <2>2. job.id < queued[i].id BY Zenon, <1>0 DEF OrderInv
  <2> QED BY <2>1, <2>2
<1>10. Pending' = Pending \ {job.id} BY Zenon, <1>6, <1>7, <1>9
<1>11. Closed' \in {Closed, TRUE} BY Zenon, <1>0, ClosedMoves
<1>12. job.id \in Pending BY Zenon, <1>6
<1> QED BY Zenon, <1>1, <1>5, <1>8, <1>10, <1>11, <1>12
  DEF Lane!Submit, Pending, InHandId, Flight, Closed

\* An accepted enqueue is an acceptance of the lane.
LEMMA EnqueueImplements == ASSUME WorkerInv, Next, Enqueue PROVE Lane!Accept
<1>0. TypeOK /\ SlotInv BY Zenon DEF WorkerInv, AdmissionInv
<1>1. /\ queued = <<>> /\ DOMAIN queued' = {1} /\ queued'[1].id = jobCount + 1
      /\ jobCount' = jobCount + 1 /\ lifecycle = "Running" /\ pc' = Woken
      /\ UNCHANGED <<lifecycle, inflight, job, shown, lastSubmitted>>
  BY Zenon, <1>0, EnqueueAppends
<1>2. pc' = "transfer" <=> pc = "transfer" BY Zenon, <1>1 DEF Woken
<1>3. ~Closed /\ ~Closed' BY Zenon, <1>1 DEF Closed
<1>4. Flight' = Flight BY Zenon, <1>1, <1>2 DEF Flight
<1>5. InHandId' = InHandId BY Zenon, <1>1, <1>2 DEF InHandId
<1>6. DOMAIN queued = {} BY <1>1
<1>7. Pending = InHandId BY Zenon, <1>6 DEF Pending
<1>8. Pending' = InHandId \cup {jobCount + 1} BY Zenon, <1>1, <1>5 DEF Pending
<1>9. Pending' = Pending \cup {jobCount + 1} BY Zenon, <1>7, <1>8
<1>10. Closed' = Closed
  <2>1. Closed \in BOOLEAN /\ Closed' \in BOOLEAN BY Zenon DEF Closed
  <2> QED BY Zenon, <2>1, <1>3
<1> QED BY Zenon, <1>1, <1>3, <1>4, <1>9, <1>10 DEF Lane!Accept, Pending, InHandId, Flight, Closed

\* An acknowledged pageflip shows the commit in flight, or, after a shutdown
\* gave it up, the last one submitted.
LEMMA AckImplements == ASSUME WorkerInv, Next, AckPageflip PROVE Lane!Show \/ Lane!ShowLate
<1>0. TypeOK /\ GateInv /\ HandInv /\ KernelInv /\ SlotInv /\ OrderInv
  BY Zenon DEF WorkerInv, SubmissionInv, AdmissionInv
<1>1. UNCHANGED <<jobCount, lastSubmitted, job>> BY Zenon DEF AckPageflip, thread
<1>2. PICK b \in owned :
        /\ b.n \in flips /\ shown' = b
        /\ \/ inflight # NoJob /\ Bundle(inflight) = b /\ inflight' = NoJob /\ pc' \in {pc, Woken}
           \/ /\ inflight = NoJob
              /\ lifecycle \in {"ShutdownQuiescing", "ShutdownAbandoning", "Stopped"}
              /\ UNCHANGED <<lifecycle, queued, inflight, pc>>
  BY Zenon DEF AckPageflip, AckInflight
<1>3. ~Enqueue
  <2>1. Enqueue => jobCount' = jobCount + 1 BY Zenon DEF Enqueue
  <2>2. jobCount + 1 # jobCount BY <1>0, KeysTyped
  <2> QED BY Zenon, <1>1, <2>1, <2>2
<1>4. CASE inflight # NoJob /\ Bundle(inflight) = b /\ inflight' = NoJob /\ pc' \in {pc, Woken}
  <2>1. pc # "transfer" BY Zenon, <1>0, <1>4 DEF HandInv, Holding, InHand
  <2>2. pc' # "transfer" BY ZenonT(60), <1>4, <2>1 DEF Woken
  <2>3. NoJob.id = 0 BY Zenon DEF NoJob
  <2>4. b.n = inflight.id BY Zenon, <1>4 DEF Bundle
  <2>5. Flight = inflight.id /\ Flight' = 0 BY Zenon, <2>1, <2>2, <2>3, <1>4 DEF Flight
  <2>6. inflight.id # 0 BY Zenon, <1>0, <1>2, <2>4 DEF KernelInv
  <2>7. shown'.n = Flight BY Zenon, <1>2, <2>4, <2>5
  <2>8. Pending' \in SUBSET Pending BY Zenon, <1>0, <1>3, PendingMoves
  <2>9. Closed' \in {Closed, TRUE} BY Zenon, <1>0, ClosedMoves
  <2>10. Lane!Show BY Zenon, <1>1, <2>5, <2>6, <2>7, <2>8, <2>9
    DEF Lane!Show, Pending, InHandId, Flight, Closed
  <2> QED BY Zenon, <2>10
<1>5. CASE /\ inflight = NoJob
           /\ lifecycle \in {"ShutdownQuiescing", "ShutdownAbandoning", "Stopped"}
           /\ UNCHANGED <<lifecycle, queued, inflight, pc>>
  <2>1. lifecycle \notin {"Running", "Fatal"} BY Zenon, <1>5
  <2>2. pc \notin Gated BY Zenon, <1>0, <2>1 DEF GateInv
  <2>3. pc # "ioctl" /\ pc # "transfer" /\ lifecycle # "Running" BY Zenon, <2>1, <2>2 DEF Gated
  <2>4. NoJob.id = 0 BY Zenon DEF NoJob
  <2>5. Closed /\ Flight = 0 BY Zenon, <2>3, <2>4, <1>5 DEF Closed, Flight
  <2>6. UNCHANGED <<lifecycle, queued, inflight, pc, job>> BY Zenon, <1>1, <1>5
  <2>7. shown'.n = lastSubmitted BY Zenon, <1>0, <1>2 DEF OrderInv
  <2>8. Pending' = Pending /\ Flight' = Flight /\ Closed' = Closed
    BY Zenon, <2>6 DEF Pending, InHandId, Flight, Closed
  <2>9. Lane!ShowLate BY Zenon, <1>1, <2>5, <2>7, <2>8
    DEF Lane!ShowLate, Pending, InHandId, Flight, Closed
  <2> QED BY Zenon, <2>9
<1> QED BY Zenon, <1>2, <1>4, <1>5

\* The shutdown gives the flight up only in a closed lane.
LEMMA AbandonImplements == ASSUME WorkerInv, Next, ForceAbandon PROVE Lane!Abandon \/ Flight' = Flight
<1>0. TypeOK /\ GateInv /\ HandInv /\ SlotInv BY Zenon DEF WorkerInv, SubmissionInv, AdmissionInv
<1>1. /\ UNCHANGED <<jobCount, lastSubmitted, job, shown>>
      /\ gate = "free"
  BY Zenon DEF ForceAbandon, thread, device
<1>2. "free" # "worker" BY Zenon
<1>3. pc \notin Gated BY Zenon, <1>0, <1>1, <1>2 DEF GateInv
<1>4. pc # "ioctl" /\ pc # "transfer" BY Zenon, <1>3 DEF Gated
<1>5. CASE /\ lifecycle \in {"ShutdownQuiescing", "ShutdownAbandoning"}
           /\ lifecycle' = "ShutdownAbandoning" /\ pc' = Woken /\ inflight' = NoJob
  <2>1. lifecycle # "Running" /\ lifecycle' # "Running" BY Zenon, <1>5
  <2>2. pc' # "ioctl" /\ pc' # "transfer" BY Zenon, <1>4, <1>5 DEF Woken
  <2>3. NoJob.id = 0 BY Zenon DEF NoJob
  <2>4. Closed /\ Closed' /\ Flight' = 0 BY Zenon, <2>1, <2>2, <2>3, <1>4, <1>5 DEF Closed, Flight
  <2>5. ~Enqueue
    <3>1. Enqueue => jobCount' = jobCount + 1 BY Zenon DEF Enqueue
    <3>2. jobCount + 1 # jobCount BY <1>0, KeysTyped
    <3> QED BY Zenon, <1>1, <3>1, <3>2
  <2>6. Pending' \in SUBSET Pending BY Zenon, <1>0, <2>5, PendingMoves
  <2>7. Closed' = Closed
    <3>1. Closed \in BOOLEAN /\ Closed' \in BOOLEAN BY Zenon DEF Closed
    <3> QED BY Zenon, <3>1, <2>4
  <2>8. Lane!Abandon BY Zenon, <1>1, <2>4, <2>6, <2>7
    DEF Lane!Abandon, Pending, InHandId, Flight, Closed
  <2> QED BY Zenon, <2>8
<1>6. CASE UNCHANGED <<inflight, pc>> BY Zenon, <1>1, <1>6 DEF Flight
<1> QED BY Zenon, <1>5, <1>6 DEF ForceAbandon, TakeBack

\* Every step of the worker, the compositor and the kernel is a step of the
\* lane.
LEMMA LaneStep == ASSUME WorkerInv, Next PROVE Lane!Next
<1>0. TypeOK /\ GateInv /\ HandInv /\ SlotInv BY Zenon DEF WorkerInv, SubmissionInv, AdmissionInv
<1>1. CASE SubmitOk BY Zenon, <1>1, SubmitImplements DEF Lane!Next
<1>2. CASE Enqueue BY Zenon, <1>2, EnqueueImplements DEF Lane!Next
<1>3. CASE AckPageflip BY Zenon, <1>3, AckImplements DEF Lane!Next
<1>4. CASE ~SubmitOk /\ ~Enqueue /\ ~AckPageflip
  <2>1. Lane!Abandon \/ Flight' = Flight
    BY Zenon, <1>0, <1>4, AbandonImplements, LaneFlightMoves
  <2>2. CASE Flight' = Flight
    <3>1. Pending' \in SUBSET Pending BY Zenon, <1>0, <1>4, PendingMoves
    <3>2. Closed' \in {Closed, TRUE} BY Zenon, <1>0, ClosedMoves
    <3>3. jobCount' = jobCount /\ lastSubmitted' = lastSubmitted /\ shown' = shown
      BY Zenon, <1>4, ClientMoves, DeviceMoves, BaseMoves
    <3>4. Lane!Return BY Zenon, <2>2, <3>1, <3>2, <3>3
      DEF Lane!Return, Pending, InHandId, Flight, Closed
    <3> QED BY Zenon, <3>4 DEF Lane!Next
  <2> QED BY Zenon, <2>1, <2>2 DEF Lane!Next
<1> QED BY Zenon, <1>1, <1>2, <1>3, <1>4

\* The worker implements the abstract lane: commits are submitted one at a
\* time in the order enqueue accepted them, none after the lane closed, and
\* an open lane never forgets a submitted commit.
THEOREM WorkerImplementsLane == Spec => ImplementsLane
<1>1. Init => Lane!Init
  <2> SUFFICES ASSUME Init PROVE Lane!Init BY Zenon
  <2>1. {queued[i].id : i \in DOMAIN queued} = {}
    <3>1. DOMAIN queued = {} BY DEF Init
    <3> QED BY Zenon, <3>1
  <2>2. NoJob.id = 0 /\ "take" # "transfer" BY Zenon DEF NoJob
  <2>3. shown.n = 0 BY Zenon DEF Init
  <2>4. lastSubmitted = 0 /\ jobCount = 0 /\ inflight = NoJob /\ job = NoJob /\ pc = "take"
        /\ lifecycle = "Running"
    BY Zenon DEF Init
  <2>5. (IF pc = "transfer" THEN job.id ELSE inflight.id) = 0 BY Zenon, <2>2, <2>4
  <2>6. (lifecycle # "Running" /\ pc # "ioctl") = FALSE BY Zenon, <2>4
  <2>7. {queued[i].id : i \in DOMAIN queued} \cup
                  (IF job = NoJob \/ pc = "transfer" THEN {} ELSE {job.id}) = {}
    BY Zenon, <2>1, <2>4
  <2> QED BY Zenon, <2>3, <2>4, <2>5, <2>6, <2>7 DEF Lane!Init
<1>2. WorkerInv /\ [Next]_vars => [Lane!Next]_(Lane!laneVars)
  <2>1. ASSUME UNCHANGED vars PROVE UNCHANGED Lane!laneVars
    <3>1. UNCHANGED <<jobCount, queued, job, pc, inflight, lastSubmitted, shown, lifecycle>>
      BY Zenon, <2>1 DEF vars, state, thread, client, device
    <3> QED BY Zenon, <3>1 DEF Lane!laneVars
  <2> QED BY Zenon, <2>1, LaneStep
<1> QED BY <1>1, <1>2, WorkerInvariant, PTL DEF Spec, ImplementsLane, Lane!Spec

(***************************************************************************)
(* Ownership: every accepted commit and sidecar is in exactly one place.   *)
(* A step moves whole places into others (Moves below), or puts a new      *)
(* commit or sidecar into one.                                             *)
(***************************************************************************)
HandJobs == IF job = NoJob THEN {} ELSE {Bundle(job)}
JobHeld(n) == Held(Nums(Bundles(queued)), Nums(HandJobs), Nums(out.jobs), Nums(fatalJobs),
                   Nums(mainJobs), Nums(EventJobs(results)), n)
SideHeld(s) == Held(Subs(Bundles(queued)), Subs(HandJobs), Subs(out.jobs), Subs(fatalJobs),
                    Subs(mainJobs), Subs(EventJobs(results)), s)
SideLoose(s) == Loose(SideIds(sidecar), out.sides, mainSides, EventSides(results), s)

\* Two events never carry the same commit or the same sidecar.
OnceIn(evs, n, s) ==
    \A i, k \in DOMAIN evs : i # k =>
        /\ ~(n \in Nums(evs[i].jobs) /\ n \in Nums(evs[k].jobs))
        /\ ~(s \in Subs(evs[i].jobs) /\ s \in Subs(evs[k].jobs))
        /\ ~(s \in evs[i].sides /\ s \in evs[k].sides)

JobTokens == \A n \in Nat \ {0} : JobHeld(n) = IF n <= jobCount THEN 1 ELSE 0
SideTokens == \A s \in Nat \ {0} : SideHeld(s) + SideLoose(s) = IF s <= sideCount THEN 1 ELSE 0
OnceTokens == \A n \in Nat \ {0} : OnceIn(results, n, n)

\* An event that is not being published is none; a commit in hand is at a point
\* that settles it; a commit has no sidecar before it collects one.
OutInv == pc # "publish" => out = NoEvent
FreeInv == job # NoJob => pc \in InHand \/ (pc = "publish" /\ ret.ok \in InHand)
CurInv == /\ \A i \in DOMAIN queued : queued[i].cur = 0
          /\ pc \in {"deadline", "collect"} => job.cur = 0
          /\ ret.ok \notin {"deadline", "collect"}
HandoverInv == OutInv /\ FreeInv /\ CurInv
TokenInv == JobTokens /\ SideTokens /\ OnceTokens

\* The event on its way changes with the control point.
LEMMA OutStep == ASSUME OutInv, Next PROVE OutInv'
<1> SUFFICES ASSUME pc' # "publish" PROVE out' = NoEvent BY Zenon DEF OutInv
<1>0. \A x \in {"take", "takeSleep", "probe", "deadline", "collect", "dropQuiesce",
        "quiesceJobs", "testGate", "test", "submitGate", "ioctl", "transfer",
        "backoff", "retain", "rejectSide", "rejectDeps", "rejectEvent", "drop",
        "flip", "flipSleep", "markFatal", "exit", "exited"} : x # "publish"
  OBVIOUS
<1>1. CASE PublishEvent BY Zenon, <1>1 DEF PublishEvent
<1>6. CASE CollectSidecar
  <2>1. pc = "collect" /\ (out' = out \/ pc' = "publish")
    BY Zenon, <1>6 DEF CollectSidecar, Publish
  <2> QED BY Zenon, <1>0, <2>1 DEF OutInv
<1>2. CASE TakeQuiesced \/ TakeInvalidated \/ QuiesceWithJobs \/ FlipQuiesced \/ Transfer \/ RejectEvent
  BY Zenon, <1>2 DEF TakeQuiesced, TakeInvalidated, QuiesceWithJobs, FlipQuiesced, Transfer,
    RejectEvent, PublishQuiesced, Publish
<1>3. CASE WorkerMarkFatal \/ TakeStopped \/ TakeProbe \/ RunProbe
         \/ TakeReady \/ TakeSleep \/ DeadlineWait \/ DropThenQuiesce
         \/ EnterTest \/ TestOnly \/ EnterSubmit
  BY Zenon, <1>3, <1>0 DEF WorkerMarkFatal, TakeStopped, TakeProbe, RunProbe,
    TakeReady, TakeSleep, DeadlineWait, DropThenQuiesce, EnterTest, TestOnly,
    EnterSubmit, EnterGate, thread, CanTakeJob, OutInv, Publish
<1>4. CASE SubmitOk \/ SubmitBusy \/ SubmitFailed \/ RetainJob \/ BackoffWait
         \/ RejectSidecar \/ RejectDependents \/ EndIteration
         \/ FlipAcknowledged \/ FlipSleep \/ FlipTimeout \/ Exit
  BY Zenon, <1>4, <1>0 DEF SubmitOk, SubmitBusy, SubmitFailed, RetainJob,
    BackoffWait, RejectSidecar, RejectDependents, EndIteration,
    FlipAcknowledged, FlipSleep, FlipTimeout, Exit, thread, CanTakeJob,
    OutInv, Publish
<1>5. CASE MainStep \/ SpuriousWake \/ CompleteFlip \/ Joined
  <2>1. out' = out /\ pc' \in {pc, Woken}
    BY Zenon, <1>5, MainFrame DEF SpuriousWake, CompleteFlip, Joined, vars, thread
  <2>2. pc = "publish" => Woken = "publish" BY <1>0 DEF Woken
  <2> QED BY Zenon, <2>1, <2>2 DEF OutInv
<1> QED BY Zenon, <1>1, <1>2, <1>3, <1>4, <1>5, <1>6
  DEF Next, WorkerStep

\* A commit leaves the worker's hands before the worker does anything else.
LEMMA FreeStep == ASSUME "notify" \notin Faults, FreeInv, Next PROVE FreeInv'
<1> SUFFICES ASSUME job' # NoJob
             PROVE pc' \in InHand \/ (pc' = "publish" /\ ret'.ok \in InHand)
  BY Zenon DEF FreeInv
<1>0. \A x \in {"take", "takeSleep", "probe", "drop", "flip", "flipSleep", "markFatal", "exit",
                 "exited"} : x # "publish" /\ x \notin InHand
  BY DEF InHand
<1>1. CASE PublishEvent
  <2>1. pc = "publish" /\ job' = job /\ pc' = ret.ok BY Zenon, <1>1 DEF PublishEvent
  <2>2. "publish" \notin InHand BY DEF InHand
  <2> QED BY Zenon, <2>1, <2>2 DEF FreeInv
<1>2. CASE WorkerMarkFatal \/ TakeStopped \/ TakeQuiesced \/ TakeProbe
         \/ RunProbe \/ TakeInvalidated \/ TakeSleep \/ EndIteration
         \/ FlipQuiesced \/ FlipAcknowledged \/ FlipSleep \/ FlipTimeout
         \/ SpuriousWake
  BY Zenon, <1>2, <1>0 DEF WorkerMarkFatal, TakeStopped, TakeQuiesced,
    TakeProbe, RunProbe, TakeInvalidated, TakeSleep, EndIteration,
    FlipQuiesced, FlipAcknowledged, FlipSleep, FlipTimeout, SpuriousWake,
    thread, CanTakeJob, FreeInv
<1>3. CASE QuiesceWithJobs \/ Transfer \/ RetainJob \/ RejectEvent \/ Exit
  BY Zenon, <1>3 DEF QuiesceWithJobs, Transfer, RetainJob, RejectEvent, Exit
<1>4. CASE TakeReady \/ DeadlineWait \/ DropThenQuiesce
  BY <1>4 DEF TakeReady, DeadlineWait, DropThenQuiesce, InHand
<1>5. CASE CollectSidecar
  <2>1. \/ pc' = "dropQuiesce" \/ pc' = "testGate" \/ pc' = "submitGate"
        \/ pc' = "publish" /\ \E x \in {"testGate", "submitGate"} : ret' = [ok |-> x, failed |-> "dropQuiesce"]
    BY Zenon, <1>5 DEF CollectSidecar, Publish
  <2> QED BY <2>1 DEF InHand
<1>6. CASE EnterTest \/ EnterSubmit \/ SubmitOk \/ BackoffWait
  BY <1>6 DEF EnterTest, EnterSubmit, EnterGate, SubmitOk, BackoffWait, InHand
<1>7. CASE TestOnly \/ SubmitFailed
  <2>1. pc' = "submitGate" \/ pc' = "rejectSide"
    BY Zenon, <1>7 DEF TestOnly, SubmitFailed, RetainAfterPanic
  <2> QED BY <2>1 DEF InHand
<1>8. CASE SubmitBusy BY <1>8 DEF SubmitBusy, Publish, InHand
<1>9. CASE RejectSidecar \/ RejectDependents
  BY <1>9 DEF RejectSidecar, RejectDependents, Publish, InHand
<1>10. CASE MainStep \/ CompleteFlip \/ Joined
  <2>1. job' = job /\ ret' = ret /\ pc' \in {pc, Woken}
    BY Zenon, <1>10, MainFrame DEF CompleteFlip, Joined, vars, thread
  <2>2. Woken # pc => pc \in {"takeSleep", "flipSleep"} BY DEF Woken
  <2> QED BY Zenon, <1>0, <2>1, <2>2 DEF FreeInv
<1> QED BY Zenon, <1>1, <1>2, <1>3, <1>4, <1>5, <1>6, <1>7, <1>8, <1>9, <1>10
  DEF Next, WorkerStep

\* A commit is accepted without a sidecar.
LEMMA EnqueueBare == ASSUME TypeOK, SlotInv, Enqueue PROVE \A i \in DOMAIN queued' : queued'[i].cur = 0
<1>1. queued = <<>> /\ DOMAIN queued' = {1} BY Zenon, EnqueueAppends
<1>2. PICK j : queued' = Append(queued, j) /\ j.cur = 0
  <2>1. PICK crev : queued' = Append(queued,
             [id |-> jobCount + 1, primary |-> permit.primary,
              target |-> permit.target, test |-> permit.test,
              key |-> permit.key, base |-> plan, crev |-> crev, cur |-> 0])
    BY Zenon DEF Enqueue
  <2>2. [id |-> jobCount + 1, primary |-> permit.primary,
              target |-> permit.target, test |-> permit.test,
              key |-> permit.key, base |-> plan, crev |-> crev, cur |-> 0].cur = 0
    OBVIOUS
  <2> QED BY Zenon, <2>1, <2>2
<1>4. queued'[1] = j BY <1>1, <1>2
<1> QED BY Zenon, <1>1, <1>2, <1>4

\* Where the worker continues after an event.
LEMMA ReturnStep ==
  ASSUME ret.ok \notin {"deadline", "collect"}, Next PROVE ret'.ok \notin {"deadline", "collect"}
<1>0. \A x \in {"exit", "take", "testGate", "submitGate", "backoff", "flip", "rejectDeps",
                 "rejectEvent", "drop"} : x \notin {"deadline", "collect"}
  OBVIOUS
<1>1. NoReturn.ok = "exit" BY DEF NoReturn
<1>2. \A a, b : [ok |-> a, failed |-> b].ok = a OBVIOUS
<1>3. CASE PublishEvent \/ WorkerMarkFatal \/ TestOnly \/ SubmitFailed
  BY Zenon, <1>3, <1>0, <1>1 DEF PublishEvent, WorkerMarkFatal, TestOnly,
    SubmitFailed, RetainAfterPanic
<1>4. CASE TakeQuiesced \/ TakeInvalidated \/ QuiesceWithJobs \/ FlipQuiesced
         \/ Transfer \/ RejectEvent
  BY ZenonT(60), <1>4, <1>0, <1>2 DEF TakeQuiesced, TakeInvalidated,
    QuiesceWithJobs, FlipQuiesced, Transfer, RejectEvent, PublishQuiesced,
    Publish
<1>5. CASE CollectSidecar
  <2>1. ret' = ret \/ \E x \in {"testGate", "submitGate"} : ret' = [ok |-> x, failed |-> "dropQuiesce"]
    BY Zenon, <1>5 DEF CollectSidecar, Publish
  <2> QED BY Zenon, <1>0, <1>2, <2>1
<1>6. CASE SubmitBusy \/ RejectSidecar \/ RejectDependents \/ FlipTimeout
  BY Zenon, <1>6, <1>0, <1>2 DEF SubmitBusy, RejectSidecar, RejectDependents,
    FlipTimeout, Publish
<1>7. CASE TakeStopped \/ TakeProbe \/ RunProbe \/ TakeReady \/ TakeSleep
         \/ DeadlineWait \/ DropThenQuiesce \/ EnterTest \/ EnterSubmit
         \/ SubmitOk \/ RetainJob \/ BackoffWait \/ EndIteration
         \/ FlipAcknowledged \/ FlipSleep \/ Exit
  BY Zenon, <1>7 DEF TakeStopped, TakeProbe, RunProbe, TakeReady, TakeSleep,
    DeadlineWait, DropThenQuiesce, EnterTest, EnterSubmit, SubmitOk,
    RetainJob, BackoffWait, EndIteration, FlipAcknowledged, FlipSleep, Exit,
    EnterGate, thread
<1>8. CASE MainStep \/ SpuriousWake \/ CompleteFlip \/ Joined
  BY Zenon, <1>8, MainFrame DEF SpuriousWake, CompleteFlip, Joined, vars, thread
<1> QED BY Zenon, <1>3, <1>4, <1>5, <1>6, <1>7, <1>8
  DEF Next, WorkerStep

\* A commit has no sidecar before it collects one.
LEMMA CurStep == ASSUME "notify" \notin Faults, TypeOK, SlotInv, GuardInv, CurInv, Next PROVE CurInv'
<1>1. \A i \in DOMAIN queued' : queued'[i].cur = 0
  <2>1. CASE queued' = queued BY Zenon, <2>1 DEF CurInv
  <2>2. CASE queued' = <<>>
    <3>1. DOMAIN queued' = {} BY <2>2
    <3> QED BY Zenon, <3>1
  <2>3. CASE Enqueue BY Zenon, <2>3, EnqueueBare
  <2> QED BY Zenon, <2>1, <2>2, <2>3, QueueMoves
<1>2. ret'.ok \notin {"deadline", "collect"} BY Zenon, ReturnStep DEF CurInv
<1>3. ASSUME pc' \in {"deadline", "collect"} PROVE job'.cur = 0
  <2>0. \A x \in {"take", "takeSleep", "probe", "dropQuiesce",
        "quiesceJobs", "testGate", "test", "submitGate", "ioctl", "transfer",
        "backoff", "retain", "rejectSide", "rejectDeps", "rejectEvent", "drop",
        "flip", "flipSleep", "publish", "markFatal", "exit", "exited"} : x \notin {"deadline", "collect"}
    OBVIOUS
  <2>1. CASE TakeReady
    <3>1. job' = queued[1] /\ DOMAIN queued = {1} BY Zenon, <2>1, TakeTakes
    <3> QED BY Zenon, <3>1 DEF CurInv
  <2>2. CASE DeadlineWait
    <3>1. pc = "deadline" /\ job' = job BY Zenon, <2>2 DEF DeadlineWait, thread
    <3> QED BY Zenon, <3>1 DEF CurInv
  <2>3. CASE PublishEvent
    <3>1. pc' = ret.ok BY Zenon, <2>3 DEF PublishEvent
    <3> QED BY Zenon, <1>3, <3>1 DEF CurInv
  <2>4. CASE WorkerMarkFatal
    <3>1. pc = "markFatal" /\ pc' = ret.failed BY Zenon, <2>4 DEF WorkerMarkFatal
    <3>2. ret.failed \notin {"deadline", "collect"} BY Zenon DEF GuardInv, Hot
    <3> QED BY Zenon, <1>3, <3>1, <3>2
  <2>5. CASE TakeProbe
    <3>1. pc' = "probe" \/ pc' = "take" BY Zenon, <2>5 DEF TakeProbe
    <3> QED BY Zenon, <1>3, <2>0, <3>1
  <2>6. CASE CollectSidecar
    <3>1. pc' \in {"dropQuiesce", "testGate", "submitGate", "publish"}
      BY Zenon, <2>6 DEF CollectSidecar, Publish
    <3> QED BY Zenon, <1>3, <2>0, <3>1
  <2>7. CASE TakeStopped \/ TakeQuiesced \/ RunProbe \/ TakeInvalidated
           \/ TakeSleep \/ DropThenQuiesce \/ QuiesceWithJobs \/ EnterTest
           \/ TestOnly \/ EnterSubmit \/ SubmitOk
    BY Zenon, <2>7, <1>3, <2>0 DEF TakeStopped, TakeQuiesced, RunProbe,
      TakeInvalidated, TakeSleep, DropThenQuiesce, QuiesceWithJobs, EnterTest,
      TestOnly, EnterSubmit, SubmitOk, EnterGate, PublishQuiesced, Publish,
      RetainAfterPanic
  <2>8. CASE SubmitBusy \/ SubmitFailed \/ Transfer \/ RetainJob
           \/ BackoffWait \/ RejectSidecar \/ RejectDependents
           \/ RejectEvent \/ EndIteration \/ FlipQuiesced
           \/ FlipAcknowledged \/ FlipSleep \/ FlipTimeout \/ Exit
    BY Zenon, <2>8, <1>3, <2>0 DEF SubmitBusy, SubmitFailed, Transfer,
      RetainJob, BackoffWait, RejectSidecar, RejectDependents, RejectEvent,
      EndIteration, FlipQuiesced, FlipAcknowledged, FlipSleep, FlipTimeout,
      Exit, PublishQuiesced, Publish, RetainAfterPanic
  <2>9. CASE MainStep \/ SpuriousWake \/ CompleteFlip \/ Joined
    <3>1. job' = job /\ pc' \in {pc, Woken}
      BY Zenon, <2>9, MainFrame DEF SpuriousWake, CompleteFlip, Joined, vars, thread
    <3>2. Woken = pc \/ Woken \in {"take", "flip"} BY Zenon DEF Woken
    <3> QED BY Zenon, <1>3, <2>0, <3>1, <3>2 DEF CurInv
  <2> QED BY Zenon, <2>1, <2>2, <2>3, <2>4, <2>5, <2>6, <2>7, <2>8, <2>9 DEF Next, WorkerStep
<1> QED BY Zenon, <1>1, <1>2, <1>3 DEF CurInv

\* A step that moves bundles and sidecars, and creates none.
BundlesMove == Flow(Bundles(queued), HandJobs, out.jobs, fatalJobs, mainJobs, EventJobs(results),
                    Bundles(queued'), HandJobs', out'.jobs, fatalJobs', mainJobs', EventJobs(results'))
SidesMove == LooseFlow(SideIds(sidecar), out.sides, mainSides, EventSides(results),
                       SideIds(sidecar'), out'.sides, mainSides', EventSides(results'))
Moves == BundlesMove /\ SidesMove /\ jobCount' = jobCount /\ sideCount' = sideCount

\* What empty places hold.
LEMMA EmptyPlaces ==
  /\ NoEvent.jobs = {} /\ NoEvent.sides = {} /\ Bundles(<<>>) = {} /\ SideIds(NoSidecar) = {}
  /\ EventJobs(<<>>) = {} /\ EventSides(<<>>) = {}
<1>1. NoEvent.jobs = {} /\ NoEvent.sides = {} BY DEF NoEvent, Event
<1>2. SideIds(NoSidecar) = {} BY DEF SideIds, NoSidecar
<1>3. DOMAIN <<>> = {} OBVIOUS
<1>4. Bundles(<<>>) = {} BY Zenon, <1>3 DEF Bundles
<1>5. EventJobs(<<>>) = {} /\ EventSides(<<>>) = {} BY Zenon, <1>3 DEF EventJobs, EventSides
<1> QED BY Zenon, <1>1, <1>2, <1>4, <1>5

\* The queue holds its head only.
LEMMA QueuedBundle ==
  ASSUME TypeOK, SlotInv, queued # <<>>
  PROVE Bundles(queued) = {Bundle(Head(queued))} /\ Tail(queued) = <<>>
<1>1. Tail(queued) = <<>> /\ DOMAIN queued = {1} /\ Head(queued) = queued[1] BY Zenon, OneQueued
<1>2. Bundles(queued) = {Bundle(queued[1])} BY Zenon, <1>1 DEF Bundles
<1> QED BY Zenon, <1>1, <1>2

\* A published event adds what it carries.
LEMMA AppendCarries ==
  ASSUME NEW evs \in Seq(EventType), NEW e \in EventType
  PROVE /\ EventJobs(Append(evs, e)) = EventJobs(evs) \cup e.jobs
        /\ EventSides(Append(evs, e)) = EventSides(evs) \cup e.sides
<1>1. PICK more : more = Append(evs, e) BY Zenon
<1>2. /\ DOMAIN more = DOMAIN evs \cup {Len(evs) + 1} /\ more[Len(evs) + 1] = e
      /\ \A i \in DOMAIN evs : more[i] = evs[i]
  BY <1>1
<1>3. EventJobs(more) = EventJobs(evs) \cup e.jobs
  <2>1. ASSUME NEW b \in EventJobs(more) PROVE b \in EventJobs(evs) \cup e.jobs
    <3>1. PICK i \in DOMAIN more : b \in more[i].jobs BY Zenon DEF EventJobs
    <3>2. CASE i \in DOMAIN evs BY Zenon, <1>2, <3>1, <3>2 DEF EventJobs
    <3>3. CASE i = Len(evs) + 1 BY Zenon, <1>2, <3>1, <3>3
    <3> QED BY Zenon, <1>2, <3>2, <3>3
  <2>2. ASSUME NEW b \in EventJobs(evs) PROVE b \in EventJobs(more)
    <3>1. PICK i \in DOMAIN evs : b \in evs[i].jobs BY Zenon DEF EventJobs
    <3> QED BY Zenon, <1>2, <3>1 DEF EventJobs
  <2>3. ASSUME NEW b \in e.jobs PROVE b \in EventJobs(more) BY Zenon, <1>2 DEF EventJobs
  <2> QED BY Zenon, <2>1, <2>2, <2>3
<1>4. EventSides(more) = EventSides(evs) \cup e.sides
  <2>1. ASSUME NEW b \in EventSides(more) PROVE b \in EventSides(evs) \cup e.sides
    <3>1. PICK i \in DOMAIN more : b \in more[i].sides BY Zenon DEF EventSides
    <3>2. CASE i \in DOMAIN evs BY Zenon, <1>2, <3>1, <3>2 DEF EventSides
    <3>3. CASE i = Len(evs) + 1 BY Zenon, <1>2, <3>1, <3>3
    <3> QED BY Zenon, <1>2, <3>2, <3>3
  <2>2. ASSUME NEW b \in EventSides(evs) PROVE b \in EventSides(more)
    <3>1. PICK i \in DOMAIN evs : b \in evs[i].sides BY Zenon DEF EventSides
    <3> QED BY Zenon, <1>2, <3>1 DEF EventSides
  <2>3. ASSUME NEW b \in e.sides PROVE b \in EventSides(more) BY Zenon, <1>2 DEF EventSides
  <2> QED BY Zenon, <2>1, <2>2, <2>3
<1> QED BY Zenon, <1>1, <1>3, <1>4

\* mark_fatal retains the queue; its event carries nothing.
LEMMA FatalMoves ==
  ASSUME TypeOK, MarkFatal(results), UNCHANGED <<job, out, mainJobs, sidecar, mainSides, jobCount, sideCount>>
  PROVE Moves
<1>0. HandJobs' = HandJobs BY Zenon DEF HandJobs
<1>1. CASE lifecycle = "Fatal"
  <2>1. results' = results /\ queued' = queued /\ fatalJobs' = fatalJobs BY Zenon, <1>1 DEF MarkFatal
  <2> QED BY Zenon, <1>0, <2>1 DEF Moves, BundlesMove, SidesMove, Flow, LooseFlow
<1>2. CASE lifecycle # "Fatal"
  <2>1. /\ results' = Append(results, Event("Fatal", {}, {})) /\ queued' = <<>>
        /\ fatalJobs' = fatalJobs \cup Bundles(queued)
    BY Zenon, <1>2 DEF MarkFatal
  <2>2. "Fatal" \in EventKinds BY DEF EventKinds
  <2>3. Event("Fatal", {}, {}) \in EventType BY Zenon, <2>2, BareEventTyped
  <2>4. results \in Seq(EventType) BY Zenon DEF TypeOK, ResultType
  <2>5. PICK e \in EventType : results' = Append(results, e) /\ e.jobs = {} /\ e.sides = {}
    <3>1. Event("Fatal", {}, {}).jobs = {} /\ Event("Fatal", {}, {}).sides = {} BY DEF Event
    <3> QED BY Zenon, <2>1, <2>3, <3>1
  <2>6. EventJobs(results') = EventJobs(results) /\ EventSides(results') = EventSides(results)
    <3>1. /\ EventJobs(Append(results, e)) = EventJobs(results) \cup e.jobs
          /\ EventSides(Append(results, e)) = EventSides(results) \cup e.sides
      BY Zenon, <2>4, AppendCarries
    <3> QED BY Zenon, <2>5, <3>1
  <2>7. Bundles(queued') = {} BY Zenon, <2>1, EmptyPlaces
  <2>8. BundlesMove BY Zenon, <1>0, <2>1, <2>6, <2>7 DEF BundlesMove, Flow
  <2>9. SidesMove BY Zenon, <2>6 DEF SidesMove, LooseFlow
  <2> QED BY Zenon, <2>8, <2>9 DEF Moves
<1> QED BY Zenon, <1>1, <1>2

\* A Quiesced event takes the commit in hand, the queue and the mailbox.
LEMMA QuiescedMoves ==
  ASSUME NEW held, held = HandJobs, PublishQuiesced(held), out = NoEvent, job' = NoJob,
         UNCHANGED <<fatalJobs, mainJobs, results, mainSides, jobCount, sideCount>>
  PROVE Moves
<1>1. /\ queued' = <<>> /\ sidecar' = NoSidecar
      /\ out' = Event("Quiesced", held \cup Bundles(queued), SideIds(sidecar))
  BY Zenon DEF PublishQuiesced, Publish
<1>2. out'.jobs = HandJobs \cup Bundles(queued) /\ out'.sides = SideIds(sidecar)
  BY <1>1 DEF Event
<1>3. /\ Bundles(queued') = {} /\ SideIds(sidecar') = {} /\ out.jobs = {} /\ out.sides = {}
      /\ HandJobs' = {}
  BY Zenon, <1>1, EmptyPlaces DEF HandJobs
<1>4. BundlesMove BY Zenon, <1>2, <1>3 DEF BundlesMove, Flow
<1>5. SidesMove BY Zenon, <1>2, <1>3 DEF SidesMove, LooseFlow
<1> QED BY Zenon, <1>4, <1>5 DEF Moves

\* The queue and the mailbox return to the compositor.
LEMMA TakeBackMoves ==
  ASSUME TypeOK, SlotInv, TakeBack, UNCHANGED <<job, out, fatalJobs, results, jobCount, sideCount>>
  PROVE Moves
<1>1. /\ sidecar' = NoSidecar /\ mainSides' = mainSides \cup SideIds(sidecar)
      /\ queued' = IF queued = <<>> THEN queued ELSE Tail(queued)
      /\ mainJobs' = mainJobs \cup (IF queued = <<>> THEN {} ELSE {Bundle(Head(queued))})
  BY Zenon DEF TakeBack
<1>2. queued' = <<>> /\ mainJobs' = mainJobs \cup Bundles(queued)
  <2>1. CASE queued = <<>> BY Zenon, <1>1, <2>1, EmptyPlaces
  <2>2. CASE queued # <<>> BY Zenon, <1>1, <2>2, QueuedBundle
  <2> QED BY Zenon, <2>1, <2>2
<1>3. Bundles(queued') = {} /\ SideIds(sidecar') = {} /\ HandJobs' = HandJobs
  BY Zenon, <1>1, <1>2, EmptyPlaces DEF HandJobs
<1>4. BundlesMove BY Zenon, <1>2, <1>3 DEF BundlesMove, Flow
<1>5. SidesMove BY Zenon, <1>1, <1>3 DEF SidesMove, LooseFlow
<1> QED BY Zenon, <1>4, <1>5 DEF Moves

\* The mailbox is emptied into the event being published.
LEMMA SideReturnMoves ==
  ASSUME NEW t, out = NoEvent, out' = Event(t, {}, SideIds(sidecar)), sidecar' = NoSidecar,
         UNCHANGED <<queued, job, fatalJobs, mainJobs, results, mainSides, jobCount, sideCount>>
  PROVE Moves
<1>1. out'.jobs = {} /\ out'.sides = SideIds(sidecar) BY DEF Event
<1>2. out.jobs = {} /\ out.sides = {} /\ SideIds(sidecar') = {} /\ HandJobs' = HandJobs
  BY Zenon, EmptyPlaces DEF HandJobs
<1>3. BundlesMove BY Zenon, <1>1, <1>2 DEF BundlesMove, Flow
<1>4. SidesMove BY Zenon, <1>1, <1>2 DEF SidesMove, LooseFlow
<1> QED BY ZenonT(60), <1>3, <1>4 DEF Moves

\* The queue is emptied into the event being published.
LEMMA QueueReturnMoves ==
  ASSUME TypeOK, SlotInv, queued # <<>>, NEW t, out = NoEvent,
         out' = Event(t, {Bundle(Head(queued))}, {}), queued' = Tail(queued),
         UNCHANGED <<job, fatalJobs, mainJobs, results, sidecar, mainSides, jobCount, sideCount>>
  PROVE Moves
<1>0. Bundles(queued) = {Bundle(Head(queued))} BY ZenonT(60), QueuedBundle
<1>1. out'.jobs = Bundles(queued) /\ out'.sides = {} BY <1>0 DEF Event
<1>2. out.jobs = {} /\ out.sides = {} /\ Bundles(queued') = {} /\ HandJobs' = HandJobs
  BY Zenon, QueuedBundle, EmptyPlaces DEF HandJobs
<1>3. BundlesMove BY Zenon, <1>1, <1>2 DEF BundlesMove, Flow
<1>4. SidesMove BY Zenon, <1>1, <1>2 DEF SidesMove, LooseFlow
<1> QED BY Zenon, <1>3, <1>4 DEF Moves

\* The commit in hand goes into the event being published.
LEMMA SettledMoves ==
  ASSUME job # NoJob, NEW t, out = NoEvent, out' = Event(t, {Bundle(job)}, {}), job' = NoJob,
         UNCHANGED <<queued, fatalJobs, mainJobs, results, sidecar, mainSides, jobCount, sideCount>>
  PROVE Moves
<1>0. HandJobs = {Bundle(job)} BY Zenon DEF HandJobs
<1>1. out'.jobs = HandJobs /\ out'.sides = {} BY <1>0 DEF Event
<1>2. out.jobs = {} /\ out.sides = {} /\ HandJobs' = {} BY Zenon, EmptyPlaces DEF HandJobs
<1>3. BundlesMove BY Zenon, <1>1, <1>2 DEF BundlesMove, Flow
<1>4. SidesMove BY Zenon, <1>1, <1>2 DEF SidesMove, LooseFlow
<1> QED BY Zenon, <1>3, <1>4 DEF Moves

\* The commit in hand is retained.
LEMMA RetainMoves ==
  ASSUME job # NoJob, fatalJobs' = fatalJobs \cup {Bundle(job)}, job' = NoJob,
         UNCHANGED <<queued, out, mainJobs, results, sidecar, mainSides, jobCount, sideCount>>
  PROVE Moves
<1>1. fatalJobs' = fatalJobs \cup HandJobs /\ HandJobs' = {} BY Zenon DEF HandJobs
<1>2. BundlesMove BY Zenon, <1>1 DEF BundlesMove, Flow
<1>3. SidesMove BY Zenon DEF SidesMove, LooseFlow
<1> QED BY Zenon, <1>2, <1>3 DEF Moves

\* Nothing moves.
LEMMA StillMoves ==
  ASSUME UNCHANGED <<queued, job, fatalJobs, mainJobs, results, sidecar, mainSides, jobCount, sideCount>>,
         out'.jobs = out.jobs, out'.sides = out.sides
  PROVE Moves
<1>1. HandJobs' = HandJobs BY Zenon DEF HandJobs
<1>2. BundlesMove BY Zenon, <1>1 DEF BundlesMove, Flow
<1>3. SidesMove BY Zenon DEF SidesMove, LooseFlow
<1> QED BY Zenon, <1>2, <1>3 DEF Moves

\* The mailbox returns to the compositor.
LEMMA BoxReturnMoves ==
  ASSUME sidecar' = NoSidecar, mainSides' = mainSides \cup SideIds(sidecar),
         UNCHANGED <<queued, job, out, fatalJobs, mainJobs, results, jobCount, sideCount>>
  PROVE Moves
<1>1. HandJobs' = HandJobs /\ SideIds(sidecar') = {} BY Zenon, EmptyPlaces DEF HandJobs
<1>2. BundlesMove BY Zenon, <1>1 DEF BundlesMove, Flow
<1>3. SidesMove BY Zenon, <1>1 DEF SidesMove, LooseFlow
<1> QED BY Zenon, <1>2, <1>3 DEF Moves

\* The sidecar of the mailbox is attached to the commit in hand.
Joins == /\ pc = "collect" /\ sidecar.id # 0 /\ sidecar' = NoSidecar
         /\ \E t : job' = AttachSidecar(job, t)
         /\ UNCHANGED <<queued, out, fatalJobs, mainJobs, results, mainSides, jobCount, sideCount>>

\* publish_event hands the event to the compositor's queue.
LEMMA PublishMoves == ASSUME TypeOK, PublishEvent PROVE Moves
<1>1. /\ results' = Append(results, out) /\ out' = NoEvent
      /\ UNCHANGED <<queued, job, fatalJobs, mainJobs, sidecar, mainSides, jobCount, sideCount>>
  BY Zenon DEF PublishEvent, state, client
<1>2. results \in Seq(EventType) /\ out \in EventType BY Zenon DEF TypeOK, ResultType, ThreadType
<1>3. /\ EventJobs(results') = EventJobs(results) \cup out.jobs
      /\ EventSides(results') = EventSides(results) \cup out.sides
  BY Zenon, <1>1, <1>2, AppendCarries
<1>4. out'.jobs = {} /\ out'.sides = {} /\ HandJobs' = HandJobs BY Zenon, <1>1, EmptyPlaces DEF HandJobs
<1>5. BundlesMove BY Zenon, <1>1, <1>3, <1>4 DEF BundlesMove, Flow
<1>6. SidesMove BY Zenon, <1>1, <1>3, <1>4 DEF SidesMove, LooseFlow
<1> QED BY Zenon, <1>1, <1>5, <1>6 DEF Moves

\* The dequeued commit is in the worker's hands.
LEMMA TakeMoves ==
  ASSUME TypeOK, SlotInv, HandInv, QueueInv, job = NoJob, TakeReady PROVE Moves
<1>1. /\ queued' = Tail(queued) /\ job' = Head(queued) /\ queued # <<>>
      /\ UNCHANGED <<out, fatalJobs, mainJobs, results, sidecar, mainSides, jobCount, sideCount>>
  BY Zenon DEF TakeReady, CanTakeJob, client
<1>2. Bundles(queued) = {Bundle(Head(queued))} /\ Tail(queued) = <<>> BY Zenon, <1>1, QueuedBundle
<1>3. job' # NoJob
  <2>1. DOMAIN queued = {1} /\ Head(queued) = queued[1] BY Zenon, <1>1, OneQueued
  <2>2. queued[1].id > 0 /\ NoJob.id = 0 BY Zenon, <2>1 DEF QueueInv, NoJob
  <2>3. queued[1] # NoJob BY <2>2
  <2> QED BY Zenon, <1>1, <2>1, <2>3
<1>4. HandJobs = {} /\ HandJobs' = Bundles(queued) /\ Bundles(queued') = {}
  BY Zenon, <1>1, <1>2, <1>3, EmptyPlaces DEF HandJobs
<1>5. BundlesMove BY Zenon, <1>1, <1>4 DEF BundlesMove, Flow
<1>6. SidesMove BY Zenon, <1>1 DEF SidesMove, LooseFlow
<1> QED BY Zenon, <1>1, <1>5, <1>6 DEF Moves

\* The compositor collects what was published, and at the join what is left.
LEMMA DrainMoves == ASSUME DrainEvents \/ JoinReturns PROVE Moves
<1>1. CASE DrainEvents
  <2>1. /\ results' = <<>> /\ mainJobs' = mainJobs \cup EventJobs(results)
        /\ mainSides' = mainSides \cup EventSides(results)
        /\ UNCHANGED <<queued, job, out, fatalJobs, sidecar, jobCount, sideCount>>
    BY Zenon, <1>1 DEF DrainEvents, state, thread
  <2>2. EventJobs(results') = {} /\ EventSides(results') = {} /\ HandJobs' = HandJobs
    BY Zenon, <2>1, EmptyPlaces DEF HandJobs
  <2>3. BundlesMove BY Zenon, <2>1, <2>2 DEF BundlesMove, Flow
  <2>4. SidesMove BY Zenon, <2>1, <2>2 DEF SidesMove, LooseFlow
  <2> QED BY Zenon, <2>1, <2>3, <2>4 DEF Moves
<1>2. CASE JoinReturns
  <2>1. /\ results' = <<>> /\ fatalJobs' = {} /\ sidecar' = NoSidecar
        /\ mainJobs' = mainJobs \cup EventJobs(results) \cup fatalJobs
        /\ mainSides' = mainSides \cup EventSides(results) \cup SideIds(sidecar)
        /\ UNCHANGED <<queued, job, out, jobCount, sideCount>>
    BY Zenon, <1>2 DEF JoinReturns, thread
  <2>2. /\ EventJobs(results') = {} /\ EventSides(results') = {} /\ SideIds(sidecar') = {}
        /\ HandJobs' = HandJobs
    BY Zenon, <2>1, EmptyPlaces DEF HandJobs
  <2>3. BundlesMove BY Zenon, <2>1, <2>2 DEF BundlesMove, Flow
  <2>4. SidesMove BY Zenon, <2>1, <2>2 DEF SidesMove, LooseFlow
  <2> QED BY Zenon, <2>1, <2>3, <2>4 DEF Moves
<1> QED BY Zenon, <1>1, <1>2

\* A cancelled commit returns to the compositor.
LEMMA CancelMoves == ASSUME TypeOK, SlotInv, CancelQueued PROVE Moves
<1>1. /\ queued # <<>> /\ queued' = Tail(queued) /\ mainJobs' = mainJobs \cup {Bundle(Head(queued))}
      /\ UNCHANGED <<job, out, fatalJobs, results, sidecar, mainSides, jobCount, sideCount>>
  BY Zenon DEF CancelQueued, thread
<1>2. /\ mainJobs' = mainJobs \cup Bundles(queued) /\ Bundles(queued') = {} /\ HandJobs' = HandJobs
  BY Zenon, <1>1, QueuedBundle, EmptyPlaces DEF HandJobs
<1>3. BundlesMove BY Zenon, <1>1, <1>2 DEF BundlesMove, Flow
<1>4. SidesMove BY Zenon, <1>1 DEF SidesMove, LooseFlow
<1> QED BY Zenon, <1>1, <1>3, <1>4 DEF Moves

\* An acknowledged pageflip publishes the sidecar that waited for the commit.
LEMMA AckMoves == ASSUME "notify" \notin Faults, TypeOK, AckPageflip PROVE Moves
<1>1. UNCHANGED <<job, out, mainJobs, mainSides, jobCount, sideCount>> BY Zenon DEF AckPageflip, thread
<1>2. \/ UNCHANGED <<queued, fatalJobs, sidecar, results>>
      \/ /\ UNCHANGED <<queued, fatalJobs>> /\ sidecar' = NoSidecar
         /\ results' = Append(results, Event("CursorSidecarReturned", {}, SideIds(sidecar)))
  BY Zenon DEF AckPageflip, AckInflight
<1>3. CASE UNCHANGED <<queued, fatalJobs, sidecar, results>> BY Zenon, <1>1, <1>3, StillMoves
<1>4. CASE /\ UNCHANGED <<queued, fatalJobs>> /\ sidecar' = NoSidecar
           /\ results' = Append(results, Event("CursorSidecarReturned", {}, SideIds(sidecar)))
  <2>1. results \in Seq(EventType) /\ sidecar \in SidecarType BY Zenon DEF TypeOK, StateType, ResultType
  <2>2. PICK e \in EventType : /\ results' = Append(results, e)
                               /\ e.jobs = {} /\ e.sides = SideIds(sidecar)
    <3>1. Event("CursorSidecarReturned", {}, SideIds(sidecar)) \in EventType
      BY Zenon, <2>1, SideEventTyped
    <3>2. /\ Event("CursorSidecarReturned", {}, SideIds(sidecar)).jobs = {}
          /\ Event("CursorSidecarReturned", {}, SideIds(sidecar)).sides = SideIds(sidecar)
      BY DEF Event
    <3> QED BY Zenon, <1>4, <3>1, <3>2
  <2>3. /\ EventJobs(results') = EventJobs(results)
        /\ EventSides(results') = EventSides(results) \cup SideIds(sidecar)
    <3>1. /\ EventJobs(Append(results, e)) = EventJobs(results) \cup e.jobs
          /\ EventSides(Append(results, e)) = EventSides(results) \cup e.sides
      BY Zenon, <2>1, AppendCarries
    <3> QED BY Zenon, <2>2, <3>1
  <2>4. HandJobs' = HandJobs /\ SideIds(sidecar') = {} BY Zenon, <1>1, <1>4, EmptyPlaces DEF HandJobs
  <2>5. BundlesMove BY Zenon, <1>1, <1>4, <2>3, <2>4 DEF BundlesMove, Flow
  <2>6. SidesMove BY Zenon, <1>1, <1>4, <2>3, <2>4 DEF SidesMove, LooseFlow
  <2> QED BY Zenon, <1>1, <2>5, <2>6 DEF Moves
<1> QED BY Zenon, <1>2, <1>3, <1>4

\* Before the commit is frozen the mailbox stays, goes back or is attached.
LEMMA CollectMoves == ASSUME OutInv, CollectSidecar PROVE Moves \/ Joins
<1>1. /\ pc = "collect"
      /\ UNCHANGED <<queued, fatalJobs, mainJobs, results, mainSides, jobCount, sideCount>>
  BY Zenon DEF CollectSidecar, client
<1>2. out = NoEvent
  <2>1. "collect" # "publish" OBVIOUS
  <2> QED BY Zenon, <1>1, <2>1 DEF OutInv
<1>3. \/ UNCHANGED <<sidecar, job, out>>
      \/ /\ sidecar' = NoSidecar /\ job' = job
         /\ out' = Event("CursorSidecarReturned", {}, SideIds(sidecar))
      \/ /\ sidecar.id # 0 /\ sidecar' = NoSidecar /\ out' = out
         /\ \E t : job' = AttachSidecar(job, t)
  <2>1. CASE lifecycle # "Running" BY Zenon, <2>1 DEF CollectSidecar
  <2>2. CASE lifecycle = "Running"
    <3> DEFINE claimed == /\ Claims(job)
                          /\ sidecar.base = job.base
                          /\ sidecar.id > job.crev
               returned == ~claimed /\ (Claims(job) \/ MustBundleWith(job))
    <3>1. /\ sidecar' = IF claimed \/ returned THEN NoSidecar ELSE sidecar
          /\ \/ claimed /\ (\E t \in {job.test, TRUE} : job' = AttachSidecar(job, t)) /\ UNCHANGED <<out, ret>>
             \/ /\ returned /\ UNCHANGED <<executing, job>>
                /\ out' = Event("CursorSidecarReturned", {}, SideIds(sidecar))
             \/ ~claimed /\ ~returned /\ UNCHANGED <<executing, job, out, ret>>
      BY Zenon, <2>2 DEF CollectSidecar, Publish
    <3>2. claimed => sidecar.id # 0 BY Zenon DEF Claims
    <3> HIDE DEF claimed, returned
    <3> QED BY Zenon, <3>1, <3>2
  <2> QED BY Zenon, <2>1, <2>2
<1>4. CASE UNCHANGED <<sidecar, job, out>> BY Zenon, <1>1, <1>4, StillMoves
<1>5. CASE /\ sidecar' = NoSidecar /\ job' = job
           /\ out' = Event("CursorSidecarReturned", {}, SideIds(sidecar))
  BY ZenonT(60), <1>1, <1>2, <1>5, SideReturnMoves
<1>6. CASE /\ sidecar.id # 0 /\ sidecar' = NoSidecar /\ out' = out
           /\ \E t : job' = AttachSidecar(job, t)
  BY ZenonT(60), <1>1, <1>6 DEF Joins
<1> QED BY Zenon, <1>3, <1>4, <1>5, <1>6

\* Every step moves what it takes, all of it and once; a commit is created by
\* enqueue, a sidecar by offer_cursor_sidecar, and the two are joined before
\* the commit is frozen.
LEMMA NextMoves ==
  ASSUME "notify" \notin Faults, TypeOK, SubmissionInv, SlotInv, HandoverInv, Next
  PROVE Moves \/ Joins \/ Enqueue \/ OfferSidecar
<1>0. OutInv /\ FreeInv /\ HandInv /\ QueueInv BY Zenon DEF HandoverInv, SubmissionInv
<1>1. \A x \in {"take", "takeSleep", "probe", "deadline", "collect", "dropQuiesce",
        "quiesceJobs", "testGate", "test", "submitGate", "ioctl", "transfer",
        "backoff", "retain", "rejectSide", "rejectDeps", "rejectEvent", "drop",
        "flip", "flipSleep", "markFatal", "exit", "exited"} : x # "publish"
  OBVIOUS
<1>2. \A x \in {"take", "takeSleep", "probe", "drop", "flip", "flipSleep", "markFatal", "exit",
                 "exited"} : pc = x => job = NoJob
  <2>1. \A x \in {"take", "takeSleep", "probe", "drop", "flip", "flipSleep", "markFatal", "exit",
                   "exited"} : x \notin InHand
    BY DEF InHand
  <2> QED BY ZenonT(60), <1>0, <1>1, <2>1 DEF FreeInv
<1>3. pc \in InHand => job # NoJob
  <2>1. NoJob.id = 0 /\ ~(0 > 0) BY DEF NoJob
  <2> QED BY ZenonT(60), <1>0, <2>1 DEF HandInv, Holding
<1>4. pc # "publish" => out = NoEvent BY Zenon, <1>0 DEF OutInv
<1>5. \A x \in {"quiesceJobs", "test", "ioctl", "transfer", "retain", "rejectEvent"} : x \in InHand
  BY DEF InHand
<1>6. \A t : Event(t, {}, {}).jobs = {} /\ Event(t, {}, {}).sides = {} BY DEF Event
<1>7. CASE TakeStopped \/ TakeProbe \/ RunProbe \/ TakeSleep \/ DeadlineWait
         \/ DropThenQuiesce \/ EnterTest \/ EnterSubmit \/ SubmitOk
         \/ BackoffWait \/ EndIteration \/ FlipAcknowledged \/ FlipSleep
         \/ SpuriousWake \/ CompleteFlip \/ Joined
  <2>1. UNCHANGED <<queued, job, out, fatalJobs, mainJobs, results, sidecar, mainSides, jobCount, sideCount>>
    BY Zenon, <1>7 DEF TakeStopped, TakeProbe, RunProbe, TakeSleep,
      DeadlineWait, DropThenQuiesce, EnterTest, EnterSubmit, SubmitOk,
      BackoffWait, EndIteration, FlipAcknowledged, FlipSleep, SpuriousWake,
      CompleteFlip, Joined, EnterGate, vars, state, thread, client
  <2> QED BY Zenon, <2>1, StillMoves
<1>8. CASE PlanCommit \/ (\E shape \in Shapes : TryReserve(shape))
         \/ ReserveRefused \/ EnqueueRefused \/ DropPermit \/ LookForPrimary
         \/ OfferRefused \/ QueueProbe \/ PromotePresented \/ RequestQuiesce
         \/ StartJoin
  <2>1. UNCHANGED <<queued, job, out, fatalJobs, mainJobs, results, sidecar, mainSides, jobCount, sideCount>>
    BY Zenon, <1>8 DEF PlanCommit, TryReserve, ReserveRefused, EnqueueRefused,
      DropPermit, LookForPrimary, OfferRefused, QueueProbe, PromotePresented,
      RequestQuiesce, StartJoin, state, thread, client
  <2> QED BY Zenon, <2>1, StillMoves
<1>9. CASE Exit
  <2>1. pc = "exit" /\ job' = NoJob
        /\ UNCHANGED <<queued, out, fatalJobs, mainJobs, results, sidecar, mainSides, jobCount, sideCount>>
    BY Zenon, <1>9 DEF Exit, client
  <2> QED BY Zenon, <1>2, <2>1, StillMoves
<1>10. CASE SubmitBusy \/ FlipTimeout
  <2>1. /\ pc \in {"ioctl", "flipSleep"}
        /\ UNCHANGED <<queued, job, fatalJobs, mainJobs, results, sidecar, mainSides, jobCount, sideCount>>
        /\ out' = out \/ \E t : out' = Event(t, {}, {})
    BY Zenon, <1>10 DEF SubmitBusy, FlipTimeout, Publish, state, client
  <2>2. out = NoEvent BY Zenon, <1>1, <1>4, <2>1
  <2>3. NoEvent = Event("None", {}, {}) BY Zenon DEF NoEvent
  <2>4. out'.jobs = {} /\ out'.sides = {} BY Zenon, <1>6, <2>1, <2>2, <2>3
  <2>5. out.jobs = {} /\ out.sides = {} BY Zenon, <2>2, EmptyPlaces
  <2> QED BY Zenon, <2>1, <2>4, <2>5, StillMoves
<1>11. CASE TestOnly \/ SubmitFailed
  <2>1. /\ pc \in {"test", "ioctl"}
        /\ UNCHANGED <<queued, out, mainJobs, results, sidecar, mainSides, jobCount, sideCount>>
        /\ \/ UNCHANGED <<fatalJobs, job>>
           \/ fatalJobs' = fatalJobs \cup {Bundle(job)} /\ job' = NoJob
    BY Zenon, <1>11 DEF TestOnly, SubmitFailed, RetainAfterPanic, state, client
  <2>2. job # NoJob BY Zenon, <1>3, <1>5, <2>1
  <2>3. CASE UNCHANGED <<fatalJobs, job>> BY Zenon, <2>1, <2>3, StillMoves
  <2>4. CASE fatalJobs' = fatalJobs \cup {Bundle(job)} /\ job' = NoJob
    BY Zenon, <2>1, <2>2, <2>4, RetainMoves
  <2> QED BY Zenon, <2>1, <2>3, <2>4
<1>12. CASE RetainJob
  <2>1. /\ pc = "retain" /\ fatalJobs' = fatalJobs \cup {Bundle(job)} /\ job' = NoJob
        /\ UNCHANGED <<queued, out, mainJobs, results, sidecar, mainSides, jobCount, sideCount>>
    BY Zenon, <1>12 DEF RetainJob, state, client
  <2> QED BY Zenon, <1>3, <1>5, <2>1, RetainMoves
<1>13. CASE Transfer \/ RejectEvent
  <2>1. /\ pc \in {"transfer", "rejectEvent"} /\ job' = NoJob
        /\ \E t : out' = Event(t, {Bundle(job)}, {})
        /\ UNCHANGED <<queued, fatalJobs, mainJobs, results, sidecar, mainSides, jobCount, sideCount>>
    BY Zenon, <1>13 DEF Transfer, RejectEvent, Publish, state, client
  <2>2. job # NoJob /\ out = NoEvent BY Zenon, <1>1, <1>3, <1>4, <1>5, <2>1
  <2> QED BY Zenon, <2>1, <2>2, SettledMoves
<1>14. CASE TakeQuiesced \/ FlipQuiesced \/ QuiesceWithJobs
  <2>1. /\ job' = NoJob \/ job' = job
        /\ UNCHANGED <<fatalJobs, mainJobs, results, mainSides, jobCount, sideCount>>
        /\ \/ pc \in {"take", "flip"} /\ PublishQuiesced({})
           \/ pc = "quiesceJobs" /\ PublishQuiesced({Bundle(job)}) /\ job' = NoJob
    BY Zenon, <1>14 DEF TakeQuiesced, FlipQuiesced, QuiesceWithJobs, client
  <2>2. CASE pc \in {"take", "flip"} /\ PublishQuiesced({})
    <3>1. job = NoJob /\ out = NoEvent /\ HandJobs = {} BY Zenon, <1>1, <1>2, <1>4, <2>2 DEF HandJobs
    <3> QED BY Zenon, <2>1, <2>2, <3>1, QuiescedMoves
  <2>3. CASE pc = "quiesceJobs" /\ PublishQuiesced({Bundle(job)}) /\ job' = NoJob
    <3>1. HandJobs = {Bundle(job)} /\ out = NoEvent BY Zenon, <1>1, <1>3, <1>4, <1>5, <2>3 DEF HandJobs
    <3> QED BY Zenon, <2>1, <2>3, <3>1, QuiescedMoves
  <2> QED BY Zenon, <2>1, <2>2, <2>3
<1>15. CASE TakeInvalidated \/ RejectDependents
  <2>1. /\ pc \in {"take", "rejectDeps"}
        /\ UNCHANGED <<job, fatalJobs, mainJobs, results, sidecar, mainSides, jobCount, sideCount>>
        /\ \/ UNCHANGED <<queued, out>>
           \/ /\ queued # <<>> /\ queued' = Tail(queued)
              /\ out' = Event("ValidationBaseInvalidated", {Bundle(Head(queued))}, {})
    BY Zenon, <1>15 DEF TakeInvalidated, RejectDependents, CanTakeJob, Publish, client
  <2>2. out = NoEvent BY Zenon, <1>1, <1>4, <2>1
  <2> QED BY Zenon, <2>1, <2>2, StillMoves, QueueReturnMoves
<1>16. CASE RejectSidecar
  <2>1. /\ pc = "rejectSide"
        /\ UNCHANGED <<queued, job, fatalJobs, mainJobs, results, mainSides, jobCount, sideCount>>
        /\ \/ UNCHANGED <<sidecar, out>>
           \/ /\ sidecar' = NoSidecar
              /\ out' = Event("CursorSidecarReturned", {}, SideIds(sidecar))
    BY Zenon, <1>16 DEF RejectSidecar, Publish, client
  <2>2. out = NoEvent BY Zenon, <1>1, <1>4, <2>1
  <2> QED BY Zenon, <2>1, <2>2, StillMoves, SideReturnMoves
<1>17. CASE WorkerMarkFatal \/ QuarantineAdmission \/ FailTransition
  <2>1. MarkFatal(results) /\ UNCHANGED <<job, out, mainJobs, sidecar, mainSides, jobCount, sideCount>>
    BY Zenon, <1>17 DEF WorkerMarkFatal, QuarantineAdmission, FailTransition, thread, client
  <2> QED BY Zenon, <2>1, FatalMoves
<1>18. CASE BeginShutdown \/ ForceAbandon
  <2>1. /\ UNCHANGED <<job, out, fatalJobs, results, jobCount, sideCount>>
        /\ \/ TakeBack
           \/ /\ sidecar' = NoSidecar /\ mainSides' = mainSides \cup SideIds(sidecar)
              /\ UNCHANGED <<queued, mainJobs>>
    BY Zenon, <1>18 DEF BeginShutdown, ForceAbandon, thread
  <2> QED BY Zenon, <2>1, TakeBackMoves, BoxReturnMoves
<1>19. CASE TakeDueSidecar
  <2>1. /\ sidecar' = NoSidecar /\ mainSides' = mainSides \cup SideIds(sidecar)
        /\ UNCHANGED <<queued, job, out, fatalJobs, mainJobs, results, jobCount, sideCount>>
    BY Zenon, <1>19 DEF TakeDueSidecar, thread
  <2> QED BY Zenon, <2>1, BoxReturnMoves
<1>20. CASE TakeReady
  <2>1. job = NoJob BY Zenon, <1>2, <1>20 DEF TakeReady, CanTakeJob
  <2> QED BY Zenon, <1>0, <1>20, <2>1, TakeMoves
<1>21. CASE PublishEvent \/ DrainEvents \/ JoinReturns \/ CancelQueued \/ AckPageflip \/ CollectSidecar
  BY Zenon, <1>0, <1>21, PublishMoves, DrainMoves, CancelMoves, AckMoves, CollectMoves
<1> QED BY ZenonT(60), <1>7, <1>8, <1>9, <1>10, <1>11, <1>12, <1>13, <1>14, <1>15,
    <1>16, <1>17, <1>18, <1>19, <1>20, <1>21
  DEF Next, WorkerStep, MainStep

\* A step of moves keeps the number of places of every commit and sidecar.
LEMMA MovesKeep ==
  ASSUME Moves, NEW t, JobHeld(t) <= 1, SideHeld(t) <= 1, SideLoose(t) <= 1
  PROVE JobHeld(t)' = JobHeld(t) /\ SideHeld(t)' = SideHeld(t) /\ SideLoose(t)' = SideLoose(t)
<1>1. /\ Flow(Nums(Bundles(queued)), Nums(HandJobs), Nums(out.jobs), Nums(fatalJobs),
              Nums(mainJobs), Nums(EventJobs(results)),
              Nums(Bundles(queued')), Nums(HandJobs'), Nums(out'.jobs), Nums(fatalJobs'),
              Nums(mainJobs'), Nums(EventJobs(results')))
      /\ Flow(Subs(Bundles(queued)), Subs(HandJobs), Subs(out.jobs), Subs(fatalJobs),
              Subs(mainJobs), Subs(EventJobs(results)),
              Subs(Bundles(queued')), Subs(HandJobs'), Subs(out'.jobs), Subs(fatalJobs'),
              Subs(mainJobs'), Subs(EventJobs(results')))
  BY Zenon, FlowImage DEF Moves, BundlesMove
<1>2. LooseFlow(SideIds(sidecar), out.sides, mainSides, EventSides(results),
                SideIds(sidecar'), out'.sides, mainSides', EventSides(results'))
  BY Zenon DEF Moves, SidesMove
<1>3. JobHeld(t)' = JobHeld(t)
  <2> DEFINE Q == Nums(Bundles(queued))
             H == Nums(HandJobs)
             O == Nums(out.jobs)
             F == Nums(fatalJobs)
             M == Nums(mainJobs)
             R == Nums(EventJobs(results))
             Q2 == Nums(Bundles(queued'))
             H2 == Nums(HandJobs')
             O2 == Nums(out'.jobs)
             F2 == Nums(fatalJobs')
             M2 == Nums(mainJobs')
             R2 == Nums(EventJobs(results'))
  <2>1. Flow(Q, H, O, F, M, R, Q2, H2, O2, F2, M2, R2) BY Zenon, <1>1
  <2>2. Held(Q, H, O, F, M, R, t) = JobHeld(t) BY Zenon DEF JobHeld
  <2>3. Held(Q2, H2, O2, F2, M2, R2, t) = JobHeld(t)' BY Zenon DEF JobHeld
  <2> HIDE DEF Q, H, O, F, M, R, Q2, H2, O2, F2, M2, R2
  <2>4. Held(Q, H, O, F, M, R, t) <= 1 BY Zenon, <2>2
  <2>5. Held(Q2, H2, O2, F2, M2, R2, t) = Held(Q, H, O, F, M, R, t) BY <2>1, <2>4, FlowKeeps
  <2> QED BY Zenon, <2>2, <2>3, <2>5
<1>4. SideHeld(t)' = SideHeld(t)
  <2> DEFINE Q == Subs(Bundles(queued))
             H == Subs(HandJobs)
             O == Subs(out.jobs)
             F == Subs(fatalJobs)
             M == Subs(mainJobs)
             R == Subs(EventJobs(results))
             Q2 == Subs(Bundles(queued'))
             H2 == Subs(HandJobs')
             O2 == Subs(out'.jobs)
             F2 == Subs(fatalJobs')
             M2 == Subs(mainJobs')
             R2 == Subs(EventJobs(results'))
  <2>1. Flow(Q, H, O, F, M, R, Q2, H2, O2, F2, M2, R2) BY Zenon, <1>1
  <2>2. Held(Q, H, O, F, M, R, t) = SideHeld(t) BY Zenon DEF SideHeld
  <2>3. Held(Q2, H2, O2, F2, M2, R2, t) = SideHeld(t)' BY Zenon DEF SideHeld
  <2> HIDE DEF Q, H, O, F, M, R, Q2, H2, O2, F2, M2, R2
  <2>4. Held(Q, H, O, F, M, R, t) <= 1 BY Zenon, <2>2
  <2>5. Held(Q2, H2, O2, F2, M2, R2, t) = Held(Q, H, O, F, M, R, t) BY <2>1, <2>4, FlowKeeps
  <2> QED BY Zenon, <2>2, <2>3, <2>5
<1>5. SideLoose(t)' = SideLoose(t)
  <2> DEFINE X == SideIds(sidecar)
             O == out.sides
             M == mainSides
             R == EventSides(results)
             X2 == SideIds(sidecar')
             O2 == out'.sides
             M2 == mainSides'
             R2 == EventSides(results')
  <2>1. LooseFlow(X, O, M, R, X2, O2, M2, R2) BY Zenon, <1>2
  <2>2. Loose(X, O, M, R, t) = SideLoose(t) BY Zenon DEF SideLoose
  <2>3. Loose(X2, O2, M2, R2, t) = SideLoose(t)' BY Zenon DEF SideLoose
  <2> HIDE DEF X, O, M, R, X2, O2, M2, R2
  <2>4. Loose(X, O, M, R, t) <= 1 BY Zenon, <2>2
  <2>5. Loose(X2, O2, M2, R2, t) = Loose(X, O, M, R, t) BY <2>1, <2>4, LooseKeeps
  <2> QED BY Zenon, <2>2, <2>3, <2>5
<1> QED BY Zenon, <1>3, <1>4, <1>5

\* Places are counted by natural numbers.
LEMMA HeldNat == ASSUME NEW t PROVE JobHeld(t) \in Nat /\ SideHeld(t) \in Nat /\ SideLoose(t) \in Nat
<1>1. \A S : In(t, S) \in Nat BY DEF In
<1>2. \A Q, H, O, F, M, R : Held(Q, H, O, F, M, R, t) \in Nat BY <1>1 DEF Held
<1>3. \A X, O, M, R : Loose(X, O, M, R, t) \in Nat BY <1>1 DEF Loose
<1> QED BY Zenon, <1>2, <1>3 DEF JobHeld, SideHeld, SideLoose

\* What the tokens say of one number.
LEMMA TokensOf ==
  ASSUME TypeOK, JobTokens, SideTokens, NEW t \in Nat \ {0}
  PROVE /\ JobHeld(t) = (IF t <= jobCount THEN 1 ELSE 0)
        /\ SideHeld(t) + SideLoose(t) = (IF t <= sideCount THEN 1 ELSE 0)
        /\ JobHeld(t) <= 1 /\ SideHeld(t) + SideLoose(t) <= 1 /\ SideHeld(t) <= 1 /\ SideLoose(t) <= 1
<1>1. /\ JobHeld(t) = (IF t <= jobCount THEN 1 ELSE 0)
      /\ SideHeld(t) + SideLoose(t) = (IF t <= sideCount THEN 1 ELSE 0)
  BY Zenon DEF JobTokens, SideTokens
<1>2. SideHeld(t) \in Nat /\ SideLoose(t) \in Nat BY Zenon, HeldNat
<1> QED BY <1>1, <1>2

\* The commit takes the sidecar along.
LEMMA JoinsKeep ==
  ASSUME TypeOK, CurInv, HandInv, Joins, NEW t \in Nat \ {0}
  PROVE JobHeld(t)' = JobHeld(t) /\ SideHeld(t)' + SideLoose(t)' = SideHeld(t) + SideLoose(t)
<1>1. /\ pc = "collect" /\ sidecar.id # 0 /\ sidecar' = NoSidecar
      /\ UNCHANGED <<queued, out, fatalJobs, mainJobs, results, mainSides, jobCount, sideCount>>
  BY Zenon DEF Joins
<1>2. PICK u : job' = AttachSidecar(job, u) BY Zenon DEF Joins
<1>3. job \in JobType BY Zenon DEF TypeOK, ThreadType
<1>4. job'.id = job.id /\ job'.cur = sidecar.id BY <1>2, <1>3 DEF AttachSidecar, JobType
<1>5. job.cur = 0 /\ job.id > 0 BY Zenon, <1>1 DEF CurInv, HandInv, Holding, InHand
<1>6. job # NoJob /\ job' # NoJob BY <1>4, <1>5 DEF NoJob
<1>7. HandJobs = {Bundle(job)} /\ HandJobs' = {Bundle(job')} BY Zenon, <1>6 DEF HandJobs
<1>8. \A j : Bundle(j).n = j.id /\ Bundle(j).s = j.cur BY DEF Bundle
<1>9. Nums(HandJobs') = Nums(HandJobs) BY Zenon, <1>4, <1>7, <1>8 DEF Nums
<1>10. Subs(HandJobs) = {0} /\ Subs(HandJobs') = {sidecar.id} BY Zenon, <1>4, <1>5, <1>7, <1>8 DEF Subs
<1>11. SideIds(sidecar) = {sidecar.id} BY Zenon, <1>1 DEF SideIds
<1>12. SideIds(sidecar') = {} BY Zenon, <1>1, EmptyPlaces
<1>13. JobHeld(t)' = JobHeld(t) BY Zenon, <1>1, <1>9 DEF JobHeld
<1> DEFINE q == In(t, Subs(Bundles(queued)))
           o == In(t, Subs(out.jobs))
           f == In(t, Subs(fatalJobs))
           m == In(t, Subs(mainJobs))
           r == In(t, Subs(EventJobs(results)))
           u2 == In(t, out.sides)
           v == In(t, mainSides)
           w == In(t, EventSides(results))
           h == In(t, {sidecar.id})
<1>14. SideHeld(t) = q + In(t, {0}) + o + f + m + r /\ SideLoose(t) = h + u2 + v + w
  BY Zenon, <1>10, <1>11 DEF SideHeld, SideLoose, Held, Loose
<1>15. SideHeld(t)' = q + h + o + f + m + r /\ SideLoose(t)' = In(t, {}) + u2 + v + w
  BY Zenon, <1>1, <1>10, <1>12 DEF SideHeld, SideLoose, Held, Loose
<1>16. In(t, {0}) = 0 /\ In(t, {}) = 0 BY DEF In
<1>17. \A S : In(t, S) \in {0, 1} BY DEF In
<1>18. /\ q \in {0, 1} /\ o \in {0, 1} /\ f \in {0, 1} /\ m \in {0, 1} /\ r \in {0, 1} /\ u2 \in {0, 1}
       /\ v \in {0, 1} /\ w \in {0, 1} /\ h \in {0, 1}
  BY Zenon, <1>17
<1> HIDE DEF q, o, f, m, r, u2, v, w, h
<1>19. SideHeld(t)' + SideLoose(t)' = SideHeld(t) + SideLoose(t)
  BY <1>14, <1>15, <1>16, <1>18
<1> QED BY Zenon, <1>13, <1>19

\* An accepted commit is in the queue and nowhere else.
LEMMA EnqueueCounts ==
  ASSUME TypeOK, SlotInv, JobTokens, SideTokens, Enqueue, NEW t \in Nat \ {0}
  PROVE /\ JobHeld(t)' = (IF t <= jobCount' THEN 1 ELSE 0)
        /\ SideHeld(t)' = SideHeld(t) /\ SideLoose(t)' = SideLoose(t) /\ sideCount' = sideCount
<1>1. /\ queued = <<>> /\ DOMAIN queued' = {1} /\ queued'[1].id = jobCount + 1
      /\ jobCount' = jobCount + 1
  BY Zenon, EnqueueAppends
<1>2. queued'[1].cur = 0 BY Zenon, <1>1, EnqueueBare
<1>3. UNCHANGED <<job, out, fatalJobs, mainJobs, results, sidecar, mainSides, sideCount>>
  BY Zenon DEF Enqueue, thread
<1>4. HandJobs' = HandJobs BY Zenon, <1>3 DEF HandJobs
<1>5. Bundles(queued) = {} BY Zenon, <1>1, EmptyPlaces
<1>6. Bundles(queued') = {Bundle(queued'[1])} BY ZenonT(60), <1>1 DEF Bundles
<1>7. Bundle(queued'[1]).n = jobCount + 1 /\ Bundle(queued'[1]).s = 0 BY <1>1, <1>2 DEF Bundle
<1>8. /\ Nums(Bundles(queued)) = {} /\ Subs(Bundles(queued)) = {}
      /\ Nums(Bundles(queued')) = {jobCount + 1} /\ Subs(Bundles(queued')) = {0}
  <2>1. Nums({}) = {} /\ Subs({}) = {} BY Zenon, NumsUnion
  <2>2. Nums({Bundle(queued'[1])}) = {jobCount + 1} BY Zenon, <1>7 DEF Nums
  <2>3. Subs({Bundle(queued'[1])}) = {0} BY Zenon, <1>7 DEF Subs
  <2> QED BY Zenon, <1>5, <1>6, <2>1, <2>2, <2>3
<1>9. In(t, {}) = 0 /\ In(t, {0}) = 0 BY DEF In
<1>10. SideHeld(t)' = SideHeld(t) BY Zenon, <1>3, <1>4, <1>8, <1>9 DEF SideHeld, Held
<1>11. SideLoose(t)' = SideLoose(t) BY Zenon, <1>3 DEF SideLoose
<1> DEFINE h == In(t, Nums(HandJobs))
           o == In(t, Nums(out.jobs))
           f == In(t, Nums(fatalJobs))
           m == In(t, Nums(mainJobs))
           r == In(t, Nums(EventJobs(results)))
<1>12. JobHeld(t) = 0 + h + o + f + m + r BY Zenon, <1>8, <1>9 DEF JobHeld, Held
<1>13. JobHeld(t)' = In(t, {jobCount + 1}) + h + o + f + m + r
  BY Zenon, <1>3, <1>4, <1>8 DEF JobHeld, Held
<1>14. \A S : In(t, S) \in {0, 1} BY DEF In
<1>15. h \in {0, 1} /\ o \in {0, 1} /\ f \in {0, 1} /\ m \in {0, 1} /\ r \in {0, 1} BY Zenon, <1>14
<1>16. JobHeld(t) = (IF t <= jobCount THEN 1 ELSE 0) BY Zenon, TokensOf
<1>17. In(t, {jobCount + 1}) = (IF t = jobCount + 1 THEN 1 ELSE 0) BY DEF In
<1>18. jobCount \in Nat BY ZenonT(60), KeysTyped
<1> HIDE DEF h, o, f, m, r
<1>19. JobHeld(t)' = (IF t <= jobCount' THEN 1 ELSE 0)
  BY <1>1, <1>12, <1>13, <1>15, <1>16, <1>17, <1>18
<1> QED BY Zenon, <1>3, <1>10, <1>11, <1>19

\* An offered sidecar is in the mailbox; the one it replaces is returned.
LEMMA OfferCounts ==
  ASSUME TypeOK, JobTokens, SideTokens, OfferSidecar, NEW t \in Nat \ {0}
  PROVE /\ JobHeld(t)' = JobHeld(t) /\ jobCount' = jobCount
        /\ SideHeld(t)' + SideLoose(t)' = (IF t <= sideCount' THEN 1 ELSE 0)
<1>1. /\ mainSides' = mainSides \cup SideIds(sidecar) /\ sideCount' = sideCount + 1
      /\ UNCHANGED <<queued, job, out, fatalJobs, mainJobs, results, jobCount>>
  BY Zenon DEF OfferSidecar, thread
<1>2. sidecar'.id = sideCount + 1
  <2>1. PICK with : sidecar' = [attach EXCEPT !.id = sideCount + 1, !.with = with]
    BY Zenon DEF OfferSidecar
  <2>2. attach \in SidecarType BY Zenon DEF TypeOK, ClientType
  <2> QED BY <2>1, <2>2 DEF SidecarType
<1>3. sideCount \in Nat BY Zenon DEF TypeOK, ClientType
<1>4. SideIds(sidecar') = {sideCount + 1} BY <1>2, <1>3 DEF SideIds
<1>5. HandJobs' = HandJobs BY Zenon, <1>1 DEF HandJobs
<1>6. JobHeld(t)' = JobHeld(t) BY Zenon, <1>1, <1>5 DEF JobHeld
<1>7. SideHeld(t)' = SideHeld(t) BY Zenon, <1>1, <1>5 DEF SideHeld
<1> DEFINE x == In(t, SideIds(sidecar))
           o == In(t, out.sides)
           m == In(t, mainSides)
           r == In(t, EventSides(results))
<1>8. SideLoose(t) = x + o + m + r BY Zenon DEF SideLoose, Loose
<1>9. SideLoose(t)' = In(t, {sideCount + 1}) + o + In(t, mainSides \cup SideIds(sidecar)) + r
  BY Zenon, <1>1, <1>4 DEF SideLoose, Loose
<1>10. \A S : In(t, S) \in {0, 1} BY DEF In
<1>11. x \in {0, 1} /\ o \in {0, 1} /\ m \in {0, 1} /\ r \in {0, 1} BY Zenon, <1>10
<1>12. ASSUME m + x <= 1 PROVE In(t, mainSides \cup SideIds(sidecar)) = m + x
  BY Zenon, <1>12, InUnion
<1>13. In(t, {sideCount + 1}) = (IF t = sideCount + 1 THEN 1 ELSE 0) BY DEF In
<1>14. /\ SideHeld(t) + SideLoose(t) = (IF t <= sideCount THEN 1 ELSE 0)
       /\ SideLoose(t) <= 1 /\ SideHeld(t) \in Nat
  BY Zenon, TokensOf, HeldNat
<1> HIDE DEF x, o, m, r
<1>15. SideLoose(t)' = (IF t = sideCount + 1 THEN 1 ELSE 0) + SideLoose(t)
  <2>1. m + x <= 1 BY <1>8, <1>11, <1>14
  <2> QED BY <1>8, <1>9, <1>11, <1>12, <1>13, <2>1
<1>16. SideLoose(t) \in Nat BY Zenon, HeldNat
<1>17. SideHeld(t)' + SideLoose(t)' = (IF t <= sideCount' THEN 1 ELSE 0)
  BY <1>1, <1>3, <1>7, <1>14, <1>15, <1>16
<1> QED BY Zenon, <1>1, <1>6, <1>17

\* An event is published with what the worker hands over or with the mailbox.
Publishes(e) == /\ results' = Append(results, e)
                /\ \A b \in e.jobs : b \in out.jobs
                /\ (\A s \in e.sides : s \in out.sides) \/ (\A s \in e.sides : s \in SideIds(sidecar))

\* A step leaves the results, empties them (recv_results) or publishes one event (publish_event,
\* mark_fatal), with what the worker hands over or what the mailbox held.
LEMMA ResultMoves ==
  ASSUME "notify" \notin Faults, TypeOK, Next
  PROVE results' = results \/ results' = <<>> \/ \E e \in EventType : Publishes(e)
<1>1. CASE PublishEvent
  <2>1. out \in EventType /\ results' = Append(results, out)
    BY Zenon, <1>1 DEF TypeOK, ThreadType, PublishEvent
  <2> QED BY Zenon, <2>1 DEF Publishes
<1>2. CASE WorkerMarkFatal \/ QuarantineAdmission \/ FailTransition
  <2>1. results' = results \/ results' = Append(results, Event("Fatal", {}, {}))
    BY Zenon, <1>2 DEF WorkerMarkFatal, QuarantineAdmission, FailTransition, MarkFatal
  <2>2. "Fatal" \in EventKinds BY DEF EventKinds
  <2>3. Event("Fatal", {}, {}) \in EventType BY Zenon, <2>2, BareEventTyped
  <2>4. Event("Fatal", {}, {}).jobs = {} /\ Event("Fatal", {}, {}).sides = {} BY DEF Event
  <2> QED BY Zenon, <2>1, <2>3, <2>4 DEF Publishes
<1>3. CASE DrainEvents \/ JoinReturns BY Zenon, <1>3 DEF DrainEvents, JoinReturns
<1>4. CASE AckPageflip
  <2>1. \/ results' = results
        \/ results' = Append(results, Event("CursorSidecarReturned", {}, SideIds(sidecar)))
    BY Zenon, <1>4 DEF AckPageflip, AckInflight
  <2>2. sidecar \in SidecarType BY Zenon DEF TypeOK, StateType
  <2>3. Event("CursorSidecarReturned", {}, SideIds(sidecar)) \in EventType BY Zenon, <2>2, SideEventTyped
  <2>4. /\ Event("CursorSidecarReturned", {}, SideIds(sidecar)).jobs = {}
        /\ Event("CursorSidecarReturned", {}, SideIds(sidecar)).sides = SideIds(sidecar)
    BY DEF Event
  <2> QED BY Zenon, <2>1, <2>3, <2>4 DEF Publishes
<1>5. CASE TakeStopped \/ TakeQuiesced \/ TakeProbe \/ RunProbe
         \/ TakeInvalidated \/ TakeReady \/ TakeSleep \/ DeadlineWait
         \/ CollectSidecar \/ DropThenQuiesce \/ QuiesceWithJobs
         \/ EnterTest \/ TestOnly \/ EnterSubmit
  BY Zenon, <1>5 DEF TakeStopped, TakeQuiesced, TakeProbe, RunProbe,
    TakeInvalidated, TakeReady, TakeSleep, DeadlineWait, CollectSidecar,
    DropThenQuiesce, QuiesceWithJobs, EnterTest, TestOnly, EnterSubmit,
    EnterGate
<1>6. CASE SubmitOk \/ SubmitBusy \/ SubmitFailed \/ Transfer \/ RetainJob
         \/ BackoffWait \/ RejectSidecar \/ RejectDependents \/ RejectEvent
         \/ EndIteration \/ FlipQuiesced \/ FlipAcknowledged \/ FlipSleep
         \/ FlipTimeout \/ Exit
  BY Zenon, <1>6 DEF SubmitOk, SubmitBusy, SubmitFailed, Transfer, RetainJob,
    BackoffWait, RejectSidecar, RejectDependents, RejectEvent, EndIteration,
    FlipQuiesced, FlipAcknowledged, FlipSleep, FlipTimeout, Exit
<1>7. CASE PlanCommit \/ (\E shape \in Shapes : TryReserve(shape))
         \/ ReserveRefused \/ Enqueue \/ EnqueueRefused \/ DropPermit
         \/ LookForPrimary \/ OfferSidecar \/ OfferRefused \/ TakeDueSidecar
         \/ CancelQueued \/ QueueProbe \/ PromotePresented \/ RequestQuiesce
         \/ BeginShutdown \/ ForceAbandon \/ StartJoin \/ SpuriousWake
         \/ CompleteFlip \/ Joined
  BY Zenon, <1>7 DEF PlanCommit, TryReserve, ReserveRefused, Enqueue,
    EnqueueRefused, DropPermit, LookForPrimary, OfferSidecar, OfferRefused,
    TakeDueSidecar, CancelQueued, QueueProbe, PromotePresented,
    RequestQuiesce, BeginShutdown, ForceAbandon, StartJoin, SpuriousWake,
    CompleteFlip, Joined, vars
<1> QED BY Zenon, <1>1, <1>2, <1>3, <1>4, <1>5, <1>6, <1>7
  DEF Next, WorkerStep, MainStep

\* A number that is held in the published events is held in one of them.
LEMMA InReported ==
  ASSUME NEW evs, NEW t
  PROVE /\ t \in Nums(EventJobs(evs)) <=> \E i \in DOMAIN evs : t \in Nums(evs[i].jobs)
        /\ t \in Subs(EventJobs(evs)) <=> \E i \in DOMAIN evs : t \in Subs(evs[i].jobs)
        /\ t \in EventSides(evs) <=> \E i \in DOMAIN evs : t \in evs[i].sides
<1>1. t \in Nums(EventJobs(evs)) <=> \E i \in DOMAIN evs : t \in Nums(evs[i].jobs)
  BY Zenon DEF EventJobs, Nums
<1>2. t \in Subs(EventJobs(evs)) <=> \E i \in DOMAIN evs : t \in Subs(evs[i].jobs)
  BY Zenon DEF EventJobs, Subs
<1>3. t \in EventSides(evs) <=> \E i \in DOMAIN evs : t \in evs[i].sides
  BY Zenon DEF EventSides
<1> QED BY Zenon, <1>1, <1>2, <1>3

\* What is counted once is in one place.
LEMMA Exclusive ==
  ASSUME TypeOK, JobTokens, SideTokens, NEW t \in Nat \ {0}
  PROVE /\ ~(t \in Nums(out.jobs) /\ t \in Nums(EventJobs(results)))
        /\ ~(t \in Subs(out.jobs) /\ t \in Subs(EventJobs(results)))
        /\ ~(t \in out.sides /\ t \in EventSides(results))
        /\ ~(t \in SideIds(sidecar) /\ t \in EventSides(results))
<1>1. JobHeld(t) <= 1 /\ SideHeld(t) <= 1 /\ SideLoose(t) <= 1 BY Zenon, TokensOf
<1>2. \A S : In(t, S) \in {0, 1} /\ (t \in S => In(t, S) = 1) BY DEF In
<1>3. \A Q, H, O, F, M, R : Held(Q, H, O, F, M, R, t) <= 1 => ~(t \in O /\ t \in R)
  <2> TAKE Q, H, O, F, M, R
  <2>1. /\ In(t, Q) \in {0, 1} /\ In(t, H) \in {0, 1} /\ In(t, O) \in {0, 1} /\ In(t, F) \in {0, 1}
        /\ In(t, M) \in {0, 1} /\ In(t, R) \in {0, 1}
    BY Zenon, <1>2
  <2>2. t \in O /\ t \in R => In(t, O) = 1 /\ In(t, R) = 1 BY Zenon, <1>2
  <2>3. Held(Q, H, O, F, M, R, t) = In(t, Q) + In(t, H) + In(t, O) + In(t, F) + In(t, M) + In(t, R)
    BY Zenon DEF Held
  <2> QED BY <2>1, <2>2, <2>3
<1>4. \A X, O, M, R : Loose(X, O, M, R, t) <= 1 => ~(t \in O /\ t \in R) /\ ~(t \in X /\ t \in R)
  <2> TAKE X, O, M, R
  <2>1. /\ In(t, X) \in {0, 1} /\ In(t, O) \in {0, 1} /\ In(t, M) \in {0, 1} /\ In(t, R) \in {0, 1}
    BY Zenon, <1>2
  <2>2. t \in R => In(t, R) = 1 BY Zenon, <1>2
  <2>3. (t \in O => In(t, O) = 1) /\ (t \in X => In(t, X) = 1) BY Zenon, <1>2
  <2>4. Loose(X, O, M, R, t) = In(t, X) + In(t, O) + In(t, M) + In(t, R) BY Zenon DEF Loose
  <2> QED BY <2>1, <2>2, <2>3, <2>4
<1>5. ~(t \in Nums(out.jobs) /\ t \in Nums(EventJobs(results))) BY Zenon, <1>1, <1>3 DEF JobHeld
<1>6. ~(t \in Subs(out.jobs) /\ t \in Subs(EventJobs(results))) BY Zenon, <1>1, <1>3 DEF SideHeld
<1>7. /\ ~(t \in out.sides /\ t \in EventSides(results))
      /\ ~(t \in SideIds(sidecar) /\ t \in EventSides(results))
  BY Zenon, <1>1, <1>4 DEF SideLoose
<1> QED BY Zenon, <1>5, <1>6, <1>7

\* No commit and no sidecar is published twice.
LEMMA OnceStep ==
  ASSUME "notify" \notin Faults, TypeOK, JobTokens, SideTokens, OnceTokens, Next PROVE OnceTokens'
<1> SUFFICES ASSUME NEW t \in Nat \ {0} PROVE OnceIn(results', t, t) BY Zenon DEF OnceTokens
<1>0. OnceIn(results, t, t) BY Zenon DEF OnceTokens
<1>1. CASE results' = results BY Zenon, <1>0, <1>1
<1>2. CASE results' = <<>>
  <2>1. DOMAIN results' = {} BY <1>2
  <2> QED BY Zenon, <2>1 DEF OnceIn
<1>3. CASE \E e \in EventType : Publishes(e)
  <2>1. PICK e \in EventType : Publishes(e) BY Zenon, <1>3
  <2>2. results \in Seq(EventType) /\ results' = Append(results, e)
    BY Zenon, <2>1 DEF TypeOK, ResultType, Publishes
  <2>3. /\ DOMAIN results' = DOMAIN results \cup {Len(results) + 1} /\ results'[Len(results) + 1] = e
        /\ \A i \in DOMAIN results : results'[i] = results[i]
    BY <2>2
  <2>4. t \in Nums(e.jobs) => \A i \in DOMAIN results : ~(t \in Nums(results[i].jobs))
    <3>1. t \in Nums(e.jobs) => t \in Nums(out.jobs) BY Zenon, <2>1 DEF Publishes, Nums
    <3> QED BY Zenon, <3>1, Exclusive, InReported
  <2>5. t \in Subs(e.jobs) => \A i \in DOMAIN results : ~(t \in Subs(results[i].jobs))
    <3>1. t \in Subs(e.jobs) => t \in Subs(out.jobs) BY Zenon, <2>1 DEF Publishes, Subs
    <3> QED BY Zenon, <3>1, Exclusive, InReported
  <2>6. t \in e.sides => \A i \in DOMAIN results : ~(t \in results[i].sides)
    <3>1. t \in e.sides => t \in out.sides \/ t \in SideIds(sidecar) BY Zenon, <2>1 DEF Publishes
    <3> QED BY Zenon, <3>1, Exclusive, InReported
  <2>7. ASSUME NEW i \in DOMAIN results', NEW k \in DOMAIN results', i # k
        PROVE /\ ~(t \in Nums(results'[i].jobs) /\ t \in Nums(results'[k].jobs))
              /\ ~(t \in Subs(results'[i].jobs) /\ t \in Subs(results'[k].jobs))
              /\ ~(t \in results'[i].sides /\ t \in results'[k].sides)
    <3>1. CASE i \in DOMAIN results /\ k \in DOMAIN results
      BY Zenon, <1>0, <2>3, <2>7, <3>1 DEF OnceIn
    <3>2. CASE i = Len(results) + 1 /\ k \in DOMAIN results BY Zenon, <2>3, <2>4, <2>5, <2>6, <3>2
    <3>3. CASE i \in DOMAIN results /\ k = Len(results) + 1 BY Zenon, <2>3, <2>4, <2>5, <2>6, <3>3
    <3> QED BY Zenon, <2>3, <2>7, <3>1, <3>2, <3>3
  <2> QED BY Zenon, <2>7 DEF OnceIn
<1> QED BY Zenon, <1>1, <1>2, <1>3, ResultMoves

\* Every commit and every sidecar keeps its one place.
LEMMA TokenStep ==
  ASSUME "notify" \notin Faults, TypeOK, SubmissionInv, SlotInv, HandoverInv, TokenInv, Next
  PROVE TokenInv'
<1>0. JobTokens /\ SideTokens /\ OnceTokens /\ CurInv /\ HandInv
  BY Zenon DEF TokenInv, HandoverInv, SubmissionInv
<1>1. ASSUME NEW t \in Nat \ {0}
      PROVE /\ JobHeld(t)' = (IF t <= jobCount' THEN 1 ELSE 0)
            /\ SideHeld(t)' + SideLoose(t)' = (IF t <= sideCount' THEN 1 ELSE 0)
  <2>0. /\ JobHeld(t) = (IF t <= jobCount THEN 1 ELSE 0)
        /\ SideHeld(t) + SideLoose(t) = (IF t <= sideCount THEN 1 ELSE 0)
        /\ JobHeld(t) <= 1 /\ SideHeld(t) <= 1 /\ SideLoose(t) <= 1
    BY Zenon, <1>0, TokensOf
  <2>1. CASE Moves
    <3>1. JobHeld(t)' = JobHeld(t) /\ SideHeld(t)' = SideHeld(t) /\ SideLoose(t)' = SideLoose(t)
      BY Zenon, <2>0, <2>1, MovesKeep
    <3>2. jobCount' = jobCount /\ sideCount' = sideCount BY Zenon, <2>1 DEF Moves
    <3> QED BY Zenon, <2>0, <3>1, <3>2
  <2>2. CASE Joins
    <3>1. JobHeld(t)' = JobHeld(t) /\ SideHeld(t)' + SideLoose(t)' = SideHeld(t) + SideLoose(t)
      BY Zenon, <1>0, <2>2, JoinsKeep
    <3>2. jobCount' = jobCount /\ sideCount' = sideCount BY Zenon, <2>2 DEF Joins
    <3> QED BY Zenon, <2>0, <3>1, <3>2
  <2>3. CASE Enqueue
    <3>1. /\ JobHeld(t)' = (IF t <= jobCount' THEN 1 ELSE 0)
          /\ SideHeld(t)' = SideHeld(t) /\ SideLoose(t)' = SideLoose(t) /\ sideCount' = sideCount
      BY Zenon, <1>0, <2>3, EnqueueCounts
    <3> QED BY Zenon, <2>0, <3>1
  <2>4. CASE OfferSidecar
    <3>1. /\ JobHeld(t)' = JobHeld(t) /\ jobCount' = jobCount
          /\ SideHeld(t)' + SideLoose(t)' = (IF t <= sideCount' THEN 1 ELSE 0)
      BY Zenon, <1>0, <2>4, OfferCounts
    <3> QED BY Zenon, <2>0, <3>1
  <2> QED BY Zenon, <2>1, <2>2, <2>3, <2>4, NextMoves
<1>2. JobTokens' /\ SideTokens' BY Zenon, <1>1 DEF JobTokens, SideTokens
<1>3. OnceTokens' BY Zenon, <1>0, OnceStep
<1> QED BY Zenon, <1>2, <1>3 DEF TokenInv

\* Nothing is anywhere at the start.
LEMMA TokenInit == Init => HandoverInv /\ TokenInv
<1> SUFFICES ASSUME Init PROVE HandoverInv /\ TokenInv OBVIOUS
<1>1. /\ queued = <<>> /\ job = NoJob /\ out = NoEvent /\ fatalJobs = {} /\ mainJobs = {}
      /\ results = <<>> /\ sidecar = NoSidecar /\ mainSides = {} /\ jobCount = 0 /\ sideCount = 0
      /\ pc = "take" /\ ret = NoReturn
  BY Zenon DEF Init
<1>2. DOMAIN <<>> = {} OBVIOUS
<1>3. NoReturn.ok \notin {"deadline", "collect"} /\ "take" \notin {"deadline", "collect"} BY DEF NoReturn
<1>4. HandoverInv BY Zenon, <1>1, <1>2, <1>3 DEF HandoverInv, OutInv, FreeInv, CurInv
<1>5. /\ Bundles(queued) = {} /\ HandJobs = {} /\ out.jobs = {} /\ EventJobs(results) = {}
      /\ SideIds(sidecar) = {} /\ out.sides = {} /\ EventSides(results) = {}
  BY Zenon, <1>1, EmptyPlaces DEF HandJobs
<1>6. Nums({}) = {} /\ Subs({}) = {} BY Zenon, NumsUnion
<1>7. \A t : Held({}, {}, {}, {}, {}, {}, t) = 0 /\ Loose({}, {}, {}, {}, t) = 0 BY DEF Held, Loose, In
<1>8. \A t : JobHeld(t) = 0 /\ SideHeld(t) = 0 /\ SideLoose(t) = 0
  BY Zenon, <1>1, <1>5, <1>6, <1>7 DEF JobHeld, SideHeld, SideLoose
<1>9. \A t \in Nat \ {0} : ~(t <= 0) OBVIOUS
<1>10. 0 + 0 = 0 OBVIOUS
<1>11. JobTokens /\ SideTokens BY Zenon, <1>1, <1>8, <1>9, <1>10 DEF JobTokens, SideTokens
<1>12. OnceTokens BY Zenon, <1>1, <1>2 DEF OnceTokens, OnceIn
<1> QED BY Zenon, <1>4, <1>11, <1>12 DEF TokenInv

\* What the places of a bundle are: five single ones and a row of events.
LEMMA PlacesAre ==
  ASSUME TypeOK
  PROVE /\ Places \in Seq(SUBSET BundleType) /\ Len(Places) = 5 + Len(results)
        /\ Len(results) \in Nat /\ DOMAIN results = 1..Len(results)
        /\ DOMAIN Places = 1..(5 + Len(results))
        /\ Places[1] = Bundles(queued) /\ Places[2] = HandJobs /\ Places[3] = out.jobs
        /\ Places[4] = fatalJobs /\ Places[5] = mainJobs
        /\ \A i \in 1..Len(results) : Places[5 + i] = results[i].jobs
<1> DEFINE S == SUBSET BundleType
           a == Bundles(queued)
           b == HandJobs
           c == out.jobs
           d == fatalJobs
           e == mainJobs
           ev == results
           row == [i \in DOMAIN ev |-> ev[i].jobs]
           five == <<a, b, c, d, e>>
<1>1. a \in S
  <2>1. queued \in Seq(JobType) BY Zenon DEF TypeOK, StateType
  <2> QED BY Zenon, <2>1, BundlesTyped
<1>2. b \in S
  <2>1. job \in JobType BY Zenon DEF TypeOK, ThreadType
  <2>2. Bundle(job) \in BundleType BY <2>1 DEF Bundle, BundleType, JobType
  <2> QED BY Zenon, <2>2 DEF HandJobs
<1>3. c \in S
  <2>1. out \in EventType BY Zenon DEF TypeOK, ThreadType
  <2> QED BY <2>1 DEF EventType
<1>4. d \in S /\ e \in S BY Zenon DEF TypeOK, ResultType, ClientType
<1>5. ev \in Seq(EventType) BY Zenon DEF TypeOK, ResultType
<1>6. \A v \in EventType : v.jobs \in S BY DEF EventType
<1>7. Places = five \o row BY Zenon DEF Places, HandJobs
<1> HIDE DEF S, a, b, c, d, e, ev
<1>8. five \in Seq(S) /\ Len(five) = 5 BY <1>1, <1>2, <1>3, <1>4
<1>9. five[1] = a /\ five[2] = b /\ five[3] = c /\ five[4] = d /\ five[5] = e OBVIOUS
<1>10. Len(ev) \in Nat /\ DOMAIN ev = 1..Len(ev) BY <1>5
<1>11. \A i \in DOMAIN ev : ev[i] \in EventType BY <1>5
<1>12. row \in Seq(S) /\ Len(row) = Len(ev)
  <2>1. row \in [1..Len(ev) -> S] BY Zenon, <1>6, <1>10, <1>11
  <2> QED BY <1>10, <2>1
<1>13. \A i \in 1..Len(ev) : row[i] = ev[i].jobs BY Zenon, <1>10
<1> HIDE DEF five, row
<1>14. /\ five \o row \in Seq(S) /\ Len(five \o row) = 5 + Len(ev)
       /\ DOMAIN (five \o row) = 1..(5 + Len(ev))
       /\ \A i \in 1..5 : (five \o row)[i] = five[i]
       /\ \A i \in 1..Len(ev) : (five \o row)[5 + i] = row[i]
  <2>1. /\ five \o row \in Seq(S) /\ Len(five \o row) = Len(five) + Len(row)
        /\ DOMAIN (five \o row) = 1..(Len(five) + Len(row))
        /\ \A i \in 1..Len(five) : (five \o row)[i] = five[i]
        /\ \A i \in 1..Len(row) : (five \o row)[Len(five) + i] = row[i]
    <3>1. Chained(S, five, row, five \o row) BY Zenon, <1>8, <1>12, Concatenated
    <3> QED BY Zenon, <3>1 DEF Chained
  <2> QED BY Zenon, <1>8, <1>12, <2>1
<1>16. 1 \in 1..5 /\ 2 \in 1..5 /\ 3 \in 1..5 /\ 4 \in 1..5 /\ 5 \in 1..5 OBVIOUS
<1>17. /\ Places[1] = a /\ Places[2] = b /\ Places[3] = c /\ Places[4] = d /\ Places[5] = e
       /\ \A i \in 1..Len(ev) : Places[5 + i] = ev[i].jobs
  BY Zenon, <1>7, <1>9, <1>13, <1>14, <1>16
<1>18. Places \in Seq(S) /\ Len(Places) = 5 + Len(ev) /\ DOMAIN Places = 1..(5 + Len(ev))
  BY Zenon, <1>7, <1>14
<1> QED BY Zenon, <1>10, <1>17, <1>18 DEF S, a, b, c, d, e, ev

\* The places of an unattached sidecar: three single ones and the row of events.
LooseAt == <<SideIds(sidecar), out.sides, mainSides>> \o [i \in DOMAIN results |-> results[i].sides]

\* Where each place of an unattached sidecar stands in the sequence of places.
LEMMA LooseAre ==
  ASSUME TypeOK
  PROVE /\ LooseAt \in Seq(SUBSET Nat) /\ Len(LooseAt) = 3 + Len(results)
        /\ DOMAIN LooseAt = 1..(3 + Len(results))
        /\ LooseAt[1] = SideIds(sidecar) /\ LooseAt[2] = out.sides /\ LooseAt[3] = mainSides
        /\ \A i \in 1..Len(results) : LooseAt[3 + i] = results[i].sides
<1> DEFINE S == SUBSET Nat
           a == SideIds(sidecar)
           b == out.sides
           c == mainSides
           ev == results
           row == [i \in DOMAIN ev |-> ev[i].sides]
           three == <<a, b, c>>
<1>1. a \in S
  <2>1. sidecar \in SidecarType BY Zenon DEF TypeOK, StateType
  <2> QED BY Zenon, <2>1, SideIdsTyped
<1>2. b \in S
  <2>1. out \in EventType BY Zenon DEF TypeOK, ThreadType
  <2> QED BY <2>1 DEF EventType
<1>3. c \in S BY Zenon DEF TypeOK, ClientType
<1>4. ev \in Seq(EventType) BY Zenon DEF TypeOK, ResultType
<1>5. \A v \in EventType : v.sides \in S BY DEF EventType
<1>6. LooseAt = three \o row BY Zenon DEF LooseAt
<1> HIDE DEF S, a, b, c, ev
<1>7. three \in Seq(S) /\ Len(three) = 3 BY <1>1, <1>2, <1>3
<1>8. three[1] = a /\ three[2] = b /\ three[3] = c OBVIOUS
<1>9. Len(ev) \in Nat /\ DOMAIN ev = 1..Len(ev) BY <1>4
<1>10. \A i \in DOMAIN ev : ev[i] \in EventType BY <1>4
<1>11. row \in Seq(S) /\ Len(row) = Len(ev)
  <2>1. row \in [1..Len(ev) -> S] BY ZenonT(60), <1>5, <1>9, <1>10
  <2> QED BY <1>9, <2>1
<1>12. \A i \in 1..Len(ev) : row[i] = ev[i].sides BY Zenon, <1>9
<1> HIDE DEF three, row
<1>13. /\ three \o row \in Seq(S) /\ Len(three \o row) = 3 + Len(ev)
       /\ DOMAIN (three \o row) = 1..(3 + Len(ev))
       /\ \A i \in 1..3 : (three \o row)[i] = three[i]
       /\ \A i \in 1..Len(ev) : (three \o row)[3 + i] = row[i]
  <2>1. /\ three \o row \in Seq(S) /\ Len(three \o row) = Len(three) + Len(row)
        /\ DOMAIN (three \o row) = 1..(Len(three) + Len(row))
        /\ \A i \in 1..Len(three) : (three \o row)[i] = three[i]
        /\ \A i \in 1..Len(row) : (three \o row)[Len(three) + i] = row[i]
    <3>1. Chained(S, three, row, three \o row) BY Zenon, <1>7, <1>11, Concatenated
    <3> QED BY Zenon, <3>1 DEF Chained
  <2> QED BY Zenon, <1>7, <1>11, <2>1
<1>15. 1 \in 1..3 /\ 2 \in 1..3 /\ 3 \in 1..3 OBVIOUS
<1>16. /\ LooseAt[1] = a /\ LooseAt[2] = b /\ LooseAt[3] = c
       /\ \A i \in 1..Len(ev) : LooseAt[3 + i] = ev[i].sides
  BY Zenon, <1>6, <1>8, <1>12, <1>13, <1>15
<1>17. LooseAt \in Seq(S) /\ Len(LooseAt) = 3 + Len(ev) /\ DOMAIN LooseAt = 1..(3 + Len(ev))
  BY Zenon, <1>6, <1>13
<1> QED BY Zenon, <1>16, <1>17 DEF S, a, b, c, ev

\* The places of a commit, of the commit a sidecar is attached to, and of a
\* sidecar that is not.
JobPlaces(n) == {k \in DOMAIN Places : n \in Nums(Places[k])}
SidePlaces(s) == {k \in DOMAIN Places : s \in Subs(Places[k])}
LoosePlaces(s) == {k \in DOMAIN LooseAt : s \in LooseAt[k]}

\* They are one when the counters say so, and none when these say so.
LEMMA PlacesCounted ==
  ASSUME TypeOK, OnceTokens, NEW t \in Nat \ {0}
  PROVE /\ Counted(JobPlaces(t), JobHeld(t)) /\ Counted(SidePlaces(t), SideHeld(t))
        /\ Counted(LoosePlaces(t), SideLoose(t))
<1> DEFINE len == Len(results)
<1>1. len \in Nat /\ DOMAIN results = 1..len /\ DOMAIN Places = 1..(5 + len) /\ DOMAIN LooseAt = 1..(3 + len)
  BY Zenon, PlacesAre, LooseAre
<1>2. /\ Places[1] = Bundles(queued) /\ Places[2] = HandJobs /\ Places[3] = out.jobs
      /\ Places[4] = fatalJobs /\ Places[5] = mainJobs
      /\ \A i \in 1..len : Places[5 + i] = results[i].jobs
  BY Zenon, PlacesAre
<1>3. /\ LooseAt[1] = SideIds(sidecar) /\ LooseAt[2] = out.sides /\ LooseAt[3] = mainSides
      /\ \A i \in 1..len : LooseAt[3 + i] = results[i].sides
  BY Zenon, LooseAre
<1>4. OnceIn(results, t, t) BY Zenon DEF OnceTokens
<1> HIDE DEF len
<1>5. /\ {1, 2, 3, 4, 5} \subseteq 1..(5 + len) /\ {1, 2, 3} \subseteq 1..(3 + len)
      /\ \A i \in 1..len : (5 + i) \in 1..(5 + len) /\ (3 + i) \in 1..(3 + len)
  BY <1>1
<1>6. HeldAt(len, JobPlaces(t), Nums(Bundles(queued)), Nums(HandJobs), Nums(out.jobs), Nums(fatalJobs),
             Nums(mainJobs), Nums(EventJobs(results)), t)
  <2> DEFINE D == JobPlaces(t)
  <2>1. D \in SUBSET (1..(5 + len)) /\ \A k \in 1..(5 + len) : k \in D <=> t \in Nums(Places[k])
    BY Zenon, <1>1 DEF JobPlaces
  <2> HIDE DEF D
  <2>2. /\ 1 \in D <=> t \in Nums(Bundles(queued))
        /\ 2 \in D <=> t \in Nums(HandJobs)
        /\ 3 \in D <=> t \in Nums(out.jobs)
        /\ 4 \in D <=> t \in Nums(fatalJobs)
        /\ 5 \in D <=> t \in Nums(mainJobs)
    BY Zenon, <1>2, <1>5, <2>1
  <2>3. \A i \in 1..len : (5 + i) \in D <=> t \in Nums(results[i].jobs) BY Zenon, <1>2, <1>5, <2>1
  <2>4. t \in Nums(EventJobs(results)) <=> \E i \in 1..len : (5 + i) \in D BY Zenon, <1>1, <2>3, InReported
  <2>5. \A i, k \in 1..len : (5 + i) \in D /\ (5 + k) \in D => i = k BY Zenon, <1>1, <1>4, <2>3 DEF OnceIn
  <2> QED BY Zenon, <2>1, <2>2, <2>4, <2>5 DEF HeldAt, D
<1>7. HeldAt(len, SidePlaces(t), Subs(Bundles(queued)), Subs(HandJobs), Subs(out.jobs), Subs(fatalJobs),
             Subs(mainJobs), Subs(EventJobs(results)), t)
  <2> DEFINE D == SidePlaces(t)
  <2>1. D \in SUBSET (1..(5 + len)) /\ \A k \in 1..(5 + len) : k \in D <=> t \in Subs(Places[k])
    BY Zenon, <1>1 DEF SidePlaces
  <2> HIDE DEF D
  <2>2. /\ 1 \in D <=> t \in Subs(Bundles(queued))
        /\ 2 \in D <=> t \in Subs(HandJobs)
        /\ 3 \in D <=> t \in Subs(out.jobs)
        /\ 4 \in D <=> t \in Subs(fatalJobs)
        /\ 5 \in D <=> t \in Subs(mainJobs)
    BY Zenon, <1>2, <1>5, <2>1
  <2>3. \A i \in 1..len : (5 + i) \in D <=> t \in Subs(results[i].jobs) BY Zenon, <1>2, <1>5, <2>1
  <2>4. t \in Subs(EventJobs(results)) <=> \E i \in 1..len : (5 + i) \in D BY Zenon, <1>1, <2>3, InReported
  <2>5. \A i, k \in 1..len : (5 + i) \in D /\ (5 + k) \in D => i = k BY Zenon, <1>1, <1>4, <2>3 DEF OnceIn
  <2> QED BY Zenon, <2>1, <2>2, <2>4, <2>5 DEF HeldAt, D
<1>8. LooseIn(len, LoosePlaces(t), SideIds(sidecar), out.sides, mainSides, EventSides(results), t)
  <2> DEFINE D == LoosePlaces(t)
  <2>1. D \in SUBSET (1..(3 + len)) /\ \A k \in 1..(3 + len) : k \in D <=> t \in LooseAt[k]
    BY Zenon, <1>1 DEF LoosePlaces
  <2> HIDE DEF D
  <2>2. /\ 1 \in D <=> t \in SideIds(sidecar)
        /\ 2 \in D <=> t \in out.sides
        /\ 3 \in D <=> t \in mainSides
    BY Zenon, <1>3, <1>5, <2>1
  <2>3. \A i \in 1..len : (3 + i) \in D <=> t \in results[i].sides BY Zenon, <1>3, <1>5, <2>1
  <2>4. t \in EventSides(results) <=> \E i \in 1..len : (3 + i) \in D BY Zenon, <1>1, <2>3, InReported
  <2>5. \A i, k \in 1..len : (3 + i) \in D /\ (3 + k) \in D => i = k BY Zenon, <1>1, <1>4, <2>3 DEF OnceIn
  <2> QED BY Zenon, <2>1, <2>2, <2>4, <2>5 DEF LooseIn, D
<1>9. Counted(JobPlaces(t), JobHeld(t)) BY Zenon, <1>1, <1>6, HeldSpread DEF JobHeld
<1>10. Counted(SidePlaces(t), SideHeld(t)) BY Zenon, <1>1, <1>7, HeldSpread DEF SideHeld
<1>11. Counted(LoosePlaces(t), SideLoose(t)) BY Zenon, <1>1, <1>8, LooseSpread DEF SideLoose
<1> QED BY Zenon, <1>9, <1>10, <1>11

\* The counters say that every accepted commit has one place, ...
LEMMA JobsConserved == ASSUME TypeOK, TokenInv PROVE JobConserved
<1> SUFFICES ASSUME NEW n \in 1..jobCount
             PROVE Cardinality({k \in DOMAIN Places : \E b \in Places[k] : b.n = n}) = 1
  BY Zenon DEF JobConserved
<1>1. n \in Nat \ {0} /\ n <= jobCount
  <2>1. jobCount \in Nat BY Zenon DEF TypeOK, ClientType
  <2> QED BY <2>1
<1>2. JobHeld(n) = 1 BY Zenon, <1>1 DEF TokenInv, JobTokens
<1>3. \E p : JobPlaces(n) = {p} BY Zenon, <1>1, <1>2, PlacesCounted DEF TokenInv, Counted
<1>4. {k \in DOMAIN Places : \E b \in Places[k] : b.n = n} = JobPlaces(n) BY Zenon DEF JobPlaces, Nums
<1> QED BY Zenon, <1>3, <1>4, Singleton

\* ... and every accepted sidecar.
LEMMA SidecarsConserved == ASSUME TypeOK, TokenInv PROVE SidecarConserved
<1> DEFINE attached == [k \in DOMAIN Places |-> {b.s : b \in Places[k]}]
           places == attached \o LooseAt
           n1 == Len(Places)
           n2 == Len(LooseAt)
<1> SUFFICES ASSUME NEW s \in 1..sideCount
             PROVE Cardinality({k \in DOMAIN places : s \in places[k]}) = 1
  BY Zenon DEF SidecarConserved, LooseAt
<1>1. s \in Nat \ {0} /\ s <= sideCount
  <2>1. sideCount \in Nat BY Zenon DEF TypeOK, ClientType
  <2> QED BY <2>1
<1>2. SideHeld(s) + SideLoose(s) = 1 BY Zenon, <1>1 DEF TokenInv, SideTokens
<1>3. (SideHeld(s) = 1 /\ SideLoose(s) = 0) \/ (SideHeld(s) = 0 /\ SideLoose(s) = 1)
  <2>1. SideHeld(s) \in Nat /\ SideLoose(s) \in Nat BY Zenon, <1>1, HeldNat
  <2> QED BY <1>2, <2>1
<1>4. \/ (\E p : SidePlaces(s) = {p}) /\ LoosePlaces(s) = {}
      \/ SidePlaces(s) = {} /\ \E p : LoosePlaces(s) = {p}
  BY Zenon, <1>1, <1>3, PlacesCounted DEF TokenInv, Counted
<1>5. /\ Places \in Seq(SUBSET BundleType) /\ n1 \in Nat /\ DOMAIN Places = 1..n1
      /\ LooseAt \in Seq(SUBSET Nat) /\ n2 \in Nat /\ DOMAIN LooseAt = 1..n2
  <2>1. Places \in Seq(SUBSET BundleType) /\ LooseAt \in Seq(SUBSET Nat) BY Zenon, PlacesAre, LooseAre
  <2> QED BY <2>1
<1>6. attached \in Seq(SUBSET Nat) /\ Len(attached) = n1
  <2>1. \A k \in DOMAIN Places : Places[k] \in SUBSET BundleType BY <1>5
  <2>2. \A b \in BundleType : b.s \in Nat BY DEF BundleType
  <2>3. attached \in [1..n1 -> SUBSET Nat] BY Zenon, <1>5, <2>1, <2>2
  <2> HIDE DEF attached, n1
  <2> QED BY <1>5, <2>3
<1>7. \A k \in 1..n1 : attached[k] = Subs(Places[k]) BY Zenon, <1>5 DEF Subs
<1> HIDE DEF attached
<1>8. Chained(SUBSET Nat, attached, LooseAt, places) BY Zenon, <1>5, <1>6, Concatenated
<1> HIDE DEF places
<1>9. /\ DOMAIN places = 1..(n1 + n2)
      /\ \A k \in 1..n1 : places[k] = attached[k]
      /\ \A i \in 1..n2 : places[n1 + i] = LooseAt[i]
  BY Zenon, <1>6, <1>8 DEF Chained
<1> HIDE DEF n1, n2
<1>10. /\ \A k \in 1..(n1 + n2) : k \in 1..n1 \/ \E i \in 1..n2 : k = n1 + i
       /\ \A k \in 1..n1 : k \in 1..(n1 + n2)
       /\ \A i \in 1..n2 : (n1 + i) \in 1..(n1 + n2)
  <2>1. \A k \in 1..(n1 + n2) : k \notin 1..n1 => k - n1 \in 1..n2 /\ k = n1 + (k - n1) BY <1>5
  <2>2. /\ \A k \in 1..n1 : k \in 1..(n1 + n2)
        /\ \A i \in 1..n2 : (n1 + i) \in 1..(n1 + n2)
    BY <1>5
  <2> QED BY Zenon, <2>1, <2>2
<1>11. /\ \A k \in 1..n1 : s \in places[k] <=> k \in SidePlaces(s)
       /\ \A i \in 1..n2 : s \in places[n1 + i] <=> i \in LoosePlaces(s)
       /\ SidePlaces(s) \subseteq 1..n1 /\ LoosePlaces(s) \subseteq 1..n2
  BY Zenon, <1>5, <1>7, <1>9 DEF SidePlaces, LoosePlaces
<1>12. \E p : {k \in DOMAIN places : s \in places[k]} = {p}
  <2>1. ASSUME NEW p, SidePlaces(s) = {p}, LoosePlaces(s) = {}
        PROVE {k \in DOMAIN places : s \in places[k]} = {p}
    BY Zenon, <1>9, <1>10, <1>11, <2>1
  <2>2. ASSUME NEW p, SidePlaces(s) = {}, LoosePlaces(s) = {p}
        PROVE {k \in DOMAIN places : s \in places[k]} = {n1 + p}
    <3>1. p \in 1..n2 /\ p \in LoosePlaces(s) BY Zenon, <1>11, <2>2
    <3>2. (n1 + p) \in DOMAIN places /\ s \in places[n1 + p] BY Zenon, <1>9, <1>10, <1>11, <3>1
    <3>3. ASSUME NEW k \in DOMAIN places, s \in places[k] PROVE k = n1 + p
      <4>1. k \notin 1..n1 BY Zenon, <1>11, <2>2, <3>3
      <4>2. PICK i \in 1..n2 : k = n1 + i BY Zenon, <1>9, <1>10, <4>1
      <4>3. i \in LoosePlaces(s) BY Zenon, <1>11, <3>3, <4>2
      <4> QED BY Zenon, <2>2, <4>2, <4>3
    <3> QED BY Zenon, <3>2, <3>3
  <2> QED BY Zenon, <1>4, <2>1, <2>2
<1> QED BY Zenon, <1>12, Singleton

\* No path of the worker, of a quiesce, of a failed commit, of a shutdown or of
\* the join loses a commit or a cursor sidecar that was accepted, or returns one
\* twice, unless notify_main fails: with that fault it can (README, Findings).
THEOREM OwnershipKept == ASSUME "notify" \notin Faults PROVE Spec => []OwnershipConserved
<1>1. Init => HandoverInv /\ TokenInv BY Zenon, TokenInit
<1>2. WorkerInv /\ HandoverInv /\ TokenInv /\ [Next]_vars => (HandoverInv /\ TokenInv)'
  <2> SUFFICES ASSUME WorkerInv, HandoverInv, TokenInv, [Next]_vars PROVE HandoverInv' /\ TokenInv'
    BY Zenon
  <2>0. TypeOK /\ SubmissionInv /\ SlotInv /\ GuardInv BY Zenon DEF WorkerInv, AdmissionInv
  <2>1. CASE Next
    <3>1. OutInv' BY Zenon, <2>1, OutStep DEF HandoverInv
    <3>2. FreeInv' BY Zenon, <2>1, FreeStep DEF HandoverInv
    <3>3. CurInv' BY Zenon, <2>0, <2>1, CurStep DEF HandoverInv
    <3>4. TokenInv' BY Zenon, <2>0, <2>1, TokenStep
    <3> QED BY Zenon, <3>1, <3>2, <3>3, <3>4 DEF HandoverInv
  <2>2. CASE UNCHANGED vars
    <3>1. UNCHANGED <<queued, job, out, fatalJobs, mainJobs, results, sidecar, mainSides, jobCount, sideCount,
                      pc, ret>>
      BY Zenon, <2>2 DEF vars, state, thread, client, device
    <3>2. HandoverInv' BY Zenon, <3>1 DEF HandoverInv, OutInv, FreeInv, CurInv
    <3>3. JobTokens' BY Zenon, <3>1 DEF TokenInv, JobTokens, JobHeld, HandJobs
    <3>4. SideTokens' BY Zenon, <3>1 DEF TokenInv, SideTokens, SideHeld, SideLoose, HandJobs
    <3>5. OnceTokens' BY Zenon, <3>1 DEF TokenInv, OnceTokens
    <3> QED BY Zenon, <3>2, <3>3, <3>4, <3>5 DEF TokenInv
  <2> QED BY Zenon, <2>1, <2>2
<1>3. WorkerInv /\ TokenInv => OwnershipConserved
  BY Zenon, JobsConserved, SidecarsConserved DEF WorkerInv, OwnershipConserved
<1> QED BY <1>1, <1>2, <1>3, WorkerInvariant, PTL DEF Spec
=============================================================================
