--------------------------- MODULE DispatchProofs ---------------------------
(***************************************************************************)
(* The two dispatchers: the ready queues of Scheduler, for any number of   *)
(* processes, and the job table of Jes, for tables, pools and sets of      *)
(* priorities of any size and any number of submissions. The two modules   *)
(* share no name; each half of this one is about its own.                  *)
(***************************************************************************)
EXTENDS Scheduler, Jes, FiniteSetTheorems, WellFoundedInduction,
        NaturalsInduction, TLAPS

N == Cardinality(Procs)

Links == [Procs -> Procs \cup {NULL}]

LEMMA Size == N \in Nat /\ IsFiniteSet(Procs) /\ NULL \notin Procs /\ idle_process \in Procs
BY SchedulerAssumption, FS_CardinalityType DEF N

\* A non-empty set of numbers has a least one: the form in which induction is used here.
LEMMA Least ==
    ASSUME NEW T, T \subseteq Nat, T # {}
    PROVE  \E s \in T : \A t \in T : s <= t
<1>1. PICK s \in T : \A t \in T : ~ (<<t, s>> \in OpToRel(<, Nat))
  BY NatLessThanWellFounded, WFMin
<1>2. \A t \in T : ~ (t < s)
  BY <1>1 DEF OpToRel
<1> QED
  BY <1>2

\* f walks from h along nx for n steps.
Walks(f, n, nx, h) ==
    /\ f \in [0 .. n -> Procs \cup {NULL}]
    /\ f[0] = h
    /\ \A k \in 1 .. n : f[k] = IF f[k - 1] = NULL THEN NULL ELSE nx[f[k - 1]]

LEMMA WalkExists ==
    ASSUME NEW nx \in Links, NEW h \in Procs \cup {NULL}, NEW n \in Nat
    PROVE  \E f : Walks(f, n, nx, h)
<1> DEFINE T == {m \in Nat : ~ \E f : Walks(f, m, nx, h)}
<1> SUFFICES ASSUME T # {}
             PROVE  FALSE
  OBVIOUS
<1>1. PICK m \in T : \A t \in T : m <= t
  BY Least
<1>2. CASE m = 0
  <2>1. Walks([k \in 0 .. 0 |-> h], 0, nx, h)
    BY DEF Walks
  <2> QED
    BY <1>2, <2>1
<1>3. CASE m # 0
  <2>1. m - 1 \in Nat /\ m - 1 \notin T
    BY <1>1, <1>3
  <2>2. PICK f : Walks(f, m - 1, nx, h)
    BY <2>1
  <2> DEFINE v == IF f[m - 1] = NULL THEN NULL ELSE nx[f[m - 1]]
             g == [k \in 0 .. m |-> IF k = m THEN v ELSE f[k]]
  <2>3. f[m - 1] \in Procs \cup {NULL} /\ v \in Procs \cup {NULL}
    BY <2>1, <2>2 DEF Walks, Links
  <2> HIDE DEF v
  <2>4. g \in [0 .. m -> Procs \cup {NULL}] /\ g[0] = h
    BY <1>3, <2>1, <2>2, <2>3 DEF Walks
  <2>5. ASSUME NEW k \in 1 .. m
        PROVE  g[k] = IF g[k - 1] = NULL THEN NULL ELSE nx[g[k - 1]]
    <3>1. g[k - 1] = f[k - 1]
      BY <1>1, <2>5
    <3>2. CASE k = m
      BY <3>1, <3>2 DEF v
    <3>3. CASE k # m
      BY <1>1, <2>2, <3>1, <3>3 DEF Walks
    <3> QED
      BY <3>2, <3>3
  <2>6. Walks(g, m, nx, h)
    BY <2>4, <2>5 DEF Walks
  <2> QED
    BY <2>6
<1> QED
  BY <1>2, <1>3

\* The recursive function of the model is such a walk.
LEMMA WalkFacts ==
    ASSUME NEW nx \in Links, NEW h \in Procs \cup {NULL}
    PROVE  Walks(Walk(nx, h), N, nx, h)
<1> DEFINE P(f) == f = [k \in 0 .. Cardinality(Procs) |->
                           IF k = 0 THEN h
                           ELSE IF f[k - 1] = NULL THEN NULL ELSE nx[f[k - 1]]]
<1>1. PICK f : Walks(f, N, nx, h)
  BY WalkExists, Size
<1>2. P(f)
  BY <1>1, Size DEF Walks, N
<1>3. Walk(nx, h) = CHOOSE g : P(g)
  BY DEF Walk
<1> HIDE DEF P
<1>4. P(Walk(nx, h))
  BY <1>2, <1>3
<1> DEFINE w == Walk(nx, h)
<1>5. /\ DOMAIN w = 0 .. N
      /\ \A k \in 0 .. N : w[k] = IF k = 0 THEN h
                                  ELSE IF w[k - 1] = NULL THEN NULL ELSE nx[w[k - 1]]
  BY <1>4 DEF N, P
<1>6. w = [k \in 0 .. N |-> w[k]]
  BY <1>4 DEF N, P
<1> HIDE DEF w
<1>7. \A k \in 0 .. N : w[k] = f[k]
  <2> DEFINE T == {k \in 0 .. N : w[k] # f[k]}
  <2> SUFFICES ASSUME T # {}
               PROVE  FALSE
    OBVIOUS
  <2>0. T \subseteq Nat
    BY Size
  <2>1. PICK k \in T : \A t \in T : k <= t
    BY <2>0, Least
  <2>2. k # 0
    BY <1>1, <1>5, <2>1, Size DEF Walks
  <2>3. k - 1 \in 0 .. N /\ k \in 1 .. N /\ k - 1 \notin T
    BY <2>1, <2>2, Size
  <2>4. w[k - 1] = f[k - 1]
    BY <2>3
  <2> QED
    BY <1>1, <1>5, <2>1, <2>2, <2>3, <2>4 DEF Walks
<1>8. w = f
  BY <1>1, <1>6, <1>7 DEF Walks
<1> QED
  BY <1>1, <1>8 DEF w

-----------------------------------------------------------------------------
(* Rings, without counting: a ring is what its head returns to.            *)

\* Every set that holds the successor of h and leads on from all but h holds h.
Returns(nx, h) ==
    \A S \in SUBSET (Procs \cup {NULL}) :
        nx[h] \in S /\ (\A x \in S \ {h, NULL} : nx[x] \in S) => h \in S

\* The processes of a walk, in terms of Walks.
LEMMA ReachFacts ==
    ASSUME NEW nx \in Links, NEW h \in Procs \cup {NULL}
    PROVE  /\ Reachable(nx, h) = {Walk(nx, h)[k] : k \in 0 .. N} \ {NULL}
           /\ Reachable(nx, h) \subseteq Procs
           /\ h \in Procs => h \in Reachable(nx, h)
<1>1. Walks(Walk(nx, h), N, nx, h)
  BY WalkFacts
<1>2. Reachable(nx, h) = {Walk(nx, h)[k] : k \in 0 .. N} \ {NULL}
  BY <1>1 DEF Reachable, Walks
<1>3. 0 \in 0 .. N
  BY Size
<1> QED
  BY <1>1, <1>2, <1>3, Size DEF Walks

\* A set that the walk never leaves holds all of it.
LEMMA ReachLeast ==
    ASSUME NEW nx \in Links, NEW h \in Procs \cup {NULL}, NEW S, h \in S \cup {NULL},
           \A x \in S : nx[x] \in S \cup {NULL}
    PROVE  Reachable(nx, h) \subseteq S
<1> DEFINE w == Walk(nx, h)
           T == {k \in 0 .. N : w[k] \notin S \cup {NULL}}
<1>1. Walks(w, N, nx, h)
  BY WalkFacts
<1> HIDE DEF w
<1>2. T = {}
  <2> SUFFICES ASSUME T # {}
               PROVE  FALSE
    OBVIOUS
  <2>0. T \subseteq Nat
    BY Size
  <2>1. PICK k \in T : \A t \in T : k <= t
    BY <2>0, Least
  <2>2. k # 0
    BY <1>1, <2>1 DEF Walks
  <2>3. k - 1 \in 0 .. N /\ k \in 1 .. N /\ k - 1 \notin T
    BY <2>1, <2>2, Size
  <2>4. w[k - 1] \in S \cup {NULL}
    BY <2>3
  <2>5. w[k] \in S \cup {NULL}
    BY <1>1, <2>3, <2>4 DEF Walks
  <2> QED
    BY <2>1, <2>5
<1> QED
  BY <1>2, ReachFacts DEF w

\* A walk that comes back to its head meets no end on the way.
LEMMA NoEnd ==
    ASSUME NEW nx \in Links, NEW h \in Procs \cup {NULL}, NEW w, Walks(w, N, nx, h),
           NEW m \in 0 .. N, w[m] # NULL
    PROVE  \A k \in 0 .. m : w[k] # NULL
<1> SUFFICES ASSUME NEW k \in 0 .. m, w[k] = NULL
             PROVE  FALSE
  OBVIOUS
<1> DEFINE T == {j \in k .. m : w[j] # NULL}
<1>1. T \subseteq Nat /\ m \in T
  BY Size
<1>2. PICK j \in T : \A t \in T : j <= t
  BY <1>1, Least
<1>3. j # k
  BY <1>2
<1>4. j - 1 \in k .. m /\ j \in 1 .. N /\ j - 1 \notin T
  BY <1>2, <1>3, Size
<1>5. w[j - 1] = NULL
  BY <1>4
<1> QED
  BY <1>2, <1>4, <1>5 DEF Walks

\* The processes of a ring lead on to each other, and h is returned to.
LEMMA ClosedReturns ==
    ASSUME NEW nx \in Links, NEW h \in Procs, Closed(nx, h)
    PROVE  /\ Returns(nx, h)
           /\ \A x \in Reachable(nx, h) : nx[x] \in Reachable(nx, h)
<1> DEFINE w == Walk(nx, h)
           M == {k \in 1 .. N : w[k] = h}
<1>1. Walks(w, N, nx, h)
  BY WalkFacts
<1>2. M # {} /\ M \subseteq Nat
  BY Size DEF Closed, N
<1>3. PICK m \in M : \A t \in M : m <= t
  BY <1>2, Least
<1>4. Reachable(nx, h) = {w[k] : k \in 0 .. N} \ {NULL}
  BY ReachFacts
<1> HIDE DEF w
<1>5. m \in 1 .. N /\ m \in Nat /\ N \in Nat /\ w[m] = h /\ h # NULL
  BY <1>3, Size
<1>6. \A k \in 0 .. m : w[k] # NULL
  BY <1>1, <1>5, NoEnd, Size
<1>7. ASSUME NEW k \in 1 .. m
      PROVE  k \in 1 .. N /\ k - 1 \in 0 .. m /\ w[k] = nx[w[k - 1]]
  BY <1>1, <1>5, <1>6 DEF Walks
<1>8. Returns(nx, h)
  <2> SUFFICES ASSUME NEW S \in SUBSET (Procs \cup {NULL}), nx[h] \in S,
                      \A x \in S \ {h, NULL} : nx[x] \in S
               PROVE  h \in S
    BY DEF Returns
  <2> DEFINE T == {k \in 1 .. m : w[k] \notin S}
  <2> SUFFICES ASSUME T # {}
               PROVE  FALSE
    BY <1>5
  <2>1. T \subseteq Nat
    OBVIOUS
  <2>2. PICK j \in T : \A t \in T : j <= t
    BY <2>1, Least
  <2>3. j # 1
    BY <1>1, <1>7, <2>2 DEF Walks
  <2>4. j - 1 \in 1 .. m /\ j - 1 \notin T /\ j - 1 < m /\ j \in 1 .. m
    BY <1>5, <2>2, <2>3
  <2>5. w[j - 1] \in S /\ j - 1 \notin M
    BY <1>3, <1>5, <2>4
  <2>6. w[j - 1] # h /\ w[j - 1] # NULL
    <3>1. j - 1 \in 1 .. N /\ j - 1 \in 0 .. m
      BY <1>5, <2>4
    <3> QED
      BY <1>6, <2>5, <3>1
  <2> QED
    BY <1>7, <2>2, <2>4, <2>5, <2>6
<1>9. \A x \in Reachable(nx, h) : nx[x] \in Reachable(nx, h)
  <2> DEFINE R == {w[k] : k \in 0 .. (m - 1)}
  <2>1. R \subseteq Reachable(nx, h)
    <3>1. \A k \in 0 .. (m - 1) : k \in 0 .. N /\ k \in 0 .. m
      BY <1>5
    <3> QED
      BY <1>4, <1>6, <3>1
  <2>2. ASSUME NEW x \in R
        PROVE  nx[x] \in R
    <3>1. PICK k \in 0 .. (m - 1) : x = w[k]
      OBVIOUS
    <3>2. k + 1 \in 1 .. m /\ nx[x] = w[k + 1]
      BY <1>5, <1>7, <3>1
    <3>3. CASE k + 1 = m
      <4>1. 0 \in 0 .. (m - 1) /\ w[0] = h
        BY <1>1, <1>5 DEF Walks
      <4> QED
        BY <1>5, <3>2, <3>3, <4>1
    <3>4. CASE k + 1 # m
      <4>1. k + 1 \in 0 .. (m - 1)
        BY <1>5, <3>2, <3>4
      <4> QED
        BY <3>2, <4>1
    <3> QED
      BY <3>3, <3>4
  <2>3. h \in R
    BY <1>1, <1>5 DEF Walks
  <2> HIDE DEF R
  <2>4. Reachable(nx, h) \subseteq R
    <3>1. h \in R \cup {NULL} /\ \A x \in R : nx[x] \in R \cup {NULL}
      BY <2>2, <2>3
    <3> QED
      BY <3>1, ReachLeast
  <2> QED
    BY <2>1, <2>2, <2>4
<1> QED
  BY <1>8, <1>9

\* A head that is returned to is so within as many steps as there are processes.
LEMMA ReturnsClosed ==
    ASSUME NEW nx \in Links, NEW h \in Procs, Returns(nx, h)
    PROVE  Closed(nx, h)
<1> DEFINE w == Walk(nx, h)
           S == {w[k] : k \in 1 .. N}
<1>1. Walks(w, N, nx, h)
  BY WalkFacts
<1> SUFFICES ASSUME ~ Closed(nx, h)
             PROVE  FALSE
  OBVIOUS
<1>2. \A k \in 1 .. N : w[k] # h
  BY DEF Closed, N
<1> HIDE DEF w
<1>3. N \in Nat /\ 1 \in 1 .. N /\ h # NULL
  <2>1. Procs # {}
    OBVIOUS
  <2>2. N # 0
    BY <2>1, Size, FS_EmptySet DEF N
  <2> QED
    BY <2>2, Size
<1>4. \A k \in 1 .. N : w[k] = IF w[k - 1] = NULL THEN NULL ELSE nx[w[k - 1]]
  BY <1>1 DEF Walks
<1>5. w[0] = h /\ w[1] = nx[h]
  BY <1>1, <1>3, <1>4 DEF Walks
<1>6. S \in SUBSET (Procs \cup {NULL}) /\ nx[h] \in S /\ h \notin S
  BY <1>1, <1>2, <1>3, <1>5 DEF Walks
<1>7. PICK x \in S \ {h, NULL} : nx[x] \notin S
  BY <1>6 DEF Returns
<1>8. \A k \in 1 .. N : w[k] = x => k = N
  <2> SUFFICES ASSUME NEW k \in 1 .. N, w[k] = x, k # N
               PROVE  FALSE
    OBVIOUS
  <2>1. k + 1 \in 1 .. N
    BY <1>3
  <2>2. w[k + 1] = nx[x]
    BY <1>4, <1>7, <2>1
  <2> QED
    BY <1>7, <2>1, <2>2
<1>9. w[N] = x /\ w[N] # NULL
  BY <1>7, <1>8
<1>10. \A k \in 0 .. N : w[k] # NULL
  BY <1>1, <1>3, <1>9, NoEnd
\* The steps that come to where the walk has been.
<1> DEFINE Q == {j \in 0 .. N : \E i \in 0 .. (j - 1) : w[i] = w[j]}
<1>11. N \notin Q
  <2> SUFFICES ASSUME NEW i \in 0 .. (N - 1), w[i] = w[N]
               PROVE  FALSE
    OBVIOUS
  <2>1. i # 0
    BY <1>5, <1>7, <1>9
  <2> QED
    BY <1>3, <1>8, <1>9, <2>1
<1>12. Q = {}
  <2> SUFFICES ASSUME NEW j \in Q
               PROVE  FALSE
    OBVIOUS
  <2> DEFINE T == {t \in j .. N : t \notin Q}
  <2>1. T \subseteq Nat /\ N \in T
    BY <1>3, <1>11
  <2> HIDE DEF Q
  <2>2. PICK t \in T : \A u \in T : t <= u
    BY <2>1, Least
  <2>3. j \in 0 .. N
    BY DEF Q
  <2>4. t # j /\ t \in 1 .. N
    BY <1>3, <2>2, <2>3
  <2>5. t - 1 \in j .. N /\ t - 1 \notin T
    BY <1>3, <2>2, <2>3, <2>4
  <2>6. t - 1 \in Q
    BY <2>5
  <2>7. PICK i \in 0 .. (t - 2) : w[i] = w[t - 1]
    BY <1>3, <2>6 DEF Q
  <2>8. i + 1 \in 0 .. (t - 1) /\ i + 1 \in 1 .. N /\ (i + 1) - 1 = i
    BY <1>3, <2>4, <2>7
  <2>9. w[i + 1] = w[t]
    BY <1>4, <2>4, <2>7, <2>8
  <2>10. t \in Q
    BY <2>4, <2>8, <2>9 DEF Q
  <2> QED
    BY <2>2, <2>10
<1>13. w \in [0 .. N -> Procs]
  BY <1>1, <1>10 DEF Walks
<1>14. PICK i, j \in 0 .. N : i # j /\ w[i] = w[j]
  <2>1. IsFiniteSet(0 .. N) /\ Cardinality(0 .. N) = N + 1
    BY <1>3, FS_Interval
  <2>2. Cardinality(Procs) < Cardinality(0 .. N)
    BY <1>3, <2>1 DEF N
  <2> QED
    BY <1>13, <2>1, <2>2, Size, FS_PigeonHole
<1>15. i \in Q \/ j \in Q
  BY <1>3, <1>14
<1> QED
  BY <1>12, <1>15

\* What the proofs below use of a ring.
LEMMA RingFacts ==
    ASSUME NEW nx \in Links, NEW h \in Procs, Closed(nx, h)
    PROVE  /\ Returns(nx, h)
           /\ Reachable(nx, h) \subseteq Procs /\ h \in Reachable(nx, h)
           /\ \A x \in Reachable(nx, h) : nx[x] \in Reachable(nx, h)
BY ClosedReturns, ReachFacts

\* A ring whose links do not change stays one.
LEMMA Unaffected ==
    ASSUME NEW nx \in Links, NEW h \in Procs, Closed(nx, h),
           NEW nn \in Links, \A x \in Reachable(nx, h) : nn[x] = nx[x]
    PROVE  Closed(nn, h) /\ Reachable(nn, h) \subseteq Reachable(nx, h)
<1> DEFINE R == Reachable(nx, h)
<1>1. /\ Returns(nx, h) /\ R \subseteq Procs /\ h \in R
      /\ \A x \in R : nx[x] \in R /\ nn[x] = nx[x]
  BY RingFacts
<1> HIDE DEF R
<1>2. Returns(nn, h)
  <2> SUFFICES ASSUME NEW S \in SUBSET (Procs \cup {NULL}), nn[h] \in S,
                      \A x \in S \ {h, NULL} : nn[x] \in S
               PROVE  h \in S
    BY DEF Returns
  <2>1. S \cap R \in SUBSET (Procs \cup {NULL}) /\ nx[h] \in S \cap R
    BY <1>1
  <2>2. \A x \in (S \cap R) \ {h, NULL} : nx[x] \in S \cap R
    BY <1>1
  <2> QED
    BY <1>1, <2>1, <2>2 DEF Returns
<1>3. Reachable(nn, h) \subseteq R
  BY <1>1, ReachLeast
<1> QED
  BY <1>2, <1>3, ReturnsClosed DEF R

\* A process after any other and before the head: the ring may lose processes, but it
\* closes, and gains no other one.
LEMMA Inserted ==
    ASSUME NEW nx \in Links, NEW h \in Procs, Closed(nx, h), NEW p \in Procs, NEW l \in Procs
    PROVE  LET nn == [[nx EXCEPT ![l] = p] EXCEPT ![p] = h]
           IN  Closed(nn, h) /\ Reachable(nn, h) \subseteq Reachable(nx, h) \cup {p}
<1> DEFINE R == Reachable(nx, h)
           nn == [[nx EXCEPT ![l] = p] EXCEPT ![p] = h]
<1>1. /\ Returns(nx, h) /\ R \subseteq Procs /\ h \in R
      /\ \A x \in R : nx[x] \in R
  BY RingFacts
<1>2. /\ nn \in Links /\ nn[p] = h /\ (l # p => nn[l] = p)
      /\ \A x \in Procs \ {l, p} : nn[x] = nx[x]
  BY DEF Links
<1> HIDE DEF R, nn
<1>3. Returns(nn, h)
  <2> SUFFICES ASSUME NEW S \in SUBSET (Procs \cup {NULL}), nn[h] \in S,
                      \A x \in S \ {h, NULL} : nn[x] \in S, h \notin S
               PROVE  FALSE
    BY DEF Returns
  <2>0. NULL \notin Procs
    BY Size
  <2>1. p \notin S /\ p # h
    BY <1>2, <2>0
  <2>2. l \notin S /\ l # h
    BY <1>2, <2>0, <2>1
  <2>3. nx[h] \in S /\ \A x \in S \ {h, NULL} : nx[x] \in S
    BY <1>2, <2>1, <2>2
  <2> QED
    BY <1>1, <2>3 DEF Returns
<1>4. Reachable(nn, h) \subseteq R \cup {p}
  <2>1. \A x \in R \cup {p} : nn[x] \in R \cup {p}
    BY <1>1, <1>2
  <2> QED
    BY <1>1, <1>2, <2>1, ReachLeast
<1> QED
  BY <1>2, <1>3, <1>4, ReturnsClosed DEF R, nn

\* A ring is one from wherever it is entered.
LEMMA Rotation ==
    ASSUME NEW nx \in Links, NEW h \in Procs, Closed(nx, h), NEW g \in Reachable(nx, h)
    PROVE  Closed(nx, g) /\ Reachable(nx, g) \subseteq Reachable(nx, h)
<1> DEFINE R == Reachable(nx, h)
           Back(x) == \A S \in SUBSET (Procs \cup {NULL}) :
                          x \in S /\ (\A y \in S \ {h, NULL} : nx[y] \in S) => h \in S
           B == {x \in R : Back(x)}
<1>1. /\ Returns(nx, h) /\ R \subseteq Procs /\ h \in R
      /\ \A x \in R : nx[x] \in R
  BY RingFacts
<1>2. g \in R /\ NULL \notin Procs
  BY Size
<1> HIDE DEF R
\* From every process of the ring the walk comes to the head.
<1>3. R \subseteq B
  <2>1. h \in B
    BY <1>1
  <2>2. ASSUME NEW x \in B
        PROVE  nx[x] \in B
    <3>1. x \in R /\ nx[x] \in R /\ Back(x) /\ x \in Procs
      BY <1>1
    <3>2. CASE x = h
      BY <1>1, <3>1, <3>2 DEF Returns
    <3>3. CASE x # h
      <4> SUFFICES ASSUME NEW S \in SUBSET (Procs \cup {NULL}), nx[x] \in S,
                          \A y \in S \ {h, NULL} : nx[y] \in S
                   PROVE  h \in S
        BY <3>1
      <4>1. S \cup {x} \in SUBSET (Procs \cup {NULL})
        BY <3>1
      <4>2. \A y \in (S \cup {x}) \ {h, NULL} : nx[y] \in S \cup {x}
        OBVIOUS
      <4>3. h \in S \cup {x}
        BY <3>1, <4>1, <4>2
      <4> QED
        BY <3>3, <4>3
    <3> QED
      BY <3>2, <3>3
  <2> HIDE DEF B
  <2>3. h \in B \cup {NULL} /\ \A x \in B : nx[x] \in B \cup {NULL}
    BY <2>1, <2>2
  <2> QED
    BY <2>3, ReachLeast DEF R
<1>4. Returns(nx, g)
  <2> SUFFICES ASSUME NEW S \in SUBSET (Procs \cup {NULL}), nx[g] \in S,
                      \A x \in S \ {g, NULL} : nx[x] \in S, g \notin S
               PROVE  FALSE
    BY DEF Returns
  <2>1. \A x \in S \ {h, NULL} : nx[x] \in S
    OBVIOUS
  <2>2. Back(nx[g])
    BY <1>1, <1>2, <1>3
  <2>3. h \in S
    BY <2>1, <2>2
  <2>4. \A x \in S \cap R : nx[x] \in S \cap R
    BY <1>1, <1>2
  <2>5. h \in (S \cap R) \cup {NULL} /\ \A x \in S \cap R : nx[x] \in (S \cap R) \cup {NULL}
    BY <1>1, <2>3, <2>4
  <2>6. R \subseteq S \cap R
    BY <2>5, ReachLeast DEF R
  <2> QED
    BY <1>2, <2>6
<1>5. Reachable(nx, g) \subseteq R
  <2>1. g \in R \cup {NULL} /\ \A x \in R : nx[x] \in R \cup {NULL} /\ g \in Procs
    BY <1>1, <1>2
  <2> QED
    BY <1>1, <1>2, <2>1, ReachLeast
<1> QED
  BY <1>1, <1>2, <1>4, <1>5, ReturnsClosed DEF R

\* A ring without one of its processes, p, once the one before it, l, leads past it.
LEMMA Shortened ==
    ASSUME NEW nx \in Links, NEW h \in Procs, Closed(nx, h), NEW p \in Procs, h # p,
           NEW l \in Procs, nx[l] = p
    PROVE  LET nn == [nx EXCEPT ![l] = nx[p]]
           IN  Closed(nn, h) /\ Reachable(nn, h) \subseteq Reachable(nx, h)
<1> DEFINE R == Reachable(nx, h)
           nn == [nx EXCEPT ![l] = nx[p]]
<1>1. /\ Returns(nx, h) /\ R \subseteq Procs /\ h \in R
      /\ \A x \in R : nx[x] \in R
  BY RingFacts
<1>2. nn \in Links /\ nn[l] = nx[p] /\ \A x \in Procs \ {l} : nn[x] = nx[x]
  BY DEF Links
<1> HIDE DEF nn, R
<1>3. Returns(nn, h)
  <2> SUFFICES ASSUME NEW S \in SUBSET (Procs \cup {NULL}), nn[h] \in S,
                      \A x \in S \ {h, NULL} : nn[x] \in S
               PROVE  h \in S
    BY DEF Returns
  <2> DEFINE T == {x \in R : x \in S \/ (x = p /\ nx[p] \in S)}
  <2>0. NULL \notin Procs
    BY Size
  <2>1. T \in SUBSET (Procs \cup {NULL}) /\ nx[h] \in T
    BY <1>1, <1>2
  <2>2. ASSUME NEW x \in T \ {h, NULL}
        PROVE  nx[x] \in T
    <3>1. x \in Procs /\ nx[x] \in R
      BY <1>1
    <3>2. CASE x = l
      BY <1>1, <1>2, <2>0, <3>1, <3>2
    <3>3. CASE x # l
      BY <1>1, <1>2, <2>0, <3>1, <3>3
    <3> QED
      BY <3>2, <3>3
  <2>3. h \in T
    BY <1>1, <2>1, <2>2 DEF Returns
  <2> QED
    BY <2>3
<1>4. Reachable(nn, h) \subseteq R
  <2>1. h \in R \cup {NULL} /\ \A x \in R : nn[x] \in R \cup {NULL}
    BY <1>1, <1>2
  <2> QED
    BY <1>2, <2>1, ReachLeast
<1> QED
  BY <1>2, <1>3, <1>4, ReturnsClosed DEF R, nn

-----------------------------------------------------------------------------
(* Types, and the running process.                                         *)

QueuesType == [Queues -> Procs \cup {NULL}]
StateType == [Procs -> {"READY", "RUNNING", "TERMINATED"}]
QuantumType == [Procs -> 0 .. DEFAULT_QUANTUM]
CtxType == [Procs -> [call : Frames, irq : BOOLEAN, stack : Procs]]

\* The two halves of TypeOK: the kernel's data, and the calls.
DataOK ==
    /\ allocated \subseteq Procs /\ idle_process \in allocated
    /\ next \in Links /\ state \in StateType /\ quantum \in QuantumType
    /\ priority \in [Procs -> Nat] /\ stackless \subseteq Procs /\ ctx \in CtxType
    /\ process_list \in Procs \cup {NULL} /\ ready_queue \in QueuesType
    /\ current_process \in Procs /\ stack \in Procs
CallsOK == call \in Frames /\ tick \in Frames /\ in_service \in BOOLEAN

LEMMA Halves == TypeOK <=> DataOK /\ CallsOK
BY DEF TypeOK, DataOK, CallsOK, Links, StateType, QuantumType, CtxType, QueuesType

\* At most one call is under way, and no process was switched out in the middle of one.
OneCall ==
    /\ tick = Run \/ call = Run
    /\ \A r \in Procs : ctx[r].call = Run /\ ctx[r].stack = r

\* The places at which a call holds a process, and those at which it holds another PCB.
HasProcess == Pcs \ {"run", "lost", "schedule", "select"}
HasP == {"add_walk", "add_link", "add_close", "remove_walk", "remove_unlink", "list_walk",
         "list_link", "unlist_walk", "unlist_unlink",
         "set_current", "set_state", "set_quantum", "switch"}

\* schedule() after its test of the state, up to line 136; and from there on.
Selecting(f) ==
    \/ f.op = "schedule" /\ f.pc \in {"add_quantum", "add_queue", "add_head", "add_self",
                                      "add_walk", "add_link", "add_close"}
    \/ f.pc \in {"select", "rotate", "compare", "set_current"}
Switching(f) == f.pc \in {"set_state", "set_quantum", "switch"}

\* process_terminate() up to the last kfree().
Ends == {"unlist", "unlist_walk", "unlist_unlink", "free"}

\* What the call f knows at each place of the states st and the process cur that runs, on
\* the stack sk.
Places(f, st, cur, sk) ==
    /\ f.pc \in HasProcess => f.process \in Procs
    /\ f.pc \in HasP => f.p \in Procs
    /\ f.pc \in Ends => f.process # idle_process
    /\ f.op = "schedule" /\ f.pc = "add" => f.process = cur
    /\ Selecting(f) => st[cur] # "RUNNING"
    /\ f.pc = "set_current" => f.p = cur
    /\ Switching(f) => cur = f.process
    /\ sk = IF Switching(f) THEN f.p ELSE cur

\* Types and the running process, of which no ring has to be closed.
RunningInv ==
    /\ TypeOK
    /\ OneCall
    /\ RunningIsCurrent
    /\ Places(frame, state, current_process, stack)

LEMMA QueueOfType ==
    ASSUME DataOK, NEW p \in Procs
    PROVE  QueueOf(p) \in Queues
BY DEF DataOK, QueueOf, Queues

\* The calls that a step can go on with.
LEMMA FrameTypes ==
    /\ Run \in Frames /\ Run.pc = "run" /\ Run.op = "run"
    /\ Schedule \in Frames /\ Schedule.pc = "schedule" /\ Schedule.op = "schedule"
    /\ Select \in Frames /\ Select.pc = "select" /\ Select.op = "schedule" /\ Select.prio = 3
BY DEF Run, Schedule, Select, Frame, Frames, Pcs, Queues

LEMMA FrameType ==
    ASSUME CallsOK
    PROVE  frame \in Frames /\ frame.pc \in Pcs /\ frame.prio \in Queues
           /\ frame.process \in Procs \cup {NULL} /\ frame.p \in Procs \cup {NULL}
BY DEF CallsOK, frame, Frames

LEMMA GotoFacts ==
    ASSUME OneCall, CallsOK, UNCHANGED ctx, NEW f \in Frames, f.pc # "run", Goto(f)
    PROVE  OneCall' /\ CallsOK' /\ frame' = f
<1>1. f # Run
  BY FrameTypes
<1>2. CASE tick # Run
  BY <1>1, <1>2 DEF Goto, OneCall, CallsOK, frame
<1>3. CASE tick = Run
  BY <1>1, <1>3 DEF Goto, OneCall, CallsOK, frame
<1> QED
  BY <1>2, <1>3

LEMMA ThenFacts ==
    ASSUME OneCall, CallsOK, UNCHANGED ctx, NEW c \in Pcs \ {"run"}, Then(c)
    PROVE  /\ OneCall' /\ CallsOK' /\ frame'.pc = c /\ frame'.op = frame.op
           /\ frame'.process = frame.process /\ frame'.p = frame.p /\ frame'.prio = frame.prio
<1> DEFINE f == [frame EXCEPT !.pc = c]
<1>1. /\ f \in Frames /\ f.pc = c /\ f.op = frame.op /\ f.process = frame.process
      /\ f.p = frame.p /\ f.prio = frame.prio
  BY FrameType DEF Frames
<1>2. Goto(f)
  BY DEF Then
<1> HIDE DEF f
<1>3. OneCall' /\ CallsOK' /\ frame' = f
  BY <1>1, <1>2, GotoFacts
<1> QED
  BY <1>1, <1>3

LEMMA FollowFacts ==
    ASSUME OneCall, CallsOK, UNCHANGED ctx, NEW c \in Pcs \ {"run"},
           NEW q \in Procs \cup {NULL}, Follow(c, q)
    PROVE  /\ OneCall' /\ CallsOK' /\ frame'.pc = (IF q = NULL THEN "lost" ELSE c)
           /\ frame'.op = frame.op /\ frame'.process = frame.process /\ frame'.p = q
           /\ frame'.prio = frame.prio
<1> DEFINE e == IF q = NULL THEN "lost" ELSE c
           f == [frame EXCEPT !.pc = e, !.p = q]
<1>0. e \in Pcs \ {"run"}
  BY DEF Pcs
<1>1. Goto(f)
  BY DEF Follow
<1> HIDE DEF e
<1>2. /\ f \in Frames /\ f.pc = e /\ f.op = frame.op /\ f.process = frame.process
      /\ f.p = q /\ f.prio = frame.prio
  BY <1>0, FrameType DEF Frames
<1> HIDE DEF f
<1>3. OneCall' /\ CallsOK' /\ frame' = f
  BY <1>0, <1>1, <1>2, GotoFacts
<1> QED
  BY <1>2, <1>3 DEF e

LEMMA ReturnFacts ==
    ASSUME OneCall, CallsOK, UNCHANGED ctx, Return
    PROVE  OneCall' /\ CallsOK' /\ frame' = Run
<1>1. CASE tick # Run
  BY <1>1, FrameTypes DEF Return, OneCall, CallsOK, frame
<1>2. CASE tick = Run
  BY <1>2, FrameTypes DEF Return, OneCall, CallsOK, frame
<1> QED
  BY <1>1, <1>2

LEMMA BeginFacts ==
    ASSUME OneCall, CallsOK, NEW f \in Frames, Begin(f)
    PROVE  /\ frame = Run /\ frame' = f /\ CallsOK'
           /\ (\A r \in Procs : ctx'[r].call = Run /\ ctx'[r].stack = r) => OneCall'
BY DEF Begin, AtRest, OneCall, CallsOK, frame

\* What the stores leave alone, and that they keep the types.
LEMMA NoStoreFacts ==
    ASSUME DataOK, NoStore
    PROVE  DataOK' /\ UNCHANGED <<fields, links, creation, cpu, ctx, state, current_process, stack>>
BY DEF NoStore, DataOK, fields, links, creation, cpu

LEMMA StoreStateFacts ==
    ASSUME DataOK, NEW p, NEW s \in {"READY", "RUNNING", "TERMINATED"}, StoreState(p, s)
    PROVE  /\ DataOK' /\ state' = [state EXCEPT ![p] = s]
           /\ UNCHANGED <<links, creation, ctx, current_process, stack>>
BY DEF StoreState, DataOK, StateType, links, creation, cpu

LEMMA StoreQuantumFacts ==
    ASSUME DataOK, NEW p, NEW n \in 0 .. DEFAULT_QUANTUM, StoreQuantum(p, n)
    PROVE  DataOK' /\ UNCHANGED <<links, creation, ctx, state, current_process, stack>>
BY DEF StoreQuantum, DataOK, QuantumType, links, creation, cpu

LEMMA StoreNextFacts ==
    ASSUME DataOK, NEW p, NEW q \in Procs \cup {NULL}, StoreNext(p, q)
    PROVE  /\ DataOK' /\ next' = [next EXCEPT ![p] = q]
           /\ UNCHANGED <<ready_queue, creation, ctx, state, current_process, stack>>
BY DEF StoreNext, DataOK, Links, fields, creation, cpu

LEMMA StoreHeadFacts ==
    ASSUME DataOK, NEW p \in Procs \cup {NULL}, StoreHead(p)
    PROVE  /\ DataOK' /\ ready_queue' = [ready_queue EXCEPT ![frame.prio] = p]
           /\ UNCHANGED <<next, creation, ctx, state, current_process, stack>>
BY DEF StoreHead, DataOK, QueuesType, fields, creation, cpu

LEMMA StoreListFacts ==
    ASSUME DataOK, NEW p \in Procs \cup {NULL}, StoreList(p)
    PROVE  DataOK' /\ UNCHANGED <<links, allocated, priority, ctx, state, current_process, stack>>
BY DEF StoreList, DataOK, fields, links, cpu

\* The pieces that a step has to establish.
LEMMA RunningKept ==
    ASSUME DataOK', CallsOK', OneCall', RunningIsCurrent',
           Places(frame', state', current_process', stack')
    PROVE  RunningInv'
<1>1. TypeOK' <=> DataOK' /\ CallsOK'
  BY DEF TypeOK, DataOK, CallsOK, Links, StateType, QuantumType, CtxType, QueuesType
<1> QED
  BY <1>1 DEF RunningInv

LEMMA RunningSame ==
    ASSUME RunningInv, DataOK', CallsOK', OneCall',
           UNCHANGED <<state, current_process, stack>>,
           Places(frame', state, current_process, stack)
    PROVE  RunningInv'
<1>1. RunningIsCurrent'
  BY DEF RunningInv, RunningIsCurrent
<1> QED
  BY <1>1, RunningKept

LEMMA RunningInit == Init => RunningInv
<1> SUFFICES ASSUME Init
             PROVE  RunningInv
  OBVIOUS
<1>1. idle_process \in Procs /\ DEFAULT_QUANTUM \in 0 .. DEFAULT_QUANTUM
  BY SchedulerAssumption
<1>2. Context(Run, FALSE, idle_process).call = Run
  BY DEF Context
<1>3. \A p \in Procs : /\ ctx[p] \in [call : Frames, irq : BOOLEAN, stack : Procs]
                       /\ ctx[p].call = Run /\ ctx[p].stack = p
  BY FrameTypes DEF Init, Context
<1>4. ctx \in CtxType
  <2>1. ctx = [p \in Procs |-> ctx[p]]
    BY DEF Init
  <2> QED
    BY <1>3, <2>1 DEF CtxType
<1>5. DataOK
  BY <1>1, <1>4 DEF Init, DataOK, Links, StateType, QuantumType, QueuesType
<1>6. CallsOK /\ OneCall /\ frame = Run
  BY <1>3, FrameTypes DEF Init, CallsOK, OneCall, frame
<1>7. RunningIsCurrent
  BY DEF Init, RunningIsCurrent
<1>8. Places(frame, state, current_process, stack)
  BY <1>6, FrameTypes DEF Init, Places, HasProcess, HasP, Ends, Selecting, Switching
<1> QED
  BY <1>5, <1>6, <1>7, <1>8, Halves DEF RunningInv

\* What is known at the place where the step begins.
LEMMA RunningFacts ==
    ASSUME RunningInv
    PROVE  /\ DataOK /\ CallsOK /\ OneCall /\ RunningIsCurrent
           /\ Places(frame, state, current_process, stack)
           /\ frame \in Frames /\ frame.pc \in Pcs /\ frame.prio \in Queues
           /\ current_process \in Procs /\ DEFAULT_QUANTUM \in 0 .. DEFAULT_QUANTUM
           /\ 0 \in 0 .. DEFAULT_QUANTUM
           /\ \A p \in Procs : next[p] \in Procs \cup {NULL} /\ QueueOf(p) \in Queues
           /\ \A q \in Queues : ready_queue[q] \in Procs \cup {NULL}
<1>1. DataOK /\ CallsOK
  BY Halves DEF RunningInv
<1> QED
  BY <1>1, FrameType, QueueOfType, SchedulerAssumption
     DEF RunningInv, DataOK, Links, QueuesType

\* The steps of scheduler_add_process().
LEMMA AddRunning ==
    ASSUME RunningInv,
           \/ add \/ add_quantum \/ add_queue \/ add_head \/ add_self
           \/ add_walk \/ add_link \/ add_close
    PROVE  RunningInv'
<1>0. /\ DataOK /\ CallsOK /\ OneCall /\ RunningIsCurrent
      /\ Places(frame, state, current_process, stack)
      /\ frame \in Frames /\ frame.pc \in Pcs /\ frame.prio \in Queues
      /\ current_process \in Procs /\ DEFAULT_QUANTUM \in 0 .. DEFAULT_QUANTUM
      /\ \A p \in Procs : next[p] \in Procs \cup {NULL} /\ QueueOf(p) \in Queues
      /\ \A q \in Queues : ready_queue[q] \in Procs \cup {NULL}
  BY RunningFacts
<1>1. CASE add
  <2>1. frame.pc = "add" /\ StoreState(frame.process, "READY") /\ Then("add_quantum")
    BY <1>1 DEF add, At
  <2>2. /\ DataOK' /\ state' = [state EXCEPT ![frame.process] = "READY"]
        /\ UNCHANGED <<ctx, current_process, stack>>
    BY <1>0, <2>1, StoreStateFacts
  <2>3. OneCall' /\ CallsOK' /\ frame'.pc = "add_quantum" /\ frame'.op = frame.op
        /\ frame'.process = frame.process
    BY <1>0, <2>1, <2>2, ThenFacts DEF Pcs
  <2>4. frame.process \in Procs
    BY <1>0, <2>1 DEF Places, HasProcess
  <2>5. RunningIsCurrent'
    BY <1>0, <2>2, <2>4 DEF RunningIsCurrent, DataOK, StateType
  <2>6. Places(frame', state', current_process', stack')
    BY <1>0, <2>1, <2>2, <2>3, <2>4
       DEF Places, HasProcess, HasP, Ends, Selecting, Switching, Pcs, DataOK, StateType
  <2> QED
    BY <2>2, <2>3, <2>5, <2>6, RunningKept
<1>2. CASE add_quantum
  <2>1. /\ frame.pc = "add_quantum" /\ StoreQuantum(frame.process, DEFAULT_QUANTUM)
        /\ Then("add_queue")
    BY <1>2 DEF add_quantum, At
  <2>2. DataOK' /\ UNCHANGED <<ctx, state, current_process, stack>>
    BY <1>0, <2>1, StoreQuantumFacts
  <2>3. /\ OneCall' /\ CallsOK' /\ frame'.pc = "add_queue" /\ frame'.op = frame.op
        /\ frame'.process = frame.process
    BY <1>0, <2>1, <2>2, ThenFacts DEF Pcs
  <2>4. Places(frame', state, current_process, stack)
    BY <1>0, <2>1, <2>3 DEF Places, HasProcess, HasP, Ends, Selecting, Switching, Pcs
  <2> QED
    BY <2>2, <2>3, <2>4, RunningSame
<1>3. CASE add_queue
  <2> DEFINE q == QueueOf(frame.process)
             f == [frame EXCEPT !.pc = IF ready_queue[q] = NULL THEN "add_head" ELSE "add_walk",
                                !.p = ready_queue[q], !.prio = q]
  <2>1. frame.pc = "add_queue" /\ NoStore /\ Goto(f)
    BY <1>3 DEF add_queue, At
  <2>2. DataOK' /\ UNCHANGED <<ctx, state, current_process, stack>>
    BY <1>0, <2>1, NoStoreFacts
  <2>3. frame.process \in Procs /\ q \in Queues /\ ready_queue[q] \in Procs \cup {NULL}
    BY <1>0, <2>1 DEF Places, HasProcess
  <2> HIDE DEF q
  <2>4. /\ f \in Frames /\ f.op = frame.op /\ f.process = frame.process /\ f.p = ready_queue[q]
        /\ f.pc = IF ready_queue[q] = NULL THEN "add_head" ELSE "add_walk"
    BY <1>0, <2>3 DEF Frames, Pcs
  <2> HIDE DEF f
  <2>5. OneCall' /\ CallsOK' /\ frame' = f
    BY <1>0, <2>1, <2>2, <2>4, GotoFacts
  <2>6. Places(f, state, current_process, stack)
    BY <1>0, <2>1, <2>3, <2>4 DEF Places, HasProcess, HasP, Ends, Selecting, Switching, Pcs
  <2> QED
    BY <2>2, <2>5, <2>6, RunningSame
<1>4. CASE add_head
  <2>1. frame.pc = "add_head" /\ StoreHead(frame.process) /\ Then("add_self")
    BY <1>4 DEF add_head, At
  <2>2. frame.process \in Procs
    BY <1>0, <2>1 DEF Places, HasProcess
  <2>3. DataOK' /\ UNCHANGED <<ctx, state, current_process, stack>>
    BY <1>0, <2>1, <2>2, StoreHeadFacts
  <2>4. /\ OneCall' /\ CallsOK' /\ frame'.pc = "add_self" /\ frame'.op = frame.op
        /\ frame'.process = frame.process
    BY <1>0, <2>1, <2>3, ThenFacts DEF Pcs
  <2>5. Places(frame', state, current_process, stack)
    BY <1>0, <2>1, <2>4 DEF Places, HasProcess, HasP, Ends, Selecting, Switching, Pcs
  <2> QED
    BY <2>3, <2>4, <2>5, RunningSame
\* The last store of either kind.
<1>5. ASSUME frame.pc \in {"add_self", "add_close"}, AddReturns, DataOK',
             UNCHANGED <<ctx, state, current_process, stack>>
      PROVE  RunningInv'
  <2>1. CASE frame.op = "schedule"
    <3>1. Goto(Select)
      BY <1>5, <2>1 DEF AddReturns
    <3>2. OneCall' /\ CallsOK' /\ frame' = Select
      BY <1>0, <1>5, <3>1, FrameTypes, GotoFacts
    <3>3. Places(Select, state, current_process, stack)
      BY <1>0, <1>5, <2>1, FrameTypes DEF Places, HasProcess, HasP, Ends, Selecting, Switching
    <3> QED
      BY <1>5, <3>2, <3>3, RunningSame
  <2>2. CASE frame.op # "schedule"
    <3>1. Return
      BY <1>5, <2>2 DEF AddReturns
    <3>2. OneCall' /\ CallsOK' /\ frame' = Run
      BY <1>0, <1>5, <3>1, ReturnFacts
    <3>3. Places(Run, state, current_process, stack)
      BY <1>0, <1>5, FrameTypes DEF Places, HasProcess, HasP, Ends, Selecting, Switching
    <3> QED
      BY <1>5, <3>2, <3>3, RunningSame
  <2> QED
    BY <2>1, <2>2
<1>6. CASE add_self
  <2>1. frame.pc = "add_self" /\ StoreNext(frame.process, frame.process) /\ AddReturns
    BY <1>6 DEF add_self, At
  <2>2. frame.process \in Procs
    BY <1>0, <2>1 DEF Places, HasProcess
  <2> QED
    BY <1>0, <1>5, <2>1, <2>2, StoreNextFacts
<1>7. CASE add_walk
  <2>1. /\ frame.pc = "add_walk" /\ NoStore
        /\ Then("add_link") \/ Follow("add_walk", next[frame.p])
    BY <1>7 DEF add_walk, At
  <2>2. frame.p \in Procs /\ next[frame.p] \in Procs \cup {NULL}
    BY <1>0, <2>1 DEF Places, HasP
  <2>3. DataOK' /\ UNCHANGED <<ctx, state, current_process, stack>>
    BY <1>0, <2>1, NoStoreFacts
  <2>4. CASE Then("add_link")
    <3>1. /\ OneCall' /\ CallsOK' /\ frame'.pc = "add_link" /\ frame'.op = frame.op
          /\ frame'.process = frame.process /\ frame'.p = frame.p
      BY <1>0, <2>3, <2>4, ThenFacts DEF Pcs
    <3>2. Places(frame', state, current_process, stack)
      BY <1>0, <2>1, <3>1 DEF Places, HasProcess, HasP, Ends, Selecting, Switching, Pcs
    <3> QED
      BY <2>3, <3>1, <3>2, RunningSame
  <2>5. CASE Follow("add_walk", next[frame.p])
    <3>1. /\ OneCall' /\ CallsOK' /\ frame'.op = frame.op
          /\ frame'.process = frame.process /\ frame'.p = next[frame.p]
          /\ frame'.pc = IF next[frame.p] = NULL THEN "lost" ELSE "add_walk"
      BY <1>0, <2>2, <2>3, <2>5, FollowFacts DEF Pcs
    <3>2. Places(frame', state, current_process, stack)
      BY <1>0, <2>1, <2>2, <3>1 DEF Places, HasProcess, HasP, Ends, Selecting, Switching, Pcs
    <3> QED
      BY <2>3, <3>1, <3>2, RunningSame
  <2> QED
    BY <2>1, <2>4, <2>5
<1>8. CASE add_link
  <2>1. frame.pc = "add_link" /\ StoreNext(frame.p, frame.process) /\ Then("add_close")
    BY <1>8 DEF add_link, At
  <2>2. frame.process \in Procs /\ frame.p \in Procs
    BY <1>0, <2>1 DEF Places, HasProcess, HasP
  <2>3. DataOK' /\ UNCHANGED <<ctx, state, current_process, stack>>
    BY <1>0, <2>1, <2>2, StoreNextFacts
  <2>4. /\ OneCall' /\ CallsOK' /\ frame'.pc = "add_close" /\ frame'.op = frame.op
        /\ frame'.process = frame.process /\ frame'.p = frame.p
    BY <1>0, <2>1, <2>3, ThenFacts DEF Pcs
  <2>5. Places(frame', state, current_process, stack)
    BY <1>0, <2>1, <2>4 DEF Places, HasProcess, HasP, Ends, Selecting, Switching, Pcs
  <2> QED
    BY <2>3, <2>4, <2>5, RunningSame
<1>9. CASE add_close
  <2>1. frame.pc = "add_close" /\ StoreNext(frame.process, Head) /\ AddReturns
    BY <1>9 DEF add_close, At
  <2>2. Head \in Procs \cup {NULL}
    BY <1>0 DEF Head
  <2> QED
    BY <1>0, <1>5, <2>1, <2>2, StoreNextFacts
<1> QED
  BY <1>1, <1>2, <1>3, <1>4, <1>6, <1>7, <1>8, <1>9

\* The places outside schedule() and scheduler_add_process().
Far == {"remove", "remove_only", "remove_walk", "remove_unlink", "remove_head", "remove_move",
        "list", "list_walk", "list_link",
        "unlist", "unlist_walk", "unlist_unlink", "free", "reschedule"}

\* A step from there that returns, goes on in the same call, or follows a link.
LEMMA FarReturn ==
    ASSUME RunningInv, frame.pc \in Far, Return, DataOK',
           UNCHANGED <<ctx, state, current_process, stack>>
    PROVE  RunningInv'
<1>1. OneCall' /\ CallsOK' /\ frame' = Run
  BY RunningFacts, ReturnFacts
<1>2. Places(Run, state, current_process, stack)
  BY RunningFacts, FrameTypes DEF Places, HasProcess, HasP, Ends, Selecting, Switching, Far
<1> QED
  BY <1>1, <1>2, RunningSame

LEMMA FarThen ==
    ASSUME RunningInv, frame.pc \in Far, NEW c \in Far, Then(c), DataOK',
           c \in HasP => frame.p \in Procs, c \in Ends => frame.pc \in Ends,
           UNCHANGED <<ctx, state, current_process, stack>>
    PROVE  RunningInv'
<1>0. c \in Pcs \ {"run"}
  BY DEF Far, Pcs
<1>1. /\ OneCall' /\ CallsOK' /\ frame'.pc = c /\ frame'.op = frame.op
      /\ frame'.process = frame.process /\ frame'.p = frame.p
  BY <1>0, RunningFacts, ThenFacts
<1>2. Places(frame', state, current_process, stack)
  <2>0. c \in Ends => frame.process # idle_process
    BY RunningFacts DEF Places
  <2>1. frame.process \in Procs /\ stack = current_process
    BY RunningFacts DEF Places, HasProcess, Switching, Far, Pcs
  <2>2. /\ ~Selecting(frame') /\ ~Switching(frame') /\ frame'.pc # "add"
        /\ frame'.pc # "set_current"
    BY <1>1 DEF Selecting, Switching, Far
  <2> QED
    BY <1>1, <2>0, <2>1, <2>2 DEF Places
<1> QED
  BY <1>1, <1>2, RunningSame

LEMMA FarFollow ==
    ASSUME RunningInv, frame.pc \in Far, NEW c \in Far, NEW q \in Procs \cup {NULL},
           Follow(c, q), DataOK', c \in Ends => frame.pc \in Ends,
           UNCHANGED <<ctx, state, current_process, stack>>
    PROVE  RunningInv'
<1>0. c \in Pcs \ {"run"}
  BY DEF Far, Pcs
<1>1. /\ OneCall' /\ CallsOK' /\ frame'.pc = (IF q = NULL THEN "lost" ELSE c)
      /\ frame'.op = frame.op /\ frame'.process = frame.process /\ frame'.p = q
  BY <1>0, RunningFacts, FollowFacts
<1>2. Places(frame', state, current_process, stack)
  <2>0. c \in Ends => frame.process # idle_process
    BY RunningFacts DEF Places
  <2>1. frame.process \in Procs /\ stack = current_process
    BY RunningFacts DEF Places, HasProcess, Switching, Far, Pcs
  <2>2. /\ ~Selecting(frame') /\ ~Switching(frame') /\ frame'.pc # "add"
        /\ frame'.pc # "set_current" /\ (frame'.pc \in HasP => q # NULL)
        /\ (frame'.pc \in Ends => c \in Ends)
    BY <1>1 DEF Selecting, Switching, Far, HasP, Ends
  <2> QED
    BY <1>1, <2>0, <2>1, <2>2 DEF Places
<1> QED
  BY <1>1, <1>2, RunningSame

\* The steps of scheduler_remove_process().
LEMMA RemoveRunning ==
    ASSUME RunningInv,
           remove \/ remove_only \/ remove_walk \/ remove_unlink \/ remove_head \/ remove_move
    PROVE  RunningInv'
<1>0. /\ DataOK /\ Places(frame, state, current_process, stack) /\ frame.prio \in Queues
      /\ \A p \in Procs : next[p] \in Procs \cup {NULL}
      /\ \A q \in Queues : ready_queue[q] \in Procs \cup {NULL}
  BY RunningFacts
<1>1. Head \in Procs \cup {NULL}
  BY <1>0 DEF Head
<1>2. CASE remove
  <2>1. /\ frame.pc = "remove" /\ NoStore
        /\ Return \/ Then("remove_only") \/ Follow("remove_walk", Head)
    BY <1>2 DEF remove, At
  <2> QED
    BY <1>0, <1>1, <2>1, NoStoreFacts, FarReturn, FarThen, FarFollow DEF Far, HasP, Ends
<1>3. CASE remove_only
  <2>1. frame.pc = "remove_only" /\ StoreHead(NULL) /\ Return
    BY <1>3 DEF remove_only, At
  <2> QED
    BY <1>0, <2>1, StoreHeadFacts, FarReturn DEF Far, Ends
<1>4. CASE remove_walk
  <2>1. /\ frame.pc = "remove_walk" /\ NoStore
        /\ Return \/ Then("remove_unlink") \/ Follow("remove_walk", next[frame.p])
    BY <1>4 DEF remove_walk, At
  <2>2. frame.p \in Procs
    BY <1>0, <2>1 DEF Places, HasP
  <2> QED
    BY <1>0, <2>1, <2>2, NoStoreFacts, FarReturn, FarThen, FarFollow DEF Far, Ends
<1>5. CASE remove_unlink
  <2>1. /\ frame.pc = "remove_unlink" /\ StoreNext(frame.p, next[frame.process])
        /\ Then("remove_head")
    BY <1>5 DEF remove_unlink, At
  <2>2. frame.process \in Procs
    BY <1>0, <2>1 DEF Places, HasProcess, Pcs
  <2> QED
    BY <1>0, <2>1, <2>2, StoreNextFacts, FarThen DEF Far, HasP, Ends
<1>6. CASE remove_head
  <2>1. frame.pc = "remove_head" /\ NoStore /\ (Return \/ Then("remove_move"))
    BY <1>6 DEF remove_head, At
  <2> QED
    BY <1>0, <2>1, NoStoreFacts, FarReturn, FarThen DEF Far, HasP, Ends
<1>7. CASE remove_move
  <2>1. frame.pc = "remove_move" /\ StoreHead(next[frame.process]) /\ Return
    BY <1>7 DEF remove_move, At
  <2>2. frame.process \in Procs
    BY <1>0, <2>1 DEF Places, HasProcess, Pcs
  <2> QED
    BY <1>0, <2>1, <2>2, StoreHeadFacts, FarReturn DEF Far, Ends
<1> QED
  BY <1>2, <1>3, <1>4, <1>5, <1>6, <1>7

\* The steps of process_create() and process_terminate() after the first.
LEMMA ListRunning ==
    ASSUME RunningInv,
           \/ list \/ list_walk \/ list_link
           \/ unlist \/ unlist_walk \/ unlist_unlink \/ free
    PROVE  RunningInv'
<1>0. /\ DataOK /\ Places(frame, state, current_process, stack)
      /\ process_list \in Procs \cup {NULL}
      /\ \A p \in Procs : next[p] \in Procs \cup {NULL}
  BY RunningFacts DEF DataOK
<1>1. frame.pc \in HasProcess => frame.process \in Procs
  BY <1>0 DEF Places
<1>2. frame.pc \in HasP => frame.p \in Procs
  BY <1>0 DEF Places
<1>3. CASE list
  <2>1. frame.pc = "list" /\ \/ StoreList(frame.process) /\ Return
                             \/ NoStore /\ Follow("list_walk", process_list)
    BY <1>3 DEF list, At
  <2>2. frame.process \in Procs
    BY <1>1, <2>1 DEF HasProcess, Pcs
  <2> QED
    BY <1>0, <2>1, <2>2, NoStoreFacts, StoreListFacts, FarReturn, FarFollow DEF Far, Ends
<1>4. CASE list_walk
  <2>1. /\ frame.pc = "list_walk" /\ NoStore
        /\ Then("list_link") \/ Follow("list_walk", next[frame.p])
    BY <1>4 DEF list_walk, At
  <2>2. frame.p \in Procs
    BY <1>2, <2>1 DEF HasP
  <2> QED
    BY <1>0, <2>1, <2>2, NoStoreFacts, FarThen, FarFollow DEF Far, Ends
<1>5. CASE list_link
  <2>1. frame.pc = "list_link" /\ StoreNext(frame.p, frame.process) /\ Return
    BY <1>5 DEF list_link, At
  <2>2. frame.process \in Procs
    BY <1>1, <2>1 DEF HasProcess, Pcs
  <2> QED
    BY <1>0, <2>1, <2>2, StoreNextFacts, FarReturn DEF Far, Ends
<1>6. CASE unlist
  <2>1. /\ frame.pc = "unlist"
        /\ \/ StoreList(next[frame.process]) /\ Then("free")
           \/ NoStore /\ (Then("free") \/ Follow("unlist_walk", process_list))
    BY <1>6 DEF unlist, At
  <2>2. next[frame.process] \in Procs \cup {NULL}
    BY <1>0, <1>1, <2>1 DEF HasProcess, Pcs
  <2> QED
    BY <1>0, <2>1, <2>2, NoStoreFacts, StoreListFacts, FarThen, FarFollow DEF Far, HasP, Ends
<1>7. CASE unlist_walk
  <2>1. /\ frame.pc = "unlist_walk" /\ NoStore
        /\ Then("unlist_unlink") \/ Then("free") \/ Follow("unlist_walk", next[frame.p])
    BY <1>7 DEF unlist_walk, At
  <2>2. frame.p \in Procs
    BY <1>2, <2>1 DEF HasP
  <2> QED
    BY <1>0, <2>1, <2>2, NoStoreFacts, FarThen, FarFollow DEF Far, Ends
<1>8. CASE unlist_unlink
  <2>1. /\ frame.pc = "unlist_unlink" /\ StoreNext(frame.p, next[frame.process])
        /\ Then("free")
    BY <1>8 DEF unlist_unlink, At
  <2>2. next[frame.process] \in Procs \cup {NULL}
    BY <1>0, <1>1, <2>1 DEF HasProcess, Pcs
  <2> QED
    BY <1>0, <2>1, <2>2, StoreNextFacts, FarThen DEF Far, HasP, Ends
<1>9. CASE free
  <2>1. /\ frame.pc = "free" /\ allocated' = allocated \ {frame.process} /\ Then("reschedule")
        /\ UNCHANGED <<fields, links, priority, stackless, process_list, cpu>>
    BY <1>9 DEF free, At
  <2>2. frame.process # idle_process
    BY <1>0, <2>1 DEF Places, Ends
  <2>3. DataOK' /\ UNCHANGED <<ctx, state, current_process, stack>>
    BY <1>0, <2>1, <2>2 DEF DataOK, fields, links, cpu
  <2> QED
    BY <2>1, <2>3, FarThen DEF Far, HasP, Ends
<1> QED
  BY <1>3, <1>4, <1>5, <1>6, <1>7, <1>8, <1>9

\* The steps of schedule(), and the call of it that ends process_terminate().
LEMMA ScheduleRunning ==
    ASSUME RunningInv,
           \/ schedule \/ select_next_process \/ rotate \/ compare_same \/ compare_other
           \/ set_current \/ set_state \/ set_quantum \/ switch_to_process \/ reschedule
    PROVE  RunningInv'
<1>0. /\ DataOK /\ CallsOK /\ OneCall /\ RunningIsCurrent
      /\ Places(frame, state, current_process, stack)
      /\ frame \in Frames /\ frame.pc \in Pcs /\ frame.prio \in Queues
      /\ current_process \in Procs /\ DEFAULT_QUANTUM \in 0 .. DEFAULT_QUANTUM
      /\ \A p \in Procs : next[p] \in Procs \cup {NULL} /\ QueueOf(p) \in Queues
      /\ \A q \in Queues : ready_queue[q] \in Procs \cup {NULL}
      /\ idle_process \in Procs
  BY RunningFacts, Size
<1>1. CASE schedule
  <2> DEFINE f == IF state[current_process] = "RUNNING"
                  THEN Frame("schedule", "add", current_process, NULL, 0) ELSE Select
  <2>1. frame.pc = "schedule" /\ NoStore /\ Goto(f)
    BY <1>1 DEF schedule, At
  <2>2. DataOK' /\ UNCHANGED <<ctx, state, current_process, stack>>
    BY <1>0, <2>1, NoStoreFacts
  <2>3. /\ f \in Frames /\ f.op = "schedule" /\ f.pc \in {"add", "select"}
        /\ f.pc = "add" => f.process = current_process
        /\ f.pc = "select" => state[current_process] # "RUNNING"
    BY <1>0, FrameTypes DEF Frame, Frames, Pcs, Queues
  <2> HIDE DEF f
  <2>4. OneCall' /\ CallsOK' /\ frame' = f
    BY <1>0, <2>1, <2>2, <2>3, GotoFacts
  <2>5. Places(f, state, current_process, stack)
    BY <1>0, <2>1, <2>3 DEF Places, HasProcess, HasP, Ends, Selecting, Switching, Pcs
  <2> QED
    BY <2>2, <2>4, <2>5, RunningSame
<1>2. CASE select_next_process
  <2> DEFINE b == frame.prio
  <2>1. PICK f : /\ frame.pc = "select" /\ NoStore /\ Goto(f)
                 /\ \/ /\ ready_queue[b] # NULL
                       /\ f = [frame EXCEPT !.pc = "rotate", !.process = ready_queue[b], !.prio = b]
                    \/ b > 0 /\ f = [frame EXCEPT !.prio = b - 1]
                    \/ f = [frame EXCEPT !.pc = "compare", !.process = idle_process]
    BY <1>2 DEF select_next_process, Turn, At
  <2>2. DataOK' /\ UNCHANGED <<ctx, state, current_process, stack>>
    BY <1>0, <2>1, NoStoreFacts
  <2>3. /\ f \in Frames /\ f.pc \in {"select", "rotate", "compare"}
        /\ f.pc # "select" => f.process \in Procs
    <3>1. b \in 0 .. 3 /\ ready_queue[b] \in Procs \cup {NULL}
      BY <1>0 DEF Queues
    <3>2. CASE /\ ready_queue[b] # NULL
               /\ f = [frame EXCEPT !.pc = "rotate", !.process = ready_queue[b], !.prio = b]
      BY <1>0, <3>1, <3>2 DEF Frames, Pcs
    <3>3. CASE b > 0 /\ f = [frame EXCEPT !.prio = b - 1]
      <4>1. b - 1 \in Queues
        BY <3>1, <3>3 DEF Queues
      <4> HIDE DEF b
      <4> QED
        BY <1>0, <2>1, <3>3, <4>1 DEF Frames
    <3>4. CASE f = [frame EXCEPT !.pc = "compare", !.process = idle_process]
      BY <1>0, <3>4 DEF Frames, Pcs
    <3> QED
      BY <2>1, <3>2, <3>3, <3>4
  <2>4. OneCall' /\ CallsOK' /\ frame' = f
    BY <1>0, <2>1, <2>2, <2>3, GotoFacts
  <2>5. Places(f, state, current_process, stack)
    BY <1>0, <2>1, <2>3 DEF Places, HasProcess, HasP, Ends, Selecting, Switching, Pcs
  <2> QED
    BY <2>2, <2>4, <2>5, RunningSame
<1>3. CASE rotate
  <2>1. frame.pc = "rotate" /\ StoreHead(next[frame.process]) /\ Then("compare")
    BY <1>3 DEF rotate, At
  <2>2. frame.process \in Procs
    BY <1>0, <2>1 DEF Places, HasProcess
  <2>3. DataOK' /\ UNCHANGED <<ctx, state, current_process, stack>>
    BY <1>0, <2>1, <2>2, StoreHeadFacts
  <2>4. OneCall' /\ CallsOK' /\ frame'.pc = "compare" /\ frame'.process = frame.process
    BY <1>0, <2>1, <2>3, ThenFacts DEF Pcs
  <2>5. Places(frame', state, current_process, stack)
    BY <1>0, <2>1, <2>2, <2>4 DEF Places, HasProcess, HasP, Ends, Selecting, Switching, Pcs
  <2> QED
    BY <2>3, <2>4, <2>5, RunningSame
<1>4. CASE compare_same
  <2>1. /\ frame.pc = "compare" /\ StoreQuantum(current_process, DEFAULT_QUANTUM)
        /\ Return
    BY <1>4 DEF compare_same, At
  <2>2. DataOK' /\ UNCHANGED <<ctx, state, current_process, stack>>
    BY <1>0, <2>1, StoreQuantumFacts
  <2>3. OneCall' /\ CallsOK' /\ frame' = Run
    BY <1>0, <2>1, <2>2, ReturnFacts
  <2>4. Places(Run, state, current_process, stack)
    BY <1>0, <2>1, FrameTypes DEF Places, HasProcess, HasP, Ends, Selecting, Switching
  <2> QED
    BY <2>2, <2>3, <2>4, RunningSame
<1>5. CASE compare_other
  <2> DEFINE f == [frame EXCEPT !.pc = "set_current", !.p = current_process]
  <2>1. frame.pc = "compare" /\ NoStore /\ Goto(f)
    BY <1>5 DEF compare_other, At
  <2>2. DataOK' /\ UNCHANGED <<ctx, state, current_process, stack>>
    BY <1>0, <2>1, NoStoreFacts
  <2>3. /\ f \in Frames /\ f.pc = "set_current" /\ f.p = current_process
        /\ f.process = frame.process
    BY <1>0 DEF Frames, Pcs
  <2> HIDE DEF f
  <2>4. OneCall' /\ CallsOK' /\ frame' = f
    BY <1>0, <2>1, <2>2, <2>3, GotoFacts
  <2>5. Places(f, state, current_process, stack)
    BY <1>0, <2>1, <2>3 DEF Places, HasProcess, HasP, Ends, Selecting, Switching, Pcs
  <2> QED
    BY <2>2, <2>4, <2>5, RunningSame
<1>6. CASE set_current
  <2>1. /\ frame.pc = "set_current" /\ current_process' = frame.process /\ Then("set_state")
        /\ UNCHANGED <<fields, links, creation, ctx, stack>>
    BY <1>6 DEF set_current, At
  <2>2. /\ frame.process \in Procs /\ frame.p = current_process /\ stack = current_process
        /\ state[current_process] # "RUNNING"
    BY <1>0, <2>1 DEF Places, HasProcess, Selecting, Switching
  <2>3. DataOK' /\ UNCHANGED <<ctx, state, stack>>
    BY <1>0, <2>1, <2>2 DEF DataOK, fields, links, creation
  <2>4. /\ OneCall' /\ CallsOK' /\ frame'.pc = "set_state" /\ frame'.process = frame.process
        /\ frame'.p = frame.p
    BY <1>0, <2>1, <2>3, ThenFacts DEF Pcs
  <2>5. RunningIsCurrent'
    BY <1>0, <2>2, <2>3 DEF RunningIsCurrent
  <2>6. Places(frame', state', current_process', stack')
    BY <1>0, <2>1, <2>2, <2>3, <2>4
       DEF Places, HasProcess, HasP, Ends, Selecting, Switching, Pcs
  <2> QED
    BY <2>3, <2>4, <2>5, <2>6, RunningKept
<1>7. CASE set_state
  <2>1. frame.pc = "set_state" /\ StoreState(frame.process, "RUNNING") /\ Then("set_quantum")
    BY <1>7 DEF set_state, At
  <2>2. /\ frame.process \in Procs /\ frame.p \in Procs /\ current_process = frame.process
        /\ stack = frame.p
    BY <1>0, <2>1 DEF Places, HasProcess, HasP, Switching
  <2>3. /\ DataOK' /\ state' = [state EXCEPT ![frame.process] = "RUNNING"]
        /\ UNCHANGED <<ctx, current_process, stack>>
    BY <1>0, <2>1, StoreStateFacts
  <2>4. /\ OneCall' /\ CallsOK' /\ frame'.pc = "set_quantum" /\ frame'.process = frame.process
        /\ frame'.p = frame.p
    BY <1>0, <2>1, <2>3, ThenFacts DEF Pcs
  <2>5. RunningIsCurrent'
    BY <1>0, <2>2, <2>3 DEF RunningIsCurrent, DataOK, StateType
  <2>6. Places(frame', state', current_process', stack')
    BY <1>0, <2>2, <2>3, <2>4 DEF Places, HasProcess, HasP, Ends, Selecting, Switching, Pcs
  <2> QED
    BY <2>3, <2>4, <2>5, <2>6, RunningKept
<1>8. CASE set_quantum
  <2>1. /\ frame.pc = "set_quantum" /\ StoreQuantum(frame.process, DEFAULT_QUANTUM)
        /\ Then("switch")
    BY <1>8 DEF set_quantum, At
  <2>2. DataOK' /\ UNCHANGED <<ctx, state, current_process, stack>>
    BY <1>0, <2>1, StoreQuantumFacts
  <2>3. /\ OneCall' /\ CallsOK' /\ frame'.pc = "switch" /\ frame'.process = frame.process
        /\ frame'.p = frame.p
    BY <1>0, <2>1, <2>2, ThenFacts DEF Pcs
  <2>4. Places(frame', state, current_process, stack)
    BY <1>0, <2>1, <2>3 DEF Places, HasProcess, HasP, Ends, Selecting, Switching, Pcs
  <2> QED
    BY <2>2, <2>3, <2>4, RunningSame
<1>9. CASE switch_to_process
  <2> DEFINE e == Context(IF tick = Run THEN Run ELSE call, tick # Run, stack)
             new == frame.process
  <2>1. /\ frame.pc = "switch" /\ ctx' = [ctx EXCEPT ![frame.p] = e]
        /\ call' = ctx[new].call /\ tick' = Run /\ stack' = ctx[new].stack
        /\ in_service' = (in_service /\ ~ctx[new].irq)
        /\ UNCHANGED <<fields, links, creation, current_process>>
    BY <1>9 DEF switch_to_process, Switch, At
  <2>2. /\ frame.p \in Procs /\ new \in Procs /\ current_process = new /\ stack = frame.p
    BY <1>0, <2>1 DEF Places, HasProcess, HasP, Switching
  <2>3. e.call = Run /\ e.stack = frame.p /\ e \in [call : Frames, irq : BOOLEAN, stack : Procs]
    BY <1>0, <2>2, FrameTypes DEF Context, OneCall
  <2>4. ctx[new].call = Run /\ ctx[new].stack = new
    BY <1>0, <2>2 DEF OneCall
  <2> HIDE DEF e
  <2>5. DataOK'
    BY <1>0, <2>1, <2>2, <2>3, <2>4 DEF DataOK, CtxType, fields, links, creation
  <2>6. CallsOK'
    <3>1. in_service' \in BOOLEAN
      BY <2>1, Zenon
    <3> QED
      BY <2>1, <2>4, <3>1, FrameTypes DEF CallsOK
  <2>7. OneCall' /\ frame' = Run
    <3>1. \A r \in Procs : ctx'[r].call = Run /\ ctx'[r].stack = r
      BY <1>0, <2>1, <2>2, <2>3 DEF OneCall, DataOK, CtxType
    <3> QED
      BY <2>1, <2>4, <3>1 DEF OneCall, frame
  <2>8. RunningIsCurrent'
    BY <1>0, <2>1 DEF RunningIsCurrent, fields
  <2>9. Places(frame', state', current_process', stack')
    BY <2>1, <2>2, <2>4, <2>7, FrameTypes
       DEF Places, HasProcess, HasP, Ends, Selecting, Switching
  <2> QED
    BY <2>5, <2>6, <2>7, <2>8, <2>9, RunningKept
<1>10. CASE reschedule
  <2>1. frame.pc = "reschedule" /\ NoStore /\ (Return \/ Goto(Schedule))
    BY <1>10 DEF reschedule, At
  <2>2. DataOK' /\ UNCHANGED <<ctx, state, current_process, stack>>
    BY <1>0, <2>1, NoStoreFacts
  <2>3. CASE Return
    BY <2>1, <2>2, <2>3, FarReturn DEF Far
  <2>4. CASE Goto(Schedule)
    <3>1. OneCall' /\ CallsOK' /\ frame' = Schedule
      BY <1>0, <2>2, <2>4, FrameTypes, GotoFacts
    <3>2. Places(Schedule, state, current_process, stack)
      BY <1>0, <2>1, FrameTypes DEF Places, HasProcess, HasP, Ends, Selecting, Switching
    <3> QED
      BY <2>2, <3>1, <3>2, RunningSame
  <2> QED
    BY <2>1, <2>3, <2>4
<1> QED
  BY <1>1, <1>2, <1>3, <1>4, <1>5, <1>6, <1>7, <1>8, <1>9, <1>10

\* The ticks.  Only here does it matter that no call can be interrupted.
LEMMA TicksRunning ==
    ASSUME RunningInv, CallsMasked, Ticks
    PROVE  RunningInv'
<1>0. /\ DataOK /\ CallsOK /\ OneCall /\ Places(frame, state, current_process, stack)
      /\ current_process \in Procs /\ 0 \in 0 .. DEFAULT_QUANTUM
  BY RunningFacts
<1>1. tick = Run /\ call = Run /\ frame = Run
  BY DEF Ticks, scheduler_tick, scheduler_tick_expires, Interruptible, frame
<1>2. stack = current_process
  BY <1>0, <1>1, FrameTypes DEF Places, Switching
<1>3. CASE scheduler_tick
  <2>1. /\ StoreQuantum(current_process, Ticked(current_process))
        /\ UNCHANGED <<call, tick, in_service>>
    BY <1>3 DEF scheduler_tick
  <2>2. Ticked(current_process) \in 0 .. DEFAULT_QUANTUM
    BY <1>0, SchedulerAssumption DEF Ticked, DataOK, QuantumType
  <2>3. DataOK' /\ UNCHANGED <<ctx, state, current_process, stack>>
    BY <1>0, <2>1, <2>2, StoreQuantumFacts
  <2>4. OneCall' /\ CallsOK' /\ frame' = frame
    BY <1>0, <2>1, <2>3 DEF OneCall, CallsOK, frame
  <2> QED
    BY <1>0, <2>3, <2>4, RunningSame
<1>4. CASE scheduler_tick_expires
  <2>1. /\ StoreQuantum(current_process, 0) /\ tick' = Schedule /\ in_service' = TRUE
        /\ UNCHANGED call
    BY <1>4 DEF scheduler_tick_expires
  <2>2. DataOK' /\ UNCHANGED <<ctx, state, current_process, stack>>
    BY <1>0, <2>1, StoreQuantumFacts
  <2>3. Schedule # Run
    BY FrameTypes
  <2>4. OneCall' /\ CallsOK' /\ frame' = Schedule
    BY <1>0, <1>1, <2>1, <2>2, <2>3, FrameTypes DEF OneCall, CallsOK, frame
  <2>5. Places(Schedule, state, current_process, stack)
    BY <1>2, FrameTypes DEF Places, HasProcess, HasP, Ends, Selecting, Switching
  <2> QED
    BY <2>2, <2>4, <2>5, RunningSame
<1> QED
  BY <1>3, <1>4 DEF Ticks

\* The calls that the current process can make.
LEMMA CallsRunning ==
    ASSUME RunningInv, Calls
    PROVE  RunningInv'
<1>0. /\ DataOK /\ CallsOK /\ OneCall /\ RunningIsCurrent
      /\ Places(frame, state, current_process, stack)
      /\ current_process \in Procs /\ 0 \in 0 .. DEFAULT_QUANTUM
      /\ DEFAULT_QUANTUM \in 0 .. DEFAULT_QUANTUM
      /\ \A p \in Procs : QueueOf(p) \in Queues
      /\ \A r \in Procs : ctx[r].call = Run /\ ctx[r].stack = r
  BY RunningFacts DEF OneCall
<1>1. ASSUME frame = Run
      PROVE  stack = current_process
  BY <1>0, <1>1, FrameTypes DEF Places, Switching
<1>2. ASSUME NEW p \in Procs, NEW o \in {"add", "remove", "create", "terminate"},
             NEW c \in {"add", "remove", "list", "unlist"}, NEW b \in Queues,
             c = "unlist" => p # idle_process
      PROVE  LET f == Frame(o, c, p, NULL, b)
             IN  /\ f \in Frames
                 /\ \A st, cur, sk : sk = cur => Places(f, st, cur, sk)
  <2> DEFINE f == Frame(o, c, p, NULL, b)
  <2>1. f \in Frames /\ f.pc = c /\ f.op = o /\ f.process = p
    BY DEF Frame, Frames, Pcs
  <2> HIDE DEF f
  <2>2. \A st, cur, sk : sk = cur => Places(f, st, cur, sk)
    BY <1>2, <2>1 DEF Places, HasProcess, HasP, Ends, Selecting, Switching, Pcs
  <2> QED
    BY <2>1, <2>2 DEF f
<1>3. 0 \in Queues
  BY DEF Queues
<1>4. CASE yield
  <2>1. Begin(Schedule) /\ StoreQuantum(current_process, 0)
    BY <1>4 DEF yield
  <2>2. DataOK' /\ UNCHANGED <<ctx, state, current_process, stack>>
    BY <1>0, <2>1, StoreQuantumFacts
  <2>3. frame = Run /\ frame' = Schedule /\ CallsOK' /\ OneCall'
    BY <1>0, <2>1, <2>2, FrameTypes, BeginFacts
  <2>4. Places(Schedule, state, current_process, stack)
    BY <1>1, <2>3, FrameTypes DEF Places, HasProcess, HasP, Ends, Selecting, Switching
  <2> QED
    BY <2>2, <2>3, <2>4, RunningSame
\* The two that only begin.
<1>5. ASSUME NEW f \in Frames, Begin(f), NoStore,
             \A st, cur, sk : sk = cur => Places(f, st, cur, sk)
      PROVE  RunningInv'
  <2>1. DataOK' /\ UNCHANGED <<ctx, state, current_process, stack>>
    BY <1>0, <1>5, NoStoreFacts
  <2>2. frame = Run /\ frame' = f /\ CallsOK' /\ OneCall'
    BY <1>0, <1>5, <2>1, BeginFacts
  <2> QED
    BY <1>1, <1>5, <2>1, <2>2, RunningSame
<1>6. ASSUME NEW p \in Procs, scheduler_add_process(p)
      PROVE  RunningInv'
  <2>1. Begin(Frame("add", "add", p, NULL, 0)) /\ NoStore
    BY <1>6 DEF scheduler_add_process
  <2> QED
    BY <1>2, <1>3, <1>5, <2>1
<1>7. ASSUME NEW p \in Procs, scheduler_remove_process(p)
      PROVE  RunningInv'
  <2>1. Begin(Frame("remove", "remove", p, NULL, QueueOf(p))) /\ NoStore
    BY <1>7 DEF scheduler_remove_process
  <2> QED
    BY <1>0, <1>2, <1>5, <2>1
<1>8. ASSUME NEW p \in Procs, process_terminate(p)
      PROVE  RunningInv'
  <2> DEFINE f == Frame("terminate", "unlist", p, NULL, 0)
  <2>1. p # idle_process /\ Begin(f) /\ StoreState(p, "TERMINATED")
    BY <1>8 DEF process_terminate
  <2>2. f \in Frames /\ \A st, cur, sk : sk = cur => Places(f, st, cur, sk)
    BY <1>2, <1>3, <2>1
  <2>3. /\ DataOK' /\ state' = [state EXCEPT ![p] = "TERMINATED"]
        /\ UNCHANGED <<ctx, current_process, stack>>
    BY <1>0, <2>1, StoreStateFacts
  <2> HIDE DEF f
  <2>4. frame = Run /\ frame' = f /\ CallsOK' /\ OneCall'
    BY <1>0, <2>1, <2>2, <2>3, BeginFacts
  <2>5. RunningIsCurrent'
    BY <1>0, <2>3 DEF RunningIsCurrent, DataOK, StateType
  <2>6. Places(frame', state', current_process', stack')
    BY <1>1, <2>2, <2>3, <2>4
  <2> QED
    BY <2>3, <2>4, <2>5, <2>6, RunningKept
<1>9. ASSUME NEW p \in Procs, NEW prio \in Priorities, NEW stacks \in StackOutcomes,
             process_create(p, prio, stacks)
      PROVE  RunningInv'
  <2> DEFINE f == Frame("create", "list", p, NULL, 0)
             e == Context(Run, FALSE, p)
  <2>1. /\ Begin(f) /\ allocated' = allocated \cup {p}
        /\ next' = [next EXCEPT ![p] = NULL] /\ state' = [state EXCEPT ![p] = "READY"]
        /\ priority' = [priority EXCEPT ![p] = prio]
        /\ quantum' = [quantum EXCEPT ![p] = DEFAULT_QUANTUM]
        /\ ctx' = [ctx EXCEPT ![p] = e] /\ stackless' \subseteq stackless \cup {p}
        /\ UNCHANGED <<process_list, ready_queue, current_process, stack>>
    BY <1>9 DEF process_create
  <2>2. f \in Frames /\ \A st, cur, sk : sk = cur => Places(f, st, cur, sk)
    BY <1>2, <1>3
  <2>3. /\ e \in [call : Frames, irq : BOOLEAN, stack : Procs]
        /\ e.call = Run /\ e.stack = p
    BY FrameTypes DEF Context
  <2> HIDE DEF f, e
  <2>4. prio \in Nat
    BY SchedulerAssumption
  <2>5. /\ next' \in Links /\ state' \in StateType /\ quantum' \in QuantumType
        /\ priority' \in [Procs -> Nat] /\ ctx' \in CtxType
    BY <1>0, <2>1, <2>3, <2>4 DEF DataOK, Links, StateType, QuantumType, CtxType
  <2>6. DataOK'
    BY <1>0, <2>1, <2>5 DEF DataOK
  <2>7. \A r \in Procs : ctx'[r].call = Run /\ ctx'[r].stack = r
    BY <1>0, <2>1, <2>3 DEF DataOK, CtxType
  <2>8. frame = Run /\ frame' = f /\ CallsOK' /\ OneCall'
    BY <1>0, <2>1, <2>2, <2>7, BeginFacts
  <2>9. RunningIsCurrent'
    BY <1>0, <2>1 DEF RunningIsCurrent, DataOK, StateType
  <2>10. Places(frame', state', current_process', stack')
    BY <1>1, <2>1, <2>2, <2>8
  <2> QED
    BY <2>6, <2>8, <2>9, <2>10, RunningKept
<1> QED
  BY <1>4, <1>6, <1>7, <1>8, <1>9 DEF Calls

LEMMA RunningStep ==
    ASSUME CallsMasked
    PROVE  RunningInv /\ [Next]_vars => RunningInv'
<1> SUFFICES ASSUME RunningInv, [Next]_vars
             PROVE  RunningInv'
  OBVIOUS
<1>1. CASE Ticks
  BY <1>1, TicksRunning
<1>2. CASE Calls
  BY <1>2, CallsRunning
<1>3. CASE Steps
  BY <1>3, AddRunning, RemoveRunning, ScheduleRunning, ListRunning DEF Steps
<1>4. CASE UNCHANGED vars
  <2>1. /\ DataOK /\ CallsOK /\ OneCall /\ Places(frame, state, current_process, stack)
    BY RunningFacts
  <2>2. DataOK' /\ CallsOK' /\ OneCall' /\ frame' = frame
        /\ UNCHANGED <<state, current_process, stack>>
    BY <1>4, <2>1 DEF vars, fields, links, creation, cpu, DataOK, CallsOK, OneCall, frame
  <2> QED
    BY <2>1, <2>2, RunningSame
<1> QED
  BY <1>1, <1>2, <1>3, <1>4 DEF Next

\* When processes call these functions with interrupts off, process_t.state RUNNING is the
\* current process's alone: schedule() takes it from the process that loses the
\* CPU before it makes the next one current, whatever has become of the queues.
THEOREM OneRuns ==
    ASSUME CallsMasked
    PROVE  Spec => []RunningIsCurrent
<1>1. RunningInv /\ [Next]_vars => RunningInv'
  BY RunningStep
<1>2. RunningInv => RunningIsCurrent
  BY DEF RunningInv
<1> QED
  BY <1>1, <1>2, RunningInit, PTL DEF Spec

\* Under the same condition schedule() saves every context in the PCB of the process whose
\* stack the CPU is on, in a tick and in a call: current_process is ahead of the stack only
\* between line 136 and the switch.
THEOREM StacksAreOwn ==
    ASSUME CallsMasked
    PROVE  Spec => []ContextsAreOwn
<1>1. RunningInv /\ [Next]_vars => RunningInv'
  BY RunningStep
<1>2. ASSUME RunningInv
      PROVE  ContextsAreOwn
  <2>1. DataOK /\ OneCall /\ Places(frame, state, current_process, stack)
    BY <1>2, RunningFacts
  <2>2. ASSUME AtRest
        PROVE  stack = current_process
    <3>1. frame = Run
      BY <2>2 DEF AtRest, frame
    <3> QED
      BY <2>1, <3>1, FrameTypes DEF Places, Switching
  <2> QED
    BY <2>1, <2>2 DEF ContextsAreOwn, OneCall, DataOK
<1> QED
  BY <1>1, <1>2, RunningInit, PTL DEF Spec

-----------------------------------------------------------------------------
(* The rings.                                                              *)

\* The links nx make rings of the queues rq: each of processes of al, and each of one
\* kind.
Sound(nx, rq, al, kind) ==
    \A q \in Queues : rq[q] # NULL =>
        /\ Closed(nx, rq[q])
        /\ \A p \in Reachable(nx, rq[q]) : kind[p] = q /\ p \in al

Kind == [p \in Procs |-> QueueOf(p)]

\* What Sound says of one queue, with what follows of a ring.
LEMMA SoundFacts ==
    ASSUME NEW nx \in Links, NEW rq \in QueuesType, NEW al, NEW kind,
           Sound(nx, rq, al, kind), NEW q \in Queues, rq[q] # NULL
    PROVE  /\ rq[q] \in Procs /\ Closed(nx, rq[q])
           /\ rq[q] \in Reachable(nx, rq[q]) /\ Reachable(nx, rq[q]) \subseteq Procs
           /\ \A p \in Reachable(nx, rq[q]) :
                 kind[p] = q /\ p \in al /\ nx[p] \in Reachable(nx, rq[q])
<1>1. rq[q] \in Procs
  BY DEF QueuesType
<1> QED
  BY <1>1, RingFacts DEF Sound

\* Queues without a process have no ring.
LEMMA NoRing ==
    ASSUME NEW nx \in Links
    PROVE  Reachable(nx, NULL) = {}
<1> DEFINE S == {}
<1>1. NULL \in S \cup {NULL} /\ \A x \in S : nx[x] \in S \cup {NULL}
  OBVIOUS
<1> HIDE DEF S
<1>2. Reachable(nx, NULL) \subseteq S
  BY <1>1, ReachLeast
<1> QED
  BY <1>2 DEF S

LEMMA KindFacts ==
    ASSUME DataOK
    PROVE  \A p \in Procs : Kind[p] = QueueOf(p) /\ Kind[p] \in Queues
BY QueueOfType DEF Kind

\* The invariant that the runs check.
LEMMA SoundRings ==
    ASSUME DataOK
    PROVE  Sound(next, ready_queue, allocated, Kind) <=> RingsClosed /\ RingsApart
<1>0. next \in Links /\ ready_queue \in QueuesType
  BY DEF DataOK
<1>1. ASSUME NEW q \in Queues
      PROVE  Reachable(next, ready_queue[q]) \subseteq Procs
  BY <1>0, ReachFacts DEF QueuesType
<1>2. ASSUME NEW q \in Queues, ready_queue[q] = NULL
      PROVE  Reachable(next, ready_queue[q]) = {}
  BY <1>0, <1>2, NoRing
<1>3. ASSUME Sound(next, ready_queue, allocated, Kind)
      PROVE  RingsClosed /\ RingsApart
  BY <1>1, <1>2, <1>3, KindFacts DEF Sound, RingsClosed, RingsApart
<1>4. ASSUME RingsClosed, RingsApart
      PROVE  Sound(next, ready_queue, allocated, Kind)
  BY <1>1, <1>4, KindFacts DEF Sound, RingsClosed, RingsApart
<1> QED
  BY <1>3, <1>4

\* Links that change outside the rings, and other processes that come or go.
LEMMA OutsideSound ==
    ASSUME NEW nx \in Links, NEW rq \in QueuesType, NEW al, NEW kind,
           Sound(nx, rq, al, kind), NEW nn \in Links, NEW al2, NEW kind2,
           \A q \in Queues : rq[q] # NULL => \A x \in Reachable(nx, rq[q]) :
              nn[x] = nx[x] /\ kind2[x] = kind[x] /\ x \in al2
    PROVE  Sound(nn, rq, al2, kind2)
<1> SUFFICES ASSUME NEW q \in Queues, rq[q] # NULL
             PROVE  /\ Closed(nn, rq[q])
                    /\ \A x \in Reachable(nn, rq[q]) : kind2[x] = q /\ x \in al2
  BY DEF Sound
<1>1. /\ rq[q] \in Procs /\ Closed(nx, rq[q])
      /\ \A x \in Reachable(nx, rq[q]) : kind[x] = q
  BY SoundFacts
<1>2. \A x \in Reachable(nx, rq[q]) : nn[x] = nx[x]
  OBVIOUS
<1>3. \A x \in Reachable(nx, rq[q]) : kind2[x] = kind[x] /\ x \in al2
  OBVIOUS
<1>4. Closed(nn, rq[q]) /\ Reachable(nn, rq[q]) \subseteq Reachable(nx, rq[q])
  BY <1>1, <1>2, Unaffected
<1> QED
  BY <1>1, <1>3, <1>4

\* A change of one ring: the links of the processes of one kind, and that queue's head.
LEMMA OneRing ==
    ASSUME NEW nx \in Links, NEW rq \in QueuesType, NEW al, NEW kind,
           Sound(nx, rq, al, kind), NEW nn \in Links, NEW rr \in QueuesType, NEW b \in Queues,
           \A x \in Procs : kind[x] # b => nn[x] = nx[x],
           \A q \in Queues \ {b} : rr[q] = rq[q],
           rr[b] # NULL => /\ Closed(nn, rr[b])
                           /\ \A x \in Reachable(nn, rr[b]) : kind[x] = b /\ x \in al
    PROVE  Sound(nn, rr, al, kind)
<1> SUFFICES ASSUME NEW q \in Queues, rr[q] # NULL
             PROVE  /\ Closed(nn, rr[q])
                    /\ \A x \in Reachable(nn, rr[q]) : kind[x] = q /\ x \in al
  BY DEF Sound
<1>1. CASE q = b
  BY <1>1
<1>2. CASE q # b
  <2>1. rr[q] = rq[q] /\ rq[q] # NULL
    BY <1>2
  <2>2. /\ rq[q] \in Procs /\ Closed(nx, rq[q])
        /\ \A x \in Reachable(nx, rq[q]) : x \in Procs /\ kind[x] = q /\ x \in al
    BY <2>1, SoundFacts
  <2>3. \A x \in Reachable(nx, rq[q]) : nn[x] = nx[x]
    BY <1>2, <2>2
  <2>4. Closed(nn, rq[q]) /\ Reachable(nn, rq[q]) \subseteq Reachable(nx, rq[q])
    BY <2>2, <2>3, Unaffected
  <2> QED
    BY <2>1, <2>2, <2>4
<1> QED
  BY <1>1, <1>2

\* scheduler_add_process() into an empty queue.
LEMMA AloneSound ==
    ASSUME NEW nx \in Links, NEW rq \in QueuesType, NEW al, NEW kind,
           Sound(nx, rq, al, kind), NEW p \in Procs, p \in al, NEW b \in Queues, kind[p] = b
    PROVE  Sound([nx EXCEPT ![p] = p], [rq EXCEPT ![b] = p], al, kind)
<1> DEFINE nn == [nx EXCEPT ![p] = p]
           rr == [rq EXCEPT ![b] = p]
<1>1. nn \in Links /\ nn[p] = p /\ \A x \in Procs \ {p} : nn[x] = nx[x]
  BY DEF Links
<1>2. rr \in QueuesType /\ rr[b] = p /\ \A q \in Queues \ {b} : rr[q] = rq[q]
  BY DEF QueuesType
<1> HIDE DEF nn, rr
<1>3. Closed(nn, p) /\ Reachable(nn, p) \subseteq {p}
  <2>1. Returns(nn, p)
    BY <1>1 DEF Returns
  <2>2. Reachable(nn, p) \subseteq {p}
    BY <1>1, ReachLeast
  <2> QED
    BY <1>1, <2>1, <2>2, ReturnsClosed
<1>4. /\ \A x \in Procs : kind[x] # b => nn[x] = nx[x]
      /\ rr[b] # NULL => /\ Closed(nn, rr[b])
                         /\ \A x \in Reachable(nn, rr[b]) : kind[x] = b /\ x \in al
  BY <1>1, <1>2, <1>3
<1>5. Sound(nn, rr, al, kind)
  BY <1>1, <1>2, <1>4, OneRing
<1> QED
  BY <1>5 DEF nn, rr

\* scheduler_add_process() into a queue with processes: after any one of them.
LEMMA InsertSound ==
    ASSUME NEW nx \in Links, NEW rq \in QueuesType, NEW al, NEW kind,
           Sound(nx, rq, al, kind), NEW p \in Procs, p \in al, NEW b \in Queues, kind[p] = b,
           rq[b] # NULL, NEW l \in Reachable(nx, rq[b])
    PROVE  Sound([[nx EXCEPT ![l] = p] EXCEPT ![p] = rq[b]], rq, al, kind)
<1> DEFINE nn == [[nx EXCEPT ![l] = p] EXCEPT ![p] = rq[b]]
<1>1. /\ rq[b] \in Procs /\ Closed(nx, rq[b]) /\ l \in Procs /\ kind[l] = b
      /\ \A x \in Reachable(nx, rq[b]) : kind[x] = b /\ x \in al
  BY SoundFacts
<1>2. Closed(nn, rq[b]) /\ Reachable(nn, rq[b]) \subseteq Reachable(nx, rq[b]) \cup {p}
  BY <1>1, Inserted
<1>3. nn \in Links /\ \A x \in Procs \ {l, p} : nn[x] = nx[x]
  BY <1>1 DEF Links
<1> HIDE DEF nn
<1>4. /\ \A x \in Procs : kind[x] # b => nn[x] = nx[x]
      /\ \A x \in Reachable(nn, rq[b]) : kind[x] = b /\ x \in al
  BY <1>1, <1>2, <1>3
<1>5. Sound(nn, rq, al, kind)
  BY <1>2, <1>3, <1>4, OneRing
<1> QED
  BY <1>5 DEF nn

\* The head of a queue moves on in its ring, or the queue is emptied.
LEMMA MovedSound ==
    ASSUME NEW nx \in Links, NEW rq \in QueuesType, NEW al, NEW kind,
           Sound(nx, rq, al, kind), NEW b \in Queues, NEW g,
           g = NULL \/ (rq[b] # NULL /\ g \in Reachable(nx, rq[b]))
    PROVE  Sound(nx, [rq EXCEPT ![b] = g], al, kind)
<1> DEFINE rr == [rq EXCEPT ![b] = g]
<1>1. ASSUME g # NULL
      PROVE  /\ g \in Procs /\ Closed(nx, g)
             /\ \A x \in Reachable(nx, g) : kind[x] = b /\ x \in al
  <2>1. /\ rq[b] \in Procs /\ Closed(nx, rq[b]) /\ g \in Procs
        /\ \A x \in Reachable(nx, rq[b]) : kind[x] = b /\ x \in al
    BY <1>1, SoundFacts
  <2>2. Closed(nx, g) /\ Reachable(nx, g) \subseteq Reachable(nx, rq[b])
    BY <1>1, <2>1, Rotation
  <2> QED
    BY <2>1, <2>2
<1>2. rr \in QueuesType /\ rr[b] = g /\ \A q \in Queues \ {b} : rr[q] = rq[q]
  BY <1>1 DEF QueuesType
<1> HIDE DEF rr
<1>3. Sound(nx, rr, al, kind)
  BY <1>1, <1>2, OneRing
<1> QED
  BY <1>3 DEF rr

\* scheduler_remove_process(): p leaves its ring, of more than one process, after l; and
\* if it was the head, the next one is.
LEMMA RemovedSound ==
    ASSUME NEW nx \in Links, NEW rq \in QueuesType, NEW al, NEW kind,
           Sound(nx, rq, al, kind), NEW b \in Queues, rq[b] # NULL, nx[rq[b]] # rq[b],
           NEW l \in Reachable(nx, rq[b]), NEW p \in Procs, nx[l] = p
    PROVE  LET nn == [nx EXCEPT ![l] = nx[p]]
           IN  Sound(nn, IF rq[b] = p THEN [rq EXCEPT ![b] = nn[p]] ELSE rq, al, kind)
<1> DEFINE h == rq[b]
           R == Reachable(nx, h)
           nn == [nx EXCEPT ![l] = nx[p]]
           rr == IF h = p THEN [rq EXCEPT ![b] = nn[p]] ELSE rq
<1>1. /\ h \in Procs /\ Closed(nx, h) /\ h \in R /\ R \subseteq Procs /\ l \in R
      /\ \A x \in R : kind[x] = b /\ x \in al /\ nx[x] \in R
  BY SoundFacts
<1>2. p \in R /\ nx[p] \in R /\ nx[p] \in Procs /\ l \in Procs
  BY <1>1
<1>3. nn \in Links /\ nn[l] = nx[p] /\ \A x \in Procs \ {l} : nn[x] = nx[x]
  BY <1>2 DEF Links
<1>4. CASE h # p
  <2>1. Closed(nn, h) /\ Reachable(nn, h) \subseteq R
    BY <1>1, <1>2, <1>4, Shortened
  <2> HIDE DEF nn, R
  <2>2. Sound(nn, rq, al, kind)
    BY <1>1, <1>2, <1>3, <2>1, OneRing
  <2> QED
    BY <1>4, <2>2 DEF nn
<1>5. CASE h = p
  <2>1. l # h /\ nx[h] # h /\ nn[p] = nx[h] /\ nx[h] \in R /\ nx[h] \in Procs
    BY <1>2, <1>3, <1>5
  <2>2. Closed(nx, nx[h]) /\ Reachable(nx, nx[h]) \subseteq R
    BY <1>1, <2>1, Rotation
  <2>3. Closed(nn, nx[h]) /\ Reachable(nn, nx[h]) \subseteq Reachable(nx, nx[h])
    BY <1>2, <1>5, <2>1, <2>2, Shortened
  <2>4. rr = [rq EXCEPT ![b] = nx[h]]
    BY <1>5, <2>1
  <2>5. rr \in QueuesType /\ rr[b] = nx[h] /\ \A q \in Queues \ {b} : rr[q] = rq[q]
    BY <2>1, <2>4 DEF QueuesType
  <2> HIDE DEF nn, rr, R
  <2>6. Sound(nn, rr, al, kind)
    BY <1>1, <1>2, <1>3, <2>1, <2>2, <2>3, <2>5, OneRing
  <2> QED
    BY <2>6 DEF nn, rr
<1> QED
  BY <1>4, <1>5

\* The links and the heads as the second store of an insertion or of a removal will leave
\* them, and the processes without the one that is being ended.
Links2(f, nx, rq) ==
    IF f.pc = "add_self" THEN [nx EXCEPT ![f.process] = f.process]
    ELSE IF f.pc = "add_close" THEN [nx EXCEPT ![f.process] = rq[f.prio]]
    ELSE nx
Heads2(f, nx, rq) ==
    IF f.pc \in {"remove_head", "remove_move"} /\ rq[f.prio] = f.process
    THEN [rq EXCEPT ![f.prio] = nx[f.process]] ELSE rq
Alive(f, al) == IF f.pc \in Ends THEN al \ {f.process} ELSE al

\* What an insertion knows at each place.
Inserting(f, nx, rq, al, kind) ==
    /\ f.pc \in {"add", "add_quantum", "add_queue", "add_head", "add_self", "add_walk",
                 "add_link", "add_close"} => f.process \in al
    /\ f.pc \in {"add_head", "add_self", "add_walk", "add_link", "add_close"}
          => f.prio = kind[f.process]
    /\ f.pc \in {"add_walk", "add_link"} => f.p \in Reachable(nx, rq[f.prio])
    /\ f.pc \in {"add_walk", "add_link", "add_close"} => rq[f.prio] # NULL

\* What a removal knows.
Removing(f, nx, rq) ==
    /\ f.pc \in {"remove_walk", "remove_unlink"} =>
          /\ rq[f.prio] # NULL /\ nx[rq[f.prio]] # rq[f.prio]
          /\ f.p \in Reachable(nx, rq[f.prio])
    /\ f.pc = "remove_unlink" => nx[f.p] = f.process
    /\ f.pc = "remove_move" => rq[f.prio] = f.process

\* What the selection knows: no queue above prio, or above the process's, has a process.
Above(p, kind) == IF p = idle_process THEN 0 ELSE kind[p]
Choosing(f, rq, al, kind) ==
    /\ f.pc \in {"select", "rotate"} => \A q \in Queues : q > f.prio => rq[q] = NULL
    /\ f.pc = "rotate" => rq[f.prio] # NULL /\ f.process = rq[f.prio]
    /\ f.pc \in {"compare", "set_current"} =>
          \A q \in Queues : q > Above(f.process, kind) => rq[q] = NULL
    /\ f.pc \in {"compare", "set_current", "set_state"} => f.process \in al

\* What process.c knows of process_list and of the process that ends.
Listing(f, nx, st) ==
    /\ f.pc = "list_link" => nx[f.p] = NULL
    /\ f.pc = "unlist_unlink" => nx[f.p] = f.process
    /\ f.pc \in Ends => st[f.process] = "TERMINATED"

\* The queues are rings, or one store from it.
Rings(f, nx, rq, al, kind, st) ==
    /\ f.pc # "lost"
    /\ Sound(Links2(f, nx, rq), Heads2(f, nx, rq), Alive(f, al), kind)
    /\ Inserting(f, nx, rq, al, kind)
    /\ Removing(f, nx, rq)
    /\ Choosing(f, rq, al, kind)
    /\ Listing(f, nx, st)

RingRest ==
    /\ Rings(frame, next, ready_queue, allocated, Kind, state)
    /\ \A p \in Procs : state[p] = "RUNNING" => p \in allocated
    /\ priority[idle_process] = 0

\* The inductive invariant.
RingInv == RunningInv /\ RingRest

\* The places where the rings are all that is known.
Quiet == {"run", "schedule", "remove", "remove_only", "set_quantum", "switch", "list",
          "list_walk", "reschedule"}

LEMMA QuietRings ==
    ASSUME NEW f, f.pc \in Quiet, NEW nx, NEW rq, NEW al, NEW kind, NEW st,
           Sound(nx, rq, al, kind)
    PROVE  Rings(f, nx, rq, al, kind, st)
BY DEF Rings, Links2, Heads2, Alive, Inserting, Removing, Choosing, Listing, Quiet, Ends

\* A step that leaves processes, priorities and states alone.
LEMMA RingSame ==
    ASSUME RingInv, UNCHANGED <<allocated, priority, state>>,
           Rings(frame', next', ready_queue', allocated, Kind, state)
    PROVE  RingRest'
<1>1. Kind' = Kind
  BY DEF Kind, QueueOf
<1> QED
  BY <1>1 DEF RingInv, RingRest

\* What is known at the place where the step begins.
LEMMA RingInvFacts ==
    ASSUME RingInv
    PROVE  /\ RunningInv /\ DataOK /\ CallsOK /\ OneCall
           /\ Places(frame, state, current_process, stack)
           /\ frame \in Frames /\ frame.pc \in Pcs /\ frame.prio \in Queues
           /\ next \in Links /\ ready_queue \in QueuesType
           /\ Rings(frame, next, ready_queue, allocated, Kind, state)
           /\ \A p \in Procs : Kind[p] = QueueOf(p) /\ Kind[p] \in Queues
           /\ Kind[idle_process] = 0
           /\ frame.pc \notin BetweenStores =>
                 Sound(next, ready_queue, Alive(frame, allocated), Kind)
           /\ frame.pc \notin BetweenStores \cup Ends =>
                 Sound(next, ready_queue, allocated, Kind)
<1>1. /\ RunningInv /\ DataOK /\ CallsOK /\ OneCall
      /\ Places(frame, state, current_process, stack)
      /\ frame \in Frames /\ frame.pc \in Pcs /\ frame.prio \in Queues
      /\ next \in Links /\ ready_queue \in QueuesType
  BY RunningFacts DEF RingInv, DataOK
<1>2. /\ \A p \in Procs : Kind[p] = QueueOf(p) /\ Kind[p] \in Queues
      /\ Rings(frame, next, ready_queue, allocated, Kind, state)
      /\ priority[idle_process] = 0
  BY <1>1, KindFacts DEF RingInv, RingRest
<1>3. Kind[idle_process] = 0
  BY <1>2, Size DEF QueueOf
<1>4. frame.pc \notin BetweenStores =>
         Sound(next, ready_queue, Alive(frame, allocated), Kind)
  BY <1>2 DEF Rings, Links2, Heads2, BetweenStores
<1>5. frame.pc \notin Ends => Alive(frame, allocated) = allocated
  BY DEF Alive
<1> QED
  BY <1>1, <1>2, <1>3, <1>4, <1>5

LEMMA RingInit == Init => RingInv
<1> SUFFICES ASSUME Init
             PROVE  RingInv
  OBVIOUS
<1>1. RunningInv
  BY RunningInit
<1>2. frame = Run
  BY DEF Init, frame
<1>3. Sound(next, ready_queue, allocated, Kind)
  BY DEF Init, Sound
<1>4. Rings(frame, next, ready_queue, allocated, Kind, state)
  BY <1>2, <1>3, FrameTypes, QuietRings DEF Quiet
<1> QED
  BY <1>1, <1>4, Size DEF Init, RingInv, RingRest

\* The steps of scheduler_add_process().
LEMMA AddRings ==
    ASSUME RingInv,
           \/ add \/ add_quantum \/ add_queue \/ add_head \/ add_self
           \/ add_walk \/ add_link \/ add_close
    PROVE  RingRest'
<1>0. /\ DataOK /\ CallsOK /\ OneCall /\ Places(frame, state, current_process, stack)
      /\ frame \in Frames /\ frame.pc \in Pcs /\ frame.prio \in Queues
      /\ next \in Links /\ ready_queue \in QueuesType
      /\ Rings(frame, next, ready_queue, allocated, Kind, state)
      /\ \A p \in Procs : Kind[p] = QueueOf(p) /\ Kind[p] \in Queues
      /\ DEFAULT_QUANTUM \in 0 .. DEFAULT_QUANTUM
  BY RingInvFacts, SchedulerAssumption
<1>1. frame.pc \notin BetweenStores \cup Ends => Sound(next, ready_queue, allocated, Kind)
  BY RingInvFacts
<1>2. CASE add
  <2>1. frame.pc = "add" /\ StoreState(frame.process, "READY") /\ Then("add_quantum")
    BY <1>2 DEF add, At
  <2>2. /\ state' = [state EXCEPT ![frame.process] = "READY"]
        /\ UNCHANGED <<links, creation, ctx>>
    BY <1>0, <2>1, StoreStateFacts
  <2>3. frame'.pc = "add_quantum" /\ frame'.process = frame.process
    BY <1>0, <2>1, <2>2, ThenFacts DEF Pcs
  <2>4. Sound(next, ready_queue, allocated, Kind) /\ frame.process \in allocated
    BY <1>0, <1>1, <2>1 DEF Rings, Inserting, BetweenStores, Ends
  <2>5. Rings(frame', next, ready_queue, allocated, Kind, state')
    BY <2>3, <2>4
       DEF Rings, Links2, Heads2, Alive, Inserting, Removing, Choosing, Listing, Ends
  <2>6. Kind' = Kind /\ UNCHANGED <<next, ready_queue, allocated, priority>>
    BY <2>2 DEF Kind, QueueOf, links, creation
  <2>7. \A p \in Procs : state'[p] = "RUNNING" => state[p] = "RUNNING"
    BY <1>0, <2>2 DEF DataOK, StateType
  <2> QED
    BY <2>5, <2>6, <2>7 DEF RingInv, RingRest
<1>3. CASE add_quantum
  <2>1. /\ frame.pc = "add_quantum" /\ StoreQuantum(frame.process, DEFAULT_QUANTUM)
        /\ Then("add_queue")
    BY <1>3 DEF add_quantum, At
  <2>2. UNCHANGED <<next, ready_queue, allocated, priority, state, ctx>>
    BY <1>0, <2>1, StoreQuantumFacts DEF links, creation
  <2>3. frame'.pc = "add_queue" /\ frame'.process = frame.process
    BY <1>0, <2>1, <2>2, ThenFacts DEF Pcs
  <2>4. Sound(next, ready_queue, allocated, Kind) /\ frame.process \in allocated
    BY <1>0, <1>1, <2>1 DEF Rings, Inserting, BetweenStores, Ends
  <2>5. Rings(frame', next, ready_queue, allocated, Kind, state)
    BY <2>3, <2>4
       DEF Rings, Links2, Heads2, Alive, Inserting, Removing, Choosing, Listing, Ends
  <2> QED
    BY <2>2, <2>5, RingSame
<1>4. CASE add_queue
  <2> DEFINE q == QueueOf(frame.process)
             f == [frame EXCEPT !.pc = IF ready_queue[q] = NULL THEN "add_head" ELSE "add_walk",
                                !.p = ready_queue[q], !.prio = q]
  <2>1. frame.pc = "add_queue" /\ NoStore /\ Goto(f)
    BY <1>4 DEF add_queue, At
  <2>2. UNCHANGED <<next, ready_queue, allocated, priority, state, ctx>>
    BY <1>0, <2>1, NoStoreFacts DEF links, creation
  <2>3. /\ frame.process \in Procs /\ q = Kind[frame.process] /\ q \in Queues
        /\ ready_queue[q] \in Procs \cup {NULL}
    BY <1>0, <2>1 DEF Places, HasProcess, QueuesType
  <2>4. Sound(next, ready_queue, allocated, Kind) /\ frame.process \in allocated
    BY <1>0, <1>1, <2>1 DEF Rings, Inserting, BetweenStores, Ends
  <2> HIDE DEF q
  <2>5. /\ f \in Frames /\ f.process = frame.process /\ f.p = ready_queue[q] /\ f.prio = q
        /\ f.pc = IF ready_queue[q] = NULL THEN "add_head" ELSE "add_walk"
    BY <1>0, <2>3 DEF Frames, Pcs
  <2> HIDE DEF f
  <2>6. frame' = f
    BY <1>0, <2>1, <2>2, <2>5, GotoFacts
  <2>7. ready_queue[q] # NULL => ready_queue[q] \in Reachable(next, ready_queue[q])
    BY <1>0, <2>3, <2>4, SoundFacts
  <2>8. Rings(f, next, ready_queue, allocated, Kind, state)
    BY <2>3, <2>4, <2>5, <2>7
       DEF Rings, Links2, Heads2, Alive, Inserting, Removing, Choosing, Listing, Ends
  <2> QED
    BY <2>2, <2>6, <2>8, RingSame
<1>5. CASE add_head
  <2>1. frame.pc = "add_head" /\ StoreHead(frame.process) /\ Then("add_self")
    BY <1>5 DEF add_head, At
  <2>2. frame.process \in Procs
    BY <1>0, <2>1 DEF Places, HasProcess
  <2>3. /\ ready_queue' = [ready_queue EXCEPT ![frame.prio] = frame.process]
        /\ UNCHANGED <<next, allocated, priority, state, ctx>>
    BY <1>0, <2>1, <2>2, StoreHeadFacts DEF creation
  <2>4. frame'.pc = "add_self" /\ frame'.process = frame.process /\ frame'.prio = frame.prio
    BY <1>0, <2>1, <2>3, ThenFacts DEF Pcs
  <2>5. /\ Sound(next, ready_queue, allocated, Kind) /\ frame.process \in allocated
        /\ frame.prio = Kind[frame.process]
    BY <1>0, <1>1, <2>1 DEF Rings, Inserting, BetweenStores, Ends
  <2>6. Sound([next EXCEPT ![frame.process] = frame.process], ready_queue', allocated, Kind)
    BY <1>0, <2>2, <2>3, <2>5, AloneSound
  <2>7. Rings(frame', next, ready_queue', allocated, Kind, state)
    BY <2>4, <2>5, <2>6
       DEF Rings, Links2, Heads2, Alive, Inserting, Removing, Choosing, Listing, Ends
  <2> QED
    BY <2>3, <2>7, RingSame
\* The last store of either kind.
<1>6. ASSUME frame.pc \in {"add_self", "add_close"}, AddReturns, next' \in Links,
             UNCHANGED <<ctx, ready_queue, allocated, priority, state>>,
             Sound(next', ready_queue, allocated, Kind)
      PROVE  RingRest'
  <2>1. CASE frame.op = "schedule"
    <3>1. Goto(Select)
      BY <1>6, <2>1 DEF AddReturns
    <3>2. frame' = Select
      BY <1>0, <1>6, <3>1, FrameTypes, GotoFacts
    <3>3. \A q \in Queues : ~(q > 3)
      BY DEF Queues
    <3>4. Rings(Select, next', ready_queue, allocated, Kind, state)
      BY <1>6, <3>3, FrameTypes
         DEF Rings, Links2, Heads2, Alive, Inserting, Removing, Choosing, Listing, Ends
    <3> QED
      BY <1>6, <3>2, <3>4, RingSame
  <2>2. CASE frame.op # "schedule"
    <3>1. Return
      BY <1>6, <2>2 DEF AddReturns
    <3>2. frame' = Run
      BY <1>0, <1>6, <3>1, ReturnFacts
    <3>3. Rings(Run, next', ready_queue, allocated, Kind, state)
      BY <1>6, FrameTypes, QuietRings DEF Quiet
    <3> QED
      BY <1>6, <3>2, <3>3, RingSame
  <2> QED
    BY <2>1, <2>2
<1>7. CASE add_self
  <2>1. frame.pc = "add_self" /\ StoreNext(frame.process, frame.process) /\ AddReturns
    BY <1>7 DEF add_self, At
  <2>2. frame.process \in Procs
    BY <1>0, <2>1 DEF Places, HasProcess
  <2>3. /\ next' = [next EXCEPT ![frame.process] = frame.process] /\ next' \in Links
        /\ UNCHANGED <<ready_queue, allocated, priority, state, ctx>>
    BY <1>0, <2>1, <2>2, StoreNextFacts DEF creation, DataOK
  <2>4. Sound(next', ready_queue, allocated, Kind)
    BY <1>0, <2>1, <2>3 DEF Rings, Links2, Heads2, Alive, Ends
  <2> QED
    BY <1>6, <2>1, <2>3, <2>4
<1>8. CASE add_walk
  <2>1. /\ frame.pc = "add_walk" /\ NoStore
        /\ Then("add_link") \/ Follow("add_walk", next[frame.p])
    BY <1>8 DEF add_walk, At
  <2>2. UNCHANGED <<next, ready_queue, allocated, priority, state, ctx>>
    BY <1>0, <2>1, NoStoreFacts DEF links, creation
  <2>3. /\ Sound(next, ready_queue, allocated, Kind) /\ frame.process \in allocated
        /\ frame.prio = Kind[frame.process] /\ ready_queue[frame.prio] # NULL
        /\ frame.p \in Reachable(next, ready_queue[frame.prio])
    BY <1>0, <1>1, <2>1 DEF Rings, Inserting, BetweenStores, Ends
  <2>4. next[frame.p] \in Reachable(next, ready_queue[frame.prio]) /\ next[frame.p] \in Procs
    BY <1>0, <2>3, SoundFacts
  <2>5. /\ frame'.process = frame.process /\ frame'.prio = frame.prio
        /\ \/ frame'.pc = "add_link" /\ frame'.p = frame.p
           \/ frame'.pc = "add_walk" /\ frame'.p = next[frame.p]
    <3>1. CASE Then("add_link")
      BY <1>0, <2>2, <3>1, ThenFacts DEF Pcs
    <3>2. CASE Follow("add_walk", next[frame.p])
      BY <1>0, <2>2, <2>4, <3>2, FollowFacts, Size DEF Pcs
    <3> QED
      BY <2>1, <3>1, <3>2
  <2>6. Rings(frame', next, ready_queue, allocated, Kind, state)
    BY <2>3, <2>4, <2>5
       DEF Rings, Links2, Heads2, Alive, Inserting, Removing, Choosing, Listing, Ends
  <2> QED
    BY <2>2, <2>6, RingSame
<1>9. CASE add_link
  <2>1. frame.pc = "add_link" /\ StoreNext(frame.p, frame.process) /\ Then("add_close")
    BY <1>9 DEF add_link, At
  <2>2. frame.process \in Procs /\ frame.p \in Procs
    BY <1>0, <2>1 DEF Places, HasProcess, HasP
  <2>3. /\ next' = [next EXCEPT ![frame.p] = frame.process]
        /\ UNCHANGED <<ready_queue, allocated, priority, state, ctx>>
    BY <1>0, <2>1, <2>2, StoreNextFacts DEF creation
  <2>4. frame'.pc = "add_close" /\ frame'.process = frame.process /\ frame'.prio = frame.prio
    BY <1>0, <2>1, <2>3, ThenFacts DEF Pcs
  <2>5. /\ Sound(next, ready_queue, allocated, Kind) /\ frame.process \in allocated
        /\ frame.prio = Kind[frame.process] /\ ready_queue[frame.prio] # NULL
        /\ frame.p \in Reachable(next, ready_queue[frame.prio])
    BY <1>0, <1>1, <2>1 DEF Rings, Inserting, BetweenStores, Ends
  <2>6. Sound([next' EXCEPT ![frame.process] = ready_queue[frame.prio]], ready_queue,
              allocated, Kind)
    BY <1>0, <2>2, <2>3, <2>5, InsertSound
  <2>7. Rings(frame', next', ready_queue, allocated, Kind, state)
    BY <2>4, <2>5, <2>6
       DEF Rings, Links2, Heads2, Alive, Inserting, Removing, Choosing, Listing, Ends
  <2> QED
    BY <2>3, <2>7, RingSame
<1>10. CASE add_close
  <2>1. /\ frame.pc = "add_close" /\ AddReturns
        /\ StoreNext(frame.process, ready_queue[frame.prio])
    BY <1>10 DEF add_close, At, Head
  <2>2. ready_queue[frame.prio] \in Procs \cup {NULL}
    BY <1>0 DEF QueuesType
  <2>3. /\ next' = [next EXCEPT ![frame.process] = ready_queue[frame.prio]] /\ next' \in Links
        /\ UNCHANGED <<ready_queue, allocated, priority, state, ctx>>
    BY <1>0, <2>1, <2>2, StoreNextFacts DEF creation, DataOK
  <2>4. Sound(next', ready_queue, allocated, Kind)
    BY <1>0, <2>1, <2>3 DEF Rings, Links2, Heads2, Alive, Ends
  <2> QED
    BY <1>6, <2>1, <2>3, <2>4
<1> QED
  BY <1>2, <1>3, <1>4, <1>5, <1>7, <1>8, <1>9, <1>10

\* A step that returns, or goes on where the rings are all that is known.
LEMMA QuietSame ==
    ASSUME RingInv, UNCHANGED <<allocated, priority, state>>, frame'.pc \in Quiet,
           Sound(next', ready_queue', allocated, Kind)
    PROVE  RingRest'
<1>1. Rings(frame', next', ready_queue', allocated, Kind, state)
  BY QuietRings
<1> QED
  BY <1>1, RingSame

\* The steps of scheduler_remove_process().
LEMMA RemoveRings ==
    ASSUME RingInv,
           \/ remove \/ remove_only \/ remove_walk
           \/ remove_unlink \/ remove_head \/ remove_move
    PROVE  RingRest'
<1> DEFINE head == ready_queue[frame.prio]
<1>0. /\ DataOK /\ CallsOK /\ OneCall /\ Places(frame, state, current_process, stack)
      /\ frame \in Frames /\ frame.pc \in Pcs /\ frame.prio \in Queues
      /\ next \in Links /\ ready_queue \in QueuesType
      /\ Rings(frame, next, ready_queue, allocated, Kind, state)
      /\ head \in Procs \cup {NULL} /\ Head = head
      /\ frame.pc \notin BetweenStores \cup Ends => Sound(next, ready_queue, allocated, Kind)
  BY RingInvFacts DEF QueuesType, Head
<1>1. ASSUME UNCHANGED ctx, Return
      PROVE  frame'.pc \in Quiet
  BY <1>0, <1>1, ReturnFacts, FrameTypes DEF Quiet
<1> HIDE DEF head
<1>2. CASE remove
  <2>1. /\ frame.pc = "remove" /\ NoStore
        /\ \/ Return
           \/ Then("remove_only")
           \/ head # NULL /\ next[head] # head /\ Follow("remove_walk", head)
    BY <1>0, <1>2 DEF remove, At
  <2>2. UNCHANGED <<next, ready_queue, allocated, priority, state, ctx>>
    BY <1>0, <2>1, NoStoreFacts DEF links, creation
  <2>3. Sound(next, ready_queue, allocated, Kind)
    BY <1>0, <2>1 DEF BetweenStores, Ends
  <2>4. CASE Return
    BY <1>1, <2>2, <2>3, <2>4, QuietSame
  <2>5. CASE Then("remove_only")
    <3>1. frame'.pc \in Quiet
      BY <1>0, <2>2, <2>5, ThenFacts DEF Pcs, Quiet
    <3> QED
      BY <2>2, <2>3, <3>1, QuietSame
  <2>6. CASE head # NULL /\ next[head] # head /\ Follow("remove_walk", head)
    <3>1. /\ frame'.pc = "remove_walk" /\ frame'.prio = frame.prio /\ frame'.p = head
      BY <1>0, <2>2, <2>6, FollowFacts DEF Pcs
    <3>2. head \in Reachable(next, head)
      BY <1>0, <2>3, <2>6, SoundFacts DEF head
    <3>3. Rings(frame', next, ready_queue, allocated, Kind, state)
      BY <2>3, <2>6, <3>1, <3>2
         DEF Rings, Links2, Heads2, Alive, Inserting, Removing, Choosing, Listing, Ends, head
    <3> QED
      BY <2>2, <3>3, RingSame
  <2> QED
    BY <2>1, <2>4, <2>5, <2>6
<1>3. CASE remove_only
  <2>1. frame.pc = "remove_only" /\ StoreHead(NULL) /\ Return
    BY <1>3 DEF remove_only, At
  <2>2. /\ ready_queue' = [ready_queue EXCEPT ![frame.prio] = NULL]
        /\ UNCHANGED <<next, allocated, priority, state, ctx>>
    BY <1>0, <2>1, StoreHeadFacts DEF creation
  <2>3. Sound(next, ready_queue, allocated, Kind)
    BY <1>0, <2>1 DEF BetweenStores, Ends
  <2>4. Sound(next, ready_queue', allocated, Kind)
    BY <1>0, <2>2, <2>3, MovedSound
  <2> QED
    BY <1>1, <2>1, <2>2, <2>4, QuietSame
<1>4. CASE remove_walk
  <2>1. /\ frame.pc = "remove_walk" /\ NoStore
        /\ \/ next[frame.p] = frame.process /\ Then("remove_unlink")
           \/ Return
           \/ Follow("remove_walk", next[frame.p])
    BY <1>4 DEF remove_walk, At
  <2>2. UNCHANGED <<next, ready_queue, allocated, priority, state, ctx>>
    BY <1>0, <2>1, NoStoreFacts DEF links, creation
  <2>3. /\ Sound(next, ready_queue, allocated, Kind)
        /\ head # NULL /\ next[head] # head /\ frame.p \in Reachable(next, head)
    BY <1>0, <2>1 DEF Rings, Removing, BetweenStores, Ends, head
  <2>4. next[frame.p] \in Reachable(next, head) /\ next[frame.p] \in Procs
    BY <1>0, <2>3, SoundFacts DEF head
  <2>5. CASE Return
    BY <1>1, <2>2, <2>3, <2>5, QuietSame
  <2>6. ASSUME frame'.prio = frame.prio,
               \/ /\ frame'.pc = "remove_unlink" /\ frame'.p = frame.p
                  /\ next[frame.p] = frame'.process
               \/ frame'.pc = "remove_walk" /\ frame'.p = next[frame.p]
        PROVE  RingRest'
    <3>1. Rings(frame', next, ready_queue, allocated, Kind, state)
      BY <2>3, <2>4, <2>6
         DEF Rings, Links2, Heads2, Alive, Inserting, Removing, Choosing, Listing, Ends, head
    <3> QED
      BY <2>2, <3>1, RingSame
  <2>7. CASE next[frame.p] = frame.process /\ Then("remove_unlink")
    <3>1. /\ frame'.pc = "remove_unlink" /\ frame'.p = frame.p /\ frame'.prio = frame.prio
          /\ next[frame.p] = frame'.process
      BY <1>0, <2>2, <2>7, ThenFacts DEF Pcs
    <3> QED
      BY <2>6, <3>1
  <2>8. CASE Follow("remove_walk", next[frame.p])
    <3>1. /\ frame'.pc = "remove_walk" /\ frame'.p = next[frame.p] /\ frame'.prio = frame.prio
      BY <1>0, <2>2, <2>4, <2>8, FollowFacts, Size DEF Pcs
    <3> QED
      BY <2>6, <3>1
  <2> QED
    BY <2>1, <2>5, <2>7, <2>8
<1>5. CASE remove_unlink
  <2>1. /\ frame.pc = "remove_unlink" /\ StoreNext(frame.p, next[frame.process])
        /\ Then("remove_head")
    BY <1>5 DEF remove_unlink, At
  <2>2. frame.process \in Procs /\ next[frame.process] \in Procs \cup {NULL}
    BY <1>0, <2>1 DEF Places, HasProcess, Links
  <2>3. /\ next' = [next EXCEPT ![frame.p] = next[frame.process]]
        /\ UNCHANGED <<ready_queue, allocated, priority, state, ctx>>
    BY <1>0, <2>1, <2>2, StoreNextFacts DEF creation
  <2>4. frame'.pc = "remove_head" /\ frame'.process = frame.process /\ frame'.prio = frame.prio
    BY <1>0, <2>1, <2>3, ThenFacts DEF Pcs
  <2>5. /\ Sound(next, ready_queue, allocated, Kind)
        /\ head # NULL /\ next[head] # head /\ frame.p \in Reachable(next, head)
        /\ next[frame.p] = frame.process
    BY <1>0, <2>1 DEF Rings, Removing, BetweenStores, Ends, head
  <2>6. Sound(next', IF head = frame.process
                     THEN [ready_queue EXCEPT ![frame.prio] = next'[frame.process]]
                     ELSE ready_queue, allocated, Kind)
    BY <1>0, <2>2, <2>3, <2>5, RemovedSound DEF head
  <2>7. Rings(frame', next', ready_queue, allocated, Kind, state)
    BY <2>4, <2>6
       DEF Rings, Links2, Heads2, Alive, Inserting, Removing, Choosing, Listing, Ends, head
  <2> QED
    BY <2>3, <2>7, RingSame
<1>6. CASE remove_head
  <2>1. /\ frame.pc = "remove_head" /\ NoStore
        /\ \/ head = frame.process /\ Then("remove_move")
           \/ head # frame.process /\ Return
    BY <1>0, <1>6 DEF remove_head, At
  <2>2. UNCHANGED <<next, ready_queue, allocated, priority, state, ctx>>
    BY <1>0, <2>1, NoStoreFacts DEF links, creation
  <2>3. CASE head = frame.process /\ Then("remove_move")
    <3>1. /\ frame'.pc = "remove_move" /\ frame'.process = frame.process
          /\ frame'.prio = frame.prio
      BY <1>0, <2>2, <2>3, ThenFacts DEF Pcs
    <3>2. Rings(frame', next, ready_queue, allocated, Kind, state)
      BY <1>0, <2>1, <2>3, <3>1
         DEF Rings, Links2, Heads2, Alive, Inserting, Removing, Choosing, Listing, Ends, head
    <3> QED
      BY <2>2, <3>2, RingSame
  <2>4. CASE head # frame.process /\ Return
    <3>1. Sound(next, ready_queue, allocated, Kind)
      BY <1>0, <2>1, <2>4 DEF Rings, Links2, Heads2, Alive, Ends, head
    <3> QED
      BY <1>1, <2>2, <2>4, <3>1, QuietSame
  <2> QED
    BY <2>1, <2>3, <2>4
<1>7. CASE remove_move
  <2>1. frame.pc = "remove_move" /\ StoreHead(next[frame.process]) /\ Return
    BY <1>7 DEF remove_move, At
  <2>2. frame.process \in Procs /\ next[frame.process] \in Procs \cup {NULL}
    BY <1>0, <2>1 DEF Places, HasProcess, Links
  <2>3. /\ ready_queue' = [ready_queue EXCEPT ![frame.prio] = next[frame.process]]
        /\ UNCHANGED <<next, allocated, priority, state, ctx>>
    BY <1>0, <2>1, <2>2, StoreHeadFacts DEF creation
  <2>4. Sound(next, ready_queue', allocated, Kind)
    BY <1>0, <2>1, <2>3 DEF Rings, Links2, Heads2, Alive, Removing, Ends
  <2> QED
    BY <1>1, <2>1, <2>3, <2>4, QuietSame
<1> QED
  BY <1>2, <1>3, <1>4, <1>5, <1>6, <1>7

\* The steps of schedule().
LEMMA ScheduleRings ==
    ASSUME RingInv,
           \/ schedule \/ select_next_process \/ rotate \/ compare_same \/ compare_other
           \/ set_current \/ set_state \/ set_quantum \/ switch_to_process
    PROVE  RingRest'
<1> DEFINE head == ready_queue[frame.prio]
<1>0. /\ DataOK /\ CallsOK /\ OneCall /\ Places(frame, state, current_process, stack)
      /\ frame \in Frames /\ frame.pc \in Pcs /\ frame.prio \in Queues
      /\ next \in Links /\ ready_queue \in QueuesType
      /\ Rings(frame, next, ready_queue, allocated, Kind, state)
      /\ head \in Procs \cup {NULL} /\ current_process \in Procs
      /\ Kind[idle_process] = 0 /\ DEFAULT_QUANTUM \in 0 .. DEFAULT_QUANTUM
  BY RingInvFacts, SchedulerAssumption DEF QueuesType, DataOK
<1>1. frame.pc \notin BetweenStores \cup Ends => Sound(next, ready_queue, allocated, Kind)
  BY RingInvFacts
<1> HIDE DEF head
<1>2. CASE schedule
  <2> DEFINE f == Frame("schedule", "add", current_process, NULL, 0)
  <2>1. /\ frame.pc = "schedule" /\ NoStore
        /\ \/ state[current_process] = "RUNNING" /\ Goto(f)
           \/ Goto(Select)
    BY <1>2 DEF schedule, At
  <2>2. UNCHANGED <<next, ready_queue, allocated, priority, state, ctx>>
    BY <1>0, <2>1, NoStoreFacts DEF links, creation
  <2>3. Sound(next, ready_queue, allocated, Kind)
    BY <1>1, <2>1 DEF BetweenStores, Ends
  <2>4. CASE state[current_process] = "RUNNING" /\ Goto(f)
    <3>1. f \in Frames /\ f.pc = "add" /\ f.process = current_process
      BY <1>0 DEF Frame, Frames, Pcs, Queues
    <3> HIDE DEF f
    <3>2. frame' = f
      BY <1>0, <2>2, <2>4, <3>1, GotoFacts
    <3>3. current_process \in allocated
      BY <1>0, <2>4 DEF RingInv, RingRest
    <3>4. Rings(f, next, ready_queue, allocated, Kind, state)
      BY <2>3, <3>1, <3>3
         DEF Rings, Links2, Heads2, Alive, Inserting, Removing, Choosing, Listing, Ends
    <3> QED
      BY <2>2, <3>2, <3>4, RingSame
  <2>5. CASE Goto(Select)
    <3>1. frame' = Select
      BY <1>0, <2>2, <2>5, FrameTypes, GotoFacts
    <3>2. \A q \in Queues : ~(q > 3)
      BY DEF Queues
    <3>3. Rings(Select, next, ready_queue, allocated, Kind, state)
      BY <2>3, <3>2, FrameTypes
         DEF Rings, Links2, Heads2, Alive, Inserting, Removing, Choosing, Listing, Ends
    <3> QED
      BY <2>2, <3>1, <3>3, RingSame
  <2> QED
    BY <2>1, <2>4, <2>5
<1>3. CASE select_next_process
  <2> DEFINE f1 == [frame EXCEPT !.pc = "rotate", !.process = head, !.prio = frame.prio]
             f2 == [frame EXCEPT !.prio = frame.prio - 1]
             f3 == [frame EXCEPT !.pc = "compare", !.process = idle_process]
  <2>1. /\ frame.pc = "select" /\ NoStore
        /\ \/ head # NULL /\ Goto(f1)
           \/ head = NULL /\ frame.prio > 0 /\ Goto(f2)
           \/ head = NULL /\ frame.prio = 0 /\ Goto(f3)
    BY <1>3 DEF select_next_process, Turn, At, head
  <2>2. UNCHANGED <<next, ready_queue, allocated, priority, state, ctx>>
    BY <1>0, <2>1, NoStoreFacts DEF links, creation
  <2>3. /\ Sound(next, ready_queue, allocated, Kind)
        /\ \A q \in Queues : q > frame.prio => ready_queue[q] = NULL
    BY <1>0, <1>1, <2>1 DEF BetweenStores, Ends, Rings, Choosing
  <2>4. CASE head # NULL /\ Goto(f1)
    <3>1. f1 \in Frames /\ f1.pc = "rotate" /\ f1.process = head /\ f1.prio = frame.prio
      BY <1>0, <2>4 DEF Frames, Pcs
    <3> HIDE DEF f1
    <3>2. frame' = f1
      BY <1>0, <2>2, <2>4, <3>1, GotoFacts
    <3>3. Rings(f1, next, ready_queue, allocated, Kind, state)
      BY <2>3, <2>4, <3>1
         DEF Rings, Links2, Heads2, Alive, Inserting, Removing, Choosing, Listing, Ends, head
    <3> QED
      BY <2>2, <3>2, <3>3, RingSame
  <2>5. CASE head = NULL /\ frame.prio > 0 /\ Goto(f2)
    <3>1. f2 \in Frames /\ f2.pc = "select" /\ f2.prio = frame.prio - 1
      BY <1>0, <2>1, <2>5 DEF Frames, Queues
    <3> HIDE DEF f2
    <3>2. frame' = f2
      BY <1>0, <2>2, <2>5, <3>1, GotoFacts
    <3>3. \A q \in Queues : q > f2.prio => ready_queue[q] = NULL
      BY <1>0, <2>3, <2>5, <3>1 DEF Queues, head
    <3>4. Rings(f2, next, ready_queue, allocated, Kind, state)
      BY <2>3, <3>1, <3>3
         DEF Rings, Links2, Heads2, Alive, Inserting, Removing, Choosing, Listing, Ends
    <3> QED
      BY <2>2, <3>2, <3>4, RingSame
  <2>6. CASE head = NULL /\ frame.prio = 0 /\ Goto(f3)
    <3>1. f3 \in Frames /\ f3.pc = "compare" /\ f3.process = idle_process
      BY <1>0, Size DEF Frames, Pcs
    <3> HIDE DEF f3
    <3>2. frame' = f3
      BY <1>0, <2>2, <2>6, <3>1, GotoFacts
    <3>3. \A q \in Queues : q > Above(f3.process, Kind) => ready_queue[q] = NULL
      BY <2>3, <2>6, <3>1 DEF Above
    <3>4. idle_process \in allocated
      BY <1>0 DEF DataOK
    <3>5. Rings(f3, next, ready_queue, allocated, Kind, state)
      BY <2>3, <3>1, <3>3, <3>4
         DEF Rings, Links2, Heads2, Alive, Inserting, Removing, Choosing, Listing, Ends
    <3> QED
      BY <2>2, <3>2, <3>5, RingSame
  <2> QED
    BY <2>1, <2>4, <2>5, <2>6
<1>4. CASE rotate
  <2>1. frame.pc = "rotate" /\ StoreHead(next[frame.process]) /\ Then("compare")
    BY <1>4 DEF rotate, At
  <2>2. frame.process \in Procs /\ next[frame.process] \in Procs \cup {NULL}
    BY <1>0, <2>1 DEF Places, HasProcess, Links
  <2>3. /\ ready_queue' = [ready_queue EXCEPT ![frame.prio] = next[frame.process]]
        /\ UNCHANGED <<next, allocated, priority, state, ctx>>
    BY <1>0, <2>1, <2>2, StoreHeadFacts DEF creation
  <2>4. frame'.pc = "compare" /\ frame'.process = frame.process
    BY <1>0, <2>1, <2>3, ThenFacts DEF Pcs
  <2>5. /\ Sound(next, ready_queue, allocated, Kind)
        /\ \A q \in Queues : q > frame.prio => ready_queue[q] = NULL
        /\ head # NULL /\ frame.process = head
    BY <1>0, <1>1, <2>1 DEF BetweenStores, Ends, Rings, Choosing, head
  <2>6. /\ next[head] \in Reachable(next, head)
        /\ Kind[head] = frame.prio /\ head \in allocated
    BY <1>0, <2>5, SoundFacts DEF head
  <2>7. Sound(next, ready_queue', allocated, Kind)
    BY <1>0, <2>3, <2>5, <2>6, MovedSound DEF head
  <2>8. Above(frame.process, Kind) = frame.prio
    BY <1>0, <2>5, <2>6 DEF Above
  <2>9. \A q \in Queues : q > frame.prio => ready_queue'[q] = NULL
    BY <1>0, <2>3, <2>5 DEF Queues, QueuesType
  <2>10. Rings(frame', next, ready_queue', allocated, Kind, state)
    BY <2>4, <2>5, <2>6, <2>7, <2>8, <2>9
       DEF Rings, Links2, Heads2, Alive, Inserting, Removing, Choosing, Listing, Ends
  <2> QED
    BY <2>3, <2>10, RingSame
<1>5. CASE compare_same
  <2>1. frame.pc = "compare" /\ StoreQuantum(current_process, DEFAULT_QUANTUM) /\ Return
    BY <1>5 DEF compare_same, At
  <2>2. UNCHANGED <<next, ready_queue, allocated, priority, state, ctx>>
    BY <1>0, <2>1, StoreQuantumFacts DEF links, creation
  <2>3. frame'.pc \in Quiet
    BY <1>0, <2>1, <2>2, ReturnFacts, FrameTypes DEF Quiet
  <2> QED
    BY <1>1, <2>1, <2>2, <2>3, QuietSame DEF BetweenStores, Ends
<1>6. CASE compare_other
  <2> DEFINE f == [frame EXCEPT !.pc = "set_current", !.p = current_process]
  <2>1. frame.pc = "compare" /\ NoStore /\ Goto(f)
    BY <1>6 DEF compare_other, At
  <2>2. UNCHANGED <<next, ready_queue, allocated, priority, state, ctx>>
    BY <1>0, <2>1, NoStoreFacts DEF links, creation
  <2>3. f \in Frames /\ f.pc = "set_current" /\ f.process = frame.process
    BY <1>0 DEF Frames, Pcs
  <2> HIDE DEF f
  <2>4. frame' = f
    BY <1>0, <2>1, <2>2, <2>3, GotoFacts
  <2>5. Sound(next, ready_queue, allocated, Kind)
    BY <1>1, <2>1 DEF BetweenStores, Ends
  <2>6. Rings(f, next, ready_queue, allocated, Kind, state)
    BY <1>0, <2>1, <2>3, <2>5
       DEF Rings, Links2, Heads2, Alive, Inserting, Removing, Choosing, Listing, Ends
  <2> QED
    BY <2>2, <2>4, <2>6, RingSame
<1>7. CASE set_current
  <2>1. /\ frame.pc = "set_current" /\ Then("set_state")
        /\ UNCHANGED <<next, ready_queue, allocated, priority, state, ctx>>
    BY <1>7 DEF set_current, At, fields, links, creation
  <2>2. frame'.pc = "set_state" /\ frame'.process = frame.process
    BY <1>0, <2>1, ThenFacts DEF Pcs
  <2>3. Sound(next, ready_queue, allocated, Kind)
    BY <1>1, <2>1 DEF BetweenStores, Ends
  <2>4. Rings(frame', next, ready_queue, allocated, Kind, state)
    BY <1>0, <2>1, <2>2, <2>3
       DEF Rings, Links2, Heads2, Alive, Inserting, Removing, Choosing, Listing, Ends
  <2> QED
    BY <2>1, <2>4, RingSame
<1>8. CASE set_state
  <2>1. frame.pc = "set_state" /\ StoreState(frame.process, "RUNNING") /\ Then("set_quantum")
    BY <1>8 DEF set_state, At
  <2>2. /\ state' = [state EXCEPT ![frame.process] = "RUNNING"]
        /\ UNCHANGED <<next, ready_queue, allocated, priority, ctx>>
    BY <1>0, <2>1, StoreStateFacts DEF links, creation
  <2>3. frame'.pc \in Quiet
    BY <1>0, <2>1, <2>2, ThenFacts DEF Pcs, Quiet
  <2>4. Sound(next, ready_queue, allocated, Kind) /\ frame.process \in allocated
    BY <1>0, <1>1, <2>1 DEF BetweenStores, Ends, Rings, Choosing
  <2>5. Rings(frame', next, ready_queue, allocated, Kind, state')
    BY <2>3, <2>4, QuietRings
  <2>6. Kind' = Kind
    BY <2>2 DEF Kind, QueueOf
  <2>7. \A p \in Procs : state'[p] = "RUNNING" => state[p] = "RUNNING" \/ p = frame.process
    BY <1>0, <2>2 DEF DataOK, StateType
  <2> QED
    BY <2>2, <2>4, <2>5, <2>6, <2>7 DEF RingInv, RingRest
<1>9. CASE set_quantum
  <2>1. /\ frame.pc = "set_quantum" /\ StoreQuantum(frame.process, DEFAULT_QUANTUM)
        /\ Then("switch")
    BY <1>9 DEF set_quantum, At
  <2>2. UNCHANGED <<next, ready_queue, allocated, priority, state, ctx>>
    BY <1>0, <2>1, StoreQuantumFacts DEF links, creation
  <2>3. frame'.pc \in Quiet
    BY <1>0, <2>1, <2>2, ThenFacts DEF Pcs, Quiet
  <2> QED
    BY <1>1, <2>1, <2>2, <2>3, QuietSame DEF BetweenStores, Ends
<1>10. CASE switch_to_process
  <2>1. /\ frame.pc = "switch" /\ tick' = Run /\ call' = ctx[frame.process].call
        /\ UNCHANGED <<next, ready_queue, allocated, priority, state>>
    BY <1>10 DEF switch_to_process, Switch, At, fields, links, creation
  <2>2. frame' = Run
    <3>1. frame.process \in Procs
      BY <1>0, <2>1 DEF Places, HasProcess
    <3> QED
      BY <1>0, <2>1, <3>1 DEF OneCall, frame
  <2>3. frame'.pc \in Quiet
    BY <2>2, FrameTypes DEF Quiet
  <2> QED
    BY <1>1, <2>1, <2>3, QuietSame DEF BetweenStores, Ends
<1> QED
  BY <1>2, <1>3, <1>4, <1>5, <1>6, <1>7, <1>8, <1>9, <1>10

\* The steps of process_create() and process_terminate().
LEMMA ListRings ==
    ASSUME RingInv,
           \/ list \/ list_walk \/ list_link
           \/ unlist \/ unlist_walk \/ unlist_unlink \/ free \/ reschedule
    PROVE  RingRest'
<1> DEFINE alive == allocated \ {frame.process}
<1>0. /\ DataOK /\ CallsOK /\ OneCall /\ Places(frame, state, current_process, stack)
      /\ frame \in Frames /\ frame.pc \in Pcs
      /\ next \in Links /\ ready_queue \in QueuesType
      /\ Rings(frame, next, ready_queue, allocated, Kind, state)
      /\ process_list \in Procs \cup {NULL}
  BY RingInvFacts DEF DataOK
<1>1. frame.pc \notin BetweenStores \cup Ends => Sound(next, ready_queue, allocated, Kind)
  BY RingInvFacts
<1>2. frame.pc \in Ends => /\ Sound(next, ready_queue, alive, Kind)
                           /\ state[frame.process] = "TERMINATED"
  BY <1>0 DEF Rings, Links2, Heads2, Alive, Listing, Ends
<1> HIDE DEF alive
<1>3. ASSUME UNCHANGED ctx, Return
      PROVE  frame'.pc \in Quiet
  BY <1>0, <1>3, ReturnFacts, FrameTypes DEF Quiet
\* On the way through the list of the process that ends.
<1>4. ASSUME frame.pc \in Ends, frame'.process = frame.process, frame'.pc \in Ends,
             frame'.pc = "unlist_unlink" => next[frame'.p] = frame'.process,
             UNCHANGED <<next, ready_queue, allocated, priority, state>>
      PROVE  RingRest'
  <2>1. Rings(frame', next, ready_queue, allocated, Kind, state)
    BY <1>2, <1>4
       DEF Rings, Links2, Heads2, Alive, Inserting, Removing, Choosing, Listing, Ends, alive
  <2> QED
    BY <1>4, <2>1, RingSame
<1>5. CASE list
  <2>1. /\ frame.pc = "list"
        /\ \/ StoreList(frame.process) /\ Return
           \/ process_list # NULL /\ NoStore /\ Follow("list_walk", process_list)
    BY <1>5 DEF list, At
  <2>2. frame.process \in Procs
    BY <1>0, <2>1 DEF Places, HasProcess
  <2>3. UNCHANGED <<next, ready_queue, allocated, priority, state, ctx>>
    <3>1. CASE StoreList(frame.process)
      BY <1>0, <2>2, <3>1, StoreListFacts DEF links
    <3>2. CASE NoStore
      BY <1>0, <3>2, NoStoreFacts DEF links, creation
    <3> QED
      BY <2>1, <3>1, <3>2
  <2>4. frame'.pc \in Quiet
    <3>1. CASE Return
      BY <1>3, <2>3, <3>1
    <3>2. CASE process_list # NULL /\ Follow("list_walk", process_list)
      BY <1>0, <2>3, <3>2, FollowFacts DEF Pcs, Quiet
    <3> QED
      BY <2>1, <3>1, <3>2
  <2> QED
    BY <1>1, <2>1, <2>3, <2>4, QuietSame DEF BetweenStores, Ends
<1>6. CASE list_walk
  <2>1. /\ frame.pc = "list_walk" /\ NoStore
        /\ \/ next[frame.p] = NULL /\ Then("list_link")
           \/ next[frame.p] # NULL /\ Follow("list_walk", next[frame.p])
    BY <1>6 DEF list_walk, At
  <2>2. frame.p \in Procs /\ next[frame.p] \in Procs \cup {NULL}
    BY <1>0, <2>1 DEF Places, HasP, Links
  <2>3. UNCHANGED <<next, ready_queue, allocated, priority, state, ctx>>
    BY <1>0, <2>1, NoStoreFacts DEF links, creation
  <2>4. Sound(next, ready_queue, allocated, Kind)
    BY <1>1, <2>1 DEF BetweenStores, Ends
  <2>5. CASE next[frame.p] = NULL /\ Then("list_link")
    <3>1. frame'.pc = "list_link" /\ next[frame'.p] = NULL
      BY <1>0, <2>3, <2>5, ThenFacts DEF Pcs
    <3>2. Rings(frame', next, ready_queue, allocated, Kind, state)
      BY <2>4, <3>1
         DEF Rings, Links2, Heads2, Alive, Inserting, Removing, Choosing, Listing, Ends
    <3> QED
      BY <2>3, <3>2, RingSame
  <2>6. CASE next[frame.p] # NULL /\ Follow("list_walk", next[frame.p])
    <3>1. frame'.pc \in Quiet
      BY <1>0, <2>2, <2>3, <2>6, FollowFacts DEF Pcs, Quiet
    <3> QED
      BY <2>3, <2>4, <3>1, QuietSame
  <2> QED
    BY <2>1, <2>5, <2>6
\* The last process of process_list is in no ring, where nothing leads to NULL.
<1>7. CASE list_link
  <2>1. frame.pc = "list_link" /\ StoreNext(frame.p, frame.process) /\ Return
    BY <1>7 DEF list_link, At
  <2>2. frame.process \in Procs /\ frame.p \in Procs
    BY <1>0, <2>1 DEF Places, HasProcess, HasP
  <2>3. /\ next' = [next EXCEPT ![frame.p] = frame.process] /\ next' \in Links
        /\ UNCHANGED <<ready_queue, allocated, priority, state, ctx>>
    BY <1>0, <2>1, <2>2, StoreNextFacts DEF creation, DataOK
  <2>4. Sound(next, ready_queue, allocated, Kind) /\ next[frame.p] = NULL
    BY <1>0, <1>1, <2>1 DEF BetweenStores, Ends, Rings, Listing
  <2>5. ASSUME NEW q \in Queues, ready_queue[q] # NULL,
               NEW x \in Reachable(next, ready_queue[q])
        PROVE  next'[x] = next[x] /\ Kind[x] = Kind[x] /\ x \in allocated
    <3>1. x \in allocated /\ x \in Procs /\ next[x] \in Procs
      BY <1>0, <2>4, <2>5, SoundFacts
    <3>2. x # frame.p
      BY <2>4, <3>1, Size
    <3> QED
      BY <1>0, <2>3, <3>1, <3>2 DEF Links
  <2>6. \A q \in Queues : ready_queue[q] # NULL =>
           \A x \in Reachable(next, ready_queue[q]) :
              next'[x] = next[x] /\ Kind[x] = Kind[x] /\ x \in allocated
    BY <2>5
  <2>7. /\ next \in Links /\ ready_queue \in QueuesType /\ next' \in Links
        /\ Sound(next, ready_queue, allocated, Kind)
    BY <1>0, <2>3, <2>4
  <2>8. Sound(next', ready_queue, allocated, Kind)
    BY <2>6, <2>7, OutsideSound
  <2> QED
    BY <1>3, <2>1, <2>3, <2>8, QuietSame
<1>8. CASE unlist
  <2>1. /\ frame.pc = "unlist"
        /\ \/ StoreList(next[frame.process]) /\ Then("free")
           \/ NoStore /\ Then("free")
           \/ NoStore /\ process_list # NULL /\ Follow("unlist_walk", process_list)
    BY <1>8 DEF unlist, At
  <2>2. next[frame.process] \in Procs \cup {NULL}
    BY <1>0, <2>1 DEF Places, HasProcess, Links
  <2>3. UNCHANGED <<next, ready_queue, allocated, priority, state, ctx>>
    <3>1. CASE StoreList(next[frame.process])
      BY <1>0, <2>2, <3>1, StoreListFacts DEF links
    <3>2. CASE NoStore
      BY <1>0, <3>2, NoStoreFacts DEF links, creation
    <3> QED
      BY <2>1, <3>1, <3>2
  <2>4. frame'.pc \in {"free", "unlist_walk"} /\ frame'.process = frame.process
    <3>1. CASE Then("free")
      BY <1>0, <2>3, <3>1, ThenFacts DEF Pcs
    <3>2. CASE process_list # NULL /\ Follow("unlist_walk", process_list)
      BY <1>0, <2>3, <3>2, FollowFacts DEF Pcs
    <3> QED
      BY <2>1, <3>1, <3>2
  <2> QED
    BY <1>4, <2>1, <2>3, <2>4 DEF Ends
<1>9. CASE unlist_walk
  <2>1. /\ frame.pc = "unlist_walk" /\ NoStore
        /\ \/ next[frame.p] = frame.process /\ Then("unlist_unlink")
           \/ Then("free")
           \/ next[frame.p] # NULL /\ Follow("unlist_walk", next[frame.p])
    BY <1>9 DEF unlist_walk, At
  <2>2. frame.p \in Procs /\ next[frame.p] \in Procs \cup {NULL}
    BY <1>0, <2>1 DEF Places, HasP, Links
  <2>3. UNCHANGED <<next, ready_queue, allocated, priority, state, ctx>>
    BY <1>0, <2>1, NoStoreFacts DEF links, creation
  <2>4. /\ frame'.pc \in {"free", "unlist_walk", "unlist_unlink"}
        /\ frame'.process = frame.process
        /\ frame'.pc = "unlist_unlink" => next[frame'.p] = frame'.process
    <3>1. CASE next[frame.p] = frame.process /\ Then("unlist_unlink")
      BY <1>0, <2>3, <3>1, ThenFacts DEF Pcs
    <3>2. CASE Then("free")
      BY <1>0, <2>3, <3>2, ThenFacts DEF Pcs
    <3>3. CASE next[frame.p] # NULL /\ Follow("unlist_walk", next[frame.p])
      BY <1>0, <2>2, <2>3, <3>3, FollowFacts DEF Pcs
    <3> QED
      BY <2>1, <3>1, <3>2, <3>3
  <2> QED
    BY <1>4, <2>1, <2>3, <2>4 DEF Ends
\* What leads to the process that ends is in no ring, since that process is in none.
<1>10. CASE unlist_unlink
  <2>1. /\ frame.pc = "unlist_unlink" /\ StoreNext(frame.p, next[frame.process])
        /\ Then("free")
    BY <1>10 DEF unlist_unlink, At
  <2>2. next[frame.process] \in Procs \cup {NULL}
    BY <1>0, <2>1 DEF Places, HasProcess, Links
  <2>3. /\ next' = [next EXCEPT ![frame.p] = next[frame.process]] /\ next' \in Links
        /\ UNCHANGED <<ready_queue, allocated, priority, state, ctx>>
    BY <1>0, <2>1, <2>2, StoreNextFacts DEF creation, DataOK
  <2>4. frame'.pc = "free" /\ frame'.process = frame.process
    BY <1>0, <2>1, <2>3, ThenFacts DEF Pcs
  <2>5. /\ Sound(next, ready_queue, alive, Kind) /\ next[frame.p] = frame.process
        /\ state[frame.process] = "TERMINATED"
    BY <1>0, <1>2, <2>1 DEF Ends, Rings, Listing
  <2>6. ASSUME NEW q \in Queues, ready_queue[q] # NULL,
               NEW x \in Reachable(next, ready_queue[q])
        PROVE  next'[x] = next[x] /\ Kind[x] = Kind[x] /\ x \in alive
    <3>1. x \in alive /\ x \in Procs /\ next[x] \in alive
      BY <1>0, <2>5, <2>6, SoundFacts
    <3>2. x # frame.p
      BY <2>5, <3>1 DEF alive
    <3> QED
      BY <1>0, <2>3, <3>1, <3>2 DEF Links
  <2>7. \A q \in Queues : ready_queue[q] # NULL =>
           \A x \in Reachable(next, ready_queue[q]) :
              next'[x] = next[x] /\ Kind[x] = Kind[x] /\ x \in alive
    BY <2>6
  <2>8. /\ next \in Links /\ ready_queue \in QueuesType /\ next' \in Links
        /\ Sound(next, ready_queue, alive, Kind)
    BY <1>0, <2>3, <2>5
  <2>9. Sound(next', ready_queue, alive, Kind)
    BY <2>7, <2>8, OutsideSound
  <2>10. Rings(frame', next', ready_queue, allocated, Kind, state)
    BY <2>4, <2>5, <2>9
       DEF Rings, Links2, Heads2, Alive, Inserting, Removing, Choosing, Listing, Ends, alive
  <2> QED
    BY <2>3, <2>10, RingSame
<1>11. CASE free
  <2>1. /\ frame.pc = "free" /\ allocated' = alive /\ Then("reschedule")
        /\ UNCHANGED <<next, ready_queue, priority, state, ctx>>
    BY <1>11 DEF free, At, fields, links, cpu, alive
  <2>2. frame'.pc \in Quiet
    BY <1>0, <2>1, ThenFacts DEF Pcs, Quiet
  <2>3. Sound(next, ready_queue, alive, Kind) /\ state[frame.process] = "TERMINATED"
    BY <1>2, <2>1 DEF Ends
  <2>4. Rings(frame', next', ready_queue', allocated', Kind, state')
    BY <2>1, <2>2, <2>3, QuietRings
  <2>5. Kind' = Kind
    BY <2>1 DEF Kind, QueueOf
  <2>6. \A p \in Procs : state'[p] = "RUNNING" => p \in allocated'
    BY <2>1, <2>3 DEF RingInv, RingRest, alive
  <2> QED
    BY <2>1, <2>4, <2>5, <2>6 DEF RingInv, RingRest
<1>12. CASE reschedule
  <2>1. frame.pc = "reschedule" /\ NoStore /\ (Goto(Schedule) \/ Return)
    BY <1>12 DEF reschedule, At
  <2>2. UNCHANGED <<next, ready_queue, allocated, priority, state, ctx>>
    BY <1>0, <2>1, NoStoreFacts DEF links, creation
  <2>3. frame'.pc \in Quiet
    <3>1. CASE Goto(Schedule)
      BY <1>0, <2>2, <3>1, GotoFacts, FrameTypes DEF Quiet
    <3>2. CASE Return
      BY <1>3, <2>2, <3>2
    <3> QED
      BY <2>1, <3>1, <3>2
  <2> QED
    BY <1>1, <2>1, <2>2, <2>3, QuietSame DEF BetweenStores, Ends
<1> QED
  BY <1>5, <1>6, <1>7, <1>8, <1>9, <1>10, <1>11, <1>12

\* The ticks, which fall in no call.
LEMMA TicksRings ==
    ASSUME RingInv, CallsMasked, Ticks
    PROVE  RingRest'
<1>0. /\ DataOK /\ Kind = Kind /\ current_process \in Procs
      /\ Ticked(current_process) \in 0 .. DEFAULT_QUANTUM /\ 0 \in 0 .. DEFAULT_QUANTUM
  BY RingInvFacts, SchedulerAssumption DEF DataOK, QuantumType, Ticked
<1>1. frame = Run /\ Sound(next, ready_queue, allocated, Kind)
  <2>1. frame = Run
    BY DEF Ticks, scheduler_tick, scheduler_tick_expires, Interruptible, frame
  <2> QED
    BY <2>1, RingInvFacts, FrameTypes DEF BetweenStores, Ends
<1>2. /\ UNCHANGED <<next, ready_queue, allocated, priority, state>>
      /\ frame' \in {Run, Schedule}
  <2>1. CASE scheduler_tick
    <3>1. UNCHANGED <<links, creation, state>>
      BY <1>0, <2>1, StoreQuantumFacts DEF scheduler_tick
    <3>2. frame' = frame
      BY <2>1 DEF scheduler_tick, frame
    <3> QED
      BY <1>1, <3>1, <3>2 DEF links, creation
  <2>2. CASE scheduler_tick_expires
    <3>1. UNCHANGED <<links, creation, state>>
      BY <1>0, <2>2, StoreQuantumFacts DEF scheduler_tick_expires
    <3>2. frame' = Schedule
      BY <2>2, FrameTypes DEF scheduler_tick_expires, frame
    <3> QED
      BY <3>1, <3>2 DEF links, creation
  <2> QED
    BY <2>1, <2>2 DEF Ticks
<1>3. frame'.pc \in Quiet
  BY <1>2, FrameTypes DEF Quiet
<1> QED
  BY <1>1, <1>2, <1>3, QuietSame

\* What a process can call.
LEMMA CallsRings ==
    ASSUME RingInv, RemoveFirst, Calls
    PROVE  RingRest'
<1>0. /\ DataOK /\ CallsOK /\ OneCall /\ next \in Links /\ ready_queue \in QueuesType
      /\ \A p \in Procs : QueueOf(p) \in Queues
      /\ 0 \in 0 .. DEFAULT_QUANTUM
  BY RingInvFacts, SchedulerAssumption
<1>1. frame = Run => Sound(next, ready_queue, allocated, Kind)
  BY RingInvFacts, FrameTypes DEF BetweenStores, Ends
<1>2. ASSUME NEW q \in Queues, frame = Run, ready_queue[q] # NULL
      PROVE  \A x \in Reachable(next, ready_queue[q]) : x \in Procs /\ x \in allocated
  BY <1>0, <1>1, <1>2, SoundFacts
<1>3. CASE yield
  <2>1. Begin(Schedule) /\ StoreQuantum(current_process, 0)
    BY <1>3 DEF yield
  <2>2. UNCHANGED <<next, ready_queue, allocated, priority, state>>
    BY <1>0, <2>1, StoreQuantumFacts DEF links, creation
  <2>3. frame = Run /\ frame' = Schedule
    BY <1>0, <2>1, FrameTypes, BeginFacts
  <2>4. frame'.pc \in Quiet
    BY <2>3, FrameTypes DEF Quiet
  <2> QED
    BY <1>1, <2>2, <2>3, <2>4, QuietSame
<1>4. ASSUME NEW p \in Procs, scheduler_add_process(p)
      PROVE  RingRest'
  <2> DEFINE f == Frame("add", "add", p, NULL, 0)
  <2>1. p \in allocated /\ Begin(f) /\ NoStore
    BY <1>4 DEF scheduler_add_process, MayAdd
  <2>2. f \in Frames /\ f.pc = "add" /\ f.process = p
    BY DEF Frame, Frames, Pcs, Queues
  <2> HIDE DEF f
  <2>3. UNCHANGED <<next, ready_queue, allocated, priority, state>>
    BY <1>0, <2>1, NoStoreFacts DEF links, creation
  <2>4. frame = Run /\ frame' = f
    BY <1>0, <2>1, <2>2, BeginFacts
  <2>5. Rings(f, next, ready_queue, allocated, Kind, state)
    BY <1>1, <2>1, <2>2, <2>4
       DEF Rings, Links2, Heads2, Alive, Inserting, Removing, Choosing, Listing, Ends
  <2> QED
    BY <2>3, <2>4, <2>5, RingSame
<1>5. ASSUME NEW p \in Procs, scheduler_remove_process(p)
      PROVE  RingRest'
  <2> DEFINE f == Frame("remove", "remove", p, NULL, QueueOf(p))
  <2>1. Begin(f) /\ NoStore
    BY <1>5 DEF scheduler_remove_process
  <2>2. f \in Frames /\ f.pc \in Quiet
    BY <1>0 DEF Frame, Frames, Pcs, Quiet
  <2> HIDE DEF f
  <2>3. UNCHANGED <<next, ready_queue, allocated, priority, state>>
    BY <1>0, <2>1, NoStoreFacts DEF links, creation
  <2>4. frame = Run /\ frame' = f
    BY <1>0, <2>1, <2>2, BeginFacts
  <2> QED
    BY <1>1, <2>2, <2>3, <2>4, QuietSame
\* The process has been dequeued: the rings are made of the others.
<1>6. ASSUME NEW p \in Procs, process_terminate(p)
      PROVE  RingRest'
  <2> DEFINE f == Frame("terminate", "unlist", p, NULL, 0)
             al == allocated \ {p}
  <2>1. Begin(f) /\ StoreState(p, "TERMINATED") /\ p \notin Queued(next, ready_queue)
    BY <1>6 DEF process_terminate
  <2>2. f \in Frames /\ f.pc = "unlist" /\ f.process = p
    BY DEF Frame, Frames, Pcs, Queues
  <2> HIDE DEF f, al
  <2>3. /\ state' = [state EXCEPT ![p] = "TERMINATED"]
        /\ UNCHANGED <<next, ready_queue, allocated, priority>>
    BY <1>0, <2>1, StoreStateFacts DEF links, creation
  <2>4. frame = Run /\ frame' = f
    BY <1>0, <2>1, <2>2, BeginFacts
  <2>5. ASSUME NEW q \in Queues, ready_queue[q] # NULL,
               NEW x \in Reachable(next, ready_queue[q])
        PROVE  next[x] = next[x] /\ Kind[x] = Kind[x] /\ x \in al
    <3>1. x \in Queued(next, ready_queue)
      BY DEF Queued
    <3> QED
      BY <1>2, <2>1, <2>4, <2>5, <3>1 DEF al
  <2>6. Sound(next, ready_queue, al, Kind)
    BY <1>0, <1>1, <2>4, <2>5, OutsideSound
  <2>7. /\ state'[p] = "TERMINATED"
        /\ \A r \in Procs : state'[r] = "RUNNING" => state[r] = "RUNNING"
    BY <1>0, <2>3 DEF DataOK, StateType
  <2>8. Rings(f, next, ready_queue, allocated, Kind, state')
    BY <2>2, <2>6, <2>7
       DEF Rings, Links2, Heads2, Alive, Inserting, Removing, Choosing, Listing, Ends, al
  <2>9. Kind' = Kind
    BY <2>3 DEF Kind, QueueOf
  <2> QED
    BY <2>3, <2>4, <2>7, <2>8, <2>9 DEF RingInv, RingRest
\* The new process was allocated to nobody: no ring has it.
<1>7. ASSUME NEW p \in Procs, NEW prio \in Priorities, NEW stacks \in StackOutcomes,
             process_create(p, prio, stacks)
      PROVE  RingRest'
  <2> DEFINE f == Frame("create", "list", p, NULL, 0)
  <2>1. /\ Begin(f) /\ allocated' = allocated \cup {p} /\ p \notin allocated
        /\ next' = [next EXCEPT ![p] = NULL] /\ state' = [state EXCEPT ![p] = "READY"]
        /\ priority' = [priority EXCEPT ![p] = prio] /\ UNCHANGED ready_queue
    BY <1>7 DEF process_create
  <2>2. f \in Frames /\ f.pc \in Quiet
    BY DEF Frame, Frames, Pcs, Queues, Quiet
  <2> HIDE DEF f
  <2>3. frame = Run /\ frame' = f
    BY <1>0, <2>1, <2>2, BeginFacts
  <2>4. /\ next' \in Links /\ \A x \in Procs \ {p} : next'[x] = next[x]
        /\ \A x \in Procs \ {p} : priority'[x] = priority[x]
    BY <1>0, <2>1 DEF Links, DataOK
  <2>5. \A x \in Procs \ {p} : Kind'[x] = Kind[x]
    BY <2>4 DEF Kind, QueueOf
  <2>6. \A q \in Queues : ready_queue[q] # NULL =>
           \A x \in Reachable(next, ready_queue[q]) :
              next'[x] = next[x] /\ Kind'[x] = Kind[x] /\ x \in allocated'
    BY <1>2, <2>1, <2>3, <2>4, <2>5
  <2>7. Sound(next', ready_queue, allocated', Kind')
    BY <1>0, <1>1, <2>3, <2>4, <2>6, OutsideSound
  <2>8. Rings(frame', next', ready_queue', allocated', Kind', state')
    BY <2>1, <2>2, <2>3, <2>7, QuietRings
  <2>9. \A r \in Procs : state'[r] = "RUNNING" => r \in allocated'
    BY <1>0, <2>1 DEF RingInv, RingRest, DataOK, StateType
  <2>10. priority'[idle_process] = 0
    BY <1>0, <2>1, <2>4, Size DEF RingInv, RingRest, DataOK
  <2> QED
    BY <2>8, <2>9, <2>10 DEF RingRest
<1> QED
  BY <1>3, <1>4, <1>5, <1>6, <1>7 DEF Calls

LEMMA RingStep ==
    ASSUME CallsMasked, RemoveFirst
    PROVE  RingInv /\ [Next]_vars => RingInv'
<1> SUFFICES ASSUME RingInv, [Next]_vars
             PROVE  RingInv'
  OBVIOUS
<1>1. RunningInv'
  BY RunningStep DEF RingInv
<1>2. CASE Ticks
  BY <1>1, <1>2, TicksRings DEF RingInv
<1>3. CASE Calls
  BY <1>1, <1>3, CallsRings DEF RingInv
<1>4. CASE Steps
  BY <1>1, <1>4, AddRings, RemoveRings, ScheduleRings, ListRings DEF Steps, RingInv
<1>5. CASE UNCHANGED vars
  <2>1. UNCHANGED <<allocated, priority, state, next, ready_queue>> /\ frame' = frame
    BY <1>5 DEF vars, fields, links, creation, frame
  <2>2. Rings(frame', next', ready_queue', allocated, Kind, state)
    BY <2>1 DEF RingInv, RingRest
  <2> QED
    BY <1>1, <2>1, <2>2, RingSame DEF RingInv
<1> QED
  BY <1>2, <1>3, <1>4, <1>5 DEF Next

\* When callers disable interrupts and dequeue a process before they end it, every queue
\* is a ring of live processes of its priority whenever no call is between the two
\* stores of an insertion or of a removal: the walks of the tick end.
THEOREM RingsStaySound ==
    ASSUME CallsMasked, RemoveFirst
    PROVE  Spec => []RingsAreSound
<1>1. RingInv /\ [Next]_vars => RingInv'
  BY RingStep
<1>2. ASSUME RingInv
      PROVE  RingsAreSound
  <2>1. /\ RunningInv /\ DataOK /\ Rings(frame, next, ready_queue, allocated, Kind, state)
        /\ frame.pc \notin BetweenStores =>
              Sound(next, ready_queue, Alive(frame, allocated), Kind)
    BY <1>2, RingInvFacts
  <2>2. ASSUME frame.pc \notin BetweenStores
        PROVE  Sound(next, ready_queue, allocated, Kind)
    BY <2>1, <2>2 DEF Sound, Alive
  <2> QED
    BY <2>1, <2>2, SoundRings DEF RingsAreSound, RunningInv, Rings
<1> QED
  BY <1>1, <1>2, RingInit, PTL DEF Spec

\* Under the same conditions a switch never passes over a queue of higher priority: what
\* select_next_process() has seen still holds when line 136 makes its choice current.
THEOREM SwitchesByPriority ==
    ASSUME CallsMasked, RemoveFirst
    PROVE  Spec => StrictPriority
<1>1. RingInv /\ [Next]_vars => RingInv'
  BY RingStep
<1>2. ASSUME RingInv, [Next]_vars
      PROVE  HigherFirst
  <2> SUFFICES ASSUME current_process' # current_process
               PROVE  HigherFirst
    BY DEF HigherFirst
  <2>1. set_current
    <3>1. ~Ticks /\ ~Calls
      BY DEF Ticks, scheduler_tick, scheduler_tick_expires, Calls, yield,
             scheduler_add_process, scheduler_remove_process, process_terminate,
             process_create, StoreQuantum, StoreState, NoStore, cpu
    <3>2. Steps => set_current
      BY DEF Steps, add, add_quantum, add_queue, add_head, add_self, add_walk, add_link,
             add_close, remove, remove_only, remove_walk, remove_unlink, remove_head,
             remove_move, schedule, select_next_process, Turn, rotate, compare_same,
             compare_other, set_state, set_quantum, switch_to_process, Switch, list,
             list_walk, list_link, unlist, unlist_walk, unlist_unlink, free, reschedule,
             NoStore, StoreState, StoreQuantum, StoreNext, StoreHead, StoreList, cpu
    <3> QED
      BY <1>2, <3>1, <3>2 DEF Next, vars, cpu
  <2>2. /\ frame.pc = "set_current" /\ current_process' = frame.process
        /\ UNCHANGED <<ready_queue, priority>>
    BY <2>1 DEF set_current, At, links, creation
  <2>3. /\ Rings(frame, next, ready_queue, allocated, Kind, state)
        /\ Places(frame, state, current_process, stack)
        /\ \A p \in Procs : Kind[p] = QueueOf(p)
    BY <1>2, RingInvFacts
  <2>4. frame.process \in Procs
    BY <2>2, <2>3 DEF Places, HasProcess, Pcs
  <2>5. \A q \in Queues : q > Above(frame.process, Kind) => ready_queue[q] = NULL
    BY <2>2, <2>3 DEF Rings, Choosing
  <2>6. QueueOf(current_process)' = QueueOf(frame.process)
    BY <2>2 DEF QueueOf
  <2> QED
    BY <2>2, <2>3, <2>4, <2>5, <2>6 DEF HigherFirst, Above
<1>3. RingInv /\ [Next]_vars => [HigherFirst]_vars
  BY <1>2
<1> QED
  BY <1>1, <1>3, RingInit, PTL DEF Spec, StrictPriority

-----------------------------------------------------------------------------
(***************************************************************************)
(* The job entry subsystem.                                                *)
(***************************************************************************)

JobType == [id : 1 .. MAX_SUBMITS, priority : JobPriorities,
            state : {"INPUT", "ACTIVE", "OUTPUT"}, asid : 0 .. MAX_ASID]

\* The table has exactly its slots.
TableInv == jobs \in [Slots -> JobType \cup {NoJob}]

\* dispatch() keeps the slot of a job that it has taken past INPUT.
RunningSlotInv == running \in Slots => jobs[running].state \in {"ACTIVE", "OUTPUT"}

\* Job numbers grow along the table. Slots are used again only once the table
\* has been emptied, so outside run() the jobs fill it from the first slot on.
OrderInv ==
    /\ \A i \in Slots : jobs[i].id < next_job_no
    /\ \A i, k \in Slots :
          i < k /\ jobs[i] # NoJob /\ jobs[k] # NoJob => jobs[i].id < jobs[k].id
    /\ running = OFF =>
          \A i, k \in Slots : i < k /\ jobs[k] # NoJob => jobs[i] # NoJob

JesIInv == JobsAreSound /\ TableInv /\ RunningSlotInv /\ OrderInv

-----------------------------------------------------------------------------

\* An empty slot is told apart by each of its job number and its state.
LEMMA SlotFacts ==
    ASSUME TableInv, NEW i \in Slots
    PROVE  /\ jobs[i] = NoJob <=> jobs[i].state = "NONE"
           /\ jobs[i] = NoJob <=> jobs[i].id = 0
           /\ jobs[i] = NoJob \/ jobs[i] \in JobType
BY JesAssumption DEF TableInv, JobType, NoJob

\* When no address space is in use, alloc_asid() finds one, and not the
\* reserved 0.
LEMMA AllocAsid ==
    ASSUME in_use = {}
    PROVE  alloc_asid \in 1 .. MAX_ASID
<1>1. 1 \in (1 .. MAX_ASID) \ in_use
  BY JesAssumption
<1>2. \E a \in (1 .. MAX_ASID) \ in_use : \A b \in (1 .. MAX_ASID) \ in_use : a <= b
  BY <1>1, JesAssumption
<1> QED
  BY <1>1, <1>2 DEF alloc_asid

\* What dispatch() makes of the job it takes.
LEMMA Activated ==
    ASSUME NEW j \in JobType, NEW a \in 1 .. MAX_ASID
    PROVE  LET act == [j EXCEPT !.state = "ACTIVE", !.asid = a]
           IN  /\ act \in JobType /\ act # NoJob
               /\ act.id = j.id /\ act.state = "ACTIVE" /\ act.asid = a
<1> DEFINE k == [j EXCEPT !.state = "ACTIVE"]
           act == [k EXCEPT !.asid = a]
<1>1. k \in JobType /\ k.id = j.id /\ k.state = "ACTIVE"
  BY DEF JobType
<1>2. act = [j EXCEPT !.state = "ACTIVE", !.asid = a]
  OBVIOUS
<1> HIDE DEF k
<1>3. /\ act \in JobType /\ act # NoJob
      /\ act.id = k.id /\ act.state = k.state /\ act.asid = a
  BY <1>1, JesAssumption DEF JobType, NoJob
<1> HIDE DEF act
<1> QED
  BY <1>1, <1>2, <1>3

\* Between two dispatches, and outside run(), no address space is in use.
LEMMA PoolIsFree ==
    ASSUME JesIInv, running \notin Slots
    PROVE  /\ in_use = {}
           /\ \A i \in Slots : jobs[i] # NoJob => jobs[i].state = "INPUT"
<1>1. \A i \in Slots : jobs[i].state \notin {"ACTIVE", "OUTPUT"}
  BY DEF JesIInv, JobsAreSound, AsidsAreOwned
<1>2. in_use = {}
  BY <1>1 DEF JesIInv, JobsAreSound, AsidsAreOwned
<1>3. \A i \in Slots : jobs[i] # NoJob => jobs[i].state = "INPUT"
  BY <1>1, SlotFacts DEF JesIInv, JobType
<1> QED
  BY <1>2, <1>3

-----------------------------------------------------------------------------

\* The invariant holds of the empty table.
LEMMA JesInitInv == JesInit => JesIInv
<1> SUFFICES ASSUME JesInit
             PROVE  JesIInv
  OBVIOUS
<1>1. TableInv /\ JesTypeOK
  BY JesAssumption DEF JesInit, TableInv, JesTypeOK, NoJob, OFF, Slots
<1>2. AsidsAreOwned /\ RunningSlotInv /\ OrderInv
  BY DEF JesInit, AsidsAreOwned, RunningSlotInv, OrderInv, NoJob, OFF, Slots
<1> QED
  BY <1>1, <1>2 DEF JesIInv, JobsAreSound

\* Every step keeps it.
LEMMA JesNextInv == JesIInv /\ [JesNext]_jesVars => JesIInv'
<1> SUFFICES ASSUME JesIInv, [JesNext]_jesVars
             PROVE  JesIInv'
  OBVIOUS
<1> USE JesAssumption
<1>0. /\ JesTypeOK /\ AsidsAreOwned /\ TableInv /\ RunningSlotInv /\ OrderInv
      /\ IDLE \notin Slots /\ OFF \notin Slots /\ IDLE # OFF
      /\ \A i \in Slots : jobs[i].state \in {"ACTIVE", "OUTPUT"} => jobs[i] \in JobType
  BY SlotFacts DEF JesIInv, JobsAreSound, IDLE, OFF, Slots, NoJob
<1>1. ASSUME NEW pri \in JobPriorities, submit(pri)
      PROVE  JesIInv'
  <2>1. running \notin Slots /\ in_use = {}
    BY <1>0, <1>1, PoolIsFree DEF submit
  <2> DEFINE new == [id |-> next_job_no, priority |-> pri,
                     state |-> "INPUT", asid |-> 0]
  <2>2. PICK i \in Slots : FreeSlot(i) /\ jobs' = [jobs EXCEPT ![i] = new]
    BY <1>1 DEF submit
  <2>3. new \in JobType /\ new # NoJob
    BY <1>0, <1>1 DEF submit, JesTypeOK, JobType, NoJob
  <2>4. /\ jobs'[i] = new
        /\ \A k \in Slots \ {i} : jobs'[k] = jobs[k]
    BY <1>0, <2>2 DEF TableInv
  <2>5. TableInv'
    BY <1>0, <2>2, <2>3 DEF TableInv
  <2>6. JesTypeOK'
    BY <1>0, <1>1, <2>5 DEF submit, JesTypeOK, TableInv, JobType
  <2>7. AsidsAreOwned'
    <3>1. \A k \in Slots : jobs'[k].state \notin {"ACTIVE", "OUTPUT"}
      BY <1>0, <2>1, <2>4 DEF AsidsAreOwned
    <3> QED
      BY <1>1, <2>1, <3>1 DEF submit, AsidsAreOwned
  <2>8. RunningSlotInv'
    BY <1>1, <2>1 DEF submit, RunningSlotInv
  <2>9. OrderInv'
    <3>1. \A k \in Slots : (k < i => jobs[k] # NoJob) /\ (k > i => jobs[k] = NoJob)
      BY <1>0, <1>1, <2>2 DEF FreeSlot, OrderInv, submit, Slots
    <3>2. \A k \in Slots : jobs[k].id \in Int /\ jobs[k].id < next_job_no
      BY <1>0, SlotFacts DEF OrderInv, JobType, NoJob
    <3>3. next_job_no' = next_job_no + 1 /\ next_job_no \in Int /\ running' = running
      BY <1>0, <1>1 DEF submit, JesTypeOK
    <3>4. \A k \in Slots : jobs'[k].id < next_job_no'
      BY <2>4, <3>2, <3>3
    <3>5. \A j, k \in Slots :
             j < k /\ jobs'[j] # NoJob /\ jobs'[k] # NoJob => jobs'[j].id < jobs'[k].id
      BY <1>0, <2>4, <3>1, <3>2, <3>3 DEF OrderInv, Slots
    <3>6. \A j, k \in Slots : j < k /\ jobs'[k] # NoJob => jobs'[j] # NoJob
      BY <2>3, <2>4, <3>1 DEF Slots
    <3> QED
      BY <3>4, <3>5, <3>6 DEF OrderInv
  <2> QED
    BY <2>5, <2>6, <2>7, <2>8, <2>9 DEF JesIInv, JobsAreSound
<1>2. CASE run
  BY <1>0, <1>2 DEF run, JesIInv, JobsAreSound, JesTypeOK, AsidsAreOwned, TableInv,
                    RunningSlotInv, OrderInv
<1>3. ASSUME NEW i \in Slots, dispatch(i)
      PROVE  JesIInv'
  <2>1. /\ in_use = {} /\ alloc_asid \in 1 .. MAX_ASID
        /\ \A k \in Slots : jobs[k] # NoJob => jobs[k].state = "INPUT"
    BY <1>0, <1>3, PoolIsFree, AllocAsid DEF dispatch
  <2>2. jobs[i] \in JobType /\ jobs[i] # NoJob /\ jobs[i].state = "INPUT"
    BY <1>0, <1>3, SlotFacts DEF dispatch, pick_next, Waiting
  <2> DEFINE act == [jobs[i] EXCEPT !.state = "ACTIVE", !.asid = alloc_asid]
  <2>3. /\ act \in JobType /\ act # NoJob
        /\ act.id = jobs[i].id /\ act.state = "ACTIVE" /\ act.asid = alloc_asid
    BY <2>1, <2>2, Activated
  <2>4. /\ jobs' = [jobs EXCEPT ![i] = act]
        /\ in_use' = {alloc_asid} /\ running' = i /\ next_job_no' = next_job_no
    BY <1>3, <2>1 DEF dispatch
  <2> HIDE DEF act
  <2>5. /\ jobs'[i] = act
        /\ \A k \in Slots \ {i} : jobs'[k] = jobs[k]
    BY <1>0, <2>4 DEF TableInv
  <2>6. TableInv'
    BY <1>0, <2>3, <2>4 DEF TableInv
  <2>7. JesTypeOK'
    BY <1>0, <2>1, <2>4, <2>6 DEF JesTypeOK, TableInv, JobType
  <2>8. AsidsAreOwned' /\ RunningSlotInv'
    <3>1. {k \in Slots : jobs'[k].state \in {"ACTIVE", "OUTPUT"}} = {i}
      BY <2>1, <2>3, <2>5 DEF NoJob
    <3> QED
      BY <2>3, <2>4, <2>5, <3>1 DEF AsidsAreOwned, RunningSlotInv
  <2>9. OrderInv'
    <3>1. \A k \in Slots : jobs'[k].id = jobs[k].id /\ (jobs'[k] = NoJob <=> jobs[k] = NoJob)
      BY <2>2, <2>3, <2>5
    <3>2. running' # OFF
      BY <1>0, <2>4
    <3> QED
      BY <1>0, <2>4, <3>1, <3>2 DEF OrderInv
  <2> QED
    BY <2>6, <2>7, <2>8, <2>9 DEF JesIInv, JobsAreSound
<1>4. CASE output
  <2> DEFINE out == [jobs[running] EXCEPT !.state = "OUTPUT"]
  <2>1. /\ running \in Slots /\ jobs[running] \in JobType /\ jobs[running] # NoJob
        /\ jobs[running].state = "ACTIVE"
    BY <1>0, <1>4, SlotFacts DEF output, NoJob
  <2>2. /\ out \in JobType /\ out # NoJob
        /\ out.id = jobs[running].id /\ out.state = "OUTPUT" /\ out.asid = jobs[running].asid
    BY <2>1 DEF JobType, NoJob
  <2>3. /\ jobs' = [jobs EXCEPT ![running] = out]
        /\ in_use' = in_use /\ running' = running /\ next_job_no' = next_job_no
    BY <1>4 DEF output
  <2> HIDE DEF out
  <2>4. /\ jobs'[running] = out
        /\ \A k \in Slots \ {running} : jobs'[k] = jobs[k]
    BY <1>0, <2>1, <2>3 DEF TableInv
  <2>5. TableInv'
    BY <1>0, <2>2, <2>3 DEF TableInv
  <2>6. JesTypeOK'
    BY <1>0, <2>3, <2>5 DEF JesTypeOK, TableInv, JobType
  <2>7. AsidsAreOwned' /\ RunningSlotInv'
    <3>1. \A k \in Slots : /\ jobs'[k].asid = jobs[k].asid
                           /\ jobs'[k].state \in {"ACTIVE", "OUTPUT"}
                                 <=> jobs[k].state \in {"ACTIVE", "OUTPUT"}
      BY <2>1, <2>2, <2>4
    <3> QED
      BY <1>0, <2>3, <3>1 DEF AsidsAreOwned, RunningSlotInv
  <2>8. OrderInv'
    <3>1. \A k \in Slots : jobs'[k].id = jobs[k].id /\ (jobs'[k] = NoJob <=> jobs[k] = NoJob)
      BY <2>1, <2>2, <2>4
    <3> QED
      BY <1>0, <2>3, <3>1 DEF OrderInv
  <2> QED
    BY <2>5, <2>6, <2>7, <2>8 DEF JesIInv, JobsAreSound
<1>5. CASE purge
  <2>1. /\ running \in Slots
        /\ jobs' = [jobs EXCEPT ![running] = NoJob]
        /\ in_use' = in_use \ {jobs[running].asid}
        /\ running' = IDLE /\ next_job_no' = next_job_no
    BY <1>5 DEF purge
  <2>2. /\ jobs'[running] = NoJob
        /\ \A k \in Slots \ {running} : jobs'[k] = jobs[k]
    BY <1>0, <2>1 DEF TableInv
  <2>3. TableInv'
    BY <1>0, <2>1 DEF TableInv
  <2>4. JesTypeOK'
    BY <1>0, <2>1, <2>3 DEF JesTypeOK, TableInv, JobType
  <2>5. AsidsAreOwned'
    <3>1. \A k \in Slots : jobs'[k].state \notin {"ACTIVE", "OUTPUT"}
      BY <1>0, <2>2 DEF AsidsAreOwned, NoJob
    <3>2. in_use = {jobs[running].asid}
      BY <1>0, <1>5 DEF AsidsAreOwned, purge
    <3> QED
      BY <2>1, <3>1, <3>2 DEF AsidsAreOwned
  <2>6. RunningSlotInv' /\ running' # OFF
    BY <1>0, <2>1 DEF RunningSlotInv
  <2>7. OrderInv'
    <3>1. NoJob.id = 0 /\ 0 < next_job_no
      BY <1>0 DEF NoJob, JesTypeOK
    <3> QED
      BY <1>0, <2>1, <2>2, <2>6, <3>1 DEF OrderInv
  <2> QED
    BY <2>3, <2>4, <2>5, <2>6, <2>7 DEF JesIInv, JobsAreSound
<1>6. CASE run_ends
  <2>1. \A i \in Slots : jobs[i] = NoJob
    BY <1>0, <1>6, PoolIsFree DEF run_ends, Waiting
  <2> QED
    BY <1>0, <1>6, <2>1 DEF run_ends, JesIInv, JobsAreSound, JesTypeOK, AsidsAreOwned, TableInv,
                            RunningSlotInv, OrderInv
<1>7. CASE UNCHANGED jesVars
  BY <1>0, <1>7 DEF jesVars, JesIInv, JobsAreSound, JesTypeOK, AsidsAreOwned, TableInv,
                    RunningSlotInv, OrderInv
<1> QED
  BY <1>1, <1>2, <1>3, <1>4, <1>5, <1>6, <1>7 DEF JesNext

\* The inductive invariant of the job entry subsystem.
THEOREM JesInvariance == JesSpec => []JesIInv
BY JesInitInv, JesNextInv, PTL DEF JesSpec

\* After any submissions and runs, the job past INPUT is the one dispatch() is
\* at, it alone owns an address space, and the pool is never exhausted.
THEOREM JesSoundness == JesSpec => []JobsAreSound
<1>1. JesIInv => JobsAreSound
  BY DEF JesIInv
<1> QED
  BY <1>1, JesInvariance, PTL

-----------------------------------------------------------------------------

\* run() takes the jobs by priority and, among equals, in the order of their
\* submission, although pick_next() compares slots; it returns only once the
\* table is empty.
THEOREM JesOrdering == JesSpec => DispatchOrder
<1>1. JesIInv /\ [JesNext]_jesVars => [InOrder /\ Drained]_jesVars
  <2> SUFFICES ASSUME JesIInv, JesNext
               PROVE  InOrder /\ Drained
    BY DEF jesVars, InOrder, Drained
  <2>1. InOrder
    <3> SUFFICES ASSUME NEW i \in Slots, jobs[i].state = "INPUT", jobs'[i].state = "ACTIVE",
                        NEW k \in Waiting \ {i}
                 PROVE  Precedes(jobs[i], jobs[k])
      BY DEF InOrder
    <3>1. TableInv /\ OrderInv
      BY DEF JesIInv
    <3>2. dispatch(i)
      <4>1. ASSUME NEW j \in Slots, dispatch(j), j # i
            PROVE  FALSE
        BY <3>1, <4>1 DEF dispatch, TableInv
      <4>2. ASSUME NEW pri \in JobPriorities, submit(pri)
            PROVE  FALSE
        BY <3>1, <4>2 DEF submit, TableInv
      <4>3. ~ (run \/ run_ends)
        BY DEF run, run_ends
      <4>4. ~ (output \/ purge)
        BY <3>1 DEF output, purge, TableInv, NoJob
      <4> QED
        BY <4>1, <4>2, <4>3, <4>4 DEF JesNext
    <3>3. k \in Slots /\ jobs[k] \in JobType /\ jobs[k] # NoJob
          /\ jobs[i] \in JobType /\ jobs[i] # NoJob
      BY <3>1, SlotFacts DEF Waiting
    <3>4. k < i => jobs[k].priority < jobs[i].priority
      BY <3>2 DEF dispatch, pick_next
    <3>5. jobs[k].priority <= jobs[i].priority
      BY <3>2 DEF dispatch, pick_next
    <3>6. i < k => jobs[i].id < jobs[k].id
      BY <3>1, <3>3 DEF OrderInv
    <3>7. jobs[k].priority \in Int /\ jobs[i].priority \in Int /\ (i < k \/ k < i)
      <4>0. \A j \in JobType : j.priority \in JobPriorities
        BY DEF JobType
      <4>1. \A j \in JobType : j.priority \in Nat
        BY <4>0, JesAssumption
      <4>2. i \in Int /\ k \in Int /\ i # k
        BY <3>3 DEF Slots
      <4> QED
        BY <3>3, <4>1, <4>2
    <3> QED
      BY <3>4, <3>5, <3>6, <3>7 DEF Precedes
  <2>2. Drained
    <3> SUFFICES ASSUME running # OFF, running' = OFF, NEW i \in Slots
                 PROVE  jobs[i] = NoJob
      BY DEF Drained
    <3>1. run_ends
      <4>1. \A j \in Slots : j # OFF /\ IDLE # OFF
        BY DEF Slots, IDLE, OFF
      <4>2. ~ (run \/ output \/ purge)
        BY <4>1 DEF run, output, purge
      <4>3. \A j \in Slots : ~ dispatch(j)
        BY <4>1 DEF dispatch
      <4>4. \A pri \in JobPriorities : ~ submit(pri)
        BY DEF submit
      <4> QED
        BY <4>2, <4>3, <4>4 DEF JesNext
    <3>2. running \notin Slots
      BY <3>1 DEF run_ends, IDLE, Slots
    <3> QED
      BY <3>1, <3>2, PoolIsFree DEF run_ends, Waiting
  <2> QED
    BY <2>1, <2>2
<1> QED
  BY <1>1, JesInvariance, PTL DEF JesSpec, DispatchOrder
===========================================================================
