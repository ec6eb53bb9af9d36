---------------------------- MODULE NamingProofs ----------------------------
(***************************************************************************)
(* The binding store and the visits that name devices from it, proved for  *)
(* any names, any version 1 file, any callers' ids and any device list.    *)
(*                                                                         *)
(* Of the store: BoundIs says what one bind makes of it, whatever it found *)
(* and merged; that a record stays one device's (BindingsInv) rests on a   *)
(* strong name being one caller's.  load is a bind for each record, so it  *)
(* ends with as many records at most, and joins two only when one of them  *)
(* has no address and no qualified name.                                   *)
(*                                                                         *)
(* Of the visits: what a record or a visit calls a device is a name said of*)
(* that device, or the first label of one (Titled).  A first label several *)
(* devices share is no title once a qualified name is there, and the one   *)
(* record of a version 1 file that is a bare label is nobody's yet.        *)
(*                                                                         *)
(* The store is a sequence of merges and of loads: both are recursive      *)
(* functions, and what they make is proved by a least counterexample.      *)
(***************************************************************************)
EXTENDS Naming, FiniteSetTheorems, SequenceTheorems, WellFoundedInduction, TLAPS

LEMMA LeastNat ==
  ASSUME NEW T \in SUBSET Nat, T # {}
  PROVE  \E n \in T : \A m \in T : n <= m
  <1>1. PICK top \in T : TRUE
    OBVIOUS
  <1> DEFINE U == 1..top
             below == {n \in T : n <= top}
             spans == {1..n : n \in below}
             R == StrictSubsetOrdering(U)
  <1>2. IsWellFoundedOn(R, SUBSET U)
    <2>1. IsFiniteSet(U)
      BY FS_Interval
    <2> HIDE DEF U
    <2> QED BY <2>1, FS_StrictSubsetOrderingWellFounded, FS_FiniteSubsetsOfFinite
  <1>3. spans \subseteq SUBSET U /\ spans # {}
    BY <1>1
  <1>4. \A x, y \in spans : y \subseteq x /\ y # x => <<y, x>> \in R
    BY <1>3 DEF StrictSubsetOrdering
  <1> HIDE DEF R, spans, U
  <1>5. PICK x \in spans : \A y \in spans : <<y, x>> \notin R
    BY <1>2, <1>3, WFMin
  <1>6. PICK n \in below : x = 1..n
    BY DEF spans
  <1>7. \A m \in below : ~(m < n)
    <2> SUFFICES ASSUME NEW m \in below, m < n PROVE FALSE
      OBVIOUS
    <2>0. m \in Nat /\ n \in Nat
      OBVIOUS
    <2>1. 1..m \in spans
      BY DEF spans
    <2>2. 1..m \subseteq x /\ n \in x /\ n \notin 1..m
      BY <1>6, <2>0
    <2> QED BY <1>4, <1>5, <2>1, <2>2
  <1>8. n \in T /\ n <= top /\ n \in Nat
    OBVIOUS
  <1>9. ASSUME NEW m \in T
        PROVE  n <= m
    <2>1. m \in Nat /\ top \in Nat
      BY <1>1
    <2>2. CASE m <= top
      BY <1>7, <1>8, <2>1, <2>2
    <2>3. CASE ~(m <= top)
      BY <1>8, <2>1, <2>3
    <2> QED BY <2>2, <2>3
  <1> QED BY <1>8, <1>9

-----------------------------------------------------------------------------
(* The inductive invariant, of the store and of the file.                   *)

Stores == [recs : [Rids -> Binding], index : [Names -> Rids \cup {None}]]

\* A record has a title; one that is an address or a qualified name is its own;
\* and all of these are one device's.
RecordOK(b) ==
  /\ b # NoRecord => b.canonical \in Names
  /\ b.canonical # None /\ Strong(b.canonical) => b.canonical \in b.aliases
  /\ \E d \in Calls : StrongIn(b) \subseteq d

Agrees(s) == \A n \in Names, r \in Rids : s.index[n] = r <=> n \in s.recs[r].aliases

\* Until time t.
Sound(s, t) ==
  /\ s \in Stores /\ Agrees(s)
  /\ \A r \in Rids : RecordOK(s.recs[r]) /\ s.recs[r].at <= t

\* Room for all of the file, and no address or qualified name in it twice.
FileOK(bs, t) ==
  /\ IsFiniteSet(bs) /\ Cardinality(bs) <= Cardinality(Rids)
  /\ \A b \in bs : b \in Binding /\ b.canonical \in Names /\ RecordOK(b) /\ b.at <= t
  /\ \A b, c \in bs : b # c => StrongIn(b) \cap StrongIn(c) = {}

BindingsInv ==
  /\ opened \in BOOLEAN /\ now \in 0..MaxTime
  /\ Sound(Store, now) /\ FileOK(file, now)

(* Recursion over the records found, and over the records of a file.        *)

LEMMA MergeInduction ==
  ASSUME NEW s, NEW found, Len(found) \in Nat, Len(found) > 0, NEW P, s \in P[1],
         \A k \in 2..Len(found) : \A t \in P[k - 1] : Merge(t, found[1], found[k]) \in P[k]
  PROVE  MergeAll(s, found) \in P[Len(found)]
  <1> DEFINE n == Len(found)
             Step(f, k) == IF k = 1 THEN s ELSE Merge(f[k - 1], found[1], found[k])
             Done == {m \in 1..n : \E f : f = [k \in 1..m |-> Step(f, k)]}
  <1>1. n \in Done
    <2> SUFFICES ASSUME n \notin Done PROVE FALSE
      OBVIOUS
    <2>1. PICK m \in (1..n) \ Done : \A j \in (1..n) \ Done : m <= j
      <3>1. (1..n) \ Done \in SUBSET Nat /\ (1..n) \ Done # {}
        OBVIOUS
      <3> HIDE DEF Done
      <3> QED BY <3>1, LeastNat
    <2>2. CASE m = 1
      <3> DEFINE f == [k \in 1..1 |-> s]
      <3>1. f = [k \in 1..m |-> Step(f, k)]
        BY <2>2
      <3> QED BY <2>1, <3>1
    <2>3. CASE m # 1
      <3>1. m - 1 \in 1..n /\ ~(m <= m - 1)
        BY <2>1, <2>3
      <3>2. m - 1 \in Done
        BY <2>1, <3>1
      <3>3. PICK g : g = [k \in 1..(m - 1) |-> Step(g, k)]
        BY <3>2
      <3> DEFINE f == [k \in 1..m |-> Step(g, k)]
      <3>4. \A k \in 1..(m - 1) : f[k] = g[k]
        <4> SUFFICES ASSUME NEW k \in 1..(m - 1) PROVE f[k] = g[k]
          OBVIOUS
        <4>1. k \in 1..m
          BY <2>1
        <4>2. g[k] = Step(g, k)
          BY <3>3
        <4> QED BY <4>1, <4>2
      <3>5. \A k \in 1..m : Step(f, k) = Step(g, k)
        <4> SUFFICES ASSUME NEW k \in 1..m PROVE Step(f, k) = Step(g, k)
          OBVIOUS
        <4>1. k # 1 => k - 1 \in 1..(m - 1)
          BY <2>1
        <4> HIDE DEF f
        <4> QED BY <4>1, <3>4
      <3>6. f = [k \in 1..m |-> Step(f, k)]
        BY <3>5
      <3> QED BY <2>1, <3>6
    <2> QED BY <2>2, <2>3
  <1> DEFINE after == CHOOSE f : f = [k \in 1..n |-> Step(f, k)]
  <1>2. after = [k \in 1..n |-> Step(after, k)]
    BY <1>1
  <1>3. MergeAll(s, found) = after[n]
    BY DEF MergeAll
  <1> DEFINE Out == {k \in 1..n : after[k] \notin P[k]}
  <1>4. Out = {}
    <2> HIDE DEF after
    <2> SUFFICES ASSUME Out # {} PROVE FALSE
      OBVIOUS
    <2>1. PICK m \in Out : \A j \in Out : m <= j
      <3>1. Out \in SUBSET Nat
        OBVIOUS
      <3> HIDE DEF Out
      <3> QED BY <3>1, LeastNat
    <2>2. m \in 1..n /\ after[m] = Step(after, m)
      BY <1>2
    <2>3. m # 1
      BY <2>1, <2>2
    <2>4. m - 1 \in 1..n /\ ~(m <= m - 1)
      BY <2>2, <2>3
    <2>5. after[m - 1] \in P[m - 1]
      BY <2>1, <2>4
    <2>6. m \in 2..n
      BY <2>2, <2>3
    <2> QED BY <2>1, <2>2, <2>3, <2>5, <2>6
  <1>5. n \in 1..n
    OBVIOUS
  <1> HIDE DEF after
  <1> QED BY <1>3, <1>4, <1>5

LEMMA LoadInduction ==
  ASSUME NEW list, Len(list) \in Nat, NEW P, Empty \in P[0],
         \A k \in 1..Len(list) : \A t \in P[k - 1] : LoadOne(t, list[k]) \in P[k]
  PROVE  Load(list) \in P[Len(list)]
  <1> DEFINE n == Len(list)
             Step(f, k) == IF k = 0 THEN Empty ELSE LoadOne(f[k - 1], list[k])
             Done == {m \in 0..n : \E f : f = [k \in 0..m |-> Step(f, k)]}
  <1>1. n \in Done
    <2> SUFFICES ASSUME n \notin Done PROVE FALSE
      OBVIOUS
    <2>1. PICK m \in (0..n) \ Done : \A j \in (0..n) \ Done : m <= j
      <3>1. (0..n) \ Done \in SUBSET Nat /\ (0..n) \ Done # {}
        OBVIOUS
      <3> HIDE DEF Done
      <3> QED BY <3>1, LeastNat
    <2>2. CASE m = 0
      <3> DEFINE f == [k \in 0..0 |-> Empty]
      <3>1. f = [k \in 0..m |-> Step(f, k)]
        BY <2>2
      <3> QED BY <2>1, <3>1
    <2>3. CASE m # 0
      <3>1. m - 1 \in 0..n /\ ~(m <= m - 1)
        BY <2>1, <2>3
      <3>2. m - 1 \in Done
        BY <2>1, <3>1
      <3>3. PICK g : g = [k \in 0..(m - 1) |-> Step(g, k)]
        BY <3>2
      <3> DEFINE f == [k \in 0..m |-> Step(g, k)]
      <3>4. \A k \in 0..(m - 1) : f[k] = g[k]
        <4> SUFFICES ASSUME NEW k \in 0..(m - 1) PROVE f[k] = g[k]
          OBVIOUS
        <4>1. k \in 0..m
          BY <2>1
        <4>2. g[k] = Step(g, k)
          BY <3>3
        <4> QED BY <4>1, <4>2
      <3>5. \A k \in 0..m : Step(f, k) = Step(g, k)
        <4> SUFFICES ASSUME NEW k \in 0..m PROVE Step(f, k) = Step(g, k)
          OBVIOUS
        <4>1. k # 0 => k - 1 \in 0..(m - 1)
          BY <2>1
        <4> HIDE DEF f
        <4> QED BY <4>1, <3>4
      <3>6. f = [k \in 0..m |-> Step(f, k)]
        BY <3>5
      <3> QED BY <2>1, <3>6
    <2> QED BY <2>2, <2>3
  <1> DEFINE after == CHOOSE f : f = [k \in 0..n |-> Step(f, k)]
  <1>2. after = [k \in 0..n |-> Step(after, k)]
    BY <1>1
  <1>3. Load(list) = after[n]
    BY DEF Load
  <1> DEFINE Out == {k \in 0..n : after[k] \notin P[k]}
  <1>4. Out = {}
    <2> HIDE DEF after
    <2> SUFFICES ASSUME Out # {} PROVE FALSE
      OBVIOUS
    <2>1. PICK m \in Out : \A j \in Out : m <= j
      <3>1. Out \in SUBSET Nat
        OBVIOUS
      <3> HIDE DEF Out
      <3> QED BY <3>1, LeastNat
    <2>2. m \in 0..n /\ after[m] = Step(after, m)
      BY <1>2
    <2>3. m # 0
      BY <2>1, <2>2
    <2>4. m - 1 \in 0..n /\ ~(m <= m - 1)
      BY <2>2, <2>3
    <2>5. after[m - 1] \in P[m - 1]
      BY <2>1, <2>4
    <2>6. m \in 1..n
      BY <2>2, <2>3
    <2> QED BY <2>1, <2>2, <2>3, <2>5, <2>6
  <1>5. n \in 0..n
    OBVIOUS
  <1> HIDE DEF after
  <1> QED BY <1>3, <1>4, <1>5

-----------------------------------------------------------------------------
(* Operators of the store.                                                  *)

LEMMA BestIsThere ==
  ASSUME NEW S \in SUBSET Names, S # {}
  PROVE  Best(S) \in S /\ ((\E q \in S : q \in Qualified) => Best(S) \in Qualified)
  <1> DEFINE class(n) == IF n \in Addresses THEN 0 ELSE IF n \in Labels THEN 1 ELSE 2
             Top == {n \in S : \A m \in S : class(n) >= class(m)}
             Marks == {Before[n] : n \in Top}
             Wins(n) == \A m \in S \ {n} :
                          class(n) > class(m) \/ (class(n) = class(m) /\ Before[n] < Before[m])
  <1>1. \A n \in S : class(n) \in {0, 1, 2}
    OBVIOUS
  <1>2. Top # {}
    <2>1. CASE \E n \in S : class(n) = 2
      BY <1>1, <2>1
    <2>2. CASE (\A n \in S : class(n) # 2) /\ \E n \in S : class(n) = 1
      BY <1>1, <2>2
    <2>3. CASE \A n \in S : class(n) # 2 /\ class(n) # 1
      BY <1>1, <2>3
    <2> QED BY <2>1, <2>2, <2>3
  <1>3. Marks \in SUBSET Nat /\ Marks # {}
    BY <1>2, BeforeAssumption
  <1>4. PICK least \in Marks : \A m \in Marks : least <= m
    <2> HIDE DEF Marks
    <2> QED BY <1>3, LeastNat
  <1>5. PICK n \in Top : Before[n] = least
    OBVIOUS
  <1>6. n \in S /\ Wins(n)
    <2> SUFFICES ASSUME NEW m \in S \ {n}
                 PROVE  class(n) > class(m) \/ (class(n) = class(m) /\ Before[n] < Before[m])
      BY <1>5
    <2>1. class(n) >= class(m) /\ class(n) \in {0, 1, 2} /\ class(m) \in {0, 1, 2}
      BY <1>1, <1>5
    <2>2. CASE class(n) > class(m)
      BY <2>2
    <2>3. CASE class(n) = class(m)
      <3>1. m \in Top
        BY <1>5, <2>3
      <3>2. Before[n] <= Before[m]
        BY <1>4, <1>5, <3>1
      <3>3. Before[n] # Before[m] /\ Before[n] \in Nat /\ Before[m] \in Nat
        BY <1>5, BeforeAssumption
      <3> HIDE DEF class
      <3> QED BY <2>3, <3>2, <3>3
    <2> HIDE DEF class
    <2> QED BY <2>1, <2>2, <2>3
  <1>7. Best(S) \in S /\ Wins(Best(S))
    <2> HIDE DEF Wins
    <2>1. (CHOOSE x \in S : Wins(x)) \in S /\ Wins(CHOOSE x \in S : Wins(x))
      BY <1>6
    <2> USE DEF Wins
    <2> QED BY <2>1 DEF Best
  <1>8. ASSUME NEW q \in S, q \in Qualified PROVE Best(S) \in Qualified
    <2>1. class(q) = 2
      BY <1>8, NamesAssumption
    <2>2. class(Best(S)) = 2
      <3>1. CASE Best(S) = q
        BY <2>1, <3>1
      <3>2. CASE Best(S) # q
        BY <1>1, <1>7, <2>1, <3>2
      <3> QED BY <3>1, <3>2
    <2> QED BY <1>7, <2>2 DEF Names
  <1> QED BY <1>7, <1>8

\* What merging the first k of the records found has made of the store s.
MergedUpTo(s, found, k) ==
  {t \in Stores :
     LET r == found[1]
         F == {found[j] : j \in 1..k}
     IN /\ t.recs[r].aliases = UNION {s.recs[x].aliases : x \in F}
        /\ t.recs[r].canonical \in {s.recs[x].canonical : x \in F}
        /\ \A x \in F : s.recs[x].at <= t.recs[r].at
        /\ t.recs[r].at \in {s.recs[x].at : x \in F}
        /\ \A x \in Rids \ F : t.recs[x] = s.recs[x]
        /\ \A x \in F \ {r} : t.recs[x] = NoRecord
        /\ \A n \in Names : t.index[n] = IF s.index[n] \in F THEN r ELSE s.index[n]}

\* Several records found are all merged into the first: its names are all of
\* theirs, its title is one of theirs, its time the latest.
LEMMA MergeAllIs ==
  ASSUME NEW s \in Stores, Agrees(s), NEW found, Len(found) \in Nat, Len(found) > 0,
         \A j \in 1..Len(found) : found[j] \in Rids,
         Len(found) > 1 => \A j \in 1..Len(found) : s.recs[found[j]].canonical \in Names,
         \A i, j \in 1..Len(found) : i # j => found[i] # found[j]
  PROVE  MergeAll(s, found) \in MergedUpTo(s, found, Len(found))
  <1> DEFINE n == Len(found)
             r == found[1]
             P == [k \in 1..n |-> MergedUpTo(s, found, k)]
  <1>0. r \in Rids /\ \A x \in Rids : s.recs[x] \in Binding
    BY DEF Stores
  <1>1. s \in P[1]
    <2>1. {found[j] : j \in 1..1} = {r}
      OBVIOUS
    <2>2. s.recs[r].at \in Int
      BY <1>0 DEF Binding
    <2>3. \A x \in Names : s.index[x] \in Rids \cup {None}
      BY DEF Stores
    <2>4. s \in MergedUpTo(s, found, 1)
      BY <1>0, <2>1, <2>2, <2>3 DEF MergedUpTo
    <2> QED BY <2>4
  <1>2. ASSUME NEW k \in 2..n, NEW t \in P[k - 1]
        PROVE  Merge(t, r, found[k]) \in P[k]
    <2> DEFINE src == found[k]
               F == {found[j] : j \in 1..(k - 1)}
               G == {found[j] : j \in 1..k}
               u == Merge(t, r, src)
               d == t.recs[r]
               e == t.recs[src]
    <2>1. k \in 1..n /\ k - 1 \in 1..n /\ 1 \in 1..(k - 1) /\ k > 1
      OBVIOUS
    <2>2. G = F \cup {src} /\ r \in F /\ src \notin F /\ src \in Rids /\ src # r
      <3>1. \A j \in 1..k : j = k \/ j \in 1..(k - 1)
        OBVIOUS
      <3>2. \A j \in 1..(k - 1) : j \in 1..k /\ j \in 1..n /\ j # k
        BY <2>1
      <3> QED BY <2>1, <3>1, <3>2
    <2>3. t \in MergedUpTo(s, found, k - 1)
      BY <2>1
    <2>4. /\ t \in Stores
          /\ d.aliases = UNION {s.recs[x].aliases : x \in F}
          /\ d.canonical \in {s.recs[x].canonical : x \in F}
          /\ \A x \in F : s.recs[x].at <= d.at
          /\ d.at \in {s.recs[x].at : x \in F}
          /\ \A x \in Rids \ F : t.recs[x] = s.recs[x]
          /\ \A x \in F \ {r} : t.recs[x] = NoRecord
          /\ \A m \in Names : t.index[m] = IF s.index[m] \in F THEN r ELSE s.index[m]
      BY <2>3 DEF MergedUpTo
    <2>5. e = s.recs[src] /\ e \in Binding /\ d \in Binding
      BY <1>0, <2>2, <2>4 DEF Stores
    <2>6. F \subseteq Rids /\ \A x \in F : s.recs[x].canonical \in Names
      <3>1. \A j \in 1..(k - 1) : j \in 1..n
        BY <2>1
      <3> QED BY <2>1, <3>1
    <2>7. d.canonical \in Names /\ e.canonical \in Names
      <3>1. d.canonical \in Names
        <4> HIDE DEF F
        <4> QED BY <2>4, <2>6
      <3>2. s.recs[found[k]].canonical \in Names
        BY <2>1
      <3> QED BY <2>5, <3>1, <3>2
    <2> DEFINE both == [canonical |-> Best({d.canonical, e.canonical}),
                        aliases |-> d.aliases \cup e.aliases,
                        cred |-> IF e.at > d.at \/ d.cred = None THEN e.cred ELSE d.cred,
                        at |-> IF e.at > d.at THEN e.at ELSE d.at]
    <2>8. both.canonical \in {d.canonical, e.canonical}
      BY <2>7, BestIsThere
    <2>9. both \in Binding
      BY <2>5, <2>7, <2>8 DEF Binding
    <2>10. u.recs = [t.recs EXCEPT ![src] = NoRecord, ![r] = both]
           /\ u.index = [m \in Names |-> IF m \in e.aliases THEN r ELSE t.index[m]]
           /\ u = [recs |-> u.recs, index |-> u.index]
      BY DEF Merge
    <2>11. t.recs \in [Rids -> Binding] /\ t.index \in [Names -> Rids \cup {None}]
      BY <2>4 DEF Stores
    <2>12. u.recs[r] = both /\ u.recs[src] = NoRecord
           /\ \A x \in Rids \ {r, src} : u.recs[x] = t.recs[x]
      <3> HIDE DEF u, both, F, src, r
      <3> QED BY <1>0, <2>2, <2>10, <2>11
    <2>13. NoRecord \in Binding
      BY RidsAssumption DEF NoRecord, Binding
    <2>14. u \in Stores
      <3>1. u.recs \in [Rids -> Binding]
        <4> HIDE DEF both, u, src, r
        <4>1. [t.recs EXCEPT ![src] = NoRecord] \in [Rids -> Binding]
          BY <2>11, <2>13
        <4> QED BY <2>9, <2>10, <4>1
      <3>2. u.index \in [Names -> Rids \cup {None}]
        <4> HIDE DEF u, e, r
        <4> QED BY <1>0, <2>10, <2>11
      <3> HIDE DEF u
      <3> QED BY <2>10, <3>1, <3>2 DEF Stores
    <2>15. \A x \in F \cup {src} : s.recs[x].at \in Int
      BY <1>0, <2>2, <2>6 DEF Binding
    <2> HIDE DEF u, F, G, src
    <2>16. /\ u.recs[r].aliases = UNION {s.recs[x].aliases : x \in G}
           /\ u.recs[r].canonical \in {s.recs[x].canonical : x \in G}
      <3>1. both.aliases = d.aliases \cup e.aliases
        OBVIOUS
      <3>2. e.aliases = s.recs[src].aliases /\ e.canonical = s.recs[src].canonical
        BY <2>5
      <3> HIDE DEF both, d, e, r
      <3> QED BY <2>2, <2>4, <2>8, <2>12, <3>1, <3>2
    <2>17. /\ \A x \in G : s.recs[x].at <= u.recs[r].at
           /\ u.recs[r].at \in {s.recs[x].at : x \in G}
      <3>1. d.at \in Int /\ e.at \in Int /\ e.at = s.recs[src].at
        BY <2>5 DEF Binding
      <3>2. u.recs[r].at = IF e.at > d.at THEN e.at ELSE d.at
        BY <2>12
      <3> HIDE DEF d, e, r
      <3>3. \A x \in G : s.recs[x].at <= u.recs[r].at
        BY <2>2, <2>4, <2>15, <3>1, <3>2
      <3>4. u.recs[r].at \in {s.recs[x].at : x \in G}
        BY <2>2, <2>4, <3>1, <3>2
      <3> QED BY <3>3, <3>4
    <2>18. /\ \A x \in Rids \ G : u.recs[x] = s.recs[x]
           /\ \A x \in G \ {r} : u.recs[x] = NoRecord
      BY <2>2, <2>4, <2>6, <2>12
    <2>19. ASSUME NEW m \in Names
           PROVE  u.index[m] = IF s.index[m] \in G THEN r ELSE s.index[m]
      <3>1. m \in e.aliases <=> s.index[m] = src
        BY <2>2, <2>5 DEF Agrees
      <3>2. u.index[m] = IF m \in e.aliases THEN r ELSE t.index[m]
        BY <2>10
      <3> QED BY <2>2, <2>4, <3>1, <3>2
    <2>20. u \in MergedUpTo(s, found, k)
      BY <2>14, <2>16, <2>17, <2>18, <2>19 DEF MergedUpTo, G
    <2> QED BY <2>1, <2>20 DEF u, src
  <1> HIDE DEF P
  <1>3. MergeAll(s, found) \in P[n]
    BY <1>1, <1>2, MergeInduction
  <1>4. n \in 1..n
    OBVIOUS
  <1> QED BY <1>3, <1>4 DEF P

\* A walk through a finite set comes to each of its members once.
LEMMA WalksAre ==
  ASSUME NEW S, IsFiniteSet(S), NEW w \in Walks(S)
  PROVE  /\ Len(w) = Cardinality(S) /\ Len(w) \in Nat /\ DOMAIN w = 1..Len(w)
         /\ {w[j] : j \in 1..Len(w)} = S
         /\ \A i, j \in 1..Len(w) : i # j => w[i] # w[j]
  <1> DEFINE n == Cardinality(S)
  <1>1. n \in Nat
    BY FS_CardinalityType
  <1>2. w \in [1..n -> S] /\ DOMAIN w = 1..n /\ \A i, j \in 1..n : i # j => w[i] # w[j]
    BY DEF Walks
  <1>3. w \in Seq(S) /\ Len(w) = n
    <2> HIDE DEF n
    <2>1. w \in Seq(S)
      BY <1>1, <1>2
    <2> QED BY <1>1, <1>2, <2>1, LenProperties
  <1>4. w \in Injection(1..n, S)
    BY <1>2 DEF Injection, IsInjective
  <1>5. Cardinality(1..n) = n
    BY <1>1, FS_Interval
  <1>6. w \in Surjection(1..n, S)
    BY <1>4, <1>5, FS_Injection
  <1>7. \A x \in S : \E j \in 1..n : w[j] = x
    BY <1>6 DEF Surjection
  <1> QED BY <1>1, <1>2, <1>3, <1>7

LEMMA ShapesAreNames ==
  ASSUME NEW ids \in SUBSET Names
  PROVE  Shapes(ids) \subseteq Names /\ ids \subseteq Shapes(ids)
         /\ {n \in Shapes(ids) : Strong(n)} = {n \in ids : Strong(n)}
  BY LabelsAssumption DEF Shapes, Names, Strong

\* The records a bind finds: all those of its strong names; or one that its labels
\* select; or a new one.
LEMMA TargetsAre ==
  ASSUME NEW s \in Stores, NEW ids \in SUBSET Names, NEW found \in Targets(s, ids)
  PROVE  LET F == {found[j] : j \in 1..Len(found)}
             strong == Owners(s, {n \in Shapes(ids) : Strong(n)})
             weak == Owners(s, {n \in Shapes(ids) : ~Strong(n)})
         IN /\ Len(found) \in Nat /\ Len(found) > 0 /\ DOMAIN found = 1..Len(found)
            /\ \A i, j \in 1..Len(found) : i # j => found[i] # found[j]
            /\ F \subseteq Rids /\ found[1] \in F
            /\ \/ strong # {} /\ F = strong
               \/ /\ strong = {} /\ Len(found) = 1 /\ F = {found[1]} /\ found[1] \in weak
                  /\ Selects(s, found[1], ids)
               \/ /\ strong = {} /\ Len(found) = 1 /\ F = {found[1]}
                  /\ s.recs[found[1]] = NoRecord
  <1> DEFINE F == {found[j] : j \in 1..Len(found)}
             strong == Owners(s, {n \in Shapes(ids) : Strong(n)})
             weak == Owners(s, {n \in Shapes(ids) : ~Strong(n)})
  <1>1. strong \subseteq Rids /\ weak \subseteq Rids /\ IsFiniteSet(strong) /\ IsFiniteSet(weak)
    <2>1. Shapes(ids) \subseteq Names
      BY ShapesAreNames
    <2>2. \A n \in Names : s.index[n] \in Rids \cup {None}
      BY DEF Stores
    <2>3. strong \subseteq Rids /\ weak \subseteq Rids
      BY <2>1, <2>2 DEF Owners
    <2> HIDE DEF strong, weak
    <2> QED BY <2>3, RidsAssumption, FS_Subset
  <1>2. found \in (IF strong # {} THEN Walks(strong)
                   ELSE IF Cardinality(weak) = 1 /\ \A r \in weak : Selects(s, r, ids) THEN Walks(weak)
                   ELSE {<<r>> : r \in Rids \ Live(s)})
    BY DEF Targets
  <1> HIDE DEF strong, weak
  <1>3. CASE strong # {}
    <2>1. found \in Walks(strong)
      BY <1>2, <1>3
    <2>2. Len(found) > 0
      <3>1. Cardinality(strong) # 0
        BY <1>1, <1>3, FS_EmptySet
      <3> QED BY <1>1, <2>1, <3>1, WalksAre
    <2>3. 1 \in 1..Len(found)
      BY <1>1, <2>1, <2>2, WalksAre
    <2> QED BY <1>1, <1>3, <2>1, <2>2, <2>3, WalksAre DEF strong, weak
  <1>4. CASE strong = {} /\ Cardinality(weak) = 1 /\ \A r \in weak : Selects(s, r, ids)
    <2>1. found \in Walks(weak)
      BY <1>2, <1>4
    <2>2. Len(found) = 1 /\ F = weak /\ DOMAIN found = 1..1
      BY <1>1, <1>4, <2>1, WalksAre
    <2>3. F = {found[1]}
      BY <2>2
    <2> QED BY <1>1, <1>4, <2>2, <2>3 DEF strong, weak
  <1>5. CASE strong = {} /\ found \in {<<r>> : r \in Rids \ Live(s)}
    <2>1. PICK r \in Rids \ Live(s) : found = <<r>>
      BY <1>5
    <2>2. Len(found) = 1 /\ found[1] = r /\ DOMAIN found = 1..1
      BY <2>1
    <2>3. F = {r}
      BY <2>2
    <2>4. s.recs[r] = NoRecord
      BY <2>1 DEF Live
    <2> QED BY <1>5, <2>1, <2>2, <2>3, <2>4 DEF strong, weak
  <1> QED BY <1>2, <1>3, <1>4, <1>5

LEMMA FoundAre ==
  ASSUME NEW s \in Stores, NEW ids \in SUBSET Names, NEW found \in Targets(s, ids)
  PROVE  found[1] \in Rids /\ {found[j] : j \in 1..Len(found)} \subseteq Rids
         /\ found[1] \in {found[j] : j \in 1..Len(found)}
  <1>1. LET F == {found[j] : j \in 1..Len(found)}
        IN F \subseteq Rids /\ found[1] \in F
    BY TargetsAre, Zenon
  <1> QED BY <1>1

\* What a bind of ids through the records found makes u of the store s: one record
\* holds the names of all of those, and of the ids every address, every qualified
\* name and every label nobody else has; the rest is as it was.
BoundIs(s, u, found, ids, canonical, last) ==
  LET r == found[1]
      F == {found[j] : j \in 1..Len(found)}
      names == u.recs[r].aliases
      own == UNION {s.recs[x].aliases : x \in F}
  IN /\ u \in Stores /\ Agrees(u)
     /\ own \subseteq names /\ names \subseteq own \cup Shapes(ids)
     /\ \A n \in Shapes(ids) : Strong(n) \/ s.index[n] = None => n \in names
     /\ \A n \in names : s.index[n] \in F \cup {None}
     /\ \A x \in Rids \ F : u.recs[x] = s.recs[x]
     /\ \A x \in F \ {r} : u.recs[x] = NoRecord
     /\ \A x \in F : s.recs[x].at <= u.recs[r].at
     /\ u.recs[r].at \in {s.recs[x].at : x \in F}
     /\ \A n \in Names : u.index[n] = IF n \in names THEN r ELSE s.index[n]
     /\ u.recs[r].canonical \in {s.recs[x].canonical : x \in F} \cup {canonical, last} \cup names
     /\ u.recs[r].canonical \in Names
     /\ (\E q \in names : q \in Qualified) => u.recs[r].canonical \in Qualified

LEMMA BoundToIs ==
  ASSUME NEW s \in Stores, Agrees(s), NEW ids \in SUBSET Names, NEW found \in Targets(s, ids),
         NEW canonical \in Names \cup {None}, NEW last \in Names,
         \A x \in Rids : s.recs[x] # NoRecord => s.recs[x].canonical \in Names
  PROVE  BoundIs(s, BoundTo(s, found, ids, canonical, last), found, ids, canonical, last)
  <1> DEFINE r == found[1]
             n == Len(found)
             F == {found[j] : j \in 1..n}
             St == {x \in Shapes(ids) : Strong(x)}
             m == MergeAll(s, found)
             taken == Takes(m, r, ids)
             names == m.recs[r].aliases \cup taken
             u == BoundTo(s, found, ids, canonical, last)
             title == Title(m.recs[r].canonical, canonical, names, last)
  <1>1. /\ n \in Nat /\ n > 0 /\ F \subseteq Rids /\ r \in F
        /\ \A i, j \in 1..n : i # j => found[i] # found[j]
        /\ Owners(s, St) \subseteq F
        /\ n > 1 => F = Owners(s, St)
    <2>1. n = 1 => ~(n > 1)
      OBVIOUS
    <2>2. n = 1 \/ F = Owners(s, St)
      BY TargetsAre
    <2> QED BY <2>1, <2>2, TargetsAre
  <1>2. Shapes(ids) \subseteq Names
    BY ShapesAreNames
  <1>3. \A x \in Rids : s.recs[x] \in Binding
    BY DEF Stores
  <1>4. \A x \in Names : s.index[x] \in Rids \cup {None}
    BY DEF Stores
  <1>5. m \in MergedUpTo(s, found, n)
    <2>1. \A j \in 1..n : found[j] \in Rids
      BY <1>1
    <2>2. ASSUME n > 1, NEW j \in 1..n PROVE s.recs[found[j]].canonical \in Names
      <3>1. found[j] \in Owners(s, St)
        BY <1>1, <2>2
      <3>2. PICK x \in St : s.index[x] = found[j]
        BY <3>1 DEF Owners
      <3>3. x \in s.recs[found[j]].aliases
        BY <1>2, <2>1, <3>2 DEF Agrees
      <3>4. s.recs[found[j]] # NoRecord
        BY <3>3 DEF NoRecord
      <3> QED BY <2>1, <3>4
    <2> QED BY <1>1, <2>1, <2>2, MergeAllIs
  <1>6. /\ m \in Stores
        /\ m.recs[r].aliases = UNION {s.recs[x].aliases : x \in F}
        /\ m.recs[r].canonical \in {s.recs[x].canonical : x \in F}
        /\ \A x \in F : s.recs[x].at <= m.recs[r].at
        /\ m.recs[r].at \in {s.recs[x].at : x \in F}
        /\ \A x \in Rids \ F : m.recs[x] = s.recs[x]
        /\ \A x \in F \ {r} : m.recs[x] = NoRecord
        /\ \A x \in Names : m.index[x] = IF s.index[x] \in F THEN r ELSE s.index[x]
    BY <1>5 DEF MergedUpTo
  <1>7. m.recs \in [Rids -> Binding] /\ m.index \in [Names -> Rids \cup {None}]
        /\ m.recs[r] \in Binding
    BY <1>1, <1>6 DEF Stores
  <1>8. /\ taken \subseteq Shapes(ids)
        /\ \A x \in Shapes(ids) : Strong(x) \/ s.index[x] = None => x \in taken
        /\ \A x \in taken : s.index[x] \in F \cup {None}
    <2>1. taken = {x \in Shapes(ids) : Strong(x) \/ m.index[x] \in {None, r}}
      BY DEF Takes
    <2>2. \A x \in Shapes(ids) : Strong(x) => s.index[x] \in F \cup {None}
      BY <1>1 DEF Owners
    <2> HIDE DEF m, taken, F, r
    <2>3. \A x \in Names : s.index[x] = None => m.index[x] = None
      BY <1>1, <1>6, NamesAssumption
    <2>4. \A x \in Names : m.index[x] \in {None, r} => s.index[x] \in F \cup {None}
      BY <1>1, <1>6
    <2> QED BY <1>2, <2>1, <2>2, <2>3, <2>4
  <1>9. title \in Names /\ title \in {m.recs[r].canonical, canonical, last} \cup names
        /\ ((\E q \in names : q \in Qualified) => title \in Qualified)
    <2> DEFINE own == m.recs[r].canonical
               titles == ({own, canonical} \cup names) \ {None}
    <2>1. own \in Names \cup {None} /\ m.recs[r].aliases \subseteq Names
      BY <1>7 DEF Binding
    <2>2. names \subseteq Names
      BY <1>2, <1>8, <2>1
    <2>3. titles \in SUBSET Names
      BY <2>1, <2>2
    <2>4. title = IF titles = {} THEN last ELSE Best(titles)
      BY DEF Title
    <2>5. None \notin Names
      BY NamesAssumption
    <2> HIDE DEF titles, title
    <2>6. titles # {} => Best(titles) \in titles
                         /\ ((\E q \in titles : q \in Qualified) => Best(titles) \in Qualified)
      BY <2>3, BestIsThere
    <2>7. names \subseteq titles
      BY <2>2, <2>5 DEF titles
    <2>9. title \in Names /\ title \in {own, canonical, last} \cup names
      BY <2>3, <2>4, <2>6 DEF titles
    <2>10. ASSUME NEW q \in names, q \in Qualified PROVE title \in Qualified
      <3>1. q \in titles
        BY <2>7, <2>10
      <3> QED BY <2>4, <2>6, <2>10, <3>1
    <2> QED BY <2>9, <2>10
  <1> DEFINE b == [m.recs[r] EXCEPT !.aliases = names, !.canonical = title]
  <1>10. /\ u.recs = [m.recs EXCEPT ![r] = b]
         /\ u.index = [x \in Names |-> IF x \in taken THEN r ELSE m.index[x]]
         /\ u = [recs |-> u.recs, index |-> u.index]
    <2>1. u = [recs |-> [m.recs EXCEPT ![r].aliases = names,
                                       ![r].canonical = Title(@, canonical, names, last)],
               index |-> [x \in Names |-> IF x \in taken THEN r ELSE m.index[x]]]
      BY DEF BoundTo
    <2> HIDE DEF m, taken, u, r, names
    <2>2. [m.recs EXCEPT ![r].aliases = names,
                         ![r].canonical = Title(@, canonical, names, last)]
            = [m.recs EXCEPT ![r] = b]
      BY <1>1, <1>7 DEF title, Binding
    <2> QED BY <2>1, <2>2
  <1> HIDE DEF m, taken, u, r, title, F, n
  <1>11. names \subseteq Names
    BY <1>2, <1>7, <1>8 DEF Binding
  <1>12. b \in Binding /\ b.aliases = names /\ b.canonical = title /\ b.at = m.recs[r].at
    BY <1>7, <1>9, <1>11 DEF Binding
  <1>13. /\ u.recs \in [Rids -> Binding] /\ u.recs[r] = b
         /\ \A x \in Rids \ {r} : u.recs[x] = m.recs[x]
    <2> HIDE DEF b
    <2> QED BY <1>1, <1>7, <1>10, <1>12
  <1>14. u \in Stores
    <2>1. u.index \in [Names -> Rids \cup {None}]
      BY <1>1, <1>7, <1>10
    <2> QED BY <1>10, <1>13, <2>1 DEF Stores
  <1>15. \A x \in names : s.index[x] \in F \cup {None}
    <2> SUFFICES ASSUME NEW x \in names PROVE s.index[x] \in F \cup {None}
      OBVIOUS
    <2>1. CASE x \in taken
      BY <1>8, <2>1
    <2>2. CASE x \notin taken
      <3>1. PICK y \in F : x \in s.recs[y].aliases
        BY <1>6, <2>2
      <3> QED BY <1>1, <1>11, <3>1 DEF Agrees
    <2> QED BY <2>1, <2>2
  <1>16. \A x \in Names : s.index[x] \in F => x \in names
    BY <1>1, <1>6 DEF Agrees
  <1>17. \A x \in Names : u.index[x] = IF x \in names THEN r ELSE s.index[x]
    <2> SUFFICES ASSUME NEW x \in Names PROVE u.index[x] = IF x \in names THEN r ELSE s.index[x]
      OBVIOUS
    <2>1. u.index[x] = IF x \in taken THEN r ELSE IF s.index[x] \in F THEN r ELSE s.index[x]
      BY <1>6, <1>10
    <2>2. x \in m.recs[r].aliases => s.index[x] \in F
      <3>1. ASSUME x \in m.recs[r].aliases PROVE s.index[x] \in F
        <4>1. PICK y \in F : x \in s.recs[y].aliases
          BY <1>6, <3>1
        <4> QED BY <1>1, <4>1 DEF Agrees
      <3> QED BY <3>1
    <2> QED BY <1>16, <2>1, <2>2
  <1>18. Agrees(u)
    <2> SUFFICES ASSUME NEW x \in Names, NEW y \in Rids PROVE u.index[x] = y <=> x \in u.recs[y].aliases
      BY DEF Agrees
    <2>1. CASE y = r
      <3>1. x \in u.recs[y].aliases <=> x \in names
        BY <1>12, <1>13, <2>1
      <3>2. s.index[x] = r => x \in names
        BY <1>1, <1>16
      <3> QED BY <1>17, <2>1, <3>1, <3>2
    <2>2. CASE y \in F \ {r}
      <3>1. u.recs[y] = NoRecord
        BY <1>6, <1>13, <2>2
      <3>2. u.index[x] # y
        BY <1>16, <1>17, <2>2
      <3> QED BY <3>1, <3>2 DEF NoRecord
    <2>3. CASE y \notin F
      <3>1. u.recs[y] = s.recs[y]
        BY <1>1, <1>6, <1>13, <2>3
      <3>2. s.index[x] = y => x \notin names
        BY <1>15, <2>3, NamesAssumption
      <3>3. u.index[x] = y <=> s.index[x] = y
        BY <1>1, <1>17, <2>3, <3>2
      <3> QED BY <3>1, <3>3 DEF Agrees
    <2> QED BY <2>1, <2>2, <2>3
  <1>19. /\ \A x \in Rids \ F : u.recs[x] = s.recs[x]
         /\ \A x \in F \ {r} : u.recs[x] = NoRecord
         /\ \A x \in F : s.recs[x].at <= u.recs[r].at
         /\ u.recs[r].at \in {s.recs[x].at : x \in F}
    BY <1>1, <1>6, <1>12, <1>13
  <1>20. u.recs[r].aliases = names /\ u.recs[r].canonical = title
    BY <1>12, <1>13
  <1> DEFINE own == UNION {s.recs[x].aliases : x \in F}
  <1>21. m.recs[r].aliases = own
    BY <1>6
  <1>22. names = own \cup taken
    BY <1>21
  <1>23. title \in {s.recs[x].canonical : x \in F} \cup {canonical, last} \cup names
    BY <1>6, <1>9
  <1> HIDE DEF names, b, own
  <1>24. /\ own \subseteq names /\ names \subseteq own \cup Shapes(ids)
         /\ \A x \in Shapes(ids) : Strong(x) \/ s.index[x] = None => x \in names
    BY <1>8, <1>22
  <1>25. (\E q \in names : q \in Qualified) => title \in Qualified
    BY <1>9
  <1>26. title \in Names
    BY <1>9
  <1>27. \A x \in Names : u.index[x] = IF x \in u.recs[r].aliases THEN r ELSE s.index[x]
    BY <1>17, <1>20
  <1>28. /\ own \subseteq u.recs[r].aliases /\ u.recs[r].aliases \subseteq own \cup Shapes(ids)
         /\ \A x \in Shapes(ids) : Strong(x) \/ s.index[x] = None => x \in u.recs[r].aliases
         /\ \A x \in u.recs[r].aliases : s.index[x] \in F \cup {None}
    BY <1>15, <1>20, <1>24
  <1>29. /\ u.recs[r].canonical \in {s.recs[x].canonical : x \in F} \cup {canonical, last} \cup u.recs[r].aliases
         /\ u.recs[r].canonical \in Names
         /\ (\E q \in u.recs[r].aliases : q \in Qualified) => u.recs[r].canonical \in Qualified
    BY <1>20, <1>23, <1>25, <1>26
  <1>30. r = found[1] /\ F = {found[j] : j \in 1..Len(found)}
         /\ own = UNION {s.recs[x].aliases : x \in {found[j] : j \in 1..Len(found)}}
    BY DEF r, F, n, own
  <1>31. BoundIs(s, u, found, ids, canonical, last)
    <2> HIDE DEF Shapes
    <2> QED BY <1>14, <1>18, <1>19, <1>27, <1>28, <1>29, <1>30 DEF BoundIs
  <1> QED BY <1>31 DEF u

\* A bind keeps the store sound when its addresses and qualified names are one
\* device's: every record found by one of them is that device's too.
LEMMA BindKeeps ==
  ASSUME NEW t \in Nat, NEW s, Sound(s, t), NEW ids \in SUBSET Names, NEW d \in Calls,
         {n \in ids : Strong(n)} \subseteq d, NEW found \in Targets(s, ids),
         NEW canonical \in ids \cup {None}, NEW last \in ids
  PROVE  LET u == BoundTo(s, found, ids, canonical, last)
         IN /\ found[1] \in Rids /\ Sound(u, t)
            /\ BoundIs(s, u, found, ids, canonical, last)
  <1> DEFINE u == BoundTo(s, found, ids, canonical, last)
             r == found[1]
             F == {found[j] : j \in 1..Len(found)}
             names == u.recs[r].aliases
             own == UNION {s.recs[x].aliases : x \in F}
  <1>1. s \in Stores /\ Agrees(s) /\ \A x \in Rids : RecordOK(s.recs[x]) /\ s.recs[x].at <= t
    BY DEF Sound
  <1>2. BoundIs(s, u, found, ids, canonical, last)
    <2>1. \A x \in Rids : s.recs[x] # NoRecord => s.recs[x].canonical \in Names
      BY <1>1 DEF RecordOK
    <2>2. canonical \in Names \cup {None} /\ last \in Names
      OBVIOUS
    <2> QED BY <1>1, <2>1, <2>2, BoundToIs
  <1>3. r \in Rids /\ F \subseteq Rids /\ r \in F
    <2>1. s \in Stores
      BY <1>1
    <2> QED BY <2>1, FoundAre
  <1> HIDE DEF u
  <1>4. /\ u \in Stores /\ Agrees(u)
        /\ own \subseteq names /\ names \subseteq own \cup Shapes(ids)
        /\ \A n \in Shapes(ids) : Strong(n) \/ s.index[n] = None => n \in names
        /\ \A x \in Rids \ F : u.recs[x] = s.recs[x]
        /\ \A x \in F \ {r} : u.recs[x] = NoRecord
        /\ u.recs[r].at \in {s.recs[x].at : x \in F}
        /\ u.recs[r].canonical \in {s.recs[x].canonical : x \in F} \cup {canonical, last} \cup names
        /\ u.recs[r].canonical \in Names
    BY <1>2 DEF BoundIs
  <1>5. {n \in Shapes(ids) : Strong(n)} = {n \in ids : Strong(n)} /\ ids \subseteq Shapes(ids)
    BY ShapesAreNames
  <1>6. \A x \in Rids : s.recs[x].aliases \subseteq Names
    BY <1>1 DEF Stores, Binding
  <1> DEFINE St == {n \in Shapes(ids) : Strong(n)}
             strong == Owners(s, St)
             weak == Owners(s, {n \in Shapes(ids) : ~Strong(n)})
  <1>7. \/ F = strong
        \/ F = {r} /\ Selects(s, r, ids)
        \/ F = {r} /\ s.recs[r] = NoRecord
    <2>1. s \in Stores
      BY <1>1
    <2> HIDE DEF u, names, own, weak
    <2> QED BY <2>1, TargetsAre
  <1> HIDE DEF F, own, names, strong
  <1>8. \E c \in Calls : StrongIn(u.recs[r]) \subseteq c
    <2>0. StrongIn(u.recs[r]) \subseteq {n \in own : Strong(n)} \cup {n \in ids : Strong(n)}
      BY <1>4, <1>5 DEF StrongIn, names
    <2>1. CASE F = strong
      <3>1. ASSUME NEW x \in F, NEW n \in s.recs[x].aliases, Strong(n)
            PROVE  n \in d
        <4>1. PICK q \in St : s.index[q] = x
          BY <2>1 DEF strong, Owners
        <4>2. q \in ids /\ Strong(q) /\ q \in d /\ q \in Names
          BY <1>5, <4>1
        <4>3. q \in s.recs[x].aliases
          BY <1>1, <1>3, <4>1, <4>2 DEF Agrees
        <4>4. PICK c \in Calls : StrongIn(s.recs[x]) \subseteq c
          BY <1>1, <1>3 DEF RecordOK
        <4>5. q \in c /\ n \in c
          BY <3>1, <4>2, <4>3, <4>4 DEF StrongIn
        <4>6. c = d
          BY <4>2, <4>5, CallsAssumption
        <4> QED BY <4>5, <4>6
      <3> QED BY <2>0, <3>1 DEF own
    <2>2. CASE F = {r} /\ Selects(s, r, ids)
      <3>1. own = s.recs[r].aliases
        BY <2>2 DEF own
      <3>2. CASE ~HasStrong(s, r)
        BY <2>0, <3>1, <3>2 DEF HasStrong
      <3>3. CASE \A n \in Shapes(ids) : ~Strong(n)
        <4>1. {n \in ids : Strong(n)} = {}
          BY <1>5, <3>3
        <4>2. PICK c \in Calls : StrongIn(s.recs[r]) \subseteq c
          BY <1>1, <1>3 DEF RecordOK
        <4> QED BY <2>0, <3>1, <4>1, <4>2 DEF StrongIn
      <3> QED BY <2>2, <3>2, <3>3 DEF Selects
    <2>3. CASE F = {r} /\ s.recs[r] = NoRecord
      <3>1. own = {}
        BY <2>3 DEF own, NoRecord
      <3> QED BY <2>0, <3>1
    <2> QED BY <1>7, <2>1, <2>2, <2>3
  <1>9. Strong(u.recs[r].canonical) => u.recs[r].canonical \in u.recs[r].aliases
    <2> SUFFICES ASSUME Strong(u.recs[r].canonical) PROVE u.recs[r].canonical \in names
      BY DEF names
    <2>1. CASE u.recs[r].canonical \in {s.recs[x].canonical : x \in F}
      <3>1. PICK x \in F : u.recs[r].canonical = s.recs[x].canonical
        BY <2>1
      <3>2. s.recs[x].canonical # None
        BY <1>4, <3>1, NamesAssumption
      <3>3. s.recs[x].canonical \in s.recs[x].aliases
        BY <1>1, <1>3, <3>1, <3>2 DEF RecordOK
      <3> QED BY <1>4, <3>1, <3>3 DEF own
    <2>2. CASE u.recs[r].canonical \in {canonical, last}
      BY <1>4, <1>5, <2>2, NamesAssumption
    <2>3. CASE u.recs[r].canonical \in names
      BY <2>3
    <2> QED BY <1>4, <2>1, <2>2, <2>3
  <1>10. ASSUME NEW x \in Rids PROVE RecordOK(u.recs[x]) /\ u.recs[x].at <= t
    <2>1. CASE x = r
      <3>1. RecordOK(u.recs[r])
        BY <1>4, <1>8, <1>9 DEF RecordOK
      <3>2. u.recs[r].at <= t
        BY <1>1, <1>3, <1>4
      <3> QED BY <2>1, <3>1, <3>2
    <2>2. CASE x \in F \ {r}
      <3>1. u.recs[x] = NoRecord
        BY <1>4, <2>2
      <3>2. RecordOK(NoRecord)
        BY CallsAssumption DEF RecordOK, NoRecord, StrongIn
      <3> QED BY <3>1, <3>2 DEF NoRecord
    <2>3. CASE x \in Rids \ F
      BY <1>1, <1>4, <2>3
    <2> QED BY <1>3, <2>1, <2>2, <2>3
  <1>11. Sound(u, t)
    BY <1>4, <1>10 DEF Sound
  <1> QED BY <1>2, <1>3, <1>11 DEF u

\* It never loses a name, nor makes one's last success an earlier one.
LEMMA BindForgetsNothing ==
  ASSUME NEW s \in Stores, NEW u, NEW found, NEW ids, NEW canonical, NEW last, Agrees(s),
         BoundIs(s, u, found, ids, canonical, last),
         {found[j] : j \in 1..Len(found)} \subseteq Rids, found[1] \in Rids,
         NEW n \in Names, s.index[n] # None
  PROVE  u.index[n] \in Rids /\ u.recs[u.index[n]].at >= s.recs[s.index[n]].at
  <1> DEFINE r == found[1]
             F == {found[j] : j \in 1..Len(found)}
             x == s.index[n]
  <1>1. u \in Stores /\ UNION {s.recs[y].aliases : y \in F} \subseteq u.recs[r].aliases
        /\ (\A q \in u.recs[r].aliases : s.index[q] \in F \cup {None})
        /\ (\A y \in Rids \ F : u.recs[y] = s.recs[y])
        /\ (\A y \in F : s.recs[y].at <= u.recs[r].at)
        /\ (\A q \in Names : u.index[q] = IF q \in u.recs[r].aliases THEN r ELSE s.index[q])
    BY DEF BoundIs
  <1>2. x \in Rids
    BY DEF Stores
  <1>3. n \in s.recs[x].aliases
    BY <1>2 DEF Agrees
  <1>4. u.index[n] \in Rids \cup {None} /\ \A y \in Rids : u.recs[y].at \in Int /\ s.recs[y].at \in Int
    BY <1>1 DEF Stores, Binding
  <1> HIDE DEF F
  <1>5. CASE x \in F
    <2>1. u.index[n] = r
      BY <1>1, <1>3, <1>5
    <2> QED BY <1>1, <1>4, <1>5, <2>1
  <1>6. CASE x \notin F
    <2>1. u.index[n] = x
      BY <1>1, <1>6, <1>2
    <2> QED BY <1>1, <1>2, <1>4, <1>6, <2>1
  <1> QED BY <1>5, <1>6

\* What is saved is fit to be opened again.
LEMMA SnapshotIsOK ==
  ASSUME NEW t, NEW s, Sound(s, t)
  PROVE  FileOK(Snapshot(s), t)
  <1> DEFINE bs == Snapshot(s)
             of == [r \in Live(s) |-> s.recs[r]]
  <1>1. s \in Stores /\ Agrees(s) /\ \A r \in Rids : RecordOK(s.recs[r]) /\ s.recs[r].at <= t
    BY DEF Sound
  <1>2. IsFiniteSet(Live(s)) /\ Cardinality(Live(s)) <= Cardinality(Rids)
        /\ Cardinality(Live(s)) \in Nat /\ Cardinality(Rids) \in Nat
    <2>1. Live(s) \subseteq Rids
      BY DEF Live
    <2> QED BY <2>1, RidsAssumption, FS_Subset, FS_CardinalityType
  <1>3. of \in Surjection(Live(s), bs)
    BY DEF Snapshot, Surjection
  <1>4. IsFiniteSet(bs) /\ Cardinality(bs) <= Cardinality(Live(s)) /\ Cardinality(bs) \in Nat
    <2> HIDE DEF bs, of
    <2> QED BY <1>2, <1>3, FS_Surjection, FS_CardinalityType
  <1>5. Cardinality(bs) <= Cardinality(Rids)
    <2> HIDE DEF bs
    <2> QED BY <1>2, <1>4
  <1>6. ASSUME NEW b \in bs
        PROVE  b \in Binding /\ b.canonical \in Names /\ RecordOK(b) /\ b.at <= t
    <2>1. PICK r \in Live(s) : b = s.recs[r]
      BY DEF Snapshot
    <2> QED BY <1>1, <2>1 DEF Live, RecordOK, Stores
  <1>7. ASSUME NEW b \in bs, NEW c \in bs, NEW n \in StrongIn(b) \cap StrongIn(c)
        PROVE  b = c
    <2>1. PICK q \in Live(s), r \in Live(s) : b = s.recs[q] /\ c = s.recs[r]
      BY DEF Snapshot
    <2>2. n \in b.aliases /\ n \in c.aliases /\ q \in Rids /\ r \in Rids
      BY <2>1 DEF StrongIn, Live
    <2>3. n \in Names
      BY <1>1, <2>1, <2>2 DEF Stores, Binding
    <2>4. s.index[n] = q /\ s.index[n] = r
      BY <1>1, <2>1, <2>2, <2>3 DEF Agrees
    <2> QED BY <2>1, <2>4
  <1> HIDE DEF bs
  <1> QED BY <1>4, <1>5, <1>6, <1>7 DEF FileOK, bs

LEMMA SoundLater ==
  ASSUME NEW t \in Nat, NEW u \in Nat, t <= u, NEW s, Sound(s, t)
  PROVE  Sound(s, u)
  <1>1. ASSUME NEW r \in Rids PROVE s.recs[r].at <= u
    <2>1. s.recs[r].at \in Int /\ s.recs[r].at <= t
      BY DEF Sound, Stores, Binding
    <2> QED BY <2>1
  <1> QED BY <1>1 DEF Sound

\* Another pin or another time in a record changes no name.
LEMMA PinKeeps ==
  ASSUME NEW t \in Nat, t <= MaxTime, NEW s, Sound(s, t), NEW r \in Rids,
         s.recs[r].canonical \in Names, NEW c \in Creds \cup {None}, NEW a \in 0..t
  PROVE  LET u == Pinned(s, r, c, a)
         IN /\ Sound(u, t) /\ u.index = s.index
            /\ u.recs[r].at = a /\ u.recs[r].aliases = s.recs[r].aliases
            /\ u.recs[r].canonical = s.recs[r].canonical
            /\ \A x \in Rids \ {r} : u.recs[x] = s.recs[x]
  <1> DEFINE u == Pinned(s, r, c, a)
  <1>1. s \in Stores /\ Agrees(s) /\ \A x \in Rids : RecordOK(s.recs[x]) /\ s.recs[x].at <= t
    BY DEF Sound
  <1>2. s.recs \in [Rids -> Binding] /\ s.index \in [Names -> Rids \cup {None}]
        /\ s = [recs |-> s.recs, index |-> s.index] /\ s.recs[r] \in Binding
    BY <1>1 DEF Stores
  <1> DEFINE b == [s.recs[r] EXCEPT !.cred = c, !.at = a]
  <1>3. u.recs = [s.recs EXCEPT ![r] = b] /\ u.index = s.index
        /\ u = [recs |-> u.recs, index |-> u.index]
    BY <1>2 DEF Pinned
  <1>4. b \in Binding /\ b.aliases = s.recs[r].aliases /\ b.canonical = s.recs[r].canonical
        /\ b.at = a
    <2>1. a \in 0..MaxTime
      BY RidsAssumption
    <2> QED BY <1>2, <2>1 DEF Binding
  <1>5. u.recs \in [Rids -> Binding] /\ u.recs[r] = b /\ \A x \in Rids \ {r} : u.recs[x] = s.recs[x]
    <2> HIDE DEF b
    <2> QED BY <1>2, <1>3, <1>4
  <1> HIDE DEF b, u
  <1>6. u \in Stores
    BY <1>2, <1>3, <1>5 DEF Stores
  <1>7. Agrees(u)
    BY <1>1, <1>3, <1>4, <1>5 DEF Agrees
  <1>8. ASSUME NEW x \in Rids PROVE RecordOK(u.recs[x]) /\ u.recs[x].at <= t
    <2>1. CASE x = r
      <3>1. u.recs[r].at <= t
        BY <1>4, <1>5
      <3>2. u.recs[r] # NoRecord => u.recs[r].canonical \in Names
        BY <1>4, <1>5
      <3>3. RecordOK(u.recs[r])
        BY <1>1, <1>4, <1>5, <3>2 DEF RecordOK, StrongIn
      <3> QED BY <2>1, <3>1, <3>3
    <2>2. CASE x # r
      BY <1>1, <1>5, <2>2
    <2> QED BY <2>1, <2>2
  <1> QED BY <1>3, <1>4, <1>5, <1>6, <1>7, <1>8 DEF Sound, u

-----------------------------------------------------------------------------
(* The steps.  PinKept is what PinNeverOlder says of a step, of labels too. *)

PinKept ==
  \A n \in Names : index[n] # None =>
    index'[n] # None /\ recs'[index'[n]].at >= recs[index[n]].at

\* The ids of one device.
Ours(ids) == ids \in SUBSET Names /\ \E d \in Calls : {n \in ids : Strong(n)} \subseteq d

LEMMA StoreFacts ==
  ASSUME BindingsInv
  PROVE  /\ Store.recs = recs /\ Store.index = index /\ now \in Nat /\ now <= MaxTime
         /\ Store \in Stores /\ Agrees(Store) /\ Sound(Store, now)
         /\ recs \in [Rids -> Binding] /\ index \in [Names -> Rids \cup {None}]
  BY RidsAssumption DEF BindingsInv, Store, Sound, Stores

LEMMA SavedStep ==
  ASSUME NEW s, NEW t \in 0..MaxTime, Sound(s, t), opened, opened' = opened, now' = t,
         Become(s), Save
  PROVE  BindingsInv'
  <1>1. s = [recs |-> s.recs, index |-> s.index]
    BY DEF Sound, Stores
  <1>2. Store' = s
    BY <1>1 DEF Store, Become
  <1>3. file' = Snapshot(s)
    BY <1>1 DEF Save, Become
  <1>4. FileOK(file', t)
    BY <1>3, SnapshotIsOK
  <1>5. Sound(Store, now)'
    BY <1>2
  <1>6. FileOK(file, now)'
    BY <1>4
  <1> QED BY <1>5, <1>6 DEF BindingsInv

LEMMA BindStep ==
  ASSUME BindingsInv, NEW ids, Ours(ids), NEW canonical \in ids, Bind(ids, canonical)
  PROVE  BindingsInv' /\ PinKept
  <1>1. PICK found \in Targets(Store, ids) : Become(BoundTo(Store, found, ids, canonical, canonical))
    BY DEF Bind
  <1>2. opened /\ opened' = opened /\ now' = now /\ Save
    BY DEF Bind
  <1> DEFINE u == BoundTo(Store, found, ids, canonical, canonical)
  <1>3. PICK d \in Calls : {n \in ids : Strong(n)} \subseteq d
    BY DEF Ours
  <1>4. found[1] \in Rids /\ Sound(u, now) /\ BoundIs(Store, u, found, ids, canonical, canonical)
    BY <1>3, StoreFacts, BindKeeps DEF Ours
  <1>5. {found[j] : j \in 1..Len(found)} \subseteq Rids
    BY StoreFacts, FoundAre DEF Ours
  <1>6. recs' = u.recs /\ index' = u.index
    BY <1>1 DEF Become
  <1> HIDE DEF u
  <1>7. BindingsInv'
    <2>1. now \in 0..MaxTime
      BY DEF BindingsInv
    <2> QED BY <1>2, <1>4, <1>6, <2>1, SavedStep DEF Become
  <1>8. PinKept
    <2> SUFFICES ASSUME NEW n \in Names, index[n] # None
                 PROVE  index'[n] # None /\ recs'[index'[n]].at >= recs[index[n]].at
      BY DEF PinKept
    <2>1. u.index[n] \in Rids /\ u.recs[u.index[n]].at >= Store.recs[Store.index[n]].at
      BY <1>4, <1>5, StoreFacts, BindForgetsNothing
    <2> QED BY <1>6, <2>1, StoreFacts, NamesAssumption
  <1> QED BY <1>7, <1>8

LEMMA RecordStep ==
  ASSUME BindingsInv, NEW ids, Ours(ids), NEW c \in Creds, Record(c, ids)
  PROVE  BindingsInv' /\ PinKept
  <1>1. PICK found \in Targets(Store, ids), last \in ids :
          Become(Pinned(BoundTo(Store, found, ids, None, last), found[1], c, now + 1))
    BY DEF Record
  <1>2. opened /\ opened' = opened /\ now' = now + 1 /\ now < MaxTime /\ Save
    BY DEF Record
  <1> DEFINE s == BoundTo(Store, found, ids, None, last)
             r == found[1]
             u == Pinned(s, r, c, now + 1)
  <1>3. PICK d \in Calls : {n \in ids : Strong(n)} \subseteq d
    BY DEF Ours
  <1>4. r \in Rids /\ Sound(s, now) /\ BoundIs(Store, s, found, ids, None, last)
    BY <1>3, StoreFacts, BindKeeps DEF Ours
  <1>5. {found[j] : j \in 1..Len(found)} \subseteq Rids
    BY StoreFacts, FoundAre DEF Ours
  <1>6. recs' = u.recs /\ index' = u.index
    BY <1>1 DEF Become
  <1>7. now \in Nat /\ now + 1 \in 0..MaxTime /\ MaxTime \in Nat
    BY <1>2, RidsAssumption DEF BindingsInv
  <1>8. s.recs[r].canonical \in Names
    BY <1>4 DEF BoundIs
  <1>9. u = Pinned(s, r, c, now + 1)
    OBVIOUS
  <1> HIDE DEF u, s, r
  <1>10. /\ Sound(u, now + 1) /\ u.index = s.index /\ u.recs[r].at = now + 1
         /\ \A x \in Rids \ {r} : u.recs[x] = s.recs[x]
    <2>1. Sound(s, now + 1)
      BY <1>4, <1>7, SoundLater
    <2>2. now + 1 \in Nat /\ now + 1 <= MaxTime /\ now + 1 \in 0..(now + 1)
      BY <1>7
    <2> QED BY <1>4, <1>8, <1>9, <2>1, <2>2, PinKeeps
  <1>11. BindingsInv'
    BY <1>2, <1>6, <1>7, <1>10, SavedStep DEF Become
  <1>12. PinKept
    <2> SUFFICES ASSUME NEW n \in Names, index[n] # None
                 PROVE  index'[n] # None /\ recs'[index'[n]].at >= recs[index[n]].at
      BY DEF PinKept
    <2>1. s.index[n] \in Rids /\ s.recs[s.index[n]].at >= recs[index[n]].at
      BY <1>4, <1>5, StoreFacts, BindForgetsNothing DEF r
    <2>2. index[n] \in Rids
      BY StoreFacts
    <2>3. recs[index[n]].at <= now /\ recs[index[n]].at \in Int
      BY <2>2, StoreFacts DEF Sound, Binding
    <2>4. CASE s.index[n] = r
      BY <1>4, <1>6, <1>7, <1>10, <2>3, <2>4, NamesAssumption
    <2>5. CASE s.index[n] # r
      BY <1>6, <1>10, <2>1, <2>5, NamesAssumption
    <2> QED BY <2>4, <2>5
  <1> QED BY <1>11, <1>12

LEMMA ForgetStep ==
  ASSUME BindingsInv, NEW ids, ids \in SUBSET Names, Forget(ids)
  PROVE  BindingsInv' /\ PinKept
  <1>1. PICK r \in Found(ids) : recs[r].cred # None /\ recs' = [recs EXCEPT ![r].cred = None]
    BY DEF Forget
  <1>2. opened /\ opened' = opened /\ now' = now /\ index' = index /\ Save
    BY DEF Forget
  <1>3. r \in Rids
    BY LabelsAssumption, StoreFacts DEF Found, Names
  <1> DEFINE a == recs[r].at
             u == Pinned(Store, r, None, a)
  <1>4. recs[r] \in Binding /\ recs[r] # NoRecord /\ a \in 0..now /\ now \in Nat
    <2>1. recs[r] \in Binding /\ now \in Nat
      BY <1>3, StoreFacts
    <2>2. a <= now /\ a \in Nat
      BY <1>3, <2>1, StoreFacts DEF Sound, Binding
    <2> QED BY <1>1, <2>1, <2>2 DEF NoRecord
  <1>5. recs[r].canonical \in Names
    BY <1>3, <1>4, StoreFacts DEF Sound, RecordOK
  <1>6. u.recs = recs' /\ u.index = index'
    BY <1>1, <1>2, <1>3, <1>4, StoreFacts DEF Binding, Store, Pinned
  <1> HIDE DEF u, a
  <1>7. /\ Sound(u, now) /\ u.recs[r].at = a
        /\ \A x \in Rids \ {r} : u.recs[x] = recs[x]
    BY <1>3, <1>4, <1>5, StoreFacts, PinKeeps DEF u
  <1>8. BindingsInv'
    <2>1. now \in 0..MaxTime
      BY DEF BindingsInv
    <2> QED BY <1>2, <1>6, <1>7, <2>1, SavedStep DEF Become
  <1>9. PinKept
    <2> SUFFICES ASSUME NEW n \in Names, index[n] # None
                 PROVE  index'[n] # None /\ recs'[index'[n]].at >= recs[index[n]].at
      BY DEF PinKept
    <2>1. index[n] \in Rids
      BY StoreFacts
    <2>2. recs'[index[n]].at = recs[index[n]].at /\ recs[index[n]].at \in Int
      BY <1>6, <1>7, <2>1, StoreFacts DEF a, Binding
    <2> QED BY <1>2, <2>2
  <1> QED BY <1>8, <1>9

-----------------------------------------------------------------------------
(* Load.                                                                    *)

LEMMA WalksExist ==
  ASSUME NEW S, IsFiniteSet(S)
  PROVE  Walks(S) # {}
  <1>1. PICK n \in Nat : ExistsBijection(1..n, S)
    BY FS_NatBijection
  <1>2. PICK w : w \in Bijection(1..n, S)
    BY <1>1 DEF ExistsBijection
  <1>3. Cardinality(S) = n
    BY <1>1, FS_CountingElements
  <1>4. w \in Walks(S)
    BY <1>2, <1>3 DEF Walks, Bijection, Injection, IsInjective
  <1> QED BY <1>4

LEMMA TargetsExist ==
  ASSUME NEW s \in Stores, NEW ids \in SUBSET Names, NEW free \in Rids, s.recs[free] = NoRecord
  PROVE  Targets(s, ids) # {}
  <1> DEFINE strong == Owners(s, {n \in Shapes(ids) : Strong(n)})
             weak == Owners(s, {n \in Shapes(ids) : ~Strong(n)})
  <1>1. IsFiniteSet(strong) /\ IsFiniteSet(weak)
    <2>1. strong \subseteq Rids /\ weak \subseteq Rids
      BY ShapesAreNames DEF Owners, Stores
    <2> HIDE DEF strong, weak
    <2> QED BY <2>1, RidsAssumption, FS_Subset
  <1>2. free \in Rids \ Live(s)
    BY DEF Live
  <1>3. Targets(s, ids) = IF strong # {} THEN Walks(strong)
                          ELSE IF Cardinality(weak) = 1 /\ \A r \in weak : Selects(s, r, ids) THEN Walks(weak)
                          ELSE {<<r>> : r \in Rids \ Live(s)}
    BY DEF Targets
  <1> HIDE DEF strong, weak
  <1> QED BY <1>1, <1>2, <1>3, WalksExist

\* A record of the file is bound again under its own names.
LEMMA LoadOneIs ==
  ASSUME NEW t \in 0..MaxTime, NEW s, Sound(s, t), NEW b \in Binding, b.canonical \in Names,
         RecordOK(b), b.at <= t, NEW free \in Rids, s.recs[free] = NoRecord
  PROVE  \E found \in Targets(s, IdsOf(b)) :
           LET v == BoundTo(s, found, IdsOf(b), b.canonical, b.canonical)
               u == LoadOne(s, b)
           IN /\ found[1] \in Rids /\ {found[j] : j \in 1..Len(found)} \subseteq Rids
              /\ BoundIs(s, v, found, IdsOf(b), b.canonical, b.canonical)
              /\ Sound(u, t) /\ u.index = v.index
              /\ u.recs[found[1]].aliases = v.recs[found[1]].aliases
              /\ u.recs[found[1]].canonical = v.recs[found[1]].canonical
              /\ \A x \in Rids \ {found[1]} : u.recs[x] = v.recs[x]
  <1> DEFINE ids == IdsOf(b)
             found == CHOOSE w \in Targets(s, ids) : TRUE
             r == found[1]
             v == BoundTo(s, found, ids, b.canonical, b.canonical)
             own == v.recs[r]
             c == IF b.at > own.at \/ own.cred = None THEN b.cred ELSE own.cred
             a == IF b.at > own.at THEN b.at ELSE own.at
             u == LoadOne(s, b)
  <1>1. t \in Nat /\ t <= MaxTime /\ s \in Stores
    BY RidsAssumption DEF Sound
  <1>2. ids \in SUBSET Names /\ b.canonical \in ids
    BY DEF IdsOf, Binding
  <1>3. PICK d \in Calls : {n \in ids : Strong(n)} \subseteq d
    <2>1. {n \in ids : Strong(n)} \subseteq StrongIn(b)
      BY NamesAssumption DEF IdsOf, RecordOK, StrongIn
    <2> QED BY <2>1 DEF RecordOK
  <1> HIDE DEF ids
  <1>4. found \in Targets(s, ids)
    BY <1>1, <1>2, TargetsExist
  <1>5. u = Pinned(v, r, c, a)
    BY DEF LoadOne, ids
  <1> HIDE DEF u, found
  <1>6. r \in Rids /\ Sound(v, t) /\ BoundIs(s, v, found, ids, b.canonical, b.canonical)
    BY <1>1, <1>2, <1>3, <1>4, BindKeeps
  <1>7. {found[j] : j \in 1..Len(found)} \subseteq Rids
    BY <1>1, <1>2, <1>4, FoundAre
  <1>8. v.recs[r].canonical \in Names
    BY <1>6 DEF BoundIs
  <1> HIDE DEF v, r
  <1>9. own \in Binding /\ own.at <= t
    BY <1>6 DEF Sound, Stores
  <1> HIDE DEF own
  <1>10. c \in Creds \cup {None} /\ a \in 0..t
    BY <1>1, <1>9 DEF Binding
  <1> HIDE DEF c, a
  <1>11. /\ Sound(u, t) /\ u.index = v.index
         /\ u.recs[r].aliases = v.recs[r].aliases
         /\ u.recs[r].canonical = v.recs[r].canonical
         /\ \A x \in Rids \ {r} : u.recs[x] = v.recs[x]
    BY <1>1, <1>5, <1>6, <1>8, <1>10, PinKeeps
  <1> QED BY <1>4, <1>6, <1>7, <1>11 DEF u, v, r, ids

\* What loading the first k records of a list, saved by time t, has made.
LoadedUpTo(list, t, k) ==
  {s \in Stores :
     /\ Sound(s, t)
     /\ Cardinality(Live(s)) <= k
     /\ \A n \in Names : Strong(n) /\ s.index[n] # None => \E j \in 1..k : n \in list[j].aliases
     /\ \A j \in 1..k : \A n \in StrongIn(list[j]) :
          s.index[n] \in Rids /\ StrongIn(s.recs[s.index[n]]) = StrongIn(list[j])}

\* What a file is read into: records fit to be bound again.
Readable(list, t) ==
  /\ Len(list) \in Nat /\ Len(list) <= Cardinality(Rids)
  /\ \A j \in 1..Len(list) : list[j] \in Binding /\ list[j].canonical \in Names
                             /\ RecordOK(list[j]) /\ list[j].at <= t
  /\ \A i, j \in 1..Len(list) : i # j => StrongIn(list[i]) \cap StrongIn(list[j]) = {}

LEMMA RoomToLoad ==
  ASSUME NEW s, IsFiniteSet(Live(s)), Cardinality(Live(s)) < Cardinality(Rids)
  PROVE  \E free \in Rids : s.recs[free] = NoRecord
  <1> SUFFICES ASSUME \A r \in Rids : s.recs[r] # NoRecord PROVE FALSE
    OBVIOUS
  <1>1. Live(s) = Rids
    BY DEF Live
  <1>2. Cardinality(Rids) \in Nat
    BY RidsAssumption, FS_CardinalityType
  <1> HIDE DEF Live
  <1> QED BY <1>1, <1>2

LEMMA LiveAreFew ==
  ASSUME NEW s
  PROVE  IsFiniteSet(Live(s)) /\ Cardinality(Live(s)) \in Nat
  <1>1. Live(s) \subseteq Rids
    BY DEF Live
  <1> QED BY <1>1, RidsAssumption, FS_Subset, FS_CardinalityType

LEMMA RoomForOneMore ==
  ASSUME NEW t, NEW list, Readable(list, t), NEW k \in 1..Len(list),
         NEW s \in LoadedUpTo(list, t, k - 1)
  PROVE  \E free \in Rids : s.recs[free] = NoRecord
  <1>1. Len(list) \in Nat /\ Len(list) <= Cardinality(Rids) /\ Cardinality(Rids) \in Nat
    BY RidsAssumption, FS_CardinalityType DEF Readable
  <1>2. Cardinality(Live(s)) <= k - 1
    BY DEF LoadedUpTo
  <1>3. k \in Int /\ k <= Len(list)
    BY <1>1
  <1>4. Cardinality(Live(s)) < Cardinality(Rids)
    BY <1>1, <1>2, <1>3, LiveAreFew
  <1> QED BY <1>4, LiveAreFew, RoomToLoad

\* One record more: no record already loaded has one of its addresses or qualified
\* names, so it is joined at most to one that has none.
LEMMA LoadOneMore ==
  ASSUME NEW t \in 0..MaxTime, NEW list, Readable(list, t), NEW k \in 1..Len(list),
         NEW s \in LoadedUpTo(list, t, k - 1)
  PROVE  LoadOne(s, list[k]) \in LoadedUpTo(list, t, k)
  <1> DEFINE b == list[k]
             ids == IdsOf(b)
             u == LoadOne(s, b)
  <1>1. /\ b \in Binding /\ b.canonical \in Names /\ RecordOK(b) /\ b.at <= t
        /\ Len(list) \in Nat /\ Len(list) <= Cardinality(Rids) /\ Cardinality(Rids) \in Nat
    BY RidsAssumption, FS_CardinalityType DEF Readable
  <1>2. /\ s \in Stores /\ Sound(s, t) /\ Agrees(s)
        /\ Cardinality(Live(s)) <= k - 1
        /\ \A n \in Names : Strong(n) /\ s.index[n] # None => \E j \in 1..(k - 1) : n \in list[j].aliases
        /\ \A j \in 1..(k - 1) : \A n \in StrongIn(list[j]) :
             s.index[n] \in Rids /\ StrongIn(s.recs[s.index[n]]) = StrongIn(list[j])
    BY DEF LoadedUpTo, Sound
  <1>3. IsFiniteSet(Live(s)) /\ Cardinality(Live(s)) \in Nat
    BY LiveAreFew
  <1>4. PICK free \in Rids : s.recs[free] = NoRecord
    BY RoomForOneMore
  <1>5. PICK found \in Targets(s, ids) :
          LET v == BoundTo(s, found, ids, b.canonical, b.canonical)
          IN /\ found[1] \in Rids /\ {found[j] : j \in 1..Len(found)} \subseteq Rids
             /\ BoundIs(s, v, found, ids, b.canonical, b.canonical)
             /\ Sound(u, t) /\ u.index = v.index
             /\ u.recs[found[1]].aliases = v.recs[found[1]].aliases
             /\ u.recs[found[1]].canonical = v.recs[found[1]].canonical
             /\ \A x \in Rids \ {found[1]} : u.recs[x] = v.recs[x]
    <2> HIDE DEF b
    <2> QED BY <1>1, <1>2, <1>4, LoadOneIs
  <1> DEFINE r == found[1]
             F == {found[j] : j \in 1..Len(found)}
             v == BoundTo(s, found, ids, b.canonical, b.canonical)
             names == v.recs[r].aliases
  <1>6. {n \in Shapes(ids) : Strong(n)} = StrongIn(b) /\ ids \in SUBSET Names
    <2>1. ids \in SUBSET Names
      BY <1>1 DEF IdsOf, Binding
    <2>2. {n \in ids : Strong(n)} = StrongIn(b)
      BY <1>1, NamesAssumption DEF IdsOf, RecordOK, StrongIn
    <2> HIDE DEF ids
    <2> QED BY <2>1, <2>2, ShapesAreNames
  <1> HIDE DEF ids, u, b
  <1>7. \A n \in StrongIn(b) : s.index[n] = None
    <2> SUFFICES ASSUME NEW n \in StrongIn(b), s.index[n] # None PROVE FALSE
      OBVIOUS
    <2>1. n \in Names /\ Strong(n)
      BY <1>1 DEF StrongIn, Binding
    <2>2. PICK j \in 1..(k - 1) : n \in list[j].aliases
      BY <1>2, <2>1
    <2>3. j \in 1..Len(list) /\ j # k
      BY <1>1
    <2>4. n \in StrongIn(list[j]) \cap StrongIn(list[k])
      BY <2>1, <2>2 DEF StrongIn, b
    <2> QED BY <2>3, <2>4 DEF Readable
  <1>8. F = {r} /\ r \in Rids /\ (Selects(s, r, ids) \/ s.recs[r] = NoRecord)
    <2>1. Owners(s, {n \in Shapes(ids) : Strong(n)}) = {}
      BY <1>6, <1>7 DEF Owners
    <2>2. F = {r} /\ (Selects(s, r, ids) \/ s.recs[r] = NoRecord)
      <3> HIDE DEF v, names
      <3> QED BY <1>2, <1>6, <2>1, TargetsAre
    <2> QED BY <1>5, <2>2
  <1> HIDE DEF v
  <1>9. /\ Sound(u, t) /\ u.index = v.index /\ u.recs[r].aliases = names
        /\ \A x \in Rids \ {r} : u.recs[x] = v.recs[x]
    BY <1>5 DEF v
  <1>10. BoundIs(s, v, found, ids, b.canonical, b.canonical)
    BY <1>5 DEF v
  <1> DEFINE own == UNION {s.recs[x].aliases : x \in F}
  <1>11. /\ own \subseteq names /\ names \subseteq own \cup Shapes(ids)
         /\ \A n \in Shapes(ids) : Strong(n) \/ s.index[n] = None => n \in names
         /\ \A n \in names : s.index[n] \in F \cup {None}
         /\ \A x \in Rids \ F : v.recs[x] = s.recs[x]
         /\ \A n \in Names : v.index[n] = IF n \in names THEN r ELSE s.index[n]
    BY <1>10 DEF BoundIs
  <1> HIDE DEF r, F, names
  <1>12. own = s.recs[r].aliases
    BY <1>8
  <1> HIDE DEF own
  <1>13. /\ s.recs[r].aliases \subseteq names
         /\ {n \in names : Strong(n)} = StrongIn(s.recs[r]) \cup StrongIn(b)
         /\ \A n \in names : s.index[n] \in {r, None}
         /\ \A x \in Rids \ {r} : u.recs[x] = s.recs[x]
         /\ \A n \in Names : u.index[n] = IF n \in names THEN r ELSE s.index[n]
    <2>1. s.recs[r].aliases \subseteq names
      BY <1>11, <1>12
    <2>2. {n \in names : Strong(n)} = StrongIn(s.recs[r]) \cup StrongIn(b)
      <3>1. ASSUME NEW n, Strong(n)
            PROVE  n \in names <=> n \in s.recs[r].aliases \/ n \in StrongIn(b)
        BY <1>6, <1>11, <1>12, <3>1
      <3>2. \A n \in StrongIn(b) : Strong(n)
        BY DEF StrongIn
      <3> QED BY <3>1, <3>2 DEF StrongIn
    <2>3. \A n \in names : s.index[n] \in {r, None}
      BY <1>8, <1>11
    <2>4. \A x \in Rids \ {r} : u.recs[x] = s.recs[x]
      BY <1>8, <1>9, <1>11
    <2>5. \A n \in Names : u.index[n] = IF n \in names THEN r ELSE s.index[n]
      BY <1>9, <1>11
    <2> QED BY <2>1, <2>2, <2>3, <2>4, <2>5
  <1>14. StrongIn(s.recs[r]) = {} \/ StrongIn(b) = {}
    <2>1. CASE Selects(s, r, ids)
      BY <1>6, <2>1 DEF Selects, HasStrong, StrongIn
    <2>2. CASE s.recs[r] = NoRecord
      BY <2>2 DEF NoRecord, StrongIn
    <2> QED BY <1>8, <2>1, <2>2
  <1>15. StrongIn(u.recs[r]) = StrongIn(s.recs[r]) \cup StrongIn(b)
    BY <1>9, <1>13 DEF StrongIn
  <1>16. Cardinality(Live(u)) <= k
    <2>1. Live(u) \subseteq Live(s) \cup {r}
      BY <1>13 DEF Live
    <2>2. IsFiniteSet(Live(s) \cup {r}) /\ Cardinality(Live(s) \cup {r}) <= Cardinality(Live(s)) + 1
          /\ Cardinality(Live(s) \cup {r}) \in Nat
      <3>1. IsFiniteSet(Live(s) \cup {r})
            /\ Cardinality(Live(s) \cup {r}) = IF r \in Live(s) THEN Cardinality(Live(s)) ELSE Cardinality(Live(s)) + 1
        BY <1>3, FS_AddElement
      <3>2. Cardinality(Live(s) \cup {r}) \in Nat
        BY <3>1, FS_CardinalityType
      <3> QED BY <1>3, <3>1, <3>2
    <2>3. Cardinality(Live(u)) <= Cardinality(Live(s) \cup {r}) /\ Cardinality(Live(u)) \in Nat
      BY <2>1, <2>2, FS_Subset, FS_CardinalityType
    <2>4. k \in Int
      OBVIOUS
    <2> QED BY <1>2, <1>3, <2>2, <2>3, <2>4
  <1>17. \A j \in 1..k : j = k \/ j \in 1..(k - 1)
    OBVIOUS
  <1>18. \A j \in 1..(k - 1) : j \in 1..k
    OBVIOUS
  <1>19. k \in 1..k
    OBVIOUS
  <1>20. ASSUME NEW n \in Names, Strong(n), u.index[n] # None
         PROVE  \E j \in 1..k : n \in list[j].aliases
    <2>1. CASE s.index[n] # None
      BY <1>2, <1>18, <1>20, <2>1
    <2>2. CASE s.index[n] = None
      <3>1. n \in names
        BY <1>13, <1>20, <2>2
      <3>2. n \notin s.recs[r].aliases
        BY <1>2, <1>8, <2>2, NamesAssumption, RidsAssumption DEF Agrees
      <3>3. n \in StrongIn(b)
        BY <1>13, <1>20, <3>1, <3>2 DEF StrongIn
      <3> QED BY <1>19, <3>3 DEF StrongIn, b
    <2> QED BY <2>1, <2>2
  <1>21. ASSUME NEW j \in 1..k, NEW n \in StrongIn(list[j])
         PROVE  u.index[n] \in Rids /\ StrongIn(u.recs[u.index[n]]) = StrongIn(list[j])
    <2>0. n \in Names /\ Strong(n)
      <3>1. j \in 1..Len(list)
        BY <1>1
      <3> QED BY <3>1 DEF StrongIn, Binding, Readable
    <2>1. CASE j = k
      <3>1. n \in StrongIn(b)
        BY <2>1 DEF b
      <3>2. n \in names
        BY <1>13, <3>1
      <3>3. StrongIn(s.recs[r]) = {}
        BY <1>14, <3>1
      <3> QED BY <1>8, <1>13, <1>15, <2>0, <2>1, <3>2, <3>3 DEF b
    <2>2. CASE j \in 1..(k - 1)
      <3>1. s.index[n] \in Rids /\ StrongIn(s.recs[s.index[n]]) = StrongIn(list[j])
        BY <1>2, <2>2
      <3>2. CASE s.index[n] = r
        <4>1. n \in s.recs[r].aliases
          BY <1>2, <1>8, <2>0, <3>2 DEF Agrees
        <4>2. u.index[n] = r
          BY <1>13, <2>0, <4>1
        <4>3. StrongIn(b) = {}
          BY <1>14, <3>1, <3>2
        <4> QED BY <1>8, <1>15, <3>1, <3>2, <4>2, <4>3
      <3>3. CASE s.index[n] # r
        <4>1. n \notin names
          BY <1>13, <3>1, <3>3, NamesAssumption
        <4>2. u.index[n] = s.index[n]
          BY <1>13, <2>0, <4>1
        <4> QED BY <1>13, <3>1, <3>3, <4>2
      <3> QED BY <3>2, <3>3
    <2> QED BY <1>17, <2>1, <2>2
  <1>22. u \in Stores
    BY <1>9 DEF Sound
  <1>23. u \in LoadedUpTo(list, t, k)
    BY <1>9, <1>16, <1>20, <1>21, <1>22 DEF LoadedUpTo
  <1> QED BY <1>23 DEF u, b

LEMMA EmptyIsSound ==
  ASSUME NEW t \in Nat
  PROVE  Sound(Empty, t) /\ Empty \in Stores /\ Live(Empty) = {}
         /\ Empty.recs = [r \in Rids |-> NoRecord] /\ Empty.index = [n \in Names |-> None]
  <1>1. NoRecord \in Binding /\ NoRecord.aliases = {} /\ NoRecord.at = 0 /\ NoRecord.canonical = None
    BY RidsAssumption DEF NoRecord, Binding
  <1>2. RecordOK(NoRecord)
    BY <1>1, CallsAssumption DEF RecordOK, StrongIn
  <1>3. Empty.recs = [r \in Rids |-> NoRecord] /\ Empty.index = [n \in Names |-> None]
        /\ Empty = [recs |-> Empty.recs, index |-> Empty.index]
    BY DEF Empty
  <1>4. Empty \in Stores
    BY <1>1, <1>3 DEF Stores
  <1>5. Agrees(Empty)
    BY <1>1, <1>3, NamesAssumption DEF Agrees
  <1>6. Live(Empty) = {}
    BY <1>3 DEF Live
  <1> QED BY <1>1, <1>2, <1>3, <1>4, <1>5, <1>6 DEF Sound

LEMMA LoadIs ==
  ASSUME NEW t \in 0..MaxTime, NEW list, Readable(list, t)
  PROVE  Load(list) \in LoadedUpTo(list, t, Len(list))
  <1> DEFINE P == [k \in 0..Len(list) |-> LoadedUpTo(list, t, k)]
  <1>1. Len(list) \in Nat /\ t \in Nat
    BY RidsAssumption DEF Readable
  <1>2. Empty \in P[0]
    <2>1. Cardinality(Live(Empty)) <= 0
      <3>1. Live(Empty) = {}
        BY <1>1, EmptyIsSound
      <3>2. Cardinality({}) <= 0
        BY FS_EmptySet
      <3> QED BY <3>1, <3>2
    <2>2. Empty \in LoadedUpTo(list, t, 0)
      BY <1>1, <2>1, EmptyIsSound DEF LoadedUpTo
    <2> QED BY <1>1, <2>2
  <1>3. ASSUME NEW k \in 1..Len(list), NEW s \in P[k - 1]
        PROVE  LoadOne(s, list[k]) \in P[k]
    <2>1. k \in 0..Len(list) /\ k - 1 \in 0..Len(list)
      BY <1>1
    <2> QED BY <2>1, LoadOneMore
  <1> HIDE DEF P
  <1>4. Load(list) \in P[Len(list)]
    BY <1>1, <1>2, <1>3, LoadInduction
  <1> QED BY <1>1, <1>4 DEF P

\* A file may be read in any order of its records by canonical name.
LEMMA OrdersAre ==
  ASSUME NEW t, NEW bs, FileOK(bs, t), NEW list \in Orders(bs)
  PROVE  Readable(list, t) /\ {list[j] : j \in 1..Len(list)} = bs
  <1>1. list \in Walks(bs) /\ IsFiniteSet(bs)
    BY DEF Orders, FileOK
  <1>2. /\ Len(list) = Cardinality(bs) /\ Len(list) \in Nat
        /\ {list[j] : j \in 1..Len(list)} = bs
        /\ \A i, j \in 1..Len(list) : i # j => list[i] # list[j]
    BY <1>1, WalksAre
  <1>3. \A j \in 1..Len(list) : list[j] \in bs
    BY <1>2
  <1> QED BY <1>2, <1>3 DEF FileOK, Readable

\* NamesKept is what RestartKeepsNames says of a step.
NamesKept ==
  \A b \in file : \A n \in StrongIn(b) :
    index'[n] # None /\ StrongIn(recs'[index'[n]]) = StrongIn(b)

LEMMA OpenStep ==
  ASSUME BindingsInv, Open
  PROVE  BindingsInv' /\ NamesKept
  <1>1. PICK list \in Orders(file) : Become(Load(list))
    BY DEF Open
  <1>2. opened' = TRUE /\ now' = now /\ file' = file
    BY DEF Open
  <1> DEFINE s == Load(list)
  <1>3. now \in 0..MaxTime /\ FileOK(file, now)
    BY DEF BindingsInv
  <1>4. Readable(list, now) /\ {list[j] : j \in 1..Len(list)} = file
    BY <1>3, OrdersAre
  <1>5. s \in LoadedUpTo(list, now, Len(list))
    BY <1>3, <1>4, LoadIs
  <1> HIDE DEF s
  <1>6. /\ s \in Stores /\ Sound(s, now)
        /\ \A j \in 1..Len(list) : \A n \in StrongIn(list[j]) :
             s.index[n] \in Rids /\ StrongIn(s.recs[s.index[n]]) = StrongIn(list[j])
    BY <1>5 DEF LoadedUpTo
  <1>7. recs' = s.recs /\ index' = s.index
    BY <1>1 DEF Become, s
  <1>8. Store' = s
    BY <1>6, <1>7 DEF Store, Stores
  <1>9. BindingsInv'
    <2>1. Sound(Store, now)' /\ FileOK(file, now)'
      BY <1>2, <1>3, <1>6, <1>8
    <2> QED BY <1>2, <1>3, <2>1 DEF BindingsInv
  <1>10. NamesKept
    <2> SUFFICES ASSUME NEW b \in file, NEW n \in StrongIn(b)
                 PROVE  index'[n] # None /\ StrongIn(recs'[index'[n]]) = StrongIn(b)
      BY DEF NamesKept
    <2>1. PICK j \in 1..Len(list) : b = list[j]
      BY <1>4
    <2>2. s.index[n] \in Rids /\ StrongIn(s.recs[s.index[n]]) = StrongIn(b)
      BY <1>6, <2>1
    <2> QED BY <1>7, <2>2, NamesAssumption
  <1> QED BY <1>9, <1>10

LEMMA InitIsSound ==
  ASSUME Init
  PROVE  BindingsInv
  <1>1. PICK old \in OldFiles :
          file = {[canonical |-> n, aliases |-> {n}, cred |-> None, at |-> 0] : n \in old}
    BY DEF Init
  <1>2. /\ old \subseteq Names /\ IsFiniteSet(old) /\ Cardinality(old) <= Cardinality(Rids)
        /\ \A n \in old : Strong(n) => n \in UNION Calls
    BY OldFilesAssumption
  <1>3. opened = FALSE /\ now = 0 /\ recs = Empty.recs /\ index = Empty.index
    BY DEF Init
  <1>4. now \in 0..MaxTime /\ now \in Nat
    BY <1>3, RidsAssumption
  <1>5. Sound(Store, now)
    <2>1. Store = Empty
      BY <1>3 DEF Store, Empty
    <2> QED BY <1>4, <2>1, EmptyIsSound
  <1> DEFINE One(n) == [canonical |-> n, aliases |-> {n}, cred |-> None, at |-> 0]
             of == [n \in old |-> One(n)]
  <1>6. of \in Surjection(old, file)
    BY <1>1 DEF Surjection
  <1>7. IsFiniteSet(file) /\ Cardinality(file) <= Cardinality(Rids)
    <2> HIDE DEF of
    <2>1. IsFiniteSet(file) /\ Cardinality(file) <= Cardinality(old)
      BY <1>2, <1>6, FS_Surjection
    <2>2. Cardinality(file) \in Nat /\ Cardinality(old) \in Nat /\ Cardinality(Rids) \in Nat
      BY <1>2, <2>1, RidsAssumption, FS_CardinalityType
    <2> QED BY <1>2, <2>1, <2>2
  <1>8. ASSUME NEW b \in file
        PROVE  b \in Binding /\ b.canonical \in Names /\ RecordOK(b) /\ b.at <= now
               /\ b.aliases = {b.canonical}
    <2>1. PICK n \in old : b = One(n)
      BY <1>1
    <2>2. n \in Names /\ b.canonical = n /\ b.aliases = {n} /\ b.at = 0 /\ b.cred = None
      BY <1>2, <2>1
    <2>3. b \in Binding
      BY <1>4, <2>1, <2>2, RidsAssumption DEF Binding
    <2>4. \E d \in Calls : StrongIn(b) \subseteq d
      <3>1. CASE Strong(n)
        <4>1. PICK d \in Calls : n \in d
          BY <1>2, <3>1
        <4> QED BY <2>2, <4>1 DEF StrongIn
      <3>2. CASE ~Strong(n)
        BY <2>2, <3>2, CallsAssumption DEF StrongIn
      <3> QED BY <3>1, <3>2
    <2> QED BY <1>3, <2>2, <2>3, <2>4 DEF RecordOK
  <1>9. ASSUME NEW b \in file, NEW c \in file, NEW n \in StrongIn(b) \cap StrongIn(c)
        PROVE  b = c
    <2>1. n = b.canonical /\ n = c.canonical
      BY <1>8 DEF StrongIn
    <2>2. PICK m \in old : b = One(m)
      BY <1>1
    <2>3. PICK q \in old : c = One(q)
      BY <1>1
    <2> QED BY <2>1, <2>2, <2>3
  <1> QED BY <1>3, <1>4, <1>5, <1>7, <1>8, <1>9 DEF BindingsInv, FileOK

\* What the run checks of a state follows.
LEMMA InvApart ==
  ASSUME BindingsInv
  PROVE  RecordsApart
  <1>1. TypeOK
    BY StoreFacts DEF BindingsInv, TypeOK, FileOK
  <1>2. IndexAgrees
    BY StoreFacts DEF Agrees, IndexAgrees
  <1>3. OneDevicePerRecord
    <2> SUFFICES ASSUME NEW r \in Rids
                 PROVE  \E ids \in Calls : {n \in recs[r].aliases : Strong(n)} \subseteq ids
      BY DEF OneDevicePerRecord
    <2> QED BY StoreFacts DEF Sound, RecordOK, StrongIn
  <1> QED BY <1>1, <1>2, <1>3 DEF RecordsApart

LEMMA NextKeeps ==
  ASSUME BindingsInv, Next
  PROVE  BindingsInv' /\ (Open \/ PinKept) /\ (Open => NamesKept)
  <1>1. CASE Open
    BY <1>1, OpenStep
  <1>2. ASSUME NEW ids \in Calls,
               Forget(ids) \/ (\E n \in ids : Bind(ids, n)) \/ (\E c \in Creds : Record(c, ids))
        PROVE  BindingsInv' /\ PinKept
    <2>1. ids \in SUBSET Names /\ Ours(ids)
      BY CallsAssumption DEF Ours
    <2>2. CASE Forget(ids)
      BY <2>1, <2>2, ForgetStep
    <2>3. ASSUME NEW n \in ids, Bind(ids, n) PROVE BindingsInv' /\ PinKept
      BY <2>1, <2>3, BindStep
    <2>4. ASSUME NEW c \in Creds, Record(c, ids) PROVE BindingsInv' /\ PinKept
      BY <2>1, <2>4, RecordStep
    <2> QED BY <1>2, <2>2, <2>3, <2>4
  <1>3. Open => NamesKept
    BY OpenStep
  <1> QED BY <1>1, <1>2, <1>3 DEF Next

LEMMA IdleKeeps ==
  ASSUME BindingsInv, UNCHANGED vars
  PROVE  BindingsInv' /\ PinKept
  <1>1. opened' = opened /\ recs' = recs /\ index' = index /\ now' = now /\ file' = file
    BY DEF vars
  <1>2. BindingsInv'
    BY <1>1 DEF BindingsInv, Store
  <1>3. PinKept
    <2> SUFFICES ASSUME NEW n \in Names, index[n] # None PROVE recs[index[n]].at >= recs[index[n]].at
      BY <1>1 DEF PinKept
    <2>1. recs[index[n]].at \in Int
      BY StoreFacts DEF Binding
    <2> QED BY <2>1
  <1> QED BY <1>2, <1>3

\* Whatever is bound, merged, refused, forgotten, saved and read again, a name finds
\* the one record that lists it, and a record has the addresses and qualified names
\* of one device.
THEOREM RecordsApartAlways == Spec => []RecordsApart
  <1>1. BindingsInv /\ [Next]_vars => BindingsInv'
    BY NextKeeps, IdleKeeps
  <1> QED BY <1>1, InitIsSound, InvApart, PTL DEF Spec

\* No operation within a run replaces a device's last success by an earlier one.
THEOREM PinNeverOlderAlways == Spec => PinNeverOlder
  <1>1. BindingsInv /\ [Next]_vars => BindingsInv'
    BY NextKeeps, IdleKeeps
  <1>2. BindingsInv /\ [Next]_vars =>
          [~Open => \A n \in Names : Strong(n) /\ index[n] # None =>
             index'[n] # None /\ recs'[index'[n]].at >= recs[index[n]].at]_vars
    BY NextKeeps, IdleKeeps DEF PinKept
  <1> QED BY <1>1, <1>2, InitIsSound, PTL DEF Spec, PinNeverOlder

\* load ties together exactly the addresses and qualified names that were saved.
THEOREM RestartKeepsNamesAlways == Spec => RestartKeepsNames
  <1>1. BindingsInv /\ [Next]_vars => BindingsInv'
    BY NextKeeps, IdleKeeps
  <1>2. BindingsInv /\ [Next]_vars =>
          [Open => \A b \in file : \A n \in StrongIn(b) :
             index'[n] # None /\ StrongIn(recs'[index'[n]]) = StrongIn(b)]_vars
    BY NextKeeps, OpenStep DEF NamesKept
  <1> QED BY <1>1, <1>2, InitIsSound, PTL DEF Spec, RestartKeepsNames

-----------------------------------------------------------------------------
(* Titles: what each record and each visit calls a device is a name of that *)
(* device, while no device is called what another is.                       *)

Apart == \A v \in Visits : OwnNames(v)

\* What visits and callers say of a device.
Said(d) ==
  {n \in d : Strong(n)} \cup UNION {Bound(v) : v \in {u \in Visits : Entry[u].device = d}}

\* Each is said of the device, or is the first label of one that is there.
Fits(N, d) == \A l \in N : l \in Said(d) \/ \E q \in N \cap Qualified : LabelOf[q] = l

TitledFor(b, d) == b.canonical \in Said(d) /\ Fits(b.aliases, d)

\* A record is a device's, or it is one label, of a version 1 file, and no more.
Titled(b) ==
  \/ \E d \in Calls : TitledFor(b, d)
  \/ \E l \in Labels \cup {None} : b.aliases \cup {b.canonical} \subseteq {l}

LEMMA SaidIs ==
  ASSUME NEW d, NEW n
  PROVE  /\ n \in Said(d) <=>
              (\E v \in Visits : Entry[v].device = d /\ n \in Bound(v)) \/ (n \in d /\ Strong(n))
         /\ n \in Said(d) => n \in d \cup UNION {Bound(v) : v \in {u \in Visits : Entry[u].device = d}}
  BY DEF Said

LEMMA SaidAre ==
  ASSUME NEW d \in Calls
  PROVE  /\ Said(d) \subseteq Names
         /\ \A n \in Said(d) : Strong(n) => n \in d
         /\ Said(d) \subseteq NamesOf(d)
         /\ \A q \in Said(d) \cap Qualified : LabelOf[q] \in NamesOf(d)
         /\ \A n \in Said(d) : ~Strong(n) => \E v \in Visits : Entry[v].device = d /\ n \in Bound(v)
  <1>1. ASSUME NEW v \in Visits PROVE Bound(v) \subseteq Names
    <2>1. Entry[v].ids \in Seq(Names) /\ Entry[v].login \subseteq Given(v)
          /\ Answered(v) \in Addresses \cup {None} /\ Prompt(v) \in Names \cup {None}
      BY EntryAssumption
    <2>2. Given(v) \subseteq Names
      BY <2>1 DEF Given
    <2> QED BY <2>1, <2>2 DEF Bound, Names
  <1>2. Said(d) \subseteq Names
    BY <1>1, CallsAssumption, SaidIs
  <1>3. ASSUME NEW n \in Said(d), Strong(n) PROVE n \in d
    <2>1. CASE n \in d
      BY <2>1
    <2>2. CASE n \notin d
      <3>1. PICK v \in Visits : Entry[v].device = d /\ n \in Bound(v)
        BY <2>2, SaidIs
      <3>2. {x \in Bound(v) : Strong(x)} \subseteq Entry[v].device
        BY EntryAssumption
      <3> QED BY <1>3, <3>1, <3>2
    <2> QED BY <2>1, <2>2
  <1>4. Said(d) \subseteq d \cup UNION {Bound(v) : v \in {u \in Visits : Entry[u].device = d}}
    BY SaidIs
  <1>5. Said(d) \subseteq NamesOf(d) /\ \A q \in Said(d) \cap Qualified : LabelOf[q] \in NamesOf(d)
    BY <1>4 DEF NamesOf, Shapes
  <1>6. ASSUME NEW n \in Said(d), ~Strong(n)
        PROVE  \E v \in Visits : Entry[v].device = d /\ n \in Bound(v)
    BY <1>6, SaidIs
  <1> QED BY <1>2, <1>3, <1>5, <1>6

\* No name is two devices', nor a label one's and the first label of another's.
LEMMA SaidApart ==
  ASSUME Apart, NEW c \in Calls, NEW d \in Calls, NEW n \in Said(c), n \in NamesOf(d),
         Strong(n) => n \in Said(d)
  PROVE  c = d
  <1>1. CASE Strong(n)
    <2>1. n \in c /\ n \in d
      BY <1>1, SaidAre
    <2> QED BY <1>1, <2>1, CallsAssumption
  <1>2. CASE ~Strong(n)
    <2>1. PICK v \in Visits : Entry[v].device = c /\ n \in Bound(v)
      BY <1>2, SaidAre
    <2>2. OwnNames(v)
      BY DEF Apart
    <2> QED BY <2>1, <2>2 DEF OwnNames
  <1> QED BY <1>1, <1>2

\* A name said of one device that fits another's names: they are one.
LEMMA FitsApart ==
  ASSUME Apart, NEW c \in Calls, NEW d \in Calls, NEW n \in Said(c), NEW N, N \subseteq Names,
         Fits(N, d), n \in N
  PROVE  c = d
  <1>1. CASE n \in Said(d)
    <2>1. n \in NamesOf(d)
      BY <1>1, SaidAre
    <2> QED BY <1>1, <2>1, SaidApart
  <1>2. CASE n \notin Said(d)
    <2>1. PICK q \in N \cap Qualified : LabelOf[q] = n
      BY <1>2 DEF Fits
    <2>2. q \notin Labels /\ n \in Labels
      BY <2>1, LabelsAssumption, NamesAssumption
    <2>3. q \in Said(d)
      BY <2>2, LabelsAssumption DEF Fits
    <2>4. n \in NamesOf(d)
      BY <2>1, <2>3, SaidAre
    <2> QED BY <2>2, <2>4, SaidApart DEF Strong
  <1> QED BY <1>1, <1>2

\* The title of a record whose names are of a device, and what is said of it.
LEMMA TitleFits ==
  ASSUME NEW d \in Calls, NEW N, Fits(N, d), NEW title,
         title \in Said(d) \cup N, (\E q \in N : q \in Qualified) => title \in Qualified
  PROVE  title \in Said(d)
  <1> SUFFICES ASSUME title \in N, title \notin Said(d) PROVE FALSE
    OBVIOUS
  <1>1. PICK q \in N \cap Qualified : LabelOf[q] = title
    BY DEF Fits
  <1>2. title \in Qualified /\ title \in Labels
    BY <1>1, LabelsAssumption
  <1> QED BY <1>2, NamesAssumption

\* The ids of one device, or of a record that has been titled for it.
LEMMA FitsAreOurs ==
  ASSUME NEW d \in Calls, NEW N \in SUBSET Names, Fits(N, d)
  PROVE  {n \in N : Strong(n)} \subseteq d /\ {n \in N : Strong(n)} \subseteq Said(d)
  <1> SUFFICES ASSUME NEW n \in N, Strong(n) PROVE n \in d /\ n \in Said(d)
    OBVIOUS
  <1>1. n \in Said(d)
    <2>1. \A q \in Qualified : LabelOf[q] # n
      BY LabelsAssumption DEF Strong
    <2> QED BY <2>1 DEF Fits
  <1> QED BY <1>1, SaidAre

\* A bind of one device's names finds that device's records, or one that is no
\* more than one of its labels.
LEMMA FoundOurs ==
  ASSUME Apart, NEW s \in Stores, Agrees(s), \A r \in Rids : Titled(s.recs[r]),
         NEW ids \in SUBSET Names, NEW d \in Calls, Fits(ids, d), NEW found \in Targets(s, ids),
         NEW k \in 1..Len(found)
  PROVE  \/ TitledFor(s.recs[found[k]], d)
         \/ \E l \in (Labels \cap Shapes(ids)) \cup {None} :
              s.recs[found[k]].aliases \cup {s.recs[found[k]].canonical} \subseteq {l}
  <1> DEFINE x == found[k]
             F == {found[j] : j \in 1..Len(found)}
             b == s.recs[x]
             strong == Owners(s, {n \in Shapes(ids) : Strong(n)})
             weak == Owners(s, {n \in Shapes(ids) : ~Strong(n)})
  <1>1. x \in F /\ x \in Rids
    BY FoundAre
  <1>2. Titled(b) /\ b.aliases \subseteq Names
    BY <1>1 DEF Stores, Binding
  <1>3. {n \in Shapes(ids) : Strong(n)} = {n \in ids : Strong(n)} /\ Shapes(ids) \subseteq Names
    BY ShapesAreNames
  <1>4. \A n \in Names : s.index[n] = x <=> n \in b.aliases
    BY <1>1 DEF Agrees
  <1>5. F = strong \/ (F = {found[1]} /\ found[1] \in weak /\ Selects(s, found[1], ids))
        \/ (F = {found[1]} /\ s.recs[found[1]] = NoRecord)
    <2> HIDE DEF b, x
    <2> QED BY TargetsAre
  <1> HIDE DEF F, b, x
  <1>6. CASE F = strong
    <2>1. PICK q \in ids : Strong(q) /\ s.index[q] = x
      BY <1>1, <1>3, <1>6 DEF Owners
    <2>2. q \in Said(d) /\ q \in b.aliases /\ q \notin Labels
      BY <1>4, <2>1, FitsAreOurs DEF Strong
    <2>3. PICK c \in Calls : TitledFor(b, c)
      <3>1. ~\E l \in Labels \cup {None} : b.aliases \cup {b.canonical} \subseteq {l}
        BY <2>1, <2>2, NamesAssumption
      <3> QED BY <1>2, <3>1 DEF Titled
    <2>4. d = c
      BY <1>2, <2>2, <2>3, FitsApart DEF TitledFor
    <2> QED BY <2>3, <2>4 DEF b, x
  <1>7. CASE F = {found[1]} /\ found[1] \in weak /\ Selects(s, found[1], ids)
    <2>1. x \in weak /\ Selects(s, x, ids)
      BY <1>1, <1>7
    <2>2. PICK l \in Shapes(ids) : ~Strong(l) /\ s.index[l] = x
      BY <2>1 DEF Owners
    <2>3. l \in Labels /\ l \in b.aliases
      BY <1>3, <1>4, <2>2 DEF Strong
    <2>4. CASE \E m \in Labels \cup {None} : b.aliases \cup {b.canonical} \subseteq {m}
      BY <2>3, <2>4 DEF b, x
    <2>5. CASE \E c \in Calls : TitledFor(b, c)
      <3>1. PICK c \in Calls : TitledFor(b, c)
        BY <2>5
      <3>2. c = d
        <4>1. CASE l \in Said(d)
          BY <1>2, <2>3, <3>1, <4>1, FitsApart DEF TitledFor
        <4>2. CASE l \notin Said(d)
          <5>1. \E q \in ids \cap Qualified : LabelOf[q] = l
            <6>1. CASE l \in ids
              BY <4>2, <6>1 DEF Fits
            <6>2. CASE l \notin ids
              BY <2>2, <6>2 DEF Shapes
            <6> QED BY <6>1, <6>2
          <5>2. PICK q \in ids \cap Qualified : LabelOf[q] = l
            BY <5>1
          <5>3. Strong(q) /\ q \in Said(d) /\ q \in Shapes(ids)
            <6>1. Strong(q)
              BY <5>2, NamesAssumption DEF Strong
            <6> QED BY <5>2, <6>1, FitsAreOurs, ShapesAreNames
          <5>4. l \in NamesOf(d)
            BY <5>2, <5>3, SaidAre
          <5>5. ~HasStrong(s, x)
            BY <2>1, <5>3 DEF Selects
          <5>6. l \in Said(c)
            <6>1. \A n \in b.aliases : n \notin Qualified
              BY <5>5, NamesAssumption DEF HasStrong, Strong, b
            <6> QED BY <2>3, <3>1, <6>1 DEF TitledFor, Fits
          <5> QED BY <2>2, <5>4, <5>6, SaidApart
        <4> QED BY <4>1, <4>2
      <3> QED BY <3>1, <3>2 DEF b, x
    <2> QED BY <1>2, <2>4, <2>5 DEF Titled
  <1>8. CASE F = {found[1]} /\ s.recs[found[1]] = NoRecord
    <2>1. b = NoRecord
      BY <1>1, <1>8 DEF b, x
    <2> QED BY <2>1 DEF NoRecord, b, x
  <1> QED BY <1>5, <1>6, <1>7, <1>8

\* The record it makes is that device's: a first label is no title next to the
\* qualified name it comes from.
LEMMA BindTitles ==
  ASSUME Apart, NEW s \in Stores, Agrees(s), \A r \in Rids : Titled(s.recs[r]),
         NEW ids \in SUBSET Names, NEW d \in Calls, Fits(ids, d), NEW found \in Targets(s, ids),
         NEW canonical \in Said(d) \cup {None}, NEW last \in Said(d), NEW u,
         BoundIs(s, u, found, ids, canonical, last)
  PROVE  TitledFor(u.recs[found[1]], d) /\ \A r \in Rids : Titled(u.recs[r])
  <1> DEFINE r == found[1]
             F == {found[j] : j \in 1..Len(found)}
             names == u.recs[r].aliases
             own == UNION {s.recs[x].aliases : x \in F}
             title == u.recs[r].canonical
             Mine(b) == TitledFor(b, d) \/ \E l \in (Labels \cap Shapes(ids)) \cup {None} :
                                              b.aliases \cup {b.canonical} \subseteq {l}
  <1>1. /\ own \subseteq names /\ names \subseteq own \cup Shapes(ids)
        /\ \A n \in Shapes(ids) : Strong(n) \/ s.index[n] = None => n \in names
        /\ \A x \in Rids \ F : u.recs[x] = s.recs[x]
        /\ \A x \in F \ {r} : u.recs[x] = NoRecord
        /\ title \in {s.recs[x].canonical : x \in F} \cup {canonical, last} \cup names
        /\ title \in Names
        /\ (\E q \in names : q \in Qualified) => title \in Qualified
    BY DEF BoundIs
  <1>2. \A x \in F : Mine(s.recs[x])
    <2> HIDE DEF names, own, title
    <2> SUFFICES ASSUME NEW x \in F PROVE Mine(s.recs[x])
      OBVIOUS
    <2>1. PICK k \in 1..Len(found) : x = found[k]
      OBVIOUS
    <2> QED BY <2>1, FoundOurs
  <1>3. \A x \in F : x \in Rids
    BY FoundAre
  <1>4. \A x \in F : s.recs[x].aliases \subseteq names
    BY <1>1
  <1>5. \A n \in names : n \in Shapes(ids) \/ \E x \in F : n \in s.recs[x].aliases
    BY <1>1
  <1> HIDE DEF F, names, own, r
  <1>6. ASSUME NEW l \in Shapes(ids)
        PROVE  l \in Said(d) \/ \E q \in names \cap Qualified : LabelOf[q] = l
    <2>1. ASSUME NEW q \in ids \cap Qualified PROVE q \in names
      <3>1. Strong(q) /\ q \in Shapes(ids)
        BY NamesAssumption, ShapesAreNames DEF Strong
      <3> QED BY <1>1, <3>1
    <2>2. CASE l \in ids
      <3>1. l \in Said(d) \/ \E q \in ids \cap Qualified : LabelOf[q] = l
        BY <2>2 DEF Fits
      <3> QED BY <2>1, <3>1
    <2>3. CASE l \notin ids
      <3>1. PICK q \in ids \cap Qualified : LabelOf[q] = l
        BY <2>3 DEF Shapes
      <3> QED BY <2>1, <3>1
    <2> QED BY <2>2, <2>3
  <1>7. ASSUME NEW l \in names
        PROVE  l \in Said(d) \/ \E q \in names \cap Qualified : LabelOf[q] = l
    <2>1. CASE l \in Shapes(ids)
      BY <1>6, <2>1
    <2>2. ASSUME NEW x \in F, l \in s.recs[x].aliases
          PROVE  l \in Said(d) \/ \E q \in names \cap Qualified : LabelOf[q] = l
      <3>1. CASE TitledFor(s.recs[x], d)
        <4>1. l \in Said(d) \/ \E q \in s.recs[x].aliases \cap Qualified : LabelOf[q] = l
          BY <2>2, <3>1 DEF TitledFor, Fits
        <4> QED BY <1>4, <4>1
      <3>2. ASSUME NEW k \in (Labels \cap Shapes(ids)) \cup {None},
                   s.recs[x].aliases \cup {s.recs[x].canonical} \subseteq {k}
            PROVE  l \in Said(d) \/ \E q \in names \cap Qualified : LabelOf[q] = l
        <4>1. l = k /\ l \in Names
          <5>1. s.recs[x].aliases \subseteq Names
            BY <1>3 DEF Stores, Binding
          <5> QED BY <2>2, <3>2, <5>1
        <4>2. l \in Shapes(ids)
          BY <3>2, <4>1, NamesAssumption
        <4> QED BY <1>6, <4>2
      <3> QED BY <1>2, <3>1, <3>2
    <2> QED BY <1>5, <2>1, <2>2
  <1>8. Fits(names, d)
    BY <1>7 DEF Fits
  <1>9. title \in Said(d) \cup names
    <2>1. ASSUME NEW x \in F, title = s.recs[x].canonical PROVE title \in Said(d) \cup names
      <3>1. CASE TitledFor(s.recs[x], d)
        BY <2>1, <3>1 DEF TitledFor
      <3>2. ASSUME NEW k \in (Labels \cap Shapes(ids)) \cup {None},
                   s.recs[x].aliases \cup {s.recs[x].canonical} \subseteq {k}
            PROVE  title \in Said(d) \cup names
        <4>1. title = k /\ title \in Names
          BY <1>1, <2>1, <3>2
        <4>2. title \in Shapes(ids) /\ title \in Labels
          BY <3>2, <4>1, NamesAssumption
        <4>3. \A q \in names : q \notin Qualified
          BY <1>1, <4>2, NamesAssumption
        <4> QED BY <1>6, <4>2, <4>3
      <3> QED BY <1>2, <2>1, <3>1, <3>2
    <2>2. title # None
      BY <1>1, NamesAssumption
    <2> QED BY <1>1, <2>1, <2>2
  <1>10. TitledFor(u.recs[r], d)
    <2>1. title \in Said(d)
      BY <1>1, <1>8, <1>9, TitleFits
    <2> QED BY <1>8, <2>1 DEF TitledFor, names
  <1>11. ASSUME NEW x \in Rids PROVE Titled(u.recs[x])
    <2>1. CASE x = r
      BY <1>10, <2>1 DEF Titled
    <2>2. CASE x \in F \ {r}
      <3>1. u.recs[x] = NoRecord
        BY <1>1, <2>2
      <3> QED BY <3>1 DEF Titled, NoRecord
    <2>3. CASE x \notin F
      BY <1>1, <2>3
    <2> QED BY <2>1, <2>2, <2>3
  <1> QED BY <1>10, <1>11 DEF r

LEMMA LabelTitles ==
  ASSUME NEW s \in Stores, Agrees(s), \A r \in Rids : Titled(s.recs[r]), NEW l \in Labels,
         NEW found \in Targets(s, {l}), NEW u, BoundIs(s, u, found, {l}, l, l)
  PROVE  \A r \in Rids : Titled(u.recs[r])
  <1> DEFINE r == found[1]
             F == {found[j] : j \in 1..Len(found)}
             names == u.recs[r].aliases
             own == UNION {s.recs[x].aliases : x \in F}
             title == u.recs[r].canonical
             b == s.recs[r]
  <1>1. /\ own \subseteq names /\ names \subseteq own \cup Shapes({l})
        /\ \A x \in Rids \ F : u.recs[x] = s.recs[x]
        /\ \A x \in F \ {r} : u.recs[x] = NoRecord
        /\ title \in {s.recs[x].canonical : x \in F} \cup {l} \cup names
        /\ title \in Names
        /\ (\E q \in names : q \in Qualified) => title \in Qualified
    BY DEF BoundIs
  <1>2. {l} \in SUBSET Names /\ Shapes({l}) = {l} /\ ~Strong(l)
    BY NamesAssumption DEF Shapes, Names, Strong
  <1>3. F = {r} /\ r \in Rids /\ (s.index[l] = r \/ b = NoRecord)
    <2>1. Owners(s, {n \in Shapes({l}) : Strong(n)}) = {}
      BY <1>2 DEF Owners
    <2>2. Owners(s, {n \in Shapes({l}) : ~Strong(n)}) \subseteq {s.index[l]}
      BY <1>2 DEF Owners
    <2>3. r \in Rids
      BY <1>2, FoundAre
    <2>4. F = {r} /\ (r \in Owners(s, {n \in Shapes({l}) : ~Strong(n)}) \/ b = NoRecord)
      <3> HIDE DEF names, own, title
      <3> QED BY <1>2, <2>1, TargetsAre
    <2> QED BY <2>2, <2>3, <2>4
  <1>4. own = b.aliases /\ title \in {b.canonical, l} \cup names
    <2>1. UNION {s.recs[x].aliases : x \in {r}} = b.aliases
      OBVIOUS
    <2>2. {s.recs[x].canonical : x \in {r}} = {b.canonical}
      OBVIOUS
    <2> HIDE DEF F, r, b, title, names
    <2>3. own = b.aliases
      BY <1>3, <2>1
    <2>4. {s.recs[x].canonical : x \in F} = {b.canonical}
      BY <1>3, <2>2
    <2> QED BY <1>1, <2>3, <2>4 DEF F, title, names
  <1> HIDE DEF F, names, own, r, b, title
  <1>5. Titled(b) /\ b.aliases \subseteq Names /\ l \in Names
    BY <1>2, <1>3 DEF b, Stores, Binding
  <1>6. Titled(u.recs[r])
    <2>1. CASE b = NoRecord
      <3>1. names \subseteq {l} /\ title = l
        BY <1>1, <1>2, <1>4, <2>1, NamesAssumption DEF NoRecord
      <3> QED BY <3>1 DEF Titled, names, title
    <2>2. CASE s.index[l] = r
      <3>1. l \in b.aliases
        BY <1>3, <1>5, <2>2 DEF Agrees, b
      <3>2. names = b.aliases
        BY <1>1, <1>2, <1>4, <3>1
      <3>3. ASSUME NEW d \in Calls, TitledFor(b, d)
            PROVE  Titled(u.recs[r])
        <4>1. Fits(names, d) /\ title \in Said(d) \cup names
          BY <1>4, <3>1, <3>2, <3>3 DEF TitledFor
        <4>2. title \in Said(d)
          BY <1>1, <4>1, TitleFits
        <4> QED BY <4>1, <4>2 DEF Titled, TitledFor, names, title
      <3>4. ASSUME NEW m \in Labels \cup {None}, b.aliases \cup {b.canonical} \subseteq {m}
            PROVE  Titled(u.recs[r])
        <4>1. names \cup {title} \subseteq {m}
          BY <1>4, <3>1, <3>2, <3>4
        <4> QED BY <4>1 DEF Titled, names, title
      <3> QED BY <1>5, <3>3, <3>4 DEF Titled
    <2> QED BY <1>3, <2>1, <2>2
  <1>7. ASSUME NEW x \in Rids \ {r} PROVE Titled(u.recs[x])
    <2>1. u.recs[x] = s.recs[x]
      BY <1>1, <1>3 DEF r, F
    <2> QED BY <2>1
  <1> QED BY <1>6, <1>7

LEMMA LoadOneTitled ==
  ASSUME Apart, NEW t \in 0..MaxTime, NEW s, Sound(s, t), \A r \in Rids : Titled(s.recs[r]),
         NEW b \in Binding, b.canonical \in Names, RecordOK(b), b.at <= t, Titled(b),
         NEW free \in Rids, s.recs[free] = NoRecord
  PROVE  \A r \in Rids : Titled(LoadOne(s, b).recs[r])
  <1> DEFINE ids == IdsOf(b)
             u == LoadOne(s, b)
  <1>1. PICK found \in Targets(s, ids) :
          LET v == BoundTo(s, found, ids, b.canonical, b.canonical)
          IN /\ found[1] \in Rids
             /\ BoundIs(s, v, found, ids, b.canonical, b.canonical)
             /\ u.recs[found[1]].aliases = v.recs[found[1]].aliases
             /\ u.recs[found[1]].canonical = v.recs[found[1]].canonical
             /\ \A x \in Rids \ {found[1]} : u.recs[x] = v.recs[x]
    BY LoadOneIs
  <1> DEFINE r == found[1]
             v == BoundTo(s, found, ids, b.canonical, b.canonical)
  <1>2. /\ r \in Rids /\ BoundIs(s, v, found, ids, b.canonical, b.canonical)
        /\ u.recs[r].aliases = v.recs[r].aliases /\ u.recs[r].canonical = v.recs[r].canonical
        /\ \A x \in Rids \ {r} : u.recs[x] = v.recs[x]
    BY <1>1
  <1>3. s \in Stores /\ Agrees(s) /\ ids \in SUBSET Names
    BY DEF Sound, IdsOf, Binding
  <1> HIDE DEF v, u
  <1>4. \A x \in Rids : Titled(v.recs[x])
    <2>1. ASSUME NEW d \in Calls, TitledFor(b, d)
          PROVE  \A x \in Rids : Titled(v.recs[x])
      <3>1. Fits(ids, d) /\ b.canonical \in Said(d)
        BY <2>1 DEF TitledFor, Fits, IdsOf
      <3> HIDE DEF ids
      <3> QED BY <1>2, <1>3, <3>1, BindTitles
    <2>2. ASSUME NEW m \in Labels \cup {None}, b.aliases \cup {b.canonical} \subseteq {m}
          PROVE  \A x \in Rids : Titled(v.recs[x])
      <3>1. m = b.canonical /\ m \in Labels
        BY <2>2, NamesAssumption
      <3>2. ids = {m}
        BY <2>2, <3>1 DEF IdsOf
      <3> HIDE DEF ids
      <3>3. found \in Targets(s, {m}) /\ BoundIs(s, v, found, {m}, m, m)
        BY <1>2, <3>1, <3>2
      <3> QED BY <1>3, <3>1, <3>3, LabelTitles
    <2> QED BY <2>1, <2>2 DEF Titled
  <1>5. Titled(u.recs[r])
    BY <1>2, <1>4 DEF Titled, TitledFor
  <1>6. \A x \in Rids : Titled(u.recs[x])
    BY <1>2, <1>4, <1>5
  <1> QED BY <1>6 DEF u

LEMMA LoadTitled ==
  ASSUME Apart, NEW t \in 0..MaxTime, NEW list, Readable(list, t),
         \A j \in 1..Len(list) : Titled(list[j])
  PROVE  \A r \in Rids : Titled(Load(list).recs[r])
  <1> DEFINE Good(k) == {s \in LoadedUpTo(list, t, k) : \A r \in Rids : Titled(s.recs[r])}
             P == [k \in 0..Len(list) |-> Good(k)]
  <1>1. Len(list) \in Nat /\ t \in Nat
    BY RidsAssumption DEF Readable
  <1>2. Empty \in P[0]
    <2>1. Cardinality(Live(Empty)) <= 0
      <3>1. Live(Empty) = {}
        BY <1>1, EmptyIsSound
      <3>2. Cardinality({}) <= 0
        BY FS_EmptySet
      <3> QED BY <3>1, <3>2
    <2>2. Empty \in LoadedUpTo(list, t, 0)
      BY <1>1, <2>1, EmptyIsSound DEF LoadedUpTo
    <2>3. \A r \in Rids : Titled(Empty.recs[r])
      <3>1. Titled(NoRecord)
        BY DEF NoRecord, Titled
      <3> QED BY <1>1, <3>1, EmptyIsSound
    <2> QED BY <1>1, <2>2, <2>3
  <1>3. ASSUME NEW k \in 1..Len(list), NEW s \in P[k - 1]
        PROVE  LoadOne(s, list[k]) \in P[k]
    <2>1. k \in 0..Len(list) /\ k - 1 \in 0..Len(list)
      BY <1>1
    <2>2. s \in LoadedUpTo(list, t, k - 1) /\ \A r \in Rids : Titled(s.recs[r])
      BY <2>1
    <2>3. PICK free \in Rids : s.recs[free] = NoRecord
      BY <2>2, RoomForOneMore
    <2>4. Sound(s, t)
      BY <2>2 DEF LoadedUpTo
    <2>5. list[k] \in Binding /\ list[k].canonical \in Names /\ RecordOK(list[k])
          /\ list[k].at <= t /\ Titled(list[k])
      BY DEF Readable
    <2>6. \A r \in Rids : Titled(LoadOne(s, list[k]).recs[r])
      BY <2>2, <2>3, <2>4, <2>5, LoadOneTitled
    <2>7. LoadOne(s, list[k]) \in LoadedUpTo(list, t, k)
      BY <2>2, LoadOneMore
    <2> QED BY <2>1, <2>6, <2>7
  <1> HIDE DEF P
  <1>4. Load(list) \in P[Len(list)]
    BY <1>1, <1>2, <1>3, LoadInduction
  <1> QED BY <1>1, <1>4 DEF P

-----------------------------------------------------------------------------
(* The visits.                                                              *)

Places == {"away", "resolve", "answered", "bind", "reread", "named"}

\* Under way, a visit's entry is known; what it files under is its device's.
VisitOK(v) ==
  /\ at[v] \notin {"away", "named"} => index[Entry[v].id] # None
  /\ at[v] \in {"bind", "reread"} => Prompt(v) # None
  /\ at[v] = "reread" => index[Prompt(v)] # None
  /\ at[v] = "answered" => prior[v] \in Said(Entry[v].device)
  /\ at[v] \in {"answered", "named"} => key[v] \in Said(Entry[v].device)

NamingInv ==
  /\ BindingsInv
  /\ at \in [Visits -> Places]
  /\ prior \in [Visits -> Names \cup {None}] /\ key \in [Visits -> Names \cup {None}]
  /\ \A r \in Rids : Titled(recs[r])
  /\ \A b \in file : Titled(b)
  /\ \A v \in Visits : VisitOK(v)

LEMMA EntryFacts ==
  ASSUME NEW v \in Visits
  PROVE  /\ Entry[v].device \in Calls /\ Bound(v) \subseteq Said(Entry[v].device)
         /\ Bound(v) \subseteq Names /\ Entry[v].login \subseteq Bound(v)
         /\ Entry[v].id \in Entry[v].login /\ Entry[v].target \in Entry[v].login
         /\ Entry[v].ids \in Seq(Names) /\ Entry[v].ids # <<>> /\ Entry[v].ids[1] = Entry[v].id
         /\ Prompt(v) # None => Prompt(v) \in Bound(v)
         /\ Answered(v) # None => Answered(v) \in Bound(v)
  <1>1. Entry[v].device \in Calls
    BY EntryAssumption
  <1>2. Bound(v) \subseteq Said(Entry[v].device)
    BY SaidIs
  <1>3. Said(Entry[v].device) \subseteq Names
    BY <1>1, SaidAre
  <1>4. Entry[v].login \subseteq Bound(v) /\ (Prompt(v) # None => Prompt(v) \in Bound(v))
        /\ (Answered(v) # None => Answered(v) \in Bound(v))
    BY DEF Bound
  <1> QED BY <1>1, <1>2, <1>3, <1>4, EntryAssumption

\* What the store calls a name of a device is a name of it.
LEMMA ResolvesOurs ==
  ASSUME Apart, NamingInv, NEW v \in Visits, NEW ids \in Seq(Names), ids # <<>>,
         ids[1] \in Bound(v), index[ids[1]] # None
  PROVE  Resolve(ids) \in Said(Entry[v].device)
  <1> DEFINE n == ids[1]
             r == index[n]
             known == {k \in DOMAIN ids : Found({ids[k]}) # {}}
             first == CHOOSE k \in known : \A j \in known : k <= j
  <1>1. n \in Names /\ DOMAIN ids = 1..Len(ids) /\ Len(ids) \in Nat /\ 1 \in DOMAIN ids
    <2>1. Len(ids) \in Nat /\ Len(ids) # 0 /\ DOMAIN ids = 1..Len(ids)
      OBVIOUS
    <2> QED BY <2>1, EntryFacts
  <1>2. r \in Rids /\ n \in recs[r].aliases /\ Titled(recs[r]) /\ recs[r].aliases \subseteq Names
        /\ (recs[r] # NoRecord => recs[r].canonical \in Names)
    <2>1. r \in Rids
      BY <1>1, StoreFacts DEF NamingInv
    <2>2. recs[r] \in Binding /\ n \in recs[r].aliases
      BY <1>1, <2>1, StoreFacts DEF NamingInv, Agrees
    <2>3. RecordOK(recs[r])
      BY <2>1, StoreFacts DEF NamingInv, Sound
    <2> QED BY <2>1, <2>2, <2>3 DEF NamingInv, Binding, RecordOK
  <1>3. Found({n}) = {r}
    BY DEF Found
  <1>4. 1 \in known /\ \A k \in known : k \in Int /\ 1 <= k
    <2>1. Found({ids[1]}) # {}
      BY <1>3
    <2>2. 1 \in known
      BY <1>1, <2>1
    <2>3. \A k \in known : k \in 1..Len(ids)
      BY <1>1
    <2> HIDE DEF known
    <2> QED BY <1>1, <2>2, <2>3
  <1> HIDE DEF known
  <1>5. first = 1
    <2>1. first \in known /\ \A j \in known : first <= j
      BY <1>4
    <2> HIDE DEF first
    <2> QED BY <1>4, <2>1
  <1>6. Resolve(ids) = IF known = {} THEN None ELSE recs[CHOOSE x \in Found({ids[first]}) : TRUE].canonical
    BY DEF Resolve, known
  <1> HIDE DEF first, r
  <1>7. (CHOOSE x \in {r} : TRUE) = r
    OBVIOUS
  <1>8. Resolve(ids) = recs[r].canonical
    BY <1>3, <1>4, <1>5, <1>6, <1>7
  <1>9. n \in Said(Entry[v].device) /\ Entry[v].device \in Calls
    BY EntryFacts
  <1>10. ASSUME NEW c \in Calls, TitledFor(recs[r], c)
         PROVE  recs[r].canonical \in Said(Entry[v].device)
    <2>1. c = Entry[v].device
      BY <1>2, <1>9, <1>10, FitsApart DEF TitledFor
    <2> QED BY <1>10, <2>1 DEF TitledFor
  <1>11. ASSUME NEW l \in Labels \cup {None}, recs[r].aliases \cup {recs[r].canonical} \subseteq {l}
         PROVE  recs[r].canonical \in Said(Entry[v].device)
    <2>1. recs[r].canonical = n
      BY <1>2, <1>11
    <2> QED BY <1>9, <2>1
  <1> QED BY <1>2, <1>8, <1>10, <1>11 DEF Titled

-----------------------------------------------------------------------------
(* Steps of the store, of one device's names.                               *)

LEMMA BoundKnows ==
  ASSUME NEW s \in Stores, NEW u, NEW found, NEW ids \in SUBSET Names, NEW canonical, NEW last,
         Agrees(s), BoundIs(s, u, found, ids, canonical, last),
         {found[j] : j \in 1..Len(found)} \subseteq Rids, found[1] \in Rids, NEW n \in ids
  PROVE  u.index[n] # None
  <1>1. n \in Shapes(ids) /\ n \in Names
    BY ShapesAreNames
  <1>2. CASE s.index[n] # None
    BY <1>1, <1>2, BindForgetsNothing, NamesAssumption
  <1>3. CASE s.index[n] = None
    <2>1. u.index[n] = found[1]
      BY <1>1, <1>3 DEF BoundIs
    <2> QED BY <2>1, NamesAssumption
  <1> QED BY <1>2, <1>3

TitlesKept == (\A r \in Rids : Titled(recs'[r])) /\ (\A b \in file' : Titled(b))

LEMMA SaveTitled ==
  ASSUME Save, \A r \in Rids : Titled(recs'[r])
  PROVE  TitlesKept
  <1>1. \A b \in file' : \E r \in Rids : b = recs'[r]
    BY DEF Save, Snapshot, Live
  <1> QED BY <1>1 DEF TitlesKept

LEMMA BindOurs ==
  ASSUME Apart, NamingInv, NEW d \in Calls, NEW ids, ids \subseteq Said(d), NEW canonical \in ids,
         Bind(ids, canonical)
  PROVE  BindingsInv' /\ PinKept /\ TitlesKept /\ \A n \in ids : index'[n] # None
  <1>1. BindingsInv /\ \A r \in Rids : Titled(recs[r])
    BY DEF NamingInv
  <1>2. ids \in SUBSET Names /\ Fits(ids, d)
    BY SaidAre DEF Fits
  <1>3. {n \in ids : Strong(n)} \subseteq d /\ Ours(ids)
    BY <1>2, FitsAreOurs DEF Ours
  <1>4. BindingsInv' /\ PinKept
    BY <1>1, <1>3, BindStep
  <1>5. PICK found \in Targets(Store, ids) : Become(BoundTo(Store, found, ids, canonical, canonical))
    BY DEF Bind
  <1> DEFINE u == BoundTo(Store, found, ids, canonical, canonical)
  <1>6. found[1] \in Rids /\ BoundIs(Store, u, found, ids, canonical, canonical)
    BY <1>1, <1>2, <1>3, StoreFacts, BindKeeps
  <1>7. {found[j] : j \in 1..Len(found)} \subseteq Rids
    BY <1>1, <1>2, StoreFacts, FoundAre
  <1>8. recs' = u.recs /\ index' = u.index /\ Save
    BY <1>5 DEF Become, Bind
  <1> HIDE DEF u
  <1>9. \A r \in Rids : Titled(u.recs[r])
    <2>1. canonical \in Said(d)
      OBVIOUS
    <2>2. \A r \in Rids : Titled(Store.recs[r])
      BY <1>1, StoreFacts
    <2> QED BY <1>1, <1>2, <1>6, <2>1, <2>2, StoreFacts, BindTitles
  <1>10. \A n \in ids : u.index[n] # None
    BY <1>1, <1>2, <1>6, <1>7, StoreFacts, BoundKnows
  <1> QED BY <1>4, <1>8, <1>9, <1>10, SaveTitled

LEMMA RecordOurs ==
  ASSUME Apart, NamingInv, NEW d \in Calls, NEW ids, ids \subseteq Said(d), NEW c \in Creds,
         Record(c, ids)
  PROVE  BindingsInv' /\ PinKept /\ TitlesKept /\ \A n \in ids : index'[n] # None
  <1>1. BindingsInv /\ \A r \in Rids : Titled(recs[r])
    BY DEF NamingInv
  <1>2. ids \in SUBSET Names /\ Fits(ids, d)
    BY SaidAre DEF Fits
  <1>3. {n \in ids : Strong(n)} \subseteq d /\ Ours(ids)
    BY <1>2, FitsAreOurs DEF Ours
  <1>4. BindingsInv' /\ PinKept
    BY <1>1, <1>3, RecordStep
  <1>5. PICK found \in Targets(Store, ids), last \in ids :
          Become(Pinned(BoundTo(Store, found, ids, None, last), found[1], c, now + 1))
    BY DEF Record
  <1> DEFINE v == BoundTo(Store, found, ids, None, last)
             u == Pinned(v, found[1], c, now + 1)
  <1>6. found[1] \in Rids /\ Sound(v, now) /\ BoundIs(Store, v, found, ids, None, last)
    BY <1>1, <1>2, <1>3, StoreFacts, BindKeeps
  <1>7. {found[j] : j \in 1..Len(found)} \subseteq Rids
    BY <1>1, <1>2, StoreFacts, FoundAre
  <1>8. recs' = u.recs /\ index' = u.index /\ Save /\ now < MaxTime
    BY <1>5 DEF Become, Record
  <1> HIDE DEF v
  <1>9. \A r \in Rids : Titled(v.recs[r])
    <2>1. last \in Said(d)
      OBVIOUS
    <2>2. \A r \in Rids : Titled(Store.recs[r])
      BY <1>1, StoreFacts
    <2> QED BY <1>1, <1>2, <1>6, <2>1, <2>2, StoreFacts, BindTitles
  <1>10. \A n \in ids : v.index[n] # None
    BY <1>1, <1>2, <1>6, <1>7, StoreFacts, BoundKnows
  <1>11. /\ u.index = v.index
         /\ u.recs[found[1]].aliases = v.recs[found[1]].aliases
         /\ u.recs[found[1]].canonical = v.recs[found[1]].canonical
         /\ \A x \in Rids \ {found[1]} : u.recs[x] = v.recs[x]
    <2>1. now \in Nat /\ now + 1 \in Nat /\ now + 1 <= MaxTime /\ now <= now + 1 /\ now + 1 \in 0..(now + 1)
      BY <1>1, <1>8, StoreFacts, RidsAssumption
    <2>2. Sound(v, now + 1)
      BY <1>6, <2>1, SoundLater
    <2>3. v.recs[found[1]].canonical \in Names
      BY <1>6 DEF BoundIs
    <2> QED BY <1>6, <2>1, <2>2, <2>3, PinKeeps
  <1> HIDE DEF u
  <1>12. \A r \in Rids : Titled(u.recs[r])
    <2>1. Titled(u.recs[found[1]])
      BY <1>6, <1>9, <1>11 DEF Titled, TitledFor
    <2> QED BY <1>9, <1>11, <2>1
  <1> QED BY <1>4, <1>8, <1>10, <1>11, <1>12, SaveTitled

LEMMA ForgetOurs ==
  ASSUME NamingInv, NEW ids, ids \subseteq Names, Forget(ids)
  PROVE  BindingsInv' /\ PinKept /\ TitlesKept
  <1>1. BindingsInv /\ \A r \in Rids : Titled(recs[r])
    BY DEF NamingInv
  <1>2. PICK r \in Found(ids) : recs' = [recs EXCEPT ![r].cred = None]
    BY DEF Forget
  <1>3. \A x \in Rids : recs'[x].aliases = recs[x].aliases /\ recs'[x].canonical = recs[x].canonical
    BY <1>1, <1>2, StoreFacts DEF Binding
  <1>4. \A x \in Rids : Titled(recs'[x])
    BY <1>1, <1>3 DEF Titled, TitledFor
  <1>5. Save
    BY DEF Forget
  <1> QED BY <1>1, <1>4, <1>5, SaveTitled, ForgetStep

LEMMA OpenTitled ==
  ASSUME Apart, NamingInv, Open
  PROVE  TitlesKept
  <1>1. PICK list \in Orders(file) : Become(Load(list))
    BY DEF Open
  <1>2. file' = file /\ recs' = Load(list).recs
    BY <1>1 DEF Open, Become
  <1>3. now \in 0..MaxTime /\ FileOK(file, now) /\ \A b \in file : Titled(b)
    BY DEF NamingInv, BindingsInv
  <1>4. Readable(list, now) /\ {list[j] : j \in 1..Len(list)} = file
    BY <1>3, OrdersAre
  <1>5. \A j \in 1..Len(list) : Titled(list[j])
    BY <1>3, <1>4
  <1>6. \A r \in Rids : Titled(Load(list).recs[r])
    BY <1>3, <1>4, <1>5, LoadTitled
  <1> QED BY <1>2, <1>3, <1>6 DEF TitlesKept

-----------------------------------------------------------------------------
(* Steps of the visits.                                                     *)

\* A visit that stands still stays as it should, whatever others bind.
LEMMA OthersStay ==
  ASSUME NamingInv, PinKept, NEW w \in Visits, at'[w] = at[w], prior'[w] = prior[w], key'[w] = key[w]
  PROVE  VisitOK(w)'
  <1>1. VisitOK(w)
    BY DEF NamingInv
  <1>2. Entry[w].id \in Names /\ (Prompt(w) # None => Prompt(w) \in Names)
    BY EntryFacts
  <1>3. \A n \in Names : index[n] # None => index'[n] # None
    BY DEF PinKept
  <1> QED BY <1>1, <1>2, <1>3 DEF VisitOK

\* So it is enough to look at the one that moves.
LEMMA MoveKeeps ==
  ASSUME NamingInv, BindingsInv', PinKept, TitlesKept, NEW v \in Visits, NEW place \in Places,
         at' = [at EXCEPT ![v] = place],
         prior' \in [Visits -> Names \cup {None}], key' \in [Visits -> Names \cup {None}],
         \A w \in Visits \ {v} : prior'[w] = prior[w] /\ key'[w] = key[w],
         VisitOK(v)'
  PROVE  NamingInv'
  <1>1. at' \in [Visits -> Places] /\ \A w \in Visits \ {v} : at'[w] = at[w]
    BY DEF NamingInv
  <1>2. ASSUME NEW w \in Visits PROVE VisitOK(w)'
    <2>1. CASE w = v
      BY <2>1
    <2>2. CASE w # v
      BY <1>1, <2>2, OthersStay
    <2> QED BY <2>1, <2>2
  <1> QED BY <1>1, <1>2 DEF NamingInv, TitlesKept

LEMMA IdleTitles ==
  ASSUME NamingInv, UNCHANGED vars
  PROVE  BindingsInv' /\ PinKept /\ TitlesKept /\ index' = index /\ recs' = recs
  BY IdleKeeps DEF NamingInv, TitlesKept, vars

LEMMA NextRunStep ==
  ASSUME Apart, NamingInv, NextRun
  PROVE  NamingInv'
  <1>1. BindingsInv' /\ TitlesKept
    BY OpenStep, OpenTitled DEF NextRun, NamingInv
  <1>2. at' = [v \in Visits |-> "away"] /\ prior' = prior /\ key' = key
    BY DEF NextRun
  <1>3. at' \in [Visits -> Places]
    BY <1>2 DEF Places
  <1>4. \A v \in Visits : VisitOK(v)'
    BY <1>2 DEF VisitOK
  <1> QED BY <1>1, <1>2, <1>3, <1>4 DEF NamingInv, TitlesKept

LEMMA PinRefusedStep ==
  ASSUME NamingInv, NEW v \in Visits, PinRefused(v)
  PROVE  NamingInv' /\ PinKept
  <1>1. BindingsInv' /\ PinKept /\ TitlesKept
    BY ForgetOurs, EntryFacts DEF PinRefused
  <1>2. at' = at /\ prior' = prior /\ key' = key
    BY DEF PinRefused, naming
  <1>3. \A w \in Visits : VisitOK(w)'
    BY <1>1, <1>2, OthersStay
  <1> QED BY <1>1, <1>2, <1>3 DEF NamingInv, TitlesKept

LEMMA LogInStep ==
  ASSUME Apart, NamingInv, NEW v \in Visits, LogIn(v)
  PROVE  NamingInv' /\ PinKept
  <1>1. PICK c \in Creds : Record(c, Entry[v].login)
    BY DEF LogIn
  <1>2. BindingsInv' /\ PinKept /\ TitlesKept /\ \A n \in Entry[v].login : index'[n] # None
    <2>1. Entry[v].login \subseteq Said(Entry[v].device) /\ Entry[v].device \in Calls
      BY EntryFacts
    <2> QED BY <1>1, <2>1, RecordOurs
  <1>3. at' = [at EXCEPT ![v] = "resolve"] /\ prior' = prior /\ key' = key
    BY DEF LogIn, Goto
  <1>4. at'[v] = "resolve" /\ "resolve" \in Places
    BY <1>3 DEF NamingInv, Places
  <1>5. VisitOK(v)'
    BY <1>2, <1>4, EntryFacts DEF VisitOK
  <1> QED BY <1>2, <1>3, <1>4, <1>5, MoveKeeps DEF NamingInv

LEMMA ResolveFirstStep ==
  ASSUME Apart, NamingInv, NEW v \in Visits, ResolveFirst(v)
  PROVE  NamingInv' /\ PinKept
  <1> DEFINE name == Resolve(Entry[v].ids)
             d == Entry[v].device
  <1>1. BindingsInv' /\ PinKept /\ TitlesKept /\ index' = index
    BY IdleTitles DEF ResolveFirst
  <1>2. at[v] = "resolve" /\ prior' = [prior EXCEPT ![v] = name]
    BY DEF ResolveFirst
  <1>3. index[Entry[v].id] # None
    BY <1>2 DEF NamingInv, VisitOK
  <1>4. name \in Said(d) /\ name \in Names
    <2>1. name \in Said(d)
      BY <1>3, EntryFacts, ResolvesOurs
    <2> QED BY <2>1, EntryFacts, SaidAre
  <1>5. name # None
    BY <1>4, NamesAssumption
  <1>6. \/ at' = [at EXCEPT ![v] = "answered"] /\ key' = [key EXCEPT ![v] = name]
        \/ at' = [at EXCEPT ![v] = "bind"] /\ key' = key /\ Prompt(v) # None
        \/ at' = [at EXCEPT ![v] = "named"] /\ key' = [key EXCEPT ![v] = name]
    BY <1>5 DEF ResolveFirst, Goto, Named
  <1> HIDE DEF name
  <1>7. prior' \in [Visits -> Names \cup {None}] /\ prior'[v] = name
        /\ \A w \in Visits \ {v} : prior'[w] = prior[w]
    BY <1>2, <1>4 DEF NamingInv
  <1>8. /\ at \in [Visits -> Places] /\ key \in [Visits -> Names \cup {None}]
        /\ "answered" \in Places /\ "bind" \in Places /\ "named" \in Places
    BY DEF NamingInv, Places
  <1>9. CASE at' = [at EXCEPT ![v] = "answered"] /\ key' = [key EXCEPT ![v] = name]
    <2>1. at'[v] = "answered" /\ key'[v] = name /\ key' \in [Visits -> Names \cup {None}]
          /\ \A w \in Visits \ {v} : key'[w] = key[w]
      BY <1>4, <1>8, <1>9
    <2>2. VisitOK(v)'
      BY <1>1, <1>3, <1>4, <1>7, <2>1 DEF VisitOK
    <2> QED BY <1>1, <1>7, <1>8, <1>9, <2>1, <2>2, MoveKeeps
  <1>10. CASE at' = [at EXCEPT ![v] = "bind"] /\ key' = key /\ Prompt(v) # None
    <2>1. at'[v] = "bind"
      BY <1>8, <1>10
    <2>2. VisitOK(v)'
      BY <1>1, <1>3, <1>10, <2>1 DEF VisitOK
    <2> QED BY <1>1, <1>7, <1>8, <1>10, <2>1, <2>2, MoveKeeps
  <1>11. CASE at' = [at EXCEPT ![v] = "named"] /\ key' = [key EXCEPT ![v] = name]
    <2>1. at'[v] = "named" /\ key'[v] = name /\ key' \in [Visits -> Names \cup {None}]
          /\ \A w \in Visits \ {v} : key'[w] = key[w]
      BY <1>4, <1>8, <1>11
    <2>2. VisitOK(v)'
      BY <1>4, <2>1 DEF VisitOK
    <2> QED BY <1>1, <1>7, <1>8, <1>11, <2>1, <2>2, MoveKeeps
  <1> QED BY <1>1, <1>6, <1>9, <1>10, <1>11

LEMMA BindAnsweredStep ==
  ASSUME Apart, NamingInv, NEW v \in Visits, BindAnswered(v)
  PROVE  NamingInv' /\ PinKept
  <1>1. at[v] = "answered" /\ at' = [at EXCEPT ![v] = "named"] /\ prior' = prior /\ key' = key
    BY DEF BindAnswered, Goto
  <1>2. prior[v] \in Said(Entry[v].device) /\ key[v] \in Said(Entry[v].device)
    BY <1>1 DEF NamingInv, VisitOK
  <1>3. BindingsInv' /\ PinKept /\ TitlesKept
    <2>1. CASE Answered(v) = None
      BY <2>1, IdleTitles DEF BindAnswered
    <2>2. CASE Answered(v) # None
      <3>1. Bind({prior[v], Answered(v)}, prior[v])
        BY <2>2 DEF BindAnswered
      <3>2. {prior[v], Answered(v)} \subseteq Said(Entry[v].device) /\ Entry[v].device \in Calls
        BY <1>2, <2>2, EntryFacts
      <3> QED BY <3>1, <3>2, BindOurs
    <2> QED BY <2>1, <2>2
  <1>4. at'[v] = "named" /\ "named" \in Places
    BY <1>1 DEF NamingInv, Places
  <1>5. VisitOK(v)'
    BY <1>1, <1>2, <1>4 DEF VisitOK
  <1> QED BY <1>1, <1>3, <1>4, <1>5, MoveKeeps DEF NamingInv

LEMMA BindPromptStep ==
  ASSUME Apart, NamingInv, NEW v \in Visits, BindPrompt(v)
  PROVE  NamingInv' /\ PinKept
  <1> DEFINE ids == {Prompt(v), Entry[v].target, Answered(v)} \ {None}
  <1>1. at[v] = "bind" /\ at' = [at EXCEPT ![v] = "reread"] /\ prior' = prior /\ key' = key
        /\ Bind(ids, Prompt(v))
    BY DEF BindPrompt, Goto
  <1>2. Prompt(v) # None /\ index[Entry[v].id] # None
    BY <1>1 DEF NamingInv, VisitOK
  <1>3. ids \subseteq Said(Entry[v].device) /\ Entry[v].device \in Calls /\ Prompt(v) \in ids
    BY <1>2, EntryFacts
  <1> HIDE DEF ids
  <1>4. BindingsInv' /\ PinKept /\ TitlesKept /\ \A n \in ids : index'[n] # None
    BY <1>1, <1>3, BindOurs
  <1>5. at'[v] = "reread" /\ "reread" \in Places
    BY <1>1 DEF NamingInv, Places
  <1>6. index'[Entry[v].id] # None
    BY <1>2, <1>4, EntryFacts DEF PinKept
  <1>7. VisitOK(v)'
    BY <1>2, <1>3, <1>4, <1>5, <1>6 DEF VisitOK
  <1> QED BY <1>1, <1>4, <1>5, <1>7, MoveKeeps DEF NamingInv

LEMMA RereadStep ==
  ASSUME Apart, NamingInv, NEW v \in Visits, Reread(v)
  PROVE  NamingInv' /\ PinKept
  <1>1. at[v] = "reread" /\ at' = [at EXCEPT ![v] = "named"] /\ prior' = prior
        /\ key' = [key EXCEPT ![v] = Picked(v)]
    BY DEF Reread, Goto, Named
  <1>2. BindingsInv' /\ PinKept /\ TitlesKept
    BY IdleTitles DEF Reread
  <1>3. Prompt(v) # None /\ index[Prompt(v)] # None
    BY <1>1 DEF NamingInv, VisitOK
  <1>4. Picked(v) \in Said(Entry[v].device) /\ Picked(v) \in Names
    <2>1. Prompt(v) \in Bound(v) /\ Prompt(v) \in Names
      BY <1>3, EntryFacts
    <2>2. <<Prompt(v)>> \in Seq(Names) /\ <<Prompt(v)>> # <<>> /\ <<Prompt(v)>>[1] = Prompt(v)
      BY <2>1
    <2>3. Resolve(<<Prompt(v)>>) \in Said(Entry[v].device)
      BY <1>3, <2>1, <2>2, ResolvesOurs
    <2>4. Prompt(v) \in Said(Entry[v].device)
      BY <2>1, EntryFacts
    <2>5. Picked(v) \in Said(Entry[v].device)
      BY <2>3, <2>4 DEF Picked
    <2> QED BY <2>5, EntryFacts, SaidAre
  <1>5. at'[v] = "named" /\ "named" \in Places /\ key'[v] = Picked(v)
        /\ key' \in [Visits -> Names \cup {None}] /\ \A w \in Visits \ {v} : key'[w] = key[w]
    BY <1>1, <1>4 DEF NamingInv, Places
  <1>6. VisitOK(v)'
    BY <1>4, <1>5 DEF VisitOK
  <1> QED BY <1>1, <1>2, <1>5, <1>6, MoveKeeps DEF NamingInv

LEMMA NamingNextKeeps ==
  ASSUME Apart, NamingInv, [NamingNext]_namingVars
  PROVE  NamingInv' /\ (Open \/ PinKept)
  <1>1. CASE NextRun
    BY <1>1, NextRunStep DEF NextRun
  <1>2. ASSUME NEW v \in Visits,
               PinRefused(v) \/ LogIn(v) \/ ResolveFirst(v) \/ BindAnswered(v) \/ BindPrompt(v) \/ Reread(v)
        PROVE  NamingInv' /\ PinKept
    BY <1>2, PinRefusedStep, LogInStep, ResolveFirstStep, BindAnsweredStep, BindPromptStep, RereadStep
  <1>3. CASE UNCHANGED namingVars
    <2>1. UNCHANGED vars /\ at' = at /\ prior' = prior /\ key' = key
      BY <1>3 DEF namingVars, naming
    <2>2. BindingsInv' /\ PinKept /\ TitlesKept
      BY <2>1, IdleTitles
    <2>3. \A w \in Visits : VisitOK(w)'
      BY <2>1, <2>2, OthersStay
    <2> QED BY <2>1, <2>2, <2>3 DEF NamingInv, TitlesKept
  <1> QED BY <1>1, <1>2, <1>3 DEF NamingNext

LEMMA NamingInitIsSound ==
  ASSUME NamingInit
  PROVE  NamingInv
  <1>1. Init /\ at = [v \in Visits |-> "away"] /\ prior = [v \in Visits |-> None]
        /\ key = [v \in Visits |-> None]
    BY DEF NamingInit
  <1>2. BindingsInv
    BY <1>1, InitIsSound
  <1>3. ASSUME NEW r \in Rids PROVE Titled(recs[r])
    <2>1. recs[r] = NoRecord
      BY <1>1 DEF Init, Empty
    <2> QED BY <2>1 DEF NoRecord, Titled
  <1>4. ASSUME NEW b \in file PROVE Titled(b)
    <2>1. PICK old \in OldFiles :
            file = {[canonical |-> n, aliases |-> {n}, cred |-> None, at |-> 0] : n \in old}
      BY <1>1 DEF Init
    <2>2. PICK n \in old : b.canonical = n /\ b.aliases = {n}
      BY <2>1
    <2>3. n \in Names /\ (Strong(n) => n \in UNION Calls)
      BY OldFilesAssumption
    <2>4. CASE Strong(n)
      <3>1. PICK d \in Calls : n \in d
        BY <2>3, <2>4
      <3>2. n \in Said(d)
        BY <2>4, <3>1, SaidIs
      <3> QED BY <2>2, <3>1, <3>2 DEF Titled, TitledFor, Fits
    <2>5. CASE ~Strong(n)
      BY <2>2, <2>5 DEF Titled, Strong
    <2> QED BY <2>4, <2>5
  <1>5. at \in [Visits -> Places] /\ \A v \in Visits : VisitOK(v)
    BY <1>1 DEF Places, VisitOK
  <1> QED BY <1>1, <1>2, <1>3, <1>4, <1>5 DEF NamingInv

\* Two visits that filed under one name were of one device.
LEMMA InvHistories ==
  ASSUME NamingInv
  PROVE  HistoriesApart
  <1> SUFFICES ASSUME \A v \in Visits : OwnNames(v), NEW u \in Visits, NEW v \in Visits,
                      at[u] = "named", at[v] = "named", key[u] = key[v]
               PROVE  Entry[u].device = Entry[v].device
    BY DEF HistoriesApart
  <1>1. key[u] \in Said(Entry[u].device) /\ key[u] \in Said(Entry[v].device)
    BY DEF NamingInv, VisitOK
  <1>2. Entry[u].device \in Calls /\ Entry[v].device \in Calls /\ Apart
    BY EntryFacts DEF Apart
  <1>3. key[u] \in NamesOf(Entry[v].device)
    BY <1>1, <1>2, SaidAre
  <1> QED BY <1>1, <1>2, <1>3, SaidApart

\* While no device is called what another is, no two devices share a history, in
\* whatever order their visits record, resolve, bind and read again, and whatever
\* first labels their names share.
THEOREM HistoriesApartAlways == NamingSpec => []HistoriesApart
  <1>1. CASE Apart
    <2>1. Apart /\ NamingInv /\ [NamingNext]_namingVars => NamingInv'
      BY NamingNextKeeps
    <2>2. NamingInv => HistoriesApart
      BY InvHistories
    <2>3. NamingInit => NamingInv
      BY NamingInitIsSound
    <2>4. NamingInv /\ [NamingNext]_namingVars => NamingInv'
      BY <1>1, <2>1
    <2> QED BY <2>2, <2>3, <2>4, PTL DEF NamingSpec
  <1>2. CASE ~Apart
    <2>1. HistoriesApart
      BY <1>2 DEF Apart, HistoriesApart
    <2> QED BY <2>1, PTL
  <1> QED BY <1>1, <1>2

\* And a visit never merges two devices' records.
THEOREM VisitsKeepRecordsApart == Apart /\ NamingSpec => []RecordsApart
  <1>1. Apart /\ NamingInv /\ [NamingNext]_namingVars => NamingInv'
    BY NamingNextKeeps
  <1>2. NamingInv => RecordsApart
    BY InvApart DEF NamingInv
  <1>3. SUFFICES ASSUME Apart PROVE NamingSpec => []RecordsApart
    OBVIOUS
  <1>4. NamingInv /\ [NamingNext]_namingVars => NamingInv'
    BY <1>1, <1>3
  <1> QED BY <1>2, <1>4, NamingInitIsSound, PTL DEF NamingSpec

\* Nor do visits and new runs lose a device's last success, or a saved name.
THEOREM VisitsKeepPins == Apart /\ NamingSpec => PinNeverOlder /\ RestartKeepsNames
  <1>1. SUFFICES ASSUME Apart PROVE NamingSpec => PinNeverOlder /\ RestartKeepsNames
    OBVIOUS
  <1>2. NamingInv /\ [NamingNext]_namingVars => NamingInv'
    BY <1>1, NamingNextKeeps
  <1>3. NamingInv /\ [NamingNext]_namingVars =>
          [~Open => \A n \in Names : Strong(n) /\ index[n] # None =>
             index'[n] # None /\ recs'[index'[n]].at >= recs[index[n]].at]_vars
    BY <1>1, NamingNextKeeps DEF PinKept
  <1>4. NamingInv /\ [NamingNext]_namingVars =>
          [Open => \A b \in file : \A n \in StrongIn(b) :
             index'[n] # None /\ StrongIn(recs'[index'[n]]) = StrongIn(b)]_vars
    BY OpenStep DEF NamingInv, NamesKept
  <1> QED BY <1>2, <1>3, <1>4, NamingInitIsSound, PTL DEF NamingSpec, PinNeverOlder, RestartKeepsNames
=============================================================================
