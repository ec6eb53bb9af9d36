---------------------------- MODULE InventoryProofs ----------------------------
(***************************************************************************)
(* The inventory stays sound, for any file this program wrote, any lists   *)
(* of edits, any crawls and any number of saves; and a run asked for at    *)
(* any moment visits what it was asked for.                                *)
(*                                                                         *)
(* TreeIsSound is not inductive: a call saves what it made in memory of    *)
(* the file as it was when it loaded, whatever was saved since, so the     *)
(* invariant says that each call in flight holds a sound tree (Jobs).      *)
(* That it does is the work: each edit of a tree keeps it sound, in part   *)
(* (ApartOn) between the halves of an edit that takes a session out and    *)
(* puts it back, and every list of edits and every import is a fold of     *)
(* them (FoldEnds).  The device list needs of the tree that an address     *)
(* names one session, and is three folds more.                             *)
(***************************************************************************)
EXTENDS Inventory, FiniteSetTheorems, SequenceTheorems, WellFoundedInduction, TLAPS

-----------------------------------------------------------------------------
(* Facts about numbers that finite sets of positions need.                  *)

\* A set of numbers has a least one, a bounded one a greatest.
LEMMA LeastNat ==
  ASSUME NEW T \in SUBSET Nat, T # {}
  PROVE  \E n \in T : \A m \in T : n <= m
  <1>1. PICK top \in T : TRUE
    OBVIOUS
  <1> DEFINE U == 1..top
             below == {n \in T : n <= top}
             spans == {1..n : n \in below}
             R == StrictSubsetOrdering(U)
  <1>2. IsWellFoundedOn(R, SUBSET U)
    <2>1. IsFiniteSet(U)
      BY FS_Interval
    <2> HIDE DEF U
    <2> QED BY <2>1, FS_StrictSubsetOrderingWellFounded, FS_FiniteSubsetsOfFinite
  <1>3. spans \subseteq SUBSET U /\ spans # {}
    BY <1>1
  <1>4. \A x, y \in spans : y \subseteq x /\ y # x => <<y, x>> \in R
    BY <1>3 DEF StrictSubsetOrdering
  <1> HIDE DEF R, spans, U
  <1>5. PICK x \in spans : \A y \in spans : <<y, x>> \notin R
    BY <1>2, <1>3, WFMin
  <1>6. PICK n \in below : x = 1..n
    BY DEF spans
  <1>7. \A m \in below : ~(m < n)
    <2> SUFFICES ASSUME NEW m \in below, m < n PROVE FALSE
      OBVIOUS
    <2>0. m \in Nat /\ n \in Nat
      OBVIOUS
    <2>1. 1..m \in spans
      BY DEF spans
    <2>2. 1..m \subseteq x /\ n \in x /\ n \notin 1..m
      BY <1>6, <2>0
    <2> QED BY <1>4, <1>5, <2>1, <2>2
  <1>8. n \in T /\ n <= top /\ n \in Nat
    OBVIOUS
  <1>9. ASSUME NEW m \in T
        PROVE  n <= m
    <2>1. m \in Nat /\ top \in Nat
      BY <1>1
    <2>2. CASE m <= top
      BY <1>7, <1>8, <2>1, <2>2
    <2>3. CASE ~(m <= top)
      BY <1>8, <2>1, <2>3
    <2> QED BY <2>2, <2>3
  <1> QED BY <1>8, <1>9

LEMMA GreatestNat ==
  ASSUME NEW n \in Nat, NEW S \in SUBSET (1..n), S # {}
  PROVE  \E x \in S : \A y \in S : y <= x
  <1> DEFINE Above == {m \in Nat : \A y \in S : y <= m}
  <1>1. n \in Above
    OBVIOUS
  <1>2. PICK m \in Above : \A k \in Above : m <= k
    <2>1. Above \in SUBSET Nat /\ Above # {}
      BY <1>1
    <2> HIDE DEF Above
    <2> QED BY <2>1, LeastNat
  <1>3. m \in S
    <2> SUFFICES ASSUME m \notin S PROVE FALSE
      OBVIOUS
    <2>1. PICK y \in S : TRUE
      OBVIOUS
    <2>2. m - 1 \in Nat
      BY <2>1, <1>2
    <2>3. \A z \in S : z <= m - 1
      BY <1>2
    <2>4. m - 1 \in Above
      BY <2>2, <2>3
    <2> QED BY <1>2, <2>2, <2>4
  <1> QED BY <1>2, <1>3

LEMMA MaxIs ==
  ASSUME NEW n \in Nat, NEW S \in SUBSET (1..n), S # {}
  PROVE  Max(S) \in S /\ \A y \in S : y <= Max(S)
  BY GreatestNat DEF Max

LEMMA MinIs ==
  ASSUME NEW S \in SUBSET Nat, S # {}
  PROVE  Min(S) \in S /\ \A y \in S : Min(S) <= y
  BY LeastNat DEF Min

-----------------------------------------------------------------------------
(* Folds of a sequence.                                                     *)

\* What holds of the first value and is kept by each step holds of the last.
LEMMA Along ==
  ASSUME NEW n \in Nat, NEW h, NEW P, h[0] \in P[0],
         \A k \in 1..n : h[k - 1] \in P[k - 1] => h[k] \in P[k]
  PROVE  \A k \in 0..n : h[k] \in P[k]
  <1> DEFINE Out == {k \in 0..n : h[k] \notin P[k]}
  <1> SUFFICES ASSUME Out # {} PROVE FALSE
    OBVIOUS
  <1>1. PICK m \in Out : \A j \in Out : m <= j
    <2>1. Out \in SUBSET Nat
      OBVIOUS
    <2> HIDE DEF Out
    <2> QED BY <2>1, LeastNat
  <1>2. m # 0 /\ m \in 1..n
    BY <1>1
  <1>3. m - 1 \in 0..n /\ ~(m <= m - 1)
    BY <1>2
  <1>4. h[m - 1] \in P[m - 1]
    BY <1>1, <1>3
  <1> QED BY <1>1, <1>2, <1>4

Folds(n, T, base, g, f) ==
  /\ f = [s \in SUBSET (1..n) |-> f[s]]
  /\ \A s \in SUBSET (1..n) :
       /\ s = {} => f[s] = base
       /\ s # {} => /\ Max(s) \in 1..n /\ f[s \ {Max(s)}] \in T
                    /\ f[s] = g[Max(s)][f[s \ {Max(s)}]]

\* A fold is a recursive function of the sets of positions; with the step given as
\* a table g, there is one.
LEMMA FoldExists ==
  ASSUME NEW n \in Nat, NEW T, NEW base \in T, NEW g \in [1..n -> [T -> T]]
  PROVE  \E f : Folds(n, T, base, g, f)
  <1> DEFINE F(f, s) == IF s = {} THEN base ELSE g[Max(s)][f[s \ {Max(s)}]]
             Done(m) == \E f \in [SUBSET (1..m) -> T] : \A s \in SUBSET (1..m) : f[s] = F(f, s)
             Out == {m \in 0..n : ~Done(m)}
  <1>1. Done(n)
    <2> SUFFICES ASSUME Out # {} PROVE FALSE
      <3>1. n \in 0..n
        OBVIOUS
      <3> HIDE DEF Done
      <3> QED BY <3>1
    <2>1. PICK m \in Out : \A j \in Out : m <= j
      <3>1. Out \in SUBSET Nat
        OBVIOUS
      <3> HIDE DEF Out
      <3> QED BY <3>1, LeastNat
    <2>2. CASE m = 0
      <3> DEFINE f == [s \in SUBSET (1..0) |-> base]
      <3>1. f \in [SUBSET (1..m) -> T]
        BY <2>2
      <3>2. \A s \in SUBSET (1..m) : f[s] = F(f, s)
        BY <2>2
      <3> QED BY <2>1, <3>1, <3>2
    <2>3. CASE m # 0
      <3>1. m - 1 \in 0..n /\ ~(m <= m - 1)
        BY <2>1, <2>3
      <3>2. Done(m - 1)
        BY <2>1, <3>1
      <3>3. PICK f \in [SUBSET (1..(m - 1)) -> T] : \A s \in SUBSET (1..(m - 1)) : f[s] = F(f, s)
        BY <3>2
      <3> DEFINE e == [s \in SUBSET (1..m) |-> F(f, s)]
      <3>4. \A s \in SUBSET (1..m) : s # {} =>
              Max(s) \in s /\ s \ {Max(s)} \in SUBSET (1..(m - 1))
        <4> SUFFICES ASSUME NEW s \in SUBSET (1..m), s # {}
                     PROVE  Max(s) \in s /\ s \ {Max(s)} \in SUBSET (1..(m - 1))
          OBVIOUS
        <4>1. m \in Nat
          BY <2>1
        <4>2. Max(s) \in s /\ \A y \in s : y <= Max(s)
          BY <4>1, MaxIs
        <4>3. ASSUME NEW y \in s \ {Max(s)} PROVE y \in 1..(m - 1)
          <5>1. y \in 1..m /\ Max(s) \in 1..m /\ y <= Max(s) /\ y # Max(s)
            BY <4>2
          <5> QED BY <4>1, <5>1
        <4> QED BY <4>2, <4>3
      <3>5. e \in [SUBSET (1..m) -> T]
        <4> SUFFICES ASSUME NEW s \in SUBSET (1..m) PROVE F(f, s) \in T
          OBVIOUS
        <4>1. CASE s = {}
          BY <4>1
        <4>2. CASE s # {}
          <5>0. Max(s) \in 1..m /\ s \ {Max(s)} \in SUBSET (1..(m - 1))
            BY <3>4, <4>2
          <5>1. Max(s) \in 1..n /\ f[s \ {Max(s)}] \in T
            BY <2>1, <5>0
          <5>2. g[Max(s)] \in [T -> T]
            BY <5>1
          <5> QED BY <4>2, <5>1, <5>2
        <4> QED BY <4>1, <4>2
      <3>6. \A s \in SUBSET (1..(m - 1)) : e[s] = f[s]
        <4> SUFFICES ASSUME NEW s \in SUBSET (1..(m - 1)) PROVE e[s] = f[s]
          OBVIOUS
        <4>1. s \in SUBSET (1..m)
          BY <2>1
        <4>2. f[s] = F(f, s)
          BY <3>3
        <4> QED BY <4>1, <4>2
      <3>7. \A s \in SUBSET (1..m) : e[s] = F(e, s)
        <4> SUFFICES ASSUME NEW s \in SUBSET (1..m) PROVE F(f, s) = F(e, s)
          OBVIOUS
        <4>1. CASE s = {}
          BY <4>1
        <4>2. CASE s # {}
          <5>1. e[s \ {Max(s)}] = f[s \ {Max(s)}]
            BY <3>4, <3>6, <4>2
          <5> HIDE DEF e
          <5> QED BY <4>2, <5>1
        <4> QED BY <4>1, <4>2
      <3> HIDE DEF e
      <3>8. Done(m)
        BY <3>5, <3>7
      <3> QED BY <2>1, <3>8
    <2> QED BY <2>2, <2>3
  <1>2. PICK f \in [SUBSET (1..n) -> T] : \A s \in SUBSET (1..n) : f[s] = F(f, s)
    BY <1>1
  <1>3. ASSUME NEW s \in SUBSET (1..n), s # {}
        PROVE  Max(s) \in 1..n /\ f[s \ {Max(s)}] \in T
    <2>1. Max(s) \in s
      BY <1>3, MaxIs
    <2> QED BY <2>1
  <1> QED BY <1>2, <1>3 DEF Folds

\* The positions before k, and the last of them.
LEMMA UpTo ==
  ASSUME NEW k \in Nat, k # 0
  PROVE  Max(1..k) = k /\ k \in 1..k /\ (1..k) \ {k} = 1..(k - 1)
  <1>1. k \in 1..k
    OBVIOUS
  <1>2. Max(1..k) \in 1..k /\ \A y \in 1..k : y <= Max(1..k)
    BY <1>1, MaxIs
  <1>3. Max(1..k) = k
    BY <1>1, <1>2
  <1>4. (1..k) \ {k} = 1..(k - 1)
    OBVIOUS
  <1> QED BY <1>1, <1>3, <1>4

-----------------------------------------------------------------------------
(* Sessions.                                                                *)

\* Names are sequences of words.
LEMMA Tuples ==
  ASSUME NEW S, NEW x \in S, NEW y \in S, NEW z \in S
  PROVE  <<>> \in Seq(S) /\ <<x>> \in Seq(S) /\ <<x, y>> \in Seq(S) /\ <<x, y, z>> \in Seq(S)
  OBVIOUS

\* The ports a transport defaults to are words.
LEMMA Ports ==
  /\ DefaultPort("ssh") = "22" /\ DefaultPort("telnet") = "23" /\ DefaultPort("serial") = ""
  /\ \A k \in Transports : DefaultPort(k) \in Words
  <1>1. DefaultPort("ssh") = "22" /\ DefaultPort("telnet") = "23" /\ DefaultPort("serial") = ""
    BY DEF DefaultPort, NoPort
  <1> QED BY <1>1, WordsAssumption DEF Transports

\* What the fields of a session are, and what Normalize makes of one.
LEMMA SessionIs ==
  ASSUME NEW s \in Session
  PROVE  /\ Target(s) \in Seq(Words) /\ Label(s) \in Seq(Words) /\ Key(s) \in Seq(Words)
         /\ Normalize(s) \in Session /\ Normalize(s).id = s.id
         /\ Key(Normalize(s)) = Key(s) /\ Label(Normalize(s)) = Label(s)
  <1> DEFINE port == IF s.port = NoPort THEN DefaultPort(s.kind) ELSE s.port
  <1>1. s.id \in Nat /\ s.kind \in Transports /\ s.name \in Seq(Words) /\ s.host \in Words /\ s.port \in Words
    BY DEF Session
  <1>2. DefaultPort(s.kind) \in Words /\ port \in Words
    BY <1>1, Ports
  <1>3. Target(s) \in Seq(Words)
    BY <1>1, Tuples DEF Target, NoName
  <1>4. Label(s) \in Seq(Words)
    BY <1>1, <1>3 DEF Label
  <1> DEFINE n == Normalize(s)
             m == [s EXCEPT !.port = port]
  <1>5. m \in Session /\ m.port = port /\ m.kind = s.kind /\ m.host = s.host /\ m.name = s.name /\ m.id = s.id
    BY <1>1, <1>2 DEF Session
  <1>6. n = [m EXCEPT !.name = Label(m)]
    BY DEF Normalize
  <1>7. Target(m) = Target(s)
    <2> HIDE DEF m
    <2>1. s.port \in {NoPort, DefaultPort(s.kind)} <=> m.port \in {NoPort, DefaultPort(m.kind)}
      BY <1>1, <1>5, Ports DEF NoPort, Transports
    <2>2. s.port \notin {NoPort, DefaultPort(s.kind)} => m.port = s.port
      BY <1>5
    <2> QED BY <1>5, <2>1, <2>2 DEF Target
  <1>8. Label(m) = Label(s)
    BY <1>5, <1>7 DEF Label
  <1>9. /\ n \in Session /\ n.id = s.id /\ n.kind = s.kind /\ n.host = s.host /\ n.port = port /\ n.name = Label(s)
    <2> HIDE DEF m, n, port
    <2> QED BY <1>4, <1>5, <1>6, <1>8 DEF Session
  <1> HIDE DEF m, n
  <1>10. Target(n) = Target(m)
    BY <1>5, <1>9 DEF Target
  <1>11. Label(n) = Label(s)
    BY <1>7, <1>8, <1>9, <1>10 DEF Label
  <1>12. Normalize(n).port = port
    <2>1. Normalize(n) = [[n EXCEPT !.port = IF n.port = NoPort THEN DefaultPort(n.kind) ELSE @] EXCEPT !.name = Label([n EXCEPT !.port = IF n.port = NoPort THEN DefaultPort(n.kind) ELSE @])]
      BY DEF Normalize
    <2>2. (IF n.port = NoPort THEN DefaultPort(n.kind) ELSE n.port) = port
      BY <1>9
    <2> HIDE DEF port
    <2> QED BY <1>9, <2>1, <2>2 DEF Session
  <1>13. Normalize(s).port = port
    BY <1>9 DEF n
  <1>14. Key(n) = Key(s)
    <2> HIDE DEF port
    <2> QED BY <1>9, <1>12, <1>13 DEF Key
  <1>15. Key(s) \in Seq(Words)
    <2> HIDE DEF port
    <2>1. s.kind \in Words
      BY <1>1, WordsAssumption DEF Transports
    <2>2. /\ <<>> \in Seq(Words) /\ <<s.kind, s.host>> \in Seq(Words)
          /\ <<s.kind, s.host, port>> \in Seq(Words)
      BY <1>1, <1>2, <2>1, Tuples
    <2> QED BY <1>13, <2>2 DEF Key, NoKey
  <1> QED BY <1>3, <1>4, <1>9, <1>11, <1>14, <1>15 DEF n

-----------------------------------------------------------------------------
(* Trees.                                                                   *)

\* What the parts of a tree are.
LEMMA TreeIs ==
  ASSUME NEW t \in Tree
  PROVE  /\ Len(t) \in Nat /\ DOMAIN t = 1..Len(t)
         /\ \A i \in DOMAIN t : /\ t[i] \in [name : Words, sessions : Seq(Session)]
                               /\ t[i].name \in Words /\ t[i].sessions \in Seq(Session)
                               /\ Len(t[i].sessions) \in Nat
                               /\ DOMAIN t[i].sessions = 1..Len(t[i].sessions)
                               /\ \A j \in DOMAIN t[i].sessions : t[i].sessions[j] \in Session
  <1>1. /\ Len(t) \in Nat /\ DOMAIN t = 1..Len(t)
        /\ \A i \in DOMAIN t : t[i] \in [name : Words, sessions : Seq(Session)]
    <2> DEFINE F == [name : Words, sessions : Seq(Session)]
    <2>1. t \in Seq(F)
      BY DEF Tree
    <2> HIDE DEF F
    <2>2. Len(t) \in Nat /\ DOMAIN t = 1..Len(t) /\ \A i \in DOMAIN t : t[i] \in F
      BY <2>1
    <2> QED BY <2>2 DEF F
  <1>2. \A i \in DOMAIN t : t[i].name \in Words /\ t[i].sessions \in Seq(Session)
    BY <1>1
  <1>3. \A ss \in Seq(Session) : Len(ss) \in Nat /\ DOMAIN ss = 1..Len(ss) /\ \A j \in DOMAIN ss : ss[j] \in Session
    OBVIOUS
  <1> QED BY <1>1, <1>2, <1>3

\* A place is a folder and a position in it.
LEMMA PlacesAre ==
  ASSUME NEW t \in Tree
  PROVE  /\ \A p \in Places(t) : /\ p[1] \in DOMAIN t /\ p[2] \in DOMAIN t[p[1]].sessions
                                /\ p = <<p[1], p[2]>> /\ At(t, p) \in Session
         /\ \A i \in DOMAIN t : \A j \in DOMAIN t[i].sessions : <<i, j>> \in Places(t)
  <1>1. ASSUME NEW p \in Places(t)
        PROVE  /\ p[1] \in DOMAIN t /\ p[2] \in DOMAIN t[p[1]].sessions
               /\ p = <<p[1], p[2]>> /\ At(t, p) \in Session
    <2>1. PICK i \in DOMAIN t : \E j \in DOMAIN t[i].sessions : p = <<i, j>>
      BY DEF Places
    <2>2. PICK j \in DOMAIN t[i].sessions : p = <<i, j>>
      BY <2>1
    <2>3. p[1] = i /\ p[2] = j
      BY <2>2
    <2> QED BY <2>1, <2>2, <2>3, TreeIs DEF At
  <1>2. \A i \in DOMAIN t : \A j \in DOMAIN t[i].sessions : <<i, j>> \in Places(t)
    BY DEF Places
  <1> QED BY <1>1, <1>2

\* What makes a tree sound, position by position.
SessionAt(t, i, j) == t[i].sessions[j]

\* A tree is sound when its folders are, position by position.
LEMMA SoundIs ==
  ASSUME NEW t \in Tree
  PROVE  /\ KeysApart(t) <=> \A i, k \in DOMAIN t : \A j \in DOMAIN t[i].sessions : \A l \in DOMAIN t[k].sessions :
                               i # k \/ j # l => \/ Key(SessionAt(t, i, j)) # Key(SessionAt(t, k, l))
                                                \/ Key(SessionAt(t, i, j)) = NoKey
         /\ LabelsApart(t) <=> \A i \in DOMAIN t : \A j, l \in DOMAIN t[i].sessions :
                                 j # l => Label(SessionAt(t, i, j)) # Label(SessionAt(t, i, l))
  <1> DEFINE K(i, j, k, l) == i # k \/ j # l => \/ Key(SessionAt(t, i, j)) # Key(SessionAt(t, k, l))
                                               \/ Key(SessionAt(t, i, j)) = NoKey
  <1>0. \A i, j : At(t, <<i, j>>) = SessionAt(t, i, j)
    BY DEF At, SessionAt
  <1>1. ASSUME KeysApart(t), NEW i \in DOMAIN t, NEW k \in DOMAIN t,
               NEW j \in DOMAIN t[i].sessions, NEW l \in DOMAIN t[k].sessions
        PROVE  K(i, j, k, l)
    <2>1. <<i, j>> \in Places(t) /\ <<k, l>> \in Places(t)
      BY PlacesAre
    <2>2. i # k \/ j # l => <<i, j>> # <<k, l>>
      OBVIOUS
    <2> QED BY <1>0, <1>1, <2>1, <2>2 DEF KeysApart
  <1>2. ASSUME \A i, k \in DOMAIN t : \A j \in DOMAIN t[i].sessions : \A l \in DOMAIN t[k].sessions : K(i, j, k, l)
        PROVE  KeysApart(t)
    <2> SUFFICES ASSUME NEW p \in Places(t), NEW q \in Places(t), p # q
                 PROVE  Key(At(t, p)) # Key(At(t, q)) \/ Key(At(t, p)) = NoKey
      BY DEF KeysApart
    <2>1. /\ p[1] \in DOMAIN t /\ p[2] \in DOMAIN t[p[1]].sessions /\ p = <<p[1], p[2]>>
          /\ q[1] \in DOMAIN t /\ q[2] \in DOMAIN t[q[1]].sessions /\ q = <<q[1], q[2]>>
      BY PlacesAre
    <2>2. p[1] # q[1] \/ p[2] # q[2]
      BY <2>1
    <2>3. K(p[1], p[2], q[1], q[2])
      BY <1>2, <2>1
    <2>4. At(t, p) = SessionAt(t, p[1], p[2]) /\ At(t, q) = SessionAt(t, q[1], q[2])
      BY DEF At, SessionAt
    <2> QED BY <2>2, <2>3, <2>4
  <1>3. ASSUME LabelsApart(t), NEW i \in DOMAIN t, NEW j \in DOMAIN t[i].sessions, NEW l \in DOMAIN t[i].sessions, j # l
        PROVE  Label(SessionAt(t, i, j)) # Label(SessionAt(t, i, l))
    <2>1. <<i, j>> \in Places(t) /\ <<i, l>> \in Places(t) /\ <<i, j>> # <<i, l>>
      BY <1>3, PlacesAre
    <2>2. <<i, j>>[1] = <<i, l>>[1]
      OBVIOUS
    <2> QED BY <1>0, <1>3, <2>1, <2>2 DEF LabelsApart
  <1>4. ASSUME \A i \in DOMAIN t : \A j, l \in DOMAIN t[i].sessions :
                 j # l => Label(SessionAt(t, i, j)) # Label(SessionAt(t, i, l))
        PROVE  LabelsApart(t)
    <2> SUFFICES ASSUME NEW p \in Places(t), NEW q \in Places(t), p # q, p[1] = q[1]
                 PROVE  Label(At(t, p)) # Label(At(t, q))
      BY DEF LabelsApart
    <2>1. /\ p[1] \in DOMAIN t /\ p[2] \in DOMAIN t[p[1]].sessions /\ p = <<p[1], p[2]>>
          /\ q[1] \in DOMAIN t /\ q[2] \in DOMAIN t[q[1]].sessions /\ q = <<q[1], q[2]>>
      BY PlacesAre
    <2>2. p[2] # q[2]
      BY <2>1
    <2>3. At(t, p) = SessionAt(t, p[1], p[2]) /\ At(t, q) = SessionAt(t, p[1], q[2])
      BY DEF At, SessionAt
    <2> QED BY <1>4, <2>1, <2>2, <2>3
  <1> QED BY <1>1, <1>2, <1>3, <1>4

\* Folders and sessions are found by their names.
LEMMA FolderIndexIs ==
  ASSUME NEW t \in Tree, NEW name
  PROVE  \/ FolderIndex(t, name) = 0 /\ \A i \in DOMAIN t : t[i].name # name
         \/ FolderIndex(t, name) \in DOMAIN t /\ t[FolderIndex(t, name)].name = name
  <1> DEFINE I == {i \in 1..Len(t) : t[i].name = name}
  <1>1. FolderIndex(t, name) = IF I # {} THEN Min(I) ELSE 0
    BY DEF FolderIndex, SelectInSeq
  <1>2. I \in SUBSET Nat /\ DOMAIN t = 1..Len(t)
    BY TreeIs
  <1>3. I # {} => Min(I) \in I
    <2> HIDE DEF I
    <2> QED BY <1>2, MinIs
  <1> QED BY <1>1, <1>2, <1>3

LEMMA SessionIndexIs ==
  ASSUME NEW f, f.sessions \in Seq(Session), NEW label
  PROVE  \/ SessionIndex(f, label) = 0 /\ \A j \in DOMAIN f.sessions : Label(f.sessions[j]) # label
         \/ SessionIndex(f, label) \in DOMAIN f.sessions /\ Label(f.sessions[SessionIndex(f, label)]) = label
  <1> DEFINE I == {j \in 1..Len(f.sessions) : Label(f.sessions[j]) = label}
  <1>1. SessionIndex(f, label) = IF I # {} THEN Min(I) ELSE 0
    BY DEF SessionIndex, SelectInSeq
  <1>2. I \in SUBSET Nat /\ DOMAIN f.sessions = 1..Len(f.sessions)
    OBVIOUS
  <1>3. I # {} => Min(I) \in I
    <2> HIDE DEF I
    <2> QED BY <1>2, MinIs
  <1> QED BY <1>1, <1>2, <1>3

-----------------------------------------------------------------------------
(* Trees that are sound in part.                                            *)

ApartOn(t, P) ==
  /\ \A p, q \in P : p # q => Key(At(t, p)) # Key(At(t, q)) \/ Key(At(t, p)) = NoKey
  /\ \A p, q \in P : p # q /\ p[1] = q[1] => Label(At(t, p)) # Label(At(t, q))

\* Soundness in part, said of the whole.
LEMMA SoundMeans ==
  ASSUME NEW t
  PROVE  SoundTree(t) <=> ApartOn(t, Places(t)) /\ FoldersApart(t)
  BY DEF SoundTree, KeysApart, LabelsApart, ApartOn

\* Places that stand for places of a sound part, with the same keys and labels and
\* in no other company, are sound.
LEMMA CarriedOver ==
  ASSUME NEW t, NEW P, ApartOn(t, P), NEW u, NEW Q, NEW m \in [Q -> P],
         \A p, q \in Q : p # q => m[p] # m[q],
         \A p, q \in Q : p[1] = q[1] => m[p][1] = m[q][1],
         \A p \in Q : Key(At(u, p)) = Key(At(t, m[p])) /\ Label(At(u, p)) = Label(At(t, m[p]))
  PROVE  ApartOn(u, Q)
  <1>1. ASSUME NEW p \in Q, NEW q \in Q, p # q
        PROVE  Key(At(u, p)) # Key(At(u, q)) \/ Key(At(u, p)) = NoKey
    <2>1. m[p] \in P /\ m[q] \in P /\ m[p] # m[q]
      BY <1>1
    <2>2. Key(At(t, m[p])) # Key(At(t, m[q])) \/ Key(At(t, m[p])) = NoKey
      BY <2>1 DEF ApartOn
    <2> QED BY <2>2
  <1>2. ASSUME NEW p \in Q, NEW q \in Q, p # q, p[1] = q[1]
        PROVE  Label(At(u, p)) # Label(At(u, q))
    <2>1. m[p] \in P /\ m[q] \in P /\ m[p] # m[q] /\ m[p][1] = m[q][1]
      BY <1>2
    <2>2. Label(At(t, m[p])) # Label(At(t, m[q]))
      BY <2>1 DEF ApartOn
    <2> QED BY <2>2
  <1> QED BY <1>1, <1>2 DEF ApartOn

\* The same places, with the same keys and labels.
LEMMA SameApart ==
  ASSUME NEW t, NEW P, ApartOn(t, P), NEW u,
         \A p \in P : Key(At(u, p)) = Key(At(t, p)) /\ Label(At(u, p)) = Label(At(t, p))
  PROVE  ApartOn(u, P)
  BY DEF ApartOn

LEMMA FewerApart ==
  ASSUME NEW t, NEW P, ApartOn(t, P), NEW Q \in SUBSET P
  PROVE  ApartOn(t, Q)
  BY DEF ApartOn

\* One place more, whose key and label are nobody's.
LEMMA OneMore ==
  ASSUME NEW u, NEW P, NEW x \in P, ApartOn(u, P \ {x}),
         \A p \in P \ {x} : Key(At(u, p)) # Key(At(u, x)) \/ Key(At(u, x)) = NoKey,
         \A p \in P \ {x} : p[1] = x[1] => Label(At(u, p)) # Label(At(u, x))
  PROVE  ApartOn(u, P)
  <1>1. ASSUME NEW p \in P, NEW q \in P, p # q
        PROVE  Key(At(u, p)) # Key(At(u, q)) \/ Key(At(u, p)) = NoKey
    <2>1. CASE p # x /\ q # x
      BY <1>1, <2>1 DEF ApartOn
    <2>2. CASE p = x
      BY <1>1, <2>2
    <2>3. CASE q = x
      BY <1>1, <2>3
    <2> QED BY <2>1, <2>2, <2>3
  <1>2. ASSUME NEW p \in P, NEW q \in P, p # q, p[1] = q[1]
        PROVE  Label(At(u, p)) # Label(At(u, q))
    <2>1. CASE p # x /\ q # x
      BY <1>2, <2>1 DEF ApartOn
    <2>2. CASE p = x
      BY <1>2, <2>2
    <2>3. CASE q = x
      BY <1>2, <2>3
    <2> QED BY <2>1, <2>2, <2>3
  <1> QED BY <1>1, <1>2 DEF ApartOn

-----------------------------------------------------------------------------
(* What edits of a sequence make of a tree.                                 *)

\* Taking the element at p out moves those behind it up by one.
LEMMA RemoveAtIs ==
  ASSUME NEW S, NEW ss \in Seq(S), NEW j \in DOMAIN ss
  PROVE  /\ RemoveAt(ss, j) \in Seq(S) /\ Len(ss) \in Nat /\ DOMAIN ss = 1..Len(ss)
         /\ DOMAIN RemoveAt(ss, j) = 1..(Len(ss) - 1)
         /\ \A k \in 1..(Len(ss) - 1) : RemoveAt(ss, j)[k] = IF k < j THEN ss[k] ELSE ss[k + 1]
  <1>1. Len(ss) \in Nat /\ DOMAIN ss = 1..Len(ss) /\ j \in 1..Len(ss)
    OBVIOUS
  <1> DEFINE before == SubSeq(ss, 1, j - 1)
             behind == SubSeq(ss, j + 1, Len(ss))
  <1>2. before \in Seq(S) /\ Len(before) = j - 1 /\ \A k \in 1..(j - 1) : before[k] = ss[k]
    BY <1>1
  <1>3. behind \in Seq(S) /\ Len(behind) = Len(ss) - j
        /\ \A k \in 1..(Len(ss) - j) : behind[k] = ss[j + k]
    BY <1>1
  <1> DEFINE r == before \o behind
  <1> HIDE DEF before, behind
  <1>4. r \in Seq(S) /\ Len(r) = Len(ss) - 1 /\ DOMAIN r = 1..(Len(ss) - 1)
    <2>1. r \in Seq(S) /\ Len(r) = Len(before) + Len(behind)
      BY <1>2, <1>3, ConcatProperties
    <2>2. Len(r) = Len(ss) - 1
      BY <1>1, <1>2, <1>3, <2>1
    <2> HIDE DEF r
    <2> QED BY <2>1, <2>2
  <1>5. ASSUME NEW k \in 1..(Len(ss) - 1)
        PROVE  r[k] = IF k < j THEN ss[k] ELSE ss[k + 1]
    <2>1. CASE k < j
      <3>1. k \in 1..(j - 1)
        BY <1>1, <2>1
      <3>2. r[k] = before[k]
        BY <1>1, <1>2, <1>3, <3>1
      <3> QED BY <1>2, <2>1, <3>1, <3>2
    <2>2. CASE ~(k < j)
      <3>1. k - (j - 1) \in 1..(Len(ss) - j) /\ j + (k - (j - 1)) = k + 1
        BY <1>1, <2>2
      <3>2. r[k] = behind[k - (j - 1)]
        BY <1>1, <1>2, <1>3, <2>2
      <3> QED BY <1>3, <2>2, <3>1, <3>2
    <2> QED BY <2>1, <2>2
  <1>6. RemoveAt(ss, j) = r
    BY DEF RemoveAt, before, behind
  <1> QED BY <1>1, <1>4, <1>5, <1>6

\* A folder's sessions are replaced by ss.
WithSessions(t, i, ss) == [t EXCEPT ![i].sessions = ss]

\* The result is a tree, and only its folder i differs.
LEMMA WithSessionsIs ==
  ASSUME NEW t \in Tree, NEW i \in DOMAIN t, NEW ss \in Seq(Session)
  PROVE  LET u == WithSessions(t, i, ss)
         IN /\ u \in Tree /\ DOMAIN u = DOMAIN t /\ u[i].sessions = ss
            /\ \A k \in DOMAIN t : u[k].name = t[k].name
            /\ \A k \in DOMAIN t \ {i} : u[k].sessions = t[k].sessions
            /\ (FoldersApart(t) => FoldersApart(u))
  <1> DEFINE F == [name : Words, sessions : Seq(Session)]
             u == WithSessions(t, i, ss)
  <1>1. t[i] \in F /\ \A k \in DOMAIN t : t[k] \in F
    BY TreeIs
  <1>2. u = [t EXCEPT ![i] = [t[i] EXCEPT !.sessions = ss]]
    BY DEF WithSessions
  <1>3. [t[i] EXCEPT !.sessions = ss] \in F
        /\ [t[i] EXCEPT !.sessions = ss].sessions = ss
        /\ [t[i] EXCEPT !.sessions = ss].name = t[i].name
    BY <1>1
  <1> DEFINE f == [t[i] EXCEPT !.sessions = ss]
  <1>4. t \in Seq(F)
    BY DEF Tree
  <1> HIDE DEF F, f
  <1>5. u \in Seq(F) /\ DOMAIN u = DOMAIN t
    BY <1>2, <1>3, <1>4 DEF f
  <1>6. u[i] = f /\ \A k \in DOMAIN t \ {i} : u[k] = t[k]
    BY <1>2 DEF f
  <1>7. u \in Tree
    BY <1>5 DEF Tree, F
  <1>8. \A k \in DOMAIN t : u[k].name = t[k].name
    BY <1>3, <1>6 DEF f
  <1> HIDE DEF u
  <1>9. FoldersApart(t) => FoldersApart(u)
    BY <1>5, <1>8 DEF FoldersApart
  <1>10. u[i].sessions = ss /\ \A k \in DOMAIN t \ {i} : u[k].sessions = t[k].sessions
    BY <1>3, <1>6 DEF f
  <1> QED BY <1>5, <1>7, <1>8, <1>9, <1>10 DEF u

\* One session is changed.
LEMMA ChangedIs ==
  ASSUME NEW t \in Tree, NEW p \in Places(t), NEW x \in Session
  PROVE  LET u == WithSessions(t, p[1], [t[p[1]].sessions EXCEPT ![p[2]] = x])
         IN /\ u \in Tree /\ DOMAIN u = DOMAIN t /\ (FoldersApart(t) => FoldersApart(u))
            /\ \A k \in DOMAIN t : u[k].name = t[k].name
            /\ Places(u) = Places(t) /\ At(u, p) = x
            /\ \A q \in Places(t) \ {p} : At(u, q) = At(t, q)
  <1> DEFINE i == p[1]
             j == p[2]
             old == t[i].sessions
             ss == [old EXCEPT ![j] = x]
             u == WithSessions(t, i, ss)
  <1>1. i \in DOMAIN t /\ j \in DOMAIN old /\ p = <<i, j>>
    BY PlacesAre
  <1>2. old \in Seq(Session)
    BY <1>1, TreeIs
  <1>3. ss \in Seq(Session) /\ DOMAIN ss = DOMAIN old /\ ss[j] = x /\ \A k \in DOMAIN old \ {j} : ss[k] = old[k]
    BY <1>1, <1>2
  <1> HIDE DEF ss
  <1>4. /\ u \in Tree /\ DOMAIN u = DOMAIN t /\ u[i].sessions = ss
        /\ \A k \in DOMAIN t : u[k].name = t[k].name
        /\ \A k \in DOMAIN t \ {i} : u[k].sessions = t[k].sessions
        /\ (FoldersApart(t) => FoldersApart(u))
    BY <1>1, <1>3, WithSessionsIs
  <1> HIDE DEF u
  <1>5. \A k \in DOMAIN t : DOMAIN u[k].sessions = DOMAIN t[k].sessions
    BY <1>3, <1>4
  <1>6. Places(u) = Places(t)
    BY <1>4, <1>5 DEF Places
  <1>7. At(u, p) = x
    BY <1>3, <1>4 DEF At
  <1>8. ASSUME NEW q \in Places(t) \ {p}
        PROVE  At(u, q) = At(t, q)
    <2>1. q[1] \in DOMAIN t /\ q[2] \in DOMAIN t[q[1]].sessions /\ q = <<q[1], q[2]>>
      BY PlacesAre
    <2>2. CASE q[1] # i
      BY <1>4, <2>1, <2>2 DEF At
    <2>3. CASE q[1] = i
      <3>1. q[2] # j
        BY <1>1, <2>1, <2>3
      <3> QED BY <1>3, <1>4, <2>1, <2>3, <3>1 DEF At
    <2> QED BY <2>2, <2>3
  <1> QED BY <1>4, <1>6, <1>7, <1>8 DEF u, ss

\* It stays sound when the session keeps its key and label, or takes ones nobody has.
LEMMA ChangedIsSound ==
  ASSUME NEW t \in Tree, SoundTree(t), NEW p \in Places(t), NEW x \in Session,
         Key(x) = Key(At(t, p)) \/ PlacesOf(t, Key(x)) = {},
         \A q \in Places(t) \ {p} : q[1] = p[1] => Label(At(t, q)) # Label(x)
  PROVE  LET u == WithSessions(t, p[1], [t[p[1]].sessions EXCEPT ![p[2]] = x])
         IN u \in Tree /\ SoundTree(u)
  <1> DEFINE u == WithSessions(t, p[1], [t[p[1]].sessions EXCEPT ![p[2]] = x])
  <1>1. /\ u \in Tree /\ DOMAIN u = DOMAIN t /\ (FoldersApart(t) => FoldersApart(u))
        /\ Places(u) = Places(t) /\ At(u, p) = x
        /\ \A q \in Places(t) \ {p} : At(u, q) = At(t, q)
    BY ChangedIs
  <1> HIDE DEF u
  <1>2. ApartOn(t, Places(t)) /\ FoldersApart(t)
    BY SoundMeans
  <1>3. ApartOn(u, Places(t) \ {p})
    <2>1. ApartOn(t, Places(t) \ {p})
      BY <1>2, FewerApart
    <2> QED BY <1>1, <2>1, SameApart
  <1>4. ASSUME NEW q \in Places(t) \ {p}
        PROVE  Key(At(u, q)) # Key(At(u, p)) \/ Key(At(u, p)) = NoKey
    <2>1. At(u, q) = At(t, q) /\ At(u, p) = x
      BY <1>1
    <2>2. CASE Key(x) = Key(At(t, p))
      <3>1. Key(At(t, p)) # Key(At(t, q)) \/ Key(At(t, p)) = NoKey
        BY <1>2 DEF ApartOn
      <3> QED BY <2>1, <2>2, <3>1
    <2>3. CASE PlacesOf(t, Key(x)) = {}
      BY <2>1, <2>3 DEF PlacesOf
    <2> QED BY <2>2, <2>3
  <1>5. \A q \in Places(t) \ {p} : q[1] = p[1] => Label(At(u, q)) # Label(At(u, p))
    BY <1>1
  <1>6. ApartOn(u, Places(u))
    BY <1>1, <1>3, <1>4, <1>5, OneMore
  <1>7. SoundTree(u)
    BY <1>1, <1>2, <1>6, SoundMeans
  <1> QED BY <1>1, <1>7 DEF u

\* One session is added at the end of a folder.
LEMMA AppendedIs ==
  ASSUME NEW t \in Tree, NEW i \in DOMAIN t, NEW x \in Session
  PROVE  LET u == WithSessions(t, i, Append(t[i].sessions, x))
             p == <<i, Len(t[i].sessions) + 1>>
         IN /\ u \in Tree /\ DOMAIN u = DOMAIN t /\ (FoldersApart(t) => FoldersApart(u))
            /\ \A k \in DOMAIN t : u[k].name = t[k].name
            /\ \A k \in DOMAIN t \ {i} : u[k].sessions = t[k].sessions
            /\ Places(u) = Places(t) \cup {p} /\ p \notin Places(t) /\ At(u, p) = x
            /\ \A q \in Places(t) : At(u, q) = At(t, q)
  <1> DEFINE old == t[i].sessions
             n == Len(old) + 1
             ss == Append(old, x)
             u == WithSessions(t, i, ss)
             p == <<i, n>>
  <1>1. old \in Seq(Session) /\ DOMAIN old = 1..Len(old) /\ Len(old) \in Nat
    BY TreeIs
  <1>2. /\ ss \in Seq(Session) /\ DOMAIN ss = DOMAIN old \cup {n} /\ n \notin DOMAIN old
        /\ ss[n] = x /\ \A k \in DOMAIN old : ss[k] = old[k]
    BY <1>1
  <1> HIDE DEF ss
  <1>3. /\ u \in Tree /\ DOMAIN u = DOMAIN t /\ u[i].sessions = ss
        /\ \A k \in DOMAIN t : u[k].name = t[k].name
        /\ \A k \in DOMAIN t \ {i} : u[k].sessions = t[k].sessions
        /\ (FoldersApart(t) => FoldersApart(u))
    BY <1>2, WithSessionsIs
  <1> HIDE DEF u, n
  <1>4. ASSUME NEW q \in Places(u)
        PROVE  q \in Places(t) \cup {p}
    <2>1. q[1] \in DOMAIN t /\ q[2] \in DOMAIN u[q[1]].sessions /\ q = <<q[1], q[2]>>
      BY <1>3, PlacesAre
    <2>2. CASE q[1] # i \/ q[2] # n
      <3>1. q[2] \in DOMAIN t[q[1]].sessions
        BY <1>2, <1>3, <2>1, <2>2
      <3> QED BY <2>1, <3>1, PlacesAre
    <2>3. CASE q[1] = i /\ q[2] = n
      BY <2>1, <2>3
    <2> QED BY <2>2, <2>3
  <1>5. ASSUME NEW q \in Places(t)
        PROVE  q \in Places(u) /\ At(u, q) = At(t, q) /\ q # p
    <2>1. q[1] \in DOMAIN t /\ q[2] \in DOMAIN t[q[1]].sessions /\ q = <<q[1], q[2]>>
      BY PlacesAre
    <2>2. q[2] \in DOMAIN u[q[1]].sessions /\ u[q[1]].sessions[q[2]] = t[q[1]].sessions[q[2]]
      BY <1>2, <1>3, <2>1
    <2>3. q \in Places(u)
      BY <1>3, <2>1, <2>2, PlacesAre
    <2>4. q # p
      BY <1>2, <2>1
    <2> QED BY <2>2, <2>3, <2>4 DEF At
  <1>6. p \in Places(u) /\ At(u, p) = x
    BY <1>2, <1>3, PlacesAre DEF At
  <1>7. Places(u) = Places(t) \cup {p} /\ p \notin Places(t)
    BY <1>4, <1>5, <1>6
  <1> QED BY <1>3, <1>5, <1>6, <1>7 DEF u, ss, n

\* One is taken out: each of those behind it moves up.
LEMMA TakenOutIs ==
  ASSUME NEW t \in Tree, NEW p \in Places(t)
  PROVE  LET u == WithSessions(t, p[1], RemoveAt(t[p[1]].sessions, p[2]))
         IN /\ u \in Tree /\ DOMAIN u = DOMAIN t /\ (FoldersApart(t) => FoldersApart(u))
            /\ \A k \in DOMAIN t : u[k].name = t[k].name
            /\ \E m \in [Places(u) -> Places(t) \ {p}] :
                 /\ \A q, r \in Places(u) : q # r => m[q] # m[r]
                 /\ \A q \in Places(u) : m[q][1] = q[1] /\ At(u, q) = At(t, m[q])
  <1> DEFINE i == p[1]
             j == p[2]
             old == t[i].sessions
             ss == RemoveAt(old, j)
             u == WithSessions(t, i, ss)
  <1>1. i \in DOMAIN t /\ j \in DOMAIN old /\ p = <<i, j>>
    BY PlacesAre
  <1>2. old \in Seq(Session)
    BY <1>1, TreeIs
  <1>3. /\ ss \in Seq(Session) /\ Len(old) \in Nat /\ DOMAIN old = 1..Len(old)
        /\ DOMAIN ss = 1..(Len(old) - 1)
        /\ \A k \in 1..(Len(old) - 1) : ss[k] = IF k < j THEN old[k] ELSE old[k + 1]
    BY <1>1, <1>2, RemoveAtIs
  <1> HIDE DEF ss
  <1>4. /\ u \in Tree /\ DOMAIN u = DOMAIN t /\ u[i].sessions = ss
        /\ \A k \in DOMAIN t : u[k].name = t[k].name
        /\ \A k \in DOMAIN t \ {i} : u[k].sessions = t[k].sessions
        /\ (FoldersApart(t) => FoldersApart(u))
    BY <1>1, <1>3, WithSessionsIs
  <1> HIDE DEF u, old
  <1> DEFINE up(q) == IF q[1] = i /\ ~(q[2] < j) THEN <<q[1], q[2] + 1>> ELSE q
             m == [q \in Places(u) |-> up(q)]
  <1>5. ASSUME NEW q \in Places(u)
        PROVE  /\ up(q) \in Places(t) \ {p} /\ up(q)[1] = q[1] /\ At(u, q) = At(t, up(q))
               /\ up(q)[2] = IF q[1] = i /\ ~(q[2] < j) THEN q[2] + 1 ELSE q[2]
               /\ q = <<q[1], q[2]>>
    <2>1. q[1] \in DOMAIN t /\ q[2] \in DOMAIN u[q[1]].sessions /\ q = <<q[1], q[2]>>
      BY <1>4, PlacesAre
    <2>2. CASE q[1] # i
      <3>1. q[2] \in DOMAIN t[q[1]].sessions /\ u[q[1]].sessions = t[q[1]].sessions
        BY <1>4, <2>1, <2>2
      <3>2. q \in Places(t) /\ q # p
        BY <1>1, <2>1, <2>2, <3>1, PlacesAre
      <3> QED BY <2>1, <2>2, <3>1, <3>2 DEF At
    <2>3. CASE q[1] = i
      <3>1. q[2] \in 1..(Len(old) - 1) /\ u[i].sessions = ss /\ old = t[i].sessions
        BY <1>3, <1>4, <2>1, <2>3 DEF old
      <3>2. j \in 1..Len(old) /\ Len(old) \in Nat
        BY <1>1, <1>3 DEF old
      <3>3. CASE q[2] < j
        <4>1. q[2] \in DOMAIN t[i].sessions /\ ss[q[2]] = t[i].sessions[q[2]]
          <5>1. q[2] \in DOMAIN old /\ ss[q[2]] = old[q[2]]
            <6>1. ss[q[2]] = old[q[2]]
              BY <1>3, <3>1, <3>3
            <6>2. q[2] \in 1..Len(old)
              BY <3>1, <3>2
            <6> QED BY <1>3, <6>1, <6>2
          <5> QED BY <5>1 DEF old
        <4>2. q \in Places(t)
          BY <1>1, <2>1, <2>3, <4>1, PlacesAre
        <4>3. q # p
          BY <1>1, <3>2, <3>3
        <4> QED BY <2>1, <2>3, <3>1, <3>3, <4>1, <4>2, <4>3 DEF At
      <3>4. CASE ~(q[2] < j)
        <4>1. q[2] + 1 \in DOMAIN t[i].sessions /\ ss[q[2]] = t[i].sessions[q[2] + 1] /\ q[2] + 1 # j
          <5>1. q[2] + 1 \in DOMAIN old /\ ss[q[2]] = old[q[2] + 1] /\ q[2] + 1 # j
            <6>1. ss[q[2]] = old[q[2] + 1]
              BY <1>3, <3>1, <3>4
            <6>2. q[2] + 1 \in 1..Len(old) /\ q[2] + 1 # j
              BY <3>1, <3>2, <3>4
            <6> QED BY <1>3, <6>1, <6>2
          <5> QED BY <5>1 DEF old
        <4>2. <<i, q[2] + 1>> \in Places(t) /\ <<i, q[2] + 1>> # p
          BY <1>1, <4>1, PlacesAre
        <4>3. up(q) = <<i, q[2] + 1>>
          BY <2>3, <3>4
        <4> HIDE DEF up
        <4> QED BY <2>1, <2>3, <3>1, <3>4, <4>1, <4>2, <4>3 DEF At
      <3> QED BY <3>3, <3>4
    <2> QED BY <2>2, <2>3
  <1>6. ASSUME NEW q \in Places(u), NEW r \in Places(u), q # r
        PROVE  up(q) # up(r)
    <2>1. /\ up(q)[1] = q[1] /\ up(r)[1] = r[1]
          /\ up(q)[2] = IF q[1] = i /\ ~(q[2] < j) THEN q[2] + 1 ELSE q[2]
          /\ up(r)[2] = IF r[1] = i /\ ~(r[2] < j) THEN r[2] + 1 ELSE r[2]
          /\ q = <<q[1], q[2]>> /\ r = <<r[1], r[2]>>
      BY <1>5
    <2>2. q[2] \in Int /\ r[2] \in Int /\ j \in Int
      <3>1. \A k \in DOMAIN u : DOMAIN u[k].sessions \subseteq Int
        BY <1>4, TreeIs
      <3>2. j \in Int
        BY <1>1, <1>3 DEF old
      <3> QED BY <1>4, <3>1, <3>2, PlacesAre
    <2> HIDE DEF up, i, j
    <2>3. CASE q[1] # r[1]
      BY <2>1, <2>3
    <2>4. CASE q[1] = r[1]
      <3>1. q[2] # r[2]
        BY <1>6, <2>1, <2>4
      <3>2. up(q)[2] # up(r)[2]
        BY <2>1, <2>2, <2>4, <3>1
      <3> QED BY <3>2
    <2> QED BY <2>3, <2>4
  <1> HIDE DEF up
  <1>7. /\ m \in [Places(u) -> Places(t) \ {p}]
        /\ \A q, r \in Places(u) : q # r => m[q] # m[r]
        /\ \A q \in Places(u) : m[q][1] = q[1] /\ At(u, q) = At(t, m[q])
    BY <1>5, <1>6
  <1> HIDE DEF m
  <1> QED BY <1>4, <1>7 DEF u, ss, old

\* What is left of a tree that is sound but for one session is sound.
LEMMA TakenOutIsSound ==
  ASSUME NEW t \in Tree, FoldersApart(t), NEW p \in Places(t), ApartOn(t, Places(t) \ {p})
  PROVE  LET u == WithSessions(t, p[1], RemoveAt(t[p[1]].sessions, p[2]))
         IN u \in Tree /\ SoundTree(u)
  <1> DEFINE u == WithSessions(t, p[1], RemoveAt(t[p[1]].sessions, p[2]))
  <1>1. /\ u \in Tree /\ FoldersApart(u)
        /\ \E m \in [Places(u) -> Places(t) \ {p}] :
             /\ \A q, r \in Places(u) : q # r => m[q] # m[r]
             /\ \A q \in Places(u) : m[q][1] = q[1] /\ At(u, q) = At(t, m[q])
    BY TakenOutIs
  <1> HIDE DEF u
  <1>2. PICK m \in [Places(u) -> Places(t) \ {p}] :
             /\ \A q, r \in Places(u) : q # r => m[q] # m[r]
             /\ \A q \in Places(u) : m[q][1] = q[1] /\ At(u, q) = At(t, m[q])
    BY <1>1
  <1>3. \A q, r \in Places(u) : q[1] = r[1] => m[q][1] = m[r][1]
    BY <1>2
  <1>4. \A q \in Places(u) : Key(At(u, q)) = Key(At(t, m[q])) /\ Label(At(u, q)) = Label(At(t, m[q]))
    BY <1>2
  <1>5. ApartOn(u, Places(u))
    BY <1>2, <1>3, <1>4, CarriedOver
  <1>6. SoundTree(u)
    BY <1>1, <1>5, SoundMeans
  <1> QED BY <1>1, <1>6 DEF u
-----------------------------------------------------------------------------
(* The edits of a tree.                                                     *)

SoundTrees == {t \in Tree : SoundTree(t)}

\* A folder that is found is the one of that name.
LEMMA FolderFound ==
  ASSUME NEW t \in Tree, FoldersApart(t), NEW i \in DOMAIN t
  PROVE  FolderIndex(t, t[i].name) = i
  BY FolderIndexIs DEF FoldersApart

\* A label is held when a session of the folder has it.
LEMMA HeldAt ==
  ASSUME NEW t \in Tree, NEW folder, NEW label, Holds(t, folder, label)
  PROVE  LET i == FolderIndex(t, folder)
             j == SessionIndex(t[i], label)
         IN /\ i \in DOMAIN t /\ t[i].name = folder /\ j \in DOMAIN t[i].sessions
            /\ <<i, j>> \in Places(t) /\ Label(At(t, <<i, j>>)) = label
  <1> DEFINE i == FolderIndex(t, folder)
             j == SessionIndex(t[i], label)
  <1>1. i # 0 /\ j # 0
    BY DEF Holds
  <1>2. i \in DOMAIN t /\ t[i].name = folder
    BY <1>1, FolderIndexIs
  <1> HIDE DEF i
  <1>3. t[i].sessions \in Seq(Session)
    BY <1>2, TreeIs
  <1>4. j \in DOMAIN t[i].sessions /\ Label(t[i].sessions[j]) = label
    BY <1>1, <1>3, SessionIndexIs
  <1> HIDE DEF j
  <1>5. <<i, j>> \in Places(t) /\ Label(At(t, <<i, j>>)) = label
    BY <1>2, <1>4, PlacesAre DEF At
  <1> QED BY <1>2, <1>4, <1>5 DEF i, j

\* And otherwise no session of the folder has it.
LEMMA NotHeld ==
  ASSUME NEW t \in Tree, FoldersApart(t), NEW i \in DOMAIN t, NEW label, ~Holds(t, t[i].name, label)
  PROVE  \A p \in Places(t) : p[1] = i => Label(At(t, p)) # label
  <1>1. FolderIndex(t, t[i].name) = i
    BY FolderFound
  <1>2. i # 0 /\ t[i].sessions \in Seq(Session)
    BY TreeIs
  <1>3. SessionIndex(t[i], label) = 0
    BY <1>1, <1>2 DEF Holds
  <1>4. \A j \in DOMAIN t[i].sessions : Label(t[i].sessions[j]) # label
    BY <1>2, <1>3, SessionIndexIs
  <1> QED BY <1>4, PlacesAre DEF At

\* A session's label finds it, in a tree that is sound.
LEMMA SessionFound ==
  ASSUME NEW t \in SoundTrees, NEW p \in Places(t)
  PROVE  /\ FolderIndex(t, t[p[1]].name) = p[1]
         /\ SessionIndex(t[p[1]], Label(At(t, p))) = p[2]
  <1>1. t \in Tree /\ FoldersApart(t) /\ ApartOn(t, Places(t))
    BY SoundMeans DEF SoundTrees
  <1> DEFINE i == p[1]
             j == SessionIndex(t[i], Label(At(t, p)))
  <1>2. i \in DOMAIN t /\ p[2] \in DOMAIN t[i].sessions /\ p = <<i, p[2]>> /\ t[i].sessions \in Seq(Session)
    BY <1>1, PlacesAre, TreeIs
  <1>3. At(t, p) = t[i].sessions[p[2]]
    BY DEF At
  <1>4. j \in DOMAIN t[i].sessions /\ Label(t[i].sessions[j]) = Label(At(t, p))
    BY <1>2, <1>3, SessionIndexIs
  <1> HIDE DEF j
  <1>5. <<i, j>> \in Places(t) /\ Label(At(t, <<i, j>>)) = Label(At(t, p))
    BY <1>1, <1>2, <1>4, PlacesAre DEF At
  <1>6. <<i, j>> = p
    BY <1>1, <1>2, <1>5 DEF ApartOn
  <1>7. j = p[2]
    BY <1>6
  <1>8. FolderIndex(t, t[p[1]].name) = p[1]
    BY <1>1, <1>2, FolderFound
  <1> QED BY <1>7, <1>8 DEF j

\* A new folder is empty and last: no place is added.
LEMMA AddFolderIs ==
  ASSUME NEW t \in Tree, FoldersApart(t), NEW name \in Words, CanAddFolder(t, name)
  PROVE  LET u == AddFolder(t, name)
         IN /\ u \in Tree /\ FoldersApart(u) /\ DOMAIN t \subseteq DOMAIN u
            /\ \A k \in DOMAIN t : u[k] = t[k]
            /\ Places(u) = Places(t) /\ \A q \in Places(t) : At(u, q) = At(t, q)
            /\ \E i \in DOMAIN u \ DOMAIN t : u[i].name = name
  <1> DEFINE F == [name : Words, sessions : Seq(Session)]
             f == [name |-> name, sessions |-> <<>>]
             n == Len(t) + 1
             u == AddFolder(t, name)
  <1>1. Len(t) \in Nat /\ DOMAIN t = 1..Len(t) /\ t \in Seq(F)
    BY TreeIs DEF Tree
  <1>2. <<>> \in Seq(Session)
    OBVIOUS
  <1>3. f \in F /\ f.name = name /\ f.sessions = <<>>
    BY <1>2
  <1>4. u = Append(t, f)
    BY DEF AddFolder
  <1> HIDE DEF F, f, u
  <1>5. /\ u \in Seq(F) /\ DOMAIN u = DOMAIN t \cup {n} /\ n \notin DOMAIN t
        /\ u[n] = f /\ \A k \in DOMAIN t : u[k] = t[k]
    BY <1>1, <1>3, <1>4
  <1> HIDE DEF n
  <1>6. u \in Tree
    BY <1>5 DEF Tree, F
  <1>7. \A i \in DOMAIN t : t[i].name # name
    <2>1. FolderIndex(t, name) = 0
      BY DEF CanAddFolder
    <2>2. 0 \notin DOMAIN t
      BY <1>1
    <2> QED BY <2>1, <2>2, FolderIndexIs
  <1>8. FoldersApart(u)
    BY <1>3, <1>5, <1>7 DEF FoldersApart
  <1>9. DOMAIN u[n].sessions = {}
    BY <1>3, <1>5
  <1>10. Places(u) = Places(t)
    BY <1>5, <1>9 DEF Places
  <1>11. \A q \in Places(t) : At(u, q) = At(t, q)
    BY <1>5, PlacesAre DEF At
  <1> QED BY <1>3, <1>5, <1>6, <1>8, <1>10, <1>11 DEF u

LEMMA AddFolderIsSound ==
  ASSUME NEW t \in SoundTrees, NEW name \in Words, CanAddFolder(t, name)
  PROVE  AddFolder(t, name) \in SoundTrees
  <1>1. t \in Tree /\ FoldersApart(t) /\ ApartOn(t, Places(t))
    BY SoundMeans DEF SoundTrees
  <1> DEFINE u == AddFolder(t, name)
  <1>2. u \in Tree /\ FoldersApart(u) /\ Places(u) = Places(t) /\ \A q \in Places(t) : At(u, q) = At(t, q)
    BY <1>1, AddFolderIs
  <1> HIDE DEF u
  <1>3. ApartOn(u, Places(u))
    BY <1>1, <1>2, SameApart
  <1>4. u \in SoundTrees
    BY <1>2, <1>3, SoundMeans DEF SoundTrees
  <1> QED BY <1>4 DEF u

\* Renaming a folder to a name that is free leaves every session where it is.
LEMMA RenameFolderIsSound ==
  ASSUME NEW t \in SoundTrees, NEW old, NEW new \in Words, CanRenameFolder(t, old, new)
  PROVE  RenameFolder(t, old, new) \in SoundTrees
  <1>1. t \in Tree /\ FoldersApart(t) /\ ApartOn(t, Places(t))
    BY SoundMeans DEF SoundTrees
  <1> DEFINE F == [name : Words, sessions : Seq(Session)]
             i == FolderIndex(t, old)
             f == [t[i] EXCEPT !.name = new]
             u == RenameFolder(t, old, new)
  <1>2. i \in DOMAIN t
    BY <1>1, FolderIndexIs DEF CanRenameFolder
  <1>3. \A k \in DOMAIN t : k # i => t[k].name # new
    <2>1. FolderIndex(t, new) = 0 \/ FolderIndex(t, new) = i
      BY DEF CanRenameFolder
    <2>2. 0 \notin DOMAIN t
      BY <1>1, TreeIs
    <2>3. CASE FolderIndex(t, new) = 0
      BY <1>1, <2>2, <2>3, FolderIndexIs
    <2>4. CASE FolderIndex(t, new) = i
      BY <1>1, <1>2, <2>2, <2>4, FolderIndexIs DEF FoldersApart
    <2> QED BY <2>1, <2>3, <2>4
  <1>4. u = [t EXCEPT ![i] = f]
    BY DEF RenameFolder
  <1> HIDE DEF i
  <1>5. t[i] \in F /\ t \in Seq(F)
    BY <1>1, <1>2, TreeIs DEF Tree
  <1>6. f \in F /\ f.name = new /\ f.sessions = t[i].sessions
    BY <1>5
  <1> HIDE DEF F, f, u
  <1>7. u \in Seq(F) /\ DOMAIN u = DOMAIN t /\ u[i] = f /\ \A k \in DOMAIN t \ {i} : u[k] = t[k]
    BY <1>2, <1>4, <1>5, <1>6
  <1>8. u \in Tree
    BY <1>7 DEF Tree, F
  <1>9. FoldersApart(u)
    BY <1>1, <1>2, <1>3, <1>6, <1>7 DEF FoldersApart
  <1>10. \A k \in DOMAIN t : u[k].sessions = t[k].sessions
    BY <1>6, <1>7
  <1>11. Places(u) = Places(t)
    BY <1>7, <1>10 DEF Places
  <1>12. \A q \in Places(t) : At(u, q) = At(t, q)
    BY <1>1, <1>10, PlacesAre DEF At
  <1>13. ApartOn(u, Places(u))
    BY <1>1, <1>11, <1>12, SameApart
  <1>14. u \in SoundTrees
    BY <1>8, <1>9, <1>13, SoundMeans DEF SoundTrees
  <1> QED BY <1>14 DEF u

\* Without one folder, the places of those behind it move up.
LEMMA RemoveFolderIsSound ==
  ASSUME NEW t \in SoundTrees, NEW name, FolderIndex(t, name) # 0
  PROVE  RemoveFolder(t, name) \in SoundTrees
  <1>1. t \in Tree /\ FoldersApart(t) /\ ApartOn(t, Places(t))
    BY SoundMeans DEF SoundTrees
  <1> DEFINE F == [name : Words, sessions : Seq(Session)]
             j == FolderIndex(t, name)
             u == RemoveFolder(t, name)
             n == Len(t)
             of(k) == IF k < j THEN k ELSE k + 1
  <1>2. j \in DOMAIN t
    BY <1>1, FolderIndexIs
  <1>3. u = RemoveAt(t, j)
    BY DEF RemoveFolder
  <1> HIDE DEF j, u
  <1>4. t \in Seq(F)
    BY <1>1 DEF Tree
  <1> HIDE DEF F
  <1>5. /\ u \in Seq(F) /\ n \in Nat /\ DOMAIN t = 1..n /\ DOMAIN u = 1..(n - 1)
        /\ \A k \in 1..(n - 1) : u[k] = IF k < j THEN t[k] ELSE t[k + 1]
    BY <1>2, <1>3, <1>4, RemoveAtIs
  <1> HIDE DEF n
  <1>6. u \in Tree
    BY <1>5 DEF Tree, F
  <1>7. ASSUME NEW k \in DOMAIN u
        PROVE  of(k) \in DOMAIN t /\ u[k] = t[of(k)] /\ k \in Int
    <2>1. k \in 1..(n - 1) /\ j \in 1..n /\ n \in Nat
      BY <1>2, <1>5
    <2>2. u[k] = t[of(k)]
      BY <1>5, <2>1
    <2>3. of(k) \in 1..n
      BY <2>1
    <2> QED BY <1>5, <2>1, <2>2, <2>3
  <1>8. \A k, l \in DOMAIN u : k # l => of(k) # of(l)
    <2>1. j \in Int
      BY <1>2, <1>5
    <2> QED BY <1>7, <2>1
  <1> HIDE DEF of
  <1>9. FoldersApart(u)
    BY <1>1, <1>7, <1>8 DEF FoldersApart
  <1> DEFINE m == [q \in Places(u) |-> <<of(q[1]), q[2]>>]
  <1>10. ASSUME NEW q \in Places(u)
         PROVE  /\ m[q] \in Places(t) /\ m[q][1] = of(q[1]) /\ m[q][2] = q[2]
                /\ At(u, q) = At(t, m[q]) /\ q = <<q[1], q[2]>> /\ q[1] \in DOMAIN u
    <2>1. q[1] \in DOMAIN u /\ q[2] \in DOMAIN u[q[1]].sessions /\ q = <<q[1], q[2]>>
      BY <1>6, PlacesAre
    <2>2. of(q[1]) \in DOMAIN t /\ u[q[1]] = t[of(q[1])]
      BY <1>7, <2>1
    <2>3. m[q] = <<of(q[1]), q[2]>>
      OBVIOUS
    <2>4. m[q] \in Places(t)
      BY <1>1, <2>1, <2>2, <2>3, PlacesAre
    <2>5. m[q][1] = of(q[1]) /\ m[q][2] = q[2]
      BY <2>3
    <2> HIDE DEF m
    <2> QED BY <2>1, <2>2, <2>4, <2>5 DEF At
  <1>11. m \in [Places(u) -> Places(t)]
    BY <1>10
  <1> HIDE DEF m
  <1>12. \A q, r \in Places(u) : q # r => m[q] # m[r]
    <2> SUFFICES ASSUME NEW q \in Places(u), NEW r \in Places(u), q # r, m[q] = m[r] PROVE FALSE
      OBVIOUS
    <2>1. q[2] = r[2] /\ of(q[1]) = of(r[1])
      BY <1>10
    <2>2. q[1] = r[1]
      BY <1>8, <1>10, <2>1
    <2> QED BY <1>10, <2>1, <2>2
  <1>13. \A q, r \in Places(u) : q[1] = r[1] => m[q][1] = m[r][1]
    BY <1>10
  <1>14. \A q \in Places(u) : Key(At(u, q)) = Key(At(t, m[q])) /\ Label(At(u, q)) = Label(At(t, m[q]))
    BY <1>10
  <1>15. ApartOn(u, Places(u))
    BY <1>1, <1>11, <1>12, <1>13, <1>14, CarriedOver
  <1>16. u \in SoundTrees
    BY <1>6, <1>9, <1>15, SoundMeans DEF SoundTrees
  <1> QED BY <1>16 DEF u

\* Add: one session more, at the end of its folder, under a label that is new there.
LEMMA AddIs ==
  ASSUME NEW t \in SoundTrees, NEW folder \in Words, NEW s \in Session, CanAdd(t, folder, s)
  PROVE  LET u == Add(t, folder, s)
         IN /\ u \in Tree /\ FoldersApart(u) /\ DOMAIN t \subseteq DOMAIN u
            /\ \A k \in DOMAIN t : u[k].name = t[k].name
            /\ \E x : /\ Places(u) = Places(t) \cup {x} /\ x \notin Places(t)
                      /\ At(u, x) = Normalize(s) /\ u[x[1]].name = folder
                      /\ \A q \in Places(t) : q[1] = x[1] => Label(At(t, q)) # Label(s)
                      /\ \A k \in DOMAIN t \ {x[1]} : u[k].sessions = t[k].sessions
            /\ \A q \in Places(t) : At(u, q) = At(t, q)
  <1>1. t \in Tree /\ FoldersApart(t)
    BY DEF SoundTrees, SoundTree
  <1> DEFINE v == IF FolderIndex(t, folder) = 0 THEN AddFolder(t, folder) ELSE t
             i == FolderIndex(v, folder)
             n == Normalize(s)
             u == Add(t, folder, s)
  <1>2. /\ v \in Tree /\ FoldersApart(v) /\ DOMAIN t \subseteq DOMAIN v
        /\ \A k \in DOMAIN t : v[k] = t[k]
        /\ Places(v) = Places(t) /\ \A q \in Places(t) : At(v, q) = At(t, q)
        /\ \E k \in DOMAIN v : v[k].name = folder
    <2>1. CASE FolderIndex(t, folder) = 0
      <3>1. CanAddFolder(t, folder)
        BY <2>1 DEF CanAdd
      <3> QED BY <1>1, <2>1, <3>1, AddFolderIs
    <2>2. CASE FolderIndex(t, folder) # 0
      BY <1>1, <2>2, FolderIndexIs
    <2> QED BY <2>1, <2>2
  <1>3. u = WithSessions(v, i, Append(v[i].sessions, n))
    BY DEF Add, WithSessions
  <1>4. n \in Session /\ Label(n) = Label(s)
    BY SessionIs
  <1>5. ASSUME NEW q \in Places(t), q[1] \in DOMAIN t, t[q[1]].name = folder
        PROVE  Label(At(t, q)) # Label(s)
    <2>1. ~Holds(t, t[q[1]].name, Label(s))
      BY <1>5 DEF CanAdd
    <2> QED BY <1>1, <1>5, <2>1, NotHeld
  <1> HIDE DEF v, n, u
  <1>6. i \in DOMAIN v /\ v[i].name = folder
    <2>1. 0 \notin DOMAIN v
      BY <1>2, TreeIs
    <2> QED BY <1>2, <2>1, FolderIndexIs
  <1> HIDE DEF i
  <1> DEFINE x == <<i, Len(v[i].sessions) + 1>>
  <1>7. /\ u \in Tree /\ DOMAIN u = DOMAIN v /\ FoldersApart(u)
        /\ \A k \in DOMAIN v : u[k].name = v[k].name
        /\ \A k \in DOMAIN v \ {i} : u[k].sessions = v[k].sessions
        /\ Places(u) = Places(v) \cup {x} /\ x \notin Places(v) /\ At(u, x) = n
        /\ \A q \in Places(v) : At(u, q) = At(v, q)
    BY <1>2, <1>3, <1>4, <1>6, AppendedIs
  <1>8. x[1] = i
    OBVIOUS
  <1> HIDE DEF x
  <1>9. \A q \in Places(t) : q[1] = x[1] => Label(At(t, q)) # Label(s)
    <2> SUFFICES ASSUME NEW q \in Places(t), q[1] = i PROVE Label(At(t, q)) # Label(s)
      BY <1>8
    <2>1. q[1] \in DOMAIN t
      BY <1>1, PlacesAre
    <2>2. t[q[1]].name = folder
      BY <1>2, <1>6, <2>1
    <2> QED BY <1>5, <2>1, <2>2
  <1>10. /\ Places(u) = Places(t) \cup {x} /\ x \notin Places(t)
         /\ At(u, x) = n /\ u[x[1]].name = folder
         /\ \A k \in DOMAIN t \ {x[1]} : u[k].sessions = t[k].sessions
    BY <1>2, <1>6, <1>7, <1>8
  <1>11. /\ u \in Tree /\ FoldersApart(u) /\ DOMAIN t \subseteq DOMAIN u
         /\ \A k \in DOMAIN t : u[k].name = t[k].name
         /\ \A q \in Places(t) : At(u, q) = At(t, q)
    BY <1>2, <1>7
  <1> QED BY <1>9, <1>10, <1>11 DEF u, n

\* Without a place q, whose key the new session may have.
LEMMA AddIsApart ==
  ASSUME NEW t \in SoundTrees, NEW s \in Session, NEW u, NEW x,
         Places(u) = Places(t) \cup {x}, x \notin Places(t), At(u, x) = Normalize(s),
         \A q \in Places(t) : q[1] = x[1] => Label(At(t, q)) # Label(s),
         \A q \in Places(t) : At(u, q) = At(t, q),
         NEW Q \in SUBSET Places(t),
         Key(s) = NoKey \/ \A q \in Q : Key(At(t, q)) # Key(s)
  PROVE  ApartOn(u, Q \cup {x})
  <1>1. ApartOn(t, Q)
    <2>1. ApartOn(t, Places(t))
      BY SoundMeans DEF SoundTrees
    <2> QED BY <2>1, FewerApart
  <1>2. ApartOn(u, Q)
    BY <1>1, SameApart
  <1>3. (Q \cup {x}) \ {x} = Q
    OBVIOUS
  <1>4. Key(At(u, x)) = Key(s) /\ Label(At(u, x)) = Label(s)
    BY SessionIs
  <1> DEFINE P == Q \cup {x}
  <1>5. x \in P /\ P \ {x} = Q
    BY <1>3
  <1> HIDE DEF P
  <1>6. \A p \in P \ {x} : Key(At(u, p)) # Key(At(u, x)) \/ Key(At(u, x)) = NoKey
    BY <1>4, <1>5
  <1>7. \A p \in P \ {x} : p[1] = x[1] => Label(At(u, p)) # Label(At(u, x))
    BY <1>4, <1>5
  <1>8. ApartOn(u, P)
    BY <1>2, <1>5, <1>6, <1>7, OneMore
  <1> QED BY <1>8 DEF P

\* A session under a key and a label of its own is added soundly.
LEMMA AddIsSound ==
  ASSUME NEW t \in SoundTrees, NEW folder \in Words, NEW s \in Session, CanAdd(t, folder, s),
         Key(s) = NoKey \/ PlacesOf(t, Key(s)) = {}
  PROVE  Add(t, folder, s) \in SoundTrees
  <1> DEFINE u == Add(t, folder, s)
  <1>1. /\ u \in Tree /\ FoldersApart(u)
        /\ \E x : /\ Places(u) = Places(t) \cup {x} /\ x \notin Places(t)
                  /\ At(u, x) = Normalize(s)
                  /\ \A q \in Places(t) : q[1] = x[1] => Label(At(t, q)) # Label(s)
        /\ \A q \in Places(t) : At(u, q) = At(t, q)
    BY AddIs
  <1> HIDE DEF u
  <1>2. PICK x : /\ Places(u) = Places(t) \cup {x} /\ x \notin Places(t)
                 /\ At(u, x) = Normalize(s)
                 /\ \A q \in Places(t) : q[1] = x[1] => Label(At(t, q)) # Label(s)
    BY <1>1
  <1>3. Key(s) = NoKey \/ \A q \in Places(t) : Key(At(t, q)) # Key(s)
    BY DEF PlacesOf
  <1>4. ApartOn(u, Places(t) \cup {x})
    BY <1>1, <1>2, <1>3, AddIsApart
  <1>5. u \in SoundTrees
    BY <1>1, <1>2, <1>4, SoundMeans DEF SoundTrees
  <1> QED BY <1>5 DEF u

\* Move takes a session out of one folder and adds it to another: between the two
\* its key is free again.
LEMMA MoveIsSound ==
  ASSUME NEW t \in SoundTrees, NEW p \in Places(t), NEW to \in Words,
         CanMove(t, t[p[1]].name, Label(At(t, p)), to)
  PROVE  Move(t, t[p[1]].name, Label(At(t, p)), to) \in SoundTrees
  <1> DEFINE from == t[p[1]].name
             label == Label(At(t, p))
             s == Moved(t, from, label)
             u == Add(t, to, s)
             w == RemoveSession(u, from, label)
  <1>1. t \in Tree /\ FoldersApart(t) /\ ApartOn(t, Places(t))
    BY SoundMeans DEF SoundTrees
  <1>2. CASE from = to
    BY <1>2 DEF Move
  <1>3. CASE from # to
    <2>1. p[1] \in DOMAIN t /\ p[2] \in DOMAIN t[p[1]].sessions /\ p = <<p[1], p[2]>> /\ At(t, p) \in Session
      BY <1>1, PlacesAre
    <2>2. FolderIndex(t, from) = p[1] /\ SessionIndex(t[p[1]], label) = p[2]
      BY SessionFound
    <2>3. s = At(t, p)
      BY <2>2 DEF Moved, At
    <2>4. CanAdd(t, to, s) /\ Move(t, from, label, to) = w
      BY <1>3 DEF CanMove, Move
    <2> HIDE DEF from, label, s, u, w
    <2>5. /\ u \in Tree /\ FoldersApart(u) /\ DOMAIN t \subseteq DOMAIN u
          /\ \A k \in DOMAIN t : u[k].name = t[k].name
          /\ \E x : /\ Places(u) = Places(t) \cup {x} /\ x \notin Places(t)
                    /\ At(u, x) = Normalize(s) /\ u[x[1]].name = to
                    /\ \A q \in Places(t) : q[1] = x[1] => Label(At(t, q)) # Label(s)
                    /\ \A k \in DOMAIN t \ {x[1]} : u[k].sessions = t[k].sessions
          /\ \A q \in Places(t) : At(u, q) = At(t, q)
      BY <2>1, <2>3, <2>4, AddIs DEF u
    <2>6. PICK x : /\ Places(u) = Places(t) \cup {x} /\ x \notin Places(t)
                   /\ At(u, x) = Normalize(s) /\ u[x[1]].name = to
                   /\ \A q \in Places(t) : q[1] = x[1] => Label(At(t, q)) # Label(s)
                   /\ \A k \in DOMAIN t \ {x[1]} : u[k].sessions = t[k].sessions
      BY <2>5
    <2>7. p[1] \in DOMAIN u /\ u[p[1]].name = from /\ p[1] # x[1]
      BY <1>3, <2>1, <2>5, <2>6 DEF from
    <2>8. FolderIndex(u, from) = p[1]
      BY <2>5, <2>7, FolderFound
    <2>9. u[p[1]].sessions = t[p[1]].sessions
      BY <2>1, <2>6, <2>7
    <2>10. SessionIndex(u[p[1]], label) = p[2]
      BY <2>2, <2>9 DEF SessionIndex
    <2>11. w = WithSessions(u, p[1], RemoveAt(u[p[1]].sessions, p[2]))
      BY <2>8, <2>10 DEF w, RemoveSession, WithSessions
    <2>12. ApartOn(u, (Places(t) \ {p}) \cup {x})
      <3>1. Key(s) = NoKey \/ \A q \in Places(t) \ {p} : Key(At(t, q)) # Key(s)
        BY <1>1, <2>3 DEF ApartOn
      <3> QED BY <2>1, <2>3, <2>5, <2>6, <3>1, AddIsApart
    <2>13. p \in Places(u) /\ Places(u) \ {p} = (Places(t) \ {p}) \cup {x}
      BY <2>6
    <2>14. w \in Tree /\ SoundTree(w)
      BY <2>5, <2>11, <2>12, <2>13, TakenOutIsSound
    <2> QED BY <2>4, <2>14 DEF SoundTrees, from, label
  <1> QED BY <1>2, <1>3
-----------------------------------------------------------------------------
(* The editor.                                                              *)

\* What the base is and each step keeps, the fold of all is.
LEMMA FoldEnds ==
  ASSUME NEW n \in Nat, NEW T, NEW iter, iter[{}] \in T,
         \A k \in 1..n : iter[1..(k - 1)] \in T => iter[1..k] \in T
  PROVE  iter[1..n] \in T
  <1> DEFINE h == [k \in 0..n |-> iter[1..k]]
             P == [k \in 0..n |-> T]
  <1>1. h[0] \in P[0]
    <2>1. 1..0 = {} /\ 0 \in 0..n
      OBVIOUS
    <2> QED BY <2>1
  <1>2. \A k \in 1..n : h[k - 1] \in P[k - 1] => h[k] \in P[k]
    OBVIOUS
  <1> HIDE DEF h, P
  <1>3. \A k \in 0..n : h[k] \in P[k]
    BY <1>1, <1>2, Along
  <1> QED BY <1>3 DEF h, P

\* Position k is the last of the first k.
LEMMA FoldSteps ==
  ASSUME NEW n \in Nat, NEW k \in 1..n
  PROVE  1..k \in SUBSET (1..n) /\ (1..k) # {} /\ Max(1..k) = k /\ (1..k) \ {k} = 1..(k - 1)
  <1>1. Max(1..k) = k /\ k \in 1..k /\ (1..k) \ {k} = 1..(k - 1)
    BY UpTo
  <1> QED BY <1>1

\* The first of a set of places is one of them.
LEMMA FirstIsIn ==
  ASSUME NEW t \in Tree, NEW P \in SUBSET Places(t), P # {}
  PROVE  First(P) \in P
  <1>1. \A p \in P : p[1] \in Nat /\ p[2] \in Nat
    <2>1. \A k \in DOMAIN t : k \in Nat /\ DOMAIN t[k].sessions \subseteq Nat
      BY TreeIs
    <2> QED BY <2>1, PlacesAre
  <1>2. PICK i \in {p[1] : p \in P} : \A k \in {p[1] : p \in P} : i <= k
    <2>1. {p[1] : p \in P} \in SUBSET Nat /\ {p[1] : p \in P} # {}
      BY <1>1
    <2> QED BY <2>1, LeastNat
  <1> DEFINE R == {p \in P : p[1] = i}
  <1>3. R # {} /\ R \subseteq P
    BY <1>2
  <1>4. PICK j \in {p[2] : p \in R} : \A k \in {p[2] : p \in R} : j <= k
    <2>1. {p[2] : p \in R} \in SUBSET Nat /\ {p[2] : p \in R} # {}
      BY <1>1, <1>3
    <2> QED BY <2>1, LeastNat
  <1>5. PICK x \in R : x[2] = j
    BY <1>4
  <1>6. ASSUME NEW q \in P
        PROVE  x[1] < q[1] \/ (x[1] = q[1] /\ x[2] <= q[2])
    <2>1. x[1] = i /\ i <= q[1] /\ i \in Nat /\ q[1] \in Nat
      BY <1>1, <1>2, <1>5
    <2>2. CASE q[1] = i
      BY <1>4, <1>5, <2>1, <2>2
    <2>3. CASE q[1] # i
      BY <2>1, <2>3
    <2> QED BY <2>2, <2>3
  <1>7. \E p \in P : \A q \in P : p[1] < q[1] \/ (p[1] = q[1] /\ p[2] <= q[2])
    BY <1>5, <1>6
  <1> QED BY <1>7 DEF First

\* So is the last.
LEMMA LatestIsIn ==
  ASSUME NEW t \in Tree, NEW P \in SUBSET Places(t), P # {}
  PROVE  Latest(P) \in P
  <1>0. Len(t) \in Nat /\ DOMAIN t = 1..Len(t)
        /\ \A k \in DOMAIN t : Len(t[k].sessions) \in Nat /\ DOMAIN t[k].sessions = 1..Len(t[k].sessions)
    BY TreeIs
  <1>1. \A p \in P : p[1] \in 1..Len(t) /\ p[2] \in 1..Len(t[p[1]].sessions)
    BY <1>0, PlacesAre
  <1>2. PICK i \in {p[1] : p \in P} : \A k \in {p[1] : p \in P} : k <= i
    <2>1. {p[1] : p \in P} \in SUBSET (1..Len(t)) /\ {p[1] : p \in P} # {}
      BY <1>1
    <2> QED BY <1>0, <2>1, GreatestNat
  <1> DEFINE R == {p \in P : p[1] = i}
  <1>3. R # {} /\ R \subseteq P
    BY <1>2
  <1>4. PICK j \in {p[2] : p \in R} : \A k \in {p[2] : p \in R} : k <= j
    <2>1. {p[2] : p \in R} \in SUBSET (1..Len(t[i].sessions)) /\ {p[2] : p \in R} # {}
      BY <1>1, <1>3
    <2>2. Len(t[i].sessions) \in Nat
      BY <1>0, <1>1, <1>3
    <2> QED BY <2>1, <2>2, GreatestNat
  <1>5. PICK x \in R : x[2] = j
    BY <1>4
  <1>6. ASSUME NEW q \in P
        PROVE  x[1] > q[1] \/ (x[1] = q[1] /\ x[2] >= q[2])
    <2>1. x[1] = i /\ q[1] <= i /\ i \in Nat /\ q[1] \in Nat
      BY <1>1, <1>2, <1>5
    <2>2. CASE q[1] = i
      <3>1. q[2] <= j /\ x[2] = j /\ q[2] \in Int /\ j \in Int
        BY <1>1, <1>4, <1>5, <2>2
      <3> QED BY <2>1, <2>2, <3>1
    <2>3. CASE q[1] # i
      BY <2>1, <2>3
    <2> QED BY <2>2, <2>3
  <1>7. \E p \in P : \A q \in P : p[1] > q[1] \/ (p[1] = q[1] /\ p[2] >= q[2])
    BY <1>5, <1>6
  <1> QED BY <1>7 DEF Latest

Moves == UNION {[D -> KeyWords] : D \in SUBSET KeyWords}

Editors == [tree : SoundTrees, moved : Moves, origin : Moves, added : Seq(KeyWords),
            ok : BOOLEAN, next : Nat]

\* The maps an editor keeps go from keys to keys, with a key more or less too.
LEMMA MovesAre ==
  ASSUME NEW f \in Moves, NEW k \in KeyWords, NEW v \in KeyWords
  PROVE  /\ With(f, k, v) \in Moves /\ Without(f, k) \in Moves
         /\ k \in DOMAIN f => f[k] \in KeyWords
  <1>1. PICK D \in SUBSET KeyWords : f \in [D -> KeyWords]
    BY DEF Moves
  <1>2. Without(f, k) \in [D \ {k} -> KeyWords]
    BY <1>1 DEF Without
  <1> DEFINE g == With(f, k, v)
  <1>3. g = [x \in {k} \cup D |-> IF x = k THEN v ELSE f[x]]
    BY <1>1 DEF With
  <1>4. g \in [{k} \cup D -> KeyWords]
    BY <1>1, <1>3
  <1> HIDE DEF g
  <1>5. {k} \cup D \in SUBSET KeyWords /\ D \ {k} \in SUBSET KeyWords
    OBVIOUS
  <1>6. g \in Moves /\ Without(f, k) \in Moves
    BY <1>2, <1>4, <1>5 DEF Moves
  <1> QED BY <1>1, <1>6 DEF g

\* What the parts of an editor are.
LEMMA EditorIs ==
  ASSUME NEW ed \in Editors
  PROVE  /\ ed.tree \in SoundTrees /\ ed.tree \in Tree /\ ed.moved \in Moves /\ ed.origin \in Moves
         /\ ed.added \in Seq(KeyWords) /\ ed.ok \in BOOLEAN /\ ed.next \in Nat
         /\ \A t \in SoundTrees : [ed EXCEPT !.tree = t] \in Editors /\ [ed EXCEPT !.tree = t].tree = t
         /\ Fail(ed) \in Editors /\ Fail(ed).tree = ed.tree
  BY DEF Editors, SoundTrees, Fail

\* Rekey touches the maps and not the tree.
LEMMA RekeyIs ==
  ASSUME NEW ed \in Editors, NEW from \in KeyWords, NEW to \in KeyWords
  PROVE  Rekey(ed, from, to) \in Editors /\ Rekey(ed, from, to).tree = ed.tree
  <1> DEFINE orig == Origin(ed, from)
             rest == Without(ed.origin, from)
             moved == With(ed.moved, orig, to)
             origin == IF to = NoKey THEN rest ELSE With(rest, to, orig)
  <1>1. ed.moved \in Moves /\ ed.origin \in Moves
    BY EditorIs
  <1>2. orig \in KeyWords
    BY <1>1, MovesAre DEF Origin
  <1>3. rest \in Moves
    BY <1>1, MovesAre
  <1> HIDE DEF orig, rest
  <1>4. moved \in Moves /\ With(rest, to, orig) \in Moves
    BY <1>1, <1>2, <1>3, MovesAre
  <1>5. origin \in Moves
    BY <1>3, <1>4
  <1>6. Rekey(ed, from, to) = [ed EXCEPT !.moved = moved, !.origin = origin]
    BY DEF Rekey, orig, rest
  <1> HIDE DEF moved, origin
  <1> QED BY <1>4, <1>5, <1>6 DEF Editors
-----------------------------------------------------------------------------
(* The edits by key.                                                        *)

LEMMA OpIs ==
  ASSUME NEW op \in Op
  PROVE  /\ op.op \in {"save", "delete", "move", "patch", "add_folder", "rename_folder", "remove_folder"}
         /\ op.op = "save" => op.folder \in Words /\ op.key \in KeyWords /\ op.session \in Fields
         /\ op.op \in {"delete", "move", "patch"} => op.keys \in Seq(KeyWords)
         /\ op.op \in {"move", "add_folder", "rename_folder"} => op.to \in Words
         /\ op.op = "patch" => op.attr \in Words
  BY DEF Op

\* The session an edit finds.
LEMMA FindIs ==
  ASSUME NEW ed \in Editors, NEW k, Alive(ed, k)
  PROVE  Find(ed, k) \in Places(ed.tree) /\ Key(At(ed.tree, Find(ed, k))) = k
  <1>1. PlacesOf(ed.tree, k) \in SUBSET Places(ed.tree) /\ PlacesOf(ed.tree, k) # {}
    BY DEF PlacesOf, Alive
  <1>2. Find(ed, k) \in PlacesOf(ed.tree, k)
    BY <1>1, EditorIs, FirstIsIn DEF Find
  <1> QED BY <1>2 DEF PlacesOf

\* Deleting the session at p keeps the editor's tree sound.
LEMMA DeleteOneIs ==
  ASSUME NEW ed \in Editors, NEW p \in Places(ed.tree), NEW k \in KeyWords
  PROVE  DeleteOne(ed, p, k) \in Editors
  <1> DEFINE t == ed.tree
             u == WithSessions(t, p[1], RemoveAt(t[p[1]].sessions, p[2]))
  <1>1. t \in Tree /\ FoldersApart(t) /\ ApartOn(t, Places(t))
    BY EditorIs, SoundMeans DEF SoundTrees
  <1>2. ApartOn(t, Places(t) \ {p})
    BY <1>1, FewerApart
  <1>3. u \in SoundTrees
    BY <1>1, <1>2, TakenOutIsSound DEF SoundTrees
  <1>4. [ed EXCEPT !.tree[p[1]].sessions = RemoveAt(@, p[2])] = [ed EXCEPT !.tree = u]
    BY DEF WithSessions
  <1>5. DeleteOne(ed, p, k) = Rekey([ed EXCEPT !.tree = u], k, NoKey)
    BY <1>4 DEF DeleteOne
  <1> HIDE DEF u
  <1>6. [ed EXCEPT !.tree = u] \in Editors
    BY <1>3, EditorIs
  <1>7. NoKey \in KeyWords
    BY DEF NoKey, KeyWords
  <1> QED BY <1>5, <1>6, <1>7, RekeyIs

\* So does moving it to another folder.
LEMMA MoveOneIs ==
  ASSUME NEW ed \in Editors, NEW p \in Places(ed.tree), NEW to \in Words
  PROVE  MoveOne(ed, p, to) \in Editors
  <1> DEFINE from == ed.tree[p[1]].name
             name == Label(At(ed.tree, p))
  <1>1. CASE CanMove(ed.tree, from, name, to)
    <2>1. Move(ed.tree, from, name, to) \in SoundTrees
      BY <1>1, EditorIs, MoveIsSound
    <2>2. MoveOne(ed, p, to) = [ed EXCEPT !.tree = Move(ed.tree, from, name, to)]
      BY <1>1 DEF MoveOne
    <2> QED BY <2>1, <2>2, EditorIs
  <1>2. CASE ~CanMove(ed.tree, from, name, to)
    BY <1>2, EditorIs DEF MoveOne
  <1> QED BY <1>1, <1>2

\* A field that neither key nor label depends on.
LEMMA FieldIsSound ==
  ASSUME NEW t \in SoundTrees, NEW p \in Places(t), NEW x \in Session,
         x.kind = At(t, p).kind, x.name = At(t, p).name, x.host = At(t, p).host, x.port = At(t, p).port
  PROVE  WithSessions(t, p[1], [t[p[1]].sessions EXCEPT ![p[2]] = x]) \in SoundTrees
  <1> DEFINE s == At(t, p)
  <1>1. t \in Tree /\ ApartOn(t, Places(t)) /\ SoundTree(t)
    BY SoundMeans DEF SoundTrees
  <1>2. s \in Session
    BY <1>1, PlacesAre
  <1> HIDE DEF s
  <1>3. x.kind = s.kind /\ x.name = s.name /\ x.host = s.host /\ x.port = s.port
    BY DEF s
  <1>4. Target(x) = Target(s)
    BY <1>3 DEF Target
  <1>5. Label(x) = Label(s)
    BY <1>3, <1>4 DEF Label
  <1>6. Normalize(x).port = Normalize(s).port
    BY <1>2, <1>3 DEF Normalize, Session
  <1>7. Key(x) = Key(s)
    BY <1>3, <1>6 DEF Key
  <1>8. \A q \in Places(t) \ {p} : q[1] = p[1] => Label(At(t, q)) # Label(x)
    BY <1>1, <1>5 DEF ApartOn, s
  <1> QED BY <1>1, <1>7, <1>8, ChangedIsSound DEF SoundTrees, s

\* And setting what is not its address or name.
LEMMA PatchOneIs ==
  ASSUME NEW ed \in Editors, NEW p \in Places(ed.tree), NEW attr \in Words
  PROVE  PatchOne(ed, p, attr) \in Editors
  <1> DEFINE t == ed.tree
             ss == t[p[1]].sessions
             x == [At(t, p) EXCEPT !.attr = attr]
             u == WithSessions(t, p[1], [ss EXCEPT ![p[2]] = x])
  <1>1. CASE attr = Unknown
    BY <1>1, EditorIs DEF PatchOne
  <1>2. CASE attr # Unknown
    <2>1. At(t, p) \in Session
      BY EditorIs, PlacesAre
    <2>2. /\ x \in Session /\ x.kind = At(t, p).kind /\ x.name = At(t, p).name
          /\ x.host = At(t, p).host /\ x.port = At(t, p).port
      BY <2>1 DEF Session
    <2>3. [ed EXCEPT !.tree[p[1]].sessions[p[2]].attr = attr] = [ed EXCEPT !.tree = u]
      BY DEF WithSessions, At
    <2>4. PatchOne(ed, p, attr) = [ed EXCEPT !.tree = u]
      BY <1>2, <2>3 DEF PatchOne
    <2> HIDE DEF x, t
    <2>5. u \in SoundTrees
      BY <2>2, EditorIs, FieldIsSound DEF t
    <2> HIDE DEF u
    <2> QED BY <2>4, <2>5, EditorIs
  <1> QED BY <1>1, <1>2

\* One key of an edit of several keys.
LEMMA OneKeyIs ==
  ASSUME NEW ed \in Editors, NEW op \in Op, op.op \in {"delete", "move", "patch"}, NEW k \in KeyWords
  PROVE  OneKey(ed, op, k) \in Editors
  <1>1. CASE ~ed.ok \/ ~Alive(ed, k)
    BY <1>1, EditorIs DEF OneKey
  <1>2. CASE ed.ok /\ Alive(ed, k)
    <2>1. Find(ed, k) \in Places(ed.tree)
      BY <1>2, FindIs
    <2>2. CASE op.op = "delete"
      BY <1>2, <2>1, <2>2, DeleteOneIs DEF OneKey
    <2>3. CASE op.op = "move"
      <3>1. OneKey(ed, op, k) = MoveOne(ed, Find(ed, k), op.to)
        BY <1>2, <2>3 DEF OneKey
      <3> QED BY <2>1, <2>3, <3>1, OpIs, MoveOneIs
    <2>4. CASE op.op = "patch"
      <3>1. OneKey(ed, op, k) = PatchOne(ed, Find(ed, k), op.attr)
        BY <1>2, <2>4 DEF OneKey
      <3> QED BY <2>1, <2>4, <3>1, OpIs, PatchOneIs
    <2> QED BY <2>2, <2>3, <2>4
  <1> QED BY <1>1, <1>2

\* All of its keys, in order.
LEMMA EachKeyIs ==
  ASSUME NEW ed \in Editors, NEW op \in Op, op.op \in {"delete", "move", "patch"}
  PROVE  EachKey(ed, op) \in Editors
  <1> DEFINE seq == op.keys
             n == Len(seq)
             g == [k \in 1..n |-> [e \in Editors |-> OneKey(e, op, seq[k])]]
             F(it, s) == IF s = {} THEN ed ELSE OneKey(it[s \ {Max(s)}], op, seq[Max(s)])
             iter == CHOOSE it : it = [s \in SUBSET DOMAIN seq |-> F(it, s)]
  <1>1. EachKey(ed, op) = iter[DOMAIN seq]
    BY DEF EachKey, FoldLeft, MapThenFoldSet
  <1>2. n \in Nat /\ DOMAIN seq = 1..n /\ \A k \in 1..n : seq[k] \in KeyWords
    <2>1. seq \in Seq(KeyWords)
      BY OpIs
    <2> QED BY <2>1
  <1> HIDE DEF seq, n
  <1>3. g \in [1..n -> [Editors -> Editors]]
    BY <1>2, OneKeyIs
  <1>4. PICK f : Folds(n, Editors, ed, g, f)
    <2> HIDE DEF g
    <2> QED BY <1>2, <1>3, FoldExists
  <1>5. \A s \in SUBSET (1..n) : f[s] = F(f, s)
    BY <1>4 DEF Folds
  <1>6. f = [s \in SUBSET DOMAIN seq |-> F(f, s)]
    <2> HIDE DEF F, g
    <2>1. [s \in SUBSET (1..n) |-> f[s]] = [s \in SUBSET (1..n) |-> F(f, s)]
      BY <1>5
    <2> QED BY <1>2, <1>4, <2>1 DEF Folds
  <1>7. iter = [s \in SUBSET DOMAIN seq |-> F(iter, s)]
    BY <1>6
  <1> HIDE DEF iter
  <1>8. iter[{}] \in Editors
    BY <1>7
  <1>9. ASSUME NEW k \in 1..n, iter[1..(k - 1)] \in Editors
        PROVE  iter[1..k] \in Editors
    <2>1. 1..k \in SUBSET (1..n) /\ (1..k) # {} /\ Max(1..k) = k /\ (1..k) \ {k} = 1..(k - 1)
      BY <1>2, FoldSteps
    <2>2. iter[1..k] = F(iter, 1..k)
      BY <1>2, <1>7, <2>1
    <2>3. iter[1..k] = OneKey(iter[1..(k - 1)], op, seq[k])
      BY <2>1, <2>2
    <2> QED BY <1>2, <1>9, <2>3, OneKeyIs
  <1>10. iter[1..n] \in Editors
    BY <1>2, <1>8, <1>9, FoldEnds
  <1> QED BY <1>1, <1>2, <1>10
-----------------------------------------------------------------------------
(* The other edits, and lists of edits.                                     *)

\* What a save sets are fields of a session.
LEMMA FieldsAre ==
  ASSUME NEW s \in Fields
  PROVE  /\ s \in Session /\ s.host \in Words /\ s.port \in Words /\ s.attr \in Words
         /\ s.name \in Seq(Words)
         /\ \A i \in Nat : [s EXCEPT !.id = i] \in Session
  BY DEF Fields, Session

\* A new session is added at an address nobody has.
LEMMA SaveNewIs ==
  ASSUME NEW ed \in Editors, NEW op \in Op, op.op = "save"
  PROVE  SaveNew(ed, op) \in Editors
  <1> DEFINE s == Normalize([op.session EXCEPT !.id = ed.next + 1])
             t == Add(ed.tree, op.folder, s)
  <1>1. s \in Session
    <2>1. ed.next + 1 \in Nat /\ op.session \in Fields
      BY EditorIs, OpIs
    <2> QED BY <2>1, FieldsAre, SessionIs
  <1> HIDE DEF s
  <1>2. CASE Alive(ed, Key(s)) \/ ~CanAdd(ed.tree, op.folder, s)
    BY <1>2, EditorIs DEF SaveNew, s
  <1>3. CASE ~(Alive(ed, Key(s)) \/ ~CanAdd(ed.tree, op.folder, s))
    <2>1. PlacesOf(ed.tree, Key(s)) = {} /\ CanAdd(ed.tree, op.folder, s)
      BY <1>3 DEF Alive
    <2>2. ed.tree \in SoundTrees /\ op.folder \in Words
      BY EditorIs, OpIs
    <2>3. t \in SoundTrees
      BY <1>1, <2>1, <2>2, AddIsSound
    <2>4. SaveNew(ed, op) = [ed EXCEPT !.tree = t, !.added = Append(ed.added, Key(s)), !.next = ed.next + 1]
      BY <1>3 DEF SaveNew, s
    <2>5. Append(ed.added, Key(s)) \in Seq(KeyWords)
      BY <1>1, EditorIs, SessionIs DEF KeyWords
    <2> DEFINE a == Append(ed.added, Key(s))
    <2>6. ed.next + 1 \in Nat
      BY EditorIs
    <2> HIDE DEF t, a
    <2>7. [ed EXCEPT !.tree = t, !.added = a, !.next = ed.next + 1] \in Editors
      BY <2>3, <2>5, <2>6 DEF Editors, a
    <2> QED BY <2>4, <2>7 DEF a
  <1> QED BY <1>2, <1>3

\* A saved one keeps its address or takes one nobody has, and its label likewise.
LEMMA SaveOverIs ==
  ASSUME NEW ed \in Editors, NEW op \in Op, op.op = "save", Alive(ed, op.key)
  PROVE  SaveOver(ed, op) \in Editors
  <1> DEFINE p == Find(ed, op.key)
             t == ed.tree
             old == At(t, p)
             to == IF old.kind = "serial" THEN old
                   ELSE [old EXCEPT !.host = op.session.host, !.port = op.session.port]
             new == Normalize([to EXCEPT !.name = op.session.name, !.attr = op.session.attr])
             dir == t[p[1]].name
             u == Replace(t, dir, Label(old), new)
             out == [ed EXCEPT !.tree = u]
             bad == \/ Key(new) # Key(old) /\ Alive(ed, Key(new))
                    \/ ~CanReplace(t, dir, Label(old), new)
  <1>1. t \in SoundTrees /\ t \in Tree /\ SoundTree(t) /\ ApartOn(t, Places(t)) /\ FoldersApart(t)
    BY EditorIs, SoundMeans DEF SoundTrees
  <1>2. p \in Places(t)
    BY FindIs
  <1>3. old \in Session
    BY <1>1, <1>2, PlacesAre
  <1>4. new \in Session
    <2>1. op.session \in Fields
      BY OpIs
    <2>2. op.session.host \in Words /\ op.session.port \in Words /\ op.session.attr \in Words
          /\ op.session.name \in Seq(Words)
      BY <2>1, FieldsAre
    <2> HIDE DEF old
    <2>3. to \in Session
      BY <1>3, <2>2 DEF Session
    <2> HIDE DEF to
    <2>4. [to EXCEPT !.name = op.session.name, !.attr = op.session.attr] \in Session
      BY <2>2, <2>3 DEF Session
    <2> QED BY <2>4, SessionIs
  <1>5. SaveOver(ed, op) = IF bad THEN Fail(ed)
                           ELSE IF Key(new) = Key(old) THEN out ELSE Rekey(out, Key(old), Key(new))
    BY DEF SaveOver
  <1> HIDE DEF new, p, t
  <1>6. ASSUME ~bad
        PROVE  u \in SoundTrees
    <2>1. FolderIndex(t, dir) = p[1] /\ SessionIndex(t[p[1]], Label(old)) = p[2]
      BY <1>1, <1>2, SessionFound
    <2>2. u = WithSessions(t, p[1], [t[p[1]].sessions EXCEPT ![p[2]] = Normalize(new)])
      BY <2>1 DEF Replace, WithSessions
    <2>3. Normalize(new) \in Session /\ Key(Normalize(new)) = Key(new) /\ Label(Normalize(new)) = Label(new)
      BY <1>4, SessionIs
    <2>4. SessionIndex(t[p[1]], Label(new)) \in {0, p[2]}
      BY <1>6, <2>1 DEF CanReplace
    <2>5. Key(new) = Key(old) \/ PlacesOf(t, Key(new)) = {}
      BY <1>6 DEF Alive, t
    <2>6. ASSUME NEW q \in Places(t) \ {p}, q[1] = p[1]
          PROVE  Label(At(t, q)) # Label(new)
      <3>1. SessionIndex(t[q[1]], Label(At(t, q))) = q[2]
        BY <1>1, SessionFound
      <3>2. /\ q = <<q[1], q[2]>> /\ p = <<p[1], p[2]>> /\ q[2] \in DOMAIN t[q[1]].sessions
            /\ q[1] \in DOMAIN t
        BY <1>1, <1>2, PlacesAre
      <3>3. q[2] # p[2]
        BY <2>6, <3>2
      <3>4. q[2] # 0
        BY <1>1, <3>2, TreeIs
      <3> QED BY <2>4, <2>6, <3>1, <3>3, <3>4
    <2> HIDE DEF u
    <2>7. u \in Tree /\ SoundTree(u)
      BY <1>1, <1>2, <2>2, <2>3, <2>5, <2>6, ChangedIsSound
    <2> QED BY <2>7 DEF SoundTrees
  <1>7. CASE bad
    BY <1>5, <1>7, EditorIs
  <1>8. CASE ~bad
    <2>1. out \in Editors
      BY <1>6, <1>8, EditorIs
    <2>2. Key(old) \in KeyWords /\ Key(new) \in KeyWords
      BY <1>3, <1>4, SessionIs DEF KeyWords
    <2> HIDE DEF out, old, bad
    <2> QED BY <1>5, <1>8, <2>1, <2>2, RekeyIs
  <1> QED BY <1>7, <1>8

\* A save is one or the other, or fails.
LEMMA SaveSessionIs ==
  ASSUME NEW ed \in Editors, NEW op \in Op, op.op = "save"
  PROVE  SaveSession(ed, op) \in Editors
  <1>1. SaveNew(ed, op) \in Editors /\ Fail(ed) \in Editors
    BY SaveNewIs, EditorIs
  <1>2. Alive(ed, op.key) => SaveOver(ed, op) \in Editors
    BY SaveOverIs
  <1> QED BY <1>1, <1>2 DEF SaveSession

\* The keys of a folder's sessions, as those of sessions deleted.
EditorsOf(t) == {e \in Editors : e.tree = t}
DropOne(e, s) == IF Key(s) = NoKey THEN e ELSE Rekey(e, Key(s), NoKey)

LEMMA DropOneIs ==
  ASSUME NEW t, NEW e \in EditorsOf(t), NEW s \in Session
  PROVE  DropOne(e, s) \in EditorsOf(t)
  <1>1. Key(s) \in KeyWords /\ NoKey \in KeyWords
    BY SessionIs DEF KeyWords, NoKey
  <1> QED BY <1>1, RekeyIs DEF EditorsOf, DropOne

\* A folder removed with its sessions: their keys are marked as deleted first.
LEMMA DropFolderIs ==
  ASSUME NEW ed \in Editors, NEW op \in Op
  PROVE  DropFolder(ed, op) \in Editors
  <1> DEFINE i == FolderIndex(ed.tree, op.folder)
  <1> SUFFICES ASSUME i # 0 PROVE DropFolder(ed, op) \in Editors
    BY EditorIs DEF DropFolder
  <1>a. i \in DOMAIN ed.tree
    BY EditorIs, FolderIndexIs
  <1> DEFINE seq == ed.tree[i].sessions
             T == EditorsOf(ed.tree)
             n == Len(seq)
             g == [k \in 1..n |-> [e \in T |-> DropOne(e, seq[k])]]
             F(it, s) == IF s = {} THEN ed ELSE DropOne(it[s \ {Max(s)}], seq[Max(s)])
             iter == CHOOSE it : it = [s \in SUBSET DOMAIN seq |-> F(it, s)]
  <1>1. DropFolder(ed, op) = [iter[DOMAIN seq] EXCEPT !.tree = RemoveFolder(@, op.folder)]
    BY DEF DropFolder, DropOne, FoldLeft, MapThenFoldSet
  <1>2. n \in Nat /\ DOMAIN seq = 1..n /\ \A k \in 1..n : seq[k] \in Session
    <2>1. seq \in Seq(Session)
      BY <1>a, EditorIs, TreeIs
    <2> QED BY <2>1
  <1>0. ed \in T
    BY DEF EditorsOf
  <1> HIDE DEF seq, n
  <1>3. g \in [1..n -> [T -> T]]
    BY <1>2, DropOneIs
  <1>4. PICK f : Folds(n, T, ed, g, f)
    <2> HIDE DEF g
    <2> QED BY <1>0, <1>2, <1>3, FoldExists
  <1>5. \A s \in SUBSET (1..n) : f[s] = F(f, s)
    BY <1>4 DEF Folds
  <1>6. f = [s \in SUBSET DOMAIN seq |-> F(f, s)]
    <2> HIDE DEF F, g
    <2>1. [s \in SUBSET (1..n) |-> f[s]] = [s \in SUBSET (1..n) |-> F(f, s)]
      BY <1>5
    <2> QED BY <1>2, <1>4, <2>1 DEF Folds
  <1>7. iter = [s \in SUBSET DOMAIN seq |-> F(iter, s)]
    BY <1>6
  <1> HIDE DEF iter
  <1>8. iter[{}] \in T
    BY <1>0, <1>7
  <1>9. ASSUME NEW k \in 1..n, iter[1..(k - 1)] \in T
        PROVE  iter[1..k] \in T
    <2>1. 1..k \in SUBSET (1..n) /\ (1..k) # {} /\ Max(1..k) = k /\ (1..k) \ {k} = 1..(k - 1)
      BY <1>2, FoldSteps
    <2>2. iter[1..k] = F(iter, 1..k)
      BY <1>2, <1>7, <2>1
    <2>3. iter[1..k] = DropOne(iter[1..(k - 1)], seq[k])
      BY <2>1, <2>2
    <2> QED BY <1>2, <1>9, <2>3, DropOneIs
  <1>10. iter[1..n] \in T
    BY <1>2, <1>8, <1>9, FoldEnds
  <1>11. iter[1..n] \in Editors /\ iter[1..n].tree = ed.tree
    BY <1>10 DEF EditorsOf
  <1>12. RemoveFolder(ed.tree, op.folder) \in SoundTrees
    BY EditorIs, RemoveFolderIsSound
  <1>13. DropFolder(ed, op) = [iter[1..n] EXCEPT !.tree = RemoveFolder(ed.tree, op.folder)]
    BY <1>1, <1>2, <1>11
  <1> QED BY <1>11, <1>12, <1>13, EditorIs

\* Every edit keeps an editor an editor.
LEMMA DoIs ==
  ASSUME NEW ed \in Editors, NEW op \in Op
  PROVE  Do(ed, op) \in Editors
  <1>0. Fail(ed) \in Editors /\ ed.tree \in SoundTrees
    BY EditorIs
  <1>1. CASE ~ed.ok
    BY <1>1 DEF Do
  <1> SUFFICES ASSUME ed.ok PROVE Do(ed, op) \in Editors
    BY <1>1
  <1>2. CASE op.op = "save"
    BY <1>2, SaveSessionIs DEF Do
  <1>3. CASE op.op \in {"delete", "patch"}
    BY <1>3, EachKeyIs DEF Do
  <1>4. CASE op.op = "move"
    BY <1>0, <1>4, EachKeyIs DEF Do
  <1>5. CASE op.op = "add_folder"
    <2>1. CASE CanAddFolder(ed.tree, op.to)
      <3>1. Do(ed, op) = [ed EXCEPT !.tree = AddFolder(ed.tree, op.to)]
        BY <1>5, <2>1 DEF Do
      <3>2. AddFolder(ed.tree, op.to) \in SoundTrees
        BY <1>0, <1>5, <2>1, OpIs, AddFolderIsSound
      <3> QED BY <3>1, <3>2, EditorIs
    <2>2. CASE ~CanAddFolder(ed.tree, op.to)
      BY <1>0, <1>5, <2>2 DEF Do
    <2> QED BY <2>1, <2>2
  <1>6. CASE op.op = "rename_folder"
    <2>1. CASE CanRenameFolder(ed.tree, op.folder, op.to)
      <3>1. Do(ed, op) = [ed EXCEPT !.tree = RenameFolder(ed.tree, op.folder, op.to)]
        BY <1>6, <2>1 DEF Do
      <3>2. RenameFolder(ed.tree, op.folder, op.to) \in SoundTrees
        BY <1>0, <1>6, <2>1, OpIs, RenameFolderIsSound
      <3> QED BY <3>1, <3>2, EditorIs
    <2>2. CASE ~CanRenameFolder(ed.tree, op.folder, op.to)
      BY <1>0, <1>6, <2>2 DEF Do
    <2> QED BY <2>1, <2>2
  <1>7. CASE op.op = "remove_folder"
    BY <1>7, DropFolderIs DEF Do
  <1> QED BY <1>2, <1>3, <1>4, <1>5, <1>6, <1>7, OpIs

\* Whatever an Apply is asked for, the tree it would save is sound.
LEMMA RunIs ==
  ASSUME made \in Nat, NEW t \in SoundTrees, NEW ops \in Seq(Op)
  PROVE  Run(t, ops) \in Editors
  <1> DEFINE seq == ops
             b == Editor(t)
             n == Len(seq)
             g == [k \in 1..n |-> [e \in Editors |-> Do(e, seq[k])]]
             F(it, s) == IF s = {} THEN b ELSE Do(it[s \ {Max(s)}], seq[Max(s)])
             iter == CHOOSE it : it = [s \in SUBSET DOMAIN seq |-> F(it, s)]
  <1>1. Run(t, ops) = iter[DOMAIN seq]
    BY DEF Run, FoldLeft, MapThenFoldSet
  <1>2. n \in Nat /\ DOMAIN seq = 1..n /\ \A k \in 1..n : seq[k] \in Op
    <2>1. seq \in Seq(Op)
      OBVIOUS
    <2> QED BY <2>1
  <1>0. b \in Editors
    <2>1. None \in Moves /\ <<>> \in Seq(KeyWords)
      <3>1. None \in [{} -> KeyWords]
        BY DEF None
      <3>2. {} \in SUBSET KeyWords
        OBVIOUS
      <3>3. <<>> \in Seq(KeyWords)
        OBVIOUS
      <3>4. None \in UNION {[D -> KeyWords] : D \in SUBSET KeyWords}
        BY <3>1, <3>2, Zenon
      <3> QED BY <3>3, <3>4 DEF Moves
    <2> QED BY <2>1 DEF Editor, Editors
  <1> HIDE DEF seq, n
  <1>3. g \in [1..n -> [Editors -> Editors]]
    BY <1>2, DoIs
  <1>4. PICK f : Folds(n, Editors, b, g, f)
    <2> HIDE DEF g
    <2> QED BY <1>0, <1>2, <1>3, FoldExists
  <1>5. \A s \in SUBSET (1..n) : f[s] = F(f, s)
    BY <1>4 DEF Folds
  <1>6. f = [s \in SUBSET DOMAIN seq |-> F(f, s)]
    <2> HIDE DEF F, g
    <2>1. [s \in SUBSET (1..n) |-> f[s]] = [s \in SUBSET (1..n) |-> F(f, s)]
      BY <1>5
    <2> QED BY <1>2, <1>4, <2>1 DEF Folds
  <1>7. iter = [s \in SUBSET DOMAIN seq |-> F(iter, s)]
    BY <1>6
  <1> HIDE DEF iter
  <1>8. iter[{}] \in Editors
    BY <1>0, <1>7
  <1>9. ASSUME NEW k \in 1..n, iter[1..(k - 1)] \in Editors
        PROVE  iter[1..k] \in Editors
    <2>1. 1..k \in SUBSET (1..n) /\ (1..k) # {} /\ Max(1..k) = k /\ (1..k) \ {k} = 1..(k - 1)
      BY <1>2, FoldSteps
    <2>2. iter[1..k] = F(iter, 1..k)
      BY <1>2, <1>7, <2>1
    <2>3. iter[1..k] = Do(iter[1..(k - 1)], seq[k])
      BY <2>1, <2>2
    <2> QED BY <1>2, <1>9, <2>3, DoIs
  <1>10. iter[1..n] \in Editors
    BY <1>2, <1>8, <1>9, FoldEnds
  <1> QED BY <1>1, <1>2, <1>10
-----------------------------------------------------------------------------
(* Imports.                                                                 *)

\* Transport, host and port decide a session's key.
LEMMA SameKey ==
  ASSUME NEW s \in Session, NEW x \in Session, x.kind = s.kind, x.host = s.host, x.port = s.port
  PROVE  Key(x) = Key(s)
  <1>1. Normalize(x).port = Normalize(s).port
    BY DEF Normalize, Session
  <1> QED BY <1>1 DEF Key

\* A key that is not among those of a tree is at no place of it.
LEMMA KeysAre ==
  ASSUME NEW t \in Tree
  PROVE  /\ Keys(t) \subseteq KeyWords
         /\ \A k : k \notin Keys(t) /\ k # NoKey => PlacesOf(t, k) = {}
  <1>1. \A p \in Places(t) : Key(At(t, p)) \in KeyWords
    BY PlacesAre, SessionIs DEF KeyWords
  <1> QED BY <1>1 DEF Keys, Filed, PlacesOf

\* What an import has seen covers what the tree holds.
Imports == {a \in [tree : SoundTrees, seen : SUBSET KeyWords] : Keys(a.tree) \subseteq a.seen}

\* One session of an import is skipped, or added under a label of its own.
LEMMA ImportOneIs ==
  ASSUME NEW acc \in Imports, NEW folder \in Words, NEW n \in Session
  PROVE  ImportOne(acc, folder, n) \in Imports
  <1> DEFINE s == Normalize(n)
             u == IF Holds(acc.tree, folder, Label(s)) THEN [s EXCEPT !.name = Append(Label(s), s.host)] ELSE s
             skip == Key(s) = NoKey \/ Key(s) \in acc.seen \/ ~CanAdd(acc.tree, folder, u)
             t == acc.tree
             v == Add(t, folder, u)
  <1>1. s \in Session /\ Label(s) \in Seq(Words) /\ Key(s) \in KeyWords
    BY SessionIs DEF KeyWords
  <1>2. u \in Session /\ Key(u) = Key(s)
    <2> HIDE DEF s
    <2>1. s.host \in Words
      BY <1>1 DEF Session
    <2>2. Append(Label(s), s.host) \in Seq(Words)
      BY <1>1, <2>1
    <2>3. u \in Session /\ u.kind = s.kind /\ u.host = s.host /\ u.port = s.port
      BY <1>1, <2>2 DEF Session
    <2> HIDE DEF u
    <2> QED BY <1>1, <2>3, SameKey
  <1>3. t \in SoundTrees /\ t \in Tree /\ acc.seen \subseteq KeyWords /\ Keys(t) \subseteq acc.seen
    BY DEF Imports, SoundTrees
  <1>4. ImportOne(acc, folder, n) = IF skip THEN acc ELSE [tree |-> v, seen |-> acc.seen \cup {Key(s)}]
    BY DEF ImportOne
  <1> HIDE DEF s, u, t
  <1>5. CASE skip
    BY <1>4, <1>5
  <1>6. CASE ~skip
    <2>1. Key(s) # NoKey /\ Key(s) \notin acc.seen /\ CanAdd(t, folder, u)
      BY <1>6 DEF t
    <2>2. PlacesOf(t, Key(u)) = {}
      BY <1>2, <1>3, <2>1, KeysAre
    <2>3. v \in SoundTrees
      BY <1>2, <1>3, <2>1, <2>2, AddIsSound
    <2>4. /\ \E x : Places(v) = Places(t) \cup {x} /\ At(v, x) = Normalize(u)
          /\ \A q \in Places(t) : At(v, q) = At(t, q)
      BY <1>2, <1>3, <2>1, AddIs
    <2> HIDE DEF v
    <2>5. PICK x : Places(v) = Places(t) \cup {x} /\ At(v, x) = Normalize(u)
      BY <2>4
    <2>6. Key(At(v, x)) = Key(s)
      BY <1>2, <2>5, SessionIs
    <2>7. Keys(v) \subseteq acc.seen \cup {Key(s)}
      BY <1>3, <2>4, <2>5, <2>6 DEF Keys, Filed
    <2>8. [tree |-> v, seen |-> acc.seen \cup {Key(s)}] \in Imports
      BY <1>1, <1>3, <2>3, <2>7 DEF Imports
    <2> QED BY <1>4, <1>6, <2>8
  <1> QED BY <1>5, <1>6

\* All sessions of a folder, one after the other.
LEMMA ImportIs ==
  ASSUME NEW t \in SoundTrees, NEW folder \in Words, NEW nodes \in Seq(Session)
  PROVE  Import(t, folder, nodes) \in SoundTrees
  <1> DEFINE seq == nodes
             b == [tree |-> t, seen |-> Keys(t)]
             n == Len(seq)
             g == [k \in 1..n |-> [e \in Imports |-> ImportOne(e, folder, seq[k])]]
             F(it, s) == IF s = {} THEN b ELSE ImportOne(it[s \ {Max(s)}], folder, seq[Max(s)])
             iter == CHOOSE it : it = [s \in SUBSET DOMAIN seq |-> F(it, s)]
  <1>1. Import(t, folder, nodes) = iter[DOMAIN seq].tree
    BY DEF Import, FoldLeft, MapThenFoldSet
  <1>2. n \in Nat /\ DOMAIN seq = 1..n /\ \A k \in 1..n : seq[k] \in Session
    <2>1. seq \in Seq(Session)
      OBVIOUS
    <2> QED BY <2>1
  <1>0. b \in Imports
    BY KeysAre DEF Imports, SoundTrees
  <1> HIDE DEF seq, n
  <1>3. g \in [1..n -> [Imports -> Imports]]
    BY <1>2, ImportOneIs
  <1>4. PICK f : Folds(n, Imports, b, g, f)
    <2> HIDE DEF g
    <2> QED BY <1>0, <1>2, <1>3, FoldExists
  <1>5. \A s \in SUBSET (1..n) : f[s] = F(f, s)
    BY <1>4 DEF Folds
  <1>6. f = [s \in SUBSET DOMAIN seq |-> F(f, s)]
    <2> HIDE DEF F, g
    <2>1. [s \in SUBSET (1..n) |-> f[s]] = [s \in SUBSET (1..n) |-> F(f, s)]
      BY <1>5
    <2> QED BY <1>2, <1>4, <2>1 DEF Folds
  <1>7. iter = [s \in SUBSET DOMAIN seq |-> F(iter, s)]
    BY <1>6
  <1> HIDE DEF iter
  <1>8. iter[{}] \in Imports
    BY <1>0, <1>7
  <1>9. ASSUME NEW k \in 1..n, iter[1..(k - 1)] \in Imports
        PROVE  iter[1..k] \in Imports
    <2>1. 1..k \in SUBSET (1..n) /\ (1..k) # {} /\ Max(1..k) = k /\ (1..k) \ {k} = 1..(k - 1)
      BY <1>2, FoldSteps
    <2>2. iter[1..k] = F(iter, 1..k)
      BY <1>2, <1>7, <2>1
    <2>3. iter[1..k] = ImportOne(iter[1..(k - 1)], folder, seq[k])
      BY <2>1, <2>2
    <2> QED BY <1>2, <1>9, <2>3, ImportOneIs
  <1>10. iter[1..n] \in Imports
    BY <1>2, <1>8, <1>9, FoldEnds
  <1> QED BY <1>1, <1>2, <1>10 DEF Imports

\* An import makes its folder first when there is none.
LEMMA ImportFolderIs ==
  ASSUME NEW t \in SoundTrees, NEW f \in [name : Words, sessions : Seq(Session)]
  PROVE  ImportFolder(t, f) \in SoundTrees
  <1> DEFINE name == IF f.name = "" THEN "Imported" ELSE f.name
  <1>1. name \in Words /\ f.sessions \in Seq(Session)
    BY WordsAssumption
  <1>2. ImportFolder(t, f) = IF f.sessions # <<>> THEN Import(t, name, f.sessions)
                             ELSE IF CanAddFolder(t, name) THEN AddFolder(t, name) ELSE t
    BY DEF ImportFolder
  <1> HIDE DEF name
  <1> QED BY <1>1, <1>2, ImportIs, AddFolderIsSound

\* A device is recognised at places of the tree.
LEMMA RecognisedIs ==
  ASSUME NEW t \in Tree, NEW folder, NEW n
  PROVE  Recognised(t, folder, n) \in SUBSET Places(t)
  BY DEF Recognised, PlacesOf

\* Trees with the places of t.
LikeTree(t) == {u \in SoundTrees : Places(u) = Places(t)}

\* Recognising a device sets a guess and moves nothing.
LEMMA RecogniseOneIs ==
  ASSUME NEW t \in SoundTrees, NEW folder, NEW u \in LikeTree(t), NEW n \in Session
  PROVE  RecogniseOne(t, folder, u, n) \in LikeTree(t)
  <1> DEFINE P == Recognised(t, folder, n)
             p == Latest(P)
             ss == u[p[1]].sessions
             x == [At(u, p) EXCEPT !.guess = n.guess]
             v == WithSessions(u, p[1], [ss EXCEPT ![p[2]] = x])
  <1>0. u \in SoundTrees /\ u \in Tree /\ Places(u) = Places(t) /\ t \in Tree
    BY DEF LikeTree, SoundTrees
  <1>1. CASE P = {} \/ n.guess = ""
    BY <1>1 DEF RecogniseOne
  <1>2. CASE ~(P = {} \/ n.guess = "")
    <2>1. p \in Places(u)
      <3>1. P \in SUBSET Places(t) /\ P # {}
        BY <1>0, <1>2, RecognisedIs
      <3> HIDE DEF P
      <3> QED BY <1>0, <3>1, LatestIsIn
    <2>2. RecogniseOne(t, folder, u, n) = v
      BY <1>2 DEF RecogniseOne, WithSessions, At
    <2> HIDE DEF p
    <2>3. At(u, p) \in Session /\ n.guess \in Words
      BY <1>0, <2>1, PlacesAre DEF Session
    <2>4. /\ x \in Session /\ x.kind = At(u, p).kind /\ x.name = At(u, p).name
          /\ x.host = At(u, p).host /\ x.port = At(u, p).port
      BY <2>3 DEF Session
    <2> HIDE DEF x
    <2>5. v \in SoundTrees
      BY <1>0, <2>1, <2>4, FieldIsSound
    <2>6. Places(v) = Places(u)
      BY <1>0, <2>1, <2>4, ChangedIs
    <2> QED BY <1>0, <2>2, <2>5, <2>6 DEF LikeTree
  <1> QED BY <1>1, <1>2

\* So does recognising all of a map.
LEMMA RecogniseIs ==
  ASSUME NEW t \in SoundTrees, NEW folder, NEW nodes \in Seq(Session)
  PROVE  Recognise(t, folder, nodes) \in SoundTrees
  <1> DEFINE seq == nodes
             T == LikeTree(t)
             n == Len(seq)
             g == [k \in 1..n |-> [e \in T |-> RecogniseOne(t, folder, e, seq[k])]]
             F(it, s) == IF s = {} THEN t ELSE RecogniseOne(t, folder, it[s \ {Max(s)}], seq[Max(s)])
             iter == CHOOSE it : it = [s \in SUBSET DOMAIN seq |-> F(it, s)]
  <1>1. Recognise(t, folder, nodes) = iter[DOMAIN seq]
    BY DEF Recognise, FoldLeft, MapThenFoldSet
  <1>2. n \in Nat /\ DOMAIN seq = 1..n /\ \A k \in 1..n : seq[k] \in Session
    <2>1. seq \in Seq(Session)
      OBVIOUS
    <2> QED BY <2>1
  <1>0. t \in T
    BY DEF LikeTree
  <1> HIDE DEF seq, n
  <1>3. g \in [1..n -> [T -> T]]
    BY <1>2, RecogniseOneIs
  <1>4. PICK f : Folds(n, T, t, g, f)
    <2> HIDE DEF g
    <2> QED BY <1>0, <1>2, <1>3, FoldExists
  <1>5. \A s \in SUBSET (1..n) : f[s] = F(f, s)
    BY <1>4 DEF Folds
  <1>6. f = [s \in SUBSET DOMAIN seq |-> F(f, s)]
    <2> HIDE DEF F, g
    <2>1. [s \in SUBSET (1..n) |-> f[s]] = [s \in SUBSET (1..n) |-> F(f, s)]
      BY <1>5
    <2> QED BY <1>2, <1>4, <2>1 DEF Folds
  <1>7. iter = [s \in SUBSET DOMAIN seq |-> F(iter, s)]
    BY <1>6
  <1> HIDE DEF iter
  <1>8. iter[{}] \in T
    BY <1>0, <1>7
  <1>9. ASSUME NEW k \in 1..n, iter[1..(k - 1)] \in T
        PROVE  iter[1..k] \in T
    <2>1. 1..k \in SUBSET (1..n) /\ (1..k) # {} /\ Max(1..k) = k /\ (1..k) \ {k} = 1..(k - 1)
      BY <1>2, FoldSteps
    <2>2. iter[1..k] = F(iter, 1..k)
      BY <1>2, <1>7, <2>1
    <2>3. iter[1..k] = RecogniseOne(t, folder, iter[1..(k - 1)], seq[k])
      BY <2>1, <2>2
    <2> QED BY <1>2, <1>9, <2>3, RecogniseOneIs
  <1>10. iter[1..n] \in T
    BY <1>2, <1>8, <1>9, FoldEnds
  <1> QED BY <1>1, <1>2, <1>10 DEF LikeTree

LEMMA FreshOneIs ==
  ASSUME NEW t, NEW folder, NEW out \in Seq(Session), NEW n \in Session
  PROVE  FreshOne(t, folder, out, n) \in Seq(Session)
  BY DEF FreshOne

\* What is left to add is a sequence of sessions.
LEMMA FreshIs ==
  ASSUME NEW t, NEW folder, NEW nodes \in Seq(Session)
  PROVE  Fresh(t, folder, nodes) \in Seq(Session)
  <1> DEFINE seq == nodes
             T == Seq(Session)
             b == <<>>
             n == Len(seq)
             g == [k \in 1..n |-> [e \in T |-> FreshOne(t, folder, e, seq[k])]]
             F(it, s) == IF s = {} THEN b ELSE FreshOne(t, folder, it[s \ {Max(s)}], seq[Max(s)])
             iter == CHOOSE it : it = [s \in SUBSET DOMAIN seq |-> F(it, s)]
  <1>1. Fresh(t, folder, nodes) = iter[DOMAIN seq]
    BY DEF Fresh, FoldLeft, MapThenFoldSet
  <1>2. n \in Nat /\ DOMAIN seq = 1..n /\ \A k \in 1..n : seq[k] \in Session
    <2>1. seq \in Seq(Session)
      OBVIOUS
    <2> QED BY <2>1
  <1>0. b \in T
    OBVIOUS
  <1> HIDE DEF seq, n
  <1>3. g \in [1..n -> [T -> T]]
    BY <1>2, FreshOneIs
  <1>4. PICK f : Folds(n, T, b, g, f)
    <2> HIDE DEF g
    <2> QED BY <1>0, <1>2, <1>3, FoldExists
  <1>5. \A s \in SUBSET (1..n) : f[s] = F(f, s)
    BY <1>4 DEF Folds
  <1>6. f = [s \in SUBSET DOMAIN seq |-> F(f, s)]
    <2> HIDE DEF F, g
    <2>1. [s \in SUBSET (1..n) |-> f[s]] = [s \in SUBSET (1..n) |-> F(f, s)]
      BY <1>5
    <2> QED BY <1>2, <1>4, <2>1 DEF Folds
  <1>7. iter = [s \in SUBSET DOMAIN seq |-> F(iter, s)]
    BY <1>6
  <1> HIDE DEF iter
  <1>8. iter[{}] \in T
    BY <1>0, <1>7
  <1>9. ASSUME NEW k \in 1..n, iter[1..(k - 1)] \in T
        PROVE  iter[1..k] \in T
    <2>1. 1..k \in SUBSET (1..n) /\ (1..k) # {} /\ Max(1..k) = k /\ (1..k) \ {k} = 1..(k - 1)
      BY <1>2, FoldSteps
    <2>2. iter[1..k] = F(iter, 1..k)
      BY <1>2, <1>7, <2>1
    <2>3. iter[1..k] = FreshOne(t, folder, iter[1..(k - 1)], seq[k])
      BY <2>1, <2>2
    <2> QED BY <1>2, <1>9, <2>3, FreshOneIs
  <1>10. iter[1..n] \in T
    BY <1>2, <1>8, <1>9, FoldEnds
  <1> QED BY <1>1, <1>2, <1>10

\* The devices of a map are sessions.
LEMMA MapNodesAre ==
  ASSUME made \in Nat, NEW map \in Maps
  PROVE  /\ MapNodes(map) \in Seq(Session) /\ map.folder \in Words
         /\ Len(map.nodes) \in Nat
  <1>1. map.folder \in Words /\ map.nodes \in Seq(Device)
    BY CallsAssumption
  <1> DEFINE ns == map.nodes
             n == Len(ns)
             renumbered == [i \in DOMAIN ns |-> [ns[i] EXCEPT !.id = made + i]]
             of(d) == [id |-> d.id, kind |-> "ssh", name |-> d.name,
                       host |-> IF d.ip = NoHost THEN d.name[1] ELSE d.ip,
                       port |-> NoPort, attr |-> "", guess |-> d.platform]
  <1> HIDE DEF ns
  <1>2. n \in Nat /\ DOMAIN ns = 1..n /\ \A i \in 1..n : ns[i] \in Device
    BY <1>1 DEF ns
  <1>3. \A i \in 1..n : renumbered[i] \in Device
    <2> SUFFICES ASSUME NEW i \in 1..n PROVE [ns[i] EXCEPT !.id = made + i] \in Device
      BY <1>2
    <2>1. made + i \in Nat
      BY <1>2
    <2> QED BY <1>2, <2>1 DEF Device
  <1>4. ASSUME NEW d \in Device
        PROVE  Normalize(of(d)) \in Session
    <2>1. d.name \in Seq(Words) /\ d.name # <<>> /\ d.ip \in Words /\ d.platform \in Words /\ d.id \in Nat
      BY DEF Device, NoName
    <2>2. d.name[1] \in Words
      BY <2>1
    <2>3. of(d) \in Session
      BY <2>1, <2>2, WordsAssumption DEF Session, Transports, NoPort
    <2> HIDE DEF of
    <2> QED BY <2>3, SessionIs
  <1>5. MapNodes(map) = [i \in DOMAIN renumbered |-> Normalize(of(renumbered[i]))]
    BY DEF MapNodes, NodesFromMap, ns
  <1>6. DOMAIN renumbered = 1..n
    BY <1>2
  <1> HIDE DEF renumbered, of, n
  <1>7. MapNodes(map) \in [1..n -> Session]
    BY <1>3, <1>4, <1>5, <1>6
  <1>8. MapNodes(map) \in Seq(Session)
    BY <1>2, <1>7, SeqDef
  <1> QED BY <1>1, <1>2, <1>8 DEF n, ns

\* An import of a crawl makes a sound tree of a sound one.
LEMMA ImportMapIs ==
  ASSUME made \in Nat, NEW t \in SoundTrees, NEW map \in Maps
  PROVE  ImportMap(t, map) \in SoundTrees
  <1> DEFINE nodes == MapNodes(map)
             f == [name |-> map.folder, sessions |-> Fresh(t, map.folder, nodes)]
  <1>1. nodes \in Seq(Session) /\ map.folder \in Words
    BY MapNodesAre
  <1>2. ImportMap(t, map) = ImportFolder(Recognise(t, map.folder, nodes), f)
    BY DEF ImportMap
  <1> HIDE DEF nodes
  <1>3. f \in [name : Words, sessions : Seq(Session)]
    BY <1>1, FreshIs
  <1>4. Recognise(t, map.folder, nodes) \in SoundTrees
    BY <1>1, RecogniseIs
  <1> HIDE DEF f
  <1> QED BY <1>2, <1>3, <1>4, ImportFolderIs

-----------------------------------------------------------------------------
(* The invariant: what is on disk and what any call is about to save.       *)

Jobs == \A w \in Writers : job[w] = NoJob \/ job[w].tree \in SoundTrees

InventoryInv ==
  /\ TypeOK /\ file \in SoundTrees
  /\ Jobs

\* The values a function takes on a finite set are finitely many.
LEMMA FiniteImage ==
  ASSUME NEW S, IsFiniteSet(S), NEW f, f \in [S -> {f[x] : x \in S}]
  PROVE  IsFiniteSet({f[x] : x \in S})
  <1> DEFINE T == {f[x] : x \in S}
  <1>1. f \in Surjection(S, T)
    BY DEF Surjection
  <1> HIDE DEF T
  <1>2. IsFiniteSet(T)
    BY <1>1, FS_Surjection
  <1> QED BY <1>2 DEF T

\* The places of a tree are finitely many, and so are its sessions, which the first
\* ids are counted from.
LEMMA PlacesAreFinite ==
  ASSUME NEW t \in Tree
  PROVE  IsFiniteSet(Places(t)) /\ Cardinality(Filed(t)) \in Nat
  <1> DEFINE row(i) == {<<i, j>> : j \in DOMAIN t[i].sessions}
             rows == {row(i) : i \in DOMAIN t}
  <1>1. ASSUME NEW i \in DOMAIN t
        PROVE  IsFiniteSet(row(i))
    <2> DEFINE D == DOMAIN t[i].sessions
               f == [j \in D |-> <<i, j>>]
    <2>1. IsFiniteSet(D)
      <3> DEFINE k == Len(t[i].sessions)
      <3>1. D = 1..k /\ k \in Nat
        BY TreeIs
      <3> HIDE DEF D, f, k
      <3>2. IsFiniteSet(1..k)
        BY <3>1, FS_Interval
      <3> QED BY <3>1, <3>2
    <2>2. row(i) = {f[j] : j \in D}
      OBVIOUS
    <2>3. f \in [D -> {f[j] : j \in D}]
      OBVIOUS
    <2>4. IsFiniteSet({f[j] : j \in D})
      <3> HIDE DEF f, D
      <3> QED BY <2>1, <2>3, FiniteImage
    <2> QED BY <2>2, <2>4
  <1>2. IsFiniteSet(rows)
    <2> DEFINE D == DOMAIN t
               f == [i \in D |-> row(i)]
    <2>1. IsFiniteSet(D)
      <3>1. D = 1..Len(t) /\ Len(t) \in Nat
        BY TreeIs
      <3> HIDE DEF D, f, row
      <3>2. IsFiniteSet(1..Len(t))
        BY <3>1, FS_Interval
      <3> QED BY <3>1, <3>2
    <2> HIDE DEF row
    <2>2. rows = {f[i] : i \in D}
      OBVIOUS
    <2>3. f \in [D -> {f[i] : i \in D}]
      OBVIOUS
    <2>4. IsFiniteSet({f[i] : i \in D})
      <3> HIDE DEF f, D
      <3> QED BY <2>1, <2>3, FiniteImage
    <2> QED BY <2>2, <2>4
  <1>3. IsFiniteSet(UNION rows)
    <2>1. \A r \in rows : IsFiniteSet(r)
      BY <1>1
    <2> HIDE DEF rows
    <2> QED BY <1>2, <2>1, FS_UNION
  <1>4. Places(t) = UNION rows
    BY DEF Places
  <1>5. IsFiniteSet(Filed(t))
    <2> DEFINE D == Places(t)
               f == [p \in D |-> At(t, p)]
    <2>1. IsFiniteSet(D)
      BY <1>3, <1>4
    <2>2. Filed(t) = {f[p] : p \in D}
      BY DEF Filed
    <2>3. f \in [D -> {f[p] : p \in D}]
      OBVIOUS
    <2>4. IsFiniteSet({f[p] : p \in D})
      <3> HIDE DEF f, D
      <3> QED BY <2>1, <2>3, FiniteImage
    <2> QED BY <2>2, <2>4
  <1> QED BY <1>3, <1>4, <1>5, FS_CardinalityType

LEMMA InitHolds == Init => InventoryInv
  <1> SUFFICES ASSUME Init PROVE InventoryInv
    OBVIOUS
  <1>1. First0 \in SoundTrees
    BY FileAssumption DEF SoundTrees
  <1>2. made \in Nat
    BY FileAssumption, PlacesAreFinite DEF Init
  <1>3. TypeOK
    BY <1>2, FileAssumption, BoundsAssumption DEF Init, TypeOK
  <1>4. Jobs
    BY DEF Init, Jobs, Writers
  <1> QED BY <1>1, <1>3, <1>4 DEF Init, InventoryInv

\* A call that loads the file: its job is all that changes.
LEMMA LoadsIs ==
  ASSUME InventoryInv, NEW w \in Writers, NEW call, Loads(w, call), call.tree \in SoundTrees
  PROVE  Jobs' /\ (DOMAIN job)' = Writers /\ saves' \in 0..MaxSaves
  <1>1. DOMAIN job = Writers /\ saves \in 0..MaxSaves /\ Jobs
    BY DEF InventoryInv, TypeOK
  <1>2. saves' \in 0..MaxSaves
    BY <1>1, BoundsAssumption DEF Loads
  <1>3. job' = [job EXCEPT ![w] = call]
    BY DEF Loads
  <1> QED BY <1>1, <1>2, <1>3 DEF Jobs

\* A call that ends, with or without its save.
LEMMA EndIs ==
  ASSUME InventoryInv, NEW w \in Writers, job' = [job EXCEPT ![w] = NoJob]
  PROVE  Jobs' /\ (DOMAIN job)' = Writers
  BY DEF InventoryInv, TypeOK, Jobs

\* What is saved is sound.
LEMMA SaveIs ==
  ASSUME InventoryInv, NEW w \in Writers, job[w] # NoJob
  PROVE  job[w].tree \in SoundTrees /\ job[w].tree \in Tree
  BY DEF InventoryInv, Jobs, SoundTrees

\* An Apply that is in flight holds a sound tree.
LEMMA ApplyHolds ==
  ASSUME InventoryInv, NEW w \in Writers, NEW ops \in Seq(Op), Apply(w, ops)
  PROVE  Jobs' /\ (DOMAIN job)' = Writers /\ saves' \in 0..MaxSaves /\ made' \in Nat
  <1> DEFINE ed == Run(file, ops)
  <1>1. ed \in Editors
    BY RunIs DEF InventoryInv, TypeOK
  <1>2. ed.tree \in SoundTrees /\ made' \in Nat
    BY <1>1, EditorIs DEF Apply
  <1> DEFINE call == [kind |-> "apply", from |-> file, tree |-> ed.tree, ops |-> ops,
                      keys |-> ResultKeys(ed), added |-> {k \in ToSet(ed.added) : Alive(ed, k)}]
  <1>3. Loads(w, call)
    BY DEF Apply
  <1>4. call.tree \in SoundTrees
    BY <1>2
  <1> HIDE DEF call
  <1> QED BY <1>2, <1>3, <1>4, LoadsIs

\* So does an import.
LEMMA LoadsMapHolds ==
  ASSUME InventoryInv, NEW w \in Writers, NEW map \in Maps, LoadsMap(w, map)
  PROVE  Jobs' /\ (DOMAIN job)' = Writers /\ saves' \in 0..MaxSaves /\ made' \in Nat
  <1> DEFINE call == [kind |-> "import", from |-> file, tree |-> ImportMap(file, map), map |-> map,
                      nodes |-> MapNodes(map), keys |-> None]
  <1>1. made \in Nat /\ file \in SoundTrees
    BY DEF InventoryInv, TypeOK
  <1>2. call.tree \in SoundTrees
    BY <1>1, ImportMapIs
  <1>3. Loads(w, call)
    BY DEF LoadsMap
  <1>4. made' \in Nat
    BY <1>1, MapNodesAre DEF LoadsMap
  <1> HIDE DEF call
  <1> QED BY <1>2, <1>3, <1>4, LoadsIs

\* Drawing the file anew leaves it alone.
LEMMA SetInventoryHolds ==
  ASSUME InventoryInv, NEW map, setInventory(map)
  PROVE  InventoryInv'
  <1>1. ticks' \subseteq {e.id : e \in view'} /\ window' = "run"
        /\ UNCHANGED <<file, job, made, saves>>
    BY DEF setInventory
  <1> QED BY <1>1 DEF InventoryInv, TypeOK, Jobs

\* The invariant is inductive.
LEMMA StepHolds == InventoryInv /\ [Next]_vars => InventoryInv'
  <1> SUFFICES ASSUME InventoryInv, [Next]_vars PROVE InventoryInv'
    OBVIOUS
  <1> USE DEF InventoryInv, TypeOK
  <1>0. "window" \in Writers /\ "client" \in Writers
    BY DEF Writers
  <1>1. CASE UNCHANGED vars
    BY <1>1 DEF vars, Jobs
  <1>2. CASE DialogOpens \/ DialogLeaves
    BY <1>2 DEF DialogOpens, DialogLeaves, Jobs
  <1>3. ASSUME NEW op \in Edits, DialogApplies(op)
        PROVE  InventoryInv'
    <2>1. <<op>> \in Seq(Op)
      BY CallsAssumption
    <2>2. Jobs' /\ (DOMAIN job)' = Writers /\ saves' \in 0..MaxSaves /\ made' \in Nat
      BY <1>0, <1>3, <2>1, ApplyHolds DEF DialogApplies
    <2> QED BY <1>3, <2>2 DEF DialogApplies
  <1>4. CASE DialogSaves
    <2>1. job["window"].tree \in SoundTrees /\ job["window"].tree \in Tree
      BY <1>0, <1>4, SaveIs DEF DialogSaves
    <2>2. Jobs' /\ (DOMAIN job)' = Writers
      BY <1>0, <1>4, EndIs DEF DialogSaves
    <2> QED BY <1>4, <2>1, <2>2 DEF DialogSaves
  <1>5. CASE DialogCloses \/ Reloads
    BY <1>5, SetInventoryHolds DEF DialogCloses, Reloads
  <1>6. ASSUME NEW e \in view, Tick(e)
        PROVE  InventoryInv'
    <2>1. ticks' \subseteq {x.id : x \in view}
      BY <1>6 DEF Tick
    <2> QED BY <1>6, <2>1 DEF Tick, Jobs
  <1>7. ASSUME NEW m \in Maps, WindowImports(m)
        PROVE  InventoryInv'
    <2>1. CASE LoadsMap("window", m)
      <3>1. Jobs' /\ (DOMAIN job)' = Writers /\ saves' \in 0..MaxSaves /\ made' \in Nat
        BY <1>0, <2>1, LoadsMapHolds
      <3> QED BY <1>7, <3>1 DEF WindowImports
    <2>2. CASE UNCHANGED <<job, made, saves>>
      BY <1>7, <2>2 DEF WindowImports, Jobs
    <2> QED BY <1>7, <2>1, <2>2 DEF WindowImports
  <1>8. ASSUME NEW m \in Maps, ClientImports(m)
        PROVE  InventoryInv'
    <2>1. Jobs' /\ (DOMAIN job)' = Writers /\ saves' \in 0..MaxSaves /\ made' \in Nat
      BY <1>0, <1>8, LoadsMapHolds DEF ClientImports
    <2> QED BY <1>8, <2>1 DEF ClientImports
  <1>9. ASSUME NEW f, WindowRemoves(f)
        PROVE  InventoryInv'
    <2> DEFINE call == [kind |-> "remove", from |-> file, tree |-> RemoveFolder(file, f), keys |-> None]
    <2>1. call.tree \in SoundTrees
      BY <1>9, RemoveFolderIsSound DEF WindowRemoves, CanRemoveFolder
    <2>2. Loads("window", call)
      BY <1>9 DEF WindowRemoves
    <2> HIDE DEF call
    <2>3. Jobs' /\ (DOMAIN job)' = Writers /\ saves' \in 0..MaxSaves
      BY <1>0, <2>1, <2>2, LoadsIs
    <2> QED BY <1>9, <2>3 DEF WindowRemoves
  <1>10. CASE WindowSaves
    <2>1. job["window"].tree \in SoundTrees /\ job["window"].tree \in Tree
      BY <1>0, <1>10, SaveIs DEF WindowSaves
    <2>2. Jobs' /\ (DOMAIN job)' = Writers
      BY <1>0, <1>10, EndIs DEF WindowSaves
    <2> QED BY <1>10, <2>1, <2>2 DEF WindowSaves
  <1>11. ASSUME NEW w \in Writers, SaveFails(w)
         PROVE  InventoryInv'
    <2>1. Jobs' /\ (DOMAIN job)' = Writers
      BY <1>11, EndIs DEF SaveFails
    <2>2. window' \in {"run", "dialog", "edited", "reloads"}
      BY <1>11 DEF SaveFails
    <2> QED BY <1>11, <2>1, <2>2 DEF SaveFails
  <1>12. ASSUME NEW ops \in ClientCalls, ClientApplies(ops)
         PROVE  InventoryInv'
    <2>1. ops \in Seq(Op)
      BY CallsAssumption
    <2>2. Jobs' /\ (DOMAIN job)' = Writers /\ saves' \in 0..MaxSaves /\ made' \in Nat
      BY <1>0, <1>12, <2>1, ApplyHolds DEF ClientApplies
    <2> QED BY <1>12, <2>2 DEF ClientApplies
  <1>13. CASE ClientSaves
    <2>1. job["client"].tree \in SoundTrees /\ job["client"].tree \in Tree
      BY <1>0, <1>13, SaveIs DEF ClientSaves
    <2>2. Jobs' /\ (DOMAIN job)' = Writers
      BY <1>0, <1>13, EndIs DEF ClientSaves
    <2> QED BY <1>13, <2>1, <2>2 DEF ClientSaves
  <1> QED BY <1>1, <1>2, <1>3, <1>4, <1>5, <1>6, <1>7, <1>8, <1>9, <1>10, <1>11, <1>12, <1>13 DEF Next

\* Whoever edits or imports what, in whatever order the calls of the window and of
\* another program load and save: an address names one session of the file, a label
\* one of its folder, a name one folder.
THEOREM TreeIsSoundAlways == Spec => []TreeIsSound
  <1>1. InventoryInv => TreeIsSound
    BY DEF InventoryInv, SoundTrees, TreeIsSound
  <1> QED BY <1>1, InitHolds, StepHolds, PTL DEF Spec

-----------------------------------------------------------------------------
(* Device lists: three folds, each as the values it goes through.            *)

\* An entry is added once.
LEMMA AddEntryIs ==
  ASSUME NEW D, NEW out \in Seq(D), NEW e \in D
  PROVE  /\ AddEntry(out, e) \in Seq(D)
         /\ IsInjective(out) => IsInjective(AddEntry(out, e))
  <1>1. CASE e \in ToSet(out)
    BY <1>1 DEF AddEntry
  <1>2. CASE e \notin ToSet(out)
    <2> DEFINE a == Append(out, e)
    <2>1. AddEntry(out, e) = a
      BY <1>2 DEF AddEntry
    <2>2. /\ a \in Seq(D) /\ Len(out) \in Nat /\ DOMAIN out = 1..Len(out) /\ DOMAIN a = 1..(Len(out) + 1)
          /\ a[Len(out) + 1] = e /\ \A i \in 1..Len(out) : a[i] = out[i]
      OBVIOUS
    <2>3. \A i \in 1..Len(out) : out[i] # e
      BY <1>2, <2>2 DEF ToSet
    <2> HIDE DEF a
    <2>4. ASSUME IsInjective(out), NEW i \in 1..(Len(out) + 1), NEW j \in 1..(Len(out) + 1), a[i] = a[j]
          PROVE  i = j
      <3>1. CASE i = Len(out) + 1 \/ j = Len(out) + 1
        BY <2>2, <2>3, <2>4, <3>1
      <3>2. CASE i # Len(out) + 1 /\ j # Len(out) + 1
        <4>1. i \in 1..Len(out) /\ j \in 1..Len(out)
          BY <2>2, <3>2
        <4> QED BY <2>2, <2>4, <4>1 DEF IsInjective
      <3> QED BY <3>1, <3>2
    <2>5. IsInjective(out) => IsInjective(a)
      BY <2>2, <2>4 DEF IsInjective
    <2> QED BY <2>1, <2>2, <2>5
  <1> QED BY <1>1, <1>2

\* A list is split entry by entry.
LEMMA ParseSteps ==
  ASSUME NEW D, NEW list \in Seq(D)
  PROVE  \E h : /\ h[0] = <<>> /\ ParseDevices(list) = h[Len(list)]
               /\ \A k \in 1..Len(list) : h[k] = AddEntry(h[k - 1], list[k])
  <1> DEFINE seq == list
             T == Seq(D)
             b == <<>>
             n == Len(seq)
             g == [k \in 1..n |-> [e \in T |-> AddEntry(e, seq[k])]]
             F(it, s) == IF s = {} THEN b ELSE AddEntry(it[s \ {Max(s)}], seq[Max(s)])
             iter == CHOOSE it : it = [s \in SUBSET DOMAIN seq |-> F(it, s)]
  <1>1. ParseDevices(list) = iter[DOMAIN seq]
    BY DEF ParseDevices, FoldLeft, MapThenFoldSet
  <1>2. n \in Nat /\ DOMAIN seq = 1..n /\ \A k \in 1..n : seq[k] \in D
    <2>1. seq \in Seq(D)
      OBVIOUS
    <2> QED BY <2>1
  <1>0. b \in T
    OBVIOUS
  <1> HIDE DEF seq, n
  <1>3. g \in [1..n -> [T -> T]]
    BY <1>2, AddEntryIs
  <1>4. PICK f : Folds(n, T, b, g, f)
    <2> HIDE DEF g, T, b
    <2> QED BY <1>0, <1>2, <1>3, FoldExists
  <1>5. \A s \in SUBSET (1..n) : f[s] = F(f, s)
    BY <1>4 DEF Folds
  <1>6. f = [s \in SUBSET DOMAIN seq |-> F(f, s)]
    <2> HIDE DEF F, g
    <2>1. [s \in SUBSET (1..n) |-> f[s]] = [s \in SUBSET (1..n) |-> F(f, s)]
      BY <1>5
    <2> QED BY <1>2, <1>4, <2>1 DEF Folds
  <1>7. iter = [s \in SUBSET DOMAIN seq |-> F(iter, s)]
    BY <1>6
  <1> DEFINE h == [k \in 0..n |-> iter[1..k]]
  <1> HIDE DEF iter
  <1>8. h[0] = b
    <2>1. 1..0 = {} /\ 0 \in 0..n /\ {} \in SUBSET DOMAIN seq
      BY <1>2
    <2> QED BY <1>7, <2>1
  <1>9. ASSUME NEW k \in 1..n
        PROVE  h[k] = AddEntry(h[k - 1], seq[k])
    <2>1. 1..k \in SUBSET (1..n) /\ (1..k) # {} /\ Max(1..k) = k /\ (1..k) \ {k} = 1..(k - 1)
      BY <1>2, FoldSteps
    <2>2. iter[1..k] = F(iter, 1..k)
      BY <1>2, <1>7, <2>1
    <2>3. iter[1..k] = AddEntry(iter[1..(k - 1)], seq[k])
      BY <2>1, <2>2
    <2>4. k \in 0..n /\ k - 1 \in 0..n
      BY <1>2
    <2> QED BY <2>3, <2>4
  <1>10. h[n] = iter[1..n]
    BY <1>2
  <1> HIDE DEF h
  <1> QED BY <1>1, <1>2, <1>8, <1>9, <1>10 DEF seq, n

\* A split list names each entry once.
LEMMA ParseIs ==
  ASSUME NEW D, NEW list \in Seq(D)
  PROVE  ParseDevices(list) \in Seq(D) /\ IsInjective(ParseDevices(list))
  <1> DEFINE n == Len(list)
             P == [k \in 0..n |-> {s \in Seq(D) : IsInjective(s)}]
  <1>1. PICK h : /\ h[0] = <<>> /\ ParseDevices(list) = h[n]
                 /\ \A k \in 1..n : h[k] = AddEntry(h[k - 1], list[k])
    BY ParseSteps
  <1>2. n \in Nat /\ \A k \in 1..n : list[k] \in D
    OBVIOUS
  <1> HIDE DEF n
  <1>3. h[0] \in P[0]
    <2>1. <<>> \in Seq(D) /\ IsInjective(<<>>)
      BY DEF IsInjective
    <2> QED BY <1>1, <1>2, <2>1
  <1>4. ASSUME NEW k \in 1..n, h[k - 1] \in P[k - 1]
        PROVE  h[k] \in P[k]
    <2>1. k \in 0..n /\ k - 1 \in 0..n
      BY <1>2
    <2>2. h[k - 1] \in Seq(D) /\ IsInjective(h[k - 1])
      BY <1>4, <2>1
    <2>3. h[k] = AddEntry(h[k - 1], list[k]) /\ list[k] \in D
      BY <1>1, <1>2
    <2>4. h[k] \in Seq(D) /\ IsInjective(h[k])
      BY <2>2, <2>3, AddEntryIs
    <2> QED BY <2>1, <2>4
  <1> HIDE DEF P
  <1>5. h[n] \in P[n]
    <2>1. \A k \in 0..n : h[k] \in P[k]
      BY <1>2, <1>3, <1>4, Along
    <2> QED BY <1>2, <2>1
  <1> QED BY <1>1, <1>2, <1>5 DEF P

TargetsApart(m) == \A i, j \in DOMAIN m : m[i].target = m[j].target => i = j

\* A device is added once for its target.
Adds(D, out, d, a) ==
  /\ a \in Seq(D) /\ Len(out) <= Len(a)
  /\ \A i \in 1..Len(out) : a[i] = out[i]
  /\ \A i \in DOMAIN a \ DOMAIN out : a[i] = d
  /\ \E i \in DOMAIN a : a[i].target = d.target
  /\ TargetsApart(out) => TargetsApart(a)

LEMMA AddDeviceIs ==
  ASSUME NEW D, NEW out \in Seq(D), NEW d \in D
  PROVE  AddDevice(out, d) \in Seq(D) /\ Adds(D, out, d, AddDevice(out, d))
  <1>0. Len(out) \in Nat /\ DOMAIN out = 1..Len(out)
    OBVIOUS
  <1>1. CASE \E e \in ToSet(out) : e.target = d.target
    <2>1. \E i \in DOMAIN out : out[i].target = d.target
      BY <1>1 DEF ToSet
    <2>2. AddDevice(out, d) = out
      BY <1>1 DEF AddDevice
    <2> QED BY <1>0, <2>1, <2>2 DEF Adds
  <1>2. CASE ~\E e \in ToSet(out) : e.target = d.target
    <2> DEFINE a == Append(out, d)
    <2>1. AddDevice(out, d) = a
      BY <1>2 DEF AddDevice
    <2>2. /\ a \in Seq(D) /\ DOMAIN a = 1..(Len(out) + 1) /\ Len(a) = Len(out) + 1
          /\ a[Len(out) + 1] = d /\ \A i \in 1..Len(out) : a[i] = out[i]
      BY <1>0
    <2>3. \A i \in 1..Len(out) : out[i].target # d.target
      BY <1>0, <1>2 DEF ToSet
    <2> HIDE DEF a
    <2>4. \A i \in DOMAIN a \ DOMAIN out : a[i] = d
      BY <1>0, <2>2
    <2>5. ASSUME TargetsApart(out), NEW i \in DOMAIN a, NEW j \in DOMAIN a, a[i].target = a[j].target
          PROVE  i = j
      <3>1. CASE i = Len(out) + 1 \/ j = Len(out) + 1
        BY <1>0, <2>2, <2>3, <2>5, <3>1
      <3>2. CASE i # Len(out) + 1 /\ j # Len(out) + 1
        <4>1. i \in 1..Len(out) /\ j \in 1..Len(out)
          BY <1>0, <2>2, <3>2
        <4> QED BY <1>0, <2>2, <2>5, <4>1 DEF TargetsApart
      <3> QED BY <3>1, <3>2
    <2>6. \E i \in DOMAIN a : a[i].target = d.target
      BY <1>0, <2>2
    <2>7. Len(out) <= Len(a)
      BY <1>0, <2>2
    <2>8. TargetsApart(out) => TargetsApart(a)
      BY <2>5 DEF TargetsApart
    <2> QED BY <2>1, <2>2, <2>4, <2>6, <2>7, <2>8 DEF Adds
  <1> QED BY <1>1, <1>2

LEMMA MergeSteps ==
  ASSUME NEW D, NEW first \in Seq(D), NEW second \in Seq(D)
  PROVE  \E h : /\ h[0] = first /\ mergeDevices(first, second) = h[Len(second)]
               /\ \A k \in 1..Len(second) : h[k] = AddDevice(h[k - 1], second[k])
  <1> DEFINE seq == second
             T == Seq(D)
             b == first
             n == Len(seq)
             g == [k \in 1..n |-> [e \in T |-> AddDevice(e, seq[k])]]
             F(it, s) == IF s = {} THEN b ELSE AddDevice(it[s \ {Max(s)}], seq[Max(s)])
             iter == CHOOSE it : it = [s \in SUBSET DOMAIN seq |-> F(it, s)]
  <1>1. mergeDevices(first, second) = iter[DOMAIN seq]
    BY DEF mergeDevices, FoldLeft, MapThenFoldSet
  <1>2. n \in Nat /\ DOMAIN seq = 1..n /\ \A k \in 1..n : seq[k] \in D
    <2>1. seq \in Seq(D)
      OBVIOUS
    <2> QED BY <2>1
  <1>0. b \in T
    OBVIOUS
  <1> HIDE DEF seq, n
  <1>3. g \in [1..n -> [T -> T]]
    BY <1>2, AddDeviceIs
  <1>4. PICK f : Folds(n, T, b, g, f)
    <2> HIDE DEF g, T, b
    <2> QED BY <1>0, <1>2, <1>3, FoldExists
  <1>5. \A s \in SUBSET (1..n) : f[s] = F(f, s)
    BY <1>4 DEF Folds
  <1>6. f = [s \in SUBSET DOMAIN seq |-> F(f, s)]
    <2> HIDE DEF F, g
    <2>1. [s \in SUBSET (1..n) |-> f[s]] = [s \in SUBSET (1..n) |-> F(f, s)]
      BY <1>5
    <2> QED BY <1>2, <1>4, <2>1 DEF Folds
  <1>7. iter = [s \in SUBSET DOMAIN seq |-> F(iter, s)]
    BY <1>6
  <1> DEFINE h == [k \in 0..n |-> iter[1..k]]
  <1> HIDE DEF iter
  <1>8. h[0] = b
    <2>1. 1..0 = {} /\ 0 \in 0..n /\ {} \in SUBSET DOMAIN seq
      BY <1>2
    <2> QED BY <1>7, <2>1
  <1>9. ASSUME NEW k \in 1..n
        PROVE  h[k] = AddDevice(h[k - 1], seq[k])
    <2>1. 1..k \in SUBSET (1..n) /\ (1..k) # {} /\ Max(1..k) = k /\ (1..k) \ {k} = 1..(k - 1)
      BY <1>2, FoldSteps
    <2>2. iter[1..k] = F(iter, 1..k)
      BY <1>2, <1>7, <2>1
    <2>3. iter[1..k] = AddDevice(iter[1..(k - 1)], seq[k])
      BY <2>1, <2>2
    <2>4. k \in 0..n /\ k - 1 \in 0..n
      BY <1>2
    <2> QED BY <2>3, <2>4
  <1>10. h[n] = iter[1..n]
    BY <1>2
  <1> HIDE DEF h
  <1> QED BY <1>1, <1>2, <1>8, <1>9, <1>10 DEF seq, n

\* The first k of the second list put after the first.
Merges(D, first, second, k) ==
  {m \in Seq(D) :
     /\ Len(first) <= Len(m) /\ \A i \in 1..Len(first) : m[i] = first[i]
     /\ \A i \in DOMAIN m : i \in 1..Len(first) \/ \E j \in DOMAIN second : m[i] = second[j]
     /\ TargetsApart(m)
     /\ \A j \in 1..k : \E i \in DOMAIN m : m[i].target = second[j].target}

LEMMA MergeIs ==
  ASSUME NEW D, NEW first \in Seq(D), NEW second \in Seq(D),
         TargetsApart(first)
  PROVE  mergeDevices(first, second) \in Merges(D, first, second, Len(second))
  <1> DEFINE n == Len(second)
             P == [k \in 0..n |-> Merges(D, first, second, k)]
  <1>1. PICK h : /\ h[0] = first /\ mergeDevices(first, second) = h[n]
                 /\ \A k \in 1..n : h[k] = AddDevice(h[k - 1], second[k])
    BY MergeSteps
  <1>2. n \in Nat /\ DOMAIN second = 1..n /\ \A k \in 1..n : second[k] \in D
    OBVIOUS
  <1>3. first \in Seq(D) /\ Len(first) \in Nat /\ DOMAIN first = 1..Len(first)
    OBVIOUS
  <1> HIDE DEF n
  <1>4. h[0] \in P[0]
    <2>1. first \in Merges(D, first, second, 0)
      BY <1>3 DEF Merges
    <2> QED BY <1>1, <1>2, <2>1
  <1>5. ASSUME NEW k \in 1..n, h[k - 1] \in P[k - 1]
        PROVE  h[k] \in P[k]
    <2> DEFINE out == h[k - 1]
               a == AddDevice(out, second[k])
    <2>1. k \in 0..n /\ k - 1 \in 0..n /\ second[k] \in D /\ k \in DOMAIN second
      BY <1>2
    <2>2. /\ out \in Seq(D)
          /\ Len(first) <= Len(out) /\ \A i \in 1..Len(first) : out[i] = first[i]
          /\ \A i \in DOMAIN out : i \in 1..Len(first) \/ \E j \in DOMAIN second : out[i] = second[j]
          /\ TargetsApart(out)
          /\ \A j \in 1..(k - 1) : \E i \in DOMAIN out : out[i].target = second[j].target
      BY <1>5, <2>1 DEF Merges
    <2>3. h[k] = a
      BY <1>1
    <2> HIDE DEF out
    <2>4. /\ a \in Seq(D) /\ Len(out) <= Len(a)
          /\ \A i \in 1..Len(out) : a[i] = out[i]
          /\ \A i \in DOMAIN a \ DOMAIN out : a[i] = second[k]
          /\ \E i \in DOMAIN a : a[i].target = second[k].target
          /\ TargetsApart(a)
      <3>1. out \in Seq(D) /\ second[k] \in D /\ TargetsApart(out)
        BY <2>1, <2>2
      <3>2. Adds(D, out, second[k], a)
        BY <3>1, AddDeviceIs
      <3> HIDE DEF a
      <3> QED BY <3>1, <3>2 DEF Adds
    <2>5. Len(out) \in Nat /\ Len(a) \in Nat /\ DOMAIN out = 1..Len(out) /\ DOMAIN a = 1..Len(a)
      BY <2>2, <2>4
    <2> HIDE DEF a
    <2>6. Len(first) <= Len(a) /\ \A i \in 1..Len(first) : a[i] = first[i]
      BY <1>3, <2>2, <2>4, <2>5
    <2>7. ASSUME NEW i \in DOMAIN a
          PROVE  i \in 1..Len(first) \/ \E j \in DOMAIN second : a[i] = second[j]
      <3>1. CASE i \in DOMAIN out
        BY <2>2, <2>4, <2>5, <3>1
      <3>2. CASE i \notin DOMAIN out
        BY <2>1, <2>4, <3>2
      <3> QED BY <3>1, <3>2
    <2>8. ASSUME NEW j \in 1..k
          PROVE  \E i \in DOMAIN a : a[i].target = second[j].target
      <3>1. CASE j = k
        BY <2>4, <3>1
      <3>2. CASE j # k
        <4>1. j \in 1..(k - 1)
          BY <1>2, <3>2
        <4>2. PICK i \in DOMAIN out : out[i].target = second[j].target
          BY <2>2, <4>1
        <4>3. i \in DOMAIN a /\ a[i] = out[i]
          BY <2>4, <2>5, <4>2
        <4> QED BY <4>2, <4>3
      <3> QED BY <3>1, <3>2
    <2>9. a \in Merges(D, first, second, k)
      BY <2>4, <2>6, <2>7, <2>8 DEF Merges
    <2> QED BY <2>1, <2>3, <2>9
  <1> HIDE DEF P
  <1>6. h[n] \in P[n]
    <2>1. \A k \in 0..n : h[k] \in P[k]
      BY <1>2, <1>4, <1>5, Along
    <2> QED BY <1>2, <2>1
  <1> QED BY <1>1, <1>2, <1>6 DEF P, n

\* Places are put in order one by one; a place left over is one of P as long as there is
\* one (FirstIsIn).
LEMMA InOrderSteps ==
  ASSUME NEW t \in Tree, NEW P \in SUBSET Places(t), IsFiniteSet(P)
  PROVE  \E h : /\ h[0] = <<>> /\ InOrder(P) = h[Cardinality(P)]
               /\ \A k \in 1..Cardinality(P) : h[k] = NextOf(P, h[k - 1])
  <1> DEFINE seq == [k \in 1..Cardinality(P) |-> k]
             T == Seq(P \cup {First({})})
             b == <<>>
             n == Cardinality(P)
             g == [k \in 1..n |-> [e \in T |-> NextOf(P, e)]]
             F(it, s) == IF s = {} THEN b ELSE NextOf(P, it[s \ {Max(s)}])
             iter == CHOOSE it : it = [s \in SUBSET DOMAIN seq |-> F(it, s)]
  <1>1. InOrder(P) = iter[DOMAIN seq]
    BY DEF InOrder, FoldLeft, MapThenFoldSet
  <1>2. n \in Nat /\ DOMAIN seq = 1..n
    BY FS_CardinalityType
  <1>0. b \in T
    OBVIOUS
  <1> HIDE DEF n
  <1>3. g \in [1..n -> [T -> T]]
    <2>1. ASSUME NEW e \in T
          PROVE  NextOf(P, e) \in T
      <3>1. First(P \ ToSet(e)) \in P \cup {First({})}
        BY FirstIsIn
      <3> QED BY <3>1 DEF NextOf
    <2> QED BY <2>1
  <1>4. PICK f : Folds(n, T, b, g, f)
    <2> HIDE DEF g, T, b
    <2> QED BY <1>0, <1>2, <1>3, FoldExists
  <1>5. \A s \in SUBSET (1..n) : f[s] = F(f, s)
    BY <1>4 DEF Folds
  <1>6. f = [s \in SUBSET DOMAIN seq |-> F(f, s)]
    <2> HIDE DEF F, g
    <2>1. [s \in SUBSET (1..n) |-> f[s]] = [s \in SUBSET (1..n) |-> F(f, s)]
      BY <1>5
    <2> QED BY <1>2, <1>4, <2>1 DEF Folds
  <1>7. iter = [s \in SUBSET DOMAIN seq |-> F(iter, s)]
    BY <1>6
  <1> DEFINE h == [k \in 0..n |-> iter[1..k]]
  <1> HIDE DEF iter
  <1>8. h[0] = b
    <2>1. 1..0 = {} /\ 0 \in 0..n /\ {} \in SUBSET DOMAIN seq
      BY <1>2
    <2> QED BY <1>7, <2>1
  <1>9. ASSUME NEW k \in 1..n
        PROVE  h[k] = NextOf(P, h[k - 1])
    <2>1. 1..k \in SUBSET (1..n) /\ (1..k) # {} /\ Max(1..k) = k /\ (1..k) \ {k} = 1..(k - 1)
      BY <1>2, FoldSteps
    <2>2. iter[1..k] = F(iter, 1..k)
      BY <1>2, <1>7, <2>1
    <2>3. iter[1..k] = NextOf(P, iter[1..(k - 1)])
      BY <2>1, <2>2
    <2>4. k \in 0..n /\ k - 1 \in 0..n
      BY <1>2
    <2> QED BY <2>3, <2>4
  <1>10. h[n] = iter[1..n]
    BY <1>2
  <1> HIDE DEF h
  <1> QED BY <1>1, <1>2, <1>8, <1>9, <1>10 DEF n

\* Every place of P comes up, and nothing else.
Ordered(P, k) == {s \in Seq(P) : IsFiniteSet(ToSet(s)) /\ Cardinality(ToSet(s)) = k}

LEMMA NextOfIs ==
  ASSUME NEW t \in Tree, NEW P \in SUBSET Places(t), IsFiniteSet(P),
         NEW k \in 1..Cardinality(P), NEW s \in Ordered(P, k - 1)
  PROVE  NextOf(P, s) \in Ordered(P, k)
  <1> DEFINE x == First(P \ ToSet(s))
             a == Append(s, x)
  <1>1. s \in Seq(P) /\ IsFiniteSet(ToSet(s)) /\ Cardinality(ToSet(s)) = k - 1
    BY DEF Ordered
  <1>2. ToSet(s) \subseteq P
    BY <1>1 DEF ToSet
  <1>3. Cardinality(P) \in Nat /\ k - 1 # Cardinality(P)
    BY FS_CardinalityType
  <1>4. P \ ToSet(s) # {}
    <2> SUFFICES ASSUME P \subseteq ToSet(s) PROVE FALSE
      OBVIOUS
    <2>1. ToSet(s) = P
      BY <1>2
    <2> QED BY <1>1, <1>3, <2>1
  <1>5. x \in P /\ x \notin ToSet(s)
    <2>1. P \ ToSet(s) \in SUBSET Places(t)
      OBVIOUS
    <2>2. First(P \ ToSet(s)) \in P \ ToSet(s)
      BY <1>4, <2>1, FirstIsIn
    <2> QED BY <2>2
  <1> HIDE DEF x
  <1>6. /\ a \in Seq(P) /\ Len(s) \in Nat /\ DOMAIN s = 1..Len(s) /\ DOMAIN a = 1..(Len(s) + 1)
        /\ a[Len(s) + 1] = x /\ \A i \in 1..Len(s) : a[i] = s[i]
    BY <1>1, <1>5
  <1> HIDE DEF a
  <1>7. ToSet(a) = ToSet(s) \cup {x}
    <2>1. ASSUME NEW y \in ToSet(a)
          PROVE  y \in ToSet(s) \cup {x}
      <3>1. PICK i \in DOMAIN a : y = a[i]
        BY DEF ToSet
      <3>2. CASE i = Len(s) + 1
        BY <1>6, <3>1, <3>2
      <3>3. CASE i # Len(s) + 1
        <4>1. i \in DOMAIN s /\ y = s[i]
          BY <1>6, <3>1, <3>3
        <4> QED BY <4>1 DEF ToSet
      <3> QED BY <3>2, <3>3
    <2>2. ASSUME NEW y \in ToSet(s)
          PROVE  y \in ToSet(a)
      <3>1. PICK i \in DOMAIN s : y = s[i]
        BY DEF ToSet
      <3>2. i \in DOMAIN a /\ y = a[i]
        BY <1>6, <3>1
      <3> QED BY <3>2 DEF ToSet
    <2>3. x \in ToSet(a)
      <3>1. Len(s) + 1 \in DOMAIN a
        BY <1>6
      <3> QED BY <1>6, <3>1 DEF ToSet
    <2> QED BY <2>1, <2>2, <2>3
  <1>8. IsFiniteSet(ToSet(a)) /\ Cardinality(ToSet(a)) = k
    <2>1. /\ IsFiniteSet(ToSet(s) \cup {x})
          /\ Cardinality(ToSet(s) \cup {x}) = IF x \in ToSet(s) THEN Cardinality(ToSet(s)) ELSE Cardinality(ToSet(s)) + 1
      BY <1>1, FS_AddElement
    <2>2. k - 1 + 1 = k
      BY <1>3
    <2> QED BY <1>1, <1>5, <1>7, <2>1, <2>2
  <1> QED BY <1>6, <1>8 DEF NextOf, Ordered, a, x

LEMMA InOrderIs ==
  ASSUME NEW t \in Tree, NEW P \in SUBSET Places(t)
  PROVE  InOrder(P) \in Seq(P) /\ ToSet(InOrder(P)) = P
  <1> DEFINE n == Cardinality(P)
             R == [k \in 0..n |-> Ordered(P, k)]
  <1>1. IsFiniteSet(P)
    BY PlacesAreFinite, FS_Subset
  <1>2. n \in Nat
    BY <1>1, FS_CardinalityType
  <1>3. PICK h : /\ h[0] = <<>> /\ InOrder(P) = h[n]
                 /\ \A k \in 1..n : h[k] = NextOf(P, h[k - 1])
    BY <1>1, InOrderSteps
  <1>4. h[0] \in R[0]
    <2>1. <<>> \in Seq(P) /\ ToSet(<<>>) = {}
      BY DEF ToSet
    <2>2. IsFiniteSet({}) /\ Cardinality({}) = 0
      BY FS_EmptySet
    <2>3. <<>> \in Ordered(P, 0)
      BY <2>1, <2>2 DEF Ordered
    <2> HIDE DEF n
    <2> QED BY <1>2, <1>3, <2>3
  <1>5. ASSUME NEW k \in 1..n, h[k - 1] \in R[k - 1]
        PROVE  h[k] \in R[k]
    <2>1. h[k] = NextOf(P, h[k - 1])
      BY <1>3
    <2>2. h[k - 1] \in Ordered(P, k - 1) /\ R[k] = Ordered(P, k)
      <3> HIDE DEF n
      <3> QED BY <1>2, <1>5
    <2>3. NextOf(P, h[k - 1]) \in Ordered(P, k)
      BY <1>1, <2>2, NextOfIs
    <2> QED BY <2>1, <2>2, <2>3
  <1>6. InOrder(P) \in Ordered(P, n)
    <2> HIDE DEF R, n
    <2>1. \A k \in 0..n : h[k] \in R[k]
      BY <1>2, <1>4, <1>5, Along
    <2>2. n \in 0..n
      BY <1>2
    <2> QED BY <1>3, <2>1, <2>2 DEF R
  <1>7. InOrder(P) \in Seq(P) /\ Cardinality(ToSet(InOrder(P))) = n
    BY <1>6 DEF Ordered
  <1>8. ToSet(InOrder(P)) \in SUBSET P
    BY <1>7 DEF ToSet
  <1> QED BY <1>1, <1>7, <1>8, FS_Subset

\* Where an address names one session, what is asked for is what is picked.
LEMMA SelectedIs ==
  ASSUME NEW t \in Tree, KeysApart(t), NEW match, NEW ks, NEW p \in Places(t), Key(At(t, p)) # NoKey
  PROVE  p \in selectSessions(t, match, ks) <=>
           Key(At(t, p)) \in ks \/ \E pat \in match : Matches(pat, At(t, p))
  <1> DEFINE asked == \E pat \in match : Matches(pat, At(t, p))
             byPattern == Select(t, match)
             byKey == SelectKeys(t, ks)
             picked == {Mark(t, q) : q \in byPattern \cup byKey}
             same == {q \in Places(t) : Mark(t, q) \in picked /\ Key(At(t, q)) = Key(At(t, p))}
  <1>1. \A q \in Places(t) : Key(At(t, q)) = Key(At(t, p)) => q = p
    BY DEF KeysApart
  <1>2. p[1] \in Nat /\ p[2] \in Nat /\ p[2] <= p[2]
    <2>1. \A k \in DOMAIN t : k \in Nat /\ DOMAIN t[k].sessions \subseteq Nat
      BY TreeIs
    <2> QED BY <2>1, PlacesAre
  <1>3. p \in byPattern <=> asked
    BY <1>1, <1>2 DEF Select, Picked
  <1>4. p \in byKey <=> Key(At(t, p)) \in ks
    BY <1>1, <1>2 DEF SelectKeys, Picked
  <1>5. byPattern \subseteq Places(t) /\ byKey \subseteq Places(t)
    BY DEF Select, SelectKeys, Picked
  <1> HIDE DEF byPattern, byKey
  <1>6. Mark(t, p) \in picked <=> p \in byPattern \/ p \in byKey
    <2>1. ASSUME NEW q \in byPattern \cup byKey, Mark(t, q) = Mark(t, p)
          PROVE  q = p
      <3>1. Key(At(t, q)) = Key(At(t, p))
        BY <2>1 DEF Mark
      <3> QED BY <1>1, <1>5, <3>1
    <2> QED BY <2>1
  <1>7. Mark(t, p) \in picked => p = First(same)
    <2> SUFFICES ASSUME Mark(t, p) \in picked PROVE p = First(same)
      OBVIOUS
    <2>1. same = {p}
      BY <1>1
    <2> HIDE DEF same, picked
    <2>2. First(same) \in same
      BY <2>1, FirstIsIn
    <2> QED BY <2>1, <2>2
  <1>8. CASE ks = {}
    BY <1>3, <1>8 DEF selectSessions, byPattern
  <1>9. CASE ks # {} /\ byPattern = {}
    BY <1>3, <1>4, <1>9 DEF selectSessions, byPattern, byKey
  <1>10. CASE ks # {} /\ byPattern # {}
    <2>1. p \in selectSessions(t, match, ks) <=> Mark(t, p) \in picked /\ p = First(same)
      BY <1>10 DEF selectSessions, byPattern, byKey
    <2> HIDE DEF picked, same
    <2> QED BY <1>3, <1>4, <1>6, <1>7, <2>1
  <1> QED BY <1>8, <1>9, <1>10

\* A target tells a device that is dialled from every other.
LEMMA TargetTellsKey ==
  ASSUME NEW s \in Session, NEW x \in Session, Dialable(s), Dialable(x), Target(s) = Target(x)
  PROVE  Key(s) = Key(x)
  <1>1. ASSUME NEW d \in Session, Dialable(d)
        PROVE  /\ Target(d) = (IF d.port \in {NoPort, "22"} THEN <<d.host>> ELSE <<d.host, d.port>>)
               /\ Key(d) = <<"ssh", d.host, IF d.port = NoPort THEN "22" ELSE d.port>>
    <2>1. d.kind = "ssh" /\ d.host # NoHost /\ DefaultPort("ssh") = "22"
      BY <1>1, Ports DEF Dialable
    <2>2. Normalize(d).port = IF d.port = NoPort THEN "22" ELSE d.port
      BY <2>1 DEF Normalize, Session
    <2> QED BY <2>1, <2>2 DEF Target, Key
  <1>2. CASE s.port \in {NoPort, "22"}
    <2>1. Target(s) = <<s.host>>
      BY <1>1, <1>2
    <2>2. x.port \in {NoPort, "22"} /\ x.host = s.host
      <3>1. x.port \notin {NoPort, "22"} => Len(Target(x)) = 2
        BY <1>1
      <3>2. Len(Target(s)) = 1
        BY <2>1
      <3>3. x.port \in {NoPort, "22"}
        BY <3>1, <3>2
      <3>4. <<x.host>> = <<s.host>>
        BY <1>1, <2>1, <3>3
      <3> QED BY <3>3, <3>4
    <2> QED BY <1>1, <1>2, <2>2 DEF NoPort
  <1>3. CASE s.port \notin {NoPort, "22"}
    <2>1. Target(s) = <<s.host, s.port>>
      BY <1>1, <1>3
    <2>2. x.port \notin {NoPort, "22"}
      <3>1. x.port \in {NoPort, "22"} => Len(Target(x)) = 1
        BY <1>1
      <3>2. Len(Target(s)) = 2
        BY <2>1
      <3> QED BY <3>1, <3>2
    <2>3. <<x.host, x.port>> = <<s.host, s.port>>
      BY <1>1, <2>1, <2>2
    <2>4. x.host = s.host /\ x.port = s.port
      BY <2>3
    <2> QED BY <1>1, <1>3, <2>2, <2>4
  <1> QED BY <1>2, <1>3

\* The devices of the sessions picked are those of the sessions asked for.
LEMMA SessionDevicesAre ==
  ASSUME NEW t \in Tree, KeysApart(t), NEW p, p.sessionFile = (p.match # {} \/ p.keys # {})
  PROVE  /\ SessionDevices(t, p) \in Seq({sessionDevice(s) : s \in Chosen(t, p)})
         /\ \A s \in Chosen(t, p) : \E i \in DOMAIN SessionDevices(t, p) : SessionDevices(t, p)[i] = sessionDevice(s)
  <1> DEFINE D == {sessionDevice(s) : s \in Chosen(t, p)}
             sel == selectSessions(t, p.match, p.keys)
             P == {q \in sel : Dialable(At(t, q))}
             dial == InOrder(P)
             S == [i \in DOMAIN dial |-> sessionDevice(At(t, dial[i]))]
  <1>1. CASE ~p.sessionFile
    <2>1. p.match = {} /\ p.keys = {}
      BY <1>1
    <2>2. Chosen(t, p) = {}
      BY <2>1 DEF Chosen
    <2>3. SessionDevices(t, p) = <<>>
      BY <1>1 DEF SessionDevices
    <2> QED BY <2>2, <2>3
  <1>2. CASE p.sessionFile
    <2>1. SessionDevices(t, p) = S
      BY <1>2 DEF SessionDevices
    <2>2. sel \subseteq Places(t)
      BY DEF selectSessions, Select, SelectKeys, Picked
    <2>3. ASSUME NEW q \in Places(t), Dialable(At(t, q))
          PROVE  q \in sel <=> At(t, q) \in Chosen(t, p)
      <3>1. Key(At(t, q)) # NoKey
        BY <2>3 DEF Dialable, Key, NoKey
      <3>2. q \in sel <=> Key(At(t, q)) \in p.keys \/ \E pat \in p.match : Matches(pat, At(t, q))
        BY <3>1, SelectedIs
      <3>3. At(t, q) \in Filed(t)
        BY DEF Filed
      <3> HIDE DEF sel
      <3> QED BY <2>3, <3>2, <3>3 DEF Chosen
    <2> HIDE DEF sel
    <2>4. P \in SUBSET Places(t)
      BY <2>2
    <2>5. dial \in Seq(P) /\ ToSet(dial) = P
      <3> HIDE DEF P
      <3> QED BY <2>4, InOrderIs
    <2>6. \A q \in P : At(t, q) \in Chosen(t, p)
      BY <2>2, <2>3
    <2>7. \A s \in Chosen(t, p) : \E q \in P : At(t, q) = s
      <3> SUFFICES ASSUME NEW s \in Chosen(t, p) PROVE \E q \in P : At(t, q) = s
        OBVIOUS
      <3>1. PICK q \in Places(t) : s = At(t, q)
        BY DEF Chosen, Filed
      <3>2. Dialable(At(t, q))
        BY <3>1 DEF Chosen
      <3> QED BY <2>3, <3>1, <3>2
    <2> HIDE DEF P, dial
    <2>8. Len(dial) \in Nat /\ DOMAIN dial = 1..Len(dial) /\ \A i \in DOMAIN dial : dial[i] \in P
      BY <2>5
    <2>9. S \in Seq(D)
      <3>1. \A i \in DOMAIN dial : sessionDevice(At(t, dial[i])) \in D
        BY <2>6, <2>8
      <3> HIDE DEF D
      <3>2. S \in [1..Len(dial) -> D]
        BY <2>8, <3>1
      <3> QED BY <2>8, <3>2, SeqDef
    <2>10. ASSUME NEW s \in Chosen(t, p)
           PROVE  \E i \in DOMAIN S : S[i] = sessionDevice(s)
      <3>1. PICK q \in P : At(t, q) = s
        BY <2>7
      <3>2. PICK i \in DOMAIN dial : dial[i] = q
        BY <2>5 DEF ToSet
      <3> QED BY <3>1, <3>2
    <2> HIDE DEF S
    <2> QED BY <2>1, <2>9, <2>10
  <1> QED BY <1>1, <1>2

\* The targets listed, each once.
LEMMA TargetsAre ==
  ASSUME NEW p, p.devices \in Seq(KeyWords), p.listed \in Seq(KeyWords) \cup {NoList}
  PROVE  Targets(p) \in Seq(KeyWords) /\ IsInjective(Targets(p))
  <1> DEFINE list == p.devices \o (IF p.listed = NoList THEN <<>> ELSE p.listed)
  <1>1. (IF p.listed = NoList THEN <<>> ELSE p.listed) \in Seq(KeyWords)
    OBVIOUS
  <1>2. list \in Seq(KeyWords)
    BY <1>1, ConcatProperties
  <1>3. Targets(p) = ParseDevices(list)
    BY DEF Targets
  <1> HIDE DEF list
  <1> QED BY <1>2, <1>3, ParseIs

\* What a run visits: the listed targets, then the sessions asked for.
LEMMA DevicesAre ==
  ASSUME NEW t \in Tree, KeysApart(t), NEW p, p.sessionFile = (p.match # {} \/ p.keys # {}),
         p.devices \in Seq(KeyWords), p.listed \in Seq(KeyWords) \cup {NoList}
  PROVE  LET all == Targets(p)
             ds == Devices(t, p)
         IN  /\ all \in Seq(KeyWords)
             /\ Len(ds) \in Nat /\ DOMAIN ds = 1..Len(ds) /\ Len(all) <= Len(ds)
             /\ \A i \in 1..Len(all) : ds[i].target = all[i]
             /\ \A i \in DOMAIN ds : i \in 1..Len(all) \/ \E s \in Chosen(t, p) : ds[i] = sessionDevice(s)
             /\ TargetsApart(ds)
             /\ \A s \in Chosen(t, p) : \E i \in DOMAIN ds : ds[i].target = Target(s)
  <1> DEFINE all == Targets(p)
             first == ResolveTargets(p)
             second == SessionDevices(t, p)
             ds == Devices(t, p)
             C == Chosen(t, p)
             D == {first[i] : i \in DOMAIN first} \cup {sessionDevice(s) : s \in C}
  <1>1. all \in Seq(KeyWords) /\ IsInjective(all)
    BY TargetsAre
  <1>2. second \in Seq({sessionDevice(s) : s \in C}) /\ \A s \in C : \E j \in DOMAIN second : second[j] = sessionDevice(s)
    BY SessionDevicesAre
  <1>3. DOMAIN first = DOMAIN all /\ \A i \in DOMAIN all : first[i].target = all[i]
    BY DEF ResolveTargets
  <1>4. ds = mergeDevices(first, second)
    BY DEF Devices
  <1>5. \A s \in C : sessionDevice(s).target = Target(s)
    BY DEF sessionDevice
  <1>6. first = [i \in DOMAIN all |-> first[i]]
    BY DEF ResolveTargets
  <1> HIDE DEF all, first, second, ds, C
  <1>7. Len(all) \in Nat /\ DOMAIN all = 1..Len(all)
    BY <1>1
  <1>8. first \in Seq(D) /\ Len(first) = Len(all)
    <2>1. \A i \in DOMAIN all : first[i] \in D
      BY <1>3
    <2> HIDE DEF D
    <2>2. first \in [1..Len(all) -> D]
      BY <1>6, <1>7, <2>1
    <2> QED BY <1>7, <2>2, SeqDef
  <1>9. second \in Seq(D) /\ DOMAIN second = 1..Len(second) /\ Len(second) \in Nat
        /\ \A j \in DOMAIN second : \E s \in C : second[j] = sessionDevice(s)
    <2> DEFINE E == {sessionDevice(s) : s \in C}
    <2>1. \A e \in E : e \in D /\ \E s \in C : e = sessionDevice(s)
      OBVIOUS
    <2>2. second \in Seq(E)
      BY <1>2
    <2> HIDE DEF E, D
    <2>3. DOMAIN second = 1..Len(second) /\ Len(second) \in Nat /\ \A j \in DOMAIN second : second[j] \in E
      BY <2>2
    <2>4. second \in Seq(D)
      BY <2>1, <2>2
    <2> QED BY <2>1, <2>3, <2>4
  <1> HIDE DEF D
  <1>10. TargetsApart(first)
    BY <1>1, <1>3 DEF TargetsApart, IsInjective
  <1>11. ds \in Merges(D, first, second, Len(second))
    BY <1>4, <1>8, <1>9, <1>10, MergeIs
  <1>12. /\ ds \in Seq(D) /\ Len(first) <= Len(ds) /\ \A i \in 1..Len(first) : ds[i] = first[i]
         /\ \A i \in DOMAIN ds : i \in 1..Len(first) \/ \E j \in DOMAIN second : ds[i] = second[j]
         /\ TargetsApart(ds)
         /\ \A j \in 1..Len(second) : \E i \in DOMAIN ds : ds[i].target = second[j].target
    BY <1>11 DEF Merges
  <1>13. Len(ds) \in Nat /\ DOMAIN ds = 1..Len(ds)
    BY <1>12
  <1>14. Len(all) <= Len(ds) /\ \A i \in 1..Len(all) : ds[i].target = all[i]
    BY <1>3, <1>7, <1>8, <1>12
  <1>15. \A i \in DOMAIN ds : i \in 1..Len(all) \/ \E s \in C : ds[i] = sessionDevice(s)
    BY <1>8, <1>9, <1>12
  <1>16. ASSUME NEW s \in C
         PROVE  \E i \in DOMAIN ds : ds[i].target = Target(s)
    <2>1. PICK j \in DOMAIN second : second[j] = sessionDevice(s)
      BY <1>2
    <2>2. PICK i \in DOMAIN ds : ds[i].target = second[j].target
      BY <1>9, <1>12, <2>1
    <2> QED BY <1>5, <2>1, <2>2
  <1> QED BY <1>1, <1>12, <1>13, <1>14, <1>15, <1>16 DEF all, ds, C

\* The list is what was asked for, where an address names one session.
LEMMA ListIs ==
  ASSUME NEW t \in Tree, KeysApart(t), NEW p, p.sessionFile = (p.match # {} \/ p.keys # {}),
         p.devices \in Seq(KeyWords), p.listed \in Seq(KeyWords) \cup {NoList}
  PROVE  VisitsWhatIsAsked(t, p)
  <1> DEFINE all == Targets(p)
             ds == Devices(t, p)
             targets == [i \in DOMAIN ds |-> ds[i].target]
             C == Chosen(t, p)
  <1>1. /\ all \in Seq(KeyWords)
        /\ Len(ds) \in Nat /\ DOMAIN ds = 1..Len(ds) /\ Len(all) <= Len(ds)
        /\ \A i \in 1..Len(all) : ds[i].target = all[i]
        /\ \A i \in DOMAIN ds : i \in 1..Len(all) \/ \E s \in C : ds[i] = sessionDevice(s)
        /\ TargetsApart(ds)
        /\ \A s \in C : \E i \in DOMAIN ds : ds[i].target = Target(s)
    BY DevicesAre
  <1>2. \A s \in C : /\ sessionDevice(s).target = Target(s) /\ sessionDevice(s).attr = s.attr
                     /\ sessionDevice(s).identity = IF s.name \in {NoName, Target(s)} THEN Known(<<s.host>>) ELSE s.name
    BY DEF sessionDevice
  <1>3. \A s \in C : s \in Session /\ Dialable(s) /\ \E q \in Places(t) : s = At(t, q)
    BY PlacesAre DEF Chosen, Filed
  <1> HIDE DEF all, ds, C
  <1>4. Len(all) \in Nat /\ DOMAIN all = 1..Len(all)
    BY <1>1
  <1>5. \A i, j \in DOMAIN targets : targets[i] = targets[j] => i = j
    BY <1>1 DEF TargetsApart
  <1>6. IsPrefix(all, targets)
    <2> DEFINE V == {ds[i].target : i \in DOMAIN ds} \cup KeyWords
    <2>1. targets \in Seq(V) /\ Len(targets) = Len(ds)
      <3>1. targets \in [1..Len(ds) -> V]
        BY <1>1
      <3> HIDE DEF targets, V
      <3> QED BY <1>1, <3>1, SeqDef
    <2>2. all \in Seq(V)
      <3>1. KeyWords \subseteq V
        OBVIOUS
      <3> HIDE DEF V
      <3> QED BY <1>1, <3>1
    <2>3. \A i \in 1..Len(all) : targets[i] = all[i]
      BY <1>1, <1>4
    <2> HIDE DEF targets, V
    <2>4. SubSeq(all, 1, Len(all)) = SubSeq(targets, 1, Len(all))
      BY <1>1, <1>4, <2>1, <2>2, <2>3
    <2> QED BY <1>1, <2>1, <2>4 DEF IsPrefix
  <1>7. ASSUME NEW x \in ToSet(targets)
        PROVE  x \in ToSet(all) \cup {Target(s) : s \in C}
    <2>1. PICK i \in DOMAIN ds : x = ds[i].target
      BY DEF ToSet
    <2>2. CASE i \in 1..Len(all)
      BY <1>1, <1>4, <2>1, <2>2 DEF ToSet
    <2>3. CASE \E s \in C : ds[i] = sessionDevice(s)
      BY <1>2, <2>1, <2>3
    <2> QED BY <1>1, <2>2, <2>3
  <1>8. ASSUME NEW x \in ToSet(all)
        PROVE  x \in ToSet(targets)
    <2>1. PICK i \in 1..Len(all) : x = all[i]
      BY <1>4 DEF ToSet
    <2>2. i \in DOMAIN ds /\ targets[i] = x
      BY <1>1, <1>4, <2>1
    <2> QED BY <2>2 DEF ToSet
  <1>9. ASSUME NEW s \in C
        PROVE  Target(s) \in ToSet(targets)
    <2>1. PICK i \in DOMAIN ds : ds[i].target = Target(s)
      BY <1>1
    <2> QED BY <2>1 DEF ToSet
  <1>10. ASSUME NEW s \in C, Target(s) \notin ToSet(all)
         PROVE  sessionDevice(s) \in ToSet(ds)
    <2>1. PICK i \in DOMAIN ds : ds[i].target = Target(s)
      BY <1>1
    <2>2. i \notin 1..Len(all)
      BY <1>1, <1>4, <1>10, <2>1 DEF ToSet
    <2>3. PICK x \in C : ds[i] = sessionDevice(x)
      BY <1>1, <2>2
    <2>4. Target(x) = Target(s)
      BY <1>2, <2>1, <2>3
    <2>5. Key(x) = Key(s)
      BY <1>3, <2>4, TargetTellsKey
    <2>6. Key(s) # NoKey
      BY <1>3 DEF Dialable, Key, NoKey
    <2>7. x = s
      BY <1>3, <2>5, <2>6 DEF KeysApart
    <2> QED BY <2>3, <2>7 DEF ToSet
  <1>11. ToSet(targets) = ToSet(all) \cup {Target(s) : s \in C}
    <2> HIDE DEF targets
    <2> QED BY <1>7, <1>8, <1>9
  <1>12. ASSUME NEW s \in C, Target(s) \notin ToSet(all)
         PROVE  \E d \in ToSet(ds) :
                  /\ d.target = Target(s) /\ d.attr = s.attr
                  /\ d.identity = IF s.name \in {NoName, Target(s)} THEN Known(<<s.host>>) ELSE s.name
    BY <1>2, <1>10, <1>12
  <1> HIDE DEF targets
  <1> QED BY <1>5, <1>6, <1>11, <1>12 DEF VisitsWhatIsAsked, all, ds, targets, C

\* At any moment the Run view can be asked for a run, whatever was edited, imported or
\* saved by whom: the run visits each target once, the listed ones first, and with them
\* every SSH session that is ticked or matched, each under its own name and settings.
THEOREM RunIsTheSelectionAlways == Spec => []RunIsTheSelection
  <1>1. ASSUME InventoryInv
        PROVE  RunIsTheSelection
    <2>1. file \in Tree /\ KeysApart(file)
      BY <1>1 DEF InventoryInv, SoundTrees, SoundTree
    <2> SUFFICES ASSUME NEW r \in Requests
                 PROVE  VisitsWhatIsAsked(file, Asked(r, CheckedKeys))
      BY DEF RunIsTheSelection
    <2> DEFINE p == Asked(r, CheckedKeys)
    <2>2. r.devices \in Seq(KeyWords) /\ r.listed \in Seq(KeyWords) \cup {NoList}
      BY RequestsAssumption
    <2>3. /\ p.devices \in Seq(KeyWords) /\ p.listed \in Seq(KeyWords) \cup {NoList}
          /\ p.sessionFile = (p.match # {} \/ p.keys # {})
      BY <2>2 DEF Asked
    <2> HIDE DEF p
    <2>4. VisitsWhatIsAsked(file, p)
      BY <2>1, <2>3, ListIs
    <2> QED BY <2>4 DEF p
  <1>2. InventoryInv => RunIsTheSelection
    BY <1>1
  <1> QED BY <1>2, InitHolds, StepHolds, PTL DEF Spec
=============================================================================
