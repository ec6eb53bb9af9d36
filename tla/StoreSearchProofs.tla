-------------------------- MODULE StoreSearchProofs --------------------------
(***************************************************************************)
(* What a search answers, proved for any store, any pool of workers and    *)
(* any limit.                                                              *)
(*                                                                         *)
(* The limit is a sum over the artifacts, and the library's sums are       *)
(* recursive: the first section shows, by least counterexamples, that such *)
(* a sum exists and what one changed term does to it.  The invariant then  *)
(* follows each artifact from the listing to the worker that has it: a     *)
(* target is nobody's twice (Handed), and none is lost on the way          *)
(* (Accounted).                                                            *)
(***************************************************************************)
EXTENDS StoreSearch, FiniteSetTheorems, WellFoundedInduction, TLAPS

-----------------------------------------------------------------------------
(* Sums over a finite set.                                                 *)

\* Induction over the subsets of a finite set, as the least counterexample.
LEMMA LeastSet ==
  ASSUME NEW U, IsFiniteSet(U), NEW T, T \subseteq SUBSET U, T # {}
  PROVE  \E x \in T : \A y \in T : ~(y \subseteq x /\ y # x)
  <1> DEFINE R == StrictSubsetOrdering(U)
  <1>1. IsWellFoundedOn(R, SUBSET U)
    BY FS_StrictSubsetOrderingWellFounded, FS_FiniteSubsetsOfFinite
  <1>2. \A x, y \in T : y \subseteq x /\ y # x => <<y, x>> \in R
    BY DEF StrictSubsetOrdering
  <1> HIDE DEF R
  <1>3. \E x \in T : \A y \in T : <<y, x>> \notin R
    BY <1>1, WFMin
  <1> QED BY <1>2, <1>3

First(s) == CHOOSE x \in s : TRUE

\* What adds f up, one element after the other.
Adds(h, f, S) ==
  h = [s \in SUBSET S |-> IF s = {} THEN 0 ELSE f[First(s)] + h[s \ {First(s)}]]

LEMMA FirstOfMany ==
  ASSUME NEW s, s # {}
  PROVE  First(s) \in s
BY DEF First

LEMMA AddsStep ==
  ASSUME NEW f, NEW S, NEW h, Adds(h, f, S)
  PROVE  /\ h[{}] = 0
         /\ \A s \in SUBSET S : s # {} => h[s] = f[First(s)] + h[s \ {First(s)}]
  <1>1. SUFFICES ASSUME NEW s \in SUBSET S
                 PROVE  h[s] = IF s = {} THEN 0 ELSE f[First(s)] + h[s \ {First(s)}]
    OBVIOUS
  <1> DEFINE g == [r \in SUBSET S |-> IF r = {} THEN 0 ELSE f[First(r)] + h[r \ {First(r)}]]
  <1>2. h = g
    BY DEF Adds
  <1>3. g[s] = IF s = {} THEN 0 ELSE f[First(s)] + h[s \ {First(s)}]
    OBVIOUS
  <1> HIDE DEF g
  <1> QED BY <1>2, <1>3

LEMMA AddsAgree ==
  ASSUME NEW f, NEW S, IsFiniteSet(S), NEW h, Adds(h, f, S),
         NEW R \in SUBSET S, NEW g, Adds(g, f, R)
  PROVE  g[R] = h[R]
  <1> DEFINE T == {s \in SUBSET R : g[s] # h[s]}
  <1>1. SUFFICES T = {}
    OBVIOUS
  <1>2. SUFFICES ASSUME T # {}
                 PROVE  FALSE
    OBVIOUS
  <1>3. IsFiniteSet(R) /\ T \subseteq SUBSET R
    BY FS_Subset
  <1>4. PICK s \in T : \A r \in T : ~(r \subseteq s /\ r # s)
    <2> HIDE DEF T
    <2> QED BY <1>2, <1>3, LeastSet
  <1>5. s \in SUBSET R /\ s \in SUBSET S
    OBVIOUS
  <1>6. s # {}
    BY <1>5, AddsStep
  <1>7. First(s) \in s /\ s \ {First(s)} \in SUBSET R /\ s \ {First(s)} # s
    BY <1>5, <1>6, FirstOfMany
  <1>8. g[s \ {First(s)}] = h[s \ {First(s)}]
    BY <1>4, <1>7
  <1>9. g[s] = f[First(s)] + g[s \ {First(s)}] /\ h[s] = f[First(s)] + h[s \ {First(s)}]
    BY <1>5, <1>6, AddsStep
  <1> QED BY <1>4, <1>8, <1>9

\* The sum over S, as whatever adds f up over S has it.
Total(f, S) == (CHOOSE h : Adds(h, f, S))[S]

LEMMA TotalStep ==
  ASSUME NEW f, NEW S, IsFiniteSet(S), NEW h, Adds(h, f, S)
  PROVE  /\ S = {} => Total(f, S) = 0
         /\ S # {} => /\ First(S) \in S
                      /\ \A g : Adds(g, f, S \ {First(S)}) =>
                           Total(f, S) = f[First(S)] + Total(f, S \ {First(S)})
  <1> DEFINE k == CHOOSE g : Adds(g, f, S)
             r == S \ {First(S)}
             l == CHOOSE g : Adds(g, f, r)
  <1>1. Adds(k, f, S) /\ Total(f, S) = k[S]
    BY DEF Total
  <1>2. ASSUME NEW g, Adds(g, f, r)
        PROVE  Adds(l, f, r) /\ Total(f, r) = l[r]
    BY <1>2 DEF Total
  <1> HIDE DEF k, l
  <1>3. k[{}] = 0 /\ (S # {} => k[S] = f[First(S)] + k[r])
    BY <1>1, AddsStep
  <1>4. ASSUME NEW g, Adds(g, f, r)
        PROVE  l[r] = k[r]
    <2>1. r \in SUBSET S
      OBVIOUS
    <2> HIDE DEF r
    <2> QED BY <1>1, <1>2, <1>4, <2>1, AddsAgree
  <1> QED BY <1>1, <1>2, <1>3, <1>4, FirstOfMany

LEMMA AddsExists ==
  ASSUME NEW f, NEW S, IsFiniteSet(S)
  PROVE  \E h : Adds(h, f, S)
  <1> DEFINE T == {s \in SUBSET S : ~\E h : Adds(h, f, s)}
  <1>1. SUFFICES ASSUME T # {}
                 PROVE  FALSE
    OBVIOUS
  <1>2. PICK U \in T : \A r \in T : ~(r \subseteq U /\ r # U)
    <2>1. T \subseteq SUBSET S
      OBVIOUS
    <2> HIDE DEF T
    <2> QED BY <1>1, <2>1, LeastSet
  <1>3. U \in SUBSET S /\ ~\E h : Adds(h, f, U)
    OBVIOUS
  <1>4. \A s \in SUBSET U : s # U => (\E g : Adds(g, f, s)) /\ IsFiniteSet(s)
    BY <1>2, <1>3, FS_Subset
  <1> HIDE DEF T
  <1> DEFINE h == [s \in SUBSET U |-> IF s = {} THEN 0 ELSE f[First(s)] + Total(f, s \ {First(s)})]
  <1>5. ASSUME NEW s \in SUBSET U, s # U
        PROVE  Total(f, s) = h[s]
    <2>1. CASE s = {}
      BY <2>1, <1>4, <1>5, TotalStep
    <2>2. CASE s # {}
      <3>1. First(s) \in s
        BY <2>2, FirstOfMany
      <3>2. s \ {First(s)} \in SUBSET U /\ s \ {First(s)} # U
        BY <3>1
      <3> HIDE DEF h
      <3>3. Total(f, s) = f[First(s)] + Total(f, s \ {First(s)})
        BY <2>2, <3>2, <1>4, <1>5, TotalStep
      <3> QED BY <2>2, <3>3 DEF h
    <2> QED BY <2>1, <2>2
  <1>6. \A s \in SUBSET U : s # {} => Total(f, s \ {First(s)}) = h[s \ {First(s)}]
    <2> HIDE DEF h
    <2> QED BY <1>5, FirstOfMany
  <1>7. h = [s \in SUBSET U |-> IF s = {} THEN 0 ELSE f[First(s)] + h[s \ {First(s)}]]
    BY <1>6
  <1>8. Adds(h, f, U)
    <2> HIDE DEF h
    <2> QED BY <1>7 DEF Adds
  <1> QED BY <1>3, <1>8

LEMMA SumAdds ==
  ASSUME NEW f, NEW S, IsFiniteSet(S)
  PROVE  \E h : Adds(h, f, S) /\ Sum(f, S) = h[S]
  <1> DEFINE h == CHOOSE iter : iter = [s \in SUBSET S |->
                                  IF s = {} THEN 0 ELSE f[First(s)] + iter[s \ {First(s)}]]
  <1>1. Adds(h, f, S)
    <2>1. \E iter : iter = [s \in SUBSET S |-> IF s = {} THEN 0 ELSE f[First(s)] + iter[s \ {First(s)}]]
      <3>1. PICK g : Adds(g, f, S)
        BY AddsExists
      <3>2. g = [s \in SUBSET S |-> IF s = {} THEN 0 ELSE f[First(s)] + g[s \ {First(s)}]]
        BY <3>1 DEF Adds
      <3> QED BY <3>2
    <2> QED BY <2>1 DEF Adds
  <1>2. Sum(f, S) = h[S]
    BY DEF Sum, MapThenSumSet, MapThenFoldSet, First
  <1> QED BY <1>1, <1>2

\* A sum of whole numbers is one.
LEMMA SumIsInt ==
  ASSUME NEW S, IsFiniteSet(S), NEW f \in [S -> Int]
  PROVE  Sum(f, S) \in Int
  <1>1. PICK h : Adds(h, f, S) /\ Sum(f, S) = h[S]
    BY SumAdds
  <1>0. /\ h[{}] = 0
        /\ \A t \in SUBSET S : t # {} => h[t] = f[First(t)] + h[t \ {First(t)}]
    BY <1>1, AddsStep
  <1> DEFINE T == {s \in SUBSET S : h[s] \notin Int}
  <1>2. SUFFICES ASSUME T # {}
                 PROVE  FALSE
    BY <1>1
  <1>3. PICK s \in T : \A r \in T : ~(r \subseteq s /\ r # s)
    <2>1. T \subseteq SUBSET S
      OBVIOUS
    <2> HIDE DEF T
    <2> QED BY <1>2, <2>1, LeastSet
  <1>4. s # {} /\ s \in SUBSET S
    <2>1. s \in SUBSET S /\ h[s] \notin Int
      OBVIOUS
    <2> HIDE DEF T
    <2>2. h[{}] \in Int
      BY <1>0
    <2> QED BY <2>1, <2>2
  <1>5. First(s) \in s /\ s \ {First(s)} \in SUBSET S /\ s \ {First(s)} # s
    BY <1>4, FirstOfMany
  <1>6. h[s \ {First(s)}] \in Int
    BY <1>3, <1>5
  <1>7. h[s] = f[First(s)] + h[s \ {First(s)}] /\ f[First(s)] \in Int
    BY <1>0, <1>4, <1>5
  <1> QED BY <1>3, <1>6, <1>7

LEMMA SumOfNothing ==
  ASSUME NEW S, IsFiniteSet(S), NEW f, \A a \in S : f[a] = 0
  PROVE  Sum(f, S) = 0
  <1>1. PICK h : Adds(h, f, S) /\ Sum(f, S) = h[S]
    BY SumAdds
  <1>0. /\ h[{}] = 0
        /\ \A t \in SUBSET S : t # {} => h[t] = f[First(t)] + h[t \ {First(t)}]
    BY <1>1, AddsStep
  <1> DEFINE T == {s \in SUBSET S : h[s] # 0}
  <1>2. SUFFICES ASSUME T # {}
                 PROVE  FALSE
    BY <1>1
  <1>3. PICK s \in T : \A r \in T : ~(r \subseteq s /\ r # s)
    <2>1. T \subseteq SUBSET S
      OBVIOUS
    <2> HIDE DEF T
    <2> QED BY <1>2, <2>1, LeastSet
  <1>4. s # {} /\ s \in SUBSET S
    BY <1>0
  <1>5. First(s) \in s /\ s \ {First(s)} \in SUBSET S /\ s \ {First(s)} # s
    BY <1>4, FirstOfMany
  <1>6. h[s \ {First(s)}] = 0
    BY <1>3, <1>5
  <1>7. h[s] = f[First(s)] + h[s \ {First(s)}] /\ f[First(s)] = 0
    BY <1>0, <1>4, <1>5
  <1> QED BY <1>3, <1>6, <1>7

\* A sum one of whose terms grew grows by as much.
LEMMA SumChanges ==
  ASSUME NEW S, IsFiniteSet(S), NEW f \in [S -> Int], NEW a \in S, NEW n \in Int
  PROVE  Sum([f EXCEPT ![a] = n], S) = Sum(f, S) + n - f[a]
  <1> DEFINE g == [f EXCEPT ![a] = n]
  <1>1. PICK h : Adds(h, f, S) /\ Sum(f, S) = h[S]
    BY SumAdds
  <1>2. PICK k : Adds(k, g, S) /\ Sum(g, S) = k[S]
    BY SumAdds
  <1>3. g \in [S -> Int] /\ g[a] = n /\ \A b \in S : b # a => g[b] = f[b]
    OBVIOUS
  <1> HIDE DEF g
  <1>0. /\ h[{}] = 0
        /\ \A t \in SUBSET S : t # {} => h[t] = f[First(t)] + h[t \ {First(t)}]
    BY <1>1, AddsStep
  <1>9. /\ k[{}] = 0
         /\ \A t \in SUBSET S : t # {} => k[t] = g[First(t)] + k[t \ {First(t)}]
    BY <1>2, AddsStep
  <1> DEFINE d(s) == IF a \in s THEN n - f[a] ELSE 0
             T == {s \in SUBSET S : ~(h[s] \in Int /\ k[s] = h[s] + d(s))}
  <1>4. ASSUME T # {}
        PROVE  FALSE
    <2>1. PICK s \in T : \A r \in T : ~(r \subseteq s /\ r # s)
      <3>1. T \subseteq SUBSET S
        OBVIOUS
      <3> HIDE DEF T
      <3> QED BY <1>4, <3>1, LeastSet
    <2>2. s # {} /\ s \in SUBSET S
      BY <1>0, <1>9
    <2> DEFINE b == First(s)
               r == s \ {b}
    <2>3. b \in s /\ b \in S /\ r \in SUBSET S /\ r # s /\ r \subseteq s
      BY <2>2, FirstOfMany
    <2>4. h[r] \in Int /\ k[r] = h[r] + d(r)
      BY <2>1, <2>3
    <2>5. h[s] = f[b] + h[r] /\ k[s] = g[b] + k[r] /\ f[b] \in Int /\ g[b] \in Int
      BY <1>0, <1>9, <1>3, <2>2, <2>3
    <2> HIDE DEF T
    <2>6. CASE b = a
      <3>1. d(r) = 0 /\ d(s) = n - f[a]
        BY <2>3, <2>6
      <3> QED BY <3>1, <2>1, <2>4, <2>5, <2>6, <1>3 DEF T
    <2>7. CASE b # a
      <3>1. d(r) = d(s) /\ d(s) \in Int /\ g[b] = f[b]
        BY <2>3, <2>7, <1>3
      <3> HIDE DEF d
      <3> QED BY <3>1, <2>1, <2>4, <2>5 DEF T
    <2> QED BY <2>6, <2>7
  <1>5. h[S] \in Int /\ k[S] = h[S] + n - f[a]
    BY <1>4
  <1> QED BY <1>1, <1>2, <1>5 DEF g

-----------------------------------------------------------------------------
(* The inductive invariant.                                                *)

Figures ==
  /\ TypeOK
  /\ {newest, files, atOpen} \subseteq [Artifacts -> Nat]
  /\ at \in [Workers -> Nat]
  /\ unlisted \subseteq Devices

\* A file listed is one that was current at some moment of the search.
Versions ==
  \A a \in Artifacts :
    atOpen[a] <= newest[a] /\ (files[a] > 0 => files[a] \in atOpen[a]..newest[a])

\* Nothing is handed out before everything is listed, and everything the filter
\* asks for is listed, or skipped.
Listing ==
  /\ gpc = "list" => /\ ahead = {} /\ found = 0
                     /\ \A a \in Artifacts : held[a] = 0
                     /\ \A w \in Workers : wpc[w] = "recv"
  /\ gpc # "list" => unlisted = {}
  /\ \A a \in Artifacts : atOpen[a] > 0 /\ InFilter(a) =>
       \/ a \in skips \/ files[a] > 0
       \/ DeviceOf[a] \in unlisted \/ health[DeviceOf[a]] = "lost"

Busy(w) == wpc[w] \in {"check", "read", "claim"}

\* A target is ahead, or one worker's, and nobody has claimed for it yet.
Handed ==
  /\ \A w \in Workers : Busy(w) =>
       at[w] \in Artifacts /\ at[w] \notin ahead /\ files[at[w]] > 0 /\ held[at[w]] = 0
  /\ \A v, w \in Workers : Busy(v) /\ Busy(w) /\ at[v] = at[w] => v = w
  /\ \A w \in Workers : wpc[w] = "claim" => Content[at[w]][files[at[w]]] # Unfit
  /\ \A a \in ahead : files[a] > 0 /\ held[a] = 0
  /\ \A a \in Artifacts : held[a] > 0 => files[a] > 0

Phases ==
  /\ gpc \in {"publish", "poke", "end"} => \A w \in Workers : ~Busy(w)
  /\ state = "done" \/ (gpc \in {"wait", "publish"} /\ ~cancelled) => ahead = {}
  /\ state # "running" <=> gpc \in {"poke", "end"}

\* Until it is cancelled, a search that is not at its limit loses no target.
Accounted ==
  state = "done" \/ (gpc # "list" /\ state = "running" /\ ~cancelled) =>
    \A a \in Artifacts : files[a] > 0 =>
      \/ a \in ahead \/ \E w \in Workers : Busy(w) /\ at[w] = a
      \/ a \in skips
      \/ held[a] = Content[a][files[a]]
      \/ Capped

IInv == Figures /\ Versions /\ Listing /\ Handed /\ Phases /\ Accounted /\ LimitIsExact

-----------------------------------------------------------------------------
(* Each part of it, step by step.                                          *)

LEMMA MinIsIn ==
  ASSUME NEW S \in SUBSET Nat, S # {}
  PROVE  Min(S) \in S
  <1> DEFINE R == OpToRel(<, Nat)
  <1>1. \A x, y \in Nat : y < x => <<y, x>> \in R
    BY DEF OpToRel
  <1>2. IsWellFoundedOn(R, Nat)
    BY NatLessThanWellFounded
  <1> HIDE DEF R
  <1>3. \E x \in S : \A y \in S : <<y, x>> \notin R
    BY <1>2, WFMin
  <1>4. \A x, y \in S : <<y, x>> \notin R => x =< y
    BY <1>1
  <1>5. \E x \in S : \A y \in S : x =< y
    BY <1>3, <1>4
  <1> QED BY <1>5 DEF Min

LEMMA VersionIsContent ==
  ASSUME Figures, NEW a \in Artifacts, files[a] > 0
  PROVE  files[a] \in Nat /\ Content[a][files[a]] \in Nat \cup {Unfit}
  <1>1. files[a] \in 1..Len(Content[a]) /\ Content[a] \in Seq(Nat \cup {Unfit})
    BY ContentAssumption DEF Figures, TypeOK
  <1> QED BY <1>1

\* What a worker may keep: all of it, or what brings the hits to the limit.
LEMMA KeptFits ==
  ASSUME found \in Nat, NEW n \in Nat
  PROVE  /\ Kept(n) \in 0..Limit
         /\ found >= Limit => Kept(n) = 0
         /\ found < Limit /\ found + n <= Limit => Kept(n) = n
         /\ found < Limit /\ found + n > Limit => Kept(n) = Limit - found
BY LimitAssumption DEF Kept

\* A claim is for a file that was listed and read, by the worker that has it.
LEMMA ClaimIsFor ==
  ASSUME IInv, NEW w \in Workers, Claim(w)
  PROVE  /\ at[w] \in Artifacts /\ files[at[w]] > 0 /\ held[at[w]] = 0
         /\ Content[at[w]][files[at[w]]] \in Nat
         /\ Kept(Content[at[w]][files[at[w]]]) \in 0..Limit
         /\ found \in Nat /\ held \in [Artifacts -> 0..Limit]
  <1>1. Figures /\ Handed /\ Busy(w) /\ wpc[w] = "claim"
    BY DEF IInv, Claim, Busy
  <1>2. at[w] \in Artifacts /\ files[at[w]] > 0 /\ held[at[w]] = 0 /\ Content[at[w]][files[at[w]]] # Unfit
    BY <1>1 DEF Handed
  <1>3. Content[at[w]][files[at[w]]] \in Nat
    BY <1>1, <1>2, VersionIsContent
  <1>4. found \in Nat /\ held \in [Artifacts -> 0..Limit]
    BY <1>1 DEF Figures, TypeOK
  <1> QED BY <1>2, <1>3, <1>4, KeptFits

LEMMA FiguresKept ==
  ASSUME IInv, [Next]_vars
  PROVE  Figures'
  <1>1. Figures /\ TypeOK
    BY DEF IInv, Figures
  <1>2. \A d \in Devices : d \in Nat
    BY OrderAssumption DEF Devices
  <1>3. ASSUME NEW a \in Artifacts, Put(a)
        PROVE  Figures'
    <2>1. /\ newest' = [newest EXCEPT ![a] = @ + 1] /\ newest[a] < Len(Content[a]) /\ newest[a] \in Nat
          /\ newest \in [Artifacts -> Nat]
          /\ UNCHANGED <<health, listed, skips, gpc, ahead, cancelled, pool, state, window, atOpen>>
      BY <1>1, <1>3 DEF Put, Figures
    <2>2. newest' \in [Artifacts -> Nat]
      BY <2>1
    <2>3. \A b \in Artifacts : newest'[b] \in 0..Len(Content[b])
      <3>1. \A b \in Artifacts : Len(Content[b]) \in Nat
        BY ContentAssumption
      <3> QED BY <1>1, <2>1, <3>1 DEF TypeOK
    <2> QED BY <1>1, <2>1, <2>2, <2>3 DEF Figures, TypeOK, listed, pool, window
  <1>4. ASSUME NEW a \in Artifacts, Sweep(a)
        PROVE  Figures'
    BY <1>1, <1>4 DEF Sweep, Figures, TypeOK, listed, pool, window
  <1>5. CASE ListDevice
    <2> DEFINE d == Min(unlisted)
    <2>1. /\ unlisted' = unlisted \ {d}
          /\ \/ skips' = skips \cup Of(d) /\ files' = files
             \/ /\ files' = [a \in Artifacts |-> IF a \in Of(d) /\ InFilter(a) THEN newest[a] ELSE files[a]]
                /\ skips' = skips
          /\ UNCHANGED <<store, wanted, gpc, ahead, cancelled, pool, state, window, atOpen>>
      BY <1>5 DEF ListDevice, CurrentFile
    <2>2. Of(d) \subseteq Artifacts
      BY DEF Of
    <2> HIDE DEF d
    <2>3. files' \in [Artifacts -> Nat] /\ \A a \in Artifacts : files'[a] \in {files[a], newest[a]}
      BY <1>1, <2>1 DEF Figures
    <2> QED BY <1>1, <2>1, <2>2, <2>3 DEF Figures, TypeOK, store, pool, window
  <1>6. CASE Listed
    BY <1>1, <1>6 DEF Listed, Figures, TypeOK, store, listed, pool, window
  <1>7. ASSUME NEW w \in Workers, Dispatch(w)
        PROVE  Figures'
    <2>1. Min(ahead) \in ahead /\ Min(ahead) \in Nat
      BY <1>1, <1>7, MinIsIn, OrderAssumption DEF Dispatch, TypeOK
    <2> QED BY <1>1, <1>7, <2>1 DEF Dispatch, Figures, TypeOK, store, listed, window
  <1>8. CASE StopDispatch \/ Joined \/ Publish \/ LastPoke
    BY <1>1, <1>8 DEF StopDispatch, Joined, Publish, LastPoke, Figures, TypeOK, store, listed, pool, window
  <1>9. ASSUME NEW w \in Workers, WorkerEnds(w) \/ Quit(w) \/ Pass(w) \/ Begin(w)
        PROVE  Figures'
    BY <1>1, <1>9 DEF WorkerEnds, Quit, Pass, Begin, To, Figures, TypeOK, store, listed, pool, window
  <1>10. ASSUME NEW w \in Workers, Read(w)
         PROVE  Figures'
    <2>1. at[w] \in Artifacts
      BY <1>10 DEF IInv, Handed, Busy, Read
    <2> QED BY <1>1, <1>10, <2>1 DEF Read, Report, SkipOf, To, Figures, TypeOK, store, listed, window
  <1>11. ASSUME NEW w \in Workers, Claim(w)
         PROVE  Figures'
    <2> DEFINE n == Content[at[w]][files[at[w]]]
    <2>1. n \in Nat /\ Kept(n) \in 0..Limit /\ found \in Nat /\ held \in [Artifacts -> 0..Limit]
      BY <1>11, ClaimIsFor
    <2>2. /\ held' = [held EXCEPT ![at[w]] = Kept(n)] /\ found' = found + n
          /\ wpc' = [wpc EXCEPT ![w] = "recv"]
          /\ UNCHANGED <<store, listed, skips, gpc, ahead, cancelled, at, state, open, win, atOpen>>
      BY <1>11 DEF Claim, Report, To
    <2> HIDE DEF n
    <2>3. held' \in [Artifacts -> 0..Limit]
      BY <2>1, <2>2
    <2>4. found' \in Nat
      BY <2>1, <2>2
    <2> QED BY <1>1, <2>2, <2>3, <2>4 DEF Figures, TypeOK, store, listed
  <1>12. CASE Pull \/ Cancel \/ Close
    BY <1>1, <1>12 DEF Pull, Drain, Look, Cancel, Close, Figures, TypeOK, store, listed, pool, window
  <1>13. CASE UNCHANGED vars
    BY <1>1, <1>13 DEF vars, Figures, TypeOK, store, listed, pool, window
  <1> QED BY <1>3, <1>4, <1>5, <1>6, <1>7, <1>8, <1>9, <1>10, <1>11, <1>12, <1>13 DEF Next, Coordinate, Work

LEMMA VersionsKept ==
  ASSUME IInv, [Next]_vars
  PROVE  Versions'
  <1>1. Versions /\ {newest, files, atOpen} \subseteq [Artifacts -> Nat]
    BY DEF IInv, Figures
  <1>2. ASSUME NEW a \in Artifacts, Put(a)
        PROVE  Versions'
    <2>1. newest' = [newest EXCEPT ![a] = @ + 1] /\ UNCHANGED <<files, atOpen>>
      BY <1>2 DEF Put, listed
    <2>2. \A b \in Artifacts : newest'[b] \in Nat /\ newest'[b] >= newest[b]
      BY <1>1, <2>1
    <2>3. \A b \in Artifacts : {newest[b], files[b], atOpen[b]} \subseteq Nat
      BY <1>1
    <2> QED BY <1>1, <2>1, <2>2, <2>3 DEF Versions
  <1>3. CASE ListDevice
    <2>1. /\ \A a \in Artifacts : files'[a] \in {files[a], newest[a]}
          /\ UNCHANGED <<newest, atOpen>>
      BY <1>1, <1>3 DEF ListDevice, CurrentFile, store
    <2>2. \A b \in Artifacts : {newest[b], atOpen[b]} \subseteq Nat
      BY <1>1
    <2> QED BY <1>1, <2>1, <2>2 DEF Versions
  <1>4. CASE UNCHANGED <<newest, files, atOpen>>
    BY <1>1, <1>4 DEF Versions
  <1>5. CASE \E a \in Artifacts : Sweep(a)
    BY <1>4, <1>5 DEF Sweep, listed
  <1>6. CASE Listed \/ StopDispatch \/ Joined \/ Publish \/ LastPoke \/ \E w \in Workers : Dispatch(w)
    BY <1>4, <1>6 DEF Listed, StopDispatch, Joined, Publish, LastPoke, Dispatch, store, listed
  <1>7. CASE \E w \in Workers : Work(w)
    BY <1>4, <1>7 DEF Work, WorkerEnds, Quit, Pass, Begin, Read, Claim, store, listed
  <1>8. CASE Pull \/ Cancel \/ Close \/ UNCHANGED vars
    BY <1>4, <1>8 DEF Pull, Drain, Look, Cancel, Close, vars, store, listed
  <1> QED BY <1>2, <1>3, <1>5, <1>6, <1>7, <1>8 DEF Next, Coordinate

LEMMA ListingKept ==
  ASSUME IInv, [Next]_vars
  PROVE  Listing'
  <1>1. Listing /\ Versions /\ unlisted \subseteq Devices
        /\ {newest, files, atOpen} \subseteq [Artifacts -> Nat]
    BY DEF IInv, Figures
  <1>2. CASE ListDevice
    <2> DEFINE d == Min(unlisted)
    <2>1. /\ unlisted' = unlisted \ {d} /\ gpc = "list"
          /\ \/ skips' = skips \cup Of(d) /\ files' = files
             \/ /\ files' = [a \in Artifacts |-> IF a \in Of(d) /\ InFilter(a) THEN newest[a] ELSE files[a]]
                /\ skips' = skips
          /\ UNCHANGED <<newest, health, wanted, gpc, ahead, found, held, wpc, atOpen>>
      BY <1>2 DEF ListDevice, CurrentFile, store, pool
    <2> HIDE DEF d
    <2>2. ASSUME NEW a \in Artifacts, atOpen[a] > 0, InFilter(a)
          PROVE  \/ a \in skips' \/ files'[a] > 0
                 \/ DeviceOf[a] \in unlisted' \/ health[DeviceOf[a]] = "lost"
      <3>1. newest[a] \in Nat /\ atOpen[a] \in Nat /\ files[a] \in Nat /\ newest[a] >= atOpen[a]
        BY <1>1 DEF Versions
      <3>2. CASE DeviceOf[a] = d
        BY <2>1, <2>2, <3>1, <3>2 DEF Of
      <3>3. CASE DeviceOf[a] # d
        BY <1>1, <2>1, <2>2, <3>1, <3>3 DEF Listing, Of
      <3> QED BY <3>2, <3>3
    <2> QED BY <1>1, <2>1, <2>2 DEF Listing, InFilter
  <1>3. CASE Listed
    BY <1>1, <1>3 DEF Listed, Listing, InFilter, store, listed
  <1>4. CASE \E w \in Workers : Dispatch(w) \/ Work(w)
    BY <1>1, <1>4 DEF Dispatch, Work, WorkerEnds, Quit, Pass, Begin, Read, Claim, Report, To, Listing, InFilter,
                      store, listed
  <1>5. CASE StopDispatch \/ Joined \/ Publish \/ LastPoke
    BY <1>1, <1>5 DEF StopDispatch, Joined, Publish, LastPoke, Listing, InFilter, store, listed
  <1>6. CASE UNCHANGED <<health, wanted, unlisted, files, skips, gpc, ahead, found, held, wpc, atOpen>>
    BY <1>1, <1>6 DEF Listing, InFilter
  <1>7. CASE \E a \in Artifacts : Put(a) \/ Sweep(a)
    BY <1>6, <1>7 DEF Put, Sweep, listed, pool
  <1>8. CASE Pull \/ Cancel \/ Close \/ UNCHANGED vars
    BY <1>6, <1>8 DEF Pull, Drain, Look, Cancel, Close, vars, store, listed, pool
  <1> QED BY <1>2, <1>3, <1>4, <1>5, <1>7, <1>8 DEF Next, Coordinate

LEMMA HandedKept ==
  ASSUME IInv, [Next]_vars
  PROVE  Handed'
  <1>1. Handed /\ Listing /\ ahead \subseteq Artifacts /\ held \in [Artifacts -> 0..Limit]
        /\ wpc \in [Workers -> {"recv", "check", "read", "claim", "gone"}] /\ at \in [Workers -> Nat]
    BY DEF IInv, Figures, TypeOK
  <1>2. CASE ListDevice
    BY <1>1, <1>2 DEF ListDevice, Listing, Handed, Busy, pool
  <1>3. CASE Listed
    BY <1>1, <1>3 DEF Listed, Listing, Handed, Busy, listed, pool
  <1>4. ASSUME NEW w \in Workers, Dispatch(w)
        PROVE  Handed'
    <2> DEFINE a == Min(ahead)
    <2>1. a \in ahead /\ a \in Nat
      BY <1>1, <1>4, MinIsIn, OrderAssumption DEF Dispatch
    <2>2. /\ at' = [at EXCEPT ![w] = a] /\ ahead' = ahead \ {a} /\ wpc[w] = "recv"
          /\ wpc' = [wpc EXCEPT ![w] = "check"] /\ UNCHANGED <<files, held>>
      BY <1>4 DEF Dispatch, listed
    <2> HIDE DEF a
    <2>3. \A v \in Workers : /\ at'[v] = IF v = w THEN a ELSE at[v]
                             /\ wpc'[v] = IF v = w THEN "check" ELSE wpc[v]
      BY <1>1, <2>2
    <2> QED BY <1>1, <2>1, <2>2, <2>3 DEF Handed, Busy
  <1>5. ASSUME NEW w \in Workers, WorkerEnds(w) \/ Quit(w) \/ Pass(w) \/ Begin(w) \/ Read(w)
        PROVE  Handed'
    <2>1. /\ UNCHANGED <<files, at, ahead, held>>
          /\ \A v \in Workers : v # w => wpc'[v] = wpc[v]
          /\ \/ wpc'[w] \in {"recv", "gone"}
             \/ wpc[w] = "check" /\ wpc'[w] = "read"
             \/ wpc[w] = "read" /\ wpc'[w] = "claim" /\ Content[at[w]][files[at[w]]] # Unfit
      BY <1>1, <1>5 DEF WorkerEnds, Quit, Pass, Begin, Read, Report, Unsearched, To, listed
    <2> QED BY <1>1, <2>1 DEF Handed, Busy
  <1>6. ASSUME NEW w \in Workers, Claim(w)
        PROVE  Handed'
    <2>1. /\ UNCHANGED <<files, at, ahead>> /\ wpc[w] = "claim"
          /\ wpc' = [wpc EXCEPT ![w] = "recv"]
          /\ \E k : held' = [held EXCEPT ![at[w]] = k]
      BY <1>6 DEF Claim, Report, To, listed
    <2>2. /\ \A v \in Workers : wpc'[v] = IF v = w THEN "recv" ELSE wpc[v]
          /\ \A b \in Artifacts : b # at[w] => held'[b] = held[b]
      BY <1>1, <2>1
    <2> QED BY <1>1, <2>1, <2>2 DEF Handed, Busy
  <1>7. CASE UNCHANGED <<files, ahead, wpc, at, held>>
    BY <1>1, <1>7 DEF Handed, Busy
  <1>8. CASE \E a \in Artifacts : Put(a) \/ Sweep(a)
    BY <1>7, <1>8 DEF Put, Sweep, listed, pool
  <1>9. CASE StopDispatch \/ Joined \/ Publish \/ LastPoke
    BY <1>7, <1>9 DEF StopDispatch, Joined, Publish, LastPoke, listed, pool
  <1>10. CASE Pull \/ Cancel \/ Close \/ UNCHANGED vars
    BY <1>7, <1>10 DEF Pull, Drain, Look, Cancel, Close, vars, listed, pool
  <1> QED BY <1>2, <1>3, <1>4, <1>5, <1>6, <1>8, <1>9, <1>10 DEF Next, Coordinate, Work

LEMMA PhasesKept ==
  ASSUME IInv, [Next]_vars
  PROVE  Phases'
  <1>1. Phases /\ Listing /\ gpc \in {"list", "dispatch", "wait", "publish", "poke", "end"}
        /\ wpc \in [Workers -> {"recv", "check", "read", "claim", "gone"}]
    BY DEF IInv, Figures, TypeOK
  <1>2. CASE Listed
    BY <1>1, <1>2 DEF Listed, Listing, Phases, Busy, pool
  <1>3. ASSUME NEW w \in Workers, Dispatch(w)
        PROVE  Phases'
    BY <1>1, <1>3 DEF Dispatch, Phases
  <1>4. CASE StopDispatch
    BY <1>1, <1>4 DEF StopDispatch, LoopEnds, Phases
  <1>5. CASE Joined
    BY <1>1, <1>5 DEF Joined, Phases, Busy, pool
  <1>6. CASE Publish
    BY <1>1, <1>6 DEF Publish, Phases, Busy, pool
  <1>7. CASE LastPoke
    BY <1>1, <1>7 DEF LastPoke, Phases, Busy, pool
  <1>8. ASSUME NEW w \in Workers, Work(w)
        PROVE  Phases'
    <2>1. /\ UNCHANGED <<gpc, cancelled, ahead, state>>
          /\ \A v \in Workers : v # w => wpc'[v] = wpc[v]
          /\ ~Busy(w) => wpc'[w] \in {"recv", "gone"}
      BY <1>1, <1>8 DEF Work, WorkerEnds, Quit, Pass, Begin, Read, Claim, Report, To, Busy
    <2> QED BY <1>1, <2>1 DEF Phases, Busy
  <1>9. CASE Cancel \/ Close
    BY <1>1, <1>9 DEF Cancel, Close, Phases, Busy, pool
  <1>10. CASE UNCHANGED <<gpc, cancelled, ahead, state, wpc>>
    BY <1>1, <1>10 DEF Phases, Busy
  <1>11. CASE ListDevice \/ \E a \in Artifacts : Put(a) \/ Sweep(a)
    BY <1>10, <1>11 DEF ListDevice, Put, Sweep, pool
  <1>12. CASE Pull \/ UNCHANGED vars
    BY <1>10, <1>12 DEF Pull, Drain, Look, vars, pool
  <1> QED BY <1>2, <1>3, <1>4, <1>5, <1>6, <1>7, <1>8, <1>9, <1>11, <1>12 DEF Next, Coordinate

LEMMA AccountedKept ==
  ASSUME IInv, [Next]_vars
  PROVE  Accounted'
  <1>1. /\ Accounted /\ Phases /\ Handed /\ ahead \subseteq Artifacts
        /\ wpc \in [Workers -> {"recv", "check", "read", "claim", "gone"}] /\ at \in [Workers -> Nat]
        /\ held \in [Artifacts -> 0..Limit] /\ found \in Nat
    BY DEF IInv, Figures, TypeOK
  <1>2. CASE Listed
    BY <1>1, <1>2 DEF Listed, Accounted, listed
  <1>3. ASSUME NEW w \in Workers, Dispatch(w)
        PROVE  Accounted'
    <2>1. /\ at' = [at EXCEPT ![w] = Min(ahead)] /\ ahead' = ahead \ {Min(ahead)} /\ wpc[w] = "recv"
          /\ wpc' = [wpc EXCEPT ![w] = "check"]
          /\ UNCHANGED <<files, skips, held, found, gpc, state, cancelled>>
      BY <1>3 DEF Dispatch, listed
    <2>2. /\ \A v \in Workers : v # w => at'[v] = at[v] /\ wpc'[v] = wpc[v]
          /\ at'[w] = Min(ahead) /\ wpc'[w] = "check"
      BY <1>1, <2>1
    <2> QED BY <1>1, <2>1, <2>2 DEF Accounted, Busy, Capped
  <1>4. CASE StopDispatch \/ Joined
    BY <1>1, <1>4 DEF StopDispatch, Joined, Accounted, Busy, Capped, listed, pool
  <1>5. CASE Publish
    BY <1>1, <1>5 DEF Publish, Phases, Accounted, Busy, Capped, listed, pool
  <1>6. CASE LastPoke
    BY <1>1, <1>6 DEF LastPoke, Phases, Accounted, Busy, Capped, listed, pool
  <1>7. ASSUME NEW w \in Workers, Quit(w) \/ Pass(w) \/ WorkerEnds(w) \/ Begin(w) \/ Read(w)
        PROVE  Accounted'
    <2>1. /\ UNCHANGED <<files, held, found, gpc, state, cancelled, ahead, at>>
          /\ \A v \in Workers : v # w => wpc'[v] = wpc[v]
          /\ \/ wpc[w] = "check" /\ cancelled /\ skips' = skips
             \/ found >= Limit
             \/ wpc[w] = "recv" /\ skips' = skips
             \/ wpc'[w] \in {"read", "claim"} /\ skips' = skips
             \/ skips' = skips \cup {at[w]}
      BY <1>1, <1>7 DEF Quit, Stops, Pass, WorkerEnds, Begin, Read, SkipOf, Report, To, listed
    <2> QED BY <1>1, <2>1 DEF Accounted, Phases, Busy, Capped
  <1>8. ASSUME NEW w \in Workers, Claim(w)
        PROVE  Accounted'
    <2> DEFINE n == Content[at[w]][files[at[w]]]
    <2>1. at[w] \in Artifacts /\ n \in Nat
      BY <1>8, ClaimIsFor
    <2>2. /\ held' = [held EXCEPT ![at[w]] = Kept(n)] /\ found' = found + n
          /\ wpc' = [wpc EXCEPT ![w] = "recv"]
          /\ UNCHANGED <<files, skips, gpc, state, cancelled, ahead, at>>
      BY <1>8 DEF Claim, Report, To, listed
    <2>3. /\ \A v \in Workers : v # w => wpc'[v] = wpc[v]
          /\ \A b \in Artifacts : held'[b] = IF b = at[w] THEN Kept(n) ELSE held[b]
      BY <1>1, <2>1, <2>2
    <2>4. found' < Limit => found < Limit /\ Kept(n) = n
      <3> HIDE DEF n
      <3> QED BY <1>1, <2>1, <2>2, KeptFits, LimitAssumption
    <2>5. found' \in Nat /\ Limit \in Nat
      <3> HIDE DEF n
      <3> QED BY <1>1, <2>1, <2>2, LimitAssumption
    <2>6. ~Capped' => ~Capped /\ Kept(n) = n
      <3> HIDE DEF n
      <3> QED BY <1>1, <2>4, <2>5 DEF Capped
    <2> SUFFICES ASSUME state = "done" \/ (gpc # "list" /\ state = "running" /\ ~cancelled),
                        ~Capped', NEW a \in Artifacts, files[a] > 0
                 PROVE  \/ a \in ahead \/ \E v \in Workers : Busy(v)' /\ at[v] = a
                        \/ a \in skips
                        \/ held'[a] = Content[a][files[a]]
      BY <2>2 DEF Accounted
    <2>7. \/ a \in ahead \/ \E v \in Workers : Busy(v) /\ at[v] = a
          \/ a \in skips
          \/ held[a] = Content[a][files[a]]
      BY <1>1, <2>6 DEF Accounted
    <2>8. CASE a = at[w]
      BY <2>3, <2>6, <2>8
    <2>9. CASE a # at[w]
      BY <2>3, <2>7, <2>9 DEF Busy
    <2> QED BY <2>8, <2>9
  <1>9. CASE Cancel \/ Close
    BY <1>1, <1>9 DEF Cancel, Close, Accounted, Phases, Busy, Capped, listed, pool
  <1>10. CASE ListDevice
    BY <1>1, <1>10 DEF ListDevice, Accounted, Phases
  <1>11. CASE UNCHANGED <<files, skips, gpc, state, cancelled, ahead, wpc, at, found, held>>
    BY <1>1, <1>11 DEF Accounted, Busy, Capped
  <1>12. CASE \E a \in Artifacts : Put(a) \/ Sweep(a)
    BY <1>11, <1>12 DEF Put, Sweep, listed, pool
  <1>13. CASE Pull \/ UNCHANGED vars
    BY <1>11, <1>13 DEF Pull, Drain, Look, vars, listed, pool
  <1> QED BY <1>2, <1>3, <1>4, <1>5, <1>6, <1>7, <1>8, <1>9, <1>10, <1>12, <1>13 DEF Next, Coordinate, Work

LEMMA LimitKept ==
  ASSUME IInv, [Next]_vars
  PROVE  LimitIsExact'
  <1>1. LimitIsExact /\ held \in [Artifacts -> 0..Limit] /\ found \in Nat /\ Limit \in Nat \ {0}
    BY LimitAssumption DEF IInv, Figures, TypeOK
  <1>2. ASSUME NEW w \in Workers, Claim(w)
        PROVE  LimitIsExact'
    <2> DEFINE n == Content[at[w]][files[at[w]]]
    <2>1. at[w] \in Artifacts /\ n \in Nat /\ held[at[w]] = 0 /\ Kept(n) \in Int
      BY <1>2, ClaimIsFor
    <2>2. held' = [held EXCEPT ![at[w]] = Kept(n)] /\ found' = found + n
      BY <1>2 DEF Claim
    <2> HIDE DEF n
    <2>3. held \in [Artifacts -> Int]
      BY <1>1
    <2>4. Sum([held EXCEPT ![at[w]] = Kept(n)], Artifacts) = Sum(held, Artifacts) + Kept(n) - 0
      BY <2>1, <2>3, OrderAssumption, SumChanges
    <2>5. Sum(held, Artifacts) = IF found >= Limit THEN Limit ELSE found
      BY <1>1 DEF LimitIsExact, Capped, Held
    <2>6. Sum(held', Artifacts) = IF found' >= Limit THEN Limit ELSE found'
      <3>1. Sum(held', Artifacts) = (IF found >= Limit THEN Limit ELSE found) + Kept(n)
        BY <2>1, <2>2, <2>4, <2>5, <1>1
      <3> QED BY <1>1, <2>1, <2>2, <3>1, KeptFits
    <2> QED BY <2>6 DEF LimitIsExact, Capped, Held
  <1>3. CASE UNCHANGED <<found, held>>
    BY <1>1, <1>3 DEF LimitIsExact, Capped, Held
  <1>4. CASE Coordinate \/ \E a \in Artifacts : Put(a) \/ Sweep(a)
    BY <1>3, <1>4 DEF Coordinate, ListDevice, Listed, Dispatch, StopDispatch, Joined, Publish, LastPoke,
                      Put, Sweep, pool
  <1>5. CASE \E w \in Workers : WorkerEnds(w) \/ Quit(w) \/ Pass(w) \/ Begin(w) \/ Read(w)
    BY <1>3, <1>5 DEF WorkerEnds, Quit, Pass, Begin, Read
  <1>6. CASE Pull \/ Cancel \/ Close \/ UNCHANGED vars
    BY <1>3, <1>6 DEF Pull, Drain, Look, Cancel, Close, vars, pool
  <1> QED BY <1>2, <1>4, <1>5, <1>6 DEF Next, Work

LEMMA SearchStarts ==
  ASSUME Init
  PROVE  IInv
  <1>1. /\ newest \in [Artifacts -> Nat] /\ atOpen = newest /\ files = [a \in Artifacts |-> 0]
        /\ \A a \in Artifacts : newest[a] \in 0..Len(Content[a]) /\ Len(Content[a]) \in Nat
    BY ContentAssumption DEF Init
  <1>2. Figures
    <2>1. held \in [Artifacts -> 0..Limit] /\ found \in Nat
      BY LimitAssumption DEF Init
    <2>2. wpc \in [Workers -> {"recv", "check", "read", "claim", "gone"}] /\ at \in [Workers -> Nat]
      BY DEF Init
    <2>3. \A a \in Artifacts : {files[a], newest[a]} \subseteq 0..Len(Content[a])
      BY <1>1
    <2> QED BY <1>1, <2>1, <2>2, <2>3 DEF Init, Figures, TypeOK
  <1>3. Versions
    BY <1>1 DEF Versions
  <1>4. Listing
    BY <1>1 DEF Init, Listing, Devices
  <1>5. Handed /\ Phases /\ Accounted
    BY <1>1 DEF Init, Handed, Phases, Accounted, Busy
  <1>6. LimitIsExact
    <2>1. Sum(held, Artifacts) = 0
      BY OrderAssumption, SumOfNothing DEF Init
    <2> QED BY <2>1, LimitAssumption DEF Init, LimitIsExact, Capped, Held
  <1> QED BY <1>2, <1>3, <1>4, <1>5, <1>6 DEF IInv

LEMMA SearchInvariant == Spec => []IInv
  <1>1. Init => IInv
    BY SearchStarts
  <1>2. IInv /\ [Next]_vars => IInv'
    BY FiguresKept, VersionsKept, ListingKept, HandedKept, PhasesKept, AccountedKept, LimitKept DEF IInv
  <1> QED BY <1>1, <1>2, PTL DEF Spec

-----------------------------------------------------------------------------
(* What it is for.                                                         *)

\* However many workers finish together, and whatever each found, the hits held
\* are all that were found or exactly the limit (search.go, the claim of room).
THEOREM LimitIsKept == Spec => []LimitIsExact
  <1>1. IInv => LimitIsExact
    BY DEF IInv
  <1> QED BY <1>1, SearchInvariant, PTL

\* A search that ended below its limit answers for every artifact it was asked
\* about, and holds no hit from a version already replaced when it began, with
\* captures storing and pruning underneath (Targets, Search and their callers).
THEOREM AnswersAreHonest == Spec => []AnswerIsHonest
  <1>1. IInv => NothingSilent
    <2> SUFFICES ASSUME IInv, state = "done", ~Capped,
                        NEW a \in Artifacts, atOpen[a] > 0, InFilter(a)
                 PROVE  \/ a \in skips
                        \/ health[DeviceOf[a]] = "lost"
                        \/ files[a] > 0 /\ held[a] = Content[a][files[a]]
      BY DEF NothingSilent
    <2>1. gpc \in {"poke", "end"} /\ ahead = {} /\ \A w \in Workers : ~Busy(w)
      BY DEF IInv, Phases
    <2>2. \/ a \in skips \/ files[a] > 0
          \/ health[DeviceOf[a]] = "lost"
      BY <2>1 DEF IInv, Listing
    <2> QED BY <2>1, <2>2 DEF IInv, Accounted
  <1>2. IInv => HitsAreCurrent
    BY DEF IInv, Handed, Versions, HitsAreCurrent
  <1>3. IInv => AnswerIsHonest
    BY <1>1, <1>2 DEF IInv, Figures, AnswerIsHonest
  <1> QED BY <1>3, SearchInvariant, PTL
=============================================================================
