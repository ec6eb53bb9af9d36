---------------------------- MODULE CaptureProofs ----------------------------
(***************************************************************************)
(* What a capture run leaves behind, proved for any list of devices, any   *)
(* selection of types and any limits; and the history of a capture type    *)
(* and its directory, for any number of workers of one store, any          *)
(* contents, clocks and retentions, and a death or a failure between any   *)
(* two steps.                                                              *)
(***************************************************************************)
EXTENDS CaptureEngine, FileStore, FiniteSetTheorems, SequenceTheorems, WellFoundedInduction, TLAPS

(***************************************************************************)
(* CaptureEngine.  None of its properties is inductive.  That slots and    *)
(* lane come back needs to know where a visit holds them (PlacesReturned); *)
(* that the table is the Results needs to know, at every moment, which     *)
(* Result a settled row tells, or which visit of a dead device still owes  *)
(* it (Traced), and that the types a visit owes are those without a Result *)
(* (Stages).                                                               *)
(***************************************************************************)

Owed(v) == {todo[v][k] : k \in DOMAIN todo[v]}

\* What a visit owes, by where it stands: nothing before it connects, and from
\* then on exactly the types it has no Result for.
Stage(v) ==
  /\ \A j, k \in DOMAIN todo[v] : todo[v][j] = todo[v][k] => j = k
  /\ phase[v] \in {"waiting", "dialling", "dead", "done"} => todo[v] = <<>>
  /\ phase[v] \in {"queueing", "asked"} => todo[v] # <<>>
  /\ phase[v] = "queueing" => Head(todo[v]) \in Expensive
  /\ \A t \in Types :
       IF phase[v] \in {"waiting", "dialling", "dead"} THEN results[v][t] = "none"
       ELSE results[v][t] = "none" <=> t \in Owed(v)

Stages == \A v \in Visits : Stage(v)

\* A row tells the Result of some visit of its device, or one that a visit of
\* the dead device has yet to write.
Told(i, t) ==
  \E u \in Visits :
    /\ IdOf[u] = i
    /\ \/ results[u][t] # "none" /\ rows[<<i, t>>] = Verdict(results[u][t])
       \/ rows[<<i, t>>] = "failed" /\ phase[u] = "reporting" /\ t \in Owed(u)

Traced ==
  \A i \in Identities, t \in Types : rows[<<i, t>>] \in Settled => Told(i, t)

\* A pair that has a Result has a settled row.
Answered ==
  \A v \in Visits, t \in Types :
    results[v][t] # "none" => rows[<<IdOf[v], t>>] \in Settled

NoneStarted == \A v \in Visits : phase[v] = "waiting"

NothingDropped == \A v \in Visits, t \in Types : results[v][t] # "cancelled"

Ended ==
  /\ finished => runState # "running"
  /\ runState = "failed" => NoneStarted
  /\ runState \in {"done", "cancelled"} => AllDone
  /\ ~cancelled \/ runState = "done" => NothingDropped

IInv == NothingLeftOpen /\ Stages /\ Traced /\ Answered /\ Ended

-----------------------------------------------------------------------------
(* Lists of types.                                                         *)

\* A list that names every type once.
Complete(s) ==
  /\ s \in Seq(Types)
  /\ \A j, k \in DOMAIN s : s[j] = s[k] => j = k
  /\ {s[k] : k \in DOMAIN s} = Types

LEMMA SpecsAreComplete == Complete(Specs)
BY SpecsAssumption DEF Complete, Types

LEMMA OrderIsComplete ==
  ASSUME NEW order \in Ordered
  PROVE  Complete(order)
  <1>1. DOMAIN Specs = 1..Len(Specs) /\ Len(Specs) \in Nat
    BY SpecsAssumption
  <1>2. /\ order \in [1..Len(Specs) -> Types]
        /\ \A t \in Types : \E n \in DOMAIN Specs : order[n] = t
        /\ \A m, n \in DOMAIN Specs : m < n => GoesBefore(order[m], order[n])
    BY <1>1 DEF Ordered
  <1>3. order \in Seq(Types) /\ DOMAIN order = 1..Len(Specs)
    BY <1>1, <1>2
  <1>4. \A t : ~GoesBefore(t, t)
    BY <1>1, SpecsAssumption DEF GoesBefore
  <1>5. \A j, k \in DOMAIN order : order[j] = order[k] => j = k
    BY <1>1, <1>2, <1>3, <1>4
  <1>6. {order[k] : k \in DOMAIN order} = Types
    BY <1>1, <1>2, <1>3
  <1> QED BY <1>3, <1>5, <1>6 DEF Complete

\* A visit that turns to its next type owes all the others still.
LEMMA TurnsToNext ==
  ASSUME NEW s \in Seq(Types), s # <<>>, \A j, k \in DOMAIN s : s[j] = s[k] => j = k
  PROVE  /\ Head(s) \in Types
         /\ Tail(s) \in Seq(Types)
         /\ \A j, k \in DOMAIN Tail(s) : Tail(s)[j] = Tail(s)[k] => j = k
         /\ \A t : (\E k \in DOMAIN Tail(s) : Tail(s)[k] = t)
                     <=> t # Head(s) /\ \E k \in DOMAIN s : s[k] = t
  <1> DEFINE r == Tail(s)
  <1>1. /\ Len(s) \in Nat /\ Len(s) >= 1 /\ DOMAIN s = 1..Len(s)
        /\ r \in Seq(Types) /\ Len(r) = Len(s) - 1 /\ DOMAIN r = 1..(Len(s) - 1)
        /\ \A n \in DOMAIN r : r[n] = s[n + 1]
        /\ Head(s) = s[1] /\ s[1] \in Types
    OBVIOUS
  <1> HIDE DEF r
  <1>2. \A n \in DOMAIN r : n + 1 \in DOMAIN s /\ n + 1 # 1 /\ n \in Nat
    BY <1>1
  <1>3. \A j, k \in DOMAIN r : r[j] = r[k] => j = k
    BY <1>1, <1>2
  <1>4. ASSUME NEW t
        PROVE  (\E k \in DOMAIN r : r[k] = t) <=> t # Head(s) /\ \E k \in DOMAIN s : s[k] = t
    <2>1. ASSUME NEW k \in DOMAIN r, r[k] = t
          PROVE  t # Head(s) /\ \E n \in DOMAIN s : s[n] = t
      BY <1>1, <1>2, <2>1
    <2>2. ASSUME NEW k \in DOMAIN s, s[k] = t, t # Head(s)
          PROVE  \E n \in DOMAIN r : r[n] = t
      <3>1. k - 1 \in DOMAIN r /\ (k - 1) + 1 = k
        BY <1>1, <2>2
      <3> QED BY <1>1, <2>2, <3>1
    <2> QED BY <2>1, <2>2
  <1> QED BY <1>1, <1>3, <1>4 DEF r

\* A visit that has started and has not ended is part of a run still going on.
LEMMA StillRunning ==
  ASSUME EngineTypeOK, Ended, NEW v \in Visits, phase[v] \notin {"waiting", "done"}
  PROVE  runState = "running" /\ ~finished
  <1>1. ~NoneStarted /\ ~AllDone
    BY DEF NoneStarted, AllDone
  <1>2. runState \in {"running", "failed", "done", "cancelled"} /\ finished \in BOOLEAN
    BY DEF EngineTypeOK
  <1> QED BY <1>1, <1>2 DEF Ended

-----------------------------------------------------------------------------
(* The three kinds of step of a visit that say something of a row.         *)

\* A type gets its Result.
Concludes(v, outcome) ==
  /\ phase[v] \in {"next", "queueing", "asked", "reporting"} /\ todo[v] # <<>>
  /\ outcome \in Outcomes
  /\ phase[v] = "reporting" => outcome \in Errors
  /\ outcome = "cancelled" => cancelled
  /\ Conclude(v, outcome)
  /\ phase' = [phase EXCEPT ![v] = IF phase[v] = "reporting" THEN "reporting" ELSE "next"]
  /\ lane' = lane \ {v}
  /\ UNCHANGED <<slots, run>>

LEMMA ConcludesKeeps ==
  ASSUME IInv, NEW v \in Visits, NEW outcome, Concludes(v, outcome)
  PROVE  IInv'
  <1> DEFINE t == Head(todo[v])
             p == <<IdOf[v], t>>
  <1>1. EngineTypeOK /\ PlacesReturned /\ RunningIsReal /\ Stages /\ Traced /\ Answered /\ Ended
    BY DEF IInv, NothingLeftOpen
  <1>2. /\ todo[v] \in Seq(Types) /\ todo[v] # <<>>
        /\ \A j, k \in DOMAIN todo[v] : todo[v][j] = todo[v][k] => j = k
    BY <1>1 DEF EngineTypeOK, Stages, Stage, Concludes
  <1>3. /\ t \in Types /\ Tail(todo[v]) \in Seq(Types)
        /\ \A j, k \in DOMAIN Tail(todo[v]) : Tail(todo[v])[j] = Tail(todo[v])[k] => j = k
        /\ \A x : (\E k \in DOMAIN Tail(todo[v]) : Tail(todo[v])[k] = x)
                    <=> x # t /\ \E k \in DOMAIN todo[v] : todo[v][k] = x
    BY <1>2, TurnsToNext
  <1>4. /\ IdOf[v] \in Identities /\ p \in Pairs
        /\ Verdict(outcome) \in Settled /\ outcome # "none"
    BY <1>3, VisitsAssumption DEF Pairs, Concludes, Verdict, Settled, Outcomes, Errors
  <1>5. /\ results' \in [Visits -> [Types -> Outcomes \cup {"none"}]]
        /\ \A u \in Visits, x \in Types :
             results'[u][x] = IF u = v /\ x = t THEN outcome ELSE results[u][x]
    BY <1>1, <1>3 DEF EngineTypeOK, Concludes, Conclude
  <1>6. /\ rows' \in [Pairs -> Settled \cup {"absent", "running"}]
        /\ \A q \in Pairs :
             rows'[q] = IF q = p /\ rows[q] \notin Settled THEN Verdict(outcome) ELSE rows[q]
    BY <1>1, <1>4 DEF EngineTypeOK, Concludes, Conclude, RowSettles, Cell, Settled
  <1>7. /\ todo' \in [Visits -> Seq(Types)]
        /\ \A u \in Visits : todo'[u] = IF u = v THEN Tail(todo[v]) ELSE todo[u]
    BY <1>1, <1>3 DEF EngineTypeOK, Concludes, Conclude
  <1>8. \A u \in Visits : \A x \in Types : x \in Owed(u)' <=> x \in Owed(u) /\ ~(u = v /\ x = t)
    <2> SUFFICES ASSUME NEW u \in Visits, NEW x \in Types
                 PROVE  x \in Owed(u)' <=> x \in Owed(u) /\ ~(u = v /\ x = t)
      OBVIOUS
    <2>1. CASE u = v
      <3>1. x \in Owed(v)' <=> \E k \in DOMAIN Tail(todo[v]) : Tail(todo[v])[k] = x
        BY <1>7 DEF Owed
      <3>2. x \in Owed(v) <=> \E k \in DOMAIN todo[v] : todo[v][k] = x
        BY DEF Owed
      <3> QED BY <2>1, <3>1, <3>2, <1>3
    <2>2. CASE u # v
      BY <2>2, <1>7 DEF Owed
    <2> QED BY <2>1, <2>2
  <1>9. /\ phase[v] \in {"next", "queueing", "asked", "reporting"}
        /\ phase[v] = "reporting" => outcome \in Errors
        /\ outcome = "cancelled" => cancelled
        /\ phase \in [Visits -> {"waiting", "dialling", "next", "queueing", "asked", "dead",
                              "reporting", "done"}]
        /\ \A u \in Visits :
             phase'[u] = IF u # v THEN phase[u] ELSE IF phase[v] = "reporting" THEN "reporting" ELSE "next"
        /\ phase' \in [Visits -> {"waiting", "dialling", "next", "queueing", "asked", "dead",
                              "reporting", "done"}]
        /\ lane' = lane \ {v}
        /\ UNCHANGED <<slots, finished, cancelled, runState>>
    BY <1>1 DEF EngineTypeOK, Concludes, run
  <1> HIDE DEF t, p
  <1>10. EngineTypeOK'
    BY <1>1, <1>5, <1>6, <1>7, <1>9 DEF EngineTypeOK
  <1>11. PlacesReturned'
    <2>1. Cardinality(lane') <= LaneWidth
      <3>1. IsFiniteSet(lane) /\ lane' \subseteq lane
        BY <1>1, <1>9, VisitsAssumption, FS_Subset DEF EngineTypeOK
      <3>2. Cardinality(lane') \in Nat /\ Cardinality(lane) \in Nat /\ Cardinality(lane') <= Cardinality(lane)
        BY <3>1, FS_Subset, FS_CardinalityType
      <3> QED BY <1>1, <3>2, LimitsAssumption DEF PlacesReturned
    <2> QED BY <2>1, <1>1, <1>7, <1>9 DEF PlacesReturned
  <1>12. RunningIsReal'
    <2> SUFFICES ASSUME NEW q \in Pairs, rows'[q] = "running"
                 PROVE  \E u \in Visits : phase'[u] = "asked" /\ q = Cell(u)'
      BY DEF RunningIsReal
    <2>1. rows[q] = "running" /\ q # p
      BY <1>4, <1>6 DEF Settled
    <2>2. PICK u \in Visits : phase[u] = "asked" /\ q = Cell(u)
      BY <1>1, <2>1 DEF RunningIsReal
    <2>3. u # v
      BY <2>1, <2>2 DEF Cell, p, t
    <2> QED BY <2>2, <2>3, <1>7, <1>9 DEF Cell
  <1>13. Stages'
    <2> SUFFICES ASSUME NEW u \in Visits
                 PROVE  Stage(u)'
      BY DEF Stages
    <2>1. \A x \in Types :
            IF phase[u] \in {"waiting", "dialling", "dead"} THEN results[u][x] = "none"
            ELSE results[u][x] = "none" <=> x \in Owed(u)
      BY <1>1 DEF Stages, Stage
    <2>2. CASE u = v
      <3>1. phase'[u] \in {"next", "reporting"} /\ todo'[u] = Tail(todo[v])
        BY <2>2, <1>7, <1>9
      <3>2. \A x \in Types : results'[u][x] = "none" <=> x \in Owed(u)'
        BY <2>1, <2>2, <1>3, <1>4, <1>5, <1>8, <1>9
      <3> QED BY <3>1, <3>2, <1>3 DEF Stage
    <2>3. CASE u # v
      <3>1. phase'[u] = phase[u] /\ todo'[u] = todo[u]
        BY <2>3, <1>7, <1>9
      <3>2. \A x \in Types : results'[u][x] = results[u][x] /\ (x \in Owed(u)' <=> x \in Owed(u))
        BY <2>3, <1>5, <1>8
      <3> QED BY <2>1, <3>1, <3>2, <1>1 DEF Stages, Stage
    <2> QED BY <2>2, <2>3
  <1>14. Traced'
    <2> SUFFICES ASSUME NEW i \in Identities, NEW x \in Types, rows'[<<i, x>>] \in Settled
                 PROVE  Told(i, x)'
      BY DEF Traced
    <2>0. <<i, x>> \in Pairs
      BY DEF Pairs
    <2>1. CASE rows[<<i, x>>] \notin Settled
      <3>1. <<i, x>> = p /\ rows'[p] = Verdict(outcome) /\ i = IdOf[v] /\ x = t
        BY <2>0, <2>1, <1>6 DEF p
      <3> QED BY <3>1, <1>3, <1>4, <1>5 DEF Told
    <2>2. CASE rows[<<i, x>>] \in Settled
      <3>1. rows'[<<i, x>>] = rows[<<i, x>>]
        BY <2>0, <2>2, <1>6
      <3>2. PICK u \in Visits :
              /\ IdOf[u] = i
              /\ \/ results[u][x] # "none" /\ rows[<<i, x>>] = Verdict(results[u][x])
                 \/ rows[<<i, x>>] = "failed" /\ phase[u] = "reporting" /\ x \in Owed(u)
        BY <1>1, <2>2 DEF Traced, Told
      <3>3. CASE u = v /\ x = t
        <4>1. results[v][t] = "none"
          <5>1. t \in Owed(v)
            BY <1>2 DEF Owed, t
          <5> QED BY <5>1, <1>1, <1>3, <1>9 DEF Stages, Stage
        <4>2. rows[<<i, x>>] = "failed" /\ outcome \in Errors
          BY <3>2, <3>3, <4>1, <1>9
        <4> QED BY <3>1, <3>2, <3>3, <4>2, <1>3, <1>4, <1>5 DEF Verdict, Told
      <3>4. CASE ~(u = v /\ x = t)
        BY <3>1, <3>2, <3>4, <1>5, <1>8, <1>9 DEF Told
      <3> QED BY <3>3, <3>4
    <2> QED BY <2>1, <2>2
  <1>15. Answered'
    <2> SUFFICES ASSUME NEW u \in Visits, NEW x \in Types, results'[u][x] # "none"
                 PROVE  rows'[<<IdOf[u], x>>] \in Settled
      BY DEF Answered
    <2>1. <<IdOf[u], x>> \in Pairs
      BY VisitsAssumption DEF Pairs
    <2> QED BY <2>1, <1>1, <1>4, <1>5, <1>6 DEF Answered, p
  <1>16. Ended'
    <2>1. runState = "running"
      BY <1>1, <1>9, StillRunning
    <2> QED BY <2>1, <1>1, <1>5, <1>9 DEF Ended, NothingDropped
  <1> QED BY <1>10, <1>11, <1>12, <1>13, <1>14, <1>15, <1>16 DEF IInv, NothingLeftOpen

\* A command goes out.
Opens(v) ==
  /\ phase[v] \in {"next", "queueing"} /\ todo[v] # <<>>
  /\ Head(todo[v]) \in Expensive <=> phase[v] = "queueing"
  /\ phase[v] = "queueing" => Cardinality(lane) < LaneWidth
  /\ RowOpens(Cell(v))
  /\ Goto(v, "asked")
  /\ lane' = IF phase[v] = "queueing" THEN lane \cup {v} ELSE lane
  /\ UNCHANGED <<todo, slots, results, run>>

LEMMA OpensKeeps ==
  ASSUME IInv, NEW v \in Visits, Opens(v)
  PROVE  IInv'
  <1> DEFINE p == <<IdOf[v], Head(todo[v])>>
  <1>1. EngineTypeOK /\ PlacesReturned /\ RunningIsReal /\ Stages /\ Traced /\ Answered /\ Ended
    BY DEF IInv, NothingLeftOpen
  <1>2. todo[v] \in Seq(Types) /\ todo[v] # <<>> /\ Head(todo[v]) \in Types
    BY <1>1 DEF EngineTypeOK, Opens
  <1>3. p \in Pairs /\ p = Cell(v)
    BY <1>2, VisitsAssumption DEF Pairs, Cell
  <1>4. /\ rows' \in [Pairs -> Settled \cup {"absent", "running"}]
        /\ \A q \in Pairs : rows'[q] = IF q = p /\ rows[q] = "absent" THEN "running" ELSE rows[q]
    BY <1>1, <1>3 DEF EngineTypeOK, Opens, RowOpens
  <1>5. /\ phase[v] \in {"next", "queueing"}
        /\ Head(todo[v]) \in Expensive <=> phase[v] = "queueing"
        /\ phase[v] = "queueing" => Cardinality(lane) < LaneWidth
        /\ phase' \in [Visits -> {"waiting", "dialling", "next", "queueing", "asked", "dead",
                               "reporting", "done"}]
        /\ \A u \in Visits : phase'[u] = IF u = v THEN "asked" ELSE phase[u]
        /\ lane' = IF phase[v] = "queueing" THEN lane \cup {v} ELSE lane
        /\ UNCHANGED <<todo, slots, results, finished, cancelled, runState>>
    BY <1>1 DEF EngineTypeOK, Opens, Goto, run
  <1>6. \A u \in Visits : Owed(u)' = Owed(u)
    BY <1>5 DEF Owed
  <1> HIDE DEF p
  <1>7. EngineTypeOK'
    BY <1>1, <1>4, <1>5 DEF EngineTypeOK
  <1>8. PlacesReturned'
    <2>1. Cardinality(lane') <= LaneWidth
      <3>1. CASE phase[v] = "queueing"
        <4>1. v \notin lane
          BY <1>1, <3>1 DEF PlacesReturned
        <4>2. IsFiniteSet(lane) /\ Cardinality(lane) \in Nat
          BY <1>1, VisitsAssumption, FS_Subset, FS_CardinalityType DEF EngineTypeOK
        <4>3. Cardinality(lane \cup {v}) = Cardinality(lane) + 1
          BY <4>1, <4>2, FS_AddElement
        <4> QED BY <3>1, <4>2, <4>3, <1>5, LimitsAssumption
      <3>2. CASE phase[v] # "queueing"
        BY <3>2, <1>1, <1>5 DEF PlacesReturned
      <3> QED BY <3>1, <3>2
    <2> QED BY <2>1, <1>1, <1>5 DEF PlacesReturned
  <1>9. RunningIsReal'
    <2> SUFFICES ASSUME NEW q \in Pairs, rows'[q] = "running"
                 PROVE  \E u \in Visits : phase'[u] = "asked" /\ q = Cell(u)'
      BY DEF RunningIsReal
    <2>1. CASE q = p
      BY <2>1, <1>3, <1>5 DEF Cell
    <2>2. CASE q # p
      <3>1. PICK u \in Visits : phase[u] = "asked" /\ q = Cell(u)
        BY <2>2, <1>1, <1>4 DEF RunningIsReal
      <3> QED BY <3>1, <1>5 DEF Cell
    <2> QED BY <2>1, <2>2
  <1>10. Stages'
    BY <1>1, <1>2, <1>5, <1>6 DEF Stages, Stage
  <1>11. Traced'
    <2> SUFFICES ASSUME NEW i \in Identities, NEW x \in Types, rows'[<<i, x>>] \in Settled
                 PROVE  Told(i, x)'
      BY DEF Traced
    <2>1. rows'[<<i, x>>] = rows[<<i, x>>]
      BY <1>4 DEF Settled, Pairs
    <2>2. PICK u \in Visits :
            /\ IdOf[u] = i
            /\ \/ results[u][x] # "none" /\ rows[<<i, x>>] = Verdict(results[u][x])
               \/ rows[<<i, x>>] = "failed" /\ phase[u] = "reporting" /\ x \in Owed(u)
      BY <2>1, <1>1 DEF Traced, Told
    <2>3. x \in Owed(u)' <=> x \in Owed(u)
      BY <1>6
    <2>4. phase[u] = "reporting" => phase'[u] = "reporting"
      BY <1>5
    <2> QED BY <2>1, <2>2, <2>3, <2>4, <1>5 DEF Told
  <1>12. Answered'
    <2>1. \A q \in Pairs : rows[q] \in Settled => rows[q] = rows'[q]
      BY <1>4 DEF Settled
    <2> QED BY <2>1, <1>1, <1>5, VisitsAssumption DEF Answered, Pairs
  <1>13. Ended'
    <2>1. runState = "running"
      BY <1>1, <1>5, StillRunning
    <2> QED BY <2>1, <1>1, <1>5 DEF Ended, NothingDropped
  <1> QED BY <1>7, <1>8, <1>9, <1>10, <1>11, <1>12, <1>13 DEF IInv, NothingLeftOpen

\* A visit goes from place to place, and neither the table nor a Result is
\* written: it takes or gives back its slot, and may be given what it owes.
Moves(v, place, owes) ==
  /\ runState = "running"
  /\ phase[v] # "asked" /\ Goto(v, place)
  /\ place \in {"dialling", "next", "queueing", "dead", "done"}
  /\ phase[v] = "reporting" => todo[v] = <<>>
  /\ owes \in Seq(Types) /\ todo' = [todo EXCEPT ![v] = owes]
  /\ \A j, k \in DOMAIN owes : owes[j] = owes[k] => j = k
  /\ place \in {"dialling", "dead", "done"} => owes = <<>>
  /\ place = "queueing" => owes # <<>> /\ Head(owes) \in Expensive
  /\ \A t \in Types :
       IF place \in {"dialling", "dead"} THEN results[v][t] = "none"
       ELSE results[v][t] = "none" <=> \E k \in DOMAIN owes : owes[k] = t
  /\ slots' \in SUBSET Visits /\ Cardinality(slots') <= Concurrency
  /\ \A u \in Visits \ {v} : u \in slots' <=> u \in slots
  /\ place = "done" => v \notin slots'
  /\ place \in {"dialling", "next", "queueing"} => v \in slots'
  /\ UNCHANGED <<lane, results, rows, run>>

LEMMA MovesKeeps ==
  ASSUME IInv, NEW v \in Visits, NEW place, NEW owes, Moves(v, place, owes)
  PROVE  IInv'
  <1>1. EngineTypeOK /\ PlacesReturned /\ RunningIsReal /\ Stages /\ Traced /\ Answered /\ Ended
    BY DEF IInv, NothingLeftOpen
  <1>2. /\ runState = "running" /\ phase[v] # "asked"
        /\ place \in {"dialling", "next", "queueing", "dead", "done"}
        /\ phase[v] = "reporting" => todo[v] = <<>>
        /\ phase' \in [Visits -> {"waiting", "dialling", "next", "queueing", "asked", "dead",
                               "reporting", "done"}]
        /\ \A u \in Visits : phase'[u] = IF u = v THEN place ELSE phase[u]
        /\ todo' \in [Visits -> Seq(Types)]
        /\ \A u \in Visits : todo'[u] = IF u = v THEN owes ELSE todo[u]
        /\ UNCHANGED <<lane, results, rows, finished, cancelled, runState>>
    BY <1>1 DEF EngineTypeOK, Moves, Goto, run
  <1>3. EngineTypeOK'
    BY <1>1, <1>2 DEF EngineTypeOK, Moves
  <1>4. PlacesReturned'
    BY <1>1, <1>2 DEF PlacesReturned, Moves
  <1>5. RunningIsReal'
    <2> SUFFICES ASSUME NEW q \in Pairs, rows'[q] = "running"
                 PROVE  \E u \in Visits : phase'[u] = "asked" /\ q = Cell(u)'
      BY DEF RunningIsReal
    <2>1. PICK u \in Visits : phase[u] = "asked" /\ q = Cell(u)
      BY <1>1, <1>2 DEF RunningIsReal
    <2> QED BY <2>1, <1>2 DEF Cell
  <1>6. \A u \in Visits \ {v} : Owed(u)' = Owed(u)
    BY <1>2 DEF Owed
  <1>7. Stages'
    <2> SUFFICES ASSUME NEW u \in Visits
                 PROVE  Stage(u)'
      BY DEF Stages
    <2>1. CASE u = v
      <3>1. phase'[u] = place /\ todo'[u] = owes /\ results'[u] = results[v]
        BY <2>1, <1>2
      <3>2. \A x \in Types : x \in Owed(u)' <=> \E k \in DOMAIN owes : owes[k] = x
        BY <3>1 DEF Owed
      <3> QED BY <3>1, <3>2 DEF Moves, Stage
    <2>2. CASE u # v
      BY <2>2, <1>1, <1>2, <1>6 DEF Stages, Stage
    <2> QED BY <2>1, <2>2
  <1>8. Traced'
    <2> SUFFICES ASSUME NEW i \in Identities, NEW x \in Types, rows'[<<i, x>>] \in Settled
                 PROVE  Told(i, x)'
      BY DEF Traced
    <2>1. PICK u \in Visits :
            /\ IdOf[u] = i
            /\ \/ results[u][x] # "none" /\ rows[<<i, x>>] = Verdict(results[u][x])
               \/ rows[<<i, x>>] = "failed" /\ phase[u] = "reporting" /\ x \in Owed(u)
      BY <1>1, <1>2 DEF Traced, Told
    <2>2. phase[v] = "reporting" => x \notin Owed(v)
      BY <1>2 DEF Owed
    <2> QED BY <2>1, <2>2, <1>2, <1>6 DEF Told
  <1>9. Answered'
    BY <1>1, <1>2 DEF Answered
  <1>10. Ended'
    BY <1>1, <1>2 DEF Ended, NothingDropped
  <1> QED BY <1>3, <1>4, <1>5, <1>7, <1>8, <1>9, <1>10 DEF IInv, NothingLeftOpen

\* A device that is not reached, or lost, before its first command.
LEMMA DeadKeeps ==
  ASSUME IInv, NEW v \in Visits, Dead(v)
  PROVE  IInv'
  <1>1. EngineTypeOK /\ PlacesReturned /\ RunningIsReal /\ Stages /\ Traced /\ Answered /\ Ended
    BY DEF IInv, NothingLeftOpen
  <1>2. Complete(Specs)
    BY SpecsAreComplete
  <1>3. /\ phase[v] = "dead"
        /\ phase' \in [Visits -> {"waiting", "dialling", "next", "queueing", "asked", "dead",
                               "reporting", "done"}]
        /\ \A u \in Visits : phase'[u] = IF u = v THEN "reporting" ELSE phase[u]
        /\ todo' \in [Visits -> Seq(Types)]
        /\ \A u \in Visits : todo'[u] = IF u = v THEN Specs ELSE todo[u]
        /\ UNCHANGED <<slots, lane, results, finished, cancelled, runState>>
    BY <1>1, <1>2 DEF EngineTypeOK, Dead, Goto, run, Complete
  <1>4. /\ rows' \in [Pairs -> Settled \cup {"absent", "running"}]
        /\ \A q \in Pairs : rows'[q] = IF q[1] = IdOf[v] /\ rows[q] = "running" THEN "failed" ELSE rows[q]
    BY <1>1 DEF EngineTypeOK, Dead, DeviceDies, Running, Settled
  <1>5. /\ \A u \in Visits \ {v} : Owed(u)' = Owed(u)
        /\ Owed(v)' = Types
    BY <1>2, <1>3 DEF Owed, Complete
  <1>6. EngineTypeOK'
    BY <1>1, <1>3, <1>4 DEF EngineTypeOK
  <1>7. PlacesReturned'
    BY <1>1, <1>3 DEF PlacesReturned
  <1>8. RunningIsReal'
    <2> SUFFICES ASSUME NEW q \in Pairs, rows'[q] = "running"
                 PROVE  \E u \in Visits : phase'[u] = "asked" /\ q = Cell(u)'
      BY DEF RunningIsReal
    <2>1. PICK u \in Visits : phase[u] = "asked" /\ q = Cell(u)
      BY <1>1, <1>4 DEF RunningIsReal
    <2> QED BY <2>1, <1>3 DEF Cell
  <1>9. Stages'
    <2> SUFFICES ASSUME NEW u \in Visits
                 PROVE  Stage(u)'
      BY DEF Stages
    <2>1. Stage(u)
      BY <1>1 DEF Stages
    <2>2. CASE u = v
      <3>1. phase'[u] = "reporting" /\ todo'[u] = Specs /\ results'[u] = results[v] /\ Owed(u)' = Types
        BY <2>2, <1>3, <1>5
      <3>2. \A j, k \in DOMAIN Specs : Specs[j] = Specs[k] => j = k
        BY <1>2 DEF Complete
      <3>3. \A x \in Types : results[v][x] = "none"
        BY <2>1, <2>2, <1>3 DEF Stage
      <3> QED BY <3>1, <3>2, <3>3 DEF Stage
    <2>3. CASE u # v
      BY <2>1, <2>3, <1>3, <1>5 DEF Stage
    <2> QED BY <2>2, <2>3
  <1>10. Traced'
    <2> SUFFICES ASSUME NEW i \in Identities, NEW x \in Types, rows'[<<i, x>>] \in Settled
                 PROVE  Told(i, x)'
      BY DEF Traced
    <2>1. <<i, x>> \in Pairs
      BY DEF Pairs
    <2>2. CASE rows[<<i, x>>] = "running"
      <3>1. i = IdOf[v] /\ rows'[<<i, x>>] = "failed"
        BY <2>1, <2>2, <1>4 DEF Settled
      <3> QED BY <3>1, <1>3, <1>5 DEF Told
    <2>3. CASE rows[<<i, x>>] # "running"
      <3>1. rows'[<<i, x>>] = rows[<<i, x>>]
        BY <2>1, <2>3, <1>4
      <3>2. PICK u \in Visits :
              /\ IdOf[u] = i
              /\ \/ results[u][x] # "none" /\ rows[<<i, x>>] = Verdict(results[u][x])
                 \/ rows[<<i, x>>] = "failed" /\ phase[u] = "reporting" /\ x \in Owed(u)
        BY <3>1, <1>1 DEF Traced, Told
      <3> QED BY <3>1, <3>2, <1>3, <1>5 DEF Told
    <2> QED BY <2>2, <2>3
  <1>11. Answered'
    <2>1. \A q \in Pairs : rows[q] \in Settled => rows'[q] = rows[q]
      BY <1>4 DEF Settled
    <2> QED BY <2>1, <1>1, <1>3, VisitsAssumption DEF Answered, Pairs
  <1>12. Ended'
    <2>1. runState = "running"
      BY <1>1, <1>3, StillRunning
    <2> QED BY <2>1, <1>1, <1>3 DEF Ended, NothingDropped
  <1> QED BY <1>6, <1>7, <1>8, <1>9, <1>10, <1>11, <1>12 DEF IInv, NothingLeftOpen

-----------------------------------------------------------------------------
(* Every operation of a visit is one of these.                             *)

LEMMA VisitConcludes ==
  ASSUME IInv, NEW v \in Visits,
         SkipCancelled(v) \/ Decline(v) \/ LeaveQueue(v) \/ Answer(v) \/ ReportType(v)
  PROVE  \E outcome \in Outcomes : Concludes(v, outcome)
  <1>1. EngineTypeOK /\ PlacesReturned /\ Stage(v)
    BY DEF IInv, NothingLeftOpen, Stages
  <1>2. /\ phase = [phase EXCEPT ![v] = phase[v]]
        /\ phase[v] # "asked" => lane = lane \ {v}
    BY <1>1 DEF EngineTypeOK, PlacesReturned
  <1>3. {"stored", "notapplicable", "unchanged", "cancelled", "error"} = Outcomes
        /\ Errors = {"error", "cancelled"}
    BY DEF Outcomes, Errors
  <1>4. \A outcome \in Reasons :
          /\ outcome \in Errors /\ outcome \in Outcomes
          /\ outcome = "cancelled" => cancelled
    BY <1>3 DEF Reasons
  <1>5. CASE SkipCancelled(v)
    <2>1. Concludes(v, "cancelled")
      BY <1>2, <1>3, <1>5 DEF SkipCancelled, Owing, Concludes
    <2> QED BY <2>1, <1>3
  <1>6. CASE Decline(v)
    <2>1. Concludes(v, "notapplicable")
      BY <1>2, <1>3, <1>6 DEF Decline, Owing, Concludes
    <2> QED BY <2>1, <1>3
  <1>7. CASE LeaveQueue(v)
    <2>1. Concludes(v, "cancelled")
      BY <1>1, <1>2, <1>3, <1>7 DEF LeaveQueue, Goto, Stage, Concludes
    <2> QED BY <2>1, <1>3
  <1>8. CASE Answer(v)
    <2>1. PICK outcome \in (Outcomes \ Errors) \cup Reasons :
            Conclude(v, outcome) /\ lane' = lane \ {v}
      BY <1>8 DEF Answer, LaneAfter
    <2>2. outcome \in Outcomes /\ (outcome = "cancelled" => cancelled)
      BY <2>1, <1>3, <1>4
    <2>3. Concludes(v, outcome)
      BY <1>1, <1>8, <2>1, <2>2 DEF Answer, Goto, Stage, Concludes
    <2> QED BY <2>2, <2>3
  <1>9. CASE ReportType(v)
    <2>1. PICK outcome \in Reasons : Conclude(v, outcome)
      BY <1>9 DEF ReportType
    <2>2. Concludes(v, outcome)
      BY <1>2, <1>4, <1>9, <2>1 DEF ReportType, Concludes
    <2> QED BY <2>2, <1>4
  <1> QED BY <1>5, <1>6, <1>7, <1>8, <1>9

LEMMA VisitOpens ==
  ASSUME IInv, NEW v \in Visits, Ask(v) \/ EnterLane(v)
  PROVE  Opens(v)
  <1>1. Stage(v)
    BY DEF IInv, Stages
  <1>2. CASE Ask(v)
    BY <1>2 DEF Ask, Owing, Opens
  <1>3. CASE EnterLane(v)
    BY <1>1, <1>3 DEF EnterLane, Stage, Opens
  <1> QED BY <1>2, <1>3

LEMMA VisitMoves ==
  ASSUME IInv, NEW v \in Visits,
         Enter(v) \/ GiveUpWaiting(v) \/ Lose(v) \/ Connect(v) \/ QueueForLane(v) \/ Leave(v)
  PROVE  \E place, owes : Moves(v, place, owes)
  <1>1. EngineTypeOK /\ PlacesReturned /\ Ended /\ Stage(v)
    BY DEF IInv, NothingLeftOpen, Stages
  <1>2. /\ todo = [todo EXCEPT ![v] = todo[v]] /\ todo[v] \in Seq(Types)
        /\ slots \in SUBSET Visits /\ IsFiniteSet(slots)
        /\ Cardinality(slots) \in Nat /\ Cardinality(slots) <= Concurrency
    BY <1>1, VisitsAssumption, FS_Subset, FS_CardinalityType DEF EngineTypeOK, PlacesReturned
  <1>3. /\ \A j, k \in DOMAIN todo[v] : todo[v][j] = todo[v][k] => j = k
        /\ \A t \in Types :
             IF phase[v] \in {"waiting", "dialling", "dead"} THEN results[v][t] = "none"
             ELSE results[v][t] = "none" <=> \E k \in DOMAIN todo[v] : todo[v][k] = t
    BY <1>1 DEF Stage, Owed
  <1>4. CASE Enter(v)
    <2> DEFINE place == IF cancelled THEN "dead" ELSE "dialling"
    <2>1. /\ runState = "running" /\ phase[v] = "waiting" /\ v \notin slots
          /\ Cardinality(slots) < Concurrency /\ slots' = slots \cup {v}
          /\ Goto(v, place) /\ UNCHANGED <<todo, lane, results, rows, run>>
      BY <1>1, <1>4 DEF Enter, PlacesReturned
    <2>2. Cardinality(slots') <= Concurrency
      <3>1. Cardinality(slots \cup {v}) = Cardinality(slots) + 1
        BY <2>1, <1>2, FS_AddElement
      <3> QED BY <3>1, <2>1, <1>2, LimitsAssumption
    <2>3. todo[v] = <<>> /\ place \in {"dead", "dialling"}
      BY <1>1, <2>1 DEF Stage
    <2> HIDE DEF place
    <2>4. Moves(v, place, todo[v])
      BY <1>2, <1>3, <2>1, <2>2, <2>3 DEF Moves
    <2> QED BY <2>4
  <1>5. CASE GiveUpWaiting(v)
    <2>1. todo[v] = <<>>
      BY <1>1, <1>5 DEF Stage, GiveUpWaiting
    <2>2. Moves(v, "dead", todo[v])
      BY <1>2, <1>3, <1>5, <2>1 DEF GiveUpWaiting, Moves
    <2> QED BY <2>2
  <1>6. CASE Lose(v)
    <2>1. todo[v] = <<>> /\ runState = "running"
      BY <1>1, <1>6, StillRunning DEF Stage, Lose
    <2>2. Moves(v, "dead", todo[v])
      BY <1>2, <1>3, <1>6, <2>1 DEF Lose, Moves
    <2> QED BY <2>2
  <1>7. CASE Connect(v)
    <2>1. PICK order \in Ordered : todo' = [todo EXCEPT ![v] = order]
      BY <1>7 DEF Connect
    <2>2. /\ order \in Seq(Types)
          /\ \A j, k \in DOMAIN order : order[j] = order[k] => j = k
          /\ \A t \in Types : \E k \in DOMAIN order : order[k] = t
      BY OrderIsComplete DEF Complete
    <2>3. runState = "running" /\ phase[v] = "dialling" /\ v \in slots
      BY <1>1, <1>7, StillRunning DEF Connect, PlacesReturned
    <2>4. Moves(v, "next", order)
      BY <1>2, <1>3, <1>7, <2>1, <2>2, <2>3 DEF Connect, Moves
    <2> QED BY <2>4
  <1>8. CASE QueueForLane(v)
    <2>1. runState = "running" /\ phase[v] = "next" /\ v \in slots /\ todo[v] # <<>>
      BY <1>1, <1>8, StillRunning DEF QueueForLane, Owing, PlacesReturned
    <2>2. Moves(v, "queueing", todo[v])
      BY <1>2, <1>3, <1>8, <2>1 DEF QueueForLane, Moves
    <2> QED BY <2>2
  <1>9. CASE Leave(v)
    <2>1. runState = "running" /\ phase[v] \in {"next", "reporting"} /\ todo[v] = <<>>
      BY <1>1, <1>9, StillRunning DEF Leave
    <2>2. slots' \in SUBSET Visits /\ Cardinality(slots') <= Concurrency
      BY <1>2, <1>9, FS_RemoveElement, FS_Subset, FS_CardinalityType, LimitsAssumption DEF Leave
    <2>3. Moves(v, "done", todo[v])
      BY <1>2, <1>3, <1>9, <2>1, <2>2 DEF Leave, Moves
    <2> QED BY <2>3
  <1> QED BY <1>4, <1>5, <1>6, <1>7, <1>8, <1>9

LEMMA VisitKeeps ==
  ASSUME IInv, NEW v \in Visits, Visit(v)
  PROVE  IInv'
  <1>1. CASE Dead(v)
    BY <1>1, DeadKeeps
  <1>2. CASE SkipCancelled(v) \/ Decline(v) \/ LeaveQueue(v) \/ Answer(v) \/ ReportType(v)
    BY <1>2, VisitConcludes, ConcludesKeeps
  <1>3. CASE Ask(v) \/ EnterLane(v)
    BY <1>3, VisitOpens, OpensKeeps
  <1>4. CASE Enter(v) \/ GiveUpWaiting(v) \/ Lose(v) \/ Connect(v) \/ QueueForLane(v) \/ Leave(v)
    BY <1>4, VisitMoves, MovesKeeps
  <1> QED BY <1>1, <1>2, <1>3, <1>4 DEF Visit

-----------------------------------------------------------------------------
(* The run around the visits.                                              *)

\* When it is over, no command is out: Finish has nothing to settle.
LEMMA NothingToSettle ==
  ASSUME IInv, Finish
  PROVE  rows' = rows
  <1>1. EngineTypeOK /\ RunningIsReal /\ Ended
    BY DEF IInv, NothingLeftOpen
  <1>2. AllDone \/ NoneStarted
    BY <1>1 DEF Finish, Ended, EngineTypeOK
  <1>3. \A p \in Pairs : rows[p] # "running"
    BY <1>1, <1>2 DEF RunningIsReal, AllDone, NoneStarted
  <1> QED BY <1>1, <1>3 DEF Finish, EngineTypeOK

\* Steps that touch neither a visit nor the table.
LEMMA RunKeeps ==
  ASSUME IInv, UNCHANGED <<engine, rows>>, EngineTypeOK', Ended'
  PROVE  IInv'
  <1>1. EngineTypeOK /\ PlacesReturned /\ RunningIsReal /\ Stages /\ Traced /\ Answered
        /\ UNCHANGED <<phase, todo, slots, lane, results, rows>>
    BY DEF IInv, NothingLeftOpen, engine
  <1>2. PlacesReturned' /\ RunningIsReal'
    BY <1>1 DEF PlacesReturned, RunningIsReal, Cell
  <1>3. Stages' /\ Traced' /\ Answered'
    BY <1>1 DEF Stages, Stage, Traced, Told, Answered, Owed
  <1> QED BY <1>2, <1>3 DEF IInv, NothingLeftOpen

LEMMA EngineSteps ==
  ASSUME IInv, [EngineNext]_engineVars
  PROVE  IInv'
  <1>1. EngineTypeOK /\ Ended
    BY DEF IInv, NothingLeftOpen
  <1>2. CASE \E v \in Visits : Visit(v)
    BY <1>2, VisitKeeps
  <1>3. CASE BuildFails
    <2>1. UNCHANGED <<engine, rows>> /\ EngineTypeOK'
      BY <1>1, <1>3 DEF BuildFails, engine, EngineTypeOK
    <2>2. Ended'
      BY <1>1, <1>3 DEF BuildFails, engine, Ended, NoneStarted, AllDone, NothingDropped
    <2> QED BY <2>1, <2>2, RunKeeps
  <1>4. CASE Judge
    <2>1. UNCHANGED <<engine, rows>> /\ EngineTypeOK'
      BY <1>1, <1>4 DEF Judge, engine, EngineTypeOK
    <2>2. Ended'
      BY <1>1, <1>4 DEF Judge, engine, Ended, NoneStarted, AllDone, NothingDropped
    <2> QED BY <2>1, <2>2, RunKeeps
  <1>5. CASE Finish
    <2>1. UNCHANGED <<engine, rows>>
      BY <1>5, NothingToSettle DEF Finish
    <2>2. EngineTypeOK'
      BY <1>1, <1>5, <2>1 DEF Finish, engine, EngineTypeOK
    <2>3. Ended'
      BY <1>1, <1>5 DEF Finish, engine, Ended, NoneStarted, AllDone, NothingDropped
    <2> QED BY <2>1, <2>2, <2>3, RunKeeps
  <1>6. CASE Cancel
    <2>1. UNCHANGED <<engine, rows>> /\ EngineTypeOK'
      BY <1>1, <1>6 DEF Cancel, engine, EngineTypeOK
    <2>2. Ended'
      BY <1>1, <1>6 DEF Cancel, engine, Ended, NoneStarted, AllDone, NothingDropped
    <2> QED BY <2>1, <2>2, RunKeeps
  <1>7. CASE UNCHANGED engineVars
    <2>1. UNCHANGED <<engine, rows, finished, cancelled, runState>>
      BY <1>7 DEF engineVars, engine
    <2>2. EngineTypeOK'
      BY <1>1, <1>7 DEF engineVars, EngineTypeOK
    <2>3. Ended'
      BY <1>1, <1>7 DEF engineVars, Ended, NoneStarted, AllDone, NothingDropped
    <2> QED BY <2>1, <2>2, <2>3, RunKeeps
  <1> QED BY <1>2, <1>3, <1>4, <1>5, <1>6, <1>7 DEF EngineNext

LEMMA EngineStarts ==
  ASSUME EngineInit
  PROVE  IInv
  <1>1. Types = Types /\ <<>> \in Seq(Types) /\ DOMAIN <<>> = {}
    OBVIOUS
  <1>2. EngineTypeOK
    BY <1>1 DEF EngineInit, EngineTypeOK
  <1>3. PlacesReturned
    <2>1. Cardinality({}) = 0
      BY FS_EmptySet
    <2> QED BY <2>1, LimitsAssumption DEF EngineInit, PlacesReturned
  <1>4. RunningIsReal /\ Traced /\ Answered
    <2>1. \A p \in Pairs : rows[p] = "absent"
      BY DEF EngineInit
    <2>2. \A v \in Visits, t \in Types : results[v][t] = "none"
      BY DEF EngineInit
    <2>3. "absent" \notin Settled
      BY DEF Settled
    <2> QED BY <2>1, <2>2, <2>3 DEF RunningIsReal, Traced, Answered, Pairs
  <1>5. Stages
    BY <1>1 DEF EngineInit, Stages, Stage
  <1>6. Ended
    BY DEF EngineInit, Ended, NothingDropped
  <1> QED BY <1>2, <1>3, <1>4, <1>5, <1>6 DEF IInv, NothingLeftOpen

LEMMA EngineInvariant == EngineSpec => []IInv
  <1>1. EngineInit => IInv
    BY EngineStarts
  <1>2. IInv /\ [EngineNext]_engineVars => IInv'
    BY EngineSteps
  <1> QED BY <1>1, <1>2, PTL DEF EngineSpec

-----------------------------------------------------------------------------
(* What it is for.                                                         *)

\* Every way out of a visit, failures and cancels included, gives back the slot,
\* the lane and the running row, whatever the limits (Engine.visit, Engine.one
\* and their defers).
THEOREM NothingIsLeftOpen == EngineSpec => []NothingLeftOpen
  <1>1. IInv => NothingLeftOpen
    BY DEF IInv
  <1> QED BY <1>1, EngineInvariant, PTL

\* When the engine returns, every pair has a row, and its verdict is the verdict
\* of a Result of that pair (Engine.Capture and Engine.deviceFailed).
THEOREM TableTellsTheResults == EngineSpec => []TableIsTheResults
  <1>1. IInv => TableIsTheResults
    <2> SUFFICES ASSUME IInv, AllDone, NEW v \in Visits, NEW t \in Types
                 PROVE  \E u \in Visits : /\ IdOf[u] = IdOf[v]
                                          /\ rows[<<IdOf[v], t>>] = Verdict(results[u][t])
      BY DEF TableIsTheResults
    <2>1. Stages /\ Traced /\ Answered /\ phase[v] = "done"
      BY DEF IInv, AllDone
    <2>2. Owed(v) = {}
      BY <2>1 DEF Stages, Stage, Owed
    <2>3. results[v][t] # "none"
      BY <2>1, <2>2 DEF Stages, Stage
    <2>4. rows[<<IdOf[v], t>>] \in Settled /\ IdOf[v] \in Identities
      BY <2>1, <2>3, VisitsAssumption DEF Answered
    <2>5. Told(IdOf[v], t)
      BY <2>1, <2>4 DEF Traced
    <2> QED BY <2>5 DEF Told, AllDone
  <1> QED BY <1>1, EngineInvariant, PTL

\* A run called done owes no Result and dropped none (runCapture).
THEOREM DoneRunsAreDone == EngineSpec => []DoneIsDone
  <1>1. IInv => DoneIsDone
    <2> SUFFICES ASSUME IInv, runState = "done", NEW v \in Visits, NEW t \in Types
                 PROVE  results[v][t] \notin {"none", "cancelled"}
      BY DEF DoneIsDone
    <2>1. Stages /\ phase[v] = "done" /\ NothingDropped
      BY DEF IInv, Ended, AllDone
    <2>2. Owed(v) = {}
      BY <2>1 DEF Stages, Stage, Owed
    <2> QED BY <2>1, <2>2 DEF Stages, Stage, NothingDropped
  <1> QED BY <1>1, EngineInvariant, PTL

-----------------------------------------------------------------------------
(* The engine is a result board.                                           *)

\* A step of a visit comes before the run's last word, and takes no verdict back.
LEMMA VisitAdvances ==
  ASSUME IInv, NEW v \in Visits, Visit(v)
  PROVE  Board!Advance \/ UNCHANGED Board!bvars
  <1>1. EngineTypeOK /\ Ended /\ RunningIsReal /\ Stage(v) /\ EngineTypeOK'
    BY VisitKeeps DEF IInv, NothingLeftOpen, Stages
  <1>2. rows' \in [Pairs -> Settled \cup {"absent", "running"}] /\ finished \in BOOLEAN
    BY <1>1 DEF EngineTypeOK
  <1>3. CASE Dead(v)
    <2>1. ~finished /\ finished' = finished
      BY <1>1, <1>3, StillRunning DEF Dead, run
    <2>2. \A q \in Pairs : rows'[q] = IF q[1] = IdOf[v] /\ rows[q] = "running" THEN "failed" ELSE rows[q]
      BY <1>1, <1>3 DEF EngineTypeOK, Dead, DeviceDies, Running
    <2>3. \A q \in Pairs : Board!Moves(rows[q], rows'[q])
      BY <2>2 DEF Board!Moves, Settled
    <2> QED BY <2>1, <2>3, <1>2 DEF Board!Advance
  <1>4. CASE SkipCancelled(v) \/ Decline(v) \/ LeaveQueue(v) \/ Answer(v) \/ ReportType(v)
    <2>1. PICK outcome \in Outcomes : Concludes(v, outcome)
      BY <1>4, VisitConcludes
    <2>2. ~finished /\ finished' = finished
      BY <1>1, <2>1, StillRunning DEF Concludes, run
    <2>3. /\ Verdict(outcome) \in Settled
          /\ rows' = [rows EXCEPT ![Cell(v)] = IF @ \in {"absent", "running"} THEN Verdict(outcome) ELSE @]
      BY <2>1 DEF Concludes, Conclude, RowSettles, Verdict, Settled, Outcomes, Errors
    <2>4. \A q \in Pairs :
            rows'[q] = rows[q] \/ (rows[q] \in {"absent", "running"} /\ rows'[q] = Verdict(outcome))
      <3>1. rows \in [Pairs -> Settled \cup {"absent", "running"}]
        BY <1>1 DEF EngineTypeOK
      <3>2. \A q \in Pairs :
              rows'[q] = IF q = Cell(v) /\ rows[q] \in {"absent", "running"} THEN Verdict(outcome) ELSE rows[q]
        BY <2>3, <3>1
      <3> QED BY <3>2
    <2>5. \A q \in Pairs : Board!Moves(rows[q], rows'[q])
      BY <2>3, <2>4 DEF Board!Moves
    <2> QED BY <2>2, <2>5, <1>2 DEF Board!Advance
  <1>5. CASE Ask(v) \/ EnterLane(v)
    <2>1. Opens(v)
      BY <1>5, VisitOpens
    <2>2. ~finished /\ finished' = finished
      BY <1>1, <2>1, StillRunning DEF Opens, run
    <2>3. \A q \in Pairs : rows'[q] = rows[q] \/ (rows[q] = "absent" /\ rows'[q] = "running")
      <3>1. rows \in [Pairs -> Settled \cup {"absent", "running"}]
        BY <1>1 DEF EngineTypeOK
      <3>2. rows' = [rows EXCEPT ![Cell(v)] = IF @ = "absent" THEN "running" ELSE @]
        BY <2>1 DEF Opens, RowOpens
      <3>3. \A q \in Pairs : rows'[q] = IF q = Cell(v) /\ rows[q] = "absent" THEN "running" ELSE rows[q]
        BY <3>1, <3>2
      <3> QED BY <3>3
    <2>4. \A q \in Pairs : Board!Moves(rows[q], rows'[q])
      BY <2>3 DEF Board!Moves
    <2> QED BY <2>2, <2>4, <1>2 DEF Board!Advance
  <1>6. CASE Enter(v) \/ GiveUpWaiting(v) \/ Lose(v) \/ Connect(v) \/ QueueForLane(v) \/ Leave(v)
    <2>1. UNCHANGED <<rows, finished>>
      BY <1>6, VisitMoves DEF Moves, run
    <2> QED BY <2>1 DEF Board!bvars
  <1> QED BY <1>3, <1>4, <1>5, <1>6 DEF Visit

\* What the engine does to the run model is what a result board may do: a pair
\* goes from nothing to running to one verdict, nothing moves after Finish, and
\* Finish finds nothing running (Engine.Capture under runCapture).
THEOREM EngineImplementsBoard == EngineSpec => EngineIsABoard
  <1>1. EngineInit => Board!BoardInit
    BY DEF EngineInit, Board!BoardInit
  <1>2. IInv /\ IInv' /\ [EngineNext]_engineVars => [Board!Advance]_(Board!bvars)
    <2> SUFFICES ASSUME IInv, IInv', [EngineNext]_engineVars
                 PROVE  Board!Advance \/ UNCHANGED Board!bvars
      OBVIOUS
    <2>1. CASE \E v \in Visits : Visit(v)
      BY <2>1, VisitAdvances
    <2>2. CASE Finish
      <3>1. EngineTypeOK' /\ EngineTypeOK /\ RunningIsReal /\ Ended
        BY DEF IInv, NothingLeftOpen
      <3>2. rows' = rows
        BY <2>2, NothingToSettle
      <3>3. AllDone \/ NoneStarted
        BY <2>2, <3>1 DEF Finish, Ended, EngineTypeOK
      <3>4. \A q \in Pairs : rows[q] # "running"
        BY <3>1, <3>3 DEF RunningIsReal, AllDone, NoneStarted
      <3>5. rows' \in [Pairs -> Settled \cup {"absent", "running"}] /\ ~finished /\ finished' \in BOOLEAN
        BY <3>1, <2>2 DEF EngineTypeOK, Finish
      <3> QED BY <3>2, <3>4, <3>5 DEF Board!Advance, Board!Moves
    <2>3. CASE BuildFails \/ Judge \/ Cancel \/ UNCHANGED engineVars
      BY <2>3 DEF BuildFails, Judge, Cancel, engineVars, Board!bvars
    <2> QED BY <2>1, <2>2, <2>3 DEF EngineNext
  <1>3. EngineInit /\ [][EngineNext]_engineVars /\ []IInv => Board!BoardInit /\ [][Board!Advance]_(Board!bvars)
    BY <1>1, <1>2, PTL
  <1> QED BY <1>3, EngineInvariant DEF EngineSpec, EngineIsABoard, Board!BoardSpec

(***************************************************************************)
(* FileStore.  Neither the agreement of history and files nor the shape of *)
(* the history is inductive: what a Put may write next depends on what it  *)
(* read, which holds because one Put at a time is past its lock            *)
(* (OneAtATime) and says at each of its steps what it knows (Knows).  That *)
(* a free name is found depends on counting the files against the Puts     *)
(* (Room).                                                                 *)
(***************************************************************************)

Active(w) == pc[w] \notin {"idle", "done"}

OneAtATime == \A u, v \in Writers : Active(u) /\ Active(v) => u = v

NamesFiles(es) == \A k \in DOMAIN es : files[es[k].file] = es[k].digest

RunsOf(es) ==
  \A k \in DOMAIN es :
    IF k > 1 /\ es[k].unchanged
    THEN es[k].file = es[k - 1].file
    ELSE /\ ~es[k].unchanged
         /\ \A j \in 1..(k - 1) : es[j].file # es[k].file
         /\ k > 1 => es[k].digest # es[k - 1].digest

\* The content is not the newest version's.
Fresh(w) == history # <<>> => history[Len(history)].digest # job[w].digest

\* What a prune goes by while it removes what the kept lines do not name.
Sweeping(w) ==
  /\ \A x \in job[w].doomed : x[2] \notin NamesOf(history)
  /\ ~job[w].refused =>
       /\ \A n \in Disk : n \in NamesOf(history) \/ <<"txt", n>> \in job[w].doomed
       /\ \A n \in parses : n \in NamesOf(history) \/ <<"parsed", n>> \in job[w].doomed
  /\ Cardinality(NamesOf(history)) <= job[w].keep

Knows(w) ==
  /\ pc[w] # "idle" => job[w].from \in Devices /\ job[w].digest \in Digests
  /\ pc[w] = "same" =>
       /\ history # <<>> /\ job[w].name = history[Len(history)].file
       /\ job[w].digest = history[Len(history)].digest
  /\ pc[w] = "write" => Fresh(w)
  /\ pc[w] = "append" =>
       /\ job[w].name \in Names /\ files[job[w].name] = job[w].digest
       /\ job[w].name \notin NamesOf(history) /\ Fresh(w)
  /\ pc[w] = "cut" => job[w].entries = history /\ history # <<>> /\ job[w].keep > 0
  /\ pc[w] = "sweep" => Sweeping(w)
  /\ pc[w] \in {"same", "write", "append", "cut", "sweep"} => ~torn

\* Every file was written by a Put that was begun.
Room ==
  /\ IsFiniteSet(Disk) /\ Cardinality(Disk) <= puts
  /\ \A w \in Writers : pc[w] \in {"compare", "write"} => Cardinality(Disk) < puts

StoreInv ==
  /\ OneStore /\ TypeOK /\ NamesFiles(history) /\ RunsOf(history)
  /\ OneAtATime /\ Room /\ \A w \in Writers : Knows(w)

-----------------------------------------------------------------------------
(* The lines of a history.                                                 *)

LEMMA LinesAre ==
  ASSUME NEW es \in Seq(Entry)
  PROVE  /\ DOMAIN es = 1..Len(es) /\ Len(es) \in Nat
         /\ \A k \in DOMAIN es : /\ es[k] \in Entry /\ es[k].file \in Names /\ es[k].digest \in Digests
                                 /\ es[k].unchanged \in BOOLEAN
  <1>1. DOMAIN es = 1..Len(es) /\ Len(es) \in Nat
    OBVIOUS
  <1>2. \A k \in DOMAIN es : es[k] \in Entry
    <2> HIDE DEF Entry
    <2> QED BY <1>1, ElementOfSeq
  <1>3. \A e \in Entry : e.file \in Names /\ e.digest \in Digests /\ e.unchanged \in BOOLEAN
    BY DEF Entry
  <1> QED BY <1>1, <1>2, <1>3

\* A line more.
LEMMA LineAdded ==
  ASSUME NEW es \in Seq(Entry), NEW e \in Entry
  PROVE  /\ Append(es, e) \in Seq(Entry) /\ Len(Append(es, e)) = Len(es) + 1 /\ Len(es) \in Nat
         /\ DOMAIN Append(es, e) = 1..(Len(es) + 1)
         /\ Append(es, e)[Len(es) + 1] = e /\ \A k \in 1..Len(es) : Append(es, e)[k] = es[k]
  <1> HIDE DEF Entry
  <1> QED OBVIOUS

\* The run goes on.
LEMMA RunGoesOn ==
  ASSUME NEW es \in Seq(Entry), NEW e \in Entry, RunsOf(es), es # <<>>,
         e.unchanged, e.file = es[Len(es)].file
  PROVE  RunsOf(Append(es, e))
  <1> DEFINE n == Len(es)
             a == Append(es, e)
  <1>1. /\ n \in Nat /\ n > 0 /\ DOMAIN a = 1..(n + 1) /\ DOMAIN es = 1..n
        /\ a[n + 1] = e /\ \A k \in 1..n : a[k] = es[k]
    BY LineAdded, LinesAre
  <1> HIDE DEF a
  <1>2. e.file = es[n].file
    OBVIOUS
  <1> HIDE DEF n
  <1> SUFFICES ASSUME NEW k \in 1..(n + 1)
               PROVE  IF k > 1 /\ a[k].unchanged
                      THEN a[k].file = a[k - 1].file
                      ELSE /\ ~a[k].unchanged
                           /\ \A j \in 1..(k - 1) : a[j].file # a[k].file
                           /\ k > 1 => a[k].digest # a[k - 1].digest
    BY <1>1 DEF RunsOf, a
  <1>3. CASE k = n + 1
    <2>1. k > 1 /\ a[k] = e /\ a[k - 1] = es[n]
      BY <1>1, <1>3
    <2> QED BY <1>2, <2>1
  <1>4. CASE k # n + 1
    <2>1. k \in 1..n /\ a[k] = es[k] /\ \A j \in 1..(k - 1) : a[j] = es[j]
      BY <1>1, <1>4
    <2>2. k > 1 => k - 1 \in 1..(k - 1)
      BY <1>1
    <2> QED BY <1>1, <2>1, <2>2 DEF RunsOf
  <1> QED BY <1>3, <1>4

\* A new run.
LEMMA RunBegins ==
  ASSUME NEW es \in Seq(Entry), NEW e \in Entry, RunsOf(es), ~e.unchanged,
         e.file \notin NamesOf(es), es # <<>> => es[Len(es)].digest # e.digest
  PROVE  RunsOf(Append(es, e))
  <1> DEFINE n == Len(es)
             a == Append(es, e)
  <1>1. /\ n \in Nat /\ DOMAIN a = 1..(n + 1) /\ DOMAIN es = 1..n
        /\ a[n + 1] = e /\ \A k \in 1..n : a[k] = es[k]
    BY LineAdded, LinesAre
  <1>2. n > 0 => es[n].digest # e.digest
    OBVIOUS
  <1> HIDE DEF a, n
  <1>3. \A j \in 1..n : es[j].file # e.file
    BY <1>1 DEF NamesOf
  <1> SUFFICES ASSUME NEW k \in 1..(n + 1)
               PROVE  IF k > 1 /\ a[k].unchanged
                      THEN a[k].file = a[k - 1].file
                      ELSE /\ ~a[k].unchanged
                           /\ \A j \in 1..(k - 1) : a[j].file # a[k].file
                           /\ k > 1 => a[k].digest # a[k - 1].digest
    BY <1>1 DEF RunsOf, a
  <1>4. CASE k = n + 1
    <2>1. a[k] = e /\ \A j \in 1..(k - 1) : j \in 1..n /\ a[j] = es[j]
      BY <1>1, <1>4
    <2>2. k > 1 => n > 0 /\ a[k - 1] = es[n]
      BY <1>1, <1>4
    <2> QED BY <1>2, <1>3, <2>1, <2>2
  <1>5. CASE k # n + 1
    <2>1. k \in 1..n /\ a[k] = es[k] /\ \A j \in 1..(k - 1) : a[j] = es[j]
      BY <1>1, <1>5
    <2>2. k > 1 => k - 1 \in 1..(k - 1)
      BY <1>1
    <2> QED BY <1>1, <2>1, <2>2 DEF RunsOf
  <1> QED BY <1>4, <1>5

\* What is left from a run's first line on is runs.
LEMMA RunsFrom ==
  ASSUME NEW es \in Seq(Entry), RunsOf(es), NEW m \in 1..Len(es), ~es[m].unchanged,
         NEW kept, kept = SubSeq(es, m, Len(es))
  PROVE  /\ kept \in Seq(Entry) /\ RunsOf(kept) /\ Len(kept) = Len(es) - m + 1
         /\ \A k \in DOMAIN kept : m + k - 1 \in DOMAIN es /\ kept[k] = es[m + k - 1]
         /\ NamesOf(kept) = Newer(es, m) /\ NamesOf(kept) \subseteq NamesOf(es)
  <1> DEFINE n == Len(es)
             s == SubSeq(es, m, n)
  <1>1. n \in Nat /\ DOMAIN es = 1..n /\ \A k \in m..n : es[k] \in Entry
    BY LinesAre
  <1>2. /\ s \in Seq(Entry) /\ Len(s) = n - m + 1
        /\ \A k \in 1..(n - m + 1) : s[k] = es[m + k - 1]
    BY <1>1, SubSeqProperties
  <1>3. kept = s
    OBVIOUS
  <1> HIDE DEF s, n
  <1>4. /\ m \in Nat /\ m >= 1 /\ m <= n /\ n \in Nat
        /\ DOMAIN kept = 1..(n - m + 1) /\ \A k \in 1..(n - m + 1) : kept[k] = es[m + k - 1] /\ m + k - 1 \in 1..n
    BY <1>1, <1>2, <1>3 DEF n
  <1>4a. n \in Int /\ m \in Int /\ 1 <= m /\ m <= n
    BY <1>4
  <1>5. RunsOf(kept)
    <2> SUFFICES ASSUME NEW k \in 1..(n - m + 1)
                 PROVE  IF k > 1 /\ kept[k].unchanged
                        THEN kept[k].file = kept[k - 1].file
                        ELSE /\ ~kept[k].unchanged
                             /\ \A j \in 1..(k - 1) : kept[j].file # kept[k].file
                             /\ k > 1 => kept[k].digest # kept[k - 1].digest
      BY <1>4 DEF RunsOf
    <2> DEFINE i == m + k - 1
    <2>1. kept[k] = es[i] /\ i \in 1..n /\ (k = 1 => i = m)
      BY <1>4
    <2>2. k > 1 => i > 1 /\ kept[k - 1] = es[i - 1]
      <3> SUFFICES ASSUME k > 1 PROVE i > 1 /\ kept[k - 1] = es[i - 1]
        OBVIOUS
      <3>0. k \in Int /\ k > 1 /\ k <= n - m + 1 /\ n \in Int /\ m \in Int /\ 1 <= m
        BY <1>4a
      <3>1. k - 1 \in 1..(n - m + 1) /\ m + (k - 1) - 1 = i - 1 /\ i > 1
        BY <3>0
      <3> QED BY <1>4, <3>1
    <2>3. \A j \in 1..(k - 1) : \E l \in 1..(i - 1) : kept[j] = es[l]
      <3> SUFFICES ASSUME NEW j \in 1..(k - 1) PROVE \E l \in 1..(i - 1) : kept[j] = es[l]
        OBVIOUS
      <3>1. j \in 1..(n - m + 1) /\ m + j - 1 \in 1..(i - 1)
        BY <1>4
      <3> QED BY <1>4, <3>1
    <2> HIDE DEF i
    <2>4. IF i > 1 /\ es[i].unchanged
          THEN es[i].file = es[i - 1].file
          ELSE /\ ~es[i].unchanged
               /\ \A j \in 1..(i - 1) : es[j].file # es[i].file
               /\ i > 1 => es[i].digest # es[i - 1].digest
      BY <1>1, <2>1 DEF RunsOf
    <2>5. CASE k = 1
      <3>1. ~es[i].unchanged /\ 1..(k - 1) = {}
        BY <2>1, <2>5
      <3> QED BY <2>1, <2>5, <3>1
    <2>6. CASE k > 1
      BY <2>1, <2>2, <2>3, <2>4, <2>6
    <2>7. k = 1 \/ k > 1
      BY <1>4
    <2> QED BY <2>5, <2>6, <2>7
  <1>6. NamesOf(kept) = Newer(es, m)
    <2>1. \A k \in 1..(n - m + 1) : m + k - 1 \in m..n
      BY <1>4
    <2>2. \A j \in m..n : j - m + 1 \in 1..(n - m + 1) /\ m + (j - m + 1) - 1 = j
      BY <1>1, <1>4
    <2>3. NamesOf(kept) \subseteq Newer(es, m)
      BY <1>4, <2>1 DEF NamesOf, Newer, n
    <2>4. Newer(es, m) \subseteq NamesOf(kept)
      <3> SUFFICES ASSUME NEW j \in m..n PROVE es[j].file \in NamesOf(kept)
        BY DEF Newer, n
      <3> DEFINE k == j - m + 1
      <3>1. k \in 1..(n - m + 1) /\ m + k - 1 = j
        BY <2>2
      <3>2. kept[k] = es[j]
        BY <1>4, <3>1
      <3> QED BY <1>4, <3>1, <3>2 DEF NamesOf
    <2> QED BY <2>3, <2>4
  <1>7. NamesOf(kept) \subseteq NamesOf(es)
    BY <1>1, <1>4 DEF NamesOf
  <1>8. kept \in Seq(Entry) /\ Len(kept) = Len(es) - m + 1
    BY <1>2, <1>3 DEF n
  <1> QED BY <1>1, <1>4, <1>5, <1>6, <1>7, <1>8

-----------------------------------------------------------------------------
(* The cut of a prune.                                                     *)

\* The least element of a set of naturals: the library's well-founded order of
\* the subsets of a finite set, on the intervals.
LEMMA LeastNat ==
  ASSUME NEW T \in SUBSET Nat, T # {}
  PROVE  \E n \in T : \A m \in T : n <= m
  <1>1. PICK top \in T : TRUE
    OBVIOUS
  <1> DEFINE U == 1..top
             below == {n \in T : n <= top}
             spans == {1..n : n \in below}
             R == StrictSubsetOrdering(U)
  <1>2. IsWellFoundedOn(R, SUBSET U)
    <2>1. IsFiniteSet(U)
      BY FS_Interval
    <2> HIDE DEF U
    <2> QED BY <2>1, FS_StrictSubsetOrderingWellFounded, FS_FiniteSubsetsOfFinite
  <1>3. spans \subseteq SUBSET U /\ spans # {}
    BY <1>1
  <1>4. \A x, y \in spans : y \subseteq x /\ y # x => <<y, x>> \in R
    BY <1>3 DEF StrictSubsetOrdering
  <1> HIDE DEF R, spans, U
  <1>5. PICK x \in spans : \A y \in spans : <<y, x>> \notin R
    BY <1>2, <1>3, WFMin
  <1>6. PICK n \in below : x = 1..n
    BY DEF spans
  <1>7. \A m \in below : ~(m < n)
    <2> SUFFICES ASSUME NEW m \in below, m < n PROVE FALSE
      OBVIOUS
    <2>0. m \in Nat /\ n \in Nat
      OBVIOUS
    <2>1. 1..m \in spans
      BY DEF spans
    <2>2. 1..m \subseteq x /\ n \in x /\ n \notin 1..m
      BY <1>6, <2>0
    <2> QED BY <1>4, <1>5, <2>1, <2>2
  <1>8. n \in T /\ n <= top /\ n \in Nat
    OBVIOUS
  <1>9. ASSUME NEW m \in T
        PROVE  n <= m
    <2>1. m \in Nat /\ top \in Nat
      BY <1>1
    <2>2. CASE m <= top
      BY <1>7, <1>8, <2>1, <2>2
    <2>3. CASE ~(m <= top)
      BY <1>8, <2>1, <2>3
    <2> QED BY <2>2, <2>3
  <1> QED BY <1>8, <1>9

LEMMA NewerIsFinite ==
  ASSUME NEW es \in Seq(Entry), NEW k \in DOMAIN es
  PROVE  IsFiniteSet(Newer(es, k))
  <1> DEFINE I == k..Len(es)
             f == [j \in I |-> es[j].file]
  <1>1. Len(es) \in Int /\ k \in Int
    BY LinesAre
  <1>2. IsFiniteSet(I)
    BY <1>1, FS_Interval
  <1>3. f \in Surjection(I, Newer(es, k))
    BY DEF Newer, Surjection
  <1> HIDE DEF f, I
  <1> QED BY <1>2, <1>3, FS_Surjection

\* The lines a prune keeps begin at a run's first line, and name as many files as it
\* was told at most.
LEMMA CutIsRight ==
  ASSUME NEW es \in Seq(Entry), RunsOf(es), es # <<>>, NEW keep \in Nat, keep > 0
  PROVE  \E m \in 1..Len(es) : /\ KeptEntries(es, keep) = SubSeq(es, m, Len(es))
                               /\ ~es[m].unchanged
                               /\ Cardinality(Newer(es, m)) <= keep
                               /\ \A k \in 1..(m - 1) : Cardinality(Newer(es, k)) > keep
  <1> DEFINE n == Len(es)
             S == Survivors(es, keep)
  <1>1. n \in Nat /\ n > 0 /\ DOMAIN es = 1..n
    BY LinesAre
  <1>2. S \subseteq 1..n /\ \A k \in 1..n : k \in S <=> Cardinality(Newer(es, k)) <= keep
    BY <1>1 DEF Survivors
  <1>3. \A k \in 1..n : IsFiniteSet(Newer(es, k)) /\ Cardinality(Newer(es, k)) \in Nat
    BY <1>1, NewerIsFinite, FS_CardinalityType
  <1>4. n \in S
    <2>1. n..n = {n}
      BY <1>1
    <2>2. Newer(es, n) = {es[n].file}
      BY <2>1 DEF Newer
    <2>3. Cardinality(Newer(es, n)) = 1
      BY <2>2, FS_Singleton
    <2> QED BY <1>1, <1>2, <2>3
  <1>5. \A k, l \in 1..n : k <= l /\ k \in S => l \in S
    <2> SUFFICES ASSUME NEW k \in 1..n, NEW l \in 1..n, k <= l, k \in S PROVE l \in S
      OBVIOUS
    <2>1. Newer(es, l) \subseteq Newer(es, k)
      BY <1>1 DEF Newer
    <2>2. Cardinality(Newer(es, l)) <= Cardinality(Newer(es, k))
      BY <1>3, <2>1, FS_Subset
    <2> QED BY <1>2, <1>3, <2>2
  <1> HIDE DEF S
  <1>6. PICK m \in S : \A k \in S : m <= k
    <2>1. S \in SUBSET Nat /\ S # {}
      BY <1>1, <1>2, <1>4
    <2> QED BY <2>1, LeastNat
  <1>7. m \in 1..n /\ m \in Nat
    BY <1>1, <1>2, <1>6
  <1>8. S = m..n
    <2>1. \A k \in S : k \in m..n
      BY <1>1, <1>2, <1>6, <1>7
    <2>2. \A k \in m..n : k \in 1..n /\ m <= k
      BY <1>1, <1>7
    <2>3. \A k \in m..n : k \in S
      BY <1>5, <1>6, <1>7, <2>2
    <2> QED BY <2>1, <2>3
  <1>9. KeptEntries(es, keep) = SubSeq(es, m, n)
    <2>1. Cardinality(m..n) = n - m + 1
      BY <1>1, <1>7, FS_Interval
    <2>2. n - (n - m + 1) + 1 = m
      BY <1>1, <1>7
    <2>3. KeptEntries(es, keep) = SubSeq(es, n - Cardinality(S) + 1, n)
      BY DEF KeptEntries, S
    <2> QED BY <1>8, <2>1, <2>2, <2>3
  <1>10. \A k \in 1..(m - 1) : Cardinality(Newer(es, k)) > keep
    <2> SUFFICES ASSUME NEW k \in 1..(m - 1) PROVE Cardinality(Newer(es, k)) > keep
      OBVIOUS
    <2>1. k \in 1..n /\ ~(m <= k)
      BY <1>1, <1>7
    <2>2. k \notin S
      BY <1>6, <2>1
    <2> QED BY <1>2, <1>3, <2>1, <2>2
  <1>11. ~es[m].unchanged
    <2> SUFFICES ASSUME es[m].unchanged PROVE FALSE
      OBVIOUS
    <2>1. m > 1 /\ es[m].file = es[m - 1].file
      BY <1>1, <1>7 DEF RunsOf
    <2>2. m - 1 \in 1..n /\ m - 1 \in 1..(m - 1)
      BY <1>1, <1>7, <2>1
    <2>3. \A j \in (m - 1)..n : j \in m..n \/ j = m - 1
      BY <1>1, <1>7
    <2>4. m \in m..n
      BY <1>1, <1>7
    <2>5. Newer(es, m - 1) \subseteq Newer(es, m)
      BY <2>1, <2>3, <2>4 DEF Newer
    <2>6. Cardinality(Newer(es, m - 1)) <= Cardinality(Newer(es, m))
      BY <1>3, <1>7, <2>5, FS_Subset
    <2> QED BY <1>2, <1>3, <1>6, <1>7, <1>10, <2>2, <2>6
  <1> QED BY <1>2, <1>6, <1>7, <1>9, <1>10, <1>11

-----------------------------------------------------------------------------
(* The versions a history holds.                                           *)

LEMMA SameSize ==
  ASSUME NEW S, NEW T, IsFiniteSet(S), NEW f \in Bijection(S, T)
  PROVE  IsFiniteSet(T) /\ Cardinality(T) = Cardinality(S)
  BY FS_Bijection DEF ExistsBijection

\* The stored lines are ranked 1, 2, ... in their order.
LEMMA Ranks ==
  ASSUME NEW es \in Seq(Entry)
  PROVE  /\ IsFiniteSet(StoredIn(es)) /\ Cardinality(StoredIn(es)) \in Nat
         /\ StoredIn(es) \subseteq 1..Len(es)
         /\ \A k \in StoredIn(es) : RankIn(es, k) \in 1..Cardinality(StoredIn(es))
         /\ \A k, l \in StoredIn(es) : k < l => RankIn(es, k) < RankIn(es, l)
         /\ \A i \in 1..Cardinality(StoredIn(es)) : \E k \in StoredIn(es) : RankIn(es, k) = i
  <1> DEFINE S == StoredIn(es)
             N == Cardinality(S)
             Upto(k) == {j \in S : j <= k}
             f == [k \in S |-> RankIn(es, k)]
             Y == {f[k] : k \in S}
  <1>1. DOMAIN es = 1..Len(es) /\ Len(es) \in Nat
    BY LinesAre
  <1>2. S \subseteq 1..Len(es) /\ S \in SUBSET (1..Len(es))
    BY <1>1 DEF StoredIn
  <1>3. IsFiniteSet(S) /\ N \in Nat
    <2> HIDE DEF S
    <2>1. IsFiniteSet(1..Len(es))
      BY <1>1, FS_Interval
    <2> QED BY <1>2, <2>1, FS_Subset, FS_CardinalityType
  <1>4. \A k : RankIn(es, k) = Cardinality(Upto(k))
    BY DEF RankIn
  <1> HIDE DEF S
  <1>5. \A k \in S : /\ IsFiniteSet(Upto(k)) /\ Cardinality(Upto(k)) \in Nat
                     /\ Cardinality(Upto(k)) <= N /\ Cardinality(Upto(k)) # 0
    <2> SUFFICES ASSUME NEW k \in S PROVE /\ IsFiniteSet(Upto(k)) /\ Cardinality(Upto(k)) \in Nat
                                          /\ Cardinality(Upto(k)) <= N /\ Cardinality(Upto(k)) # 0
      OBVIOUS
    <2>1. Upto(k) \in SUBSET S /\ k \in Upto(k)
      BY <1>2
    <2> HIDE DEF Upto
    <2> QED BY <1>3, <2>1, FS_Subset, FS_CardinalityType, FS_EmptySet
  <1>6. \A k \in S : RankIn(es, k) \in 1..N
    <2> SUFFICES ASSUME NEW k \in S PROVE RankIn(es, k) \in 1..N
      OBVIOUS
    <2>1. /\ RankIn(es, k) = Cardinality(Upto(k)) /\ Cardinality(Upto(k)) \in Nat
          /\ Cardinality(Upto(k)) <= N /\ Cardinality(Upto(k)) # 0
      BY <1>4, <1>5
    <2> HIDE DEF Upto, N
    <2> QED BY <1>3, <2>1
  <1>7. \A k, l \in S : k < l => RankIn(es, k) < RankIn(es, l)
    <2> SUFFICES ASSUME NEW k \in S, NEW l \in S, k < l
                 PROVE  Cardinality(Upto(k)) < Cardinality(Upto(l))
      BY <1>4
    <2>0. \A j \in S : j \in Int
      BY <1>2
    <2>1. Upto(k) \in SUBSET Upto(l) /\ l \in Upto(l) /\ l \notin Upto(k)
      BY <2>0
    <2>2. Upto(k) # Upto(l)
      BY <2>1
    <2> HIDE DEF Upto
    <2>3. Cardinality(Upto(k)) <= Cardinality(Upto(l)) /\ Cardinality(Upto(k)) # Cardinality(Upto(l))
      BY <1>5, <2>1, <2>2, FS_Subset
    <2> QED BY <1>5, <2>3
  <1>8. Y = 1..N
    <2>1. f \in Bijection(S, Y)
      <3>1. \A k, l \in S : RankIn(es, k) = RankIn(es, l) => k = l
        <4> SUFFICES ASSUME NEW k \in S, NEW l \in S, RankIn(es, k) = RankIn(es, l) PROVE k = l
          OBVIOUS
        <4>1. RankIn(es, k) \in Nat
          BY <1>6
        <4>2. ~(k < l) /\ ~(l < k)
          BY <1>7, <4>1
        <4> QED BY <1>2, <4>2
      <3>2. f \in Injection(S, Y)
        BY <3>1 DEF Injection, IsInjective
      <3>3. f \in Surjection(S, Y)
        BY DEF Surjection
      <3> QED BY <3>2, <3>3 DEF Bijection
    <2>2. Y \in SUBSET (1..N)
      BY <1>6
    <2> HIDE DEF Y, f
    <2>3. Cardinality(Y) = N
      BY <1>3, <2>1, SameSize
    <2>4. IsFiniteSet(1..N) /\ Cardinality(1..N) = N
      BY <1>3, FS_Interval
    <2> HIDE DEF N
    <2> QED BY <2>2, <2>3, <2>4, FS_Subset
  <1>9. \A i \in 1..N : \E k \in S : RankIn(es, k) = i
    BY <1>8
  <1> QED BY <1>2, <1>3, <1>6, <1>7, <1>9 DEF S

\* The version of each rank is the content of the line of that rank.
LEMMA VersionsAre ==
  ASSUME NEW es \in Seq(Entry)
  PROVE  /\ VersionsOf(es) \in Seq(Digests) /\ Len(VersionsOf(es)) = Cardinality(StoredIn(es))
         /\ \A k \in StoredIn(es) : VersionsOf(es)[RankIn(es, k)] = es[k].digest
  <1> DEFINE S == StoredIn(es)
             N == Cardinality(S)
             at(i) == CHOOSE k \in S : RankIn(es, k) = i
             V == VersionsOf(es)
  <1>1. /\ N \in Nat /\ S \subseteq 1..Len(es)
        /\ \A k \in S : RankIn(es, k) \in 1..N
        /\ \A k, l \in S : k < l => RankIn(es, k) < RankIn(es, l)
        /\ \A i \in 1..N : \E k \in S : RankIn(es, k) = i
    BY Ranks
  <1>2. V = [i \in 1..N |-> es[at(i)].digest]
    BY DEF VersionsOf
  <1>3. \A k \in S : es[k].digest \in Digests
    BY LinesAre DEF StoredIn
  <1> HIDE DEF S, N, V
  <1>4. \A i \in 1..N : at(i) \in S /\ RankIn(es, at(i)) = i
    BY <1>1
  <1>5. \A k, l \in S : RankIn(es, k) = RankIn(es, l) => k = l
    <2> SUFFICES ASSUME NEW k \in S, NEW l \in S, RankIn(es, k) = RankIn(es, l) PROVE k = l
      OBVIOUS
    <2>1. RankIn(es, k) \in Int /\ k \in Int /\ l \in Int
      BY <1>1
    <2>2. ~(k < l) /\ ~(l < k)
      BY <1>1, <2>1
    <2> QED BY <2>1, <2>2
  <1>6. \A k \in S : at(RankIn(es, k)) = k
    BY <1>1, <1>4, <1>5
  <1> HIDE DEF at
  <1>7. V \in [1..N -> Digests]
    BY <1>2, <1>3, <1>4
  <1>8. V \in Seq(Digests) /\ Len(V) = N
    BY <1>1, <1>7
  <1>9. \A k \in S : V[RankIn(es, k)] = es[k].digest
    BY <1>1, <1>2, <1>6
  <1> QED BY <1>8, <1>9 DEF S, N, V

\* Content by content and rank by rank.
LEMMA VersionsFromRanks ==
  ASSUME NEW es \in Seq(Entry), NEW V \in Seq(Digests), Len(V) = Cardinality(StoredIn(es)),
         \A k \in StoredIn(es) : V[RankIn(es, k)] = es[k].digest
  PROVE  VersionsOf(es) = V
  <1> DEFINE W == VersionsOf(es)
             N == Cardinality(StoredIn(es))
  <1>1. W \in Seq(Digests) /\ Len(W) = N /\ \A k \in StoredIn(es) : W[RankIn(es, k)] = es[k].digest
    BY VersionsAre
  <1>2. \A i \in 1..N : \E k \in StoredIn(es) : RankIn(es, k) = i
    BY Ranks
  <1> HIDE DEF W
  <1>3. \A i \in 1..N : W[i] = V[i]
    BY <1>1, <1>2
  <1> HIDE DEF N
  <1>4. Len(V) = N
    BY DEF N
  <1>5. W = V
    BY <1>1, <1>3, <1>4, SeqEqual
  <1> QED BY <1>5 DEF W

\* A line that repeats its file adds no version.
LEMMA SameVersions ==
  ASSUME NEW es \in Seq(Entry), NEW e \in Entry, e.unchanged
  PROVE  VersionsOf(Append(es, e)) = VersionsOf(es)
  <1> DEFINE a == Append(es, e)
             n == Len(es)
  <1>1. /\ a \in Seq(Entry) /\ n \in Nat /\ DOMAIN a = 1..(n + 1) /\ DOMAIN es = 1..n
        /\ a[n + 1] = e /\ \A k \in 1..n : a[k] = es[k]
    BY LineAdded, LinesAre
  <1> HIDE DEF a, n
  <1>2. \A k \in 1..(n + 1) : k \in 1..n \/ k = n + 1
    BY <1>1
  <1>3. \A k \in 1..n : k \in 1..(n + 1)
    BY <1>1
  <1>4. StoredIn(a) = StoredIn(es)
    BY <1>1, <1>2, <1>3 DEF StoredIn
  <1>5. \A k : RankIn(a, k) = RankIn(es, k)
    BY <1>4 DEF RankIn
  <1>6. \A k \in StoredIn(a) : a[k] = es[k]
    BY <1>1, <1>4 DEF StoredIn
  <1>7. VersionsOf(es) \in Seq(Digests) /\ Len(VersionsOf(es)) = Cardinality(StoredIn(a))
        /\ \A k \in StoredIn(a) : VersionsOf(es)[RankIn(a, k)] = a[k].digest
    BY <1>4, <1>5, <1>6, VersionsAre
  <1>8. VersionsOf(a) = VersionsOf(es)
    BY <1>1, <1>7, VersionsFromRanks
  <1> QED BY <1>8 DEF a

\* A line that stores a file adds its content.
LEMMA AddedVersion ==
  ASSUME NEW es \in Seq(Entry), NEW e \in Entry, ~e.unchanged
  PROVE  VersionsOf(Append(es, e)) = Append(VersionsOf(es), e.digest)
  <1> DEFINE a == Append(es, e)
             n == Len(es)
             S == StoredIn(es)
             N == Cardinality(S)
             V == VersionsOf(es)
             W == Append(V, e.digest)
  <1>1. /\ a \in Seq(Entry) /\ n \in Nat /\ DOMAIN a = 1..(n + 1) /\ DOMAIN es = 1..n
        /\ a[n + 1] = e /\ \A k \in 1..n : a[k] = es[k]
    BY LineAdded, LinesAre
  <1>2. /\ IsFiniteSet(S) /\ N \in Nat /\ S \subseteq 1..n /\ V \in Seq(Digests) /\ Len(V) = N
        /\ \A k \in S : RankIn(es, k) \in 1..N /\ V[RankIn(es, k)] = es[k].digest
    BY Ranks, VersionsAre
  <1>3. e.digest \in Digests
    BY DEF Entry
  <1> HIDE DEF V, a, n
  <1>4. \A k \in 1..(n + 1) : k \in 1..n \/ k = n + 1
    BY <1>1
  <1>5. n + 1 \notin 1..n /\ n + 1 \in 1..(n + 1) /\ \A k \in 1..n : k \in 1..(n + 1) /\ ~(n + 1 <= k)
    BY <1>1
  <1>6. StoredIn(a) = S \cup {n + 1}
    BY <1>1, <1>4, <1>5 DEF StoredIn
  <1> HIDE DEF S, N
  <1>7. Cardinality(StoredIn(a)) = N + 1
    <2>1. n + 1 \notin S
      BY <1>2, <1>5
    <2> QED BY <1>2, <1>6, <2>1, FS_AddElement DEF N
  <1>8. \A k \in S : RankIn(a, k) = RankIn(es, k)
    <2> SUFFICES ASSUME NEW k \in S PROVE RankIn(a, k) = RankIn(es, k)
      OBVIOUS
    <2>1. {j \in StoredIn(a) : j <= k} = {j \in S : j <= k}
      BY <1>2, <1>5, <1>6
    <2> QED BY <2>1 DEF RankIn, S
  <1>9. RankIn(a, n + 1) = N + 1
    <2>1. \A j \in S : j <= n + 1
      BY <1>1, <1>2
    <2>2. {j \in StoredIn(a) : j <= n + 1} = StoredIn(a)
      BY <1>1, <1>6, <2>1
    <2> QED BY <1>7, <2>2 DEF RankIn
  <1>10. /\ W \in Seq(Digests) /\ Len(W) = N + 1 /\ W[N + 1] = e.digest
         /\ \A i \in 1..N : W[i] = V[i]
    BY <1>2, <1>3
  <1> HIDE DEF W
  <1>11. \A k \in StoredIn(a) : W[RankIn(a, k)] = a[k].digest
    <2>1. ASSUME NEW k \in S
          PROVE  W[RankIn(a, k)] = a[k].digest
      BY <1>1, <1>2, <1>8, <1>10
    <2>2. W[RankIn(a, n + 1)] = a[n + 1].digest
      BY <1>1, <1>9, <1>10
    <2> QED BY <1>6, <2>1, <2>2
  <1>12. VersionsOf(a) = W
    BY <1>1, <1>7, <1>10, <1>11, VersionsFromRanks
  <1> QED BY <1>12 DEF W, V, a

\* What a cut at a stored line leaves of the versions: those from its rank on.
LEMMA CutVersions ==
  ASSUME NEW es \in Seq(Entry), RunsOf(es), NEW m \in StoredIn(es),
         NEW kept, kept = SubSeq(es, m, Len(es))
  PROVE  LET before == {j \in StoredIn(es) : j < m}
             after == {j \in StoredIn(es) : m <= j}
             N == Cardinality(StoredIn(es))
         IN  /\ IsFiniteSet(after) /\ Cardinality(before) \in Nat
             /\ Cardinality(after) = N - Cardinality(before)
             /\ VersionsOf(kept) = SubSeq(VersionsOf(es), Cardinality(before) + 1, N)
  <1> DEFINE S == StoredIn(es)
             N == Cardinality(S)
             n == Len(es)
             T == StoredIn(kept)
             before == {j \in S : j < m}
             after == {j \in S : m <= j}
             r == Cardinality(before)
             V == VersionsOf(es)
             W == SubSeq(V, r + 1, N)
  <1>1. n \in Nat /\ S \subseteq 1..n /\ m \in 1..n /\ ~es[m].unchanged /\ DOMAIN es = 1..n
    BY LinesAre DEF StoredIn
  <1>2. /\ IsFiniteSet(S) /\ N \in Nat /\ V \in Seq(Digests) /\ Len(V) = N
        /\ \A k \in S : RankIn(es, k) \in 1..N /\ V[RankIn(es, k)] = es[k].digest
    BY Ranks, VersionsAre
  <1>3. /\ kept \in Seq(Entry) /\ Len(kept) = n - m + 1 /\ DOMAIN kept = 1..(n - m + 1)
        /\ \A k \in DOMAIN kept : m + k - 1 \in DOMAIN es /\ kept[k] = es[m + k - 1]
    BY <1>1, RunsFrom, LinesAre
  <1>4. T = {k \in 1..(n - m + 1) : m + k - 1 \in S}
    BY <1>3 DEF StoredIn
  <1>5. /\ IsFiniteSet(T) /\ Cardinality(T) \in Nat
        /\ \A k \in T : RankIn(kept, k) \in 1..Cardinality(T)
    BY <1>3, Ranks
  <1> HIDE DEF S, T, V, n
  <1>6. /\ IsFiniteSet(before) /\ IsFiniteSet(after) /\ r \in Nat
        /\ \A p : IsFiniteSet({j \in S : m <= j /\ j <= p})
    <2>1. \A U \in SUBSET S : IsFiniteSet(U) /\ Cardinality(U) \in Nat
      BY <1>2, FS_Subset, FS_CardinalityType
    <2> QED BY <2>1
  <1>6a. n \in Int /\ m \in Int /\ m <= n /\ \A j \in S : j \in Int /\ j <= n
    BY <1>1
  <1>7. ASSUME NEW A \in SUBSET S, \A j \in A : m <= j
        PROVE  Cardinality(before \cup A) = r + Cardinality(A)
    <2>1. IsFiniteSet(A) /\ Cardinality(A) \in Nat
      BY <1>2, FS_Subset, FS_CardinalityType
    <2>2. before \cap A = {}
      BY <1>7, <1>6a
    <2>3. Cardinality(before \cap A) = 0
      BY <2>2, FS_EmptySet
    <2> HIDE DEF before
    <2>4. Cardinality(before \cup A) = Cardinality(before) + Cardinality(A) - Cardinality(before \cap A)
      BY <1>6, <2>1, FS_Union
    <2> QED BY <1>6, <2>1, <2>3, <2>4
  <1>8. ASSUME NEW p \in 1..(n - m + 1)
        PROVE  Cardinality({j \in S : m <= j /\ j <= m + p - 1}) = Cardinality({k \in T : k <= p})
    <2> DEFINE A == {k \in T : k <= p}
               B == {j \in S : m <= j /\ j <= m + p - 1}
               f == [k \in A |-> m + k - 1]
    <2>1. IsFiniteSet(A)
      <3>1. A \in SUBSET T
        OBVIOUS
      <3> QED BY <1>5, <3>1, FS_Subset
    <2>2. \A k \in A : k \in Int /\ m + k - 1 \in B
      BY <1>1, <1>4
    <2>3. \A j \in B : j - m + 1 \in A /\ m + (j - m + 1) - 1 = j
      BY <1>1, <1>4
    <2> HIDE DEF A, B
    <2>4. f \in [A -> B]
      BY <2>2
    <2>5. \A k, l \in A : f[k] = f[l] => k = l
      BY <1>1, <2>2
    <2>6. \A j \in B : \E k \in A : f[k] = j
      BY <2>3
    <2>7. f \in Bijection(A, B)
      BY <2>4, <2>5, <2>6 DEF Bijection, Injection, Surjection, IsInjective
    <2> HIDE DEF f
    <2>8. Cardinality(B) = Cardinality(A)
      BY <2>1, <2>7, SameSize
    <2> QED BY <2>8 DEF A, B
  <1>9. \A k \in T : RankIn(es, m + k - 1) = r + RankIn(kept, k)
    <2> SUFFICES ASSUME NEW k \in T PROVE RankIn(es, m + k - 1) = r + RankIn(kept, k)
      OBVIOUS
    <2> DEFINE B == {j \in S : m <= j /\ j <= m + k - 1}
    <2>1. k \in 1..(n - m + 1)
      BY <1>4
    <2>2. Cardinality(B) = RankIn(kept, k)
      BY <1>8, <2>1 DEF RankIn, T
    <2>3. {j \in S : j <= m + k - 1} = before \cup B
      <3>1. k \in Int /\ 1 <= k
        BY <2>1
      <3>2. \A j \in S : j <= m + k - 1 <=> (j < m \/ (m <= j /\ j <= m + k - 1))
        BY <1>6a, <3>1
      <3> QED BY <3>2
    <2>4. Cardinality(before \cup B) = r + Cardinality(B)
      BY <1>7
    <2>5. RankIn(es, m + k - 1) = Cardinality({j \in S : j <= m + k - 1})
      BY DEF RankIn, S
    <2> QED BY <2>2, <2>3, <2>4, <2>5
  <1>10. /\ Cardinality(after) = N - r /\ Cardinality(T) = N - r
    <2>1. S = before \cup after /\ after = {j \in S : m <= j /\ j <= m + (n - m + 1) - 1}
      <3>1. \A j \in S : (j < m \/ m <= j) /\ j <= m + (n - m + 1) - 1
        BY <1>6a
      <3> QED BY <3>1
    <2>2. N = r + Cardinality(after)
      BY <1>7, <2>1
    <2>3. n - m + 1 \in 1..(n - m + 1) /\ \A k \in T : k <= n - m + 1
      BY <1>1, <1>4
    <2>4. Cardinality(after) = Cardinality({k \in T : k <= n - m + 1})
      BY <1>8, <2>1, <2>3
    <2>5. {k \in T : k <= n - m + 1} = T
      BY <2>3
    <2> HIDE DEF after, before, r, N
    <2>6. Cardinality(after) = Cardinality(T)
      BY <2>4, <2>5
    <2> QED BY <1>2, <1>5, <1>6, <2>2, <2>6
  <1>11. /\ W \in Seq(Digests) /\ Len(W) = N - r
         /\ \A i \in 1..(N - r) : W[i] = V[r + i]
    <2> HIDE DEF r, N
    <2>1. r \in Nat /\ N \in Nat /\ N - r \in Nat
      BY <1>2, <1>5, <1>6, <1>10
    <2>2. \A i \in (r + 1)..N : V[i] \in Digests
      BY <1>2, <2>1
    <2>3. /\ W \in Seq(Digests) /\ Len(W) = IF r + 1 <= N THEN N - (r + 1) + 1 ELSE 0
          /\ \A i \in 1..(N - (r + 1) + 1) : W[i] = V[(r + 1) + i - 1]
      BY <2>1, <2>2, SubSeqProperties
    <2>4. N - (r + 1) + 1 = N - r /\ (~(r + 1 <= N) => N - r = 0) /\ \A i \in 1..(N - r) : (r + 1) + i - 1 = r + i
      BY <2>1
    <2> HIDE DEF W
    <2> QED BY <2>3, <2>4
  <1>12. \A k \in T : W[RankIn(kept, k)] = kept[k].digest
    <2> SUFFICES ASSUME NEW k \in T PROVE W[RankIn(kept, k)] = kept[k].digest
      OBVIOUS
    <2>1. m + k - 1 \in S /\ kept[k] = es[m + k - 1]
      BY <1>3, <1>4
    <2>2. RankIn(kept, k) \in 1..(N - r) /\ RankIn(es, m + k - 1) = r + RankIn(kept, k)
      BY <1>5, <1>9, <1>10
    <2>3. V[RankIn(es, m + k - 1)] = es[m + k - 1].digest
      BY <1>2, <2>1
    <2> HIDE DEF r, N, W
    <2>4. W[RankIn(kept, k)] = V[r + RankIn(kept, k)]
      BY <1>11, <2>2
    <2> QED BY <2>1, <2>2, <2>3, <2>4
  <1> HIDE DEF W, r, N
  <1>13. VersionsOf(kept) = W
    BY <1>3, <1>10, <1>11, <1>12, VersionsFromRanks DEF T
  <1> QED BY <1>6, <1>10, <1>13 DEF W, V, S, r, N

\* A line's file is that of a stored line at or before it.
LEMMA LineOfRun ==
  ASSUME NEW es \in Seq(Entry), RunsOf(es), NEW m \in StoredIn(es)
  PROVE  \A j \in m..Len(es) : \E k \in StoredIn(es) : m <= k /\ k <= j /\ es[k].file = es[j].file
  <1> DEFINE n == Len(es)
             Of(j, k) == m <= k /\ k <= j /\ es[k].file = es[j].file
             T == {j \in m..n : \A k \in StoredIn(es) : ~Of(j, k)}
  <1>1. n \in Nat /\ m \in 1..n /\ DOMAIN es = 1..n
    BY LinesAre DEF StoredIn
  <1> SUFFICES ASSUME T # {} PROVE FALSE
    OBVIOUS
  <1>2. PICK j \in T : \A l \in T : j <= l
    <2>1. T \in SUBSET Nat
      BY <1>1
    <2> HIDE DEF T
    <2> QED BY <2>1, LeastNat
  <1>3. j \in 1..n /\ j \in m..n /\ j \in Int
    BY <1>1
  <1>4. j \notin StoredIn(es)
    BY <1>3
  <1>5. es[j].unchanged
    BY <1>1, <1>3, <1>4 DEF StoredIn
  <1>6. j > 1 /\ es[j].file = es[j - 1].file
    BY <1>1, <1>3, <1>5 DEF RunsOf
  <1>7. j - 1 \in m..n
    BY <1>1, <1>3, <1>4
  <1>8. ~(j <= j - 1)
    BY <1>3
  <1>9. PICK k \in StoredIn(es) : Of(j - 1, k)
    BY <1>2, <1>7, <1>8
  <1>10. k \in Int /\ Of(j, k)
    BY <1>1, <1>3, <1>6, <1>9 DEF StoredIn
  <1> QED BY <1>10

\* The first line of a history stores a file.
LEMMA FirstIsStored ==
  ASSUME NEW es \in Seq(Entry), RunsOf(es), es # <<>>
  PROVE  1 \in StoredIn(es) /\ Len(es) \in 1..Len(es)
  <1>1. DOMAIN es = 1..Len(es) /\ Len(es) \in Nat /\ Len(es) > 0
    BY LinesAre, EmptySeq
  <1> QED BY <1>1 DEF RunsOf, StoredIn

\* The newest version is the content of the last line, stored or unchanged.
LEMMA NewestVersion ==
  ASSUME NEW es \in Seq(Entry), RunsOf(es), NamesFiles(es), es # <<>>
  PROVE  VersionsOf(es)[Len(VersionsOf(es))] = es[Len(es)].digest
  <1> DEFINE S == StoredIn(es)
             N == Cardinality(S)
             n == Len(es)
  <1>1. 1 \in S /\ n \in 1..n /\ n \in Nat /\ DOMAIN es = 1..n
    BY FirstIsStored, LinesAre
  <1>2. /\ N \in Nat /\ S \subseteq 1..n
        /\ \A k \in S : RankIn(es, k) \in 1..N
        /\ \A k, l \in S : k < l => RankIn(es, k) < RankIn(es, l)
        /\ \A i \in 1..N : \E k \in S : RankIn(es, k) = i
        /\ Len(VersionsOf(es)) = N /\ \A k \in S : VersionsOf(es)[RankIn(es, k)] = es[k].digest
    BY Ranks, VersionsAre
  <1> HIDE DEF N, n, S
  <1>3. N \in 1..N
    BY <1>1, <1>2
  <1>4. PICK k \in S : RankIn(es, k) = N
    BY <1>2, <1>3
  <1>5. \A l \in S : l <= k
    <2> SUFFICES ASSUME NEW l \in S, ~(l <= k) PROVE FALSE
      OBVIOUS
    <2>1. k < l /\ RankIn(es, l) \in 1..N
      BY <1>2
    <2>2. N < RankIn(es, l)
      BY <1>2, <1>4, <2>1
    <2> QED BY <1>2, <2>1, <2>2
  <1>6. PICK l \in S : k <= l /\ es[l].file = es[n].file
    <2>1. n \in k..Len(es)
      BY <1>1, <1>2 DEF n
    <2> QED BY <2>1, LineOfRun DEF S
  <1>7. l = k
    <2>0. \A j \in S : j \in Int
      BY <1>2
    <2>1. l \in Int /\ k \in Int /\ l <= k /\ k <= l
      BY <2>0, <1>5, <1>6
    <2> QED BY <2>1
  <1>8. es[k].digest = es[n].digest
    BY <1>1, <1>2, <1>6, <1>7 DEF NamesFiles
  <1> QED BY <1>2, <1>4, <1>8 DEF n

\* The lines from a stored one on name a file for each version from its rank on.
LEMMA FilesOfVersions ==
  ASSUME NEW es \in Seq(Entry), RunsOf(es), NEW m \in StoredIn(es)
  PROVE  Cardinality(Newer(es, m)) = Cardinality({j \in StoredIn(es) : m <= j})
  <1> DEFINE S == StoredIn(es)
             n == Len(es)
             A == {j \in S : m <= j}
             f == [j \in A |-> es[j].file]
  <1>1. n \in Nat /\ DOMAIN es = 1..n /\ S \subseteq 1..n /\ m \in 1..n /\ IsFiniteSet(S)
    BY LinesAre, Ranks
  <1>2. IsFiniteSet(A)
    <2>1. A \in SUBSET S
      OBVIOUS
    <2> HIDE DEF S, A
    <2> QED BY <1>1, <2>1, FS_Subset
  <1>3. \A k, j \in S : k < j => es[k].file # es[j].file
    <2> SUFFICES ASSUME NEW k \in S, NEW j \in S, k < j PROVE es[k].file # es[j].file
      OBVIOUS
    <2>1. j \in 1..n /\ ~es[j].unchanged /\ k \in 1..(j - 1)
      BY <1>1 DEF StoredIn
    <2> QED BY <1>1, <2>1 DEF RunsOf
  <1>4. \A k, j \in S : es[k].file = es[j].file => k = j
    <2> SUFFICES ASSUME NEW k \in S, NEW j \in S, es[k].file = es[j].file PROVE k = j
      OBVIOUS
    <2>1. ~(k < j) /\ ~(j < k) /\ k \in Int /\ j \in Int
      BY <1>1, <1>3
    <2> QED BY <2>1
  <1>5. \A j \in A : j \in m..n
    BY <1>1
  <1>6. f \in [A -> Newer(es, m)]
    BY <1>5 DEF Newer
  <1>7. \A x \in Newer(es, m) : \E j \in A : f[j] = x
    <2> SUFFICES ASSUME NEW i \in m..n PROVE \E j \in A : f[j] = es[i].file
      BY DEF Newer
    <2> QED BY LineOfRun
  <1>8. f \in Bijection(A, Newer(es, m))
    BY <1>4, <1>6, <1>7 DEF Bijection, Injection, Surjection, IsInjective
  <1> HIDE DEF f, A
  <1>9. Cardinality(Newer(es, m)) = Cardinality(A)
    BY <1>2, <1>8, SameSize
  <1> QED BY <1>9 DEF A

\* A prune that cuts anything retains exactly its number of versions.
LEMMA CutRetains ==
  ASSUME NEW es \in Seq(Entry), RunsOf(es), es # <<>>, NEW keep \in Nat, keep > 0,
         NEW kept, kept = KeptEntries(es, keep), kept # es
  PROVE  /\ Len(VersionsOf(es)) > keep
         /\ VersionsOf(kept) = SubSeq(VersionsOf(es), Len(VersionsOf(es)) - keep + 1, Len(VersionsOf(es)))
  <1> DEFINE n == Len(es)
             S == StoredIn(es)
             N == Cardinality(S)
  <1>1. n \in Nat /\ DOMAIN es = 1..n /\ 1 \in S /\ IsFiniteSet(S) /\ N \in Nat /\ Len(VersionsOf(es)) = N
    BY LinesAre, FirstIsStored, Ranks, VersionsAre
  <1>2. PICK m \in 1..n : /\ kept = SubSeq(es, m, n) /\ ~es[m].unchanged
                          /\ Cardinality(Newer(es, m)) <= keep
                          /\ \A k \in 1..(m - 1) : Cardinality(Newer(es, k)) > keep
    BY CutIsRight
  <1> DEFINE before == {j \in S : j < m}
             after == {j \in S : m <= j}
             r == Cardinality(before)
  <1>3. m \in S
    BY <1>1, <1>2 DEF StoredIn
  <1>4. /\ IsFiniteSet(after) /\ r \in Nat /\ Cardinality(after) = N - r
        /\ VersionsOf(kept) = SubSeq(VersionsOf(es), r + 1, N)
    BY <1>2, <1>3, CutVersions
  <1>5. Cardinality(Newer(es, m)) = N - r
    BY <1>3, <1>4, FilesOfVersions
  <1>6. m # 1
    <2> SUFFICES ASSUME m = 1 PROVE FALSE
      OBVIOUS
    <2>1. kept \in Seq(Entry) /\ Len(kept) = n /\ \A k \in DOMAIN kept : kept[k] = es[1 + k - 1]
      <3>1. /\ kept \in Seq(Entry) /\ Len(kept) = n - m + 1
            /\ \A k \in DOMAIN kept : kept[k] = es[m + k - 1]
        BY <1>2, RunsFrom
      <3> QED BY <1>1, <3>1
    <2>2. DOMAIN kept = 1..n /\ \A k \in 1..n : 1 + k - 1 = k
      BY <1>1, <2>1, LinesAre
    <2>3. \A k \in 1..n : kept[k] = es[k]
      BY <2>1, <2>2
    <2> HIDE DEF Entry
    <2>4. kept = es
      BY <1>1, <2>1, <2>3, SeqEqual
    <2> QED BY <2>4
  <1>7. keep <= N - r
    <2>1. m - 1 \in 1..(m - 1) /\ m - 1 \in 1..n /\ m \in Int
      BY <1>1, <1>6
    <2>2. Cardinality(Newer(es, m - 1)) > keep
      BY <1>2, <2>1
    <2>3. Newer(es, m - 1) \in SUBSET (Newer(es, m) \cup {es[m - 1].file})
      <3>1. \A j \in (m - 1)..n : j \in m..n \/ j = m - 1
        BY <1>1, <2>1
      <3> QED BY <3>1 DEF Newer
    <2>4. IsFiniteSet(Newer(es, m)) /\ IsFiniteSet(Newer(es, m - 1))
      BY <1>1, <2>1, NewerIsFinite
    <2>5. /\ IsFiniteSet(Newer(es, m) \cup {es[m - 1].file})
          /\ Cardinality(Newer(es, m) \cup {es[m - 1].file}) =
               IF es[m - 1].file \in Newer(es, m) THEN Cardinality(Newer(es, m)) ELSE Cardinality(Newer(es, m)) + 1
      BY <2>4, FS_AddElement
    <2>6. Cardinality(Newer(es, m - 1)) <= Cardinality(Newer(es, m) \cup {es[m - 1].file})
      BY <2>3, <2>5, FS_Subset
    <2>7. Cardinality(Newer(es, m - 1)) \in Nat /\ Cardinality(Newer(es, m)) \in Nat
      BY <2>4, FS_CardinalityType
    <2> HIDE DEF N, r
    <2>8. Cardinality(Newer(es, m) \cup {es[m - 1].file}) \in Nat
          /\ Cardinality(Newer(es, m) \cup {es[m - 1].file}) <= Cardinality(Newer(es, m)) + 1
      BY <2>5, <2>7
    <2> QED BY <1>1, <1>4, <1>5, <2>2, <2>6, <2>7, <2>8
  <1>8. r > 0
    <2>1. 1 \in before
      BY <1>1, <1>6
    <2>2. IsFiniteSet(before)
      <3>1. before \in SUBSET S
        OBVIOUS
      <3> HIDE DEF before, S
      <3> QED BY <1>1, <3>1, FS_Subset
    <2>3. r # 0
      <3> HIDE DEF before
      <3> QED BY <2>1, <2>2, FS_EmptySet
    <2> HIDE DEF r
    <2> QED BY <1>4, <2>3
  <1> HIDE DEF r, N
  <1>9. keep = N - r /\ N > keep /\ r + 1 = N - keep + 1
    BY <1>1, <1>2, <1>4, <1>5, <1>7, <1>8
  <1> QED BY <1>1, <1>4, <1>9

-----------------------------------------------------------------------------
(* Types, names and files.                                                 *)

\* What a Put holds.
LEMMA JobsAre ==
  ASSUME TypeOK, NEW w \in Writers
  PROVE  /\ job[w] \in Job /\ job[w].keep \in Nat /\ job[w].refused \in BOOLEAN
         /\ job[w].doomed \in SUBSET ({"txt", "parsed"} \X Names)
         /\ job[w].digest \in Digests \cup {None} /\ job[w].name \in Names \cup {None}
  <1>1. job[w] \in Job
    BY DEF TypeOK
  <1>2. Keeps \cup {0} \subseteq Nat
    BY KeepsAssumption
  <1> QED BY <1>1, <1>2 DEF Job

LEMMA IdleIsAJob == Idle \in Job
  <1>1. <<>> \in Seq(Entry)
    OBVIOUS
  <1> HIDE DEF Entry
  <1> QED BY <1>1 DEF Idle, Job

\* The locals a step writes are locals still.
LEMMA JobUpdated ==
  ASSUME NEW j \in Job
  PROVE  /\ \A n \in Names : [j EXCEPT !.name = n] \in Job
         /\ \A es \in Seq(Entry) : [j EXCEPT !.entries = es] \in Job
         /\ \A d \in SUBSET ({"txt", "parsed"} \X Names) :
              /\ [j EXCEPT !.doomed = d] \in Job
              /\ [j EXCEPT !.doomed = d, !.refused = TRUE] \in Job
         /\ [j EXCEPT !.refused = TRUE] \in Job
  <1> DEFINE E == Seq(Entry)
             D == SUBSET ({"txt", "parsed"} \X Names)
             N == Names \cup {None}
  <1>1. Job = [from: Devices \cup {None}, digest: Digests \cup {None}, keep: Keeps \cup {0},
               name: N, entries: E, doomed: D, refused: BOOLEAN]
    BY DEF Job
  <1>2. \A n \in Names : n \in N
    OBVIOUS
  <1> HIDE DEF E, D, N
  <1>3. /\ \A n \in N : [j EXCEPT !.name = n] \in Job
        /\ \A es \in E : [j EXCEPT !.entries = es] \in Job
    BY <1>1
  <1>4. /\ \A d \in D : [j EXCEPT !.doomed = d] \in Job /\ [j EXCEPT !.doomed = d, !.refused = TRUE] \in Job
        /\ [j EXCEPT !.refused = TRUE] \in Job
    BY <1>1
  <1> QED BY <1>2, <1>3, <1>4 DEF E, D

\* A line's file is on the disk.
LEMMA NamedIsThere ==
  ASSUME TypeOK, NamesFiles(history)
  PROVE  /\ NamesOf(history) \subseteq Disk
         /\ history # <<>> => Len(history) \in DOMAIN history
  <1>0. history \in Seq(Entry)
    BY DEF TypeOK
  <1>1. /\ DOMAIN history = 1..Len(history) /\ Len(history) \in Nat
        /\ \A k \in DOMAIN history : history[k].file \in Names /\ history[k].digest \in Digests
    BY <1>0, LinesAre
  <1>2. \A k \in DOMAIN history : history[k].file \in Disk
    BY <1>1, PutsAssumption DEF NamesFiles, Disk
  <1>3. history # <<>> => Len(history) > 0
    BY <1>0, <1>1, EmptySeq
  <1> QED BY <1>1, <1>2, <1>3 DEF NamesOf

\* There is a free name for every second.
LEMMA NameIsFree ==
  ASSUME TypeOK, NEW s \in Stamps, IsFiniteSet(Disk), Cardinality(Disk) < puts
  PROVE  FreeName(s) \in Names /\ FreeName(s) \notin Disk
  <1> DEFINE I == 0..MaxPuts
             T == {i \in I : <<s, i>> \notin Disk}
  <1>1. MaxPuts \in Nat /\ puts \in 0..MaxPuts /\ Cardinality(Disk) \in Nat
    BY PutsAssumption, FS_CardinalityType DEF TypeOK
  <1>2. T # {}
    <2> SUFFICES ASSUME \A i \in I : <<s, i>> \in Disk PROVE FALSE
      OBVIOUS
    <2> DEFINE f == [i \in I |-> <<s, i>>]
    <2>1. f \in Injection(I, Disk)
      BY DEF Injection, IsInjective
    <2>2. Cardinality(I) <= Cardinality(Disk)
      <3> HIDE DEF f, I
      <3> QED BY <2>1, FS_Injection
    <2>3. Cardinality(I) = MaxPuts + 1
      BY <1>1, FS_Interval
    <2> QED BY <1>1, <2>2, <2>3
  <1>3. PICK i \in T : \A j \in T : i <= j
    <2>1. T \in SUBSET Nat
      BY <1>1
    <2> HIDE DEF T
    <2> QED BY <1>2, <2>1, LeastNat
  <1> DEFINE n == <<s, i>>
  <1>4. n \in Names \ Disk /\ n[1] = s /\ n[2] = i
    BY DEF Names
  <1>5. \A m \in Names \ Disk : m[1] = s => i <= m[2]
    <2> SUFFICES ASSUME NEW m \in Names \ Disk, m[1] = s PROVE i <= m[2]
      OBVIOUS
    <2>1. m[2] \in I /\ m = <<s, m[2]>>
      BY DEF Names
    <2> QED BY <1>3, <2>1
  <1> HIDE DEF n, T
  <1> QED BY <1>4, <1>5 DEF FreeName

-----------------------------------------------------------------------------
(* The steps.                                                              *)

\* While a Put is past the lock nobody else is, and the lock is free only then.
LEMMA OthersWait ==
  ASSUME StoreInv, NEW w \in Writers, Active(w) \/ ~Locked(w)
  PROVE  \A u \in Writers \ {w} : ~Active(u)
  BY DEF StoreInv, OneStore, OneAtATime, Active, Locked

\* What a step of w leaves to show: what w itself writes and knows.
LEMMA OneStep ==
  ASSUME StoreInv, NEW w \in Writers, TypeOK', NamesFiles(history)', RunsOf(history)', Knows(w)',
         \A u \in Writers \ {w} : /\ pc'[u] = pc[u] /\ job'[u] = job[u]
                                  /\ UNCHANGED <<disk, puts>> \/ ~Active(u),
         ~Active(w)' \/ \A u \in Writers \ {w} : ~Active(u),
         IsFiniteSet(Disk)', Cardinality(Disk)' <= puts',
         pc'[w] \in {"compare", "write"} => Cardinality(Disk)' < puts'
  PROVE  StoreInv'
  <1>1. OneAtATime'
    BY DEF StoreInv, OneAtATime, Active
  <1>2. ASSUME NEW u \in Writers \ {w}
        PROVE  Knows(u)' /\ (pc'[u] \in {"compare", "write"} => Cardinality(Disk)' < puts')
    <2>1. Knows(u) /\ (pc[u] \in {"compare", "write"} => Cardinality(Disk) < puts)
      BY DEF StoreInv, Room
    <2>2. CASE UNCHANGED <<disk, puts>>
      <3>1. pc'[u] = pc[u] /\ job'[u] = job[u] /\ Disk' = Disk
        BY <2>2 DEF disk, Disk
      <3>2. NamesOf(history)' = NamesOf(history)
        BY <2>2 DEF disk, NamesOf
      <3>3. Knows(u)'
        BY <2>1, <2>2, <3>1, <3>2 DEF Knows, Fresh, Sweeping, disk
      <3> QED BY <2>1, <2>2, <3>1, <3>3
    <2>3. CASE ~Active(u)
      BY <2>1, <2>3 DEF Knows, Active
    <2> QED BY <2>2, <2>3
  <1> QED BY <1>1, <1>2 DEF StoreInv, Room, OneStore

\* When only the place and the locals of w change.
LEMMA DiskStands ==
  ASSUME StoreInv, NEW w \in Writers, UNCHANGED disk
  PROVE  /\ NamesFiles(history)' /\ RunsOf(history)' /\ Disk' = Disk /\ IsFiniteSet(Disk)'
         /\ Cardinality(Disk)' = Cardinality(Disk) /\ NamesOf(history)' = NamesOf(history)
  <1>1. NamesFiles(history)' /\ RunsOf(history)'
    BY DEF StoreInv, NamesFiles, RunsOf, disk
  <1>2. Disk' = Disk /\ NamesOf(history)' = NamesOf(history)
    BY DEF disk, Disk, NamesOf
  <1> QED BY <1>1, <1>2 DEF StoreInv, Room

LEMMA BeginKeeps ==
  ASSUME StoreInv, NEW w \in Writers, Begin(w)
  PROVE  StoreInv'
  <1>1. \A u \in Writers \ {w} : ~Active(u) /\ pc'[u] = pc[u] /\ job'[u] = job[u]
    BY OthersWait DEF Begin, StoreInv, TypeOK
  <1>2. PICK d \in Devices, x \in Digests, keep \in Keeps :
          /\ owner' \in {owner, d}
          /\ job' = [job EXCEPT ![w] = [Idle EXCEPT !.from = d, !.digest = x, !.keep = keep]]
    BY DEF Begin
  <1> DEFINE j == [Idle EXCEPT !.from = d, !.digest = x, !.keep = keep]
  <1>3. j \in Job /\ j.from = d /\ j.digest = x
    <2>1. Idle \in Job
      BY IdleIsAJob
    <2>2. <<>> \in Seq(Entry)
      BY EmptySeq
    <2> HIDE DEF Entry
    <2> QED BY <2>2 DEF Idle, Job
  <1> HIDE DEF j
  <1>4. pc'[w] = "compare" /\ job'[w] = j /\ job' = [job EXCEPT ![w] = j]
    BY <1>2 DEF Begin, StoreInv, TypeOK, j
  <1>5. TypeOK'
    <2>1. job' \in [Writers -> Job]
      BY <1>3, <1>4 DEF StoreInv, TypeOK
    <2>2. puts \in Nat /\ puts' \in 0..MaxPuts
      BY PutsAssumption DEF Begin, StoreInv, TypeOK
    <2>3. owner' \in Devices \cup {None} /\ pc' \in [Writers -> {"idle", "compare", "same", "write",
                                                                  "append", "prune", "cut", "sweep", "done"}]
      BY <1>2 DEF Begin, StoreInv, TypeOK
    <2> QED BY <2>1, <2>2, <2>3 DEF Begin, StoreInv, TypeOK
  <1>6. Knows(w)'
    BY <1>3, <1>4 DEF Knows
  <1>7. NamesFiles(history)' /\ RunsOf(history)' /\ Disk' = Disk
    BY DEF Begin, StoreInv, NamesFiles, RunsOf, Disk
  <1>8. /\ IsFiniteSet(Disk)' /\ Cardinality(Disk)' < puts'
    <2>1. Cardinality(Disk) \in Nat /\ puts \in Nat /\ Cardinality(Disk) <= puts
      BY FS_CardinalityType DEF StoreInv, Room, TypeOK
    <2> QED BY <1>7, <2>1 DEF Begin, StoreInv, Room
  <1>9. Cardinality(Disk)' <= puts'
    <2>1. Cardinality(Disk)' \in Nat /\ puts' \in Nat
      BY <1>5, <1>8, FS_CardinalityType DEF TypeOK
    <2> QED BY <1>8, <2>1
  <1> QED BY <1>1, <1>5, <1>6, <1>7, <1>8, <1>9, OneStep

LEMMA CompareKeeps ==
  ASSUME StoreInv, NEW w \in Writers, Compare(w)
  PROVE  StoreInv'
  <1>0. TypeOK /\ Knows(w) /\ history \in Seq(Entry) /\ Cardinality(Disk) <= puts /\ Cardinality(Disk) < puts
    BY DEF StoreInv, TypeOK, Room, Compare
  <1>1. UNCHANGED <<disk, puts>> /\ Active(w)
    BY DEF Compare, Active
  <1>2. \A u \in Writers \ {w} : ~Active(u) /\ pc'[u] = pc[u] /\ job'[u] = job[u]
    BY <1>0, <1>1, OthersWait DEF Compare, TypeOK
  <1>3. ~torn /\ ~torn' /\ history' = history /\ Disk' = Disk
    BY <1>1 DEF Compare, Readable, disk, Disk
  <1>3a. \A k \in DOMAIN history : history[k].file \in Names
    BY <1>0, LinesAre
  <1>4. TypeOK' /\ Knows(w)'
    <2>1. CASE \E k \in Matches(job[w].digest) : /\ job' = [job EXCEPT ![w].name = history[k].file]
                                                 /\ pc' = [pc EXCEPT ![w] = "same"]
      <3>1. PICK k \in DOMAIN history : /\ k = Len(history) /\ history[k].digest = job[w].digest
                                        /\ job' = [job EXCEPT ![w].name = history[k].file]
                                        /\ pc' = [pc EXCEPT ![w] = "same"]
        BY <2>1 DEF Matches
      <3>2. job'[w] = [job[w] EXCEPT !.name = history[k].file] /\ job'[w] \in Job /\ job' \in [Writers -> Job]
        <4>1. [job[w] EXCEPT !.name = history[k].file] \in Job
          BY <1>0, <1>3a, JobsAre, JobUpdated
        <4> HIDE DEF Job
        <4> QED BY <1>0, <3>1, <4>1 DEF TypeOK
      <3>3. /\ pc'[w] = "same" /\ job'[w].name = history[k].file /\ job'[w].digest = job[w].digest
            /\ job'[w].from = job[w].from
        BY <1>0, <3>1, <3>2, JobsAre DEF TypeOK, Job
      <3>4. TypeOK'
        BY <1>0, <1>1, <3>1, <3>2 DEF TypeOK, disk
      <3>5. history # <<>>
        BY <3>1
      <3> QED BY <1>0, <1>3, <3>1, <3>3, <3>4, <3>5 DEF Knows, Compare
    <2>2. CASE Matches(job[w].digest) = {} /\ pc' = [pc EXCEPT ![w] = "write"] /\ UNCHANGED job
      <3>1. Fresh(w)
        BY <1>0, <2>2, NamedIsThere DEF Matches, Fresh, StoreInv
      <3>2. Fresh(w)'
        BY <1>3, <2>2, <3>1 DEF Fresh
      <3>3. TypeOK' /\ pc'[w] = "write" /\ job'[w] = job[w]
        BY <1>0, <1>1, <2>2 DEF TypeOK, disk
      <3> QED BY <1>0, <1>3, <3>2, <3>3 DEF Knows, Compare
    <2> QED BY <2>1, <2>2 DEF Compare
  <1> QED BY <1>0, <1>1, <1>2, <1>4, DiskStands, OneStep

LEMMA WriteFileKeeps ==
  ASSUME StoreInv, NEW w \in Writers, WriteFile(w)
  PROVE  StoreInv'
  <1>0. TypeOK /\ Knows(w) /\ NamesFiles(history) /\ IsFiniteSet(Disk) /\ Cardinality(Disk) < puts
    BY DEF StoreInv, Room, WriteFile
  <1>1. \A u \in Writers \ {w} : ~Active(u) /\ pc'[u] = pc[u] /\ job'[u] = job[u]
    BY <1>0, OthersWait DEF WriteFile, TypeOK, Active
  <1>2. PICK s \in Stamps : /\ files' = [files EXCEPT ![FreeName(s)] = job[w].digest]
                            /\ job' = [job EXCEPT ![w].name = FreeName(s)]
    BY DEF WriteFile
  <1> DEFINE n == FreeName(s)
             x == job[w].digest
  <1>3. n \in Names /\ n \notin Disk
    BY <1>0, NameIsFree
  <1>4. x \in Digests /\ x # None /\ job[w].from \in Devices /\ Fresh(w)
    BY <1>0, PutsAssumption DEF Knows, WriteFile
  <1>5. /\ files' = [files EXCEPT ![n] = x] /\ job' = [job EXCEPT ![w].name = n]
        /\ pc' = [pc EXCEPT ![w] = "append"] /\ history' = history /\ torn' = torn
        /\ UNCHANGED <<owner, parses, puts>>
    BY <1>2 DEF WriteFile
  <1> HIDE DEF n, x
  <1>6. files' \in [Names -> Digests \cup {None}] /\ files'[n] = x /\ \A m \in Names : m # n => files'[m] = files[m]
    BY <1>0, <1>3, <1>4, <1>5 DEF TypeOK
  <1>7. job'[w] = [job[w] EXCEPT !.name = n] /\ job'[w] \in Job /\ job' \in [Writers -> Job]
    <2>1. [job[w] EXCEPT !.name = n] \in Job
      BY <1>0, <1>3, JobsAre, JobUpdated
    <2> HIDE DEF Job
    <2> QED BY <1>0, <1>5, <2>1 DEF TypeOK
  <1>8. job'[w].name = n /\ job'[w].digest = x /\ job'[w].from = job[w].from
    BY <1>0, <1>7, JobsAre DEF Job, x
  <1>9. TypeOK' /\ pc'[w] = "append"
    BY <1>0, <1>5, <1>6, <1>7 DEF TypeOK
  <1>10. NamesOf(history) \subseteq Disk
    BY <1>0, NamedIsThere
  <1>11. NamesFiles(history)' /\ RunsOf(history)' /\ NamesOf(history)' = NamesOf(history)
    <2>1. \A k \in DOMAIN history : history[k].file \in Names /\ history[k].file # n
      BY <1>3, <1>10 DEF NamesOf, Disk
    <2> QED BY <1>0, <1>5, <1>6, <2>1 DEF NamesFiles, RunsOf, NamesOf, StoreInv
  <1>12. Fresh(w)' /\ ~torn'
    BY <1>0, <1>4, <1>5, <1>8 DEF Fresh, Knows, WriteFile, x
  <1>13. Knows(w)'
    BY <1>3, <1>4, <1>6, <1>8, <1>9, <1>10, <1>11, <1>12 DEF Knows
  <1>14. Disk' = Disk \cup {n}
    BY <1>3, <1>4, <1>6 DEF Disk
  <1>15. /\ IsFiniteSet(Disk)' /\ Cardinality(Disk)' <= puts'
    <2>1. IsFiniteSet(Disk \cup {n}) /\ Cardinality(Disk \cup {n}) = Cardinality(Disk) + 1
      BY <1>0, <1>3, FS_AddElement
    <2>2. Cardinality(Disk) \in Nat /\ puts \in Nat
      BY <1>0, FS_CardinalityType DEF TypeOK
    <2> QED BY <1>0, <1>5, <1>14, <2>1, <2>2
  <1> QED BY <1>1, <1>9, <1>11, <1>13, <1>15, OneStep

LEMMA AppendEntryKeeps ==
  ASSUME StoreInv, NEW w \in Writers, AppendEntry(w)
  PROVE  StoreInv'
  <1>0. TypeOK /\ Knows(w) /\ NamesFiles(history) /\ RunsOf(history) /\ history \in Seq(Entry)
    BY DEF StoreInv, TypeOK
  <1>1. \A u \in Writers \ {w} : ~Active(u) /\ pc'[u] = pc[u] /\ job'[u] = job[u]
    BY <1>0, OthersWait DEF AppendEntry, TypeOK, Active
  <1> DEFINE e == Line(w)
  <1>2. /\ history' = Append(history, e) /\ files' = files /\ job' = job /\ UNCHANGED <<owner, parses, torn, puts>>
        /\ pc' \in [Writers -> {"done", "prune"} \cup {pc[u] : u \in Writers}] /\ pc'[w] \in {"done", "prune"}
    BY <1>0 DEF AppendEntry, TypeOK
  <1>3. /\ e.file = job[w].name /\ e.digest = job[w].digest /\ e.unchanged = (pc[w] = "same")
        /\ job[w].from \in Devices /\ job[w].digest \in Digests
    BY <1>0 DEF Line, Knows, AppendEntry
  <1>4. job[w].name \in Names /\ files[job[w].name] = job[w].digest /\ e.unchanged \in BOOLEAN
    <2>1. CASE pc[w] = "same"
      <3>1. /\ history # <<>> /\ job[w].name = history[Len(history)].file
            /\ job[w].digest = history[Len(history)].digest
        BY <1>0, <2>1 DEF Knows
      <3>2. Len(history) \in DOMAIN history
        BY <1>0, <3>1, NamedIsThere
      <3> QED BY <1>0, <1>3, <3>1, <3>2, LinesAre DEF NamesFiles
    <2>2. CASE pc[w] = "append"
      BY <1>0, <1>3, <2>2 DEF Knows
    <2> QED BY <2>1, <2>2 DEF AppendEntry
  <1>5. e \in Entry
    BY <1>3, <1>4 DEF Entry, Line
  <1>6. RunsOf(Append(history, e))
    <2>1. CASE pc[w] = "same"
      <3>1. history # <<>> /\ e.file = history[Len(history)].file /\ e.unchanged
        BY <1>0, <1>3, <2>1 DEF Knows
      <3> HIDE DEF e
      <3> QED BY <1>0, <1>5, <3>1, RunGoesOn
    <2>2. CASE pc[w] = "append"
      <3>1. /\ ~e.unchanged /\ e.file \notin NamesOf(history)
            /\ history # <<>> => history[Len(history)].digest # e.digest
        BY <1>0, <1>3, <2>2 DEF Knows, Fresh
      <3> HIDE DEF e
      <3> QED BY <1>0, <1>5, <3>1, RunBegins
    <2> QED BY <2>1, <2>2 DEF AppendEntry
  <1> HIDE DEF e
  <1>7. NamesFiles(history)' /\ RunsOf(history)' /\ history' \in Seq(Entry)
    <2>1. /\ Append(history, e) \in Seq(Entry) /\ Len(history) \in Nat
          /\ DOMAIN Append(history, e) = 1..(Len(history) + 1) /\ DOMAIN history = 1..Len(history)
          /\ Append(history, e)[Len(history) + 1] = e
          /\ \A k \in 1..Len(history) : Append(history, e)[k] = history[k]
      BY <1>0, <1>5, LineAdded, LinesAre
    <2>2. \A k \in 1..(Len(history) + 1) : k = Len(history) + 1 \/ k \in 1..Len(history)
      BY <2>1
    <2>3. NamesFiles(Append(history, e))
      BY <1>0, <1>3, <1>4, <2>1, <2>2 DEF NamesFiles
    <2>4. NamesFiles(history)'
      BY <1>2, <2>3 DEF NamesFiles
    <2>5. RunsOf(history)'
      BY <1>2, <1>6 DEF RunsOf
    <2> QED BY <1>2, <2>1, <2>4, <2>5
  <1>8. TypeOK'
    BY <1>0, <1>2, <1>7 DEF TypeOK, AppendEntry
  <1>9. Knows(w)'
    BY <1>2, <1>3 DEF Knows
  <1>10. Disk' = Disk /\ IsFiniteSet(Disk)' /\ Cardinality(Disk)' <= puts'
    BY <1>2 DEF Disk, StoreInv, Room
  <1> QED BY <1>1, <1>2, <1>7, <1>8, <1>9, <1>10, OneStep

LEMMA AppendTornKeeps ==
  ASSUME StoreInv, NEW w \in Writers, AppendTorn(w)
  PROVE  StoreInv'
  <1>0. TypeOK
    BY DEF StoreInv
  <1>1. \A u \in Writers \ {w} : ~Active(u) /\ pc'[u] = pc[u] /\ job'[u] = job[u]
    BY <1>0, OthersWait DEF AppendTorn, TypeOK, Active
  <1>2. pc'[w] = "idle" /\ Knows(w)'
    BY <1>0 DEF AppendTorn, TypeOK, Knows
  <1>3. TypeOK'
    BY <1>0, IdleIsAJob DEF AppendTorn, TypeOK
  <1>4. NamesFiles(history)' /\ RunsOf(history)'
    BY DEF AppendTorn, StoreInv, NamesFiles, RunsOf
  <1>5. Disk' = Disk /\ IsFiniteSet(Disk)' /\ Cardinality(Disk)' <= puts'
    BY DEF AppendTorn, Disk, StoreInv, Room
  <1> QED BY <1>1, <1>2, <1>3, <1>4, <1>5, OneStep

LEMMA PlanKeeps ==
  ASSUME StoreInv, NEW w \in Writers, Plan(w)
  PROVE  StoreInv'
  <1>0. TypeOK /\ Knows(w) /\ history \in Seq(Entry) /\ Cardinality(Disk) <= puts
    BY DEF StoreInv, TypeOK, Room
  <1>1. UNCHANGED <<disk, puts>> /\ Active(w) /\ history' = history /\ torn' = torn
    BY DEF Plan, Active, disk
  <1>2. \A u \in Writers \ {w} : ~Active(u) /\ pc'[u] = pc[u] /\ job'[u] = job[u]
    BY <1>0, <1>1, OthersWait DEF Plan, TypeOK
  <1>3. job[w].from \in Devices /\ job[w].digest \in Digests
    BY <1>0 DEF Knows, Plan
  <1>4. TypeOK' /\ Knows(w)' /\ pc'[w] \in {"done", "cut"}
    <2>1. CASE pc' = [pc EXCEPT ![w] = "done"] /\ UNCHANGED job
      BY <1>0, <1>1, <1>3, <2>1 DEF TypeOK, Knows, disk
    <2>2. CASE /\ job[w].keep > 0 /\ Readable /\ history # <<>>
               /\ pc' = [pc EXCEPT ![w] = "cut"]
               /\ job' = [job EXCEPT ![w].entries = history]
      <3>1. /\ job'[w] = [job[w] EXCEPT !.entries = history]
            /\ job'[w] \in Job /\ job' \in [Writers -> Job]
        <4>1. [job[w] EXCEPT !.entries = history] \in Job
          BY <1>0, JobsAre, JobUpdated
        <4> HIDE DEF Job
        <4> QED BY <1>0, <2>2, <4>1 DEF TypeOK
      <3>2. /\ job'[w].entries = history /\ job'[w].keep = job[w].keep
            /\ job'[w].digest = job[w].digest /\ job'[w].from = job[w].from
        BY <1>0, <3>1, JobsAre DEF Job
      <3>3. TypeOK' /\ pc'[w] = "cut"
        BY <1>0, <1>1, <2>2, <3>1 DEF TypeOK, disk
      <3> QED BY <1>1, <1>3, <2>2, <3>2, <3>3 DEF Knows, Readable
    <2> QED BY <2>1, <2>2 DEF Plan
  <1> QED BY <1>0, <1>1, <1>2, <1>4, DiskStands, OneStep

\* The names whose captures or parses a sweep still has to remove.
LEMMA DoomedAre ==
  ASSUME TypeOK, NEW es, NEW kept
  PROVE  /\ Doomed(es, kept) \in SUBSET ({"txt", "parsed"} \X Names)
         /\ \A x \in Doomed(es, kept) : x[2] \notin NamesOf(kept)
         /\ \A n \in Disk : n \in NamesOf(kept) \/ <<"txt", n>> \in Doomed(es, kept)
         /\ \A n \in parses : n \in NamesOf(kept) \/ <<"parsed", n>> \in Doomed(es, kept)
  <1>1. Disk \subseteq Names /\ parses \subseteq Names
    BY DEF Disk, TypeOK
  <1> QED BY <1>1 DEF Doomed

LEMMA CutKeeps ==
  ASSUME StoreInv, NEW w \in Writers, Cut(w)
  PROVE  StoreInv'
  <1>0. TypeOK /\ Knows(w) /\ NamesFiles(history) /\ RunsOf(history) /\ history \in Seq(Entry)
    BY DEF StoreInv, TypeOK
  <1>1. \A u \in Writers \ {w} : ~Active(u) /\ pc'[u] = pc[u] /\ job'[u] = job[u]
    BY <1>0, OthersWait DEF Cut, TypeOK, Active
  <1> DEFINE keep == job[w].keep
             kept == KeptEntries(history, keep)
             doomed == Doomed(history, kept)
  <1>2. /\ job[w].entries = history /\ history # <<>> /\ keep > 0 /\ keep \in Nat /\ ~torn
        /\ job[w].from \in Devices /\ job[w].digest \in Digests
    BY <1>0, JobsAre DEF Knows, Cut
  <1>3. /\ history' = kept /\ torn' = FALSE /\ job' = [job EXCEPT ![w].doomed = doomed]
        /\ pc' = [pc EXCEPT ![w] = "sweep"] /\ UNCHANGED <<owner, files, parses, puts>>
    BY <1>2 DEF Cut
  <1>4. /\ doomed \in SUBSET ({"txt", "parsed"} \X Names)
        /\ \A x \in doomed : x[2] \notin NamesOf(kept)
        /\ \A n \in Disk : n \in NamesOf(kept) \/ <<"txt", n>> \in doomed
        /\ \A n \in parses : n \in NamesOf(kept) \/ <<"parsed", n>> \in doomed
    BY <1>0, DoomedAre
  <1>5. PICK m \in 1..Len(history) : /\ kept = SubSeq(history, m, Len(history)) /\ ~history[m].unchanged
                                     /\ Cardinality(Newer(history, m)) <= keep
    BY <1>0, <1>2, CutIsRight
  <1> HIDE DEF kept, doomed, keep
  <1>6. /\ kept \in Seq(Entry) /\ RunsOf(kept)
        /\ \A k \in DOMAIN kept : \E l \in DOMAIN history : kept[k] = history[l]
        /\ Cardinality(NamesOf(kept)) <= keep
    <2>1. /\ kept \in Seq(Entry) /\ RunsOf(kept)
          /\ \A k \in DOMAIN kept : m + k - 1 \in DOMAIN history /\ kept[k] = history[m + k - 1]
          /\ NamesOf(kept) = Newer(history, m)
      BY <1>0, <1>5, RunsFrom
    <2> QED BY <1>5, <2>1
  <1>7. /\ job'[w] = [job[w] EXCEPT !.doomed = doomed] /\ job'[w] \in Job /\ job' \in [Writers -> Job]
    <2>1. [job[w] EXCEPT !.doomed = doomed] \in Job
      BY <1>0, <1>4, JobsAre, JobUpdated
    <2> HIDE DEF Job
    <2> QED BY <1>0, <1>3, <2>1 DEF TypeOK
  <1>8. /\ job'[w].doomed = doomed /\ job'[w].keep = keep /\ job'[w].digest = job[w].digest
        /\ job'[w].from = job[w].from
    BY <1>0, <1>7, JobsAre DEF Job, keep
  <1>9. TypeOK' /\ pc'[w] = "sweep"
    BY <1>0, <1>3, <1>6, <1>7 DEF TypeOK
  <1>10. NamesFiles(history)' /\ RunsOf(history)'
    <2>1. NamesFiles(kept)
      BY <1>0, <1>6 DEF NamesFiles
    <2> QED BY <1>3, <1>6, <2>1 DEF NamesFiles, RunsOf
  <1>11. Disk' = Disk /\ NamesOf(history)' = NamesOf(kept)
    BY <1>3 DEF Disk, NamesOf
  <1>12. Sweeping(w)'
    BY <1>3, <1>4, <1>6, <1>8, <1>11 DEF Sweeping
  <1>13. Knows(w)'
    BY <1>2, <1>3, <1>8, <1>9, <1>12 DEF Knows
  <1>14. IsFiniteSet(Disk)' /\ Cardinality(Disk)' <= puts'
    BY <1>3, <1>11 DEF StoreInv, Room
  <1> QED BY <1>1, <1>9, <1>10, <1>13, <1>14, OneStep

LEMMA UnlinkKeeps ==
  ASSUME StoreInv, NEW w \in Writers, Unlink(w)
  PROVE  StoreInv'
  <1>0. /\ TypeOK /\ Knows(w) /\ NamesFiles(history) /\ RunsOf(history) /\ history \in Seq(Entry)
        /\ IsFiniteSet(Disk) /\ Cardinality(Disk) <= puts
    BY DEF StoreInv, TypeOK, Room
  <1>1. \A u \in Writers \ {w} : ~Active(u) /\ pc'[u] = pc[u] /\ job'[u] = job[u]
    BY <1>0, OthersWait DEF Unlink, TypeOK, Active
  <1>2. /\ Sweeping(w) /\ ~torn /\ job[w].from \in Devices /\ job[w].digest \in Digests
        /\ job[w] \in Job /\ job[w].doomed \in SUBSET ({"txt", "parsed"} \X Names)
    BY <1>0, JobsAre DEF Knows, Unlink
  <1>3. PICK v \in job[w].doomed :
          \/ /\ files' = IF v[1] = "txt" THEN [files EXCEPT ![v[2]] = None] ELSE files
             /\ parses' = IF v[1] = "parsed" THEN parses \ {v[2]} ELSE parses
             /\ job' = [job EXCEPT ![w].doomed = @ \ {v}]
          \/ /\ job' = [job EXCEPT ![w].doomed = @ \ {v}, ![w].refused = TRUE]
             /\ UNCHANGED <<files, parses>>
    BY DEF Unlink
  <1>4. v[1] \in {"txt", "parsed"} /\ v[2] \in Names /\ v = <<v[1], v[2]>> /\ v[2] \notin NamesOf(history)
    BY <1>2 DEF Sweeping
  <1>5. UNCHANGED <<owner, history, torn, pc, puts>> /\ pc[w] = "sweep" /\ NamesOf(history)' = NamesOf(history)
    BY DEF Unlink, NamesOf
  <1> DEFINE left == job[w].doomed \ {v}
  <1>6. left \in SUBSET ({"txt", "parsed"} \X Names)
    BY <1>2
  <1>7. /\ job' \in [Writers -> Job]
        /\ job'[w].doomed = left /\ job'[w].keep = job[w].keep /\ job'[w].digest = job[w].digest
        /\ job'[w].from = job[w].from
        /\ ~job'[w].refused => ~job[w].refused
    <2>1. [job[w] EXCEPT !.doomed = left] \in Job /\ [job[w] EXCEPT !.doomed = left, !.refused = TRUE] \in Job
      BY <1>2, <1>6, JobUpdated
    <2>2. job' = [job EXCEPT ![w] = [job[w] EXCEPT !.doomed = left]]
          \/ job' = [job EXCEPT ![w] = [job[w] EXCEPT !.doomed = left, !.refused = TRUE]]
      BY <1>0, <1>3 DEF TypeOK
    <2> HIDE DEF left
    <2>3. job'[w] = [job[w] EXCEPT !.doomed = left] \/ job'[w] = [job[w] EXCEPT !.doomed = left, !.refused = TRUE]
      BY <1>0, <2>2 DEF TypeOK
    <2>4. job' \in [Writers -> Job]
      <3> HIDE DEF Job
      <3> QED BY <1>0, <2>1, <2>2 DEF TypeOK
    <2> QED BY <1>2, <2>3, <2>4 DEF Job
  <1>8. ~job'[w].refused => /\ files' = IF v[1] = "txt" THEN [files EXCEPT ![v[2]] = None] ELSE files
                            /\ parses' = IF v[1] = "parsed" THEN parses \ {v[2]} ELSE parses
    <2> SUFFICES ASSUME job' = [job EXCEPT ![w].doomed = @ \ {v}, ![w].refused = TRUE]
                 PROVE  job'[w].refused
      BY <1>3
    <2>1. job'[w] = [job[w] EXCEPT !.doomed = left, !.refused = TRUE]
      BY <1>0 DEF TypeOK
    <2> HIDE DEF left
    <2> QED BY <1>2, <2>1 DEF Job
  <1> HIDE DEF left
  <1>9. /\ \A n \in Names : files'[n] = files[n] \/ (n = v[2] /\ files'[n] = None)
        /\ files' \in [Names -> Digests \cup {None}] /\ parses' \in SUBSET parses /\ parses' \in SUBSET Names
    <2>1. files \in [Names -> Digests \cup {None}] /\ parses \in SUBSET Names
      BY <1>0 DEF TypeOK
    <2> DEFINE m == v[2]
    <2>2. files' = files \/ files' = [files EXCEPT ![m] = None]
      BY <1>3
    <2>6. m \in Names
      BY <1>4
    <2>3. parses' = parses \/ parses' = parses \ {v[2]}
      BY <1>3
    <2>4. parses' \in SUBSET parses /\ parses' \in SUBSET Names
      BY <2>1, <2>3
    <2> HIDE DEF m
    <2>5. /\ \A n \in Names : files'[n] = files[n] \/ (n = m /\ files'[n] = None)
          /\ files' \in [Names -> Digests \cup {None}]
      <3> HIDE DEF Names
      <3> QED BY <2>1, <2>2, <2>6
    <2> QED BY <2>4, <2>5 DEF m
  <1>10. TypeOK'
    BY <1>0, <1>5, <1>7, <1>9 DEF TypeOK
  <1>11. NamesFiles(history)' /\ RunsOf(history)'
    <2>1. \A k \in DOMAIN history : history[k].file \in Names /\ history[k].file # v[2]
      BY <1>0, <1>4, LinesAre DEF NamesOf
    <2> QED BY <1>0, <1>5, <1>9, <2>1 DEF NamesFiles, RunsOf
  <1>12. Disk' \in SUBSET Disk
    BY <1>9 DEF Disk
  <1>13. IsFiniteSet(Disk)' /\ Cardinality(Disk)' <= puts'
    <2>1. IsFiniteSet(Disk') /\ Cardinality(Disk') <= Cardinality(Disk)
      BY <1>0, <1>12, FS_Subset
    <2>2. Cardinality(Disk) \in Nat /\ Cardinality(Disk') \in Nat /\ puts \in Nat
      BY <1>0, <2>1, FS_CardinalityType DEF TypeOK
    <2> QED BY <1>0, <1>5, <2>1, <2>2
  <1>14. Sweeping(w)'
    <2>1. \A x \in left : x[2] \notin NamesOf(history)
      BY <1>2 DEF Sweeping, left
    <2>2. ASSUME ~job'[w].refused
          PROVE  /\ \A n \in Disk' : n \in NamesOf(history) \/ <<"txt", n>> \in left
                 /\ \A n \in parses' : n \in NamesOf(history) \/ <<"parsed", n>> \in left
      <3>1. ASSUME NEW n \in Disk'
            PROVE  n \in NamesOf(history) \/ <<"txt", n>> \in left
        <4>1. n \in Disk /\ (n \in NamesOf(history) \/ <<"txt", n>> \in job[w].doomed)
          BY <1>2, <1>7, <1>12, <2>2 DEF Sweeping
        <4>2. v # <<"txt", n>>
          BY <1>0, <1>4, <1>8, <2>2 DEF Disk, TypeOK
        <4> QED BY <4>1, <4>2 DEF left
      <3>2. ASSUME NEW n \in parses'
            PROVE  n \in NamesOf(history) \/ <<"parsed", n>> \in left
        <4>1. n \in parses /\ (n \in NamesOf(history) \/ <<"parsed", n>> \in job[w].doomed)
          BY <1>2, <1>7, <1>9, <2>2 DEF Sweeping
        <4>2. v # <<"parsed", n>>
          BY <1>4, <1>8, <2>2
        <4> QED BY <4>1, <4>2 DEF left
      <3> QED BY <3>1, <3>2
    <2>3. Cardinality(NamesOf(history)) <= job[w].keep
      BY <1>2 DEF Sweeping
    <2> QED BY <1>5, <1>7, <2>1, <2>2, <2>3 DEF Sweeping
  <1>15. Knows(w)'
    BY <1>2, <1>5, <1>7, <1>14 DEF Knows
  <1> QED BY <1>1, <1>5, <1>10, <1>11, <1>13, <1>15, OneStep

\* Steps that leave the disk as it is.
LEMMA ReturnKeeps ==
  ASSUME StoreInv, NEW w \in Writers, Return(w)
  PROVE  StoreInv'
  <1>0. TypeOK /\ Knows(w) /\ Cardinality(Disk) <= puts
    BY DEF StoreInv, Room
  <1>1. UNCHANGED <<disk, job, puts>> /\ pc'[w] = "done"
        /\ \A u \in Writers \ {w} : pc'[u] = pc[u]
    BY <1>0 DEF Return, TypeOK
  <1>2. TypeOK' /\ Knows(w)' /\ ~Active(w)'
    BY <1>0, <1>1 DEF Return, TypeOK, Knows, Active, disk
  <1> QED BY <1>0, <1>1, <1>2, DiskStands, OneStep

LEMMA PruneFailsKeeps ==
  ASSUME StoreInv, NEW w \in Writers, PruneFails(w)
  PROVE  StoreInv'
  <1>0. TypeOK /\ Knows(w) /\ Cardinality(Disk) <= puts /\ job[w] \in Job
    BY JobsAre DEF StoreInv, Room
  <1>1. /\ UNCHANGED <<disk, puts>> /\ pc'[w] = "done"
        /\ \A u \in Writers \ {w} : pc'[u] = pc[u] /\ job'[u] = job[u]
        /\ job' = [job EXCEPT ![w] = [job[w] EXCEPT !.refused = TRUE]]
    BY <1>0 DEF PruneFails, TypeOK
  <1>2. job' \in [Writers -> Job] /\ job'[w].from = job[w].from /\ job'[w].digest = job[w].digest
    <2>1. [job[w] EXCEPT !.refused = TRUE] \in Job
      BY <1>0, JobUpdated
    <2>2. job' \in [Writers -> Job] /\ job'[w] = [job[w] EXCEPT !.refused = TRUE]
      <3> HIDE DEF Job
      <3> QED BY <1>0, <1>1, <2>1 DEF TypeOK
    <2> QED BY <1>0, <2>2 DEF Job
  <1>3. TypeOK' /\ Knows(w)' /\ ~Active(w)'
    BY <1>0, <1>1, <1>2 DEF PruneFails, TypeOK, Knows, Active, disk
  <1> QED BY <1>0, <1>1, <1>3, DiskStands, OneStep

LEMMA FailKeeps ==
  ASSUME StoreInv, NEW w \in Writers, Fail(w)
  PROVE  StoreInv'
  <1>0. TypeOK /\ Cardinality(Disk) <= puts
    BY DEF StoreInv, Room
  <1>1. /\ UNCHANGED <<disk, puts>> /\ pc'[w] = "idle"
        /\ \A u \in Writers \ {w} : pc'[u] = pc[u] /\ job'[u] = job[u]
    BY <1>0 DEF Fail, TypeOK
  <1>2. TypeOK' /\ Knows(w)' /\ ~Active(w)'
    BY <1>0, <1>1, IdleIsAJob DEF Fail, TypeOK, Knows, Active, disk
  <1> QED BY <1>0, <1>1, <1>2, DiskStands, OneStep

LEMMA PutParsedKeeps ==
  ASSUME StoreInv, NEW w \in Writers, PutParsed(w)
  PROVE  StoreInv'
  <1>0. TypeOK
    BY DEF StoreInv
  <1>1. \A u \in Writers \ {w} : ~Active(u) /\ pc'[u] = pc[u] /\ job'[u] = job[u]
    BY <1>0, OthersWait DEF PutParsed, TypeOK
  <1>2. pc'[w] = "idle" /\ Knows(w)'
    BY <1>0 DEF PutParsed, TypeOK, Knows
  <1>3. parses' \in SUBSET Names
    BY <1>0 DEF PutParsed, TypeOK, Disk
  <1>4. TypeOK'
    BY <1>0, <1>3, IdleIsAJob DEF PutParsed, TypeOK
  <1>5. NamesFiles(history)' /\ RunsOf(history)'
    BY DEF PutParsed, StoreInv, NamesFiles, RunsOf
  <1>6. Disk' = Disk /\ IsFiniteSet(Disk)' /\ Cardinality(Disk)' <= puts'
    BY DEF PutParsed, Disk, StoreInv, Room
  <1> QED BY <1>1, <1>2, <1>4, <1>5, <1>6, OneStep

LEMMA StoreBegins == OneStore /\ Init => StoreInv
  <1> SUFFICES ASSUME OneStore, Init PROVE StoreInv
    OBVIOUS
  <1>1. TypeOK
    <2>1. <<>> \in Seq(Entry)
      <3> HIDE DEF Entry
      <3> QED OBVIOUS
    <2>2. job \in [Writers -> Job]
      BY IdleIsAJob DEF Init
    <2>3. 0 \in 0..MaxPuts
      BY PutsAssumption
    <2> QED BY <2>1, <2>2, <2>3 DEF Init, TypeOK
  <1>2. Disk = {}
    BY DEF Disk, Init
  <1>3. IsFiniteSet(Disk) /\ Cardinality(Disk) = 0
    BY <1>2, FS_EmptySet
  <1>4. \A w \in Writers : pc[w] = "idle"
    BY DEF Init
  <1>5. NamesFiles(history) /\ RunsOf(history)
    BY DEF Init, NamesFiles, RunsOf
  <1>6. Room
    BY <1>3, <1>4 DEF Room, Init
  <1> QED BY <1>1, <1>4, <1>5, <1>6 DEF StoreInv, OneAtATime, Active, Knows

LEMMA StoreStep == StoreInv /\ [Next]_vars => StoreInv'
  <1> SUFFICES ASSUME StoreInv, [Next]_vars PROVE StoreInv'
    OBVIOUS
  <1>1. ASSUME NEW w \in Writers, Put(w) \/ PutParsed(w) \/ Fail(w)
        PROVE  StoreInv'
    BY <1>1, BeginKeeps, CompareKeeps, WriteFileKeeps, AppendEntryKeeps, AppendTornKeeps, PlanKeeps,
       CutKeeps, UnlinkKeeps, ReturnKeeps, PruneFailsKeeps, FailKeeps, PutParsedKeeps DEF Put
  <1>2. CASE UNCHANGED vars
    <2>1. TypeOK' /\ NamesFiles(history)' /\ RunsOf(history)' /\ OneAtATime'
      BY <1>2 DEF StoreInv, TypeOK, NamesFiles, RunsOf, OneAtATime, Active, vars
    <2>2. Disk' = Disk /\ NamesOf(history)' = NamesOf(history)
      BY <1>2 DEF Disk, NamesOf, vars
    <2>3. Room'
      BY <1>2, <2>2 DEF StoreInv, Room, vars
    <2>4. \A w \in Writers : Knows(w)'
      BY <1>2, <2>2 DEF StoreInv, Knows, Fresh, Sweeping, vars
    <2> QED BY <2>1, <2>3, <2>4 DEF StoreInv, OneStore
  <1> QED BY <1>1, <1>2 DEF Next

-----------------------------------------------------------------------------
(* The theorems.                                                           *)

\* Every history line names a file that is there and holds its content, and the
\* lines are runs of one file each, whatever step a Put of store.go fails or dies at.
THEOREM HistoryAgrees == OneStore /\ Spec => []HistoryIsTrue
  <1>1. StoreInv => HistoryIsTrue
    BY DEF StoreInv, HistoryIsTrue, HistoryNamesFiles, HistoryIsRuns, NamesFiles, RunsOf
  <1> QED BY <1>1, StoreBegins, StoreStep, PTL DEF Spec

\* A prune that was refused nothing leaves the files history names and no more than
\* its retention, and a history that does not read is no ground for removing any
\* (pruneType).
THEOREM PrunesAreRight == OneStore /\ Spec => PruneIsRight
  <1>1. StoreInv /\ [Next]_vars => [PruneIsExact /\ NothingRemovedBlind]_vars
    <2> SUFFICES ASSUME StoreInv, Next PROVE PruneIsExact /\ NothingRemovedBlind
      OBVIOUS
    <2>0. TypeOK /\ \A w \in Writers : Knows(w)
      BY DEF StoreInv
    <2>1. PICK u \in Writers : Put(u) \/ PutParsed(u) \/ Fail(u)
      BY DEF Next
    <2>2. PruneIsExact
      <3> SUFFICES ASSUME NEW w \in Writers, pc[w] = "sweep", pc'[w] = "done", ~job'[w].refused
                   PROVE  /\ Disk' = NamesOf(history') /\ parses' \subseteq Disk'
                          /\ Cardinality(Disk') <= job[w].keep
        BY DEF PruneIsExact
      <3>1. ~PruneFails(u)
        <4> SUFFICES ASSUME PruneFails(u) PROVE FALSE
          OBVIOUS
        <4>1. u = w
          BY <2>0 DEF PruneFails, TypeOK
        <4>2. job'[w] = [job[w] EXCEPT !.refused = TRUE] /\ job[w] \in Job
          BY <2>0, <4>1 DEF PruneFails, TypeOK
        <4> QED BY <4>2 DEF Job
      <3>2. u = w /\ Return(w)
        BY <2>0, <2>1, <3>1 DEF Put, PutParsed, Fail, Begin, Compare, WriteFile, AppendEntry, AppendTorn,
                                Plan, Cut, Unlink, Return, TypeOK
      <3>3. Sweeping(w) /\ job[w].doomed = {} /\ UNCHANGED <<disk, job>>
        BY <2>0, <3>2 DEF Knows, Return
      <3>4. NamesOf(history) \subseteq Disk
        BY NamedIsThere DEF StoreInv
      <3>5. Disk' = Disk /\ NamesOf(history') = NamesOf(history)
        BY <3>3 DEF Disk, NamesOf, disk
      <3> QED BY <3>3, <3>4, <3>5 DEF Sweeping, disk
    <2>3. NothingRemovedBlind
      <3> SUFFICES ASSUME torn, NEW n \in Disk PROVE files'[n] = files[n]
        BY DEF NothingRemovedBlind
      <3>1. CASE WriteFile(u)
        BY <2>0, <3>1 DEF WriteFile, Knows
      <3>2. CASE Unlink(u)
        BY <2>0, <3>2 DEF Unlink, Knows
      <3>3. CASE ~WriteFile(u) /\ ~Unlink(u)
        BY <2>1, <3>3 DEF Put, PutParsed, Fail, Begin, Compare, AppendEntry, AppendTorn,
                          Plan, Cut, Return, PruneFails, disk
      <3> QED BY <3>1, <3>2, <3>3
    <2> QED BY <2>2, <2>3
  <1> QED BY <1>1, StoreBegins, StoreStep, PTL DEF Spec, PruneIsRight

\* Every step of a Put is a step of the version log, or none of it: the line of a
\* stored file records a content that is not the newest, and a prune that cuts retains.
LEMMA LogStep == StoreInv /\ [Next]_vars => [Log!LogNext]_(VersionsOf(history))
  <1> SUFFICES ASSUME StoreInv, [Next]_vars, VersionsOf(history)' # VersionsOf(history)
               PROVE  Log!LogNext
    OBVIOUS
  <1>0. /\ TypeOK /\ NamesFiles(history) /\ RunsOf(history) /\ history \in Seq(Entry)
        /\ \A w \in Writers : Knows(w)
    BY DEF StoreInv, TypeOK
  <1>1. history' # history
    <2> SUFFICES ASSUME history' = history PROVE VersionsOf(history)' = VersionsOf(history)
      OBVIOUS
    <2> QED BY DEF VersionsOf, StoredIn, RankIn
  <1>2. PICK w \in Writers : AppendEntry(w) \/ Cut(w)
    BY <1>1 DEF Next, Put, PutParsed, Fail, Begin, Compare, WriteFile, AppendTorn,
                Plan, Unlink, Return, PruneFails, disk, vars
  <1>3. VersionsOf(history)' = VersionsOf(history')
    BY DEF VersionsOf, StoredIn, RankIn
  <1>4. CASE AppendEntry(w)
    <2> DEFINE e == Line(w)
    <2>1. /\ history' = Append(history, e) /\ e.digest = job[w].digest /\ e.unchanged = (pc[w] = "same")
      BY <1>4 DEF AppendEntry, Line
    <2>2. e \in Entry
      <3>1. job[w].from \in Devices /\ job[w].digest \in Digests
        BY <1>0, <1>4 DEF AppendEntry, Knows
      <3>2. job[w].name \in Names
        <4>1. CASE pc[w] = "append"
          BY <1>0, <4>1 DEF Knows
        <4>2. CASE pc[w] = "same"
          BY <1>0, <4>2, NamedIsThere, LinesAre DEF Knows
        <4> QED BY <1>4, <4>1, <4>2 DEF AppendEntry
      <3> QED BY <3>1, <3>2 DEF Entry, Line
    <2> HIDE DEF e
    <2>3. ~e.unchanged
      <3> SUFFICES ASSUME e.unchanged PROVE FALSE
        OBVIOUS
      <3>1. VersionsOf(history') = VersionsOf(history)
        BY <1>0, <2>1, <2>2, SameVersions
      <3> QED BY <1>3, <3>1
    <2>4. VersionsOf(history') = Append(VersionsOf(history), e.digest)
      BY <1>0, <2>1, <2>2, <2>3, AddedVersion
    <2>5. pc[w] = "append" /\ Fresh(w) /\ e.digest \in Digests
      <3>1. pc[w] = "append"
        BY <1>4, <2>1, <2>3 DEF AppendEntry
      <3> QED BY <1>0, <2>1, <3>1 DEF Knows
    <2>6. VersionsOf(history) # <<>> => VersionsOf(history)[Len(VersionsOf(history))] # e.digest
      <3> SUFFICES ASSUME VersionsOf(history) # <<>>
                   PROVE  VersionsOf(history)[Len(VersionsOf(history))] # e.digest
        OBVIOUS
      <3>1. history # <<>>
        <4> SUFFICES ASSUME history = <<>> PROVE VersionsOf(history) = <<>>
          OBVIOUS
        <4>1. StoredIn(history) = {}
          BY DEF StoredIn
        <4>2. VersionsOf(history) \in Seq(Digests) /\ Len(VersionsOf(history)) = 0
          BY <1>0, <4>1, VersionsAre, FS_EmptySet
        <4> QED BY <4>2, EmptySeq
      <3>2. VersionsOf(history)[Len(VersionsOf(history))] = history[Len(history)].digest
        BY <1>0, <3>1, NewestVersion
      <3> QED BY <2>1, <2>5, <3>1, <3>2 DEF Fresh
    <2>7. Log!Record(e.digest)
      BY <1>3, <2>4, <2>6 DEF Log!Record
    <2> QED BY <2>5, <2>7 DEF Log!LogNext
  <1>5. CASE Cut(w)
    <2> DEFINE keep == job[w].keep
               kept == KeptEntries(history, keep)
    <2>1. /\ job[w].entries = history /\ history # <<>> /\ keep > 0 /\ keep \in Nat /\ keep \in Keeps \cup {0}
      BY <1>0, <1>5, JobsAre DEF Knows, Cut, Job
    <2>2. history' = kept /\ kept # history
      BY <1>1, <1>5, <2>1 DEF Cut
    <2>3. keep \in Keeps \ {0}
      BY <2>1
    <2> HIDE DEF keep
    <2>4. /\ Len(VersionsOf(history)) > keep
          /\ VersionsOf(kept) = SubSeq(VersionsOf(history), Len(VersionsOf(history)) - keep + 1,
                                       Len(VersionsOf(history)))
      BY <1>0, <2>1, <2>2, CutRetains
    <2>5. Log!Retain(keep)
      BY <1>3, <2>2, <2>4 DEF Log!Retain
    <2> QED BY <2>3, <2>5 DEF Log!LogNext
  <1> QED BY <1>2, <1>4, <1>5

\* The directory is a version log: a Put of store.go adds its content or nothing,
\* never the newest content a second time, and a retention leaves the newest versions
\* and no others, in one step, wherever it dies.
THEOREM StoreImplementsLog == OneStore /\ Spec => IsAVersionLog
  <1>1. Init => Log!LogInit
    <2> SUFFICES ASSUME Init PROVE VersionsOf(history) = <<>>
      BY DEF Log!LogInit
    <2>1. history = <<>> /\ history \in Seq(Entry) /\ StoredIn(history) = {}
      BY EmptySeq DEF Init, StoredIn
    <2>2. VersionsOf(history) \in Seq(Digests) /\ Len(VersionsOf(history)) = 0
      BY <2>1, VersionsAre, FS_EmptySet
    <2> QED BY <2>2, EmptySeq
  <1> QED BY <1>1, LogStep, StoreBegins, StoreStep, PTL DEF Spec, IsAVersionLog, Log!LogSpec
==============================================================================
