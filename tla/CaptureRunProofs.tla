-------------------------- MODULE CaptureRunProofs --------------------------
(***************************************************************************)
(* Theorems about the run model and about the window that watches it, for  *)
(* every set of devices and types and every sequence of events.            *)
(*                                                                         *)
(* The run: type correctness; the counters, the facts of a device and the  *)
(* bytes stored, each an invariant with the one before it; the numbers of  *)
(* changes; the result board.  The bridge: BridgeInv says what a pull has  *)
(* read at each of its points, and that a view that is behind has a wake   *)
(* coming; what the window shows implements the result board as well.      *)
(***************************************************************************)
EXTENDS RunBridge, FiniteSetTheorems, SequenceTheorems, TLAPS

\* Every event an emit site constructs is an Event, and the ones a handler
\* reads an identity or a type from carry one.
LEMMA EmittedType ==
  ASSUME NEW ev \in Emitted
  PROVE  /\ ev \in Event
         /\ ev.kind \notin RunKinds => ev.id \in Identities
         /\ ev.kind \in CaptureKinds => ev.type \in Types
         /\ ev.kind = "platform" => ev.platform \in Platforms
         /\ ev.kind \in {"stored", "unchanged"} => ev.bytes \in Sizes /\ ev.path \in Paths
  <1>1. CASE ev \in PlatformEvents
    <2> PICK i \in Identities, pf \in Platforms, n \in BOOLEAN :
          ev = PlatformEvent(i, pf, n)
      BY <1>1 DEF PlatformEvents
    <2> QED BY DEF PlatformEvent, Blank, Event, Kinds, DeviceKinds, CaptureKinds, RunKinds
  <1>2. CASE ev \in NameEvents
    <2> PICK k \in {"resolved", "named"}, i \in Identities, n \in Names \cup {None} :
          ev = NameEvent(k, i, n)
      BY <1>2 DEF NameEvents
    <2> QED BY DEF NameEvent, Blank, Event, Kinds, DeviceKinds, CaptureKinds, RunKinds
  <1>3. CASE ev \in CaptureEvents
    <2> PICK k \in CaptureKinds \ {"stored", "unchanged"}, i \in Identities, t \in Types :
          ev = CaptureEvent(k, i, t)
      BY <1>3 DEF CaptureEvents
    <2> QED BY DEF CaptureEvent, Blank, Event, Kinds, DeviceKinds, CaptureKinds, RunKinds
  <1>4. CASE ev \in ResultEvents
    <2> PICK k \in {"stored", "unchanged"}, i \in Identities, t \in Types,
             b \in Sizes, f \in Paths :
          ev = ResultEvent(k, i, t, b, f)
      BY <1>4 DEF ResultEvents
    <2> QED BY DEF ResultEvent, Blank, Event, Kinds, DeviceKinds, CaptureKinds, RunKinds
  <1>5. CASE \E k \in DeviceKinds \ {"platform", "resolved", "named"}, i \in Identities :
               ev = Blank(k, i)
    BY <1>5 DEF Blank, Event, Kinds, DeviceKinds, CaptureKinds, RunKinds
  <1>6. CASE \E k \in {"auth-reject", "host-key-new"}, i \in Identities \cup {None} :
               ev = Blank(k, i)
    BY <1>6 DEF Blank, Event, Kinds, DeviceKinds, CaptureKinds, RunKinds
  <1>7. CASE ev = Blank("cred-parked", None)
    BY <1>7 DEF Blank, Event, Kinds, DeviceKinds, CaptureKinds, RunKinds
  <1> QED
    BY <1>1, <1>2, <1>3, <1>4, <1>5, <1>6, <1>7 DEF Emitted, AllEvents

LEMMA ReceiveType ==
  ASSUME TypeOK, NEW ev \in Event, Receive(ev)
  PROVE  /\ seq' \in Nat
         /\ notable' \in Seq(Decision)
         /\ finished' \in BOOLEAN
         /\ seq' = seq + 1
  <1>1. [ev |-> ev, seq |-> seq + 1] \in Decision
    BY DEF Decision, TypeOK
  <1>2. Append(notable, [ev |-> ev, seq |-> seq + 1]) \in Seq(Decision)
    BY <1>1 DEF TypeOK
  <1> QED
    BY <1>2 DEF TypeOK, Receive

LEMMA RunningFinite ==
  ASSUME NEW S \in SUBSET Pairs
  PROVE  /\ IsFiniteSet(Running(S))
         /\ Cardinality(Running(S)) \in Nat
  <1>1. IsFiniteSet(Pairs)
    BY FinitePairs, FS_Product DEF Pairs
  <1>2. IsFiniteSet(Running(S))
    BY <1>1, FS_Subset DEF Running
  <1> QED BY <1>2, FS_CardinalityType

\* What an update does to one row, to one device record, to the counters.
LEMMA RowUpdates ==
  ASSUME NEW row \in Row, NEW n \in Nat
  PROVE  /\ [row EXCEPT !.state = "failed", !.seq = n] \in Row
         /\ [row EXCEPT !.sent = TRUE, !.seq = n] \in Row
         /\ \A pf \in Platforms : [row EXCEPT !.platform = pf, !.seq = n] \in Row
         /\ \A m \in Names \cup {None} : [row EXCEPT !.name = m, !.seq = n] \in Row
BY DEF Row, States, Settled

LEMMA OpenedType ==
  ASSUME TypeOK, NEW p \in Pairs
  PROVE  Opened(p) \in Row
  <1>1. CASE rows[p].state # "absent"
    BY <1>1 DEF Opened, TypeOK
  <1>2. CASE rows[p].state = "absent"
    <2>1. p[1] \in Identities
      BY DEF Pairs
    <2>2. devices[p[1]].name \in Names \cup {None}
          /\ devices[p[1]].platform \in Platforms \cup {None}
      BY <2>1 DEF TypeOK, Device
    <2>3. Opened(p) = [NoRow EXCEPT !.state = "running", !.name = devices[p[1]].name,
                         !.platform = devices[p[1]].platform, !.seq = seq + 1]
      BY <1>2 DEF Opened
    <2>4. seq + 1 \in Nat
      BY DEF TypeOK
    <2> QED
      BY <2>2, <2>3, <2>4 DEF NoRow, Row, States
  <1> QED BY <1>1, <1>2

LEMMA SettleType ==
  ASSUME TypeOK, NEW row \in Row, NEW s \in Settled, NEW ev \in Event
  PROVE  Settle(row, s, ev) \in Row
  <1>1. CASE row.state # "running"
    BY <1>1 DEF Settle
  <1>2. CASE row.state = "running" /\ s \in {"stored", "unchanged"}
    <2>1. Settle(row, s, ev) = [row EXCEPT !.state = s, !.seq = seq + 1,
                                  !.bytes = ev.bytes, !.path = ev.path]
      BY <1>2 DEF Settle, Row
    <2>2. ev.bytes \in Sizes \cup {0} /\ ev.path \in Paths \cup {None}
      BY DEF Event
    <2>3. seq + 1 \in Nat
      BY DEF TypeOK
    <2> QED BY <2>1, <2>2, <2>3 DEF Row, States
  <1>3. CASE row.state = "running" /\ s \notin {"stored", "unchanged"}
    <2>1. Settle(row, s, ev) = [row EXCEPT !.state = s, !.seq = seq + 1,
                                  !.bytes = row.bytes, !.path = row.path]
      BY <1>3 DEF Settle, Row
    <2>2. seq + 1 \in Nat
      BY DEF TypeOK
    <2> QED BY <2>1, <2>2 DEF Row, States
  <1> QED BY <1>1, <1>2, <1>3

LEMMA DeviceUpdates ==
  ASSUME TypeOK, NEW i \in Identities
  PROVE  /\ Seen(i) \in Device
         /\ [Seen(i) EXCEPT !.failed = TRUE] \in Device
         /\ \A pf \in Platforms : [Seen(i) EXCEPT !.platform = pf] \in Device
         /\ \A n \in Names \cup {None} : [Seen(i) EXCEPT !.name = n] \in Device
BY DEF TypeOK, Seen, Device

LEMMA CountUpdates ==
  ASSUME TypeOK, NEW i \in Identities
  PROVE  /\ [counts EXCEPT !.devices = @ + FirstSight(i)] \in Counts
         /\ \A n \in Nat : [counts EXCEPT !.devices = @ + FirstSight(i),
                                          !.devicesFailed = @ + n] \in Counts
         /\ \A n \in Nat : [counts EXCEPT !.devices = @ + FirstSight(i),
                                          !.bytesStored = @ + n] \in Counts
  <1>1. counts \in Counts
    BY DEF TypeOK
  <1>2. FirstSight(i) \in Nat
    BY DEF FirstSight
  <1>3. [counts EXCEPT !.devices = @ + FirstSight(i)] \in Counts
    BY <1>1, <1>2 DEF Counts
  <1>4. ASSUME NEW n \in Nat
        PROVE  [counts EXCEPT !.devices = @ + FirstSight(i), !.devicesFailed = @ + n] \in Counts
    <2>1. counts.devices + FirstSight(i) \in Nat /\ counts.devicesFailed + n \in Nat
      BY <1>1, <1>2 DEF Counts
    <2> QED BY <1>1, <2>1 DEF Counts
  <1>5. ASSUME NEW n \in Nat
        PROVE  [counts EXCEPT !.devices = @ + FirstSight(i), !.bytesStored = @ + n] \in Counts
    <2>1. counts.devices + FirstSight(i) \in Nat /\ counts.bytesStored + n \in Nat
      BY <1>1, <1>2 DEF Counts
    <2> QED BY <1>1, <2>1 DEF Counts
  <1> QED BY <1>3, <1>4, <1>5

LEMMA RunWideCountUpdates ==
  ASSUME TypeOK
  PROVE  /\ [counts EXCEPT !.newHostKeys = @ + 1] \in Counts
         /\ [counts EXCEPT !.credRejections = @ + 1] \in Counts
  <1>1. counts \in Counts
    BY DEF TypeOK
  <1> QED BY <1>1 DEF Counts

\* Type correctness of the run model.
THEOREM TypeCorrect == Spec => []TypeOK
  <1>1. Init => TypeOK
    <2> SUFFICES ASSUME Init PROVE TypeOK
      OBVIOUS
    <2>1. NoRow \in Row
      BY DEF NoRow, Row
    <2>2. rows \in [Pairs -> Row]
      BY <2>1 DEF Init
    <2>3. devices \in [Identities -> Device]
      BY DEF Init, Device
    <2>4. counts \in Counts
      BY DEF Init, Counts
    <2>5. notable \in Seq(Decision)
      BY DEF Init
    <2>6. tally \in [States -> Int]
      BY DEF Init
    <2>7. seq \in Nat /\ finished \in BOOLEAN
      BY DEF Init
    <2> QED
      BY <2>2, <2>3, <2>4, <2>5, <2>6, <2>7 DEF TypeOK
  <1>2. TypeOK /\ [Next]_vars => TypeOK'
    <2> SUFFICES ASSUME TypeOK, [Next]_vars PROVE TypeOK'
      OBVIOUS
    <2>0. /\ seq \in Nat /\ rows \in [Pairs -> Row] /\ devices \in [Identities -> Device]
          /\ counts \in Counts /\ tally \in [States -> Int]
      BY DEF TypeOK
    <2>1. ASSUME NEW ev \in Emitted, Apply(ev) PROVE TypeOK'
      <3>0. ev \in Event
        BY EmittedType
      <3>1. Receive(ev)
        BY <2>1 DEF Apply, ApplyRunWide, ApplyAnonymous, ApplyDevice, ApplyPlatform,
                    ApplyName, ApplyDeviceFail, ApplyCaptureStart, ApplyTerminal
      <3>2. /\ seq' \in Nat
            /\ notable' \in Seq(Decision)
            /\ finished' \in BOOLEAN
        BY <3>0, <3>1, ReceiveType
      <3>3. SUFFICES /\ rows' \in [Pairs -> Row]
                     /\ devices' \in [Identities -> Device]
                     /\ counts' \in Counts
                     /\ tally' \in [States -> Int]
        BY <3>2 DEF TypeOK
      <3>a. seq + 1 \in Nat
        BY <2>0
      <3>4. CASE ApplyRunWide(ev)
        BY <3>4, <2>0, RunWideCountUpdates DEF ApplyRunWide
      <3>5. CASE ApplyAnonymous(ev)
        BY <3>5, <2>0 DEF ApplyAnonymous
      <3>6. CASE ApplyDevice(ev)
        <4>1. ev.id \in Identities
          BY <3>6, EmittedType DEF ApplyDevice, RunKinds
        <4> QED
          BY <3>6, <2>0, <4>1, DeviceUpdates, CountUpdates DEF ApplyDevice
      <3>7. CASE ApplyPlatform(ev)
        <4>1. ev.id \in Identities /\ ev.platform \in Platforms
          BY <3>7, EmittedType DEF ApplyPlatform, RunKinds
        <4>2. stampPlatform(ev.id, ev.platform) \in [Pairs -> Row]
          BY <2>0, <3>a, <4>1, RowUpdates DEF stampPlatform
        <4> QED
          BY <3>7, <2>0, <4>1, <4>2, DeviceUpdates, CountUpdates DEF ApplyPlatform
      <3>8. CASE ApplyName(ev)
        <4>1. ev.id \in Identities /\ ev.name \in Names \cup {None}
          BY <3>8, <3>0, EmittedType DEF ApplyName, RunKinds, Event
        <4>2. stampName(ev.id, ev.name) \in [Pairs -> Row]
          BY <2>0, <3>a, <4>1, RowUpdates DEF stampName
        <4> QED
          BY <3>8, <2>0, <4>1, <4>2, DeviceUpdates, CountUpdates DEF ApplyName
      <3>9. CASE ApplyDeviceFail(ev)
        <4> DEFINE fallen == Running({p \in Pairs : p[1] = ev.id})
        <4>1. ev.id \in Identities
          BY <3>9, EmittedType DEF ApplyDeviceFail, RunKinds
        <4>2. rows' \in [Pairs -> Row]
          BY <3>9, <2>0, <3>a, RowUpdates DEF ApplyDeviceFail
        <4>3. tally' \in [States -> Int]
          <5>1. Cardinality(fallen) \in Nat
            BY RunningFinite
          <5> HIDE DEF fallen
          <5>2. tally' = [tally EXCEPT !["running"] = @ - Cardinality(fallen),
                                       !["failed"] = @ + Cardinality(fallen)]
            BY <3>9 DEF ApplyDeviceFail, fallen
          <5> QED BY <5>1, <5>2, <2>0 DEF States, Settled
        <4>4. counts' \in Counts
          <5> DEFINE n == IF devices[ev.id].failed THEN 0 ELSE 1
          <5>1. n \in Nat
            OBVIOUS
          <5> HIDE DEF n
          <5>2. counts' = [counts EXCEPT !.devices = @ + FirstSight(ev.id),
                                         !.devicesFailed = @ + n]
            BY <3>9 DEF ApplyDeviceFail, n
          <5> QED BY <5>1, <5>2, <4>1, CountUpdates
        <4> QED
          BY <3>9, <2>0, <4>1, <4>2, <4>3, <4>4, DeviceUpdates DEF ApplyDeviceFail
      <3>10. CASE ApplyCaptureStart(ev)
        <4> DEFINE p == <<ev.id, ev.type>>
        <4>1. ev.id \in Identities /\ p \in Pairs
          BY <3>10, EmittedType DEF ApplyCaptureStart, RunKinds, CaptureKinds, Pairs
        <4>2. [Opened(p) EXCEPT !.sent = TRUE, !.seq = seq + 1] \in Row
          BY <4>1, <3>a, OpenedType, RowUpdates
        <4>3. tally' \in [States -> Int]
          BY <3>10, <2>0 DEF ApplyCaptureStart, FirstRow, States
        <4> QED
          BY <3>10, <2>0, <4>1, <4>2, <4>3, DeviceUpdates, CountUpdates
             DEF ApplyCaptureStart
      <3>11. CASE ApplyTerminal(ev)
        <4> DEFINE p == <<ev.id, ev.type>>
                   s == Outcome(ev.kind)
        <4>1. ev.id \in Identities /\ p \in Pairs
          BY <3>11, EmittedType DEF ApplyTerminal, RunKinds, CaptureKinds, Pairs
        <4>2. s \in Settled
          BY <3>11 DEF ApplyTerminal, Outcome, CaptureKinds, Settled
        <4>3. Settle(Opened(p), s, ev) \in Row
          BY <4>1, <4>2, <3>0, OpenedType, SettleType
        <4>4. counts' \in Counts
          <5> DEFINE n == IF Opened(p).state = "running" /\ s = "stored"
                          THEN ev.bytes ELSE 0
          <5>1. n \in Nat
            <6>1. ev.bytes \in Sizes \/ ev.bytes = 0
              BY <3>0 DEF Event
            <6>2. ev.bytes \in Sizes => ev.bytes \in Nat
              BY SizesAssumption
            <6> QED BY <6>1, <6>2
          <5> HIDE DEF n
          <5>2. counts' = [counts EXCEPT !.devices = @ + FirstSight(ev.id),
                                         !.bytesStored = @ + n]
            BY <3>11 DEF ApplyTerminal, BytesGained, n
          <5> QED BY <5>1, <5>2, <4>1, CountUpdates
        <4>5. tally' \in [States -> Int]
          BY <3>11, <4>2, <2>0 DEF ApplyTerminal, FirstRow, States
        <4> QED
          BY <3>11, <2>0, <4>1, <4>3, <4>4, <4>5, DeviceUpdates DEF ApplyTerminal
      <3> QED
        BY <2>1, <3>4, <3>5, <3>6, <3>7, <3>8, <3>9, <3>10, <3>11 DEF Apply
    <2>2. CASE Finish
      <3>1. Cardinality(Running(Pairs)) \in Nat
        BY RunningFinite
      <3>2. rows' \in [Pairs -> Row]
        <4>1. PICK number \in [Running(Pairs) -> (seq + 1)..(seq + Cardinality(Running(Pairs)))] :
                rows' = [p \in Pairs |-> IF p \in Running(Pairs)
                                         THEN [rows[p] EXCEPT !.state = "failed", !.seq = number[p]]
                                         ELSE rows[p]]
          BY <2>2 DEF Finish
        <4>2. \A p \in Running(Pairs) : number[p] \in Nat
          BY <3>1, <2>0
        <4> QED
          BY <4>1, <4>2, <2>0, RowUpdates
      <3> DEFINE n == Cardinality(Running(Pairs))
      <3>3. /\ seq' = seq + n
            /\ tally' = [tally EXCEPT !["running"] = @ - n, !["failed"] = @ + n]
            /\ finished' = TRUE
            /\ UNCHANGED <<devices, notable, counts>>
        BY <2>2 DEF Finish
      <3> HIDE DEF n
      <3>4. n \in Nat
        BY <3>1 DEF n
      <3>5. tally' \in [States -> Int] /\ seq' \in Nat
        BY <3>3, <3>4, <2>0 DEF States, Settled
      <3> QED
        BY <3>2, <3>3, <3>5 DEF TypeOK
    <2>3. CASE UNCHANGED vars
      BY <2>3 DEF vars, TypeOK
    <2> QED
      BY <2>1, <2>2, <2>3 DEF Next
  <1> QED
    BY <1>1, <1>2, PTL DEF Spec

-----------------------------------------------------------------------------
(* The counters.                                                           *)

InState(r, s) == {p \in Pairs : r[p].state = s}

LEMMA PairsFinite == IsFiniteSet(Pairs)
BY FinitePairs, FS_Product DEF Pairs

LEMMA InStateFinite ==
  ASSUME NEW r, NEW s
  PROVE  IsFiniteSet(InState(r, s)) /\ Cardinality(InState(r, s)) \in Nat
  <1>1. InState(r, s) \in SUBSET Pairs
    BY DEF InState
  <1>2. IsFiniteSet(InState(r, s))
    BY <1>1, PairsFinite, FS_Subset
  <1> QED BY <1>2, FS_CardinalityType

Moves(r, q, M, a, b) ==
  /\ M \subseteq Pairs /\ a # b
  /\ \A p \in M : r[p].state = a /\ q[p].state = b
  /\ \A p \in Pairs \ M : q[p].state = r[p].state

\* When the rows of a set M go from state a to state b and no other row moves,
\* the population of a loses M, that of b gains it, the others keep theirs.
LEMMA MoveCount ==
  ASSUME NEW r, NEW q, NEW M, NEW a, NEW b, Moves(r, q, M, a, b)
  PROVE  /\ Cardinality(M) \in Nat
         /\ Cardinality(InState(q, a)) = Cardinality(InState(r, a)) - Cardinality(M)
         /\ Cardinality(InState(q, b)) = Cardinality(InState(r, b)) + Cardinality(M)
         /\ \A c : c # a /\ c # b => InState(q, c) = InState(r, c)
  <1>1. IsFiniteSet(M) /\ Cardinality(M) \in Nat
    BY PairsFinite, FS_Subset, FS_CardinalityType DEF Moves
  <1>2. /\ IsFiniteSet(InState(q, a)) /\ Cardinality(InState(q, a)) \in Nat
        /\ IsFiniteSet(InState(r, b)) /\ Cardinality(InState(r, b)) \in Nat
    BY InStateFinite
  <1>3. InState(r, a) = InState(q, a) \cup M /\ InState(q, a) \cap M = {}
    BY DEF InState, Moves
  <1>4. InState(q, b) = InState(r, b) \cup M /\ InState(r, b) \cap M = {}
    BY DEF InState, Moves
  <1>5. Cardinality(InState(r, a)) = Cardinality(InState(q, a)) + Cardinality(M)
    <2>1. Cardinality(InState(q, a) \cup M)
            = Cardinality(InState(q, a)) + Cardinality(M) - Cardinality(InState(q, a) \cap M)
      BY <1>1, <1>2, FS_Union
    <2>2. Cardinality(InState(q, a) \cap M) = 0
      BY <1>3, FS_EmptySet
    <2> QED BY <2>1, <2>2, <1>1, <1>2, <1>3
  <1>6. Cardinality(InState(q, b)) = Cardinality(InState(r, b)) + Cardinality(M)
    <2>1. Cardinality(InState(r, b) \cup M)
            = Cardinality(InState(r, b)) + Cardinality(M) - Cardinality(InState(r, b) \cap M)
      BY <1>1, <1>2, FS_Union
    <2>2. Cardinality(InState(r, b) \cap M) = 0
      BY <1>4, FS_EmptySet
    <2> QED BY <2>1, <2>2, <1>1, <1>2, <1>4
  <1>7. \A c : c # a /\ c # b => InState(q, c) = InState(r, c)
    BY DEF InState, Moves
  <1> QED BY <1>1, <1>2, <1>5, <1>6, <1>7

Populations(r, t) == \A s \in States : t[s] = Cardinality(InState(r, s))

\* A step that moves M from one state to another and books it keeps the books.
LEMMA MoveBooked ==
  ASSUME NEW r, NEW q, NEW t \in [States -> Int], NEW u,
         NEW M, NEW a \in States, NEW b \in States,
         Populations(r, t), Moves(r, q, M, a, b),
         u = [t EXCEPT ![a] = @ - Cardinality(M), ![b] = @ + Cardinality(M)]
  PROVE  Populations(q, u)
  <1>1. /\ Cardinality(M) \in Nat
        /\ Cardinality(InState(q, a)) = Cardinality(InState(r, a)) - Cardinality(M)
        /\ Cardinality(InState(q, b)) = Cardinality(InState(r, b)) + Cardinality(M)
        /\ \A c : c # a /\ c # b => InState(q, c) = InState(r, c)
    BY MoveCount
  <1>2. SUFFICES ASSUME NEW s \in States
                 PROVE  u[s] = Cardinality(InState(q, s))
    BY DEF Populations
  <1>3. CASE s = a
    BY <1>1, <1>3 DEF Populations
  <1>4. CASE s = b
    BY <1>1, <1>4 DEF Populations
  <1>5. CASE s # a /\ s # b
    BY <1>1, <1>5 DEF Populations
  <1> QED BY <1>3, <1>4, <1>5

\* A row that appears in state b adds one to b.
LEMMA OpenBooked ==
  ASSUME NEW r, NEW q, NEW t \in [States -> Int], NEW u,
         NEW p \in Pairs, NEW b \in States,
         Populations(r, t),
         r[p].state = "absent", q[p].state = b,
         \A x \in Pairs \ {p} : q[x].state = r[x].state,
         u = [t EXCEPT ![b] = @ + 1]
  PROVE  Populations(q, u)
  <1>0. "absent" \notin States
    BY DEF States, Settled
  <1>1. /\ Cardinality(InState(q, b)) = Cardinality(InState(r, b)) + Cardinality({p})
        /\ \A c : c # "absent" /\ c # b => InState(q, c) = InState(r, c)
    <2>1. Moves(r, q, {p}, "absent", b)
      BY <1>0 DEF Moves
    <2> QED BY <2>1, MoveCount
  <1>2. Cardinality({p}) = 1
    BY FS_Singleton
  <1>3. SUFFICES ASSUME NEW s \in States
                 PROVE  u[s] = Cardinality(InState(q, s))
    BY DEF Populations
  <1>4. CASE s = b
    BY <1>1, <1>2, <1>4 DEF Populations
  <1>5. CASE s # b
    BY <1>0, <1>1, <1>5 DEF Populations
  <1> QED BY <1>4, <1>5

LEMMA StillBooked ==
  ASSUME NEW r, NEW q, NEW t, NEW u, Populations(r, t), u = t,
         \A p \in Pairs : q[p].state = r[p].state
  PROVE  Populations(q, u)
  <1>1. \A s : InState(q, s) = InState(r, s)
    BY DEF InState
  <1> QED BY <1>1 DEF Populations

\* A fact that is stamped on a row moves nothing else of it.
LEMMA Stamped ==
  ASSUME rows \in [Pairs -> Row], NEW ev, ApplyPlatform(ev) \/ ApplyName(ev), NEW p \in Pairs
  PROVE  /\ rows'[p].state = rows[p].state /\ rows'[p].bytes = rows[p].bytes
         /\ rows'[p] = rows[p] \/ rows'[p].seq = seq + 1
  <1>1. rows[p] \in Row
    OBVIOUS
  <1>2. \/ rows' = rows
        \/ rows' = stampPlatform(ev.id, ev.platform)
        \/ rows' = stampName(ev.id, ev.name)
    BY DEF ApplyPlatform, ApplyName
  <1>3. \/ rows'[p] = rows[p]
        \/ rows'[p] = [rows[p] EXCEPT !.platform = ev.platform, !.seq = seq + 1]
        \/ rows'[p] = [rows[p] EXCEPT !.name = ev.name, !.seq = seq + 1]
    BY <1>2 DEF stampPlatform, stampName
  <1> QED BY <1>1, <1>3 DEF Row

\* The counters agree with the table after any sequence of events.
THEOREM TallyCorrect == Spec => []TallyAgrees
  <1>1. Init => Populations(rows, tally)
    <2> SUFFICES ASSUME Init, NEW s \in States
                 PROVE  tally[s] = Cardinality(InState(rows, s))
      BY DEF Populations
    <2>1. InState(rows, s) = {}
      BY DEF Init, InState, NoRow, States, Settled
    <2> QED BY <2>1, FS_EmptySet DEF Init
  <1>2. TypeOK /\ Populations(rows, tally) /\ [Next]_vars => Populations(rows, tally)'
    <2> SUFFICES ASSUME TypeOK, Populations(rows, tally), [Next]_vars
                 PROVE  Populations(rows', tally')
      OBVIOUS
    <2>0. rows \in [Pairs -> Row] /\ tally \in [States -> Int]
      BY DEF TypeOK
    <2>1. ASSUME NEW ev \in Emitted, Apply(ev) PROVE Populations(rows', tally')
      <3>1. CASE ApplyRunWide(ev) \/ ApplyAnonymous(ev) \/ ApplyDevice(ev)
        <4>1. rows' = rows /\ tally' = tally
          BY <3>1 DEF ApplyRunWide, ApplyAnonymous, ApplyDevice
        <4> QED BY <4>1, StillBooked
      <3>2. CASE ApplyPlatform(ev)
        <4>1. tally' = tally /\ \A p \in Pairs : rows'[p].state = rows[p].state
          BY <3>2, <2>0, Stamped DEF ApplyPlatform
        <4> QED BY <4>1, StillBooked
      <3>3. CASE ApplyName(ev)
        <4>1. tally' = tally /\ \A p \in Pairs : rows'[p].state = rows[p].state
          BY <3>3, <2>0, Stamped DEF ApplyName
        <4> QED BY <4>1, StillBooked
      <3>4. CASE ApplyDeviceFail(ev)
        <4> DEFINE fallen == Running({p \in Pairs : p[1] = ev.id})
        <4>1. fallen \in SUBSET Pairs
          BY DEF Running
        <4>2. \A p \in fallen : rows[p].state = "running" /\ rows'[p].state = "failed"
          BY <3>4, <2>0 DEF ApplyDeviceFail, Running, Row
        <4>3. \A p \in Pairs \ fallen : rows'[p].state = rows[p].state
          BY <3>4, <2>0 DEF ApplyDeviceFail
        <4>4. tally' = [tally EXCEPT !["running"] = @ - Cardinality(fallen),
                                     !["failed"] = @ + Cardinality(fallen)]
          BY <3>4 DEF ApplyDeviceFail
        <4>5. "running" \in States /\ "failed" \in States /\ "running" # "failed"
          BY DEF States, Settled
        <4> HIDE DEF fallen
        <4>6. Moves(rows, rows', fallen, "running", "failed")
          BY <4>1, <4>2, <4>3, <4>5 DEF Moves
        <4> QED BY <4>4, <4>5, <4>6, <2>0, MoveBooked
      <3>5. CASE ApplyCaptureStart(ev)
        <4> DEFINE p == <<ev.id, ev.type>>
        <4>1. p \in Pairs
          BY <3>5, EmittedType DEF ApplyCaptureStart, RunKinds, CaptureKinds, Pairs
        <4> HIDE DEF p
        <4>2. /\ rows' = [rows EXCEPT ![p] = [Opened(p) EXCEPT !.sent = TRUE, !.seq = seq + 1]]
              /\ tally' = [tally EXCEPT !["running"] = @ + FirstRow(p)]
          BY <3>5 DEF ApplyCaptureStart, p
        <4>3. Opened(p) \in Row
          BY <4>1, OpenedType
        <4>4. rows'[p].state = Opened(p).state
          BY <4>1, <4>2, <4>3, <2>0 DEF Row
        <4>5. \A q \in Pairs \ {p} : rows'[q].state = rows[q].state
          BY <4>2, <2>0
        <4>6. CASE rows[p].state = "absent"
          <5>1. rows'[p].state = "running"
            BY <4>4, <4>6 DEF Opened, NoRow
          <5>2. tally' = [tally EXCEPT !["running"] = @ + 1]
            BY <4>2, <4>6 DEF FirstRow
          <5> QED BY <4>1, <4>5, <4>6, <5>1, <5>2, <2>0, OpenBooked DEF States
        <4>7. CASE rows[p].state # "absent"
          <5>1. rows'[p].state = rows[p].state
            BY <4>4, <4>7 DEF Opened
          <5>2. tally' = tally
            BY <4>2, <4>7, <2>0 DEF FirstRow, States
          <5>3. \A q \in Pairs : rows'[q].state = rows[q].state
            BY <5>1, <4>5
          <5> QED BY <5>2, <5>3, StillBooked
        <4> QED BY <4>6, <4>7
      <3>6. CASE ApplyTerminal(ev)
        <4> DEFINE p == <<ev.id, ev.type>>
                   s == Outcome(ev.kind)
        <4>1. p \in Pairs
          BY <3>6, EmittedType DEF ApplyTerminal, RunKinds, CaptureKinds, Pairs
        <4>2. s \in Settled
          BY <3>6 DEF ApplyTerminal, Outcome, CaptureKinds, Settled
        <4>3. /\ rows' = [rows EXCEPT ![p] = Settle(Opened(p), s, ev)]
              /\ tally' = IF Opened(p).state = "running"
                          THEN [tally EXCEPT !["running"] = @ + FirstRow(p) - 1, ![s] = @ + 1]
                          ELSE tally
          BY <3>6 DEF ApplyTerminal
        <4> HIDE DEF p, s
        <4>4. Opened(p) \in Row
          BY <4>1, OpenedType
        <4>5. \A q \in Pairs \ {p} : rows'[q].state = rows[q].state
          BY <4>3, <2>0
        <4>6. rows'[p] = Settle(Opened(p), s, ev)
          BY <4>1, <4>3, <2>0
        <4>7. s \in States /\ s # "running" /\ "running" \in States
          BY <4>2 DEF States, Settled
        <4>8. CASE rows[p].state = "absent"
          <5>1. Opened(p).state = "running"
            BY <4>8 DEF Opened, NoRow
          <5>2. rows'[p].state = s
            BY <5>1, <4>4, <4>6 DEF Settle, Row
          <5>3. tally' = [tally EXCEPT ![s] = @ + 1]
            <6>1. FirstRow(p) = 1
              BY <4>8 DEF FirstRow
            <6>2. tally' = [tally EXCEPT !["running"] = @ + FirstRow(p) - 1, ![s] = @ + 1]
              BY <4>3, <5>1
            <6>3. tally["running"] + FirstRow(p) - 1 = tally["running"]
              BY <6>1, <4>7, <2>0
            <6> QED BY <6>2, <6>3, <4>7, <2>0
          <5> QED BY <4>1, <4>5, <4>7, <4>8, <5>2, <5>3, <2>0, OpenBooked
        <4>9. CASE rows[p].state = "running"
          <5>1. Opened(p).state = "running"
            BY <4>9 DEF Opened
          <5>2. rows'[p].state = s
            BY <5>1, <4>4, <4>6 DEF Settle, Row
          <5>3. Cardinality({p}) = 1
            BY FS_Singleton
          <5>4. tally' = [tally EXCEPT !["running"] = @ - Cardinality({p}),
                                       ![s] = @ + Cardinality({p})]
            <6>1. FirstRow(p) = 0
              BY <4>9 DEF FirstRow
            <6>2. tally' = [tally EXCEPT !["running"] = @ + FirstRow(p) - 1, ![s] = @ + 1]
              BY <4>3, <5>1
            <6>3. tally["running"] + FirstRow(p) - 1 = tally["running"] - Cardinality({p})
              BY <6>1, <5>3, <4>7, <2>0
            <6> QED BY <6>2, <6>3, <5>3, <4>7, <2>0
          <5>5. Moves(rows, rows', {p}, "running", s)
            BY <4>1, <4>5, <4>7, <4>9, <5>2 DEF Moves
          <5> QED BY <4>7, <5>4, <5>5, <2>0, MoveBooked
        <4>10. CASE rows[p].state \notin {"absent", "running"}
          <5>1. Opened(p) = rows[p]
            BY <4>10 DEF Opened
          <5>2. rows'[p].state = rows[p].state
            BY <5>1, <4>6, <4>10 DEF Settle
          <5>3. tally' = tally
            BY <5>1, <4>3, <4>10
          <5>4. \A q \in Pairs : rows'[q].state = rows[q].state
            BY <5>2, <4>5
          <5> QED BY <5>3, <5>4, StillBooked
        <4> QED BY <4>8, <4>9, <4>10
      <3> QED
        BY <2>1, <3>1, <3>2, <3>3, <3>4, <3>5, <3>6 DEF Apply
    <2>2. CASE Finish
      <3>1. PICK number : rows' = [p \in Pairs |-> IF p \in Running(Pairs)
                                         THEN [rows[p] EXCEPT !.state = "failed", !.seq = number[p]]
                                         ELSE rows[p]]
        BY <2>2 DEF Finish
      <3>2. tally' = [tally EXCEPT !["running"] = @ - Cardinality(Running(Pairs)),
                                   !["failed"] = @ + Cardinality(Running(Pairs))]
        BY <2>2 DEF Finish
      <3>3. Running(Pairs) \in SUBSET Pairs
        BY DEF Running
      <3>4. \A p \in Running(Pairs) : rows[p].state = "running" /\ rows'[p].state = "failed"
        BY <3>1, <2>0 DEF Running, Row
      <3>5. \A p \in Pairs \ Running(Pairs) : rows'[p].state = rows[p].state
        BY <3>1, <2>0
      <3>6. "running" \in States /\ "failed" \in States /\ "running" # "failed"
        BY DEF States, Settled
      <3>7. Moves(rows, rows', Running(Pairs), "running", "failed")
        BY <3>3, <3>4, <3>5, <3>6 DEF Moves
      <3> QED BY <3>2, <3>6, <3>7, <2>0, MoveBooked
    <2>3. CASE UNCHANGED vars
      BY <2>3 DEF vars
    <2> QED
      BY <2>1, <2>2, <2>3 DEF Next
  <1>3. Populations(rows, tally) => TallyAgrees
    BY DEF Populations, InState, TallyAgrees
  <1> QED
    BY <1>1, <1>2, <1>3, TypeCorrect, PTL DEF Spec


-----------------------------------------------------------------------------
(* Rows and devices.                                                       *)


LEMMA SeenKeeps ==
  ASSUME TypeOK, NEW i \in Identities
  PROVE  Seen(i).name = devices[i].name /\ Seen(i).platform = devices[i].platform
BY DEF TypeOK, Device, Seen

\* The agreement of one row with its device's record.
Agrees(p) ==
  rows[p].state # "absent" =>
    /\ rows[p].name = devices[p[1]].name
    /\ rows[p].platform = devices[p[1]].platform

\* A row keeps its device's facts when both are left alone, when the row moves
\* in its other fields, or when it is opened with them.
LEMMA FactsCarried ==
  ASSUME NEW p \in Pairs, Agrees(p),
         devices'[p[1]].name = devices[p[1]].name,
         devices'[p[1]].platform = devices[p[1]].platform,
         \/ rows'[p].name = rows[p].name /\ rows'[p].platform = rows[p].platform
            /\ (rows'[p].state # "absent" => rows[p].state # "absent")
         \/ rows'[p].name = devices[p[1]].name /\ rows'[p].platform = devices[p[1]].platform
  PROVE  Agrees(p)'
BY DEF Agrees

LEMMA OpenedAgrees ==
  ASSUME TypeOK, NEW p \in Pairs, Agrees(p)
  PROVE  /\ Opened(p).name = devices[p[1]].name
         /\ Opened(p).platform = devices[p[1]].platform
         /\ Opened(p).state # "absent"
BY DEF Opened, Agrees, NoRow, TypeOK, Row

LEMMA SettleKeeps ==
  ASSUME TypeOK, NEW row \in Row, NEW s, NEW ev
  PROVE  Settle(row, s, ev).name = row.name /\ Settle(row, s, ev).platform = row.platform
BY DEF Settle, Row

\* A device's record when only its being seen or its failure is noted.
LEMMA RecordsKept ==
  ASSUME TypeOK, NEW ev \in Emitted,
         ApplyDevice(ev) \/ ApplyDeviceFail(ev) \/ ApplyCaptureStart(ev) \/ ApplyTerminal(ev)
  PROVE  /\ ev.id \in Identities
         /\ \A i \in Identities : /\ devices'[i].name = devices[i].name
                                  /\ devices'[i].platform = devices[i].platform
  <1>1. ev.id \in Identities
    BY EmittedType DEF ApplyDevice, ApplyDeviceFail, ApplyCaptureStart, ApplyTerminal,
                       RunKinds, CaptureKinds
  <1>2. devices \in [Identities -> Device]
    BY DEF TypeOK
  <1>3. \/ devices' = [devices EXCEPT ![ev.id] = Seen(ev.id)]
        \/ devices' = [devices EXCEPT ![ev.id] = [Seen(ev.id) EXCEPT !.failed = TRUE]]
    BY DEF ApplyDevice, ApplyDeviceFail, ApplyCaptureStart, ApplyTerminal
  <1>4. Seen(ev.id) \in Device
    BY <1>1, DeviceUpdates
  <1>5. Seen(ev.id).name = devices[ev.id].name /\ Seen(ev.id).platform = devices[ev.id].platform
    BY <1>1, SeenKeeps
  <1> QED BY <1>1, <1>2, <1>3, <1>4, <1>5 DEF Device

\* A row and its device's record agree, whichever came first.
THEOREM FactsCorrect == Spec => []FactsAgree
  <1>1. Init => FactsAgree
    BY DEF Init, FactsAgree, NoRow
  <1>2. TypeOK /\ FactsAgree /\ [Next]_vars => FactsAgree'
    <2> SUFFICES ASSUME TypeOK, FactsAgree, [Next]_vars, NEW p \in Pairs
                 PROVE  Agrees(p)'
      BY DEF FactsAgree, Agrees
    <2>0. /\ rows \in [Pairs -> Row] /\ devices \in [Identities -> Device]
          /\ \A q \in Pairs : Agrees(q)
          /\ p[1] \in Identities
      BY DEF TypeOK, FactsAgree, Agrees, Pairs
    <2>1. ASSUME NEW ev \in Emitted, Apply(ev) PROVE Agrees(p)'
      <3>1. CASE ApplyRunWide(ev) \/ ApplyAnonymous(ev)
        BY <3>1, <2>0 DEF ApplyRunWide, ApplyAnonymous, Agrees
      <3>2. CASE ApplyDevice(ev)
        <4>1. rows' = rows
          BY <3>2 DEF ApplyDevice
        <4> QED BY <3>2, <4>1, <2>0, RecordsKept, FactsCarried
      <3>3. CASE ApplyPlatform(ev)
        <4>1. ev.id \in Identities /\ ev.platform \in Platforms
          BY <3>3, EmittedType DEF ApplyPlatform, RunKinds
        <4>2. Seen(ev.id) \in Device
          BY <4>1, DeviceUpdates
        <4>3. \A i \in Identities :
                devices'[i] = IF i = ev.id THEN [Seen(i) EXCEPT !.platform = ev.platform]
                                           ELSE devices[i]
          BY <3>3, <2>0 DEF ApplyPlatform
        <4>4. rows'[p] = IF HasRow(ev.id, p)
                         THEN [rows[p] EXCEPT !.platform = ev.platform, !.seq = seq + 1]
                         ELSE rows[p]
          BY <3>3 DEF ApplyPlatform, stampPlatform
        <4>5. Seen(p[1]).name = devices[p[1]].name
          BY <2>0, SeenKeeps
        <4>6. CASE p[1] = ev.id
          <5>1. /\ devices'[p[1]].name = devices[p[1]].name
                /\ devices'[p[1]].platform = ev.platform
            BY <4>2, <4>3, <4>5, <4>6, <2>0 DEF Device
          <5>2. rows[p].state = "absent" => rows'[p] = rows[p]
            BY <4>4 DEF HasRow
          <5>3. rows[p].state # "absent" =>
                  rows'[p].name = rows[p].name /\ rows'[p].platform = ev.platform
            BY <4>4, <4>6, <2>0 DEF HasRow, Row
          <5> QED BY <5>1, <5>2, <5>3, <2>0 DEF Agrees
        <4>7. CASE p[1] # ev.id
          BY <4>3, <4>4, <4>7, <2>0 DEF HasRow, Agrees
        <4> QED BY <4>6, <4>7
      <3>4. CASE ApplyName(ev) /\ ev.name # None
        <4>1. ev.id \in Identities
          BY <3>4, EmittedType DEF ApplyName, RunKinds
        <4>2. Seen(ev.id) \in Device
          BY <4>1, DeviceUpdates
        <4>3. \A i \in Identities :
                devices'[i] = IF i = ev.id THEN [Seen(i) EXCEPT !.name = ev.name]
                                           ELSE devices[i]
          BY <3>4, <2>0 DEF ApplyName
        <4>4. rows'[p] = IF HasRow(ev.id, p)
                         THEN [rows[p] EXCEPT !.name = ev.name, !.seq = seq + 1]
                         ELSE rows[p]
          BY <3>4 DEF ApplyName, stampName
        <4>5. Seen(p[1]).platform = devices[p[1]].platform
          BY <2>0, SeenKeeps
        <4>6. CASE p[1] = ev.id
          <5>1. /\ devices'[p[1]].platform = devices[p[1]].platform
                /\ devices'[p[1]].name = ev.name
            BY <4>2, <4>3, <4>5, <4>6, <2>0 DEF Device
          <5>2. rows[p].state = "absent" => rows'[p] = rows[p]
            BY <4>4 DEF HasRow
          <5>3. rows[p].state # "absent" =>
                  rows'[p].platform = rows[p].platform /\ rows'[p].name = ev.name
            BY <4>4, <4>6, <2>0 DEF HasRow, Row
          <5> QED BY <5>1, <5>2, <5>3, <2>0 DEF Agrees
        <4>7. CASE p[1] # ev.id
          BY <4>3, <4>4, <4>7, <2>0 DEF HasRow, Agrees
        <4> QED BY <4>6, <4>7
      <3>5. CASE ApplyName(ev) /\ ev.name = None
        <4>1. rows' = rows /\ devices' = [devices EXCEPT ![ev.id] = Seen(ev.id)]
          BY <3>5 DEF ApplyName
        <4>2. /\ devices'[p[1]].name = devices[p[1]].name
              /\ devices'[p[1]].platform = devices[p[1]].platform
          BY <4>1, <2>0, SeenKeeps
        <4> QED BY <4>1, <4>2, <2>0, FactsCarried
      <3>6. CASE ApplyDeviceFail(ev)
        <4>1. rows'[p] = rows[p] \/ rows'[p] = [rows[p] EXCEPT !.state = "failed", !.seq = seq + 1]
          BY <3>6 DEF ApplyDeviceFail
        <4>2. rows'[p] # rows[p] => rows[p].state = "running"
          BY <3>6 DEF ApplyDeviceFail, Running
        <4>3. rows'[p].name = rows[p].name /\ rows'[p].platform = rows[p].platform
          BY <4>1, <2>0 DEF Row
        <4> QED BY <3>6, <4>2, <4>3, <2>0, RecordsKept DEF Agrees
      <3>7. CASE ApplyCaptureStart(ev)
        <4>1. \/ rows'[p] = rows[p]
              \/ rows'[p] = [Opened(p) EXCEPT !.sent = TRUE, !.seq = seq + 1]
          BY <3>7, <2>0 DEF ApplyCaptureStart
        <4>2. \/ rows'[p] = rows[p]
              \/ rows'[p].name = devices[p[1]].name /\ rows'[p].platform = devices[p[1]].platform
          BY <4>1, <2>0, OpenedType, OpenedAgrees DEF Row
        <4> QED BY <3>7, <4>2, <2>0, RecordsKept, FactsCarried
      <3>8. CASE ApplyTerminal(ev)
        <4>1. \/ rows'[p] = rows[p]
              \/ rows'[p] = Settle(Opened(p), Outcome(ev.kind), ev)
          BY <3>8, <2>0 DEF ApplyTerminal
        <4>2. \/ rows'[p] = rows[p]
              \/ rows'[p].name = devices[p[1]].name /\ rows'[p].platform = devices[p[1]].platform
          BY <4>1, <2>0, OpenedType, OpenedAgrees, SettleKeeps
        <4> QED BY <3>8, <4>2, <2>0, RecordsKept, FactsCarried
      <3> QED
        BY <2>1, <3>1, <3>2, <3>3, <3>4, <3>5, <3>6, <3>7, <3>8 DEF Apply
    <2>2. CASE Finish
      <3>1. PICK number : rows' = [q \in Pairs |-> IF q \in Running(Pairs)
                                         THEN [rows[q] EXCEPT !.state = "failed", !.seq = number[q]]
                                         ELSE rows[q]]
        BY <2>2 DEF Finish
      <3>2. devices' = devices
        BY <2>2 DEF Finish
      <3>3. rows'[p].name = rows[p].name /\ rows'[p].platform = rows[p].platform
        BY <3>1, <2>0 DEF Row
      <3>4. rows'[p] # rows[p] => rows[p].state = "running"
        BY <3>1 DEF Running
      <3> QED BY <3>2, <3>3, <3>4, <2>0 DEF Agrees
    <2>3. CASE UNCHANGED vars
      BY <2>3, <2>0 DEF vars, Agrees
    <2> QED BY <2>1, <2>2, <2>3 DEF Next
  <1> QED BY <1>1, <1>2, TypeCorrect, PTL DEF Spec

-----------------------------------------------------------------------------
(* The bytes.                                                              *)

StoredRows(r) == {q \in Pairs : r[q].state = "stored"}
BytesOf(r) == UNION {{p} \X (1..r[p].bytes) : p \in StoredRows(r)}

\* As long as the same rows are stored, with the same sizes, so are the bytes.
LEMMA BytesStill ==
  ASSUME NEW r, NEW q,
         \A p \in Pairs : (r[p].state = "stored" \/ q[p].state = "stored")
                            => r[p].state = q[p].state /\ r[p].bytes = q[p].bytes
  PROVE  BytesOf(q) = BytesOf(r)
  <1>1. StoredRows(q) = StoredRows(r) /\ \A p \in StoredRows(r) : r[p].bytes = q[p].bytes
    BY DEF StoredRows
  <1> QED BY <1>1 DEF BytesOf

\* A row that is stored brings its bytes, and no other row has them.
LEMMA BytesGrow ==
  ASSUME NEW r, NEW q, NEW p \in Pairs, NEW b \in Nat,
         IsFiniteSet(BytesOf(r)),
         r[p].state # "stored", q[p].state = "stored", q[p].bytes = b,
         \A x \in Pairs \ {p} : q[x] = r[x]
  PROVE  /\ IsFiniteSet(BytesOf(q))
         /\ Cardinality(BytesOf(q)) = Cardinality(BytesOf(r)) + b
  <1> DEFINE more == {p} \X (1..b)
  <1>1. IsFiniteSet(more) /\ Cardinality(more) = b
    <2>1. IsFiniteSet({p}) /\ Cardinality({p}) = 1
      BY FS_Singleton
    <2>2. IsFiniteSet(1..b) /\ Cardinality(1..b) = b
      BY FS_Interval
    <2>3. /\ IsFiniteSet({p} \X (1..b))
          /\ Cardinality({p} \X (1..b)) = Cardinality({p}) * Cardinality(1..b)
      BY <2>1, <2>2, FS_Product, Zenon
    <2>4. 1 * b = b
      OBVIOUS
    <2> QED BY <2>1, <2>2, <2>3, <2>4, Zenon
  <1>2. BytesOf(q) = BytesOf(r) \cup more
    <2>1. StoredRows(q) = StoredRows(r) \cup {p} /\ p \notin StoredRows(r)
      BY DEF StoredRows
    <2>2. \A x \in StoredRows(r) : q[x] = r[x]
      BY <2>1 DEF StoredRows
    <2> QED BY <2>1, <2>2 DEF BytesOf
  <1>3. BytesOf(r) \cap more = {}
    BY DEF BytesOf, StoredRows
  <1> HIDE DEF more
  <1>4. IsFiniteSet(BytesOf(r) \cup more)
        /\ Cardinality(BytesOf(r) \cup more)
             = Cardinality(BytesOf(r)) + Cardinality(more) - Cardinality(BytesOf(r) \cap more)
    BY <1>1, FS_Union
  <1>5. Cardinality(BytesOf(r) \cap more) = 0 /\ Cardinality(BytesOf(r)) \in Nat
    BY <1>3, FS_EmptySet, FS_CardinalityType
  <1> QED BY <1>1, <1>2, <1>4, <1>5

BytesBooked == IsFiniteSet(BytesOf(rows)) /\ counts.bytesStored = Cardinality(BytesOf(rows))

LEMMA BytesBookedStill ==
  ASSUME BytesBooked, counts'.bytesStored = counts.bytesStored,
         \A p \in Pairs : (rows[p].state = "stored" \/ rows'[p].state = "stored")
                            => rows[p].state = rows'[p].state /\ rows[p].bytes = rows'[p].bytes
  PROVE  BytesBooked'
  <1>1. BytesOf(rows') = BytesOf(rows)
    BY BytesStill
  <1> QED BY <1>1 DEF BytesBooked

\* Only a row that goes out of running into stored adds to the bytes stored, its
\* own and once; with that, the rows say what the devices and the summary say.
THEOREM RowsCorrect == Spec => []RowsAgree
  <1>1. Init => BytesBooked
    <2> SUFFICES ASSUME Init PROVE BytesBooked
      OBVIOUS
    <2>1. StoredRows(rows) = {}
      BY DEF Init, StoredRows, NoRow
    <2>2. BytesOf(rows) = {}
      BY <2>1 DEF BytesOf
    <2> QED BY <2>2, FS_EmptySet DEF Init, BytesBooked
  <1>2. TypeOK /\ BytesBooked /\ [Next]_vars => BytesBooked'
    <2> SUFFICES ASSUME TypeOK, BytesBooked, [Next]_vars PROVE BytesBooked'
      OBVIOUS
    <2>0. rows \in [Pairs -> Row] /\ counts \in Counts /\ devices \in [Identities -> Device]
      BY DEF TypeOK
    <2>1. ASSUME NEW ev \in Emitted, Apply(ev) PROVE BytesBooked'
      <3>1. CASE ApplyRunWide(ev) \/ ApplyAnonymous(ev) \/ ApplyDevice(ev)
        <4>1. rows' = rows /\ counts'.bytesStored = counts.bytesStored
          BY <3>1, <2>0 DEF ApplyRunWide, ApplyAnonymous, ApplyDevice, Counts
        <4> QED BY <4>1, BytesBookedStill
      <3>2. CASE ApplyPlatform(ev)
        <4>1. counts'.bytesStored = counts.bytesStored
          BY <3>2, <2>0 DEF ApplyPlatform, Counts
        <4>2. \A p \in Pairs : rows'[p].state = rows[p].state /\ rows'[p].bytes = rows[p].bytes
          BY <3>2, <2>0, Stamped DEF ApplyPlatform
        <4> QED BY <4>1, <4>2, BytesBookedStill
      <3>3. CASE ApplyName(ev)
        <4>1. counts'.bytesStored = counts.bytesStored
          BY <3>3, <2>0 DEF ApplyName, Counts
        <4>2. \A p \in Pairs : rows'[p].state = rows[p].state /\ rows'[p].bytes = rows[p].bytes
          BY <3>3, <2>0, Stamped
        <4> QED BY <4>1, <4>2, BytesBookedStill
      <3>4. CASE ApplyDeviceFail(ev)
        <4>1. counts'.bytesStored = counts.bytesStored
          BY <3>4, <2>0 DEF ApplyDeviceFail, Counts
        <4>2. ASSUME NEW p \in Pairs
              PROVE  \/ rows'[p] = rows[p]
                     \/ rows[p].state = "running" /\ rows'[p].state = "failed"
          BY <3>4, <2>0 DEF ApplyDeviceFail, Running, Row
        <4> QED BY <4>1, <4>2, BytesBookedStill
      <3>5. CASE ApplyCaptureStart(ev)
        <4>1. counts'.bytesStored = counts.bytesStored
          BY <3>5, <2>0 DEF ApplyCaptureStart, Counts
        <4>2. ASSUME NEW p \in Pairs
              PROVE  \/ rows'[p].state = rows[p].state /\ rows'[p].bytes = rows[p].bytes
                     \/ rows[p].state = "absent" /\ rows'[p].state = "running"
          <5>1. \/ rows'[p] = rows[p]
                \/ rows'[p] = [Opened(p) EXCEPT !.sent = TRUE, !.seq = seq + 1]
            BY <3>5, <2>0 DEF ApplyCaptureStart
          <5>2. Opened(p) \in Row
                /\ (Opened(p) = rows[p] \/ (rows[p].state = "absent" /\ Opened(p).state = "running"))
            BY OpenedType DEF Opened, NoRow
          <5> QED BY <5>1, <5>2, <2>0 DEF Row
        <4> QED BY <4>1, <4>2, BytesBookedStill
      <3>6. CASE ApplyTerminal(ev)
        <4> DEFINE p == <<ev.id, ev.type>>
                   s == Outcome(ev.kind)
        <4>1. p \in Pairs
          BY <3>6, EmittedType DEF ApplyTerminal, RunKinds, CaptureKinds, Pairs
        <4>2. s \in Settled /\ (s = "stored" => ev.bytes \in Nat)
          <5>1. ev.kind \in CaptureKinds \ {"capture-start"}
            BY <3>6 DEF ApplyTerminal
          <5>2. s = "stored" => ev.kind = "stored"
            BY <5>1 DEF Outcome, CaptureKinds
          <5> QED BY <5>1, <5>2, EmittedType, SizesAssumption DEF Outcome, CaptureKinds, Settled
        <4>3. /\ rows' = [rows EXCEPT ![p] = Settle(Opened(p), s, ev)]
              /\ counts' = [counts EXCEPT !.devices = @ + FirstSight(ev.id),
                                          !.bytesStored = @ + BytesGained(p, s, ev)]
          BY <3>6 DEF ApplyTerminal
        <4> HIDE DEF p, s
        <4>4. /\ rows'[p] = Settle(Opened(p), s, ev)
              /\ \A x \in Pairs \ {p} : rows'[x] = rows[x]
              /\ counts'.bytesStored = counts.bytesStored + BytesGained(p, s, ev)
          BY <4>1, <4>3, <2>0 DEF Counts
        <4>5. Opened(p) \in Row
              /\ (Opened(p) = rows[p] \/ (rows[p].state = "absent" /\ Opened(p).state = "running"))
          BY <4>1, OpenedType DEF Opened, NoRow
        <4>6. counts.bytesStored \in Nat
          BY <2>0 DEF Counts
        <4>7. CASE Opened(p).state = "running" /\ s = "stored"
          <5>1. rows'[p].state = "stored" /\ rows'[p].bytes = ev.bytes
            BY <4>4, <4>5, <4>7 DEF Settle, Row
          <5>2. rows[p].state # "stored"
            BY <4>5, <4>7
          <5>3. counts'.bytesStored = counts.bytesStored + ev.bytes
            BY <4>4, <4>7 DEF BytesGained
          <5> QED BY <4>1, <4>2, <4>4, <4>7, <5>1, <5>2, <5>3, BytesGrow DEF BytesBooked
        <4>8. CASE ~(Opened(p).state = "running" /\ s = "stored")
          <5>1. counts'.bytesStored = counts.bytesStored
            BY <4>4, <4>6, <4>8 DEF BytesGained
          <5>2. CASE Opened(p).state = "running"
            <6>1. rows'[p].state = s /\ s # "stored"
              BY <4>4, <4>5, <4>8, <5>2 DEF Settle, Row
            <6>2. rows[p].state # "stored"
              BY <4>5, <5>2
            <6> QED BY <4>4, <5>1, <6>1, <6>2, BytesBookedStill
          <5>3. CASE Opened(p).state # "running"
            <6>1. rows'[p] = rows[p]
              BY <4>4, <4>5, <5>3 DEF Settle
            <6> QED BY <4>4, <5>1, <6>1, BytesBookedStill
          <5> QED BY <5>2, <5>3
        <4> QED BY <4>7, <4>8
      <3> QED BY <2>1, <3>1, <3>2, <3>3, <3>4, <3>5, <3>6 DEF Apply
    <2>2. CASE Finish
      <3>1. PICK number : rows' = [q \in Pairs |-> IF q \in Running(Pairs)
                                     THEN [rows[q] EXCEPT !.state = "failed", !.seq = number[q]]
                                     ELSE rows[q]]
        BY <2>2 DEF Finish
      <3>2. ASSUME NEW p \in Pairs
            PROVE  \/ rows'[p] = rows[p]
                   \/ rows[p].state = "running" /\ rows'[p].state = "failed"
        BY <3>1, <2>0 DEF Running, Row
      <3>3. counts' = counts
        BY <2>2 DEF Finish
      <3> QED BY <3>2, <3>3, BytesBookedStill
    <2>3. CASE UNCHANGED vars
      BY <2>3, BytesBookedStill DEF vars
    <2> QED BY <2>1, <2>2, <2>3 DEF Next
  <1>3. BytesBooked => BytesAgree
    BY DEF BytesBooked, BytesAgree, BytesOf, StoredRows, StoredBytes
  <1> QED BY <1>1, <1>2, <1>3, TypeCorrect, FactsCorrect, PTL DEF Spec, RowsAgree

-----------------------------------------------------------------------------
(* Numbers.                                                                *)

\* An event is numbered, and so is every row it changes.
LEMMA EventsNumber ==
  ASSUME TypeOK, NEW ev \in Emitted, Apply(ev)
  PROVE  /\ seq' = seq + 1
         /\ \A p \in Pairs : rows'[p] = rows[p] \/ rows'[p].seq = seq + 1
  <1>0. rows \in [Pairs -> Row]
    BY DEF TypeOK
  <1>1. seq' = seq + 1
    BY DEF Apply, ApplyRunWide, ApplyAnonymous, ApplyDevice, ApplyPlatform, ApplyName,
           ApplyDeviceFail, ApplyCaptureStart, ApplyTerminal, Receive
  <1>2. SUFFICES ASSUME NEW p \in Pairs
                 PROVE  rows'[p] = rows[p] \/ rows'[p].seq = seq + 1
    BY <1>1
  <1>3. CASE ApplyRunWide(ev) \/ ApplyAnonymous(ev) \/ ApplyDevice(ev)
    BY <1>3 DEF ApplyRunWide, ApplyAnonymous, ApplyDevice
  <1>4. CASE ApplyPlatform(ev)
    BY <1>4, <1>0, Stamped
  <1>8. CASE ApplyName(ev)
    BY <1>8, <1>0, Stamped
  <1>5. CASE ApplyDeviceFail(ev)
    BY <1>5, <1>0 DEF ApplyDeviceFail, Row
  <1>6. CASE ApplyCaptureStart(ev)
    <2>1. Opened(p) \in Row
      BY OpenedType
    <2> QED BY <1>6, <1>0, <2>1 DEF ApplyCaptureStart, Row
  <1>7. CASE ApplyTerminal(ev)
    <2>1. \/ rows'[p] = rows[p]
          \/ rows'[p] = Settle(Opened(p), Outcome(ev.kind), ev)
      BY <1>7, <1>0 DEF ApplyTerminal
    <2>2. Opened(p) \in Row /\ (Opened(p).seq = seq + 1 \/ Opened(p) = rows[p])
      BY OpenedType DEF Opened, NoRow
    <2>3. \A row \in Row : Settle(row, Outcome(ev.kind), ev).seq = seq + 1
                           \/ Settle(row, Outcome(ev.kind), ev) = row
      BY DEF Settle, Row
    <2> QED BY <2>1, <2>2, <2>3
  <1> QED BY <1>3, <1>4, <1>5, <1>6, <1>7, <1>8 DEF Apply

LEMMA FinishNumbers ==
  ASSUME TypeOK, Finish
  PROVE  /\ seq' \in Nat /\ seq' >= seq
         /\ \A p \in Pairs : rows'[p] = rows[p] \/ rows'[p].seq \in (seq + 1)..seq'
  <1>0. rows \in [Pairs -> Row] /\ seq \in Nat
    BY DEF TypeOK
  <1> DEFINE n == Cardinality(Running(Pairs))
  <1>1. PICK number \in [Running(Pairs) -> (seq + 1)..(seq + n)] :
          rows' = [p \in Pairs |-> IF p \in Running(Pairs)
                                   THEN [rows[p] EXCEPT !.state = "failed", !.seq = number[p]]
                                   ELSE rows[p]]
    BY DEF Finish
  <1>2. n \in Nat
    BY RunningFinite
  <1>3. seq' = seq + n
    BY DEF Finish
  <1> HIDE DEF n
  <1>4. \A p \in Running(Pairs) : number[p] \in (seq + 1)..seq'
    BY <1>1, <1>3
  <1>5. \A p \in Pairs : rows'[p] = rows[p] \/ (p \in Running(Pairs) /\ rows'[p].seq = number[p])
    BY <1>0, <1>1 DEF Row
  <1>6. seq' \in Nat /\ seq' >= seq
    BY <1>0, <1>2, <1>3
  <1> QED BY <1>4, <1>5, <1>6

\* Whatever changes a row numbers it above every number handed out before.
THEOREM ChangesAreNumbered == Spec => EveryChangeIsNumbered
  <1>1. TypeOK /\ [Next]_vars =>
          [\A p \in Pairs : rows'[p] # rows[p] => rows'[p].seq > seq /\ rows'[p].seq <= seq']_vars
    <2> SUFFICES ASSUME TypeOK, Next, NEW p \in Pairs, rows'[p] # rows[p]
                 PROVE  rows'[p].seq > seq /\ rows'[p].seq <= seq'
      OBVIOUS
    <2>0. seq \in Nat
      BY DEF TypeOK
    <2>1. CASE \E ev \in Emitted : Apply(ev)
      BY <2>0, <2>1, EventsNumber
    <2>2. CASE Finish
      BY <2>0, <2>2, FinishNumbers
    <2> QED BY <2>1, <2>2 DEF Next
  <1> QED BY <1>1, TypeCorrect, PTL DEF Spec, EveryChangeIsNumbered

-----------------------------------------------------------------------------
(* The result board.                                                       *)

\* Every event's rows make legal moves: what is settled stays as it is.
LEMMA EventsMoveRows ==
  ASSUME TypeOK, NEW ev \in Emitted, Apply(ev), NEW p \in Pairs
  PROVE  Board!Moves(rows[p].state, rows'[p].state)
  <1>0. rows \in [Pairs -> Row]
    BY DEF TypeOK
  <1>1. CASE ApplyRunWide(ev) \/ ApplyAnonymous(ev) \/ ApplyDevice(ev)
    BY <1>1 DEF ApplyRunWide, ApplyAnonymous, ApplyDevice, Board!Moves
  <1>2. CASE ApplyPlatform(ev)
    <2>1. rows'[p].state = rows[p].state
      BY <1>2, <1>0, Stamped
    <2> QED BY <2>1 DEF Board!Moves
  <1>6. CASE ApplyName(ev)
    <2>1. rows'[p].state = rows[p].state
      BY <1>6, <1>0, Stamped
    <2> QED BY <2>1 DEF Board!Moves
  <1>3. CASE ApplyDeviceFail(ev)
    <2>1. \/ rows'[p] = rows[p]
          \/ /\ rows[p].state = "running"
             /\ rows'[p] = [rows[p] EXCEPT !.state = "failed", !.seq = seq + 1]
      BY <1>3, <1>0 DEF ApplyDeviceFail, Running
    <2>2. \/ rows'[p] = rows[p]
          \/ (rows[p].state = "running" /\ rows'[p].state = "failed")
      BY <2>1, <1>0 DEF Row
    <2> QED BY <2>2 DEF Board!Moves, Settled
  <1>4. CASE ApplyCaptureStart(ev)
    <2>1. \/ rows'[p] = rows[p]
          \/ rows'[p] = [Opened(p) EXCEPT !.sent = TRUE, !.seq = seq + 1]
      BY <1>4, <1>0 DEF ApplyCaptureStart
    <2>2. Opened(p) \in Row
          /\ (Opened(p) = rows[p] \/ (rows[p].state = "absent" /\ Opened(p).state = "running"))
      BY OpenedType DEF Opened, NoRow
    <2>3. rows'[p] = rows[p] \/ rows'[p].state = Opened(p).state
      BY <2>1, <2>2 DEF Row
    <2> QED BY <2>2, <2>3 DEF Board!Moves
  <1>5. CASE ApplyTerminal(ev)
    <2>1. \/ rows'[p] = rows[p]
          \/ rows'[p] = Settle(Opened(p), Outcome(ev.kind), ev)
      BY <1>5, <1>0 DEF ApplyTerminal
    <2>2. Outcome(ev.kind) \in Settled
      BY <1>5 DEF ApplyTerminal, Outcome, CaptureKinds, Settled
    <2>3. Opened(p) \in Row
          /\ (Opened(p) = rows[p] \/ (rows[p].state = "absent" /\ Opened(p).state = "running"))
      BY OpenedType DEF Opened, NoRow
    <2>4. \A row \in Row :
            \/ Settle(row, Outcome(ev.kind), ev) = row
            \/ /\ row.state = "running"
               /\ Settle(row, Outcome(ev.kind), ev).state = Outcome(ev.kind)
      BY DEF Settle, Row
    <2> QED BY <2>1, <2>2, <2>3, <2>4 DEF Board!Moves
  <1> QED BY <1>1, <1>2, <1>3, <1>4, <1>5, <1>6 DEF Apply

\* What the end leaves: no row is running, and a second end changes nothing.
LEMMA FinishSettles ==
  ASSUME TypeOK, Finish
  PROVE  \A p \in Pairs : rows'[p].state # "running"
                          /\ Board!Moves(rows[p].state, rows'[p].state)
                          /\ (rows[p].state # "running" => rows'[p] = rows[p])
  <1>0. rows \in [Pairs -> Row]
    BY DEF TypeOK
  <1>1. PICK number : rows' = [q \in Pairs |-> IF q \in Running(Pairs)
                                 THEN [rows[q] EXCEPT !.state = "failed", !.seq = number[q]]
                                 ELSE rows[q]]
    BY DEF Finish
  <1>2. SUFFICES ASSUME NEW p \in Pairs
                 PROVE  rows'[p].state # "running"
                        /\ Board!Moves(rows[p].state, rows'[p].state)
                        /\ (rows[p].state # "running" => rows'[p] = rows[p])
    OBVIOUS
  <1>3. CASE rows[p].state = "running"
    <2>1. rows'[p].state = "failed"
      BY <1>0, <1>1, <1>3 DEF Running, Row
    <2> QED BY <1>3, <2>1 DEF Board!Moves, Settled
  <1>4. CASE rows[p].state # "running"
    <2>1. rows'[p] = rows[p]
      BY <1>1, <1>4 DEF Running
    <2> QED BY <1>4, <2>1 DEF Board!Moves
  <1> QED BY <1>3, <1>4

Closed == finished => \A p \in Pairs : rows[p].state # "running"

LEMMA ClosedCorrect == Spec => []Closed
  <1>1. Init => Closed
    BY DEF Init, Closed
  <1>2. TypeOK /\ Closed /\ [Next]_vars => Closed'
    <2> SUFFICES ASSUME TypeOK, Closed, [Next]_vars PROVE Closed'
      OBVIOUS
    <2>1. CASE \E ev \in Emitted : Apply(ev)
      <3>1. finished' = FALSE
        BY <2>1 DEF Apply, ApplyRunWide, ApplyAnonymous, ApplyDevice, ApplyPlatform, ApplyName,
                    ApplyDeviceFail, ApplyCaptureStart, ApplyTerminal, Receive, TypeOK
      <3> QED BY <3>1 DEF Closed
    <2>2. CASE Finish
      BY <2>2, FinishSettles DEF Closed
    <2>3. CASE UNCHANGED vars
      BY <2>3 DEF vars, Closed
    <2> QED BY <2>1, <2>2, <2>3 DEF Next
  <1> QED BY <1>1, <1>2, TypeCorrect, PTL DEF Spec

\* The run model implements the result board: no verdict is taken back, nothing
\* is left running at the end, and nothing moves after it.
THEOREM RunImplementsBoard == Spec => RunIsABoard
  <1> DEFINE states == [p \in Pairs |-> rows[p].state]
  <1>1. Init => Board!BoardInit
    BY DEF Init, NoRow, Board!BoardInit
  <1>2. TypeOK /\ Closed /\ TypeOK' /\ [Next]_vars => [Board!Advance]_(Board!bvars)
    <2> SUFFICES ASSUME TypeOK, Closed, TypeOK', [Next]_vars
                 PROVE  Board!Advance \/ UNCHANGED Board!bvars
      OBVIOUS
    <2>0. /\ rows' \in [Pairs -> Row] /\ finished \in BOOLEAN /\ finished' \in BOOLEAN
          /\ \A p \in Pairs : states[p] = rows[p].state /\ states'[p] = rows'[p].state
      BY DEF TypeOK
    <2>1. states' \in [Pairs -> Settled \cup {"absent", "running"}]
      BY <2>0 DEF Row, States
    <2>2. CASE \E ev \in Emitted : Apply(ev)
      <3>1. finished = FALSE /\ finished' = FALSE
        BY <2>2 DEF Apply, ApplyRunWide, ApplyAnonymous, ApplyDevice, ApplyPlatform, ApplyName,
                    ApplyDeviceFail, ApplyCaptureStart, ApplyTerminal, Receive, TypeOK
      <3>2. \A p \in Pairs : Board!Moves(rows[p].state, rows'[p].state)
        BY <2>2, EventsMoveRows
      <3>3. Board!Advance
        BY <2>0, <2>1, <3>1, <3>2 DEF Board!Advance
      <3> QED BY <3>3
    <2>3. CASE Finish /\ ~finished
      <3>1. Board!Advance
        BY <2>0, <2>1, <2>3, FinishSettles DEF Board!Advance
      <3> QED BY <3>1
    <2>4. CASE Finish /\ finished
      <3>1. \A p \in Pairs : rows'[p] = rows[p]
        BY <2>4, FinishSettles DEF Closed
      <3>2. finished' = finished
        BY <2>4, <2>0 DEF Finish
      <3> QED BY <3>1, <3>2 DEF Board!bvars
    <2>5. CASE UNCHANGED vars
      BY <2>5 DEF vars, Board!bvars
    <2> QED BY <2>0, <2>2, <2>3, <2>4, <2>5 DEF Next
  <1>3. Init /\ [][Next]_vars /\ []TypeOK /\ []Closed
          => Board!BoardInit /\ [][Board!Advance]_(Board!bvars)
    BY <1>1, <1>2, PTL
  <1> QED BY <1>3, TypeCorrect, ClosedCorrect DEF Spec, RunIsABoard, Board!BoardSpec

-----------------------------------------------------------------------------
(* The list of decisions.                                                  *)

\* The least element of a set of naturals: the library's well-founded order of
\* the subsets of a finite set, on the intervals.
LEMMA LeastNat ==
  ASSUME NEW T \in SUBSET Nat, T # {}
  PROVE  \E n \in T : \A m \in T : n <= m
  <1>1. PICK top \in T : TRUE
    OBVIOUS
  <1> DEFINE U == 1..top
             below == {n \in T : n <= top}
             spans == {1..n : n \in below}
             R == StrictSubsetOrdering(U)
  <1>2. IsWellFoundedOn(R, SUBSET U)
    <2>1. IsFiniteSet(U)
      BY FS_Interval
    <2> HIDE DEF U
    <2> QED BY <2>1, FS_StrictSubsetOrderingWellFounded, FS_FiniteSubsetsOfFinite
  <1>3. spans \subseteq SUBSET U /\ spans # {}
    BY <1>1
  <1>4. \A x, y \in spans : y \subseteq x /\ y # x => <<y, x>> \in R
    BY <1>3 DEF StrictSubsetOrdering
  <1> HIDE DEF R, spans, U
  <1>5. PICK x \in spans : \A y \in spans : <<y, x>> \notin R
    BY <1>2, <1>3, WFMin
  <1>6. PICK n \in below : x = 1..n
    BY DEF spans
  <1>7. \A m \in below : ~(m < n)
    <2> SUFFICES ASSUME NEW m \in below, m < n PROVE FALSE
      OBVIOUS
    <2>0. m \in Nat /\ n \in Nat
      OBVIOUS
    <2>1. 1..m \in spans
      BY DEF spans
    <2>2. 1..m \subseteq x /\ n \in x /\ n \notin 1..m
      BY <1>6, <2>0
    <2> QED BY <1>4, <1>5, <2>1, <2>2
  <1>8. n \in T /\ n <= top /\ n \in Nat
    OBVIOUS
  <1>9. ASSUME NEW m \in T
        PROVE  n <= m
    <2>1. m \in Nat /\ top \in Nat
      BY <1>1
    <2>2. CASE m <= top
      BY <1>7, <1>8, <2>1, <2>2
    <2>3. CASE ~(m <= top)
      BY <1>8, <2>1, <2>3
    <2> QED BY <2>2, <2>3
  <1> QED BY <1>8, <1>9

\* What the loop of DecisionsSince has collected after each decision.
Collects(out, s, n) ==
  out = [k \in 0..Len(s) |-> IF k = 0 THEN <<>>
                             ELSE IF s[k].seq > n THEN Append(out[k - 1], s[k])
                             ELSE out[k - 1]]

LEMMA CollectsStep ==
  ASSUME NEW s \in Seq(Decision), NEW n, NEW out, Collects(out, s, n)
  PROVE  /\ out[0] = <<>>
         /\ \A k \in 1..Len(s) : out[k] = IF s[k].seq > n THEN Append(out[k - 1], s[k])
                                          ELSE out[k - 1]
  <1>1. SUFFICES ASSUME NEW k \in 0..Len(s)
                 PROVE  out[k] = IF k = 0 THEN <<>>
                                 ELSE IF s[k].seq > n THEN Append(out[k - 1], s[k])
                                 ELSE out[k - 1]
    <2>1. 0 \in 0..Len(s) /\ 1..Len(s) \subseteq 0..Len(s) /\ 0 \notin 1..Len(s)
      OBVIOUS
    <2> QED BY <2>1
  <1> DEFINE g == [j \in 0..Len(s) |-> IF j = 0 THEN <<>>
                                       ELSE IF s[j].seq > n THEN Append(out[j - 1], s[j])
                                       ELSE out[j - 1]]
  <1>2. out = g
    BY DEF Collects
  <1>3. g[k] = IF k = 0 THEN <<>>
               ELSE IF s[k].seq > n THEN Append(out[k - 1], s[k]) ELSE out[k - 1]
    OBVIOUS
  <1> HIDE DEF g
  <1> QED BY <1>2, <1>3

\* The loop over a list whose first m entries, and no others, are old.
LEMMA Collected ==
  ASSUME NEW s \in Seq(Decision), NEW n, NEW m \in 0..Len(s),
         \A k \in 1..Len(s) : s[k].seq > n <=> k > m
  PROVE  /\ \E out : Collects(out, s, n)
         /\ \A out : Collects(out, s, n) => out[Len(s)] = SubSeq(s, m + 1, Len(s))
  <1> DEFINE w == [k \in 0..Len(s) |-> IF k <= m THEN <<>> ELSE SubSeq(s, m + 1, k)]
  <1>0. Len(s) \in Nat /\ m \in Nat /\ m <= Len(s)
    OBVIOUS
  <1>1. w[0] = <<>>
    BY <1>0
  <1>2. ASSUME NEW k \in 1..Len(s)
        PROVE  w[k] = IF s[k].seq > n THEN Append(w[k - 1], s[k]) ELSE w[k - 1]
    <2>0. k \in 0..Len(s) /\ k - 1 \in 0..Len(s) /\ k \in Nat
      BY <1>0
    <2>1. CASE k <= m
      <3>1. w[k] = <<>> /\ w[k - 1] = <<>>
        BY <2>0, <2>1, <1>0
      <3> QED BY <3>1, <2>1, <2>0, <1>0
    <2>3. CASE k > m
      <3>1. w[k - 1] = SubSeq(s, m + 1, k - 1) /\ w[k] = SubSeq(s, m + 1, k)
        <4>1. k - 1 <= m => SubSeq(s, m + 1, k - 1) = <<>>
          BY <2>0, <2>3, <1>0, SubSeqEmpty
        <4> QED BY <4>1, <2>0, <2>3, <1>0
      <3>2. SubSeq(s, m + 1, k) = Append(SubSeq(s, m + 1, k - 1), s[k])
        <4>1. m + 1 \in 1..Len(s) /\ k \in (m + 1)..Len(s) /\ s[k] \in Decision
          BY <2>0, <2>3, <1>0
        <4>2. SubSeq(s, m + 1, k) = SubSeq(s, m + 1, k - 1) \o <<s[k]>>
          BY <4>1, SubSeqRecursiveSecond
        <4>3. SubSeq(s, m + 1, k - 1) \in Seq(Decision)
          <5>1. \A i \in (m + 1)..(k - 1) : s[i] \in Decision
            BY <4>1, <1>0
          <5> QED BY <5>1, <4>1, <1>0, SubSeqProperties
        <4> QED BY <4>1, <4>2, <4>3, AppendIsConcat
      <3> HIDE DEF w
      <3> QED BY <3>1, <3>2, <2>3, <2>0, <1>0
    <2> QED BY <2>1, <2>3, <2>0, <1>0
  <1>3. Collects(w, s, n)
    <2> DEFINE v == [k \in 0..Len(s) |-> IF k = 0 THEN <<>>
                                         ELSE IF s[k].seq > n THEN Append(w[k - 1], s[k])
                                         ELSE w[k - 1]]
    <2>1. \A k \in 0..Len(s) : w[k] = v[k]
      <3> HIDE DEF w
      <3>1. \A k \in 0..Len(s) : k = 0 \/ k \in 1..Len(s)
        BY <1>0
      <3> QED BY <1>1, <1>2, <3>1
    <2>2. w = v
      BY <2>1
    <2> HIDE DEF w
    <2> QED BY <2>2 DEF Collects
  <1>4. w[Len(s)] = SubSeq(s, m + 1, Len(s))
    <2>1. CASE m = Len(s)
      <3>1. w[Len(s)] = <<>> /\ SubSeq(s, m + 1, Len(s)) = <<>>
        BY <2>1, <1>0
      <3> QED BY <3>1
    <2>2. CASE m < Len(s)
      BY <2>2, <1>0
    <2> QED BY <2>1, <2>2, <1>0
  <1> HIDE DEF w
  <1>5. ASSUME NEW out, Collects(out, s, n)
        PROVE  out[Len(s)] = w[Len(s)]
    <2> DEFINE T == {k \in 0..Len(s) : out[k] # w[k]}
    <2>1. SUFFICES ASSUME T # {}
                   PROVE  FALSE
      BY <1>0
    <2>2. T \in SUBSET Nat
      BY <1>0
    <2>3. PICK k \in T : \A j \in T : k <= j
      <3> HIDE DEF T
      <3> QED BY <2>1, <2>2, LeastNat
    <2>4. k # 0
      BY <1>1, <1>5, CollectsStep
    <2>5. k \in 1..Len(s) /\ k - 1 \in 0..Len(s) /\ ~(k <= k - 1)
      BY <2>4, <1>0
    <2>6. out[k - 1] = w[k - 1]
      BY <2>3, <2>5
    <2>7. out[k] = IF s[k].seq > n THEN Append(out[k - 1], s[k]) ELSE out[k - 1]
      BY <1>5, <2>5, CollectsStep
    <2> QED BY <1>2, <2>3, <2>5, <2>6, <2>7
  <1> QED BY <1>3, <1>4, <1>5

LEMMA DecisionsAfter ==
  ASSUME notable \in Seq(Decision), NEW n, NEW m \in 0..Len(notable),
         \A k \in 1..Len(notable) : notable[k].seq > n <=> k > m
  PROVE  DecisionsSince(n) = SubSeq(notable, m + 1, Len(notable))
  <1> DEFINE f == CHOOSE out : Collects(out, notable, n)
  <1>1. DecisionsSince(n) = f[Len(notable)]
    BY DEF DecisionsSince, Collects
  <1>2. Collects(f, notable, n)
    <2>1. \E out : Collects(out, notable, n)
      BY Collected
    <2> QED BY <2>1
  <1> HIDE DEF f
  <1> QED BY <1>1, <1>2, Collected

-----------------------------------------------------------------------------
(* The bridge: what holds at every point of a pull.                        *)

BridgeType ==
  /\ hooks \in Nat
  /\ readable \in BOOLEAN /\ open \in BOOLEAN /\ done \in BOOLEAN
  /\ pc \in {"idle", "drained", "progress", "rows", "decisions", "shown"}
  /\ snap \in Progress /\ progress \in Progress
  /\ rowSeq \in 0..seq /\ decisionSeq \in 0..seq
  /\ table \in [Pairs -> Row]

\* The run has numbered nothing beyond seq.
Numbered ==
  /\ \A p \in Pairs : rows[p].seq <= seq
  /\ \A k \in 1..Len(notable) : notable[k].seq <= seq

\* What has been listed is the decisions up to the second cursor.
ListInSync ==
  /\ listed \in Seq(Decision)
  /\ Len(listed) <= Len(notable)
  /\ \A k \in 1..Len(listed) : listed[k] = notable[k]
  /\ \A k \in 1..Len(notable) : notable[k].seq <= decisionSeq <=> k <= Len(listed)

\* A progress that says finished was the last one, and what a pull has read
\* since then is the end of it.
EndIsRead ==
  /\ snap.finished => finished /\ snap.tally = tally
  /\ snap.finished /\ pc \in {"rows", "decisions", "shown"} => table = rows
  /\ snap.finished /\ pc \in {"decisions", "shown"} => listed = notable
  /\ pc = "shown" => progress = snap
  /\ done => pc = "idle" /\ LastPullIsComplete

Awake == readable \/ hooks > 0

\* What a pull has read so far is the latest, or a wake is waiting or on its way.
WakeHeld ==
  open /\ ~Awake =>
    /\ pc \in {"progress", "rows", "decisions", "shown"} => snap.finished = finished
    /\ pc \in {"rows", "decisions", "shown"} => rowSeq = seq
    /\ pc \in {"decisions", "shown"} => decisionSeq = seq
    /\ pc = "idle" /\ ~done =>
         rowSeq = seq /\ decisionSeq = seq /\ progress.finished = finished

BridgeInv == BridgeType /\ Numbered /\ TableInSync /\ ListInSync /\ EndIsRead /\ WakeHeld

\* The run's part of a bridge step is a step of the run.
THEOREM BridgeRuns == BridgeSpec => Spec
  <1>1. BridgeInit => Init
    BY DEF BridgeInit
  <1>2. [BridgeNext]_bridgeVars => [Next]_vars
    BY DEF BridgeNext, RunApply, RunFinish, Poke, PullOnWake, PullOnTick, Drain, Pull,
           ReadProgress, ReadRows, ReadDecisions, ShowProgress, EndPull, AbandonPull, Close,
           Next, bridgeVars
  <1> QED BY <1>1, <1>2, PTL DEF BridgeSpec, Spec

\* What an event or the end of the run does, seen from the window.
Grows ==
  /\ seq' \in Nat /\ seq' >= seq
  /\ \A p \in Pairs : rows'[p] = rows[p] \/ rows'[p].seq \in (seq + 1)..seq'
  /\ \/ notable' = notable
     \/ /\ seq' = seq + 1
        /\ \E d \in Decision : d.seq = seq + 1 /\ notable' = Append(notable, d)
  /\ ~finished
  /\ hooks' = IF open THEN hooks + 1 ELSE hooks
  /\ UNCHANGED <<readable, open, viewVars>>

LEMMA RunStepGrows ==
  ASSUME TypeOK, RunApply \/ RunFinish
  PROVE  Grows
  <1>0. seq \in Nat
    BY DEF TypeOK
  <1>1. CASE RunApply
    <2>1. PICK ev \in Emitted : Apply(ev)
      BY <1>1 DEF RunApply
    <2>2. Receive(ev) /\ ev \in Event
      BY <2>1, EmittedType
         DEF Apply, ApplyRunWide, ApplyAnonymous, ApplyDevice, ApplyPlatform, ApplyName,
             ApplyDeviceFail, ApplyCaptureStart, ApplyTerminal
    <2>3. /\ seq' = seq + 1
          /\ \A p \in Pairs : rows'[p] = rows[p] \/ rows'[p].seq = seq + 1
      BY <2>1, EventsNumber
    <2>4. [ev |-> ev, seq |-> seq + 1] \in Decision
      BY <1>0, <2>2 DEF Decision
    <2>5. notable' = notable \/ notable' = Append(notable, [ev |-> ev, seq |-> seq + 1])
      BY <2>2 DEF Receive
    <2>6. ~finished
      BY <2>2 DEF Receive
    <2>7. hooks' = (IF open THEN hooks + 1 ELSE hooks) /\ UNCHANGED <<readable, open, viewVars>>
      BY <1>1 DEF RunApply, CaptureHook
    <2>8. seq' \in Nat /\ seq' >= seq /\ seq + 1 \in (seq + 1)..seq'
      BY <1>0, <2>3
    <2> QED BY <2>3, <2>4, <2>5, <2>6, <2>7, <2>8 DEF Grows
  <1>2. CASE RunFinish
    <2>1. /\ seq' \in Nat /\ seq' >= seq
          /\ \A p \in Pairs : rows'[p] = rows[p] \/ rows'[p].seq \in (seq + 1)..seq'
      BY <1>2, FinishNumbers DEF RunFinish
    <2>2. notable' = notable
      BY <1>2 DEF RunFinish, Finish
    <2> QED BY <1>2, <2>1, <2>2 DEF RunFinish, CaptureHook, Grows
  <1> QED BY <1>1, <1>2

LEMMA DecisionsNumbered ==
  ASSUME NEW s \in Seq(Decision), NEW k \in 1..Len(s)
  PROVE  s[k] \in Decision /\ s[k].seq \in Nat
  <1>1. s[k] \in Decision
    BY ElementOfSeq
  <1> QED BY <1>1 DEF Decision

LEMMA GrowthKeeps ==
  ASSUME TypeOK, BridgeInv, Grows
  PROVE  BridgeInv'
  <1>0. /\ seq \in Nat /\ rows \in [Pairs -> Row] /\ notable \in Seq(Decision)
        /\ rowSeq \in Nat /\ rowSeq <= seq /\ decisionSeq \in Nat /\ decisionSeq <= seq
        /\ hooks \in Nat /\ seq' \in Nat /\ seq' >= seq
        /\ \A p \in Pairs : rows[p].seq \in Nat
    BY DEF TypeOK, BridgeInv, BridgeType, Grows, Row
  <1>1. BridgeType'
    BY <1>0 DEF BridgeInv, BridgeType, Grows, viewVars
  <1>2. ASSUME NEW k \in 1..Len(notable')
        PROVE  \/ k \in 1..Len(notable) /\ notable'[k] = notable[k]
               \/ k = Len(notable) + 1 /\ notable'[k].seq = seq + 1 /\ seq' = seq + 1
    <2>1. CASE notable' = notable
      BY <2>1
    <2>2. CASE notable' # notable
      <3>1. PICK d \in Decision : d.seq = seq + 1 /\ notable' = Append(notable, d)
        BY <2>2 DEF Grows
      <3>2. seq' = seq + 1
        BY <2>2 DEF Grows
      <3> QED BY <1>0, <3>1, <3>2, AppendProperties
    <2> QED BY <2>1, <2>2
  <1>3. Len(notable') \in Nat /\ Len(notable') >= Len(notable) /\ Len(notable) \in Nat
    <2>1. CASE notable' = notable
      BY <2>1, <1>0
    <2>2. CASE notable' # notable
      <3>1. PICK d \in Decision : d.seq = seq + 1 /\ notable' = Append(notable, d)
        BY <2>2 DEF Grows
      <3> QED BY <1>0, <3>1, AppendProperties
    <2> QED BY <2>1, <2>2
  <1>4. Numbered'
    <2>1. \A p \in Pairs : rows'[p].seq <= seq'
      BY <1>0 DEF BridgeInv, Numbered, Grows
    <2>2. ASSUME NEW k \in 1..Len(notable')
          PROVE  notable'[k].seq <= seq'
      <3>1. CASE k \in 1..Len(notable) /\ notable'[k] = notable[k]
        <4>1. notable[k].seq <= seq /\ notable[k].seq \in Nat
          BY <3>1, <1>0, DecisionsNumbered DEF BridgeInv, Numbered
        <4> QED BY <3>1, <4>1, <1>0
      <3>2. CASE notable'[k].seq = seq + 1 /\ seq' = seq + 1
        BY <3>2, <1>0
      <3> QED BY <1>2, <3>1, <3>2
    <2> QED BY <2>1, <2>2 DEF Numbered
  <1>5. TableInSync'
    <2> SUFFICES ASSUME NEW p \in Pairs, rows'[p].seq <= rowSeq
                 PROVE  table[p] = rows'[p]
      BY DEF TableInSync, Grows, viewVars
    <2>1. rows'[p] = rows[p]
      BY <1>0 DEF Grows
    <2> QED BY <2>1 DEF BridgeInv, TableInSync
  <1>6. ListInSync'
    <2>1. listed' = listed /\ decisionSeq' = decisionSeq
      BY DEF Grows, viewVars
    <2>2. listed \in Seq(Decision) /\ Len(listed) <= Len(notable) /\ Len(listed) \in Nat
      BY DEF BridgeInv, ListInSync
    <2>3. \A k \in 1..Len(listed) : k \in 1..Len(notable) /\ k \in 1..Len(notable')
      BY <1>3, <2>2
    <2>4. \A k \in 1..Len(listed) : listed[k] = notable'[k]
      BY <1>2, <1>3, <2>2, <2>3 DEF BridgeInv, ListInSync
    <2>5. ASSUME NEW k \in 1..Len(notable')
          PROVE  notable'[k].seq <= decisionSeq <=> k <= Len(listed)
      <3>1. CASE k \in 1..Len(notable) /\ notable'[k] = notable[k]
        BY <3>1 DEF BridgeInv, ListInSync
      <3>2. CASE k = Len(notable) + 1 /\ notable'[k].seq = seq + 1
        BY <3>2, <1>0, <1>3, <2>2
      <3> QED BY <1>2, <3>1, <3>2
    <2> QED BY <2>1, <2>2, <2>4, <2>5, <1>3 DEF ListInSync
  <1>7. EndIsRead'
    BY DEF BridgeInv, EndIsRead, LastPullIsComplete, Grows, viewVars
  <1>8. WakeHeld'
    BY <1>0 DEF WakeHeld, Awake, Grows
  <1> QED BY <1>1, <1>4, <1>5, <1>6, <1>7, <1>8 DEF BridgeInv

\* Where the run stands still, what the cursors have delivered stays delivered.
LEMMA StillInSync ==
  ASSUME BridgeInv, UNCHANGED vars
  PROVE  /\ Numbered'
         /\ UNCHANGED <<rowSeq, table>> => TableInSync'
         /\ UNCHANGED <<decisionSeq, listed>> => ListInSync'
BY DEF BridgeInv, Numbered, TableInSync, ListInSync, vars

LEMMA PokeKeeps ==
  ASSUME BridgeInv, Poke
  PROVE  BridgeInv'
  <1>0. UNCHANGED <<vars, open, viewVars>> /\ hooks' = hooks - 1 /\ readable' = (readable \/ open)
        /\ hooks > 0
    BY DEF Poke
  <1>1. BridgeType'
    BY <1>0 DEF BridgeInv, BridgeType, vars, viewVars
  <1>2. Numbered' /\ TableInSync' /\ ListInSync'
    BY <1>0, StillInSync DEF viewVars
  <1>3. EndIsRead'
    BY <1>0 DEF BridgeInv, EndIsRead, LastPullIsComplete, vars, viewVars
  <1>4. WakeHeld'
    BY <1>0 DEF WakeHeld, Awake
  <1> QED BY <1>1, <1>2, <1>3, <1>4 DEF BridgeInv

\* A pull begins: the pipe is drained before anything is read.
LEMMA DrainKeeps ==
  ASSUME BridgeInv, Drain
  PROVE  BridgeInv'
  <1>1. BridgeType'
    BY DEF BridgeInv, BridgeType, Drain, vars
  <1>2. Numbered' /\ TableInSync' /\ ListInSync'
    BY StillInSync DEF Drain
  <1>3. EndIsRead'
    BY DEF BridgeInv, EndIsRead, Drain, vars
  <1>4. WakeHeld'
    BY DEF WakeHeld, Drain
  <1> QED BY <1>1, <1>2, <1>3, <1>4 DEF BridgeInv

LEMMA ReadProgressKeeps ==
  ASSUME TypeOK, BridgeInv, ReadProgress
  PROVE  BridgeInv'
  <1>0. [finished |-> finished, tally |-> tally] \in Progress
    BY DEF TypeOK, Progress
  <1>1. BridgeType'
    BY <1>0 DEF BridgeInv, BridgeType, ReadProgress, vars
  <1>2. Numbered' /\ TableInSync' /\ ListInSync'
    BY StillInSync DEF ReadProgress
  <1>3. EndIsRead'
    BY DEF BridgeInv, EndIsRead, ReadProgress, vars
  <1>4. WakeHeld'
    BY DEF WakeHeld, Awake, ReadProgress, vars
  <1> QED BY <1>1, <1>2, <1>3, <1>4 DEF BridgeInv

\* After RowsSince the table is the run's.
LEMMA ReadRowsKeeps ==
  ASSUME TypeOK, BridgeInv, ReadRows
  PROVE  BridgeInv'
  <1>0. /\ seq \in Nat /\ rows \in [Pairs -> Row] /\ table \in [Pairs -> Row]
        /\ rowSeq \in Nat /\ \A p \in Pairs : rows[p].seq \in Nat
    BY DEF TypeOK, BridgeInv, BridgeType, Row
  <1>1. table' = rows
    <2>1. table' = [p \in Pairs |-> IF rows[p].seq > rowSeq THEN rows[p] ELSE table[p]]
      BY DEF ReadRows
    <2>2. \A p \in Pairs : ~(rows[p].seq > rowSeq) => table[p] = rows[p]
      BY <1>0 DEF BridgeInv, TableInSync
    <2> QED BY <1>0, <2>1, <2>2
  <1>2. BridgeType'
    BY <1>0, <1>1 DEF BridgeInv, BridgeType, ReadRows, vars
  <1>3. Numbered' /\ ListInSync'
    BY StillInSync DEF ReadRows
  <1>4. TableInSync'
    BY <1>1 DEF TableInSync, ReadRows, vars
  <1>5. EndIsRead'
    BY <1>1 DEF BridgeInv, EndIsRead, ReadRows, vars
  <1>6. WakeHeld'
    BY DEF BridgeInv, WakeHeld, Awake, ReadRows, vars
  <1> QED BY <1>2, <1>3, <1>4, <1>5, <1>6 DEF BridgeInv

\* After DecisionsSince the list is the run's.
LEMMA ReadDecisionsKeeps ==
  ASSUME TypeOK, BridgeInv, ReadDecisions
  PROVE  BridgeInv'
  <1>0. /\ seq \in Nat /\ notable \in Seq(Decision) /\ decisionSeq \in Nat
        /\ listed \in Seq(Decision) /\ Len(listed) \in 0..Len(notable)
        /\ \A k \in 1..Len(notable) : notable[k].seq \in Nat /\ notable[k] \in Decision
    <2>1. /\ seq \in Nat /\ notable \in Seq(Decision) /\ decisionSeq \in Nat
          /\ listed \in Seq(Decision) /\ Len(listed) <= Len(notable)
      BY DEF TypeOK, BridgeInv, BridgeType, ListInSync
    <2> QED BY <2>1, DecisionsNumbered
  <1>1. listed' = notable
    <2> DEFINE m == Len(listed)
               late == SubSeq(notable, m + 1, Len(notable))
    <2>1. \A k \in 1..Len(notable) : notable[k].seq > decisionSeq <=> k > m
      BY <1>0 DEF BridgeInv, ListInSync
    <2>2. listed' = listed \o late
      BY <1>0, <2>1, DecisionsAfter DEF ReadDecisions
    <2>3. /\ late \in Seq(Decision)
          /\ Len(late) = Len(notable) - m
          /\ \A i \in 1..(Len(notable) - m) : late[i] = notable[m + i]
      <3>1. \A i \in (m + 1)..Len(notable) : notable[i] \in Decision
        BY <1>0
      <3>2. /\ late \in Seq(Decision)
            /\ Len(late) = IF m + 1 <= Len(notable) THEN Len(notable) - (m + 1) + 1 ELSE 0
            /\ \A i \in 1..(Len(notable) - (m + 1) + 1) : late[i] = notable[m + 1 + i - 1]
        BY <1>0, <3>1, SubSeqProperties
      <3> HIDE DEF late
      <3> QED BY <1>0, <3>2
    <2> HIDE DEF late
    <2>4. /\ listed' \in Seq(Decision) /\ Len(listed') = Len(notable)
          /\ \A i \in 1..Len(notable) : listed'[i] = IF i <= m THEN listed[i] ELSE late[i - m]
      BY <1>0, <2>2, <2>3, ConcatProperties
    <2>5. \A i \in 1..Len(notable) : listed'[i] = notable[i]
      <3> SUFFICES ASSUME NEW i \in 1..Len(notable) PROVE listed'[i] = notable[i]
        OBVIOUS
      <3>1. CASE i <= m
        BY <1>0, <2>4, <3>1 DEF BridgeInv, ListInSync
      <3>2. CASE i > m
        <4>1. i - m \in 1..(Len(notable) - m) /\ m + (i - m) = i
          BY <1>0, <3>2
        <4>2. late[i - m] = notable[m + (i - m)]
          BY <2>3, <4>1
        <4>3. listed'[i] = late[i - m]
          BY <1>0, <2>4, <3>2
        <4> QED BY <4>1, <4>2, <4>3
      <3> QED BY <1>0, <3>1, <3>2
    <2> QED BY <1>0, <2>4, <2>5, SeqEqual
  <1>2. BridgeType'
    BY <1>0 DEF BridgeInv, BridgeType, ReadDecisions, vars
  <1>3. Numbered' /\ TableInSync'
    BY StillInSync DEF ReadDecisions
  <1>4. ListInSync'
    <2>1. /\ decisionSeq' = seq /\ notable' = notable
          /\ \A k \in 1..Len(notable) : notable[k].seq <= seq
      BY DEF ReadDecisions, vars, BridgeInv, Numbered
    <2> QED BY <1>0, <1>1, <2>1 DEF ListInSync
  <1>5. EndIsRead'
    BY <1>1 DEF BridgeInv, EndIsRead, ReadDecisions, vars
  <1>6. WakeHeld'
    BY DEF BridgeInv, WakeHeld, Awake, ReadDecisions, vars
  <1> QED BY <1>2, <1>3, <1>4, <1>5, <1>6 DEF BridgeInv

LEMMA ShowProgressKeeps ==
  ASSUME BridgeInv, ShowProgress
  PROVE  BridgeInv'
  <1>1. BridgeType'
    BY DEF BridgeInv, BridgeType, ShowProgress, vars
  <1>2. Numbered' /\ TableInSync' /\ ListInSync'
    BY StillInSync DEF ShowProgress
  <1>3. EndIsRead'
    BY DEF BridgeInv, EndIsRead, ShowProgress, vars
  <1>4. WakeHeld'
    BY DEF BridgeInv, WakeHeld, Awake, ShowProgress, vars
  <1> QED BY <1>1, <1>2, <1>3, <1>4 DEF BridgeInv

\* A pull that read the end leaves all of it.
LEMMA EndPullKeeps ==
  ASSUME BridgeInv, EndPull
  PROVE  BridgeInv'
  <1>1. BridgeType'
    BY DEF BridgeInv, BridgeType, EndPull, vars, Progress
  <1>2. Numbered' /\ TableInSync' /\ ListInSync'
    BY StillInSync DEF EndPull
  <1>3. EndIsRead'
    BY DEF BridgeInv, EndIsRead, LastPullIsComplete, EndPull, vars
  <1>4. WakeHeld'
    BY DEF BridgeInv, WakeHeld, Awake, EndIsRead, EndPull, vars
  <1> QED BY <1>1, <1>2, <1>3, <1>4 DEF BridgeInv

LEMMA CloseKeeps ==
  ASSUME BridgeInv, Close \/ AbandonPull
  PROVE  BridgeInv'
  <1>1. BridgeType'
    BY DEF BridgeInv, BridgeType, Close, AbandonPull, vars, viewVars
  <1>2. Numbered' /\ TableInSync' /\ ListInSync'
    BY StillInSync DEF Close, AbandonPull, viewVars
  <1>3. EndIsRead'
    BY DEF BridgeInv, EndIsRead, LastPullIsComplete, Close, AbandonPull, vars, viewVars
  <1>4. WakeHeld'
    BY DEF WakeHeld, Close, AbandonPull
  <1> QED BY <1>1, <1>2, <1>3, <1>4 DEF BridgeInv

\* What the window shows, what it has read up to and what wakes it, at every step of
\* a pull.
THEOREM BridgeInvariant == BridgeSpec => []BridgeInv
  <1>1. BridgeInit => BridgeInv
    <2> SUFFICES ASSUME BridgeInit PROVE BridgeInv
      OBVIOUS
    <2>1. NoRow \in Row /\ NoProgress \in Progress
      BY DEF NoRow, Row, NoProgress, Progress
    <2>2. seq = 0 /\ rows = [p \in Pairs |-> NoRow] /\ notable = <<>> /\ table = rows /\ listed = <<>>
      BY DEF BridgeInit, Init
    <2>3. BridgeType
      <3>1. table \in [Pairs -> Row]
        BY <2>1, <2>2
      <3>2. rowSeq \in 0..seq /\ decisionSeq \in 0..seq /\ snap \in Progress /\ progress \in Progress
        BY <2>1, <2>2 DEF BridgeInit
      <3>3. hooks \in Nat /\ readable \in BOOLEAN /\ open \in BOOLEAN /\ done \in BOOLEAN /\ pc = "idle"
        BY DEF BridgeInit
      <3> QED BY <3>1, <3>2, <3>3 DEF BridgeType
    <2>4. Numbered /\ TableInSync
      BY <2>2 DEF Numbered, TableInSync, NoRow
    <2>5. ListInSync
      BY <2>2 DEF ListInSync
    <2>6. EndIsRead
      BY DEF BridgeInit, EndIsRead, NoProgress
    <2>7. WakeHeld
      BY DEF BridgeInit, WakeHeld, Awake
    <2> QED BY <2>3, <2>4, <2>5, <2>6, <2>7 DEF BridgeInv
  <1>2. TypeOK /\ BridgeInv /\ [BridgeNext]_bridgeVars => BridgeInv'
    <2> SUFFICES ASSUME TypeOK, BridgeInv, [BridgeNext]_bridgeVars
                 PROVE  BridgeInv'
      OBVIOUS
    <2>1. CASE RunApply \/ RunFinish
      BY <2>1, RunStepGrows, GrowthKeeps
    <2>2. CASE Poke
      BY <2>2, PokeKeeps
    <2>3. CASE PullOnWake \/ PullOnTick
      BY <2>3, DrainKeeps DEF PullOnWake, PullOnTick
    <2>4. CASE Pull
      BY <2>4, ReadProgressKeeps, ReadRowsKeeps, ReadDecisionsKeeps, ShowProgressKeeps,
         EndPullKeeps, CloseKeeps DEF Pull
    <2>5. CASE Close
      BY <2>5, CloseKeeps
    <2>6. CASE UNCHANGED bridgeVars
      <3>1. UNCHANGED <<vars, hooks, readable, open, viewVars>>
        BY <2>6 DEF bridgeVars
      <3>2. BridgeType' /\ EndIsRead' /\ WakeHeld'
        BY <3>1 DEF BridgeInv, BridgeType, EndIsRead, LastPullIsComplete, WakeHeld, Awake,
                    vars, viewVars
      <3>3. Numbered' /\ TableInSync' /\ ListInSync'
        BY <3>1, StillInSync DEF viewVars
      <3> QED BY <3>2, <3>3 DEF BridgeInv
    <2> QED BY <2>1, <2>2, <2>3, <2>4, <2>5, <2>6 DEF BridgeNext
  <1>3. BridgeSpec => []TypeOK
    BY BridgeRuns, TypeCorrect
  <1> QED BY <1>1, <1>2, <1>3, PTL DEF BridgeSpec

\* Every pull leaves the table in step, and the last one leaves the whole run.
THEOREM PullsLoseNothing == BridgeSpec => []PullsAreComplete
  <1>1. TypeOK /\ BridgeInv => PullsAreComplete
    <2> SUFFICES ASSUME TypeOK, BridgeInv PROVE PullsAreComplete
      OBVIOUS
    <2>1. seq \in Nat
      BY DEF TypeOK
    <2>2. BridgeTypeOK
      BY <2>1 DEF BridgeInv, BridgeType, ListInSync, BridgeTypeOK
    <2> QED BY <2>2 DEF BridgeInv, EndIsRead, PullsAreComplete, LastPullIsComplete
  <1>2. BridgeSpec => []TypeOK
    BY BridgeRuns, TypeCorrect
  <1> QED BY <1>1, <1>2, BridgeInvariant, PTL

\* A view at rest that is behind the run has a wake coming.
THEOREM NoWakeIsLost == BridgeSpec => []NoLostWake
  <1>1. BridgeInv => NoLostWake
    BY DEF BridgeInv, BridgeType, WakeHeld, Awake, NoLostWake
  <1> QED BY <1>1, BridgeInvariant, PTL

-----------------------------------------------------------------------------
(* What the window shows.                                                  *)

\* A row on the screen is one the run's row may have come from.
Follows == \A p \in Pairs : Board!Moves(table[p].state, rows[p].state)

LEMMA MovesChain ==
  ASSUME NEW a, NEW b, NEW c, Board!Moves(a, b), Board!Moves(b, c)
  PROVE  Board!Moves(a, c)
BY DEF Board!Moves, Settled

LEMMA RunMovesRows ==
  ASSUME TypeOK, Next, NEW p \in Pairs
  PROVE  Board!Moves(rows[p].state, rows'[p].state)
BY EventsMoveRows, FinishSettles DEF Next

LEMMA FollowsCorrect == BridgeSpec => []Follows
  <1>1. BridgeInit => Follows
    BY DEF BridgeInit, Init, Follows, Board!Moves
  <1>2. TypeOK /\ BridgeInv /\ BridgeInv' /\ Follows /\ [BridgeNext]_bridgeVars => Follows'
    <2> SUFFICES ASSUME TypeOK, BridgeInv, BridgeInv', Follows, [BridgeNext]_bridgeVars
                 PROVE  Follows'
      OBVIOUS
    <2>1. CASE RunApply \/ RunFinish
      <3>1. Next /\ table' = table
        BY <2>1 DEF RunApply, RunFinish, Next, viewVars
      <3> QED BY <3>1, RunMovesRows, MovesChain DEF Follows
    <2>2. CASE ReadRows
      <3>1. rows' = rows
        BY <2>2 DEF ReadRows, vars
      <3>2. \A p \in Pairs : table'[p] = rows[p] \/ table'[p] = table[p]
        BY <2>2 DEF ReadRows
      <3> QED BY <3>1, <3>2 DEF Follows, Board!Moves
    <2>3. CASE ~ReadRows /\ ~RunApply /\ ~RunFinish
      <3>1. rows' = rows /\ table' = table
        BY <2>3 DEF BridgeNext, Poke, PullOnWake, PullOnTick, Drain, Pull, ReadProgress,
             ReadDecisions, ShowProgress, EndPull, AbandonPull, Close, bridgeVars, vars, viewVars
      <3> QED BY <3>1 DEF Follows
    <2> QED BY <2>1, <2>2, <2>3
  <1>3. BridgeSpec => []TypeOK
    BY BridgeRuns, TypeCorrect
  <1> QED BY <1>1, <1>2, <1>3, BridgeInvariant, PTL DEF BridgeSpec

\* The table of the window implements the result board: no verdict that was shown
\* is taken back, and when the view is done nothing is shown as running.
THEOREM ScreenImplementsBoard == BridgeSpec => ScreenIsABoard
  <1> DEFINE states == [p \in Pairs |-> table[p].state]
  <1>1. BridgeInit => Screen!BoardInit
    BY DEF BridgeInit, NoRow, Screen!BoardInit
  <1>2. BridgeInv /\ Closed /\ Follows /\ BridgeInv' /\ Closed' /\ [BridgeNext]_bridgeVars
          => [Screen!Advance]_(Screen!bvars)
    <2> SUFFICES ASSUME BridgeInv, Closed, Follows, BridgeInv', Closed', [BridgeNext]_bridgeVars
                 PROVE  Screen!Advance \/ UNCHANGED Screen!bvars
      OBVIOUS
    <2>0. /\ table' \in [Pairs -> Row] /\ done \in BOOLEAN /\ done' \in BOOLEAN
          /\ \A p \in Pairs : states[p] = table[p].state /\ states'[p] = table'[p].state
      BY DEF BridgeInv, BridgeType
    <2>1. states' \in [Pairs -> Settled \cup {"absent", "running"}]
      BY <2>0 DEF Row, States
    <2>2. CASE ReadRows
      <3>1. ~done /\ done' = done
        BY <2>2 DEF ReadRows, BridgeInv, EndIsRead
      <3>2. \A p \in Pairs : table'[p] = rows[p] \/ table'[p] = table[p]
        BY <2>2 DEF ReadRows
      <3>3. \A p \in Pairs : Screen!Moves(states[p], states'[p])
        BY <2>0, <3>2 DEF Follows, Board!Moves, Screen!Moves
      <3>4. Screen!Advance
        BY <2>0, <2>1, <3>1, <3>3 DEF Screen!Advance
      <3> QED BY <3>4
    <2>3. CASE EndPull
      <3>1. ~done /\ table' = table
        BY <2>3 DEF EndPull, BridgeInv, EndIsRead
      <3>2. \A p \in Pairs : Screen!Moves(states[p], states'[p])
        BY <2>0, <3>1 DEF Screen!Moves
      <3>3. done' => \A p \in Pairs : states'[p] # "running"
        BY <2>0 DEF BridgeInv, EndIsRead, LastPullIsComplete, Closed
      <3>4. Screen!Advance
        BY <2>0, <2>1, <3>1, <3>2, <3>3 DEF Screen!Advance
      <3> QED BY <3>4
    <2>4. CASE ~ReadRows /\ ~EndPull
      <3>1. table' = table /\ done' = done
        BY <2>4 DEF BridgeNext, RunApply, RunFinish, Poke, PullOnWake, PullOnTick, Drain, Pull,
             ReadProgress, ReadDecisions, ShowProgress, AbandonPull, Close, bridgeVars, viewVars
      <3> QED BY <3>1 DEF Screen!bvars
    <2> QED BY <2>2, <2>3, <2>4
  <1>3. BridgeSpec => []Closed
    BY BridgeRuns, ClosedCorrect
  <1>4. BridgeInit /\ [][BridgeNext]_bridgeVars /\ []BridgeInv /\ []Closed /\ []Follows
          => Screen!BoardInit /\ [][Screen!Advance]_(Screen!bvars)
    BY <1>1, <1>2, PTL
  <1> QED BY <1>3, <1>4, BridgeInvariant, FollowsCorrect, PTL
          DEF BridgeSpec, ScreenIsABoard, Screen!BoardSpec

=============================================================================
