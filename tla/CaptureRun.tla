----------------------------- MODULE CaptureRun -----------------------------
(***************************************************************************)
(* The run model of internal/capturerun/run.go: events in, table rows out. *)
(* Run.apply and Run.Finish each hold Run.mu from start to end, so each is *)
(* one action here.  The module leaves the emitter open: any event of an   *)
(* emit site may arrive at any time before Finish, twice, or in an odd     *)
(* order, as run_test.go drives it and as two visits of one identity do.   *)
(*                                                                         *)
(* Abstracted: timestamps, digests, command and detail wording, and        *)
(* Run.order (the keys of Run.rows in order of first appearance), which    *)
(* only decides the order of a listing and of the numbers Finish hands out.*)
(***************************************************************************)
EXTENDS Integers, FiniteSets, Sequences

CONSTANTS
  Identities,   \* the claim keys of the run's devices (Event.Identity)
  Types,        \* the capture types selected (Event.Type)
  Names,        \* canonical device names
  Platforms,    \* fingerprint results
  Paths,        \* stored files
  Sizes,        \* sizes of stored files, in bytes
  None,         \* the empty string of any of these fields
  MaxSeq,       \* bound on the number of events one behaviour applies
  EmitKinds     \* bound on the kinds of event one behaviour draws from

ASSUME FinitePairs == IsFiniteSet(Identities) /\ IsFiniteSet(Types)
ASSUME SizesAssumption == Sizes \subseteq Nat
ASSUME NoneAssumption ==
  None \notin Identities \cup Types \cup Names \cup Platforms \cup Paths

VARIABLES
  seq,          \* Run.seq: numbers every change
  rows,         \* Run.rows: [Pairs -> Row], state "absent" when there is none
  devices,      \* Run.devices
  notable,      \* Run.notable: the decisions list
  tally,        \* Run.counts: the rows counted by state
  counts,       \* Run.counts: the other counters
  finished      \* Run.finished is set

vars == <<seq, rows, devices, notable, tally, counts, finished>>

Pairs == Identities \X Types
Settled == {"stored", "unchanged", "notapplicable", "failed"}
States == Settled \cup {"running"}

Row == [state: States \cup {"absent"}, name: Names \cup {None},
        platform: Platforms \cup {None}, sent: BOOLEAN,
        bytes: Sizes \cup {0}, path: Paths \cup {None}, seq: Nat]

NoRow == [state |-> "absent", name |-> None, platform |-> None, sent |-> FALSE,
          bytes |-> 0, path |-> None, seq |-> 0]

Device == [seen: BOOLEAN, name: Names \cup {None},
           platform: Platforms \cup {None}, failed: BOOLEAN]

Counts == [devices: Nat, devicesFailed: Nat, bytesStored: Nat,
           newHostKeys: Nat, credRejections: Nat]

-----------------------------------------------------------------------------
(* Events: what the emit sites of the engine, of the dialer's host-key     *)
(* callback and of the credential observer construct.                      *)

DeviceKinds == {"queued", "connected", "platform", "device-done",
                "device-failed", "resolved", "named", "auth-ok"}
CaptureKinds == {"capture-start", "stored", "unchanged", "not-applicable",
                 "capture-failed"}
RunKinds == {"auth-reject", "cred-parked", "host-key-new"}
Kinds == DeviceKinds \cup CaptureKinds \cup RunKinds

Event == [kind: Kinds, id: Identities \cup {None}, type: Types \cup {None},
          name: Names \cup {None}, platform: Platforms \cup {None},
          noted: BOOLEAN, bytes: Sizes \cup {0}, path: Paths \cup {None}]

Decision == [ev: Event, seq: Nat]

Blank(kind, id) ==
  [kind |-> kind, id |-> id, type |-> None, name |-> None, platform |-> None,
   noted |-> FALSE, bytes |-> 0, path |-> None]

PlatformEvent(i, pf, n) == [Blank("platform", i) EXCEPT !.platform = pf, !.noted = n]
NameEvent(k, i, n) == [Blank(k, i) EXCEPT !.name = n]
CaptureEvent(k, i, t) == [Blank(k, i) EXCEPT !.type = t]
ResultEvent(k, i, t, b, f) ==
  [Blank(k, i) EXCEPT !.type = t, !.bytes = b, !.path = f]

PlatformEvents ==
  {PlatformEvent(i, pf, n) : i \in Identities, pf \in Platforms, n \in BOOLEAN}

NameEvents ==
  {NameEvent(k, i, n) :
      k \in {"resolved", "named"}, i \in Identities, n \in Names \cup {None}}

CaptureEvents ==
  {CaptureEvent(k, i, t) :
      k \in CaptureKinds \ {"stored", "unchanged"}, i \in Identities, t \in Types}

ResultEvents ==
  {ResultEvent(k, i, t, b, f) :
      k \in {"stored", "unchanged"}, i \in Identities, t \in Types,
      b \in Sizes, f \in Paths}

AllEvents ==
  PlatformEvents \cup NameEvents \cup CaptureEvents \cup ResultEvents
    \cup {Blank(k, i) : k \in DeviceKinds \ {"platform", "resolved", "named"},
                        i \in Identities}
    \cup {Blank(k, i) : k \in {"auth-reject", "host-key-new"},
                        i \in Identities \cup {None}}
    \cup {Blank("cred-parked", None)}

Emitted == {ev \in AllEvents : ev.kind \in EmitKinds}

\* Event.Notable: whether an event belongs in the decisions list.
Notable(ev) ==
  \/ ev.kind \in {"device-failed", "capture-failed", "not-applicable", "named",
                  "auth-reject", "cred-parked", "host-key-new"}
  \/ ev.kind = "platform" /\ ev.noted

\* Run.alreadySaid: a capture failure on a device already reported dead.
AlreadySaid(ev) ==
  /\ ev.kind = "capture-failed"
  /\ ev.id # None
  /\ devices[ev.id].failed

-----------------------------------------------------------------------------
(* Run.apply.                                                              *)

Init ==
  /\ seq = 0
  /\ rows = [p \in Pairs |-> NoRow]
  /\ devices = [i \in Identities |->
                  [seen |-> FALSE, name |-> None, platform |-> None, failed |-> FALSE]]
  /\ notable = <<>>
  /\ tally = [s \in States |-> 0]
  /\ counts = [devices |-> 0, devicesFailed |-> 0, bytesStored |-> 0,
               newHostKeys |-> 0, credRejections |-> 0]
  /\ finished = FALSE

\* What every event does first: it is numbered, and listed when it is notable.
\* The engine has returned before Finish is called (capi/capture.go runCapture),
\* so no event follows it.
Receive(ev) ==
  /\ ~finished
  /\ seq < MaxSeq
  /\ seq' = seq + 1
  /\ notable' = IF Notable(ev) /\ ~AlreadySaid(ev)
                THEN Append(notable, [ev |-> ev, seq |-> seq + 1])
                ELSE notable
  /\ UNCHANGED finished

\* Run.device: the device's record, created and counted on first mention.
Seen(i) == [devices[i] EXCEPT !.seen = TRUE]
FirstSight(i) == IF devices[i].seen THEN 0 ELSE 1

\* A host key or a rejection is a fact of the run: counted before the identity
\* is looked at, and no device is opened for it.
ApplyRunWide(ev) ==
  /\ ev.kind \in {"host-key-new", "auth-reject"}
  /\ Receive(ev)
  /\ counts' = IF ev.kind = "host-key-new"
               THEN [counts EXCEPT !.newHostKeys = @ + 1]
               ELSE [counts EXCEPT !.credRejections = @ + 1]
  /\ UNCHANGED <<rows, devices, tally>>

\* An event with no identity is listed and goes no further.
ApplyAnonymous(ev) ==
  /\ ev.kind \notin {"host-key-new", "auth-reject"}
  /\ ev.id = None
  /\ Receive(ev)
  /\ UNCHANGED <<rows, devices, tally, counts>>

\* Queued, connected, done and auth-ok only make the device known.
ApplyDevice(ev) ==
  /\ ev.kind \in {"queued", "connected", "device-done", "auth-ok"}
  /\ ev.id # None
  /\ Receive(ev)
  /\ devices' = [devices EXCEPT ![ev.id] = Seen(ev.id)]
  /\ counts' = [counts EXCEPT !.devices = @ + FirstSight(ev.id)]
  /\ UNCHANGED <<rows, tally>>

\* A fact learned of a device is stamped on every row it has so far.
HasRow(i, p) == p[1] = i /\ rows[p].state # "absent"

\* A stamp that does not number the row.
stampSilently(i, pf) ==
  [p \in Pairs |-> IF HasRow(i, p) THEN [rows[p] EXCEPT !.platform = pf] ELSE rows[p]]

stampPlatform(i, pf) ==
  [p \in Pairs |-> IF HasRow(i, p)
                   THEN [rows[p] EXCEPT !.platform = pf, !.seq = seq + 1]
                   ELSE rows[p]]

stampName(i, n) ==
  [p \in Pairs |-> IF HasRow(i, p)
                   THEN [rows[p] EXCEPT !.name = n, !.seq = seq + 1]
                   ELSE rows[p]]

ApplyPlatform(ev) ==
  /\ ev.kind = "platform"
  /\ Receive(ev)
  /\ devices' = [devices EXCEPT ![ev.id] = [Seen(ev.id) EXCEPT !.platform = ev.platform]]
  /\ rows' = stampPlatform(ev.id, ev.platform)
  /\ counts' = [counts EXCEPT !.devices = @ + FirstSight(ev.id)]
  /\ UNCHANGED tally

\* An empty name does not erase a known one.
ApplyName(ev) ==
  /\ ev.kind \in {"resolved", "named"}
  /\ Receive(ev)
  /\ \/ /\ ev.name # None
        /\ devices' = [devices EXCEPT ![ev.id] = [Seen(ev.id) EXCEPT !.name = ev.name]]
        /\ rows' = stampName(ev.id, ev.name)
     \/ /\ ev.name = None
        /\ devices' = [devices EXCEPT ![ev.id] = Seen(ev.id)]
        /\ UNCHANGED rows
  /\ counts' = [counts EXCEPT !.devices = @ + FirstSight(ev.id)]
  /\ UNCHANGED tally

Running(S) == {p \in S : rows[p].state = "running"}

\* A dead device takes its open rows with it.
ApplyDeviceFail(ev) ==
  LET open == Running({p \in Pairs : p[1] = ev.id}) IN
  /\ ev.kind = "device-failed"
  /\ Receive(ev)
  /\ devices' = [devices EXCEPT ![ev.id] = [Seen(ev.id) EXCEPT !.failed = TRUE]]
  /\ counts' = [counts EXCEPT
                  !.devices = @ + FirstSight(ev.id),
                  !.devicesFailed = @ + (IF devices[ev.id].failed THEN 0 ELSE 1)]
  /\ rows' = [p \in Pairs |-> IF p \in open
                              THEN [rows[p] EXCEPT !.state = "failed", !.seq = seq + 1]
                              ELSE rows[p]]
  /\ tally' = [tally EXCEPT !["running"] = @ - Cardinality(open),
                            !["failed"] = @ + Cardinality(open)]

\* A row opened without its device's facts.
OpenedBlank(p) ==
  IF rows[p].state # "absent" THEN rows[p]
  ELSE [NoRow EXCEPT !.state = "running", !.seq = seq + 1]

\* Run.row: the pair's row, opened as running on first mention with the facts
\* its device already has.
Opened(p) ==
  IF rows[p].state # "absent" THEN rows[p]
  ELSE [NoRow EXCEPT !.state = "running", !.name = devices[p[1]].name,
                     !.platform = devices[p[1]].platform, !.seq = seq + 1]
CountEachRow(p) == 1   \* counted at every lookup
FirstRow(p) == IF rows[p].state = "absent" THEN 1 ELSE 0

ApplyCaptureStart(ev) ==
  LET p == <<ev.id, ev.type>> IN
  /\ ev.kind = "capture-start"
  /\ Receive(ev)
  /\ devices' = [devices EXCEPT ![ev.id] = Seen(ev.id)]
  /\ counts' = [counts EXCEPT !.devices = @ + FirstSight(ev.id)]
  /\ rows' = [rows EXCEPT ![p] = [Opened(p) EXCEPT !.sent = TRUE, !.seq = seq + 1]]
  /\ tally' = [tally EXCEPT !["running"] = @ + FirstRow(p)]

\* Run.settle: out of running exactly once; what else a terminal event carries
\* is taken on the same condition.
Settle(row, s, ev) ==
  IF row.state # "running" THEN row
  ELSE [row EXCEPT !.state = s, !.seq = seq + 1,
          !.bytes = IF s \in {"stored", "unchanged"} THEN ev.bytes ELSE @,
          !.path = IF s \in {"stored", "unchanged"} THEN ev.path ELSE @]

Outcome(kind) ==
  CASE kind = "stored" -> "stored"
    [] kind = "unchanged" -> "unchanged"
    [] kind = "not-applicable" -> "notapplicable"
    [] kind = "capture-failed" -> "failed"

BytesGained(p, s, ev) ==
  IF Opened(p).state = "running" /\ s = "stored" THEN ev.bytes ELSE 0

ApplyTerminal(ev) ==
  LET p == <<ev.id, ev.type>>
      s == Outcome(ev.kind)
      settles == Opened(p).state = "running"
  IN
  /\ ev.kind \in CaptureKinds \ {"capture-start"}
  /\ Receive(ev)
  /\ devices' = [devices EXCEPT ![ev.id] = Seen(ev.id)]
  /\ counts' = [counts EXCEPT
                  !.devices = @ + FirstSight(ev.id),
                  !.bytesStored = @ + BytesGained(p, s, ev)]
  /\ rows' = [rows EXCEPT ![p] = Settle(Opened(p), s, ev)]
  /\ tally' = IF settles
              THEN [tally EXCEPT !["running"] = @ + FirstRow(p) - 1, ![s] = @ + 1]
              ELSE tally

Apply(ev) ==
  \/ ApplyRunWide(ev)
  \/ ApplyAnonymous(ev)
  \/ ApplyDevice(ev)
  \/ ApplyPlatform(ev)
  \/ ApplyName(ev)
  \/ ApplyDeviceFail(ev)
  \/ ApplyCaptureStart(ev)
  \/ ApplyTerminal(ev)

\* Finish leaving the open rows open.
FinishOpen == finished' = TRUE /\ UNCHANGED <<seq, rows, devices, notable, tally, counts>>

\* Run.Finish: each row still running fails under a number of its own, handed
\* out in the order the rows appeared, which this module leaves open.
Finish ==
  LET open == Running(Pairs)
      numbers == (seq + 1)..(seq + Cardinality(open))
  IN
  /\ finished' = TRUE
  /\ seq' = seq + Cardinality(open)
  /\ \E number \in [open -> numbers] :
       /\ \A p, q \in open : number[p] = number[q] => p = q
       /\ rows' = [p \in Pairs |-> IF p \in open
                                   THEN [rows[p] EXCEPT !.state = "failed", !.seq = number[p]]
                                   ELSE rows[p]]
  /\ tally' = [tally EXCEPT !["running"] = @ - Cardinality(open),
                            !["failed"] = @ + Cardinality(open)]
  /\ UNCHANGED <<devices, notable, counts>>

Next == (\E ev \in Emitted : Apply(ev)) \/ Finish

Spec == Init /\ [][Next]_vars

-----------------------------------------------------------------------------
(* Properties.                                                             *)

TypeOK ==
  /\ seq \in Nat
  /\ rows \in [Pairs -> Row]
  /\ devices \in [Identities -> Device]
  /\ notable \in Seq(Decision)
  /\ tally \in [States -> Int]
  /\ counts \in Counts
  /\ finished \in BOOLEAN

\* The counters the summary shows are counted on transitions (run.go settle,
\* row), never recomputed: whatever arrives, twice or late, they agree with
\* the table.
TallyAgrees ==
  \A s \in States : tally[s] = Cardinality({p \in Pairs : rows[p].state = s})

\* A device's name and platform are held once and copied onto its rows
\* (stampPlatform, stampName, row): whichever came first, the fact or the row,
\* they never disagree.
FactsAgree ==
  \A p \in Pairs : rows[p].state # "absent" =>
    /\ rows[p].name = devices[p[1]].name
    /\ rows[p].platform = devices[p[1]].platform

\* Counts.BytesStored is the size of what the table says was stored, every byte
\* of every stored file once: a second terminal event must not add its bytes
\* (run.go, the comment in KindStored).
StoredBytes ==
  UNION {{p} \X (1..rows[p].bytes) : p \in {q \in Pairs : rows[q].state = "stored"}}

BytesAgree == counts.bytesStored = Cardinality(StoredBytes)

\* What a row shows of its device and its size, the devices and the summary say
\* too, after any events, in any order and repeated.
RowsAgree == TypeOK /\ FactsAgree /\ BytesAgree

\* Whatever changes a row numbers it above every number handed out before,
\* Finish included: a view that has read up to seq will see the change.
EveryChangeIsNumbered ==
  [][\A p \in Pairs : rows'[p] # rows[p] => rows'[p].seq > seq /\ rows'[p].seq <= seq']_vars

\* The rows are a result board that Finish closes.
Board == INSTANCE ResultBoard WITH
  Cells <- Pairs, Verdicts <- Settled, absent <- "absent", running <- "running",
  board <- [p \in Pairs |-> rows[p].state], closed <- finished

RunIsABoard == Board!BoardSpec

=============================================================================
