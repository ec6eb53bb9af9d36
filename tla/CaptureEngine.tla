--------------------------- MODULE CaptureEngine ---------------------------
(***************************************************************************)
(* One capture run: Engine.Capture of internal/capture/capture.go and the  *)
(* goroutine of capi/capture.go that owns it.                              *)
(*                                                                         *)
(* A visit is one entry of the device list.  All visits are goroutines     *)
(* from the start; Concurrency of them hold a slot, and commands declared  *)
(* expensive share a narrower lane.  The context may be cancelled at any   *)
(* moment.                                                                 *)
(*                                                                         *)
(* The run model appears as what its rows do with an event: their states,  *)
(* a ResultBoard, which CaptureRun's property RunIsABoard justifies for    *)
(* any order of events.  Events that touch no row's state are left out.    *)
(* So are the session's bytes (a command comes back with an answer or an   *)
(* error, within its timeout) and the store's disk, which is FileStore's.  *)
(***************************************************************************)
EXTENDS Integers, FiniteSets, Sequences

CONSTANTS
  Identities,    \* the claim keys of the run's devices
  Visits,        \* positions in the device list
  IdOf,          \* the identity each is visited under
  Specs,         \* the types selected, in the caller's order
  Expensive,     \* the types with a command declared CostExpensive
  Concurrency,   \* Config.Concurrency
  LaneWidth      \* Config.ExpensiveConcurrency

ASSUME VisitsAssumption == IsFiniteSet(Visits) /\ IdOf \in [Visits -> Identities]
ASSUME LimitsAssumption == Concurrency \in Nat \ {0} /\ LaneWidth \in Nat \ {0}

VARIABLES
  phase,      \* where each visit's goroutine stands
  todo,       \* the types it still owes a result
  slots,      \* the visits holding a place in sem
  lane,       \* the visits holding a place in expLane
  results,    \* the Results, by visit and type
  rows,       \* the state of the run model's rows
  finished,   \* Run.Finish was called
  cancelled,  \* the context is done
  runState    \* runResult.State

engineVars == <<phase, todo, slots, lane, results, rows, finished, cancelled, runState>>

Types == {Specs[k] : k \in DOMAIN Specs}

\* New refuses an empty selection, and a type selected twice.
ASSUME SpecsAssumption ==
  /\ Specs \in Seq(Types) \ {<<>>}
  /\ \A j, k \in DOMAIN Specs : Specs[j] = Specs[k] => j = k

Pairs == Identities \X Types
Errors == {"error", "cancelled"}
Outcomes == {"stored", "unchanged", "notapplicable"} \cup Errors
Verdict(outcome) == IF outcome \in Errors THEN "failed" ELSE outcome

EngineInit ==
  /\ phase = [v \in Visits |-> "waiting"]
  /\ todo = [v \in Visits |-> <<>>]
  /\ slots = {}
  /\ lane = {}
  /\ results = [v \in Visits |-> [t \in Types |-> "none"]]
  /\ rows = [p \in Pairs |-> "absent"]
  /\ finished = FALSE
  /\ cancelled = FALSE
  /\ runState = "running"

-----------------------------------------------------------------------------
(* What the run model does with an event (run.go applyLocked).             *)

\* capture-start opens the row; a row that was settled stays settled.
RowOpens(p) == rows' = [rows EXCEPT ![p] = IF @ = "absent" THEN "running" ELSE @]

\* The last terminal event wins.
RowResettles(p, s) == rows' = [rows EXCEPT ![p] = s]

\* A terminal event settles it, the first one only.
RowSettles(p, s) == rows' = [rows EXCEPT ![p] = IF @ \in {"absent", "running"} THEN s ELSE @]

Running(i) == {p \in Pairs : p[1] = i /\ rows[p] = "running"}

\* device-failed takes the device's open rows with it.
DeviceDies(i) == rows' = [p \in Pairs |-> IF p \in Running(i) THEN "failed" ELSE rows[p]]

-----------------------------------------------------------------------------
(* Engine.Capture.                                                         *)

\* Engine.ordered: cheap types first, the caller's order within each lane.
GoesBefore(t, u) ==
  \/ t \notin Expensive /\ u \in Expensive
  \/ /\ t \in Expensive <=> u \in Expensive
     /\ \E j, k \in DOMAIN Specs : j < k /\ Specs[j] = t /\ Specs[k] = u

\* A set of one.
Ordered ==
  {order \in [DOMAIN Specs -> Types] :
     /\ \A t \in Types : \E n \in DOMAIN Specs : order[n] = t
     /\ \A m, n \in DOMAIN Specs : m < n => GoesBefore(order[m], order[n])}

Cell(v) == <<IdOf[v], Head(todo[v])>>

\* The visit's current type gets its Result and its terminal event, and the
\* visit turns to the next.
Conclude(v, outcome) ==
  /\ results' = [results EXCEPT ![v][Head(todo[v])] = outcome]
  /\ RowSettles(Cell(v), Verdict(outcome))
  /\ todo' = [todo EXCEPT ![v] = Tail(@)]

\* The error of a failure: ctx.Err() when the context is what ended it.
Reasons == IF cancelled THEN Errors ELSE {"error"}

Goto(v, place) == phase' = [phase EXCEPT ![v] = place]

run == <<finished, cancelled, runState>>

\* A slot, and a look at the cancel that came while waiting for it.
Enter(v) ==
  /\ runState = "running" /\ phase[v] = "waiting"
  /\ Cardinality(slots) < Concurrency
  /\ slots' = slots \cup {v}
  /\ Goto(v, IF cancelled THEN "dead" ELSE "dialling")
  /\ UNCHANGED <<todo, lane, results, rows, run>>

GiveUpWaiting(v) ==
  /\ runState = "running" /\ phase[v] = "waiting" /\ cancelled
  /\ Goto(v, "dead")
  /\ UNCHANGED <<todo, slots, lane, results, rows, run>>

-----------------------------------------------------------------------------
(* Engine.visit.                                                           *)

\* The dial, the session or the fingerprint failed.
Lose(v) ==
  /\ phase[v] = "dialling"
  /\ Goto(v, "dead")
  /\ UNCHANGED <<todo, slots, lane, results, rows, run>>

\* Connected, fingerprinted and named.
Connect(v) ==
  /\ phase[v] = "dialling"
  /\ \E order \in Ordered : todo' = [todo EXCEPT ![v] = order]
  /\ Goto(v, "next")
  /\ UNCHANGED <<slots, lane, results, rows, run>>

Owing(v) == phase[v] = "next" /\ todo[v] # <<>>

\* The loop looks at the context before each type.
SkipCancelled(v) ==
  /\ Owing(v) /\ cancelled
  /\ Conclude(v, "cancelled")
  /\ UNCHANGED <<phase, slots, lane, run>>

-----------------------------------------------------------------------------
(* Engine.one.                                                             *)

\* No command for this platform, or not for this model.
Decline(v) ==
  /\ Owing(v) /\ ~cancelled
  /\ Conclude(v, "notapplicable")
  /\ UNCHANGED <<phase, slots, lane, run>>

Ask(v) ==
  /\ Owing(v) /\ ~cancelled
  /\ Head(todo[v]) \notin Expensive
  /\ RowOpens(Cell(v))
  /\ Goto(v, "asked")
  /\ UNCHANGED <<todo, slots, lane, results, run>>

QueueForLane(v) ==
  /\ Owing(v) /\ ~cancelled
  /\ Head(todo[v]) \in Expensive
  /\ Goto(v, "queueing")
  /\ UNCHANGED <<todo, slots, lane, results, rows, run>>

EnterLane(v) ==
  /\ phase[v] = "queueing"
  /\ Cardinality(lane) < LaneWidth
  /\ lane' = lane \cup {v}
  /\ RowOpens(Cell(v))
  /\ Goto(v, "asked")
  /\ UNCHANGED <<todo, slots, results, run>>

LeaveQueue(v) ==
  /\ phase[v] = "queueing" /\ cancelled
  /\ Conclude(v, "cancelled")
  /\ Goto(v, "next")
  /\ UNCHANGED <<slots, lane, run>>

\* The lane given back only by a command that answered.
LaneKept(v, outcome) == IF outcome \in Errors THEN lane ELSE lane \ {v}

\* The deferred release, on every way out.
LaneAfter(v, outcome) == lane \ {v}

\* What came back: a stored or unchanged artifact, a refusal or an empty reply,
\* or an error of the command or of the store.
Answer(v) ==
  /\ phase[v] = "asked"
  /\ \E outcome \in (Outcomes \ Errors) \cup Reasons :
       Conclude(v, outcome) /\ lane' = LaneAfter(v, outcome)
  /\ Goto(v, "next")
  /\ UNCHANGED <<slots, run>>

\* A slot a dead device keeps.
LeaveHolding(v) ==
  /\ phase[v] \in {"next", "reporting"} /\ todo[v] = <<>>
  /\ slots' = IF phase[v] = "next" THEN slots \ {v} ELSE slots
  /\ Goto(v, "done")
  /\ UNCHANGED <<todo, lane, results, rows, run>>

\* visit returns, and the slot with it.
Leave(v) ==
  /\ phase[v] \in {"next", "reporting"} /\ todo[v] = <<>>
  /\ slots' = slots \ {v}
  /\ Goto(v, "done")
  /\ UNCHANGED <<todo, lane, results, rows, run>>

-----------------------------------------------------------------------------
(* Engine.deviceFailed.                                                    *)

\* Nothing said of the types of a device that was never reached.
DeadAlone(v) ==
  /\ phase[v] = "dead"
  /\ DeviceDies(IdOf[v])
  /\ Goto(v, "reporting")
  /\ UNCHANGED <<todo, slots, lane, results, run>>

Dead(v) ==
  /\ phase[v] = "dead"
  /\ DeviceDies(IdOf[v])
  /\ todo' = [todo EXCEPT ![v] = Specs]
  /\ Goto(v, "reporting")
  /\ UNCHANGED <<slots, lane, results, run>>

\* One failed Result and one event for every type, not for the device alone.
ReportType(v) ==
  /\ phase[v] = "reporting" /\ todo[v] # <<>>
  /\ \E reason \in Reasons : Conclude(v, reason)
  /\ UNCHANGED <<phase, slots, lane, run>>

-----------------------------------------------------------------------------
(* The run: capi/capture.go runCapture.                                    *)

engine == <<phase, todo, slots, lane, results>>

AllDone == \A v \in Visits : phase[v] = "done"

\* capturedial.Build, or the template database, failed.
BuildFails ==
  /\ runState = "running" /\ \A v \in Visits : phase[v] = "waiting"
  /\ runState' = "failed"
  /\ UNCHANGED <<engine, rows, finished, cancelled>>

\* A run called done unless everything in it was dropped.
JudgeByRows ==
  /\ runState = "running" /\ AllDone
  /\ runState' = IF cancelled /\ \A p \in Pairs : rows[p] = "failed" THEN "cancelled" ELSE "done"
  /\ UNCHANGED <<engine, rows, finished, cancelled>>

Judge ==
  /\ runState = "running" /\ AllDone
  /\ runState' = IF cancelled THEN "cancelled" ELSE "done"
  /\ UNCHANGED <<engine, rows, finished, cancelled>>

\* Run.Finish, the last thing that happens: what is still running fails.
Finish ==
  /\ runState # "running" /\ ~finished
  /\ finished' = TRUE
  /\ rows' = [p \in Pairs |-> IF rows[p] = "running" THEN "failed" ELSE rows[p]]
  /\ UNCHANGED <<engine, cancelled, runState>>

\* omegacat_cancel and omegacat_close: the context is done from here on.
Cancel ==
  /\ ~cancelled
  /\ cancelled' = TRUE
  /\ UNCHANGED <<engine, rows, finished, runState>>

Visit(v) ==
  \/ Enter(v) \/ GiveUpWaiting(v) \/ Lose(v) \/ Connect(v)
  \/ SkipCancelled(v) \/ Decline(v) \/ Ask(v)
  \/ QueueForLane(v) \/ EnterLane(v) \/ LeaveQueue(v) \/ Answer(v)
  \/ Dead(v) \/ ReportType(v) \/ Leave(v)

EngineNext == (\E v \in Visits : Visit(v)) \/ BuildFails \/ Judge \/ Finish \/ Cancel

EngineSpec == EngineInit /\ [][EngineNext]_engineVars

\* Goroutines are scheduled and every wait on a device is bounded: the dial and
\* each command have a timeout.  Nothing obliges anybody to cancel, and a build
\* need not fail.  Weak fairness is enough: a visit that waits for a slot or for
\* the lane waits for finitely many others.
FairSpec ==
  /\ EngineSpec
  /\ \A v \in Visits : WF_engineVars(Visit(v))
  /\ WF_engineVars(Judge)
  /\ WF_engineVars(Finish)

-----------------------------------------------------------------------------
(* Properties.                                                             *)

Settled == {"stored", "unchanged", "notapplicable", "failed"}

EngineTypeOK ==
  /\ phase \in [Visits -> {"waiting", "dialling", "next", "queueing", "asked", "dead",
                        "reporting", "done"}]
  /\ todo \in [Visits -> Seq(Types)]
  /\ slots \in SUBSET Visits
  /\ lane \in SUBSET Visits
  /\ results \in [Visits -> [Types -> Outcomes \cup {"none"}]]
  /\ rows \in [Pairs -> Settled \cup {"absent", "running"}]
  /\ finished \in BOOLEAN
  /\ cancelled \in BOOLEAN
  /\ runState \in {"running", "failed", "done", "cancelled"}

\* Slots and the lane bound what the devices are asked for at once, and come
\* back on every way out: a goroutine holds its slot from its dial to the end of
\* its visit, and the lane exactly while an expensive command is out.
PlacesReturned ==
  /\ Cardinality(slots) <= Concurrency /\ Cardinality(lane) <= LaneWidth
  /\ \A v \in Visits :
       /\ phase[v] \in {"waiting", "done"} => v \notin slots
       /\ phase[v] \in {"dialling", "next", "queueing", "asked"} => v \in slots
       /\ v \in lane <=> phase[v] = "asked" /\ Head(todo[v]) \in Expensive

\* Only a command that is out on a device shows as running: no emit site leaves
\* a row behind, so Finish has nothing to settle ("missing emit, not a timeout").
RunningIsReal ==
  \A p \in Pairs : rows[p] = "running" =>
    \E v \in Visits : phase[v] = "asked" /\ p = Cell(v)

\* Slot, lane and running row are let go on every way out of a visit.
NothingLeftOpen == EngineTypeOK /\ PlacesReturned /\ RunningIsReal

\* Every pair asked for has a row when the engine returns, a dead or cancelled
\* device's too, and its verdict is a Result's of that pair: the table and the
\* Results tell one story (TestEveryPairGetsExactlyOneRowAndARealResult).
TableIsTheResults ==
  AllDone => \A v \in Visits, t \in Types :
    \E u \in Visits : /\ IdOf[u] = IdOf[v]
                      /\ rows[<<IdOf[v], t>>] = Verdict(results[u][t])

\* A run that says it is done owes nobody a result and dropped none for a cancel,
\* whenever the cancel came (runCapture asks the context after the engine).
DoneIsDone ==
  runState = "done" =>
    \A v \in Visits, t \in Types : results[v][t] \notin {"none", "cancelled"}

\* Every run ends, with all its visits queueing for the slots and the lane, as long
\* as no device holds the opening of its shell for ever (NetSession's OnDevice).
RunEnds == <>finished

\* The rows are a result board, closed with the run's last word on it.
Board == INSTANCE ResultBoard WITH
  Cells <- Pairs, Verdicts <- Settled, absent <- "absent", running <- "running",
  board <- rows, closed <- finished

EngineIsABoard == Board!BoardSpec

=============================================================================
