------------------------------ MODULE RunBridge ------------------------------
(***************************************************************************)
(* A run watched from the window: app/runbridge.cpp pulls over the C ABI   *)
(* (capi/capi.go) from the run model of CaptureRun, which the engine's     *)
(* goroutines change at any moment between two calls of one pull.          *)
(*                                                                         *)
(* After each change the emitter calls the OnChange hook it read under the *)
(* run's lock, outside that lock; the hook pokes a non-blocking self-pipe, *)
(* and the readable pipe, or a 500 ms tick, starts a pull.                 *)
(***************************************************************************)
EXTENDS CaptureRun

CONSTANT Emitters   \* goroutines that may be inside apply or its hook at once

ASSUME EmittersAssumption == Emitters \in Nat \ {0}

VARIABLES
  hooks,      \* emitters that left the run's lock and have yet to poke
  readable,   \* the notifier's pipe holds a byte
  open,       \* the handle is registered: omegacat_close has not been called
  pc,         \* where RunBridge::pull stands
  snap,       \* the progress this pull read
  rowSeq,     \* m_rowSeq
  decisionSeq,\* m_decisionSeq
  table,      \* the rows delivered by rowsChanged, by pair
  listed,     \* the decisions delivered by decisionsAdded
  progress,   \* m_progress
  done        \* m_finished

viewVars == <<pc, snap, rowSeq, decisionSeq, table, listed, progress, done>>
bridgeVars == <<vars, hooks, readable, open, viewVars>>

Progress == [finished: BOOLEAN, tally: [States -> Int]]
NoProgress == [finished |-> FALSE, tally |-> [s \in States |-> 0]]

\* RunBridge::adopt queues one pull of its own, since a run can finish before
\* the event loop sees the first wake: the pipe is readable from the start.
BridgeInit ==
  /\ Init
  /\ hooks = 0
  /\ readable = TRUE
  /\ open = TRUE
  /\ pc = "idle"
  /\ snap = NoProgress
  /\ rowSeq = 0
  /\ decisionSeq = 0
  /\ table = [p \in Pairs |-> NoRow]
  /\ listed = <<>>
  /\ progress = NoProgress
  /\ done = FALSE

-----------------------------------------------------------------------------
(* The run's side.                                                         *)

\* OnChange(nil) at close: an event applied later captures no hook.
CaptureHook == hooks' = IF open THEN hooks + 1 ELSE hooks

RunApply ==
  /\ hooks < Emitters
  /\ \E ev \in Emitted : Apply(ev)
  /\ CaptureHook
  /\ UNCHANGED <<readable, open, viewVars>>

\* Finish without waking anybody.
SilentFinish ==
  /\ ~finished
  /\ hooks = 0
  /\ Finish
  /\ UNCHANGED <<hooks, readable, open, viewVars>>

\* The run's own goroutine calls Finish once, after Engine.Capture returned and
\* with it every worker's last hook.
RunFinish ==
  /\ ~finished
  /\ hooks = 0
  /\ Finish
  /\ CaptureHook
  /\ UNCHANGED <<readable, open, viewVars>>

\* runState.poke: nothing is written once the notifier is gone.
Poke ==
  /\ hooks > 0
  /\ hooks' = hooks - 1
  /\ readable' = (readable \/ open)
  /\ UNCHANGED <<vars, open, viewVars>>

-----------------------------------------------------------------------------
(* The window's side: one pull, a call at a time.                          *)

Drain ==
  /\ open /\ ~done
  /\ pc = "idle"
  /\ pc' = "drained"
  /\ readable' = FALSE
  /\ UNCHANGED <<vars, hooks, open, snap, rowSeq, decisionSeq, table, listed,
                 progress, done>>

PullOnWake == readable /\ Drain
PullOnTick == ~readable /\ Drain

ReadProgress ==
  /\ open
  /\ pc = "drained"
  /\ pc' = "progress"
  /\ snap' = [finished |-> finished, tally |-> tally]
  /\ UNCHANGED <<vars, hooks, readable, open, rowSeq, decisionSeq, table, listed,
                 progress, done>>

\* Run.RowsSince: the rows changed after m_rowSeq, and the number to pass next.
ReadRows ==
  /\ open
  /\ pc = "progress"
  /\ pc' = "rows"
  /\ rowSeq' = seq
  /\ table' = [p \in Pairs |-> IF rows[p].seq > rowSeq THEN rows[p] ELSE table[p]]
  /\ UNCHANGED <<vars, hooks, readable, open, snap, decisionSeq, listed, progress,
                 done>>

\* Run.DecisionsSince: its loop over the list, k decisions into it.
DecisionsSince(n) ==
  LET out[k \in 0..Len(notable)] ==
        IF k = 0 THEN <<>>
        ELSE IF notable[k].seq > n THEN Append(out[k - 1], notable[k])
        ELSE out[k - 1]
  IN out[Len(notable)]

\* From here on a slot of the signal just emitted may have closed the bridge, and
\* pull goes on only while the handle is its own.
ReadDecisions ==
  /\ open
  /\ pc = "rows"
  /\ pc' = "decisions"
  /\ decisionSeq' = seq
  /\ listed' = listed \o DecisionsSince(decisionSeq)
  /\ UNCHANGED <<vars, hooks, readable, open, snap, rowSeq, table, progress, done>>

ShowProgress ==
  /\ open
  /\ pc = "decisions"
  /\ pc' = "shown"
  /\ progress' = snap
  /\ UNCHANGED <<vars, hooks, readable, open, snap, rowSeq, decisionSeq, table,
                 listed, done>>

\* Asking the run again instead of the progress this pull began with.
EndOnLatest ==
  /\ open
  /\ pc = "shown"
  /\ pc' = "idle"
  /\ done' = finished
  /\ UNCHANGED <<vars, hooks, readable, open, snap, rowSeq, decisionSeq, table,
                 listed, progress>>

\* Draining at the end of a pull as well.
EndDrained ==
  /\ open
  /\ pc = "shown"
  /\ pc' = "idle"
  /\ done' = snap.finished
  /\ readable' = FALSE
  /\ UNCHANGED <<vars, hooks, open, snap, rowSeq, decisionSeq, table, listed,
                 progress>>

EndPull ==
  /\ open
  /\ pc = "shown"
  /\ pc' = "idle"
  /\ done' = snap.finished
  /\ UNCHANGED <<vars, hooks, readable, open, snap, rowSeq, decisionSeq, table,
                 listed, progress>>

\* The handle was closed under the pull: it returns.
AbandonPull ==
  /\ ~open
  /\ pc # "idle"
  /\ pc' = "idle"
  /\ UNCHANGED <<vars, hooks, readable, open, snap, rowSeq, decisionSeq, table,
                 listed, progress, done>>

\* RunBridge::close, from the event loop or from a slot of the signal a pull has
\* just emitted.
Close ==
  /\ open
  /\ pc \in {"idle", "rows", "decisions", "shown"}
  /\ open' = FALSE
  /\ readable' = FALSE
  /\ UNCHANGED <<vars, hooks, viewVars>>

Pull == ReadProgress \/ ReadRows \/ ReadDecisions \/ ShowProgress \/ EndPull \/ AbandonPull

BridgeNext ==
  \/ RunApply \/ RunFinish \/ Poke
  \/ PullOnWake \/ PullOnTick
  \/ Pull
  \/ Close

\* The hook and the event loop run when they can.  The tick is not needed for
\* anything below and gets no fairness; neither does the engine.
Fairness == WF_bridgeVars(Poke) /\ WF_bridgeVars(PullOnWake) /\ WF_bridgeVars(Pull)

BridgeSpec == BridgeInit /\ [][BridgeNext]_bridgeVars /\ Fairness

-----------------------------------------------------------------------------
(* Properties.                                                             *)

BridgeTypeOK ==
  /\ TypeOK
  /\ hooks \in Nat
  /\ readable \in BOOLEAN /\ open \in BOOLEAN /\ done \in BOOLEAN
  /\ pc \in {"idle", "drained", "progress", "rows", "decisions", "shown"}
  /\ snap \in Progress /\ progress \in Progress
  /\ rowSeq \in Nat /\ decisionSeq \in Nat
  /\ table \in [Pairs -> Row]
  /\ listed \in Seq(Decision)

\* A row the run has not changed since the view last read is in the table as it
\* is: incremental pulls lose nothing, whatever is emitted between two calls.
TableInSync ==
  \A p \in Pairs : rows[p].seq <= rowSeq => table[p] = rows[p]

\* pull stops for good at the first progress that says finished.  It read that
\* progress before the rows and the decisions, so what it leaves on the screen
\* is the whole run.
LastPullIsComplete ==
  done => /\ finished
          /\ table = rows
          /\ listed = notable
          /\ progress.tally = tally

\* Pulling by change numbers loses nothing: every pull leaves the table in step,
\* and the last one leaves the whole run.
PullsAreComplete == BridgeTypeOK /\ TableInSync /\ LastPullIsComplete

\* The pipe is drained before anything is read: a view at rest that has not
\* seen the latest change, or the end, has a wake waiting or on its way.
NoLostWake ==
  open /\ ~done /\ pc = "idle"
    /\ (rowSeq < seq \/ decisionSeq < seq \/ progress.finished # finished)
  => readable \/ hooks > 0

\* A finished run is seen to finish without the help of the tick.
FinishIsSeen == finished ~> (done \/ ~open)

\* What the window shows is a result board too, which the end of the last pull
\* closes: pulling in steps never shows a verdict and then takes it back.
Screen == INSTANCE ResultBoard WITH
  Cells <- Pairs, Verdicts <- Settled, absent <- "absent", running <- "running",
  board <- [p \in Pairs |-> table[p].state], closed <- done

ScreenIsABoard == Screen!BoardSpec

=============================================================================
