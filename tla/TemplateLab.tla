----------------------------- MODULE TemplateLab -----------------------------
(***************************************************************************)
(* The template database and its one engine in memory: the Template Lab's  *)
(* calls (capi/templates.go over internal/tfsmlab), the runs that parse    *)
(* with it (sharedTemplates, engineFor of capi/capture.go) and the engine's*)
(* Open, Reload and Filter (internal/tfsmfire).                            *)
(*                                                                         *)
(* The window makes one long call at a time, on a thread of its own; runs  *)
(* open the engine whenever they start, and another program's Lab edits the*)
(* same file.  A step is what one lock or one SQLite statement covers.     *)
(*                                                                         *)
(* SQLite is external: a transaction that read before another one committed*)
(* does not commit.  Abstracted: the id column, samples, and TextFSM, which*)
(* is a score per body.  Netlapse's own inserts, which check no name, are  *)
(* left out.                                                               *)
(***************************************************************************)
EXTENDS Integers, FiniteSets, Sequences
LOCAL INSTANCE FiniteSetsExt

CONSTANTS
  MaxRow,            \* bound on the rowids
  Names, Bodies,
  Score,             \* what a body scores on the output; 0 when it does not compile
  Accepted,          \* MinScore
  Named,             \* the names each of the two filters, "command" and "vendor", admits
  Shipped,           \* the rows of the seed
  Threads,           \* the bridge's worker threads
  Others,            \* other programs' Labs on the file
  Runs,
  MaxEdits,          \* bound on the edits tried
  None

Rows == 1..MaxRow
Row == [name: Names, body: Bodies]
Writers == Threads \cup Others

ASSUME FiltersAssumption == Named["command"] \subseteq Named["vendor"]
ASSUME ShippedAssumption ==
  /\ Shipped \in [Rows -> Row \cup {None}] /\ None \notin Row \cup [Rows -> Row \cup {None}]
  /\ \A r, s \in Rows : Shipped[r] # None /\ Shipped[s] # None /\ Shipped[r].name = Shipped[s].name => r = s
ASSUME ActorsAssumption == Threads \cap Runs = {} /\ None \notin Threads \cup Runs
ASSUME ScoresAssumption == MaxRow \in Nat /\ Score \in [Bodies -> Nat] /\ Accepted \in Nat

VARIABLES
  file,       \* the rows of the database, None while there is no file
  engine,     \* templateDBs[path]: the rows it holds, None while nobody opened it
  mutex,      \* who holds templatesMu
  pc,         \* where each call or run stands
  asked,      \* the edit a writer was asked for, None for a sweep
  resolved,   \* TemplateBridge.m_resolved: the window knows its path
  current,    \* the writer's transaction: nothing was committed since it read
  read,       \* the rows a load has read and not yet published
  sweep,      \* the answers of the last sweep, as far as it got
  told,       \* the last reload failed, and the Lab said so
  edits,      \* the edits tried so far
  mine        \* ghost: the one value the window's Lab left in a row; empty elsewhere

vars == <<file, engine, mutex, pc, asked, resolved, current, read, sweep, told, edits, mine>>

Everyone == Writers \cup Runs
NoSweep == [tried |-> -1, best |-> None, fallback |-> None, candidates |-> None]

Init ==
  /\ file \in {None, Shipped}
  /\ engine = None
  /\ mutex = None
  /\ pc = [p \in Everyone |-> "idle"]
  /\ asked = [w \in Writers |-> None]
  /\ resolved = FALSE
  /\ current = [w \in Writers |-> FALSE]
  /\ read = [p \in Everyone |-> None]
  /\ sweep = NoSweep
  /\ told = FALSE
  /\ edits = 0
  /\ mine = [r \in Rows |-> {}]

Goto(p, place) == pc' = [pc EXCEPT ![p] = place]

-----------------------------------------------------------------------------
(* The engine's readings.                                                  *)

Live(rows) == {r \in Rows : rows[r] # None}

\* Filter: the rows whose name has every term of the hint, in one reading.
Filter(rows, hint) == {r \in Live(rows) : rows[r].name \in Named[hint]}

\* FindBest: the best score above zero, the lowest rowid among equals.
FindBest(rows, hint) ==
  LET scored == {r \in Filter(rows, hint) : Score[rows[r].body] > 0}
  IN IF scored = {} THEN None
     ELSE CHOOSE r \in scored : \A s \in scored \ {r} :
            Score[rows[s].body] < Score[rows[r].body]
              \/ (Score[rows[s].body] = Score[rows[r].body] /\ r < s)

\* parseWith: what a parse accepts.
Succeeds(rows, best) == best # None /\ Score[rows[best].body] >= Accepted

-----------------------------------------------------------------------------
(* The file: EnsureDB, and the edits of tfsmlab.                           *)

unmoved == <<engine, mutex, read, sweep, told>>
onFile == <<file, asked, resolved, current, edits, mine>>

Work(p) == IF p \in Writers /\ asked[p] # None THEN "ready" ELSE "open"

Resolves(p) == resolved' = (resolved \/ p \in Threads)

\* EnsureDB looks before it writes, and what it then writes it writes over
\* whatever is there by now; a transaction on the file it replaces fails.  What
\* the Lab had saved in that file is gone, and no longer `mine`.
Stat(p) ==
  /\ pc[p] = "stat"
  /\ IF file = None THEN Goto(p, "seed") /\ UNCHANGED resolved
     ELSE Goto(p, Work(p)) /\ Resolves(p)
  /\ UNCHANGED <<file, asked, current, edits, mine, unmoved>>

Seed(p) ==
  /\ pc[p] = "seed"
  /\ file' = Shipped
  /\ current' = [w \in Writers |-> FALSE]
  /\ mine' = [r \in Rows |-> {}]
  /\ Goto(p, Work(p)) /\ Resolves(p)
  /\ UNCHANGED <<asked, edits, unmoved>>

\* A call made while another one runs.
FreeAlways(t) == pc[t] = "idle"

\* The bridge is not busy.
Free(t) == \A u \in Threads : pc[u] = "idle"

\* TemplateBridge::path resolves the default once; another program was just started.
Path(w, work) == Goto(w, IF w \in Threads /\ resolved THEN work ELSE "stat")

Ask(w) ==
  /\ IF w \in Threads THEN Free(w) ELSE pc[w] = "idle"
  /\ edits < MaxEdits
  /\ asked' \in {[asked EXCEPT ![w] = e] :
                   e \in [row: Rows \cup {0}, name: Names, body: Bodies] \cup [row: Rows, name: {None}, body: {None}]}
  /\ edits' = edits + 1
  /\ Path(w, "ready")
  /\ UNCHANGED <<file, resolved, current, mine, unmoved>>

Deletes(w) == asked[w].name = None

\* refuseDuplicate, within the transaction that will write.
NameIsFree(w) ==
  \A r \in Live(file) : r # asked[w].row => file[r].name # asked[w].name

\* Update of a row that is there, or Create.
CanWrite(w) == NameIsFree(w) /\ (asked[w].row = 0 \/ asked[w].row \in Live(file))

Check(w) ==
  /\ pc[w] = "ready" /\ ~Deletes(w)
  /\ IF CanWrite(w)
     THEN Goto(w, "write") /\ current' = [current EXCEPT ![w] = TRUE]
     ELSE Goto(w, "idle") /\ UNCHANGED current
  /\ UNCHANGED <<file, asked, resolved, edits, mine, unmoved>>

\* A commit of what was read before somebody else's.
CommitsAnyway(w) == TRUE

Commits(w) == current[w]

\* The rowid SQLite gives a new row: one past the largest in use.
NextRow == Max(Live(file) \cup {0}) + 1

Put(w, r, row) ==
  /\ file' = [file EXCEPT ![r] = row]
  /\ current' = [u \in Writers |-> FALSE]
  /\ mine' = [mine EXCEPT ![r] = IF w \in Threads THEN {row} ELSE {}]
  /\ Goto(w, IF w \in Threads THEN "reload" ELSE "idle")

Write(w) ==
  /\ pc[w] = "write"
  /\ LET r == IF asked[w].row = 0 THEN NextRow ELSE asked[w].row IN
     /\ r \in Rows
     /\ Commits(w)
     /\ Put(w, r, [name |-> asked[w].name, body |-> asked[w].body])
  /\ UNCHANGED <<asked, resolved, edits, unmoved>>

\* Busy, or out of rows: the transaction rolls back and the call says so.
WriteFails(w) ==
  /\ pc[w] = "write"
  /\ Goto(w, "idle")
  /\ UNCHANGED <<onFile, unmoved>>

Delete(w) ==
  /\ pc[w] = "ready" /\ Deletes(w)
  /\ asked[w].row \in Live(file)
  /\ Put(w, asked[w].row, None)
  /\ UNCHANGED <<asked, resolved, edits, unmoved>>

\* No such row, or busy: the call says so and reloads nothing.
DeleteFails(w) ==
  /\ pc[w] = "ready" /\ Deletes(w)
  /\ Goto(w, "idle")
  /\ UNCHANGED <<onFile, unmoved>>

-----------------------------------------------------------------------------
(* The engine: engineFor and reloadShared, which share templatesMu.        *)

\* A reload that does not wait for an open under way.
LookNow == TRUE

LooksNext == mutex = None

\* reloadShared: nothing to do when nobody has opened the engine.
Look(t) ==
  /\ pc[t] = "reload" /\ LooksNext
  /\ Goto(t, IF engine = None THEN "idle" ELSE "load")
  /\ UNCHANGED <<onFile, unmoved>>

\* Reload reads the file outside the engine's lock, and publishes under it.
ReloadReads(t) ==
  /\ pc[t] = "load"
  /\ read' = [read EXCEPT ![t] = file]
  /\ Goto(t, "publish")
  /\ UNCHANGED <<onFile, engine, mutex, sweep, told>>

ReloadFails(t) ==
  /\ pc[t] = "load"
  /\ told' = TRUE
  /\ Goto(t, "idle")
  /\ UNCHANGED <<onFile, engine, mutex, read, sweep>>

Publish(t) ==
  /\ pc[t] = "publish"
  /\ engine' = read[t]
  /\ read' = [read EXCEPT ![t] = None]
  /\ told' = FALSE
  /\ Goto(t, "idle")
  /\ UNCHANGED <<onFile, mutex, sweep>>

\* A run that parses, or a sweep, asks for the engine.
StartRun(p) ==
  /\ pc[p] = "idle" /\ p \in Runs
  /\ Goto(p, "stat")
  /\ UNCHANGED <<onFile, unmoved>>

StartSweep(t) ==
  /\ Free(t)
  /\ sweep' = NoSweep
  /\ asked' = [asked EXCEPT ![t] = None]
  /\ Path(t, "open")
  /\ UNCHANGED <<file, resolved, current, edits, mine, engine, mutex, read, told>>

Opened(p) == IF p \in Runs THEN "parsing" ELSE "primary"

\* engineFor: the shared one, or Open under the lock.
EngineFor(p) ==
  /\ pc[p] = "open" /\ mutex = None
  /\ IF engine # None THEN Goto(p, Opened(p)) /\ UNCHANGED mutex
     ELSE Goto(p, "opening") /\ mutex' = p
  /\ UNCHANGED <<onFile, engine, read, sweep, told>>

OpenReads(p) ==
  /\ pc[p] = "opening"
  /\ read' = [read EXCEPT ![p] = file]
  /\ Goto(p, "register")
  /\ UNCHANGED <<onFile, engine, mutex, sweep, told>>

OpenFails(p) ==
  /\ pc[p] = "opening"
  /\ mutex' = None
  /\ Goto(p, "idle")
  /\ UNCHANGED <<onFile, engine, read, sweep, told>>

Register(p) ==
  /\ pc[p] = "register"
  /\ engine' = read[p]
  /\ read' = [read EXCEPT ![p] = None]
  /\ mutex' = None
  /\ told' = FALSE
  /\ Goto(p, Opened(p))
  /\ UNCHANGED <<onFile, sweep>>

\* A run is over; the engine stays open for the life of the process.
EndRun(p) ==
  /\ pc[p] = "parsing"
  /\ Goto(p, "idle")
  /\ UNCHANGED <<onFile, unmoved>>

-----------------------------------------------------------------------------
(* RunSweep: up to three readings of the engine.                           *)

Swept(t, place, s) ==
  /\ sweep' = s
  /\ Goto(t, place)
  /\ UNCHANGED <<onFile, engine, mutex, read, told>>

Winner(best) == IF best = None THEN None ELSE [row |-> best, of |-> engine[best]]

Primary(t) ==
  /\ pc[t] = "primary"
  /\ LET best == FindBest(engine, "command")
     IN Swept(t, IF Succeeds(engine, best) THEN "candidates" ELSE "fallback",
              [NoSweep EXCEPT !.tried = Cardinality(Filter(engine, "command")), !.best = Winner(best)])

Fallback(t) ==
  /\ pc[t] = "fallback"
  /\ LET best == FindBest(engine, "vendor")
     IN Swept(t, "candidates",
              [sweep EXCEPT !.fallback = IF Succeeds(engine, best) THEN Winner(best) ELSE None])

Candidates(t) ==
  /\ pc[t] = "candidates"
  /\ Swept(t, "idle",
           [sweep EXCEPT !.candidates =
              {[row |-> r, of |-> engine[r]] : r \in Filter(engine, "command")}])

Lab(w) == Ask(w) \/ Check(w) \/ Write(w) \/ WriteFails(w) \/ Delete(w) \/ DeleteFails(w)

Thread(t) ==
  \/ Look(t) \/ ReloadReads(t) \/ ReloadFails(t) \/ Publish(t)
  \/ StartSweep(t) \/ Primary(t) \/ Fallback(t) \/ Candidates(t)

Next ==
  \/ \E w \in Writers : Lab(w)
  \/ \E t \in Threads : Thread(t)
  \/ \E p \in Everyone : Stat(p) \/ Seed(p)
  \/ \E p \in Threads \cup Runs : EngineFor(p) \/ OpenReads(p) \/ OpenFails(p) \/ Register(p)
  \/ \E p \in Runs : StartRun(p) \/ EndRun(p)

Spec == Init /\ [][Next]_vars

-----------------------------------------------------------------------------
(* Properties.                                                             *)

Idle == \A t \in Threads : pc[t] = "idle"

\* A save or delete "reaches the engine captures use, so the next capture parses
\* with it" (templatelabview.h), unless the Lab said that it did not: also when a
\* run was opening the engine at that moment, before or after the file changed.
\* Excused: what was saved in a file that an EnsureDB under way then replaced,
\* though "an existing file is never replaced" (seed.go).
EditsReachCaptures ==
  Idle /\ engine # None /\ ~told =>
    \A r \in Rows : mine[r] \subseteq {engine[r]}

\* The three readings of a sweep are of one set of templates: the candidates it
\* lists are "exactly what the sweep tried" (lab.go), and its winner is of them.
SweepIsOneReading ==
  sweep.candidates # None =>
    /\ sweep.tried = Cardinality(sweep.candidates)
    /\ sweep.best # None => sweep.best \in sweep.candidates
    /\ sweep.fallback # None => sweep.best = None \/ Score[sweep.best.of.body] < Accepted

\* Two Labs that each checked a name before the other wrote it do not leave "two
\* templates the Lab and the capture log cannot tell apart" (db.go, Create).
NamesStayApart ==
  file # None =>
    \A r, s \in Live(file) : file[r].name = file[s].name => r = s

=============================================================================
