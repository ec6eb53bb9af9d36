-------------------------- MODULE TemplateLabProofs --------------------------
(***************************************************************************)
(* The Template Lab, for any number of Labs, threads, runs and rows.       *)
(*                                                                         *)
(* NamesStayApart is not inductive: a write does not look again.  What it  *)
(* rests on is that a writer whose transaction is still current has found  *)
(* the name free in the file as it is now (Checked): whoever commits, or   *)
(* seeds the file anew, ends the transactions that read before.            *)
(*                                                                         *)
(* The engine holds the Lab's edits because whoever has read a file that   *)
(* lacks them still has a reload to come (Reaches): the open holds the lock*)
(* a reload waits for (Stands).  A sweep is one reading because the engine,*)
(* once there, changes in a reload only, and the bridge makes one call at a*)
(* time (Stands): what its first reading found still holds (Reads).        *)
(***************************************************************************)
EXTENDS TemplateLab, FiniteSetTheorems, TLAPS

Table == [Rows -> Row \cup {None}]

Edit == [row: Rows \cup {0}, name: Names, body: Bodies]
          \cup [row: Rows, name: {None}, body: {None}]

Places ==
  {"idle", "stat", "seed", "ready", "write", "reload", "load", "publish",
   "open", "opening", "register", "parsing", "primary", "fallback", "candidates"}

LabTypeOK ==
  /\ file \in Table \cup {None}
  /\ pc \in [Everyone -> Places]
  /\ asked \in [Writers -> Edit \cup {None}]
  /\ current \in [Writers -> BOOLEAN]

\* Where a path is known there is a file, and an edit under way is there too.
Present ==
  /\ resolved => file \in Table
  /\ \A w \in Writers : pc[w] \in {"ready", "write"} => asked[w] \in Edit /\ file \in Table

\* Who is about to write under a current transaction may write.
Checked ==
  \A w \in Writers : pc[w] = "write" => ~Deletes(w) /\ (current[w] => NameIsFree(w))

Apart ==
  file \in Table => \A r, s \in Live(file) : file[r].name = file[s].name => r = s

LabInv == LabTypeOK /\ Present /\ Checked /\ Apart

-----------------------------------------------------------------------------

\* A step that moves one caller on, and not to its write, and neither the file
\* nor anybody's transaction.
Moves(p, place) ==
  /\ Goto(p, place) /\ p \in Everyone /\ place \in Places /\ place # "write"
  /\ place = "ready" => p \in Writers /\ asked[p] \in Edit /\ file \in Table
  /\ resolved' => resolved \/ file \in Table
  /\ UNCHANGED <<file, asked, current>>

LEMMA MovesKeeps ==
  ASSUME LabInv, NEW p, NEW place, Moves(p, place)
  PROVE  LabInv'
  <1>1. /\ pc' = [pc EXCEPT ![p] = place] /\ pc \in [Everyone -> Places]
        /\ \A q \in Everyone : pc'[q] = IF q = p THEN place ELSE pc[q]
    BY DEF LabInv, LabTypeOK, Moves, Goto
  <1>2. LabTypeOK'
    BY <1>1 DEF LabInv, LabTypeOK, Moves
  <1>3. Present'
    BY <1>1 DEF LabInv, Present, Moves, Everyone
  <1>4. Checked'
    BY <1>1 DEF LabInv, Checked, Moves, Everyone, Deletes, NameIsFree
  <1>5. Apart'
    BY DEF LabInv, Apart, Moves
  <1> QED BY <1>2, <1>3, <1>4, <1>5 DEF LabInv

\* A call that begins, with another edit or none, ends no transaction.
LEMMA BeginKeeps ==
  ASSUME LabInv, NEW w \in Writers, NEW e, e \in Edit \cup {None},
         asked' = [asked EXCEPT ![w] = e],
         NEW place, Goto(w, place), place \in Places, place # "write",
         place = "ready" => e \in Edit /\ resolved,
         UNCHANGED <<file, resolved, current>>
  PROVE  LabInv'
  <1>1. /\ pc' = [pc EXCEPT ![w] = place] /\ pc \in [Everyone -> Places]
        /\ w \in Everyone /\ asked \in [Writers -> Edit \cup {None}]
    BY DEF LabInv, LabTypeOK, Everyone, Goto
  <1>2. \A u \in Writers : pc'[u] = IF u = w THEN place ELSE pc[u]
    BY <1>1 DEF Everyone
  <1>3. \A u \in Writers : asked'[u] = IF u = w THEN e ELSE asked[u]
    BY <1>1
  <1>4. LabTypeOK'
    BY <1>1 DEF LabInv, LabTypeOK
  <1>5. Present'
    BY <1>2, <1>3 DEF LabInv, Present
  <1>6. Checked'
    BY <1>2, <1>3 DEF LabInv, Checked, Deletes, NameIsFree
  <1>7. Apart'
    BY DEF LabInv, Apart
  <1> QED BY <1>4, <1>5, <1>6, <1>7 DEF LabInv

LEMMA CheckKeeps ==
  ASSUME LabInv, NEW w \in Writers, Check(w)
  PROVE  LabInv'
  <1>0. /\ pc \in [Everyone -> Places] /\ w \in Everyone /\ current \in [Writers -> BOOLEAN]
        /\ pc[w] = "ready" /\ ~Deletes(w) /\ UNCHANGED <<file, asked, resolved>>
    BY DEF LabInv, LabTypeOK, Everyone, Check
  <1>1. CASE CanWrite(w)
    <2>1. /\ pc' = [pc EXCEPT ![w] = "write"] /\ current' = [current EXCEPT ![w] = TRUE]
          /\ NameIsFree(w)
      BY <1>1 DEF Check, Goto, CanWrite
    <2>2. \A u \in Writers : /\ pc'[u] = IF u = w THEN "write" ELSE pc[u]
                             /\ current'[u] = IF u = w THEN TRUE ELSE current[u]
      BY <1>0, <2>1 DEF Everyone
    <2>3. LabTypeOK'
      BY <1>0, <2>1 DEF LabInv, LabTypeOK, Places
    <2>4. Present'
      BY <1>0, <2>2 DEF LabInv, Present
    <2>5. Checked'
      BY <1>0, <2>1, <2>2 DEF LabInv, Checked, Deletes, NameIsFree
    <2>6. Apart'
      BY <1>0 DEF LabInv, Apart
    <2> QED BY <2>3, <2>4, <2>5, <2>6 DEF LabInv
  <1>2. CASE ~CanWrite(w)
    <2>1. Moves(w, "idle")
      BY <1>0, <1>2 DEF Check, Moves, Places
    <2> QED BY <2>1, MovesKeeps
  <1> QED BY <1>1, <1>2

\* A commit leaves names apart, and nobody with a current transaction.
LEMMA PutKeeps ==
  ASSUME LabInv, NEW w \in Writers, pc[w] \in {"ready", "write"},
         NEW r \in Rows, NEW row \in Row \cup {None}, Put(w, r, row), UNCHANGED <<asked, resolved>>,
         row # None => \A s \in Live(file) : s # r => file[s].name # row.name
  PROVE  LabInv'
  <1>1. file \in Table /\ w \in Everyone /\ pc \in [Everyone -> Places]
    BY DEF LabInv, LabTypeOK, Present, Everyone
  <1>2. /\ file' = [file EXCEPT ![r] = row] /\ file' \in Table
        /\ current' = [u \in Writers |-> FALSE]
    BY <1>1 DEF Put, Table
  <1>3. PICK place \in {"reload", "idle"} : pc' = [pc EXCEPT ![w] = place]
    BY DEF Put, Goto
  <1>4. \A u \in Writers : pc'[u] = IF u = w THEN place ELSE pc[u]
    BY <1>1, <1>3 DEF Everyone
  <1>5. LabTypeOK'
    BY <1>1, <1>2, <1>3 DEF LabInv, LabTypeOK, Places
  <1>6. Present'
    BY <1>2, <1>4 DEF LabInv, Present
  <1>7. Checked'
    BY <1>2, <1>4 DEF LabInv, Checked, Deletes
  <1>8. Apart'
    <2>1. \A s \in Rows : file'[s] = IF s = r THEN row ELSE file[s]
      BY <1>1, <1>2 DEF Table
    <2>2. \A s, t \in Live(file) : file[s].name = file[t].name => s = t
      BY <1>1 DEF LabInv, Apart
    <2> QED BY <2>1, <2>2 DEF Apart, Live
  <1> QED BY <1>5, <1>6, <1>7, <1>8 DEF LabInv

\* EnsureDB: the seed's names are apart, and it ends every transaction.
LEMMA SeedKeeps ==
  ASSUME LabInv, NEW p \in Everyone, Seed(p)
  PROVE  LabInv'
  <1>1. /\ file' = Shipped /\ file' \in Table /\ current' = [w \in Writers |-> FALSE]
        /\ UNCHANGED asked /\ pc' = [pc EXCEPT ![p] = Work(p)]
        /\ pc \in [Everyone -> Places]
    BY ShippedAssumption DEF Seed, Goto, Table, LabInv, LabTypeOK
  <1>2. /\ Work(p) \in Places /\ Work(p) # "write"
        /\ Work(p) = "ready" => p \in Writers /\ asked[p] \in Edit
    BY DEF Work, Places, LabInv, LabTypeOK
  <1> DEFINE place == Work(p)
  <1> HIDE DEF place
  <1>3. \A w \in Writers : pc'[w] = IF w = p THEN place ELSE pc[w]
    BY <1>1 DEF Everyone, place
  <1>4. LabTypeOK'
    BY <1>1, <1>2 DEF LabInv, LabTypeOK
  <1>5. Present'
    BY <1>1, <1>2, <1>3 DEF LabInv, Present, place
  <1>6. Checked'
    BY <1>1, <1>2, <1>3 DEF LabInv, Checked, Deletes, place
  <1>7. Apart'
    BY <1>1, ShippedAssumption DEF Apart, Live
  <1> QED BY <1>4, <1>5, <1>6, <1>7 DEF LabInv

LEMMA StatKeeps ==
  ASSUME LabInv, NEW p \in Everyone, Stat(p)
  PROVE  LabInv'
  <1>1. CASE file = None
    <2>1. Moves(p, "seed")
      BY <1>1 DEF Stat, Moves, Places
    <2> QED BY <2>1, MovesKeeps
  <1>2. CASE file # None
    <2>1. file \in Table
      BY <1>2 DEF LabInv, LabTypeOK
    <2>2. /\ Work(p) \in Places /\ Work(p) # "write"
          /\ Work(p) = "ready" => p \in Writers /\ asked[p] \in Edit
      BY DEF Work, Places, LabInv, LabTypeOK
    <2>3. Moves(p, Work(p))
      BY <1>2, <2>1, <2>2 DEF Stat, Moves
    <2> QED BY <2>3, MovesKeeps
  <1> QED BY <1>1, <1>2

LEMMA LabKeeps ==
  ASSUME LabInv, NEW w \in Writers, Lab(w)
  PROVE  LabInv'
  <1>1. CASE Ask(w)
    <2>1. PICK e \in Edit : asked' = [asked EXCEPT ![w] = e]
      BY <1>1 DEF Ask, Edit
    <2>2. PICK place \in {"ready", "stat"} : Goto(w, place) /\ (place = "ready" => resolved)
      BY <1>1 DEF Ask, Path
    <2>3. place \in Places /\ place # "write"
      BY <2>2 DEF Places
    <2>4. UNCHANGED <<file, resolved, current>>
      BY <1>1 DEF Ask
    <2> QED BY <2>1, <2>2, <2>3, <2>4, BeginKeeps
  <1>2. CASE Check(w)
    BY <1>2, CheckKeeps
  <1>3. CASE Write(w)
    <2> DEFINE row == [name |-> asked[w].name, body |-> asked[w].body]
    <2>1. PICK r \in Rows : /\ Put(w, r, row) /\ current[w]
                            /\ asked[w].row = 0 \/ r = asked[w].row
      BY <1>3 DEF Write, Commits
    <2>2. pc[w] = "write" /\ UNCHANGED <<asked, resolved>>
      BY <1>3 DEF Write
    <2>3. asked[w] \in Edit /\ asked[w].name # None /\ NameIsFree(w)
      BY <2>1, <2>2 DEF LabInv, Present, Checked, Deletes
    <2>4. row \in Row
      BY <2>3 DEF Edit, Row
    <2>5. \A s \in Live(file) : s # r => file[s].name # row.name
      BY <2>1, <2>3 DEF NameIsFree, Live, Rows
    <2> HIDE DEF row
    <2> QED BY <2>1, <2>2, <2>4, <2>5, PutKeeps
  <1>4. CASE WriteFails(w)
    <2>1. Moves(w, "idle")
      BY <1>4 DEF WriteFails, onFile, Moves, Everyone, Places
    <2> QED BY <2>1, MovesKeeps
  <1>5. CASE Delete(w)
    <2>1. Put(w, asked[w].row, None) /\ pc[w] = "ready" /\ UNCHANGED <<asked, resolved>>
      BY <1>5 DEF Delete
    <2>2. asked[w].row \in Rows
      BY <1>5 DEF Delete, Live
    <2> QED BY <2>1, <2>2, PutKeeps
  <1>6. CASE DeleteFails(w)
    <2>1. Moves(w, "idle")
      BY <1>6 DEF DeleteFails, onFile, Moves, Everyone, Places
    <2> QED BY <2>1, MovesKeeps
  <1> QED BY <1>1, <1>2, <1>3, <1>4, <1>5, <1>6 DEF Lab

\* The engine's steps read the file and leave it as it is.
LEMMA EngineKeeps ==
  ASSUME LabInv, NEW p \in Threads \cup Runs,
         EngineFor(p) \/ OpenReads(p) \/ OpenFails(p) \/ Register(p)
  PROVE  LabInv'
  <1>1. p \in Everyone
    BY DEF Everyone, Writers
  <1>2. /\ UNCHANGED onFile
        /\ Goto(p, "opening") \/ Goto(p, "register") \/ Goto(p, "idle")
             \/ Goto(p, "parsing") \/ Goto(p, "primary")
    BY DEF EngineFor, OpenReads, OpenFails, Register, Opened
  <1>3. \/ Moves(p, "opening") \/ Moves(p, "register") \/ Moves(p, "idle")
        \/ Moves(p, "parsing") \/ Moves(p, "primary")
    BY <1>1, <1>2 DEF onFile, Moves, Places
  <1> QED BY <1>3, MovesKeeps

LEMMA ThreadKeeps ==
  ASSUME LabInv, NEW t \in Threads, Thread(t)
  PROVE  LabInv'
  <1>1. t \in Writers /\ t \in Everyone
    BY DEF Writers, Everyone
  <1>2. CASE StartSweep(t)
    <2>1. PICK place \in {"open", "stat"} : Goto(t, place)
      BY <1>2 DEF StartSweep, Path
    <2>2. place \in Places /\ place # "write" /\ place # "ready"
      BY <2>1 DEF Places
    <2>3. asked' = [asked EXCEPT ![t] = None] /\ UNCHANGED <<file, resolved, current>>
      BY <1>2 DEF StartSweep
    <2> QED BY <1>1, <2>1, <2>2, <2>3, BeginKeeps
  <1>3. CASE Look(t) \/ ReloadReads(t) \/ ReloadFails(t) \/ Publish(t)
    <2>1. /\ UNCHANGED onFile
          /\ Goto(t, "idle") \/ Goto(t, "load") \/ Goto(t, "publish")
      BY <1>3 DEF Look, ReloadReads, ReloadFails, Publish
    <2>2. Moves(t, "idle") \/ Moves(t, "load") \/ Moves(t, "publish")
      BY <1>1, <2>1 DEF onFile, Moves, Places
    <2> QED BY <2>2, MovesKeeps
  <1>4. CASE Primary(t) \/ Fallback(t) \/ Candidates(t)
    <2>1. /\ UNCHANGED onFile
          /\ Goto(t, "candidates") \/ Goto(t, "fallback") \/ Goto(t, "idle")
      BY <1>4 DEF Primary, Fallback, Candidates, Swept
    <2>2. Moves(t, "candidates") \/ Moves(t, "fallback") \/ Moves(t, "idle")
      BY <1>1, <2>1 DEF onFile, Moves, Places
    <2> QED BY <2>2, MovesKeeps
  <1> QED BY <1>2, <1>3, <1>4 DEF Thread

LEMMA RunKeeps ==
  ASSUME LabInv, NEW p \in Runs, StartRun(p) \/ EndRun(p)
  PROVE  LabInv'
  <1>1. p \in Everyone /\ UNCHANGED onFile /\ (Goto(p, "stat") \/ Goto(p, "idle"))
    BY DEF Everyone, StartRun, EndRun
  <1>2. Moves(p, "stat") \/ Moves(p, "idle")
    BY <1>1 DEF onFile, Moves, Places
  <1> QED BY <1>2, MovesKeeps

-----------------------------------------------------------------------------

LEMMA LabStarts == Init => LabInv
  <1> SUFFICES ASSUME Init PROVE LabInv
    OBVIOUS
  <1>1. LabTypeOK
    BY ShippedAssumption DEF Init, LabTypeOK, Table, Places
  <1>2. Present /\ Checked
    BY DEF Init, Present, Checked, Everyone
  <1>3. Apart
    BY ShippedAssumption DEF Init, Apart, Live, Table
  <1> QED BY <1>1, <1>2, <1>3 DEF LabInv

LEMMA LabSteps == LabInv /\ [Next]_vars => LabInv'
  <1> SUFFICES ASSUME LabInv, [Next]_vars PROVE LabInv'
    OBVIOUS
  <1>1. CASE \E w \in Writers : Lab(w)
    BY <1>1, LabKeeps
  <1>2. CASE \E t \in Threads : Thread(t)
    BY <1>2, ThreadKeeps
  <1>3. CASE \E p \in Everyone : Stat(p) \/ Seed(p)
    BY <1>3, StatKeeps, SeedKeeps
  <1>4. CASE \E p \in Threads \cup Runs :
               EngineFor(p) \/ OpenReads(p) \/ OpenFails(p) \/ Register(p)
    BY <1>4, EngineKeeps
  <1>5. CASE \E p \in Runs : StartRun(p) \/ EndRun(p)
    BY <1>5, RunKeeps
  <1>6. CASE UNCHANGED vars
    <2>1. UNCHANGED <<file, pc, asked, current, resolved>>
      BY <1>6 DEF vars
    <2>2. LabTypeOK' /\ Present'
      BY <2>1 DEF LabInv, LabTypeOK, Present
    <2>3. Checked'
      BY <2>1 DEF LabInv, Checked, Deletes, NameIsFree
    <2>4. Apart'
      BY <2>1 DEF LabInv, Apart
    <2> QED BY <2>2, <2>3, <2>4 DEF LabInv
  <1> QED BY <1>1, <1>2, <1>3, <1>4, <1>5, <1>6 DEF Next

\* However many Labs, threads and runs work on one template database, seed it,
\* check, commit and lose their transactions (Create, Update and EnsureDB): no
\* two of its templates have one name.
THEOREM NamesApart == Spec => []NamesStayApart
  <1>1. LabInv => NamesStayApart
    BY DEF LabInv, LabTypeOK, Apart, NamesStayApart
  <1> QED BY <1>1, LabStarts, LabSteps, PTL DEF Spec


-----------------------------------------------------------------------------
(* Where the callers stand with the engine, what has reached it, and what a *)
(* sweep has found so far.                                                 *)

Shaped ==
  sweep = [tried |-> sweep.tried, best |-> sweep.best,
           fallback |-> sweep.fallback, candidates |-> sweep.candidates]

\* The bridge makes one call at a time; whoever opens the engine holds the lock
\* and finds none; a call that reloads or reads the engine finds one.
Stands ==
  /\ engine \in Table \cup {None}
  /\ read \in [Everyone -> Table \cup {None}]
  /\ mine \in [Rows -> SUBSET (Row \cup {None})]
  /\ Shaped
  /\ \A t, u \in Threads : pc[t] # "idle" /\ pc[u] # "idle" => t = u
  /\ \A p \in Everyone : pc[p] \notin {"idle", "stat", "seed"} => file \in Table
  /\ \A p \in Threads \cup Runs : pc[p] \in {"opening", "register"} => mutex = p /\ engine = None
  /\ \A t \in Threads :
       pc[t] \in {"load", "publish", "primary", "fallback", "candidates"} => engine \in Table
  /\ \A p \in Threads \cup Runs : pc[p] \in {"publish", "register"} => read[p] \in Table

\* The rows hold whatever the window's Lab left in them.
Has(rows) == \A r \in Rows : mine[r] \subseteq {rows[r]}

Reloading(places) == \E t \in Threads : pc[t] \in places

\* What was read holds the Lab's edits, or a reload is still to come that reads
\* again; so does the engine, unless the Lab said that it does not.
Reaches ==
  /\ \A r \in Rows : file = None => mine[r] = {}
  /\ file # None => Has(file)
  /\ \A p \in Threads \cup Runs : pc[p] = "register" => Reloading({"reload"}) \/ Has(read[p])
  /\ \A t \in Threads : pc[t] = "publish" => Has(read[t])
  /\ engine # None /\ ~told => Has(engine) \/ Reloading({"reload", "load", "publish"})

\* What the first reading found, as long as the sweep goes on, is still what the
\* engine answers.
Reads(t) ==
  LET best == FindBest(engine, "command") IN
  /\ pc[t] \in {"fallback", "candidates"} =>
       /\ sweep.candidates = None
       /\ sweep.tried = Cardinality(Filter(engine, "command"))
       /\ sweep.best = Winner(best)
       /\ sweep.fallback # None => ~Succeeds(engine, best)
  /\ pc[t] = "fallback" => ~Succeeds(engine, best)

Sweeps == SweepIsOneReading /\ \A t \in Threads : Reads(t)

EngineInv == LabInv /\ Stands /\ Reaches /\ Sweeps

\* A step that moves one caller and touches no more than the caller's own edit.
Strolls(p, place) ==
  /\ p \in Everyone /\ Goto(p, place)
  /\ pc[p] \notin {"reload", "load", "publish", "opening", "register"}
  /\ place \notin {"load", "publish", "opening", "register"}
  /\ p \in Threads => pc[p] # "idle" \/ Free(p)
  /\ place \notin {"idle", "stat", "seed"} => file \in Table
  /\ place \in {"primary", "fallback", "candidates"} /\ p \in Threads => engine \in Table
  /\ UNCHANGED <<file, engine, mutex, read, told, mine>>

LEMMA OthersStay ==
  ASSUME EngineInv, NEW p \in Everyone, NEW place, Goto(p, place)
  PROVE  \A q \in Everyone : pc'[q] = IF q = p THEN place ELSE pc[q]
  BY DEF EngineInv, LabInv, LabTypeOK, Goto

LEMMA Callers == Threads \subseteq Everyone /\ Runs \subseteq Everyone /\ Writers \subseteq Everyone
  BY DEF Everyone, Writers

LEMMA NoneIsNoTable == None \notin Table
  BY ShippedAssumption DEF Table

\* A caller that was at work, or that nobody keeps waiting, works alone; and who
\* works has a file.
LEMMA WorksAlone ==
  ASSUME EngineInv, NEW p \in Everyone, NEW place, Goto(p, place),
         p \in Threads => pc[p] # "idle" \/ Free(p),
         place \notin {"idle", "stat", "seed"} => file' \in Table,
         UNCHANGED file \/ file' \in Table
  PROVE  /\ \A t, u \in Threads : pc'[t] # "idle" /\ pc'[u] # "idle" => t = u
         /\ \A q \in Everyone : pc'[q] \notin {"idle", "stat", "seed"} => file' \in Table
  <1>1. \A q \in Everyone : pc'[q] = IF q = p THEN place ELSE pc[q]
    BY OthersStay
  <1> QED BY <1>1, Callers DEF EngineInv, Stands, Free

LEMMA StrollsStand ==
  ASSUME EngineInv, NEW p, NEW place, Strolls(p, place), Shaped'
  PROVE  Stands'
  <1>0. Stands
    BY DEF EngineInv
  <1>1. \A q \in Everyone : pc'[q] = IF q = p THEN place ELSE pc[q]
    BY OthersStay DEF Strolls
  <1>2. /\ \A t, u \in Threads : pc'[t] # "idle" /\ pc'[u] # "idle" => t = u
        /\ \A q \in Everyone : pc'[q] \notin {"idle", "stat", "seed"} => file' \in Table
    BY WorksAlone DEF Strolls
  <1>4. \A q \in Threads \cup Runs :
          pc'[q] \in {"opening", "register"} => mutex' = q /\ engine' = None
    BY <1>0, <1>1, Callers DEF Stands, Strolls
  <1>5. \A t \in Threads :
          pc'[t] \in {"load", "publish", "primary", "fallback", "candidates"} => engine' \in Table
    BY <1>0, <1>1, Callers DEF Stands, Strolls
  <1>6. \A q \in Threads \cup Runs : pc'[q] \in {"publish", "register"} => read'[q] \in Table
    BY <1>0, <1>1, Callers DEF Stands, Strolls
  <1> QED BY <1>0, <1>2, <1>4, <1>5, <1>6 DEF Stands, Strolls

LEMMA SweepStays ==
  ASSUME EngineInv, NEW p \in Everyone, NEW place, Goto(p, place),
         place \notin {"fallback", "candidates"}, UNCHANGED <<engine, sweep>>
  PROVE  Sweeps' /\ Shaped'
  <1>1. \A q \in Everyone : pc'[q] = IF q = p THEN place ELSE pc[q]
    BY OthersStay
  <1>2. \A t \in Threads : pc'[t] \in {"fallback", "candidates"} => pc'[t] = pc[t]
    BY <1>1, Callers
  <1>3. \A t \in Threads : Reads(t)'
    BY <1>2 DEF EngineInv, Sweeps, Reads, Winner
  <1>4. SweepIsOneReading' /\ Shaped'
    BY DEF EngineInv, Sweeps, SweepIsOneReading, Stands, Shaped
  <1> QED BY <1>3, <1>4 DEF Sweeps

LEMMA StrollsReach ==
  ASSUME EngineInv, NEW p, NEW place, Strolls(p, place)
  PROVE  Reaches'
  <1>0. Reaches
    BY DEF EngineInv
  <1>1. \A q \in Everyone : pc'[q] = IF q = p THEN place ELSE pc[q]
    BY OthersStay DEF Strolls
  <1>2. UNCHANGED <<file, engine, read, told, mine>>
    BY DEF Strolls
  <1>3. \A rows : Has(rows)' <=> Has(rows)
    BY <1>2 DEF Has
  <1>4. \A q \in Threads \cup Runs : pc'[q] \in {"publish", "register"} => pc'[q] = pc[q]
    BY <1>1, Callers DEF Strolls
  <1>5. \A t \in Threads : pc[t] \in {"reload", "load", "publish"} => pc'[t] = pc[t]
    BY <1>1, Callers DEF Strolls
  <1>6. /\ Reloading({"reload"}) => Reloading({"reload"})'
        /\ Reloading({"reload", "load", "publish"}) => Reloading({"reload", "load", "publish"})'
    BY <1>5 DEF Reloading
  <1>7. /\ file' # None => Has(file)'
        /\ engine' # None /\ ~told' => Has(engine)' \/ Reloading({"reload", "load", "publish"})'
        /\ \A r \in Rows : file' = None => mine'[r] = {}
    BY <1>0, <1>2, <1>6 DEF Reaches, Has
  <1>8. \A q \in Threads \cup Runs :
          pc'[q] = "register" => Reloading({"reload"})' \/ Has(read[q])'
    BY <1>0, <1>2, <1>4, <1>6 DEF Reaches, Has
  <1>9. \A t \in Threads : pc'[t] = "publish" => Has(read[t])'
    BY <1>0, <1>2, <1>4 DEF Reaches, Has
  <1> QED BY <1>7, <1>8, <1>9 DEF Reaches

LEMMA StrollsKeep ==
  ASSUME EngineInv, LabInv', NEW p, NEW place, Strolls(p, place),
         place \notin {"fallback", "candidates"}, UNCHANGED sweep
  PROVE  EngineInv'
  <1>1. Sweeps' /\ Shaped'
    BY SweepStays DEF Strolls
  <1> QED BY <1>1, StrollsStand, StrollsReach DEF EngineInv

\* The calls that only move on, with the file, the engine and the sweep as they
\* were.
LEMMA StepsStroll ==
  ASSUME EngineInv, LabInv', NEW p \in Everyone,
         \/ Stat(p)
         \/ p \in Writers /\ (Ask(p) \/ Check(p) \/ WriteFails(p))
         \/ p \in Writers /\ DeleteFails(p)
         \/ p \in Threads \cup Runs /\ EngineFor(p) /\ engine # None
         \/ p \in Runs /\ (StartRun(p) \/ EndRun(p))
         \/ p \in Threads /\ Look(p) /\ engine = None
  PROVE  EngineInv'
  <1>0. Stands /\ LabInv /\ Threads \cap Runs = {}
    BY ActorsAssumption DEF EngineInv
  <1>1. pc[p] \notin {"idle", "stat", "seed"} => file \in Table
    BY <1>0 DEF Stands
  <1>2. CASE Stat(p)
    <2>1. CASE file = None
      <3>1. Strolls(p, "seed")
        BY <1>2, <2>1 DEF Stat, Strolls, unmoved
      <3> QED BY <1>2, <3>1, StrollsKeep DEF Stat, unmoved
    <2>2. CASE file # None
      <3>1. Strolls(p, Work(p)) /\ Work(p) \notin {"fallback", "candidates"}
        BY <1>0, <1>2, <2>2 DEF Stat, Strolls, unmoved, Work, LabInv, LabTypeOK
      <3> QED BY <1>2, <3>1, StrollsKeep DEF Stat, unmoved
    <2> QED BY <2>1, <2>2
  <1>3. CASE p \in Writers /\ Ask(p)
    <2>1. PICK place \in {"ready", "stat"} : Goto(p, place) /\ (place = "ready" => resolved)
      BY <1>3 DEF Ask, Path
    <2>2. Strolls(p, place)
      BY <1>0, <1>3, <2>1 DEF Ask, Strolls, unmoved, LabInv, Present, Free
    <2> QED BY <1>3, <2>1, <2>2, StrollsKeep DEF Ask, unmoved
  <1>4. CASE p \in Writers /\ Check(p)
    <2>1. PICK place \in {"write", "idle"} : Goto(p, place)
      BY <1>4 DEF Check
    <2>2. Strolls(p, place)
      BY <1>1, <1>4, <2>1 DEF Check, Strolls, unmoved
    <2> QED BY <1>4, <2>1, <2>2, StrollsKeep DEF Check, unmoved
  <1>5. CASE p \in Writers /\ WriteFails(p)
    <2>1. Strolls(p, "idle")
      BY <1>5 DEF WriteFails, Strolls, unmoved, onFile
    <2> QED BY <1>5, <2>1, StrollsKeep DEF WriteFails, unmoved
  <1>6. CASE p \in Writers /\ DeleteFails(p)
    <2>1. Strolls(p, "idle")
      BY <1>6 DEF DeleteFails, Strolls, unmoved, onFile
    <2> QED BY <1>6, <2>1, StrollsKeep DEF DeleteFails, unmoved
  <1>7. CASE p \in Threads \cup Runs /\ EngineFor(p) /\ engine # None
    <2>1. Strolls(p, Opened(p)) /\ Opened(p) \in {"parsing", "primary"}
      BY <1>0, <1>1, <1>7 DEF EngineFor, Strolls, onFile, Opened, Stands
    <2> QED BY <1>7, <2>1, StrollsKeep DEF EngineFor
  <1>8. CASE p \in Runs /\ StartRun(p)
    <2>1. Strolls(p, "stat")
      BY <1>0, <1>8 DEF StartRun, Strolls, onFile, unmoved
    <2> QED BY <1>8, <2>1, StrollsKeep DEF StartRun, unmoved
  <1>9. CASE p \in Runs /\ EndRun(p)
    <2>1. Strolls(p, "idle")
      BY <1>0, <1>9 DEF EndRun, Strolls, onFile, unmoved
    <2> QED BY <1>9, <2>1, StrollsKeep DEF EndRun, unmoved
  <1>10. CASE p \in Threads /\ Look(p) /\ engine = None
    <2>1. Reaches /\ Goto(p, "idle") /\ pc[p] = "reload" /\ mutex = None
          /\ UNCHANGED <<file, engine, mutex, read, told, mine, sweep>>
      BY <1>10 DEF EngineInv, Look, onFile, unmoved, LooksNext
    <2>2. \A q \in Everyone : pc'[q] = IF q = p THEN "idle" ELSE pc[q]
      BY <2>1, OthersStay
    <2>3. \A q \in Threads \cup Runs : pc[q] \notin {"opening", "register"}
      BY <1>0, <2>1, ActorsAssumption DEF Stands
    <2>4. Stands'
      <3>1. /\ \A t, u \in Threads : pc'[t] # "idle" /\ pc'[u] # "idle" => t = u
            /\ \A q \in Everyone : pc'[q] \notin {"idle", "stat", "seed"} => file' \in Table
        BY <2>1, WorksAlone
      <3>2. /\ \A q \in Threads \cup Runs :
                 pc'[q] \in {"opening", "register"} => mutex' = q /\ engine' = None
            /\ \A t \in Threads :
                 pc'[t] \in {"load", "publish", "primary", "fallback", "candidates"} => engine' \in Table
            /\ \A q \in Threads \cup Runs : pc'[q] \in {"publish", "register"} => read'[q] \in Table
        BY <1>0, <2>1, <2>2, <2>3, Callers DEF Stands
      <3> QED BY <1>0, <2>1, <3>1, <3>2 DEF Stands, Shaped
    <2>5. Reaches'
      <3>1. \A q \in Threads \cup Runs : pc'[q] # "register"
        BY <2>2, <2>3, Callers
      <3>2. \A t \in Threads : pc'[t] = "publish" => pc[t] = "publish"
        BY <2>2, Callers
      <3> QED BY <1>10, <2>1, <3>1, <3>2 DEF Reaches, Has
    <2>6. Sweeps'
      BY <2>1, SweepStays
    <2> QED BY <2>4, <2>5, <2>6 DEF EngineInv
  <1> QED BY <1>2, <1>3, <1>4, <1>5, <1>6, <1>7, <1>8, <1>9, <1>10

\* EnsureDB writes the seed: what the Lab left in the rows is gone with them.
LEMMA SeedKeepsEngine ==
  ASSUME EngineInv, LabInv', NEW p \in Everyone, Seed(p)
  PROVE  EngineInv'
  <1>0. Stands /\ Reaches /\ LabInv
    BY DEF EngineInv
  <1>1. /\ pc[p] = "seed" /\ Goto(p, Work(p)) /\ file' = Shipped /\ file' \in Table
        /\ mine' = [r \in Rows |-> {}] /\ UNCHANGED <<engine, mutex, read, sweep, told>>
    BY ShippedAssumption DEF Seed, unmoved, Table
  <1>2. Work(p) \in {"ready", "open"}
    BY DEF Work
  <1> DEFINE place == Work(p)
  <1> HIDE DEF place
  <1>3. \A q \in Everyone : pc'[q] = IF q = p THEN place ELSE pc[q]
    BY <1>1, OthersStay DEF place
  <1>4. place \in {"ready", "open"}
    BY <1>2 DEF place
  <1>5. Sweeps' /\ Shaped'
    BY <1>1, <1>2, SweepStays
  <1>6. /\ \A t, u \in Threads : pc'[t] # "idle" /\ pc'[u] # "idle" => t = u
        /\ \A q \in Everyone : pc'[q] \notin {"idle", "stat", "seed"} => file' \in Table
    BY <1>1, WorksAlone
  <1>7. Stands'
    BY <1>0, <1>1, <1>3, <1>4, <1>5, <1>6, Callers DEF Stands
  <1>8. \A rows : Has(rows)'
    BY <1>1 DEF Has
  <1>9. Has(file)' /\ Has(engine)' /\ \A q : Has(read[q])'
    BY <1>8 DEF Has
  <1>10. Reaches'
    BY <1>1, <1>9 DEF Reaches
  <1> QED BY <1>5, <1>7, <1>10 DEF EngineInv

\* A commit: the window's own is followed by a reload, somebody else's takes the
\* row from the Lab.
LEMMA PutKeepsEngine ==
  ASSUME EngineInv, LabInv', NEW w \in Writers, pc[w] \in {"ready", "write"},
         NEW r \in Rows, NEW row \in Row \cup {None}, Put(w, r, row), UNCHANGED unmoved
  PROVE  EngineInv'
  <1>0. Stands /\ Reaches /\ LabInv /\ w \in Everyone /\ file \in Table
    BY DEF EngineInv, Everyone, LabInv, Present
  <1> DEFINE place == IF w \in Threads THEN "reload" ELSE "idle"
             left == IF w \in Threads THEN {row} ELSE {}
  <1>1. /\ Goto(w, place) /\ file' = [file EXCEPT ![r] = row] /\ file' \in Table
        /\ mine' = [mine EXCEPT ![r] = left] /\ UNCHANGED <<engine, mutex, read, sweep, told>>
    BY <1>0 DEF Put, unmoved, Table
  <1>2. /\ place \in {"reload", "idle"} /\ (w \in Threads => place = "reload")
        /\ left \subseteq {row} /\ (w \notin Threads => left = {})
    OBVIOUS
  <1> HIDE DEF place, left
  <1>3. \A q \in Everyone : pc'[q] = IF q = w THEN place ELSE pc[q]
    BY <1>0, <1>1, OthersStay
  <1>4. /\ \A s \in Rows : mine'[s] = IF s = r THEN left ELSE mine[s]
        /\ \A s \in Rows : file'[s] = IF s = r THEN row ELSE file[s]
        /\ mine' \in [Rows -> SUBSET (Row \cup {None})]
    BY <1>0, <1>1, <1>2 DEF Stands, Table
  <1>5. Sweeps' /\ Shaped'
    BY <1>0, <1>1, <1>2, SweepStays
  <1>6. /\ \A t, u \in Threads : pc'[t] # "idle" /\ pc'[u] # "idle" => t = u
        /\ \A q \in Everyone : pc'[q] \notin {"idle", "stat", "seed"} => file' \in Table
    BY <1>0, <1>1, WorksAlone
  <1>7. Stands'
    BY <1>0, <1>1, <1>2, <1>3, <1>4, <1>5, <1>6, Callers DEF Stands
  <1>8. file' # None /\ Has(file)'
    <2>1. file # None /\ file' # None
      BY <1>0, <1>1, NoneIsNoTable
    <2>2. \A s \in Rows : mine[s] \subseteq {file[s]}
      BY <1>0, <2>1 DEF Reaches, Has
    <2>3. \A s \in Rows : mine'[s] \subseteq {file'[s]}
      BY <1>2, <1>4, <2>2
    <2> QED BY <2>1, <2>3 DEF Has
  <1>9. Reaches'
    <2>1. CASE w \in Threads
      <3>1. Reloading({"reload"})' /\ Reloading({"reload", "load", "publish"})'
        BY <1>2, <1>3, <2>1, Callers DEF Reloading
      <3>2. \A t \in Threads : pc'[t] # "publish"
        BY <1>0, <1>2, <1>3, <2>1, Callers DEF Stands
      <3> QED BY <1>8, <3>1, <3>2 DEF Reaches
    <2>2. CASE w \notin Threads
      <3>1. \A rows : Has(rows) => Has(rows)'
        BY <1>2, <1>4, <2>2 DEF Has
      <3>2. /\ Has(engine) => Has(engine)'
            /\ \A q : Has(read[q]) => Has(read[q])'
        BY <1>1, <3>1 DEF Has
      <3>3. \A t \in Threads : pc'[t] = pc[t]
        BY <1>3, <2>2, Callers
      <3>4. \A q \in Threads \cup Runs : pc'[q] = "register" => pc[q] = "register"
        BY <1>2, <1>3, Callers
      <3>5. /\ Reloading({"reload"}) => Reloading({"reload"})'
            /\ Reloading({"reload", "load", "publish"}) => Reloading({"reload", "load", "publish"})'
        BY <3>3 DEF Reloading
      <3> QED BY <1>0, <1>1, <1>8, <3>2, <3>3, <3>4, <3>5 DEF Reaches
    <2> QED BY <2>1, <2>2
  <1> QED BY <1>5, <1>7, <1>9 DEF EngineInv

\* A reload: it looks once nobody is opening the engine, reads the file as the
\* Lab left it, and publishes what it read.
LEMMA ReloadKeepsEngine ==
  ASSUME EngineInv, LabInv', NEW t \in Threads,
         (Look(t) /\ engine # None) \/ ReloadReads(t) \/ ReloadFails(t) \/ Publish(t)
  PROVE  EngineInv'
  <1>0. /\ Stands /\ Reaches /\ t \in Everyone /\ Threads \cap Runs = {} /\ None \notin Threads \cup Runs
        /\ pc[t] \in {"reload", "load", "publish"} /\ file \in Table /\ engine \in Table
        /\ UNCHANGED <<file, mine, mutex, sweep>>
    <2>1. /\ t \in Everyone /\ pc[t] \in {"reload", "load", "publish"} /\ Stands /\ Reaches
          /\ UNCHANGED <<file, mine, mutex, sweep>>
      BY Callers DEF EngineInv, Look, ReloadReads, ReloadFails, Publish, onFile, unmoved
    <2>2. file \in Table /\ engine \in Table
      BY <2>1 DEF Stands, Look, ReloadReads, ReloadFails, Publish
    <2> QED BY <2>1, <2>2, ActorsAssumption
  <1>1. PICK place \in {"load", "publish", "idle"} : Goto(t, place)
    BY DEF Look, ReloadReads, ReloadFails, Publish
  <1>2. \A q \in Everyone : pc'[q] = IF q = t THEN place ELSE pc[q]
    BY <1>0, <1>1, OthersStay
  <1>3. /\ \A u, v \in Threads : pc'[u] # "idle" /\ pc'[v] # "idle" => u = v
        /\ \A q \in Everyone : pc'[q] \notin {"idle", "stat", "seed"} => file' \in Table
    BY <1>0, <1>1, WorksAlone
  <1>4. \A u \in Threads : u # t => pc'[u] = "idle"
    BY <1>0, <1>2, Callers DEF Stands
  <1>5. \A q \in Threads \cup Runs : pc'[q] \notin {"opening", "register"}
    BY <1>0, <1>2, Callers, NoneIsNoTable DEF Stands
  <1>6. \A rows : Has(rows)' <=> Has(rows)
    BY <1>0 DEF Has
  <1>7. engine' \in Table /\ read' \in [Everyone -> Table \cup {None}]
    BY <1>0 DEF Stands, Look, ReloadReads, ReloadFails, Publish, onFile, unmoved
  <1>8. place = "publish" => read'[t] \in Table /\ Has(file)' /\ read'[t] = file
    BY <1>0, <1>1, <1>2, <1>6, NoneIsNoTable DEF Stands, Reaches, Look, ReloadReads, ReloadFails, Publish, Goto, LabInv, LabTypeOK
  <1>9. \A q \in Threads \cup Runs : pc'[q] = "publish" => read'[q] \in Table
    BY <1>0, <1>2, <1>4, <1>8, Callers DEF Stands, Look, ReloadReads, ReloadFails, Publish, onFile, unmoved
  <1>10. Shaped'
    BY <1>0 DEF Stands, Shaped
  <1>11. Stands'
    BY <1>0, <1>3, <1>5, <1>7, <1>9, <1>10 DEF Stands
  <1>12. Sweeps'
    BY <1>0, <1>1, <1>4, <1>2 DEF EngineInv, Sweeps, Reads, SweepIsOneReading
  <1>13. engine' # None /\ ~told' => Has(engine)' \/ Reloading({"reload", "load", "publish"})'
    <2>1. CASE place \in {"load", "publish"}
      BY <1>0, <1>2, <2>1 DEF Reloading
    <2>2. CASE place = "idle"
      <3>1. CASE Publish(t)
        BY <1>0, <1>6, <3>1 DEF Publish, Reaches, Has
      <3>2. CASE ReloadFails(t)
        BY <3>2 DEF ReloadFails
      <3> QED
        <4>1. ~ReloadReads(t) /\ ~(Look(t) /\ engine # None)
          BY <1>0, <1>2, <2>2 DEF ReloadReads, Look, Goto, EngineInv, LabInv, LabTypeOK
        <4> QED BY <3>1, <3>2, <4>1
    <2> QED BY <2>1, <2>2
  <1>14. Reaches'
    BY <1>0, <1>4, <1>5, <1>6, <1>8, <1>2, <1>13, NoneIsNoTable DEF Reaches, Has
  <1> QED BY <1>11, <1>12, <1>14 DEF EngineInv

\* Open, under the lock: while it lasts nobody else has an engine to read or to
\* reload, and an edit that it misses has its reload still waiting.
LEMMA OpenKeepsEngine ==
  ASSUME EngineInv, LabInv', NEW p \in Threads \cup Runs,
         (EngineFor(p) /\ engine = None) \/ OpenReads(p) \/ OpenFails(p) \/ Register(p)
  PROVE  EngineInv'
  <1>0. /\ Stands /\ Reaches /\ p \in Everyone /\ Threads \cap Runs = {} /\ None \notin Threads \cup Runs
        /\ pc[p] \in {"open", "opening", "register"} /\ file \in Table /\ engine = None
        /\ UNCHANGED <<file, mine, sweep>>
    <2>1. /\ p \in Everyone /\ pc[p] \in {"open", "opening", "register"} /\ Stands /\ Reaches
          /\ UNCHANGED <<file, mine, sweep>>
      BY Callers DEF EngineInv, EngineFor, OpenReads, OpenFails, Register, onFile, unmoved
    <2>2. file \in Table /\ engine = None
      BY <2>1 DEF Stands, EngineFor, OpenReads, OpenFails, Register
    <2> QED BY <2>1, <2>2, ActorsAssumption
  <1>1. PICK place \in {"opening", "register", "idle", "parsing", "primary"} : Goto(p, place)
    BY DEF EngineFor, OpenReads, OpenFails, Register, Opened
  <1>2. \A q \in Everyone : pc'[q] = IF q = p THEN place ELSE pc[q]
    BY <1>0, <1>1, OthersStay
  <1>3. /\ \A u, v \in Threads : pc'[u] # "idle" /\ pc'[v] # "idle" => u = v
        /\ \A q \in Everyone : pc'[q] \notin {"idle", "stat", "seed"} => file' \in Table
    BY <1>0, <1>1, WorksAlone
  <1>4. \A q \in Threads \cup Runs : q # p => pc[q] \notin {"opening", "register"}
    BY <1>0 DEF Stands, EngineFor, OpenReads, OpenFails, Register
  <1>5. \A t \in Threads : pc[t] \notin {"load", "publish", "primary", "fallback", "candidates"}
    BY <1>0, NoneIsNoTable DEF Stands
  <1>6. \A q \in Threads \cup Runs :
          q # p => pc'[q] \notin {"opening", "register"}
    BY <1>2, <1>4, Callers
  <1>7. \A t \in Threads :
          t # p => pc'[t] \notin {"load", "publish", "primary", "fallback", "candidates"}
    BY <1>2, <1>5, Callers
  <1>8. pc[p] = "register" => read[p] \in Table
    BY <1>0 DEF Stands
  <1>9. /\ place \in {"opening", "register"} => mutex' = p /\ engine' = None
        /\ engine' \in Table \cup {None}
        /\ place = "primary" => engine' \in Table
        /\ place = "register" => read'[p] = file
        /\ read' \in [Everyone -> Table \cup {None}]
        /\ \A q \in Everyone : q # p => read'[q] = read[q]
    <2>1. CASE EngineFor(p) /\ engine = None
      BY <1>0, <1>1, <1>2, <2>1 DEF EngineFor, Goto, Stands, EngineInv, LabInv, LabTypeOK
    <2>2. CASE OpenReads(p)
      BY <1>0, <1>1, <1>2, <2>2 DEF OpenReads, Goto, Stands, EngineInv, LabInv, LabTypeOK
    <2>3. CASE OpenFails(p)
      BY <1>0, <1>1, <1>2, <2>3 DEF OpenFails, Goto, Stands, EngineInv, LabInv, LabTypeOK
    <2>4. CASE Register(p)
      <3>1. place \in {"parsing", "primary"} /\ engine' = read[p]
        BY <1>0, <1>1, <1>2, <2>4 DEF Register, Opened, Goto, EngineInv, LabInv, LabTypeOK
      <3> QED BY <1>0, <1>8, <2>4, <3>1 DEF Register, Stands
    <2> QED BY <2>1, <2>2, <2>3, <2>4
  <1>10. \A q \in Threads \cup Runs : pc'[q] \in {"publish", "register"} => read'[q] \in Table
    BY <1>0, <1>1, <1>2, <1>9, Callers DEF Stands
  <1>11. Shaped'
    BY <1>0 DEF Stands, Shaped
  <1>12. /\ \A q \in Threads \cup Runs : pc'[q] \in {"opening", "register"} => mutex' = q /\ engine' = None
         /\ \A t \in Threads :
              pc'[t] \in {"load", "publish", "primary", "fallback", "candidates"} => engine' \in Table
    BY <1>1, <1>2, <1>6, <1>7, <1>9, <1>0
  <1>13. mine' \in [Rows -> SUBSET (Row \cup {None})]
    BY <1>0 DEF Stands
  <1>14. Stands'
    BY <1>3, <1>9, <1>10, <1>11, <1>12, <1>13 DEF Stands
  <1>15. \A t \in Threads : pc'[t] \notin {"fallback", "candidates"}
    BY <1>1, <1>2, <1>7, Callers
  <1>16. Sweeps'
    BY <1>0, <1>15 DEF EngineInv, Sweeps, Reads, SweepIsOneReading
  <1>17. \A rows : Has(rows)' <=> Has(rows)
    BY <1>0 DEF Has
  <1>18. Reloading({"reload"}) => Reloading({"reload"})' /\ Reloading({"reload", "load", "publish"})'
    BY <1>0, <1>2, Callers DEF Reloading
  <1>19. engine' # None /\ ~told' => Has(engine)' \/ Reloading({"reload", "load", "publish"})'
    <2>1. CASE Register(p)
      <3>1. engine' = read[p] /\ pc[p] = "register"
        BY <2>1 DEF Register
      <3> QED BY <1>0, <1>17, <1>18, <3>1 DEF Reaches, Has
    <2>2. CASE ~Register(p)
      BY <1>0, <2>2 DEF EngineFor, OpenReads, OpenFails
    <2> QED BY <2>1, <2>2
  <1>20. \A q \in Threads \cup Runs :
           pc'[q] = "register" => Reloading({"reload"})' \/ Has(read[q])'
    BY <1>0, <1>6, <1>2, <1>9, <1>17, NoneIsNoTable DEF Reaches, Has
  <1>21. \A t \in Threads : pc'[t] # "publish"
    BY <1>1, <1>2, <1>7, Callers
  <1>22. file' # None => Has(file)'
    BY <1>0, <1>17 DEF Reaches, Has
  <1>23. Reaches'
    BY <1>0, <1>19, <1>20, <1>21, <1>22, NoneIsNoTable DEF Reaches
  <1> QED BY <1>14, <1>16, <1>23 DEF EngineInv

-----------------------------------------------------------------------------
(* What a reading answers.                                                 *)

Beats(rows, r, s) ==
  Score[rows[s].body] < Score[rows[r].body]
    \/ (Score[rows[s].body] = Score[rows[r].body] /\ r < s)

\* FindBest finds one of the rows the hint admits, or none.
LEMMA BestIsAdmitted ==
  ASSUME NEW rows \in Table, NEW hint, FindBest(rows, hint) # None
  PROVE  FindBest(rows, hint) \in Filter(rows, hint)
  <1> DEFINE scored == {r \in Filter(rows, hint) : Score[rows[r].body] > 0}
             above(r) == {s \in scored : Beats(rows, s, r)}
             all == {above(r) : r \in scored}
             R == StrictSubsetOrdering(scored)
  <1>1. scored # {}
    BY DEF FindBest
  <1>2. IsFiniteSet(scored)
    <2>1. IsFiniteSet(Rows) /\ scored \subseteq Rows
      BY ScoresAssumption, FS_Interval DEF Rows, Filter, Live
    <2> QED BY <2>1, FS_Subset
  <1>3. \A r \in scored : r \in Int /\ Score[rows[r].body] \in Nat
    <2> SUFFICES ASSUME NEW r \in scored PROVE r \in Int /\ Score[rows[r].body] \in Nat
      OBVIOUS
    <2>1. r \in Rows /\ rows[r] \in Row
      BY DEF Filter, Live, Table
    <2> QED BY <2>1, ScoresAssumption DEF Rows, Row
  <1>4. \E r \in scored : above(r) = {}
    <2> HIDE DEF scored
    <2>1. all \subseteq SUBSET scored /\ all # {}
      BY <1>1
    <2>2. IsWellFoundedOn(R, SUBSET scored)
      BY <1>2, FS_StrictSubsetOrderingWellFounded, FS_FiniteSubsetsOfFinite
    <2>3. \A x, y \in all : y \subseteq x /\ y # x => <<y, x>> \in R
      BY <2>1 DEF StrictSubsetOrdering
    <2> HIDE DEF R, all
    <2>4. PICK x \in all : \A y \in all : <<y, x>> \notin R
      BY <2>1, <2>2, WFMin
    <2>5. PICK r \in scored : x = above(r)
      BY DEF all
    <2>6. \A s \in above(r) : above(s) \subseteq above(r) /\ above(s) # above(r) /\ above(s) \in all
      <3> SUFFICES ASSUME NEW s \in above(r)
                   PROVE above(s) \subseteq above(r) /\ above(s) # above(r) /\ above(s) \in all
        OBVIOUS
      <3>1. s \in scored /\ Beats(rows, s, r)
        OBVIOUS
      <3>2. \A u \in scored : Beats(rows, u, s) => Beats(rows, u, r)
        BY <1>3, <3>1 DEF Beats
      <3>3. ~Beats(rows, s, s)
        BY <1>3, <3>1 DEF Beats
      <3>4. above(s) \in all
        BY <3>1 DEF all
      <3> QED BY <3>1, <3>2, <3>3, <3>4
    <2>7. above(r) = {}
      BY <2>3, <2>4, <2>5, <2>6
    <2> QED BY <2>7
  <1>5. \E r \in scored : \A s \in scored \ {r} : Beats(rows, r, s)
    <2> HIDE DEF scored
    <2>1. PICK r \in scored : \A s \in scored : ~Beats(rows, s, r)
      BY <1>4
    <2>2. \A s \in scored \ {r} : Beats(rows, r, s)
      BY <1>3, <2>1 DEF Beats
    <2> QED BY <2>2
  <1>6. FindBest(rows, hint) = CHOOSE r \in scored : \A s \in scored \ {r} : Beats(rows, r, s)
    BY <1>1 DEF FindBest, Beats
  <1>7. FindBest(rows, hint) \in scored
    <2> HIDE DEF scored
    <2> QED BY <1>5, <1>6
  <1> QED BY <1>7

\* One candidate for each row the hint admits.
LEMMA AsManyCandidates ==
  ASSUME NEW rows \in Table, NEW hint
  PROVE  Cardinality({[row |-> r, of |-> rows[r]] : r \in Filter(rows, hint)})
           = Cardinality(Filter(rows, hint))
  <1> DEFINE S == Filter(rows, hint)
             T == {[row |-> r, of |-> rows[r]] : r \in S}
             f == [r \in S |-> [row |-> r, of |-> rows[r]]]
  <1>1. IsFiniteSet(S)
    <2>1. IsFiniteSet(Rows) /\ S \subseteq Rows
      BY ScoresAssumption, FS_Interval DEF Rows, Filter, Live
    <2> QED BY <2>1, FS_Subset
  <1>2. f \in Bijection(S, T)
    <2> HIDE DEF S
    <2>1. f \in [S -> T]
      OBVIOUS
    <2>2. \A r, s \in S : f[r] = f[s] => r = s
      OBVIOUS
    <2>3. \A y \in T : \E r \in S : f[r] = y
      OBVIOUS
    <2> HIDE DEF f, T
    <2> QED BY <2>1, <2>2, <2>3 DEF Bijection, Injection, Surjection, IsInjective
  <1>3. ExistsBijection(S, T)
    <2> HIDE DEF S, T, f
    <2> QED BY <1>2 DEF ExistsBijection
  <1> HIDE DEF S, T
  <1>4. Cardinality(T) = Cardinality(S)
    BY <1>1, <1>3, FS_Bijection
  <1> QED BY <1>4 DEF S, T

-----------------------------------------------------------------------------

\* A sweep begins with no answer, while nobody else is at work.
LEMMA BeginKeepsEngine ==
  ASSUME EngineInv, LabInv', NEW t \in Threads, StartSweep(t)
  PROVE  EngineInv'
  <1>1. PICK place \in {"open", "stat"} : Goto(t, place) /\ (place = "open" => resolved)
    BY DEF StartSweep, Path
  <1>2. t \in Everyone /\ Free(t) /\ sweep' = NoSweep
        /\ UNCHANGED <<file, engine, mutex, read, told, mine>>
    BY Callers DEF StartSweep
  <1>3. Strolls(t, place)
    BY <1>1, <1>2 DEF Strolls, Free, EngineInv, LabInv, Present
  <1>4. \A u \in Threads : pc'[u] \notin {"fallback", "candidates"}
    BY <1>1, <1>2, OthersStay, Callers DEF Free
  <1>5. Shaped' /\ SweepIsOneReading'
    BY <1>2 DEF Shaped, SweepIsOneReading, NoSweep
  <1>6. Sweeps'
    BY <1>4, <1>5 DEF Sweeps, Reads
  <1> QED BY <1>3, <1>5, <1>6, StrollsStand, StrollsReach DEF EngineInv

LEMMA FirstAnswer ==
  ASSUME NEW n, NEW b
  PROVE  [NoSweep EXCEPT !.tried = n, !.best = b]
           = [tried |-> n, best |-> b, fallback |-> None, candidates |-> None]
  <1>1. [NoSweep EXCEPT !.tried = n]
          = [tried |-> n, best |-> None, fallback |-> None, candidates |-> None]
    BY DEF NoSweep
  <1>2. [[tried |-> n, best |-> None, fallback |-> None, candidates |-> None] EXCEPT !.best = b]
          = [tried |-> n, best |-> b, fallback |-> None, candidates |-> None]
    OBVIOUS
  <1>3. [NoSweep EXCEPT !.tried = n, !.best = b] = [[NoSweep EXCEPT !.tried = n] EXCEPT !.best = b]
    OBVIOUS
  <1> QED BY <1>1, <1>2, <1>3

\* Each reading finds the engine as the one before it did: nobody publishes to it
\* while the sweep goes on.
LEMMA SweepKeepsEngine ==
  ASSUME EngineInv, LabInv', NEW t \in Threads, Primary(t) \/ Fallback(t) \/ Candidates(t)
  PROVE  EngineInv'
  <1> DEFINE best == FindBest(engine, "command")
             wide == FindBest(engine, "vendor")
  <1>0. /\ Stands /\ Sweeps /\ t \in Everyone /\ engine \in Table /\ file \in Table
        /\ pc[t] \in {"primary", "fallback", "candidates"}
        /\ UNCHANGED <<file, engine, mutex, read, told, mine>>
    <2>1. /\ Stands /\ Sweeps /\ t \in Everyone /\ pc[t] \in {"primary", "fallback", "candidates"}
          /\ UNCHANGED <<file, engine, mutex, read, told, mine>>
      BY Callers DEF EngineInv, Primary, Fallback, Candidates, Swept, onFile
    <2> QED BY <2>1 DEF Stands
  <1>1. PICK place \in {"fallback", "candidates", "idle"} : Goto(t, place)
    BY DEF Primary, Fallback, Candidates, Swept
  <1>2. Strolls(t, place)
    BY <1>0, <1>1 DEF Strolls
  <1>3. \A q \in Everyone : pc'[q] = IF q = t THEN place ELSE pc[q]
    BY <1>0, <1>1, OthersStay
  <1>4. \A u \in Threads : u # t => pc'[u] = "idle"
    BY <1>0, <1>3, Callers DEF Stands
  <1>5. pc'[t] = place
    BY <1>0, <1>3
  <1>6. CASE Primary(t)
    <2> DEFINE s == [NoSweep EXCEPT !.tried = Cardinality(Filter(engine, "command")), !.best = Winner(best)]
    <2>1. /\ sweep' = s /\ Goto(t, IF Succeeds(engine, best) THEN "candidates" ELSE "fallback")
      BY <1>6 DEF Primary, Swept
    <2>2. place = IF Succeeds(engine, best) THEN "candidates" ELSE "fallback"
      <3>1. pc'[t] = IF Succeeds(engine, best) THEN "candidates" ELSE "fallback"
        BY <1>0, <2>1 DEF EngineInv, LabInv, LabTypeOK, Goto
      <3> QED BY <1>5, <3>1
    <2>3. /\ s.tried = Cardinality(Filter(engine, "command")) /\ s.best = Winner(best)
          /\ s.fallback = None /\ s.candidates = None
          /\ s = [tried |-> s.tried, best |-> s.best, fallback |-> s.fallback, candidates |-> s.candidates]
      <3> DEFINE n == Cardinality(Filter(engine, "command"))
                 b == Winner(best)
      <3>1. s = [NoSweep EXCEPT !.tried = n, !.best = b]
        OBVIOUS
      <3> HIDE DEF n, b, s
      <3>2. s = [tried |-> n, best |-> b, fallback |-> None, candidates |-> None]
        BY <3>1, FirstAnswer
      <3>3. /\ s.tried = n /\ s.best = b /\ s.fallback = None /\ s.candidates = None
            /\ s = [tried |-> s.tried, best |-> s.best, fallback |-> s.fallback, candidates |-> s.candidates]
        BY <3>2
      <3> QED BY <3>3 DEF n, b
    <2>4. Winner(best)' = Winner(best)
      BY <1>0 DEF Winner
    <2> HIDE DEF s
    <2>5. Reads(t)'
      BY <1>0, <1>5, <2>1, <2>2, <2>3, <2>4 DEF Reads, Winner
    <2>6. SweepIsOneReading' /\ Shaped'
      BY <2>1, <2>3 DEF SweepIsOneReading, Shaped
    <2>7. Sweeps'
      BY <1>4, <2>5, <2>6 DEF Sweeps, Reads
    <2> QED BY <1>2, <2>6, <2>7, StrollsStand, StrollsReach DEF EngineInv
  <1>7. CASE Fallback(t)
    <2> DEFINE f == IF Succeeds(engine, wide) THEN Winner(wide) ELSE None
    <2>1. /\ sweep' = [sweep EXCEPT !.fallback = f] /\ Goto(t, "candidates") /\ pc[t] = "fallback"
      BY <1>7 DEF Fallback, Swept
    <2> HIDE DEF f
    <2>2. place = "candidates"
      <3>1. pc'[t] = "candidates"
        BY <1>0, <2>1 DEF EngineInv, LabInv, LabTypeOK, Goto
      <3> QED BY <1>5, <3>1
    <2>3. /\ sweep'.tried = sweep.tried /\ sweep'.best = sweep.best /\ sweep'.candidates = sweep.candidates
          /\ Shaped'
      BY <1>0, <2>1 DEF Stands, Shaped
    <2>4. Reads(t)
      BY <1>0 DEF Sweeps
    <2>5. Reads(t)'
      BY <1>0, <1>5, <2>1, <2>2, <2>3, <2>4 DEF Reads, Winner
    <2>6. SweepIsOneReading'
      BY <2>1, <2>3, <2>4 DEF SweepIsOneReading, Reads
    <2>7. Sweeps'
      BY <1>4, <2>5, <2>6 DEF Sweeps, Reads
    <2> QED BY <1>2, <2>3, <2>7, StrollsStand, StrollsReach DEF EngineInv
  <1>8. CASE Candidates(t)
    <2> DEFINE listed == {[row |-> r, of |-> engine[r]] : r \in Filter(engine, "command")}
    <2>1. /\ sweep' = [sweep EXCEPT !.candidates = listed] /\ Goto(t, "idle") /\ pc[t] = "candidates"
      BY <1>8 DEF Candidates, Swept
    <2>2. place = "idle"
      <3>1. pc'[t] = "idle"
        BY <1>0, <2>1 DEF EngineInv, LabInv, LabTypeOK, Goto
      <3> QED BY <1>5, <3>1
    <2>3. Cardinality(listed) = Cardinality(Filter(engine, "command"))
      BY <1>0, AsManyCandidates
    <2>4. Winner(best) # None => Winner(best) \in listed
      <3> SUFFICES ASSUME best # None PROVE Winner(best) \in listed
        BY DEF Winner
      <3>1. best \in Filter(engine, "command")
        BY <1>0, BestIsAdmitted
      <3> HIDE DEF best
      <3> QED BY <3>1 DEF Winner
    <2> HIDE DEF listed
    <2>5. /\ sweep'.tried = sweep.tried /\ sweep'.best = sweep.best /\ sweep'.fallback = sweep.fallback
          /\ sweep'.candidates = listed /\ Shaped'
      BY <1>0, <2>1 DEF Stands, Shaped
    <2>6. /\ sweep.tried = Cardinality(Filter(engine, "command")) /\ sweep.best = Winner(best)
          /\ sweep.fallback # None => ~Succeeds(engine, best)
      BY <1>0, <2>1 DEF Sweeps, Reads
    <2>7. ~Succeeds(engine, best) /\ best # None => Score[Winner(best).of.body] < Accepted
      <3> SUFFICES ASSUME ~Succeeds(engine, best), best # None
                   PROVE  Score[Winner(best).of.body] < Accepted
        OBVIOUS
      <3>1. best \in Filter(engine, "command")
        BY <1>0, BestIsAdmitted
      <3> HIDE DEF best
      <3>2. engine[best] \in Row /\ Winner(best).of = engine[best]
        BY <1>0, <3>1 DEF Filter, Live, Table, Winner
      <3> QED BY <3>2, ScoresAssumption DEF Succeeds, Row
    <2>8. best = None => Winner(best) = None
      BY DEF Winner
    <2> HIDE DEF best
    <2>9. SweepIsOneReading'
      BY <2>3, <2>4, <2>5, <2>6, <2>7, <2>8 DEF SweepIsOneReading
    <2>10. Sweeps'
      BY <1>4, <1>5, <2>2, <2>9 DEF Sweeps, Reads
    <2> QED BY <1>2, <2>5, <2>10, StrollsStand, StrollsReach DEF EngineInv
  <1> QED BY <1>6, <1>7, <1>8

-----------------------------------------------------------------------------

LEMMA EngineStarts == Init => EngineInv
  <1> SUFFICES ASSUME Init PROVE EngineInv
    OBVIOUS
  <1>1. Stands
    BY ShippedAssumption DEF Init, Stands, Shaped, NoSweep, Everyone, Writers, Table
  <1>2. Reaches
    BY DEF Init, Reaches, Has, Everyone, Writers
  <1>3. Sweeps
    BY DEF Init, Sweeps, Reads, SweepIsOneReading, NoSweep, Everyone, Writers
  <1> QED BY <1>1, <1>2, <1>3, LabStarts DEF EngineInv

LEMMA EngineSteps == EngineInv /\ [Next]_vars => EngineInv'
  <1> SUFFICES ASSUME EngineInv, [Next]_vars PROVE EngineInv'
    OBVIOUS
  <1>0. LabInv'
    BY LabSteps DEF EngineInv
  <1>1. ASSUME NEW w \in Writers, Lab(w) PROVE EngineInv'
    <2>1. CASE Ask(w) \/ Check(w) \/ WriteFails(w)
      BY <1>0, <2>1, StepsStroll, Callers
    <2>2. CASE Write(w)
      <3> DEFINE row == [name |-> asked[w].name, body |-> asked[w].body]
      <3>1. PICK r \in Rows : Put(w, r, row)
        BY <2>2 DEF Write
      <3>2. asked[w] \in Edit /\ asked[w].name # None /\ pc[w] = "write" /\ UNCHANGED unmoved
        BY <2>2 DEF Write, EngineInv, LabInv, Present, Checked, Deletes
      <3>3. row \in Row
        BY <3>2 DEF Edit, Row
      <3> HIDE DEF row
      <3> QED BY <1>0, <3>1, <3>2, <3>3, PutKeepsEngine
    <2>3. CASE Delete(w)
      <3>1. Put(w, asked[w].row, None) /\ pc[w] = "ready" /\ UNCHANGED unmoved /\ asked[w].row \in Rows
        BY <2>3 DEF Delete, Live
      <3> QED BY <1>0, <3>1, PutKeepsEngine
    <2>4. CASE DeleteFails(w)
      BY <1>0, <2>4, StepsStroll, Callers
    <2> QED BY <1>1, <2>1, <2>2, <2>3, <2>4 DEF Lab
  <1>2. ASSUME NEW t \in Threads, Thread(t) PROVE EngineInv'
    <2>1. CASE Look(t) /\ engine = None
      BY <1>0, <2>1, StepsStroll, Callers
    <2>2. CASE (Look(t) /\ engine # None) \/ ReloadReads(t) \/ ReloadFails(t) \/ Publish(t)
      BY <1>0, <2>2, ReloadKeepsEngine
    <2>3. CASE StartSweep(t)
      BY <1>0, <2>3, BeginKeepsEngine
    <2>4. CASE Primary(t) \/ Fallback(t) \/ Candidates(t)
      BY <1>0, <2>4, SweepKeepsEngine
    <2> QED BY <1>2, <2>1, <2>2, <2>3, <2>4 DEF Thread
  <1>3. ASSUME NEW p \in Everyone, Stat(p) \/ Seed(p) PROVE EngineInv'
    BY <1>0, <1>3, StepsStroll, SeedKeepsEngine
  <1>4. ASSUME NEW p \in Threads \cup Runs, EngineFor(p) \/ OpenReads(p) \/ OpenFails(p) \/ Register(p)
        PROVE EngineInv'
    <2>1. CASE EngineFor(p) /\ engine # None
      BY <1>0, <2>1, StepsStroll, Callers
    <2>2. CASE ~(EngineFor(p) /\ engine # None)
      BY <1>0, <1>4, <2>2, OpenKeepsEngine
    <2> QED BY <2>1, <2>2
  <1>5. ASSUME NEW p \in Runs, StartRun(p) \/ EndRun(p) PROVE EngineInv'
    BY <1>0, <1>5, StepsStroll, Callers
  <1>6. CASE UNCHANGED vars
    <2>1. UNCHANGED <<file, engine, mutex, pc, read, sweep, told, mine>>
      BY <1>6 DEF vars
    <2>2. Stands'
      BY <2>1 DEF EngineInv, Stands, Shaped
    <2>3. Reaches'
      BY <2>1 DEF EngineInv, Reaches, Has, Reloading
    <2>4. Sweeps'
      BY <2>1 DEF EngineInv, Sweeps, Reads, SweepIsOneReading, Winner
    <2> QED BY <1>0, <2>2, <2>3, <2>4 DEF EngineInv
  <1> QED BY <1>1, <1>2, <1>3, <1>4, <1>5, <1>6 DEF Next

\* Whenever the window is not waiting for a call, the engine that captures parse
\* with (engineFor) holds every row the Lab saved or deleted and nobody changed
\* since, unless the Lab said that its reload failed: also when a run opened the
\* engine while the file changed (reloadShared waits for templatesMu).
THEOREM EditsAreParsedWith == Spec => []EditsReachCaptures
  <1>1. EngineInv => EditsReachCaptures
    <2> SUFFICES ASSUME EngineInv, Idle, engine # None, ~told
                 PROVE  \A r \in Rows : mine[r] \subseteq {engine[r]}
      BY DEF EditsReachCaptures
    <2>1. ~Reloading({"reload", "load", "publish"})
      BY DEF Idle, Reloading
    <2> QED BY <2>1 DEF EngineInv, Reaches, Has
  <1> QED BY <1>1, EngineStarts, EngineSteps, PTL DEF Spec

\* A sweep's count, its winner, its fallback and its list of candidates
\* (RunSweep) are of one state of the engine, though each is a reading of its own
\* and runs open the engine and other programs edit the file in between.
THEOREM SweepReadsOneEngine == Spec => []SweepIsOneReading
  <1>1. EngineInv => SweepIsOneReading
    BY DEF EngineInv, Sweeps
  <1> QED BY <1>1, EngineStarts, EngineSteps, PTL DEF Spec

=============================================================================
