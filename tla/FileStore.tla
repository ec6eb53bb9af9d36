----------------------------- MODULE FileStore -----------------------------
(***************************************************************************)
(* One capture-type directory of internal/capture/store.go, and the Puts   *)
(* that write it: a file per distinct content, a history.jsonl line per    *)
(* attempt, and a retention that rewrites the history before it unlinks.   *)
(*                                                                         *)
(* A Put holds its FileStore's lock for the slug from Begin to the end, but*)
(* the lock lives in the process: a second FileStore on the same root has  *)
(* its own.  The process may die, or a step fail, between any two steps.   *)
(*                                                                         *)
(* Abstracted: bytes to digests, timestamps to Stamps, device.json to the  *)
(* canonical name it holds, the temp file of writeFileAtomic (a rename is  *)
(* one step, and a killed process is the crash considered, not a lost disk *)
(* cache), and Slug: Devices are canonical names that share a directory.   *)
(***************************************************************************)
EXTENDS Integers, FiniteSets, Sequences

CONSTANTS
  Writers,    \* engine workers that may Put here
  StoreOf,    \* the FileStore each of them writes through
  Devices,    \* canonical names with this slug
  Digests,    \* sha256 of the contents captured
  Stamps,     \* capture times, to the second; a clock may repeat or go back
  Keeps,      \* retention counts Put is called with, 0 for unlimited
  None,
  MaxPuts     \* bound on the Puts of one behaviour

ASSUME KeepsAssumption == Keeps \subseteq Nat
ASSUME WritersAssumption == DOMAIN StoreOf = Writers
ASSUME PutsAssumption == MaxPuts \in Nat /\ None \notin Digests

\* One process, as a run is: the lock of a FileStore is everybody's.
OneStore == \A u, v \in Writers : StoreOf[u] = StoreOf[v]

VARIABLES
  owner,      \* device.json's canonical name
  files,      \* [Names -> digest], None when there is no such file
  parses,     \* the names that have a .parsed.json
  history,    \* history.jsonl
  torn,       \* its last line is cut short: readHistory fails on it
  pc, job,    \* each writer's place in Put, and its locals
  puts        \* Puts begun

vars == <<owner, files, parses, history, torn, pc, job, puts>>

Names == Stamps \X (0..MaxPuts)   \* "<stamp>.txt", "<stamp>-1.txt", ...
Entry == [file: Names, digest: Digests, unchanged: BOOLEAN, from: Devices]

Idle == [from |-> None, digest |-> None, keep |-> 0, name |-> None,
         entries |-> <<>>, doomed |-> {}, refused |-> FALSE]

Init ==
  /\ owner = None
  /\ files = [n \in Names |-> None]
  /\ parses = {}
  /\ history = <<>>
  /\ torn = FALSE
  /\ pc = [w \in Writers |-> "idle"]
  /\ job = [w \in Writers |-> Idle]
  /\ puts = 0

Disk == {n \in Names : files[n] # None}
NamesOf(es) == {es[k].file : k \in DOMAIN es}

disk == <<owner, files, parses, history, torn>>

\* FileStore.lockFor: no other Put or PutParsed of the same store is under way.
Locked(w) == \E u \in Writers : StoreOf[u] = StoreOf[w] /\ pc[u] \notin {"idle", "done"}

-----------------------------------------------------------------------------
(* Put.                                                                    *)

\* mergeDeviceInfo: a slug held by another canonical name is refused.
Admits(d) == owner \in {None, d}

Begin(w) ==
  /\ pc[w] \in {"idle", "done"} /\ ~Locked(w)
  /\ puts < MaxPuts
  /\ \E d \in Devices, x \in Digests, keep \in Keeps :
       /\ Admits(d)
       /\ owner' = IF owner = None THEN d ELSE owner
       /\ job' = [job EXCEPT ![w] = [Idle EXCEPT !.from = d, !.digest = x, !.keep = keep]]
  /\ pc' = [pc EXCEPT ![w] = "compare"]
  /\ puts' = puts + 1
  /\ UNCHANGED <<files, parses, history, torn>>

\* readHistory: one line it cannot parse fails the whole read.
Readable == ~torn

\* lastStored, and whether it holds this content.
Matches(x) == {k \in DOMAIN history : k = Len(history) /\ history[k].digest = x}

\* Content equal to the newest version's gets no file of its own.
Compare(w) ==
  /\ pc[w] = "compare" /\ Readable
  /\ \/ \E k \in Matches(job[w].digest) :
          /\ job' = [job EXCEPT ![w].name = history[k].file]
          /\ pc' = [pc EXCEPT ![w] = "same"]
     \/ /\ Matches(job[w].digest) = {}
        /\ pc' = [pc EXCEPT ![w] = "write"]
        /\ UNCHANGED job
  /\ UNCHANGED <<disk, puts>>

\* A second capture in the same second written over the first.
FirstName(s) == <<s, 0>>

\* The first of "<stamp>.txt", "<stamp>-1.txt", ... that does not exist.
FreeName(s) ==
  CHOOSE n \in Names \ Disk :
    n[1] = s /\ \A m \in Names \ Disk : m[1] = s => n[2] <= m[2]

WriteFile(w) ==
  /\ pc[w] = "write"
  /\ \E s \in Stamps :
       /\ files' = [files EXCEPT ![FreeName(s)] = job[w].digest]
       /\ job' = [job EXCEPT ![w].name = FreeName(s)]
  /\ pc' = [pc EXCEPT ![w] = "append"]
  /\ UNCHANGED <<owner, parses, history, torn, puts>>

Line(w) ==
  [file |-> job[w].name, digest |-> job[w].digest,
   unchanged |-> pc[w] = "same", from |-> job[w].from]

\* appendHistory: one line, written and synced.  Only a stored file prunes.
AppendEntry(w) ==
  /\ pc[w] \in {"same", "append"}
  /\ history' = Append(history, Line(w))
  /\ pc' = [pc EXCEPT ![w] = IF pc[w] = "same" THEN "done" ELSE "prune"]
  /\ UNCHANGED <<owner, files, parses, torn, job, puts>>

\* The write comes up short: the disk is full, or the process dies in it.
AppendTorn(w) ==
  /\ pc[w] \in {"same", "append"}
  /\ torn' = TRUE
  /\ pc' = [pc EXCEPT ![w] = "idle"]
  /\ job' = [job EXCEPT ![w] = Idle]
  /\ UNCHANGED <<owner, files, parses, history, puts>>

\* pruneType's loop: the entries kept are those at and after the oldest of the
\* newest keep files.
Newer(es, k) == {es[j].file : j \in k..Len(es)}

\* Keeping one version too few.
SurvivorsShort(es, keep) == {k \in DOMAIN es : Cardinality(Newer(es, k)) < keep}

Survivors(es, keep) == {k \in DOMAIN es : Cardinality(Newer(es, k)) <= keep}

KeptEntries(es, keep) ==
  SubSeq(es, Len(es) - Cardinality(Survivors(es, keep)) + 1, Len(es))

\* pruneType reads what to keep, unless everything is kept.
Plan(w) ==
  /\ pc[w] = "prune"
  /\ \/ /\ job[w].keep = 0 \/ (Readable /\ history = <<>>)
        /\ pc' = [pc EXCEPT ![w] = "done"]
        /\ UNCHANGED job
     \/ /\ job[w].keep > 0 /\ Readable /\ history # <<>>
        /\ pc' = [pc EXCEPT ![w] = "cut"]
        /\ job' = [job EXCEPT ![w].entries = history]
  /\ UNCHANGED <<disk, puts>>

\* A sweep of the files this prune cut.
DoomedNow(es, kept) == {<<"txt", n>> : n \in NamesOf(es) \ NamesOf(kept)}

\* The sweep goes by the directory: every capture and every parse whose capture
\* the kept lines do not name.
Doomed(es, kept) ==
  {<<"txt", n>> : n \in Disk \ NamesOf(kept)}
    \cup {<<"parsed", n>> : n \in parses \ NamesOf(kept)}

\* The rewrite, when there is anything to cut, and the listing of the directory.
Cut(w) ==
  LET es == job[w].entries
      kept == KeptEntries(es, job[w].keep)
  IN
  /\ pc[w] = "cut"
  /\ history' = IF kept = es THEN history ELSE kept
  /\ torn' = (torn /\ kept = es)
  /\ job' = [job EXCEPT ![w].doomed = Doomed(es, kept)]
  /\ pc' = [pc EXCEPT ![w] = "sweep"]
  /\ UNCHANGED <<owner, files, parses, puts>>

\* One os.Remove; a file somebody holds open may refuse to go.
Unlink(w) ==
  /\ pc[w] = "sweep"
  /\ \E victim \in job[w].doomed :
       \/ /\ files' = IF victim[1] = "txt" THEN [files EXCEPT ![victim[2]] = None] ELSE files
          /\ parses' = IF victim[1] = "parsed" THEN parses \ {victim[2]} ELSE parses
          /\ job' = [job EXCEPT ![w].doomed = @ \ {victim}]
       \/ /\ job' = [job EXCEPT ![w].doomed = @ \ {victim}, ![w].refused = TRUE]
          /\ UNCHANGED <<files, parses>>
  /\ UNCHANGED <<owner, history, torn, pc, puts>>

Return(w) ==
  /\ pc[w] = "sweep" /\ job[w].doomed = {}
  /\ pc' = [pc EXCEPT ![w] = "done"]
  /\ UNCHANGED <<disk, job, puts>>

\* A prune that could not read, rewrite or list is Artifact.PruneErr: the capture
\* stands, and the engine goes on with it.
PruneFails(w) ==
  /\ pc[w] \in {"prune", "cut", "sweep"}
  /\ pc' = [pc EXCEPT ![w] = "done"]
  /\ job' = [job EXCEPT ![w].refused = TRUE]
  /\ UNCHANGED <<disk, puts>>

\* Put returns an error at this step, or the process dies before the next one.
Fail(w) ==
  /\ pc[w] # "idle"
  /\ pc' = [pc EXCEPT ![w] = "idle"]
  /\ job' = [job EXCEPT ![w] = Idle]
  /\ UNCHANGED <<disk, puts>>

\* The engine parses what Put returned, after Put let the lock go, and PutParsed
\* takes it again: the capture may have been pruned in between.
PutParsed(w) ==
  /\ pc[w] = "done" /\ ~Locked(w)
  /\ parses' = IF job[w].name \in Disk THEN parses \cup {job[w].name} ELSE parses
  /\ pc' = [pc EXCEPT ![w] = "idle"]
  /\ job' = [job EXCEPT ![w] = Idle]
  /\ UNCHANGED <<owner, files, history, torn, puts>>

Put(w) ==
  \/ Begin(w) \/ Compare(w) \/ WriteFile(w) \/ AppendEntry(w) \/ AppendTorn(w)
  \/ Plan(w) \/ Cut(w) \/ Unlink(w) \/ PruneFails(w) \/ Return(w)

Next == \E w \in Writers : Put(w) \/ PutParsed(w) \/ Fail(w)

Spec == Init /\ [][Next]_vars

-----------------------------------------------------------------------------
(* Properties.                                                             *)

Job == [from: Devices \cup {None}, digest: Digests \cup {None}, keep: Keeps \cup {0},
        name: Names \cup {None}, entries: Seq(Entry),
        doomed: SUBSET ({"txt", "parsed"} \X Names), refused: BOOLEAN]

TypeOK ==
  /\ owner \in Devices \cup {None}
  /\ files \in [Names -> Digests \cup {None}]
  /\ parses \in SUBSET Names
  /\ history \in Seq(Entry)
  /\ torn \in BOOLEAN
  /\ pc \in [Writers -> {"idle", "compare", "same", "write", "append", "prune",
                         "cut", "sweep", "done"}]
  /\ job \in [Writers -> Job]
  /\ puts \in 0..MaxPuts

\* A reader opens the file each history line names (retention_test.go, the
\* header): it is there and holds what the line says, after a crash at any point
\* of a Put too, and whatever the clock does to the names.
HistoryNamesFiles ==
  \A k \in DOMAIN history : files[history[k].file] = history[k].digest

\* History is a sequence of runs, one file per run (pruneType): a line is
\* unchanged exactly when it repeats the file of the line before it, a new file
\* means new content, and the cut never leaves a run without its first line.
HistoryIsRuns ==
  \A k \in DOMAIN history :
    IF k > 1 /\ history[k].unchanged
    THEN history[k].file = history[k - 1].file
    ELSE /\ ~history[k].unchanged
         /\ \A j \in 1..(k - 1) : history[j].file # history[k].file
         /\ k > 1 => history[k].digest # history[k - 1].digest

\* History and directory agree (retention_test.go): every line names a file with
\* its content, and the lines are runs.
HistoryIsTrue == TypeOK /\ HistoryNamesFiles /\ HistoryIsRuns

\* A Put that pruned without being refused a removal leaves exactly the versions
\* history names, at most keep of them, and no parse without its capture:
\* whatever an earlier prune had to leave behind is gone.
PruneIsExact ==
  \A w \in Writers :
    pc[w] = "sweep" /\ pc'[w] = "done" /\ ~job'[w].refused =>
      /\ Disk' = NamesOf(history')
      /\ parses' \subseteq Disk'
      /\ Cardinality(Disk') <= job[w].keep

\* A history that cannot be read is no basis for removing anything.
NothingRemovedBlind == torn => \A n \in Disk : files'[n] = files[n]

\* The versions a history holds: the digest of each line that stored a file.
StoredIn(es) == {k \in DOMAIN es : ~es[k].unchanged}
RankIn(es, k) == Cardinality({j \in StoredIn(es) : j <= k})
VersionsOf(es) ==
  [i \in 1..Cardinality(StoredIn(es)) |->
     es[CHOOSE k \in StoredIn(es) : RankIn(es, k) = i].digest]

Log == INSTANCE VersionLog WITH Contents <- Digests, versions <- VersionsOf(history)

\* A prune removes what it should and nothing else, also over what an earlier one
\* left, and nothing at all when the history does not read.
PruneIsRight == [][PruneIsExact /\ NothingRemovedBlind]_vars

\* The directory is a version log, one step of which is one step of a Put.
IsAVersionLog == Log!LogSpec

=============================================================================
