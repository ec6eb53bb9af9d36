----------------------------- MODULE StoreSearch -----------------------------
(***************************************************************************)
(* A search of the store: internal/storesearch/search.go, the handle that  *)
(* runs it on a goroutine (capi/search.go), and the window that waits for  *)
(* it (SearchBridge of app/store.cpp), while captures go on storing and    *)
(* pruning versions underneath.                                            *)
(*                                                                         *)
(* Targets lists the current file of every artifact, device by device;     *)
(* the dispatcher hands them in order, over an unbuffered channel, to a    *)
(* pool of workers that read, match and claim room under one limit; the    *)
(* window may cancel or close at any point.                                *)
(*                                                                         *)
(* Abstracted: a file is the number of its version and its content the     *)
(* number of lines that match, or Unfit (too large, not text); the figures *)
(* of the progress line, of which only the wake is kept.                   *)
(***************************************************************************)
EXTENDS Integers, Sequences, FiniteSets, FiniteSetsExt

CONSTANTS
  Artifacts,    \* the (device, type) pairs, numbered in the order of Targets
  DeviceOf,     \* [Artifacts -> device], devices numbered in order too
  TypeOf,       \* [Artifacts -> capture type]
  Content,      \* for each artifact, by version, the lines that match or Unfit
  Unfit,
  Starts,       \* how many versions of each artifact there may be already
  Healths,      \* what the directories of the devices may be like
  Wants,        \* the type filters asked for; {} is every type
  Workers,
  Limit         \* hits held

ASSUME LimitAssumption == Limit \in Nat \ {0}
ASSUME OrderAssumption ==
  Artifacts \subseteq Nat /\ IsFiniteSet(Artifacts) /\ DeviceOf \in [Artifacts -> Nat]
ASSUME ContentAssumption ==
  /\ Content \in [Artifacts -> Seq(Nat \cup {Unfit})] /\ Unfit \notin Nat
  /\ \A s \in Starts : s \in [Artifacts -> Nat] /\ \A a \in Artifacts : s[a] <= Len(Content[a])

VARIABLES
  newest, disk, health,                 \* the store
  wanted, unlisted, files, skips,       \* Targets, and the artifacts skipped
  gpc, ahead, cancelled,                \* the search's goroutine
  wpc, at, found, held,                 \* its workers
  state,                                \* what the handle reports
  readable, open, win,                  \* the pipe, the handle, the window
  atOpen                                \* newest at the start

store == <<newest, disk, health>>
listed == <<wanted, unlisted, files>>
pool == <<wpc, at, found, held>>
window == <<readable, open, win>>
vars == <<store, listed, skips, gpc, ahead, cancelled, pool, state, window, atOpen>>

Devices == {DeviceOf[a] : a \in Artifacts}
Of(d) == {a \in Artifacts : DeviceOf[a] = d}

\* omegacat_search_open, and SearchBridge::start, which queues a pull of its own:
\* a search may be over before the window watches it.  A device is good, has a
\* history line that does not parse, or a device.json that does not.  Content bounds the versions an artifact gets.
Init ==
  /\ newest \in Starts
  /\ disk = [a \in Artifacts |-> 1..newest[a]]
  /\ health \in Healths
  /\ wanted \in Wants
  /\ unlisted = {d \in Devices : health[d] # "lost"}
  /\ files = [a \in Artifacts |-> 0]
  /\ skips = {}
  /\ gpc = "list"
  /\ ahead = {}
  /\ cancelled = FALSE
  /\ wpc = [w \in Workers |-> "recv"]
  /\ at = [w \in Workers |-> 0]
  /\ found = 0
  /\ held = [a \in Artifacts |-> 0]
  /\ state = "running"
  /\ readable = TRUE /\ open = TRUE /\ win = "idle"
  /\ atOpen = newest

-----------------------------------------------------------------------------
(* The store, under a capture run that keeps one version.                  *)

\* FileStore.Put of new content: a file, and the line that names it.
Put(a) ==
  /\ newest[a] < Len(Content[a])
  /\ newest' = [newest EXCEPT ![a] = @ + 1]
  /\ disk' = [disk EXCEPT ![a] = @ \cup {newest[a] + 1}]
  /\ UNCHANGED <<health, listed, skips, gpc, ahead, cancelled, pool, state, window, atOpen>>

\* The sweep of its prune.
Sweep(a) ==
  /\ disk[a] # {newest[a]} /\ newest[a] > 0
  /\ disk' = [disk EXCEPT ![a] = {newest[a]}]
  /\ UNCHANGED <<newest, health, listed, skips, gpc, ahead, cancelled, pool, state, window, atOpen>>

-----------------------------------------------------------------------------
(* Targets, and the search's own goroutine.                                *)

\* FileStore.Types: the last line that stored a file names the current one.
CurrentFile(a) == newest[a]

InFilter(a) == wanted = {} \/ TypeOf[a] \in wanted

\* The next device: its types, or one skip for all of them.
ListDevice ==
  /\ gpc = "list" /\ unlisted # {}
  /\ LET d == Min(unlisted) IN
       /\ unlisted' = unlisted \ {d}
       /\ IF health[d] = "torn"
          THEN skips' = skips \cup Of(d) /\ UNCHANGED files
          ELSE /\ files' = [a \in Artifacts |->
                              IF a \in Of(d) /\ InFilter(a) THEN CurrentFile(a) ELSE files[a]]
               /\ UNCHANGED skips
  /\ UNCHANGED <<store, wanted, gpc, ahead, cancelled, pool, state, window, atOpen>>

\* Targets returns.  A store none of whose devices reads is an error; nothing to
\* read is an answer.
Listed ==
  /\ gpc = "list" /\ unlisted = {}
  /\ ahead' = {a \in Artifacts : files[a] > 0}
  /\ gpc' = IF ahead' = {} THEN "publish" ELSE "dispatch"
  /\ UNCHANGED <<store, listed, skips, cancelled, pool, state, window, atOpen>>

\* work <- i: the next target, to a worker that waits for one.
Dispatch(w) ==
  /\ gpc = "dispatch" /\ ahead # {} /\ wpc[w] = "recv"
  /\ at' = [at EXCEPT ![w] = Min(ahead)]
  /\ ahead' = ahead \ {Min(ahead)}
  /\ wpc' = [wpc EXCEPT ![w] = "check"]
  /\ UNCHANGED <<store, listed, skips, gpc, cancelled, found, held, state, window, atOpen>>

\* The loop ends with the targets, or with the context.
LoopEnds == ahead = {} \/ cancelled

StopDispatch ==
  /\ gpc = "dispatch" /\ LoopEnds
  /\ gpc' = "wait"
  /\ UNCHANGED <<store, listed, skips, ahead, cancelled, pool, state, window, atOpen>>

\* wg.Wait over a closed channel.
Joined ==
  /\ gpc = "wait" /\ \A w \in Workers : wpc[w] = "gone"
  /\ gpc' = "publish"
  /\ UNCHANGED <<store, listed, skips, ahead, cancelled, pool, state, window, atOpen>>

NoUsableList == \A d \in Devices : health[d] = "lost"

\* The result and the state, under the handle's lock.
Publish ==
  /\ gpc = "publish"
  /\ state' = IF cancelled THEN "cancelled" ELSE IF NoUsableList THEN "failed" ELSE "done"
  /\ gpc' = "poke"
  /\ UNCHANGED <<store, listed, skips, ahead, cancelled, pool, window, atOpen>>

\* A goroutine that ends with its last progress.
EndQuietly ==
  /\ gpc = "poke"
  /\ gpc' = "end"
  /\ UNCHANGED <<store, listed, skips, ahead, cancelled, pool, state, window, atOpen>>

\* searchState.poke: nothing is written to a notifier that close took down.
LastPoke ==
  /\ gpc = "poke"
  /\ readable' = (readable \/ open)
  /\ gpc' = "end"
  /\ UNCHANGED <<store, listed, skips, ahead, cancelled, pool, state, open, win, atOpen>>

-----------------------------------------------------------------------------
(* A worker.                                                               *)

To(w, p) == wpc' = [wpc EXCEPT ![w] = p]

\* The channel is closed and empty.
WorkerEnds(w) ==
  /\ wpc[w] = "recv" /\ gpc = "wait"
  /\ To(w, "gone")
  /\ UNCHANGED <<store, listed, skips, gpc, ahead, cancelled, at, found, held, state, window, atOpen>>

\* ctx.Err, looked at once per target.
Stops == cancelled

Quit(w) ==
  /\ wpc[w] = "check" /\ Stops
  /\ To(w, "gone")
  /\ UNCHANGED <<store, listed, skips, gpc, ahead, cancelled, at, found, held, state, window, atOpen>>

\* At the limit the remaining targets are drained unread.
Pass(w) ==
  /\ wpc[w] = "check" /\ ~Stops /\ found >= Limit
  /\ To(w, "recv")
  /\ UNCHANGED <<store, listed, skips, gpc, ahead, cancelled, at, found, held, state, window, atOpen>>

Begin(w) ==
  /\ wpc[w] = "check" /\ ~Stops /\ found < Limit
  /\ To(w, "read")
  /\ UNCHANGED <<store, listed, skips, gpc, ahead, cancelled, at, found, held, state, window, atOpen>>

\* progress, whose OnProgress wakes the window; nobody sees what went before it
\* without it.
Report(w) ==
  /\ To(w, "recv")
  /\ readable' = (readable \/ open)

\* A file that is gone leaves no trace.
SkipIfThere(a) == IF files[a] \in disk[a] THEN {a} ELSE {}

SkipOf(a) == {a}

\* Browser.Read fails, or what it returns is too large or not text.
Unsearched(a) == files[a] \notin disk[a] \/ Content[a][files[a]] = Unfit

Read(w) ==
  /\ wpc[w] = "read"
  /\ IF Unsearched(at[w])
     THEN skips' = skips \cup SkipOf(at[w]) /\ Report(w)
     ELSE To(w, "claim") /\ UNCHANGED <<skips, readable>>
  /\ UNCHANGED <<store, listed, gpc, ahead, cancelled, at, found, held, state, open, win, atOpen>>

\* Every hit of the artifact that reaches the limit.
KeptWhole(n) == IF found < Limit THEN n ELSE 0

\* Of n hits, those the limit has room for once they are counted.
Kept(n) ==
  LET room == Limit - (found + n)
  IN IF room >= 0 THEN n ELSE IF n + room < 0 THEN 0 ELSE n + room

Claim(w) ==
  LET n == Content[at[w]][files[at[w]]] IN
  /\ wpc[w] = "claim"
  /\ held' = [held EXCEPT ![at[w]] = Kept(n)]
  /\ found' = found + n
  /\ Report(w)
  /\ UNCHANGED <<store, listed, skips, gpc, ahead, cancelled, at, state, open, win, atOpen>>

-----------------------------------------------------------------------------
(* The window.                                                             *)

\* SearchBridge::pull: drain, then ask.
Drain ==
  /\ open /\ win = "idle" /\ readable
  /\ readable' = FALSE
  /\ win' = "drained"
  /\ UNCHANGED <<store, listed, skips, gpc, ahead, cancelled, pool, state, open, atOpen>>

\* The progress; once it says finished, the result, and no pull after it.
Look ==
  /\ open /\ win = "drained"
  /\ win' = IF state = "running" THEN "idle" ELSE "shown"
  /\ UNCHANGED <<store, listed, skips, gpc, ahead, cancelled, pool, state, readable, open, atOpen>>

Cancel ==
  /\ open /\ ~cancelled
  /\ cancelled' = TRUE
  /\ UNCHANGED <<store, listed, skips, gpc, ahead, pool, state, window, atOpen>>

\* omegacat_search_close: the next search, or the view going away.
Close ==
  /\ open /\ win # "drained"
  /\ open' = FALSE /\ cancelled' = TRUE /\ readable' = FALSE
  /\ UNCHANGED <<store, listed, skips, gpc, ahead, pool, state, win, atOpen>>

-----------------------------------------------------------------------------
Work(w) == WorkerEnds(w) \/ Quit(w) \/ Pass(w) \/ Begin(w) \/ Read(w) \/ Claim(w)
Coordinate ==
  \/ ListDevice \/ Listed \/ (\E w \in Workers : Dispatch(w)) \/ StopDispatch
  \/ Joined \/ Publish \/ LastPoke
Pull == Drain \/ Look

Next ==
  \/ \E a \in Artifacts : Put(a) \/ Sweep(a)
  \/ Coordinate
  \/ \E w \in Workers : Work(w)
  \/ Pull \/ Cancel \/ Close

\* Goroutines run, and Qt's event loop delivers a readable pipe; nothing makes
\* anybody capture, cancel or close.
Spec ==
  /\ Init /\ [][Next]_vars
  /\ WF_vars(Coordinate) /\ WF_vars(Pull)
  /\ \A w \in Workers : WF_vars(Work(w))

-----------------------------------------------------------------------------
(* Properties.                                                             *)

TypeOK ==
  /\ \A a \in Artifacts : {files[a], newest[a]} \subseteq 0..Len(Content[a])
  /\ skips \subseteq Artifacts /\ ahead \subseteq Artifacts
  /\ found \in Nat /\ held \in [Artifacts -> 0..Limit]
  /\ gpc \in {"list", "dispatch", "wait", "publish", "poke", "end"}
  /\ wpc \in [Workers -> {"recv", "check", "read", "claim", "gone"}]
  /\ state \in {"running", "done", "cancelled", "failed"}
  /\ win \in {"idle", "drained", "shown"}

Sum(f, S) == MapThenSumSet(LAMBDA a : f[a], S)
Held == Sum(held, Artifacts)
Capped == found >= Limit

\* DefaultLimit "caps the hits held in memory": whoever finishes together, the
\* hits kept are all that were found or, Capped, exactly the limit.  A search whose
\* last line just meets the limit is Capped too, as in the code.
LimitIsExact == Held = IF Capped THEN Limit ELSE found

\* Skip: a search that quietly declines to look reports the same empty result as
\* one that looked.  Of a search that ran to its end below the limit, every
\* artifact the store held when it began, and the filter asks for, is answered
\* for: with every line of it that matches, by a skip, or by the warning that its
\* device could not be identified; pruned meanwhile or not.
NothingSilent ==
  state = "done" /\ ~Capped =>
    \A a \in Artifacts : atOpen[a] > 0 /\ InFilter(a) =>
      \/ a \in skips
      \/ health[DeviceOf[a]] = "lost"
      \/ files[a] > 0 /\ held[a] = Content[a][files[a]]

\* Only the current version is searched: no hit is from a version that was
\* already replaced when the search began.
HitsAreCurrent == \A a \in Artifacts : held[a] > 0 => files[a] \in atOpen[a]..newest[a]

\* What an answer says, and what it leaves out, is the store as it was at some
\* moment of the search.
AnswerIsHonest == TypeOK /\ NothingSilent /\ HitsAreCurrent

\* Every search ends, cancelled between any two steps of the dispatcher and the
\* workers it hands targets to.
SearchEnds == <>(state # "running")

\* The window has no timer: a search that ended is seen by its last wake, unless
\* the window closed it.
ResultArrives == [](state # "running" => <>(win = "shown" \/ ~open))

\* Whatever is cancelled, pruned or closed meanwhile, a search ends and the window
\* that waits for it sees that it did.
EverySearchIsAnswered == SearchEnds /\ ResultArrives

=============================================================================
