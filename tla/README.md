# OmegaCatQt in TLA+

OmegaCatQt visits network devices over SSH, runs a few `show` commands on each,
and keeps what they answer in a versioned store. A Go core does the work; a Qt
window reads its progress through a C interface. This directory holds TLA+
models of the core, TLC runs that check them on small instances, and TLAPS
proofs of the theorems that matter for every size.

All definitions are translated from the Go and C++ source. `PROJECT.json` names
for each definition the lines it stands for.

- [The system](#the-system): parts, state, operations, interactions
- [Modules](#modules): what models what, and how state and actions correspond
- [Runs](#runs): what TLC checks, the bounds, why they are enough
- [Fairness](#fairness)
- [Proofs](#proofs): what holds for every value of the constants
- [Where the code and its documentation part](#where-the-code-and-its-documentation-part)
- [Not modelled](#not-modelled)
- [Plan](#plan)

## The system

A capture run passes through these parts, top to bottom.

| Part | State | Operations | Interacts with |
|---|---|---|---|
| **Window**, `app/runbridge.cpp`, `app/runview.cpp` | handle of the run, two cursors, the last progress, a tick timer, a socket notifier | adopt, pull, cancel, close | calls the C interface; is woken by the notifier |
| **Run handles**, `capi/capi.go`, `capi/capture.go` | table of runs; per run a context, a `Run`, a notifier, a result | open, progress, rows_since, decisions_since, cancel, close; the goroutine `runCapture` | installs the run model's change hook, which pokes the notifier |
| **Run model**, `internal/capturerun` | devices, rows (one per device and type), counters, decisions, a change number | apply an event, `Finish`, `RowsSince`, `DecisionsSince`, `Progress` | receives events from every worker; calls the hook outside its lock |
| **Device list**, `capturerun/params.go`, `capturedial` | none, parameters in, devices out | resolve targets, select sessions, fold duplicates | feeds the engine |
| **Engine**, `internal/capture/capture.go` | slots, the lane of expensive commands, one goroutine a device | `Capture`, `visit`, `one`, `deviceFailed`, `identify` | dials, runs commands, puts, emits |
| **Credential ladder**, `internal/credres/credres.go`, `internal/dial` | promoted credential, rejections by device and by credential, parked credentials | `Resolve`, `Report`, `Walk` | reads the vault, reads and writes the bindings, dials |
| **Bindings**, `internal/credres/binding.go` | records (names, canonical name, credential, last success), index by name, a JSON file | `Record`, `Bind`, `Forget`, `Lookup`, open | shared by all visits of a run and by successive runs |
| **Vault**, `internal/vault`, `capi/vault.go`, `internal/vaultcli` | key, credentials, an encrypted file | create, unlock, lock, change master, add, update, delete, default, disable | read by the ladder; edited by dialogs while runs are under way |
| **Device session**, `internal/netexec`, `internal/sshcore` | receive buffer, prompt, byte limit | open, run a command, fingerprint, enable | a reader goroutine appends while a caller waits for a prompt |
| **Capture store**, `internal/capture/store.go`, `parsed.go` | per device and type: files, parse sidecars, `history.jsonl`; per device: `device.json` | `Put` (with its prune), `PutParsed`, reads | written by engine workers, read by store view and search |
| **Sessions and inventory**, `internal/sessions`, `internal/inventory`, `internal/topo` | a tree of folders and sessions in a YAML file | edits applied as a list, import, merge, selection | the device list selects from it |
| **Templates**, `internal/tfsmfire`, `internal/tfsmlab`, `capi/templates.go` | a SQLite database of TextFSM templates, one engine in memory per database | match, sweep, edit, reload | parse what was captured |
| **Search and diff**, `internal/storesearch`, `capi/search.go`, `capture/diff.go`, `internal/diffignore` | a handle per search with its wake | search, cancel, close, diff | read the store while runs write it |
| **Command line**, `cmd/capture`, `cmd/ocvault` | none | one run; vault upkeep | the same core without the window |

What makes it hard, and what makes it correct:

- *Run model and window.* Workers change the run at any moment of a pull, which
  is several calls; wakes coalesce and close races with them. Correct means: the
  counters are the rows, a verdict once given stays, every change of a row carries
  a number that a later pull will ask for, and the last pull shows everything.
- *Ladder.* A list of credentials is computed under a lock and used without it.
  Correct means that a bad credential locks out a bounded number of accounts,
  and that what is remembered as the device's own has logged in there.
- *Bindings.* Names arrive piecemeal and in any order, some shared by several
  devices. Correct means that no two devices meet in one record, and that a
  restart knows what was known.
- *Engine.* Failures at every step of a visit, a cancel at any moment, two
  nested limits on concurrency. Correct means that every device and type has a
  result, the table says the same, places come back, and the run ends.
- *Store.* A `Put` is up to seven steps on disk with possible death or failure
  between any two. Correct means that history and directory agree at every
  moment, that retention removes what it says, and nothing when it cannot tell.
- *Naming.* A visit resolves, binds and resolves again with nothing held in
  between. Correct means that a device's captures are filed under one name that
  later runs find, and never under another device's.
- *Session.* Output arrives in chunks that may end anywhere, through pagers and
  banners, past a bound on what is kept. Correct means that an answer is whole
  and its own command's, and that a visit ends whatever the device says or
  withholds, but for the calls to which the code gives no deadline: the three
  requests that open the shell, and a write.
- *Vault.* Several threads and a second program, saves that may fail, a keyring
  entry filed after the vault was opened. Correct means that memory is the file
  (but for the cases `MemoryIsFile` names), that names and the default stay unique,
  and that the entry opens the vault.
- *Inventory.* Whole-file edits without a lock, and ticks kept by an address that
  edits change. Correct means that an edit changes what it says, that a tick
  stays on its device, and that a run visits what is ticked.
- *Search.* A pool of workers under one limit over a store that changes, and a
  window without a timer. Correct means that what is missing from an answer is
  said to be missing, and that the answer comes.
- *Templates.* One engine in memory, opened by whichever run comes first, over a
  database that several programs edit. Correct means that a save reaches the
  captures, and that a sweep is about one state of the database.

`PROJECT.json` lists the hazards line by line with the properties that cover them.

## Modules

```
ResultBoard  <-- refined by --  CaptureRun  <-- EXTENDS --  RunBridge
     ^                                                        (window + run)
     +---------- refined by --  CaptureEngine
VersionLog   <-- refined by --  FileStore
Bindings     <-- EXTENDS --  Naming              (visits + binding store)
SessionTree  <-- EXTENDS --  DeviceList  <-- EXTENDS --  Inventory
                                        (tree, device list, window, second program)
CredResolver    NetSession    Vault    StoreSearch    TemplateLab
<module>Proofs: theorems of CaptureRun with RunBridge, NetSession, StoreSearch,
                TemplateLab, Naming with Bindings, Inventory with SessionTree;
                CaptureProofs: of CaptureEngine and FileStore
                CredentialProofs: of CredResolver and Vault
MC*:            instances for TLC
```

A module's type invariant is the first conjunct of its main invariant (`RowsAgree`,
`LadderIsSound`, `HistoryIsTrue`, `RecordsApart`, `TableIsSound`, `EditsAreExact`,
`AnswerIsHonest`, ...), so that it is checked without a run of its own.

**CaptureRun** (`capturerun/run.go`, `event.go`). An event is a record of its
kind and payload, drawn from every kind an emit site constructs. Each branch of
`applyLocked` is an action (`ApplyRunWide`, `ApplyDevice`, `ApplyTerminal` and
their relatives) that begins with `Receive`, what `Run.apply` does for every
event: a number, and a place in the decisions list when the event is notable and
not `AlreadySaid`. `rows`, `devices`, `notable`, `seq` are the fields of `Run`;
`tally` and `counts` are the two halves of `Run.counts`. `Finish` settles what is
still running.

**ResultBoard** is what a run promises a reader: each cell goes from absent to
running to one verdict, once; after closing nothing is open.

**RunBridge** (`runbridge.cpp`, `capi.go`) extends CaptureRun with the window.
A pull is several steps, one per C call, since the run may change between any two:
`PullOnWake` or `PullOnTick` drains the notifier, then `ReadProgress`, `ReadRows`,
`ReadDecisions`, `ShowProgress` and `EndPull`. A change and the poke that
announces it are two steps as well: the emitter reads the hook under the run's
lock and calls it outside (`hooks` counts those in between), so that pulls and
`Close` may fall in the gap. `AbandonPull` is a pull that finds its handle gone.

**CredResolver** (`credres.go`, `classify.go`, `dial.go`). `Allowed` is who the
vault's flags, tags and scopes let through, `Rank` the static order of `rank`.
`StartWalk` is `Resolve` and fixes the list of candidates; `Succeeds`,
`Rejected`, `KeyMaterial` and `GivesUp` are one dial, its classification
(`Classify`: the first verdict one of whose marks the error carries) and its
`Report`. Two visits may have one identity.

What a run learns is kept by identity (`negative`, `rejects`), but a pin is kept in
the device's record, which its names share: `RecordsOf` and `Learned` are the lookup by
`bindingIDs`, `RecordLogin` and `Forget` write through it, and `Identified` is the bind of
the answering address after the login. All of them work on `index` and `bound`, a record
being called by one of its names; `vouched` is a history of who logged in with a pin. So a
visit by the address that is refused and one by the name that succeeds leave a pin that
the address has rejected: that is what the code does, and `PinIsVouched` (in
`LadderIsSound`) says what is left: some name of the record logged in with the pin and has
not rejected it since. A visit by the refused name does not try it (`Offerable`). The
names here are addresses and qualified names; the label that one starts with only finds a
record (`Namesakes`), and a visit known by a bare label alone is left to `Naming`. The
`Lookup` and the `Forget` of a rejection are one step, although a bind of another visit
may fall between.

**Bindings** (`binding.go`). The alias set is written as functions of its state:
`BoundTo` is `bind`, `Merge` is `merge`, `Targets` its choice of a record.
`MergeAll` its loop over the records found, `Takes` what it attaches. `Record`,
`Bind`, `Forget` and `Open` are the operations, each under the store's
lock and each followed by a save of the whole. A name is an address, a qualified
name or a label, which is all that `shapesFor` distinguishes. The order of a
caller's ids is left open where the code takes the first that matches.

**FileStore** (`store.go`, `parsed.go`), one directory. `pc` is a writer's place
in `Put`: `Begin`, `Compare`, `WriteFile`, `AppendEntry`, `Plan`, `Cut`,
`Unlink` (a file at a time), `Return`; then `PutParsed`, after the lock was
given up. `Fail` is an error return or the death of the process between two
steps, `AppendTorn` within the append, `PruneFails` an error of the prune, and
`Unlink` may be refused. `StoreOf` says which writers share a `FileStore` and so
a lock. **VersionLog** is the abstract store: a list that grows by content that
differs from its last, and from which a retention keeps the newest.

**CaptureEngine** (`capture.go`, `capi/capture.go`). `phase` is each visit's place
in `Capture`, `visit`, `one` and `deviceFailed`; `slots` and `lane` are the two
channels. `rows` is the run model reduced to the states of its rows: for any
order of events it behaves as a ResultBoard, which is what CaptureRun's
`RunIsABoard` checks. `Judge` and `Finish` are the end of `runCapture`.

**Naming** (`identify` of `capture.go`) composes the visits of a run with the
binding store. A visit's place is `LogIn`, `ResolveFirst`, `BindAnswered` or
`BindPrompt`, `Picked`, `Reread`; each is one locked call of the store, and the
calls of other visits fall in between. `NextRun` opens the file anew. `Given` is
what an entry of the list resolves with, which for a session includes its name and
aliases; `Bound` is what its visit binds on its own evidence.

**NetSession** (`internal/netexec`, with the visit's loop of `capture.go` and the
shell of `internal/fakedev` as the device). A stream is a sequence of lines of a
few kinds: text, a line that looks like the prompt, a gate that waits for a key,
a refusal. `DeviceReads`, `DeviceWrites`, `Hangup` are the device; `Arrive` the
reader goroutines with the bound on what is kept. `Granted` and `OpenEnds` are the
requests of `Open`; `RunWith`, `Sent`, `SendFails`, `PromptSeen`, `NoPrompt`,
`KeySent`, `Select`, `Wake`, `GiveUp` and `SessionClosed` the steps of `RunWith`,
`send` and `expect`; `NextProbe`, `Fingerprint`, `Capture` what is sent next.

**Vault** (`internal/vault`, `capi/vault.go`, `internal/vaultcli`, `cmd/ocvault`).
A handle is a key and a table in memory; `file` is what is sealed on disk. A call
that holds the lock is one step; create, unlock, re-key and rename are two, since
they read first (`task` is what was read). `Opened` files the master in the
keyring, also later. `WriteFails` is a save that does not happen, after which
each operation rolls back or does not, as the code does. `MemoryIsFile` excuses, by the
history `synced`, a save of the handle's own that failed, another program's save, a
default set for an id that is not there, and an unlock that a save overtook (11 below):
a table counts as the file's when no save was tried between its read and its install.

**SessionTree**, **DeviceList**, **Inventory** (`internal/sessions`,
`capturerun/params.go`, `internal/capturedial`, `internal/inventory`, and the
window's dialog). SessionTree and DeviceList are operators: each edit of the tree
with its condition, selection by pattern and by key, the merge of typed, listed
and picked devices. Inventory is the state: the file, each writer's call between
its load and its save (`job`), the Run view with its ticks, the dialog with the
map of changed keys it composes. `id` is a ghost that says "the same session".

**StoreSearch** (`storesearch/search.go`, `capi/search.go`, `SearchBridge`). A
goroutine lists the targets a device at a time, a dispatcher hands them over, the
workers read and claim room under the limit; `Put` and `Sweep` are captures that
go on meanwhile. `Publish` and `LastPoke` end it, `Drain` and `Look` are the window.

**TemplateLab** (`capi/templates.go`, `capi/capture.go`, `internal/tfsmlab`,
`internal/tfsmfire`). A thread's call is a sequence of steps, each one lock or one
SQLite statement: check, write, look for an engine, read, publish; a run's open
is read, register. Another program's Lab takes the same steps without an engine.

Abstractions are named at the head of each module. Common to all: credentials,
contents, names and addresses are model values, times are small numbers or
members of a set, text and logging are left out.

## Runs

| Run | What it asks | Bounds and why they are enough |
|---|---|---|
| `run_model` | counters, stamped facts, bytes, change numbers of rows, refinement of ResultBoard, under any four events and Finish | a row's life is learn, open, settle, contradict: four events, over two devices and two types so that another row may come in between |
| `bridge` | the window's table is in step, no wake is lost, the last pull is complete, a finish is seen | three events and Finish, one device with two types, two emitters; every interleaving of one pull and the next |
| `cred_resolver` | lockout bound, breaker, pins, the ladder of a walk | five visits of three devices, two workers, so that parking meets walks under way; one device is listed by its address, by a name claimed under it and by a name of its own, and the stores of earlier runs know nothing of it, have it in one record or in two; credentials with scopes that some addresses match; errors with two marks |
| `file_store` | history names existing files with the right content; runs of equal lines; exact prunes; nothing removed blindly; refinement of VersionLog | four Puts, two writers, two contents, one stamp so that all names collide, retention 0 to 2, two devices with one slug: enough to fill, cut and refill |
| `engine` | slots, lane, rows against results, verdict of the run, its end, refinement of ResultBoard | three visits over two slots and a lane of one, so one always waits for each; two visits are of one device listed twice, so they share rows |
| `bindings` | index and records, histories of two devices apart, later runs find what was filed, age of pins, restarts | five entries of two devices whose qualified names share a label, one of them the excused entry of item 10 below; seven names, three successes, three records, so that a merge and a refusal both happen and a restart follows |
| `naming_key` | *violated*: one history per device | two devices, one of them a session called the first label of the other's qualified name |
| `session` | answers are whole, no prompt slept on, the platform, every visit ends that is not held where the code sets no deadline | three devices (one of neither family), two probes, two captures; an answer that fits and one that does not; two keys in flight |
| `vault` | names and default unique, memory is the file, the keyring entry | one window whose calls interleave and one `ocvault`, two masters, two names, a login and an SNMP entry, two saves |
| `inventory` | the tree, ticks, edits, what a run visits | four sessions in two folders that share a host and a name, three calls of dialog or second program, one to three edits a call, one crawl of three nodes, two ticks |
| `search` | the limit, what may be missing, an answer comes | three artifacts of two devices, two workers, two hits, where one version alone has three; stores with a torn history and an unreadable device |
| `templates` | saves reach captures, sweeps, names | two threads of the window, a second program, one run, two edits, three row ids, two names; the database may have to be seeded |

Deadlock is not checked where a run really ends: all walks done, all Puts used.
Records of `Bindings`, devices and types of `CaptureRun` and threads of `TemplateLab` are
interchangeable, hence the symmetry of those runs, which have no liveness property. Every property of a passing run comes with a mutant of
the code, listed in `PROJECT.json` and defined next to the definition it
changes, which breaks it.

Some properties a reader may want explained:

- `PullsAreComplete`: a window that has pulled has every row up to its cursor, and
  a finished window shows the run's final rows. It holds
  because the pull reads progress first and `Finish` is the last change, so
  "finished" in the progress means the rows read after it are final.
- `EveryChangeIsNumbered`: speaks of rows. Counters are pulled whole with every
  progress and need no number.
- `LockoutBound`: at most `Threshold + Workers - 1` devices reject a credential
  between two successes. The threshold alone is not the bound: walks under way
  still hold a parked credential.
- `PruneIsRight`: after a prune without a refused removal the directory is
  exactly what history names, including whatever earlier Puts left behind by
  dying, and nothing is removed when history cannot be read. This is why the sweep goes by the directory and not by the lines cut.
- `HistoryIsTrue`: depends on two orders, file before line and rewrite before
  unlink, and on the lock from `Begin` to the end.
- `TableIsTheResults`: with a device listed twice, one visit may fail a row the
  other has open and then finish its work; the row agrees with one of the two
  results, and no stronger statement holds.
- `HistoriesApart` and `LaterRunsFindIt` speak of visits whose list entry and prompt
  are no name, and no first label of a name, of another device (`OwnNames`); the
  qualified names may share first labels. Without that, see the first finding below.
  `LaterRunsFindIt` also leaves out a prompt that a version 1 record has for its own
  label (`Unmigrated`): a device known by its address only is then not joined with
  that record, and keeps it or the prompt's name by the order of the file. And it
  leaves out an entry that binds a label another entry binds too, unless the two bind
  it with an address or qualified name in common (`OwnLabels`): such a label may be
  refused to one of them, and the entry then finds another record than the one it
  filed under (10 below). The code states no such condition.
- `RestartKeepsNames`: binding the stored records again joins no two addresses or
  qualified names that were apart, in any order of the file.
- `AnswerIsWhole` speaks of visits in which every read ended at a prompt of its
  own. Once a line that looks like the prompt ended a read early, or a command
  timed out and answers late, the code cannot notice, and the next answer may be
  another command's.
- `MemoryIsFile` excuses a handle whose own save failed, one behind another
  program's save, a default set for an id that is not there, which the code
  leaves in memory unsaved, and an unlock that a save of any handle overtook between
  its read and its install (11 below).
- `EditsAreExact` says what an Apply reports of changed keys for every list of edits
  but those that re-key or delete a session they have themselves added at a key
  vacated before (`Retaken`); there the report is wrong (13 below). One of the lists
  checked is such a list.
- `TicksFollow` excuses a view behind another program's save, and a key that was
  freed and taken over by another session within one dialog: `composeKeys`
  (`app/inventory.cpp:110`) then sends the old device's tick to the new one.
- `AnswerIsHonest`: of a search that ended below its limit, each artifact is
  answered for by its hits, a skip or a warning, and by a version that was
  current at some moment of the search.
- `EditsReachCaptures`: that `engineFor` holds its lock over the open is what
  makes it true; the mutant that looks without it is found at once. It says nothing
  of saves in a file that an `EnsureDB` under way then replaced (9 below).

## Fairness

- *RunBridge*: an emitter that left the lock pokes, a readable pipe starts a pull,
  and a pull that has begun goes on (`WF` of `Poke`, `PullOnWake`, `Pull`): the Go
  scheduler and the event loop. The tick is given no fairness, so `FinishIsSeen`
  shows that the wakes alone suffice; neither is the engine.
- *CaptureEngine*: goroutines are scheduled and a command returns within its
  timeout, so each visit is weakly fair, as are the two last steps of the run.
  Cancelling and failing to build are not. Weak fairness is enough even for
  places: a visit queues behind finitely many others and each leaves once. It
  assumes more of the opening of a shell than the code gives (NetSession): a
  device may hold it for ever, and its slot with it. `RunEnds` is about the
  queueing for slots and lane, among visits that do get their answers.

- *NetSession*: the visit's goroutine runs, its deadline fires, and a call on a lost
  connection fails (`WF` of `RunWith \/ RunRefused \/ Expect \/ OpenLost \/
  SendFails`). The device has no fairness: it may say nothing for ever, and the
  visit ends all the same. It may also never answer a request for a channel, a PTY
  or a shell, nor take what is written: there the code waits with neither a deadline
  (`dial.go:135` clears it) nor a context, so `Granted`, `Sent` and `KeySent` have no
  fairness and `VisitEnds` names the visit that stays there (`OnDevice`).
- *StoreSearch*: the search's goroutine and each worker are scheduled (`WF` of
  `Coordinate` and `Work(w)`), and the window's event loop serves a readable
  notifier (`WF` of `Pull`). Captures, cancel and close have none.

Runs without a liveness property use no fairness.

## Proofs

Proved with TLAPS, for all values of the constants under the named assumptions at the
head of each module. `PROJECT.json` lists the theorems with what each establishes. Of
the eight proof modules, each extends the model it is about (`CaptureProofs` and
`CredentialProofs` two models each, one after the other) and states the
inductive invariant; a step lemma for each action, or for each of the few ways the
state may move, follows, and then the theorems.

**CaptureRunProofs.** `TypeCorrect`: each handler returns a state of its set.
`TallyCorrect`: each counter is the size of the set of rows in its state
(`Populations`); one lemma, `MoveCount`, says what those sizes become when rows move,
and every step opens a row, moves a set of rows or leaves all states alone.
`FactsCorrect` and `RowsCorrect` add what a row says of its device, and the bytes:
the sum of the stored rows' bytes is kept as the size of a set (`BytesOf`), so that
the step lemmas for counters serve again. `ChangesAreNumbered` and
`RunImplementsBoard` follow from the same invariant, the latter with `Closed`,
nothing runs after `Finish`.

Of the window, `BridgeRuns` first: the run's part of a bridge step is a step of the
run, so that all of the above holds under the bridge. `BridgeInv` says for every
point of a pull what has been read (`TableInSync`, `ListInSync`), that a progress which
says finished was the last one (`EndIsRead`), and that what the pull has not read has
a wake waiting or an emitter about to poke (`WakeHeld`). `PullsLoseNothing`,
`NoWakeIsLost` and `ScreenImplementsBoard` follow: the table on the screen is itself
a result board, although a pull may take in many steps of the run at once, since the
board's moves compose (`MovesChain`).

**CredentialProofs**, the ladder. `BreakerHolds` is inductive together with the types, the bound
on walking visits and the fact that a walking visit's list has no repetition. When a
rejection parks a credential the count is exactly the threshold and at most
`Workers - 1` other visits hold it; each of them can add one device and then no longer
holds it. `LockoutGuard` follows, and `LadderCorrect` with the length of a list (`Short`).

**CaptureProofs**, the engine. The invariant adds to `NothingLeftOpen` where a visit holds its
places, that what a visit owes is exactly the types it has no result for (`Stages`),
and that a settled row tells a result of a visit of its device, or one that a visit of
the dead device has yet to write (`Traced`). `EngineImplementsBoard` uses it to show
that `Finish` finds nothing running.

**CaptureProofs**, the store. For the workers of one store (`OneStore`, as a run has it: the lock
is the process's). Neither half of `HistoryIsTrue` is inductive: what a Put may write
depends on what it read, which still holds because one Put at a time is past the lock
(`OneAtATime`) and `Knows` says at each step what that Put knows. That a free name exists
is a count of the files against the Puts (`Room`). `CutIsRight`: the lines a prune
keeps begin at the first line of a run, and name as many files as it was told at most.
`PrunesAreRight` follows from `Sweeping`. For `StoreImplementsLog` the versions are the
stored lines in the order of their ranks; a cut leaves those from a rank on
(`CutVersions`), and exactly `keep` of them when it cuts anything (`CutRetains`).

**CredentialProofs**, the vault. `TablesAreSound`, `MemoryMatchesFile` and `KeyringOpensVault` are inductive
together with `ReadsHold`: what a call of several steps has read still promises
something when it goes on, that of an unlock to be the file until the next save.
`MemoryMatchesFile` has the excuses of `MemoryIsFile` above. One lemma for each way a
table changes, one for a save.

**StoreSearchProofs.** The hits held are a sum over artifacts. The invariant follows each
artifact from the listing to the worker that has it: a target is nobody's twice
(`Handed`), none is lost on the way (`Accounted`), and a file listed was current at
some moment of the search (`Versions`).

**NetSessionProofs.** While no read has ended without its prompt, the stream is in one of
four conditions (`Quiet`, `Untaken`, `Answering`, `Stuck`): what is in the buffer is the last of
what has been sent of the answer to the command the visit waits for, all of it unless
the bound cut it, and what is still to come is the rest (`Flows`). From it
`AnswersAreWhole` and `PlatformIsRight`. `PromptsWake` needs no more than that a wake
is left with every chunk.

**TemplateLabProofs.** `NamesApart`: a write does not look again, so the invariant adds
that a writer whose transaction is still current has found its name free in the file
as it is now (`Checked`). `EditsAreParsedWith`: what was read holds the Lab's edits or
a reload is still to come (`Reaches`), because the open holds the lock that a reload
waits for. `SweepReadsOneEngine`: one call of the bridge at a time, and an engine that
changes in reloads only (`Stands`).

**NamingProofs.** First the store alone. `BindingsInv` says of the alias set and of the
file what a load must be able to rely on: index and records agree, a record has a
label, one that is an address or a qualified name is among its own names, what it has
of these is one call's, no pin is later than the clock, and the file fits the store and
has no address or qualified name twice. `BoundIs` is what one bind makes of a store,
whatever it found and merged: only records with a strong name of the caller's are
merged, and a label selects a record only when nothing has identified it, so that
shared labels bring no two devices together. `RecordsApartAlways` is this invariant;
`PinNeverOlderAlways` needs besides that a merge of any number of records keeps the
latest pin; `RestartKeepsNamesAlways` that at every point of a load what was read so
far is tied as the file ties it (`LoadedUpTo`). Then the visits: `NamingInv` adds that
what a record or a visit calls a device is a name said of it or the first label of one
(`Titled`), so that under `OwnNames` two devices are never filed under one name
(`HistoriesApartAlways`). `VisitsKeepRecordsApart` and `VisitsKeepPins` carry the
store's theorems over to visits: what `identify` binds is its own device's.

**InventoryProofs.** Each call loads the whole file, works in memory and saves all of it,
whatever was saved in between, so `InventoryInv` is that the file is sound and so is the
tree every call in flight is about to save (`Jobs`). The work is in the edits, which the
model writes as functions of a tree. A session and its place are related by
`ApartOn`, soundness of a part of the places, so that an edit can be followed
through the moment at which a session is out of its folder and not yet in the other:
`CarriedOver` moves a sound part along a map of places, `OneMore` adds a place whose key
and label are nobody's. From these come one lemma for each edit of a tree and each edit of
the editor (`DoIs`), and a list of edits, a list of keys, an import and the recognition
of a map are folds of steps that each keep the tree sound (`FoldExists`, `FoldEnds`;
`RunIs`, `ImportMapIs`). `TreeIsSoundAlways` follows.

The device list of a run rests on it. Its three folds are followed value by value
(`Along`): a split list names each entry once (`ParseIs`), places are put in order
without losing one (`InOrderIs`), and merging keeps the listed devices in front and
loses no target (`MergeIs`). Where an address names one session, the patterns and the
ticks pick exactly the sessions they mean, in one selection or in two put together
(`SelectedIs`), and a target that is dialled tells its session from every other
(`TargetTellsKey`), so that no device can take the place of another in the merge. Hence
`RunIsTheSelectionAlways`, for every request whose fields have their types
(`RequestsAssumption`).

*Induction over data.* The prover cannot use an induction theorem, whose parameter is
a predicate. Where one is needed (that sums and the recursive `Shown` exist and what
they are, that a run of lines has one file) the proofs take the least
counterexample instead: `LeastNat` and `LeastSet` derive it from the library's
well-founded order on the subsets of a finite set.

*Assumptions on constants* that are more than types and finiteness: credentials have
distinct names (`EntryAssumption`); no type is selected twice, which `New` refuses
(`SpecsAssumption`); the shipped templates have distinct names (`ShippedAssumption`);
a vault found on disk is sound, as every program that writes one keeps it
(`FoundAssumption`); an answer contains neither an echo nor the prompt, and the last line of it
that can be seen is none that looks like a prompt, since `StripEchoAndPrompt`
(`clean.go:89`) takes that line with the prompt (`DevicesAssumption`); an address or a
qualified name is one device's, and a store has room for the file it opens
(`CallsAssumption`, `OldFilesAssumption`); an entry's login is recorded under names it
also resolves with, and these are its device's (`EntryAssumption`); the inventory found
on disk is sound, as every program that edits it keeps it (a file written by hand need
not be: the loader does not look, `FileAssumption`). TLC evaluates all of them for its
instances.

*Only model-checked:* liveness (`FinishIsSeen`, `RunEnds`, `VisitEnds`,
`EverySearchIsAnswered`; beyond the prover), `LaterRunsFindIt` of `Naming`, and
`TicksFollow` and `EditsAreExact` of `Inventory`. `LaterRunsFindIt` is checked of one list
of five entries; 1900 lists of two and three entries drawn at random showed nothing
against it, and without `OwnLabels` some lists violate it (10 below). `EditsAreExact` tells sessions apart by the
ghost ids, so a proof needs that a file's ids are distinct and behind `made`, carried
through every edit again; and `EditsKeepOthers` would have to follow a folder through
a rename, since a call that renames a folder and then removes it under its new name
drops sessions that `Dropped` does not count. `TicksFollow` rests on
`ResultTellsWhereTo`, one of its parts.

## Where the code and its documentation part

One is a run that TLC finds violated (`naming_key`; `PROJECT.json` quotes the lines):

1. *Two devices share one history.* A session is called `leaf`, and another device
   is known as `leaf.example.net`. `Record` leaves the label out of the session's record,
   since the other record owns it; but `identify` then resolves the session's ids in
   order, the label first (`capture.go:463`), finds the other record, takes its name for
   one learned about this device and files the captures there. `binding.go:66` names the
   assumption that first labels are unique for a bind that finds no strong match; here
   the bind refuses and the lookup does not. A prompt that is another device's label
   takes the same way (`capture.go:494`).

The others were met while modelling, and checked by TLC on the way; they have no run,
since no document promises the opposite, or the promise is one sentence of a header:

2. *A rejected credential is offered again.* The header of `credres.go` excludes it
   for the whole run; a success of another credential at the same identity clears
   the memory.
3. *Two stores on one root.* Each run opens its own `FileStore`, and the lock is
   inside it; two runs may prune a file whose line is about to be appended.
4. *The canonical name is not always an alias*: a label refused because another
   record has it still becomes the display name. *Migration merges*: a version 1
   file with `leaf` and `leaf.example.net` yields one record.
5. *The late answer.* After a timeout the session stays in use; the old command's
   output and prompt answer the next command.
6. *A capped search is not the front of the full one* (`search.go:310`,
   `search.h:40` suggest it): targets are dispatched in order, but workers finish
   in any, and the room goes to the first that does. Targets drained after a
   cancel are not counted as done, and the figure shown may go back. `Capped` "says the
   limit was reached and Hits is not every match" (`search.go:187`), and is also true
   when exactly as many lines match as the limit allows.
7. *Composed keys.* See `TicksFollow` above.
8. *An agent that cannot be reached.* `Classify` looks for a network error in the
   chain before it looks for "ssh agent:" in the text; if the handshake keeps the
   chain (`sshcore/auth.go:91` does), the walk takes the device for unreachable.
9. *A missing database is seeded by whoever looks first.* `EnsureDB` looks and
   then creates; two that look at once both create, and the second replaces what was
   saved in between, although "an existing file is never replaced" (`seed.go:38`).
   `EditsReachCaptures` excuses what such a file held.
10. *A later run does not always find what was filed.* By `capture.go:490-493` the storage
   key "has to be whatever every later run will resolve to". A list has one device twice, at an
   address and at a qualified name, with the label `box` both times, and only the
   second login shows a prompt. The first record has the label; the second login is
   refused it and its captures go under the name of the prompt. A lookup of the second
   entry by its own names, the label first, then finds the record of the first. `OwnLabels`
   excludes it; without that condition TLC finds `LaterRunsFindIt` violated by such a
   list, and by the one of the run `bindings`. A later visit logs in again and files
   where the earlier one did.
11. *An unlock overtaken by a save puts the older table back.* `Unlock` reads and
   derives outside the lock and installs what it read (`vault.go:373-438`); a save of
   the same handle in between is then gone from memory, and from the file with the next
   save. `vault.h:24` calls every call safe from any thread. `MemoryIsFile` excuses it.
12. *Re-keying a locked vault empties it.* `ChangeMasterPassword` checks the old password
   against the file and saves the table in memory (`vault.go:493-501`), which a locked
   handle does not have; `vault.go:455` says "re-encrypts the vault under a new master
   password". Memory is the file afterwards, so no property here catches it. The
   window never calls it.
13. *A key vacated, given to a new session and changed again.* In one list: save the
   session at A under X, add a new one at A, save or delete the one at A. `rekey`
   (`inventory/edit.go:121`) finds no origin for A the second time and overwrites
   where the first session went: `moved[A]` is the new one's key, though the session
   that was at A is at X, and by `edit.go:73-76` "Keys maps each original key whose
   session changed key or was deleted to its new key". TLC finds `EditsAreExact`
   violated by such a list when `Retaken` is not excused. The dialog applies one edit
   at a time and cannot meet it within a list; across lists it is item 7.
14. *Opening a shell has neither a deadline nor a cancel.* `session.go:144-147` says
   that the context matters because without one "a stop request against a fleet waits
   out one full banner timeout per in-flight device". The requests before the banner
   (`session.go:170-207`), and every write (606), wait for the device with no bound at
   all. `VisitEnds` names them (`OnDevice`).

## Not modelled

Encryption, SSH itself, the matching of TextFSM, SQLite, Qt views, formatting and
parsing of files: their own logic is sequential and well within reach of tests, or
belongs to a library. The diff is a pure function of two texts. Loss of a disk's
cache on power failure: the code syncs, and the crash considered is that of the
process. `Bindings` has one store per file: two runs that overwrite each other's
file are a listed hazard without a property. A vault locked under a run is a
refused `Resolve`; the two modules are not composed.

Without a caller, and left out: `ResetRun`, `Session.Enable`, `topo.Merge`,
`Tree.ReorderFolder`, `ReorderSession`, `Duplicate`, `ImportTether`, `FoldersFrom`,
`MarkUsed`, `SearchBridge::cancel`. SNMP credentials are in vaults found, which
other programs write, and never used by a capture.

Details left out that a change of the code might make matter: stripping of configured
domains and wildcards in patterns; `editor.find` lower-cases a key, which a serial
port's may not survive; `-device h:22` and `h` are two targets; a failed load of
the inventory clears the ticks; an answer that ends on a line like the prompt
loses it; rows inserted by other programs do not reload this one's engine; two
saves through the interface at once may publish the older reading last; a row id
is used again after a delete.

## Plan

Done, in this order: `CaptureRun`, `ResultBoard`, `RunBridge`; `CredResolver`;
`FileStore`, `VersionLog`; `CaptureEngine`; `Bindings`; `Vault`; `NetSession`;
`SessionTree`, `DeviceList`, `Inventory`; `StoreSearch`; `Naming`; `TemplateLab`.

Left to model:

1. The vault and the ladder together: `Vault.All` under a lock that may close.
2. Two runs on one bindings file and one store, if the code comes to lock them.
3. The fields of the form that `Validate` looks at besides the device sources, and
   saved profiles.
4. The diff against a reference definition of a minimal edit script.

Theorems worth proving next, on `InventoryProofs`: `EditsAreExact`, with the ids and the
renamed folders above, and then `TicksFollow`.
