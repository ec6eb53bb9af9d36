------------------------------ MODULE Inventory ------------------------------
(***************************************************************************)
(* The inventory file and those who edit it (internal/inventory, the       *)
(* inventory dialog and the Run view of the application).                  *)
(*                                                                         *)
(* Every edit loads the whole file, changes the tree in memory and renames *)
(* a new file over it; nothing is locked, so a second program working on   *)
(* the file may save in between and the last save wins.  The Run view      *)
(* shows the tree it last loaded, with a tick per device; it keeps its     *)
(* ticks by key, and takes them across an edit with the map of changed     *)
(* keys that the dialog has put together from the edits it made.           *)
(***************************************************************************)
EXTENDS DeviceList, TLC

CONSTANTS First0,        \* the file as the program finds it
          Edits,         \* the edits the dialog may make
          Maps,          \* crawls that may be imported: [folder, nodes]
          ClientCalls,   \* lists of edits another program may apply
          Requests,      \* what else a run may be asked for: [devices, listed, match]
          MaxSaves,      \* bound: calls that load the file
          MaxTicks       \* bound: devices ticked at once

KeyWords == Seq(Words)
Fields   == {s \in Session : s.kind = "ssh" /\ s.guess = ""}
Op == [op : {"save"}, folder : Words, key : KeyWords, session : Fields]
      \union [op : {"delete"}, keys : Seq(KeyWords)]
      \union [op : {"move"}, keys : Seq(KeyWords), to : Words]
      \union [op : {"patch"}, keys : Seq(KeyWords), attr : Words]
      \union [op : {"add_folder"}, to : Words]
      \union [op : {"rename_folder"}, folder : Words, to : Words]
      \union [op : {"remove_folder"}, folder : Words]
Device == [id : Nat, name : Seq(Words) \ {NoName}, ip : Words, platform : Words]

\* A file this program wrote, and calls as its callers build them.
ASSUME FileAssumption  == First0 \in Tree /\ SoundTree(First0)
ASSUME CallsAssumption ==
  /\ Edits \subseteq Op /\ ClientCalls \subseteq Seq(Op)
  /\ Maps \subseteq [folder : Words, nodes : Seq(Device)]
ASSUME RequestsAssumption ==
  Requests \subseteq [devices : Seq(KeyWords), listed : Seq(KeyWords) \union {NoList},
                     match : SUBSET SUBSET KeyWords]
ASSUME BoundsAssumption == MaxSaves \in Nat /\ MaxTicks \in Nat

Writers == {"window", "client"}
Unknown == "no such platform"

VARIABLES file,     \* the tree on disk
          job,      \* per writer: the call between its load and its save
          view,     \* Run view: the sessions it shows, as [id, key]
          ticks,    \* ids of the ticked ones
          window,   \* "run", "dialog", or "reloads": a save whose reload is due
          keys,     \* m_keyChanges of the open dialog, or the reload's key map
          made,     \* ids given out, for the sessions added
          saves,    \* calls so far
          wanted,   \* ghost: the sessions the person ticked
          excused,  \* ghost: another program saved since the view was drawn
          reused    \* ghost: the dialog added a device at an address vacated in it

vars == <<file, job, view, ticks, window, keys, made, saves, wanted, excused, reused>>

NoJob == [kind |-> "none"]
None  == <<>>    \* the empty key map

------------------------------------------------------------------------------
(* The editor: a list of edits on the tree in memory.  moved maps an        *)
(* original key to where its session is now, origin a current key back.     *)

Editor(t) == [tree |-> t, moved |-> None, origin |-> None, added |-> <<>>, ok |-> TRUE, next |-> made]
Fail(ed)  == [ed EXCEPT !.ok = FALSE]
Without(f, k) == [x \in DOMAIN f \ {k} |-> f[x]]
With(f, k, v) == [x \in DOMAIN f \union {k} |-> IF x = k THEN v ELSE f[x]]

\* Mutant of Origin: a key edited twice is reported under the one in between.
OriginIgnored(ed, key) == key
Origin(ed, key) == IF key \in DOMAIN ed.origin THEN ed.origin[key] ELSE key
Rekey(ed, from, to) ==
  LET orig == Origin(ed, from)
      rest == Without(ed.origin, from)
  IN  [ed EXCEPT !.moved  = With(@, orig, to),
                 !.origin = IF to = NoKey THEN rest ELSE With(rest, to, orig)]

Find(ed, key) == First(PlacesOf(ed.tree, key))
Alive(ed, key) == PlacesOf(ed.tree, key) # {}

DeleteOne(ed, p, k) == Rekey([ed EXCEPT !.tree[p[1]].sessions = RemoveAt(@, p[2])], k, NoKey)
MoveOne(ed, p, to) ==
  LET from == ed.tree[p[1]].name
      name == Label(At(ed.tree, p))
  IN  IF CanMove(ed.tree, from, name, to) THEN [ed EXCEPT !.tree = Move(@, from, name, to)] ELSE Fail(ed)
PatchOne(ed, p, attr) ==
  IF attr = Unknown THEN Fail(ed) ELSE [ed EXCEPT !.tree[p[1]].sessions[p[2]].attr = attr]

\* One key of an edit of several: the first that fails ends it.
OneKey(ed, op, k) ==
  IF ~ed.ok THEN ed
  ELSE IF ~Alive(ed, k) THEN Fail(ed)
  ELSE CASE op.op = "delete" -> DeleteOne(ed, Find(ed, k), k)
         [] op.op = "move"   -> MoveOne(ed, Find(ed, k), op.to)
         [] op.op = "patch"  -> PatchOne(ed, Find(ed, k), op.attr)
EachKey(ed, op) == FoldLeft(LAMBDA e, k : OneKey(e, op, k), ed, op.keys)

\* A save of a new device, and of one that is there.  The fields an editor
\* does not set stay as they were; a console has no host or port to set.
SaveNew(ed, op) ==
  LET s == Normalize([op.session EXCEPT !.id = ed.next + 1])
  IN  IF Alive(ed, Key(s)) \/ ~CanAdd(ed.tree, op.folder, s) THEN Fail(ed)
      ELSE [ed EXCEPT !.tree = Add(@, op.folder, s), !.added = Append(@, Key(s)), !.next = @ + 1]

SaveOver(ed, op) ==
  LET p   == Find(ed, op.key)
      old == At(ed.tree, p)
      to  == IF old.kind = "serial" THEN old
             ELSE [old EXCEPT !.host = op.session.host, !.port = op.session.port]
      new == Normalize([to EXCEPT !.name = op.session.name, !.attr = op.session.attr])
      dir == ed.tree[p[1]].name
      out == [ed EXCEPT !.tree = Replace(@, dir, Label(old), new)]
  IN  IF \/ Key(new) # Key(old) /\ Alive(ed, Key(new))
         \/ ~CanReplace(ed.tree, dir, Label(old), new) THEN Fail(ed)
      ELSE IF Key(new) = Key(old) THEN out ELSE Rekey(out, Key(old), Key(new))

SaveSession(ed, op) ==
  IF op.session.host = NoHost \/ op.session.attr = Unknown THEN Fail(ed)
  ELSE IF op.key = NoKey THEN SaveNew(ed, op)
  ELSE IF Alive(ed, op.key) THEN SaveOver(ed, op) ELSE Fail(ed)

DropFolder(ed, op) ==
  LET i == FolderIndex(ed.tree, op.folder)
  IN  IF i = 0 THEN Fail(ed)
      ELSE [FoldLeft(LAMBDA e, s : IF Key(s) = NoKey THEN e ELSE Rekey(e, Key(s), NoKey), ed, ed.tree[i].sessions)
              EXCEPT !.tree = RemoveFolder(@, op.folder)]

Do(ed, op) ==
  IF ~ed.ok THEN ed
  ELSE CASE op.op = "save"          -> SaveSession(ed, op)
         [] op.op \in {"delete", "patch"} -> EachKey(ed, op)
         [] op.op = "move"          -> IF FolderIndex(ed.tree, op.to) = 0 THEN Fail(ed) ELSE EachKey(ed, op)
         [] op.op = "add_folder"    -> IF CanAddFolder(ed.tree, op.to)
                                       THEN [ed EXCEPT !.tree = AddFolder(@, op.to)] ELSE Fail(ed)
         [] op.op = "rename_folder" -> IF CanRenameFolder(ed.tree, op.folder, op.to)
                                       THEN [ed EXCEPT !.tree = RenameFolder(@, op.folder, op.to)] ELSE Fail(ed)
         [] op.op = "remove_folder" -> DropFolder(ed, op)

Run(t, ops) == FoldLeft(Do, Editor(t), ops)

\* What an Apply reports: original key -> key now, of those that changed.
ResultKeys(ed) == [k \in {k \in DOMAIN ed.moved : ed.moved[k] # k} |-> ed.moved[k]]

------------------------------------------------------------------------------
(* Importing a crawl.  A device is known by its address anywhere, or by its *)
(* name in the folder imported into; of a known one only the guess changes. *)

Recognised(t, folder, n) ==
  LET named == {p \in Places(t) : t[p[1]].name = folder /\ Label(At(t, p)) = Label(n)}
      at    == PlacesOf(t, Key(n))
  IN  IF at # {} THEN at ELSE named

\* What the import makes of one node: u is the tree t so far.
RecogniseOne(t, folder, u, n) ==
  LET P == Recognised(t, folder, n)
  IN  IF P = {} \/ n.guess = "" THEN u
      ELSE [u EXCEPT ![Latest(P)[1]].sessions[Latest(P)[2]].guess = n.guess]
FreshOne(t, folder, out, n) == IF Recognised(t, folder, n) = {} THEN Append(out, n) ELSE out

Recognise(t, folder, nodes) == FoldLeft(LAMBDA u, n : RecogniseOne(t, folder, u, n), t, nodes)
Fresh(t, folder, nodes) == FoldLeft(LAMBDA out, n : FreshOne(t, folder, out, n), <<>>, nodes)

\* Each node's id is new: its place in the map after the ids given out.
MapNodes(map) == NodesFromMap([i \in DOMAIN map.nodes |-> [map.nodes[i] EXCEPT !.id = made + i]])
ImportMap(t, map) ==
  LET nodes == MapNodes(map)
  IN  ImportFolder(Recognise(t, map.folder, nodes),
                   [name |-> map.folder, sessions |-> Fresh(t, map.folder, nodes)])
\* Nothing new and no guess to refresh: the file is not written.
ImportIsQuiet(t, map) ==
  /\ ImportMap(t, map) = t
  /\ \A n \in ToSet(MapNodes(map)) : LET P == Recognised(t, map.folder, n) IN
       P # {} /\ n.guess # "" => At(t, Latest(P)).guess = n.guess

------------------------------------------------------------------------------
(* A call: the load with everything done in memory, then the rename. *)

TypeOK ==
  /\ file \in Tree
  /\ DOMAIN job = Writers /\ window \in {"run", "dialog", "edited", "reloads"}
  /\ ticks \subseteq {e.id : e \in view} /\ made \in Nat /\ saves \in 0..MaxSaves

Shown(t) == {[id |-> s.id, key |-> Key(s)] : s \in Filed(t)}

Init ==
  /\ file = First0 /\ view = Shown(First0) /\ ticks = {} /\ wanted = {}
  /\ job = [w \in Writers |-> NoJob]
  /\ window = "run" /\ keys = None
  /\ made = Cardinality(Filed(First0)) /\ saves = 0
  /\ excused = FALSE /\ reused = {}

Loads(w, call) == saves < MaxSaves /\ job[w] = NoJob /\ job' = [job EXCEPT ![w] = call] /\ saves' = saves + 1

\* An Apply that fails anywhere has written nothing and is not a step.
Apply(w, ops) ==
  LET ed == Run(file, ops)
  IN  /\ ed.ok
      /\ Loads(w, [kind |-> "apply", from |-> file, tree |-> ed.tree, ops |-> ops,
                   keys |-> ResultKeys(ed), added |-> {k \in ToSet(ed.added) : Alive(ed, k)}])
      /\ made' = ed.next

DialogOpens ==
  /\ window = "run" /\ window' = "dialog" /\ keys' = None /\ reused' = {}
  /\ UNCHANGED <<file, job, view, ticks, made, saves, wanted, excused>>

DialogApplies(op) ==
  /\ window \in {"dialog", "edited"} /\ Apply("window", <<op>>)
  /\ UNCHANGED <<file, view, ticks, window, keys, wanted, excused, reused>>

\* Mutant of Compose: the later map is put beside the earlier one.
ComposeBeside(into, later) == later @@ into

\* composeKeys: what an earlier edit mapped to a key this edit changed now maps
\* to the new one; the rest of this edit's map goes in under its own keys.
Compose(into, later) ==
  LET Takes(k) == into[k] # NoKey /\ into[k] \in DOMAIN later
      chained  == [k \in DOMAIN into |-> IF Takes(k) THEN later[into[k]] ELSE into[k]]
      pending  == [k \in DOMAIN later \ {into[x] : x \in {x \in DOMAIN into : Takes(x)}} |-> later[k]]
  IN  pending @@ chained

\* The dialog's edit lands.  Re-keying a device that was added in this dialog
\* at an address another device of the view had is where the map goes wrong.
DialogSaves ==
  /\ window \in {"dialog", "edited"} /\ job["window"] # NoJob
  /\ file' = job["window"].tree /\ job' = [job EXCEPT !["window"] = NoJob]
  /\ keys' = Compose(keys, job["window"].keys) /\ window' = "edited"
  /\ excused' = (excused \/ DOMAIN job["window"].keys \cap reused # {})
  /\ reused' = reused \union (job["window"].added \cap {e.key : e \in view})
  /\ UNCHANGED <<view, ticks, made, saves, wanted>>

\* The Run view draws the file again and carries its ticks across a key map.
Final(map, key) == IF key \in DOMAIN map THEN map[key] ELSE key
setInventory(map) ==
  LET keep == {Final(map, e.key) : e \in {e \in view : e.id \in ticks}} \ {NoKey}
  IN  /\ view' = Shown(file)
      /\ ticks' = {e.id : e \in {e \in Shown(file) : e.key \in keep}}
      /\ wanted' = IF excused THEN ticks' ELSE wanted \cap {e.id : e \in Shown(file)}
      /\ excused' = FALSE /\ window' = "run" /\ keys' = None /\ reused' = {}
      /\ UNCHANGED <<file, job, made, saves>>

DialogCloses == window = "edited" /\ job["window"] = NoJob /\ setInventory(keys)
DialogLeaves ==
  /\ window = "dialog" /\ job["window"] = NoJob /\ window' = "run"
  /\ UNCHANGED <<file, job, view, ticks, keys, made, saves, wanted, excused, reused>>

Tick(e) ==
  /\ window = "run" /\ e.key # NoKey
  /\ \E on \in {{}, {e.id}} : ticks' = (ticks \ {e.id}) \union on /\ Cardinality(ticks') <= MaxTicks
                           /\ wanted' = (wanted \ {e.id}) \union on
  /\ UNCHANGED <<file, job, view, window, keys, made, saves, excused, reused>>

LoadsMap(w, map) ==
  /\ ~ImportIsQuiet(file, map)
  /\ Loads(w, [kind |-> "import", from |-> file, tree |-> ImportMap(file, map), map |-> map,
               nodes |-> MapNodes(map), keys |-> None])
  /\ made' = made + Len(map.nodes)

WindowImports(map) ==
  /\ window = "run" /\ window' = "reloads"
  /\ \/ LoadsMap("window", map)
     \/ ImportIsQuiet(file, map) /\ UNCHANGED <<job, made, saves>>
  /\ UNCHANGED <<file, view, ticks, keys, wanted, excused, reused>>

WindowRemoves(folder) ==
  /\ window = "run" /\ CanRemoveFolder(file, folder) /\ window' = "reloads"
  /\ Loads("window", [kind |-> "remove", from |-> file, tree |-> RemoveFolder(file, folder), keys |-> None])
  /\ UNCHANGED <<file, view, ticks, keys, made, wanted, excused, reused>>

WindowSaves ==
  /\ window = "reloads" /\ job["window"] # NoJob
  /\ file' = job["window"].tree /\ job' = [job EXCEPT !["window"] = NoJob]
  /\ UNCHANGED <<view, ticks, window, keys, made, saves, wanted, excused, reused>>
Reloads == window = "reloads" /\ job["window"] = NoJob /\ setInventory(None)

\* A save that fails leaves the file as it was; the error is shown, and after
\* an import or a removal nothing is reloaded.
SaveFails(w) ==
  /\ job[w] # NoJob /\ job' = [job EXCEPT ![w] = NoJob]
  /\ window' = IF w = "window" /\ window = "reloads" THEN "run" ELSE window
  /\ UNCHANGED <<file, view, ticks, keys, made, saves, wanted, excused, reused>>

\* Another program on the same file.
ClientApplies(ops) == Apply("client", ops) /\ UNCHANGED <<file, view, ticks, window, keys, wanted, excused, reused>>
ClientImports(map) == LoadsMap("client", map) /\ UNCHANGED <<file, view, ticks, window, keys, wanted, excused, reused>>
ClientSaves ==
  /\ job["client"] # NoJob /\ file' = job["client"].tree /\ job' = [job EXCEPT !["client"] = NoJob]
  /\ excused' = TRUE
  /\ UNCHANGED <<view, ticks, window, keys, made, saves, wanted, reused>>

Next ==
  \/ DialogOpens \/ (\E op \in Edits : DialogApplies(op)) \/ DialogSaves \/ DialogCloses \/ DialogLeaves
  \/ \E e \in view : Tick(e)
  \/ \E m \in Maps : WindowImports(m) \/ ClientImports(m)
  \/ \E f \in {file[i].name : i \in DOMAIN file} : WindowRemoves(f)
  \/ WindowSaves \/ Reloads \/ \E w \in Writers : SaveFails(w)
  \/ (\E ops \in ClientCalls : ClientApplies(ops)) \/ ClientSaves

Spec == Init /\ [][Next]_vars

------------------------------------------------------------------------------
(* Properties. *)

\* Whoever saves last, after any edits and imports: an address names one
\* session of the inventory, a label one of its folder, a name one folder.
\* Ticks, edits by key and the device list all rest on it.
TreeIsSound == SoundTree(file)

\* What the Run view sends for its ticks, with anything else a request may name.
CheckedKeys == {e.key : e \in {e \in view : e.id \in ticks}} \ {NoKey}
Asked(r, ks) == [devices |-> r.devices, listed |-> r.listed, match |-> r.match, keys |-> ks,
                 sessionFile |-> r.match # {} \/ ks # {}]
Chosen(t, p) == {s \in Filed(t) : Dialable(s) /\ (Key(s) \in p.keys \/ \E pat \in p.match : Matches(pat, s))}

\* A tick stays on the device it was put on: across edits of its address,
\* swaps, moves, deletions and imports it is carried along or dropped with the
\* device, and no other device comes to be ticked; a run of the ticks visits
\* what the person ticked.
TicksFollow ==
  window = "run" /\ ~excused =>
    /\ ticks = wanted
    /\ job["window"] = NoJob /\ view = Shown(file) =>
         {s.id : s \in Chosen(file, Asked([devices |-> <<>>, listed |-> NoList, match |-> {}], CheckedKeys))}
           = {s.id : s \in {s \in Filed(file) : s.id \in wanted /\ Dialable(s)}}

\* Each target once: the listed ones first, in their order, and every session
\* chosen, under its own name and with its own settings.
VisitsWhatIsAsked(t, p) ==
  LET devices == Devices(t, p)
      targets == [i \in DOMAIN devices |-> devices[i].target]
  IN  /\ \A i, j \in DOMAIN targets : targets[i] = targets[j] => i = j
      /\ IsPrefix(Targets(p), targets)
      /\ ToSet(targets) = ToSet(Targets(p)) \union {Target(s) : s \in Chosen(t, p)}
      /\ \A s \in Chosen(t, p) : Target(s) \notin ToSet(Targets(p)) =>
           \E d \in ToSet(devices) :
             /\ d.target = Target(s) /\ d.attr = s.attr
             /\ d.identity = IF s.name \in {NoName, Target(s)} THEN Known(<<s.host>>) ELSE s.name

\* A run asked for now visits what is listed and every SSH session that is
\* ticked or matched, whatever else shares its host or its name.
RunIsTheSelection ==
  window = "run" => \A r \in Requests :
    LET p == Asked(r, CheckedKeys) IN Validates(p) => VisitsWhatIsAsked(file, p)

Named(op) == IF op.op = "save" THEN {op.key}
             ELSE IF op.op \in {"delete", "move", "patch"} THEN ToSet(op.keys) ELSE {}
Mentioned(ops) == UNION {Named(op) : op \in ToSet(ops)}
Dropped(ops)   == {op.folder : op \in {op \in ToSet(ops) : op.op = "remove_folder"}}
FolderOf(t, s) == CHOOSE i \in DOMAIN t : \E j \in DOMAIN t[i].sessions : t[i].sessions[j].id = s.id
Ids(t, i)      == [j \in DOMAIN t[i].sessions |-> t[i].sessions[j].id]

\* An edit leaves alone every session it does not address: all its fields, its
\* folder's company and its place among those that stay.  (Sessions are found
\* by key and then written by label.)
EditsKeepOthers ==
  \A w \in Writers : job[w].kind = "apply" =>
    LET from == job[w].from
        tree == job[w].tree
        kept == {s \in Filed(from) : Key(s) \notin Mentioned(job[w].ops)
                                     /\ from[FolderOf(from, s)].name \notin Dropped(job[w].ops)}
        ids  == {s.id : s \in kept}
    IN  /\ kept \subseteq Filed(tree)
        /\ \A s \in kept :
             SelectSeq(Ids(tree, FolderOf(tree, s)), LAMBDA i : i \in ids)
               = SelectSeq(Ids(from, FolderOf(from, s)), LAMBDA i : i \in ids)

\* The keys an edit may change, and a list in which that is the key of a session the
\* list itself has added, where an earlier edit of it had taken the key away from
\* another session.  The editor cannot tell the two (rekey finds no origin, and
\* overwrites where the first one went): what it reports is then wrong.
Rekeyed(t, op) ==
  IF op.op = "remove_folder"
  THEN UNION {{Key(s) : s \in ToSet(f.sessions)} : f \in {f \in ToSet(t) : f.name = op.folder}}
  ELSE IF op.op \in {"save", "delete"} THEN Named(op) ELSE {}
Retaken(t, ops) ==
  \E i \in DOMAIN ops :
    LET ed == Run(t, SubSeq(ops, 1, i - 1))
    IN  \E k \in Rekeyed(ed.tree, ops[i]) : Alive(ed, k) /\ k \in DOMAIN ed.moved \ DOMAIN ed.origin

\* An Apply reports, for every session whose address it changed or that it
\* deleted, the key it had and the key it has, through swaps and keys taken over;
\* unless its list re-keys or deletes what it has itself put at a vacated key.
ResultTellsWhereTo ==
  \A w \in Writers : job[w].kind = "apply" /\ ~Retaken(job[w].from, job[w].ops) =>
    \A s \in Filed(job[w].from) :
      LET now == {Key(x) : x \in {x \in Filed(job[w].tree) : x.id = s.id}}
      IN  Final(job[w].keys, Key(s)) = IF now = {} THEN NoKey ELSE CHOOSE k \in now : TRUE

\* An import changes nothing of what is filed but the guess of a device it
\* recognises, and adds no device whose address is in the inventory or whose
\* name is in the folder: an address corrected by hand survives the next crawl.
ImportIsModest ==
  \A w \in Writers : job[w].kind = "import" =>
    LET from  == job[w].from
        tree  == job[w].tree
        into  == job[w].map.folder
        new   == {s \in Filed(tree) : s.id \notin {x.id : x \in Filed(from)}}
        Of(s) == CHOOSE n \in ToSet(job[w].nodes) : n.id = s.id
        seen(s) == \E n \in ToSet(job[w].nodes) : Key(n) = Key(s) \/ (Label(n) = Label(s) /\ from[FolderOf(from, s)].name = into)
    IN  /\ \A s \in Filed(from) : \E x \in Filed(tree) :
             x = s \/ (seen(s) /\ x = [s EXCEPT !.guess = x.guess])
        /\ \A i \in DOMAIN from : IsPrefix(Ids(from, i), Ids(tree, i))
        /\ \A s \in new : Key(s) \notin Keys(from) /\ ~Holds(from, into, Label(Of(s)))

\* A load and save of the whole file changes what it was asked to and nothing
\* else, and says what it changed (but for the lists that are Retaken).
EditsAreExact == TypeOK /\ EditsKeepOthers /\ ImportIsModest /\ ResultTellsWhereTo
==============================================================================
