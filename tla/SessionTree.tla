---------------------------- MODULE SessionTree ----------------------------
(***************************************************************************)
(* The saved inventory as a value (internal/sessions): a sequence of       *)
(* folders, each with its sessions in the order somebody filed them.       *)
(*                                                                         *)
(* A session is [id, kind, name, host, port, attr, guess].  attr stands    *)
(* for the fields a person sets (platform, legacy, credential), guess for  *)
(* device_type, which only an import sets.  id is a ghost: the code has no *)
(* such field, the properties use it to say "the same session".  Names     *)
(* are sequences of words, so that a name an import makes by appending the *)
(* host is told from every other; names that differ in case or in outer    *)
(* blanks are one name.                                                    *)
(***************************************************************************)
EXTENDS Naturals, Sequences, FiniteSets, SequencesExt

CONSTANT Words    \* what names, hosts and addresses are made of

ASSUME WordsAssumption == {"", "ssh", "telnet", "serial", "22", "23", "Imported"} \subseteq Words

Transports == {"ssh", "telnet", "serial"}
Session == [id : Nat, kind : Transports, name : Seq(Words), host : Words, port : Words,
            attr : Words, guess : Words]
Tree == Seq([name : Words, sessions : Seq(Session)])

NoName == <<>>
NoKey  == <<>>
NoHost == ""
NoPort == ""

DefaultPort(kind) == CASE kind = "ssh" -> "22" [] kind = "telnet" -> "23" [] OTHER -> NoPort

------------------------------------------------------------------------------
(* One session. *)

Target(s) == IF s.host = NoHost THEN NoName
             ELSE IF s.port \in {NoPort, DefaultPort(s.kind)} THEN <<s.host>> ELSE <<s.host, s.port>>
Label(s) == IF s.name # NoName THEN s.name ELSE Target(s)
Normalize(s) ==
  LET t == [s EXCEPT !.port = IF @ = NoPort THEN DefaultPort(s.kind) ELSE @]
  IN  [t EXCEPT !.name = Label(t)]

\* Its address, which is what makes two sessions the same device.
Key(s) == IF s.host = NoHost THEN NoKey
          ELSE IF s.kind = "serial" THEN <<s.kind, s.host>>
          ELSE <<s.kind, s.host, Normalize(s).port>>

------------------------------------------------------------------------------
(* Looking things up.  The first match wins, as the loops return. *)

Places(t)  == UNION {{<<i, j>> : j \in DOMAIN t[i].sessions} : i \in DOMAIN t}
At(t, p)   == t[p[1]].sessions[p[2]]
Filed(t)   == {At(t, p) : p \in Places(t)}
Keys(t)    == {Key(s) : s \in Filed(t)} \ {NoKey}
First(P)   == CHOOSE p \in P : \A q \in P : p[1] < q[1] \/ (p[1] = q[1] /\ p[2] <= q[2])
Latest(P)  == CHOOSE p \in P : \A q \in P : p[1] > q[1] \/ (p[1] = q[1] /\ p[2] >= q[2])
PlacesOf(t, key) == {p \in Places(t) : Key(At(t, p)) = key}

FolderIndex(t, name)   == SelectInSeq(t, LAMBDA f : f.name = name)
SessionIndex(f, label) == SelectInSeq(f.sessions, LAMBDA s : Label(s) = label)
Holds(t, folder, label) == LET i == FolderIndex(t, folder) IN i # 0 /\ SessionIndex(t[i], label) # 0

------------------------------------------------------------------------------
(* Editing.  Each edit X has its condition CanX: where it is false the code *)
(* returns an error and the tree is as it was.                              *)

CanAddFolder(t, name) == name # "" /\ FolderIndex(t, name) = 0
AddFolder(t, name)    == Append(t, [name |-> name, sessions |-> <<>>])

CanRenameFolder(t, old, new) ==
  /\ new # "" /\ FolderIndex(t, old) # 0
  /\ FolderIndex(t, new) \in {0, FolderIndex(t, old)}
RenameFolder(t, old, new) == [t EXCEPT ![FolderIndex(t, old)].name = new]

CanRemoveFolder(t, name) == FolderIndex(t, name) # 0
RemoveFolder(t, name)    == RemoveAt(t, FolderIndex(t, name))

\* Add creates the folder when it is not there.
CanAdd(t, folder, s) ==
  /\ Label(s) # NoName
  /\ FolderIndex(t, folder) # 0 \/ CanAddFolder(t, folder)
  /\ ~Holds(t, folder, Label(s))
Add(t, folder, s) ==
  LET u == IF FolderIndex(t, folder) = 0 THEN AddFolder(t, folder) ELSE t
  IN  [u EXCEPT ![FolderIndex(u, folder)].sessions = Append(@, Normalize(s))]

\* Replace and RemoveSession find their session by its label.
CanReplace(t, folder, label, s) ==
  /\ Holds(t, folder, label) /\ Label(s) # NoName
  /\ LET f == t[FolderIndex(t, folder)] IN SessionIndex(f, Label(s)) \in {0, SessionIndex(f, label)}
Replace(t, folder, label, s) ==
  LET i == FolderIndex(t, folder)
  IN  [t EXCEPT ![i].sessions[SessionIndex(t[i], label)] = Normalize(s)]
RemoveSession(t, folder, label) ==
  LET i == FolderIndex(t, folder) IN [t EXCEPT ![i].sessions = RemoveAt(@, SessionIndex(t[i], label))]

\* Move adds first, so that a destination that refuses the name costs nothing.
Moved(t, from, label) == LET f == t[FolderIndex(t, from)] IN f.sessions[SessionIndex(f, label)]
CanMove(t, from, label, to) ==
  Holds(t, from, label) /\ (from = to \/ CanAdd(t, to, Moved(t, from, label)))
Move(t, from, label, to) ==
  IF from = to THEN t ELSE RemoveSession(Add(t, to, Moved(t, from, label)), from, label)

------------------------------------------------------------------------------
(* Import.  nodes is a sequence of sessions, taken one by one; seen is what *)
(* the tree holds by address, the nodes already taken included.             *)

\* Mutant of ImportOne: what this import has added does not count as filed.
ImportOneForgetful(acc, folder, n) ==
  LET s == Normalize(n)
      u == IF Holds(acc.tree, folder, Label(s)) THEN [s EXCEPT !.name = Append(Label(s), s.host)] ELSE s
  IN  IF Key(s) = NoKey \/ Key(s) \in acc.seen \/ ~CanAdd(acc.tree, folder, u) THEN acc
      ELSE [tree |-> Add(acc.tree, folder, u), seen |-> acc.seen]

ImportOne(acc, folder, n) ==
  LET s == Normalize(n)
      u == IF Holds(acc.tree, folder, Label(s)) THEN [s EXCEPT !.name = Append(Label(s), s.host)] ELSE s
  IN  IF Key(s) = NoKey \/ Key(s) \in acc.seen \/ ~CanAdd(acc.tree, folder, u) THEN acc
      ELSE [tree |-> Add(acc.tree, folder, u), seen |-> acc.seen \union {Key(s)}]

Import(t, folder, nodes) ==
  FoldLeft(LAMBDA acc, n : ImportOne(acc, folder, n), [tree |-> t, seen |-> Keys(t)], nodes).tree

\* A folder of a file; one with nothing in it is still made.
ImportFolder(t, f) ==
  LET name == IF f.name = "" THEN "Imported" ELSE f.name
  IN  IF f.sessions # <<>> THEN Import(t, name, f.sessions)
      ELSE IF CanAddFolder(t, name) THEN AddFolder(t, name) ELSE t

\* A crawl's map: its devices in the order of their names, each an SSH
\* session at the address the crawl dialled, or at its name if it has none.
NodesFromMap(map) ==
  [i \in DOMAIN map |->
     Normalize([id |-> map[i].id, kind |-> "ssh", name |-> map[i].name,
                host |-> IF map[i].ip = NoHost THEN map[i].name[1] ELSE map[i].ip,
                port |-> NoPort, attr |-> "", guess |-> map[i].platform])]

------------------------------------------------------------------------------
(* Picking sessions.  A pattern is the set of strings it matches; it is     *)
(* tried against the name and the host, never the port.                     *)

Candidates(s)   == {Label(s), <<s.host>>} \ {NoName, <<NoHost>>}
Matches(pat, s) == pat \cap Candidates(s) # {}

\* The places picked by a test, in tree order, one for each address.
Picked(t, Test(_)) ==
  {p \in Places(t) :
     /\ Test(At(t, p))
     /\ \A q \in Places(t) : Test(At(t, q)) /\ Key(At(t, q)) = Key(At(t, p)) /\ Key(At(t, p)) # NoKey =>
          p[1] < q[1] \/ (p[1] = q[1] /\ p[2] <= q[2])}

Select(t, patterns) == Picked(t, LAMBDA s : \E pat \in patterns : Matches(pat, s))
SelectKeys(t, keys) == Picked(t, LAMBDA s : Key(s) # NoKey /\ Key(s) \in keys)

\* Places in tree order: each time the first of those left.
NextOf(P, out) == Append(out, First(P \ ToSet(out)))
InOrder(P) == FoldLeft(LAMBDA out, k : NextOf(P, out), <<>>, [k \in 1..Cardinality(P) |-> k])

------------------------------------------------------------------------------
(* What a tree must be for its keys and labels to mean anything: an address *)
(* names one session of the tree, a label one of its folder, a name one     *)
(* folder.                                                                  *)
KeysApart(t) ==
  \A p, q \in Places(t) : p # q => Key(At(t, p)) # Key(At(t, q)) \/ Key(At(t, p)) = NoKey
LabelsApart(t) ==
  \A p, q \in Places(t) : p # q /\ p[1] = q[1] => Label(At(t, p)) # Label(At(t, q))
FoldersApart(t) == \A i, j \in DOMAIN t : t[i].name = t[j].name => i = j
SoundTree(t) == KeysApart(t) /\ LabelsApart(t) /\ FoldersApart(t)
==============================================================================
