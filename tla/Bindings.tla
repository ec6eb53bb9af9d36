------------------------------ MODULE Bindings ------------------------------
(***************************************************************************)
(* The credential binding store of internal/credres/binding.go: records of *)
(* the names one device answers to and of the credential that last worked, *)
(* found through an index from name to record, saved whole to one file     *)
(* after each write, and rebuilt from that file by binding it again.       *)
(*                                                                         *)
(* A name is an address, a qualified name, or a bare label.  The first two *)
(* are strong aliases, a label weak; a qualified name is indexed under its *)
(* first label too.  Each operation holds the store's lock throughout.     *)
(*                                                                         *)
(* Abstracted: hit counts, the domain suffixes of NoteContext, the names   *)
(* shapesFor refuses, and the order of a caller's ids: where the code takes*)
(* the first that matches, any of them may be it.  A time is the number of *)
(* successes recorded so far.                                              *)
(***************************************************************************)
EXTENDS Integers, FiniteSets, Sequences

CONSTANTS
  Addresses, Qualified, Labels,   \* the names in use
  LabelOf,       \* the first label of each qualified name
  Before,        \* byte order of the names, as a rank
  Creds, None,
  Calls,         \* the sets of ids callers pass, each one device's names
  OldFiles,      \* sets of identities a version 1 file may hold
  Rids,          \* the records one store may hold, a bound
  MaxTime        \* bound on its successes

Names == Addresses \cup Qualified \cup Labels

Strong(n) == n \notin Labels

ASSUME LabelsAssumption == LabelOf \in [Qualified -> Labels]
ASSUME NamesAssumption ==
  /\ None \notin Names \cup Creds /\ None \notin Rids
  /\ Addresses \cap Qualified = {} /\ Labels \cap (Addresses \cup Qualified) = {}
ASSUME BeforeAssumption ==
  Before \in [Names -> Nat] /\ \A m, n \in Names : Before[m] = Before[n] => m = n

\* An address or a qualified name is one device's.
ASSUME CallsAssumption ==
  /\ Calls # {} /\ Calls \subseteq SUBSET Names
  /\ \A a, b \in Calls : a # b => \A n \in a \cap b : ~Strong(n)

\* One store has room for the file it opens.
ASSUME RidsAssumption == IsFiniteSet(Rids) /\ MaxTime \in Nat
ASSUME OldFilesAssumption ==
  \A old \in OldFiles :
    /\ old \subseteq Names /\ IsFiniteSet(old) /\ Cardinality(old) <= Cardinality(Rids)
    /\ \A n \in old : Strong(n) => n \in UNION Calls

VARIABLES
  opened,     \* OpenFileBindings has returned
  recs,       \* aliasSet.records
  index,      \* aliasSet.index
  now,        \* the clock
  file        \* the records last saved

vars == <<opened, recs, index, now, file>>

NoRecord == [canonical |-> None, aliases |-> {}, cred |-> None, at |-> 0]
Empty == [recs |-> [r \in Rids |-> NoRecord], index |-> [n \in Names |-> None]]

Init ==
  /\ opened = FALSE
  /\ recs = Empty.recs
  /\ index = Empty.index
  /\ now = 0
  /\ \E old \in OldFiles :
       file = {[canonical |-> n, aliases |-> {n}, cred |-> None, at |-> 0] : n \in old}

-----------------------------------------------------------------------------
(* aliasSet, as functions of its state s.                                  *)

Store == [recs |-> recs, index |-> index]

\* shapesForAll.
Shapes(ids) == ids \cup {LabelOf[n] : n \in ids \cap Qualified}

\* The orders in which the members of a finite set may come.
Walks(S) == {w \in [1..Cardinality(S) -> S] : \A i, j \in DOMAIN w : i # j => w[i] # w[j]}

Live(s) == {r \in Rids : s.recs[r] # NoRecord}
Owners(s, S) == {s.index[n] : n \in S} \ {None}
HasStrong(s, r) == \E n \in s.recs[r].aliases : Strong(n)

\* betterCanonical over several: a qualified name, else a label, else an
\* address; the first in byte order among equals.
Best(S) ==
  LET class(n) == IF n \in Addresses THEN 0 ELSE IF n \in Labels THEN 1 ELSE 2
  IN CHOOSE n \in S : \A m \in S \ {n} :
       class(n) > class(m) \/ (class(n) = class(m) /\ Before[n] < Before[m])

\* A merge that keeps the success it had.
MergeKeeping(s, dst, src) ==
  [recs |-> [s.recs EXCEPT ![src] = NoRecord,
                           ![dst].aliases = @ \cup s.recs[src].aliases],
   index |-> [n \in Names |-> IF n \in s.recs[src].aliases THEN dst ELSE s.index[n]]]

\* merge: the names of both, the later success, the better label.
Merge(s, dst, src) ==
  LET d == s.recs[dst]
      e == s.recs[src]
      both == [canonical |-> Best({d.canonical, e.canonical}),
               aliases |-> d.aliases \cup e.aliases,
               cred |-> IF e.at > d.at \/ d.cred = None THEN e.cred ELSE d.cred,
               at |-> IF e.at > d.at THEN e.at ELSE d.at]
  IN [recs |-> [s.recs EXCEPT ![src] = NoRecord, ![dst] = both],
      index |-> [n \in Names |-> IF n \in e.aliases THEN dst ELSE s.index[n]]]

\* A shared label is as good as a shared address.
LabelSelects(s, r, ids) == TRUE

\* The record a label alone may select: one nothing has identified yet, or any,
\* when a label is all this caller has too.
Selects(s, r, ids) == ~HasStrong(s, r) \/ \A n \in Shapes(ids) : ~Strong(n)

\* The records a bind finds, in the order it comes to them: those a strong name
\* has, or the one its labels select, or a new one.
Targets(s, ids) ==
  LET strong == Owners(s, {n \in Shapes(ids) : Strong(n)})
      weak == Owners(s, {n \in Shapes(ids) : ~Strong(n)})
  IN IF strong # {} THEN Walks(strong)
     ELSE IF Cardinality(weak) = 1 /\ \A r \in weak : Selects(s, r, ids) THEN Walks(weak)
     ELSE {<<r>> : r \in Rids \ Live(s)}

\* Every shape attached, whoever owned it.
TakesAll(s, r, ids) == Shapes(ids)

\* A strong name is taken from anybody, a weak one only when nobody has it.
Takes(s, r, ids) == {n \in Shapes(ids) : Strong(n) \/ s.index[n] \in {None, r}}

\* The label, from all there is: the record's, the caller's, the names it took.
Title(own, given, names, last) ==
  LET titles == ({own, given} \cup names) \ {None}
  IN IF titles = {} THEN last ELSE Best(titles)

\* The first of the records found takes in the others, one after the other.
MergeAll(s, found) ==
  LET after[k \in 1..Len(found)] ==
        IF k = 1 THEN s ELSE Merge(after[k - 1], found[1], found[k])
  IN after[Len(found)]

\* bind, of the records it found.  canonical is None for a Record; the title of
\* last resort is one of the ids.
BoundTo(s, found, ids, canonical, last) ==
  LET r == found[1]
      merged == MergeAll(s, found)
      taken == Takes(merged, r, ids)
      names == merged.recs[r].aliases \cup taken
  IN [recs |-> [merged.recs EXCEPT
                  ![r].aliases = names,
                  ![r].canonical = Title(@, canonical, names, last)],
      index |-> [n \in Names |-> IF n \in taken THEN r ELSE merged.index[n]]]

Pinned(s, r, c, time) == [s EXCEPT !.recs[r] = [@ EXCEPT !.cred = c, !.at = time]]

-----------------------------------------------------------------------------
(* Load.                                                                   *)

\* A record bound again by its label only.
IdsByLabel(b) == {b.canonical}

IdsOf(b) == b.aliases \cup {b.canonical}

\* load binds each record again and lets the later success win.
LoadOne(s, b) ==
  LET found == CHOOSE w \in Targets(s, IdsOf(b)) : TRUE
      t == BoundTo(s, found, IdsOf(b), b.canonical, b.canonical)
      own == t.recs[found[1]]
  IN Pinned(t, found[1], IF b.at > own.at \/ own.cred = None THEN b.cred ELSE own.cred,
            IF b.at > own.at THEN b.at ELSE own.at)

Load(list) ==
  LET after[k \in 0..Len(list)] ==
        IF k = 0 THEN Empty ELSE LoadOne(after[k - 1], list[k])
  IN after[Len(list)]

\* The orders a file of these records may be in: by canonical name.
Orders(bs) ==
  {l \in Walks(bs) :
     \A i, j \in DOMAIN l : i < j => Before[l[i].canonical] <= Before[l[j].canonical]}

-----------------------------------------------------------------------------
(* Operations.                                                             *)

Snapshot(s) == {s.recs[r] : r \in Live(s)}

Become(s) == recs' = s.recs /\ index' = s.index

\* saveLocked: the whole store.  A save that fails leaves the file behind until
\* the next one; a restart in between forgets the operations since, and what it
\* opens is the file of the behaviour without them.
Save == file' = Snapshot([recs |-> recs', index |-> index'])

\* OpenFileBindings, at the start of a run; also after a crash of the last one.
Open ==
  /\ opened' = TRUE
  /\ \E list \in Orders(file) : Become(Load(list))
  /\ UNCHANGED <<now, file>>

Record(c, ids) ==
  /\ opened /\ now < MaxTime
  /\ \E found \in Targets(Store, ids), last \in ids :
       Become(Pinned(BoundTo(Store, found, ids, None, last), found[1], c, now + 1))
  /\ now' = now + 1
  /\ Save
  /\ UNCHANGED opened

\* Bind(canonical, aliases): the post-login fold of capture.go identify.
Bind(ids, canonical) ==
  /\ opened
  /\ \E found \in Targets(Store, ids) : Become(BoundTo(Store, found, ids, canonical, canonical))
  /\ Save
  /\ UNCHANGED <<opened, now>>

\* lookup: the ids in turn, each as given and then by its label.
Found(ids) ==
  {IF index[n] # None \/ n \notin Qualified THEN index[n] ELSE index[LabelOf[n]] : n \in ids} \ {None}

\* Forget clears the pin and keeps the names.
Forget(ids) ==
  /\ opened
  /\ \E r \in Found(ids) :
       /\ recs[r].cred # None
       /\ recs' = [recs EXCEPT ![r].cred = None]
  /\ UNCHANGED <<opened, index, now>>
  /\ Save

Next ==
  \/ Open
  \/ \E ids \in Calls :
       Forget(ids) \/ (\E n \in ids : Bind(ids, n)) \/ (\E c \in Creds : Record(c, ids))

Spec == Init /\ [][Next]_vars

-----------------------------------------------------------------------------
(* Properties.                                                             *)

Binding == [canonical: Names \cup {None}, aliases: SUBSET Names,
            cred: Creds \cup {None}, at: 0..MaxTime]

TypeOK ==
  /\ opened \in BOOLEAN
  /\ recs \in [Rids -> Binding]
  /\ index \in [Names -> Rids \cup {None}]
  /\ now \in 0..MaxTime
  /\ file \in SUBSET Binding

\* The index and the alias sets say the same thing, whatever was merged, refused
\* or reloaded: a name finds the one record that lists it.
IndexAgrees == \A n \in Names, r \in Rids : index[n] = r <=> n \in recs[r].aliases

\* Two devices' addresses or qualified names never meet in one record, though the
\* devices share a label and callers use it bare (the header: merging wrongly
\* offers device A's credential to device B).
OneDevicePerRecord ==
  \A r \in Rids : \E ids \in Calls : {n \in recs[r].aliases : Strong(n)} \subseteq ids

\* A name finds one record, and a record is one device, in whatever order the
\* shared labels were bound, merged, refused and reloaded.
RecordsApart == TypeOK /\ IndexAgrees /\ OneDevicePerRecord

\* Within a run a device's last success is never replaced by an earlier one,
\* by a merge either.
PinNeverOlder ==
  [][~Open => \A n \in Names : Strong(n) /\ index[n] # None =>
       index'[n] # None /\ recs'[index'[n]].at >= recs[index[n]].at]_vars

StrongIn(b) == {n \in b.aliases : Strong(n)}

\* A restart knows every address and qualified name that was saved, and ties
\* together exactly those that were: load binds again, with no new evidence.
RestartKeepsNames ==
  [][Open => \A b \in file : \A n \in StrongIn(b) :
       index'[n] # None /\ StrongIn(recs'[index'[n]]) = StrongIn(b)]_vars

=============================================================================
