------------------------------- MODULE Naming -------------------------------
(***************************************************************************)
(* What name a capture is filed under: identify of internal/capture/       *)
(* capture.go, over the binding store of Bindings, which concurrent visits *)
(* of one run share and call without holding anything between two calls.   *)
(*                                                                         *)
(* A visit is one entry of the device list.  Its login records a binding   *)
(* under the names the entry dials by; identify then resolves them, binds  *)
(* the name of the prompt and the address that answered, and resolves      *)
(* again.  A new run opens the file anew.                                  *)
(*                                                                         *)
(* Abstracted: who the ladder's credential is (Creds), the events sent, and*)
(* the aliases that go to device.json.                                     *)
(***************************************************************************)
EXTENDS Bindings

CONSTANTS
  Visits,
  Entry       \* by visit: id, what the list calls it; target, what is dialled; ids,
              \* what it resolves with, in order; login, what its login is recorded
              \* under; answered and prompt, the address and the name the device gives
              \* or None; device, the one of Calls that is its device's names

Answered(v) == Entry[v].answered
Prompt(v) == Entry[v].prompt

Given(v) == {Entry[v].ids[k] : k \in DOMAIN Entry[v].ids}

\* The names a visit has bound for its device, or may have.
Bound(v) == Entry[v].login \cup ({Prompt(v), Answered(v)} \ {None})

ASSUME EntryAssumption ==
  \A v \in Visits :
    /\ Entry[v].ids \in Seq(Names) /\ Entry[v].ids # <<>> /\ Entry[v].ids[1] = Entry[v].id
    /\ {Entry[v].id, Entry[v].target} \subseteq Entry[v].login
    /\ Entry[v].login \subseteq Given(v)
    /\ Answered(v) \in Addresses \cup {None} /\ Prompt(v) \in Names \cup {None}
    /\ Entry[v].device \in Calls /\ {n \in Bound(v) : Strong(n)} \subseteq Entry[v].device

VARIABLES
  at,         \* where each visit stands
  prior,      \* the label its first Resolve returned, None when there was none
  key,        \* info.Canonical of its last visit, the storage key
  settled     \* nothing was bound since by another visit

naming == <<at, prior, key, settled>>
namingVars == <<vars, naming>>

NamingInit ==
  /\ Init
  /\ at = [v \in Visits |-> "away"]
  /\ prior = [v \in Visits |-> None]
  /\ key = [v \in Visits |-> None]
  /\ settled = [v \in Visits |-> FALSE]

\* What this visit itself called the device: a label among these is no news.
Supplied(v) == Given(v) \cup ({Answered(v)} \ {None})

Goto(v, place) == at' = [at EXCEPT ![v] = place]
Disturbs(v) == settled' = [u \in Visits |-> settled[u] /\ u = v]
Named(v, name) == key' = [key EXCEPT ![v] = name] /\ Goto(v, "named")

-----------------------------------------------------------------------------
\* NewResolver, for the next run: none of its visits is under way.
NextRun ==
  /\ Open
  /\ at' = [v \in Visits |-> "away"]
  /\ UNCHANGED <<prior, key, settled>>

\* A pin that was refused: Report forgets it and the walk goes on.
PinRefused(v) ==
  /\ at[v] \in {"away", "named"}
  /\ Forget(Entry[v].login)
  /\ UNCHANGED naming

\* A credential worked: Report records it under the target's bindingIDs.
LogIn(v) ==
  /\ at[v] \in {"away", "named"}
  /\ \E c \in Creds : Record(c, Entry[v].login)
  /\ Goto(v, "resolve")
  /\ Disturbs(v)
  /\ UNCHANGED <<prior, key>>

\* Resolve(ids...): the label of the first id that is known.
Resolve(ids) ==
  LET known == {k \in DOMAIN ids : Found({ids[k]}) # {}}
  IN IF known = {} THEN None
     ELSE LET first == CHOOSE k \in known : \A j \in known : k <= j
          IN recs[CHOOSE r \in Found({ids[first]}) : TRUE].canonical

Learned(v, name) == name \notin Supplied(v)

\* The first Resolve: a name learned earlier wins; else the prompt; else what the
\* record says, or the caller.
ResolveFirst(v) ==
  LET name == Resolve(Entry[v].ids) IN
  /\ at[v] = "resolve"
  /\ prior' = [prior EXCEPT ![v] = name]
  /\ \/ /\ name # None /\ Learned(v, name)
        /\ Goto(v, "answered")
        /\ key' = [key EXCEPT ![v] = name]
     \/ /\ name = None \/ ~Learned(v, name)
        /\ IF Prompt(v) # None THEN Goto(v, "bind") /\ UNCHANGED key
           ELSE Named(v, IF name = None THEN Entry[v].id ELSE name)
  /\ UNCHANGED <<vars, settled>>

\* bindAnswered: the address that answered joins the record of the name.
BindAnswered(v) ==
  /\ at[v] = "answered"
  /\ IF Answered(v) = None THEN UNCHANGED vars
     ELSE Bind({prior[v], Answered(v)}, prior[v])
  /\ Goto(v, "named")
  /\ Disturbs(v)
  /\ UNCHANGED <<prior, key>>

\* Bind(sys, target, answered).
BindPrompt(v) ==
  /\ at[v] = "bind"
  /\ Bind({Prompt(v), Entry[v].target, Answered(v)} \ {None}, Prompt(v))
  /\ Goto(v, "reread")
  /\ Disturbs(v)
  /\ UNCHANGED <<prior, key>>

\* The prompt's name, whatever the store calls the record.
PromptWins(v) == Prompt(v)

\* Resolve(sys): the store picks the label, not this call.
Picked(v) ==
  LET name == Resolve(<<Prompt(v)>>) IN IF name = None THEN Prompt(v) ELSE name

Reread(v) ==
  /\ at[v] = "reread"
  /\ Named(v, Picked(v))
  /\ settled' = [settled EXCEPT ![v] = TRUE]
  /\ UNCHANGED <<vars, prior>>

NamingNext ==
  \/ NextRun
  \/ \E v \in Visits :
       PinRefused(v) \/ LogIn(v) \/ ResolveFirst(v) \/ BindAnswered(v) \/ BindPrompt(v) \/ Reread(v)

NamingSpec == NamingInit /\ [][NamingNext]_namingVars

-----------------------------------------------------------------------------
\* The names of a device: its call's and what visits bind for it, with their first
\* labels.
NamesOf(d) == Shapes(d \cup UNION {Bound(v) : v \in {u \in Visits : Entry[u].device = d}})

\* What the list and the prompt call it is no name, and no first label of a name,
\* of another device.  First labels themselves may be shared.
OwnNames(v) == \A d \in Calls \ {Entry[v].device} : Bound(v) \cap NamesOf(d) = {}

\* No version 1 record is what its prompt says: such a one is not joined, and keeps
\* the prompt's name for itself.
Unmigrated(v) == \A old \in OldFiles : Prompt(v) \notin old

\* The addresses and qualified names a visit binds in the call that binds a label.
With(v, label) ==
  {n \in IF label \in Entry[v].login THEN Entry[v].login ELSE {Entry[v].target, Answered(v)} \ {None} :
     Strong(n)}

\* An entry that goes by a label of this one's goes with it by an address or a
\* qualified name too, so that the label is neither's to be refused.
OwnLabels(v) ==
  \A u \in Visits \ {v} : \A label \in Bound(u) \cap Bound(v) \cap Labels :
    With(u, label) \cap With(v, label) # {}

\* The storage key "has to be whatever every later run will resolve to": while
\* nobody else binds anything, the entry finds the name it was filed under, when
\* its pin was refused, it logs in again or the file was opened anew.
LaterRunsFindIt ==
  \A v \in Visits :
    settled[v] /\ OwnNames(v) /\ OwnLabels(v) /\ Unmigrated(v) /\ opened => Resolve(Entry[v].ids) = key[v]

\* store.go: "Two devices sharing one config history is the failure this whole
\* naming scheme exists to avoid"; with prompts of their own, whatever they share
\* otherwise and however their visits interleave.
HistoriesApart ==
  (\A v \in Visits : OwnNames(v)) =>
  \A u, v \in Visits :
    at[u] = "named" /\ at[v] = "named" /\ key[u] = key[v] =>
      Entry[u].device = Entry[v].device

\* The same of every two devices.
OneHistoryPerDevice ==
  \A u, v \in Visits :
    at[u] = "named" /\ at[v] = "named" /\ key[u] = key[v] => Entry[u].device = Entry[v].device
=============================================================================
