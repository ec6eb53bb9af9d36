-------------------------------- MODULE Vault --------------------------------
(***************************************************************************)
(* The credential vault: internal/vault over one file, reached through the *)
(* handles of capi/vault.go and through ocvault, with the keyring entry of *)
(* internal/vaultcli.  A handle is a vault.Vault object: a key and the     *)
(* table it decrypted, every call of a single step under its lock.  Any    *)
(* thread may call, so the steps of a call that has several interleave     *)
(* with the other calls; another process is another handle on the file.    *)
(*                                                                         *)
(* Abstracted: a key is the master password it derives from (salt and cost *)
(* are saved with the table they seal, under either app tag); names are up *)
(* to case; a credential's secret stands for all the fields no rule reads. *)
(***************************************************************************)
EXTENDS Integers, FiniteSets

CONSTANTS
  Windows,      \* handles of the application
  Commands,     \* runs of ocvault
  Ids, Names, Secrets,
  Masters,      \* passwords long enough
  Env,          \* OMEGACAT_VAULT_PASSWORD
  None,
  Found,        \* the tables of vaults written before, omegamaps' too
  MaxSaves      \* bound on the saves tried

Handles == Windows \cup Commands

ASSUME HandlesAssumption == Windows \cap Commands = {}
ASSUME NoneAssumption == None \notin Masters /\ Env \in Masters \cup {None}
ASSUME SavesAssumption == MaxSaves \in Nat

VARIABLES
  file,         \* the vault file: what it holds, under which master
  key,          \* Vault.key of each handle, None while locked
  creds,        \* Vault.creds
  task,         \* what a call of several steps has read
  keyring,      \* the entry filed for the vault's path
  saves,        \* saves tried
  synced,       \* history: no save, this handle's included, was tried between the
                \* read of its table and now, but one of its own that worked
  resealed      \* history: the file's master has been replaced

vars == <<file, key, creds, task, keyring, saves, synced, resealed>>
table == <<file, key, creds, saves, synced, resealed>>

Credential == [name: Names, secret: Secrets, default: BOOLEAN, disabled: BOOLEAN, snmp: BOOLEAN]
Absent == [name |-> None]
Table == [Ids -> Credential \cup {Absent}]
Empty == [i \in Ids |-> Absent]

NoFile == [master |-> None, creds |-> Empty]
Idle == [op |-> "idle"]
Exists == file.master # None

Init ==
  /\ file \in {NoFile} \cup {[master |-> m, creds |-> t] : m \in Masters, t \in Found}
  /\ key = [h \in Handles |-> None]
  /\ creds = [h \in Handles |-> Empty]
  /\ task = [h \in Handles |-> Idle]
  /\ keyring = None
  /\ saves = 0
  /\ synced = [h \in Handles |-> FALSE]
  /\ resealed = FALSE

-----------------------------------------------------------------------------
(* The table.                                                              *)

Stored(t) == {i \in Ids : t[i] # Absent}
NameTaken(t, id, n) == \E i \in Stored(t) \ {id} : t[i].name = n

\* clearDefaultLocked.
NoDefault(t) == [i \in Ids |-> IF t[i] = Absent THEN Absent ELSE [t[i] EXCEPT !.default = FALSE]]

\* A promotion that leaves the old default standing.
PutBeside(t, id, c) == [t EXCEPT ![id] = c]

\* A new default takes the flag from the others.
Put(t, id, c) == [(IF c.default THEN NoDefault(t) ELSE t) EXCEPT ![id] = c]

\* An id in no table, no file and no call under way: uuid.New.
Fresh(id) ==
  /\ id \notin Stored(file.creds)
  /\ \A h \in Handles : id \notin Stored(creds[h])
  /\ \A h \in Handles : task[h].op = "unlock" => id \notin Stored(task[h].seen.creds)

-----------------------------------------------------------------------------
(* saveLocked: the whole table written, or nothing and an error; what the  *)
(* handle holds in memory has changed either way.                          *)

Unlocked(h) == key[h] # None

\* A temporary file renamed over the old one.
WriteAtomic(h, k, t) ==
  /\ file' = [master |-> k, creds |-> t]
  /\ synced' = [g \in Handles |-> g = h]
  /\ resealed' = (resealed \/ file.master \notin {None, k})

WriteFails(h) == synced' = [synced EXCEPT ![h] = FALSE] /\ UNCHANGED <<file, resealed>>

Save(h, k, t) ==
  /\ saves < MaxSaves
  /\ saves' = saves + 1
  /\ key' = [key EXCEPT ![h] = k]
  /\ creds' = [creds EXCEPT ![h] = t]
  /\ WriteAtomic(h, k, t) \/ WriteFails(h)
  /\ UNCHANGED keyring

\* A change of an unlocked handle's table in one step.
Commit(h, t) == Unlocked(h) /\ Save(h, key[h], t) /\ UNCHANGED task

Begin(h, read) ==
  /\ task[h] = Idle
  /\ task' = [task EXCEPT ![h] = read]
  /\ UNCHANGED <<table, keyring>>

Done(h) == task' = [task EXCEPT ![h] = Idle]

-----------------------------------------------------------------------------
(* Creating, unlocking, locking.                                           *)

\* The dialog or `ocvault keyring set` that got a vault open may file the
\* password that opened it.
Opened(h, m) == Done(h) \/ task' = [task EXCEPT ![h] = [op |-> "opened", master |-> m]]

Remember(h) ==
  /\ task[h].op = "opened"
  /\ keyring' = task[h].master
  /\ Done(h)
  /\ UNCHANGED table

KeyringClear ==
  /\ keyring # None /\ keyring' = None
  /\ UNCHANGED <<table, task>>

\* Create looks for a file before it takes the lock.
CreateLooks(h, m) == ~Exists /\ Begin(h, [op |-> "create", master |-> m])

\* The password offered to the keyring before the vault is written.
CreateHopeful(h) ==
  /\ task[h].op = "create"
  /\ Save(h, task[h].master, Empty)
  /\ Opened(h, task[h].master)

Create(h) ==
  /\ task[h].op = "create"
  /\ Save(h, task[h].master, Empty)
  /\ IF synced'[h] THEN Opened(h, task[h].master) ELSE Done(h)

\* Unlock reads and derives outside the lock.  A wrong password changes nothing.
UnlockReads(h, m) ==
  Exists /\ m = file.master /\ Begin(h, [op |-> "unlock", seen |-> file, at |-> saves])

\* The keyring's entry, right or stale, hides the environment's.
QuietMaster == IF keyring # None THEN keyring ELSE Env
UnlockQuiet(h) == UnlockReads(h, QuietMaster)

\* vaultcli.Open: quietly, and where the keyring's entry is stale or there is
\* nothing to go by, with what is typed; the environment's is not asked about.
CommandOpens(h) ==
  \/ UnlockQuiet(h)
  \/ /\ QuietMaster = None \/ keyring \notin {None, file.master}
     /\ \E m \in Masters : UnlockReads(h, m)

\* The table read is installed whatever was saved meanwhile, by whichever handle.
Unlock(h) ==
  /\ task[h].op = "unlock"
  /\ key' = [key EXCEPT ![h] = task[h].seen.master]
  /\ creds' = [creds EXCEPT ![h] = task[h].seen.creds]
  /\ synced' = [synced EXCEPT ![h] = task[h].at = saves]
  /\ Opened(h, task[h].seen.master)
  /\ UNCHANGED <<file, keyring, saves, resealed>>

\* Lock; closing a handle locks it and leaves a call under way to finish.
Lock(h) ==
  /\ Unlocked(h)
  /\ key' = [key EXCEPT ![h] = None]
  /\ creds' = [creds EXCEPT ![h] = Empty]
  /\ synced' = [synced EXCEPT ![h] = FALSE]
  /\ UNCHANGED <<file, task, keyring, saves, resealed>>

\* ChangeMasterPassword checks the old password against the file, then saves
\* what is in memory under the new one, locked or not.
RekeyReads(h, old, new) ==
  Exists /\ old = file.master /\ Begin(h, [op |-> "rekey", master |-> new])

Rekey(h) ==
  /\ task[h].op = "rekey"
  /\ Save(h, task[h].master, creds[h])
  /\ Done(h)

-----------------------------------------------------------------------------
(* Credentials.                                                            *)

\* What a form or a command line makes: neither stores an SNMP credential, and
\* the ones in a table were found there.
Forms == {c \in Credential : ~c.snmp /\ ~c.disabled}

Add(h, id, c) ==
  /\ Fresh(id) /\ ~NameTaken(creds[h], id, c.name)
  /\ Commit(h, Put(creds[h], id, c))

CanUpdate(h, id, c) ==
  /\ id \in Stored(creds[h])
  /\ ~NameTaken(creds[h], id, c.name)
  /\ ~(c.default /\ c.snmp)

Update(h, id, c) == CanUpdate(h, id, c) /\ Commit(h, Put(creds[h], id, c))

\* omegacat_vault_store: a record with an id replaces one.
Store(h, id, c) == Add(h, id, c) \/ Update(h, id, c)

\* UpdateMetadata: a form can make its credential the default, not unmake it.
Merged(old, n, wanted, off) ==
  [old EXCEPT !.name = n, !.disabled = off, !.default = @ \/ wanted]

UpdateMetadata(h, id, n, wanted, off) ==
  /\ id \in Stored(creds[h])
  /\ ~NameTaken(creds[h], id, n)
  /\ LET old == creds[h][id]
     IN /\ ~(wanted /\ ~old.default /\ old.snmp)
        /\ Commit(h, Put(creds[h], id, Merged(old, n, wanted, off)))

\* omegacat_vault_rename: Get, then Update with the record as it was then.
RenameReads(h, id, n) ==
  /\ Unlocked(h) /\ id \in Stored(creds[h])
  /\ Begin(h, [op |-> "rename", id |-> id, cred |-> [creds[h][id] EXCEPT !.name = n]])

Rename(h) ==
  /\ task[h].op = "rename"
  /\ Done(h)
  /\ LET id == task[h].id
         c == task[h].cred
     IN \/ /\ Unlocked(h) /\ CanUpdate(h, id, c)
           /\ Save(h, key[h], Put(creds[h], id, c))
        \/ /\ ~(Unlocked(h) /\ CanUpdate(h, id, c))
           /\ UNCHANGED <<table, keyring>>

Delete(h, id) ==
  /\ id \in Stored(creds[h])
  /\ Commit(h, [creds[h] EXCEPT ![id] = Absent])

Marked(t, id) == [i \in Ids |-> IF t[i] = Absent THEN Absent ELSE [t[i] EXCEPT !.default = i = id]]

SetDefault(h, id) ==
  /\ id \in Stored(creds[h]) /\ ~creds[h][id].snmp
  /\ Commit(h, Marked(creds[h], id))

\* An id that has gone clears them all in memory, and the call fails unsaved.
SetDefaultUnknown(h) ==
  /\ Unlocked(h)
  /\ creds' = [creds EXCEPT ![h] = NoDefault(@)]
  /\ synced' = [synced EXCEPT ![h] = FALSE]
  /\ UNCHANGED <<file, key, task, keyring, saves, resealed>>

ClearDefault(h) ==
  NoDefault(creds[h]) # creds[h] /\ Commit(h, NoDefault(creds[h]))

\* A toggle kept in memory.
SetDisabledUnsaved(h, id, off) ==
  /\ id \in Stored(creds[h])
  /\ creds' = [creds EXCEPT ![h][id].disabled = off]
  /\ UNCHANGED <<file, key, task, keyring, saves, synced, resealed>>

SetDisabled(h, id, off) ==
  /\ id \in Stored(creds[h])
  /\ Commit(h, [creds[h] EXCEPT ![id].disabled = off])

-----------------------------------------------------------------------------
(* The two programs.                                                       *)

\* The rest of a call that opens a vault, and the end of its use.
Finishing(h) == Create(h) \/ Unlock(h) \/ Remember(h) \/ Lock(h)

CommandInit(h) == \E m \in Masters : CreateLooks(h, m)

\* `ocvault keyring set` asks for the password it is to file.
CommandKeyring(h) == \E m \in Masters : UnlockReads(h, m)

\* `ocvault add` makes no default; with -default, CommandDefault is its next call.
CommandAdd(h, id) == \E c \in Forms : ~c.default /\ Add(h, id, c)

\* A default that would be passed over is refused.
CommandDefault(h, id) ==
  \/ ClearDefault(h)
  \/ id \in Stored(creds[h]) /\ ~creds[h][id].disabled /\ SetDefault(h, id)

CommandChanges(h, id) == Delete(h, id) \/ \E off \in BOOLEAN : SetDisabled(h, id, off)

Command(h) ==
  \/ CommandInit(h) \/ CommandOpens(h) \/ CommandKeyring(h) \/ Finishing(h)
  \/ \E id \in Ids : CommandAdd(h, id) \/ CommandDefault(h, id) \/ CommandChanges(h, id)

WindowOpens(h) ==
  \/ UnlockQuiet(h) \/ Finishing(h) \/ Rekey(h)
  \/ \E m \in Masters : CreateLooks(h, m) \/ UnlockReads(h, m)
  \/ \E old, new \in Masters : RekeyReads(h, old, new)

WindowEdits(h) ==
  \/ Rename(h) \/ SetDefaultUnknown(h) \/ ClearDefault(h)
  \/ \E id \in Ids :
       \/ Delete(h, id) \/ SetDefault(h, id)
       \/ \E off \in BOOLEAN : SetDisabled(h, id, off)
       \/ \E c \in Forms : Store(h, id, c)
       \/ \E n \in Names : RenameReads(h, id, n)
       \/ \E n \in Names, wanted, off \in BOOLEAN : UpdateMetadata(h, id, n, wanted, off)

Next ==
  \/ \E h \in Commands : Command(h)
  \/ \E h \in Windows : WindowOpens(h) \/ WindowEdits(h)
  \/ KeyringClear

Spec == Init /\ [][Next]_vars

-----------------------------------------------------------------------------
(* Properties.                                                             *)

Reads ==
  {Idle} \cup [op: {"create", "rekey", "opened"}, master: Masters]
    \cup [op: {"unlock"}, seen: [master: Masters, creds: Table], at: 0..MaxSaves]
    \cup [op: {"rename"}, id: Ids, cred: Credential]

TypeOK ==
  /\ file \in [master: Masters \cup {None}, creds: Table]
  /\ key \in [Handles -> Masters \cup {None}]
  /\ creds \in [Handles -> Table]
  /\ task \in [Handles -> Reads]
  /\ keyring \in Masters \cup {None}
  /\ saves \in 0..MaxSaves
  /\ synced \in [Handles -> BOOLEAN]
  /\ resealed \in BOOLEAN

Sound(t) ==
  /\ \A i, j \in Stored(t) : t[i].name = t[j].name => i = j
  /\ \A i, j \in Stored(t) : t[i].default /\ t[j].default => i = j
  /\ \A i \in Stored(t) : t[i].default => ~t[i].snmp

\* The programs that wrote the vaults found keep the same rules.
ASSUME FoundAssumption == Found \subseteq Table /\ \A t \in Found : Sound(t)

\* Whatever is renamed on a record read before, promoted through a form, saved
\* without effect or saved by two programs over each other: a name is one
\* credential's, one credential at most is the default, and it is not SNMP.
TableIsSound == TypeOK /\ Sound(file.creds) /\ \A h \in Handles : Sound(creds[h])

\* A handle works on what the file holds, under the key it is sealed with,
\* unless a save of its own failed, another program has saved since, a default was
\* set that is not there, or an unlock was overtaken: a save, of this handle or
\* another, came between its read of the file and its install of the table, which
\* puts the older table back.
MemoryIsFile ==
  \A h \in Handles : Unlocked(h) /\ synced[h] => file = [master |-> key[h], creds |-> creds[h]]

\* The entry an unattended run unlocks with is the vault's master: it is filed
\* only for a vault that is there and has opened, however long after, so that
\* nothing but a change of master strands it (keyring.go: storing an unverified
\* password is how an entry becomes a lockout).
EntryOpensVault == keyring # None /\ ~resealed => keyring = file.master
=============================================================================
