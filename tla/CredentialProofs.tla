------------------------- MODULE CredentialProofs -------------------------
(***************************************************************************)
(* The vault that holds the credentials, and the ladders that offer them.  *)
(*                                                                         *)
(* The vault's rules are proved for any number of handles, credentials and *)
(* saves.  What a call of several steps has read is as much state as the   *)
(* file: ReadHolds says what a read still promises when the call goes on.  *)
(* The rest is one lemma on each way a table changes and one on a save.    *)
(*                                                                         *)
(* The lockout guard and the ladders are proved for any estate, vault and  *)
(* number of workers.  LockoutBound is not inductive: that a parked        *)
(* credential reaches only so many more devices depends on how many visits *)
(* still hold it, which BreakerHolds counts; that a visit spends what it   *)
(* holds once depends on OffersAreDistinct; and that few visits hold       *)
(* anything depends on the workers.                                        *)
(***************************************************************************)
EXTENDS Vault, CredResolver, FiniteSetTheorems, SequenceTheorems, TLAPS

(* The vault.                                                              *)

\* A table read to unlock with is sound, and the file's as long as no save was
\* tried since; a master that opened the vault, or is about to, is the vault's
\* until it is replaced.
ReadHolds(h) ==
  /\ task[h].op = "unlock" =>
       /\ Sound(task[h].seen.creds) /\ task[h].at <= saves
       /\ task[h].at = saves => task[h].seen = file
  /\ task[h].op = "unlock" /\ ~resealed => task[h].seen.master = file.master
  /\ task[h].op = "opened" /\ ~resealed => task[h].master = file.master

ReadsHold == \A h \in Handles : ReadHolds(h)

IInv == TableIsSound /\ MemoryIsFile /\ EntryOpensVault /\ ReadsHold

-----------------------------------------------------------------------------
(* The ways a table changes.                                               *)

LEMMA StoredIsCredential ==
  ASSUME NEW t \in Table, NEW i \in Stored(t)
  PROVE  i \in Ids /\ t[i] \in Credential /\ t[i] # Absent
BY DEF Table, Stored

LEMMA EmptySound == Empty \in Table /\ Sound(Empty)
BY DEF Empty, Table, Sound, Stored

\* Without the flags: the same names, and no default.
LEMMA NoDefaultSound ==
  ASSUME NEW t \in Table, Sound(t)
  PROVE  /\ NoDefault(t) \in Table /\ Sound(NoDefault(t))
         /\ \A i \in Stored(NoDefault(t)) :
              i \in Stored(t) /\ NoDefault(t)[i].name = t[i].name /\ ~NoDefault(t)[i].default
  <1> DEFINE u == NoDefault(t)
  <1>1. ASSUME NEW i \in Ids
        PROVE  /\ u[i] \in Credential \cup {Absent}
               /\ i \in Stored(u) =>
                    i \in Stored(t) /\ u[i].name = t[i].name /\ ~u[i].default
    <2>1. CASE t[i] = Absent
      BY <2>1 DEF NoDefault, Stored
    <2>2. CASE t[i] # Absent
      <3>1. i \in Stored(t) /\ t[i] \in Credential /\ u[i] = [t[i] EXCEPT !.default = FALSE]
        BY <2>2, StoredIsCredential DEF NoDefault, Stored
      <3> QED BY <3>1 DEF Credential
    <2> QED BY <2>1, <2>2
  <1>2. u \in Table
    BY <1>1 DEF Table, NoDefault
  <1>3. \A i \in Stored(u) : i \in Stored(t) /\ u[i].name = t[i].name /\ ~u[i].default
    BY <1>1 DEF Stored
  <1>4. Sound(u)
    <2> HIDE DEF u
    <2> QED BY <1>3 DEF Sound
  <1> QED BY <1>2, <1>3, <1>4

\* A credential put in under a name nobody else has, SNMP or default but not both.
LEMMA PutSound ==
  ASSUME NEW t \in Table, Sound(t), NEW id \in Ids, NEW c \in Credential,
         ~NameTaken(t, id, c.name), ~(c.default /\ c.snmp)
  PROVE  Put(t, id, c) \in Table /\ Sound(Put(t, id, c))
  <1> DEFINE b == IF c.default THEN NoDefault(t) ELSE t
             u == Put(t, id, c)
  <1>1. /\ b \in Table /\ Sound(b)
        /\ \A i \in Stored(b) : i \in Stored(t) /\ b[i].name = t[i].name
        /\ c.default => \A i \in Stored(b) : ~b[i].default
    BY NoDefaultSound
  <1>2. u = [b EXCEPT ![id] = c]
    BY DEF Put
  <1> HIDE DEF b, u
  <1>3. u \in Table /\ u[id] = c /\ \A i \in Ids : i # id => u[i] = b[i]
    BY <1>1, <1>2 DEF Table
  <1>4. \A i \in Stored(u) : i \in Ids /\ (i # id => i \in Stored(b) /\ u[i] = b[i])
    BY <1>3 DEF Stored
  <1>5. \A i \in Stored(u) : i # id => u[i].name # c.name
    BY <1>1, <1>4 DEF NameTaken
  <1>6. Sound(u)
    <2>1. \A i, j \in Stored(u) : u[i].name = u[j].name => i = j
      BY <1>1, <1>3, <1>4, <1>5 DEF Sound
    <2>2. \A i, j \in Stored(u) : u[i].default /\ u[j].default => i = j
      BY <1>1, <1>3, <1>4 DEF Sound
    <2>3. \A i \in Stored(u) : u[i].default => ~u[i].snmp
      BY <1>1, <1>3, <1>4 DEF Sound
    <2> QED BY <2>1, <2>2, <2>3 DEF Sound
  <1> QED BY <1>3, <1>6 DEF u

LEMMA DeleteSound ==
  ASSUME NEW t \in Table, Sound(t), NEW id \in Ids
  PROVE  [t EXCEPT ![id] = Absent] \in Table /\ Sound([t EXCEPT ![id] = Absent])
  <1> DEFINE u == [t EXCEPT ![id] = Absent]
  <1>1. u \in Table /\ u[id] = Absent /\ \A i \in Ids : i # id => u[i] = t[i]
    BY DEF Table
  <1> HIDE DEF u
  <1>2. \A i \in Stored(u) : i \in Stored(t) /\ u[i] = t[i]
    BY <1>1 DEF Stored
  <1>3. Sound(u)
    BY <1>2 DEF Sound
  <1> QED BY <1>1, <1>3 DEF u

LEMMA MarkedSound ==
  ASSUME NEW t \in Table, Sound(t), NEW id \in Stored(t), ~t[id].snmp
  PROVE  Marked(t, id) \in Table /\ Sound(Marked(t, id))
  <1> DEFINE u == Marked(t, id)
  <1>1. ASSUME NEW i \in Ids
        PROVE  /\ u[i] \in Credential \cup {Absent}
               /\ i \in Stored(u) =>
                    /\ i \in Stored(t) /\ u[i].name = t[i].name
                    /\ u[i].default => i = id
                    /\ u[i].snmp = t[i].snmp
    <2>1. CASE t[i] = Absent
      BY <2>1 DEF Marked, Stored
    <2>2. CASE t[i] # Absent
      <3>1. i \in Stored(t) /\ t[i] \in Credential /\ u[i] = [t[i] EXCEPT !.default = (i = id)]
        BY <2>2, StoredIsCredential DEF Marked, Stored
      <3>2. (i = id) \in BOOLEAN
        OBVIOUS
      <3> HIDE DEF u
      <3> QED BY <3>1, <3>2 DEF Credential
    <2> QED BY <2>1, <2>2
  <1>2. u \in Table
    BY <1>1 DEF Table, Marked
  <1>3. \A i \in Stored(u) :
          i \in Stored(t) /\ u[i].name = t[i].name /\ (u[i].default => i = id) /\ u[i].snmp = t[i].snmp
    BY <1>1 DEF Stored
  <1>4. Sound(u)
    <2> HIDE DEF u
    <2> QED BY <1>3 DEF Sound
  <1> QED BY <1>2, <1>4

LEMMA DisabledSound ==
  ASSUME NEW t \in Table, Sound(t), NEW id \in Stored(t), NEW off \in BOOLEAN
  PROVE  [t EXCEPT ![id].disabled = off] \in Table /\ Sound([t EXCEPT ![id].disabled = off])
  <1> DEFINE u == [t EXCEPT ![id].disabled = off]
             c == [t[id] EXCEPT !.disabled = off]
  <1>1. /\ id \in Ids /\ t[id] \in Credential /\ c \in Credential
        /\ c.name = t[id].name /\ c.snmp = t[id].snmp /\ c.default = t[id].default
    BY StoredIsCredential DEF Credential
  <1>2. u = [t EXCEPT ![id] = c]
    BY <1>1 DEF Table
  <1> HIDE DEF u, c
  <1>3. u \in Table /\ u[id] = c /\ \A i \in Ids : i # id => u[i] = t[i]
    BY <1>1, <1>2 DEF Table
  <1>4. \A i \in Stored(u) :
          /\ i \in Stored(t) /\ u[i].name = t[i].name
          /\ u[i].default = t[i].default /\ u[i].snmp = t[i].snmp
    BY <1>1, <1>3 DEF Stored
  <1>5. Sound(u)
    BY <1>4 DEF Sound
  <1> QED BY <1>3, <1>5 DEF u

-----------------------------------------------------------------------------
(* A save, written or not.                                                 *)

\* What a call may hold when a save of h under master k is done: what it held, or
\* what it opened if the save was written.
MayHold(h, k, read, g) ==
  \/ read = task[g]
  \/ read.op \notin {"unlock", "opened"}
  \/ g = h /\ read.op = "opened" /\ read.master = k /\ synced'[h]

LEMMA SaveKeeps ==
  ASSUME IInv, NEW h \in Handles, NEW k \in Masters, NEW t \in Table, Sound(t), Save(h, k, t),
         task' \in [Handles -> Reads], \A g \in Handles : MayHold(h, k, task'[g], g)
  PROVE  IInv'
  <1>1. TypeOK /\ Sound(file.creds) /\ (\A g \in Handles : Sound(creds[g]))
        /\ MemoryIsFile /\ EntryOpensVault /\ ReadsHold
    BY DEF IInv, TableIsSound
  <1>2. /\ saves < MaxSaves /\ saves' = saves + 1 /\ keyring' = keyring
        /\ key' \in [Handles -> Masters \cup {None}]
        /\ \A g \in Handles : key'[g] = IF g = h THEN k ELSE key[g]
        /\ creds' \in [Handles -> Table]
        /\ \A g \in Handles : creds'[g] = IF g = h THEN t ELSE creds[g]
    BY <1>1 DEF TypeOK, Save
  <1>3. \/ /\ file' = [master |-> k, creds |-> t]
           /\ synced' \in [Handles -> BOOLEAN]
           /\ \A g \in Handles : synced'[g] = (g = h)
           /\ resealed' = (resealed \/ file.master \notin {None, k})
        \/ /\ file' = file /\ resealed' = resealed
           /\ synced' \in [Handles -> BOOLEAN]
           /\ \A g \in Handles : synced'[g] <=> g # h /\ synced[g]
    <2>1. CASE WriteAtomic(h, k, t)
      BY <2>1 DEF WriteAtomic
    <2>2. CASE WriteFails(h)
      <3>1. synced' = [synced EXCEPT ![h] = FALSE] /\ synced \in [Handles -> BOOLEAN]
        BY <1>1, <2>2 DEF WriteFails, TypeOK
      <3>2. \A g \in Handles : synced'[g] = IF g = h THEN FALSE ELSE synced[g]
        BY <3>1, Zenon
      <3>3. \A g \in Handles : synced[g] \in BOOLEAN
        BY <3>1
      <3>4. synced' \in [Handles -> BOOLEAN]
        BY <3>1
      <3> QED BY <2>2, <3>2, <3>3, <3>4 DEF WriteFails
    <2> QED BY <2>1, <2>2 DEF Save
  <1>4. file' \in [master: Masters \cup {None}, creds: Table] /\ Sound(file'.creds)
    BY <1>1, <1>3 DEF TypeOK
  <1>5. resealed' \in BOOLEAN /\ saves' \in 0..MaxSaves
    BY <1>1, <1>2, <1>3, SavesAssumption DEF TypeOK
  <1>6. TypeOK'
    BY <1>1, <1>2, <1>3, <1>4, <1>5 DEF TypeOK
  <1>7. \A g \in Handles : Sound(creds'[g])
    BY <1>1, <1>2
  <1>8. MemoryIsFile'
    BY <1>1, <1>2, <1>3 DEF MemoryIsFile, Unlocked
  <1>9. ~resealed' => ~resealed /\ (file.master # None => file'.master = file.master)
    BY <1>1, <1>3 DEF TypeOK
  <1>10. EntryOpensVault'
    BY <1>1, <1>2, <1>9 DEF EntryOpensVault
  <1>11. ReadsHold'
    <2> SUFFICES ASSUME NEW g \in Handles
                 PROVE  ReadHolds(g)'
      BY DEF ReadsHold
    <2>1. ReadHolds(g) /\ task[g] \in Reads
      BY <1>1 DEF ReadsHold, TypeOK
    <2>2. CASE task'[g] = task[g]
      <3>1. task[g].op = "unlock" => task[g].seen.master \in Masters
        BY <2>1 DEF Reads, Idle
      <3>2. task[g].op = "opened" => task[g].master \in Masters
        BY <2>1 DEF Reads, Idle
      \* A save was tried since the read.
      <3>3. task[g].op = "unlock" => task[g].at <= saves' /\ task[g].at # saves'
        <4>1. saves \in Nat /\ (task[g].op = "unlock" => task[g].at \in Nat)
          BY <1>1, <2>1, SavesAssumption DEF TypeOK, Reads, Idle
        <4> QED BY <4>1, <2>1, <1>2 DEF ReadHolds
      <3> QED BY <2>1, <2>2, <3>1, <3>2, <3>3, <1>9, NoneAssumption DEF ReadHolds
    <2>3. CASE task'[g].op \notin {"unlock", "opened"}
      BY <2>3 DEF ReadHolds
    <2>4. CASE g = h /\ task'[g].op = "opened" /\ task'[g].master = k /\ synced'[h]
      BY <2>4, <1>3 DEF ReadHolds
    <2> QED BY <2>2, <2>3, <2>4 DEF MayHold
  <1> QED BY <1>4, <1>6, <1>7, <1>8, <1>10, <1>11 DEF IInv, TableIsSound

\* A change of a table by a handle that has no call of several steps under way,
\* or whose call ends with it.
LEMMA ChangeKeeps ==
  ASSUME IInv, NEW h \in Handles, NEW k \in Masters, NEW t \in Table, Sound(t), Save(h, k, t),
         UNCHANGED task \/ Done(h)
  PROVE  IInv'
  <1>1. task \in [Handles -> Reads]
    BY DEF IInv, TableIsSound, TypeOK
  <1>2. Idle \in Reads /\ Idle.op = "idle"
    BY DEF Reads, Idle
  <1>3. task' \in [Handles -> Reads]
        /\ \A g \in Handles : task'[g] = task[g] \/ task'[g] = Idle
    BY <1>1, <1>2 DEF Done
  <1>4. \A g \in Handles : MayHold(h, k, task'[g], g)
    BY <1>2, <1>3 DEF MayHold
  <1> QED BY <1>3, <1>4, SaveKeeps

LEMMA CommitKeeps ==
  ASSUME IInv, NEW h \in Handles, NEW t \in Table, Sound(t), Commit(h, t)
  PROVE  IInv'
  <1>1. key[h] \in Masters /\ Save(h, key[h], t) /\ UNCHANGED task
    BY DEF Commit, Unlocked, IInv, TableIsSound, TypeOK
  <1> QED BY <1>1, ChangeKeeps

-----------------------------------------------------------------------------
(* Opening and closing.                                                    *)

LEMMA Tables ==
  ASSUME IInv, NEW h \in Handles
  PROVE  /\ creds[h] \in Table /\ Sound(creds[h])
         /\ task \in [Handles -> Reads]
         /\ file \in [master: Masters \cup {None}, creds: Table] /\ Sound(file.creds)
BY DEF IInv, TableIsSound, TypeOK

\* A call that reads, and lets the handle go.
LEMMA BeginKeeps ==
  ASSUME IInv, NEW h \in Handles, NEW read \in Reads, Begin(h, read),
         \/ read.op \in {"create", "rekey", "rename"}
         \/ read.op = "unlock" /\ read.seen = file /\ read.at = saves
  PROVE  IInv'
  <1>1. /\ task' \in [Handles -> Reads]
        /\ \A g \in Handles : task'[g] = IF g = h THEN read ELSE task[g]
        /\ UNCHANGED <<file, key, creds, saves, synced, resealed, keyring>>
    BY Tables DEF Begin, table
  <1>2. TypeOK' /\ MemoryIsFile' /\ EntryOpensVault'
    BY <1>1 DEF IInv, TableIsSound, TypeOK, MemoryIsFile, Unlocked, EntryOpensVault
  <1>3. Sound(file.creds) /\ saves \in Nat /\ \A g \in Handles : ReadHolds(g)
    BY DEF IInv, TableIsSound, TypeOK, ReadsHold
  <1>4. \A g \in Handles : ReadHolds(g)'
    BY <1>1, <1>3 DEF ReadHolds
  <1>5. TableIsSound'
    BY <1>1, <1>2 DEF IInv, TableIsSound
  <1> QED BY <1>2, <1>4, <1>5 DEF IInv, ReadsHold

LEMMA CreateLooksKeeps ==
  ASSUME IInv, NEW h \in Handles, NEW m \in Masters, CreateLooks(h, m)
  PROVE  IInv'
  <1>1. [op |-> "create", master |-> m] \in Reads
    BY DEF Reads
  <1> QED BY <1>1, BeginKeeps DEF CreateLooks

LEMMA RekeyReadsKeeps ==
  ASSUME IInv, NEW h \in Handles, NEW old, NEW new \in Masters, RekeyReads(h, old, new)
  PROVE  IInv'
  <1>1. [op |-> "rekey", master |-> new] \in Reads
    BY DEF Reads
  <1> QED BY <1>1, BeginKeeps DEF RekeyReads

LEMMA UnlockReadsKeeps ==
  ASSUME IInv, NEW h \in Handles, NEW m, UnlockReads(h, m)
  PROVE  IInv'
  <1>1. file \in [master: Masters, creds: Table]
    BY Tables DEF UnlockReads, Exists
  <1>2. [op |-> "unlock", seen |-> file, at |-> saves] \in Reads
    BY <1>1 DEF IInv, TableIsSound, TypeOK, Reads
  <1> QED BY <1>2, BeginKeeps DEF UnlockReads

LEMMA RenameReadsKeeps ==
  ASSUME IInv, NEW h \in Handles, NEW id \in Ids, NEW n \in Names, RenameReads(h, id, n)
  PROVE  IInv'
  <1>1. creds[h][id] \in Credential
    BY Tables, StoredIsCredential DEF RenameReads
  <1>2. [creds[h][id] EXCEPT !.name = n] \in Credential
    BY <1>1 DEF Credential
  <1>3. [op |-> "rename", id |-> id, cred |-> [creds[h][id] EXCEPT !.name = n]] \in Reads
    BY <1>2 DEF Reads
  <1> QED BY <1>3, BeginKeeps DEF RenameReads

LEMMA CreateKeeps ==
  ASSUME IInv, NEW h \in Handles, Create(h)
  PROVE  IInv'
  <1> DEFINE m == task[h].master
  <1>1. m \in Masters /\ task \in [Handles -> Reads]
    BY Tables DEF Create, Reads, Idle
  <1>2. Idle \in Reads /\ Idle.op = "idle" /\ [op |-> "opened", master |-> m] \in Reads
    BY <1>1 DEF Reads, Idle
  <1>3. Save(h, m, Empty) /\ IF synced'[h] THEN Opened(h, m) ELSE Done(h)
    BY DEF Create
  <1> HIDE DEF m
  <1>4. task' \in [Handles -> Reads]
        /\ \A g \in Handles :
             \/ task'[g] = task[g]
             \/ task'[g] = Idle
             \/ g = h /\ task'[g] = [op |-> "opened", master |-> m] /\ synced'[h]
    BY <1>1, <1>2, <1>3 DEF Opened, Done
  <1>5. \A g \in Handles : MayHold(h, m, task'[g], g)
    BY <1>2, <1>4 DEF MayHold
  <1> QED BY <1>1, <1>3, <1>4, <1>5, EmptySound, SaveKeeps

LEMMA UnlockKeeps ==
  ASSUME IInv, NEW h \in Handles, Unlock(h)
  PROVE  IInv'
  <1> DEFINE seen == task[h].seen
             open == [op |-> "opened", master |-> seen.master]
  <1>1. TypeOK /\ Sound(file.creds) /\ (\A g \in Handles : Sound(creds[g]))
        /\ MemoryIsFile /\ EntryOpensVault /\ \A g \in Handles : ReadHolds(g)
    BY DEF IInv, TableIsSound, ReadsHold
  <1>2. /\ task[h].op = "unlock" /\ seen \in [master: Masters, creds: Table] /\ Sound(seen.creds)
        /\ ~resealed => seen.master = file.master
        /\ task[h].at = saves => seen = file
    BY <1>1 DEF Unlock, TypeOK, Reads, Idle, ReadHolds
  <1>3. /\ key' = [key EXCEPT ![h] = seen.master]
        /\ creds' = [creds EXCEPT ![h] = seen.creds]
        /\ synced' = [synced EXCEPT ![h] = (task[h].at = saves)]
        /\ task' = [task EXCEPT ![h] = Idle] \/ task' = [task EXCEPT ![h] = open]
        /\ UNCHANGED <<file, keyring, saves, resealed>>
    BY DEF Unlock, Opened, Done
  <1>4. Idle \in Reads /\ Idle.op = "idle" /\ open \in Reads /\ open.op = "opened" /\ open.master = seen.master
    BY <1>2 DEF Reads, Idle
  <1> HIDE DEF seen, open
  <1>5. /\ key' \in [Handles -> Masters \cup {None}]
        /\ \A g \in Handles : key'[g] = IF g = h THEN seen.master ELSE key[g]
        /\ creds' \in [Handles -> Table]
        /\ \A g \in Handles : creds'[g] = IF g = h THEN seen.creds ELSE creds[g]
        /\ task' \in [Handles -> Reads]
        /\ \A g \in Handles : task'[g] \in {task[g], Idle} \/ (g = h /\ task'[g] = open)
    BY <1>1, <1>2, <1>3, <1>4 DEF TypeOK
  <1>6. /\ synced' \in [Handles -> BOOLEAN]
        /\ synced'[h] => seen = file
        /\ \A g \in Handles : g # h => synced'[g] = synced[g]
    BY <1>1, <1>2, <1>3 DEF TypeOK
  <1>7. TypeOK'
    BY <1>1, <1>3, <1>5, <1>6 DEF TypeOK
  <1>8. \A g \in Handles : Sound(creds'[g])
    BY <1>1, <1>2, <1>5
  <1>9. MemoryIsFile'
    <2> SUFFICES ASSUME NEW g \in Handles, key'[g] # None, synced'[g]
                 PROVE  file = [master |-> key'[g], creds |-> creds'[g]]
      BY <1>3 DEF MemoryIsFile, Unlocked
    <2>1. CASE g = h
      BY <2>1, <1>2, <1>5, <1>6
    <2>2. CASE g # h
      BY <2>2, <1>1, <1>5, <1>6 DEF MemoryIsFile, Unlocked
    <2> QED BY <2>1, <2>2
  <1>10. EntryOpensVault'
    BY <1>1, <1>3 DEF EntryOpensVault
  <1>11. \A g \in Handles : ReadHolds(g)'
    BY <1>1, <1>2, <1>3, <1>4, <1>5 DEF ReadHolds
  <1> QED BY <1>1, <1>3, <1>7, <1>8, <1>9, <1>10, <1>11 DEF IInv, TableIsSound, ReadsHold

\* The handle forgets what it knows, or its default: nobody else notices.
LEMMA ForgetKeeps ==
  ASSUME IInv, NEW h \in Handles, NEW t \in Table, Sound(t),
         creds' = [creds EXCEPT ![h] = t], synced' = [synced EXCEPT ![h] = FALSE],
         key' = key \/ key' = [key EXCEPT ![h] = None],
         UNCHANGED <<file, task, keyring, saves, resealed>>
  PROVE  IInv'
  <1>1. TypeOK /\ Sound(file.creds) /\ (\A g \in Handles : Sound(creds[g]))
        /\ MemoryIsFile /\ EntryOpensVault /\ \A g \in Handles : ReadHolds(g)
    BY DEF IInv, TableIsSound, ReadsHold
  <1>2. /\ creds' \in [Handles -> Table]
        /\ \A g \in Handles : creds'[g] = IF g = h THEN t ELSE creds[g]
        /\ key' \in [Handles -> Masters \cup {None}]
        /\ \A g \in Handles : g # h => key'[g] = key[g]
        /\ synced' \in [Handles -> BOOLEAN] /\ ~synced'[h]
        /\ \A g \in Handles : g # h => synced'[g] = synced[g]
    BY <1>1 DEF TypeOK
  <1>3. TypeOK' /\ MemoryIsFile' /\ EntryOpensVault'
    BY <1>1, <1>2 DEF TypeOK, MemoryIsFile, Unlocked, EntryOpensVault
  <1>4. \A g \in Handles : Sound(creds'[g]) /\ ReadHolds(g)'
    BY <1>1, <1>2 DEF ReadHolds
  <1> QED BY <1>1, <1>3, <1>4 DEF IInv, TableIsSound, ReadsHold

LEMMA LockKeeps ==
  ASSUME IInv, NEW h \in Handles, Lock(h)
  PROVE  IInv'
BY EmptySound, ForgetKeeps DEF Lock

LEMMA SetDefaultUnknownKeeps ==
  ASSUME IInv, NEW h \in Handles, SetDefaultUnknown(h)
  PROVE  IInv'
  <1>1. NoDefault(creds[h]) \in Table /\ Sound(NoDefault(creds[h]))
    BY Tables, NoDefaultSound
  <1>2. creds' = [creds EXCEPT ![h] = NoDefault(creds[h])]
    BY DEF SetDefaultUnknown
  <1> QED BY <1>1, <1>2, ForgetKeeps DEF SetDefaultUnknown

LEMMA KeyringKeeps ==
  ASSUME IInv, KeyringClear \/ \E h \in Handles : Remember(h)
  PROVE  IInv'
  <1>1. TypeOK /\ EntryOpensVault /\ \A g \in Handles : ReadHolds(g)
    BY DEF IInv, TableIsSound, ReadsHold
  <1>2. UNCHANGED <<file, key, creds, saves, synced, resealed>>
    BY DEF KeyringClear, Remember, table
  <1>3. /\ keyring' \in Masters \cup {None}
        /\ keyring' # None /\ ~resealed => keyring' = file.master
        /\ task' \in [Handles -> Reads]
        /\ \A g \in Handles : task'[g] = task[g] \/ task'[g] = Idle
    <2>1. CASE KeyringClear
      BY <2>1, <1>1 DEF KeyringClear, TypeOK
    <2>2. ASSUME NEW h \in Handles, Remember(h)
          PROVE  <1>3!:
      <3>1. Idle \in Reads
        BY DEF Reads
      <3>2. task[h].master \in Masters /\ (~resealed => task[h].master = file.master)
        BY <1>1, <2>2 DEF Remember, TypeOK, Reads, Idle, ReadHolds
      <3> QED BY <1>1, <2>2, <3>1, <3>2 DEF Remember, Done, TypeOK
    <2> QED BY <2>1, <2>2
  <1>4. TypeOK' /\ MemoryIsFile' /\ EntryOpensVault'
    BY <1>1, <1>2, <1>3 DEF IInv, TypeOK, MemoryIsFile, Unlocked, EntryOpensVault
  <1>5. TableIsSound'
    BY <1>2, <1>4 DEF IInv, TableIsSound
  <1>6. \A g \in Handles : ReadHolds(g)'
    BY <1>1, <1>2, <1>3 DEF ReadHolds, Idle
  <1> QED BY <1>4, <1>5, <1>6 DEF IInv, ReadsHold

LEMMA RekeyKeeps ==
  ASSUME IInv, NEW h \in Handles, Rekey(h)
  PROVE  IInv'
  <1>1. task[h].master \in Masters
    BY Tables DEF Rekey, Reads, Idle
  <1> QED BY <1>1, Tables, ChangeKeeps DEF Rekey

-----------------------------------------------------------------------------
(* Credentials.                                                            *)

LEMMA AddKeeps ==
  ASSUME IInv, NEW h \in Handles, NEW id \in Ids, NEW c \in Forms, Add(h, id, c)
  PROVE  IInv'
  <1>1. c \in Credential /\ ~c.snmp
    BY DEF Forms
  <1>2. Put(creds[h], id, c) \in Table /\ Sound(Put(creds[h], id, c))
    BY <1>1, Tables, PutSound DEF Add
  <1> QED BY <1>2, CommitKeeps DEF Add

LEMMA UpdateKeeps ==
  ASSUME IInv, NEW h \in Handles, NEW id \in Ids, NEW c \in Credential, Update(h, id, c)
  PROVE  IInv'
  <1>1. Put(creds[h], id, c) \in Table /\ Sound(Put(creds[h], id, c))
    BY Tables, PutSound DEF Update, CanUpdate
  <1> QED BY <1>1, CommitKeeps DEF Update

LEMMA UpdateMetadataKeeps ==
  ASSUME IInv, NEW h \in Handles, NEW id \in Ids, NEW n \in Names,
         NEW wanted \in BOOLEAN, NEW off \in BOOLEAN, UpdateMetadata(h, id, n, wanted, off)
  PROVE  IInv'
  <1> DEFINE old == creds[h][id]
             c == Merged(old, n, wanted, off)
  <1>1. /\ id \in Stored(creds[h]) /\ ~NameTaken(creds[h], id, n)
        /\ ~(wanted /\ ~old.default /\ old.snmp)
        /\ Commit(h, Put(creds[h], id, c))
    BY DEF UpdateMetadata
  <1>2. old \in Credential /\ (old.default => ~old.snmp)
    BY <1>1, Tables, StoredIsCredential DEF Sound
  <1> HIDE DEF old
  <1>3. /\ c \in Credential /\ c.name = n /\ c.snmp = old.snmp
        /\ c.default => old.default \/ wanted
    BY <1>2 DEF Merged, Credential
  <1> HIDE DEF c
  <1>4. Put(creds[h], id, c) \in Table /\ Sound(Put(creds[h], id, c))
    BY <1>1, <1>2, <1>3, Tables, PutSound
  <1> QED BY <1>1, <1>4, CommitKeeps

\* The record renamed is the one read then; the rules are checked on the table now.
LEMMA RenameKeeps ==
  ASSUME IInv, NEW h \in Handles, Rename(h)
  PROVE  IInv'
  <1> DEFINE id == task[h].id
             c == task[h].cred
  <1>1. id \in Ids /\ c \in Credential /\ task \in [Handles -> Reads]
    BY Tables DEF Rename, Reads, Idle
  <1>2. CASE Unlocked(h) /\ CanUpdate(h, id, c) /\ Save(h, key[h], Put(creds[h], id, c))
    <2>1. Put(creds[h], id, c) \in Table /\ Sound(Put(creds[h], id, c))
      BY <1>1, <1>2, Tables, PutSound DEF CanUpdate
    <2>2. key[h] \in Masters
      BY <1>2 DEF Unlocked, IInv, TableIsSound, TypeOK
    <2>3. Done(h)
      BY DEF Rename
    <2> QED BY <1>2, <2>1, <2>2, <2>3, ChangeKeeps
  <1>3. CASE UNCHANGED <<table, keyring>>
    <2>1. /\ task' \in [Handles -> Reads]
          /\ \A g \in Handles : task'[g] = task[g] \/ task'[g] = Idle
      BY <1>1 DEF Rename, Done, Reads
    <2>2. UNCHANGED <<file, key, creds, saves, synced, resealed, keyring>>
      BY <1>3 DEF table
    <2>3. TypeOK' /\ MemoryIsFile' /\ EntryOpensVault'
      BY <2>1, <2>2 DEF IInv, TableIsSound, TypeOK, MemoryIsFile, Unlocked, EntryOpensVault
    <2>4. TableIsSound'
      BY <2>2, <2>3 DEF IInv, TableIsSound
    <2>5. \A g \in Handles : ReadHolds(g)'
      BY <2>1, <2>2 DEF IInv, ReadsHold, ReadHolds, Idle
    <2> QED BY <2>3, <2>4, <2>5 DEF IInv, ReadsHold
  <1> QED BY <1>2, <1>3 DEF Rename

LEMMA DeleteKeeps ==
  ASSUME IInv, NEW h \in Handles, NEW id \in Ids, Delete(h, id)
  PROVE  IInv'
BY Tables, DeleteSound, CommitKeeps DEF Delete

LEMMA DefaultKeeps ==
  ASSUME IInv, NEW h \in Handles, ClearDefault(h) \/ \E id \in Ids : SetDefault(h, id)
  PROVE  IInv'
  <1>1. CASE ClearDefault(h)
    BY <1>1, Tables, NoDefaultSound, CommitKeeps DEF ClearDefault
  <1>2. ASSUME NEW id \in Ids, SetDefault(h, id)
        PROVE  IInv'
    <2>1. Marked(creds[h], id) \in Table /\ Sound(Marked(creds[h], id))
      BY <1>2, Tables, MarkedSound DEF SetDefault
    <2> QED BY <1>2, <2>1, CommitKeeps DEF SetDefault
  <1> QED BY <1>1, <1>2

LEMMA SetDisabledKeeps ==
  ASSUME IInv, NEW h \in Handles, NEW id \in Ids, NEW off \in BOOLEAN, SetDisabled(h, id, off)
  PROVE  IInv'
  <1> DEFINE t == [creds[h] EXCEPT ![id].disabled = off]
  <1>1. t \in Table /\ Sound(t)
    BY Tables, DisabledSound DEF SetDisabled
  <1> QED BY <1>1, CommitKeeps DEF SetDisabled

-----------------------------------------------------------------------------
(* The invariant.                                                          *)

LEMMA FinishingKeeps ==
  ASSUME IInv, NEW h \in Handles, Finishing(h)
  PROVE  IInv'
BY CreateKeeps, UnlockKeeps, KeyringKeeps, LockKeeps DEF Finishing

LEMMA CommandKeeps ==
  ASSUME IInv, NEW h \in Handles, Command(h)
  PROVE  IInv'
  <1>1. CASE CommandInit(h)
    BY <1>1, CreateLooksKeeps DEF CommandInit
  <1>2. CASE CommandOpens(h) \/ CommandKeyring(h)
    BY <1>2, UnlockReadsKeeps DEF CommandOpens, CommandKeyring, UnlockQuiet
  <1>3. CASE Finishing(h)
    BY <1>3, FinishingKeeps
  <1>4. ASSUME NEW id \in Ids, CommandAdd(h, id) \/ CommandDefault(h, id) \/ CommandChanges(h, id)
        PROVE  IInv'
    BY <1>4, AddKeeps, DefaultKeeps, DeleteKeeps, SetDisabledKeeps
      DEF CommandAdd, CommandDefault, CommandChanges
  <1> QED BY <1>1, <1>2, <1>3, <1>4 DEF Command

LEMMA WindowOpensKeeps ==
  ASSUME IInv, NEW h \in Handles, WindowOpens(h)
  PROVE  IInv'
BY UnlockReadsKeeps, FinishingKeeps, RekeyKeeps, CreateLooksKeeps, RekeyReadsKeeps
  DEF WindowOpens, UnlockQuiet

LEMMA WindowEditsKeeps ==
  ASSUME IInv, NEW h \in Handles, WindowEdits(h)
  PROVE  IInv'
  <1>1. CASE Rename(h) \/ SetDefaultUnknown(h) \/ ClearDefault(h)
    BY <1>1, RenameKeeps, SetDefaultUnknownKeeps, DefaultKeeps
  <1>2. ASSUME NEW id \in Ids, Delete(h, id) \/ SetDefault(h, id) \/ \E off \in BOOLEAN : SetDisabled(h, id, off)
        PROVE  IInv'
    BY <1>2, DeleteKeeps, DefaultKeeps, SetDisabledKeeps
  <1>3. ASSUME NEW id \in Ids, NEW c \in Forms, Store(h, id, c)
        PROVE  IInv'
    <2>1. c \in Credential
      BY DEF Forms
    <2> QED BY <1>3, <2>1, AddKeeps, UpdateKeeps DEF Store
  <1>4. ASSUME NEW id \in Ids, NEW n \in Names, RenameReads(h, id, n)
        PROVE  IInv'
    BY <1>4, RenameReadsKeeps
  <1>5. ASSUME NEW id \in Ids, NEW n \in Names, NEW wanted \in BOOLEAN, NEW off \in BOOLEAN,
               UpdateMetadata(h, id, n, wanted, off)
        PROVE  IInv'
    BY <1>5, UpdateMetadataKeeps
  <1> QED BY <1>1, <1>2, <1>3, <1>4, <1>5 DEF WindowEdits

LEMMA VaultStarts ==
  ASSUME Init
  PROVE  IInv
  <1>1. NoFile \in [master: Masters \cup {None}, creds: Table] /\ Sound(NoFile.creds)
    BY EmptySound DEF NoFile
  <1>2. file \in [master: Masters \cup {None}, creds: Table] /\ Sound(file.creds)
    BY <1>1, FoundAssumption DEF Init
  <1>3. Idle \in Reads /\ Idle.op = "idle"
    BY DEF Reads, Idle
  <1>4. TypeOK
    <2>1. saves \in 0..MaxSaves
      BY SavesAssumption DEF Init
    <2>2. /\ key \in [Handles -> Masters \cup {None}] /\ creds \in [Handles -> Table]
          /\ task \in [Handles -> Reads] /\ synced \in [Handles -> BOOLEAN]
      BY <1>3, EmptySound DEF Init
    <2> QED BY <1>2, <2>1, <2>2 DEF Init, TypeOK
  <1>5. TableIsSound
    BY <1>2, <1>4, EmptySound DEF Init, TableIsSound
  <1>6. MemoryIsFile /\ EntryOpensVault /\ ReadsHold
    BY <1>3 DEF Init, MemoryIsFile, Unlocked, EntryOpensVault, ReadsHold, ReadHolds
  <1> QED BY <1>5, <1>6 DEF IInv

LEMMA VaultSteps ==
  ASSUME IInv, [Next]_vars
  PROVE  IInv'
  <1>1. ASSUME NEW h \in Commands, Command(h)
        PROVE  IInv'
    BY <1>1, CommandKeeps DEF Handles
  <1>2. ASSUME NEW h \in Windows, WindowOpens(h) \/ WindowEdits(h)
        PROVE  IInv'
    BY <1>2, WindowOpensKeeps, WindowEditsKeeps DEF Handles
  <1>3. CASE KeyringClear
    BY <1>3, KeyringKeeps
  <1>4. CASE UNCHANGED vars
    <2>1. UNCHANGED <<file, key, creds, task, keyring, saves, synced, resealed>>
      BY <1>4 DEF vars
    <2>2. TableIsSound' /\ MemoryIsFile'
      BY <2>1 DEF IInv, TableIsSound, TypeOK, MemoryIsFile, Unlocked
    <2>3. EntryOpensVault' /\ ReadsHold'
      BY <2>1 DEF IInv, EntryOpensVault, ReadsHold, ReadHolds
    <2> QED BY <2>2, <2>3 DEF IInv
  <1> QED BY <1>1, <1>2, <1>3, <1>4 DEF Next

LEMMA VaultInvariant == Spec => []IInv
  <1>1. Init => IInv
    BY VaultStarts
  <1>2. IInv /\ [Next]_vars => IInv'
    BY VaultSteps
  <1> QED BY <1>1, <1>2, PTL DEF Spec

-----------------------------------------------------------------------------
(* What it is for.                                                         *)

\* In the file and in every handle, a name is one credential's, at most one
\* credential is the default, and it is not SNMP, whichever calls of how many
\* programs interleave (checkNameLocked, clearDefaultLocked and their callers).
THEOREM TablesAreSound == Spec => []TableIsSound
  <1>1. IInv => TableIsSound
    BY DEF IInv
  <1> QED BY <1>1, VaultInvariant, PTL

\* A handle works on what the file holds, under the key that opens it, if its last
\* save was written, no other program has saved since, and no save of anybody came
\* between the read and the install of the unlock it owes its table to (saveLocked,
\* Unlock).
THEOREM MemoryMatchesFile == Spec => []MemoryIsFile
  <1>1. IInv => MemoryIsFile
    BY DEF IInv
  <1> QED BY <1>1, VaultInvariant, PTL

\* The keyring's entry opens the vault as long as its master is not replaced
\* (vaultcli and capi/vault.go file a password only after it has opened it).
THEOREM KeyringOpensVault == Spec => []EntryOpensVault
  <1>1. IInv => EntryOpensVault
    BY DEF IInv
  <1> QED BY <1>1, VaultInvariant, PTL

-----------------------------------------------------------------------------
(* The ladders.                                                            *)

Busy == Cardinality(Walking) <= Workers

Distinct ==
  \A v \in Visits : \A m, n \in DOMAIN offers[v] :
    offers[v][m] = offers[v][n] => m = n

ResolverInv == ResolverTypeOK /\ Distinct /\ Busy /\ BreakerHolds

-----------------------------------------------------------------------------

LEMMA Finite ==
  ASSUME NEW S, S \subseteq Visits \/ S \subseteq Identities \/ S \subseteq Creds
  PROVE  IsFiniteSet(S) /\ Cardinality(S) \in Nat
BY VisitsAssumption, FS_Subset, FS_CardinalityType

LEMMA Smaller ==
  ASSUME NEW S, NEW U, U \subseteq Visits \/ U \subseteq Identities, S \subseteq U
  PROVE  Cardinality(S) \in Nat /\ Cardinality(U) \in Nat /\ Cardinality(S) <= Cardinality(U)
  <1>1. IsFiniteSet(U) /\ Cardinality(U) \in Nat /\ Cardinality(S) \in Nat
    BY Finite
  <1> QED BY <1>1, FS_Subset

LEMMA OneMore ==
  ASSUME NEW S, NEW x, S \subseteq Visits \/ S \subseteq Identities
  PROVE  /\ Cardinality(S) \in Nat
         /\ Cardinality(S \cup {x}) \in Nat
         /\ Cardinality(S \cup {x}) <= Cardinality(S) + 1
         /\ x \in S => Cardinality(S \ {x}) = Cardinality(S) - 1
  <1>1. IsFiniteSet(S) /\ Cardinality(S) \in Nat
    BY Finite
  <1>2. /\ Cardinality(S \cup {x}) \in Nat
        /\ x \in S => Cardinality(S \cup {x}) = Cardinality(S)
        /\ x \notin S => Cardinality(S \cup {x}) = Cardinality(S) + 1
    BY <1>1, FS_AddElement, FS_CardinalityType
  <1>3. Cardinality(S \cup {x}) <= Cardinality(S) + 1
    BY <1>1, <1>2
  <1>4. x \in S => Cardinality(S \ {x}) = Cardinality(S) - 1
    BY <1>1, FS_RemoveElement
  <1> QED BY <1>1, <1>2, <1>3, <1>4

\* What one list gives way to: nothing, or its tail.
LEMMA TailOffers ==
  ASSUME ResolverTypeOK, Distinct, NEW v \in Visits, offers[v] # <<>>
  PROVE  LET t == Tail(offers[v]) IN
         /\ t \in Seq(Creds)
         /\ \A m, n \in DOMAIN t : t[m] = t[n] => m = n
         /\ \A n \in DOMAIN t : t[n] # Head(offers[v])
                             /\ \E k \in DOMAIN offers[v] : offers[v][k] = t[n]
         /\ t = <<>> <=> Len(offers[v]) = 1
         /\ Head(offers[v]) \in Creds
  <1> DEFINE o == offers[v]
             t == Tail(o)
  <1>1. o \in Seq(Creds) /\ o # <<>> /\ Len(o) \in Nat /\ Len(o) >= 1
    BY DEF ResolverTypeOK
  <1>2. \A m, n \in DOMAIN o : o[m] = o[n] => m = n
    BY DEF Distinct
  <1> HIDE DEF o
  <1>3. /\ t \in Seq(Creds) /\ Len(t) = Len(o) - 1
        /\ DOMAIN t = 1..(Len(o) - 1) /\ DOMAIN o = 1..Len(o)
        /\ \A n \in DOMAIN t : t[n] = o[n + 1]
        /\ Head(o) = o[1] /\ o[1] \in Creds
    BY <1>1
  <1>4. \A n \in DOMAIN t : n + 1 \in DOMAIN o /\ n + 1 # 1 /\ n \in Nat
    BY <1>1, <1>3
  <1>5. \A m, n \in DOMAIN t : t[m] = t[n] => m = n
    BY <1>2, <1>3, <1>4
  <1>6. \A n \in DOMAIN t : t[n] # Head(o) /\ \E k \in DOMAIN o : o[k] = t[n]
    BY <1>1, <1>2, <1>3, <1>4
  <1>7. t = <<>> <=> Len(o) = 1
    <2>1. t = <<>> <=> Len(t) = 0
      BY <1>3, EmptySeq
    <2> QED BY <2>1, <1>1, <1>3
  <1> QED BY <1>3, <1>5, <1>6, <1>7 DEF o

\* Any attempt leaves the walks shorter, and the one that made it without the
\* credential it tried.
Shortened(v, c) ==
  /\ offers' \in [Visits -> Seq(Creds)]
  /\ Distinct'
  /\ \A d \in Creds : Holding(d)' \subseteq Holding(d)
  /\ v \in Holding(c) /\ v \notin Holding(c)'
  /\ Walking' \subseteq Walking
  /\ phase' \in [Visits -> Phases]
  /\ \A w \in Visits : phase'[w] = "walking" <=> offers'[w] # <<>>

LEMMA HeadHeld ==
  ASSUME ResolverTypeOK, NEW v \in Visits, phase[v] = "walking"
  PROVE  offers[v] # <<>> /\ Head(offers[v]) \in Creds /\ v \in Holding(Head(offers[v]))
  <1>1. offers[v] \in Seq(Creds) /\ offers[v] # <<>>
    BY DEF ResolverTypeOK
  <1>2. 1 \in DOMAIN offers[v] /\ Head(offers[v]) = offers[v][1] /\ offers[v][1] \in Creds
    BY <1>1
  <1> QED BY <1>1, <1>2 DEF Holding

LEMMA EndWalkShortens ==
  ASSUME ResolverTypeOK, Distinct, NEW v \in Visits, phase[v] = "walking",
         NEW c, c = Head(offers[v]), NEW result \in {"in", "out"}, EndWalk(v, result)
  PROVE  Shortened(v, c)
  <1>0. /\ offers \in [Visits -> Seq(Creds)] /\ phase \in [Visits -> Phases]
        /\ \A w \in Visits : phase[w] = "walking" <=> offers[w] # <<>>
    BY DEF ResolverTypeOK
  <1>1. /\ offers' = [offers EXCEPT ![v] = <<>>]
        /\ phase' = [phase EXCEPT ![v] = result]
        /\ result \in Phases /\ result # "walking"
    BY DEF EndWalk, Phases
  <1>2. DOMAIN <<>> = {} /\ <<>> \in Seq(Creds)
    OBVIOUS
  <1>3. Distinct'
    BY <1>0, <1>1, <1>2 DEF Distinct
  <1>4. /\ \A d \in Creds : Holding(d)' \subseteq Holding(d)
        /\ v \notin Holding(c)'
    BY <1>0, <1>1, <1>2 DEF Holding
  <1>5. Walking' \subseteq Walking
    BY <1>0, <1>1 DEF Walking
  <1> QED BY <1>0, <1>1, <1>2, <1>3, <1>4, <1>5, HeadHeld DEF Shortened

LEMMA NextRungShortens ==
  ASSUME ResolverTypeOK, Distinct, NEW v \in Visits, phase[v] = "walking",
         NEW c, c = Head(offers[v]), NextRung(v)
  PROVE  Shortened(v, c)
  <1> DEFINE t == Tail(offers[v])
  <1>0. /\ offers \in [Visits -> Seq(Creds)] /\ phase \in [Visits -> Phases]
        /\ \A w \in Visits : phase[w] = "walking" <=> offers[w] # <<>>
        /\ offers[v] # <<>>
    BY DEF ResolverTypeOK
  <1>1. /\ t \in Seq(Creds)
        /\ \A m, n \in DOMAIN t : t[m] = t[n] => m = n
        /\ \A n \in DOMAIN t : t[n] # c /\ \E k \in DOMAIN offers[v] : offers[v][k] = t[n]
        /\ t = <<>> <=> Len(offers[v]) = 1
    BY <1>0, TailOffers
  <1>2. /\ offers' = [offers EXCEPT ![v] = t]
        /\ phase' = [phase EXCEPT ![v] = IF Len(offers[v]) = 1 THEN "out" ELSE @]
    BY DEF NextRung
  <1>6. v \in Holding(c)
    BY HeadHeld
  <1> HIDE DEF t
  <1>3. Distinct'
    BY <1>0, <1>1, <1>2 DEF Distinct
  <1>4. /\ \A d \in Creds : Holding(d)' \subseteq Holding(d)
        /\ v \notin Holding(c)'
    <2>1. offers'[v] = t /\ \A w \in Visits \ {v} : offers'[w] = offers[w]
      BY <1>0, <1>2
    <2>2. \A w \in Visits : \A n \in DOMAIN offers'[w] :
            \E k \in DOMAIN offers[w] : offers[w][k] = offers'[w][n]
      BY <2>1, <1>1
    <2>3. \A d \in Creds : Holding(d)' \subseteq Holding(d)
      BY <2>2 DEF Holding
    <2>4. v \notin Holding(c)'
      BY <2>1, <1>1 DEF Holding
    <2> QED BY <2>3, <2>4
  <1>5. /\ Walking' \subseteq Walking
        /\ phase' \in [Visits -> Phases]
        /\ \A w \in Visits : phase'[w] = "walking" <=> offers'[w] # <<>>
    BY <1>0, <1>1, <1>2 DEF Walking, Phases
  <1>7. offers' \in [Visits -> Seq(Creds)]
    BY <1>0, <1>1, <1>2
  <1> QED BY <1>3, <1>4, <1>5, <1>6, <1>7 DEF Shortened

\* The visits that hold a credential are walking.
LEMMA HoldersWalk ==
  ASSUME ResolverTypeOK, NEW c
  PROVE  Holding(c) \subseteq Walking
  <1>1. DOMAIN <<>> = {}
    OBVIOUS
  <1> QED BY <1>1 DEF ResolverTypeOK, Holding, Walking

\* A credential's place in the static order is a number.
LEMMA RankIsNat ==
  ASSUME NEW c \in Creds
  PROVE  Rank[c] \in Nat
  <1>1. {d \in Creds : Before(d, c)} \subseteq Creds
    OBVIOUS
  <1>2. Cardinality({d \in Creds : Before(d, c)}) \in Nat
    BY <1>1, Finite
  <1> QED BY <1>2 DEF Rank

\* A walk that starts takes no parked credential in hand.
LEMMA StartKeeps ==
  ASSUME ResolverInv, NEW v \in Visits, StartWalk(v)
  PROVE  ResolverInv'
  <1>0. /\ offers \in [Visits -> Seq(Creds)] /\ phase \in [Visits -> Phases]
        /\ \A w \in Visits : phase[w] = "walking" <=> offers[w] # <<>>
        /\ rejects \in [Creds -> SUBSET Identities] /\ parked \in SUBSET Creds
    BY DEF ResolverInv, ResolverTypeOK
  <1> DEFINE size == Shorter(MaxPerHost, Cardinality(Offerable(v)))
  <1>1. PICK pin \in Pinned(v) : \E list \in [1..size -> Offerable(v)] :
          /\ offers' = [offers EXCEPT ![v] = list]
          /\ \A m, n \in 1..size : m < n => Place(list[m], pin) < Place(list[n], pin)
    BY DEF StartWalk, Candidates
  <1>l. PICK list \in [1..size -> Offerable(v)] :
          /\ offers' = [offers EXCEPT ![v] = list]
          /\ \A m, n \in 1..size : m < n => Place(list[m], pin) < Place(list[n], pin)
    BY <1>1
  <1>2. /\ phase[v] = "waiting" /\ Cardinality(Walking) < Workers
        /\ phase' = [phase EXCEPT ![v] = "walking"] /\ UNCHANGED learned
    BY DEF StartWalk
  <1>3. Offerable(v) \subseteq Creds \ parked /\ Offerable(v) # {}
    BY DEF Offerable, Allowed, StartWalk
  <1>4. size \in Nat /\ size >= 1
    <2>1. IsFiniteSet(Offerable(v)) /\ Cardinality(Offerable(v)) \in Nat
      BY <1>3, Finite
    <2>2. Cardinality(Offerable(v)) # 0
      BY <1>3, <2>1, FS_EmptySet
    <2> QED BY <2>1, <2>2, LimitsAssumption DEF Shorter
  <1>5. \A c \in Creds : Place(c, pin) \in Int
    BY RankIsNat DEF Place
  <1>6. \A m, n \in 1..size : list[m] = list[n] => m = n
    <2> SUFFICES ASSUME NEW m \in 1..size, NEW n \in 1..size, list[m] = list[n], m # n
                 PROVE  FALSE
      OBVIOUS
    <2>1. Place(list[m], pin) \in Int
      BY <1>3, <1>5
    <2>2. m < n \/ n < m
      BY <1>4
    <2> HIDE DEF size
    <2> QED BY <1>l, <2>1, <2>2
  <1> HIDE DEF size
  <1>7. list \in Seq(Creds) /\ DOMAIN list = 1..size /\ list # <<>>
    <2>1. list \in [1..size -> Creds]
      BY <1>3
    <2>2. list \in Seq(Creds) /\ Len(list) = size
      BY <2>1, <1>4, IsASeq
    <2> QED BY <2>1, <2>2, <1>4, EmptySeq
  <1>8. offers'[v] = list /\ \A w \in Visits \ {v} : offers'[w] = offers[w]
    BY <1>0, <1>l
  <1>9. ResolverTypeOK'
    <2>1. offers' \in [Visits -> Seq(Creds)]
      BY <1>0, <1>l, <1>7
    <2>2. /\ phase' \in [Visits -> Phases]
          /\ \A w \in Visits : phase'[w] = "walking" <=> offers'[w] # <<>>
      BY <1>0, <1>2, <1>7, <1>8 DEF Phases
    <2> QED BY <2>1, <2>2, <1>2 DEF ResolverInv, ResolverTypeOK, learned, books, store
  <1>10. Distinct'
    BY <1>6, <1>7, <1>8 DEF ResolverInv, Distinct
  <1>11. Busy'
    <2>1. Walking' \subseteq Walking \cup {v}
      BY <1>0, <1>2 DEF Walking
    <2>2. Walking \subseteq Visits /\ Walking \cup {v} \subseteq Visits
      BY DEF Walking
    <2>3. Cardinality(Walking') <= Cardinality(Walking \cup {v})
          /\ Cardinality(Walking') \in Nat
      BY <2>1, <2>2, Smaller
    <2>4. /\ Cardinality(Walking) \in Nat /\ Cardinality(Walking \cup {v}) \in Nat
          /\ Cardinality(Walking \cup {v}) <= Cardinality(Walking) + 1
      BY <2>2, OneMore
    <2> QED BY <2>3, <2>4, <1>2, LimitsAssumption DEF Busy
  <1>12. BreakerHolds'
    <2> SUFFICES ASSUME NEW c \in Creds
                 PROVE  IF c \in parked'
                        THEN Cardinality(rejects'[c]) + Cardinality(Holding(c)')
                               <= Threshold + Workers - 1
                        ELSE Cardinality(rejects'[c]) < Threshold
      BY DEF BreakerHolds
    <2>1. parked' = parked /\ rejects' = rejects
      BY <1>2 DEF learned, books
    <2>2. CASE c \notin parked
      BY <2>1, <2>2 DEF ResolverInv, BreakerHolds
    <2>3. CASE c \in parked
      <3>1. \A n \in DOMAIN offers'[v] : offers'[v][n] # c
        BY <1>3, <1>7, <1>8, <2>3
      <3>2. Holding(c)' \subseteq Holding(c) /\ Holding(c) \subseteq Visits
        BY <3>1, <1>8 DEF Holding
      <3>3. /\ Cardinality(Holding(c)') <= Cardinality(Holding(c))
            /\ Cardinality(Holding(c)') \in Nat /\ Cardinality(Holding(c)) \in Nat
        BY <3>2, Smaller
      <3>4. Cardinality(rejects[c]) \in Nat
        BY <1>0, Finite
      <3>5. Cardinality(rejects[c]) + Cardinality(Holding(c)) <= Threshold + Workers - 1
        BY <2>3 DEF ResolverInv, BreakerHolds
      <3> QED BY <2>1, <2>3, <3>3, <3>4, <3>5, LimitsAssumption
    <2> QED BY <2>2, <2>3
  <1> QED BY <1>9, <1>10, <1>11, <1>12 DEF ResolverInv

\* An attempt with c touches the books of c alone, and gives c up.
LEMMA AttemptBooks ==
  ASSUME ResolverInv, NEW v \in Visits, phase[v] = "walking", NEW c \in Creds, Shortened(v, c),
         rejects' \in [Creds -> SUBSET Identities],
         \A d \in Creds : d # c => rejects'[d] = rejects[d] /\ (d \in parked' <=> d \in parked),
         NEW i,
         \/ rejects'[c] \in {rejects[c], {}} /\ parked' = parked
         \/ rejects'[c] = rejects[c] /\ parked' = parked \cup {c}
         \/ /\ rejects'[c] = rejects[c] \cup {i}
            /\ parked' = parked \cup Trip(c, rejects[c] \cup {i})
  PROVE  Busy' /\ BreakerHolds'
  <1>0. ResolverTypeOK /\ rejects \in [Creds -> SUBSET Identities]
    BY DEF ResolverInv, ResolverTypeOK
  <1>1. /\ Walking \subseteq Visits /\ Walking' \subseteq Walking
        /\ Cardinality(Walking) \in Nat /\ Cardinality(Walking') \in Nat
        /\ Cardinality(Walking') <= Cardinality(Walking)
        /\ Cardinality(Walking) <= Workers
    <2>1. Walking \subseteq Visits /\ Walking' \subseteq Walking
      BY DEF Walking, Shortened
    <2> QED BY <2>1, Smaller DEF ResolverInv, Busy
  <1>2. Busy'
    BY <1>1, LimitsAssumption DEF Busy
  <1>3. ASSUME NEW d \in Creds
        PROVE  /\ Cardinality(rejects[d]) \in Nat /\ Cardinality(rejects'[d]) \in Nat
               /\ Cardinality(Holding(d)) \in Nat /\ Cardinality(Holding(d)') \in Nat
               /\ Cardinality(Holding(d)') <= Cardinality(Holding(d))
    <2>1. Holding(d)' \subseteq Holding(d) /\ Holding(d) \subseteq Visits
      BY DEF Shortened, Holding
    <2>2. rejects[d] \subseteq Identities /\ rejects'[d] \subseteq Identities
      BY <1>0
    <2> QED BY <2>1, <2>2, Smaller, Finite
  <1>4. ASSUME NEW d \in Creds
        PROVE  IF d \in parked
               THEN Cardinality(rejects[d]) + Cardinality(Holding(d)) <= Threshold + Workers - 1
               ELSE Cardinality(rejects[d]) < Threshold
    BY DEF ResolverInv, BreakerHolds
  \* c is given up by v, which was walking.
  <1>5. /\ Cardinality(Holding(c)') <= Cardinality(Holding(c)) - 1
        /\ Cardinality(Holding(c)') <= Workers - 1
    <2>1. Holding(c) \subseteq Walking /\ Holding(c)' \subseteq Holding(c) \ {v}
      BY <1>0, HoldersWalk DEF Shortened
    <2>2. Holding(c) \subseteq Visits /\ v \in Holding(c) /\ v \in Walking
      BY <2>1, <1>1 DEF Shortened
    <2>3. Cardinality(Holding(c) \ {v}) = Cardinality(Holding(c)) - 1
      BY <2>2, OneMore
    <2>4. Cardinality(Walking \ {v}) = Cardinality(Walking) - 1
      BY <2>2, <1>1, OneMore
    <2>5. Cardinality(Holding(c)') <= Cardinality(Holding(c) \ {v})
      <3>1. Holding(c) \ {v} \subseteq Visits
        BY <2>2
      <3> QED BY <3>1, <2>1, Smaller
    <2>6. Cardinality(Holding(c)') <= Cardinality(Walking \ {v})
      <3>1. Walking \ {v} \subseteq Visits /\ Holding(c)' \subseteq Walking \ {v}
        BY <2>1, <1>1
      <3> QED BY <3>1, Smaller
    <2> QED BY <2>3, <2>4, <2>5, <2>6, <1>1, <1>3, LimitsAssumption
  <1>6. SUFFICES ASSUME NEW d \in Creds
                 PROVE  IF d \in parked'
                        THEN Cardinality(rejects'[d]) + Cardinality(Holding(d)')
                               <= Threshold + Workers - 1
                        ELSE Cardinality(rejects'[d]) < Threshold
    BY <1>2 DEF BreakerHolds
  <1>7. CASE d # c
    BY <1>3, <1>4, <1>7, LimitsAssumption
  <1>8. CASE d = c /\ rejects'[c] = rejects[c] /\ parked' = parked
    BY <1>3, <1>4, <1>8, LimitsAssumption
  <1>9. CASE d = c /\ rejects'[c] = {} /\ parked' = parked
    <2>1. Cardinality(rejects'[c]) = 0
      BY <1>9, FS_EmptySet
    <2> QED BY <2>1, <1>3, <1>5, <1>9, LimitsAssumption
  <1>10. CASE d = c /\ rejects'[c] = rejects[c] /\ parked' = parked \cup {c}
    <2>1. CASE c \in parked
      BY <2>1, <1>3, <1>4, <1>10, LimitsAssumption
    <2>2. CASE c \notin parked
      BY <2>2, <1>3, <1>4, <1>5, <1>10, LimitsAssumption
    <2> QED BY <2>1, <2>2
  <1>11. CASE /\ d = c /\ rejects'[c] = rejects[c] \cup {i}
              /\ parked' = parked \cup Trip(c, rejects[c] \cup {i})
    <2>1. Cardinality(rejects'[c]) <= Cardinality(rejects[c]) + 1
      BY <1>0, <1>11, OneMore
    <2>2. /\ Cardinality(rejects[c]) \in Nat /\ Cardinality(rejects'[c]) \in Nat
          /\ Cardinality(Holding(c)) \in Nat /\ Cardinality(Holding(c)') \in Nat
      BY <1>3
    <2>3. CASE c \in parked
      <3>1. Cardinality(rejects[c]) + Cardinality(Holding(c)) <= Threshold + Workers - 1
        BY <2>3, <1>4
      <3>2. Cardinality(rejects'[c]) + Cardinality(Holding(c)') <= Threshold + Workers - 1
        BY <3>1, <2>1, <2>2, <1>5, LimitsAssumption
      <3> QED BY <3>2, <2>3, <1>11
    <2>4. CASE c \notin parked
      <3>1. c \in parked' <=> Cardinality(rejects'[c]) >= Threshold
        BY <2>4, <1>11 DEF Trip
      <3>2. Cardinality(rejects[c]) < Threshold
        BY <2>4, <1>4
      <3>3. Cardinality(rejects'[c]) + Cardinality(Holding(c)') <= Threshold + Workers - 1
        BY <3>2, <2>1, <2>2, <1>5, LimitsAssumption
      <3> QED BY <3>1, <3>3, <2>2, <1>11, LimitsAssumption
    <2> QED BY <2>3, <2>4
  <1> QED BY <1>7, <1>8, <1>9, <1>10, <1>11

\* The records are sound: a record is called by one of its names.
StoreOK ==
  /\ index \in [Identities -> Identities \cup {NoRecord}]
  /\ \A i \in Identities : index[i] # NoRecord => index[index[i]] = index[i]
  /\ bound \in [Identities -> Creds \cup {NoCred}]
  /\ vouched \in [Identities -> SUBSET Identities]

\* Joining records leaves the others as they are, with the names they had, and
\* gives the joined ones' names to one record.
MergedInto(own, names, pin, who) ==
  /\ index'[own] = own /\ bound'[own] = pin /\ vouched'[own] = who
  /\ \A n \in names : index'[n] = own
  /\ \A n \in names : index[n] # NoRecord =>
       \A i \in Identities : index[i] = index[n] => index'[i] = own
  /\ \A r \in Identities \ {own} : bound'[r] # NoCred =>
       /\ bound'[r] = bound[r] /\ vouched'[r] = vouched[r]
       /\ \A i \in Identities : index[i] = r => index'[i] = r

LEMMA MergeJoins ==
  ASSUME StoreOK, NEW own \in Identities, NEW names \in SUBSET Identities, own \in names,
         NEW pin \in Creds \cup {NoCred}, NEW who \in SUBSET Identities,
         Merge(own, names, pin, who)
  PROVE  StoreOK' /\ MergedInto(own, names, pin, who)
  <1> DEFINE all == Joined(names)
  <1>1. /\ names \subseteq all /\ all \subseteq Identities
        /\ \A n \in names, i \in Identities :
             index[n] # NoRecord /\ index[i] = index[n] => i \in all
    BY DEF Joined
  <1>2. ASSUME NEW i \in all, index[i] # NoRecord
        PROVE  index[i] \in all
    <2>1. PICK n \in names : index[n] = index[i] /\ index[n] # NoRecord
      BY <1>2 DEF Joined
    <2>2. index[i] \in Identities /\ index[index[i]] = index[n]
      BY <1>1, <1>2, <2>1 DEF StoreOK
    <2> QED BY <1>1, <2>1, <2>2
  <1>3. /\ index' = [i \in Identities |-> IF i \in all THEN own ELSE index[i]]
        /\ bound' = [r \in Identities |-> IF r = own THEN pin
                                         ELSE IF r \in all THEN NoCred ELSE bound[r]]
        /\ vouched' = [r \in Identities |-> IF r = own THEN who
                                           ELSE IF r \in all THEN {} ELSE vouched[r]]
    BY DEF Merge
  <1>4. own \in all
    BY <1>1
  \* A name outside keeps a record that is outside as well.
  <1>5. ASSUME NEW i \in Identities, i \notin all, index[i] # NoRecord
        PROVE  index[i] \in Identities /\ index[i] \notin all
    <2>1. index[i] \in Identities /\ index[index[i]] = index[i]
      BY <1>5 DEF StoreOK
    <2>2. ASSUME index[i] \in all PROVE FALSE
      <3>1. CASE index[i] \in names
        BY <3>1, <2>1, <1>1, <1>5
      <3>2. CASE index[i] \notin names
        <4>1. PICK n \in names : index[n] # NoRecord /\ index[index[i]] = index[n]
          BY <2>2, <3>2 DEF Joined
        <4> QED BY <4>1, <2>1, <1>1, <1>5
      <3> QED BY <3>1, <3>2
    <2> QED BY <2>1, <2>2
  <1> HIDE DEF all
  <1>6. StoreOK'
    <2>1. /\ index' \in [Identities -> Identities \cup {NoRecord}]
          /\ bound' \in [Identities -> Creds \cup {NoCred}]
          /\ vouched' \in [Identities -> SUBSET Identities]
      BY <1>3 DEF StoreOK
    <2>2. ASSUME NEW i \in Identities, index'[i] # NoRecord
          PROVE  index'[index'[i]] = index'[i]
      <3>1. CASE i \in all
        BY <3>1, <1>3, <1>4
      <3>2. CASE i \notin all
        <4>1. index'[i] = index[i] /\ index[i] # NoRecord
          BY <3>2, <2>2, <1>3
        <4>2. index[i] \in Identities /\ index[i] \notin all /\ index[index[i]] = index[i]
          BY <4>1, <3>2, <1>5 DEF StoreOK
        <4> QED BY <4>1, <4>2, <1>3
      <3> QED BY <3>1, <3>2
    <2> QED BY <2>1, <2>2 DEF StoreOK
  <1>7. \A n \in names : index[n] # NoRecord =>
          \A i \in Identities : index[i] = index[n] => index'[i] = own
    BY <1>1, <1>3
  <1>8. ASSUME NEW r \in Identities \ {own}, bound'[r] # NoCred
        PROVE  /\ bound'[r] = bound[r] /\ vouched'[r] = vouched[r]
               /\ \A i \in Identities : index[i] = r => index'[i] = r
    <2>1. r \notin all /\ bound'[r] = bound[r] /\ vouched'[r] = vouched[r]
      BY <1>3, <1>8
    <2>2. ASSUME NEW i \in Identities, index[i] = r PROVE i \notin all
      BY <2>1, <2>2, <1>2, NamesAssumption
    <2> QED BY <2>1, <2>2, <1>3
  <1> QED BY <1>1, <1>3, <1>4, <1>6, <1>7, <1>8 DEF MergedInto

\* What a visit looks up is a record, and its own name finds it if it has one.
LEMMA RecordsFound ==
  ASSUME StoreOK, NEW v \in Visits, NEW r \in RecordsOf(v)
  PROVE  r \in Identities
BY VisitsAssumption, NamesAssumption DEF StoreOK, RecordsOf

LEMMA ForgetKeepsStore ==
  ASSUME StoreOK, NEW v \in Visits, NEW c, Forget(v, c)
  PROVE  StoreOK'
  <1>1. CASE UNCHANGED store
    BY <1>1 DEF StoreOK, store
  <1>2. ASSUME NEW r \in RecordsOf(v), Unpin(r) PROVE StoreOK'
    BY <1>2, RecordsFound DEF StoreOK, Unpin
  <1> QED BY <1>1, <1>2 DEF Forget

LEMMA ShortenedType ==
  ASSUME NEW v, NEW c, Shortened(v, c),
         promoted' \in Creds \cup {NoCred}, negative' \in [Identities -> SUBSET Creds],
         rejects' \in [Creds -> SUBSET Identities], parked' \in SUBSET Creds, StoreOK'
  PROVE  ResolverTypeOK' /\ Distinct'
BY DEF Shortened, ResolverTypeOK, StoreOK

LEMMA AttemptKeeps ==
  ASSUME ResolverInv, NEW v \in Visits, Attempt(v)
  PROVE  ResolverInv'
  <1> DEFINE i == IdentityOf[v]
  <1>1. PICK c \in Creds : c = Head(offers[v])
    BY HeadHeld DEF ResolverInv, Attempt, Succeeds, Rejected, KeyMaterial, GivesUp
  <1>2. /\ ResolverTypeOK /\ Distinct /\ phase[v] = "walking"
        /\ promoted \in Creds \cup {NoCred} /\ negative \in [Identities -> SUBSET Creds]
        /\ rejects \in [Creds -> SUBSET Identities] /\ parked \in SUBSET Creds
        /\ StoreOK
    BY DEF ResolverInv, ResolverTypeOK, StoreOK, Attempt, Succeeds, Rejected, KeyMaterial, GivesUp
  <1>3. i \in Identities
    BY VisitsAssumption
  <1>4. Shortened(v, c)
    BY <1>1, <1>2, EndWalkShortens, NextRungShortens
       DEF Attempt, Succeeds, Rejected, KeyMaterial, GivesUp
  <1> HIDE DEF i
  <1>5. CASE Succeeds(v)
    <2>1. /\ rejects' = [rejects EXCEPT ![c] = {}]
          /\ negative' = [negative EXCEPT ![i] = {}]
          /\ promoted' = c /\ parked' = parked
          /\ Merge(i, BindingIDs[v], c, {i})
      BY <1>1, <1>5 DEF Succeeds, ReportSuccess, RecordLogin, i
    <2>s. StoreOK'
      BY <2>1, <1>2, <1>3, MergeJoins, NamesAssumption DEF i
    <2>2. ResolverTypeOK' /\ Distinct'
      BY <2>1, <2>s, <1>2, <1>3, <1>4, ShortenedType
    <2>3. Busy' /\ BreakerHolds'
      BY <2>1, <1>2, <1>4, AttemptBooks
    <2> QED BY <2>2, <2>3 DEF ResolverInv
  <1>6. CASE Rejected(v)
    <2>1. /\ rejects' = [rejects EXCEPT ![c] = rejects[c] \cup {i}]
          /\ negative' = [negative EXCEPT ![i] = @ \cup {c}]
          /\ parked' = parked \cup Trip(c, rejects[c] \cup {i})
          /\ Forget(v, c)
          /\ promoted' = promoted
      BY <1>1, <1>6 DEF Rejected, ReportRejected, i
    <2>2. Trip(c, rejects[c] \cup {i}) \subseteq {c}
      BY DEF Trip
    <2>3. /\ rejects' \in [Creds -> SUBSET Identities] /\ parked' \in SUBSET Creds
          /\ negative' \in [Identities -> SUBSET Creds]
          /\ StoreOK'
      BY <2>1, <2>2, <1>2, <1>3, ForgetKeepsStore
    <2>4. ResolverTypeOK' /\ Distinct'
      BY <2>1, <2>3, <1>2, <1>4, ShortenedType
    <2>5. /\ rejects'[c] = rejects[c] \cup {i}
          /\ \A d \in Creds : d # c => rejects'[d] = rejects[d] /\ (d \in parked' <=> d \in parked)
      BY <2>1, <2>2, <1>2
    <2>6. Busy' /\ BreakerHolds'
      BY <2>1, <2>3, <2>5, <1>2, <1>4, AttemptBooks
    <2> QED BY <2>4, <2>6 DEF ResolverInv
  <1>7. CASE KeyMaterial(v)
    <2>1. /\ parked' = parked \cup {c}
          /\ UNCHANGED <<promoted, negative, rejects, store>>
      BY <1>1, <1>7 DEF KeyMaterial, ReportKeyMaterial
    <2>s. StoreOK'
      BY <2>1, <1>2 DEF store, StoreOK
    <2>2. ResolverTypeOK' /\ Distinct'
      BY <2>1, <2>s, <1>2, <1>4, ShortenedType
    <2>3. Busy' /\ BreakerHolds'
      BY <2>1, <1>2, <1>4, AttemptBooks
    <2> QED BY <2>2, <2>3 DEF ResolverInv
  <1>8. CASE GivesUp(v)
    <2>1. UNCHANGED <<promoted, negative, rejects, parked, store>>
      BY <1>8 DEF GivesUp, learned, books
    <2>s. StoreOK'
      BY <2>1, <1>2 DEF store, StoreOK
    <2>2. ResolverTypeOK' /\ Distinct'
      BY <2>1, <2>s, <1>2, <1>4, ShortenedType
    <2>3. Busy' /\ BreakerHolds'
      BY <2>1, <1>2, <1>4, AttemptBooks
    <2> QED BY <2>2, <2>3 DEF ResolverInv
  <1> QED BY <1>5, <1>6, <1>7, <1>8 DEF Attempt

\* Joining the records of a device a visit is logged in to teaches nothing else.
LEMMA IdentifiedJoins ==
  ASSUME ResolverInv, NEW v \in Visits, Identified(v)
  PROVE  \E r \in Identities, n \in BindingIDs[v] \cup {Answered[v]} :
           /\ index[n] = r
           /\ Merge(IdentityOf[v], BindingIDs[v] \cup {Answered[v]}, bound[r], vouched[r])
           /\ StoreOK'
           /\ MergedInto(IdentityOf[v], BindingIDs[v] \cup {Answered[v]}, bound[r], vouched[r])
  <1> DEFINE names == BindingIDs[v] \cup {Answered[v]}
  <1>1. PICK r \in {index[n] : n \in names} \ {NoRecord} :
          Merge(IdentityOf[v], names, bound[r], vouched[r])
    BY DEF Identified
  <1>2. /\ names \in SUBSET Identities /\ IdentityOf[v] \in names
        /\ IdentityOf[v] \in Identities
    BY VisitsAssumption, NamesAssumption
  <1>3. StoreOK
    BY DEF ResolverInv, ResolverTypeOK, StoreOK
  <1>4. PICK n \in names : index[n] = r
    BY <1>1
  <1> HIDE DEF names
  <1>5. r \in Identities
    BY <1>1, <1>2, <1>3, <1>4 DEF StoreOK
  <1>6. bound[r] \in Creds \cup {NoCred} /\ vouched[r] \in SUBSET Identities
    BY <1>3, <1>5 DEF StoreOK
  <1>7. StoreOK' /\ MergedInto(IdentityOf[v], names, bound[r], vouched[r])
    BY <1>1, <1>2, <1>3, <1>6, MergeJoins
  <1> QED BY <1>1, <1>4, <1>5, <1>7 DEF names

LEMMA IdentifiedKeeps ==
  ASSUME ResolverInv, NEW v \in Visits, Identified(v)
  PROVE  ResolverInv'
  <1>1. UNCHANGED <<promoted, negative, rejects, parked, phase, offers>>
    BY DEF Identified, books
  <1>2. StoreOK'
    BY IdentifiedJoins
  <1>3. ResolverTypeOK' /\ Distinct'
    BY <1>1, <1>2 DEF ResolverInv, ResolverTypeOK, StoreOK, Distinct
  <1>4. Busy' /\ BreakerHolds'
    BY <1>1 DEF ResolverInv, Busy, Walking, BreakerHolds, Holding
  <1> QED BY <1>3, <1>4 DEF ResolverInv

LEMMA InitHolds == ResolverInit => ResolverInv
  <1> SUFFICES ASSUME ResolverInit PROVE ResolverInv
    OBVIOUS
  <1>1. /\ Cardinality({}) = 0 /\ DOMAIN <<>> = {} /\ <<>> \in Seq(Creds)
    BY FS_EmptySet
  <1>2. ResolverTypeOK
    <2>1. StoreOK
      BY StoresAssumption DEF ResolverInit, StoreOK
    <2> QED BY <2>1, <1>1 DEF ResolverInit, ResolverTypeOK, StoreOK, Phases
  <1>3. Distinct
    BY <1>1 DEF ResolverInit, Distinct
  <1>4. Busy
    <2>1. Walking = {}
      BY DEF ResolverInit, Walking
    <2> QED BY <2>1, <1>1, LimitsAssumption DEF Busy
  <1>5. BreakerHolds
    BY <1>1, LimitsAssumption DEF ResolverInit, BreakerHolds
  <1> QED BY <1>2, <1>3, <1>4, <1>5 DEF ResolverInv

LEMMA StepKeeps == ResolverInv /\ [ResolverNext]_resolverVars => ResolverInv'
  <1> SUFFICES ASSUME ResolverInv, [ResolverNext]_resolverVars PROVE ResolverInv'
    OBVIOUS
  <1>1. ASSUME NEW v \in Visits, Refused(v) PROVE ResolverInv'
    <2>1. /\ UNCHANGED <<promoted, negative, rejects, parked, index, bound, vouched, offers>>
          /\ phase[v] = "waiting" /\ phase' = [phase EXCEPT ![v] = "out"]
      BY <1>1 DEF Refused, learned, books, store
    <2>2. ResolverTypeOK'
      BY <2>1 DEF ResolverInv, ResolverTypeOK, Phases
    <2>3. Walking' = Walking
      BY <2>1 DEF ResolverInv, ResolverTypeOK, Walking
    <2>4. Distinct' /\ BreakerHolds'
      BY <2>1 DEF ResolverInv, Distinct, BreakerHolds, Holding
    <2> QED BY <2>2, <2>3, <2>4 DEF ResolverInv, Busy
  <1>2. CASE UNCHANGED resolverVars
    BY <1>2 DEF resolverVars, learned, books, store, ResolverInv, ResolverTypeOK, Distinct, Busy, Walking,
                BreakerHolds, Holding
  <1> QED BY <1>1, <1>2, StartKeeps, AttemptKeeps, IdentifiedKeeps DEF ResolverNext

\* However visits interleave, a parked credential is tried on no more new devices than
\* the visits still holding it, each of them once (Resolver.Report and Resolver.Walk).
THEOREM BreakerCorrect == ResolverSpec => []BreakerHolds
  <1>1. ResolverInv => BreakerHolds
    BY DEF ResolverInv
  <1> QED BY <1>1, InitHolds, StepKeeps, PTL DEF ResolverSpec

\* Whatever the devices answer and however the visits interleave, no credential
\* is rejected by more than Threshold + Workers - 1 devices since it last worked.
THEOREM LockoutGuard == ResolverSpec => []LockoutBound
  <1>1. ResolverInv => LockoutBound
    <2> SUFFICES ASSUME ResolverInv, NEW c \in Creds
                 PROVE  Cardinality(rejects[c]) <= Threshold + Workers - 1
      BY DEF LockoutBound
    <2>1. Cardinality(rejects[c]) \in Nat
      BY Finite DEF ResolverInv, ResolverTypeOK
    <2>2. Cardinality(Holding(c)) \in Nat
      BY Finite DEF Holding
    <2> QED BY <2>1, <2>2, LimitsAssumption DEF ResolverInv, BreakerHolds
  <1> QED BY <1>1, InitHolds, StepKeeps, PTL DEF ResolverSpec

-----------------------------------------------------------------------------
(* The ladder.                                                             *)

Short == \A v \in Visits : Len(offers[v]) <= MaxPerHost

\* No step of a run makes a walk longer than MaxPerHost.
LEMMA ShortKept == ResolverInv /\ Short /\ [ResolverNext]_resolverVars => Short'
  <1> SUFFICES ASSUME ResolverInv, Short, [ResolverNext]_resolverVars PROVE Short'
    OBVIOUS
  <1>0. offers \in [Visits -> Seq(Creds)] /\ MaxPerHost \in Nat
    BY LimitsAssumption DEF ResolverInv, ResolverTypeOK
  <1>1. ASSUME NEW v \in Visits, StartWalk(v) PROVE Short'
    <2> DEFINE size == Shorter(MaxPerHost, Cardinality(Offerable(v)))
    <2>1. \E list \in [1..size -> Offerable(v)] : offers' = [offers EXCEPT ![v] = list]
      BY <1>1 DEF StartWalk, Candidates
    <2> PICK list \in [1..size -> Offerable(v)] : offers' = [offers EXCEPT ![v] = list]
      BY <2>1
    <2>2. Offerable(v) \subseteq Creds
      BY DEF Offerable, Allowed
    <2>3. size \in Nat /\ size <= MaxPerHost
      BY <1>0, <2>2, Finite DEF Shorter
    <2> HIDE DEF size
    <2>4. Len(list) = size
      <3>1. list \in [1..size -> Creds]
        BY <2>2
      <3> QED BY <3>1, <2>3, IsASeq
    <2>5. offers'[v] = list /\ \A w \in Visits \ {v} : offers'[w] = offers[w]
      BY <1>0, <2>1
    <2> QED BY <2>3, <2>4, <2>5 DEF Short
  <1>2. ASSUME NEW v \in Visits, phase[v] = "walking", NextRung(v) PROVE Short'
    <2>1. offers[v] # <<>> /\ offers[v] \in Seq(Creds)
      BY <1>2 DEF ResolverInv, ResolverTypeOK
    <2>2. Len(Tail(offers[v])) = Len(offers[v]) - 1 /\ Len(offers[v]) \in Nat
      BY <2>1
    <2>3. offers'[v] = Tail(offers[v]) /\ \A w \in Visits \ {v} : offers'[w] = offers[w]
      BY <1>0, <1>2 DEF NextRung
    <2>4. Len(offers[v]) <= MaxPerHost
      BY DEF Short
    <2>5. Len(offers'[v]) <= MaxPerHost
      BY <1>0, <2>2, <2>3, <2>4
    <2> QED BY <2>3, <2>5 DEF Short
  <1>3. ASSUME NEW v \in Visits, NEW result, EndWalk(v, result) PROVE Short'
    <2>1. offers'[v] = <<>> /\ \A w \in Visits \ {v} : offers'[w] = offers[w]
      BY <1>0, <1>3 DEF EndWalk
    <2>2. Len(<<>>) = 0
      OBVIOUS
    <2> QED BY <1>0, <2>1, <2>2 DEF Short
  <1>4. ASSUME NEW v \in Visits, Attempt(v) PROVE Short'
    BY <1>2, <1>3, <1>4 DEF Attempt, Succeeds, Rejected, KeyMaterial, GivesUp
  <1>5. ASSUME NEW v \in Visits, Refused(v) \/ Identified(v) PROVE Short'
    BY <1>5 DEF Refused, Identified, Short
  <1>6. CASE UNCHANGED resolverVars
    BY <1>6 DEF resolverVars, Short
  <1> QED BY <1>1, <1>4, <1>5, <1>6 DEF ResolverNext

\* Where a login or a joining leaves a pin, its vouchers go with it.
LEMMA MergeVouches ==
  ASSUME StoreOK, PinIsVouched, negative \in [Identities -> SUBSET Creds],
         NEW own \in Identities, NEW names \in SUBSET Identities,
         NEW pin, NEW who \in SUBSET Identities, MergedInto(own, names, pin, who),
         \A i \in Identities : negative'[i] \subseteq negative[i],
         pin # NoCred => /\ who # {}
                         /\ \A i \in who : index'[i] = own /\ pin \notin negative'[i]
  PROVE  PinIsVouched'
  <1> SUFFICES ASSUME NEW r \in Identities, bound'[r] # NoCred
               PROVE  /\ vouched'[r] # {}
                      /\ \A i \in vouched'[r] : index'[i] = r /\ bound'[r] \notin negative'[i]
    BY DEF PinIsVouched
  <1>1. CASE r = own
    BY <1>1 DEF MergedInto
  <1>2. CASE r # own
    <2>1. /\ bound'[r] = bound[r] /\ vouched'[r] = vouched[r]
          /\ \A i \in Identities : index[i] = r => index'[i] = r
      BY <1>2 DEF MergedInto
    <2>2. vouched[r] \subseteq Identities
      BY DEF StoreOK
    <2>3. vouched[r] # {} /\ \A i \in vouched[r] : index[i] = r /\ bound[r] \notin negative[i]
      BY <2>1 DEF PinIsVouched
    <2> QED BY <2>1, <2>2, <2>3
  <1> QED BY <1>1, <1>2

\* The report of a success clears the identity's rejections before it binds; that
\* of a rejection drops the pin it contradicts, which the identity's own name
\* finds if it vouched for it: under one lock, whatever other visits reported.
LEMMA PinKept == ResolverInv /\ PinIsVouched /\ [ResolverNext]_resolverVars => PinIsVouched'
  <1> SUFFICES ASSUME ResolverInv, PinIsVouched, [ResolverNext]_resolverVars
               PROVE  PinIsVouched'
    OBVIOUS
  <1>0. negative \in [Identities -> SUBSET Creds] /\ StoreOK
    BY DEF ResolverInv, ResolverTypeOK, StoreOK
  <1>1. ASSUME NEW v \in Visits, Attempt(v) PROVE PinIsVouched'
    <2> DEFINE c == Head(offers[v])
               j == IdentityOf[v]
    <2>1. c \in Creds /\ c # NoCred /\ j \in Identities
          /\ BindingIDs[v] \in SUBSET Identities /\ j \in BindingIDs[v]
      BY <1>1, HeadHeld, VisitsAssumption, NamesAssumption
         DEF ResolverInv, Attempt, Succeeds, Rejected, KeyMaterial, GivesUp
    <2> HIDE DEF c, j
    <2>2. CASE Succeeds(v)
      <3>1. /\ negative' = [negative EXCEPT ![j] = {}]
            /\ Merge(j, BindingIDs[v], c, {j})
        BY <2>2 DEF Succeeds, ReportSuccess, RecordLogin, c, j
      <3>2. MergedInto(j, BindingIDs[v], c, {j})
        BY <3>1, <2>1, <1>0, MergeJoins
      <3>3. index'[j] = j
        BY <3>2 DEF MergedInto
      <3>4. negative'[j] = {} /\ \A i \in Identities : negative'[i] \subseteq negative[i]
        BY <3>1, <2>1, <1>0
      <3> QED BY <3>2, <3>3, <3>4, <2>1, <1>0, MergeVouches
    <2>3. CASE Rejected(v)
      <3>1. negative' = [negative EXCEPT ![j] = @ \cup {c}] /\ Forget(v, c)
        BY <2>3 DEF Rejected, ReportRejected, c, j
      <3> SUFFICES ASSUME NEW r \in Identities, bound'[r] # NoCred
                   PROVE  /\ vouched'[r] # {}
                          /\ \A i \in vouched'[r] : index'[i] = r /\ bound'[r] \notin negative'[i]
        BY DEF PinIsVouched
      <3>2. bound'[r] = bound[r] /\ vouched'[r] = vouched[r] /\ index' = index
        BY <3>1, <1>0, RecordsFound DEF Forget, Unpin, store, StoreOK
      <3>3. /\ vouched[r] # {} /\ vouched[r] \subseteq Identities
            /\ \A i \in vouched[r] : index[i] = r /\ bound[r] \notin negative[i]
        BY <3>2, <1>0 DEF PinIsVouched, StoreOK
      \* The rejecting name did not vouch for a pin of c that stands.
      <3>4. ASSUME j \in vouched[r], bound[r] = c PROVE FALSE
        <4>1. index[j] = r /\ r # NoRecord
          BY <3>3, <3>4, NamesAssumption
        <4>2. RecordsOf(v) = {r}
          BY <4>1 DEF RecordsOf, j
        <4>3. Learned(v) = {c}
          BY <4>2, <3>4 DEF Learned
        <4>4. bound'[r] = NoCred
          BY <4>2, <4>3, <3>1, <1>0 DEF Forget, Unpin, StoreOK
        <4> QED BY <4>4
      <3>5. ASSUME NEW i \in vouched[r] PROVE bound[r] \notin negative'[i]
        BY <3>1, <3>3, <3>4, <3>5, <2>1, <1>0
      <3> QED BY <3>2, <3>3, <3>5
    <2>4. CASE KeyMaterial(v) \/ GivesUp(v)
      BY <2>4 DEF KeyMaterial, ReportKeyMaterial, GivesUp, learned, books, store, PinIsVouched
    <2> QED BY <1>1, <2>2, <2>3, <2>4 DEF Attempt
  <1>2. ASSUME NEW v \in Visits, Identified(v) PROVE PinIsVouched'
    <2>1. PICK r \in Identities, n \in BindingIDs[v] \cup {Answered[v]} :
            /\ index[n] = r
            /\ MergedInto(IdentityOf[v], BindingIDs[v] \cup {Answered[v]}, bound[r], vouched[r])
      BY <1>2, IdentifiedJoins
    <2>2. /\ negative' = negative /\ IdentityOf[v] \in Identities /\ r # NoRecord
          /\ BindingIDs[v] \cup {Answered[v]} \in SUBSET Identities
          /\ vouched[r] \in SUBSET Identities
      BY <1>2, <1>0, VisitsAssumption, NamesAssumption DEF Identified, books, StoreOK
    <2>3. bound[r] # NoCred =>
            /\ vouched[r] # {}
            /\ \A i \in vouched[r] : index[i] = index[n] /\ bound[r] \notin negative[i]
      BY <2>1 DEF PinIsVouched
    <2>4. \A i \in Identities : index[i] = index[n] => index'[i] = IdentityOf[v]
      BY <2>1, <2>2 DEF MergedInto
    <2> QED BY <2>1, <2>2, <2>3, <2>4, <1>0, MergeVouches
  <1>3. ASSUME NEW v \in Visits, StartWalk(v) \/ Refused(v) PROVE PinIsVouched'
    BY <1>3 DEF StartWalk, Refused, learned, books, store, PinIsVouched
  <1>4. CASE UNCHANGED resolverVars
    BY <1>4 DEF resolverVars, learned, books, store, PinIsVouched
  <1> QED BY <1>1, <1>2, <1>3, <1>4 DEF ResolverNext

\* In any run, whatever records the visits join, no pin is one that the name which
\* vouched for it has rejected since, and no walk offers a credential twice or more
\* than MaxPerHost of them.
THEOREM LadderCorrect == ResolverSpec => []LadderIsSound
  <1>1. ResolverInit => Short /\ PinIsVouched
    <2>1. Len(<<>>) = 0
      OBVIOUS
    <2>2. ResolverInit => PinIsVouched
      BY StoresAssumption DEF ResolverInit, PinIsVouched
    <2> QED BY <2>1, <2>2, LimitsAssumption DEF ResolverInit, Short
  <1>2. ResolverInv /\ Short /\ PinIsVouched => LadderIsSound
    BY DEF ResolverInv, Distinct, Short, OffersAreDistinct, LadderIsSound
  <1> QED BY <1>1, <1>2, InitHolds, StepKeeps, ShortKept, PinKept, PTL DEF ResolverSpec
=============================================================================
