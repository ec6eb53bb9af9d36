----------------------------- MODULE DeviceList -----------------------------
(***************************************************************************)
(* From a run's parameters to the devices it visits (capturerun/params.go, *)
(* capturedial): the typed list and the list file, then the sessions that  *)
(* patterns and ticked keys pick from the inventory.                       *)
(*                                                                         *)
(* A typed entry is a target: <<host>>, or <<host, port>>.  Confirmed is   *)
(* the one DNS rule: the name of a shared (CGNAT) address whose PTR also   *)
(* resolves forward; no other entry is looked up.  Stripping a configured  *)
(* domain is a conversion inside a name and is left out.                   *)
(***************************************************************************)
EXTENDS SessionTree

CONSTANT Confirmed     \* shared address -> its confirmed name

\* Params: devices and listed are sequences of targets, NoList no list file.
NoList == <<"no file">>

\* Splitting and folding a list: each entry once, where it first stands.
AddEntry(out, e)   == IF e \in ToSet(out) THEN out ELSE Append(out, e)
ParseDevices(list) == FoldLeft(LAMBDA out, e : AddEntry(out, e), <<>>, list)

HasDeviceSource(p) == p.devices # <<>> \/ p.listed # NoList \/ p.sessionFile

\* The rules about where devices come from; a run that breaks one is refused.
Validates(p) ==
  /\ HasDeviceSource(p)
  /\ p.listed # <<>>
  /\ p.sessionFile => p.match # {} \/ p.keys # {}
  /\ p.match # {} => p.sessionFile
  /\ p.keys # {} => p.sessionFile

Targets(p) == ParseDevices(p.devices \o (IF p.listed = NoList THEN <<>> ELSE p.listed))

\* What an address alone says of who a device is, and what else it is known by.
Known(target) == IF target[1] \in DOMAIN Confirmed /\ Len(target) = 1 THEN Confirmed[target[1]] ELSE target
ResolveTargets(p) ==
  LET all == Targets(p) IN
  [i \in DOMAIN all |->
     LET t == all[i] IN
     [target |-> t, identity |-> Known(t), aliases |-> IF Known(t) = t THEN {} ELSE {t, Known(t)},
      attr |-> "", guess |-> ""]]

------------------------------------------------------------------------------
(* The sessions picked.  With both patterns and keys the two selections are *)
(* put together by folder and key, and taken again in tree order.           *)

Mark(t, p) == <<t[p[1]].name, Key(At(t, p))>>

selectSessions(t, match, keys) ==
  LET byPattern == Select(t, match)
      byKey     == SelectKeys(t, keys)
      picked    == {Mark(t, p) : p \in byPattern \union byKey}
  IN  IF keys = {} THEN byPattern
      ELSE IF byPattern = {} THEN byKey
      ELSE {p \in Places(t) :
              /\ Mark(t, p) \in picked
              /\ Key(At(t, p)) # NoKey =>
                   p = First({q \in Places(t) : Mark(t, q) \in picked /\ Key(At(t, q)) = Key(At(t, p))})}

\* Capture dials SSH: a console, or a session with no host, is skipped.
Dialable(s) == s.kind = "ssh" /\ s.host # NoHost

\* A name that is only what the session connects to is not a name.
sessionDevice(s) ==
  LET named == s.name \notin {NoName, Target(s)}
      who   == IF named THEN s.name ELSE Known(<<s.host>>)
  IN  [target |-> Target(s), identity |-> who, attr |-> s.attr, guess |-> s.guess,
       aliases |-> {Known(<<s.host>>), <<s.host>>} \ {who}]

SessionDevices(t, p) ==
  IF ~p.sessionFile THEN <<>>
  ELSE LET dial == InOrder({q \in selectSessions(t, p.match, p.keys) : Dialable(At(t, q))})
       IN  [i \in DOMAIN dial |-> sessionDevice(At(t, dial[i]))]

\* Mutant of mergeDevices: what a device is called decides, not what is dialled.
mergeByIdentity(first, second) ==
  FoldLeft(LAMBDA out, d : IF \E e \in ToSet(out) : e.identity = d.identity THEN out ELSE Append(out, d),
           first, second)

\* The second list after the first, without the targets already there.
AddDevice(out, d) == IF \E e \in ToSet(out) : e.target = d.target THEN out ELSE Append(out, d)
mergeDevices(first, second) == FoldLeft(LAMBDA out, d : AddDevice(out, d), first, second)

Devices(t, p) == mergeDevices(ResolveTargets(p), SessionDevices(t, p))

\* A run is built only from parameters that validate and name some device.
Builds(t, p) == Validates(p) /\ Devices(t, p) # <<>>
==============================================================================
