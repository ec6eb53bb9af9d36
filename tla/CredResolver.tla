---------------------------- MODULE CredResolver ----------------------------
(***************************************************************************)
(* The credential ladder of internal/credres/credres.go: which credentials *)
(* a visit tries, in which order, and what its answers teach the resolver  *)
(* the concurrent visits share.  Resolve and Report hold Resolver.mu; the  *)
(* dial between them does not, so what a visit was offered may be stale by *)
(* the time it tries it.                                                   *)
(*                                                                         *)
(* A binding record is shared by all the names of a device, while what a   *)
(* run learns is kept per identity: a visit by the address and one by the  *)
(* name read and write the same pin.                                       *)
(*                                                                         *)
(* Abstracted: a record to its addresses and qualified names, and is       *)
(* called by one of them (Bindings has the labels, clocks and files), the  *)
(* secrets, a place to the domains and prefixes it is in, and an error to  *)
(* the marks Classify looks for in it.                                     *)
(***************************************************************************)
EXTENDS Integers, FiniteSets, Sequences

CONSTANTS
  Visits,       \* the run's devices, one call of Dial each
  Identities,   \* the addresses and qualified names devices go by, the claim
                \* keys among them
  Creds,        \* the vault's credentials
  NoCred,       \* no credential
  IdentityOf,   \* [Visits -> Identities]; two spellings may share an identity
  BindingIDs,   \* Target.bindingIDs: the names a visit has for its device
  Namesakes,    \* names whose records may own the label a visit's name starts with
  Answered,     \* the address a visit's device answers from
  NoRecord,     \* no binding record
  Stores,       \* the binding stores earlier runs left
  Pin,          \* Target.Pin: the credential a session names
  Entry,        \* what the vault holds of a credential
  Site,         \* the domains a visit's identity ends in, and the prefixes that
                \* hold its address: none when it is only known by name
  Tags,         \* Vault.tags: what the run requires of a credential
  Threshold,    \* Config.BreakerThreshold
  MaxPerHost,   \* Config.MaxPerHost
  Errors,       \* what a dial may return: the marks of each error, {} for none
  Workers       \* visits dialed at once (Engine.Concurrency)

ASSUME VisitsAssumption ==
  /\ IsFiniteSet(Visits) /\ IsFiniteSet(Identities) /\ IsFiniteSet(Creds)
  /\ IdentityOf \in [Visits -> Identities]
  /\ Pin \in [Visits -> Creds \cup {NoCred}]
  /\ NoCred \notin Creds
ASSUME NamesAssumption ==
  /\ BindingIDs \in [Visits -> SUBSET Identities]
  /\ \A v \in Visits : IdentityOf[v] \in BindingIDs[v]
  /\ Namesakes \in [Visits -> SUBSET Identities]
  /\ Answered \in [Visits -> Identities]
  /\ NoRecord \notin Identities
ASSUME StoresAssumption ==
  \A s \in Stores :
    /\ s.index \in [Identities -> Identities \cup {NoRecord}]
    /\ \A i \in Identities : s.index[i] # NoRecord => s.index[s.index[i]] = s.index[i]
    /\ s.bound \in [Identities -> Creds \cup {NoCred}]
    /\ \A r \in Identities : s.bound[r] # NoCred => s.index[r] = r
ASSUME EntryAssumption ==
  \A c, d \in Creds : Entry[c].name \in Int /\ (Entry[c].name = Entry[d].name => c = d)
ASSUME LimitsAssumption ==
  Threshold \in Nat \ {0} /\ MaxPerHost \in Nat \ {0} /\ Workers \in Nat \ {0}

VARIABLES
  promoted,     \* Resolver.promoted: the credential that last authenticated
  negative,     \* Resolver.negative: the credentials each identity rejected
  rejects,      \* Resolver.rejects: who rejected a credential since it last worked
  parked,       \* Resolver.parked: out for the rest of the run
  index,        \* aliasSet.index: the record of a name, called by one of its names
  bound,        \* the credential each record is pinned to
  vouched,      \* history: the names a record's pin logged in under
  phase,        \* where each visit stands
  offers        \* the candidates a walk has yet to try

books == <<promoted, negative, rejects, parked>>
store == <<index, bound, vouched>>
learned == <<books, store>>
resolverVars == <<learned, phase, offers>>

Phases == {"waiting", "walking", "in", "out"}

\* A run starts with whatever earlier runs bound.
ResolverInit ==
  /\ promoted = NoCred
  /\ negative = [i \in Identities |-> {}]
  /\ rejects = [c \in Creds |-> {}]
  /\ parked = {}
  /\ \E s \in Stores :
       /\ index = s.index
       /\ bound = s.bound
       /\ vouched = [r \in Identities |-> {i \in Identities : s.bound[r] # NoCred /\ s.index[i] = r}]
  /\ phase = [v \in Visits |-> "waiting"]
  /\ offers = [v \in Visits |-> <<>>]

Walking == {v \in Visits : phase[v] = "walking"}

-----------------------------------------------------------------------------
(* The binding store (binding.go).                                         *)

\* lookup: the identity comes first; of the other names, the label the identity
\* starts with among them, any may find the record.
RecordsOf(v) ==
  LET i == IdentityOf[v]
  IN  IF index[i] # NoRecord THEN {index[i]}
      ELSE {index[n] : n \in BindingIDs[v] \cup Namesakes[v]} \ {NoRecord}

\* What a lookup may answer: a record whose pin was forgotten hides the others.
Learned(v) ==
  IF RecordsOf(v) = {} THEN {NoCred} ELSE {bound[r] : r \in RecordsOf(v)}

\* The names of a record that holds any of these.
Joined(names) ==
  names \cup {i \in Identities : \E n \in names : index[n] # NoRecord /\ index[i] = index[n]}

\* bind: the records of these names become one, here called own.
Merge(own, names, pin, who) ==
  LET all == Joined(names)
  IN  /\ index' = [i \in Identities |-> IF i \in all THEN own ELSE index[i]]
      /\ bound' = [r \in Identities |-> IF r = own THEN pin
                                       ELSE IF r \in all THEN NoCred ELSE bound[r]]
      /\ vouched' = [r \in Identities |-> IF r = own THEN who
                                         ELSE IF r \in all THEN {} ELSE vouched[r]]

RecordLogin(v, c) == Merge(IdentityOf[v], BindingIDs[v], c, {IdentityOf[v]})

Unpin(r) ==
  /\ bound' = [bound EXCEPT ![r] = NoCred]
  /\ vouched' = [vouched EXCEPT ![r] = {}]
  /\ UNCHANGED index

\* A visit that forgets only what is filed under its own name.
ForgetOwn(v, c) ==
  IF bound[IdentityOf[v]] = c THEN Unpin(IdentityOf[v]) ELSE UNCHANGED store

\* A pin that no longer authenticates is dropped, if it is the one looked up.
Forget(v, c) ==
  \/ \E r \in RecordsOf(v) : bound[r] = c /\ Unpin(r)
  \/ Learned(v) # {c} /\ UNCHANGED store

-----------------------------------------------------------------------------
(* Resolve.                                                                *)

\* Every part of a scope that is there must match; the platform of a device is
\* not known before it is dialed.
ScopeMatches(scope, v) ==
  /\ scope.domain # <<>> => scope.domain \in Site[v].domains
  /\ scope.platforms = {}
  /\ scope.networks # {} => scope.networks \cap Site[v].networks # {}

\* What the vault would let a visit try on the first day.
Allowed ==
  [v \in Visits |-> {c \in Creds : /\ ~Entry[c].disabled /\ ~Entry[c].snmp
                                  /\ Tags \subseteq Entry[c].tags
                                  /\ ScopeMatches(Entry[c].scope, v)}]

\* A resolver that forgets to leave parked credentials out.
OfferableParked(v) == Allowed[v] \ negative[IdentityOf[v]]

Offerable(v) == (Allowed[v] \ parked) \ negative[IdentityOf[v]]

Specificity(scope) ==
  (IF scope.networks # {} THEN 100 ELSE 0) + (IF scope.platforms # {} THEN 50 ELSE 0)
    + 10 * Len(scope.domain)

\* rank: the narrow first, then by priority, keys before passwords, the default
\* before the rest, and by name.
Standing ==
  [c \in Creds |-> <<-Specificity(Entry[c].scope), Entry[c].priority,
                     IF Entry[c].isKey THEN 0 ELSE 1, IF Entry[c].isDefault THEN 0 ELSE 1,
                     Entry[c].name>>]

Before(c, d) ==
  \E k \in 1..5 : /\ Standing[c][k] < Standing[d][k]
                  /\ \A j \in 1..(k - 1) : Standing[c][j] = Standing[d][j]

Rank == [c \in Creds |-> 1 + Cardinality({d \in Creds : Before(d, c)})]

\* The session's pin outranks a learned one, when it may be offered at all.
Pinned(v) == IF Pin[v] \in Offerable(v) THEN {Pin[v]} ELSE Learned(v)

Place(c, pin) ==
  IF c = pin THEN 0 ELSE IF c = promoted THEN 1 ELSE 1 + Rank[c]

Shorter(m, n) == IF m < n THEN m ELSE n

\* The list Resolve returns, a set of one: the eligible credentials in order,
\* the first MaxPerHost of them.
Candidates(v, pin) ==
  LET eligible == Offerable(v)
      size == Shorter(MaxPerHost, Cardinality(eligible))
  IN  {list \in [1..size -> eligible] :
         /\ \A m, n \in 1..size : m < n => Place(list[m], pin) < Place(list[n], pin)
         /\ \A c \in eligible : (\A n \in 1..size : list[n] # c)
              => \A n \in 1..size : Place(list[n], pin) < Place(c, pin)}

StartWalk(v) ==
  /\ phase[v] = "waiting"
  /\ Cardinality(Walking) < Workers
  /\ Offerable(v) # {}
  /\ phase' = [phase EXCEPT ![v] = "walking"]
  /\ \E pin \in Pinned(v) : \E list \in Candidates(v, pin) :
       offers' = [offers EXCEPT ![v] = list]
  /\ UNCHANGED learned

\* ErrNoCandidates, or a vault locked under the run.
Refused(v) ==
  /\ phase[v] = "waiting"
  /\ phase' = [phase EXCEPT ![v] = "out"]
  /\ UNCHANGED <<learned, offers>>

-----------------------------------------------------------------------------
(* classify.go.  The marks of an error are looked for in this order: the   *)
(* kinds of its chain, then the phrases of its text.                       *)

Verdicts == <<
  [marks |-> {"dns error", "net error", "deadline", "eof"},        outcome |-> "unreachable"],
  [marks |-> {"no such file", "no permission"},                    outcome |-> "key-material"],
  [marks |-> {"no common algorithm", "unable to negotiate"},       outcome |-> "algo-mismatch"],
  [marks |-> {"host key", "known_hosts"},                          outcome |-> "host-key"],
  [marks |-> {"unable to authenticate", "keyboard-interactive"},   outcome |-> "auth-rejected"],
  [marks |-> {"private key", "passphrase", "ssh agent:"},          outcome |-> "key-material"],
  [marks |-> {"connection refused", "i/o timeout", "no route"},    outcome |-> "unreachable"]>>

Matching(e) == {n \in DOMAIN Verdicts : e \cap Verdicts[n].marks # {}}

\* The first verdict whose marks the error carries.
Classify(e) ==
  IF e = {} THEN "success"
  ELSE IF Matching(e) = {} THEN "other"
  ELSE Verdicts[CHOOSE n \in Matching(e) : \A k \in Matching(e) : n <= k].outcome

Outcomes == {Classify(e) : e \in Errors}

\* Whether another credential might fare better.
Retryable(outcome) == outcome \in {"auth-rejected", "key-material", "no-answer"}

-----------------------------------------------------------------------------
(* One attempt of Walk: the dial, then Report of its outcome.              *)

ReportSuccess(v, c) ==
  /\ rejects' = [rejects EXCEPT ![c] = {}]
  /\ negative' = [negative EXCEPT ![IdentityOf[v]] = {}]
  /\ promoted' = c
  /\ RecordLogin(v, c)
  /\ UNCHANGED parked

\* A breaker that trips one rejection late.
TripLate(c, who) == IF Cardinality(who) > Threshold THEN {c} ELSE {}

Trip(c, who) == IF Cardinality(who) >= Threshold THEN {c} ELSE {}

ReportRejected(v, c) ==
  LET i == IdentityOf[v]
      who == rejects[c] \cup {i}
  IN  /\ negative' = [negative EXCEPT ![i] = @ \cup {c}]
      /\ rejects' = [rejects EXCEPT ![c] = who]
      /\ parked' = parked \cup Trip(c, who)
      /\ Forget(v, c)
      /\ UNCHANGED promoted

\* The key could not be loaded here: parked, and no evidence against it.
ReportKeyMaterial(c) ==
  /\ parked' = parked \cup {c}
  /\ UNCHANGED <<promoted, negative, rejects, store>>

\* After a retryable failure the walk goes on with the next candidate; with
\* none left the visit has failed.
NextRung(v) ==
  /\ offers' = [offers EXCEPT ![v] = Tail(@)]
  /\ phase' = [phase EXCEPT ![v] = IF Len(offers[v]) = 1 THEN "out" ELSE @]

EndWalk(v, result) ==
  /\ offers' = [offers EXCEPT ![v] = <<>>]
  /\ phase' = [phase EXCEPT ![v] = result]

Succeeds(v) ==
  /\ phase[v] = "walking"
  /\ "success" \in Outcomes
  /\ ReportSuccess(v, Head(offers[v]))
  /\ EndWalk(v, "in")

Rejected(v) ==
  /\ phase[v] = "walking"
  /\ "auth-rejected" \in Outcomes
  /\ ReportRejected(v, Head(offers[v]))
  /\ NextRung(v)

KeyMaterial(v) ==
  /\ phase[v] = "walking"
  /\ "key-material" \in Outcomes
  /\ ReportKeyMaterial(Head(offers[v]))
  /\ NextRung(v)

\* Unreachable, host key, algorithms, or unclassified: the next credential
\* would fare no better, and nothing is learned.
GivesUp(v) ==
  /\ phase[v] = "walking"
  /\ \E outcome \in Outcomes : outcome # "success" /\ ~Retryable(outcome)
  /\ EndWalk(v, "out")
  /\ UNCHANGED learned

Attempt(v) == Succeeds(v) \/ Rejected(v) \/ KeyMaterial(v) \/ GivesUp(v)

\* Once logged in, the visit binds the address the device answers from to the
\* names it has (capture.go, identify).  Of the pins of the records this joins the
\* clocks leave one, or none if it was forgotten.
Identified(v) ==
  /\ phase[v] = "in"
  /\ LET names == BindingIDs[v] \cup {Answered[v]}
     IN  \E r \in {index[n] : n \in names} \ {NoRecord} :
           Merge(IdentityOf[v], names, bound[r], vouched[r])
  /\ UNCHANGED <<books, phase, offers>>

ResolverNext ==
  \E v \in Visits : StartWalk(v) \/ Refused(v) \/ Attempt(v) \/ Identified(v)

ResolverSpec == ResolverInit /\ [][ResolverNext]_resolverVars

-----------------------------------------------------------------------------
(* Properties.                                                             *)

ResolverTypeOK ==
  /\ promoted \in Creds \cup {NoCred}
  /\ negative \in [Identities -> SUBSET Creds]
  /\ rejects \in [Creds -> SUBSET Identities]
  /\ parked \in SUBSET Creds
  /\ index \in [Identities -> Identities \cup {NoRecord}]
  /\ \A i \in Identities : index[i] # NoRecord => index[index[i]] = index[i]
  /\ bound \in [Identities -> Creds \cup {NoCred}]
  /\ vouched \in [Identities -> SUBSET Identities]
  /\ phase \in [Visits -> Phases]
  /\ offers \in [Visits -> Seq(Creds)]
  /\ \A v \in Visits : phase[v] = "walking" <=> offers[v] # <<>>

Holding(c) == {v \in Visits : \E n \in DOMAIN offers[v] : offers[v][n] = c}

\* The lockout guard (credres.go, the header): a credential reaches at most
\* Threshold devices that reject it, and one more for every other visit that
\* was already under way with it in hand when it was parked.
LockoutBound == \A c \in Creds : Cardinality(rejects[c]) <= Threshold + Workers - 1

\* Why the bound holds: before it is parked a credential is below the threshold,
\* and after it only the visits still holding it can add a device.
BreakerHolds ==
  \A c \in Creds :
    IF c \in parked
    THEN Cardinality(rejects[c]) + Cardinality(Holding(c)) <= Threshold + Workers - 1
    ELSE Cardinality(rejects[c]) < Threshold

\* A pin is what a login left under some name the record still holds, and that
\* name has not rejected it since, whichever visits report in whichever order and
\* whatever records they join (Report: Record, Forget, and delete of negative).
\* Another name of the device may have: what a run learns is kept by identity.
PinIsVouched ==
  \A r \in Identities : bound[r] # NoCred =>
    /\ vouched[r] # {}
    /\ \A i \in vouched[r] : index[i] = r /\ bound[r] \notin negative[i]

\* A walk offers a credential once, and not more than MaxPerHost of them: the
\* per-host lockout guard.
OffersAreDistinct ==
  \A v \in Visits :
    /\ Len(offers[v]) <= MaxPerHost
    /\ \A m, n \in DOMAIN offers[v] : offers[v][m] = offers[v][n] => m = n

\* What the visits of a run learn and offer, together: no pin rejected by the name
\* that vouched for it, no credential twice in a walk, whoever was pinned or
\* promoted meanwhile.
LadderIsSound == ResolverTypeOK /\ PinIsVouched /\ OffersAreDistinct

=============================================================================
