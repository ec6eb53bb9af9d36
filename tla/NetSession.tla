----------------------------- MODULE NetSession -----------------------------
(***************************************************************************)
(* One visit's shell, internal/netexec: asked for in three requests, then  *)
(* commands typed into a PTY, answers found by the prompt that ends them,  *)
(* the platform probed for and the captures in turn as capture.go visit    *)
(* runs them.  A device answers what it is typed in order; its output      *)
(* arrives in chunks of any size, behind two reader goroutines that share  *)
(* one wake.  A request, and a write of what is typed, has no deadline and *)
(* knows no cancel: the device may hold it for as long as it is there.     *)
(*                                                                         *)
(* A stream is a sequence of lines, each of a kind and of the answer it    *)
(* belongs to.  A "lookalike" is a line, or the start of one, that matches *)
(* the prompt regex where a chunk ends with it; a "gate" is a pager's or a *)
(* banner's any-key line, overwritten once a key is hit; "blank" is a line *)
(* of nothing but escapes; "reject" a refusal.  Limits count lines.        *)
(***************************************************************************)
EXTENDS Integers, Sequences, FiniteSetsExt

CONSTANTS
  Probes,       \* the probe table: [paging, version, names], paging None for none
  Captures,     \* the run's commands, cheap ones first
  Devices,      \* the lines each command is answered with, the greeting under Login
  Wedged,       \* commands that may never come back to a prompt
  Named,        \* the probes of the platforms somebody may name, 0 for none
  LimitOf,      \* the bound in force while a command's answer is read
  Keep,         \* tailKeep
  Login, None,
  MaxKeys       \* bound on the keypresses on their way

Commands ==
  {Captures[j] : j \in DOMAIN Captures}
    \cup UNION {{Probes[k].version, Probes[k].paging} \ {None} : k \in DOMAIN Probes}

\* The kinds of lines there are; a platform's name is what a version answer tells.
Sorts ==
  {"echo", "prompt", "text", "lookalike", "gate", "blank", "reject"}
    \cup UNION {Probes[k].names : k \in DOMAIN Probes}

ASSUME KeepAssumption == Keep \in Nat \ {0}
ASSUME TableAssumption ==
  /\ None \notin Sorts \cup Commands
  /\ Probes # <<>> /\ Named \subseteq 0..Len(Probes) /\ Captures \in Seq(Commands)
  /\ Probes \in Seq([paging: Commands \cup {None}, version: Commands, names: SUBSET Sorts])

\* What an answer is made of is neither an echo nor the prompt itself, and the last
\* line of it that can be seen does not look like one: StripEchoAndPrompt would
\* take that line with the prompt.
ASSUME DevicesAssumption ==
  \A answers \in Devices :
    /\ \A c \in Commands \cup {Login} : answers[c] \in Seq(Sorts \ {"prompt", "echo"})
    /\ \A c \in Commands : \A i \in DOMAIN answers[c] : answers[c][i] = "lookalike" =>
         \E j \in DOMAIN answers[c] : j > i /\ answers[c][j] \notin {"gate", "blank"}

Space == [kind |-> "space"]
Line(c, k) == [of |-> c, kind |-> k]

VARIABLES
  answerOf,     \* the device
  mode,         \* "up", at a "gate", "wedged", or "gone" with the connection
  typed,        \* what is on its way to it
  saying,       \* what it has still to send
  buf,          \* Session.buf
  overflow,     \* Session.overflow
  notify,       \* the wake waiting in Session.notify
  loop,         \* "sending" a command, its read: "look", "keying", "looked", "wait"; or "idle"
  cmd,          \* the command it is for
  at,           \* where the visit is
  platform,     \* what the fingerprint said
  results,      \* each capture's outcome
  forced,       \* the probe of the platform that was named, or 0
  cancelled,    \* the run's context is done
  slipped       \* history: a read has ended without the prompt it was for

device == <<answerOf, mode, typed, saying>>
stream == <<buf, overflow, notify>>
visit == <<loop, cmd, at, platform, results, slipped>>
run == <<forced, cancelled>>
vars == <<device, stream, visit, run>>

Body(c) == [i \in DOMAIN answerOf[c] |-> Line(c, answerOf[c][i])]
EndLine(c) == Line(c, "prompt")

Init ==
  /\ answerOf \in Devices
  /\ mode = "up"
  /\ typed = <<>> /\ saying = <<>>
  /\ buf = <<>> /\ overflow = FALSE /\ notify = FALSE
  /\ loop = "idle" /\ cmd = Login
  /\ at = [step |-> "open", n |-> 1]
  /\ platform = None
  /\ results = [i \in DOMAIN Captures |-> None]
  /\ forced \in Named
  /\ cancelled = FALSE
  /\ slipped = FALSE

-----------------------------------------------------------------------------
(* The device.                                                             *)

\* The next line typed is echoed and answered; a command that wedges says
\* something and reads no more.  A key hit at the prompt is nothing.
DeviceReads ==
  /\ mode = "up" /\ saying = <<>> /\ typed # <<>>
  /\ typed' = Tail(typed)
  /\ LET c == Head(typed).of
         echo == Line(c, "echo")
     IN IF Head(typed) = Space THEN UNCHANGED <<mode, saying>>
        ELSE \/ /\ saying' = <<echo>> \o Append(Body(c), EndLine(c))
                /\ UNCHANGED mode
             \/ /\ c \in Wedged
                /\ saying' = <<echo, Line(c, "text")>>
                /\ mode' = "wedged"
  /\ UNCHANGED <<answerOf, stream, visit, run>>

\* At a gate any key goes on; a whole command typed there may go with the key.
KeyHit ==
  /\ mode = "gate" /\ typed # <<>>
  /\ mode' = "up"
  /\ typed' = Tail(typed) \/ (Head(typed) # Space /\ UNCHANGED typed)
  /\ UNCHANGED <<answerOf, saying, stream, visit, run>>

-----------------------------------------------------------------------------
(* readLoop.                                                               *)

\* appendLocked: past the limit only a tail is kept, and reading goes on.
Kept(b) == IF Len(b) > Keep THEN SubSeq(b, Len(b) - Keep + 1, Len(b)) ELSE b

\* A wake that nobody keeps: the send of an unbuffered notify.
ArriveQuietly(chunk) ==
  /\ LET b == buf \o chunk
         over == overflow \/ Len(b) > LimitOf[cmd]
     IN overflow' = over /\ buf' = IF over THEN Kept(b) ELSE b
  /\ notify' = (notify \/ loop = "wait")

Arrive(chunk) ==
  /\ LET b == buf \o chunk
         over == overflow \/ Len(b) > LimitOf[cmd]
     IN overflow' = over /\ buf' = IF over THEN Kept(b) ELSE b
  /\ notify' = TRUE

\* A chunk is whatever has been sent, up to a gate.
DeviceWrites ==
  /\ mode \in {"up", "wedged"}
  /\ \E n \in DOMAIN saying :
       /\ \A i \in 1..(n - 1) : saying[i].kind # "gate"
       /\ Arrive(SubSeq(saying, 1, n))
       /\ saying' = SubSeq(saying, n + 1, Len(saying))
       /\ mode' = IF saying[n].kind = "gate" THEN "gate" ELSE mode
  /\ UNCHANGED <<answerOf, typed, visit, run>>

\* The connection is lost: the error of the readers, once there are any, and a wake.
Hangup ==
  /\ mode # "gone" /\ mode' = "gone"
  /\ notify' = (at.step # "open")
  /\ UNCHANGED <<answerOf, typed, saying, buf, overflow, visit, run>>

-----------------------------------------------------------------------------
(* clean.go.                                                               *)

\* Normalize: an overwritten line goes, and so does one of nothing but escapes.
Shown(b) ==
  LET out[k \in 0..Len(b)] ==
        IF k = 0 THEN <<>>
        ELSE IF b[k].kind \notin {"gate", "blank"} THEN Append(out[k - 1], b[k]) ELSE out[k - 1]
  IN out[Len(b)]

LastLine(b) ==
  LET seen == {i \in DOMAIN b : b[i].kind # "blank"}
  IN IF seen = {} THEN None ELSE b[Max(seen)].kind

EndsAtPrompt(b) == LastLine(b) \in {"prompt", "lookalike"}

\* StripEchoAndPrompt.
Strip(b, c) ==
  LET told == {i \in DOMAIN b : b[i].kind \notin {"prompt", "lookalike"}}
      kept == IF told = {} THEN <<>> ELSE SubSeq(b, 1, Max(told))
  IN IF kept # <<>> /\ Head(kept) = Line(c, "echo") THEN Tail(kept) ELSE kept

-----------------------------------------------------------------------------
(* The visit: the shell opened, the platform named, the captures in turn.  *)

Failed == [ok |-> FALSE, lines |-> <<>>]
Kinds(o) == {o.lines[i].kind : i \in DOMAIN o.lines}
Rejected(o) == "reject" \in Kinds(o)

Capture(j) == IF j > Len(Captures) THEN [step |-> "done", n |-> 0] ELSE [step |-> "capture", n |-> j]
Probe(k) == [step |-> IF Probes[k].paging = None THEN "version" ELSE "paging", n |-> k]

CommandAt(p) ==
  CASE p.step = "paging" -> Probes[p.n].paging
    [] p.step = "version" -> Probes[p.n].version
    [] p.step = "capture" -> Captures[p.n]

Proceed(place, name) == at' = place /\ platform' = name /\ UNCHANGED results

\* The table is exhausted, or goes on.
NextProbe(k) ==
  IF k = Len(Probes) THEN Proceed(Capture(1), "unknown") ELSE Proceed(Probe(k + 1), None)

Stop == Proceed([step |-> "failed", n |-> 0], None)

Classified(o, k) == Kinds(o) \cap Probes[k].names

\* A version command answered: its platform, or the next probe.
Versioned(o, k) ==
  IF Rejected(o) \/ Classified(o, k) = {} THEN NextProbe(k)
  ELSE \E name \in Classified(o, k) : Proceed(Capture(1), name)

\* A fingerprint that does not mind what the paging command was answered.
FingerprintAnyPaging(o) ==
  LET k == at.n
  IN CASE ~o.ok -> Stop
       [] at.step = "paging" /\ o.ok -> Proceed([step |-> "version", n |-> k], None)
       [] at.step = "version" /\ o.ok -> Versioned(o, k)

\* Fingerprint: a refused paging command is the wrong family.
Fingerprint(o) ==
  LET k == at.n
  IN CASE ~o.ok -> Stop
       [] at.step = "paging" /\ o.ok ->
            IF Rejected(o) THEN NextProbe(k) ELSE Proceed([step |-> "version", n |-> k], None)
       [] at.step = "version" /\ o.ok -> Versioned(o, k)

\* FingerprintAs: the same two commands, and the name is what was given.
FingerprintAs(o) ==
  IF ~o.ok THEN Stop
  ELSE IF at.step = "paging" THEN Proceed([step |-> "version", n |-> forced], None)
  ELSE \E name \in Probes[forced].names : Proceed(Capture(1), name)

\* A capture that fails leaves the session to the next one.
After(o) ==
  CASE at.step = "login" ->
         IF o.ok THEN Proceed(Probe(IF forced = 0 THEN 1 ELSE forced), None) ELSE Stop
    [] at.step \in {"paging", "version"} ->
         IF forced = 0 THEN Fingerprint(o) ELSE FingerprintAs(o)
    [] at.step = "capture" ->
         /\ at' = Capture(at.n + 1)
         /\ results' = [results EXCEPT ![at.n] = o]
         /\ UNCHANGED platform

-----------------------------------------------------------------------------
(* Open: a channel, a PTY and a shell, each a request the device answers.  *)

\* The next request; after the third the readers start, and the banner is read.
Granted ==
  /\ at.step = "open" /\ mode = "up"
  /\ \/ /\ at.n < 3 /\ at' = [at EXCEPT !.n = @ + 1]
        /\ UNCHANGED <<saying, loop>>
     \/ /\ at.n = 3 /\ at' = [step |-> "login", n |-> 0]
        /\ saying' = Append(Body(Login), EndLine(Login))
        /\ loop' = "look"
  /\ UNCHANGED <<answerOf, mode, typed, stream, cmd, platform, results, slipped, run>>

\* Refused, or the connection lost.
OpenEnds ==
  /\ at.step = "open" /\ Stop
  /\ UNCHANGED <<device, stream, loop, cmd, slipped, run>>

OpenLost == mode = "gone" /\ OpenEnds

-----------------------------------------------------------------------------
(* expect and RunWith.                                                     *)

Running == loop = "idle" /\ at.step \notin {"open", "done", "failed"}

\* The command starts without the last one's overflow; what is left in the
\* buffer stays.
RunWith ==
  /\ Running /\ ~cancelled
  /\ cmd' = CommandAt(at)
  /\ overflow' = FALSE
  /\ loop' = "sending"
  /\ UNCHANGED <<device, buf, notify, at, platform, results, slipped, run>>

\* Cancelled before sending.
RunRefused ==
  /\ Running /\ cancelled
  /\ After(Failed)
  /\ UNCHANGED <<device, stream, loop, cmd, slipped, run>>

ReadEnds(o) == loop' = "idle" /\ After(o) /\ UNCHANGED <<cmd, run>>

\* The device takes what is written.
Sent ==
  /\ loop = "sending" /\ loop' = "look"
  /\ typed' = Append(typed, [of |-> cmd, kind |-> "command"])
  /\ UNCHANGED <<answerOf, mode, saying, stream, cmd, at, platform, results, slipped, run>>

\* The connection is lost under a write, of a command or of a key.
SendFails ==
  /\ loop \in {"sending", "keying"} /\ mode = "gone"
  /\ ReadEnds(Failed) /\ slipped' = (slipped \/ loop = "keying")
  /\ UNCHANGED <<device, stream>>

\* A read that hands over what it has, too much or not.
PromptSeenAnyway ==
  /\ loop = "look" /\ EndsAtPrompt(buf)
  /\ ReadEnds([ok |-> TRUE, lines |-> Strip(Shown(buf), cmd)])
  /\ slipped' = (slipped \/ LastLine(buf) # "prompt")
  /\ buf' = <<>>
  /\ UNCHANGED <<device, overflow, notify>>

PromptSeen ==
  /\ loop = "look" /\ EndsAtPrompt(buf)
  /\ ReadEnds(IF overflow THEN Failed ELSE [ok |-> TRUE, lines |-> Strip(Shown(buf), cmd)])
  /\ slipped' = (slipped \/ LastLine(buf) # "prompt")
  /\ buf' = <<>>
  /\ UNCHANGED <<device, overflow, notify>>

Waiting(l) == Len(SelectSeq(l, LAMBDA t : t = Space))

\* No prompt: the lock is let go, a gate is written a key, and the wait is next,
\* unless the reader has failed.
NoPrompt ==
  /\ loop = "look" /\ ~EndsAtPrompt(buf) /\ mode # "gone"
  /\ loop' = IF LastLine(buf) = "gate" THEN "keying" ELSE "looked"
  /\ UNCHANGED <<device, stream, cmd, at, platform, results, slipped, run>>

KeySent ==
  /\ loop = "keying" /\ loop' = "looked"
  /\ typed' = IF Waiting(typed) < MaxKeys THEN Append(typed, Space) ELSE typed
  /\ UNCHANGED <<answerOf, mode, saying, stream, cmd, at, platform, results, slipped, run>>

Select ==
  /\ loop = "looked" /\ loop' = "wait"
  /\ UNCHANGED <<device, stream, cmd, at, platform, results, slipped, run>>

SessionClosed ==
  /\ loop = "look" /\ ~EndsAtPrompt(buf) /\ mode = "gone"
  /\ ReadEnds(Failed) /\ slipped' = TRUE
  /\ UNCHANGED <<device, stream>>

Wake ==
  /\ loop = "wait" /\ notify
  /\ notify' = FALSE /\ loop' = "look"
  /\ UNCHANGED <<device, buf, overflow, cmd, at, platform, results, slipped, run>>

\* A deadline that runs from the first byte.
GiveUpOnceHeard ==
  /\ loop = "wait" /\ buf # <<>>
  /\ ReadEnds(Failed) /\ slipped' = TRUE
  /\ UNCHANGED <<device, stream>>

\* The deadline passes, or a cancelled context is seen; the select takes any of
\* its ready cases.
GiveUp ==
  /\ loop = "wait"
  /\ ReadEnds(Failed) /\ slipped' = TRUE
  /\ UNCHANGED <<device, stream>>

Cancel ==
  /\ ~cancelled /\ cancelled' = TRUE
  /\ UNCHANGED <<device, stream, visit, forced>>

Expect == PromptSeen \/ NoPrompt \/ Select \/ SessionClosed \/ Wake \/ GiveUp

Next ==
  \/ DeviceReads \/ KeyHit \/ DeviceWrites \/ Hangup
  \/ Granted \/ OpenEnds
  \/ RunWith \/ RunRefused \/ Sent \/ KeySent \/ SendFails \/ Expect \/ Cancel

\* The goroutine of the visit goes on, its timers fire, and what waits on a lost
\* connection is told.  Of the device nothing is assumed, not that it answers a
\* request nor that it takes what is written.
Fairness == WF_vars(RunWith \/ RunRefused \/ Expect \/ OpenLost \/ SendFails)

Spec == Init /\ [][Next]_vars /\ Fairness

-----------------------------------------------------------------------------
(* Properties.                                                             *)

Whole(c) == Shown(Body(c))

\* While every read has ended at the prompt it was for, a capture that is
\* answered is answered whole, with nothing of another command, echo or prompt:
\* through gates, through answers too long to keep, through probes refused.
AnswerIsWhole ==
  ~slipped => \A j \in DOMAIN Captures :
    results[j] # None /\ results[j].ok => results[j].lines = Whole(Captures[j])

\* A prompt that has arrived is looked at before the deadline: the read does not
\* sleep on it.
PromptWakes == loop = "wait" /\ EndsAtPrompt(buf) => notify

\* By the time captures are sent the platform that was detected is the one the
\* device answers as, and it has taken that platform's paging command.
PlatformIsTheDevices ==
  at.step = "capture" /\ ~slipped /\ forced = 0 /\ platform \notin {None, "unknown"} =>
    \E k \in DOMAIN Probes :
      /\ platform \in Probes[k].names
      /\ \E i \in DOMAIN answerOf[Probes[k].version] : answerOf[Probes[k].version][i] = platform
      /\ Probes[k].paging # None =>
           \A i \in DOMAIN answerOf[Probes[k].paging] : answerOf[Probes[k].paging][i] # "reject"

\* A request to open the shell, or a write, that the device holds while connected.
OnDevice == (at.step = "open" \/ loop \in {"sending", "keying"}) /\ mode # "gone"

\* A visit ends, with every capture accounted for, whatever a device sends, withholds
\* or drops, unless it holds for ever one of the calls that have no deadline.
VisitEnds ==
  \/ <>[]OnDevice
  \/ <>(at.step = "failed" \/ (at.step = "done" /\ \A j \in DOMAIN results : results[j] # None))
=============================================================================
