---------------------------- MODULE NetSessionProofs ----------------------------
(***************************************************************************)
(* What a visit is told, for every probe table, device, limit and reader.  *)
(* The invariant says where the stream is: quiet, a command on its way, its*)
(* answer flowing through the buffer, or a device that has wedged over it. *)
(* It holds while no read has ended without its prompt; after that a late  *)
(* answer may be taken for the next command's, and only the types remain.  *)
(*                                                                         *)
(* Shown is a recursive function over the buffer.  Its value is proved to  *)
(* exist, and its properties to hold at every length, by the least length  *)
(* at which they do not.                                                   *)
(***************************************************************************)
EXTENDS NetSession, FiniteSetTheorems, SequenceTheorems, WellFoundedInduction, TLAPS

\* What is typed: a command, or the key that a gate waits for.
Command(c) == [of |-> c, kind |-> "command"]
Typed == {Command(c) : c \in Commands} \cup {Space}
Said == [of: Commands \cup {Login}, kind: Sorts]
Outcome == [ok: BOOLEAN, lines: Seq(Said)]

Places ==
  [step: {"paging", "version"}, n: DOMAIN Probes] \cup [step: {"capture"}, n: DOMAIN Captures]
    \cup [step: {"login", "done", "failed"}, n: {0}] \cup [step: {"open"}, n: 1..3]

SessionType ==
  /\ answerOf \in Devices
  /\ mode \in {"up", "gate", "wedged", "gone"}
  /\ typed \in Seq(Typed) /\ saying \in Seq(Said) /\ buf \in Seq(Said)
  /\ overflow \in BOOLEAN /\ slipped \in BOOLEAN
  /\ loop \in {"sending", "look", "keying", "looked", "wait", "idle"}
  /\ at \in Places /\ forced \in Named
  /\ results \in [DOMAIN Captures -> Outcome \cup {None}]

\* A read is for the command of where the visit is.
ReadsFor ==
  /\ at.step = "paging" => Probes[at.n].paging # None
  /\ at.step = "open" => cmd = Login
  /\ loop \in {"idle", "sending"} => at.step # "login"
  /\ loop # "idle" => /\ at.step \notin {"open", "done", "failed"}
                      /\ at.step = "login" => cmd = Login
                      /\ at.step # "login" => cmd = CommandAt(at) /\ cmd \in Commands

\* The whole answer to a command, from its echo to the prompt; the greeting has
\* no echo.
Full ==
  IF at.step = "login" THEN Append(Body(cmd), EndLine(cmd))
  ELSE <<Line(cmd, "echo")>> \o Append(Body(cmd), EndLine(cmd))

\* What has arrived and is still kept is the last of what has been sent, all of it
\* unless it was too much, and what is to come is the rest.
Flows(f, b, rest, cut) ==
  LET sent == Len(f) - Len(rest)
      lost == sent - Len(b)
  IN /\ lost >= 0 /\ (~cut => lost = 0)
     /\ \A i \in 1..Len(b) : b[i] = f[lost + i]
     /\ \A i \in 1..Len(rest) : rest[i] = f[sent + i]

Keys(l) == \A i \in 1..Len(l) : l[i] = Space

\* The command is on its way, is being answered, or has wedged the device.
Untaken ==
  /\ buf = <<>> /\ saying = <<>> /\ ~overflow /\ mode \in {"up", "gone"}
  /\ typed # <<>> /\ typed[Len(typed)] = Command(cmd)
  /\ \A i \in 1..(Len(typed) - 1) : typed[i] = Space

Answering ==
  /\ Keys(typed) /\ Flows(Full, buf, saying, overflow)
  /\ mode \in {"up", "gate", "gone"} /\ (mode = "gate" => saying # <<>>)

Stuck ==
  /\ Keys(typed) /\ mode \in {"wedged", "gone"}
  /\ \A i \in 1..Len(buf) : buf[i].kind \in {"echo", "text"}
  /\ \A i \in 1..Len(saying) : saying[i].kind \in {"echo", "text"}

\* Nothing is under way, and nothing of a command has been typed.
Quiet == buf = <<>> /\ saying = <<>> /\ Keys(typed) /\ mode \in {"up", "gone"}

Stream ==
  /\ loop = "idle" => Quiet
  /\ loop = "sending" => Quiet /\ ~overflow /\ at.step # "login"
  /\ loop \notin {"idle", "sending"} =>
       \/ at.step # "login" /\ ((loop # "keying" /\ Untaken) \/ Stuck)
       \/ Answering

\* The device has taken the paging command of a probe, or there is none.
Took(k) ==
  Probes[k].paging # None =>
    \A i \in DOMAIN answerOf[Probes[k].paging] : answerOf[Probes[k].paging][i] # "reject"

Tells ==
  /\ \A j \in DOMAIN Captures : results[j] # None /\ results[j].ok => results[j].lines = Whole(Captures[j])
  /\ forced = 0 /\ at.step = "version" => Took(at.n)
  /\ forced = 0 /\ at.step = "capture" /\ platform \notin {None, "unknown"} =>
       \E k \in DOMAIN Probes :
         /\ platform \in Probes[k].names /\ Took(k)
         /\ \E i \in DOMAIN answerOf[Probes[k].version] : answerOf[Probes[k].version][i] = platform

SessionInv == SessionType /\ ReadsFor /\ (~slipped => Stream /\ Tells)

-----------------------------------------------------------------------------
(* What Normalize shows of a stream.                                       *)

\* The least element of a set of naturals: the library's well-founded order of
\* the subsets of a finite set, on the intervals.
LEMMA LeastNat ==
  ASSUME NEW T \in SUBSET Nat, T # {}
  PROVE  \E n \in T : \A m \in T : n <= m
  <1>1. PICK top \in T : TRUE
    OBVIOUS
  <1> DEFINE U == 1..top
             below == {n \in T : n <= top}
             spans == {1..n : n \in below}
             R == StrictSubsetOrdering(U)
  <1>2. IsWellFoundedOn(R, SUBSET U)
    <2>1. IsFiniteSet(U)
      BY FS_Interval
    <2> HIDE DEF U
    <2> QED BY <2>1, FS_StrictSubsetOrderingWellFounded, FS_FiniteSubsetsOfFinite
  <1>3. spans \subseteq SUBSET U /\ spans # {}
    BY <1>1
  <1>4. \A x, y \in spans : y \subseteq x /\ y # x => <<y, x>> \in R
    BY <1>3 DEF StrictSubsetOrdering
  <1> HIDE DEF R, spans, U
  <1>5. PICK x \in spans : \A y \in spans : <<y, x>> \notin R
    BY <1>2, <1>3, WFMin
  <1>6. PICK n \in below : x = 1..n
    BY DEF spans
  <1>7. \A m \in below : ~(m < n)
    <2> SUFFICES ASSUME NEW m \in below, m < n PROVE FALSE
      OBVIOUS
    <2>0. m \in Nat /\ n \in Nat
      OBVIOUS
    <2>1. 1..m \in spans
      BY DEF spans
    <2>2. 1..m \subseteq x /\ n \in x /\ n \notin 1..m
      BY <1>6, <2>0
    <2> QED BY <1>4, <1>5, <2>1, <2>2
  <1>8. n \in T /\ n <= top /\ n \in Nat
    OBVIOUS
  <1>9. ASSUME NEW m \in T
        PROVE  n <= m
    <2>1. m \in Nat /\ top \in Nat
      BY <1>1
    <2>2. CASE m <= top
      BY <1>7, <1>8, <2>1, <2>2
    <2>3. CASE ~(m <= top)
      BY <1>8, <2>1, <2>3
    <2> QED BY <2>2, <2>3
  <1> QED BY <1>8, <1>9

Visible(l) == l.kind \notin {"gate", "blank"}

\* What the loop of Shown has kept after each of the first n lines.
Keeps(out, b, n) ==
  out = [k \in 0..n |-> IF k = 0 THEN <<>>
                        ELSE IF b[k].kind \notin {"gate", "blank"} THEN Append(out[k - 1], b[k])
                        ELSE out[k - 1]]

LEMMA KeepsStep ==
  ASSUME NEW b, NEW n \in Nat, NEW out, Keeps(out, b, n)
  PROVE  /\ out[0] = <<>>
         /\ \A k \in 1..n : out[k] = IF Visible(b[k]) THEN Append(out[k - 1], b[k]) ELSE out[k - 1]
  <1>1. SUFFICES ASSUME NEW k \in 0..n
                 PROVE  out[k] = IF k = 0 THEN <<>>
                                 ELSE IF Visible(b[k]) THEN Append(out[k - 1], b[k])
                                 ELSE out[k - 1]
    <2>1. 0 \in 0..n /\ 1..n \subseteq 0..n /\ 0 \notin 1..n
      OBVIOUS
    <2> QED BY <2>1
  <1> DEFINE g == [j \in 0..n |-> IF j = 0 THEN <<>>
                                  ELSE IF b[j].kind \notin {"gate", "blank"} THEN Append(out[j - 1], b[j])
                                  ELSE out[j - 1]]
  <1>2. out = g
    BY DEF Keeps
  <1>3. g[k] = IF k = 0 THEN <<>>
               ELSE IF b[k].kind \notin {"gate", "blank"} THEN Append(out[k - 1], b[k]) ELSE out[k - 1]
    OBVIOUS
  <1> HIDE DEF g
  <1> QED BY <1>2, <1>3 DEF Visible

\* The loop runs to its end: it is defined for every number of lines.
LEMMA KeepsExists ==
  ASSUME NEW b, NEW n \in Nat
  PROVE  \E out : Keeps(out, b, n)
  <1> DEFINE T == {k \in Nat : ~\E out : Keeps(out, b, k)}
  <1>1. SUFFICES ASSUME T # {} PROVE FALSE
    OBVIOUS
  <1>2. PICK k \in T : \A j \in T : k <= j
    <2>1. T \in SUBSET Nat
      OBVIOUS
    <2> HIDE DEF T
    <2> QED BY <1>1, <2>1, LeastNat
  <1>3. k # 0
    <2> DEFINE g == [j \in 0..0 |-> <<>>]
    <2>1. g = [j \in 0..0 |-> IF j = 0 THEN <<>>
                              ELSE IF b[j].kind \notin {"gate", "blank"} THEN Append(g[j - 1], b[j])
                              ELSE g[j - 1]]
      OBVIOUS
    <2> HIDE DEF g
    <2>2. Keeps(g, b, 0)
      BY <2>1 DEF Keeps
    <2> QED BY <2>2
  <1>4. k \in Nat /\ k - 1 \in Nat /\ ~(k <= k - 1)
    BY <1>3
  <1>5. PICK f : Keeps(f, b, k - 1)
    BY <1>2, <1>4
  <1> DEFINE last == IF Visible(b[k]) THEN Append(f[k - 1], b[k]) ELSE f[k - 1]
             g == [j \in 0..k |-> IF j = k THEN last ELSE f[j]]
             h == [j \in 0..k |-> IF j = 0 THEN <<>>
                                  ELSE IF b[j].kind \notin {"gate", "blank"} THEN Append(g[j - 1], b[j])
                                  ELSE g[j - 1]]
  <1>6. \A j \in 0..k : g[j] = h[j]
    <2> SUFFICES ASSUME NEW j \in 0..k PROVE g[j] = h[j]
      OBVIOUS
    <2>1. g[j] = IF j = k THEN last ELSE f[j]
      OBVIOUS
    <2>2. j # 0 => g[j - 1] = f[j - 1]
      BY <1>4
    <2>3. h[j] = IF j = 0 THEN <<>> ELSE IF Visible(b[j]) THEN Append(g[j - 1], b[j]) ELSE g[j - 1]
      BY DEF Visible
    <2>4. f[0] = <<>>
      BY <1>4, <1>5, KeepsStep
    <2>5. ASSUME j # k, j # 0
          PROVE  f[j] = IF Visible(b[j]) THEN Append(f[j - 1], b[j]) ELSE f[j - 1]
      <3>1. j \in 1..(k - 1)
        BY <1>4, <2>5
      <3> QED BY <1>4, <1>5, <3>1, KeepsStep
    <2>6. last = IF Visible(b[k]) THEN Append(f[k - 1], b[k]) ELSE f[k - 1]
      OBVIOUS
    <2> HIDE DEF g, h, last
    <2> QED BY <1>3, <2>1, <2>2, <2>3, <2>4, <2>5, <2>6
  <1>7. g = h
    BY <1>6
  <1> HIDE DEF g, last
  <1>8. Keeps(g, b, k)
    BY <1>7 DEF Keeps
  <1> QED BY <1>2, <1>8

LEMMA ShownIsKept ==
  ASSUME NEW b, Len(b) \in Nat
  PROVE  \E out : Keeps(out, b, Len(b)) /\ Shown(b) = out[Len(b)]
  <1> DEFINE f == CHOOSE out : Keeps(out, b, Len(b))
  <1>1. Shown(b) = f[Len(b)]
    BY DEF Shown, Keeps
  <1>2. \E out : Keeps(out, b, Len(b))
    BY KeepsExists
  <1> QED BY <1>1, <1>2

\* What is shown of the first k lines: those that are visible, the last one last.
Extracts(h, b, k) ==
  /\ h \in Seq(Said)
  /\ \A j \in 1..Len(h) : \E i \in 1..k : h[j] = b[i]
  /\ \A i \in 1..k : Visible(b[i]) => \E j \in 1..Len(h) : h[j] = b[i]
  /\ h # <<>> => \E i \in 1..k : /\ h[Len(h)] = b[i] /\ Visible(b[i])
                                 /\ \A j \in (i + 1)..k : ~Visible(b[j])

LEMMA AllKept ==
  ASSUME NEW b \in Seq(Said), NEW out, Keeps(out, b, Len(b))
  PROVE  \A k \in 0..Len(b) : Extracts(out[k], b, k)
  <1> DEFINE T == {k \in 0..Len(b) : ~Extracts(out[k], b, k)}
  <1>1. SUFFICES ASSUME T # {} PROVE FALSE
    OBVIOUS
  <1>2. PICK k \in T : \A j \in T : k <= j
    <2>1. T \in SUBSET Nat
      OBVIOUS
    <2> HIDE DEF T
    <2> QED BY <1>1, <2>1, LeastNat
  <1>3. k # 0
    <2>1. out[0] = <<>>
      BY KeepsStep
    <2>2. Extracts(<<>>, b, 0)
      BY DEF Extracts
    <2> QED BY <1>2, <2>1, <2>2
  <1>4. k \in 1..Len(b) /\ k - 1 \in 0..Len(b) /\ ~(k <= k - 1) /\ b[k] \in Said /\ k \in Nat
    BY <1>2, <1>3
  <1>5. Extracts(out[k - 1], b, k - 1)
    BY <1>2, <1>4
  <1> DEFINE h == out[k - 1]
  <1>6. out[k] = IF Visible(b[k]) THEN Append(h, b[k]) ELSE h
    BY <1>4, KeepsStep
  <1>7. Extracts(h, b, k - 1)
    BY <1>5
  <1> HIDE DEF h
  <1>8. CASE Visible(b[k])
    <2> DEFINE g == Append(h, b[k])
    <2>1. /\ g \in Seq(Said) /\ Len(g) = Len(h) + 1 /\ Len(h) \in Nat /\ g[Len(g)] = b[k]
          /\ \A j \in 1..Len(h) : g[j] = h[j]
      BY <1>4, <1>7 DEF Extracts
    <2> HIDE DEF g
    <2>2. \A j \in 1..Len(g) : \E i \in 1..k : g[j] = b[i]
      <3> SUFFICES ASSUME NEW j \in 1..Len(g) PROVE \E i \in 1..k : g[j] = b[i]
        OBVIOUS
      <3>1. CASE j = Len(g)
        BY <1>4, <2>1, <3>1
      <3>2. CASE j # Len(g)
        <4>1. j \in 1..Len(h)
          BY <2>1, <3>2
        <4>2. PICK i \in 1..(k - 1) : h[j] = b[i]
          BY <1>7, <4>1 DEF Extracts
        <4> QED BY <1>4, <2>1, <4>1, <4>2
      <3> QED BY <3>1, <3>2
    <2>3. \A i \in 1..k : Visible(b[i]) => \E j \in 1..Len(g) : g[j] = b[i]
      <3> SUFFICES ASSUME NEW i \in 1..k, Visible(b[i]) PROVE \E j \in 1..Len(g) : g[j] = b[i]
        OBVIOUS
      <3>1. CASE i = k
        BY <2>1, <3>1
      <3>2. CASE i # k
        <4>1. i \in 1..(k - 1)
          BY <1>4, <3>2
        <4>2. PICK j \in 1..Len(h) : h[j] = b[i]
          BY <1>7, <4>1 DEF Extracts
        <4> QED BY <2>1, <4>2
      <3> QED BY <3>1, <3>2
    <2>4. \A j \in (k + 1)..k : ~Visible(b[j])
      BY <1>4
    <2>5. Extracts(g, b, k)
      <3>1. k \in 1..k /\ g[Len(g)] = b[k] /\ Visible(b[k])
        BY <1>4, <1>8, <2>1
      <3>2. g # <<>> => \E i \in 1..k : /\ g[Len(g)] = b[i] /\ Visible(b[i])
                                       /\ \A j \in (i + 1)..k : ~Visible(b[j])
        BY <2>4, <3>1
      <3> QED BY <2>1, <2>2, <2>3, <3>2 DEF Extracts
    <2> QED BY <1>2, <1>6, <1>8, <2>5 DEF g
  <1>9. CASE ~Visible(b[k])
    <2>1. Extracts(h, b, k)
      <3>1. \A j \in 1..Len(h) : \E i \in 1..k : h[j] = b[i]
        BY <1>4, <1>7 DEF Extracts
      <3>2. \A i \in 1..k : Visible(b[i]) => \E j \in 1..Len(h) : h[j] = b[i]
        BY <1>4, <1>7, <1>9 DEF Extracts
      <3>3. h # <<>> => \E i \in 1..k : /\ h[Len(h)] = b[i] /\ Visible(b[i])
                                       /\ \A j \in (i + 1)..k : ~Visible(b[j])
        <4> SUFFICES ASSUME h # <<>>
                     PROVE \E i \in 1..k : /\ h[Len(h)] = b[i] /\ Visible(b[i])
                                           /\ \A j \in (i + 1)..k : ~Visible(b[j])
          OBVIOUS
        <4>1. PICK i \in 1..(k - 1) : /\ h[Len(h)] = b[i] /\ Visible(b[i])
                                      /\ \A j \in (i + 1)..(k - 1) : ~Visible(b[j])
          BY <1>7 DEF Extracts
        <4>2. \A j \in (i + 1)..k : ~Visible(b[j])
          BY <1>4, <1>9, <4>1
        <4> QED BY <1>4, <4>1, <4>2
      <3> QED BY <1>7, <3>1, <3>2, <3>3 DEF Extracts
    <2> QED BY <1>2, <1>6, <1>9, <2>1
  <1> QED BY <1>8, <1>9

\* Between an echo and a prompt, what is shown is what is shown of the body.
LEMMA ShownWhole ==
  ASSUME NEW b \in Seq(Said), NEW e \in Said, NEW p \in Said, Visible(e), Visible(p)
  PROVE  Shown(<<e>> \o Append(b, p)) = <<e>> \o Append(Shown(b), p)
  <1> DEFINE f == <<e>> \o Append(b, p)
             n == Len(b)
  <1>1. /\ f \in Seq(Said) /\ Len(f) = n + 2 /\ n \in Nat
        /\ f[1] = e /\ f[n + 2] = p /\ \A i \in 1..n : f[i + 1] = b[i]
    <2>1. Append(b, p) \in Seq(Said) /\ Len(Append(b, p)) = n + 1 /\ n \in Nat
          /\ Append(b, p)[n + 1] = p /\ \A i \in 1..n : Append(b, p)[i] = b[i]
      OBVIOUS
    <2>2. <<e>> \in Seq(Said) /\ Len(<<e>>) = 1 /\ <<e>>[1] = e
      OBVIOUS
    <2> DEFINE t == Append(b, p)
               s == <<e>>
    <2> HIDE DEF t, s
    <2>3. s \o t \in Seq(Said) /\ Len(s \o t) = Len(s) + Len(t)
          /\ \A i \in 1..(Len(s) + Len(t)) : (s \o t)[i] = IF i <= Len(s) THEN s[i] ELSE t[i - Len(s)]
      BY <2>1, <2>2, ConcatProperties DEF s, t
    <2>4. f = s \o t
      BY DEF s, t
    <2>5. Len(t) = n + 1 /\ n \in Nat /\ t[n + 1] = p /\ Len(s) = 1 /\ s[1] = e
          /\ \A i \in 1..n : t[i] = b[i]
      BY <2>1, <2>2 DEF s, t
    <2> HIDE DEF f, n
    <2>6. \A i \in 1..n : f[i + 1] = t[i]
      BY <2>3, <2>4, <2>5
    <2>7. f[n + 2] = t[n + 1] /\ f[1] = s[1]
      BY <2>3, <2>4, <2>5
    <2> QED BY <2>3, <2>4, <2>5, <2>6, <2>7
  <1> HIDE DEF f
  <1>2. PICK g : Keeps(g, f, Len(f)) /\ Shown(f) = g[Len(f)]
    BY <1>1, ShownIsKept
  <1>3. PICK h : Keeps(h, b, n) /\ Shown(b) = h[n]
    BY <1>1, ShownIsKept
  <1>4. /\ g[0] = <<>>
        /\ \A k \in 1..(n + 2) : g[k] = IF Visible(f[k]) THEN Append(g[k - 1], f[k]) ELSE g[k - 1]
    BY <1>1, <1>2, KeepsStep
  <1>5. /\ h[0] = <<>>
        /\ \A k \in 1..n : h[k] = IF Visible(b[k]) THEN Append(h[k - 1], b[k]) ELSE h[k - 1]
    BY <1>1, <1>3, KeepsStep
  <1>6. \A k \in 0..n : h[k] \in Seq(Said)
    BY <1>3, AllKept DEF Extracts
  <1> HIDE DEF n
  <1>7. g[1] = <<e>>
    <2>1. 1 \in 1..(n + 2) /\ 1 - 1 = 0
      BY <1>1
    <2>2. g[1] = Append(g[0], e)
      BY <1>1, <1>4, <2>1
    <2>3. Append(<<>>, e) = <<e>>
      OBVIOUS
    <2> QED BY <1>4, <2>2, <2>3
  <1> DEFINE T == {k \in 0..n : g[k + 1] # <<e>> \o h[k]}
  <1>8. T = {}
    <2>1. SUFFICES ASSUME T # {} PROVE FALSE
      OBVIOUS
    <2>2. PICK k \in T : \A j \in T : k <= j
      <3>1. T \in SUBSET Nat
        BY <1>1
      <3> HIDE DEF T
      <3> QED BY <2>1, <3>1, LeastNat
    <2>3. k # 0
      <3>1. <<e>> \o <<>> = <<e>>
        OBVIOUS
      <3>2. <<e>> \o h[0] = g[1]
        BY <1>5, <1>7, <3>1
      <3>3. k = 0 => g[0 + 1] # <<e>> \o h[0]
        BY <2>2
      <3> QED BY <3>2, <3>3
    <2>4. k \in 1..n /\ k - 1 \in 0..n /\ ~(k <= k - 1) /\ k + 1 \in 1..(n + 2) /\ k \in Nat
      BY <1>1, <2>2, <2>3
    <2>5. g[k] = <<e>> \o h[k - 1]
      BY <2>2, <2>4
    <2>6. g[k + 1] = IF Visible(b[k]) THEN Append(g[k], b[k]) ELSE g[k]
      BY <1>1, <1>4, <2>4
    <2>7. h[k] = IF Visible(b[k]) THEN Append(h[k - 1], b[k]) ELSE h[k - 1]
      BY <1>5, <2>4
    <2>8. Append(<<e>> \o h[k - 1], b[k]) = <<e>> \o Append(h[k - 1], b[k])
      <3>1. h[k - 1] \in Seq(Said) /\ b[k] \in Said
        BY <1>6, <2>4 DEF n
      <3>2. ASSUME NEW x \in Seq(Said), NEW y \in Said
            PROVE  Append(<<e>> \o x, y) = <<e>> \o Append(x, y)
        OBVIOUS
      <3> QED BY <3>1, <3>2
    <2> QED BY <2>2, <2>5, <2>6, <2>7, <2>8
  <1>9. g[n + 1] = <<e>> \o h[n] /\ h[n] \in Seq(Said)
    <2>1. n \in 0..n
      BY <1>1
    <2>2. g[n + 1] = <<e>> \o h[n]
      BY <1>8, <2>1
    <2>3. h[n] \in Seq(Said)
      BY <1>6, <2>1
    <2> QED BY <2>2, <2>3
  <1>10. g[n + 2] = Append(g[n + 1], p)
    <2>1. n + 2 \in 1..(n + 2) /\ (n + 2) - 1 = n + 1
      BY <1>1
    <2> QED BY <1>1, <1>4, <2>1
  <1>11. Append(<<e>> \o h[n], p) = <<e>> \o Append(h[n], p)
    <2>1. ASSUME NEW x \in Seq(Said)
          PROVE  Append(<<e>> \o x, p) = <<e>> \o Append(x, p)
      OBVIOUS
    <2> QED BY <1>9, <2>1
  <1> QED BY <1>1, <1>2, <1>3, <1>9, <1>10, <1>11 DEF f

\* What StripEchoAndPrompt leaves of an echo, a text and a prompt is the text.
LEMMA Stripped ==
  ASSUME NEW c, NEW h \in Seq(Said), Line(c, "echo") \in Said, NEW p \in Said, p.kind = "prompt",
         h # <<>> => h[Len(h)].kind \notin {"prompt", "lookalike"}
  PROVE  Strip(<<Line(c, "echo")>> \o Append(h, p), c) = h
  <1> DEFINE e == Line(c, "echo")
             s == <<e>> \o Append(h, p)
             n == Len(h)
             told == {i \in DOMAIN s : s[i].kind \notin {"prompt", "lookalike"}}
  <1>1. /\ s \in Seq(Said) /\ DOMAIN s = 1..(n + 2) /\ Len(s) = n + 2 /\ n \in Nat
        /\ s[1] = e /\ s[n + 2] = p /\ \A i \in 1..n : s[i + 1] = h[i]
    OBVIOUS
  <1>2. e.kind = "echo"
    BY DEF Line
  <1> HIDE DEF s, e
  <1>3. n + 1 \in told /\ \A i \in told : i <= n + 1
    <2>1. s[n + 1].kind \notin {"prompt", "lookalike"}
      <3>1. CASE n = 0
        BY <1>1, <1>2, <3>1
      <3>2. CASE n # 0
        <4>1. s[n + 1] = h[n] /\ h # <<>>
          BY <1>1, <3>2
        <4> QED BY <4>1
      <3> QED BY <3>1, <3>2
    <2> QED BY <1>1, <2>1
  <1>4. told # {} /\ Max(told) = n + 1
    <2>1. \A x \in told : (\A y \in told : x >= y) => x = n + 1
      BY <1>1, <1>3
    <2>2. \A y \in told : n + 1 >= y
      BY <1>1, <1>3
    <2> HIDE DEF told
    <2> QED BY <1>3, <2>1, <2>2 DEF Max
  <1> HIDE DEF told
  <1> DEFINE kept == SubSeq(s, 1, n + 1)
  <1>5. kept \in Seq(Said) /\ Len(kept) = n + 1 /\ \A i \in 1..(n + 1) : kept[i] = s[i]
    <2>1. \A i \in 1..(n + 1) : s[i] \in Said
      BY <1>1
    <2> QED BY <1>1, <2>1, SubSeqProperties
  <1> HIDE DEF kept
  <1>6. kept # <<>> /\ Head(kept) = e
    BY <1>1, <1>5
  <1>7. Tail(kept) = h
    <2>1. Tail(kept) \in Seq(Said) /\ Len(Tail(kept)) = n /\ \A i \in 1..n : Tail(kept)[i] = kept[i + 1]
      BY <1>1, <1>5, <1>6, HeadTailProperties
    <2>2. \A i \in 1..n : Tail(kept)[i] = h[i]
      BY <1>1, <1>5, <2>1
    <2> QED BY <1>1, <2>1, <2>2, SeqEqual
  <1>8. Strip(s, c) = IF kept # <<>> /\ Head(kept) = e THEN Tail(kept) ELSE kept
    BY <1>4 DEF Strip, told, kept, e
  <1>9. Strip(s, c) = h
    BY <1>6, <1>7, <1>8
  <1> QED BY <1>9 DEF s, e

LEMMA BodyTyped ==
  ASSUME answerOf \in Devices, NEW c \in Commands \cup {Login}
  PROVE  /\ Body(c) \in Seq(Said) /\ Len(Body(c)) = Len(answerOf[c]) /\ Len(answerOf[c]) \in Nat
         /\ DOMAIN answerOf[c] = 1..Len(answerOf[c])
         /\ \A i \in 1..Len(answerOf[c]) : /\ Body(c)[i] = Line(c, answerOf[c][i])
                                           /\ Body(c)[i].kind = answerOf[c][i]
                                           /\ answerOf[c][i] \in Sorts \ {"prompt", "echo"}
         /\ Line(c, "echo") \in Said /\ Line(c, "echo").kind = "echo"
         /\ Line(c, "text") \in Said /\ Line(c, "text").kind = "text"
         /\ EndLine(c) \in Said /\ EndLine(c).kind = "prompt"
  <1> DEFINE a == answerOf[c]
  <1>1. a \in Seq(Sorts \ {"prompt", "echo"})
    BY DevicesAssumption
  <1>2. Body(c) = [i \in DOMAIN a |-> Line(c, a[i])]
    BY DEF Body
  <1> HIDE DEF a
  <1>3. /\ Len(a) \in Nat /\ DOMAIN a = 1..Len(a)
        /\ \A i \in 1..Len(a) : a[i] \in Sorts \ {"prompt", "echo"}
    BY <1>1
  <1>4. \A k \in Sorts : Line(c, k) \in Said /\ Line(c, k).kind = k
    BY DEF Line, Said
  <1>5. \A i \in 1..Len(a) : Line(c, a[i]) \in Said /\ Line(c, a[i]).kind = a[i]
    BY <1>3, <1>4
  <1> DEFINE body == Body(c)
  <1> HIDE DEF body
  <1>6. /\ body = [i \in 1..Len(a) |-> Line(c, a[i])]
        /\ \A i \in 1..Len(a) : body[i] = Line(c, a[i])
    BY <1>2, <1>3 DEF body
  <1>7. body \in Seq(Said) /\ Len(body) = Len(a)
    <2>1. body \in [1..Len(a) -> Said]
      BY <1>5, <1>6
    <2> QED BY <1>3, <2>1
  <1>8. /\ Line(c, "echo") \in Said /\ Line(c, "echo").kind = "echo"
        /\ Line(c, "text") \in Said /\ Line(c, "text").kind = "text"
        /\ EndLine(c) \in Said /\ EndLine(c).kind = "prompt"
    <2>1. "echo" \in Sorts /\ "text" \in Sorts /\ "prompt" \in Sorts
      BY DEF Sorts
    <2> QED BY <2>1 DEF Line, EndLine, Said
  <1> QED BY <1>3, <1>5, <1>6, <1>7, <1>8 DEF a, body

\* The whole answer, from the echo to the prompt, is stripped to what it shows.
LEMMA AnswerStripped ==
  ASSUME answerOf \in Devices, NEW c \in Commands
  PROVE  /\ Strip(Shown(<<Line(c, "echo")>> \o Append(Body(c), EndLine(c))), c) = Whole(c)
         /\ Whole(c) \in Seq(Said)
  <1> DEFINE b == Body(c)
             e == Line(c, "echo")
             p == EndLine(c)
             h == Shown(b)
  <1>1. /\ b \in Seq(Said) /\ Len(b) \in Nat
        /\ e \in Said /\ e.kind = "echo" /\ p \in Said /\ p.kind = "prompt"
    BY BodyTyped
  <1>2. Visible(e) /\ Visible(p)
    BY <1>1 DEF Visible
  <1>3. PICK out : Keeps(out, b, Len(b)) /\ h = out[Len(b)]
    BY <1>1, ShownIsKept
  <1>4. Extracts(h, b, Len(b))
    BY <1>1, <1>3, AllKept
  <1>5. h # <<>> => h[Len(h)].kind \notin {"prompt", "lookalike"}
    <2> SUFFICES ASSUME h # <<>> PROVE h[Len(h)].kind \notin {"prompt", "lookalike"}
      OBVIOUS
    <2>1. PICK i \in 1..Len(b) : /\ h[Len(h)] = b[i] /\ Visible(b[i])
                                 /\ \A j \in (i + 1)..Len(b) : ~Visible(b[j])
      BY <1>4 DEF Extracts
    <2>2. /\ DOMAIN answerOf[c] = 1..Len(b)
          /\ \A j \in 1..Len(b) : b[j].kind = answerOf[c][j] /\ answerOf[c][j] # "prompt"
      BY BodyTyped
    <2>3. answerOf[c][i] = "lookalike" =>
            \E j \in DOMAIN answerOf[c] : j > i /\ answerOf[c][j] \notin {"gate", "blank"}
      BY <2>2, DevicesAssumption
    <2>4. answerOf[c][i] # "lookalike"
      <3> SUFFICES ASSUME NEW j \in 1..Len(b), j > i, answerOf[c][j] \notin {"gate", "blank"}
                   PROVE  FALSE
        BY <2>2, <2>3
      <3>1. j \in (i + 1)..Len(b) /\ Visible(b[j])
        BY <1>1, <2>2 DEF Visible
      <3> QED BY <2>1, <3>1
    <2> QED BY <2>1, <2>2, <2>4
  <1>6. Shown(<<e>> \o Append(b, p)) = <<e>> \o Append(h, p)
    BY <1>1, <1>2, ShownWhole
  <1>7. Strip(<<e>> \o Append(h, p), c) = h
    BY <1>1, <1>4, <1>5, Stripped DEF Extracts
  <1>8. h \in Seq(Said)
    BY <1>4 DEF Extracts
  <1> QED BY <1>6, <1>7, <1>8 DEF Whole

\* The kinds of lines in it are those of the device's answer; only what is
\* overwritten or empty is missing.
LEMMA WholeTells ==
  ASSUME answerOf \in Devices, NEW c \in Commands, NEW o, o.lines = Whole(c)
  PROVE  /\ \A k \in Kinds(o) : \E i \in DOMAIN answerOf[c] : answerOf[c][i] = k
         /\ \A i \in DOMAIN answerOf[c] : answerOf[c][i] = "reject" => Rejected(o)
  <1> DEFINE b == Body(c)
             h == Shown(b)
  <1>1. /\ b \in Seq(Said) /\ Len(b) \in Nat /\ DOMAIN answerOf[c] = 1..Len(b)
        /\ \A i \in 1..Len(b) : b[i].kind = answerOf[c][i]
    BY BodyTyped
  <1>2. PICK out : Keeps(out, b, Len(b)) /\ h = out[Len(b)]
    BY <1>1, ShownIsKept
  <1>3. Extracts(h, b, Len(b))
    BY <1>1, <1>2, AllKept
  <1>4. o.lines = h
    BY DEF Whole
  <1> HIDE DEF b, h
  <1>5. h \in Seq(Said) /\ DOMAIN h = 1..Len(h)
    BY <1>3 DEF Extracts
  <1>6. Kinds(o) = {h[j].kind : j \in 1..Len(h)}
    BY <1>4, <1>5 DEF Kinds
  <1>7. \A k \in Kinds(o) : \E i \in DOMAIN answerOf[c] : answerOf[c][i] = k
    <2> SUFFICES ASSUME NEW j \in 1..Len(h) PROVE \E i \in DOMAIN answerOf[c] : answerOf[c][i] = h[j].kind
      BY <1>6
    <2>1. PICK i \in 1..Len(b) : h[j] = b[i]
      BY <1>3 DEF Extracts
    <2> QED BY <1>1, <2>1
  <1>8. ASSUME NEW i \in DOMAIN answerOf[c], answerOf[c][i] = "reject"
        PROVE  Rejected(o)
    <2>1. i \in 1..Len(b) /\ b[i].kind = "reject" /\ Visible(b[i])
      BY <1>1, <1>8 DEF Visible
    <2>2. PICK j \in 1..Len(h) : h[j] = b[i]
      BY <1>3, <2>1 DEF Extracts
    <2> QED BY <1>6, <2>1, <2>2 DEF Rejected
  <1> QED BY <1>7, <1>8

-----------------------------------------------------------------------------
(* The visit goes on.                                                      *)

LEMMA Table ==
  /\ Len(Probes) \in Nat \ {0} /\ DOMAIN Probes = 1..Len(Probes)
  /\ Len(Captures) \in Nat /\ DOMAIN Captures = 1..Len(Captures)
  /\ \A k \in DOMAIN Probes : /\ Probes[k].version \in Commands
                              /\ Probes[k].paging # None => Probes[k].paging \in Commands
  /\ \A j \in DOMAIN Captures : Captures[j] \in Commands
  /\ \A n \in Named : n # 0 => n \in DOMAIN Probes
  <1>1. /\ Len(Probes) \in Nat \ {0} /\ DOMAIN Probes = 1..Len(Probes)
        /\ Len(Captures) \in Nat /\ DOMAIN Captures = 1..Len(Captures)
    BY TableAssumption
  <1>2. \A k \in DOMAIN Probes :
          Probes[k] \in [paging: Commands \cup {None}, version: Commands, names: SUBSET Sorts]
    <2> DEFINE S == [paging: Commands \cup {None}, version: Commands, names: SUBSET Sorts]
    <2>1. Probes \in Seq(S)
      BY TableAssumption
    <2> HIDE DEF S
    <2>2. \A k \in DOMAIN Probes : Probes[k] \in S
      BY <1>1, <2>1, ElementOfSeq
    <2> QED BY <2>2 DEF S
  <1>3. \A j \in DOMAIN Captures : Captures[j] \in Commands
    BY TableAssumption
  <1>4. Named \subseteq 0..Len(Probes)
    BY TableAssumption
  <1> QED BY <1>1, <1>2, <1>3, <1>4

\* The places a visit may go on to.
LEMMA PlacesTyped ==
  /\ \A k \in DOMAIN Probes :
       /\ Probe(k) \in Places /\ Probe(k).n = k /\ Probe(k).step \in {"paging", "version"}
       /\ Probe(k).step = "paging" => Probes[k].paging # None
       /\ Probe(k).step = "version" => Probes[k].paging = None
       /\ [step |-> "version", n |-> k] \in Places
  /\ \A j \in Nat : j > 0 => /\ Capture(j) \in Places /\ Capture(j).step \in {"capture", "done"}
  /\ [step |-> "failed", n |-> 0] \in Places
  <1>1. ASSUME NEW k \in DOMAIN Probes
        PROVE  /\ Probe(k) \in Places /\ Probe(k).n = k /\ Probe(k).step \in {"paging", "version"}
               /\ Probe(k).step = "paging" => Probes[k].paging # None
               /\ Probe(k).step = "version" => Probes[k].paging = None
               /\ [step |-> "version", n |-> k] \in Places
    BY DEF Probe, Places
  <1>2. ASSUME NEW j \in Nat, j > 0
        PROVE  Capture(j) \in Places /\ Capture(j).step \in {"capture", "done"}
    <2>1. CASE j > Len(Captures)
      BY <2>1 DEF Capture, Places
    <2>2. CASE ~(j > Len(Captures))
      <3>1. j \in DOMAIN Captures
        BY <1>2, <2>2, Table
      <3> QED BY <2>2, <3>1 DEF Capture, Places
    <2> QED BY <2>1, <2>2
  <1>3. [step |-> "failed", n |-> 0] \in Places
    BY DEF Places
  <1> QED BY <1>1, <1>2, <1>3

\* Where Fingerprint, FingerprintAs and the captures go on to.
GoesOn(o) ==
  \/ at' = [step |-> "failed", n |-> 0] /\ platform' = None /\ UNCHANGED results
  \/ /\ at.step # "capture" /\ o.ok /\ UNCHANGED results
     /\ \/ \E k \in DOMAIN Probes : at' = Probe(k)
        \/ \E k \in DOMAIN Probes :
             /\ at.step = "paging" /\ at' = [step |-> "version", n |-> k]
             /\ forced = 0 => k = at.n /\ ~Rejected(o)
        \/ at' = Capture(1) /\ at.step = "version" /\ forced = 0 /\ platform' \in Classified(o, at.n)
        \/ at' = Capture(1) /\ (forced # 0 \/ platform' = "unknown")
  \/ at.step = "capture" /\ at' = Capture(at.n + 1) /\ results' = [results EXCEPT ![at.n] = o]
       /\ UNCHANGED platform

LEMMA NextProbeGoes ==
  ASSUME NEW k \in DOMAIN Probes, NextProbe(k)
  PROVE  /\ UNCHANGED results
         /\ (\E j \in DOMAIN Probes : at' = Probe(j)) \/ (at' = Capture(1) /\ platform' = "unknown")
  BY Table DEF NextProbe, Proceed

LEMMA AfterGoes ==
  ASSUME SessionType, NEW o, After(o), o.ok \in BOOLEAN, at.step \notin {"open", "done", "failed"}
  PROVE  GoesOn(o)
  <1>0. at \in Places /\ forced \in Named
    BY DEF SessionType
  <1>1. CASE at.step = "login"
    <2>1. CASE o.ok
      <3> DEFINE k == IF forced = 0 THEN 1 ELSE forced
      <3>1. k \in DOMAIN Probes
        BY <1>0, Table
      <3>2. at' = Probe(k) /\ UNCHANGED results
        BY <1>1, <2>1 DEF After, Proceed
      <3> HIDE DEF k
      <3> QED BY <1>1, <2>1, <3>1, <3>2 DEF GoesOn
    <2>2. CASE ~o.ok
      BY <1>1, <2>2 DEF After, Stop, Proceed, GoesOn
    <2> QED BY <2>1, <2>2
  <1>2. CASE at.step \in {"paging", "version"} /\ forced = 0
    <2>0. Fingerprint(o) /\ at.n \in DOMAIN Probes
      BY <1>0, <1>2 DEF After, Places
    <2>1. CASE ~o.ok
      BY <2>0, <2>1 DEF Fingerprint, Stop, Proceed, GoesOn
    <2>2. CASE at.step = "paging" /\ o.ok
      <3>1. CASE Rejected(o)
        <4>1. NextProbe(at.n)
          BY <2>0, <2>2, <3>1 DEF Fingerprint
        <4> QED BY <2>0, <2>2, <4>1, NextProbeGoes DEF GoesOn
      <3>2. CASE ~Rejected(o)
        BY <2>0, <2>2, <3>2 DEF Fingerprint, Proceed, GoesOn
      <3> QED BY <3>1, <3>2
    <2>3. CASE at.step = "version" /\ o.ok
      <3>1. Versioned(o, at.n)
        BY <2>0, <2>3 DEF Fingerprint
      <3>2. CASE Rejected(o) \/ Classified(o, at.n) = {}
        <4>1. NextProbe(at.n)
          BY <3>1, <3>2 DEF Versioned
        <4> QED BY <2>0, <2>3, <4>1, NextProbeGoes DEF GoesOn
      <3>3. CASE ~(Rejected(o) \/ Classified(o, at.n) = {})
        BY <1>2, <2>3, <3>1, <3>3 DEF Versioned, Proceed, GoesOn
      <3> QED BY <3>2, <3>3
    <2> QED BY <1>2, <2>1, <2>2, <2>3
  <1>3. CASE at.step \in {"paging", "version"} /\ forced # 0
    <2>0. FingerprintAs(o) /\ at.n \in DOMAIN Probes /\ forced \in DOMAIN Probes
      BY <1>0, <1>3, Table DEF After, Places
    <2>1. CASE ~o.ok
      BY <2>0, <2>1 DEF FingerprintAs, Stop, Proceed, GoesOn
    <2>2. CASE o.ok /\ at.step = "paging"
      <3>1. at' = [step |-> "version", n |-> forced] /\ UNCHANGED results
        BY <2>0, <2>2 DEF FingerprintAs, Proceed
      <3> QED BY <1>3, <2>0, <2>2, <3>1 DEF GoesOn
    <2>3. CASE o.ok /\ at.step = "version"
      BY <1>3, <2>0, <2>3 DEF FingerprintAs, Proceed, GoesOn
    <2> QED BY <1>3, <2>1, <2>2, <2>3
  <1>4. CASE at.step = "capture"
    BY <1>4 DEF After, GoesOn
  <1>5. at.step \in {"login", "paging", "version", "capture"}
    BY <1>0 DEF Places
  <1> QED BY <1>1, <1>2, <1>3, <1>4, <1>5

\* A read that ended well, or failed, leaves the visit where reads are known.
LEMMA GoesTyped ==
  ASSUME SessionType, ReadsFor, NEW o \in Outcome, GoesOn(o), at.step \notin {"open", "done", "failed"}
  PROVE  /\ at' \in Places /\ at'.step \notin {"login", "open"}
         /\ at'.step = "paging" => Probes[at'.n].paging # None
         /\ results' \in [DOMAIN Captures -> Outcome \cup {None}]
  <1>0. at \in Places /\ results \in [DOMAIN Captures -> Outcome \cup {None}]
    BY DEF SessionType
  <1>1. results' \in [DOMAIN Captures -> Outcome \cup {None}]
    BY <1>0 DEF GoesOn
  <1>2. /\ Capture(1) \in Places /\ Capture(1).step \in {"capture", "done"}
        /\ at.step = "capture" =>
             Capture(at.n + 1) \in Places /\ Capture(at.n + 1).step \in {"capture", "done"}
    <2>1. at.step = "capture" => at.n \in DOMAIN Captures
      BY <1>0 DEF Places
    <2>2. at.step = "capture" => at.n + 1 \in Nat /\ at.n + 1 > 0
      BY <2>1, Table
    <2> QED BY <2>2, PlacesTyped
  <1>3. \/ at' = [step |-> "failed", n |-> 0]
        \/ \E k \in DOMAIN Probes : at' = Probe(k) \/ at' = [step |-> "version", n |-> k]
        \/ at' = Capture(1)
        \/ at.step = "capture" /\ at' = Capture(at.n + 1)
    BY DEF GoesOn
  <1>4. CASE \E k \in DOMAIN Probes : at' = Probe(k)
    <2>1. PICK k \in DOMAIN Probes : at' = Probe(k)
      BY <1>4
    <2>2. /\ at' \in Places /\ at'.n = k /\ at'.step \in {"paging", "version"}
          /\ at'.step = "paging" => Probes[k].paging # None
      BY <2>1, PlacesTyped
    <2>3. Probes[at'.n].paging = Probes[k].paging
      BY <2>2
    <2> QED BY <1>1, <2>2, <2>3
  <1>5. CASE \E k \in DOMAIN Probes : at' = [step |-> "version", n |-> k]
    <2>1. PICK k \in DOMAIN Probes : at' = [step |-> "version", n |-> k]
      BY <1>5
    <2>2. at'.step = "version" /\ at' \in Places
      BY <2>1, PlacesTyped
    <2> QED BY <1>1, <2>2
  <1>6. CASE at' = [step |-> "failed", n |-> 0]
    <2>1. at'.step = "failed" /\ at' \in Places
      BY <1>6, PlacesTyped
    <2> QED BY <1>1, <2>1
  <1>7. CASE at' = Capture(1) \/ (at.step = "capture" /\ at' = Capture(at.n + 1))
    BY <1>1, <1>2, <1>7
  <1> QED BY <1>3, <1>4, <1>5, <1>6, <1>7

\* What a read that found its prompt may be answered with.
Answers(o) == o.ok => at.step = "login" \/ o.lines = Whole(CommandAt(at))

LEMMA GoesTells ==
  ASSUME SessionType, ReadsFor, Tells, NEW o \in Outcome, GoesOn(o), Answers(o),
         at.step \notin {"open", "done", "failed"}, UNCHANGED <<answerOf, forced>>
  PROVE  Tells'
  <1>0. /\ at \in Places /\ results \in [DOMAIN Captures -> Outcome \cup {None}] /\ answerOf \in Devices
        /\ \A k : Took(k)' <=> Took(k)
        /\ \A c : Whole(c)' = Whole(c)
    BY DEF SessionType, Took, Whole, Body, Shown
  <1>1. \A j \in DOMAIN Captures :
          results'[j] # None /\ results'[j].ok => results'[j].lines = Whole(Captures[j])'
    <2>1. CASE UNCHANGED results
      BY <1>0, <2>1 DEF Tells
    <2>2. CASE at.step = "capture" /\ results' = [results EXCEPT ![at.n] = o]
      <3>1. at.n \in DOMAIN Captures /\ CommandAt(at) = Captures[at.n]
        BY <1>0, <2>2 DEF Places, CommandAt
      <3> QED BY <1>0, <2>2, <3>1 DEF Tells, Answers
    <2> QED BY <2>1, <2>2 DEF GoesOn
  <1>2. forced = 0 /\ at'.step = "version" => Took(at'.n)
    <2> SUFFICES ASSUME forced = 0, at'.step = "version" PROVE Took(at'.n)
      OBVIOUS
    <2>0. at.step = "capture" => at.n + 1 \in Nat /\ at.n + 1 > 0
      BY <1>0, Table DEF Places
    <2>1. \A j \in Nat : j > 0 => at' # Capture(j)
      BY PlacesTyped
    <2>2. CASE \E k \in DOMAIN Probes : at' = Probe(k)
      BY <2>2, PlacesTyped DEF Took
    <2>3. CASE at.step = "paging" /\ at' = [step |-> "version", n |-> at.n] /\ ~Rejected(o) /\ o.ok
      <3>1. at.n \in DOMAIN Probes /\ Probes[at.n].paging # None /\ CommandAt(at) = Probes[at.n].paging
        BY <1>0, <2>3 DEF Places, ReadsFor, CommandAt
      <3>2. Probes[at.n].paging \in Commands /\ o.lines = Whole(Probes[at.n].paging)
        BY <2>3, <3>1, Table DEF Answers
      <3>3. Took(at.n)
        BY <1>0, <2>3, <3>2, WholeTells DEF Took
      <3> QED BY <2>3, <3>3
    <2> QED BY <2>0, <2>1, <2>2, <2>3 DEF GoesOn
  <1>3. forced = 0 /\ at'.step = "capture" /\ platform' \notin {None, "unknown"} =>
          \E k \in DOMAIN Probes :
            /\ platform' \in Probes[k].names /\ Took(k)
            /\ \E i \in DOMAIN answerOf[Probes[k].version] : answerOf[Probes[k].version][i] = platform'
    <2> SUFFICES ASSUME forced = 0, at'.step = "capture", platform' \notin {None, "unknown"}
                 PROVE  \E k \in DOMAIN Probes :
                          /\ platform' \in Probes[k].names /\ Took(k)
                          /\ \E i \in DOMAIN answerOf[Probes[k].version] :
                               answerOf[Probes[k].version][i] = platform'
      OBVIOUS
    <2>1. CASE at.step = "version" /\ o.ok /\ platform' \in Classified(o, at.n)
      <3>1. at.n \in DOMAIN Probes /\ CommandAt(at) = Probes[at.n].version
        BY <1>0, <2>1 DEF Places, CommandAt
      <3>2. Probes[at.n].version \in Commands /\ o.lines = Whole(Probes[at.n].version)
        BY <2>1, <3>1, Table DEF Answers
      <3>3. platform' \in Kinds(o) /\ platform' \in Probes[at.n].names
        BY <2>1 DEF Classified
      <3>4. \E i \in DOMAIN answerOf[Probes[at.n].version] : answerOf[Probes[at.n].version][i] = platform'
        BY <1>0, <3>2, <3>3, WholeTells
      <3>5. Took(at.n)
        BY <2>1 DEF Tells
      <3> QED BY <3>1, <3>3, <3>4, <3>5
    <2>2. CASE at.step = "capture" /\ UNCHANGED platform
      BY <2>2 DEF Tells
    <2>3. \A k \in DOMAIN Probes : at' # Probe(k) /\ at' # [step |-> "version", n |-> k]
      <3>1. \A k : [step |-> "version", n |-> k].step = "version"
        OBVIOUS
      <3> QED BY <3>1, PlacesTyped
    <2> QED BY <2>1, <2>2, <2>3 DEF GoesOn
  <1> QED BY <1>0, <1>1, <1>2, <1>3 DEF Tells

-----------------------------------------------------------------------------
(* The stream.                                                             *)

LEMMA MaxOf ==
  ASSUME NEW n \in Nat, NEW S, S \subseteq 1..n, S # {}
  PROVE  Max(S) \in S /\ \A y \in S : y <= Max(S)
  <1> DEFINE T == {n - i : i \in S}
  <1>1. PICK m \in T : \A k \in T : m <= k
    <2>1. T \in SUBSET Nat /\ T # {}
      <3>1. \A i \in S : n - i \in Nat
        OBVIOUS
      <3> QED BY <3>1
    <2> HIDE DEF T
    <2> QED BY <2>1, LeastNat
  <1>2. PICK i \in S : m = n - i
    OBVIOUS
  <1>3. \A j \in S : m <= n - j
    BY <1>1
  <1>4. \A j \in S : i >= j
    <2> SUFFICES ASSUME NEW j \in S PROVE i >= j
      OBVIOUS
    <2>1. i \in Nat /\ j \in Nat /\ n - i <= n - j
      BY <1>2, <1>3
    <2> QED BY <2>1
  <1>5. \E x \in S : \A y \in S : x >= y
    BY <1>4
  <1>6. Max(S) \in S /\ \A y \in S : Max(S) >= y
    BY <1>5 DEF Max
  <1> QED BY <1>6

\* The last line that is not blank is one of them.
LEMMA LastLineIs ==
  ASSUME NEW b \in Seq(Said)
  PROVE  /\ LastLine(b) # None => \E i \in 1..Len(b) : b[i].kind = LastLine(b)
         /\ b = <<>> => LastLine(b) = None
  <1> DEFINE seen == {i \in DOMAIN b : b[i].kind # "blank"}
  <1>1. seen \subseteq 1..Len(b) /\ Len(b) \in Nat
    OBVIOUS
  <1>2. LastLine(b) = IF seen = {} THEN None ELSE b[Max(seen)].kind
    BY DEF LastLine
  <1>3. b = <<>> => seen = {}
    BY <1>1
  <1> HIDE DEF seen
  <1>4. seen # {} => Max(seen) \in 1..Len(b)
    BY <1>1, MaxOf
  <1> QED BY <1>2, <1>3, <1>4

LEMMA NoneIsNoSort == /\ None \notin {"prompt", "lookalike", "gate"}
  BY TableAssumption DEF Sorts

LEMMA StripTyped ==
  ASSUME NEW b \in Seq(Said), NEW c
  PROVE  Strip(b, c) \in Seq(Said)
  <1> DEFINE told == {i \in DOMAIN b : b[i].kind \notin {"prompt", "lookalike"}}
             kept == IF told = {} THEN <<>> ELSE SubSeq(b, 1, Max(told))
  <1>1. kept \in Seq(Said)
    <2>1. CASE told = {}
      BY <2>1
    <2>2. CASE told # {}
      <3>1. told \subseteq 1..Len(b) /\ Len(b) \in Nat
        OBVIOUS
      <3> HIDE DEF told
      <3>2. Max(told) \in 1..Len(b)
        BY <2>2, <3>1, MaxOf
      <3>3. \A i \in 1..Max(told) : b[i] \in Said
        BY <3>1, <3>2
      <3> QED BY <2>2, <3>2, <3>3, SubSeqProperties
    <2> QED BY <2>1, <2>2
  <1> HIDE DEF kept
  <1>2. kept # <<>> => Tail(kept) \in Seq(Said)
    BY <1>1, HeadTailProperties
  <1>3. Strip(b, c) = IF kept # <<>> /\ Head(kept) = Line(c, "echo") THEN Tail(kept) ELSE kept
    BY DEF Strip, kept
  <1> QED BY <1>1, <1>2, <1>3

LEMMA ShownTyped ==
  ASSUME NEW b \in Seq(Said)
  PROVE  Shown(b) \in Seq(Said)
  <1>1. Len(b) \in Nat
    OBVIOUS
  <1>2. PICK out : Keeps(out, b, Len(b)) /\ Shown(b) = out[Len(b)]
    BY <1>1, ShownIsKept
  <1> QED BY <1>1, <1>2, AllKept DEF Extracts

\* A chunk that arrives moves what was to come to what has arrived.
Arrives(b, s, n, more, new, rest) ==
  /\ new \in Seq(Said) /\ rest \in Seq(Said) /\ Len(rest) = Len(s) - n
  /\ \A i \in 1..Len(rest) : rest[i] = s[n + i]
  /\ Len(new) <= Len(b) + n /\ (~more => Len(new) = Len(b) + n)
  /\ \A i \in 1..Len(new) :
       LET j == Len(b) + n - Len(new) + i
       IN new[i] = IF j <= Len(b) THEN b[j] ELSE s[j - Len(b)]

LEMMA ChunkArrives ==
  ASSUME NEW b \in Seq(Said), NEW s \in Seq(Said), NEW n \in 1..Len(s), NEW more \in BOOLEAN,
         NEW new, new = IF more THEN Kept(b \o SubSeq(s, 1, n)) ELSE b \o SubSeq(s, 1, n),
         NEW rest, rest = SubSeq(s, n + 1, Len(s))
  PROVE  Arrives(b, s, n, more, new, rest)
  <1> DEFINE chunk == SubSeq(s, 1, n)
             c == b \o chunk
  <1>0. /\ Len(s) \in Nat /\ Len(b) \in Nat /\ n \in Nat /\ n <= Len(s) /\ n >= 1
        /\ \A i \in 1..Len(s) : s[i] \in Said
    OBVIOUS
  <1>1. chunk \in Seq(Said) /\ Len(chunk) = n /\ \A i \in 1..n : chunk[i] = s[i]
    <2>1. \A i \in 1..n : s[i] \in Said
      BY <1>0
    <2>2. \A i \in 1..n - 1 + 1 : SubSeq(s, 1, n)[i] = s[1 + i - 1]
      BY <2>1, SubSeqProperties
    <2>3. SubSeq(s, 1, n) \in Seq(Said) /\ Len(SubSeq(s, 1, n)) = n
      BY <1>0, <2>1, SubSeqProperties
    <2>4. \A i \in 1..n : SubSeq(s, 1, n)[i] = s[i]
      BY <1>0, <2>2
    <2> QED BY <2>3, <2>4
  <1> HIDE DEF chunk
  <1>2. /\ c \in Seq(Said) /\ Len(c) = Len(b) + n
        /\ \A i \in 1..(Len(b) + n) : c[i] = IF i <= Len(b) THEN b[i] ELSE s[i - Len(b)]
    <2>1. /\ c \in Seq(Said) /\ Len(c) = Len(b) + Len(chunk)
          /\ \A i \in 1..Len(b) + Len(chunk) : c[i] = IF i <= Len(b) THEN b[i] ELSE chunk[i - Len(b)]
      BY <1>1, ConcatProperties
    <2> HIDE DEF c
    <2>2. Len(c) = Len(b) + n
      BY <1>1, <2>1
    <2>3. ASSUME NEW i \in 1..(Len(b) + n)
          PROVE  c[i] = IF i <= Len(b) THEN b[i] ELSE s[i - Len(b)]
      <3>1. c[i] = IF i <= Len(b) THEN b[i] ELSE chunk[i - Len(b)]
        BY <1>1, <2>1
      <3>2. ~(i <= Len(b)) => i - Len(b) \in 1..n
        BY <1>0
      <3> QED BY <1>1, <3>1, <3>2
    <2> QED BY <2>1, <2>2, <2>3
  <1> HIDE DEF c
  <1>3. rest \in Seq(Said) /\ Len(rest) = Len(s) - n /\ \A i \in 1..Len(rest) : rest[i] = s[n + i]
    <2> DEFINE r == SubSeq(s, n + 1, Len(s))
    <2>1. \A i \in (n + 1)..Len(s) : s[i] \in Said
      BY <1>0
    <2>2. /\ r \in Seq(Said) /\ Len(r) = IF n + 1 <= Len(s) THEN Len(s) - (n + 1) + 1 ELSE 0
          /\ \A i \in 1..Len(s) - (n + 1) + 1 : r[i] = s[n + 1 + i - 1]
      BY <1>0, <2>1, SubSeqProperties
    <2>3. rest = r
      OBVIOUS
    <2> HIDE DEF r
    <2>4. Len(rest) = Len(s) - n
      BY <1>0, <2>2, <2>3
    <2>5. \A i \in 1..Len(rest) : rest[i] = s[n + i]
      <3> SUFFICES ASSUME NEW i \in 1..Len(rest) PROVE rest[i] = s[n + i]
        OBVIOUS
      <3>1. i \in 1..Len(s) - (n + 1) + 1 /\ n + 1 + i - 1 = n + i
        BY <1>0, <2>4
      <3> QED BY <2>2, <2>3, <3>1
    <2> QED BY <2>2, <2>3, <2>4, <2>5
  <1>4. /\ new \in Seq(Said) /\ Len(new) \in Nat /\ Len(new) <= Len(c) /\ (~more => Len(new) = Len(c))
        /\ \A i \in 1..Len(new) : new[i] = c[Len(c) - Len(new) + i]
    <2>1. CASE ~more
      <3>1. new = c
        BY <2>1 DEF c, chunk
      <3>2. \A i \in 1..Len(c) : Len(c) - Len(c) + i = i
        BY <1>0, <1>2
      <3> QED BY <1>0, <1>2, <2>1, <3>1, <3>2
    <2>2. CASE more
      <3>1. new = IF Len(c) > Keep THEN SubSeq(c, Len(c) - Keep + 1, Len(c)) ELSE c
        BY <2>2 DEF Kept, c, chunk
      <3>2. CASE Len(c) > Keep
        <4> DEFINE m == Len(c) - Keep + 1
                   r == SubSeq(c, m, Len(c))
        <4>1. m \in Nat /\ m >= 1 /\ m <= Len(c) /\ Len(c) \in Nat /\ Keep \in Nat /\ Len(c) - m + 1 = Keep
          BY <1>0, <1>2, <3>2, KeepAssumption
        <4>2. new = r
          BY <3>1, <3>2
        <4> HIDE DEF m
        <4>3. \A i \in m..Len(c) : c[i] \in Said
          BY <1>2, <4>1
        <4>4. /\ r \in Seq(Said) /\ Len(r) = Len(c) - m + 1
              /\ \A i \in 1..Len(c) - m + 1 : r[i] = c[m + i - 1]
          BY <4>1, <4>3, SubSeqProperties
        <4> HIDE DEF r
        <4>5. Len(new) = Keep
          BY <4>1, <4>2, <4>4
        <4>6. \A i \in 1..Keep : m + i - 1 = Len(c) - Keep + i
          <5>1. \A l, k, i \in Int : (l - k + 1) + i - 1 = l - k + i
            OBVIOUS
          <5>2. Len(c) \in Int /\ Keep \in Int /\ \A i \in 1..Keep : i \in Int
            BY <4>1
          <5> QED BY <5>1, <5>2 DEF m
        <4>7. \A i \in 1..Keep : new[i] = c[Len(c) - Keep + i]
          BY <4>1, <4>2, <4>4, <4>6
        <4>8. new \in Seq(Said) /\ Len(new) \in Nat /\ Len(new) <= Len(c)
          <5>1. new \in Seq(Said)
            BY <4>2, <4>4
          <5> QED BY <3>2, <4>1, <4>5, <5>1
        <4>9. \A i \in 1..Len(new) : new[i] = c[Len(c) - Len(new) + i]
          BY <4>5, <4>7
        <4> QED BY <2>2, <4>8, <4>9
      <3>3. CASE ~(Len(c) > Keep)
        <4>1. new = c
          BY <3>1, <3>3
        <4>2. \A i \in 1..Len(c) : Len(c) - Len(c) + i = i
          BY <1>0, <1>2
        <4> QED BY <1>0, <1>2, <2>2, <4>1, <4>2
      <3> QED BY <3>2, <3>3
    <2> QED BY <2>1, <2>2
  <1>5. \A i \in 1..Len(new) :
          LET j == Len(b) + n - Len(new) + i
          IN new[i] = IF j <= Len(b) THEN b[j] ELSE s[j - Len(b)]
    <2> SUFFICES ASSUME NEW i \in 1..Len(new)
                 PROVE  LET j == Len(b) + n - Len(new) + i
                        IN new[i] = IF j <= Len(b) THEN b[j] ELSE s[j - Len(b)]
      OBVIOUS
    <2> DEFINE j == Len(b) + n - Len(new) + i
    <2>1. j \in 1..(Len(b) + n) /\ Len(c) - Len(new) + i = j
      BY <1>0, <1>2, <1>4
    <2>2. new[i] = c[j]
      BY <1>4, <2>1
    <2> QED BY <1>2, <2>1, <2>2
  <1>6. Len(new) <= Len(b) + n /\ (~more => Len(new) = Len(b) + n)
    BY <1>2, <1>4
  <1> QED BY <1>3, <1>4, <1>5, <1>6 DEF Arrives

\* The place of line i of a kept tail of ln lines, in the lb that were there and the
\* n that came.
InTail(lb, ls, n, ln, i, sent, lost, last) ==
  LET k == lb + n - ln + i
  IN /\ k \in Int /\ k >= 1 /\ k <= lb + n /\ lost + k = last + i
     /\ k <= lb => k \in 1..lb
     /\ ~(k <= lb) => k - lb \in 1..ls /\ sent + (k - lb) = last + i

LEMMA PlaceInTail ==
  ASSUME NEW lb \in Nat, NEW ls \in Nat, NEW n \in Nat, NEW ln \in Nat, NEW i \in Nat,
         NEW sent \in Int, NEW lost \in Int, NEW last \in Int,
         n <= ls, i >= 1, i <= ln, ln <= lb + n, sent = lost + lb, last = lost + lb + n - ln
  PROVE  InTail(lb, ls, n, ln, i, sent, lost, last)
  BY DEF InTail

\* The stream goes on to be the answer it is.
LEMMA FlowsOn ==
  ASSUME NEW f, Len(f) \in Nat, NEW b \in Seq(Said), NEW s \in Seq(Said), NEW cut \in BOOLEAN,
         Flows(f, b, s, cut),
         NEW n \in 1..Len(s), NEW more \in BOOLEAN, cut => more,
         NEW new, new = IF more THEN Kept(b \o SubSeq(s, 1, n)) ELSE b \o SubSeq(s, 1, n),
         NEW rest, rest = SubSeq(s, n + 1, Len(s))
  PROVE  Flows(f, new, rest, more)
  <1>0. Arrives(b, s, n, more, new, rest)
    BY ChunkArrives
  <1>1. /\ new \in Seq(Said) /\ rest \in Seq(Said) /\ Len(rest) = Len(s) - n
        /\ \A i \in 1..Len(rest) : rest[i] = s[n + i]
        /\ Len(new) <= Len(b) + n /\ (~more => Len(new) = Len(b) + n)
        /\ \A i \in 1..Len(new) :
             LET j == Len(b) + n - Len(new) + i
             IN new[i] = IF j <= Len(b) THEN b[j] ELSE s[j - Len(b)]
    BY <1>0 DEF Arrives
  <1>2. /\ Len(s) \in Nat /\ Len(b) \in Nat /\ n \in Nat /\ n <= Len(s) /\ n >= 1
        /\ Len(new) \in Nat /\ Len(rest) \in Nat /\ Len(f) \in Nat
    BY <1>1
  <1>0a. /\ Len(f) - Len(s) \in Int /\ Len(f) - Len(s) - Len(b) \in Int
         /\ Len(f) - Len(rest) \in Int /\ Len(f) - Len(rest) - Len(new) \in Int
    BY <1>2
  <1>4. PICK sent \in Int, lost \in Int, sent2 \in Int, lost2 \in Int :
          /\ sent = Len(f) - Len(s) /\ lost = Len(f) - Len(s) - Len(b)
          /\ sent2 = Len(f) - Len(rest) /\ lost2 = Len(f) - Len(rest) - Len(new)
    BY <1>0a
  <1>8. /\ sent2 = sent + n /\ lost2 = lost + Len(b) + n - Len(new) /\ sent = lost + Len(b)
    BY <1>1, <1>2, <1>4
  <1>7a. sent \in Int /\ lost \in Int /\ sent2 \in Int /\ lost2 \in Int
    OBVIOUS
  <1>3. /\ lost >= 0 /\ (~cut => lost = 0)
        /\ \A i \in 1..Len(b) : b[i] = f[lost + i]
        /\ \A i \in 1..Len(s) : s[i] = f[sent + i]
    BY <1>4 DEF Flows
  <1>5. lost2 >= 0 /\ (~more => lost2 = 0)
    <2>1. Len(new) <= Len(b) + n /\ (~more => Len(new) = Len(b) + n)
      BY <1>1
    <2>2. ~more => lost = 0
      BY <1>3
    <2>3. lost >= 0 /\ lost2 = lost + Len(b) + n - Len(new) /\ lost \in Int
      BY <1>3, <1>8
    <2>4. Len(new) \in Int /\ Len(b) \in Int /\ n \in Int
      BY <1>2
    <2>5. lost2 >= 0
      BY <2>1, <2>3, <2>4
    <2>6. ASSUME ~more PROVE lost2 = 0
      BY <2>1, <2>2, <2>3, <2>4, <2>6
    <2> QED BY <2>5, <2>6
  <1>6. \A i \in 1..Len(rest) : rest[i] = f[sent2 + i]
    <2> SUFFICES ASSUME NEW i \in 1..Len(rest) PROVE rest[i] = f[sent2 + i]
      OBVIOUS
    <2>1. n + i \in 1..Len(s) /\ sent + (n + i) = sent2 + i
      BY <1>1, <1>2, <1>7a, <1>8
    <2> QED BY <1>1, <1>3, <2>1
  <1>7. \A i \in 1..Len(new) : new[i] = f[lost2 + i]
    <2> SUFFICES ASSUME NEW i \in 1..Len(new) PROVE new[i] = f[lost2 + i]
      OBVIOUS
    <2>0. i \in Nat /\ i >= 1 /\ i <= Len(new)
      BY <1>2
    <2> DEFINE k == Len(b) + n - Len(new) + i
    <2>1. /\ lost + k = lost2 + i
          /\ k <= Len(b) => k \in 1..Len(b)
          /\ ~(k <= Len(b)) => k - Len(b) \in 1..Len(s) /\ sent + (k - Len(b)) = lost2 + i
      <3>1. InTail(Len(b), Len(s), n, Len(new), i, sent, lost, lost2)
        BY <1>1, <1>2, <1>7a, <1>8, <2>0, PlaceInTail
      <3> QED BY <3>1 DEF InTail
    <2>2. new[i] = IF k <= Len(b) THEN b[k] ELSE s[k - Len(b)]
      BY <1>1
    <2> HIDE DEF k
    <2>3. CASE k <= Len(b)
      BY <1>3, <2>1, <2>2, <2>3
    <2>4. CASE ~(k <= Len(b))
      BY <1>3, <2>1, <2>2, <2>4
    <2> QED BY <2>3, <2>4
  <1>9. lost2 = sent2 - Len(new) /\ sent2 = Len(f) - Len(rest)
    BY <1>2, <1>4
  <1> QED BY <1>4, <1>5, <1>6, <1>7, <1>9 DEF Flows

\* The prompt is the last of an answer, and there is one only.
EndsOnce(f) ==
  /\ f \in Seq(Said) /\ f # <<>> /\ f[Len(f)].kind = "prompt"
  /\ \A i \in 1..(Len(f) - 1) : f[i].kind # "prompt"

LEMMA FullEnds ==
  ASSUME SessionType, ReadsFor, loop # "idle"
  PROVE  EndsOnce(Full)
  <1>1. cmd \in Commands \cup {Login} /\ answerOf \in Devices
    BY DEF ReadsFor, SessionType
  <1> DEFINE b == Body(cmd)
             e == Line(cmd, "echo")
             p == EndLine(cmd)
  <1>2. /\ b \in Seq(Said) /\ \A i \in 1..Len(b) : b[i].kind # "prompt"
        /\ e \in Said /\ e.kind = "echo" /\ p \in Said /\ p.kind = "prompt"
    BY <1>1, BodyTyped
  <1>3. Full = Append(b, p) \/ Full = <<e>> \o Append(b, p)
    BY DEF Full
  <1> HIDE DEF b, e, p
  <1>4. EndsOnce(Append(b, p))
    <2>1. /\ Append(b, p) \in Seq(Said) /\ Len(Append(b, p)) = Len(b) + 1 /\ Len(b) \in Nat
          /\ Append(b, p)[Len(b) + 1] = p /\ \A i \in 1..Len(b) : Append(b, p)[i] = b[i]
      BY <1>2
    <2> DEFINE f == Append(b, p)
    <2> HIDE DEF f
    <2>2. /\ f \in Seq(Said) /\ Len(f) = Len(b) + 1 /\ Len(b) \in Nat
          /\ f[Len(b) + 1] = p /\ \A i \in 1..Len(b) : f[i] = b[i]
      BY <2>1 DEF f
    <2>3. \A i \in 1..(Len(f) - 1) : f[i].kind # "prompt"
      BY <1>2, <2>2
    <2>4. f # <<>> /\ f[Len(f)] = p
      BY <2>2
    <2> QED BY <1>2, <2>2, <2>3, <2>4 DEF EndsOnce, f
  <1>5. EndsOnce(<<e>> \o Append(b, p))
    <2> DEFINE f == <<e>> \o Append(b, p)
    <2>1. /\ f \in Seq(Said) /\ Len(f) = Len(b) + 2 /\ Len(b) \in Nat
          /\ f[1] = e /\ f[Len(b) + 2] = p /\ \A i \in 2..(Len(b) + 1) : f[i] = b[i - 1]
      BY <1>2
    <2> HIDE DEF f
    <2>2. \A i \in 1..(Len(f) - 1) : f[i].kind # "prompt"
      <3> SUFFICES ASSUME NEW i \in 1..(Len(f) - 1) PROVE f[i].kind # "prompt"
        OBVIOUS
      <3>1. CASE i = 1
        BY <1>2, <2>1, <3>1
      <3>2. CASE i # 1
        <4>1. i \in 2..(Len(b) + 1) /\ i - 1 \in 1..Len(b)
          BY <2>1, <3>2
        <4> QED BY <1>2, <2>1, <4>1
      <3> QED BY <3>1, <3>2
    <2>3. f # <<>> /\ f[Len(f)] = p
      BY <2>1
    <2> QED BY <1>2, <2>1, <2>2, <2>3 DEF EndsOnce, f
  <1> QED BY <1>3, <1>4, <1>5

\* Where the prompt has arrived there is no more to come; and unless it was too
\* much, all of the answer is there.
LEMMA PromptEnds ==
  ASSUME NEW f, EndsOnce(f), NEW b \in Seq(Said), NEW s \in Seq(Said), NEW cut,
         Flows(f, b, s, cut), LastLine(b) = "prompt"
  PROVE  s = <<>> /\ (~cut => b = f)
  <1> DEFINE sent == Len(f) - Len(s)
             lost == sent - Len(b)
  <1>1. Len(f) \in Nat /\ Len(s) \in Nat /\ Len(b) \in Nat /\ f \in Seq(Said)
    BY DEF EndsOnce
  <1>2. /\ lost >= 0 /\ (~cut => lost = 0)
        /\ \A i \in 1..Len(b) : b[i] = f[lost + i]
    BY DEF Flows
  <1>3. PICK i \in 1..Len(b) : b[i].kind = "prompt"
    BY LastLineIs, NoneIsNoSort
  <1>4. f[lost + i].kind = "prompt" /\ lost + i \in Nat /\ lost + i >= 1
    BY <1>1, <1>2, <1>3
  <1>5. ~(lost + i < Len(f))
    BY <1>1, <1>4 DEF EndsOnce
  <1>6. Len(s) = 0
    BY <1>1, <1>5
  <1>7. s = <<>>
    BY <1>6
  <1>8. ASSUME ~cut PROVE b = f
    <2>1. Len(b) = Len(f) /\ lost = 0
      BY <1>1, <1>2, <1>6, <1>8
    <2>3. \A j \in 1..Len(b) : lost + j = j
      BY <1>1, <2>1
    <2>2. \A j \in 1..Len(b) : b[j] = f[j]
      BY <1>2, <2>3
    <2> QED BY <1>1, <2>1, <2>2, SeqEqual
  <1> QED BY <1>7, <1>8

\* A key typed before is what the device takes next.
LEMMA KeysTaken ==
  ASSUME NEW l \in Seq(Typed), Keys(l), l # <<>>
  PROVE  Head(l) = Space /\ Keys(Tail(l)) /\ Tail(l) \in Seq(Typed)
  BY DEF Keys

LEMMA KeysTyped ==
  ASSUME NEW l \in Seq(Typed), Keys(l)
  PROVE  /\ Append(l, Space) \in Seq(Typed) /\ Keys(Append(l, Space))
         /\ \A c \in Commands :
              LET t == Append(l, Command(c))
              IN /\ t \in Seq(Typed) /\ t # <<>> /\ t[Len(t)] = Command(c)
                 /\ \A i \in 1..(Len(t) - 1) : t[i] = Space
  <1>1. Space \in Typed /\ \A c \in Commands : Command(c) \in Typed
    BY DEF Typed
  <1>2. ASSUME NEW x \in Typed
        PROVE  /\ Append(l, x) \in Seq(Typed) /\ Len(Append(l, x)) = Len(l) + 1 /\ Len(l) \in Nat
               /\ Append(l, x) # <<>> /\ Append(l, x)[Len(Append(l, x))] = x
               /\ \A i \in 1..(Len(Append(l, x)) - 1) : Append(l, x)[i] = Space
    BY DEF Keys
  <1>3. Keys(Append(l, Space))
    <2> DEFINE t == Append(l, Space)
    <2>1. /\ Len(t) = Len(l) + 1 /\ Len(l) \in Nat /\ t[Len(t)] = Space
          /\ \A i \in 1..(Len(t) - 1) : t[i] = Space
      BY <1>1, <1>2
    <2> HIDE DEF t
    <2>2. Keys(t)
      BY <2>1 DEF Keys
    <2> QED BY <2>2 DEF t
  <1> QED BY <1>1, <1>2, <1>3

-----------------------------------------------------------------------------
(* One step of the device, of the reader or of the visit.                  *)

\* Nothing of an answer has arrived.
LEMMA NothingYet ==
  ASSUME NEW f \in Seq(Said), NEW cut
  PROVE  Flows(f, <<>>, f, cut)
  <1> DEFINE none == <<>>
             n == Len(f)
  <1>1. n \in Nat /\ Len(none) = 0
    OBVIOUS
  <1> HIDE DEF none, n
  <1>2. n - n = 0 /\ n - n - Len(none) = 0 /\ 1..Len(none) = {} /\ \A i \in 1..n : f[i] = f[n - n + i]
    BY <1>1
  <1> QED BY <1>2 DEF Flows, n, none

\* What the visit sends next is one of the commands there are.
LEMMA CommandTyped ==
  ASSUME SessionType, ReadsFor, at.step \notin {"open", "login", "done", "failed"}
  PROVE  CommandAt(at) \in Commands
  <1>1. at \in Places
    BY DEF SessionType
  <1>2. CASE at.step = "paging"
    BY <1>1, <1>2, Table DEF Places, CommandAt, ReadsFor
  <1>3. CASE at.step = "version"
    BY <1>1, <1>3, Table DEF Places, CommandAt
  <1>4. CASE at.step = "capture"
    BY <1>1, <1>4, Table DEF Places, CommandAt
  <1> QED BY <1>1, <1>2, <1>3, <1>4 DEF Places

LEMMA CommandIsNoKey == \A c : Command(c) # Space
  BY DEF Command, Space

\* The results stand while the device and the visit are as they were.
LEMMA TellsStill ==
  ASSUME Tells, UNCHANGED <<answerOf, forced, at, platform, results>>
  PROVE  Tells'
  <1>1. (\A k : Took(k)' <=> Took(k)) /\ (\A c : Whole(c)' = Whole(c))
    BY DEF Took, Whole, Body, Shown
  <1> QED BY <1>1 DEF Tells

LEMMA FullStill ==
  ASSUME UNCHANGED <<answerOf, at, cmd>>
  PROVE  Full' = Full
  BY DEF Full, Body

LEMMA DeviceReadsKeeps ==
  ASSUME SessionInv, DeviceReads
  PROVE  SessionInv'
  <1>1. /\ SessionType /\ ReadsFor /\ mode = "up" /\ saying = <<>> /\ typed # <<>> /\ typed' = Tail(typed)
        /\ UNCHANGED <<answerOf, buf, overflow, loop, cmd, at, platform, results, slipped, forced>>
    BY DEF SessionInv, DeviceReads, device, stream, visit, run
  <1>2. typed \in Seq(Typed) /\ Head(typed) \in Typed /\ Tail(typed) \in Seq(Typed) /\ answerOf \in Devices
    BY <1>1 DEF SessionType
  <1> DEFINE c == Head(typed).of
             whole == <<Line(c, "echo")>> \o Append(Body(c), EndLine(c))
             stuck == <<Line(c, "echo"), Line(c, "text")>>
  <1>3. \/ Head(typed) = Space /\ UNCHANGED <<mode, saying>>
        \/ Head(typed) # Space /\ saying' = whole /\ UNCHANGED mode
        \/ Head(typed) # Space /\ saying' = stuck /\ mode' = "wedged"
    BY DEF DeviceReads
  <1>4. Head(typed) # Space => c \in Commands /\ Head(typed) = Command(c)
    BY <1>2 DEF Typed, Command
  <1>5. ASSUME Head(typed) # Space
        PROVE  /\ whole \in Seq(Said) /\ stuck \in Seq(Said)
               /\ \A i \in 1..Len(stuck) : stuck[i].kind \in {"echo", "text"}
    <2>1. /\ Body(c) \in Seq(Said) /\ EndLine(c) \in Said
          /\ Line(c, "echo") \in Said /\ Line(c, "echo").kind = "echo"
          /\ Line(c, "text") \in Said /\ Line(c, "text").kind = "text"
      BY <1>2, <1>4, <1>5, BodyTyped
    <2> DEFINE e == Line(c, "echo")
               x == Line(c, "text")
    <2> HIDE DEF c, e, x
    <2>2. e \in Said /\ e.kind = "echo" /\ x \in Said /\ x.kind = "text"
      BY <2>1 DEF e, x
    <2>3. <<e, x>> \in Seq(Said) /\ \A i \in 1..Len(<<e, x>>) : <<e, x>>[i].kind \in {"echo", "text"}
      BY <2>2
    <2>4. <<e>> \o Append(Body(c), EndLine(c)) \in Seq(Said)
      BY <2>1, <2>2
    <2> QED BY <2>3, <2>4 DEF e, x
  <1>6. SessionType'
    BY <1>1, <1>2, <1>3, <1>5 DEF SessionType
  <1>7. ReadsFor'
    BY <1>1 DEF ReadsFor, CommandAt
  <1>8. ASSUME ~slipped PROVE Stream' /\ Tells'
    <2>1. Stream /\ Tells
      BY <1>8 DEF SessionInv
    <2>2. Tells'
      BY <1>1, <2>1, TellsStill
    <2>3. ASSUME Keys(typed)
          PROVE  Head(typed) = Space /\ Keys(typed') /\ UNCHANGED <<mode, saying>>
      BY <1>1, <1>2, <1>3, <2>3, KeysTaken
    <2>4. CASE loop \in {"idle", "sending"}
      BY <1>1, <2>1, <2>2, <2>3, <2>4 DEF Stream, Quiet
    <2>5. CASE loop \notin {"idle", "sending"} /\ Answering
      <3>1. Keys(typed') /\ UNCHANGED <<mode, saying>> /\ Full' = Full
        BY <1>1, <2>3, <2>5, FullStill DEF Answering
      <3>2. Answering'
        BY <1>1, <2>5, <3>1 DEF Answering
      <3> QED BY <1>1, <2>2, <2>5, <3>2 DEF Stream
    <2>6. CASE loop \notin {"idle", "sending"} /\ at.step # "login" /\ loop # "keying" /\ Untaken
      <3>1. /\ buf = <<>> /\ ~overflow /\ typed[Len(typed)] = Command(cmd) /\ Len(typed) \in Nat \ {0}
            /\ \A i \in 1..(Len(typed) - 1) : typed[i] = Space
        BY <1>1, <1>2, <2>6 DEF Untaken
      <3>2. /\ Head(typed) = typed[1] /\ Len(Tail(typed)) = Len(typed) - 1
            /\ \A i \in 1..Len(Tail(typed)) : Tail(typed)[i] = typed[i + 1]
        BY <1>1, <1>2, HeadTailProperties
      <3>3. CASE Len(typed) = 1
        <4>1. Head(typed) = Command(cmd) /\ Head(typed) # Space /\ c = cmd
          BY <3>1, <3>2, <3>3, CommandIsNoKey DEF Command
        <4>2. Keys(typed')
          <5>1. Len(typed') = 0 /\ 1..0 = {}
            BY <1>1, <3>2, <3>3
          <5> QED BY <1>1, <5>1 DEF Keys
        <4>3. CASE saying' = whole /\ UNCHANGED mode
          <5>1. whole = Full /\ Full' = Full /\ whole \in Seq(Said)
            BY <1>1, <1>5, <2>6, <4>1, FullStill DEF Full
          <5>2. Flows(Full, <<>>, Full, FALSE)
            BY <5>1, NothingYet
          <5>3. overflow = FALSE
            BY <1>1, <3>1 DEF SessionType
          <5>4. Answering'
            BY <1>1, <3>1, <4>2, <4>3, <5>1, <5>2, <5>3 DEF Answering
          <5> QED BY <1>1, <2>2, <2>6, <5>4 DEF Stream
        <4>4. CASE saying' = stuck /\ mode' = "wedged"
          <5>1. Stuck'
            BY <1>1, <1>5, <3>1, <4>1, <4>2, <4>4 DEF Stuck
          <5> QED BY <1>1, <2>2, <2>6, <5>1 DEF Stream
        <4> QED BY <1>3, <4>1, <4>3, <4>4
      <3>4. CASE Len(typed) # 1
        <4>1. Head(typed) = Space
          BY <3>1, <3>2, <3>4
        <4>2. /\ Len(typed') = Len(typed) - 1 /\ Len(typed') \in Nat /\ Len(typed') >= 1
              /\ Len(typed') + 1 = Len(typed)
              /\ \A i \in 1..(Len(typed') - 1) : i + 1 \in 1..(Len(typed) - 1)
          BY <1>1, <3>1, <3>2, <3>4
        <4>3. typed' # <<>> /\ typed'[Len(typed')] = Command(cmd)
          <5>1. Len(typed') \in 1..Len(Tail(typed))
            BY <1>1, <4>2
          <5>2. typed'[Len(typed')] = typed[Len(typed') + 1]
            BY <1>1, <3>2, <5>1
          <5>3. typed' # <<>>
            BY <4>2
          <5> QED BY <3>1, <4>2, <5>2, <5>3
        <4>4. \A i \in 1..(Len(typed') - 1) : typed'[i] = Space
          <5> SUFFICES ASSUME NEW i \in 1..(Len(typed') - 1) PROVE typed'[i] = Space
            OBVIOUS
          <5>1. i + 1 \in 1..(Len(typed) - 1) /\ i \in 1..Len(typed')
            BY <4>2
          <5> QED BY <1>1, <3>1, <3>2, <5>1
        <4>5. Untaken'
          BY <1>1, <1>3, <2>6, <4>1, <4>3, <4>4 DEF Untaken
        <4> QED BY <1>1, <2>2, <2>6, <4>5 DEF Stream
      <3> QED BY <3>3, <3>4
    <2>7. CASE loop \notin {"idle", "sending"} /\ Stuck
      BY <1>1, <2>7 DEF Stuck
    <2> QED BY <2>1, <2>2, <2>4, <2>5, <2>6, <2>7 DEF Stream
  <1> QED BY <1>1, <1>6, <1>7, <1>8 DEF SessionInv

LEMMA KeyHitKeeps ==
  ASSUME SessionInv, KeyHit
  PROVE  SessionInv'
  <1>1. /\ SessionType /\ ReadsFor /\ mode = "gate" /\ mode' = "up" /\ typed # <<>>
        /\ typed' = Tail(typed) \/ (Head(typed) # Space /\ UNCHANGED typed)
        /\ UNCHANGED <<answerOf, saying, buf, overflow, loop, cmd, at, platform, results, slipped, forced>>
    BY DEF SessionInv, KeyHit, stream, visit, run
  <1>2. typed \in Seq(Typed) /\ Tail(typed) \in Seq(Typed)
    BY <1>1 DEF SessionType
  <1>3. SessionType'
    BY <1>1, <1>2 DEF SessionType
  <1>4. ReadsFor'
    BY <1>1 DEF ReadsFor, CommandAt
  <1>5. ASSUME ~slipped PROVE Stream' /\ Tells'
    <2>1. Stream /\ Tells
      BY <1>5 DEF SessionInv
    <2>2. Tells'
      BY <1>1, <2>1, TellsStill
    <2>3. loop \notin {"idle", "sending"} /\ Answering
      BY <1>1, <2>1 DEF Stream, Quiet, Untaken, Stuck
    <2>4. Keys(typed') /\ Full' = Full
      BY <1>1, <1>2, <2>3, KeysTaken, FullStill DEF Answering
    <2>5. Answering'
      BY <1>1, <2>3, <2>4 DEF Answering
    <2> QED BY <1>1, <2>2, <2>3, <2>5 DEF Stream
  <1> QED BY <1>1, <1>3, <1>4, <1>5 DEF SessionInv

LEMMA DeviceWritesKeeps ==
  ASSUME SessionInv, DeviceWrites
  PROVE  SessionInv'
  <1>1. /\ SessionType /\ ReadsFor /\ mode \in {"up", "wedged"} /\ answerOf \in Devices
        /\ buf \in Seq(Said) /\ saying \in Seq(Said) /\ overflow \in BOOLEAN
        /\ UNCHANGED <<answerOf, typed, loop, cmd, at, platform, results, slipped, forced>>
    BY DEF SessionInv, SessionType, DeviceWrites, visit, run
  <1>2. PICK n \in DOMAIN saying :
          /\ Arrive(SubSeq(saying, 1, n))
          /\ saying' = SubSeq(saying, n + 1, Len(saying))
          /\ mode' = IF saying[n].kind = "gate" THEN "gate" ELSE mode
    BY DEF DeviceWrites
  <1>3. n \in 1..Len(saying)
    BY <1>1
  <1>4. /\ overflow' = (overflow \/ Len(buf \o SubSeq(saying, 1, n)) > LimitOf[cmd])
        /\ buf' = IF overflow' THEN Kept(buf \o SubSeq(saying, 1, n)) ELSE buf \o SubSeq(saying, 1, n)
    BY <1>2 DEF Arrive
  <1>5. overflow' \in BOOLEAN /\ (overflow => overflow')
    BY <1>4
  <1>6. Arrives(buf, saying, n, overflow', buf', saying')
    BY <1>1, <1>2, <1>3, <1>4, <1>5, ChunkArrives
  <1>7. SessionType'
    BY <1>1, <1>2, <1>5, <1>6 DEF SessionType, Arrives
  <1>8. ReadsFor'
    BY <1>1 DEF ReadsFor, CommandAt
  <1>9. ASSUME ~slipped PROVE Stream' /\ Tells'
    <2>1. Stream /\ Tells
      BY <1>9 DEF SessionInv
    <2>2. Tells'
      BY <1>1, <2>1, TellsStill
    <2>3. saying # <<>>
      BY <1>3
    <2>4. loop \notin {"idle", "sending"} /\ (Stuck \/ Answering)
      BY <2>1, <2>3 DEF Stream, Quiet, Untaken
    <2>5. CASE Answering
      <3>1. /\ Keys(typed') /\ Full' = Full /\ mode = "up"
            /\ Flows(Full, buf, saying, overflow)
        BY <1>1, <2>5, FullStill DEF Answering
      <3>2. EndsOnce(Full)
        BY <1>1, <2>4, FullEnds
      <3>3. Len(Full) \in Nat /\ Full \in Seq(Said)
        BY <3>2 DEF EndsOnce
      <3>4. Flows(Full, buf', saying', overflow')
        BY <1>1, <1>2, <1>3, <1>4, <1>5, <3>1, <3>3, FlowsOn
      <3>5. ASSUME saying' = <<>>
            PROVE  saying[n].kind = "prompt"
        <4>1. n = Len(saying) /\ Len(saying) \in Nat
          <5>1. Len(saying') = Len(saying) - n /\ Len(saying') = 0 /\ Len(saying) \in Nat /\ n \in Nat
            BY <1>1, <1>3, <1>6, <3>5 DEF Arrives
          <5> QED BY <5>1
        <4>2. saying[n] = Full[Len(Full) - Len(saying) + n]
          BY <1>3, <3>1 DEF Flows
        <4>3. Len(Full) - Len(saying) + n = Len(Full)
          BY <3>3, <4>1
        <4> QED BY <3>2, <4>2, <4>3 DEF EndsOnce
      <3>6. mode' \in {"up", "gate"} /\ (mode' = "gate" => saying' # <<>>)
        BY <1>2, <3>1, <3>5
      <3>7. Answering'
        BY <3>1, <3>4, <3>6 DEF Answering
      <3> QED BY <1>1, <2>2, <2>4, <3>7 DEF Stream
    <2>6. CASE at.step # "login" /\ Stuck
      <3>1. saying[n].kind # "gate" /\ mode' = mode /\ mode = "wedged"
        BY <1>1, <1>2, <1>3, <2>6 DEF Stuck
      <3>2. \A i \in 1..Len(buf') : buf'[i].kind \in {"echo", "text"}
        <4> SUFFICES ASSUME NEW i \in 1..Len(buf') PROVE buf'[i].kind \in {"echo", "text"}
          OBVIOUS
        <4>1. (\E j \in 1..Len(buf) : buf'[i] = buf[j]) \/ (\E j \in 1..Len(saying) : buf'[i] = saying[j])
          <5>1. /\ Len(buf') <= Len(buf) + n /\ Len(buf) \in Nat /\ Len(buf') \in Nat
                /\ n \in Nat /\ n <= Len(saying) /\ Len(saying) \in Nat
                /\ i \in Nat /\ i >= 1 /\ i <= Len(buf')
            <6>1. Len(buf') <= Len(buf) + n /\ buf' \in Seq(Said)
              BY <1>6 DEF Arrives
            <6>2. Len(buf') \in Nat /\ Len(buf) \in Nat /\ Len(saying) \in Nat
              BY <1>1, <6>1
            <6> QED BY <1>3, <6>1, <6>2
          <5>4. PICK last \in Int : last = 0 + Len(buf) + n - Len(buf')
            <6>1. 0 + Len(buf) + n - Len(buf') \in Int
              BY <5>1
            <6> QED BY <6>1
          <5>6. Len(buf) = 0 + Len(buf) /\ Len(buf) \in Int /\ 0 \in Int
            BY <5>1
          <5>5. InTail(Len(buf), Len(saying), n, Len(buf'), i, Len(buf), 0, last)
            BY <5>1, <5>4, <5>6, PlaceInTail
          <5> DEFINE k == Len(buf) + n - Len(buf') + i
          <5>2. /\ k <= Len(buf) => k \in 1..Len(buf)
                /\ ~(k <= Len(buf)) => k - Len(buf) \in 1..Len(saying)
            BY <5>5 DEF InTail
          <5>3. buf'[i] = IF k <= Len(buf) THEN buf[k] ELSE saying[k - Len(buf)]
            BY <1>6 DEF Arrives
          <5> HIDE DEF k
          <5> QED BY <5>2, <5>3
        <4> QED BY <2>6, <4>1 DEF Stuck
      <3>3. \A i \in 1..Len(saying') : saying'[i].kind \in {"echo", "text"}
        <4> SUFFICES ASSUME NEW i \in 1..Len(saying') PROVE saying'[i].kind \in {"echo", "text"}
          OBVIOUS
        <4>1. saying'[i] = saying[n + i] /\ Len(saying') = Len(saying) - n
          BY <1>6 DEF Arrives
        <4>2. n + i \in 1..Len(saying)
          BY <1>1, <1>3, <4>1
        <4> QED BY <2>6, <4>1, <4>2 DEF Stuck
      <3>4. Stuck'
        BY <1>1, <2>6, <3>1, <3>2, <3>3 DEF Stuck
      <3> QED BY <1>1, <2>2, <2>4, <2>6, <3>4 DEF Stream
    <2> QED BY <2>1, <2>3, <2>4, <2>5, <2>6 DEF Stream, Untaken
  <1> QED BY <1>1, <1>7, <1>8, <1>9 DEF SessionInv

LEMMA HangupKeeps ==
  ASSUME SessionInv, Hangup
  PROVE  SessionInv'
  <1>1. /\ SessionType /\ ReadsFor /\ mode' = "gone"
        /\ UNCHANGED <<answerOf, typed, saying, buf, overflow, loop, cmd, at, platform, results, slipped, forced>>
    BY DEF SessionInv, Hangup, visit, run
  <1>2. SessionType'
    BY <1>1 DEF SessionType
  <1>3. ReadsFor'
    BY <1>1 DEF ReadsFor, CommandAt
  <1>4. ASSUME ~slipped PROVE Stream' /\ Tells'
    <2>1. Stream /\ Tells
      BY <1>4 DEF SessionInv
    <2>2. Tells' /\ Full' = Full
      BY <1>1, <2>1, TellsStill, FullStill
    <2>3. (Untaken => Untaken') /\ (Stuck => Stuck') /\ (Answering => Answering') /\ (Quiet => Quiet')
      BY <1>1, <2>2 DEF Untaken, Stuck, Answering, Quiet
    <2> QED BY <1>1, <2>1, <2>2, <2>3 DEF Stream
  <1> QED BY <1>1, <1>2, <1>3, <1>4 DEF SessionInv

\* The readers start with the whole of the banner to come.
LEMMA GrantedKeeps ==
  ASSUME SessionInv, Granted
  PROVE  SessionInv'
  <1>1. /\ SessionType /\ ReadsFor /\ at.step = "open" /\ loop = "idle" /\ mode = "up" /\ cmd = Login
        /\ UNCHANGED <<answerOf, mode, typed, buf, overflow, cmd, platform, results, slipped, forced>>
    BY DEF SessionInv, ReadsFor, Granted, stream, run
  <1>2. ASSUME ~slipped, at'.step \in {"open", "login"}
        PROVE  Tells' /\ Quiet
    <2>1. Stream /\ Tells
      BY <1>2 DEF SessionInv
    <2>2. (\A k : Took(k)' <=> Took(k)) /\ (\A c : Whole(c)' = Whole(c))
      BY <1>1 DEF Took, Whole, Body, Shown
    <2> QED BY <1>1, <1>2, <2>1, <2>2 DEF Stream, Tells
  <1>3. CASE at.n < 3 /\ at' = [at EXCEPT !.n = @ + 1] /\ UNCHANGED <<saying, loop>>
    <2>1. at \in [step: {"open"}, n: 1..3]
      BY <1>1 DEF SessionType, Places
    <2>2. at' \in [step: {"open"}, n: 1..3]
      BY <1>3, <2>1
    <2>3. at' \in Places /\ at'.step = "open"
      BY <2>2 DEF Places
    <2>4. SessionType' /\ ReadsFor'
      BY <1>1, <1>3, <2>3 DEF SessionType, ReadsFor
    <2>5. ~slipped => Stream'
      BY <1>1, <1>2, <1>3, <2>3 DEF Stream, Quiet
    <2> QED BY <1>1, <1>2, <2>3, <2>4, <2>5 DEF SessionInv
  <1>4. CASE /\ at' = [step |-> "login", n |-> 0] /\ loop' = "look"
             /\ saying' = Append(Body(Login), EndLine(Login))
    <2> DEFINE f == Append(Body(Login), EndLine(Login))
    <2>1. f \in Seq(Said) /\ Len(f) \in Nat \ {0}
      <3>1. Body(Login) \in Seq(Said) /\ EndLine(Login) \in Said
        BY <1>1, BodyTyped DEF SessionType
      <3> QED BY <3>1
    <2>2. Full' = f
      BY <1>1, <1>4 DEF Full, Body
    <2>3. saying' = f
      BY <1>4
    <2> HIDE DEF f
    <2>4. at' \in Places /\ at'.step = "login"
      BY <1>4 DEF Places
    <2>5. SessionType'
      BY <1>1, <1>4, <2>1, <2>3, <2>4 DEF SessionType
    <2>6. ReadsFor'
      BY <1>1, <1>4, <2>4 DEF ReadsFor
    <2>7. ASSUME ~slipped PROVE Answering'
      <3>1. Flows(f, <<>>, f, overflow)
        BY <2>1, NothingYet
      <3>2. Quiet
        BY <1>2, <2>4, <2>7
      <3> QED BY <1>1, <2>2, <2>3, <3>1, <3>2 DEF Answering, Quiet
    <2> QED BY <1>1, <1>2, <1>4, <2>4, <2>5, <2>6, <2>7 DEF SessionInv, Stream
  <1> QED BY <1>3, <1>4 DEF Granted

LEMMA OpenEndsKeeps ==
  ASSUME SessionInv, OpenEnds
  PROVE  SessionInv'
  <1>1. /\ SessionType /\ ReadsFor /\ at.step = "open" /\ loop = "idle"
        /\ at' = [step |-> "failed", n |-> 0]
        /\ UNCHANGED <<answerOf, mode, typed, saying, buf, overflow, loop, cmd, results, slipped, forced>>
    BY DEF SessionInv, ReadsFor, OpenEnds, Stop, Proceed, device, stream, run
  <1>2. at' \in Places /\ at'.step = "failed"
    BY <1>1, PlacesTyped
  <1>3. SessionType' /\ ReadsFor'
    BY <1>1, <1>2 DEF SessionType, ReadsFor
  <1>4. ASSUME ~slipped PROVE Stream' /\ Tells'
    <2>1. Stream /\ Tells
      BY <1>4 DEF SessionInv
    <2>2. (\A k : Took(k)' <=> Took(k)) /\ (\A c : Whole(c)' = Whole(c))
      BY <1>1 DEF Took, Whole, Body, Shown
    <2> QED BY <1>1, <1>2, <2>1, <2>2 DEF Stream, Quiet, Tells
  <1> QED BY <1>1, <1>3, <1>4 DEF SessionInv

LEMMA RunWithKeeps ==
  ASSUME SessionInv, RunWith
  PROVE  SessionInv'
  <1>1. /\ SessionType /\ ReadsFor /\ loop = "idle" /\ at.step \notin {"open", "login", "done", "failed"}
        /\ cmd' = CommandAt(at) /\ overflow' = FALSE /\ loop' = "sending"
        /\ UNCHANGED <<answerOf, mode, typed, saying, buf, at, platform, results, slipped, forced>>
    BY DEF SessionInv, ReadsFor, RunWith, Running, device, run
  <1>2. cmd' \in Commands
    BY <1>1, CommandTyped
  <1>3. SessionType'
    BY <1>1 DEF SessionType
  <1>4. ReadsFor'
    BY <1>1, <1>2 DEF ReadsFor, CommandAt
  <1>5. ASSUME ~slipped PROVE Stream' /\ Tells'
    <2>1. Stream /\ Tells
      BY <1>5 DEF SessionInv
    <2>2. Tells'
      BY <1>1, <2>1, TellsStill
    <2> QED BY <1>1, <2>1, <2>2 DEF Stream, Quiet
  <1> QED BY <1>1, <1>3, <1>4, <1>5 DEF SessionInv

LEMMA SentKeeps ==
  ASSUME SessionInv, Sent
  PROVE  SessionInv'
  <1>1. /\ SessionType /\ ReadsFor /\ loop = "sending" /\ loop' = "look"
        /\ typed' = Append(typed, Command(cmd))
        /\ UNCHANGED <<answerOf, mode, saying, buf, overflow, cmd, at, platform, results, slipped, forced>>
    BY DEF SessionInv, Sent, Command, stream, run
  <1>2. cmd \in Commands /\ at.step # "login" /\ typed \in Seq(Typed)
    BY <1>1 DEF ReadsFor, SessionType
  <1>3. Command(cmd) \in Typed
    BY <1>2 DEF Typed
  <1>4. SessionType'
    <2>1. typed' \in Seq(Typed)
      BY <1>1, <1>2, <1>3
    <2> QED BY <1>1, <2>1 DEF SessionType
  <1>5. ReadsFor'
    BY <1>1, <1>2 DEF ReadsFor, CommandAt
  <1>6. ASSUME ~slipped PROVE Stream' /\ Tells'
    <2>1. Stream /\ Tells
      BY <1>6 DEF SessionInv
    <2>2. Tells'
      BY <1>1, <2>1, TellsStill
    <2>3. Quiet /\ ~overflow
      BY <1>1, <2>1 DEF Stream
    <2>4. /\ typed' # <<>> /\ typed'[Len(typed')] = Command(cmd)
          /\ \A i \in 1..(Len(typed') - 1) : typed'[i] = Space
      BY <1>1, <1>2, <2>3, KeysTyped DEF Quiet
    <2>5. Untaken'
      BY <1>1, <2>3, <2>4 DEF Untaken, Quiet
    <2> QED BY <1>1, <1>2, <2>2, <2>5 DEF Stream
  <1> QED BY <1>1, <1>4, <1>5, <1>6 DEF SessionInv

\* What a capture is answered with is an outcome.
LEMMA FailedIsTyped == Failed \in Outcome /\ ~Failed.ok /\ Failed.ok \in BOOLEAN
  BY DEF Failed, Outcome

\* A command that is not sent, or a read that ends without its prompt.
LEMMA FailureTyped ==
  ASSUME SessionType, ReadsFor, After(Failed), at.step \notin {"open", "done", "failed"},
         loop' = "idle", UNCHANGED <<forced>>
  PROVE  /\ GoesOn(Failed) /\ ReadsFor' /\ at' \in Places
         /\ results' \in [DOMAIN Captures -> Outcome \cup {None}]
  <1>1. GoesOn(Failed)
    BY AfterGoes, FailedIsTyped
  <1>2. /\ at' \in Places /\ at'.step \notin {"login", "open"}
        /\ at'.step = "paging" => Probes[at'.n].paging # None
        /\ results' \in [DOMAIN Captures -> Outcome \cup {None}]
    BY <1>1, GoesTyped, FailedIsTyped
  <1> QED BY <1>1, <1>2 DEF ReadsFor

LEMMA RunRefusedKeeps ==
  ASSUME SessionInv, RunRefused
  PROVE  SessionInv'
  <1>1. /\ SessionType /\ ReadsFor /\ loop = "idle" /\ at.step \notin {"open", "done", "failed"} /\ After(Failed)
        /\ UNCHANGED <<answerOf, mode, typed, saying, buf, overflow, loop, cmd, slipped, forced>>
    BY DEF SessionInv, RunRefused, Running, device, stream, run
  <1>2. /\ GoesOn(Failed) /\ ReadsFor' /\ at' \in Places
        /\ results' \in [DOMAIN Captures -> Outcome \cup {None}]
    BY <1>1, FailureTyped
  <1>3. SessionType'
    BY <1>1, <1>2 DEF SessionType
  <1>4. ASSUME ~slipped PROVE Stream' /\ Tells'
    <2>1. Stream /\ Tells
      BY <1>4 DEF SessionInv
    <2>2. Tells'
      BY <1>1, <1>2, <2>1, FailedIsTyped, GoesTells DEF Answers
    <2> QED BY <1>1, <2>1, <2>2 DEF Stream, Quiet
  <1> QED BY <1>1, <1>2, <1>3, <1>4 DEF SessionInv

\* A read that ends without the prompt it was for.
LEMMA FailureKeeps ==
  ASSUME SessionInv, loop # "idle", ReadEnds(Failed), slipped' = TRUE, UNCHANGED <<device, stream>>
  PROVE  SessionInv'
  <1>1. /\ SessionType /\ ReadsFor /\ loop' = "idle" /\ at.step \notin {"open", "done", "failed"} /\ After(Failed)
        /\ UNCHANGED <<answerOf, mode, typed, saying, buf, overflow, cmd, forced>>
    BY DEF SessionInv, ReadsFor, ReadEnds, device, stream, run
  <1>2. /\ GoesOn(Failed) /\ ReadsFor' /\ at' \in Places
        /\ results' \in [DOMAIN Captures -> Outcome \cup {None}]
    BY <1>1, FailureTyped
  <1>3. SessionType'
    BY <1>1, <1>2 DEF SessionType
  <1> QED BY <1>2, <1>3 DEF SessionInv

\* A write that the connection did not outlive: of a command, with the stream as
\* quiet as it was, or of a key, in a read.
LEMMA SendFailsKeeps ==
  ASSUME SessionInv, SendFails
  PROVE  SessionInv'
  <1>1. CASE loop = "keying"
    BY <1>1, FailureKeeps DEF SendFails, SessionInv, SessionType
  <1>2. CASE loop = "sending"
    <2>1. /\ SessionType /\ ReadsFor /\ loop' = "idle" /\ at.step \notin {"open", "done", "failed"}
          /\ After(Failed)
          /\ UNCHANGED <<answerOf, mode, typed, saying, buf, overflow, cmd, slipped, forced>>
      BY <1>2 DEF SessionInv, SessionType, ReadsFor, SendFails, ReadEnds, device, stream, run
    <2>2. /\ GoesOn(Failed) /\ ReadsFor' /\ at' \in Places
          /\ results' \in [DOMAIN Captures -> Outcome \cup {None}]
      BY <2>1, FailureTyped
    <2>3. SessionType'
      BY <2>1, <2>2 DEF SessionType
    <2>4. ASSUME ~slipped PROVE Stream' /\ Tells'
      <3>1. Stream /\ Tells
        BY <2>4 DEF SessionInv
      <3>2. Tells'
        BY <2>1, <2>2, <3>1, FailedIsTyped, GoesTells DEF Answers
      <3> QED BY <1>2, <2>1, <3>1, <3>2 DEF Stream, Quiet
    <2> QED BY <2>1, <2>2, <2>3, <2>4 DEF SessionInv
  <1> QED BY <1>1, <1>2 DEF SendFails

\* What arrived before the prompt of the command is its answer, whole.
LEMMA PromptIsItsOwn ==
  ASSUME SessionType, ReadsFor, Stream, loop = "look", LastLine(buf) = "prompt"
  PROVE  /\ Keys(typed) /\ saying = <<>> /\ mode \in {"up", "gone"}
         /\ ~overflow /\ at.step # "login" => Strip(Shown(buf), cmd) = Whole(CommandAt(at))
  <1>0. /\ buf \in Seq(Said) /\ saying \in Seq(Said) /\ answerOf \in Devices
        /\ LastLine(buf) # None
    BY NoneIsNoSort DEF SessionType
  <1>1. PICK i \in 1..Len(buf) : buf[i].kind = "prompt"
    BY <1>0, LastLineIs
  <1>2. ~Untaken /\ ~Stuck
    BY <1>1 DEF Untaken, Stuck
  <1>3. Answering
    BY <1>2 DEF Stream
  <1>4. EndsOnce(Full)
    BY FullEnds
  <1>5. saying = <<>> /\ (~overflow => buf = Full)
    BY <1>0, <1>3, <1>4, PromptEnds DEF Answering
  <1>6. ASSUME ~overflow, at.step # "login"
        PROVE  Strip(Shown(buf), cmd) = Whole(CommandAt(at))
    <2>1. /\ cmd \in Commands /\ cmd = CommandAt(at)
          /\ buf = <<Line(cmd, "echo")>> \o Append(Body(cmd), EndLine(cmd))
      BY <1>5, <1>6 DEF ReadsFor, Full
    <2> QED BY <1>0, <2>1, AnswerStripped
  <1> QED BY <1>3, <1>5, <1>6 DEF Answering

LEMMA PromptSeenKeeps ==
  ASSUME SessionInv, PromptSeen
  PROVE  SessionInv'
  <1> DEFINE o == IF overflow THEN Failed ELSE [ok |-> TRUE, lines |-> Strip(Shown(buf), cmd)]
  <1>1. /\ SessionType /\ ReadsFor /\ loop = "look" /\ loop' = "idle"
        /\ at.step \notin {"open", "done", "failed"} /\ After(o) /\ buf' = <<>> /\ slipped' = (slipped \/ LastLine(buf) # "prompt")
        /\ UNCHANGED <<answerOf, mode, typed, saying, overflow, cmd, forced>>
    BY DEF SessionInv, ReadsFor, PromptSeen, ReadEnds, device, run
  <1>2. o \in Outcome /\ o.ok \in BOOLEAN
    <2>1. Strip(Shown(buf), cmd) \in Seq(Said)
      BY <1>1, StripTyped, ShownTyped DEF SessionType
    <2> QED BY <2>1, FailedIsTyped DEF Outcome
  <1>3. o.ok => ~overflow /\ o.lines = Strip(Shown(buf), cmd)
    BY FailedIsTyped
  <1> HIDE DEF o
  <1>4. GoesOn(o)
    BY <1>1, <1>2, AfterGoes
  <1>5. /\ at' \in Places /\ at'.step \notin {"login", "open"}
        /\ at'.step = "paging" => Probes[at'.n].paging # None
        /\ results' \in [DOMAIN Captures -> Outcome \cup {None}]
    BY <1>1, <1>2, <1>4, GoesTyped
  <1>6. SessionType'
    <2>1. slipped' \in BOOLEAN /\ buf' \in Seq(Said)
      BY <1>1 DEF SessionType
    <2> QED BY <1>1, <1>5, <2>1 DEF SessionType
  <1>7. ReadsFor'
    BY <1>1, <1>5 DEF ReadsFor
  <1>8. ASSUME ~slipped' PROVE Stream' /\ Tells'
    <2>1. Stream /\ Tells /\ LastLine(buf) = "prompt"
      BY <1>1, <1>8 DEF SessionInv
    <2>2. /\ Keys(typed) /\ saying = <<>> /\ mode \in {"up", "gone"}
          /\ ~overflow /\ at.step # "login" => Strip(Shown(buf), cmd) = Whole(CommandAt(at))
      BY <1>1, <2>1, PromptIsItsOwn
    <2>3. Answers(o)
      BY <1>3, <2>2 DEF Answers
    <2>4. Tells'
      BY <1>1, <1>2, <1>4, <2>1, <2>3, GoesTells
    <2> QED BY <1>1, <2>2, <2>4 DEF Stream, Quiet
  <1> QED BY <1>6, <1>7, <1>8 DEF SessionInv

\* A gate at the end of the buffer: the command has been taken.
LEMMA NoPromptKeeps ==
  ASSUME SessionInv, NoPrompt
  PROVE  SessionInv'
  <1>1. /\ SessionType /\ ReadsFor /\ loop = "look"
        /\ loop' = IF LastLine(buf) = "gate" THEN "keying" ELSE "looked"
        /\ UNCHANGED <<answerOf, mode, typed, saying, buf, overflow, cmd, at, platform, results, slipped, forced>>
    BY DEF SessionInv, NoPrompt, device, stream, run
  <1>2. SessionType' /\ ReadsFor'
    BY <1>1 DEF SessionType, ReadsFor, CommandAt
  <1>3. ASSUME ~slipped PROVE Stream' /\ Tells'
    <2>1. Stream /\ Tells
      BY <1>3 DEF SessionInv
    <2>2. Tells' /\ Full' = Full
      BY <1>1, <2>1, TellsStill, FullStill
    <2>3. Untaken => loop' = "looked"
      BY <1>1, LastLineIs, NoneIsNoSort DEF Untaken, SessionType
    <2>4. (Untaken => Untaken') /\ (Stuck => Stuck') /\ (Answering => Answering')
      BY <1>1, <2>2 DEF Untaken, Stuck, Answering
    <2> QED BY <1>1, <2>1, <2>2, <2>3, <2>4 DEF Stream
  <1> QED BY <1>1, <1>2, <1>3 DEF SessionInv

LEMMA KeySentKeeps ==
  ASSUME SessionInv, KeySent
  PROVE  SessionInv'
  <1>1. /\ SessionType /\ ReadsFor /\ loop = "keying" /\ loop' = "looked"
        /\ UNCHANGED typed \/ typed' = Append(typed, Space)
        /\ UNCHANGED <<answerOf, mode, saying, buf, overflow, cmd, at, platform, results, slipped, forced>>
    BY DEF SessionInv, KeySent, stream, run
  <1>2. typed \in Seq(Typed) /\ Space \in Typed
    BY <1>1 DEF SessionType, Typed
  <1>3. SessionType'
    <2>1. typed' \in Seq(Typed)
      BY <1>1, <1>2
    <2> QED BY <1>1, <2>1 DEF SessionType
  <1>4. ReadsFor'
    BY <1>1 DEF ReadsFor, CommandAt
  <1>5. ASSUME ~slipped PROVE Stream' /\ Tells'
    <2>1. Stream /\ Tells
      BY <1>5 DEF SessionInv
    <2>2. Tells' /\ Full' = Full
      BY <1>1, <2>1, TellsStill, FullStill
    <2>3. Keys(typed) => Keys(typed')
      BY <1>1, <1>2, KeysTyped
    <2>4. (Stuck => Stuck') /\ (Answering => Answering')
      BY <1>1, <2>2, <2>3 DEF Stuck, Answering
    <2> QED BY <1>1, <2>1, <2>2, <2>4 DEF Stream
  <1> QED BY <1>1, <1>3, <1>4, <1>5 DEF SessionInv

\* A step that touches neither the stream nor where the visit is.
LEMMA LookingKeeps ==
  ASSUME SessionInv,
         loop' = loop \/ (loop \in {"looked", "wait"} /\ loop' \in {"look", "looked", "wait"}),
         UNCHANGED <<device, buf, overflow, cmd, at, platform, results, slipped, forced>>
  PROVE  SessionInv'
  <1>1. /\ SessionType /\ ReadsFor
        /\ UNCHANGED <<answerOf, mode, typed, saying, buf, overflow, cmd, at, platform, results, slipped, forced>>
    BY DEF SessionInv, device
  <1>2. SessionType' /\ ReadsFor'
    BY <1>1 DEF SessionType, ReadsFor, CommandAt
  <1>3. ASSUME ~slipped PROVE Stream' /\ Tells'
    <2>1. Stream /\ Tells
      BY <1>3 DEF SessionInv
    <2>2. Tells' /\ Full' = Full
      BY <1>1, <2>1, TellsStill, FullStill
    <2>3. (Untaken => Untaken') /\ (Stuck => Stuck') /\ (Answering => Answering') /\ (Quiet => Quiet')
      BY <1>1, <2>2 DEF Untaken, Stuck, Answering, Quiet
    <2> QED BY <1>1, <2>1, <2>2, <2>3 DEF Stream
  <1> QED BY <1>1, <1>2, <1>3 DEF SessionInv

LEMMA InitHolds == Init => SessionInv
  <1> SUFFICES ASSUME Init PROVE SessionInv
    OBVIOUS
  <1>1. /\ answerOf \in Devices /\ mode = "up" /\ typed = <<>> /\ saying = <<>> /\ buf = <<>> /\ overflow = FALSE
        /\ loop = "idle" /\ cmd = Login /\ at = [step |-> "open", n |-> 1] /\ platform = None
        /\ results = [i \in DOMAIN Captures |-> None] /\ forced \in Named /\ slipped = FALSE
    BY DEF Init
  <1>2. SessionType
    <2>1. at \in Places
      BY <1>1 DEF Places
    <2>2. typed \in Seq(Typed) /\ buf \in Seq(Said) /\ saying \in Seq(Said)
      BY <1>1
    <2>3. results \in [DOMAIN Captures -> Outcome \cup {None}]
      BY <1>1
    <2> QED BY <1>1, <2>1, <2>2, <2>3 DEF SessionType
  <1>3. ReadsFor
    BY <1>1 DEF ReadsFor
  <1>4. Quiet
    BY <1>1 DEF Quiet, Keys
  <1>5. Tells
    BY <1>1 DEF Tells
  <1> QED BY <1>1, <1>2, <1>3, <1>4, <1>5 DEF SessionInv, Stream

LEMMA StepKeeps == SessionInv /\ [Next]_vars => SessionInv'
  <1> SUFFICES ASSUME SessionInv, [Next]_vars PROVE SessionInv'
    OBVIOUS
  <1>1. CASE DeviceReads
    BY <1>1, DeviceReadsKeeps
  <1>2. CASE KeyHit
    BY <1>2, KeyHitKeeps
  <1>3. CASE DeviceWrites
    BY <1>3, DeviceWritesKeeps
  <1>4. CASE Hangup
    BY <1>4, HangupKeeps
  <1>5. CASE RunWith
    BY <1>5, RunWithKeeps
  <1>6. CASE RunRefused
    BY <1>6, RunRefusedKeeps
  <1>7. CASE PromptSeen
    BY <1>7, PromptSeenKeeps
  <1>8. CASE NoPrompt
    BY <1>8, NoPromptKeeps
  <1>9. CASE Select
    BY <1>9, LookingKeeps DEF Select, stream, run
  <1>10. CASE SessionClosed
    BY <1>10, FailureKeeps DEF SessionClosed
  <1>11. CASE Wake
    BY <1>11, LookingKeeps DEF Wake, run
  <1>12. CASE GiveUp
    BY <1>12, FailureKeeps DEF GiveUp
  <1>13. CASE Cancel
    BY <1>13, LookingKeeps DEF Cancel, stream, visit, SessionInv, SessionType
  <1>14. CASE UNCHANGED vars
    BY <1>14, LookingKeeps DEF vars, stream, visit, run, SessionInv, SessionType
  <1>15. CASE Granted
    BY <1>15, GrantedKeeps
  <1>16. CASE OpenEnds
    BY <1>16, OpenEndsKeeps
  <1>17. CASE Sent
    BY <1>17, SentKeeps
  <1>18. CASE SendFails
    BY <1>18, SendFailsKeeps
  <1>19. CASE KeySent
    BY <1>19, KeySentKeeps
  <1> QED BY <1>1, <1>2, <1>3, <1>4, <1>5, <1>6, <1>7, <1>8, <1>9, <1>10, <1>11, <1>12, <1>13, <1>14,
             <1>15, <1>16, <1>17, <1>18, <1>19
          DEF Next, Expect

\* Every reachable state satisfies the invariant.
THEOREM StreamIsSound == Spec => []SessionInv
  BY InitHolds, StepKeeps, PTL DEF Spec

\* While no read has ended without the prompt it was for, the lines handed over
\* for a capture are the whole of what that device answers to that command and
\* nothing else, whatever the chunks, the gates, the limits and the probe table
\* (RunWith and expect, session.go; Fingerprint, fingerprint.go; clean.go).
THEOREM AnswersAreWhole == Spec => []AnswerIsWhole
  <1>1. SessionInv => AnswerIsWhole
    BY DEF SessionInv, Tells, AnswerIsWhole
  <1> QED BY <1>1, StreamIsSound, PTL

\* By the time captures are sent, a platform that was detected is one its version
\* answer names, and the device has not refused that probe's paging command
\* (Fingerprint, fingerprint.go).
THEOREM PlatformIsRight == Spec => []PlatformIsTheDevices
  <1>1. SessionInv => PlatformIsTheDevices
    BY DEF SessionInv, Tells, Took, PlatformIsTheDevices
  <1> QED BY <1>1, StreamIsSound, PTL

-----------------------------------------------------------------------------
(* The wake.                                                               *)

\* From the look that found no prompt to the select, and in it, a prompt in the
\* buffer came with a wake that is still there.
Wakes == loop \in {"keying", "looked", "wait"} /\ EndsAtPrompt(buf) => notify

LEMMA WakesHolds == SessionInv /\ Wakes /\ [Next]_vars => Wakes'
  <1> SUFFICES ASSUME SessionInv, Wakes, [Next]_vars PROVE Wakes'
    OBVIOUS
  <1>1. CASE DeviceReads \/ KeyHit
    BY <1>1 DEF DeviceReads, KeyHit, Wakes, stream, visit
  <1>2. CASE DeviceWrites
    BY <1>2 DEF DeviceWrites, Arrive, Wakes
  <1>13. CASE Hangup
    BY <1>13 DEF Hangup, Wakes, visit, SessionInv, ReadsFor
  <1>3. CASE RunWith \/ Sent \/ Granted
    BY <1>3 DEF RunWith, Sent, Granted, Wakes, stream
  <1>4. CASE RunRefused \/ OpenEnds
    BY <1>4 DEF RunRefused, OpenEnds, Wakes, stream
  <1>5. CASE PromptSeen
    BY <1>5 DEF PromptSeen, ReadEnds, Wakes
  <1>6. CASE NoPrompt
    BY <1>6 DEF NoPrompt, Wakes, stream
  <1>7. CASE Select
    BY <1>7 DEF Select, Wakes, stream
  <1>8. CASE SessionClosed \/ GiveUp \/ SendFails
    BY <1>8 DEF SessionClosed, GiveUp, SendFails, ReadEnds, Wakes
  <1>9. CASE Wake
    BY <1>9 DEF Wake, Wakes
  <1>10. CASE Cancel
    BY <1>10 DEF Cancel, Wakes, stream, visit
  <1>11. CASE UNCHANGED vars
    BY <1>11 DEF vars, Wakes, stream, visit
  <1>12. CASE KeySent
    BY <1>12 DEF KeySent, Wakes, stream
  <1> QED BY <1>1, <1>2, <1>3, <1>4, <1>5, <1>6, <1>7, <1>8, <1>9, <1>10, <1>11, <1>12, <1>13
          DEF Next, Expect

\* A read never sleeps on a prompt that has arrived: between expect's look at the
\* buffer and its select, the one-place notify channel keeps the wake
\* (readLoop and expect, session.go).
THEOREM PromptsWake == Spec => []PromptWakes
  <1>1. Init => Wakes
    BY DEF Init, Wakes
  <1>2. Wakes => PromptWakes
    BY DEF Wakes, PromptWakes
  <1> QED BY <1>1, <1>2, StreamIsSound, WakesHolds, PTL DEF Spec

=============================================================================
