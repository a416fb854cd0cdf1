-------------------------- MODULE VideoScreenProofs --------------------------
(***************************************************************************)
(* The screen matches the transport state and no opcode is dropped, on     *)
(* every disc whose chapters fit a byte of the queue.                      *)
(*                                                                         *)
(* The argument: the commands between the main thread and the player lead  *)
(* from what is seen to what is wanted (OnTheWay of VideoInductive).  An   *)
(* API function appends commands that lead from the old wish to the new    *)
(* one; the playback thread removes the first command and does to the      *)
(* player what that command leads to; handing a command from one place to  *)
(* the next leaves the sequence as it was.                                 *)
(***************************************************************************)
EXTENDS VideoProofs, SetInduction

-----------------------------------------------------------------------------
(* Sequences of commands that lead from one view to another.               *)

\* One step of Reached.
Onward(c, from) == UNION {{y \in Views : Leads(c, x, y)} : x \in from}

\* The function that Reached takes its value from.
ReachedBy(cmds, v) ==
  CHOOSE reached : reached = [i \in 0 .. Len(cmds) |->
                                IF i = 0 THEN {v}
                                ELSE UNION {{y \in Views : Leads(cmds[i], x, y)}
                                              : x \in reached[i - 1]}]

LEMMA ReachedIsLast ==
  ASSUME NEW cmds, NEW v
  PROVE  Reached(cmds, v) = ReachedBy(cmds, v)[Len(cmds)]
BY Zenon DEF Reached, ReachedBy

\* What the first n commands lead to.
IsReached(cmds, v, n, g) ==
  /\ g = [i \in 0 .. n |-> g[i]]
  /\ g[0] = {v}
  /\ \A i \in 1 .. n : g[i] = Onward(cmds[i], g[i - 1])

LEMMA SomeReached ==
  ASSUME NEW cmds, NEW v, NEW L \in Nat
  PROVE  \E g : IsReached(cmds, v, L, g)
<1> DEFINE S == {n \in 0 .. L : \E g : IsReached(cmds, v, n, g)}
<1>1. 0 \in S
  <2>1. IsReached(cmds, v, 0, [i \in 0 .. 0 |-> {v}])
    BY DEF IsReached
  <2> QED
    BY <2>1
<1>2. ASSUME NEW n \in 0 .. L - 1, n \in S PROVE n + 1 \in S
  <2>1. PICK g : IsReached(cmds, v, n, g)
    BY <1>2
  <2> DEFINE w == Onward(cmds[n + 1], g[n])
             h == [i \in 0 .. n + 1 |-> IF i = n + 1 THEN w ELSE g[i]]
  <2>2. h = [i \in 0 .. n + 1 |-> h[i]] /\ h[0] = {v}
    BY <2>1 DEF IsReached
  <2>3. ASSUME NEW i \in 1 .. n + 1 PROVE h[i] = Onward(cmds[i], h[i - 1])
    <3>1. CASE i = n + 1
      <4>1. h[i] = w /\ h[i - 1] = g[n] /\ i = n + 1
        BY <3>1
      <4> QED
        BY <4>1
    <3>2. CASE i \in 1 .. n
      <4>1. h[i] = g[i] /\ h[i - 1] = g[i - 1]
        BY <3>2
      <4> QED
        BY <2>1, <3>2, <4>1 DEF IsReached
    <3> QED
      BY <3>1, <3>2
  <2>4. IsReached(cmds, v, n + 1, h)
    <3> HIDE DEF h
    <3> QED
      BY <2>2, <2>3 DEF IsReached
  <2> QED
    BY <2>4
<1>3. 0 .. L \subseteq S
  <2> HIDE DEF S
  <2> QED
    BY <1>1, <1>2, Induction
<1> QED
  BY <1>3

LEMMA ReachedSteps ==
  ASSUME NEW cmds \in Seq(Commands), NEW v
  PROVE  IsReached(cmds, v, Len(cmds), ReachedBy(cmds, v))
<1> DEFINE L == Len(cmds)
           r == ReachedBy(cmds, v)
           Step(f) == [i \in 0 .. L |-> IF i = 0 THEN {v}
                                        ELSE UNION {{y \in Views : Leads(cmds[i], x, y)}
                                                      : x \in f[i - 1]}]
<1>1. L \in Nat
  BY LenProperties
<1>2. r = Step(r)
  <2>1. PICK g : IsReached(cmds, v, L, g)
    BY <1>1, SomeReached
  <2>2. ASSUME NEW i \in 0 .. L PROVE g[i] = Step(g)[i]
    <3>1. CASE i = 0
      BY <2>1, <3>1 DEF IsReached
    <3>2. CASE i # 0
      <4>1. i \in 1 .. L
        BY <1>1, <3>2
      <4>2. g[i] = Onward(cmds[i], g[i - 1])
        BY <2>1, <4>1 DEF IsReached
      <4>3. g[i] = UNION {{y \in Views : Leads(cmds[i], x, y)} : x \in g[i - 1]}
        BY <4>2, Zenon DEF Onward
      <4> QED
        BY <3>2, <4>3, Zenon
    <3> QED
      BY <3>1, <3>2
  <2>3. g = Step(g)
    <3>1. g = [i \in 0 .. L |-> g[i]]
      BY <2>1 DEF IsReached
    <3>2. Step(g) = [i \in 0 .. L |-> Step(g)[i]]
      BY Zenon
    <3> HIDE DEF Step
    <3> QED
      BY <2>2, <3>1, <3>2
  <2>4. \E f : f = [i \in 0 .. Len(cmds) |->
                      IF i = 0 THEN {v}
                      ELSE UNION {{y \in Views : Leads(cmds[i], x, y)} : x \in f[i - 1]}]
    BY <2>3, Zenon
  <2> QED
    BY <2>4, Zenon DEF ReachedBy
<1> HIDE DEF r
<1>3. \A i \in 0 .. L : r[i] = IF i = 0 THEN {v}
                               ELSE UNION {{y \in Views : Leads(cmds[i], x, y)}
                                             : x \in r[i - 1]}
  BY <1>2, Zenon
<1>4. r[0] = {v}
  <2>1. 0 \in 0 .. L
    BY <1>1
  <2> QED
    BY <1>3, <2>1, Zenon
<1>5. ASSUME NEW i \in 1 .. L PROVE r[i] = Onward(cmds[i], r[i - 1])
  <2>1. i \in 0 .. L /\ i # 0
    BY <1>1
  <2> QED
    BY <1>3, <2>1, Zenon DEF Onward
<1>6. r = [i \in 0 .. L |-> r[i]]
  <2>1. r = [i \in 0 .. L |-> Step(r)[i]]
    BY <1>2, Zenon
  <2> QED
    BY <1>2, <2>1, Zenon
<1> QED
  BY <1>4, <1>5, <1>6 DEF IsReached, r

\* The commands lead from v to w if there are views along the way, one behind each
\* command.
LEMMA LeadAlong ==
  ASSUME NEW cmds \in Seq(Commands), NEW v \in Views, NEW w
  PROVE  LeadTo(cmds, v, w) <=>
           \E tr \in [0 .. Len(cmds) -> Views] :
             /\ tr[0] = v
             /\ tr[Len(cmds)] = w
             /\ \A i \in 1 .. Len(cmds) : Leads(cmds[i], tr[i - 1], tr[i])
<1> DEFINE L == Len(cmds)
           r == ReachedBy(cmds, v)
           Way(n, x, tr) == /\ tr \in [0 .. n -> Views]
                            /\ tr[0] = v
                            /\ tr[n] = x
                            /\ \A i \in 1 .. n : Leads(cmds[i], tr[i - 1], tr[i])
<1>1. L \in Nat
  BY LenProperties
<1>2. IsReached(cmds, v, L, r)
  BY ReachedSteps
<1>3. r[0] = {v} /\ \A i \in 1 .. L : r[i] = Onward(cmds[i], r[i - 1])
  BY <1>2, Zenon DEF IsReached
<1>4. LeadTo(cmds, v, w) <=> w \in r[L]
  BY ReachedIsLast, Zenon DEF LeadTo
<1> HIDE DEF L, r
<1>5. ASSUME w \in r[L] PROVE \E tr : Way(L, w, tr)
  <2> DEFINE S == {n \in 0 .. L : \A x \in r[n] : \E tr : Way(n, x, tr)}
  <2>1. 0 \in S
    <3>1. ASSUME NEW x \in r[0] PROVE \E tr : Way(0, x, tr)
      <4>1. Way(0, x, [i \in 0 .. 0 |-> v])
        BY <1>3, <3>1
      <4> QED
        BY <4>1
    <3> QED
      BY <1>1, <3>1
  <2>2. ASSUME NEW n \in 0 .. L - 1, n \in S PROVE n + 1 \in S
    <3>0. n \in Nat /\ n + 1 \in 1 .. L /\ n + 1 - 1 = n
      BY <1>1
    <3>1. ASSUME NEW y \in r[n + 1] PROVE \E tr : Way(n + 1, y, tr)
      <4>1. r[n + 1] = Onward(cmds[n + 1], r[n])
        BY <1>3, <3>0
      <4>2. PICK x \in r[n] : y \in Views /\ Leads(cmds[n + 1], x, y)
        BY <3>1, <4>1 DEF Onward
      <4>3. PICK tr : Way(n, x, tr)
        BY <2>2, <4>2
      <4> DEFINE u == [i \in 0 .. n + 1 |-> IF i = n + 1 THEN y ELSE tr[i]]
      <4>4. u \in [0 .. n + 1 -> Views] /\ u[0] = v /\ u[n + 1] = y
        BY <3>0, <4>2, <4>3
      <4>5. ASSUME NEW i \in 1 .. n + 1 PROVE Leads(cmds[i], u[i - 1], u[i])
        <5>1. CASE i = n + 1
          <6>1. u[i - 1] = x /\ u[i] = y
            BY <3>0, <4>3, <5>1
          <6> QED
            BY <4>2, <5>1, <6>1
        <5>2. CASE i \in 1 .. n
          <6>1. u[i - 1] = tr[i - 1] /\ u[i] = tr[i]
            BY <3>0, <5>2
          <6> QED
            BY <4>3, <5>2, <6>1
        <5> QED
          BY <3>0, <5>1, <5>2
      <4> HIDE DEF u
      <4> QED
        BY <4>4, <4>5
    <3> HIDE DEF Way
    <3> QED
      BY <3>0, <3>1
  <2>3. 0 .. L \subseteq S
    <3> HIDE DEF S
    <3> QED
      BY <1>1, <2>1, <2>2, Induction
  <2> HIDE DEF Way
  <2> QED
    BY <1>1, <1>5, <2>3
<1>6. ASSUME NEW tr, Way(L, w, tr) PROVE w \in r[L]
  <2> DEFINE S == {n \in 0 .. L : tr[n] \in r[n]}
  <2>1. 0 \in S
    BY <1>1, <1>3, <1>6
  <2>2. ASSUME NEW n \in 0 .. L - 1, n \in S PROVE n + 1 \in S
    <3>0. n \in Nat /\ n + 1 \in 1 .. L /\ n + 1 \in 0 .. L /\ n + 1 - 1 = n
      BY <1>1
    <3>1. Leads(cmds[n + 1], tr[n], tr[n + 1]) /\ tr[n + 1] \in Views
      BY <1>6, <3>0
    <3>2. tr[n + 1] \in Onward(cmds[n + 1], r[n])
      BY <2>2, <3>1 DEF Onward
    <3> QED
      BY <1>3, <3>0, <3>2
  <2>3. 0 .. L \subseteq S
    <3> HIDE DEF S
    <3> QED
      BY <1>1, <2>1, <2>2, Induction
  <2> QED
    BY <1>1, <1>6, <2>3
<1>7. (\E tr : Way(L, w, tr)) <=>
        \E tr \in [0 .. L -> Views] :
          /\ tr[0] = v
          /\ tr[L] = w
          /\ \A i \in 1 .. L : Leads(cmds[i], tr[i - 1], tr[i])
  BY Zenon
<1> HIDE DEF Way
<1>8. LeadTo(cmds, v, w) <=> \E tr : Way(L, w, tr)
  BY <1>4, <1>5, <1>6
<1> QED
  BY <1>7, <1>8, Zenon DEF L

\* No command leads nowhere.
LEMMA LeadNowhere ==
  ASSUME NEW cmds \in Seq(Commands), NEW v \in Views, NEW w \in Views
  PROVE  Len(cmds) = 0 => (LeadTo(cmds, v, w) <=> v = w)
<1>1. LeadTo(cmds, v, w) <=>
        \E tr \in [0 .. Len(cmds) -> Views] :
          /\ tr[0] = v
          /\ tr[Len(cmds)] = w
          /\ \A i \in 1 .. Len(cmds) : Leads(cmds[i], tr[i - 1], tr[i])
  BY LeadAlong
<1> DEFINE n == Len(cmds)
<1>2. LeadTo(cmds, v, w) <=>
        \E tr \in [0 .. n -> Views] :
          tr[0] = v /\ tr[n] = w /\ \A i \in 1 .. n : Leads(cmds[i], tr[i - 1], tr[i])
  BY <1>1
<1> HIDE DEF n
<1>3. ASSUME n = 0, LeadTo(cmds, v, w) PROVE v = w
  BY <1>2, <1>3
<1>4. ASSUME n = 0, v = w PROVE LeadTo(cmds, v, w)
  <2> DEFINE tr == [i \in 0 .. 0 |-> v]
  <2>1. tr \in [0 .. n -> Views] /\ tr[0] = v /\ tr[n] = w
    BY <1>4
  <2>2. \A i \in 1 .. n : Leads(cmds[i], tr[i - 1], tr[i])
    BY <1>4
  <2> HIDE DEF tr
  <2> QED
    BY <1>2, <2>1, <2>2
<1> QED
  BY <1>3, <1>4 DEF n

LEMMA LeadEmpty ==
  ASSUME NEW v \in Views, NEW w \in Views
  PROVE  LeadTo(<<>>, v, w) <=> v = w
<1>1. \A cmds \in Seq(Commands) : Len(cmds) = 0 => (LeadTo(cmds, v, w) <=> v = w)
  BY LeadNowhere
<1>2. <<>> \in Seq(Commands) /\ Len(<<>>) = 0
  OBVIOUS
<1> QED
  BY <1>1, <1>2, Zenon

\* One more command leads one step further.
LEMMA LeadAppend ==
  ASSUME NEW cmds \in Seq(Commands), NEW c \in Commands,
         NEW v \in Views, NEW w \in Views, NEW x \in Views,
         LeadTo(cmds, v, w), Leads(c, w, x)
  PROVE  LeadTo(Append(cmds, c), v, x)
<1> DEFINE n == Len(cmds)
           more == Append(cmds, c)
<1>1. n \in Nat /\ Len(more) = n + 1 /\ more[n + 1] = c
      /\ \A i \in 1 .. n : more[i] = cmds[i]
  BY AppendProperties, LenProperties
<1>0. more \in Seq(Commands)
  BY AppendProperties
<1>2. PICK tr \in [0 .. n -> Views] :
        /\ tr[0] = v /\ tr[n] = w
        /\ \A i \in 1 .. n : Leads(cmds[i], tr[i - 1], tr[i])
  BY LeadAlong
<1> HIDE DEF n, more
<1> DEFINE u == [i \in 0 .. n + 1 |-> IF i <= n THEN tr[i] ELSE x]
<1>3. u \in [0 .. n + 1 -> Views]
  BY <1>1, <1>2
<1>4. u[0] = v /\ u[n + 1] = x /\ u[n] = w /\ \A i \in 0 .. n : u[i] = tr[i]
  BY <1>1, <1>2
<1> HIDE DEF u
<1>5. ASSUME NEW i \in 1 .. n + 1 PROVE Leads(more[i], u[i - 1], u[i])
  <2>1. CASE i = n + 1
    <3>1. i - 1 = n
      BY <1>1, <2>1
    <3> QED
      BY <1>1, <1>4, <2>1, <3>1
  <2>2. CASE i # n + 1
    <3>1. i \in 1 .. n /\ i - 1 \in 0 .. n /\ i \in 0 .. n
      BY <1>1, <2>2
    <3> QED
      BY <1>1, <1>2, <1>4, <3>1
  <2> QED
    BY <2>1, <2>2
<1>6. LeadTo(more, v, x)
  BY <1>0, <1>1, <1>3, <1>4, <1>5, LeadAlong
<1> QED
  BY <1>6 DEF more

\* The first command leads to where the others start.
LEMMA LeadHead ==
  ASSUME NEW cmds \in Seq(Commands), cmds # <<>>,
         NEW v \in Views, NEW w \in Views, LeadTo(cmds, v, w)
  PROVE  \E x \in Views : Leads(Head(cmds), v, x) /\ LeadTo(Tail(cmds), x, w)
<1> DEFINE t == Tail(cmds)
           n == Len(t)
<1>1. /\ t \in Seq(Commands) /\ n \in Nat /\ Len(cmds) = n + 1
      /\ \A i \in 1 .. n : t[i] = cmds[i + 1]
      /\ Head(cmds) = cmds[1]
  BY HeadTailProperties, LenProperties
<1>2. PICK tr \in [0 .. n + 1 -> Views] :
        /\ tr[0] = v /\ tr[n + 1] = w
        /\ \A i \in 1 .. n + 1 : Leads(cmds[i], tr[i - 1], tr[i])
  BY <1>1, LeadAlong
<1> HIDE DEF n, t
<1> DEFINE u == [i \in 0 .. n |-> tr[i + 1]]
<1>3. u \in [0 .. n -> Views] /\ u[0] = tr[1] /\ u[n] = w
      /\ \A i \in 0 .. n : u[i] = tr[i + 1]
  BY <1>1, <1>2
<1> HIDE DEF u
<1>0. tr[1] \in Views
  BY <1>1, <1>2
<1>4. ASSUME NEW i \in 1 .. n PROVE Leads(t[i], u[i - 1], u[i])
  <2>1. i + 1 \in 1 .. n + 1 /\ i - 1 \in 0 .. n /\ i \in 0 .. n
        /\ (i + 1) - 1 = i /\ (i - 1) + 1 = i
    BY <1>1
  <2> QED
    BY <1>1, <1>2, <1>3, <2>1
<1>5. LeadTo(t, tr[1], w)
  BY <1>0, <1>1, <1>3, <1>4, LeadAlong DEF n
<1>6. Leads(Head(cmds), v, tr[1]) /\ tr[1] \in Views
  <2>1. 1 \in 1 .. n + 1 /\ 1 \in 0 .. n + 1 /\ 1 - 1 = 0
    BY <1>1
  <2> QED
    BY <1>1, <1>2, <2>1
<1> QED
  BY <1>5, <1>6 DEF t

-----------------------------------------------------------------------------
(* What an API function adds leads from the old wish to the new one.       *)

\* The commands pre and then those that s has left to queue lead to what s wants.
OnCourse(pre, v, s) == LeadTo(pre \o s.calls, v, Wanted(s))

\* What is wanted is a view: its chapter fits a byte.
LEMMA WantedType ==
  ASSUME MaxChapter < ByteSize, NEW s \in MainStates
  PROVE  /\ Off \in Views
         /\ Wanted(s) \in Views
         /\ s.playing_state /\ MaxChapter > 0 =>
              /\ s.chapter \in 1 .. MaxChapter
              /\ Wanted(s) = [chapter |-> s.chapter, paused |-> s.paused_state]
         /\ MaxChapter = 0 \/ ~s.playing_state => Wanted(s) = Off
<1>1. /\ ByteSize \in Nat \ {0} /\ MaxChapter \in Nat
      /\ s.paused_state \in BOOLEAN /\ s.chapter \in {1} \cup 1 .. MaxChapter
  BY VideoAssumption DEF MainStates
<1>2. Off \in Views
  BY <1>1 DEF Off, Views
<1>3. MaxChapter > 0 => s.chapter \in 1 .. MaxChapter
  BY <1>1
<1>4. \A c \in 1 .. MaxChapter : [chapter |-> c, paused |-> s.paused_state] \in Views
  BY <1>1 DEF Views
<1>5. MaxChapter = 0 => s.chapter \notin 1 .. MaxChapter
  BY <1>1
<1> QED
  BY <1>1, <1>2, <1>3, <1>4, <1>5 DEF Wanted

\* A request whose command leads to view x makes x the end of the way.
LEMMA LeadRequest ==
  ASSUME NEW pre \in Seq(Commands), NEW calls \in Seq(Commands), NEW c \in Commands,
         NEW v \in Views, NEW w \in Views, NEW x \in Views,
         LeadTo(pre \o calls, v, w), Leads(c, w, x)
  PROVE  LeadTo(pre \o Append(calls, c), v, x)
<1>1. pre \o Append(calls, c) = Append(pre \o calls, c)
  <2>1. Append(calls, c) = calls \o <<c>> /\ <<c>> \in Seq(Commands)
    BY AppendIsConcat
  <2>2. pre \o calls \in Seq(Commands)
    BY ConcatProperties
  <2>3. Append(pre \o calls, c) = (pre \o calls) \o <<c>>
    BY <2>2, AppendIsConcat
  <2> QED
    BY <2>1, <2>3, ConcatAssociative
<1>2. pre \o calls \in Seq(Commands)
  BY ConcatProperties
<1> QED
  BY <1>1, <1>2, LeadAppend

\* A toggle leads from a chapter playing to the same chapter paused, and back.
LEMMA LeadsToggle ==
  ASSUME NEW n \in Nat \ {0}
  PROVE  LET shown == [chapter |-> n, paused |-> FALSE]
             frozen == [chapter |-> n, paused |-> TRUE]
         IN /\ Leads(Command("PAUSE", 0), shown, frozen)
            /\ Leads(Command("UNPAUSE", 0), frozen, shown)
<1> DEFINE shown == [chapter |-> n, paused |-> FALSE]
           frozen == [chapter |-> n, paused |-> TRUE]
<1>1. shown # Off /\ frozen # Off
  <2>1. shown.chapter # Off.chapter /\ frozen.chapter # Off.chapter
    BY DEF Off
  <2> QED
    BY <2>1
<1>2. /\ frozen = [chapter |-> shown.chapter, paused |-> TRUE]
      /\ shown = [chapter |-> frozen.chapter, paused |-> FALSE]
  OBVIOUS
<1>3. ~shown.paused /\ frozen.paused
  OBVIOUS
<1>4. Command("PAUSE", 0).opcode = "PAUSE" /\ Command("UNPAUSE", 0).opcode = "UNPAUSE"
  BY DEF Command
<1> HIDE DEF shown, frozen
<1>5. Leads(Command("PAUSE", 0), shown, frozen)
  BY <1>1, <1>2, <1>3, <1>4 DEF Leads
<1>6. Leads(Command("UNPAUSE", 0), frozen, shown)
  BY <1>1, <1>2, <1>3, <1>4 DEF Leads
<1> QED
  BY <1>5, <1>6 DEF shown, frozen

LEMMA PauseOnCourse ==
  ASSUME MaxChapter < ByteSize, NEW s \in MainStates, Flags(s),
         NEW pre \in Seq(Commands), NEW v \in Views, OnCourse(pre, v, s)
  PROVE  OnCourse(pre, v, Pause(s))
<1> DEFINE r == Request(s, "PAUSE", 0)
           c == Command("PAUSE", 0)
<1>1. CASE s.power_state /\ s.playing_state /\ ~s.paused_state
  <2>1. r \in MainStates /\ r.calls = Append(s.calls, c) /\ r.chapter = s.chapter
        /\ c \in Commands
    BY PlainRequest, CommandFacts
  <2>2. Pause(s) = [r EXCEPT !.playing_state = TRUE, !.paused_state = TRUE]
    BY <1>1 DEF Pause
  <2> DEFINE p == Pause(s)
  <2>3. p \in MainStates /\ p.calls = Append(s.calls, c) /\ p.chapter = s.chapter
        /\ p.playing_state = TRUE /\ p.paused_state = TRUE
        /\ s.paused_state = FALSE /\ s.playing_state = TRUE
    BY <1>1, <2>1, <2>2 DEF MainStates
  <2>4. s.calls \in Seq(Commands)
    BY DEF MainStates
  <2> HIDE DEF p, r
  <2>5. Leads(c, Wanted(s), Wanted(p))
    <3>1. c.opcode = "PAUSE"
      BY DEF Command
    <3>2. CASE MaxChapter > 0
      <4>1. /\ Wanted(s) = [chapter |-> s.chapter, paused |-> FALSE]
            /\ Wanted(p) = [chapter |-> s.chapter, paused |-> TRUE]
            /\ s.chapter \in Nat \ {0}
        BY <2>3, <3>2, WantedType
      <4> QED
        BY <4>1, LeadsToggle
    <3>3. CASE MaxChapter = 0
      <4>1. Wanted(s) = Off /\ Wanted(p) = Off
        BY <2>3, <3>3, WantedType
      <4> QED
        BY <3>1, <3>3, <4>1 DEF Leads
    <3> QED
      BY <3>2, <3>3, VideoAssumption
  <2>6. Wanted(s) \in Views /\ Wanted(p) \in Views
    BY <2>3, WantedType
  <2>7. OnCourse(pre, v, p)
    BY <2>1, <2>3, <2>4, <2>5, <2>6, LeadRequest DEF OnCourse
  <2> QED
    BY <2>7 DEF p
<1>2. CASE ~(s.power_state /\ s.playing_state /\ ~s.paused_state)
  BY <1>2 DEF Pause
<1> QED
  BY <1>1, <1>2

LEMMA UnpauseOnCourse ==
  ASSUME MaxChapter < ByteSize, NEW s \in MainStates, Flags(s),
         NEW pre \in Seq(Commands), NEW v \in Views, OnCourse(pre, v, s)
  PROVE  OnCourse(pre, v, Unpause(s))
<1> DEFINE r == Request(s, "UNPAUSE", 0)
           c == Command("UNPAUSE", 0)
<1>1. CASE s.power_state /\ s.playing_state /\ s.paused_state
  <2>1. r \in MainStates /\ r.calls = Append(s.calls, c) /\ r.chapter = s.chapter
        /\ c \in Commands
    BY PlainRequest, CommandFacts
  <2>2. Unpause(s) = [r EXCEPT !.playing_state = TRUE, !.paused_state = FALSE]
    BY <1>1 DEF Unpause
  <2> DEFINE p == Unpause(s)
  <2>3. p \in MainStates /\ p.calls = Append(s.calls, c) /\ p.chapter = s.chapter
        /\ p.playing_state = TRUE /\ p.paused_state = FALSE
        /\ s.paused_state = TRUE /\ s.playing_state = TRUE
    BY <1>1, <2>1, <2>2 DEF MainStates
  <2>4. s.calls \in Seq(Commands)
    BY DEF MainStates
  <2> HIDE DEF p, r
  <2>5. Leads(c, Wanted(s), Wanted(p))
    <3>1. c.opcode = "UNPAUSE"
      BY DEF Command
    <3>2. CASE MaxChapter > 0
      <4>1. /\ Wanted(s) = [chapter |-> s.chapter, paused |-> TRUE]
            /\ Wanted(p) = [chapter |-> s.chapter, paused |-> FALSE]
            /\ s.chapter \in Nat \ {0}
        BY <2>3, <3>2, WantedType
      <4> QED
        BY <4>1, LeadsToggle
    <3>3. CASE MaxChapter = 0
      <4>1. Wanted(s) = Off /\ Wanted(p) = Off
        BY <2>3, <3>3, WantedType
      <4> QED
        BY <3>1, <3>3, <4>1 DEF Leads
    <3> QED
      BY <3>2, <3>3, VideoAssumption
  <2>6. Wanted(s) \in Views /\ Wanted(p) \in Views
    BY <2>3, WantedType
  <2>7. OnCourse(pre, v, p)
    BY <2>1, <2>3, <2>4, <2>5, <2>6, LeadRequest DEF OnCourse
  <2> QED
    BY <2>7 DEF p
<1>2. CASE ~(s.power_state /\ s.playing_state /\ s.paused_state)
  BY <1>2 DEF Unpause
<1> QED
  BY <1>1, <1>2

LEMMA StopOnCourse ==
  ASSUME MaxChapter < ByteSize, NEW s \in MainStates, Flags(s),
         NEW pre \in Seq(Commands), NEW v \in Views, OnCourse(pre, v, s)
  PROVE  OnCourse(pre, v, Stop(s))
<1> DEFINE u == Unpause(s)
           c == Command("STOP", 0)
           p == Stop(s)
<1>1. CASE s.playing_state
  <2>1. u \in MainStates /\ OnCourse(pre, v, u)
    BY UnpauseFacts, UnpauseOnCourse
  <2>2. Request(u, "STOP", 0) \in MainStates
        /\ Request(u, "STOP", 0).calls = Append(u.calls, c) /\ c \in Commands
    BY <2>1, PlainRequest, CommandFacts
  <2>3. p = [Request(u, "STOP", 0) EXCEPT !.playing_state = FALSE,
                                          !.paused_state = FALSE, !.chapter = 1]
    BY <1>1 DEF Stop, Flags
  <2>4. p.calls = Append(u.calls, c) /\ p \in MainStates /\ p.playing_state = FALSE
    BY <2>2, <2>3 DEF MainStates
  <2>5. u.calls \in Seq(Commands)
    BY <2>1 DEF MainStates
  <2> HIDE DEF p, u
  <2>6. Wanted(p) = Off /\ Off \in Views /\ Wanted(u) \in Views
    BY <2>1, <2>4, WantedType
  <2>7. Leads(c, Wanted(u), Off)
    BY DEF Leads, Command
  <2>8. OnCourse(pre, v, p)
    BY <2>1, <2>2, <2>4, <2>5, <2>6, <2>7, LeadRequest DEF OnCourse
  <2> QED
    BY <2>8 DEF p
<1>2. CASE ~s.playing_state
  <2>1. Stop(s) = s
    BY <1>2, StopFacts
  <2> QED
    BY <2>1
<1> QED
  BY <1>1, <1>2

LEMMA SeekOnCourse ==
  ASSUME MaxChapter < ByteSize, NEW s \in MainStates, Flags(s), NEW chapter \in Nat,
         NEW pre \in Seq(Commands), NEW v \in Views, OnCourse(pre, v, s)
  PROVE  OnCourse(pre, v, SeekToChapter(s, chapter))
<1> DEFINE stop == Command("STOP", 0)
           play == Command("PLAY", chapter)
           pause == Command("PAUSE", 0)
           a == Request(s, "STOP", 0)
           b == Request(a, "PLAY", chapter)
           d == [b EXCEPT !.playing_state = TRUE, !.chapter = chapter]
           e == Repause(d)
           shown == [chapter |-> chapter, paused |-> FALSE]
<1>1. CASE CanSeek(s, chapter)
  <2>1. chapter \in 1 .. MaxChapter /\ chapter % ByteSize = chapter
        /\ chapter \in 0 .. ByteSize - 1 /\ chapter >= 1 /\ MaxChapter > 0
    <3>1. chapter \in 1 .. MaxChapter /\ MaxChapter \in Nat /\ ByteSize \in Nat
      BY <1>1, VideoAssumption DEF CanSeek
    <3>2. chapter < ByteSize
      BY <3>1
    <3>3. chapter \in 0 .. ByteSize - 1 /\ chapter >= 1 /\ MaxChapter > 0
      BY <3>1, <3>2
    <3> QED
      BY <3>1, <3>2, <3>3, ByteFacts
  <2>2. a \in MainStates /\ a.calls = Append(s.calls, stop) /\ stop \in Commands
        /\ a.paused_state = s.paused_state
    BY PlainRequest, CommandFacts
  <2>3. b \in MainStates /\ b.calls = Append(a.calls, play) /\ play \in Commands
        /\ b.paused_state = s.paused_state
    <3>1. play \in Commands
      BY <2>1, CommandFacts
    <3> QED
      BY <2>1, <2>2, <3>1, RequestFacts
  <2>4. d \in MainStates /\ d.calls = b.calls /\ d.playing_state = TRUE
        /\ d.paused_state = s.paused_state /\ d.chapter = chapter
    BY <2>1, <2>3 DEF MainStates
  <2>5. SeekToChapter(s, chapter) = e
    BY <1>1 DEF SeekToChapter
  <2>6. e = IF d.paused_state THEN Request(d, "PAUSE", 0) ELSE d
    BY DEF Repause
  <2>7. s.calls \in Seq(Commands) /\ a.calls \in Seq(Commands)
        /\ b.calls \in Seq(Commands)
    BY <2>2, <2>3 DEF MainStates
  <2>8. Off \in Views /\ Wanted(s) \in Views /\ shown \in Views
    BY <2>1, WantedType DEF Views
  <2> HIDE DEF a, b, d, e
  <2>9. LeadTo(pre \o a.calls, v, Off)
    <3>1. Leads(stop, Wanted(s), Off)
      BY DEF Leads, Command
    <3> QED
      BY <2>2, <2>7, <2>8, <3>1, LeadRequest DEF OnCourse
  <2>10. LeadTo(pre \o d.calls, v, shown)
    <3>1. Leads(play, Off, shown)
      BY <2>1 DEF Leads, Command
    <3> QED
      BY <2>3, <2>4, <2>7, <2>8, <2>9, <3>1, LeadRequest
  <2>11. CASE s.paused_state
    <3> DEFINE frozen == [chapter |-> chapter, paused |-> TRUE]
    <3>1. /\ e \in MainStates /\ e.calls = Append(d.calls, pause)
          /\ e.playing_state = TRUE /\ e.paused_state = TRUE /\ e.chapter = chapter
          /\ pause \in Commands
      <4>1. e = Request(d, "PAUSE", 0) /\ s.paused_state = TRUE
        BY <2>4, <2>6, <2>11 DEF MainStates
      <4> QED
        BY <2>4, <4>1, PlainRequest, CommandFacts
    <3>2. Wanted(e) = frozen /\ frozen \in Views
      BY <2>1, <3>1, WantedType
    <3>3. Leads(pause, shown, frozen)
      BY <2>1, LeadsToggle
    <3>4. LeadTo(pre \o e.calls, v, frozen)
      BY <2>4, <2>7, <2>8, <2>10, <3>1, <3>2, <3>3, LeadRequest
    <3> QED
      BY <2>5, <3>2, <3>4 DEF OnCourse
  <2>12. CASE ~s.paused_state
    <3>1. e = d /\ s.paused_state = FALSE
      BY <2>4, <2>6, <2>12 DEF MainStates
    <3>2. Wanted(d) = shown
      BY <2>1, <2>4, <3>1, WantedType
    <3> QED
      BY <2>5, <2>10, <3>1, <3>2 DEF OnCourse
  <2> QED
    BY <2>11, <2>12
<1>2. CASE ~CanSeek(s, chapter)
  BY <1>2 DEF SeekToChapter
<1> QED
  BY <1>1, <1>2

LEMMA PowerOnCourse ==
  ASSUME NEW s \in MainStates, Flags(s),
         NEW pre \in Seq(Commands), NEW v \in Views, OnCourse(pre, v, s)
  PROVE  OnCourse(pre, v, PowerOn(s))
<1>1. PowerOn(s) = [s EXCEPT !.power_state = TRUE]
  BY PowerOnFacts
<1>2. PowerOn(s).calls = s.calls /\ Wanted(PowerOn(s)) = Wanted(s)
  BY <1>1 DEF Wanted, MainStates
<1> QED
  BY <1>2 DEF OnCourse

LEMMA PowerOffCourse ==
  ASSUME MaxChapter < ByteSize, NEW s \in MainStates, Flags(s),
         NEW pre \in Seq(Commands), NEW v \in Views, OnCourse(pre, v, s)
  PROVE  OnCourse(pre, v, PowerOff(s))
<1> DEFINE p == Stop(s)
<1>1. p \in MainStates /\ OnCourse(pre, v, p)
  BY StopFacts, StopOnCourse
<1>2. PowerOff(s) = IF s.power_state THEN [p EXCEPT !.power_state = FALSE] ELSE s
  BY DEF PowerOff
<1> HIDE DEF p
<1>3. CASE s.power_state
  <2>1. PowerOff(s).calls = p.calls /\ Wanted(PowerOff(s)) = Wanted(p)
    BY <1>1, <1>2, <1>3 DEF Wanted, MainStates
  <2> QED
    BY <1>1, <2>1 DEF OnCourse
<1>4. CASE ~s.power_state
  BY <1>2, <1>4
<1> QED
  BY <1>3, <1>4

LEMMA PlayOnCourse ==
  ASSUME MaxChapter < ByteSize, NEW s \in MainStates, Flags(s),
         NEW pre \in Seq(Commands), NEW v \in Views, OnCourse(pre, v, s)
  PROVE  OnCourse(pre, v, Play(s))
<1> DEFINE on == PowerOn(s)
           k == SeekToChapter(on, 1)
           p == [k EXCEPT !.playing_state = TRUE, !.paused_state = FALSE]
<1>1. CASE s.playing_state
  <2>1. Play(s) = Unpause(s)
    BY <1>1, PlayCases
  <2>2. OnCourse(pre, v, Unpause(s))
    BY UnpauseOnCourse
  <2> QED
    BY <2>1, <2>2
<1>2. CASE ~s.playing_state
  <2>1. on \in MainStates /\ Flags(on) /\ OnCourse(pre, v, on)
    BY PowerOnFacts, PowerOnCourse
  <2>2. /\ on.power_state = TRUE /\ on.paused_state = FALSE /\ on.chapter = 1
        /\ Play(s) = p
    BY <1>2, <2>1, PlayCases DEF MainStates
  <2>3. k \in MainStates /\ OnCourse(pre, v, k)
    BY <2>1, SeekFacts, SeekOnCourse
  <2>4. CASE CanSeek(on, 1)
    <3>1. k.playing_state = TRUE /\ k.paused_state = FALSE
      BY <2>1, <2>2, <2>4, SeekFacts
    <3>2. p.calls = k.calls /\ Wanted(p) = Wanted(k)
      BY <2>3, <3>1 DEF Wanted, MainStates
    <3> QED
      BY <2>2, <2>3, <3>2 DEF OnCourse
  <2>5. CASE ~CanSeek(on, 1)
    <3>1. k = on
      BY <2>5 DEF SeekToChapter
    <3>2. MaxChapter = 0
      BY <2>2, <2>5, VideoAssumption DEF CanSeek
    <3>3. p \in MainStates /\ p.calls = k.calls
      BY <2>3 DEF MainStates
    <3>4. Wanted(p) = Off /\ Wanted(k) = Off
      BY <2>3, <3>2, <3>3, WantedType
    <3> QED
      BY <2>2, <2>3, <3>3, <3>4 DEF OnCourse
  <2> QED
    BY <2>4, <2>5
<1> QED
  BY <1>1, <1>2

\* Whichever function is called, the commands still lead to what is wanted.
LEMMA ApiOnCourse ==
  ASSUME MaxChapter < ByteSize, TypeInv, ApiCall,
         NEW pre \in Seq(Commands), NEW v \in Views, OnCourse(pre, v, main)
  PROVE  OnCourse(pre, v, main')
<1>1. main \in MainStates /\ Flags(main)
  BY DEF TypeInv, TypeOK
<1>2. CASE CallPowerOn
  BY <1>1, <1>2, PowerOnCourse DEF CallPowerOn, Invoke
<1>3. CASE CallPowerOff
  BY <1>1, <1>3, PowerOffCourse DEF CallPowerOff, Invoke
<1>4. CASE CallPlay
  BY <1>1, <1>4, PlayOnCourse DEF CallPlay, Invoke
<1>5. CASE CallPause
  BY <1>1, <1>5, PauseOnCourse DEF CallPause, Invoke
<1>6. CASE CallStop
  BY <1>1, <1>6, StopOnCourse DEF CallStop, Invoke
<1>7. CASE CallSeek
  <2>1. PICK c \in ChapterArgs : main' = SeekToChapter(main, c)
    BY <1>7 DEF CallSeek, Invoke
  <2>2. c \in Nat
    BY VideoAssumption
  <2> QED
    BY <1>1, <2>1, <2>2, SeekOnCourse
<1> QED
  BY <1>2, <1>3, <1>4, <1>5, <1>6, <1>7 DEF ApiCall

-----------------------------------------------------------------------------
(* Handing commands on.                                                    *)

\* The commands in hand are commands.
LEMMA InHandType ==
  ASSUME TypeInv
  PROVE  /\ InHand \in Seq(Commands)
         /\ main.calls \in Seq(Commands)
         /\ InHand \o main.calls \in Seq(Commands)
         /\ pc # "run" => InHand = queue
         /\ pc = "run" => InHand = <<op>> \o queue
<1>1. queue \in Seq(Commands) /\ op \in Commands /\ main.calls \in Seq(Commands)
  BY DEF TypeInv, TypeOK, MainStates
<1>2. <<op>> \in Seq(Commands)
  BY <1>1
<1>3. pc # "run" => InHand = queue
  BY <1>1, ConcatEmptySeq DEF InHand
<1>4. pc = "run" => InHand = <<op>> \o queue
  BY DEF InHand
<1>5. InHand \in Seq(Commands)
  BY <1>1, <1>2, <1>3, <1>4, ConcatProperties
<1> QED
  BY <1>1, <1>3, <1>4, <1>5, ConcatProperties

\* Taking the first element from one sequence to the end of the one before it
\* does not change their concatenation.
LEMMA HandOver ==
  ASSUME NEW a \in Seq(Commands), NEW q \in Seq(Commands),
         NEW r \in Seq(Commands), r # <<>>
  PROVE  (a \o Append(q, Head(r))) \o Tail(r) = (a \o q) \o r
<1> DEFINE h == Head(r)
           t == Tail(r)
<1>1. h \in Commands /\ t \in Seq(Commands) /\ <<h>> \in Seq(Commands)
  BY HeadTailProperties
<1>2. r = <<h>> \o t
  <2>1. r = Append(<<>>, h) \o t
    OBVIOUS
  <2> QED
    BY <2>1
<1>3. Append(q, h) = q \o <<h>> /\ q \o <<h>> \in Seq(Commands)
  BY <1>1, AppendIsConcat, ConcatProperties
<1> HIDE DEF h, t
<1>4. a \o (q \o <<h>>) = (a \o q) \o <<h>> /\ a \o q \in Seq(Commands)
  BY <1>1, ConcatAssociative, ConcatProperties
<1>5. ((a \o q) \o <<h>>) \o t = (a \o q) \o (<<h>> \o t)
  BY <1>1, <1>4, ConcatAssociative
<1> QED
  BY <1>2, <1>3, <1>4, <1>5 DEF h, t

\* Concatenation is associative, for a sequence that begins with one command.
LEMMA FirstAssociative ==
  ASSUME NEW c \in Commands, NEW q \in Seq(Commands), NEW r \in Seq(Commands)
  PROVE  (<<c>> \o q) \o r = <<c>> \o (q \o r)
<1> DEFINE one == <<c>>
<1>1. one \in Seq(Commands)
  OBVIOUS
<1> HIDE DEF one
<1>2. (one \o q) \o r = one \o (q \o r)
  BY <1>1, ConcatAssociative
<1> QED
  BY <1>2 DEF one

\* What the command in execution leads to is where the others start.
LEMMA RunLeads ==
  ASSUME TypeInv, pc = "run", NEW v \in Views, NEW w \in Views,
         LeadTo(InHand \o main.calls, v, w)
  PROVE  \E x \in Views : Leads(op, v, x) /\ LeadTo(queue \o main.calls, x, w)
<1>1. queue \in Seq(Commands) /\ op \in Commands /\ main.calls \in Seq(Commands)
      /\ <<op>> \in Seq(Commands)
  BY DEF TypeInv, TypeOK, MainStates
<1> DEFINE rest == queue \o main.calls
           all == <<op>> \o rest
<1>2. rest \in Seq(Commands) /\ all \in Seq(Commands)
  BY <1>1, ConcatProperties
<1>3. InHand \o main.calls = all
  <2>1. InHand = <<op>> \o queue
    BY InHandType
  <2>2. (<<op>> \o queue) \o main.calls = <<op>> \o (queue \o main.calls)
    BY <1>1, FirstAssociative
  <2> QED
    BY <2>1, <2>2
<1> HIDE DEF rest
<1>4. all # <<>> /\ Head(all) = op /\ Tail(all) = rest
  BY <1>1, <1>2
<1> HIDE DEF all
<1> QED
  BY <1>2, <1>3, <1>4, LeadHead DEF rest

-----------------------------------------------------------------------------
(* The invariant.                                                          *)

\* What is seen is a view.
LEMMA ViewType ==
  ASSUME TypeInv
  PROVE  View \in Views
<1>1. player \in Players /\ 0 \in 0 .. ByteSize - 1
  BY ByteFacts DEF TypeInv, TypeOK
<1> QED
  BY <1>1 DEF View, Views, Off, Players

\* A step that leaves the commands where they are and changes nothing that an
\* exact player shows stays on the way.
LEMMA SameWay ==
  ASSUME OnTheWay, InHand' \o main'.calls = InHand \o main.calls,
         Wanted(main)' = Wanted(main),
         player'.exact => player.exact /\ View' = View
  PROVE  OnTheWay'
<1>1. PICK v \in Views : (player.exact => v = View)
                        /\ LeadTo(InHand \o main.calls, v, Wanted(main))
  BY DEF OnTheWay
<1>2. (player.exact => v = View)' /\ LeadTo(InHand \o main.calls, v, Wanted(main))'
  BY <1>1 DEF LeadTo
<1> QED
  BY <1>2 DEF OnTheWay

\* A command that has been carried out leaves the way that begins after it.
LEMMA RunDone ==
  ASSUME TypeInv, UNCHANGED <<main, queue>>, pc' # "run", NEW x \in Views,
         LeadTo(queue \o main.calls, x, Wanted(main)),
         player'.exact => x = View'
  PROVE  OnTheWay'
<1>1. queue \in Seq(Commands)
  BY DEF TypeInv, TypeOK
<1>2. InHand' = queue
  BY <1>1, ConcatEmptySeq DEF InHand
<1>3. InHand' \o main'.calls = queue \o main.calls /\ Wanted(main)' = Wanted(main)
  BY <1>2 DEF Wanted
<1>4. LeadTo(InHand \o main.calls, x, Wanted(main))'
  BY <1>3 DEF LeadTo
<1> QED
  BY <1>4 DEF OnTheWay

LEMMA NextScreenInv ==
  ASSUME MaxChapter < ByteSize, TypeInv, Linked, OnTheWay, [Next]_vars, ~overflow'
  PROVE  Linked' /\ OnTheWay'
<1>0. /\ main \in MainStates /\ queue \in Seq(Commands) /\ op \in Commands
      /\ player \in Players /\ loaded \in BOOLEAN
      /\ pc \in {"check", "lock", "run", "poll"}
      /\ main.calls \in Seq(Commands) /\ Wanted(main) \in Views /\ Off \in Views
  BY WantedType DEF TypeInv, TypeOK, MainStates
<1>1. CASE ApiCall
  <2>1. /\ UNCHANGED <<queue, overflow, pc, op, loaded, player>>
    BY <1>1 DEF ApiCall, CallPowerOn, CallPowerOff, CallPlay, CallPause, CallStop,
                CallSeek, Invoke
  <2>2. InHand' = InHand /\ View' = View
    BY <2>1 DEF InHand, View
  <2>3. PICK v \in Views : (player.exact => v = View)
                          /\ LeadTo(InHand \o main.calls, v, Wanted(main))
    BY DEF OnTheWay
  <2>4. OnCourse(InHand, v, main')
    BY <1>1, <2>3, ApiOnCourse, InHandType DEF OnCourse
  <2>5. (player.exact => v = View)' /\ LeadTo(InHand \o main.calls, v, Wanted(main))'
    BY <2>1, <2>2, <2>3, <2>4 DEF OnCourse, LeadTo, Wanted
  <2> QED
    BY <2>1, <2>5 DEF Linked, OnTheWay
<1>2. CASE VideoThreadAction
  <2>1. /\ main.calls # <<>> /\ UNCHANGED <<pc, op, loaded, player>>
        /\ queue' = Append(queue, Head(main.calls))
        /\ main' = [main EXCEPT !.calls = Tail(@)]
    BY <1>2 DEF VideoThreadAction
  <2>2. main'.calls = Tail(main.calls) /\ Wanted(main)' = Wanted(main)
    BY <1>0, <2>1 DEF MainStates, Wanted
  <2>3. InHand' \o main'.calls = InHand \o main.calls
    <3> DEFINE a == IF pc = "run" THEN <<op>> ELSE <<>>
    <3>1. a \in Seq(Commands)
      BY <1>0
    <3>2. InHand = a \o queue /\ InHand' = a \o Append(queue, Head(main.calls))
      BY <2>1 DEF InHand
    <3> HIDE DEF a
    <3>3. (a \o Append(queue, Head(main.calls))) \o Tail(main.calls)
            = (a \o queue) \o main.calls
      BY <1>0, <2>1, <3>1, HandOver
    <3> QED
      BY <2>2, <3>2, <3>3
  <2>4. View' = View
    BY <2>1 DEF View
  <2> QED
    BY <2>1, <2>2, <2>3, <2>4, SameWay DEF Linked
<1>3. CASE ThreadCheck
  <2>1. UNCHANGED <<main, queue, op, loaded, player>> /\ pc = "check" /\ pc' \in {"check", "lock"}
    BY <1>3 DEF ThreadCheck
  <2>2. InHand' = InHand /\ View' = View /\ Wanted(main)' = Wanted(main)
    BY <2>1 DEF InHand, View, Wanted
  <2> QED
    BY <2>1, <2>2, SameWay DEF Linked
<1>4. CASE ThreadDequeue
  <2>1. /\ UNCHANGED <<main, loaded, player>> /\ pc = "lock" /\ pc' = "run"
        /\ op' = Head(queue) /\ queue' = Tail(queue) /\ queue # <<>>
    BY <1>4 DEF ThreadDequeue, TypeInv, DequeueSafe
  <2>2. InHand' = InHand
    <3>1. InHand = queue
      BY <2>1, InHandType
    <3>2. InHand' = <<Head(queue)>> \o Tail(queue)
      BY <2>1 DEF InHand
    <3>3. queue = <<Head(queue)>> \o Tail(queue)
      BY <1>0, <2>1
    <3> QED
      BY <3>1, <3>2, <3>3
  <2>3. View' = View /\ Wanted(main)' = Wanted(main)
    BY <2>1 DEF View, Wanted
  <2> QED
    BY <2>1, <2>2, <2>3, SameWay DEF Linked
<1>5. CASE RunStop \/ RunToggle \/ RunPlay
  <2>1. pc = "run" /\ UNCHANGED <<main, queue>> /\ pc' \in {"check", "poll"}
    BY <1>5 DEF RunStop, RunToggle, RunPlay
  <2>2. PICK v \in Views : (player.exact => v = View)
                          /\ LeadTo(InHand \o main.calls, v, Wanted(main))
    BY DEF OnTheWay
  <2>3. PICK x \in Views : Leads(op, v, x) /\ LeadTo(queue \o main.calls, x, Wanted(main))
    BY <1>0, <2>1, <2>2, RunLeads
  <2>4. /\ player.phase # "starting"
        /\ player.exact => (loaded <=> player.phase = "playing")
        /\ ~player.exact => loaded
        /\ player.exact /\ player.phase = "none" => player = NoPlayer
        /\ player.phase # "none" => player.chapter \in Nat \ {0}
        /\ player.phase \in {"none", "playing"}
    BY <1>0, <2>1 DEF Linked, Players
  <2>5. player.phase # "none" => View # Off /\ View.chapter = player.chapter
                               /\ View.paused = player.paused
    <3>1. ASSUME player.phase # "none"
          PROVE  View.chapter = player.chapter /\ View.paused = player.paused
      BY <3>1 DEF View
    <3>2. Off.chapter = 0
      BY DEF Off
    <3> QED
      BY <2>4, <3>1, <3>2
  <2>6. CASE RunStop
    <3>1. op.opcode = "STOP" /\ x = Off
      BY <2>3, <2>6 DEF RunStop, Leads
    <3>2. player' = NoPlayer /\ loaded' = FALSE /\ pc' = "check"
      BY <2>4, <2>6 DEF RunStop
    <3>3. View' = Off
      BY <3>2 DEF View, NoPlayer
    <3>4. Linked'
      BY <3>2 DEF Linked, NoPlayer
    <3> QED
      BY <2>1, <2>3, <3>1, <3>2, <3>3, <3>4, RunDone
  <2>7. CASE RunToggle
    <3>1. op.opcode \in {"PAUSE", "UNPAUSE"} /\ loaded' = loaded /\ pc' = "check"
      BY <2>7 DEF RunToggle
    <3>2. CASE loaded
      <4>1. player' \in AfterToggle(player)
        BY <2>7, <3>2 DEF RunToggle
      <4>2. /\ player' \in Players
            /\ player'.phase = player.phase /\ player'.chapter = player.chapter
            /\ \/ player' = player /\ player.phase # "playing"
               \/ player'.paused = ~player.paused /\ player'.exact = player.exact
               \/ player'.exact = FALSE
        BY <1>0, <4>1, ToggleFacts
      <4>3. ASSUME player'.exact PROVE x = View'
        <5>1. player.exact /\ player.phase = "playing" /\ player'.paused = ~player.paused
          BY <2>4, <3>2, <4>2, <4>3
        <5>2. v = View /\ v # Off /\ v.chapter = player.chapter /\ v.paused = player.paused
          BY <2>2, <2>5, <5>1
        <5>3. View' = [chapter |-> player.chapter, paused |-> ~player.paused]
          BY <4>2, <5>1 DEF View
        <5>4. player.paused \in BOOLEAN
          BY <1>0 DEF Players
        <5>5. x = [chapter |-> v.chapter, paused |-> ~v.paused]
          BY <2>3, <3>1, <5>2, <5>4 DEF Leads
        <5> QED
          BY <5>2, <5>3, <5>5
      <4>4. Linked'
        <5>1. player'.exact => player.exact
          BY <2>4, <3>2, <4>2
        <5>2. player'.phase = "none" => ~player'.exact
          BY <2>4, <3>2, <4>2, <5>1
        <5> QED
          BY <2>4, <3>1, <3>2, <4>2, <5>1, <5>2 DEF Linked
      <4> QED
        BY <2>1, <2>3, <3>1, <4>3, <4>4, RunDone
    <3>3. CASE ~loaded
      <4>1. player' = player /\ player.exact /\ player.phase = "none" /\ player = NoPlayer
        BY <2>4, <2>7, <3>3 DEF RunToggle
      <4>2. View = Off /\ View' = Off /\ v = Off
        BY <2>2, <4>1 DEF View
      <4>3. x = Off
        BY <2>3, <3>1, <4>2 DEF Leads
      <4>4. Linked'
        BY <3>1, <3>3, <4>1 DEF Linked, NoPlayer
      <4> QED
        BY <2>1, <2>3, <3>1, <4>2, <4>3, <4>4, RunDone
    <3> QED
      BY <3>2, <3>3
  <2>8. CASE RunPlay
    <3>1. op.opcode = "PLAY" /\ loaded' = loaded
      BY <2>8 DEF RunPlay
    <3>2. op.arg >= 1 /\ v = Off /\ x = [chapter |-> op.arg, paused |-> FALSE]
      BY <2>3, <3>1 DEF Leads
    <3>3. CASE loaded
      <4>1. player' = player /\ pc' = "check"
        BY <2>8, <3>3 DEF RunPlay
      <4>2. ~player.exact
        BY <2>2, <2>4, <2>5, <3>2, <3>3
      <4>3. Linked'
        BY <2>4, <3>1, <3>3, <4>1, <4>2 DEF Linked
      <4> QED
        BY <2>1, <2>3, <4>1, <4>2, <4>3, RunDone
    <3>4. CASE ~loaded
      <4>1. pc' = "poll" /\ (player' = LostPlayer \/ player' = Starting(op.arg))
        BY <2>8, <3>4 DEF RunPlay
      <4>2. CASE player' = LostPlayer
        <5>1. player'.exact = FALSE /\ player'.phase = "none"
          BY <4>2 DEF LostPlayer, NoPlayer
        <5>2. Linked'
          BY <3>1, <3>4, <4>1, <5>1 DEF Linked
        <5> QED
          BY <2>1, <2>3, <4>1, <5>1, <5>2, RunDone
      <4>3. CASE player' = Starting(op.arg)
        <5>1. player'.exact = TRUE /\ player'.phase = "starting"
              /\ player'.chapter = op.arg /\ player'.paused = FALSE
          BY <4>3 DEF Starting, NoPlayer
        <5>2. View' = x
          BY <3>2, <5>1 DEF View
        <5>3. Linked'
          BY <3>1, <3>2, <3>4, <4>1, <5>1 DEF Linked
        <5> QED
          BY <2>1, <2>3, <4>1, <5>2, <5>3, RunDone
      <4> QED
        BY <4>1, <4>2, <4>3
    <3> QED
      BY <3>3, <3>4
  <2> QED
    BY <1>5, <2>6, <2>7, <2>8
<1>6. CASE PollStatus
  <2>1. /\ UNCHANGED <<main, queue, op, player>> /\ pc = "poll" /\ pc' \in {"check", "poll"}
        /\ loaded' = (player.phase = "playing")
        /\ pc' = IF player.phase = "playing" THEN "check" ELSE "poll"
    BY <1>6 DEF PollStatus, StatusSucceeds
  <2>2. InHand' = InHand /\ View' = View /\ Wanted(main)' = Wanted(main)
    BY <2>1 DEF InHand, View, Wanted
  <2>3. Linked'
    BY <2>1 DEF Linked
  <2> QED
    BY <2>1, <2>2, <2>3, SameWay
<1>7. CASE PlayerReady
  <2>1. /\ UNCHANGED <<main, queue, pc, op, loaded>> /\ player.phase = "starting"
        /\ player'.phase = "playing" /\ player'.chapter = player.chapter
        /\ player'.paused = player.paused /\ player'.exact = player.exact
    BY <1>0, <1>7 DEF PlayerReady, Players
  <2>2. InHand' = InHand /\ View' = View /\ Wanted(main)' = Wanted(main)
    BY <2>1 DEF InHand, View, Wanted
  <2>3. Linked'
    BY <2>1 DEF Linked
  <2> QED
    BY <2>1, <2>2, <2>3, SameWay
<1>8. CASE PlayerExit
  <2>1. /\ UNCHANGED <<main, queue, pc, op, loaded>> /\ player.phase # "none"
        /\ player'.phase = "none" /\ player'.exact = FALSE
    BY <1>8 DEF PlayerExit, LostPlayer, NoPlayer
  <2>2. InHand' = InHand /\ Wanted(main)' = Wanted(main)
    BY <2>1 DEF InHand, Wanted
  <2>3. Linked'
    BY <1>0, <2>1 DEF Linked, Players
  <2> QED
    BY <2>1, <2>2, <2>3, SameWay
<1>9. CASE UNCHANGED vars
  <2>1. UNCHANGED <<main, queue, pc, op, loaded, player>>
    BY <1>9 DEF vars
  <2>2. InHand' = InHand /\ View' = View /\ Wanted(main)' = Wanted(main)
    BY <2>1 DEF InHand, View, Wanted
  <2> QED
    BY <2>1, <2>2, SameWay DEF Linked
<1> QED
  BY <1>1, <1>2, <1>3, <1>4, <1>5, <1>6, <1>7, <1>8, <1>9 DEF Next, VideoThread

\* The invariant holds at the start.
LEMMA InitScreenInv ==
  ASSUME MaxChapter < ByteSize, Init
  PROVE  Linked /\ OnTheWay
<1>1. TypeInv
  BY InitTypeInv
<1>2. /\ InHand = <<>> /\ main.calls = <<>> /\ <<>> \in Seq(Commands)
  BY <1>1, InHandType DEF Init, Standby
<1>3. InHand \o main.calls = <<>>
  BY <1>2
<1>4. View = Off /\ Wanted(main) = Off /\ Off \in Views
  BY <1>1, WantedType DEF Init, Standby, View, NoPlayer, Wanted, TypeInv, TypeOK
<1>5. LeadTo(InHand \o main.calls, Off, Wanted(main))
  BY <1>3, <1>4, LeadEmpty
<1>6. OnTheWay
  BY <1>4, <1>5 DEF OnTheWay
<1>7. Linked
  BY DEF Init, Standby, Linked, NoPlayer
<1> QED
  BY <1>6, <1>7

\* The invariant says that a command in execution meets what it was meant for.
LEMMA InvNothingDropped ==
  ASSUME MaxChapter < ByteSize, TypeInv, Linked, OnTheWay
  PROVE  NothingDropped
<1> SUFFICES ASSUME pc = "run", player.exact, MaxChapter > 0
             PROVE  /\ op.opcode = "PLAY" => ~loaded
                    /\ op.opcode = "PAUSE" => loaded /\ ~player.paused
                    /\ op.opcode = "UNPAUSE" => loaded /\ player.paused
  BY DEF NothingDropped
<1>1. main \in MainStates /\ player \in Players
  BY DEF TypeInv, TypeOK
<1>2. View \in Views /\ LeadTo(InHand \o main.calls, View, Wanted(main))
  BY DEF OnTheWay
<1>3. PICK x \in Views : Leads(op, View, x)
  BY <1>1, <1>2, WantedType, RunLeads
<1>4. (loaded <=> player.phase = "playing") /\ player.phase \in {"none", "playing"}
      /\ (player.phase # "none" => player.chapter >= 1)
  BY <1>1 DEF Linked, Players
<1>5. CASE player.phase = "none"
  <2>1. View = Off /\ ~loaded
    BY <1>4, <1>5 DEF View
  <2> QED
    BY <1>3, <2>1 DEF Leads
<1>6. CASE player.phase = "playing"
  <2>1. View.chapter = player.chapter /\ View.paused = player.paused /\ loaded
    BY <1>4, <1>6 DEF View
  <2>2. View # Off
    BY <1>4, <1>6, <2>1 DEF Off
  <2> QED
    BY <1>3, <2>1, <2>2 DEF Leads
<1> QED
  BY <1>4, <1>5, <1>6

\* With nothing left to do, what is seen is what is wanted.
LEMMA InvScreenMatches ==
  ASSUME MaxChapter < ByteSize, TypeInv, Linked, OnTheWay
  PROVE  ScreenMatches
<1> SUFFICES ASSUME Settled, player.exact
             PROVE  IF Showing
                    THEN /\ loaded
                         /\ player.phase = "playing"
                         /\ player.chapter = main.chapter
                         /\ player.paused = main.paused_state
                    ELSE ~loaded /\ player = NoPlayer
  BY DEF ScreenMatches
<1>1. main \in MainStates /\ player \in Players /\ pc = "check" /\ queue = <<>>
      /\ main.calls = <<>> /\ VideoAssumption
  BY VideoAssumption DEF TypeInv, TypeOK, Settled
<1>2. InHand \o main.calls = <<>>
  BY <1>1 DEF InHand
<1>3. View \in Views /\ LeadTo(<<>>, View, Wanted(main))
  BY <1>2 DEF OnTheWay
<1>4. View = Wanted(main)
  BY <1>1, <1>3, WantedType, LeadEmpty
<1>5. (loaded <=> player.phase = "playing") /\ player.phase \in {"none", "playing"}
      /\ (player.phase # "none" => player.chapter >= 1)
      /\ (player.phase = "none" => player = NoPlayer)
  BY <1>1 DEF Linked, Players
<1>6. CASE Showing
  <2>1. View.chapter = main.chapter /\ View.paused = main.paused_state
        /\ main.chapter >= 1
    BY <1>1, <1>4, <1>6 DEF Wanted, Showing
  <2>2. player.phase # "none"
    BY <2>1 DEF View, Off
  <2> QED
    BY <1>5, <1>6, <2>1, <2>2 DEF View
<1>7. CASE ~Showing
  <2>1. View = Off
    BY <1>4, <1>7 DEF Wanted, Showing
  <2>2. player.phase = "none"
    <3> SUFFICES ASSUME player.phase # "none" PROVE FALSE
      OBVIOUS
    <3>1. View.chapter = player.chapter /\ View.chapter = 0 /\ player.chapter >= 1
      BY <1>5, <2>1 DEF View, Off
    <3> QED
      BY <3>1
  <2> QED
    BY <1>5, <1>7, <2>2
<1> QED
  BY <1>6, <1>7

\* All the parts of the invariant together.
VideoInv == TypeInv /\ QueueInv /\ Linked /\ OnTheWay

LEMMA InitVideoInv ==
  ASSUME MaxChapter < ByteSize
  PROVE  Init => VideoInv
<1>1. Init => QueueInv
  BY BytesEmpty DEF Init, Standby, QueueInv
<1> QED
  BY <1>1, InitTypeInv, InitScreenInv DEF VideoInv

LEMMA NextVideoInv ==
  ASSUME MaxChapter < ByteSize, 4 * MaxBurst <= QueueSize
  PROVE  VideoInv /\ [Next]_vars => VideoInv'
<1> SUFFICES ASSUME VideoInv, [Next]_vars PROVE VideoInv'
  OBVIOUS
<1>1. TypeInv' /\ QueueInv'
  BY NextTypeInv, NextQueueInv DEF VideoInv
<1>2. ~overflow'
  BY <1>1 DEF QueueInv
<1>3. Linked' /\ OnTheWay'
  BY <1>2, NextScreenInv DEF VideoInv
<1> QED
  BY <1>1, <1>3 DEF VideoInv

\* The inductive invariant holds on every disc whose chapters fit a byte, while
\* the playback thread falls at most QueueSize \div 4 calls behind.
THEOREM ScreenInvariant ==
  ASSUME MaxChapter < ByteSize, 4 * MaxBurst <= QueueSize
  PROVE  Spec => [](ScreenInv /\ QueueInv)
<1>1. VideoInv => ScreenInv /\ QueueInv
  BY DEF VideoInv, TypeInv, ScreenInv
<1> QED
  BY <1>1, InitVideoInv, NextVideoInv, PTL DEF Spec

\* Whenever both threads are at rest the screen shows what the callers of
\* Video.cpp were told: the right chapter, paused or not, or nothing.
THEOREM ScreenIsRight ==
  ASSUME MaxChapter < ByteSize, 4 * MaxBurst <= QueueSize
  PROVE  Spec => []ScreenMatches
<1>1. ScreenInv /\ QueueInv => ScreenMatches
  BY InvScreenMatches DEF ScreenInv, TypeInv
<1> QED
  BY <1>1, ScreenInvariant, PTL

\* Every opcode meets the player in the state it was meant for.
THEOREM NoOpcodeDropped ==
  ASSUME MaxChapter < ByteSize, 4 * MaxBurst <= QueueSize
  PROVE  Spec => []NothingDropped
<1>1. ScreenInv /\ QueueInv => NothingDropped
  BY InvNothingDropped DEF ScreenInv, TypeInv
<1> QED
  BY <1>1, ScreenInvariant, PTL

=============================================================================
