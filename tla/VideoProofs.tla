---------------------------- MODULE VideoProofs ----------------------------
(***************************************************************************)
(* Theorems about Video.tla, for every number of chapters, queue size,     *)
(* burst, set of missing files and set of faults: types, the queue, the    *)
(* refinement of Transport, one player at a time, and nothing done twice.  *)
(***************************************************************************)
EXTENDS VideoInductive, SequenceTheorems, FiniteSetTheorems, TLAPS

-----------------------------------------------------------------------------
(* Commands and their bytes.                                               *)

\* A request for an opcode without a chapter, or with a chapter of the disc, is
\* a command; a chapter below ByteSize is kept.
LEMMA ByteFacts ==
  /\ ByteSize \in Nat \ {0}
  /\ 0 % ByteSize = 0
  /\ \A a \in Nat : a % ByteSize \in 0 .. ByteSize - 1
  /\ \A a \in Nat : a < ByteSize => a % ByteSize = a
<1>1. ByteSize \in Nat \ {0}
  BY VideoAssumption
<1>2. \A a \in Nat : a % ByteSize \in 0 .. ByteSize - 1
  BY <1>1
<1>3. \A a \in Nat : a < ByteSize => a % ByteSize = a
  BY <1>1
<1> QED
  BY <1>1, <1>2, <1>3

\* The commands that the API functions request.
LEMMA CommandFacts ==
  /\ \A o \in {"STOP", "PAUSE", "UNPAUSE"} : Command(o, 0 % ByteSize) = Command(o, 0)
  /\ \A o \in {"STOP", "PAUSE", "UNPAUSE"} : Command(o, 0) \in Commands
  /\ \A a \in Nat : Command("PLAY", a % ByteSize) \in Commands
<1> QED
  BY ByteFacts DEF Command, Commands

\* Every command occupies one or two bytes.
LEMMA WidthFacts ==
  /\ \A c \in Commands : Width(c) \in {1, 2}
  /\ \A o \in {"STOP", "PAUSE", "UNPAUSE"}, a \in Nat : Width(Command(o, a)) = 1
  /\ \A a \in Nat : Width(Command("PLAY", a)) = 2
<1> QED
  BY DEF Width, Command, Commands

\* The PLAYs of a sequence are finitely many, so its bytes are a number.
LEMMA BytesType ==
  ASSUME NEW q \in Seq(Commands)
  PROVE  IsFiniteSet(PlaysIn(q)) /\ Bytes(q) \in Nat
<1>1. Len(q) \in Nat /\ DOMAIN q = 1 .. Len(q)
  OBVIOUS
<1>2. IsFiniteSet(1 .. Len(q))
  BY <1>1, FS_Interval
<1>3. PlaysIn(q) \in SUBSET (1 .. Len(q))
  BY <1>1 DEF PlaysIn
<1>4. IsFiniteSet(PlaysIn(q))
  BY <1>2, <1>3, FS_Subset
<1>5. Cardinality(PlaysIn(q)) \in Nat
  BY <1>4, FS_CardinalityType
<1> QED
  BY <1>1, <1>4, <1>5 DEF Bytes

\* An empty queue has no bytes.
LEMMA BytesEmpty == Bytes(<<>>) = 0
<1>1. PlaysIn(<<>>) = {}
  BY DEF PlaysIn
<1> QED
  BY <1>1, FS_EmptySet DEF Bytes

\* Appending a command adds its width.
LEMMA BytesAppend ==
  ASSUME NEW q \in Seq(Commands), NEW c \in Commands
  PROVE  Bytes(Append(q, c)) = Bytes(q) + Width(c)
<1> DEFINE n == Len(q)
<1>1. Append(q, c) \in Seq(Commands) /\ Len(Append(q, c)) = n + 1 /\ n \in Nat
  BY AppendProperties, LenProperties
<1>2. IsFiniteSet(PlaysIn(q)) /\ n + 1 \notin PlaysIn(q) /\ Cardinality(PlaysIn(q)) \in Nat
  <2>1. IsFiniteSet(PlaysIn(q))
    BY BytesType
  <2>2. n + 1 \notin PlaysIn(q)
    BY <1>1 DEF PlaysIn
  <2> QED
    BY <2>1, <2>2, FS_CardinalityType
<1>3. \A i \in 1 .. n : Append(q, c)[i] = q[i]
  BY AppendProperties
<1>4. Append(q, c)[n + 1] = c
  BY AppendProperties
<1>5. CASE c.opcode = "PLAY"
  <2>1. PlaysIn(Append(q, c)) = PlaysIn(q) \cup {n + 1}
    BY <1>1, <1>3, <1>4, <1>5, LenProperties DEF PlaysIn
  <2>2. Cardinality(PlaysIn(Append(q, c))) = Cardinality(PlaysIn(q)) + 1
    BY <1>2, <2>1, FS_AddElement
  <2> QED
    BY <1>1, <1>2, <1>5, <2>2 DEF Bytes, Width
<1>6. CASE c.opcode # "PLAY"
  <2>1. PlaysIn(Append(q, c)) = PlaysIn(q)
    BY <1>1, <1>3, <1>4, <1>6, LenProperties DEF PlaysIn
  <2> QED
    BY <1>1, <1>2, <1>6, <2>1 DEF Bytes, Width
<1> QED
  BY <1>5, <1>6

\* Taking out the oldest command frees its width.
LEMMA BytesTail ==
  ASSUME NEW q \in Seq(Commands), q # <<>>
  PROVE  Bytes(q) = Width(Head(q)) + Bytes(Tail(q))
<1> DEFINE t == Tail(q)
           Later == PlaysIn(q) \ {1}
           f == [i \in PlaysIn(t) |-> i + 1]
<1>1. /\ t \in Seq(Commands) /\ Len(t) = Len(q) - 1 /\ Len(q) \in Nat \ {0}
      /\ \A i \in 1 .. Len(t) : t[i] = q[i + 1]
  BY HeadTailProperties, EmptySeq
<1>2. Head(q) = q[1]
  OBVIOUS
<1>3. /\ IsFiniteSet(PlaysIn(q)) /\ IsFiniteSet(PlaysIn(t))
      /\ Cardinality(PlaysIn(q)) \in Nat /\ Cardinality(PlaysIn(t)) \in Nat
  BY <1>1, BytesType, FS_CardinalityType
<1>4. f \in Bijection(PlaysIn(t), Later)
  <2>1. PlaysIn(q) \subseteq 1 .. Len(q) /\ PlaysIn(t) \subseteq 1 .. Len(t)
    BY <1>1, LenProperties DEF PlaysIn
  <2>2. \A i \in PlaysIn(t) : i + 1 \in Later
    BY <1>1, <2>1, LenProperties DEF PlaysIn
  <2>3. \A j \in Later : j - 1 \in PlaysIn(t) /\ f[j - 1] = j
    BY <1>1, <2>1, LenProperties DEF PlaysIn
  <2>4. f \in Injection(PlaysIn(t), Later)
    BY <1>1, <2>1, <2>2 DEF Injection, IsInjective
  <2>5. f \in Surjection(PlaysIn(t), Later)
    BY <2>2, <2>3 DEF Surjection
  <2> QED
    BY <2>4, <2>5 DEF Bijection
<1>5. Cardinality(Later) = Cardinality(PlaysIn(t))
  BY <1>3, <1>4, FS_Bijection DEF ExistsBijection
<1>6. Cardinality(Later) = IF 1 \in PlaysIn(q) THEN Cardinality(PlaysIn(q)) - 1
                           ELSE Cardinality(PlaysIn(q))
  BY <1>3, FS_RemoveElement
<1>7. 1 \in PlaysIn(q) <=> Head(q).opcode = "PLAY"
  BY <1>1, <1>2, LenProperties DEF PlaysIn
<1> QED
  BY <1>1, <1>3, <1>5, <1>6, <1>7 DEF Bytes, Width

-----------------------------------------------------------------------------
(* The API functions keep the type and the flags of the main thread, and   *)
(* ask for at most four bytes.                                             *)

\* A request changes only the calls left to make, by one command.
LEMMA RequestFacts ==
  ASSUME NEW s \in MainStates, NEW opcode, NEW arg,
         Command(opcode, arg % ByteSize) \in Commands
  PROVE  LET r == Request(s, opcode, arg)
             c == Command(opcode, arg % ByteSize)
         IN /\ r \in MainStates
            /\ r.power_state = s.power_state
            /\ r.playing_state = s.playing_state
            /\ r.paused_state = s.paused_state
            /\ r.chapter = s.chapter
            /\ r.calls = Append(s.calls, c)
            /\ Bytes(r.calls) = Bytes(s.calls) + Width(c)
<1>1. s.calls \in Seq(Commands)
  BY DEF MainStates
<1>2. Append(s.calls, Command(opcode, arg % ByteSize)) \in Seq(Commands)
  BY <1>1, AppendProperties
<1>3. Bytes(Append(s.calls, Command(opcode, arg % ByteSize)))
        = Bytes(s.calls) + Width(Command(opcode, arg % ByteSize))
  BY <1>1, BytesAppend
<1> QED
  BY <1>2, <1>3 DEF Request, MainStates

\* The same for the requests without a chapter.
LEMMA PlainRequest ==
  ASSUME NEW s \in MainStates, NEW opcode \in {"STOP", "PAUSE", "UNPAUSE"}
  PROVE  LET r == Request(s, opcode, 0)
         IN /\ r \in MainStates
            /\ r.power_state = s.power_state
            /\ r.playing_state = s.playing_state
            /\ r.paused_state = s.paused_state
            /\ r.chapter = s.chapter
            /\ r.calls = Append(s.calls, Command(opcode, 0))
            /\ Bytes(r.calls) = Bytes(s.calls) + 1
<1>1. Command(opcode, 0 % ByteSize) = Command(opcode, 0)
  BY CommandFacts
<1>2. Command(opcode, 0) \in Commands
  BY CommandFacts
<1>3. Width(Command(opcode, 0)) = 1
  BY WidthFacts
<1> QED
  BY <1>1, <1>2, <1>3, RequestFacts

\* The bytes a state has left to queue are a number.
LEMMA CallBytes ==
  ASSUME NEW s \in MainStates
  PROVE  Bytes(s.calls) \in Nat
<1> QED
  BY BytesType DEF MainStates

LEMMA PauseFacts ==
  ASSUME NEW s \in MainStates, Flags(s)
  PROVE  /\ Pause(s) \in MainStates
         /\ Flags(Pause(s))
         /\ Bytes(Pause(s).calls) <= Bytes(s.calls) + 1
<1> DEFINE r == Request(s, "PAUSE", 0)
<1>1. CASE s.power_state /\ s.playing_state /\ ~s.paused_state
  <2>1. r \in MainStates /\ r.power_state = s.power_state
        /\ Bytes(r.calls) = Bytes(s.calls) + 1
    BY PlainRequest
  <2>2. Pause(s) = [r EXCEPT !.playing_state = TRUE, !.paused_state = TRUE]
    BY <1>1 DEF Pause
  <2>3. Bytes(Pause(s).calls) = Bytes(s.calls) + 1 /\ Bytes(s.calls) \in Nat
    BY <2>1, <2>2, CallBytes DEF MainStates
  <2>4. Pause(s) \in MainStates /\ Flags(Pause(s))
    BY <1>1, <2>1, <2>2 DEF Flags, MainStates
  <2> QED
    BY <2>3, <2>4
<1>2. CASE ~(s.power_state /\ s.playing_state /\ ~s.paused_state)
  BY <1>2, CallBytes DEF Pause
<1> QED
  BY <1>1, <1>2

\* Unpause also leaves everything but the pause as it is.
LEMMA UnpauseFacts ==
  ASSUME NEW s \in MainStates, Flags(s)
  PROVE  /\ Unpause(s) \in MainStates
         /\ Flags(Unpause(s))
         /\ Bytes(Unpause(s).calls) <= Bytes(s.calls) + 1
         /\ Unpause(s).power_state = s.power_state
         /\ Unpause(s).playing_state = s.playing_state
         /\ Unpause(s).paused_state = FALSE
         /\ Unpause(s).chapter = s.chapter
<1> DEFINE r == Request(s, "UNPAUSE", 0)
<1>1. CASE s.power_state /\ s.playing_state /\ s.paused_state
  <2>1. r \in MainStates /\ r.power_state = s.power_state
        /\ r.playing_state = s.playing_state /\ r.chapter = s.chapter
        /\ Bytes(r.calls) = Bytes(s.calls) + 1
    BY PlainRequest
  <2>2. Unpause(s) = [r EXCEPT !.playing_state = TRUE, !.paused_state = FALSE]
    BY <1>1 DEF Unpause
  <2>3. Bytes(Unpause(s).calls) = Bytes(s.calls) + 1 /\ Bytes(s.calls) \in Nat
    BY <2>1, <2>2, CallBytes DEF MainStates
  <2>4. Unpause(s) \in MainStates
    BY <2>1, <2>2 DEF MainStates
  <2>5. /\ Unpause(s).power_state = s.power_state
        /\ Unpause(s).playing_state = TRUE /\ s.playing_state = TRUE
        /\ Unpause(s).paused_state = FALSE
        /\ Unpause(s).chapter = s.chapter
    BY <1>1, <2>1, <2>2 DEF MainStates
  <2>6. Flags(Unpause(s))
    BY <1>1, <2>5 DEF Flags
  <2>7. Bytes(Unpause(s).calls) <= Bytes(s.calls) + 1
    BY <2>3
  <2> QED
    BY <2>4, <2>5, <2>6, <2>7
<1>2. CASE ~(s.power_state /\ s.playing_state /\ s.paused_state)
  <2>1. Unpause(s) = s
    BY <1>2 DEF Unpause
  <2>2. s.paused_state = FALSE
    BY <1>2 DEF Flags, MainStates
  <2> QED
    BY <2>1, <2>2, CallBytes
<1> QED
  BY <1>1, <1>2

\* After Stop nothing plays; if nothing played it has no effect.
LEMMA StopFacts ==
  ASSUME NEW s \in MainStates, Flags(s)
  PROVE  /\ Stop(s) \in MainStates
         /\ Flags(Stop(s))
         /\ Bytes(Stop(s).calls) <= Bytes(s.calls) + 2
         /\ ~s.playing_state => Stop(s) = s
         /\ Stop(s).power_state = s.power_state
         /\ Stop(s).playing_state = FALSE
         /\ Stop(s).paused_state = FALSE
         /\ Stop(s).chapter = 1
<1> DEFINE u == Unpause(s)
           r == Request(u, "STOP", 0)
<1>1. CASE s.playing_state
  <2>1. u \in MainStates /\ u.power_state = s.power_state
        /\ Bytes(u.calls) <= Bytes(s.calls) + 1
    BY UnpauseFacts
  <2>2. r \in MainStates /\ r.power_state = s.power_state
        /\ Bytes(r.calls) = Bytes(u.calls) + 1
    BY <2>1, PlainRequest
  <2>3. Stop(s) = [r EXCEPT !.playing_state = FALSE, !.paused_state = FALSE,
                            !.chapter = 1]
    BY <1>1 DEF Stop, Flags
  <2>4. Stop(s).calls = r.calls /\ Bytes(u.calls) \in Nat /\ Bytes(s.calls) \in Nat
    BY <2>1, <2>2, <2>3, CallBytes DEF MainStates
  <2>5. Bytes(Stop(s).calls) <= Bytes(s.calls) + 2
    BY <2>1, <2>2, <2>4
  <2>6. /\ Stop(s) \in MainStates
        /\ Stop(s).power_state = s.power_state
        /\ Stop(s).playing_state = FALSE
        /\ Stop(s).paused_state = FALSE
        /\ Stop(s).chapter = 1
    BY <2>2, <2>3 DEF MainStates
  <2>7. Flags(Stop(s))
    BY <2>6 DEF Flags
  <2> QED
    BY <1>1, <2>5, <2>6, <2>7
<1>2. CASE ~s.playing_state
  <2>1. Stop(s) = s
    BY <1>2 DEF Stop, Flags
  <2> QED
    BY <1>2, <2>1, CallBytes DEF Flags, MainStates
<1> QED
  BY <1>1, <1>2

LEMMA SeekFacts ==
  ASSUME NEW s \in MainStates, Flags(s), NEW chapter \in Nat
  PROVE  /\ SeekToChapter(s, chapter) \in MainStates
         /\ Flags(SeekToChapter(s, chapter))
         /\ Bytes(SeekToChapter(s, chapter).calls)
              <= Bytes(s.calls) + IF s.paused_state THEN 4 ELSE 3
         /\ CanSeek(s, chapter) =>
              /\ SeekToChapter(s, chapter).power_state = TRUE
              /\ SeekToChapter(s, chapter).playing_state = TRUE
              /\ SeekToChapter(s, chapter).paused_state = s.paused_state
              /\ SeekToChapter(s, chapter).chapter = chapter
<1> DEFINE a == Request(s, "STOP", 0)
           b == Request(a, "PLAY", chapter)
           d == [b EXCEPT !.playing_state = TRUE, !.chapter = chapter]
<1>1. CASE CanSeek(s, chapter)
  <2>1. a \in MainStates /\ Bytes(a.calls) = Bytes(s.calls) + 1
        /\ a.power_state = s.power_state /\ a.paused_state = s.paused_state
    BY PlainRequest
  <2>2. b \in MainStates /\ Bytes(b.calls) = Bytes(a.calls) + 2
        /\ b.power_state = s.power_state /\ b.paused_state = s.paused_state
    <3>1. Command("PLAY", chapter % ByteSize) \in Commands
          /\ Width(Command("PLAY", chapter % ByteSize)) = 2
      BY CommandFacts, WidthFacts, ByteFacts
    <3> QED
      BY <2>1, <3>1, RequestFacts
  <2>3. chapter \in 1 .. MaxChapter /\ s.power_state = TRUE
    BY <1>1 DEF CanSeek, MainStates
  <2>4. /\ d \in MainStates /\ d.calls = b.calls
        /\ d.power_state = TRUE /\ d.playing_state = TRUE
        /\ d.paused_state = s.paused_state /\ d.chapter = chapter
    BY <2>1, <2>2, <2>3 DEF MainStates
  <2> DEFINE e == Repause(d)
  <2>5. SeekToChapter(s, chapter) = e
    BY <1>1 DEF SeekToChapter
  <2>8. Bytes(d.calls) = Bytes(s.calls) + 3
    BY <2>1, <2>2, <2>4, CallBytes
  <2>9. e = IF d.paused_state THEN Request(d, "PAUSE", 0) ELSE d
    BY DEF Repause
  <2> HIDE DEF d, e
  <2>6. CASE s.paused_state
    <3>1. e = Request(d, "PAUSE", 0)
      BY <2>4, <2>6, <2>9
    <3>2. /\ e \in MainStates
          /\ e.power_state = TRUE /\ e.playing_state = TRUE
          /\ e.paused_state = s.paused_state
          /\ e.chapter = chapter
      BY <2>4, <3>1, PlainRequest
    <3>3. Bytes(e.calls) = Bytes(d.calls) + 1
      BY <2>4, <3>1, PlainRequest
    <3>4. Bytes(e.calls) <= Bytes(s.calls) + 4
      BY <2>8, <3>3, CallBytes
    <3>5. Flags(e)
      BY <3>2 DEF Flags
    <3> QED
      BY <2>5, <2>6, <3>2, <3>4, <3>5
  <2>7. CASE ~s.paused_state
    <3>1. e = d
      BY <2>4, <2>7, <2>9
    <3>2. Bytes(e.calls) <= Bytes(s.calls) + 3
      BY <2>8, <3>1, CallBytes
    <3>3. Flags(e)
      BY <2>4, <3>1 DEF Flags
    <3> QED
      BY <2>4, <2>5, <2>7, <3>1, <3>2, <3>3
  <2> QED
    BY <2>6, <2>7
<1>2. CASE ~CanSeek(s, chapter)
  BY <1>2, CallBytes DEF SeekToChapter
<1> QED
  BY <1>1, <1>2

\* Between API functions, a powered-off state has nothing to stop.
LEMMA PowerOnFacts ==
  ASSUME NEW s \in MainStates, Flags(s)
  PROVE  /\ PowerOn(s) = [s EXCEPT !.power_state = TRUE]
         /\ PowerOn(s) \in MainStates
         /\ Flags(PowerOn(s))
<1> DEFINE p == [s EXCEPT !.power_state = TRUE]
<1>1. p \in MainStates /\ Flags(p) /\ p.playing_state = s.playing_state
  BY DEF MainStates, Flags
<1>2. CASE s.power_state
  <2>1. PowerOn(s) = s /\ s = p
    BY <1>2 DEF PowerOn, MainStates
  <2> QED
    BY <1>1, <2>1
<1>3. CASE ~s.power_state
  <2>1. PowerOn(s) = Stop(p) /\ ~p.playing_state
    BY <1>1, <1>3 DEF PowerOn, Flags
  <2>2. Stop(p) = p
    BY <1>1, <2>1, StopFacts
  <2> QED
    BY <1>1, <2>1, <2>2
<1> QED
  BY <1>2, <1>3

LEMMA PowerOffFacts ==
  ASSUME NEW s \in MainStates, Flags(s)
  PROVE  /\ PowerOff(s) \in MainStates
         /\ Flags(PowerOff(s))
         /\ Bytes(PowerOff(s).calls) <= Bytes(s.calls) + 2
<1>1. CASE s.power_state
  <2>1. PowerOff(s) = [Stop(s) EXCEPT !.power_state = FALSE]
    BY <1>1 DEF PowerOff
  <2>2. /\ Stop(s) \in MainStates
        /\ Stop(s).playing_state = FALSE /\ Stop(s).paused_state = FALSE
        /\ Stop(s).chapter = 1
    BY StopFacts
  <2>3. Bytes(Stop(s).calls) <= Bytes(s.calls) + 2
    BY StopFacts
  <2>4. PowerOff(s).calls = Stop(s).calls /\ PowerOff(s) \in MainStates
        /\ PowerOff(s).playing_state = FALSE /\ PowerOff(s).paused_state = FALSE
        /\ PowerOff(s).chapter = 1
    BY <2>1, <2>2 DEF MainStates
  <2>5. Flags(PowerOff(s))
    BY <2>4 DEF Flags
  <2> QED
    BY <2>3, <2>4, <2>5
<1>2. CASE ~s.power_state
  BY <1>2, CallBytes DEF PowerOff
<1> QED
  BY <1>1, <1>2

\* What Play does in its two cases.
LEMMA PlayCases ==
  ASSUME NEW s \in MainStates, Flags(s)
  PROVE  LET on == PowerOn(s)
         IN /\ s.playing_state => s.power_state /\ on = s /\ Play(s) = Unpause(s)
            /\ ~s.playing_state =>
                 /\ ~s.paused_state /\ ~on.paused_state /\ on.power_state
                 /\ on.chapter = 1 /\ on.calls = s.calls
                 /\ Play(s) = [SeekToChapter(on, 1) EXCEPT !.playing_state = TRUE,
                                                          !.paused_state = FALSE]
<1> DEFINE on == PowerOn(s)
<1>1. on = [s EXCEPT !.power_state = TRUE]
  BY PowerOnFacts
<1>2. on.playing_state = s.playing_state /\ on.paused_state = s.paused_state
      /\ on.chapter = s.chapter /\ on.power_state = TRUE /\ on.calls = s.calls
  BY <1>1 DEF MainStates
<1>3. CASE s.playing_state
  <2>1. s.power_state /\ on = s
    BY <1>1, <1>3 DEF Flags, MainStates
  <2> QED
    BY <1>3, <2>1 DEF Play
<1>4. CASE ~s.playing_state
  BY <1>2, <1>4 DEF Play, Flags
<1> QED
  BY <1>3, <1>4

LEMMA PlayFacts ==
  ASSUME NEW s \in MainStates, Flags(s)
  PROVE  /\ Play(s) \in MainStates
         /\ Flags(Play(s))
         /\ Bytes(Play(s).calls) <= Bytes(s.calls) + 4
<1> DEFINE on == PowerOn(s)
           k == SeekToChapter(on, 1)
<1>1. CASE s.playing_state
  <2>1. Play(s) = Unpause(s)
    BY <1>1, PlayCases
  <2>2. Unpause(s) \in MainStates /\ Bytes(Unpause(s).calls) <= Bytes(s.calls) + 1
        /\ Flags(Unpause(s))
    BY UnpauseFacts
  <2> QED
    BY <2>1, <2>2, CallBytes
<1>2. CASE ~s.playing_state
  <2>1. on \in MainStates /\ Flags(on)
    BY PowerOnFacts
  <2>2. /\ ~on.paused_state /\ on.power_state /\ on.calls = s.calls /\ on.chapter = 1
        /\ Play(s) = [k EXCEPT !.playing_state = TRUE, !.paused_state = FALSE]
    BY <1>2, PlayCases
  <2>3. k \in MainStates /\ Bytes(k.calls) <= Bytes(s.calls) + 3
    BY <2>1, <2>2, SeekFacts
  <2>4. k.power_state
    BY <2>1, <2>2, SeekFacts DEF SeekToChapter
  <2>5. Play(s).calls = k.calls /\ Play(s) \in MainStates /\ Flags(Play(s))
    BY <2>2, <2>3, <2>4 DEF MainStates, Flags
  <2> QED
    BY <2>3, <2>5, CallBytes
<1> QED
  BY <1>1, <1>2

\* So whichever function is called, its state is well typed, keeps the flags
\* consistent and leaves at most four bytes to queue.
LEMMA ApiOutcome ==
  ASSUME TypeOK, Flags(main), ApiCall
  PROVE  \E n \in MainStates :
           Flags(n) /\ Bytes(n.calls) <= Bytes(main.calls) + 4 /\ Invoke(n)
<1> DEFINE Fine(n) == /\ n \in MainStates /\ Flags(n)
                      /\ Bytes(n.calls) <= Bytes(main.calls) + 4
<1> USE DEF TypeOK
<1>1. main \in MainStates /\ Bytes(main.calls) \in Nat
  BY CallBytes
<1>2. Fine(PowerOn(main))
  <2>1. PowerOn(main).calls = main.calls
    BY <1>1, PowerOnFacts DEF MainStates
  <2> QED
    BY <1>1, <2>1, PowerOnFacts
<1>3. Fine(PowerOff(main))
  <2>1. Bytes(PowerOff(main).calls) \in Nat
    BY <1>1, PowerOffFacts, CallBytes
  <2> QED
    BY <1>1, <2>1, PowerOffFacts
<1>4. Fine(Play(main))
  BY <1>1, PlayFacts
<1>5. Fine(Pause(main))
  <2>1. Bytes(Pause(main).calls) \in Nat
    BY <1>1, PauseFacts, CallBytes
  <2> QED
    BY <1>1, <2>1, PauseFacts
<1>6. Fine(Stop(main))
  <2>1. /\ Stop(main) \in MainStates /\ Flags(Stop(main))
        /\ Bytes(Stop(main).calls) <= Bytes(main.calls) + 2
    BY <1>1, StopFacts
  <2>2. Bytes(Stop(main).calls) \in Nat
    BY <2>1, CallBytes
  <2> QED
    BY <1>1, <2>1, <2>2
<1>7. \A c \in ChapterArgs : Fine(SeekToChapter(main, c))
  <2> TAKE c \in ChapterArgs
  <2>1. c \in Nat
    BY VideoAssumption
  <2>2. /\ SeekToChapter(main, c) \in MainStates
        /\ Flags(SeekToChapter(main, c))
        /\ Bytes(SeekToChapter(main, c).calls)
             <= Bytes(main.calls) + IF main.paused_state THEN 4 ELSE 3
    BY <1>1, <2>1, SeekFacts
  <2>3. Bytes(SeekToChapter(main, c).calls) \in Nat
    BY <2>2, CallBytes
  <2> QED
    BY <1>1, <2>2, <2>3
<1> QED
  BY <1>2, <1>3, <1>4, <1>5, <1>6, <1>7
     DEF ApiCall, CallPowerOn, CallPowerOff, CallPlay, CallPause, CallStop, CallSeek

-----------------------------------------------------------------------------
(* Type correctness and the unlocked read.                                 *)

\* A toggle is carried out, or is lost and leaves the player inexact.
LEMMA ToggleFacts ==
  ASSUME NEW p \in Players, NEW q \in AfterToggle(p)
  PROVE  /\ q \in Players
         /\ q.phase = p.phase
         /\ q.chapter = p.chapter
         /\ \/ q = p /\ p.phase # "playing"
            \/ q.paused = ~p.paused /\ q.exact = p.exact
            \/ q.exact = FALSE
<1> DEFINE a == [p EXCEPT !.paused = ~@]
           b == [p EXCEPT !.exact = FALSE]
<1>1. p.paused \in BOOLEAN
  BY DEF Players
<1>2. a \in Players /\ a.phase = p.phase /\ a.chapter = p.chapter
      /\ a.paused = ~p.paused /\ a.exact = p.exact
  BY <1>1 DEF Players
<1>3. b \in Players /\ b.phase = p.phase /\ b.chapter = p.chapter /\ b.exact = FALSE
  BY DEF Players
<1>4. (q = p /\ p.phase # "playing") \/ q = a \/ q = b
  BY DEF AfterToggle
<1> HIDE DEF a, b
<1> QED
  BY <1>2, <1>3, <1>4

\* Inductive: the playback thread goes for the lock only when something is
\* queued, and it alone takes things out.
TypeInv == TypeOK /\ DequeueSafe /\ Flags(main)

LEMMA InitTypeInv == Init => TypeInv
<1> SUFFICES ASSUME Init PROVE TypeInv
  OBVIOUS
<1>1. Command("STOP", 0) \in Commands
  BY CommandFacts
<1>2. main \in MainStates
  BY DEF Init, Standby, MainStates
<1>3. player \in Players
  BY ByteFacts DEF Init, Standby, NoPlayer, Players
<1>4. Flags(main)
  BY DEF Init, Standby, Flags
<1>5. queue \in Seq(Commands) /\ overflow \in BOOLEAN /\ loaded \in BOOLEAN
      /\ pc = "check" /\ op \in Commands
  BY <1>1, EmptySeq DEF Init, Standby
<1>6. burst \in 0 .. MaxBurst
  BY VideoAssumption DEF Init, Standby
<1> QED
  BY <1>2, <1>3, <1>4, <1>5, <1>6 DEF TypeInv, TypeOK, DequeueSafe

LEMMA NextTypeInv == TypeInv /\ [Next]_vars => TypeInv'
<1> SUFFICES ASSUME TypeInv, [Next]_vars PROVE TypeInv'
  OBVIOUS
<1>0. /\ main \in MainStates /\ queue \in Seq(Commands) /\ overflow \in BOOLEAN
      /\ pc \in {"check", "lock", "run", "poll"} /\ op \in Commands
      /\ loaded \in BOOLEAN /\ player \in Players /\ burst \in 0 .. MaxBurst
      /\ Flags(main) /\ DequeueSafe /\ MaxBurst \in Nat \ {0}
  BY VideoAssumption DEF TypeInv, TypeOK
<1>1. CASE ApiCall
  <2>1. PICK n \in MainStates : Flags(n) /\ Invoke(n)
    BY <1>1, ApiOutcome DEF TypeInv
  <2>2. main' \in MainStates /\ Flags(main')
    BY <2>1 DEF Invoke
  <2>3. burst' \in 0 .. MaxBurst
    BY <1>0, <2>1 DEF Invoke
  <2> QED
    BY <1>0, <2>1, <2>2, <2>3 DEF Invoke, TypeInv, TypeOK, DequeueSafe, Flags
<1>2. CASE VideoThreadAction
  <2>1. main.calls \in Seq(Commands) /\ main.calls # <<>>
    BY <1>0, <1>2 DEF VideoThreadAction, MainStates
  <2>2. Head(main.calls) \in Commands /\ Tail(main.calls) \in Seq(Commands)
    BY <2>1, HeadTailProperties
  <2>3. queue' \in Seq(Commands) /\ (queue # <<>> => queue' # <<>>)
    BY <1>0, <1>2, <2>2, AppendProperties DEF VideoThreadAction
  <2>4. main' \in MainStates /\ Flags(main')
    BY <1>0, <1>2, <2>2 DEF VideoThreadAction, MainStates, Flags
  <2>5. overflow' \in BOOLEAN
    BY <1>2 DEF VideoThreadAction
  <2> QED
    BY <1>0, <1>2, <2>3, <2>4, <2>5
       DEF VideoThreadAction, TypeInv, TypeOK, DequeueSafe, Flags
<1>3. CASE ThreadCheck
  BY <1>0, <1>3 DEF ThreadCheck, TypeInv, TypeOK, DequeueSafe, Flags
<1>4. CASE ThreadDequeue
  <2>1. queue # <<>>
    BY <1>0, <1>4 DEF ThreadDequeue, DequeueSafe
  <2>2. op' \in Commands /\ queue' \in Seq(Commands)
    BY <1>0, <1>4, <2>1, HeadTailProperties DEF ThreadDequeue
  <2>3. burst' \in 0 .. MaxBurst
    BY <1>0, <1>4 DEF ThreadDequeue
  <2> QED
    BY <1>0, <1>4, <2>2, <2>3 DEF ThreadDequeue, TypeInv, TypeOK, DequeueSafe, Flags
<1>5. CASE RunStop
  <2>1. player' \in Players
    BY <1>0, <1>5, ByteFacts DEF RunStop, NoPlayer, Players
  <2> QED
    BY <1>0, <1>5, <2>1 DEF RunStop, TypeInv, TypeOK, DequeueSafe, Flags
<1>6. CASE RunToggle
  <2>1. player' \in Players
    BY <1>0, <1>6, ToggleFacts DEF RunToggle
  <2> QED
    BY <1>0, <1>6, <2>1 DEF RunToggle, TypeInv, TypeOK, DequeueSafe, Flags
<1>7. CASE RunPlay
  <2>1. op.arg \in 0 .. ByteSize - 1
    <3>1. 0 \in 0 .. ByteSize - 1
      BY ByteFacts
    <3> QED
      BY <1>0, <3>1 DEF Commands
  <2>2. player' \in Players
    BY <1>0, <1>7, <2>1, ByteFacts
       DEF RunPlay, Starting, LostPlayer, NoPlayer, Players
  <2> QED
    BY <1>0, <1>7, <2>2 DEF RunPlay, TypeInv, TypeOK, DequeueSafe, Flags
<1>8. CASE PollStatus
  BY <1>0, <1>8 DEF PollStatus, StatusSucceeds, TypeInv, TypeOK, DequeueSafe, Flags
<1>9. CASE PlayerReady
  <2>1. player' \in Players
    BY <1>0, <1>9 DEF PlayerReady, Players
  <2> QED
    BY <1>0, <1>9, <2>1 DEF PlayerReady, TypeInv, TypeOK, DequeueSafe, Flags
<1>10. CASE PlayerExit
  <2>1. player' \in Players
    BY <1>10, ByteFacts DEF PlayerExit, LostPlayer, NoPlayer, Players
  <2> QED
    BY <1>0, <1>10, <2>1 DEF PlayerExit, TypeInv, TypeOK, DequeueSafe, Flags
<1>11. CASE UNCHANGED vars
  BY <1>0, <1>11 DEF vars, TypeInv, TypeOK, DequeueSafe, Flags
<1> QED
  BY <1>1, <1>2, <1>3, <1>4, <1>5, <1>6, <1>7, <1>8, <1>9, <1>10, <1>11
     DEF Next, VideoThread

\* The variables keep their types: no sequence of calls makes a chapter current
\* that is not on the disc.
THEOREM TypeCorrect == Spec => []TypeOK
<1>1. TypeInv => TypeOK
  BY DEF TypeInv
<1> QED
  BY <1>1, InitTypeInv, NextTypeInv, PTL DEF Spec

\* The playback thread never takes a command out of an empty queue, although it
\* looks at queue_pos without the lock.
THEOREM UnlockedReadSafe == Spec => []DequeueSafe
<1>1. TypeInv => DequeueSafe
  BY DEF TypeInv
<1> QED
  BY <1>1, InitTypeInv, NextTypeInv, PTL DEF Spec

-----------------------------------------------------------------------------
(* The queue.                                                              *)

\* Each step keeps four bytes per call of the burst, if a burst fits the queue.
LEMMA NextQueueInv ==
  ASSUME 4 * MaxBurst <= QueueSize, TypeInv, QueueInv, [Next]_vars
  PROVE  QueueInv'
<1>0. /\ main \in MainStates /\ queue \in Seq(Commands) /\ Flags(main)
      /\ main.calls \in Seq(Commands)
      /\ burst \in 0 .. MaxBurst /\ MaxBurst \in Nat \ {0} /\ QueueSize \in Nat
      /\ Bytes(queue) \in Nat /\ Bytes(main.calls) \in Nat
      /\ DequeueSafe
  BY VideoAssumption, BytesType DEF TypeInv, TypeOK, MainStates
<1>1. CASE ApiCall
  <2>1. PICK n \in MainStates : Bytes(n.calls) <= Bytes(main.calls) + 4 /\ Invoke(n)
    BY <1>1, ApiOutcome DEF TypeInv
  <2>2. Bytes(main.calls) = 0
    BY <2>1, BytesEmpty DEF Invoke
  <2>3. main' = n /\ queue' = queue /\ Bytes(n.calls) \in Nat /\ ~overflow'
        /\ burst' = IF n.calls = <<>> THEN burst ELSE burst + 1
    BY <2>1, CallBytes DEF Invoke
  <2>4. CASE n.calls = <<>>
    BY <1>0, <2>2, <2>3, <2>4, BytesEmpty DEF QueueInv
  <2>5. CASE n.calls # <<>>
    BY <1>0, <2>1, <2>2, <2>3, <2>5 DEF QueueInv
  <2> QED
    BY <2>4, <2>5
<1>2. CASE VideoThreadAction
  <2> DEFINE c == Head(main.calls)
             t == Tail(main.calls)
  <2>1. main.calls # <<>> /\ c \in Commands /\ t \in Seq(Commands)
    BY <1>0, <1>2, HeadTailProperties DEF VideoThreadAction
  <2>2. Bytes(main.calls) = Width(c) + Bytes(t) /\ Width(c) \in {1, 2} /\ Bytes(t) \in Nat
    BY <1>0, <2>1, BytesTail, WidthFacts, BytesType
  <2>3. Bytes(Append(queue, c)) = Bytes(queue) + Width(c)
    BY <1>0, <2>1, BytesAppend
  <2>4. Bytes(queue) + Width(c) <= QueueSize
    BY <1>0, <2>2 DEF QueueInv
  <2>5. queue' = Append(queue, c) /\ ~overflow' /\ main'.calls = t /\ burst' = burst
    BY <1>0, <1>2, <2>4 DEF VideoThreadAction, MainStates
  <2>6. burst >= 1
    BY <2>1 DEF QueueInv
  <2> HIDE DEF c, t
  <2> QED
    BY <1>0, <2>2, <2>3, <2>5, <2>6 DEF QueueInv
<1>3. CASE ThreadDequeue
  <2>1. queue # <<>> /\ Head(queue) \in Commands /\ Tail(queue) \in Seq(Commands)
    BY <1>0, <1>3, HeadTailProperties DEF ThreadDequeue, DequeueSafe
  <2>2. Bytes(queue) = Width(Head(queue)) + Bytes(Tail(queue))
        /\ Width(Head(queue)) \in {1, 2} /\ Bytes(Tail(queue)) \in Nat
    BY <1>0, <2>1, BytesTail, WidthFacts, BytesType
  <2>3. queue' = Tail(queue) /\ main' = main /\ overflow' = overflow
        /\ burst' = IF queue' # <<>> THEN burst
                    ELSE IF main.calls = <<>> THEN 0 ELSE 1
    BY <1>3 DEF ThreadDequeue
  <2>4. CASE queue' # <<>>
    BY <1>0, <2>2, <2>3, <2>4 DEF QueueInv
  <2>5. CASE queue' = <<>>
    <3>1. Bytes(queue') = 0
      BY <2>5, BytesEmpty
    <3>2. CASE main.calls = <<>>
      <4>1. Bytes(main'.calls) = 0 /\ main'.calls = <<>> /\ burst' = 0
        BY <2>3, <2>5, <3>2, BytesEmpty
      <4> QED
        BY <2>3, <3>1, <4>1 DEF QueueInv
    <3>3. CASE main.calls # <<>>
      BY <1>0, <2>3, <2>5, <3>1, <3>3 DEF QueueInv
    <3> QED
      BY <3>2, <3>3
  <2> QED
    BY <2>4, <2>5
<1>4. CASE UNCHANGED <<main, queue, overflow, burst>>
  BY <1>4 DEF QueueInv
<1> QED
  BY <1>1, <1>2, <1>3, <1>4 DEF Next, VideoThread, vars, ThreadCheck, RunStop,
     RunToggle, RunPlay, PollStatus, PlayerReady, PlayerExit

\* The playback thread never falls behind by more than four bytes per call of the
\* burst: the bound from which it follows that the queue is large enough.
THEOREM QueueBounded ==
  ASSUME 4 * MaxBurst <= QueueSize
  PROVE  Spec => []QueueInv
<1>1. Init => TypeInv /\ QueueInv
  <2>1. Init => QueueInv
    BY BytesEmpty DEF Init, Standby, QueueInv
  <2> QED
    BY <2>1, InitTypeInv
<1>2. TypeInv /\ QueueInv /\ [Next]_vars => (TypeInv /\ QueueInv)'
  BY NextQueueInv, NextTypeInv
<1> QED
  BY <1>1, <1>2, PTL DEF Spec

\* The unchecked writes of VideoThreadAction stay within the queue as long as the
\* playback thread does not fall more than QueueSize \div 4 calls behind.
THEOREM QueueNeverOverflows ==
  ASSUME 4 * MaxBurst <= QueueSize
  PROVE  Spec => []QueueFits
<1>1. QueueInv => QueueFits
  BY DEF QueueInv, QueueFits
<1> QED
  BY <1>1, QueueBounded, PTL

-----------------------------------------------------------------------------
(* The four fields of the main thread implement the transport: each API    *)
(* function maps to one action of Transport or changes nothing of it, and  *)
(* what the playback thread does is invisible to it.                       *)

\* The mode that the flags of s stand for.
ModeOf(s) ==
  IF ~s.power_state THEN "off"
  ELSE IF s.paused_state THEN "paused"
  ELSE IF s.playing_state THEN "playing"
  ELSE "idle"

\* A change of the main thread's state that the transport allows, or does not see.
Allowed(s, t) ==
  \/ ModeOf(t) = ModeOf(s) /\ t.chapter = s.chapter
  \/ ModeOf(s) = "off" /\ ModeOf(t) = "idle" /\ t.chapter = 1
  \/ ModeOf(s) # "off" /\ ModeOf(t) = "off" /\ t.chapter = 1
  \/ ModeOf(t) = "playing" /\ t.chapter = s.chapter
  \/ ModeOf(s) = "playing" /\ ModeOf(t) = "paused" /\ t.chapter = s.chapter
  \/ ModeOf(s) \in {"playing", "paused"} /\ ModeOf(t) = "idle" /\ t.chapter = 1
  \/ /\ ModeOf(s) # "off"
     /\ t.chapter \in ChapterArgs \cap (1 .. MaxChapter)
     /\ ModeOf(t) = IF ModeOf(s) = "paused" THEN "paused" ELSE "playing"

\* The flags decide the mode.
LEMMA ModeFacts ==
  ASSUME NEW s \in MainStates, Flags(s)
  PROVE  /\ ModeOf(s) = "off" <=> ~s.power_state
         /\ ModeOf(s) = "paused" <=> s.paused_state
         /\ ModeOf(s) = "playing" <=> s.playing_state /\ ~s.paused_state
         /\ ModeOf(s) = "idle" <=> s.power_state /\ ~s.playing_state
         /\ ModeOf(s) \in {"off", "idle", "playing", "paused"}
<1>1. s.power_state \in BOOLEAN /\ s.playing_state \in BOOLEAN /\ s.paused_state \in BOOLEAN
  BY DEF MainStates
<1> QED
  BY <1>1 DEF ModeOf, Flags

\* What each API function does to the mode and the chapter.

LEMMA PowerOnDoes ==
  ASSUME NEW s \in MainStates, Flags(s)
  PROVE  \/ /\ ModeOf(s) = "off" /\ s.chapter = 1
            /\ ModeOf(PowerOn(s)) = "idle" /\ PowerOn(s).chapter = 1
         \/ ModeOf(s) # "off" /\ PowerOn(s) = s
<1> DEFINE t == PowerOn(s)
<1>1. t = [s EXCEPT !.power_state = TRUE] /\ t \in MainStates /\ Flags(t)
  BY PowerOnFacts
<1>2. t.power_state = TRUE /\ t.playing_state = s.playing_state
      /\ t.paused_state = s.paused_state /\ t.chapter = s.chapter
  BY <1>1 DEF MainStates
<1>3. CASE s.power_state
  BY <1>3, ModeFacts DEF PowerOn
<1>4. CASE ~s.power_state
  <2> HIDE DEF t
  <2>1. ~s.playing_state /\ s.chapter = 1
    BY <1>4 DEF Flags
  <2>2. ModeOf(s) = "off" /\ ModeOf(t) = "idle"
    BY <1>1, <1>2, <1>4, <2>1, ModeFacts
  <2> QED
    BY <1>2, <2>1, <2>2 DEF t
<1> QED
  BY <1>3, <1>4

LEMMA StopDoes ==
  ASSUME NEW s \in MainStates, Flags(s)
  PROVE  \/ /\ ModeOf(s) \in {"playing", "paused"}
            /\ ModeOf(Stop(s)) = "idle" /\ Stop(s).chapter = 1
         \/ ModeOf(s) \in {"off", "idle"} /\ Stop(s) = s
<1> DEFINE t == Stop(s)
<1>1. /\ t \in MainStates /\ Flags(t) /\ (~s.playing_state => t = s)
      /\ t.power_state = s.power_state /\ t.playing_state = FALSE
      /\ t.paused_state = FALSE /\ t.chapter = 1
  BY StopFacts
<1> HIDE DEF t
<1>2. CASE s.playing_state
  <2>1. s.power_state /\ ModeOf(t) = "idle" /\ ModeOf(s) \in {"playing", "paused"}
    BY <1>1, <1>2, ModeFacts DEF Flags
  <2> QED
    BY <1>1, <2>1 DEF t
<1>3. CASE ~s.playing_state
  <2>1. ModeOf(s) \in {"off", "idle"}
    BY <1>3, ModeFacts DEF Flags
  <2> QED
    BY <1>1, <1>3, <2>1 DEF t
<1> QED
  BY <1>2, <1>3

LEMMA PowerOffDoes ==
  ASSUME NEW s \in MainStates, Flags(s)
  PROVE  \/ ModeOf(s) # "off" /\ ModeOf(PowerOff(s)) = "off" /\ PowerOff(s).chapter = 1
         \/ ModeOf(s) = "off" /\ PowerOff(s) = s
<1> DEFINE t == PowerOff(s)
<1>1. CASE s.power_state
  <2>1. Stop(s) \in MainStates /\ Stop(s).chapter = 1
    BY StopFacts
  <2>2. t = [Stop(s) EXCEPT !.power_state = FALSE]
    BY <1>1 DEF PowerOff
  <2>3. t.power_state = FALSE /\ t.chapter = 1
    BY <2>1, <2>2 DEF MainStates
  <2>4. ModeOf(t) = "off" /\ ModeOf(s) # "off"
    BY <1>1, <2>3, ModeFacts DEF ModeOf
  <2> QED
    BY <2>3, <2>4
<1>2. CASE ~s.power_state
  BY <1>2, ModeFacts DEF PowerOff
<1> QED
  BY <1>1, <1>2

LEMMA PauseDoes ==
  ASSUME NEW s \in MainStates, Flags(s)
  PROVE  \/ /\ ModeOf(s) = "playing"
            /\ ModeOf(Pause(s)) = "paused" /\ Pause(s).chapter = s.chapter
         \/ ModeOf(s) # "playing" /\ Pause(s) = s
<1> DEFINE r == Request(s, "PAUSE", 0)
           t == Pause(s)
<1>1. CASE s.power_state /\ s.playing_state /\ ~s.paused_state
  <2>1. r \in MainStates /\ r.power_state = s.power_state /\ r.chapter = s.chapter
    BY PlainRequest
  <2>2. t = [r EXCEPT !.playing_state = TRUE, !.paused_state = TRUE]
    BY <1>1 DEF Pause
  <2>3. t.power_state = s.power_state /\ t.paused_state = TRUE /\ t.chapter = s.chapter
    BY <2>1, <2>2 DEF MainStates
  <2>4. ModeOf(t) = "paused" /\ ModeOf(s) = "playing"
    BY <1>1, <2>3, ModeFacts DEF ModeOf
  <2> QED
    BY <2>3, <2>4
<1>2. CASE ~(s.power_state /\ s.playing_state /\ ~s.paused_state)
  <2>1. ModeOf(s) # "playing"
    BY <1>2, ModeFacts DEF Flags
  <2> QED
    BY <1>2, <2>1 DEF Pause
<1> QED
  BY <1>1, <1>2

LEMMA SeekDoes ==
  ASSUME NEW s \in MainStates, Flags(s), NEW chapter \in Nat
  PROVE  \/ /\ CanSeek(s, chapter)
            /\ ModeOf(s) # "off" /\ chapter \in 1 .. MaxChapter
            /\ SeekToChapter(s, chapter).chapter = chapter
            /\ ModeOf(SeekToChapter(s, chapter))
                 = IF ModeOf(s) = "paused" THEN "paused" ELSE "playing"
         \/ /\ ~CanSeek(s, chapter)
            /\ ModeOf(s) = "off" \/ chapter \notin 1 .. MaxChapter
            /\ SeekToChapter(s, chapter) = s
<1> DEFINE t == SeekToChapter(s, chapter)
<1>1. CASE CanSeek(s, chapter)
  <2>1. /\ t \in MainStates /\ Flags(t) /\ t.power_state = TRUE /\ t.playing_state = TRUE
        /\ t.paused_state = s.paused_state /\ t.chapter = chapter
    BY <1>1, SeekFacts
  <2>2. s.power_state /\ chapter \in 1 .. MaxChapter
    BY <1>1 DEF CanSeek
  <2> HIDE DEF t
  <2>3. ModeOf(s) # "off" /\ ModeOf(t) = IF ModeOf(s) = "paused" THEN "paused" ELSE "playing"
    BY <2>1, <2>2, ModeFacts
  <2> QED
    BY <1>1, <2>1, <2>2, <2>3 DEF t
<1>2. CASE ~CanSeek(s, chapter)
  <2>1. ~s.power_state \/ chapter \notin 1 .. MaxChapter
    BY <1>2 DEF CanSeek
  <2> QED
    BY <1>2, <2>1, ModeFacts DEF SeekToChapter
<1> QED
  BY <1>1, <1>2

LEMMA PlayDoes ==
  ASSUME NEW s \in MainStates, Flags(s)
  PROVE  ModeOf(Play(s)) = "playing" /\ Play(s).chapter = s.chapter
<1> DEFINE on == PowerOn(s)
           k == SeekToChapter(on, 1)
           t == Play(s)
<1>1. t \in MainStates /\ Flags(t)
  BY PlayFacts
<1>2. CASE s.playing_state
  <2>1. t = Unpause(s)
    BY <1>2, PlayCases
  <2>2. t.playing_state = s.playing_state /\ t.paused_state = FALSE /\ t.chapter = s.chapter
    BY <2>1, UnpauseFacts
  <2> HIDE DEF t
  <2>3. ModeOf(t) = "playing"
    BY <1>1, <1>2, <2>2, ModeFacts
  <2> QED
    BY <2>2, <2>3 DEF t
<1>3. CASE ~s.playing_state
  <2>1. on \in MainStates /\ Flags(on) /\ on.chapter = 1
        /\ t = [k EXCEPT !.playing_state = TRUE, !.paused_state = FALSE]
    BY <1>3, PowerOnFacts, PlayCases
  <2>2. k \in MainStates /\ k.chapter = 1
    <3>1. k \in MainStates /\ (CanSeek(on, 1) => k.chapter = 1)
      BY <2>1, SeekFacts
    <3>2. ~CanSeek(on, 1) => k = on
      BY DEF SeekToChapter
    <3> QED
      BY <2>1, <3>1, <3>2
  <2>3. t.playing_state = TRUE /\ t.paused_state = FALSE /\ t.chapter = 1
    BY <2>1, <2>2 DEF MainStates
  <2>4. s.chapter = 1
    BY <1>3 DEF Flags
  <2> HIDE DEF t
  <2>5. ModeOf(t) = "playing"
    BY <1>1, <2>3, ModeFacts
  <2> QED
    BY <2>3, <2>4, <2>5 DEF t
<1> QED
  BY <1>2, <1>3

\* Every API function does what the transport allows.
LEMMA ApiAllowed ==
  ASSUME TypeInv, ApiCall
  PROVE  Allowed(main, main')
<1>1. main \in MainStates /\ Flags(main)
  BY DEF TypeInv, TypeOK
<1> USE DEF Allowed, Invoke
<1>2. CASE CallPowerOn
  BY <1>1, <1>2, PowerOnDoes DEF CallPowerOn
<1>3. CASE CallPowerOff
  BY <1>1, <1>3, PowerOffDoes DEF CallPowerOff
<1>4. CASE CallPlay
  BY <1>1, <1>4, PlayDoes DEF CallPlay
<1>5. CASE CallPause
  BY <1>1, <1>5, PauseDoes DEF CallPause
<1>6. CASE CallStop
  BY <1>1, <1>6, StopDoes DEF CallStop
<1>7. CASE CallSeek
  <2>1. PICK c \in ChapterArgs : main' = SeekToChapter(main, c)
    BY <1>7 DEF CallSeek
  <2>2. c \in Nat
    BY VideoAssumption
  <2> QED
    BY <1>1, <2>1, <2>2, SeekDoes
<1> QED
  BY <1>2, <1>3, <1>4, <1>5, <1>6, <1>7 DEF ApiCall

\* Nothing else changes the mode or the chapter.
LEMMA OthersInvisible ==
  ASSUME TypeInv,
         \/ VideoThreadAction \/ VideoThread \/ PlayerReady \/ PlayerExit
         \/ UNCHANGED vars
  PROVE  Mode' = Mode /\ main'.chapter = main.chapter
<1>1. CASE VideoThreadAction
  <2>1. main \in MainStates /\ main' = [main EXCEPT !.calls = Tail(@)]
    BY <1>1 DEF VideoThreadAction, TypeInv, TypeOK
  <2> QED
    BY <2>1 DEF Mode, MainStates
<1>2. CASE UNCHANGED main
  BY <1>2 DEF Mode
<1> QED
  BY <1>1, <1>2 DEF VideoThread, vars, ThreadCheck, ThreadDequeue, RunStop,
     RunToggle, RunPlay, PollStatus, PlayerReady, PlayerExit

\* A step of the video component is a step of the transport or a stutter.
LEMMA NextAllowed ==
  ASSUME TypeInv, [Next]_vars
  PROVE  [Promise!Next]_<<Mode, main.chapter>>
<1>1. Mode = ModeOf(main) /\ Mode' = ModeOf(main')
  BY DEF Mode, ModeOf
<1>2. CASE ApiCall
  <2>1. Allowed(main, main')
    BY <1>2, ApiAllowed
  <2> QED
    BY <1>1, <2>1 DEF Allowed, Promise!Next, Promise!TurnOn, Promise!TurnOff,
       Promise!Play, Promise!Pause, Promise!Stop, Promise!Seek,
       Promise!SeekTo
<1>3. CASE \/ VideoThreadAction \/ VideoThread \/ PlayerReady \/ PlayerExit
           \/ UNCHANGED vars
  BY <1>3, OthersInvisible
<1> QED
  BY <1>2, <1>3 DEF Next

LEMMA InitTransport == Init => Promise!Init
  BY DEF Init, Standby, Mode, Promise!Init

\* The main thread's fields implement the transport: no combination of flags and
\* no sequence of calls shows anything but the four modes and their transitions.
THEOREM TransportImplemented == Spec => ImplementsTransport
<1>1. Init => Promise!Init
  BY InitTransport
<1>2. TypeInv /\ [Next]_vars => [Promise!Next]_<<Mode, main.chapter>>
  BY NextAllowed
<1> QED
  BY <1>1, <1>2, InitTypeInv, NextTypeInv, PTL
     DEF Spec, ImplementsTransport, Promise!Spec

-----------------------------------------------------------------------------
(* Players come one at a time, and the work that is left shrinks.          *)

\* Inductive: but for the wait for one that was started, a player that the thread has
\* not marked as loaded is not there.
PlayerKnown ==
  /\ pc = "poll" => ~loaded
  /\ pc # "poll" /\ ~loaded => player = NoPlayer

LEMMA InitPlayerKnown == Init => PlayerKnown
  BY DEF Init, PlayerKnown

LEMMA NextPlayerKnown == TypeInv /\ PlayerKnown /\ [Next]_vars => PlayerKnown'
<1> SUFFICES ASSUME TypeInv, PlayerKnown, [Next]_vars PROVE PlayerKnown'
  OBVIOUS
<1>0. loaded \in BOOLEAN /\ NoPlayer.phase = "none"
  BY DEF TypeInv, TypeOK, NoPlayer
<1>1. CASE UNCHANGED <<pc, loaded, player>>
  BY <1>1 DEF PlayerKnown
<1>2. CASE ApiCall \/ VideoThreadAction
  BY <1>1, <1>2 DEF ApiCall, CallPowerOn, CallPowerOff, CallPlay, CallPause, CallStop,
     CallSeek, Invoke, VideoThreadAction
<1>3. CASE ThreadCheck \/ ThreadDequeue
  BY <1>3 DEF ThreadCheck, ThreadDequeue, PlayerKnown
<1>4. CASE RunStop
  BY <1>4 DEF RunStop, PlayerKnown
<1>5. CASE RunToggle
  BY <1>5 DEF RunToggle, PlayerKnown
<1>6. CASE RunPlay
  BY <1>6 DEF RunPlay, PlayerKnown
<1>7. CASE PollStatus
  BY <1>7 DEF PollStatus, PlayerKnown
<1>8. CASE PlayerReady \/ PlayerExit
  BY <1>0, <1>8 DEF PlayerReady, PlayerExit, PlayerKnown
<1>9. CASE UNCHANGED vars
  BY <1>1, <1>9 DEF vars
<1> QED
  BY <1>2, <1>3, <1>4, <1>5, <1>6, <1>7, <1>8, <1>9 DEF Next, VideoThread

OnePlayerStep ==
  /\ pc = "run" /\ pc' = "poll" => player = NoPlayer
  /\ pc = "run" /\ op.opcode = "STOP" /\ pc' = "check" => player' = NoPlayer /\ ~loaded'

\* A step that leaves "run" is one of the three that carry out a command.
LEMMA NextOnePlayer ==
  ASSUME PlayerKnown, [Next]_vars
  PROVE  OnePlayerStep
<1>1. CASE pc' = pc
  BY <1>1 DEF OnePlayerStep
<1>2. CASE pc # "run"
  BY <1>2 DEF OnePlayerStep
<1>3. CASE pc = "run" /\ RunStop
  BY <1>3 DEF RunStop, PlayerKnown, OnePlayerStep
<1>4. CASE pc = "run" /\ RunToggle
  BY <1>4 DEF RunToggle, OnePlayerStep
<1>5. CASE pc = "run" /\ RunPlay
  BY <1>5 DEF RunPlay, PlayerKnown, OnePlayerStep
<1>6. CASE ApiCall \/ VideoThreadAction \/ PlayerReady \/ PlayerExit \/ UNCHANGED vars
  BY <1>1, <1>6 DEF ApiCall, CallPowerOn, CallPowerOff, CallPlay, CallPause, CallStop,
     CallSeek, Invoke, VideoThreadAction, PlayerReady, PlayerExit, vars
<1>7. CASE ThreadCheck \/ ThreadDequeue \/ PollStatus
  BY <1>2, <1>7 DEF ThreadCheck, ThreadDequeue, PollStatus
<1> QED
  BY <1>2, <1>3, <1>4, <1>5, <1>6, <1>7 DEF Next, VideoThread

\* Whatever faults happen, no player is started beside another one, and a STOP leaves
\* none behind.
THEOREM OnePlayerAtATime == Spec => OnePlayer
<1>1. PlayerKnown /\ [Next]_vars => [OnePlayerStep]_vars
  BY NextOnePlayer
<1> QED
  BY <1>1, InitTypeInv, NextTypeInv, InitPlayerKnown, NextPlayerKnown, PTL
     DEF Spec, OnePlayer, OnePlayerStep

LEMMA NextWork ==
  ASSUME TypeInv, PlayerKnown, [Next]_vars
  PROVE  Work' < Work \/ UNCHANGED <<main, queue, pc, op, loaded>> \/ ApiCall
<1> DEFINE C == Len(main.calls)
           Q == Len(queue)
           P == CASE pc = "lock" -> 0 [] pc = "check" -> 1 [] pc = "poll" -> 3 [] pc = "run" -> 4
<1>0. /\ main \in MainStates /\ main.calls \in Seq(Commands) /\ queue \in Seq(Commands)
      /\ C \in Nat /\ Q \in Nat /\ loaded \in BOOLEAN
      /\ pc \in {"check", "lock", "run", "poll"}
  BY DEF TypeInv, TypeOK, MainStates
<1>1. Work = 6 * C + 5 * Q + P /\ Work' = 6 * C' + 5 * Q' + P'
  BY DEF Work
<1>2. /\ pc = "lock" => P = 0
      /\ pc = "check" => P = 1
      /\ pc = "poll" => P = 3
      /\ pc = "run" => P = 4
      /\ pc' = "lock" => P' = 0
      /\ pc' = "check" => P' = 1
      /\ pc' = "poll" => P' = 3
      /\ pc' = pc => P' = P
      /\ pc' = "run" => P' = 4
  BY <1>0
<1>3. P \in Nat
  BY <1>0, <1>2
<1>4. CASE VideoThreadAction
  <2>1. main.calls # <<>> /\ main' = [main EXCEPT !.calls = Tail(@)] /\ pc' = pc
        /\ (queue' = queue \/ queue' = Append(queue, Head(main.calls)))
    BY <1>4 DEF VideoThreadAction
  <2>2. main'.calls = Tail(main.calls)
    BY <1>0, <2>1 DEF MainStates
  <2>3. C' = C - 1 /\ C >= 1
    BY <1>0, <2>1, <2>2, HeadTailProperties
  <2>4. Head(main.calls) \in Commands
    BY <1>0, <2>1, HeadTailProperties
  <2>5. Q' = Q \/ Q' = Q + 1
    BY <1>0, <2>1, <2>4, AppendProperties
  <2> HIDE DEF C, Q, P
  <2>6. Work' < Work
    BY <1>0, <1>1, <1>2, <1>3, <2>1, <2>3, <2>5
  <2> QED
    BY <2>6
<1>5. CASE ThreadDequeue
  <2>1. /\ queue # <<>> /\ queue' = Tail(queue) /\ main' = main
        /\ pc = "lock" /\ pc' = "run"
    BY <1>5 DEF ThreadDequeue, TypeInv, DequeueSafe
  <2>2. Q' = Q - 1 /\ C' = C
    BY <1>0, <2>1, HeadTailProperties
  <2> HIDE DEF C, Q, P
  <2>3. Work' < Work
    BY <1>0, <1>1, <1>2, <2>1, <2>2
  <2> QED
    BY <2>3
<1>6. CASE ThreadCheck \/ RunStop \/ RunToggle \/ RunPlay \/ PollStatus
  <2>1. C' = C /\ Q' = Q
    BY <1>6 DEF ThreadCheck, RunStop, RunToggle, RunPlay, PollStatus
  <2>2. \/ UNCHANGED <<main, queue, pc, op, loaded>>
        \/ pc = "check" /\ pc' = "lock"
        \/ pc = "run" /\ pc' \in {"check", "poll"}
        \/ pc = "poll" /\ pc' = "check"
    BY <1>0, <1>6 DEF ThreadCheck, RunStop, RunToggle, RunPlay, PollStatus, PlayerKnown,
       StatusSucceeds
  <2> HIDE DEF C, Q, P
  <2>3. UNCHANGED <<main, queue, pc, op, loaded>> \/ P' < P
    BY <1>2, <2>2
  <2>4. CASE P' < P
    <3>1. P' \in Nat
      BY <1>2, <1>3, <2>2
    <3>2. ASSUME NEW c \in Nat, NEW q \in Nat, NEW p \in Nat, NEW r \in Nat, r < p
          PROVE  6 * c + 5 * q + r < 6 * c + 5 * q + p
      BY <3>2
    <3>3. 6 * C + 5 * Q + P' < 6 * C + 5 * Q + P
      BY <1>0, <1>3, <2>4, <3>1, <3>2
    <3> QED
      BY <1>1, <2>1, <3>3
  <2> QED
    BY <2>3, <2>4
<1>7. CASE PlayerReady \/ PlayerExit \/ UNCHANGED vars
  BY <1>7 DEF PlayerReady, PlayerExit, vars
<1> QED
  BY <1>4, <1>5, <1>6, <1>7 DEF Next, VideoThread

\* The commands that were queued are each carried out once and left behind, in at most
\* as many steps as Work says, but for the wait for a player that was started.
THEOREM NothingIsRepeated == Spec => WorkShrinks
<1>1. TypeInv /\ PlayerKnown /\ [Next]_vars =>
        [Work' < Work \/ UNCHANGED <<main, queue, pc, op, loaded>> \/ ApiCall]_vars
  BY NextWork
<1> QED
  BY <1>1, InitTypeInv, NextTypeInv, InitPlayerKnown, NextPlayerKnown, PTL
     DEF Spec, WorkShrinks

=============================================================================
