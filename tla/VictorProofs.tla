---------------------------- MODULE VictorProofs ----------------------------
(***************************************************************************)
(* Theorems about the Victor emulation, for every disc, every disc type    *)
(* and every set of requests.  What is proved of the video component holds *)
(* of it inside the emulation and across power cuts, because a packet      *)
(* makes at most one call of the video API and a power cut is a new start; *)
(* and every packet is handled as the abstract deck says.                  *)
(***************************************************************************)
EXTENDS Victor, VideoScreenProofs

LEMMA Assumptions ==
  /\ Writable \in BOOLEAN
  /\ NewIds \subseteq 0 .. 255
  /\ StoredId \in 0 .. 63
  /\ \A p \in SeekParams : Chapter(p) \in ChapterArgs
  /\ 1 .. MaxChapter \subseteq ChapterArgs
  /\ ChapterArgs \subseteq Nat
  /\ MaxChapter \in Nat
<1>1. {Chapter(p) : p \in SeekParams} \cup 1 .. MaxChapter \subseteq ChapterArgs
  BY VictorAssumption
<1> QED
  BY <1>1, VictorAssumption, VideoAssumption

-----------------------------------------------------------------------------
(* The video component inside the emulation.                               *)

\* A handler that calls no function of the video API.
LEMMA NoCall ==
  ASSUME Invoke(main)
  PROVE  UNCHANGED vars
<1> QED
  BY DEF Invoke, vars

\* A handler that seeks, whatever the chapter.
LEMMA SeekIsVideoStep ==
  ASSUME NEW chapter, Invoke(SeekToChapter(main, chapter))
  PROVE  [Next]_vars
<1>1. CASE CanSeek(main, chapter)
  <2>1. chapter \in ChapterArgs
    BY <1>1, Assumptions DEF CanSeek
  <2> QED
    BY <2>1 DEF CallSeek, ApiCall, Next
<1>2. CASE ~CanSeek(main, chapter)
  <2>1. SeekToChapter(main, chapter) = main
    BY <1>2 DEF SeekToChapter
  <2> QED
    BY <2>1, NoCall
<1> QED
  BY <1>1, <1>2

LEMMA PacketIsVideoStep ==
  ASSUME NEW p \in Packets, HandlePacket(p) \/ IgnorePacket(p)
  PROVE  [Next]_vars
<1> DEFINE r == p.request
<1>1. CASE IgnorePacket(p)
  BY <1>1, NoCall DEF IgnorePacket
<1>2. CASE HandleMediaPacket(r)
  <2>1. CASE r.command = "seek" /\ AnswerSeek(Chapter(r.arg))
    BY <2>1, SeekIsVideoStep DEF AnswerSeek, Answer
  <2>2. CASE r.command = "previous" /\ AnswerSeek(PreviousChapter)
    BY <2>2, SeekIsVideoStep DEF AnswerSeek, Answer
  <2>3. CASE r.command = "next" /\ AnswerSeek(main.chapter + 1)
    BY <2>3, SeekIsVideoStep DEF AnswerSeek, Answer
  <2>4. CASE Answer(Pause(main), "OK", 0) \/ Answer(Play(main), "OK", 0)
               \/ Answer(Stop(main), "OK", 0)
    BY <2>4 DEF Answer, CallPause, CallPlay, CallStop, ApiCall, Next
  <2> QED
    BY <1>2, <2>1, <2>2, <2>3, <2>4 DEF HandleMediaPacket
<1>3. CASE HandlePowerPacket(r)
  <2>1. CASE Invoke(PowerOff(main)) \/ Invoke(PowerOn(main))
    BY <2>1 DEF CallPowerOff, CallPowerOn, ApiCall, Next
  <2>2. CASE Invoke(main)
    BY <2>2, NoCall
  <2> QED
    BY <1>3, <2>1, <2>2 DEF HandlePowerPacket, Answer
<1>4. CASE HandleUnknown(r) \/ HandleDevicePacket(r)
  BY <1>4, NoCall DEF HandleUnknown, HandleDevicePacket, Answer
<1> QED
  BY <1>1, <1>2, <1>3, <1>4 DEF HandlePacket

LEMMA VictorIsVideo ==
  ASSUME [VictorNext]_allVars
  PROVE  [Next]_vars \/ Init'
<1>1. CASE ReceivePacket
  BY <1>1, PacketIsVideoStep DEF ReceivePacket
<1>2. CASE Background
  BY <1>2 DEF Background, Next
<1>3. CASE WriteBack
  BY <1>3 DEF WriteBack
<1>4. CASE PowerCut
  BY <1>4 DEF PowerCut, Init
<1>5. CASE UNCHANGED allVars
  BY <1>5 DEF allVars
<1> QED
  BY <1>1, <1>2, <1>3, <1>4, <1>5 DEF VictorNext

\* Whatever packets come and whenever the power is cut, the screen ends up as the
\* transport state that the responses are computed from says, no opcode is
\* dropped and the queue is not overrun.
THEOREM VictorScreen ==
  ASSUME MaxChapter < ByteSize, 4 * MaxBurst <= QueueSize
  PROVE  VictorSpec => [](ScreenMatches /\ NothingDropped /\ QueueFits)
<1>1. VideoInv => ScreenMatches /\ NothingDropped /\ QueueFits
  BY InvScreenMatches, InvNothingDropped DEF VideoInv, QueueInv, QueueFits
<1>2. Init => VideoInv
  BY InitVideoInv
<1>3. VideoInv /\ [Next]_vars => VideoInv'
  BY NextVideoInv
<1>4. [VictorNext]_allVars => [Next]_vars \/ Init'
  BY VictorIsVideo
<1>5. VictorInit => Init
  BY DEF VictorInit
<1> QED
  BY <1>1, <1>2, <1>3, <1>4, <1>5, PTL DEF VictorSpec

\* To the transport a power cut is like being turned off.
LEMMA CutAllowed ==
  ASSUME TypeInv, Init'
  PROVE  [Promise!Next]_<<Mode, main.chapter>>
<1>1. Mode' = "off" /\ main'.chapter = 1
  BY DEF Init, Standby, Mode
<1>2. CASE Mode = "off"
  <2>1. main.chapter = 1
    BY <1>2 DEF TypeInv, TypeOK, Flags, Mode, MainStates
  <2> QED
    BY <1>1, <1>2, <2>1
<1>3. CASE Mode # "off"
  BY <1>1, <1>3 DEF Promise!Next, Promise!TurnOff
<1> QED
  BY <1>2, <1>3

LEMMA CutOnePlayer ==
  ASSUME Init'
  PROVE  OnePlayerStep
BY DEF Init, Standby, OnePlayerStep

\* No packet and no power cut takes the four fields of the video component out of the
\* modes of its transport, or lets a player be started beside another one.
THEOREM VictorVideo ==
  VictorSpec => /\ [](TypeOK /\ DequeueSafe)
                /\ ImplementsTransport
                /\ OnePlayer
<1> DEFINE Inv == TypeInv /\ PlayerKnown
<1>1. Inv => TypeOK /\ DequeueSafe
  BY DEF TypeInv
<1>2. VictorInit => Inv /\ Promise!Init
  BY InitTypeInv, InitPlayerKnown, InitTransport DEF VictorInit
<1>3. Init => Inv
  BY InitTypeInv, InitPlayerKnown
<1>4. Inv /\ [Next]_vars => Inv'
  BY NextTypeInv, NextPlayerKnown
<1>5. Inv /\ ([Next]_vars \/ Init') => [Promise!Next]_<<Mode, main.chapter>>
  BY NextAllowed, CutAllowed
<1>6. Inv /\ ([Next]_vars \/ Init') => [OnePlayerStep]_vars
  BY NextOnePlayer, CutOnePlayer
<1>7. [VictorNext]_allVars => [Next]_vars \/ Init'
  BY VictorIsVideo
<1> HIDE DEF Inv
<1> QED
  BY <1>1, <1>2, <1>3, <1>4, <1>5, <1>6, <1>7, PTL
     DEF VictorSpec, ImplementsTransport, Promise!Spec, OnePlayer, OnePlayerStep

-----------------------------------------------------------------------------
(* The emulation's own state.                                              *)

\* Inductive: what is not yet written back is the ID in use.
VictorInv ==
  /\ TypeInv
  /\ VictorTypeOK
  /\ disk # {file} => Writable /\ ParsedId(file) = jlip_id

LEMMA IdFacts ==
  /\ \A f \in 0 .. 63 : ParsedId(f) \in 1 .. 63
  /\ \A f \in 1 .. 63 : ParsedId(f) = f
  /\ ParsedId(0) = 33
<1> QED
  BY DEF ParsedId

LEMMA InitVictorInv == VictorInit => VictorInv
<1> SUFFICES ASSUME VictorInit PROVE VictorInv
  OBVIOUS
<1>1. TypeInv
  BY InitTypeInv DEF VictorInit
<1>2. VictorTypeOK
  BY Assumptions, IdFacts DEF VictorInit, VictorTypeOK, NoResponse
<1> QED
  BY <1>1, <1>2 DEF VictorInv, VictorInit

LEMMA ResponseType ==
  ASSUME VictorTypeOK, NEW status \in {"OK", "ERROR", "UNKNOWN_CMD"}, NEW data \in {0, 1}
  PROVE  CreatePacket(status, data)
           \in [id : 0 .. 63, status : {"OK", "ERROR", "UNKNOWN_CMD", "none"},
                data : {0, 1}]
<1> QED
  BY DEF VictorTypeOK, CreatePacket

\* The response to any packet that is handled.
LEMMA PacketResponse ==
  ASSUME VictorTypeOK, NEW p \in Packets, HandlePacket(p)
  PROVE  \E status \in {"OK", "ERROR", "UNKNOWN_CMD"}, data \in {0, 1} :
           response' = CreatePacket(status, data)
<1> USE DEF Answer
<1>1. CASE HandleMediaPacket(p.request)
  BY <1>1 DEF HandleMediaPacket, AnswerSeek
<1>2. CASE HandlePowerPacket(p.request)
  BY <1>2 DEF HandlePowerPacket
<1>3. CASE HandleUnknown(p.request)
  BY <1>3 DEF HandleUnknown
<1>4. CASE HandleDevicePacket(p.request)
  BY <1>4 DEF HandleDevicePacket
<1> QED
  BY <1>1, <1>2, <1>3, <1>4 DEF HandlePacket

\* Of the packets, only a request for another ID touches the ID and its file.
LEMMA IdUntouched ==
  ASSUME NEW p \in Packets, HandlePacket(p)
  PROVE  \/ UNCHANGED <<jlip_id, file, disk>>
         \/ /\ p.request.command = "set id"
            /\ InRange(p.request.arg[1])
            /\ Answer(main, "OK", 0)
            /\ jlip_id' = p.request.arg[1]
            /\ VictorSetJLIPID(p.request.arg[1])
<1> QED
  BY DEF HandlePacket, HandleDevicePacket

LEMMA NextVictorInv == VictorInv /\ [VictorNext]_allVars => VictorInv'
<1> SUFFICES ASSUME VictorInv, [VictorNext]_allVars PROVE VictorInv'
  OBVIOUS
<1> DEFINE FileOK == disk # {file} => Writable /\ ParsedId(file) = jlip_id
<1>0. TypeInv /\ VictorTypeOK /\ FileOK
  BY DEF VictorInv
<1>1. TypeInv'
  <2>1. Init' => TypeInv'
    BY InitTypeInv, PTL
  <2> QED
    BY <1>0, <2>1, VictorIsVideo, NextTypeInv
<1>2. VictorTypeOK' /\ FileOK'
  <2>1. CASE UNCHANGED victorVars
    BY <1>0, <2>1 DEF victorVars, VictorTypeOK
  <2>2. ASSUME NEW p \in Packets, HandlePacket(p)
        PROVE  VictorTypeOK' /\ FileOK'
    <3>1. request' \in Requests
      BY <2>2 DEF HandlePacket, Packets
    <3>2. response' \in [id : 0 .. 63, status : {"OK", "ERROR", "UNKNOWN_CMD", "none"},
                         data : {0, 1}]
      BY <1>0, <2>2, PacketResponse, ResponseType
    <3>3. CASE UNCHANGED <<jlip_id, file, disk>>
      BY <1>0, <3>1, <3>2, <3>3 DEF VictorTypeOK
    <3>4. ASSUME NEW n \in 1 .. 63, jlip_id' = n, VictorSetJLIPID(n)
          PROVE  VictorTypeOK' /\ FileOK'
      <4>0. disk \subseteq 0 .. 63 /\ file \in 0 .. 63 /\ file \in disk
            /\ n \in 0 .. 63 /\ 0 \in 0 .. 63
        BY <1>0 DEF VictorTypeOK
      <4>1. CASE Writable
        <5>1. file' = n /\ disk' = disk \cup {0, n} /\ ParsedId(file') = jlip_id'
          BY <3>4, <4>1, IdFacts DEF VictorSetJLIPID
        <5>2. disk' \subseteq 0 .. 63 /\ file' \in disk' /\ file' \in 0 .. 63
          BY <4>0, <5>1
        <5> QED
          BY <3>1, <3>2, <3>4, <4>1, <5>1, <5>2 DEF VictorTypeOK
      <4>2. CASE ~Writable
        <5>1. file' = file /\ disk' = disk
          BY <3>4, <4>2 DEF VictorSetJLIPID
        <5>2. disk = {file}
          BY <1>0, <4>2
        <5> QED
          BY <3>1, <3>2, <3>4, <4>0, <5>1, <5>2 DEF VictorTypeOK
      <4> QED
        BY <4>1, <4>2
    <3> QED
      BY <2>2, <3>3, <3>4, IdUntouched DEF InRange
  <2>3. ASSUME NEW p \in Packets, IgnorePacket(p)
        PROVE  VictorTypeOK' /\ FileOK'
    BY <1>0, <2>3 DEF IgnorePacket, VictorTypeOK, NoRequest, Damaged, NoResponse
  <2>4. CASE WriteBack
    BY <1>0, <2>4 DEF WriteBack, VictorTypeOK
  <2>5. CASE PowerCut
    <3>1. /\ file' \in disk /\ disk' = {file'} /\ jlip_id' = ParsedId(file')
          /\ request' = NoRequest /\ response' = NoResponse
      BY <2>5 DEF PowerCut
    <3>2. file' \in 0 .. 63
      BY <1>0, <3>1 DEF VictorTypeOK
    <3> QED
      BY <3>1, <3>2, IdFacts DEF VictorTypeOK, NoResponse
  <2> QED
    BY <2>1, <2>2, <2>3, <2>4, <2>5
       DEF VictorNext, ReceivePacket, Background, allVars, victorVars
<1> QED
  BY <1>1, <1>2 DEF VictorInv

\* The device always has an ID that a host can address, and its other variables
\* their types.
THEOREM VictorTypeCorrect == VictorSpec => []VictorTypeOK
<1>1. VictorInv => VictorTypeOK
  BY DEF VictorInv
<1> QED
  BY <1>1, InitVictorInv, NextVictorInv, PTL DEF VictorSpec

-----------------------------------------------------------------------------
(* Seeks.                                                                  *)

\* A seek that was acknowledged has brought the chapter its parameters stand for.
SeekInv ==
  request.command = "seek" /\ response.status = "OK" =>
    main.chapter = Chapter(request.arg)

LEMMA DigitsOfChapter ==
  ASSUME NEW c \in 1 .. 99
  PROVE  Number(HostParams(c)) = c
<1>1. c \div 10 \in 0 .. 9 /\ c % 10 \in 0 .. 9 /\ c = 10 * (c \div 10) + (c % 10)
  OBVIOUS
<1>2. \A q \in 0 .. 9 : q % 10 = q
  OBVIOUS
<1>3. (c \div 10) % 10 = c \div 10 /\ (c % 10) % 10 = c % 10 /\ 0 % 10 = 0
  BY <1>1, <1>2
<1>4. /\ HostParams(c)[1] = 0
      /\ HostParams(c)[2] = (c \div 10) % 10
      /\ HostParams(c)[3] = c % 10
  BY DEF HostParams
<1>5. Number(HostParams(c)) =
        (HostParams(c)[1] % 10) * 100 + (HostParams(c)[2] % 10) * 10
          + (HostParams(c)[3] % 10)
  BY DEF Number
<1> QED
  BY <1>1, <1>3, <1>4, <1>5

LEMMA SeekDone ==
  ASSUME TypeInv, NEW p \in Packets, HandlePacket(p)
  PROVE  SeekInv'
<1> SUFFICES ASSUME p.request.command = "seek", response'.status = "OK"
             PROVE  main'.chapter = Chapter(p.request.arg)
  BY DEF HandlePacket, SeekInv
<1> DEFINE c == Chapter(p.request.arg)
<1>1. Answer(SeekToChapter(main, c), IF CanSeek(main, c) THEN "OK" ELSE "ERROR", 0)
  BY DEF HandlePacket, HandleMediaPacket, HandlePowerPacket, HandleUnknown,
         HandleDevicePacket, AnswerSeek
<1> HIDE DEF c
<1>2. CanSeek(main, c)
  BY <1>1 DEF Answer, CreatePacket
<1>3. SeekToChapter(main, c).chapter = c
  <2>1. main \in MainStates /\ Flags(main)
    BY DEF TypeInv, TypeOK
  <2>2. c \in Nat
    BY <1>2, Assumptions DEF CanSeek
  <2> QED
    BY <1>2, <2>1, <2>2, SeekDoes
<1>4. main' = SeekToChapter(main, c)
  BY <1>1 DEF Answer, Invoke
<1> QED
  BY <1>3, <1>4 DEF c

LEMMA NextSeekInv ==
  ASSUME TypeInv, SeekInv, [VictorNext]_allVars
  PROVE  SeekInv'
<1>1. ASSUME main'.chapter = main.chapter, UNCHANGED victorVars
      PROVE  SeekInv'
  BY <1>1 DEF SeekInv, victorVars
<1>2. CASE ReceivePacket
  <2>1. \A p \in Packets : IgnorePacket(p) => SeekInv'
    BY DEF IgnorePacket, SeekInv, NoRequest, Damaged
  <2> QED
    BY <1>2, <2>1, SeekDone DEF ReceivePacket
<1>3. CASE Background
  <2>1. main'.chapter = main.chapter
    BY <1>3 DEF Background, VideoThreadAction, VideoThread, ThreadCheck, ThreadDequeue,
                RunStop, RunToggle, RunPlay, PollStatus, PlayerReady, PlayerExit,
                TypeInv, TypeOK, MainStates
  <2> QED
    BY <1>1, <1>3, <2>1 DEF Background
<1>4. CASE WriteBack
  BY <1>4 DEF WriteBack, vars, SeekInv
<1>5. CASE PowerCut
  BY <1>5 DEF PowerCut, SeekInv, NoRequest
<1>6. CASE UNCHANGED allVars
  BY <1>1, <1>6 DEF allVars, vars
<1> QED
  BY <1>2, <1>3, <1>4, <1>5, <1>6 DEF VictorNext

\* On a disc that is not a video CD, a seek that was acknowledged is the one the
\* host asked for: the digits that the host sends and the device reads are those of
\* the same chapter.
THEOREM SeeksHonoured ==
  ASSUME ~IsVCD
  PROVE  VictorSpec => []SeekHonoured
<1>1. VictorInit => VictorInv /\ SeekInv
  BY InitVictorInv DEF VictorInit, SeekInv, NoRequest
<1>2. VictorInv /\ SeekInv /\ [VictorNext]_allVars => (VictorInv /\ SeekInv)'
  BY NextVictorInv, NextSeekInv DEF VictorInv
<1>3. SeekInv => SeekHonoured
  <2>1. \A c \in 1 .. 99 : Chapter(HostParams(c)) = c
    BY DigitsOfChapter DEF Chapter
  <2> QED
    BY <2>1 DEF SeekInv, SeekHonoured
<1> QED
  BY <1>1, <1>2, <1>3, PTL DEF VictorSpec

-----------------------------------------------------------------------------
(* The deck.                                                               *)

LEMMA SeenPlain ==
  ASSUME NEW r, r.command \notin {"seek", "set id"}
  PROVE  Seen(r) = [command |-> r.command, arg |-> 0]
<1> QED
  BY DEF Seen

\* A handled seek is a seek of the deck, or refused as the deck does.
LEMMA SeekIsDeckSeek ==
  ASSUME TypeInv, NEW chapter \in Nat, AnswerSeek(chapter)
  PROVE  Device!SeekOrRefuse(chapter)
<1>1. main \in MainStates /\ Flags(main)
  BY DEF TypeInv, TypeOK
<1>2. Mode = ModeOf(main) /\ Mode' = ModeOf(main')
  BY DEF Mode, ModeOf
<1>3. main' = SeekToChapter(main, chapter)
      /\ response' = CreatePacket(IF CanSeek(main, chapter) THEN "OK" ELSE "ERROR", 0)
  BY DEF AnswerSeek, Answer, Invoke
<1>4. CASE CanSeek(main, chapter)
  <2>1. /\ Mode # "off" /\ chapter \in 1 .. MaxChapter /\ main'.chapter = chapter
        /\ Mode' = IF Mode = "paused" THEN "paused" ELSE "playing"
    BY <1>1, <1>2, <1>3, <1>4, SeekDoes
  <2>2. response' = CreatePacket("OK", 0)
    BY <1>3, <1>4
  <2> QED
    BY <2>1, <2>2 DEF Device!SeekOrRefuse, Device!SeekTo, Device!Says, CreatePacket
<1>5. CASE ~CanSeek(main, chapter)
  <2>1. (Mode = "off" \/ chapter \notin 1 .. MaxChapter) /\ main' = main
    BY <1>1, <1>2, <1>3, <1>5, SeekDoes
  <2>2. response' = CreatePacket("ERROR", 0) /\ Mode' = Mode
    BY <1>2, <1>3, <1>5, <2>1
  <2> QED
    BY <2>1, <2>2 DEF Device!SeekOrRefuse, Device!Same, Device!Says, CreatePacket
<1> QED
  BY <1>4, <1>5

LEMMA MediaIsDeckStep ==
  ASSUME TypeInv, NEW p \in Packets, HandleMediaPacket(p.request), request' = p.request
  PROVE  \/ Device!AskPause \/ Device!AskPlay \/ Device!AskStop
         \/ Device!AskSeek \/ Device!AskPrevious \/ Device!AskNext
<1> DEFINE r == p.request
<1>1. main \in MainStates /\ Flags(main)
  BY DEF TypeInv, TypeOK
<1>2. Mode = ModeOf(main) /\ Mode' = ModeOf(main')
  BY DEF Mode, ModeOf
<1>3. \A c : r.command = c /\ c \notin {"seek", "set id"} => Device!Does(c, 0)
  BY SeenPlain DEF Device!Does
<1>4. CASE r.command = "pause" /\ Answer(Pause(main), "OK", 0)
  <2>1. main' = Pause(main) /\ Device!Says("OK", 0) /\ Device!Does("pause", 0)
    BY <1>3, <1>4 DEF Answer, Invoke, CreatePacket, Device!Says
  <2> QED
    BY <1>1, <1>2, <2>1, PauseDoes DEF Device!AskPause, Device!Pause, Device!Same
<1>5. CASE r.command = "play" /\ Answer(Play(main), "OK", 0)
  <2>1. main' = Play(main) /\ Device!Says("OK", 0) /\ Device!Does("play", 0)
    BY <1>3, <1>5 DEF Answer, Invoke, CreatePacket, Device!Says
  <2> QED
    BY <1>1, <1>2, <2>1, PlayDoes DEF Device!AskPlay, Device!Play
<1>6. CASE r.command = "stop" /\ Answer(Stop(main), "OK", 0)
  <2>1. main' = Stop(main) /\ Device!Says("OK", 0) /\ Device!Does("stop", 0)
    BY <1>3, <1>6 DEF Answer, Invoke, CreatePacket, Device!Says
  <2> QED
    BY <1>1, <1>2, <2>1, StopDoes DEF Device!AskStop, Device!Stop, Device!Same
<1>7. CASE r.command = "seek" /\ AnswerSeek(Chapter(r.arg))
  <2>1. r.arg \in SeekParams
    BY <1>7 DEF Packets, Requests, Params, Plain
  <2>2. Chapter(r.arg) \in ChapterArgs /\ Chapter(r.arg) \in Nat
    BY <2>1, Assumptions
  <2>3. Device!Does("seek", Chapter(r.arg))
    BY <1>7 DEF Device!Does, Seen
  <2> QED
    BY <1>7, <2>2, <2>3, SeekIsDeckSeek DEF Device!AskSeek
<1>8. CASE r.command = "previous" /\ AnswerSeek(PreviousChapter)
  <2>1. main.chapter \in Nat \ {0} /\ (~main.playing_state => main.chapter = 1)
    BY <1>1, Assumptions DEF MainStates, Flags
  <2>2. Mode = "idle" => ~main.playing_state
    BY <1>1, <1>2, ModeFacts
  <2>3. ~main.playing_state => Mode \in {"off", "idle"}
    BY <1>1, <1>2, ModeFacts DEF Flags
  <2>4. PreviousChapter \in Nat
    BY <2>1 DEF PreviousChapter
  <2>5. Device!SeekOrRefuse(PreviousChapter)
    BY <1>8, <2>4, SeekIsDeckSeek
  <2>6. CASE Mode = "idle" \/ main.playing_state
    <3>1. PreviousChapter = IF Mode = "idle" THEN 1 ELSE main.chapter - 1
      BY <2>1, <2>2, <2>6 DEF PreviousChapter
    <3> QED
      BY <1>3, <1>8, <2>5, <3>1 DEF Device!AskPrevious
  <2>7. CASE Mode = "off"
    <3>1. Device!SeekOrRefuse(main.chapter - 1)
      BY <2>5, <2>7 DEF Device!SeekOrRefuse, Device!SeekTo
    <3> QED
      BY <1>3, <1>8, <2>7, <3>1 DEF Device!AskPrevious
  <2> QED
    BY <2>3, <2>6, <2>7
<1>9. CASE r.command = "next" /\ AnswerSeek(main.chapter + 1)
  <2>1. main.chapter + 1 \in Nat
    BY <1>1, Assumptions DEF MainStates
  <2> QED
    BY <1>3, <1>9, <2>1, SeekIsDeckSeek DEF Device!AskNext
<1> QED
  BY <1>4, <1>5, <1>6, <1>7, <1>8, <1>9 DEF HandleMediaPacket

LEMMA PowerIsDeckStep ==
  ASSUME TypeInv, NEW p \in Packets, HandlePowerPacket(p.request), request' = p.request
  PROVE  Device!AskOn \/ Device!AskOff \/ Device!AskPowerStatus
<1> DEFINE r == p.request
<1>1. main \in MainStates /\ Flags(main)
  BY DEF TypeInv, TypeOK
<1>2. Mode = ModeOf(main) /\ Mode' = ModeOf(main') /\ (Mode = "off" <=> ~main.power_state)
  BY <1>1, ModeFacts DEF Mode, ModeOf
<1>3. \A c : r.command = c /\ c \notin {"seek", "set id"} => Device!Does(c, 0)
  BY SeenPlain DEF Device!Does
<1>4. \A next, status, data : Answer(next, status, data)
                              => main' = next /\ Device!Says(status, data)
  BY DEF Answer, Invoke, CreatePacket, Device!Says
<1>5. CASE r.command = "turn off" /\ main.power_state /\ Answer(PowerOff(main), "OK", 0)
  <2>1. main' = PowerOff(main) /\ Device!Says("OK", 0) /\ Device!Does("turn off", 0)
    BY <1>3, <1>4, <1>5
  <2>2. Mode # "off" /\ Mode' = "off" /\ main'.chapter = 1
    BY <1>1, <1>2, <1>5, <2>1, PowerOffDoes
  <2> QED
    BY <2>1, <2>2 DEF Device!AskOff, Device!TurnOff
<1>6. CASE r.command = "turn off" /\ ~main.power_state /\ Answer(main, "ERROR", 0)
  BY <1>2, <1>3, <1>4, <1>6 DEF Device!AskOff, Device!Same
<1>7. CASE r.command = "turn on" /\ ~main.power_state /\ Answer(PowerOn(main), "OK", 0)
  BY <1>1, <1>2, <1>3, <1>4, <1>7, PowerOnDoes DEF Device!AskOn, Device!TurnOn
<1>8. CASE r.command = "turn on" /\ main.power_state /\ Answer(main, "ERROR", 0)
  BY <1>2, <1>3, <1>4, <1>8 DEF Device!AskOn, Device!Same
<1>9. CASE /\ r.command = "power status"
           /\ Answer(main, "OK", IF main.power_state THEN 1 ELSE 0)
  <2>1. (IF main.power_state THEN 1 ELSE 0) = (IF Mode = "off" THEN 0 ELSE 1)
    BY <1>2
  <2> QED
    BY <1>2, <1>3, <1>4, <1>9, <2>1 DEF Device!AskPowerStatus, Device!Same
<1> QED
  BY <1>5, <1>6, <1>7, <1>8, <1>9 DEF HandlePowerPacket

\* The IDs that writing a new ID adds to those the device may come back with.
LEMMA OnReturnGrows ==
  ASSUME NEW n \in 1 .. 63, VictorSetJLIPID(n)
  PROVE  {ParsedId(f) : f \in disk}'
           = IF Writable THEN {ParsedId(f) : f \in disk} \cup {33, n}
             ELSE {ParsedId(f) : f \in disk}
<1>1. ParsedId(0) = 33 /\ ParsedId(n) = n
  BY IdFacts
<1>2. CASE Writable
  <2>1. disk' = disk \cup {0, n}
    BY <1>2 DEF VictorSetJLIPID
  <2> QED
    BY <1>1, <1>2, <2>1
<1>3. CASE ~Writable
  BY <1>3 DEF VictorSetJLIPID
<1> QED
  BY <1>2, <1>3, Assumptions

\* The element of a tuple of one.
LEMMA Single ==
  ASSUME NEW k
  PROVE  <<k>>[1] = k
<1> QED
  OBVIOUS

LEMMA SetIdIsDeckStep ==
  ASSUME NEW p \in Packets, p.request.command = "set id",
         HandleDevicePacket(p.request), request' = p.request
  PROVE  Device!AskSetId
<1> DEFINE n == p.request.arg[1]
<1>1. n \in NewIds
  <2>1. p.request \in Requests
    BY DEF Packets
  <2>2. p.request.arg \in {<<k>> : k \in NewIds}
    BY <2>1 DEF Requests, Params, Plain
  <2> HIDE DEF n
  <2>3. \E k \in NewIds : p.request.arg = <<k>>
    BY <2>2, Zenon
  <2> QED
    BY <2>3, Single DEF n
<1>2. Device!Does("set id", n)
  BY DEF Device!Does, Seen
<1>3. \A status : Answer(main, status, 0) => Device!Same /\ Device!Says(status, 0)
  BY DEF Answer, Invoke, CreatePacket, Device!Says, Device!Same, Mode
<1> HIDE DEF n
<1>4. CASE /\ InRange(n) /\ Answer(main, "OK", 0)
           /\ jlip_id' = n /\ VictorSetJLIPID(n)
  <2>1. n \in 1 .. 63
    BY <1>4 DEF InRange
  <2> QED
    BY <1>1, <1>2, <1>3, <1>4, <2>1, OnReturnGrows DEF Device!AskSetId
<1>5. CASE /\ ~InRange(n) /\ Answer(main, "ERROR", 0)
           /\ UNCHANGED <<jlip_id, file, disk>>
  BY <1>1, <1>2, <1>3, <1>5 DEF Device!AskSetId, InRange
<1> QED
  BY <1>4, <1>5 DEF HandleDevicePacket, n

LEMMA PacketIsDeckStep ==
  ASSUME TypeInv, NEW p \in Packets, HandlePacket(p) \/ IgnorePacket(p)
  PROVE  Device!DeckNext
<1> DEFINE r == p.request
<1> USE DEF Device!DeckNext, Device!AskTransport
<1>1. \A c : r.command = c /\ c \notin {"seek", "set id"} /\ request' = r
              => Device!Does(c, 0)
  BY SeenPlain DEF Device!Does
<1>2. \A status : Answer(main, status, 0) => Device!Same /\ Device!Says(status, 0)
  BY DEF Answer, Invoke, CreatePacket, Device!Says, Device!Same, Mode
<1>3. UNCHANGED <<jlip_id, file, disk>> =>
        UNCHANGED <<jlip_id, {ParsedId(f) : f \in disk}>>
  OBVIOUS
<1>4. CASE IgnorePacket(p)
  <2>1. response' = Device!NoAnswer /\ UNCHANGED <<jlip_id, file, disk, Mode, main.chapter>>
    BY <1>4 DEF IgnorePacket, NoResponse, Invoke, Mode, Device!NoAnswer
  <2>2. CASE p.id = jlip_id
    <3>1. Device!Does("damaged", 0)
      BY <1>4, <2>2 DEF IgnorePacket, Damaged, Seen, Device!Does
    <3> QED
      BY <1>3, <2>1, <3>1 DEF Device!AskDamaged
  <2>3. CASE p.id # jlip_id
    <3>1. Device!Does("none", 0)
      BY <1>4, <2>3 DEF IgnorePacket, NoRequest, Seen, Device!Does
    <3> QED
      BY <1>3, <2>1, <3>1 DEF Device!Silence
  <2> QED
    BY <2>2, <2>3
<1>5. ASSUME HandlePacket(p), UNCHANGED <<jlip_id, file, disk>>,
             HandleMediaPacket(r) \/ HandlePowerPacket(r) \/ HandleUnknown(r)
      PROVE  Device!DeckNext
  <2>1. CASE HandleMediaPacket(r)
    BY <1>3, <1>5, <2>1, MediaIsDeckStep DEF HandlePacket
  <2>2. CASE HandlePowerPacket(r)
    BY <1>3, <1>5, <2>2, PowerIsDeckStep DEF HandlePacket
  <2>3. CASE HandleUnknown(r)
    BY <1>1, <1>2, <1>3, <1>5, <2>3 DEF HandlePacket, HandleUnknown, Device!AskUnknown
  <2> QED
    BY <1>5, <2>1, <2>2, <2>3
<1>6. CASE HandlePacket(p) /\ HandleDevicePacket(r) /\ r.command = "set id"
  BY <1>6, SetIdIsDeckStep DEF HandlePacket
<1>7. CASE HandlePacket(p) /\ HandleDevicePacket(r) /\ r.command # "set id"
  <2>1. /\ r.command = "query" /\ Answer(main, "OK", 0)
        /\ UNCHANGED <<jlip_id, file, disk>> /\ request' = r
    BY <1>7 DEF HandlePacket, HandleDevicePacket
  <2> QED
    BY <1>1, <1>2, <1>3, <2>1 DEF Device!AskQuery
<1> QED
  BY <1>4, <1>5, <1>6, <1>7 DEF HandlePacket

\* The other steps of the emulation.
LEMMA OtherIsDeckStep ==
  ASSUME VictorInv, Background \/ WriteBack \/ PowerCut \/ UNCHANGED allVars
  PROVE  [Device!DeckNext]_(Device!deckVars)
<1> USE DEF Device!DeckNext, Device!deckVars
<1>1. CASE Background \/ UNCHANGED allVars
  <2>1. Mode' = Mode /\ main'.chapter = main.chapter
    BY <1>1, OthersInvisible DEF Background, allVars, VictorInv
  <2>2. UNCHANGED victorVars
    BY <1>1 DEF Background, allVars
  <2> QED
    BY <2>1, <2>2 DEF victorVars
<1>2. CASE WriteBack
  <2>1. ParsedId(file) = jlip_id
    BY <1>2 DEF VictorInv, WriteBack
  <2>2. {ParsedId(f) : f \in disk}' = {jlip_id}
    BY <1>2, <2>1 DEF WriteBack
  <2>3. UNCHANGED <<Mode, main.chapter, jlip_id, Seen(request), response>>
    BY <1>2 DEF WriteBack, vars, Mode
  <2> QED
    BY <2>2, <2>3 DEF Device!Settle
<1>3. CASE PowerCut
  <2>1. /\ file' \in disk /\ disk' = {file'} /\ jlip_id' = ParsedId(file')
        /\ main' = Standby /\ request' = NoRequest /\ response' = NoResponse
    BY <1>3 DEF PowerCut
  <2>2. Mode' = "off" /\ main'.chapter = 1
    BY <2>1 DEF Mode, Standby
  <2>3. jlip_id' \in {ParsedId(f) : f \in disk}
    BY <2>1
  <2>4. {ParsedId(f) : f \in disk}' = {jlip_id'}
    BY <2>1
  <2>5. Device!Does("none", 0)
    BY <2>1 DEF NoRequest, Seen, Device!Does
  <2> QED
    BY <2>1, <2>2, <2>3, <2>4, <2>5 DEF NoResponse, Device!NoAnswer, Device!PowerCut
<1> QED
  BY <1>1, <1>2, <1>3

\* The emulation implements module Deck: each request does to the transport what Deck
\* says and gets the answer it says, on every disc, in every order, with power cuts in
\* between.  Deck differs from the documents for a pause of an idle device and for a
\* wrong checksum, so this theorem does not say that those two are as documented.
THEOREM DeckImplemented == VictorSpec => ImplementsDeck
<1>1. VictorInit => Device!DeckInit
  <2> SUFFICES ASSUME VictorInit PROVE Device!DeckInit
    OBVIOUS
  <2>1. Mode = "off" /\ main.chapter = 1
    BY DEF VictorInit, Init, Standby, Mode
  <2>2. {ParsedId(f) : f \in disk} = {jlip_id}
    BY DEF VictorInit
  <2>3. Seen(request) = [command |-> "none", arg |-> 0] /\ response = NoResponse
    BY DEF VictorInit, NoRequest, Seen
  <2> QED
    BY <2>1, <2>2, <2>3 DEF Device!DeckInit, Device!Init, Device!NoAnswer, NoResponse
<1>2. VictorInv /\ [VictorNext]_allVars => [Device!DeckNext]_(Device!deckVars)
  BY PacketIsDeckStep, OtherIsDeckStep DEF VictorInv, VictorNext, ReceivePacket
<1> QED
  BY <1>1, <1>2, InitVictorInv, NextVictorInv, PTL
     DEF VictorSpec, ImplementsDeck, Device!DeckSpec

=============================================================================
