------------------------------- MODULE Victor -------------------------------
(***************************************************************************)
(* The Victor XV-D701 emulation (Victor_XV-D701.cpp) on top of the video   *)
(* component: what happens when the last byte of a packet has come in.     *)
(* How packets are cut out of the byte stream is not part of this module.  *)
(*                                                                         *)
(* A request is named by its command, with its parameters if it has some;  *)
(* "query" stands for the six requests with a constant response, "unknown" *)
(* for every command that no handler knows.  The handlers run on the main  *)
(* thread like the video API they call; the response they return is        *)
(* written to the line when the calls of that API have been made.          *)
(***************************************************************************)
EXTENDS Video

CONSTANTS
  IsVCD,       \* dvd_type = VICTOR_VCD
  Ids,         \* the IDs that packets on the line are addressed to
  NewIds,      \* the IDs in requests to change the ID
  SeekParams,  \* the parameters of seek requests: three bytes
  StoredId,    \* the number in the file jlip_id at first; 0 if there is none
  Writable     \* the file jlip_id can be opened for writing

VARIABLES
  jlip_id,     \* victor_state.jlip_id
  file,        \* the number in the file jlip_id, 0 if none
  disk,        \* what the file may hold after a power cut
  request,     \* the request in the packet that was handled last
  response     \* victor_state.response

victorVars == <<jlip_id, file, disk, request, response>>

allVars == <<vars, victorVars>>

-----------------------------------------------------------------------------
(* Packets and responses.                                                  *)

Params ==
  [command : {"seek"}, arg : SeekParams]
    \cup [command : {"set id"}, arg : {<<n>> : n \in NewIds}]

Plain ==
  {"pause", "play", "stop", "previous", "next", "turn off", "turn on",
   "power status", "query", "unknown"}

Requests == Params \cup [command : Plain, arg : {<<>>}]

NoRequest == [command |-> "none", arg |-> <<>>]

\* A packet to this device with a wrong checksum: what it asks for does not matter.
Damaged == [command |-> "damaged", arg |-> <<>>]

\* good: the checksum is right.
Packets == [good : BOOLEAN, id : Ids, request : Requests]

NoResponse == [id |-> 0, status |-> "none", data |-> 0]

CreatePacket(status, data) == [id |-> jlip_id, status |-> status, data |-> data]

Number(p) == (p[1] % 10) * 100 + (p[2] % 10) * 10 + (p[3] % 10)

\* Slip: the disc type is not looked at.
ChapterOfAnyDisc(p) == Number(p) \div 10

\* The chapter a seek request asks for.  On a video CD the last digit is dropped.
Chapter(p) == IF IsVCD THEN Number(p) \div 10 ELSE Number(p)

\* VictorGetJLIPID: what a file stands for.
ParsedId(f) == IF f = 0 THEN 33 ELSE f

ASSUME VictorAssumption ==
  /\ IsVCD \in BOOLEAN /\ Writable \in BOOLEAN
  /\ Ids \subseteq 0 .. 255
  /\ NewIds \subseteq 0 .. 255
  /\ SeekParams \subseteq (0 .. 255) \X (0 .. 255) \X (0 .. 255)
  /\ StoredId \in 0 .. 63
  /\ {Chapter(p) : p \in SeekParams} \cup 1 .. MaxChapter \subseteq ChapterArgs

-----------------------------------------------------------------------------
(* The handlers.  Each creates a response and calls the video API once.    *)

Answer(next, status, data) ==
  /\ Invoke(next)
  /\ response' = CreatePacket(status, data)

\* Seek, and say whether that was possible.
AnswerSeek(chapter) ==
  Answer(SeekToChapter(main, chapter),
         IF CanSeek(main, chapter) THEN "OK" ELSE "ERROR", 0)

\* Slip: the special case of an idle device is forgotten.
PlainPrevious == main.chapter - 1

\* The chapter before this one; from idle, the first.
PreviousChapter ==
  IF ~main.playing_state /\ main.chapter = 1 THEN 1 ELSE main.chapter - 1

HandleMediaPacket(r) ==
  \/ r.command = "pause" /\ Answer(Pause(main), "OK", 0)
  \/ r.command = "play" /\ Answer(Play(main), "OK", 0)
  \/ r.command = "stop" /\ Answer(Stop(main), "OK", 0)
  \/ r.command = "seek" /\ AnswerSeek(Chapter(r.arg))
  \/ r.command = "previous" /\ AnswerSeek(PreviousChapter)
  \/ r.command = "next" /\ AnswerSeek(main.chapter + 1)

HandlePowerPacket(r) ==
  \/ r.command = "turn off" /\ main.power_state /\ Answer(PowerOff(main), "OK", 0)
  \/ r.command = "turn off" /\ ~main.power_state /\ Answer(main, "ERROR", 0)
  \/ r.command = "turn on" /\ ~main.power_state /\ Answer(PowerOn(main), "OK", 0)
  \/ r.command = "turn on" /\ main.power_state /\ Answer(main, "ERROR", 0)
  \/ r.command = "power status"
       /\ Answer(main, "OK", IF main.power_state THEN 1 ELSE 0)

\* Slip: the bound is one too high.
UpTo64(id) == id \in 1 .. 64

InRange(id) == id \in 1 .. 63

\* The file is truncated, written and closed; all of that reaches the disk later.
VictorSetJLIPID(id) ==
  IF Writable THEN file' = id /\ disk' = disk \cup {0, id}
              ELSE UNCHANGED <<file, disk>>

HandleDevicePacket(r) ==
  \/ /\ r.command = "set id"
     /\ InRange(r.arg[1])
     /\ Answer(main, "OK", 0)
     /\ jlip_id' = r.arg[1]
     /\ VictorSetJLIPID(r.arg[1])
  \/ /\ r.command = "set id"
     /\ ~InRange(r.arg[1])
     /\ Answer(main, "ERROR", 0)
     /\ UNCHANGED <<jlip_id, file, disk>>
  \/ /\ r.command = "query"
     /\ Answer(main, "OK", 0)
     /\ UNCHANGED <<jlip_id, file, disk>>

HandleUnknown(r) == r.command = "unknown" /\ Answer(main, "UNKNOWN_CMD", 0)

\* A packet for this device is answered.
HandlePacket(p) ==
  /\ p.good
  /\ p.id = jlip_id
  /\ request' = p.request
  /\ \/ /\ \/ HandleMediaPacket(p.request)
           \/ HandlePowerPacket(p.request)
           \/ HandleUnknown(p.request)
        /\ UNCHANGED <<jlip_id, file, disk>>
     \/ HandleDevicePacket(p.request)

\* A packet that is damaged or for another device leaves no response.
IgnorePacket(p) ==
  /\ ~p.good \/ p.id # jlip_id
  /\ Invoke(main)
  /\ request' = IF p.id = jlip_id THEN Damaged ELSE NoRequest
  /\ response' = NoResponse
  /\ UNCHANGED <<jlip_id, file, disk>>

ReceivePacket == \E p \in Packets : HandlePacket(p) \/ IgnorePacket(p)

-----------------------------------------------------------------------------
(* The rest of the program, and its environment.                           *)

VictorInit ==
  /\ Init
  /\ jlip_id = ParsedId(StoredId)
  /\ file = StoredId
  /\ disk = {StoredId}
  /\ request = NoRequest
  /\ response = NoResponse

Background ==
  /\ VideoThreadAction \/ VideoThread \/ PlayerReady \/ PlayerExit
  /\ UNCHANGED victorVars

\* The operating system writes the file back.
WriteBack ==
  /\ disk # {file}
  /\ disk' = {file}
  /\ UNCHANGED <<vars, jlip_id, file, request, response>>

\* The power is cut and comes back, and the program starts again.
PowerCut ==
  /\ ~overflow
  /\ main' = Standby
  /\ queue' = <<>>
  /\ overflow' = FALSE
  /\ pc' = "check"
  /\ op' = Command("STOP", 0)
  /\ loaded' = FALSE
  /\ player' = NoPlayer
  /\ burst' = 0
  /\ file' \in disk
  /\ disk' = {file'}
  /\ jlip_id' = ParsedId(file')
  /\ request' = NoRequest
  /\ response' = NoResponse

VictorNext == ReceivePacket \/ Background \/ WriteBack \/ PowerCut

VictorSpec == VictorInit /\ [][VictorNext]_allVars

\* As in FairSpec; no packet has to come and nothing has to be written back.
VictorFairSpec ==
  /\ VictorSpec
  /\ WF_allVars(VideoThreadAction /\ UNCHANGED victorVars)
  /\ WF_allVars(VideoThread /\ UNCHANGED victorVars)
  /\ WF_allVars(PlayerReady /\ UNCHANGED victorVars)

-----------------------------------------------------------------------------
(* Properties.                                                             *)

\* Every variable stays in its type; above all the device keeps an ID that a
\* host can address, whatever it was asked to take and whatever a power cut left.
VictorTypeOK ==
  /\ jlip_id \in 1 .. 63
  /\ file \in 0 .. 63
  /\ disk \subseteq 0 .. 63 /\ file \in disk
  /\ request \in Requests \cup {NoRequest, Damaged}
  /\ response \in [id : 0 .. 63, status : {"OK", "ERROR", "UNKNOWN_CMD", "none"},
                   data : {0, 1}]

\* What the deck sees of a request: a seek asks for a chapter.
Seen(r) ==
  [command |-> r.command,
   arg |-> IF r.command = "seek" THEN Chapter(r.arg)
           ELSE IF r.command = "set id" THEN r.arg[1] ELSE 0]

Device == INSTANCE Deck WITH
  LastChapter <- MaxChapter, DefaultId <- 33, Lasting <- Writable,
  mode <- Mode, track <- main.chapter, id <- jlip_id,
  onReturn <- {ParsedId(f) : f \in disk},
  request <- Seen(request), answer <- response

\* Every command does to the transport, and is answered with, what module Deck says
\* of it; a power cut leaves one of the IDs it may leave.  Deck follows the documents
\* where they agree with the code, and the code in the two points where they do not
\* (PauseStartsPaused and DamagedAnswered).
ImplementsDeck == Device!DeckSpec

\* The parameters that JLIPTest sends for a chapter.
HostParams(c) == <<0, (c \div 10) % 10, c % 10>>

\* The seek that was acknowledged is the one the host asked for
\* (utils/JLIPTest.cpp, SeekToChapter).  This is true of a DVD only: on a video CD
\* the device drops the last digit, and the host's chapter 12 is chapter 1.
SeekHonoured ==
  request.command = "seek" /\ response.status = "OK" =>
    \A c \in 1 .. 99 : request.arg = HostParams(c) => main.chapter = c

\* Pausing an idle device queues up chapter 1 and starts paused
\* (utils/JLIPTest.cpp, the comment on Pause).
PauseStartsPaused ==
  request.command = "pause" /\ response.status = "OK" => Mode \in {"off", "paused"}

\* A command with a wrong checksum gets a response ("Proper responses are returned
\* for recognized and unrecognized commands as well as commands with bad CRC",
\* README.md).
DamagedAnswered == request.command = "damaged" => response.status # "none"

\* A chapter that the device said it would play comes up, unless another command
\* or a power cut takes its place: hosts need not fall silent for that.
AcknowledgedShown ==
  \A c \in 1 .. MaxChapter :
    Showing /\ main.chapter = c
      ~> \/ player.phase = "playing" /\ player.chapter = c
         \/ ~(Showing /\ main.chapter = c)

=============================================================================
