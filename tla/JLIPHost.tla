------------------------------ MODULE JLIPHost ------------------------------
(***************************************************************************)
(* The host program utils/JLIPTest.cpp and its serial line to a device of  *)
(* module Deck.  A run of the program empties the line (PurgeComm), looks  *)
(* for the device's ID if it was given none, and sends the requests of one *)
(* command.  For each it writes a packet, waits for WAIT(), reads ONCE, at *)
(* most one packet and whatever has arrived of it by then, and judges what *)
(* it read; the ID and the command in an answer are not looked at.         *)
(*                                                                         *)
(* What was under way when the next request is written stays under way:    *)
(* "current" marks what belongs to the request written last.  The device's *)
(* side reads and writes with the same functions (Serial.cpp).             *)
(***************************************************************************)
EXTENDS Deck, Sequences, SequencesExt

CONSTANTS
  LastProbe,   \* the highest ID that is probed, 63
  IdArgs,      \* the IDs the program is started with; out of range for probing
  Scripts,     \* the requests of the commands it is started with
  AnswerLen,   \* bytes of an answer, PACKET_LEN
  StatusAt,    \* the byte with the status; the preamble is in front of it
  Delay,       \* how long an answer takes: "short", it has arrived when WAIT() is
               \* over; "medium", it begins within WAIT() and the time limit of the
               \* read; "long", it takes any time
  LineFaults   \* which faults happen: "lost byte", "short write", "power cut", and
               \* a checksum that fits by "chance"

VARIABLES
  phase,     \* where the host is
  probing,   \* it is looking for the device's ID
  target,    \* the ID it talks to
  todo,      \* the requests of the command that are still to be made
  result,    \* the request that was made last, and what became of it
  toDevice,  \* requests on their way
  toHost,    \* bytes of answers on their way, then in the input buffer
  arrived,   \* how many of them are in the input buffer
  handled    \* the status with which the device answered the current request

hostVars == <<phase, probing, target, todo, result>>
lineVars == <<toDevice, toHost, arrived>>
jlipVars == <<deckVars, hostVars, lineVars, handled>>

-----------------------------------------------------------------------------
(* The functions for the single requests, each a request with an argument. *)

NoArg(command) == [command |-> command, arg |-> 0]

NoOp == NoArg("no op")

DeviceName == <<NoArg("name 1"), NoArg("name 2")>>

\* Slip: the digits are sent for a count from zero.
ChapterFromZero(chapter) == [command |-> "seek", arg |-> (chapter - 1) % 100]

\* Two digits are sent.
SeekToChapter(chapter) ==
  [command |-> "seek", arg |-> 10 * ((chapter \div 10) % 10) + (chapter % 10)]

SetID(newid) == [command |-> "set id", arg |-> newid % 64]

DeviceQueries ==
  {"no op", "machine code", "device code", "max baud rate", "name 1", "name 2"}

DriveCommands == {"eject", "insert", "disk status", "disk chapters", "disk time"}

\* CreatePacket: what a request is to the device.
CreatePacket(r) ==
  CASE r.command = "seek" -> SeekToChapter(r.arg)
    [] r.command = "set id" -> SetID(r.arg)
    [] r.command \in DeviceQueries -> NoArg("query")
    [] r.command \in DriveCommands -> NoArg("unknown")
    [] OTHER -> r

\* The commands status and diskstatus make several requests.
Status ==
  DeviceName \o <<NoArg("max baud rate"), NoArg("power status"),
                  NoArg("machine code"), NoArg("device code")>>

DiskStatus ==
  <<NoArg("disk status"), NoArg("disk chapters"), NoArg("disk time")>>

\* The request under way.
Request == IF probing THEN NoOp ELSE Head(todo)

-----------------------------------------------------------------------------
(* Reading and judging.                                                    *)

None == [to |-> 0, command |-> "none", arg |-> 0, status |-> "none", mine |-> TRUE]

Outcome(status, mine) ==
  [to |-> target, command |-> Request.command, arg |-> Request.arg,
   status |-> status, mine |-> mine]

Bad == Outcome("BAD", TRUE)

\* GetPacketStatus.  An answer that is whole is taken for what it says; behind one
\* that is not, the buffer holds what malloc found there: the checksum may fit by
\* chance, if preamble and status are in place.
GetPacketStatus(got) ==
  LET whole == Len(got) = AnswerLen /\ \A i \in 1 .. AnswerLen : got[i].at = i
      begun == Len(got) >= StatusAt /\ \A i \in 1 .. StatusAt : got[i].at = i
      taken == {Outcome(got[StatusAt].status, got[StatusAt].current)}
  IN IF whole THEN taken
     ELSE IF begun /\ "chance" \in LineFaults THEN taken \cup {Bad} ELSE {Bad}

\* Nothing is on its way to the host, nor will be.
Quiet == toDevice = <<>> /\ toHost = <<>>

\* What is under way when the next request is written.
Stale(items) == [i \in DOMAIN items |-> [items[i] EXCEPT !.current = FALSE]]

Least(a, b) == IF a < b THEN a ELSE b

ASSUME HostAssumption ==
  /\ LastProbe \in 1 .. 63
  /\ IdArgs \subseteq Nat
  /\ \A s \in Scripts : s \in Seq([command : STRING, arg : Nat]) /\ s # <<>>
  /\ AnswerLen \in Nat /\ StatusAt \in 2 .. AnswerLen - 1
  /\ Delay \in {"short", "medium", "long"}

-----------------------------------------------------------------------------
(* The host.                                                               *)

\* Slip: the line is not emptied.
StartAtOnce ==
  /\ phase = "idle"
  /\ phase' = "ready"
  /\ \E i \in IdArgs, s \in Scripts :
       /\ todo' = s
       /\ probing' = (i \notin 1 .. 63)
       /\ target' = IF i \in 1 .. 63 THEN i ELSE 1
  /\ UNCHANGED result

Start ==
  /\ phase = "idle"
  /\ phase' = "purging"
  /\ target' \in IdArgs
  /\ todo' \in Scripts
  /\ UNCHANGED <<probing, result>>

\* PurgeComm reads what there is until nothing has come for WAIT_TIME.
PurgeComm ==
  /\ phase = "purging"
  /\ arrived > 0
  /\ toHost' = SubSeq(toHost, arrived + 1, Len(toHost))
  /\ arrived' = 0
  /\ UNCHANGED <<hostVars, toDevice>>

Purged ==
  /\ phase = "purging"
  /\ arrived = 0
  /\ Delay = "long" \/ Quiet
  /\ phase' = "ready"
  /\ probing' = (target \notin 1 .. 63)
  /\ target' = IF target \in 1 .. 63 THEN target ELSE 1
  /\ UNCHANGED <<todo, result, lineVars>>

\* The result of the host's WriteSerial is not looked at, and the device does not
\* recognise a packet that it gets in part.  (The packet after it is recognised
\* whatever is left of this one, see Recognised in JLIPFraming; that the rest and
\* the start of the next do not make a third is assumed, see Aligned there.)
Write ==
  /\ phase = "ready"
  /\ phase' = "waiting"
  /\ \/ toDevice' = Append(Stale(toDevice),
          [to |-> target, request |-> CreatePacket(Request), current |-> TRUE])
     \/ "short write" \in LineFaults /\ toDevice' = Stale(toDevice)
  /\ toHost' = Stale(toHost)
  /\ handled' = "none"
  /\ UNCHANGED <<probing, target, todo, result, arrived>>

\* Slip: the host does not wait.
NoWait == phase = "waiting" /\ phase' = "reading"

\* WAIT() is over.
WaitOver ==
  /\ phase = "waiting"
  /\ Delay = "short" => toDevice = <<>> /\ arrived = Len(toHost)
  /\ phase' = "reading"

\* The probe found a device: its ID is used for the command.
ProbeFound ==
  /\ phase' = "ready" /\ probing' = FALSE
  /\ UNCHANGED <<target, todo>>

\* Slip: one ID too many is tried.
ProbeOneMore ==
  /\ target <= LastProbe
  /\ phase' = "ready" /\ target' = target + 1
  /\ UNCHANGED <<probing, todo>>

\* Slip: an ID that gave no answer is tried again.
ProbeSame ==
  /\ target < LastProbe
  /\ phase' = "ready"
  /\ UNCHANGED <<probing, target, todo>>

ProbeNext ==
  /\ target < LastProbe
  /\ phase' = "ready" /\ target' = target + 1
  /\ UNCHANGED <<probing, todo>>

\* No device was found: the program ends.
ProbeFailed ==
  /\ target >= LastProbe
  /\ phase' = "idle" /\ probing' = FALSE /\ todo' = <<>>
  /\ UNCHANGED target

\* The next request of the command is made, whatever became of this one, except
\* that a drive that is off, open or empty is asked nothing more.
CommandGoesOn(r) ==
  /\ \/ todo' = Tail(todo)
     \/ r.command = "disk status" /\ r.status = "OK" /\ todo' = <<>>
  /\ phase' = IF todo' = <<>> THEN "idle" ELSE "ready"
  /\ UNCHANGED <<probing, target>>

\* What the program does with what became of a request.
Proceed(r) ==
  /\ result' = r
  /\ \/ probing /\ r.status = "OK" /\ ProbeFound
     \/ probing /\ r.status # "OK" /\ (ProbeNext \/ ProbeFailed)
     \/ ~probing /\ CommandGoesOn(r)

\* ReadSerial returns as soon as there is something.
Read ==
  /\ phase = "reading"
  /\ arrived > 0
  /\ LET n == Least(arrived, AnswerLen)
     IN /\ \E r \in GetPacketStatus(SubSeq(toHost, 1, n)) : Proceed(r)
        /\ toHost' = SubSeq(toHost, n + 1, Len(toHost))
        /\ arrived' = arrived - n
  /\ UNCHANGED toDevice

\* Slip: the host waits until something comes.
NoTimeout == FALSE /\ Proceed(Bad)

\* Nothing came within WAIT_TIME.
Timeout ==
  /\ phase = "reading"
  /\ arrived = 0
  /\ Delay = "long" \/ Quiet
  /\ Proceed(Bad)

Host ==
  \/ /\ \/ PurgeComm \/ Purged \/ Read
        \/ WaitOver /\ UNCHANGED <<probing, target, todo, result, lineVars>>
        \/ Timeout /\ UNCHANGED lineVars
     /\ UNCHANGED <<deckVars, handled>>
  \/ Write /\ UNCHANGED deckVars

-----------------------------------------------------------------------------
(* The device and the line.                                                *)

\* Slip: the device answers whatever the ID.
AnyId(packet) == packet.to \in 1 .. 63

\* The ID in the packet is the device's.
Meant(packet) == packet.to = id

\* How many bytes of an answer the device gets rid of: a write that takes a part of
\* them, or none for too long, counts as done.
WriteSerial == {n \in 0 .. AnswerLen : n < AnswerLen => "short write" \in LineFaults}

\* The device handles the request that came first: it answers if it is meant.
Handle ==
  /\ toDevice # <<>>
  /\ toDevice' = Tail(toDevice)
  /\ LET packet == Head(toDevice)
     IN \/ /\ Meant(packet)
           /\ AskTransport \/ AskSetId
           /\ request' = packet.request
           /\ \E n \in WriteSerial :
                toHost' = toHost \o
                  [i \in 1 .. n |-> [at |-> i, status |-> answer'.status,
                                     current |-> packet.current]]
           /\ handled' = IF packet.current THEN answer'.status ELSE handled
        \/ ~Meant(packet) /\ Silence /\ UNCHANGED <<toHost, handled>>
  /\ UNCHANGED <<hostVars, arrived>>

Arrive ==
  /\ arrived < Len(toHost)
  /\ arrived' = arrived + 1
  /\ UNCHANGED <<deckVars, hostVars, toDevice, toHost, handled>>

\* A byte is lost: one of a request, which is not recognised then, or of an answer.
LoseByte ==
  /\ "lost byte" \in LineFaults
  /\ \/ toDevice # <<>> /\ toDevice' = Tail(toDevice) /\ UNCHANGED toHost
     \/ arrived < Len(toHost) /\ toHost' = RemoveAt(toHost, arrived + 1)
          /\ UNCHANGED toDevice
  /\ UNCHANGED <<deckVars, hostVars, arrived, handled>>

\* The device starts again, and drops what has come in meanwhile (PurgeComm in main).
Restart ==
  /\ "power cut" \in LineFaults
  /\ PowerCut
  /\ toDevice' = <<>>
  /\ UNCHANGED <<hostVars, toHost, arrived, handled>>

Surroundings ==
  \/ Handle \/ Arrive \/ LoseByte \/ Restart
  \/ Settle /\ UNCHANGED <<hostVars, lineVars, handled>>

-----------------------------------------------------------------------------

HostInit ==
  /\ id \in 1 .. LastProbe /\ DeckInit
  /\ phase = "idle" /\ probing = FALSE /\ target = 0 /\ todo = <<>>
  /\ result = None
  /\ toDevice = <<>> /\ toHost = <<>> /\ arrived = 0
  /\ handled = "none"

HostNext ==
  \/ Start /\ UNCHANGED <<deckVars, lineVars, handled>>
  \/ Host
  \/ Surroundings

HostSpec == HostInit /\ [][HostNext]_jlipVars

\* The host runs on; a device that is there handles what it gets and what is on the
\* line arrives.  Nobody has to start the host, and no fault has to happen.
HostFairSpec ==
  /\ HostSpec
  /\ WF_jlipVars(Host)
  /\ WF_jlipVars(Handle)
  /\ WF_jlipVars(Arrive)

-----------------------------------------------------------------------------
(* Properties.                                                             *)

Statuses == {"OK", "ERROR", "UNKNOWN_CMD"}

\* Every variable stays in its type; above all the host probes no ID past the last
\* one, has a request to make whenever it is about to make one, and takes from its
\* input buffer what is there.
HostTypeOK ==
  /\ phase \in {"idle", "purging", "ready", "waiting", "reading"}
  /\ probing \in BOOLEAN
  /\ target \in Nat
  /\ phase \in {"ready", "waiting", "reading"} => target \in 1 .. 63
  /\ probing => target \in 1 .. LastProbe
  /\ phase = "idle" <=> todo = <<>>
  /\ result.status \in Statuses \cup {"BAD", "none"}
  /\ \A i \in DOMAIN toDevice : toDevice[i].to \in 1 .. 63
  /\ \A i \in DOMAIN toHost : toHost[i].at \in 1 .. AnswerLen /\ toHost[i].status \in Statuses
  /\ arrived \in 0 .. Len(toHost)
  /\ handled \in Statuses \cup {"none"}

\* An answer that the host takes for one is the answer to the request it has made
\* last (GetPacketStatus compares neither the ID nor the command).
AnswerBelongs == result.status \in Statuses => result.mine

\* The host rests, or is about to make its next request.
Between == phase \in {"idle", "purging", "ready"}

\* What the documentation of the host's functions says of the device after the
\* answer.
After(command, arg, status) ==
  CASE command = "turn on" -> mode # "off"
    [] command = "turn off" -> mode = "off"
    [] command = "play" -> status = "OK" /\ mode = "playing"
    [] command = "stop" -> status = "OK" /\ mode \in {"off", "idle"}
    [] command = "seek" ->
         status = "OK" => mode \in {"playing", "paused"} /\ track = arg
    [] command = "set id" -> (status = "OK") <=> (id = arg)
    [] OTHER -> TRUE

\* What the host was told has come true: after an answer the device is as the
\* documentation says, as long as nothing else was asked (utils/JLIPTest.cpp,
\* "@retval STATUS_OK The device executed the play command" and the like).
ToldTruly ==
  Between /\ result.status \in Statuses =>
    After(result.command, result.arg, result.status)

\* The ID that was found by probing is one that the device has (utils/JLIPTest.cpp,
\* "@retval STATUS_OK The device responded successfully").
FoundIsThere ==
  Between /\ result.command = "no op" /\ result.status = "OK" => result.to = id

\* The program comes to its end, whatever is lost on the line.
RunEnds == phase # "idle" ~> phase = "idle"

\* How many requests the run makes at most, the one under way included, and how many
\* steps these are.
RequestsLeft ==
  CASE phase = "purging" -> LastProbe + Len(todo)
    [] phase # "purging" /\ probing -> LastProbe - target + 1 + Len(todo)
    [] OTHER -> Len(todo)

StepsLeft ==
  CASE phase = "idle" -> 0
    [] phase = "purging" -> 3 * RequestsLeft + 1
    [] phase = "ready" -> 3 * RequestsLeft
    [] phase = "waiting" -> 3 * RequestsLeft - 1
    [] phase = "reading" -> 3 * RequestsLeft - 2

\* Nothing that happens, on the line or in the device, makes a run longer: no ID is
\* probed twice and no request of a command made twice, whatever is lost, and every
\* step of the host but emptying the line takes it nearer to its end.
RunShrinks ==
  [][phase # "idle" =>
       StepsLeft' < StepsLeft \/ UNCHANGED hostVars]_jlipVars

\* The request the host is waiting for, and how the device has answered it.
Call ==
  IF phase \in {"waiting", "reading"}
  THEN [to |-> target, request |-> CreatePacket(Request), answer |-> handled]
  ELSE [to |-> 0, request |-> NoArg("none"), answer |-> "none"]

Calls == INSTANCE Remote WITH call <- Call, told <- result.status

\* Each request is carried out at most once, while the host waits for it, and
\* what the host is told of it is the answer (no command is repeated by the line:
\* nextchapter moves on by one).
ImplementsRemote == Calls!RemoteSpec

=============================================================================
