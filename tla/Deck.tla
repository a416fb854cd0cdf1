-------------------------------- MODULE Deck --------------------------------
(***************************************************************************)
(* What a host can build on that talks to the Victor emulation: what each  *)
(* command does to the transport of module Transport, and the answer that  *)
(* it gets.  It is what utils/JLIPTest.cpp and README.md document, but for *)
(* two points in which the program does something else and this module     *)
(* says what the program does: a pause when the device is idle (AskPause), *)
(* and a command with a wrong checksum (AskDamaged).  The documented       *)
(* behaviour is stated by PauseStartsPaused and DamagedAnswered of module  *)
(* Victor, which are violated.                                             *)
(***************************************************************************)
EXTENDS Transport

CONSTANTS
  DefaultId, \* the ID of a device that was never given one
  Lasting,   \* a new ID is written to a file
  NewIds     \* the IDs a host may ask the device to take

VARIABLES
  id,        \* the ID the device listens to
  onReturn,  \* the IDs it may have when the power comes back after a cut
  request,   \* the request it handled last
  answer     \* and what it answered

deckVars == <<mode, track, id, onReturn, request, answer>>

Says(status, data) == answer' = [id |-> id, status |-> status, data |-> data]

NoAnswer == [id |-> 0, status |-> "none", data |-> 0]

Same == UNCHANGED <<mode, track>>

Does(command, arg) == request' = [command |-> command, arg |-> arg]

DeckInit ==
  /\ Init
  /\ onReturn = {id}
  /\ request = [command |-> "none", arg |-> 0]
  /\ answer = NoAnswer

-----------------------------------------------------------------------------
(* The commands.  Each is answered with the ID the device had before.      *)

AskOn ==
  /\ Does("turn on", 0)
  /\ \/ TurnOn /\ Says("OK", 0)
     \/ mode # "off" /\ Same /\ Says("ERROR", 0)

AskOff ==
  /\ Does("turn off", 0)
  /\ \/ TurnOff /\ Says("OK", 0)
     \/ mode = "off" /\ Same /\ Says("ERROR", 0)

AskPlay == Does("play", 0) /\ Play /\ Says("OK", 0)

\* An idle device is left idle, where JLIPTest.cpp documents that chapter 1 is
\* queued up paused.
AskPause ==
  /\ Does("pause", 0)
  /\ Pause \/ (mode # "playing" /\ Same)
  /\ Says("OK", 0)

AskStop ==
  /\ Does("stop", 0)
  /\ Stop \/ (mode \in {"off", "idle"} /\ Same)
  /\ Says("OK", 0)

\* A seek to a chapter that is not there, or in standby, changes nothing.
SeekOrRefuse(chapter) ==
  \/ SeekTo(chapter) /\ Says("OK", 0)
  \/ (mode = "off" \/ chapter \notin 1 .. LastChapter) /\ Same /\ Says("ERROR", 0)

AskSeek == \E c \in ChapterArgs : Does("seek", c) /\ SeekOrRefuse(c)

AskNext == Does("next", 0) /\ SeekOrRefuse(track + 1)

\* From idle the previous chapter is the first.
AskPrevious ==
  Does("previous", 0) /\ SeekOrRefuse(IF mode = "idle" THEN 1 ELSE track - 1)

AskPowerStatus ==
  Does("power status", 0) /\ Same /\ Says("OK", IF mode = "off" THEN 0 ELSE 1)

AskQuery == Does("query", 0) /\ Same /\ Says("OK", 0)

AskUnknown == Does("unknown", 0) /\ Same /\ Says("UNKNOWN_CMD", 0)

AskTransport ==
  /\ \/ AskOn \/ AskOff \/ AskPlay \/ AskPause \/ AskStop
     \/ AskSeek \/ AskNext \/ AskPrevious
     \/ AskPowerStatus \/ AskQuery \/ AskUnknown
  /\ UNCHANGED <<id, onReturn>>

\* Until the file has reached the disk the device may come back with an older ID,
\* or with the default one.
AskSetId ==
  \E new \in NewIds :
    /\ Does("set id", new)
    /\ Same
    /\ \/ /\ new \in 1 .. 63
          /\ Says("OK", 0)
          /\ id' = new
          /\ onReturn' = IF Lasting THEN onReturn \cup {DefaultId, new} ELSE onReturn
       \/ new \notin 1 .. 63 /\ Says("ERROR", 0) /\ UNCHANGED <<id, onReturn>>

\* A packet that is meant for another device gets no answer.
Silence ==
  /\ Does("none", 0)
  /\ answer' = NoAnswer
  /\ UNCHANGED <<mode, track, id, onReturn>>

\* Nor does one with a wrong checksum, where README.md promises a response.
AskDamaged ==
  /\ Does("damaged", 0)
  /\ answer' = NoAnswer
  /\ UNCHANGED <<mode, track, id, onReturn>>

-----------------------------------------------------------------------------

Settle == onReturn' = {id} /\ UNCHANGED <<mode, track, id, request, answer>>

PowerCut ==
  /\ mode' = "off" /\ track' = 1
  /\ id' \in onReturn
  /\ onReturn' = {id'}
  /\ Does("none", 0)
  /\ answer' = NoAnswer

DeckNext == AskTransport \/ AskSetId \/ Silence \/ AskDamaged \/ Settle \/ PowerCut

DeckSpec == DeckInit /\ [][DeckNext]_deckVars
=============================================================================
