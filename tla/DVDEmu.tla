------------------------------- MODULE DVDEmu -------------------------------
(***************************************************************************)
(* The start-up of the program (scripts/start.sh and main of DVDEmu.cpp):  *)
(* the first USB disc is mounted, disc.cfg on it says which player to be,  *)
(* the port is opened for it and emptied, and the chapters are counted.    *)
(* Then bytes go to the protocol one by one.  This is where the constants  *)
(* of the other modules come from: MaxChapter and MissingFiles of Video,   *)
(* IsVCD of Victor.                                                        *)
(*                                                                         *)
(* Meanwhile the disc may be pulled out, and hosts send.                   *)
(***************************************************************************)
EXTENDS Integers, Sequences, FiniteSets

CONSTANTS
  Discs,     \* the discs that may be plugged in
  Unsigned,  \* the number of values of an unsigned int, 2^32
  MaxInput   \* bound: bytes in the input buffer of the port

\* In a folder, number n stands for n.m4v, 0 for disc.cfg and a negative number for
\* any other file.  says is what disc.cfg says; listed are the files that readdir
\* reports as regular files (not links, and none where it cannot tell).
ASSUME DVDEmuAssumption ==
  /\ \A d \in Discs :
       /\ IsFiniteSet(d.files) /\ d.files \subseteq Int
       /\ d.listed \subseteq d.files
       /\ 0 \in d.files <=> d.says # "none"
  /\ Unsigned \in Nat \ {0}
  /\ MaxInput \in Nat

VARIABLES
  stage,        \* how far the start-up has got
  disc,         \* the disc that was mounted
  there,        \* it is still there
  dvd_type,     \* what getDvdType made of it
  parity,       \* of the open port, "none" if it is not open
  input,        \* bytes in the input buffer, by when they came
  max_chapter,  \* video_state.max_chapter
  protocol,     \* the protocol that was initialised last
  obeyed        \* when the bytes came that were handed to it

startVars ==
  <<stage, disc, there, dvd_type, parity, input, max_chapter, protocol, obeyed>>

-----------------------------------------------------------------------------
(* The disc.                                                               *)

NoDisc == [says |-> "none", files |-> {}, listed |-> {}]

\* What is found in the folder now.
Folder == IF there THEN disc ELSE NoDisc

Victor == {"XV-D701-VCD", "XV-D701-DVD"}

\* Slip: the type file is counted.
CountAll == Cardinality(Folder.listed)

\* Slip: the count is kept as it is, below zero if there is nothing.
SignedCount == Cardinality(Folder.listed) - 1

\* All regular files, less the type file; an int that becomes unsigned.
ChapterCount == (Cardinality(Folder.listed) - 1) % Unsigned

-----------------------------------------------------------------------------
(* The start-up, step by step.                                             *)

StartInit ==
  /\ stage = "script"
  /\ disc = NoDisc /\ there = FALSE
  /\ dvd_type = "none" /\ parity = "closed" /\ protocol = "none"
  /\ input = <<>> /\ obeyed = {}
  /\ max_chapter = 0

\* start.sh starts the program whether a disc could be mounted or not.
Mount ==
  /\ stage = "script"
  /\ stage' = "type"
  /\ disc' \in Discs \cup {NoDisc}
  /\ there' = TRUE
  /\ UNCHANGED <<dvd_type, parity, input, max_chapter, protocol, obeyed>>

\* The program ends if the type is not known.
GetDvdType ==
  /\ stage = "type"
  /\ dvd_type' = Folder.says
  /\ stage' = IF dvd_type' \in Victor \cup {"SD-B100-DVD"} THEN "open" ELSE "ended"
  /\ UNCHANGED <<disc, there, parity, input, max_chapter, protocol, obeyed>>

\* It ends, too, if the port cannot be opened.
OpenSerial ==
  /\ stage = "open"
  /\ \/ /\ stage' = "purge"
        /\ parity' = IF dvd_type \in Victor THEN "even" ELSE "none"
     \/ stage' = "ended" /\ UNCHANGED parity
  /\ UNCHANGED <<disc, there, dvd_type, input, max_chapter, protocol, obeyed>>

\* Slip: the port is not emptied.
NoPurge ==
  /\ stage = "purge"
  /\ stage' = "video"
  /\ UNCHANGED <<disc, there, dvd_type, parity, input, max_chapter, protocol, obeyed>>

PurgeComm ==
  /\ stage = "purge"
  /\ stage' = "video"
  /\ input' = <<>>
  /\ UNCHANGED <<disc, there, dvd_type, parity, max_chapter, protocol, obeyed>>

\* A folder that cannot be opened is read all the same, which ends the program.
VideoInit ==
  /\ stage = "video"
  /\ \/ stage' = "protocol" /\ max_chapter' = ChapterCount
     \/ ~there /\ stage' = "ended" /\ UNCHANGED max_chapter
  /\ UNCHANGED <<disc, there, dvd_type, parity, input, protocol, obeyed>>

\* Slip: the two kinds of a Victor are mixed up.
OtherWayRound(type) ==
  CASE type = "XV-D701-VCD" -> "Victor DVD"
    [] type = "XV-D701-DVD" -> "Victor VCD"
    [] OTHER -> "Toshiba"

ProtocolOf(type) ==
  CASE type = "XV-D701-VCD" -> "Victor VCD"
    [] type = "XV-D701-DVD" -> "Victor DVD"
    [] OTHER -> "Toshiba"

ProtocolInit ==
  /\ stage = "protocol"
  /\ stage' = "running"
  /\ protocol' = ProtocolOf(dvd_type)
  /\ UNCHANGED <<disc, there, dvd_type, parity, input, max_chapter, obeyed>>

\* A byte is read, if there is one within WAIT_TIME; otherwise the loop goes on.
ReadSerial == input # <<>> /\ input' = Tail(input)

\* The loop of main.
ReceiveByte ==
  /\ stage = "running"
  /\ ReadSerial
  /\ obeyed' = obeyed \cup {Head(input)}
  /\ UNCHANGED <<stage, disc, there, dvd_type, parity, max_chapter, protocol>>

-----------------------------------------------------------------------------
(* The surroundings.                                                       *)

\* A byte comes; a port that is not open drops it.
HostSends ==
  /\ parity # "closed"
  /\ Len(input) < MaxInput
  /\ input' = Append(input, stage)
  /\ UNCHANGED <<stage, disc, there, dvd_type, parity, max_chapter, protocol, obeyed>>

PullOut ==
  /\ there
  /\ there' = FALSE
  /\ UNCHANGED <<stage, disc, dvd_type, parity, input, max_chapter, protocol, obeyed>>

StartNext ==
  \/ Mount \/ GetDvdType \/ OpenSerial \/ PurgeComm \/ VideoInit \/ ProtocolInit
  \/ ReceiveByte \/ HostSends \/ PullOut

StartSpec == StartInit /\ [][StartNext]_startVars

-----------------------------------------------------------------------------
(* Properties.                                                             *)

Stages == {"script", "type", "open", "purge", "video", "protocol", "running", "ended"}

\* Every variable stays in its type (the local variables of main in DVDEmu.cpp, the
\* port, and max_chapter of Video.cpp).
StartTypeOK ==
  /\ stage \in Stages
  /\ disc \in Discs \cup {NoDisc} /\ there \in BOOLEAN
  /\ dvd_type \in {d.says : d \in Discs \cup {NoDisc}}
  /\ parity \in {"closed", "none", "even"}
  /\ input \in Seq(Stages) /\ obeyed \subseteq Stages
  /\ max_chapter \in 0 .. Unsigned - 1
  /\ protocol \in {"none", "Victor VCD", "Victor DVD", "Toshiba"}

\* The files of the chapters.
Chapters == {n \in disc.files : n > 0}

\* The chapters have the numbers from 1 on.
Numbered == Chapters = 1 .. Cardinality(Chapters) /\ Cardinality(Chapters) < Unsigned

\* A program that has started up on a disc with numbered chapters accepts every one
\* of them, and, if there is nothing else on the disc but the type file, no other
\* (getDirectoryCount counts files without looking at their names).
ChaptersInBounds ==
  stage = "running" /\ there /\ Numbered /\ disc.listed = disc.files =>
    /\ Cardinality(disc.files) <= Unsigned => Chapters \subseteq 1 .. max_chapter
    /\ disc.files = {0} \cup Chapters => 1 .. max_chapter = Chapters

\* What runs is the player that the disc asked for, on a line set up for it, even if
\* the disc is gone by then; nothing runs without a disc.
AsDiscSays ==
  stage = "running" =>
    /\ disc.says = "XV-D701-VCD" => protocol = "Victor VCD" /\ parity = "even"
    /\ disc.says = "XV-D701-DVD" => protocol = "Victor DVD" /\ parity = "even"
    /\ disc.says = "SD-B100-DVD" => protocol = "Toshiba" /\ parity = "none"
    /\ disc.says \in Victor \cup {"SD-B100-DVD"}

\* No byte is obeyed that came in before the port was emptied ("Ensure we start
\* fresh", DVDEmu.cpp).  The rest of a packet may still come after that; what the
\* window makes of it is the business of JLIPFraming.
FreshStart == "purge" \notin obeyed

=============================================================================
