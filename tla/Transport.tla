----------------------------- MODULE Transport -----------------------------
(***************************************************************************)
(* What the video component promises its callers: a transport that is off, *)
(* idle, playing or paused, and a current chapter.  Video.cpp keeps this   *)
(* in four separate fields.                                                *)
(***************************************************************************)
EXTENDS Integers

CONSTANTS
  LastChapter,  \* the number of chapters on the disc
  ChapterArgs   \* the chapters a caller may ask for

VARIABLES mode, track

Init == mode = "off" /\ track = 1

TurnOn == mode = "off" /\ mode' = "idle" /\ track' = 1

TurnOff == mode # "off" /\ mode' = "off" /\ track' = 1

\* Playing from off or idle starts at the first chapter; a paused chapter goes
\* on where it was.
Play == mode' = "playing" /\ track' = track

Pause == mode = "playing" /\ mode' = "paused" /\ track' = track

Stop == mode \in {"playing", "paused"} /\ mode' = "idle" /\ track' = 1

\* A new chapter is paused exactly if the old one was.
SeekTo(chapter) ==
  /\ mode # "off"
  /\ chapter \in 1 .. LastChapter
  /\ track' = chapter
  /\ mode' = IF mode = "paused" THEN "paused" ELSE "playing"

Seek == \E c \in ChapterArgs : SeekTo(c)

Next == TurnOn \/ TurnOff \/ Play \/ Pause \/ Stop \/ Seek

Spec == Init /\ [][Next]_<<mode, track>>
=============================================================================
