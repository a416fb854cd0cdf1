--------------------------- MODULE VideoInductive ---------------------------
(***************************************************************************)
(* Why the screen of Video.tla matches the transport state: the inductive  *)
(* invariant.  The main thread runs ahead of the playback thread, so the   *)
(* invariant is about the commands between them: carried out one after the *)
(* other, they lead from what the player shows to what the main thread     *)
(* wants, and each of them meets the player as it was meant to.            *)
(***************************************************************************)
EXTENDS Video

\* What can be seen of a player.  No player has chapter 0.
Views == [chapter : 0 .. ByteSize - 1, paused : BOOLEAN]

Off == [chapter |-> 0, paused |-> FALSE]

View == IF player.phase = "none" THEN Off
        ELSE [chapter |-> player.chapter, paused |-> player.paused]

\* What the transport state of the main thread asks for.
Wanted(s) ==
  IF s.playing_state /\ s.chapter \in 1 .. MaxChapter
  THEN [chapter |-> s.chapter, paused |-> s.paused_state]
  ELSE Off

\* Command c leads from view v to view w, and v is what it was meant for.  On a
\* disc without chapters a toggle may find nothing to toggle.
Leads(c, v, w) ==
  \/ c.opcode = "STOP" /\ w = Off
  \/ c.opcode = "PLAY" /\ c.arg >= 1 /\ v = Off
       /\ w = [chapter |-> c.arg, paused |-> FALSE]
  \/ c.opcode = "PAUSE" /\ v # Off /\ ~v.paused
       /\ w = [chapter |-> v.chapter, paused |-> TRUE]
  \/ c.opcode = "UNPAUSE" /\ v # Off /\ v.paused
       /\ w = [chapter |-> v.chapter, paused |-> FALSE]
  \/ c.opcode \in {"PAUSE", "UNPAUSE"} /\ MaxChapter = 0 /\ v = Off /\ w = Off

\* The views that the commands lead to from v, one command after the other.
Reached(cmds, v) ==
  LET reached[i \in 0 .. Len(cmds)] ==
        IF i = 0 THEN {v}
        ELSE UNION {{y \in Views : Leads(cmds[i], x, y)} : x \in reached[i - 1]}
  IN reached[Len(cmds)]

\* The commands lead from v to w.
LeadTo(cmds, v, w) == w \in Reached(cmds, v)

\* What the playback thread has yet to carry out of what was queued.
InHand == (IF pc = "run" THEN <<op>> ELSE <<>>) \o queue

-----------------------------------------------------------------------------
\* The parts of the invariant.

\* The flags of a main thread between two API functions.
Flags(s) ==
  /\ s.paused_state => s.playing_state
  /\ s.playing_state => s.power_state
  /\ ~s.playing_state => s.chapter = 1

\* What the playback thread believes of the player, and what is so.
Linked ==
  /\ pc = "poll" =>
       /\ ~loaded
       /\ player.exact => player.phase # "none"
       /\ ~player.exact => player.phase = "none"
  /\ pc # "poll" =>
       /\ player.phase # "starting"
       /\ player.exact => (loaded <=> player.phase = "playing")
       /\ ~player.exact => loaded
  /\ player.exact /\ player.phase = "none" => player = NoPlayer
  /\ player.phase # "none" => player.chapter >= 1

\* The commands in hand and the calls left lead to what is wanted: from what is
\* seen, or from somewhere if a fault has changed what is seen.
OnTheWay ==
  \E v \in Views :
    /\ player.exact => v = View
    /\ LeadTo(InHand \o main.calls, v, Wanted(main))

\* The inductive invariant: with OnTheWay it says that whatever is queued when
\* the lock is released and whatever the running API function still has to
\* queue ends in the state the callers were told of.
ScreenInv == TypeOK /\ DequeueSafe /\ Flags(main) /\ Linked /\ OnTheWay

\* The queue never holds more than four bytes per call of the current burst.
QueueInv ==
  /\ ~overflow
  /\ Bytes(queue) + Bytes(main.calls) <= 4 * burst
  /\ Bytes(main.calls) <= 4
  /\ main.calls # <<>> => burst >= 1

=============================================================================
