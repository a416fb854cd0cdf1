------------------------------- MODULE Video -------------------------------
(***************************************************************************)
(* The video component (Video.cpp): the transport state the protocol       *)
(* handlers read and change on the main thread, the queue of opcodes that  *)
(* state changes leave for the playback thread, that thread, and the       *)
(* omxplayer process it drives.                                            *)
(*                                                                         *)
(* An API function runs on the main thread.  The fields it assigns are     *)
(* read by no other thread, so they change when the function is entered;   *)
(* the VideoThreadAction calls it makes are critical sections of their own *)
(* and the playback thread runs between them, so they are left in          *)
(* main.calls and made one at a time.  The next function starts when none  *)
(* is left.                                                                *)
(***************************************************************************)
EXTENDS Integers, Sequences, FiniteSets

CONSTANTS
  MaxChapter,   \* max_chapter, as VideoInit receives it
  ChapterArgs,  \* the chapters that callers pass to SeekToChapter
  QueueSize,    \* sizeof(video_state.queue), 256 in the program
  ByteSize,     \* how many values an unsigned char has, 256
  MissingFiles, \* the numbers n for which the folder holds no file n.m4v
  Faults,       \* what may go wrong with a running omxplayer: see FaultKinds
  MaxBurst      \* bound: API calls that find work still queued, see Invoke

FaultKinds == {"exit", "toggle"}

ASSUME VideoAssumption ==
  /\ MaxChapter \in Nat
  /\ ChapterArgs \subseteq Nat
  /\ QueueSize \in Nat
  /\ ByteSize \in Nat \ {0}
  /\ MissingFiles \subseteq Nat
  /\ Faults \subseteq FaultKinds
  /\ MaxBurst \in Nat \ {0}

VARIABLES
  main,     \* the transport fields of video_state, and the calls left to make
  queue,    \* the opcodes in video_state.queue, oldest first
  overflow, \* an opcode was written beyond the end of video_state.queue
  pc,       \* where the playback thread is in its loop
  op,       \* its locals opcode and arg
  loaded,   \* its local loaded
  player,   \* the omxplayer process
  burst     \* API calls since the queue was last empty

vars == <<main, queue, overflow, pc, op, loaded, player, burst>>

-----------------------------------------------------------------------------
(* Opcodes.  A PLAY carries the chapter in a second byte of the queue.     *)

Command(opcode, arg) == [opcode |-> opcode, arg |-> arg]

Commands ==
  [opcode : {"STOP", "PAUSE", "UNPAUSE"}, arg : {0}]
    \cup [opcode : {"PLAY"}, arg : 0 .. ByteSize - 1]

\* The positions of the PLAY opcodes in a sequence of commands.
PlaysIn(cmds) == {i \in DOMAIN cmds : cmds[i].opcode = "PLAY"}

\* queue_pos: the bytes that a sequence of commands occupies.
Bytes(cmds) == Len(cmds) + Cardinality(PlaysIn(cmds))

Width(c) == IF c.opcode = "PLAY" THEN 2 ELSE 1

\* A function of the API asks for a VideoThreadAction.  The chapter is stored
\* in an unsigned char.
Request(s, opcode, arg) ==
  [s EXCEPT !.calls = Append(@, Command(opcode, arg % ByteSize))]

\* What video_state's transport fields and a running API function can hold.
MainStates ==
  [power_state : BOOLEAN, playing_state : BOOLEAN, paused_state : BOOLEAN,
   chapter : {1} \cup 1 .. MaxChapter, calls : Seq(Commands)]

-----------------------------------------------------------------------------
(* The API functions, as functions of the main thread's state.             *)

Pause(s) ==
  IF s.power_state /\ s.playing_state /\ ~s.paused_state
  THEN [Request(s, "PAUSE", 0) EXCEPT !.playing_state = TRUE,
                                      !.paused_state = TRUE]
  ELSE s

Unpause(s) ==
  IF s.power_state /\ s.playing_state /\ s.paused_state
  THEN [Request(s, "UNPAUSE", 0) EXCEPT !.playing_state = TRUE,
                                        !.paused_state = FALSE]
  ELSE s

Stop(s) ==
  IF s.power_state /\ (s.playing_state \/ s.paused_state)
  THEN [Request(Unpause(s), "STOP", 0) EXCEPT !.playing_state = FALSE,
                                              !.paused_state = FALSE,
                                              !.chapter = 1]
  ELSE s

\* Slip: the check of the lower bound is dropped.
CanSeekFromZero(s, chapter) == s.power_state /\ chapter <= MaxChapter

\* What SeekToChapter returns.
CanSeek(s, chapter) == s.power_state /\ chapter \in 1 .. MaxChapter

\* Slip: the new chapter of a paused player is not paused again.
RepauseForgotten(s) == s

\* Pause the new chapter if the old one was paused.
Repause(s) == IF s.paused_state THEN Request(s, "PAUSE", 0) ELSE s

\* Slip: the old player is not stopped before the new one is started.
SeekWithoutStop(s, chapter) ==
  IF CanSeek(s, chapter)
  THEN Repause([Request(s, "PLAY", chapter)
                  EXCEPT !.playing_state = TRUE, !.chapter = chapter])
  ELSE s

\* Slip: the old player is stopped twice, through Stop() and directly.
SeekStoppingTwice(s, chapter) ==
  IF CanSeek(s, chapter)
  THEN [Request(Request(Stop(s), "STOP", 0), "PLAY", chapter)
          EXCEPT !.playing_state = TRUE, !.chapter = chapter]
  ELSE s

SeekToChapter(s, chapter) ==
  IF CanSeek(s, chapter)
  THEN Repause([Request(Request(s, "STOP", 0), "PLAY", chapter)
                  EXCEPT !.playing_state = TRUE, !.chapter = chapter])
  ELSE s

PowerOn(s) == IF s.power_state THEN s ELSE Stop([s EXCEPT !.power_state = TRUE])

\* Slip: going to standby does not stop what is playing.
PowerOffOnly(s) == [s EXCEPT !.power_state = FALSE]

PowerOff(s) == IF s.power_state THEN [Stop(s) EXCEPT !.power_state = FALSE] ELSE s

Play(s) ==
  LET on == PowerOn(s)
  IN IF on.playing_state
     THEN Unpause(on)
     ELSE [SeekToChapter(on, on.chapter) EXCEPT !.playing_state = TRUE,
                                                !.paused_state = FALSE]

-----------------------------------------------------------------------------
(* The omxplayer process and the script that talks to it.  A process is    *)
(* "starting" until it answers on the session bus; exact is FALSE from a   *)
(* fault until the process is stopped.                                     *)

Players ==
  [phase : {"none", "starting", "playing"}, chapter : 0 .. ByteSize - 1,
   paused : BOOLEAN, exact : BOOLEAN]

NoPlayer == [phase |-> "none", chapter |-> 0, paused |-> FALSE, exact |-> TRUE]

LostPlayer == [NoPlayer EXCEPT !.exact = FALSE]

Starting(chapter) == [NoPlayer EXCEPT !.phase = "starting", !.chapter = chapter]

\* "control.sh status": exit code 0 once the player is on the bus.
StatusSucceeds(p) == p.phase = "playing"

\* "control.sh pause": the player's one toggle.  Its exit code is ignored, so a
\* toggle that does not arrive goes unnoticed.
AfterToggle(p) ==
  IF p.phase # "playing" THEN {p}
  ELSE {[p EXCEPT !.paused = ~@]}
         \cup {[p EXCEPT !.exact = FALSE] : f \in Faults \cap {"toggle"}}

-----------------------------------------------------------------------------
\* The transport when VideoInit has run.
Standby ==
  [power_state |-> FALSE, playing_state |-> FALSE, paused_state |-> FALSE,
   chapter |-> 1, calls |-> <<>>]

Init ==
  /\ main = Standby
  /\ queue = <<>>
  /\ overflow = FALSE
  /\ pc = "check"
  /\ op = Command("STOP", 0)
  /\ loaded = FALSE
  /\ player = NoPlayer
  /\ burst = 0

(***************************************************************************)
(* The main thread enters an API function: that of a protocol's handler    *)
(* for the byte just read, so it runs to its end before the loop in main   *)
(* reads the next one.  A caller may make at most MaxBurst calls that      *)
(* leave work for the playback thread before that thread empties the       *)
(* queue; this bound is the model's, the code has no such limit (nothing   *)
(* looks at queue_pos before VideoThreadAction stores at it).              *)
(***************************************************************************)
Invoke(next) ==
  /\ ~overflow
  /\ main.calls = <<>>
  /\ burst < MaxBurst
  /\ main' = next
  /\ burst' = IF next.calls = <<>> THEN burst ELSE burst + 1
  /\ UNCHANGED <<queue, overflow, pc, op, loaded, player>>

CallPowerOn  == Invoke(PowerOn(main))
CallPowerOff == Invoke(PowerOff(main))
CallPlay     == Invoke(Play(main))
CallPause    == Invoke(Pause(main))
CallStop     == Invoke(Stop(main))
CallSeek     == \E c \in ChapterArgs : Invoke(SeekToChapter(main, c))

ApiCall ==
  CallPowerOn \/ CallPowerOff \/ CallPlay \/ CallPause \/ CallStop \/ CallSeek

(***************************************************************************)
(* The next VideoThreadAction of the running function, under the lock.     *)
(* Nothing checks queue_pos: a command that does not fit is written over   *)
(* what follows the array, and what happens then is undefined, so the      *)
(* model records it and goes no further.                                   *)
(***************************************************************************)
VideoThreadAction ==
  /\ ~overflow
  /\ main.calls # <<>>
  /\ LET c == Head(main.calls)
         fits == Bytes(queue) + Width(c) <= QueueSize
     IN /\ queue' = IF fits THEN Append(queue, c) ELSE queue
        /\ overflow' = ~fits
  /\ main' = [main EXCEPT !.calls = Tail(@)]
  /\ UNCHANGED <<pc, op, loaded, player, burst>>

-----------------------------------------------------------------------------
(* The playback thread.                                                    *)

\* Slip: the thread takes the lock without looking at queue_pos.
ThreadCheckOmitted ==
  /\ ~overflow
  /\ pc = "check"
  /\ pc' = "lock"
  /\ UNCHANGED <<main, queue, overflow, op, loaded, player, burst>>

\* It reads queue_pos without the lock, and sleeps when it reads 0.  Only other
\* threads' growth of the queue can race with the read, and the compiler has to
\* read again after every sleep: both values it can see are interleavings.
ThreadCheck ==
  /\ ~overflow
  /\ pc = "check"
  /\ pc' = IF queue = <<>> THEN "check" ELSE "lock"
  /\ UNCHANGED <<main, queue, overflow, op, loaded, player, burst>>

\* It takes the oldest command out of the queue, under the lock.
ThreadDequeue ==
  /\ ~overflow
  /\ pc = "lock"
  /\ op' = Head(queue)
  /\ queue' = Tail(queue)
  /\ burst' = IF queue' # <<>> THEN burst
              ELSE IF main.calls = <<>> THEN 0 ELSE 1
  /\ pc' = "run"
  /\ UNCHANGED <<main, overflow, loaded, player>>

\* Slip: loaded is cleared only if the player was still there to be stopped.
RunStopIfAlive ==
  /\ ~overflow
  /\ pc = "run"
  /\ op.opcode = "STOP"
  /\ player' = IF loaded THEN NoPlayer ELSE player
  /\ loaded' = (loaded /\ player.phase # "playing")
  /\ pc' = "check"
  /\ UNCHANGED <<main, queue, overflow, op, burst>>

\* STOP: ask the player to stop, then kill it and its bus.
RunStop ==
  /\ ~overflow
  /\ pc = "run"
  /\ op.opcode = "STOP"
  /\ player' = IF loaded THEN NoPlayer ELSE player
  /\ loaded' = FALSE
  /\ pc' = "check"
  /\ UNCHANGED <<main, queue, overflow, op, burst>>

\* PAUSE and UNPAUSE: both send the player the same toggle.  (The delay before
\* an UNPAUSE is 0: nothing calls VideoSetPauseDelay.)
RunToggle ==
  /\ ~overflow
  /\ pc = "run"
  /\ op.opcode \in {"PAUSE", "UNPAUSE"}
  /\ player' \in IF loaded THEN AfterToggle(player) ELSE {player}
  /\ pc' = "check"
  /\ UNCHANGED <<main, queue, overflow, op, loaded, burst>>

\* PLAY: start a player, unless one is loaded, and wait for it.
RunPlay ==
  /\ ~overflow
  /\ pc = "run"
  /\ op.opcode = "PLAY"
  /\ player' = IF loaded THEN player
               ELSE IF op.arg \in MissingFiles THEN LostPlayer
               ELSE Starting(op.arg)
  /\ pc' = IF loaded THEN "check" ELSE "poll"
  /\ UNCHANGED <<main, queue, overflow, op, loaded, burst>>

\* Slip: the status is asked once.
PollOnce ==
  /\ ~overflow
  /\ pc = "poll"
  /\ loaded' = StatusSucceeds(player)
  /\ pc' = "check"
  /\ UNCHANGED <<main, queue, overflow, op, player, burst>>

\* Slip: a player that does not answer is started again.
PollOrPlayAgain ==
  /\ ~overflow
  /\ pc = "poll"
  /\ loaded' = StatusSucceeds(player)
  /\ pc' = IF StatusSucceeds(player) THEN "check" ELSE "run"
  /\ UNCHANGED <<main, queue, overflow, op, player, burst>>

\* It asks for the player's status until that succeeds, without a limit.
PollStatus ==
  /\ ~overflow
  /\ pc = "poll"
  /\ loaded' = StatusSucceeds(player)
  /\ pc' = IF StatusSucceeds(player) THEN "check" ELSE "poll"
  /\ UNCHANGED <<main, queue, overflow, op, player, burst>>

VideoThread ==
  ThreadCheck \/ ThreadDequeue \/ RunStop \/ RunToggle \/ RunPlay \/ PollStatus

-----------------------------------------------------------------------------
(* The environment.                                                        *)

PlayerReady ==
  /\ ~overflow
  /\ player.phase = "starting"
  /\ player' = [player EXCEPT !.phase = "playing"]
  /\ UNCHANGED <<main, queue, overflow, pc, op, loaded, burst>>

\* The process ends by itself: it crashes, or cannot play the file.
PlayerExit ==
  /\ ~overflow
  /\ "exit" \in Faults
  /\ player.phase # "none"
  /\ player' = LostPlayer
  /\ UNCHANGED <<main, queue, overflow, pc, op, loaded, burst>>

Next == ApiCall \/ VideoThreadAction \/ VideoThread \/ PlayerReady \/ PlayerExit

Spec == Init /\ [][Next]_vars

(***************************************************************************)
(* Both threads are scheduled and hold the lock only for a few             *)
(* assignments; a player whose file exists comes up.  Nobody has to call   *)
(* the API, and no fault has to happen.                                    *)
(***************************************************************************)
FairSpec ==
  /\ Spec
  /\ WF_vars(VideoThreadAction)
  /\ WF_vars(VideoThread)
  /\ WF_vars(PlayerReady)

-----------------------------------------------------------------------------
(* Properties.                                                             *)

\* Every variable stays in its type; above all the current chapter stays one
\* that SeekToChapter accepted (or 1), whatever chapters the callers ask for.
TypeOK ==
  /\ main \in MainStates
  /\ queue \in Seq(Commands)
  /\ overflow \in BOOLEAN
  /\ pc \in {"check", "lock", "run", "poll"}
  /\ op \in Commands
  /\ loaded \in BOOLEAN
  /\ player \in Players
  /\ burst \in 0 .. MaxBurst

\* No API function leaves more than four bytes of opcodes, so a queue of four
\* bytes per call that the thread may lag behind is never written past its end
\* (the unchecked index of VideoThreadAction).
QueueFits == ~overflow

\* The unlocked read of queue_pos is safe: whenever the playback thread takes
\* the lock there is still a command to take out (the comment on that read).
DequeueSafe == pc = "lock" => queue # <<>>

\* Every opcode meets the player in the state it was meant for: a PLAY finds no
\* player loaded and is not ignored, a PAUSE finds a running player and an
\* UNPAUSE a paused one, although both send the same toggle and the main thread
\* has run ahead by then.
NothingDropped ==
  pc = "run" /\ player.exact /\ MaxChapter > 0 =>
    /\ op.opcode = "PLAY" => ~loaded
    /\ op.opcode = "PAUSE" => loaded /\ ~player.paused
    /\ op.opcode = "UNPAUSE" => loaded /\ player.paused

\* There is never more than one player: one is started only when none of those before
\* is left, and a STOP leaves none behind, although the thread knows only of players
\* that answered it once, and they may exit by themselves (the flag loaded).
OnePlayer ==
  [][/\ pc = "run" /\ pc' = "poll" => player = NoPlayer
     /\ pc = "run" /\ op.opcode = "STOP" /\ pc' = "check" => player' = NoPlayer /\ ~loaded']_vars

\* How many steps of the two threads are left at most, not counting those that wait.
Work ==
  6 * Len(main.calls) + 5 * Len(queue) +
    CASE pc = "lock" -> 0 [] pc = "check" -> 1 [] pc = "poll" -> 3 [] pc = "run" -> 4

\* Nothing is done twice: a step that no caller asks for leaves less to do, unless the
\* thread only waits, for something in the queue or for the player, so what was queued
\* is carried out however faults and steps fall together.
WorkShrinks ==
  [][Work' < Work \/ UNCHANGED <<main, queue, pc, op, loaded>> \/ ApiCall]_vars

\* Nothing is left to do on either thread.
Settled == main.calls = <<>> /\ queue = <<>> /\ pc = "check"

\* A chapter should be on the screen.
Showing == main.playing_state /\ main.chapter \in 1 .. MaxChapter

\* Whenever both threads are at rest the screen shows what the transport state
\* says: no player if nothing plays, and otherwise the current chapter, paused
\* or not.  A fault breaks this only until the next stop or seek.
ScreenMatches ==
  Settled /\ player.exact =>
    IF Showing
    THEN /\ loaded
         /\ player.phase = "playing"
         /\ player.chapter = main.chapter
         /\ player.paused = main.paused_state
    ELSE ~loaded /\ player = NoPlayer

\* The four fields of the main thread implement the transport: no sequence of
\* calls makes a combination of flags that none of its four modes stands for.
Mode ==
  IF ~main.power_state THEN "off"
  ELSE IF main.paused_state THEN "paused"
  ELSE IF main.playing_state THEN "playing"
  ELSE "idle"

Promise == INSTANCE Transport WITH LastChapter <- MaxChapter,
                                   mode <- Mode, track <- main.chapter

ImplementsTransport == Promise!Spec

\* Once callers fall silent, everything they asked for is carried out and the
\* screen stays right.
Converges == <>[][~ApiCall]_vars => <>[](Settled /\ ScreenMatches)

\* A seek that was accepted is eventually shown: when callers fall silent with
\* a chapter playing whose file exists, that chapter comes up on the screen.
SeekEventuallyShown ==
  /\ <>[][~ApiCall]_vars
  /\ <>[](Showing /\ main.chapter \notin MissingFiles)
  => <>[](player.phase = "playing" /\ player.chapter = main.chapter)

=============================================================================
