# serialdvdemu in TLA+

serialdvdemu emulates a DVD player with a serial port: a game cabinet or another
host sends commands over the line, the program answers and plays video files with
omxplayer.  This directory holds TLA+ modules of it, TLC configurations that check
them on small instances, and proofs for all instances.

## The system

| component | source | state it keeps | operations |
|---|---|---|---|
| main program | `DVDEmu.cpp` | none after start-up | find the disc type and chapter count, then for ever: read one byte, hand it to the protocol, write its response |
| Victor XV-D701 protocol (JLIP) | `Victor_XV-D701.cpp` | JLIP ID (also in the file `jlip_id`), the last 11 bytes received, the response | receive a byte; media, power and device packets |
| Toshiba SD-B100 protocol | `Toshiba_SD-B100.cpp` | the line received so far, the response | receive a byte; the commands of a line |
| video | `Video.cpp` | power, playing, paused, chapter; a 256-byte queue of opcodes; the playback thread's `loaded` | PowerOn, PowerOff, Play, Pause, Unpause, Stop, SeekToChapter; VideoThreadAction; the playback thread's loop |
| omxplayer, `control.sh` | `scripts/control.sh` | the player process | start, status, pause (a toggle), stop |
| serial port | `Serial.cpp` | the open port | read with a timeout, write, purge |
| host | `utils/JLIPTest.cpp` | none between commands | one request and its response per command; probing |
| start-up scripts | `scripts/start.sh`, `mount_first_usb.sh` | none | mount, start the program |

Two threads run in the program.  The main thread receives bytes, handles packets
and calls the video API; the playback thread takes opcodes from the queue and
drives omxplayer.  They share the queue (under a mutex, save for one read of
`queue_pos`) and `pause_delay`.  The transport fields of `video_state` belong to
the main thread; `loaded` to the playback thread.  The player is a separate
process that is reached by running shell commands.

What is hard: the main thread acknowledges a command before the playback thread
has begun with it, and decides from its own flags which opcodes to queue; the
player has one toggle for pause and unpause; a player may not come up, may end by
itself or may miss a toggle; the queue's size is never checked; the byte stream
has no framing but a preamble and a checksum; responses and requests may be lost
or late.  `PROJECT.json` lists each of these hazards with its line and the
properties about it.

What makes each component correct:

- video: the transport state goes through the modes off, idle, playing and paused
  only; the screen ends up as that state says; no opcode is dropped, doubled or
  meant for another player; the queue stays inside its array.
- Victor: exactly the well-formed packets with this device's ID are answered; an
  answer that is not OK, and a packet for another device, change nothing; an OK
  means that the command takes effect; the ID survives a restart.
- framing: every whole packet is recognised after any loss; a packet is never
  recognised where none was sent.
- Toshiba: the line stays in its buffers; it is obeyed for what was typed.
- host: a request is carried out at most once and while the host waits for it; what
  the host is told is the answer to that request, and has come true; the ID that
  probing finds is the device's; every run of the program ends.
- start-up: the player that runs is the one the disc asks for, with the disc's
  chapters; no byte is obeyed that came in before the program was ready.

## Modules

| module | what it is |
|---|---|
| `Transport` | abstract: off, idle, playing, paused, and a chapter |
| `Video` | `Video.cpp` with omxplayer and `control.sh`: the API functions, the queue, the playback thread, the player |
| `VideoInductive` | the inductive invariant of `Video` |
| `VideoProofs`, `VideoScreenProofs` | theorems about `Video` |
| `Deck` | abstract: the commands of a Victor with their answers, on `Transport`: as `utils/JLIPTest.cpp` and the repository's `README.md` document them, but for two points in which it follows the code (a pause of an idle device, a wrong checksum; findings 3 and 4) |
| `Victor` | the packet handlers of `Victor_XV-D701.cpp` on `Video`, the JLIP ID and its file, power cuts |
| `MCVictor` | values for the constants of `Victor` |
| `VictorProofs` | theorems about `Victor` |
| `PacketLine` | abstract: a line that hands over each packet once, as it was sent, or not at all |
| `JLIPFraming` | the window and checksum of `Victor_XV-D701.cpp` against a line that loses and changes bytes |
| `SetInduction` | induction over the first natural numbers, for the proofs about a loop and about a path of commands |
| `JLIPFramingProofs` | theorems about `JLIPFraming` |
| `Toshiba` | `Toshiba_SD-B100.cpp` on `Video`: the buffers as they lie in memory, the commands |
| `MCToshiba` | values for the constants of `Toshiba` |
| `ToshibaProofs` | theorems about `Toshiba` |
| `Remote` | abstract: what a host may rely on that asks a `Deck` for something: at most once, while it waits, and told the answer or that none came |
| `JLIPHost` | the host program `utils/JLIPTest.cpp` and its line to a `Deck` |
| `MCJLIPHost` | values for the constants of `JLIPHost` |
| `JLIPHostProofs` | theorems about `JLIPHost` |
| `DVDEmu` | the start-up: `scripts/start.sh`, `DVDEmu.cpp`, and opening, emptying and reading the port in `Serial.cpp` |
| `MCDVDEmu` | values for the constants of `DVDEmu` |
| `DVDEmuProofs` | theorems about `DVDEmu` |

`Victor` and `Toshiba` EXTEND `Video`: a handler enters an API function in the same
step in which it makes its response, and the API function's queueing steps follow.
`JLIPFraming` does not EXTEND `Victor` nor the other way round, because what it says does
not depend on what a packet asks for.  They meet in `PacketLine`, which `JLIPFraming`
implements: a handler is entered with a packet as it was sent, once and in its turn, or
not at all.  `Victor` takes over there, with a packet that was recognised (`good`) or
was not, and so does `JLIPHost`, where a request that was harmed is gone.  The program's main loop is the choice of the next byte or
packet in these modules.

`JLIPHost` EXTENDS `Deck`: the host talks to the device that `Victor` is proved to
implement, so the two sides meet in the abstract commands.  What stays between them
is the line, and on it the order of things: `JLIPHost` implements `Remote`.
`DVDEmu` ends where the other modules begin, and finds the values of their constants:
`MaxChapter` and `MissingFiles` of `Video`, `IsVCD` of `Victor`, and which of
`Victor` and `Toshiba` runs.

### State and code

`Video`: `main` holds the four transport fields of `struct video_state`, which only
the main thread touches, and `calls`, the `VideoThreadAction` calls that the running
function has still to make.  A function changes the fields when it is entered; each
of its calls is a step of its own, as each takes the lock by itself.  `queue` is the
array up to `queue_pos`, by commands; `Bytes` is the value of `queue_pos`.  A command
that does not fit sets `overflow` and ends the behaviour: what the program does then
is undefined.  `pc`, `op` and `loaded` are the playback thread's position and locals,
`player` is the process, `burst` counts calls since the queue was last empty.

| step of the playback thread | lines of `Video.cpp` |
|---|---|
| `ThreadCheck` | 35-39, the read without the lock |
| `ThreadDequeue` | 41-72 |
| `RunStop`, `RunToggle`, `RunPlay` | 77-115, the switch |
| `PollStatus` | 116-126, the wait for the player |

`Victor`: a request is named by its command instead of its bytes; parameters are
kept where a handler reads them.  A packet with a wrong checksum is `Damaged`,
whatever it asks for, one for another device is `NoRequest`.  `file` is what the program would read back from
`jlip_id`, `disk` the set of what may be there after a power cut: writing truncates
the file, so until the write-back the old number, none (0) and the new one are all
possible.  `PowerCut` starts the program and the player anew.  `Writable` is FALSE
where the file cannot be opened.

`JLIPFraming`: `window` is `victor_state.packet`; `heard` says that the byte of the
last step completed a packet.  The host's side is `sending` and `sent`; `lost`,
`changed` and `before` record what the line did, to state the properties.

`Toshiba`: `memory` is `struct toshiba_state`, packet and response next to each
other, so that a write past the end of the one is a write into the other.  `typed`
records the bytes of the line for the properties.

`JLIPHost`: `phase` is where `main` of the host program is: emptying the line
(`PurgeComm`), about to write a request, in `WAIT()`, or in the one read that follows.
`todo` holds the requests of the command that are still to be made, `probing` says that
the ID is still looked for and `target` is the ID in use.  A request on the line is
what the device makes of its packet; an answer is a row of bytes, of which those with
the status and before it matter one by one.  `arrived` counts those that are in the
input buffer.  `current` on packets and bytes, and `mine` in `result`, mark what
belongs to the request that was written last; the program has no such mark, and the
marks are only passed on, for the properties.  The
buffer of an answer comes from `malloc`, so the checksum of an answer that was cut off
behind the status may fit by chance.  A device that starts again drops the requests
that wait in its port (`Restart`).

| step of the host | lines of `JLIPTest.cpp` |
|---|---|
| `Start`, `PurgeComm`, `Purged` | 452-465, 1304-1321 |
| `Write`, `WaitOver`, `Read`, `Timeout` | one request: 562-577 and its likes, 378-440 |
| `ProbeFound`, `ProbeNext`, `ProbeFailed` | 1321-1336 |
| `CommandGoesOn` | 1339-1531, one command or the next request of `status` and `diskstatus` |

`DVDEmu`: `stage` is how far the start-up has got.  A file is a number: n for
`n.m4v`, 0 for `disc.cfg`, a negative one for anything else; `listed` are the files
whose type `readdir` reports as regular.  `there` is FALSE once the disc was pulled
out.  A byte in `input` is represented by the stage at which it came in, which is what
`FreshStart` is about.

## Runs

All runs check deadlock: the threads can always go on.  The one exception is
`dvdemu_start`, whose program may end: without a known disc, or without a port.

| run | what it shows | bounds |
|---|---|---|
| `video_safety` | queue, order of opcodes, screen, refinement of `Transport`, one player at a time and nothing done twice, with exiting players, lost toggles and a missing file; the inductive invariants hold of what is reachable | 3 chapters, the last of them the last value of the chapter byte (4 values), calls for 0 to 4, four calls ahead of the playback thread |
| `video_many_chapters` | finding: chapter 300 plays file 44 | 300 chapters, 4 of them asked for |
| `video_missing_file` | finding: a missing file stops all later seeks | 2 chapters, one missing |
| `victor_safety` | types, seeks and refinement of `Deck` (what is coded; for the documents see findings 3 and 4), with power cuts; an acknowledged chapter comes up although requests keep coming, and both threads come to rest with the right screen when they stop | 2 chapters, 3 IDs on the line, new IDs 0, 1 and 64, two calls ahead |
| `victor_pause_idle` | finding: a pause of an idle device | 2 chapters |
| `victor_damaged` | finding: no response to a wrong checksum | 2 chapters |
| `framing_faults` | the window recognises whole packets and nothing else, and implements `PacketLine` | packets of 6 bytes of 6 values, any two in a row short of at most two bytes, one changed byte per packet |
| `framing_three_lost` | finding: three lost bytes join two packets to one that nobody sent | as before, with three lost bytes and none changed |
| `toshiba_lines` | overlong, cut and broken lines are obeyed for what they say, and a chapter that is typed plays | buffers of 6 bytes, lines of up to 9, 12 chapters of which 3 and 12 are asked for, two calls ahead |
| `host_prompt` | types, answers, probing, refinement of `Remote`, and that every run gets shorter and ends, with prompt answers and a line that loses bytes | 2 chapters, a device at ID 1 or 2, IDs 1 and 2 probed, every command, answers of 3 bytes |
| `host_slow` | answers, refinement of `Remote` and the end of every run, with slow answers and a device that restarts | commands of one request to ID 1 or 2, a device at 1, 2 or 3 |
| `dvdemu_start` | types, chapter count, player and a fresh start | 8 discs, among them ones with other files, a gap, an unknown type and no type; three bytes in the port; an unsigned int of 4 bits |

Why the bounds are enough.  The main thread looks at the current chapter only through
"is it in bounds", "is it 1" and its neighbours, and 2 or 3 chapters have all of these
with a chapter below and above.  The queue's contents matter up to the longest run of
calls the thread can lag behind; with four calls every pair of functions is queued in
every order behind a third.  `victor_safety` needs fewer: what the handlers add is on
the main thread alone.  The framing window has a first, a second,
a last and inner bytes; 6 bytes give three that are not special, and the theorems
hold for any length.  In `toshiba_lines` the longest line is two bytes longer than
packet and the first byte of the response together, so it would reach the byte that
must stay zero; "CS1,12" just fills packet, so that it is read with the K of the
response behind it, and its chapter has two digits.  An answer of 3 bytes has its preamble, its status and what follows
it: it can be cut off before, at and behind the status.  With two IDs, a probe finds
the device at once, after an ID that is not there, or not at all, and there is an
answer of one ID that could be taken for the next one's.  How many requests and bytes
are under way is not bounded by a constant: with prompt and slow answers the host's own
pace bounds it.

`MaxBurst` is a bound of the model AND an assumption about hosts: nothing in the code
keeps a host from sending more commands than the playback thread carries out while a
player comes up.  The queue has 256 bytes and a call leaves
at most four, so a host may be 64 calls ahead; `QueueFits` states just that, and the
theorem `QueueNeverOverflows` says it for every size.  They would find a function that
queues more than it does now; they do not forbid the overrun as such.  What lies behind
the array is overwritten by a host that is further ahead.

## Fairness

`FairSpec` and `VictorFairSpec` assume weak fairness of three things: the main thread
making the calls of a function it has entered, the playback thread (both are ordinary
threads that hold the mutex for a few assignments, and neither waits for the other
while it holds it), and a player that was started coming up.  The last is an
assumption about omxplayer, made only for chapters whose file exists.  Nothing is
assumed of hosts, faults, write-backs and power cuts.

`HostFairSpec` assumes weak fairness of the host program once it was started (its
waits and reads have time limits), of a device handling a request that has arrived
(`Handle`; one that is not meant for it is passed over) and of bytes arriving that
were sent and not lost.  Nobody has to start the program, and no fault has to happen.

## Proofs

All theorems hold for every value of the constants that satisfies the named
assumptions (`VideoAssumption`, `VictorAssumption`, `FramingAssumption`,
`ToshibaAssumption`, `HostAssumption`, `DVDEmuAssumption`) and what a theorem itself assumes.

*Queue and thread* (`VideoProofs`).  `TypeCorrect`; `UnlockedReadSafe`: once the
playback thread has seen a queue that is not empty, only it can empty the queue;
`QueueBounded`: `QueueInv` bounds the bytes in the queue and in the running function by
four per call of the burst, if `4 * MaxBurst <= QueueSize`; `QueueNeverOverflows`
follows.  `OnePlayerAtATime` needs an invariant of its own, `PlayerKnown`: a player that
the flag `loaded` does not tell of is one that the playback thread is just waiting for.
`NothingIsRepeated` is about a measure, `Work`, of what the two threads have still to do:
a step of theirs makes it smaller unless the playback thread only waits, and faults and
players leave it alone.  It is the part of `Converges` and `AcknowledgedShown` that can be
proved here; what stays with TLC is that the steps are taken.

*Screen* (`VideoScreenProofs`).  `ScreenMatches` is not inductive: it speaks only of
moments when both threads rest.  `ScreenInv` speaks of all moments.  It says that the
commands in hand, in the queue and still to be queued by the running function form a
path of views (chapter and paused, or nothing), from what the player shows to what
the transport fields want, in which each command is meant for the view before it
(`LeadTo`: the last view is one of those that the commands can reach from the first,
and induction over the commands gives the views in between, `LeadAlong`).  An API
function appends a piece of path from the old wanted view to the
new one (one lemma per function), `VideoThreadAction` and `ThreadDequeue` move the
border between the parts, and carrying out a command takes the first step of the
path.  After a fault the path need not begin at what is seen; the next STOP, alone or
of a seek, makes it do so again.  `ScreenIsRight` assumes fewer chapters
than a byte has values; the run `video_many_chapters` shows that it has to.

*Transport* (`VideoProofs`, `TransportImplemented`).  Each API function, under the flags'
invariant, is a step of `Transport` or none; every other step is none.

*Victor* (`VictorProofs`).  Every step is a step of `Video` or, at a power cut, a new
start (`VictorIsVideo`), so what is proved of the video component carries over:
`VictorScreen` has the screen's invariant, `VictorVideo` the types, the refinement of
`Transport` (a power cut is one of its starts) and one player at a time.
`VictorTypeCorrect` and `DeckImplemented` need one more invariant, that whatever is
not yet written back is the ID in use; each request is then matched with the command
of `Deck` it implements, by the lemmas about the API functions.  `DeckImplemented`
says that the emulation does what `Deck` says, which in the two points named there is
not what is documented.  `SeeksHonoured` is
about a DVD; a lemma says that the three parameters the host makes of a chapter below
100 are put together to the same chapter.

*Framing* (`JLIPFramingProofs`).  `FramingInv` says what the window ends with while a
packet comes in whole; it holds however many bytes are lost, and gives
`WholePacketHeard` without any bound.  That nothing else is recognised needs
`AlignedInv`, which says where bytes with the top bit can
be: where the first two bytes of the packet under way have got to, or those of the
packet before, which is short of the bytes it lost (`TopsAt`).  A packet needs two of
them in front.  If they are those of the packet under way, all of it has arrived; if
they are the ones before, at most as many bytes of the packet under way have arrived
as were lost, that is two less the ones it lost itself, so the last byte of the
window is one of its first two and no checksum.  This needs the bound of two lost
bytes in two packets, which nothing in the code gives: it is an assumption of
`NoFalsePacket`, `HeardWasSent` and `LineOfPackets` themselves (`MaxLost <= 2`), and with
three they are false (finding 5).
`HeardWasSent` is about the checksum: two windows that differ in the low bits of one byte
have sums that differ by less than `Half`, but do differ, so at most one of them fits
(`OneChangeShows`).  The sum is a loop over the packet, so what it adds up is found by
induction over the set of the places up to which the claim holds (`SetInduction`), first
that such a sum exists (`SumsExist`), then that a changed byte changes it by as much as
itself (`SumsDiffer`).  `LineOfPackets` puts the three together: with at most one
changed byte per packet (`MaxChanged <= 1`) the window implements `PacketLine`.  With two
the changes may make up for each other, and it does not.

*Toshiba* (`ToshibaProofs`).  `MemoryInv` says that packet holds what was typed as far
as it fits, and that at most the first two bytes behind it are not zero.  A byte that
does not fit goes into the first byte of the response, and the next byte clears it
before it is stored: so the text never gets longer.  `EveryLineObeyed` also needs
that the K which ProcessPacket writes into the response before it looks at the line,
and which a full buffer therefore runs on into, does not change what the line says
(`MeaningWithK`, `ChapterWithK`).  `TypedChapterPlays` goes from the digits to the player's
chapter: a line has one place where sscanf finds the two numbers (`OneField`), the second
is the chapter that was typed (`NumberOfOne`, `NumberOfTwo`), and the call of the video
API makes it current.  It is for a title of one digit and chapters of one or two, the
lengths that a buffer of six bytes holds; `PacketLen` is 256 in the program.
`ToshibaScreen` and `ToshibaVideo` are the video component's promises inside the
emulation, and `ToshibaTypeCorrect` its types.

*Host* (`JLIPHostProofs`).  `HostTypesCorrect` and `RunGetsShorter` hold for any delay and
any faults.  The latter is about the number of steps a run has left (`StepsLeft`): three
for each request still to be made, of which probing makes one per ID; that no ID is tried
past the last one, from the types, keeps it from going below zero.  Together with the
fairness of the host it gives `RunEnds`, which is left to TLC.
The other four assume answers in time (`InTime`): they are prompt (`Delay = "short"`: what
will come of an answer has come when `WAIT()` is over), which is what the program's
authors assumed when they read once; or they are slow (`"medium"`), but commands have one
request and the ID is given, so that the line is emptied before each request.  Their
invariant is `Orderly`: nothing is under way between two requests, save that the rest of
a slow answer may still come in while the host rests; and what is under way during one is
its packet or the answer to it.  From it follow
`AnswersBelong`, with restarts of the device and chance checksums included, and
`HostImplementsRemote`: `Handle` is the one execution of the call, the read tells its
answer.  `ToldIsTrue` adds the invariant `Told`: the device is as its answer says from
the moment it answers to the host's next request (`AnswerTrue`, one case per command).
It assumes that no power cut comes between, and arguments that two digits and six bits
can carry.  `FoundIsTrue` does the same for the ID found by probing.

*Start-up* (`DVDEmuProofs`).  `StartInv` says which stages know what: from the opening
of the port on, the type is the disc's and the parity the type's; once the chapters are
counted and as long as the disc is there, the count is that of its listed files; after
the purge, nothing in the port is older than that.  `CountIsRight` then is a fact about
the number of elements of a set with and without the type file.  `StartTypeCorrect` has
the types only; that the count is an unsigned int comes from the conversion in the
definition of `ChapterCount` and is no result.

Only model-checked: liveness under fairness (`Converges`, `AcknowledgedShown`, `RunEnds`),
which is out of the prover's reach, as ENABLED is; `WorkShrinks` and `RunShrinks` are proved in their
place.  Every invariant and every action property of a passing run, and every refinement,
is stated by a theorem.

## Findings

1. Chapters above 255 are acknowledged and another one is played
   (`video_many_chapters`).
2. A chapter whose file is missing makes the playback thread wait for ever, while
   later seeks are still acknowledged (`video_missing_file`).
3. A pause of an idle device is answered with OK and ignored, where the host
   program's documentation says that chapter 1 is queued up paused
   (`victor_pause_idle`).
4. A command with a wrong checksum gets no response, where the repository's
   `README.md:30-31` says that it does (`victor_damaged`).
5. When a packet loses a byte behind its preamble and the next packet loses its
   preamble, the first bytes of the next are taken for the end of the one before: a
   packet is recognised that nobody sent, if the checksum fits.  The comment at
   `DVDEmu.cpp:229-234` says that the start of a message cannot be a mistake
   (`framing_three_lost`).

Where the assumptions of the host's properties do not hold, the model leaves them, and
so does the program:

- Slow answers (`Delay = "medium"`) while probing: the host reads once and takes the
  first bytes for all there is (`JLIPTest.cpp:386-407`), so a device whose answer is
  just coming in is passed over.
- Slow answers and a command of several requests (`host_slow` with `Status` among the
  scripts): the rest of such an answer, or the answer itself, is taken for the answer
  to the next request, and `AnswerBelongs` is violated.  Neither the ID nor the command
  of an answer is compared (`JLIPTest.cpp:530-546`), and the line is emptied only when
  the program starts (`JLIPTest.cpp:1315`).
- Late answers (`Delay = "long"`, `LastProbe = 3`) while probing: the answer of one ID
  is taken for that of the next, and `FoundIsThere` is violated.
- A new ID of 65 is sent as 1 (`JLIPTest.cpp:914`) and acknowledged: `ToldTruly` is
  violated with `SetIds({65})` among the scripts and 1 among the new IDs.

Two more differences have no run of their own.  On a video CD the host program and the
emulation disagree about which digits hold the chapter: the host sends the tens and
the units last, for every disc (`JLIPTest.cpp:1170`), the emulation drops the last digit
(`Victor_XV-D701.cpp:209-213`, whose comment says why), so the host's chapter 12 plays
chapter 1; `SeekHonoured` is checked and proved for a DVD, and false with `IsVCD`.
And the chapter count leaves out one file whether the type file is
among those counted or not (`DVDEmu.cpp:211`): with a type file that is a link, or on a
file system that reports no types, `max_chapter` is one too small or -1 as an unsigned
int; `ChaptersInBounds` is about discs all of whose files are regular.

## Assumptions about the environment

- The commands `control.sh stop`, `pkill` and the like have taken effect when they
  return; omxplayer starts a chapter at its beginning, not paused.
- The array `packet` of `struct toshiba_state` is followed by `response` without a
  gap, as arrays of characters are, and the compiler does not make use of the write
  past its end being undefined.
- Hosts send no byte with the top bit set but the two of the preamble (the comment in
  `DVDEmu.cpp`).  The line changes low bits only: the checksum does not cover the top
  bit, so a byte whose top bit is changed is taken for another one (`NoPhantom` would
  be false).
- How long an answer takes (`Delay`): "short", all that will come of it has come when
  `WAIT()` is over; "medium", it begins within `WAIT()` and the time limit of the read;
  "long", at any time.
- The device does not recognise a packet that it gets in part or with a lost byte
  (that is what `PacketLine` says and `JLIPFraming` implements, up to two lost bytes in
  two packets), so such a request is gone.  A write that is cut off by more leaves bytes
  that the start of the next request may complete by chance (finding 5); `JLIPHost` leaves
  that out.  The next whole packet is recognised in any case.
- The seek bytes of a Toshiba hold plain numbers that fit an int.

## Not modelled

- `VideoSetPauseDelay`: nothing calls it, so the delay before an UNPAUSE is 0.
- The host program's `raw` and `sweep`, which send any bytes and judge no answer; how
  the answers of the queries are printed (to `Deck` they are one request, with one
  answer); the Windows variant of its line functions.
- The settings of the port but its parity, `CloseSerial`, which is not reached, and an
  adapter that is unplugged while the program runs: what the kernel then reports is not
  in the sources.
- A restart of the program alone, with the player of the run before still there: the
  scripts start it once.
- Printing, the curses screen, argument checks, and which device
  `mount_first_usb.sh` finds first: any disc may be the one.

## Plan

Done: `Transport`, `Video`, `Deck`, `Victor`, `PacketLine`, `JLIPFraming`, `Toshiba`,
`Remote`, `JLIPHost` and `DVDEmu`, with their proofs.  Left, in this order:

1. Theorems: the queue's bound inside `Victor` without the burst as a ghost variable; a
   measure for `Victor` across power cuts.
2. `TypedChapterPlays` for numbers of any length, by induction over their digits.
3. `raw` and `sweep` against the framing.  `Aligned` does not hold for changed top bits:
   a checksum of Half - 1 whose top bit gets set reads like the preamble's first byte, and
   the packet behind it may be recognised one byte early; this needs another bound than
   the two lost bytes.
