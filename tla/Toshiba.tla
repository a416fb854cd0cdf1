------------------------------ MODULE Toshiba ------------------------------
(***************************************************************************)
(* The Toshiba SD-B100 emulation (Toshiba_SD-B100.cpp) on top of the video *)
(* component: a line of text is collected byte by byte in a buffer that    *)
(* nothing guards, obeyed when the carriage return comes, and answered.    *)
(*                                                                         *)
(* The two buffers of struct toshiba_state lie next to each other, and the *)
(* end of the text in them is where the first zero byte is, so a line that *)
(* is too long runs into the response; memory holds both as they lie.      *)
(***************************************************************************)
EXTENDS Video

CONSTANTS
  PacketLen,  \* PACKET_LEN, 256 in the program
  Lines       \* what hosts send between two carriage returns: texts, and all
              \* their beginnings, since bytes may be lost

VARIABLES
  memory,  \* toshiba_state: packet, then response
  typed,   \* the bytes received since the last carriage return, zeros left out
  reply    \* what the byte that came last made the program write

toshibaVars == <<memory, typed, reply>>

allVars == <<vars, toshibaVars>>

-----------------------------------------------------------------------------
(* Text.  A byte is a string of one character, but for these.              *)

Nul   == "nul"
CR    == "cr"
Comma == "comma"

CharactersOf(line) == {line[i] : i \in DOMAIN line}

\* The bytes that come and the ones that are written into the response.
Byte == {Nul, CR, "K", "E"} \cup UNION {CharactersOf(l) : l \in Lines}

Digits == <<"0", "1", "2", "3", "4", "5", "6", "7", "8", "9">>

DigitSet == {Digits[i] : i \in DOMAIN Digits}

Value(c) == (CHOOSE i \in DOMAIN Digits : Digits[i] = c) - 1

\* The number they stand for, 0 if there are none.
NumberOf(digits) ==
  LET upTo[k \in 0 .. Len(digits)] ==
        IF k = 0 THEN 0 ELSE 10 * upTo[k - 1] + Value(digits[k])
  IN upTo[Len(digits)]

\* sscanf("%d,%d"): where the comma is behind the digits of a title, and where the
\* digits of the chapter behind it end.
Fields(line) ==
  {f \in (4 .. Len(line)) \X (4 .. Len(line)) :
     /\ line[f[1]] = Comma /\ \A i \in 3 .. f[1] - 1 : line[i] \in DigitSet
     /\ f[1] <= f[2] /\ \A i \in f[1] + 1 .. f[2] : line[i] \in DigitSet
     /\ f[2] < Len(line) => line[f[2] + 1] \notin DigitSet}

\* Slip: the title is taken for the chapter.
TitleOf(line) ==
  IF Fields(line) = {} THEN 0
  ELSE LET f == CHOOSE f \in Fields(line) : TRUE
       IN NumberOf(SubSeq(line, 3, f[1] - 1))

\* A chapter that is not there stays 0.
ChapterOf(line) ==
  IF Fields(line) = {} THEN 0
  ELSE LET f == CHOOSE f \in Fields(line) : TRUE
       IN NumberOf(SubSeq(line, f[1] + 1, f[2]))

\* What a line asks for.  Some commands are compared whole, some by their first
\* two letters; the latter with a number that only CS makes use of.
Meaning(line) ==
  LET verb == <<line[1], line[2]>>
      whole == {<<"R", "E">>, <<"C", "L">>, <<"P", "L">>, <<"P", "U">>}
      prefixes == {<<"W", "G">>, <<"K", "L">>, <<"V", "M">>, <<"R", "P">>, <<"C", "S">>}
  IN IF \/ Len(line) = 2 /\ verb \in whole
        \/ Len(line) >= 2 /\ verb \in prefixes
     THEN verb ELSE <<>>

Answer(line) == IF Meaning(line) = <<>> THEN "E" ELSE "K"

\* ProcessPacket: the calls of the video API.
Obey(line) ==
  LET verb == Meaning(line)
  IN CASE verb \in {<<"R", "E">>, <<"C", "L">>} -> PowerOn(main)
       [] verb = <<"P", "L">> -> Play(main)
       [] verb = <<"P", "U">> -> Pause(main)
       [] verb = <<"C", "S">> -> SeekToChapter(main, ChapterOf(line))
       [] OTHER -> main

ASSUME ToshibaAssumption ==
  /\ PacketLen \in Nat /\ PacketLen >= 3
  /\ Lines \subseteq Seq(STRING)
  /\ \A l \in Lines : \A i \in DOMAIN l : l[i] \notin {Nul, CR}
  /\ 1 .. MaxChapter \subseteq ChapterArgs

-----------------------------------------------------------------------------
(* The two buffers.                                                        *)

Size == 2 * PacketLen

\* The zero byte that ends the text at a place, and the text.
End(mem, at) ==
  CHOOSE e \in at .. Size :
    /\ e < Size => mem[e] = Nul
    /\ \A i \in at .. e - 1 : mem[i] # Nul

Text(mem, at) == [i \in 1 .. End(mem, at) - at |-> mem[at + i - 1]]

\* Slip: the response of the line before is left where it is.
LeaveResponse(mem) == mem

\* A response that was read is cleared when the next byte comes.
ClearResponse(mem) ==
  [i \in 0 .. Size - 1 |->
     IF i >= PacketLen /\ mem[PacketLen] # Nul THEN Nul ELSE mem[i]]

\* Slip: the line is left in the buffer.
LeavePacket(mem) == mem

ClearPacket(mem) == [i \in 0 .. Size - 1 |-> IF i < PacketLen THEN Nul ELSE mem[i]]

\* strcpy of a text of one character to the response.
SetResponse(mem, c) == [mem EXCEPT ![PacketLen] = c, ![PacketLen + 1] = Nul]

-----------------------------------------------------------------------------

ToshibaInit ==
  /\ Init
  /\ memory = [i \in 0 .. Size - 1 |-> Nul]
  /\ typed = <<>>
  /\ reply = <<>>

\* A byte that is not a carriage return goes to the end of the text in packet.
Collect(byte) ==
  /\ LET clear == ClearResponse(memory)
     IN memory' = [clear EXCEPT ![End(clear, 0)] = byte]
  /\ ~overflow /\ main.calls = <<>>
  /\ reply' = <<>>
  /\ UNCHANGED vars

Begins(text, line) ==
  Len(text) <= Len(line) /\ text = SubSeq(line, 1, Len(text))

\* It is the next one of a line that some host sends.
ReceiveCharacter ==
  \E l \in Lines :
    /\ Begins(typed, l) /\ typed # l
    /\ Collect(l[Len(typed) + 1])
    /\ typed' = Append(typed, l[Len(typed) + 1])

\* A zero byte on the line: it is written over the zero byte there.
ReceiveNul == Collect(Nul) /\ UNCHANGED typed

\* A carriage return: ProcessPacket writes the response before it looks at the
\* line, then the line is cleared, and ToshibaGetResponse adds a carriage return
\* to the response.
ReceiveCR ==
  LET started == SetResponse(ClearResponse(memory), "K")
      line == Text(started, 0)
      answered == ClearPacket(SetResponse(started, Answer(line)))
  IN /\ Invoke(Obey(line))
     /\ memory' = [answered EXCEPT ![End(answered, PacketLen)] = CR]
     /\ reply' = Text(memory', PacketLen)
     /\ typed' = <<>>

ToshibaReceiveByte == ReceiveCharacter \/ ReceiveNul \/ ReceiveCR

ToshibaNext ==
  \/ ToshibaReceiveByte
  \/ /\ VideoThreadAction \/ VideoThread \/ PlayerReady \/ PlayerExit
     /\ UNCHANGED toshibaVars

ToshibaSpec == ToshibaInit /\ [][ToshibaNext]_allVars

-----------------------------------------------------------------------------
(* Properties.                                                             *)

\* The types; the response, with its carriage return, has at most two characters.
ToshibaTypeOK ==
  /\ memory \in [0 .. Size - 1 -> Byte]
  /\ typed = <<>> \/ \E l \in Lines : Begins(typed, l)
  /\ reply \in {<<>>, <<"K", CR>>, <<"E", CR>>}

\* However long a line gets, nothing is written behind the first two bytes of the
\* response: a byte that does not fit is cleared again when the next one comes
\* (the unchecked index in ToshibaReceiveByte).
Contained == \A i \in PacketLen + 2 .. Size - 1 : memory[i] = Nul

\* What fits into the buffer of what was typed.
Kept(line) == SubSeq(line, 1, IF Len(line) > PacketLen THEN PacketLen ELSE Len(line))

\* A line is obeyed and answered for what was typed since the last carriage
\* return, cut off where the buffer ends: nothing of the lines before it, of
\* zero bytes or of a response in its way gets into it.
LineObeyed ==
  [][typed # <<>> /\ ReceiveCR =>
       /\ main' = Obey(Kept(typed))
       /\ reply' = <<Answer(Kept(typed)), CR>>]_allVars

\* How a chapter is asked for, with a title of one digit.
ChapterLine(title, c) ==
  <<"C", "S", title, Comma>> \o
    IF c < 10 THEN <<Digits[c + 1]>> ELSE <<Digits[(c \div 10) + 1], Digits[(c % 10) + 1]>>

\* The chapter that is typed is the one that becomes current, if it is on the disc and
\* the device is on: the number survives the buffer, the end of the line and the two
\* fields it is read from.
SeekTyped ==
  [][ReceiveCR =>
       \A title \in DigitSet, c \in 1 .. 99 :
         typed = ChapterLine(title, c) /\ CanSeek(main, c) =>
           main'.chapter = c /\ main'.playing_state]_allVars

=============================================================================
