---------------------------- MODULE JLIPFraming ----------------------------
(***************************************************************************)
(* How the Victor emulation finds packets in the byte stream               *)
(* (VictorReceiveByte, IsPacketGood and CalcChecksum of                    *)
(* Victor_XV-D701.cpp): the last PacketLen bytes are kept in a window that *)
(* moves on by one with every byte, and the window is looked at each time. *)
(* Nothing marks where a packet ends, and the window is never cleared.     *)
(*                                                                         *)
(* A host sends one packet after the other; on the way bytes are lost, or  *)
(* arrive with other low bits.  The parity bit of the line is not looked   *)
(* at (Serial.cpp sets no INPCK).                                          *)
(***************************************************************************)
EXTENDS Integers, Sequences

CONSTANTS
  PacketLen,  \* PACKET_LEN, 11 in the program
  Half,       \* bytes below Half have the top bit clear: 128
  MaxLost,    \* bound: bytes lost of any two packets in a row; the line has none
  MaxChanged  \* bound: bytes changed of one packet

ASSUME FramingAssumption ==
  /\ PacketLen \in Nat /\ PacketLen >= 5
  /\ Half \in Nat \ {0}
  /\ MaxLost \in Nat
  /\ MaxChanged \in Nat

VARIABLES
  window,   \* victor_state.packet
  heard,    \* the byte that has just come completed a packet
  sending,  \* the packet the host is sending
  sent,     \* how many of its bytes have been sent
  lost,     \* how many of those were lost
  changed,  \* and how many arrived changed
  before    \* how many bytes of the packet before were lost

framingVars == <<window, heard, sending, sent, lost, changed, before>>

Bytes == 0 .. 2 * Half - 1

Preamble == 2 * Half - 1

-----------------------------------------------------------------------------
(* Recognising a packet.                                                   *)

\* Slip: the loop ends one byte early.
SumButOne(p) ==
  LET sum[i \in 0 .. PacketLen - 2] == IF i = 0 THEN 0 ELSE sum[i - 1] + (p[i] % Half)
  IN sum[PacketLen - 2]

\* The low bits of all bytes but the checksum.
Sum(p) ==
  LET sum[i \in 0 .. PacketLen - 1] == IF i = 0 THEN 0 ELSE sum[i - 1] + (p[i] % Half)
  IN sum[PacketLen - 1]

\* Slip: the received checksum is masked like the other bytes.
ChecksumMasked(p) == (Sum(p) + p[PacketLen]) % Half = 0

\* The last byte is CalcChecksum of the others: its top bit is clear, and it
\* brings the sum of the low bits to a multiple of Half.
ChecksumMatches(p) == p[PacketLen] < Half /\ (Sum(p) + p[PacketLen]) % Half = 0

\* Slip: the preamble of a response is expected.
IsResponseGood(p) == p[1] = Preamble - 1 /\ p[2] = Preamble /\ ChecksumMatches(p)

IsPacketGood(p) == p[1] = Preamble /\ p[2] = Preamble /\ ChecksumMatches(p)

\* The packets of a host: no command, parameter or ID uses the top bit.
HostPackets ==
  {p \in [1 .. PacketLen -> Bytes] :
     /\ p[1] = Preamble /\ p[2] = Preamble
     /\ \A i \in 3 .. PacketLen : p[i] < Half
     /\ ChecksumMatches(p)}

-----------------------------------------------------------------------------

FramingInit ==
  /\ window = [i \in 1 .. PacketLen |-> 0]
  /\ heard = FALSE
  /\ sending \in HostPackets
  /\ sent = 0 /\ lost = 0 /\ changed = 0 /\ before = 0

\* Slip: the window is looked at before it moves on.
ReceiveByteLate(byte) ==
  /\ window' = [i \in 1 .. PacketLen |-> IF i = PacketLen THEN byte ELSE window[i + 1]]
  /\ heard' = IsPacketGood(window)

\* VictorReceiveByte: move the window on and look at it.
VictorReceiveByte(byte) ==
  /\ window' = [i \in 1 .. PacketLen |-> IF i = PacketLen THEN byte ELSE window[i + 1]]
  /\ heard' = IsPacketGood(window')

Arrive ==
  /\ sent < PacketLen
  /\ VictorReceiveByte(sending[sent + 1])
  /\ sent' = sent + 1
  /\ UNCHANGED <<sending, lost, changed, before>>

\* A byte arrives with other low bits.
ArriveChanged ==
  /\ sent < PacketLen
  /\ changed < MaxChanged
  /\ \E byte \in Bytes :
       /\ byte # sending[sent + 1]
       /\ byte < Half <=> sending[sent + 1] < Half
       /\ VictorReceiveByte(byte)
  /\ sent' = sent + 1
  /\ changed' = changed + 1
  /\ UNCHANGED <<sending, lost, before>>

Lose ==
  /\ sent < PacketLen
  /\ before + lost < MaxLost
  /\ sent' = sent + 1
  /\ lost' = lost + 1
  /\ heard' = FALSE
  /\ UNCHANGED <<window, sending, changed, before>>

\* The host goes on with its next packet.
SendNext ==
  /\ sent = PacketLen
  /\ sending' \in HostPackets
  /\ before' = lost
  /\ sent' = 0 /\ lost' = 0 /\ changed' = 0
  /\ heard' = FALSE
  /\ UNCHANGED window

FramingNext == Arrive \/ ArriveChanged \/ Lose \/ SendNext

FramingSpec == FramingInit /\ [][FramingNext]_framingVars

-----------------------------------------------------------------------------
(* Properties.                                                             *)

\* A packet is recognised only at the end of one that was sent and all of whose
\* bytes arrived: never in the middle, nor across the remains of two.  The comment
\* on the loop in main of DVDEmu.cpp rests on it: "the start of message can't be a
\* mistake".  It is true as long as at most two bytes of any two packets in a row
\* are lost; with three, the end of one packet and the start of the next can make
\* a packet that nobody sent.
Aligned == heard => sent = PacketLen /\ lost = 0

\* A packet that arrives whole is recognised, whatever became of those before it and
\* however much of them was lost.
Recognised == sent = PacketLen /\ lost = 0 /\ changed = 0 => heard

\* What is recognised is what was sent, if at most one byte of it was changed (and,
\* as for Aligned, at most two of two packets in a row are lost).
NoPhantom == heard /\ changed <= 1 => window = sending

\* The window implements a line of packets: what is handed over to the handlers is
\* each packet that nothing happened to, once and in its turn, and nothing else (the
\* comment on the loop in main of DVDEmu.cpp: "we can simply feed every byte").
\* Like Aligned it is true for up to two lost bytes of two packets in a row.
Line == INSTANCE PacketLine WITH
          Packets <- HostPackets,
          packet  <- sending,
          coming  <- sent < PacketLen,
          harmed  <- lost + changed > 0,
          handed  <- IF heard THEN window ELSE <<>>

ImplementsPacketLine == Line!PacketLineSpec

=============================================================================
