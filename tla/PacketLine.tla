----------------------------- MODULE PacketLine -----------------------------
(***************************************************************************)
(* What the handlers of the Victor emulation rely on, and the hosts with   *)
(* them: packets come one after the other, a packet that nothing happens   *)
(* to on its way is handed over once, as it was sent and when all of it    *)
(* has come, and of one that was harmed nothing is handed over.            *)
(***************************************************************************)

CONSTANT Packets

VARIABLES
  packet,  \* the packet that was sent last
  coming,  \* it is on its way
  harmed,  \* something happened to it
  handed   \* the packet that was handed over in the last step, if one was

packetLineVars == <<packet, coming, harmed, handed>>

Nothing == <<>>

PacketLineInit ==
  /\ packet \in Packets
  /\ coming = TRUE /\ harmed = FALSE /\ handed = Nothing

Harm ==
  /\ coming
  /\ harmed' = TRUE
  /\ UNCHANGED <<packet, coming, handed>>

HandOver ==
  /\ coming /\ ~harmed
  /\ coming' = FALSE
  /\ handed' = packet
  /\ UNCHANGED <<packet, harmed>>

\* It was harmed before, or is at its end.
PassOver ==
  /\ coming
  /\ coming' = FALSE /\ harmed' = TRUE
  /\ UNCHANGED <<packet, handed>>

NextPacket ==
  /\ ~coming
  /\ packet' \in Packets
  /\ coming' = TRUE /\ harmed' = FALSE /\ handed' = Nothing

PacketLineNext == Harm \/ HandOver \/ PassOver \/ NextPacket

PacketLineSpec == PacketLineInit /\ [][PacketLineNext]_packetLineVars
=============================================================================
