------------------------------- MODULE Remote -------------------------------
(***************************************************************************)
(* What a host may rely on that asks a device for something over the       *)
(* serial line: the device does it at most once, and only while the host   *)
(* is waiting; the host is told either the answer it gave to this request, *)
(* or that none came, which leaves open whether it was done.               *)
(***************************************************************************)
EXTENDS Deck

VARIABLES
  call,  \* the request the host is waiting for, and what the device answered
  told   \* what the host was told last

remoteVars == <<deckVars, call, told>>

NoCall ==
  [to |-> 0, request |-> [command |-> "none", arg |-> 0], answer |-> "none"]

Waiting == call # NoCall

RemoteInit == DeckInit /\ call = NoCall /\ told = "none"

\* The host asks some device for something.
Ask ==
  /\ ~Waiting
  /\ call' # NoCall /\ call'.answer = "none"
  /\ UNCHANGED <<deckVars, told>>

\* The device it is meant for does what is asked for, if it has not done so yet.
Execute ==
  /\ Waiting /\ call.answer = "none"
  /\ call.to = id
  /\ AskTransport \/ AskSetId
  /\ request' = call.request
  /\ call' = [call EXCEPT !.answer = answer'.status]
  /\ UNCHANGED told

Ignore == Waiting /\ call.to # id /\ Silence /\ UNCHANGED <<call, told>>

Tell ==
  /\ Waiting /\ call.answer # "none"
  /\ told' = call.answer
  /\ call' = NoCall
  /\ UNCHANGED deckVars

GiveUp ==
  /\ Waiting
  /\ told' = "BAD"
  /\ call' = NoCall
  /\ UNCHANGED deckVars

DeviceAlone == (Settle \/ PowerCut) /\ UNCHANGED <<call, told>>

RemoteNext ==
  Ask \/ Execute \/ Ignore \/ Tell \/ GiveUp \/ DeviceAlone

RemoteSpec == RemoteInit /\ [][RemoteNext]_remoteVars
=============================================================================
