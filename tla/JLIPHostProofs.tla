--------------------------- MODULE JLIPHostProofs ---------------------------
(***************************************************************************)
(* Theorems about the host program and its line, for every set of IDs and  *)
(* commands and every length of an answer: whatever is lost, the host's    *)
(* variables stay in their types; and as long as answers are as prompt as  *)
(* WAIT() expects them to be, or slower but asked for one at a time, an    *)
(* answer is taken for the answer to its own request, every request is     *)
(* carried out at most once, while the host waits for it, and the device   *)
(* is as the host was told.                                                *)
(***************************************************************************)
EXTENDS JLIPHost, SequenceTheorems, TLAPS

-----------------------------------------------------------------------------
(* Sequences.                                                              *)

LEMMA RemoveAtType ==
  ASSUME NEW S, NEW s \in Seq(S), NEW i \in 1 .. Len(s)
  PROVE  /\ RemoveAt(s, i) \in Seq(S)
         /\ Len(RemoveAt(s, i)) = Len(s) - 1
<1> DEFINE front == SubSeq(s, 1, i - 1)
           back == SubSeq(s, i + 1, Len(s))
<1>1. Len(s) \in Nat /\ i \in Nat
  BY LenProperties
<1>2. \A k \in 1 .. Len(s) : s[k] \in S
  BY ElementOfSeq
<1>3. front \in Seq(S) /\ Len(front) = i - 1
  <2>1. \A k \in 1 .. i - 1 : s[k] \in S
    BY <1>1, <1>2
  <2> QED
    BY <1>1, <2>1, SubSeqProperties
<1>4. back \in Seq(S) /\ Len(back) = Len(s) - i
  <2>1. \A k \in i + 1 .. Len(s) : s[k] \in S
    BY <1>1, <1>2
  <2> QED
    BY <1>1, <2>1, SubSeqProperties
<1>5. front \o back \in Seq(S) /\ Len(front \o back) = Len(front) + Len(back)
  BY <1>3, <1>4, ConcatProperties
<1>6. RemoveAt(s, i) = front \o back
  BY DEF RemoveAt
<1> HIDE DEF front, back
<1>7. (i - 1) + (Len(s) - i) = Len(s) - 1
  BY <1>1
<1> QED
  BY <1>3, <1>4, <1>5, <1>6, <1>7

\* What is left of a sequence when its first elements were taken.
LEMMA RestType ==
  ASSUME NEW S, NEW s \in Seq(S), NEW n \in 0 .. Len(s)
  PROVE  /\ SubSeq(s, n + 1, Len(s)) \in Seq(S)
         /\ Len(SubSeq(s, n + 1, Len(s))) = Len(s) - n
<1>1. Len(s) \in Nat
  BY LenProperties
<1>2. \A k \in n + 1 .. Len(s) : s[k] \in S
  BY <1>1, ElementOfSeq
<1> QED
  BY <1>1, <1>2, SubSeqProperties

LEMMA StaleType ==
  ASSUME NEW S, NEW T, NEW s \in Seq(S),
         \A e \in S : [e EXCEPT !.current = FALSE] \in T
  PROVE  Stale(s) \in Seq(T) /\ Len(Stale(s)) = Len(s)
<1>1. DOMAIN s = 1 .. Len(s) /\ Len(s) \in Nat
  BY LenProperties
<1>2. \A i \in 1 .. Len(s) : s[i] \in S
  BY ElementOfSeq
<1>3. Stale(s) \in [1 .. Len(s) -> T]
  BY <1>1, <1>2 DEF Stale
<1> QED
  BY <1>1, <1>3

LEMMA OnlyEmpty ==
  ASSUME NEW S, NEW s \in Seq(S), Len(s) = 0
  PROVE  s = <<>>
<1> QED
  BY EmptySeq

-----------------------------------------------------------------------------
(* Types.                                                                  *)

Requests == {NoOp} \cup [command : STRING, arg : Nat]

Packets ==
  [to : 1 .. 63, request : {CreatePacket(r) : r \in Requests}, current : BOOLEAN]

Items == [at : 1 .. AnswerLen, status : Statuses, current : BOOLEAN]

\* The host: the requests to come are requests, and a run that begins does not
\* probe yet.
HostSide ==
  /\ phase \in {"idle", "purging", "ready", "waiting", "reading"}
  /\ probing \in BOOLEAN
  /\ target \in Nat
  /\ phase \in {"ready", "waiting", "reading"} => target \in 1 .. 63
  /\ probing => target \in 1 .. LastProbe
  /\ phase \in {"idle", "purging"} => ~probing
  /\ todo \in Seq(Requests)
  /\ phase = "idle" <=> todo = <<>>
  /\ result.status \in Statuses \cup {"BAD", "none"}

\* The line: what is under way are packets and bytes of answers.
LineSide ==
  /\ toDevice \in Seq(Packets)
  /\ toHost \in Seq(Items)
  /\ arrived \in 0 .. Len(toHost)
  /\ handled \in Statuses \cup {"none"}

\* What keeps HostTypeOK true.
HostInv == HostSide /\ LineSide

LEMMA HostConstants ==
  /\ LastProbe \in Nat /\ 1 <= LastProbe /\ LastProbe <= 63
  /\ IdArgs \subseteq Nat
  /\ \A s \in Scripts : s \in Seq(Requests) /\ s # <<>>
  /\ AnswerLen \in Nat /\ StatusAt \in Nat /\ 2 <= StatusAt /\ StatusAt < AnswerLen
<1>1. \A s \in Scripts : s \in Seq([command : STRING, arg : Nat]) /\ s # <<>>
  BY HostAssumption
<1>2. [command : STRING, arg : Nat] \subseteq Requests
  BY DEF Requests
<1>3. \A s \in Scripts : s \in Seq(Requests)
  BY <1>1, <1>2, SeqMonotonic
<1> QED
  BY <1>1, <1>3, HostAssumption

LEMMA RequestType ==
  ASSUME HostInv, phase # "idle"
  PROVE  Request \in Requests
<1>1. NoOp \in Requests
  BY DEF Requests
<1>2. todo # <<>> /\ todo \in Seq(Requests)
  BY DEF HostInv, HostSide
<1>3. Head(todo) \in Requests
  BY <1>2, HeadTailProperties
<1> QED
  BY <1>1, <1>3 DEF Request

\* What the device says.
LEMMA AnswerStatus ==
  ASSUME AskTransport \/ AskSetId
  PROVE  answer'.status \in Statuses
<1>1. \A s \in Statuses : \A d : Says(s, d) => answer'.status \in Statuses
  BY DEF Says
<1> DEFINE Some == \E s \in Statuses : \E d : Says(s, d)
<1>2. "OK" \in Statuses /\ "ERROR" \in Statuses /\ "UNKNOWN_CMD" \in Statuses
  BY DEF Statuses
<1>3. \A d : (Says("OK", d) \/ Says("ERROR", d) \/ Says("UNKNOWN_CMD", d)) => Some
  BY <1>2
<1> HIDE DEF Some
<1>4. AskSetId => Some
  BY <1>3 DEF AskSetId
<1>5. AskOn \/ AskOff \/ AskPlay \/ AskPause \/ AskStop => Some
  BY <1>3 DEF AskOn, AskOff, AskPlay, AskPause, AskStop
<1>6. \A c : SeekOrRefuse(c) => Some
  BY <1>3 DEF SeekOrRefuse
<1>7. AskSeek \/ AskNext \/ AskPrevious => Some
  BY <1>6 DEF AskSeek, AskNext, AskPrevious
<1>8. AskPowerStatus \/ AskQuery \/ AskUnknown => Some
  BY <1>3 DEF AskPowerStatus, AskQuery, AskUnknown
<1>9. Some
  BY <1>4, <1>5, <1>7, <1>8 DEF AskTransport
<1> QED
  BY <1>1, <1>9 DEF Some

\* What the host makes of what it read.
LEMMA Judged ==
  ASSUME HostInv, NEW got \in Seq(Items), NEW r \in GetPacketStatus(got)
  PROVE  /\ r.status \in Statuses \cup {"BAD"}
         /\ r.status \in Statuses => /\ Len(got) >= StatusAt
                                     /\ r.status = got[StatusAt].status
                                     /\ r.mine = got[StatusAt].current
<1> DEFINE taken == Outcome(got[StatusAt].status, got[StatusAt].current)
<1>1. Len(got) \in Nat
  BY LenProperties
<1>2. r = Bad \/ (Len(got) >= StatusAt /\ r = taken)
  BY <1>1, HostConstants DEF GetPacketStatus
<1>3. CASE r = Bad
  <2>1. r.status = "BAD"
    BY <1>3 DEF Bad, Outcome
  <2>2. "BAD" \notin Statuses
    BY DEF Statuses
  <2> QED
    BY <2>1, <2>2
<1>4. CASE Len(got) >= StatusAt /\ r = taken
  <2>1. StatusAt \in 1 .. Len(got)
    BY <1>1, <1>4, HostConstants
  <2>2. got[StatusAt] \in Items
    BY <2>1, ElementOfSeq
  <2>3. got[StatusAt].status \in Statuses
    BY <2>2 DEF Items
  <2>4. r.status = got[StatusAt].status /\ r.mine = got[StatusAt].current
    BY <1>4 DEF Outcome
  <2> QED
    BY <1>4, <2>3, <2>4
<1> QED
  BY <1>2, <1>3, <1>4

LEMMA InvGivesType ==
  ASSUME HostInv
  PROVE  HostTypeOK
<1>1. \A i \in DOMAIN toDevice : toDevice[i].to \in 1 .. 63
  <2> SUFFICES ASSUME NEW i \in DOMAIN toDevice
               PROVE  toDevice[i].to \in 1 .. 63
    OBVIOUS
  <2>1. toDevice[i] \in Packets
    BY LenProperties, ElementOfSeq DEF HostInv, LineSide
  <2> QED
    BY <2>1 DEF Packets
<1>2. \A i \in DOMAIN toHost :
         toHost[i].at \in 1 .. AnswerLen /\ toHost[i].status \in Statuses
  <2> SUFFICES ASSUME NEW i \in DOMAIN toHost
               PROVE  toHost[i].at \in 1 .. AnswerLen /\ toHost[i].status \in Statuses
    OBVIOUS
  <2>1. toHost[i] \in Items
    BY LenProperties, ElementOfSeq DEF HostInv, LineSide
  <2> QED
    BY <2>1 DEF Items
<1> QED
  BY <1>1, <1>2 DEF HostInv, HostSide, LineSide, HostTypeOK

LEMMA InvInit ==
  ASSUME HostInit
  PROVE  HostInv
<1>1. <<>> \in Seq(Requests) /\ <<>> \in Seq(Packets) /\ <<>> \in Seq(Items)
  BY EmptySeq
<1>2. result.status = "none"
  BY DEF HostInit, None
<1>3. HostSide
  <2>1. phase = "idle" /\ probing = FALSE /\ target = 0 /\ todo = <<>>
    BY DEF HostInit
  <2>2. phase \in {"idle", "purging", "ready", "waiting", "reading"}
        /\ phase \notin {"ready", "waiting", "reading"}
        /\ target \in Nat /\ result.status \in Statuses \cup {"BAD", "none"}
    BY <1>2, <2>1
  <2> QED
    BY <1>1, <2>1, <2>2, Zenon DEF HostSide
<1>4. LineSide
  BY <1>1, EmptySeq DEF HostInit, LineSide
<1> QED
  BY <1>3, <1>4 DEF HostInv

\* When a run goes on, or ends.
LEMMA Ready ==
  ASSUME phase' = "ready", probing' \in BOOLEAN, target' \in 1 .. 63,
         probing' => target' \in 1 .. LastProbe,
         todo' \in Seq(Requests), todo' # <<>>,
         result'.status \in Statuses \cup {"BAD", "none"}
  PROVE  HostSide'
<1>1. target' \in Nat
  OBVIOUS
<1>2. phase' \in {"idle", "purging", "ready", "waiting", "reading"}
      /\ phase' \notin {"idle", "purging"} /\ phase' # "idle"
  OBVIOUS
<1> QED
  BY <1>1, <1>2, Zenon DEF HostSide

LEMMA Ended ==
  ASSUME phase' = "idle", probing' = FALSE, target' \in Nat, todo' = <<>>,
         result'.status \in Statuses \cup {"BAD", "none"}
  PROVE  HostSide'
<1>1. phase' \in {"idle", "purging", "ready", "waiting", "reading"}
      /\ phase' \notin {"ready", "waiting", "reading"}
  OBVIOUS
<1>2. todo' \in Seq(Requests)
  BY EmptySeq
<1>3. probing' \in BOOLEAN /\ ~probing'
  OBVIOUS
<1> QED
  BY <1>1, <1>2, <1>3, Zenon DEF HostSide

LEMMA ProceedKeeps ==
  ASSUME HostInv, phase = "reading", NEW r, Proceed(r),
         r.status \in Statuses \cup {"BAD"}
  PROVE  HostSide' /\ phase' \in {"idle", "ready"}
<1>1. todo \in Seq(Requests) /\ todo # <<>> /\ target \in 1 .. 63 /\ target \in Nat
  BY DEF HostInv, HostSide
<1>2. result'.status \in Statuses \cup {"BAD", "none"}
  BY DEF Proceed
<1>3. CASE ProbeFound
  <2>1. phase' = "ready" /\ probing' \in BOOLEAN /\ ~probing' /\ target' \in 1 .. 63
        /\ todo' \in Seq(Requests) /\ todo' # <<>>
    BY <1>1, <1>3 DEF ProbeFound
  <2> QED
    BY <1>2, <2>1, Ready
<1>4. CASE probing /\ ProbeNext
  <2>1. phase' = "ready" /\ probing' = probing
        /\ todo' \in Seq(Requests) /\ todo' # <<>>
    BY <1>1, <1>4 DEF ProbeNext
  <2>2. target' \in 1 .. 63 /\ target' \in 1 .. LastProbe
    BY <1>1, <1>4, HostConstants DEF ProbeNext
  <2>3. probing \in BOOLEAN
    BY DEF HostInv, HostSide
  <2> QED
    BY <1>2, <2>1, <2>2, <2>3, Ready
<1>5. CASE ProbeFailed
  BY <1>1, <1>2, <1>5, Ended DEF ProbeFailed
<1>6. CASE ~probing /\ CommandGoesOn(r)
  <2>1. todo' \in Seq(Requests)
    BY <1>1, <1>6, HeadTailProperties, EmptySeq DEF CommandGoesOn
  <2>2. phase' = IF todo' = <<>> THEN "idle" ELSE "ready"
    BY <1>6 DEF CommandGoesOn
  <2>3. target' = target /\ probing' = probing
    BY <1>6 DEF CommandGoesOn
  <2>4. probing' = FALSE
    <3>1. probing \in BOOLEAN
      BY DEF HostInv, HostSide
    <3> QED
      BY <1>6, <2>3, <3>1
  <2>5. CASE todo' = <<>>
    BY <1>1, <1>2, <2>2, <2>3, <2>4, <2>5, Ended
  <2>6. CASE todo' # <<>>
    <3>1. phase' = "ready" /\ probing' \in BOOLEAN /\ ~probing' /\ target' \in 1 .. 63
      BY <1>1, <2>2, <2>3, <2>4, <2>6
    <3> QED
      BY <1>2, <2>1, <2>6, <3>1, Ready
  <2> QED
    BY <2>5, <2>6
<1> QED
  BY <1>3, <1>4, <1>5, <1>6 DEF Proceed

\* What the host reads are bytes of answers, and the rest stays.
LEMMA ReadTakes ==
  ASSUME HostInv, arrived > 0
  PROVE  LET n == Least(arrived, AnswerLen)
         IN  /\ n \in 1 .. Len(toHost) /\ n \in 1 .. arrived /\ n \in 1 .. AnswerLen
             /\ SubSeq(toHost, 1, n) \in Seq(Items)
             /\ Len(SubSeq(toHost, 1, n)) = n
             /\ \A i \in 1 .. n : SubSeq(toHost, 1, n)[i] = toHost[i]
             /\ SubSeq(toHost, n + 1, Len(toHost)) \in Seq(Items)
             /\ Len(SubSeq(toHost, n + 1, Len(toHost))) = Len(toHost) - n
<1> DEFINE n == Least(arrived, AnswerLen)
<1>1. toHost \in Seq(Items) /\ arrived \in 0 .. Len(toHost) /\ Len(toHost) \in Nat
  BY LenProperties DEF HostInv, LineSide
<1>2. n \in 1 .. Len(toHost) /\ n \in 1 .. arrived /\ n \in 1 .. AnswerLen
  BY <1>1, HostConstants DEF Least
<1> HIDE DEF n
<1>3. SubSeq(toHost, n + 1, Len(toHost)) \in Seq(Items)
      /\ Len(SubSeq(toHost, n + 1, Len(toHost))) = Len(toHost) - n
  BY <1>1, <1>2, RestType
<1>4. \A i \in 1 .. n : toHost[i] \in Items
  BY <1>1, <1>2, ElementOfSeq
<1>5. /\ SubSeq(toHost, 1, n) \in Seq(Items)
      /\ Len(SubSeq(toHost, 1, n)) = n
      /\ \A i \in 1 .. n : SubSeq(toHost, 1, n)[i] = toHost[i]
  <2>1. n \in Int /\ 1 \in Int /\ 1 <= n /\ n - 1 + 1 = n /\ \A i \in 1 .. n : 1 + i - 1 = i
    BY <1>2
  <2> QED
    BY <1>4, <2>1, SubSeqProperties
<1> QED
  BY <1>2, <1>3, <1>5 DEF n

LEMMA ReadKeeps ==
  ASSUME HostInv, Read, UNCHANGED handled
  PROVE  HostInv' /\ phase' \in {"idle", "ready"}
<1> DEFINE n == Least(arrived, AnswerLen)
<1>1. phase = "reading" /\ arrived > 0
  BY DEF Read
<1>2. n \in 1 .. Len(toHost) /\ n \in 1 .. arrived /\ SubSeq(toHost, 1, n) \in Seq(Items)
      /\ SubSeq(toHost, n + 1, Len(toHost)) \in Seq(Items)
      /\ Len(SubSeq(toHost, n + 1, Len(toHost))) = Len(toHost) - n
  BY <1>1, ReadTakes
<1>3. PICK r \in GetPacketStatus(SubSeq(toHost, 1, n)) : Proceed(r)
  BY DEF Read
<1>4. toHost' = SubSeq(toHost, n + 1, Len(toHost)) /\ arrived' = arrived - n
      /\ toDevice' = toDevice
  BY DEF Read
<1> HIDE DEF n
<1>5. r.status \in Statuses \cup {"BAD"}
  BY <1>2, Judged
<1>6. HostSide' /\ phase' \in {"idle", "ready"}
  BY <1>1, <1>3, <1>5, ProceedKeeps
<1>7. arrived \in 0 .. Len(toHost) /\ Len(toHost) \in Nat
  BY LenProperties DEF HostInv, LineSide
<1>8. arrived' \in 0 .. Len(toHost')
  BY <1>2, <1>4, <1>7
<1>9. LineSide'
  BY <1>2, <1>4, <1>8 DEF HostInv, LineSide
<1> QED
  BY <1>6, <1>9 DEF HostInv

LEMMA HostRests ==
  ASSUME HostInv, UNCHANGED hostVars
  PROVE  HostSide'
<1> QED
  BY DEF HostInv, HostSide, hostVars

LEMMA LineRests ==
  ASSUME HostInv, UNCHANGED <<lineVars, handled>>
  PROVE  LineSide'
<1> QED
  BY DEF HostInv, LineSide, lineVars

LEMMA StartKeeps ==
  ASSUME HostInv, Start, UNCHANGED <<lineVars, handled>>
  PROVE  HostInv'
<1>1. phase' = "purging" /\ target' \in Nat /\ todo' \in Seq(Requests) /\ todo' # <<>>
  BY HostConstants DEF Start
<1>2. ~probing /\ probing \in BOOLEAN
  BY DEF HostInv, HostSide, Start
<1>3. probing' = probing /\ result' = result
  BY DEF Start
<1>4. phase' \in {"idle", "purging", "ready", "waiting", "reading"}
      /\ phase' \notin {"ready", "waiting", "reading"} /\ phase' # "idle"
  BY <1>1
<1>5. result.status \in Statuses \cup {"BAD", "none"}
  BY DEF HostInv, HostSide
<1>6. HostSide'
  BY <1>1, <1>2, <1>3, <1>4, <1>5, Zenon DEF HostSide
<1> QED
  BY <1>6, LineRests DEF HostInv

LEMMA PurgeCommKeeps ==
  ASSUME HostInv, PurgeComm, UNCHANGED handled
  PROVE  HostInv'
<1>1. toHost \in Seq(Items) /\ arrived \in 0 .. Len(toHost)
  BY DEF HostInv, LineSide
<1>2. SubSeq(toHost, arrived + 1, Len(toHost)) \in Seq(Items)
  BY <1>1, RestType
<1>3. toHost' \in Seq(Items) /\ arrived' = 0 /\ toDevice' = toDevice
  BY <1>2 DEF PurgeComm
<1>4. arrived' \in 0 .. Len(toHost')
  BY <1>3, LenProperties
<1>5. LineSide'
  BY <1>3, <1>4 DEF HostInv, LineSide
<1> QED
  BY <1>5, HostRests DEF HostInv, PurgeComm

LEMMA PurgedKeeps ==
  ASSUME HostInv, Purged, UNCHANGED handled
  PROVE  HostInv'
<1>1. todo \in Seq(Requests) /\ todo # <<>> /\ target \in Nat
      /\ result.status \in Statuses \cup {"BAD", "none"}
  BY DEF HostInv, HostSide, Purged
<1>2. target' = IF target \in 1 .. 63 THEN target ELSE 1
  BY DEF Purged
<1>3. probing' = (target \notin 1 .. 63)
  BY DEF Purged
<1>4. phase' = "ready" /\ todo' = todo /\ result' = result
  BY DEF Purged
<1>5. target' \in 1 .. 63
  BY <1>2
<1>6. probing' \in BOOLEAN
  BY <1>3, Zenon
<1>7. probing' => target' \in 1 .. LastProbe
  <2>1. target \notin 1 .. 63 => target' \in 1 .. LastProbe
    BY <1>2, HostConstants
  <2> QED
    BY <1>3, <2>1, Zenon
<1>8. HostSide'
  BY <1>1, <1>4, <1>5, <1>6, <1>7, Ready
<1> QED
  BY <1>8, LineRests DEF HostInv, Purged

\* A phase in which the host is about to make a request, or is making it.
LEMMA Under ==
  ASSUME HostInv, phase # "idle", phase # "purging",
         phase' \in {"waiting", "reading"},
         UNCHANGED <<probing, target, todo, result>>
  PROVE  HostSide'
<1>1. phase' \in {"idle", "purging", "ready", "waiting", "reading"}
      /\ phase' \notin {"idle", "purging"} /\ phase' # "idle"
  OBVIOUS
<1>2. target \in 1 .. 63 /\ todo # <<>>
  BY DEF HostInv, HostSide
<1> QED
  BY <1>1, <1>2, Zenon DEF HostInv, HostSide

LEMMA StalePackets ==
  ASSUME HostInv
  PROVE  Stale(toDevice) \in Seq(Packets) /\ Len(Stale(toDevice)) = Len(toDevice)
<1>1. \A p \in Packets : [p EXCEPT !.current = FALSE] \in Packets
  BY DEF Packets
<1> QED
  BY <1>1, StaleType DEF HostInv, LineSide

LEMMA StaleItems ==
  ASSUME HostInv
  PROVE  Stale(toHost) \in Seq(Items) /\ Len(Stale(toHost)) = Len(toHost)
<1>1. \A e \in Items : [e EXCEPT !.current = FALSE] \in Items
  BY DEF Items
<1> QED
  BY <1>1, StaleType DEF HostInv, LineSide

LEMMA WriteKeeps ==
  ASSUME HostInv, Write
  PROVE  HostInv'
<1> DEFINE p == [to |-> target, request |-> CreatePacket(Request), current |-> TRUE]
<1>1. phase = "ready" /\ phase' = "waiting"
  BY DEF Write
<1>2. p \in Packets
  <2>1. target \in 1 .. 63
    BY <1>1 DEF HostInv, HostSide
  <2>2. Request \in Requests
    BY <1>1, RequestType
  <2> QED
    BY <2>1, <2>2 DEF Packets
<1>3. toDevice' = Append(Stale(toDevice), p) \/ toDevice' = Stale(toDevice)
  BY DEF Write
<1> HIDE DEF p
<1>4. toDevice' \in Seq(Packets)
  BY <1>2, <1>3, StalePackets
<1>5. toHost' \in Seq(Items) /\ arrived' \in 0 .. Len(toHost')
  BY StaleItems DEF Write, HostInv, LineSide
<1>6. LineSide'
  BY <1>4, <1>5 DEF Write, LineSide
<1>7. HostSide'
  BY <1>1, Under DEF Write
<1> QED
  BY <1>6, <1>7 DEF HostInv

LEMMA HandleKeeps ==
  ASSUME HostInv, Handle
  PROVE  HostInv'
<1>1. toDevice \in Seq(Packets) /\ toDevice # <<>> /\ toHost \in Seq(Items)
      /\ arrived \in 0 .. Len(toHost) /\ handled \in Statuses \cup {"none"}
  BY DEF HostInv, LineSide, Handle
<1>2. toDevice' \in Seq(Packets) /\ arrived' = arrived
  BY <1>1, HeadTailProperties DEF Handle
<1>3. Head(toDevice).current \in BOOLEAN
  <2>1. Head(toDevice) \in Packets
    BY <1>1, HeadTailProperties
  <2> QED
    BY <2>1 DEF Packets
<1>4. toHost' \in Seq(Items) /\ arrived \in 0 .. Len(toHost')
      /\ handled' \in Statuses \cup {"none"}
  <2>1. CASE UNCHANGED <<toHost, handled>>
    BY <1>1, <2>1
  <2>2. CASE /\ AskTransport \/ AskSetId
             /\ \E n \in 0 .. AnswerLen :
                  toHost' = toHost \o
                    [i \in 1 .. n |-> [at |-> i, status |-> answer'.status,
                                       current |-> Head(toDevice).current]]
             /\ handled' = IF Head(toDevice).current THEN answer'.status ELSE handled
    <3>1. answer'.status \in Statuses
      BY <2>2, AnswerStatus
    <3>2. PICK n \in 0 .. AnswerLen :
             toHost' = toHost \o
               [i \in 1 .. n |-> [at |-> i, status |-> answer'.status,
                                  current |-> Head(toDevice).current]]
      BY <2>2
    <3> DEFINE new == [i \in 1 .. n |-> [at |-> i, status |-> answer'.status,
                                         current |-> Head(toDevice).current]]
    <3>3. new \in Seq(Items)
      <4>1. n \in Nat /\ \A i \in 1 .. n : i \in 1 .. AnswerLen
        BY HostConstants
      <4>2. \A i \in 1 .. n : [at |-> i, status |-> answer'.status,
                               current |-> Head(toDevice).current] \in Items
        BY <1>3, <3>1, <4>1 DEF Items
      <4>3. new \in [1 .. n -> Items]
        BY <4>2
      <4> QED
        BY <4>1, <4>3
    <3> HIDE DEF new
    <3>4. toHost' = toHost \o new
      BY <3>2 DEF new
    <3>5. toHost' \in Seq(Items) /\ Len(toHost') = Len(toHost) + Len(new)
      BY <1>1, <3>3, <3>4, ConcatProperties
    <3>6. Len(new) \in Nat /\ Len(toHost) \in Nat
      BY <1>1, <3>3, LenProperties
    <3>7. handled' \in Statuses \cup {"none"}
      BY <1>1, <2>2, <3>1
    <3> QED
      BY <1>1, <3>5, <3>6, <3>7
  <2> QED
    BY <2>1, <2>2 DEF Handle, WriteSerial
<1>5. LineSide'
  BY <1>2, <1>4 DEF LineSide
<1> QED
  BY <1>5, HostRests DEF Handle, HostInv

LEMMA LineKeeps ==
  ASSUME HostInv, Arrive \/ LoseByte \/ Restart
  PROVE  HostInv'
<1>1. toDevice \in Seq(Packets) /\ toHost \in Seq(Items)
      /\ arrived \in 0 .. Len(toHost) /\ Len(toHost) \in Nat
      /\ handled \in Statuses \cup {"none"}
  BY LenProperties DEF HostInv, LineSide
<1>2. CASE Arrive
  <2>1. arrived' \in 0 .. Len(toHost')
    BY <1>1, <1>2 DEF Arrive
  <2> QED
    BY <1>1, <1>2, <2>1, HostRests DEF Arrive, HostInv, LineSide
<1>3. CASE LoseByte
  <2>1. toDevice' \in Seq(Packets)
    BY <1>1, <1>3, HeadTailProperties DEF LoseByte
  <2>2. toHost' \in Seq(Items) /\ arrived \in 0 .. Len(toHost')
    <3>1. CASE arrived < Len(toHost) /\ toHost' = RemoveAt(toHost, arrived + 1)
      <4>1. arrived + 1 \in 1 .. Len(toHost)
        BY <1>1, <3>1
      <4>2. toHost' \in Seq(Items) /\ Len(toHost') = Len(toHost) - 1
        BY <1>1, <3>1, <4>1, RemoveAtType
      <4> QED
        BY <1>1, <3>1, <4>2
    <3>2. CASE toHost' = toHost
      BY <1>1, <3>2
    <3> QED
      BY <1>3, <3>1, <3>2 DEF LoseByte
  <2>3. arrived' = arrived /\ handled' = handled
    BY <1>3 DEF LoseByte
  <2>4. LineSide'
    BY <1>1, <2>1, <2>2, <2>3 DEF LineSide
  <2> QED
    BY <1>3, <2>4, HostRests DEF LoseByte, HostInv
<1>4. CASE Restart
  BY <1>1, <1>4, EmptySeq, HostRests DEF Restart, HostInv, LineSide
<1> QED
  BY <1>2, <1>3, <1>4

LEMMA HostKeeps ==
  ASSUME HostInv, Host
  PROVE  HostInv'
<1>1. CASE PurgeComm /\ UNCHANGED handled
  BY <1>1, PurgeCommKeeps
<1>2. CASE Purged /\ UNCHANGED handled
  BY <1>2, PurgedKeeps
<1>3. CASE Read /\ UNCHANGED handled
  BY <1>3, ReadKeeps
<1>4. CASE WaitOver /\ UNCHANGED <<probing, target, todo, result, lineVars, handled>>
  BY <1>4, Under, LineRests DEF WaitOver, HostInv
<1>5. CASE Timeout /\ UNCHANGED <<lineVars, handled>>
  <2>1. Bad.status \in Statuses \cup {"BAD"}
    BY DEF Bad, Outcome
  <2>2. HostSide'
    BY <1>5, <2>1, ProceedKeeps DEF Timeout
  <2> QED
    BY <1>5, <2>2, LineRests DEF HostInv
<1>6. CASE Write
  BY <1>6, WriteKeeps
<1> QED
  BY <1>1, <1>2, <1>3, <1>4, <1>5, <1>6 DEF Host

LEMMA InvStep ==
  ASSUME HostInv, [HostNext]_jlipVars
  PROVE  HostInv'
<1>1. CASE Start /\ UNCHANGED <<deckVars, lineVars, handled>>
  BY <1>1, StartKeeps
<1>2. CASE Host
  BY <1>2, HostKeeps
<1>3. CASE Surroundings
  <2>1. CASE Settle /\ UNCHANGED <<hostVars, lineVars, handled>>
    BY <2>1, HostRests, LineRests DEF HostInv
  <2> QED
    BY <1>3, <2>1, HandleKeeps, LineKeeps DEF Surroundings
<1>4. CASE UNCHANGED jlipVars
  BY <1>4, HostRests, LineRests DEF HostInv, jlipVars
<1> QED
  BY <1>1, <1>2, <1>3, <1>4 DEF HostNext

\* Whatever is lost, cut short or late, and however often the device restarts, the
\* host probes no ID past the last one, has a request to make whenever it makes one,
\* and takes no more from its input buffer than is there.
THEOREM HostTypesCorrect == HostSpec => []HostTypeOK
<1>1. HostSpec => []HostInv
  BY InvInit, InvStep, PTL DEF HostSpec
<1>2. HostInv => HostTypeOK
  BY InvGivesType
<1> QED
  BY <1>1, <1>2, PTL

-----------------------------------------------------------------------------
(* A run gets shorter.                                                     *)

\* The requests that are left to one that has begun to make them.
Left == IF probing THEN LastProbe - target + 1 + Len(todo) ELSE Len(todo)

LEMMA StepsByPhase ==
  /\ phase = "idle" => StepsLeft = 0
  /\ phase = "purging" => StepsLeft = 3 * (LastProbe + Len(todo)) + 1
  /\ phase = "ready" => StepsLeft = 3 * Left
  /\ phase = "waiting" => StepsLeft = 3 * Left - 1
  /\ phase = "reading" => StepsLeft = 3 * Left - 2
<1>1. /\ phase = "purging" => RequestsLeft = LastProbe + Len(todo)
      /\ phase \in {"ready", "waiting", "reading"} => RequestsLeft = Left
  BY DEF RequestsLeft, Left
<1> QED
  BY <1>1 DEF StepsLeft

LEMMA StepsByPhaseNext ==
  /\ phase' = "idle" => StepsLeft' = 0
  /\ phase' = "ready" => StepsLeft' = 3 * Left'
  /\ phase' = "waiting" => StepsLeft' = 3 * Left' - 1
  /\ phase' = "reading" => StepsLeft' = 3 * Left' - 2
<1>1. phase' \in {"ready", "waiting", "reading"} => RequestsLeft' = Left'
  BY DEF RequestsLeft, Left
<1> QED
  BY <1>1 DEF StepsLeft

LEMMA LeftIs ==
  ASSUME HostInv, phase # "idle"
  PROVE  /\ Len(todo) \in Nat /\ Len(todo) >= 1
         /\ Len(Tail(todo)) = Len(todo) - 1
         /\ probing => target \in 1 .. LastProbe
         /\ Left \in Nat /\ Left >= 1
<1>1. todo \in Seq(Requests) /\ todo # <<>>
  BY DEF HostInv, HostSide
<1>2. Len(todo) \in Nat /\ Len(todo) # 0 /\ Len(Tail(todo)) = Len(todo) - 1
  BY <1>1, LenProperties, EmptySeq, HeadTailProperties
<1>3. probing => target \in 1 .. LastProbe
  BY DEF HostInv, HostSide
<1> DEFINE n == Len(todo)
<1>4. n \in Nat /\ n >= 1
  BY <1>2
<1>5. Left = IF probing THEN LastProbe - target + 1 + n ELSE n
  BY DEF Left
<1> HIDE DEF n
<1>6. Left \in Nat /\ Left >= 1
  BY <1>3, <1>4, <1>5, HostConstants
<1> QED
  BY <1>2, <1>3, <1>4, <1>6 DEF n

\* Whatever became of a request, there is one less.
LEMMA ProceedShrinks ==
  ASSUME HostInv, phase = "reading", NEW r, Proceed(r)
  PROVE  StepsLeft' < StepsLeft
<1> DEFINE n == Len(todo)
           next == Len(todo')
<1>1. /\ n \in Nat /\ n >= 1 /\ Len(Tail(todo)) = n - 1
      /\ probing => target \in 1 .. LastProbe
      /\ Left \in Nat /\ Left >= 1
  BY LeftIs
<1>2. Left = IF probing THEN LastProbe - target + 1 + n ELSE n
  BY DEF Left
<1>3. Left' = IF probing' THEN LastProbe - target' + 1 + next ELSE next
  BY DEF Left
<1>4. StepsLeft = 3 * Left - 2
  BY StepsByPhase
<1>5. CASE phase' = "idle"
  <2>1. StepsLeft' = 0
    BY <1>5, StepsByPhaseNext
  <2> QED
    BY <1>1, <1>4, <2>1
<1>6. ASSUME phase' = "ready", Left' = Left - 1 \/ (Left' \in Nat /\ Left' < Left)
      PROVE  StepsLeft' < StepsLeft
  <2>1. StepsLeft' = 3 * Left'
    BY <1>6, StepsByPhaseNext
  <2> QED
    BY <1>1, <1>4, <1>6, <2>1
<1> HIDE DEF n, next
<1>7. CASE probing /\ ProbeFound
  <2>1. phase' = "ready" /\ ~probing' /\ next = n
    BY <1>7 DEF ProbeFound, n, next
  <2>2. Left' = n
    BY <1>3, <2>1
  <2>3. Left' < Left
    BY <1>1, <1>2, <1>7, <2>2, HostConstants
  <2> QED
    BY <1>1, <1>6, <2>1, <2>2, <2>3
<1>8. CASE probing /\ ProbeNext
  <2>1. phase' = "ready" /\ (probing' <=> probing) /\ target' = target + 1 /\ next = n
    BY <1>8 DEF ProbeNext, n, next
  <2>2. Left' = LastProbe - (target + 1) + 1 + n
    BY <1>3, <1>8, <2>1
  <2>3. Left' = Left - 1
    BY <1>1, <1>2, <1>8, <2>2, HostConstants
  <2> QED
    BY <1>6, <2>1, <2>3
<1>9. CASE ProbeFailed
  BY <1>5, <1>9 DEF ProbeFailed
<1>10. CASE ~probing /\ CommandGoesOn(r)
  <2>1. ~probing' /\ phase' = IF todo' = <<>> THEN "idle" ELSE "ready"
    BY <1>10 DEF CommandGoesOn
  <2>2. CASE todo' = <<>>
    BY <1>5, <2>1, <2>2
  <2>3. CASE todo' # <<>>
    <3>1. todo' = Tail(todo) /\ phase' = "ready"
      BY <1>10, <2>1, <2>3 DEF CommandGoesOn
    <3>2. next = n - 1
      BY <1>1, <3>1 DEF next, n
    <3>3. Left' = Left - 1
      BY <1>2, <1>3, <1>10, <2>1, <3>2
    <3> QED
      BY <1>6, <3>1, <3>3
  <2> QED
    BY <2>2, <2>3
<1> QED
  BY <1>7, <1>8, <1>9, <1>10 DEF Proceed

LEMMA PurgedShrinks ==
  ASSUME HostInv, Purged
  PROVE  StepsLeft' < StepsLeft
<1> DEFINE n == Len(todo)
<1>1. phase = "purging" /\ phase' = "ready"
  BY DEF Purged
<1>2. n \in Nat /\ n >= 1
  BY <1>1, LeftIs
<1>3. StepsLeft = 3 * (LastProbe + n) + 1
  BY <1>1, StepsByPhase
<1>4. StepsLeft' = 3 * Left'
  BY <1>1, StepsByPhaseNext
<1>5. Len(todo') = n
  BY DEF Purged
<1>6. Left' = IF probing' THEN LastProbe - target' + 1 + Len(todo') ELSE Len(todo')
  BY DEF Left
<1> HIDE DEF n
<1>7. Left' = IF probing' THEN LastProbe - target' + 1 + n ELSE n
  BY <1>5, <1>6
<1>8. probing' => target' = 1
  BY DEF Purged
<1>9. Left' = LastProbe + n \/ Left' = n
  BY <1>2, <1>7, <1>8, HostConstants
<1> QED
  BY <1>2, <1>3, <1>4, <1>9, HostConstants

LEMMA StepShrinks ==
  ASSUME HostInv, [HostNext]_jlipVars, phase # "idle"
  PROVE  StepsLeft' < StepsLeft \/ UNCHANGED hostVars
<1>1. CASE Start
  BY <1>1 DEF Start
<1>2. CASE PurgeComm
  BY <1>2 DEF PurgeComm
<1>3. CASE Purged
  BY <1>3, PurgedShrinks
<1>4. CASE Read
  BY <1>4, ProceedShrinks DEF Read
<1>5. CASE Timeout
  BY <1>5, ProceedShrinks DEF Timeout
<1>6. ASSUME Left' = Left,
             \/ phase = "waiting" /\ phase' = "reading"
             \/ phase = "ready" /\ phase' = "waiting"
      PROVE  StepsLeft' < StepsLeft
  <2>1. Left \in Nat
    BY LeftIs
  <2>2. \/ StepsLeft = 3 * Left - 1 /\ StepsLeft' = 3 * Left' - 2
        \/ StepsLeft = 3 * Left /\ StepsLeft' = 3 * Left' - 1
    BY <1>6, StepsByPhase, StepsByPhaseNext
  <2> QED
    BY <1>6, <2>1, <2>2
<1>7. CASE WaitOver /\ UNCHANGED <<probing, target, todo>>
  <2>1. Left' = Left
    BY <1>7 DEF Left
  <2>2. phase = "waiting" /\ phase' = "reading"
    BY <1>7 DEF WaitOver
  <2> QED
    BY <1>6, <2>1, <2>2
<1>8. CASE Write
  <2>1. Left' = Left
    BY <1>8 DEF Left, Write
  <2> QED
    BY <1>6, <1>8, <2>1 DEF Write
<1>9. CASE Surroundings
  BY <1>9 DEF Surroundings, Handle, Arrive, LoseByte, Restart
<1>10. CASE UNCHANGED jlipVars
  BY <1>10 DEF jlipVars
<1> QED
  BY <1>1, <1>2, <1>3, <1>4, <1>5, <1>7, <1>8, <1>9, <1>10 DEF HostNext, Host

\* However many IDs are probed and however long a command is, whatever is lost and
\* however late an answer comes: every step of the host but emptying the line takes a
\* run nearer to its end, and nothing else that happens makes it longer.
THEOREM RunGetsShorter == HostSpec => RunShrinks
<1>1. HostSpec => []HostInv
  BY InvInit, InvStep, PTL DEF HostSpec
<1>2. HostInv /\ [HostNext]_jlipVars =>
        [phase # "idle" => StepsLeft' < StepsLeft \/ UNCHANGED hostVars]_jlipVars
  BY StepShrinks
<1> QED
  BY <1>1, <1>2, PTL DEF HostSpec, RunShrinks

-----------------------------------------------------------------------------
(* Answers in time.                                                        *)

\* The program makes one request to an ID it was given, and the answer begins while
\* it waits or reads.
OneByOne ==
  /\ Delay = "medium"
  /\ IdArgs \subseteq 1 .. 63
  /\ \A s \in Scripts : Len(s) = 1

\* All of an answer has come when WAIT() is over, or else the line is emptied before
\* the next request is made.
InTime == Delay = "short" \/ OneByOne

\* The packet of the request that is under way.
ThePacket == [to |-> target, request |-> CreatePacket(Request), current |-> TRUE]

\* The bytes of the answer to it.
Fitting == {e \in Items : e.current = TRUE /\ e.status = handled}

\* What is under way during a request is its packet, or the answer to it, and nothing
\* is when the next one is made.  What is read behind WAIT() is all there is; or it
\* is the beginning of the answer to the only request, and the rest of it comes while
\* the host rests.
Orderly ==
  /\ phase \in {"idle", "purging", "ready"} => toDevice = <<>>
  /\ phase = "ready" => toHost = <<>>
  /\ toDevice # <<>> => toDevice = <<ThePacket>> /\ toHost = <<>> /\ handled = "none"
  /\ phase \in {"waiting", "reading"} =>
       toHost \in Seq(Fitting) /\ Len(toHost) <= AnswerLen
  /\ result.status \in Statuses => result.mine = TRUE
  /\ Delay = "short" =>
       /\ phase \in {"idle", "purging"} => toHost = <<>>
       /\ phase = "reading" => toDevice = <<>> /\ arrived = Len(toHost)
  /\ Delay # "short" =>
       /\ ~probing /\ Len(todo) <= 1
       /\ phase = "purging" => target \in 1 .. 63

LEMMA OrderlyGives ==
  ASSUME Orderly
  PROVE  AnswerBelongs
<1> QED
  BY DEF Orderly, AnswerBelongs

LEMMA OrderlyInit ==
  ASSUME HostInit
  PROVE  Orderly
<1>1. toDevice = <<>> /\ toHost = <<>> /\ arrived = 0 /\ phase = "idle"
      /\ result.mine = TRUE /\ ~probing /\ todo = <<>>
  BY DEF HostInit, None
<1>2. Len(todo) = 0
  BY <1>1
<1> QED
  BY <1>1, <1>2 DEF Orderly

\* Nothing is under way.
LEMMA OrderlyBetween ==
  ASSUME toDevice' = <<>>, toHost' = <<>>, phase' \in {"idle", "ready"},
         Delay # "short" => ~probing' /\ Len(todo') <= 1,
         result'.status \in Statuses => result'.mine = TRUE
  PROVE  Orderly'
<1> QED
  BY DEF Orderly

\* A command of one request ends with it.
LEMMA OneIsLast ==
  ASSUME HostInv, Orderly, Delay # "short", phase = "reading", NEW r, Proceed(r)
  PROVE  phase' = "idle" /\ ~probing' /\ Len(todo') <= 1
<1>1. ~probing /\ Len(todo) <= 1 /\ todo # <<>> /\ todo \in Seq(Requests)
  BY DEF Orderly, HostInv, HostSide
<1>2. Len(todo) = 1
  <2>1. Len(todo) \in Nat
    BY <1>1, LenProperties
  <2>2. Len(todo) # 0
    BY <1>1, OnlyEmpty
  <2>3. Len(todo) <= 1
    BY <1>1
  <2> DEFINE k == Len(todo)
  <2> HIDE DEF k
  <2>4. k \in Nat /\ k # 0 /\ k <= 1
    BY <2>1, <2>2, <2>3 DEF k
  <2>5. k = 1
    BY <2>4
  <2> QED
    BY <2>5 DEF k
<1>3. Tail(todo) = <<>>
  <2>1. Tail(todo) \in Seq(Requests) /\ Len(Tail(todo)) = 0
    BY <1>1, <1>2, HeadTailProperties
  <2> QED
    BY <2>1, OnlyEmpty
<1>4. CommandGoesOn(r)
  BY <1>1 DEF Proceed
<1>5. todo' = <<>>
  BY <1>3, <1>4 DEF CommandGoesOn
<1>6. Len(todo') = 0
  BY <1>5
<1>7. phase' = "idle" /\ probing' = probing
  BY <1>4, <1>5 DEF CommandGoesOn
<1> QED
  BY <1>1, <1>6, <1>7

\* What the host takes from what it read.
LEMMA ReadTold ==
  ASSUME HostInv, Orderly, Read
  PROVE  /\ toDevice' = <<>>
         /\ Delay = "short" => toHost' = <<>>
         /\ phase' \in {"idle", "ready"}
         /\ Delay # "short" => phase' = "idle" /\ ~probing' /\ Len(todo') <= 1
         /\ result'.status \in Statuses \cup {"BAD"}
         /\ result'.status \in Statuses => /\ result'.mine = TRUE
                                           /\ result'.status = handled
<1> DEFINE n == Least(arrived, AnswerLen)
           got == SubSeq(toHost, 1, n)
<1>1. phase = "reading" /\ arrived > 0
  BY DEF Read
<1>2. /\ n \in 1 .. Len(toHost)
      /\ got \in Seq(Items) /\ Len(got) = n
      /\ \A i \in 1 .. n : got[i] = toHost[i]
      /\ SubSeq(toHost, n + 1, Len(toHost)) \in Seq(Items)
      /\ Len(SubSeq(toHost, n + 1, Len(toHost))) = Len(toHost) - n
  BY <1>1, ReadTakes
<1>3. toHost \in Seq(Fitting) /\ Len(toHost) <= AnswerLen /\ Len(toHost) \in Nat
  BY <1>1, LenProperties DEF Orderly
<1>4. toHost # <<>> /\ toDevice = <<>>
  <2>1. toHost # <<>>
    BY <1>2, <1>3, EmptySeq
  <2> QED
    BY <2>1 DEF Orderly
<1>5. Delay = "short" => n = Len(toHost)
  <2>1. Delay = "short" => arrived = Len(toHost)
    BY <1>1 DEF Orderly
  <2> QED
    BY <1>3, <2>1, HostConstants DEF Least
<1>6. PICK r \in GetPacketStatus(got) : Proceed(r)
  BY DEF Read
<1>7. toHost' = SubSeq(toHost, n + 1, Len(toHost)) /\ toDevice' = toDevice
  BY DEF Read
<1> HIDE DEF n, got
<1>8. ASSUME Delay = "short" PROVE toHost' = <<>>
  <2>1. Len(toHost') = 0 /\ toHost' \in Seq(Items)
    BY <1>2, <1>3, <1>5, <1>7, <1>8
  <2> QED
    BY <2>1, OnlyEmpty
<1>9. result' = r
  BY <1>6 DEF Proceed
<1>10. /\ r.status \in Statuses \cup {"BAD"}
       /\ r.status \in Statuses => /\ Len(got) >= StatusAt
                                   /\ r.status = got[StatusAt].status
                                   /\ r.mine = got[StatusAt].current
  BY <1>2, <1>6, Judged
<1>11. Len(got) >= StatusAt => got[StatusAt].current = TRUE
                               /\ got[StatusAt].status = handled
  <2> SUFFICES ASSUME Len(got) >= StatusAt
               PROVE  got[StatusAt] \in Fitting
    BY DEF Fitting
  <2>1. StatusAt \in 1 .. n /\ StatusAt \in 1 .. Len(toHost)
    BY <1>2, <1>3, HostConstants
  <2> QED
    BY <1>2, <1>3, <2>1, ElementOfSeq
<1>12. phase' \in {"idle", "ready"}
  BY <1>1, <1>6, <1>10, ProceedKeeps
<1>13. ASSUME Delay # "short" PROVE phase' = "idle" /\ ~probing' /\ Len(todo') <= 1
  BY <1>1, <1>6, <1>13, OneIsLast
<1> QED
  BY <1>4, <1>7, <1>8, <1>9, <1>10, <1>11, <1>12, <1>13

LEMMA BadTold ==
  ASSUME HostInv, Timeout
  PROVE  result'.status = "BAD" /\ result'.mine = TRUE /\ phase' \in {"idle", "ready"}
<1>1. Bad.status = "BAD" /\ Bad.mine = TRUE
  BY DEF Bad, Outcome
<1>2. result' = Bad
  BY DEF Timeout, Proceed
<1>3. phase' \in {"idle", "ready"}
  BY <1>1, ProceedKeeps DEF Timeout
<1> QED
  BY <1>1, <1>2, <1>3

LEMMA RequestSame ==
  ASSUME UNCHANGED <<probing, todo>>
  PROVE  Request' = Request /\ CreatePacket(Request)' = CreatePacket(Request)
<1>1. Request' = Request
  BY DEF Request
<1> QED
  BY <1>1

LEMMA WriteEmpty ==
  ASSUME HostInv, Orderly, Write
  PROVE  /\ toHost' = <<>>
         /\ \/ toDevice' = <<>>
            \/ toDevice' = <<ThePacket>>
<1>1. toDevice = <<>> /\ toHost = <<>>
  BY DEF Orderly, Write
<1>2. Stale(toDevice) = <<>> /\ Stale(toHost) = <<>>
  <2>1. Len(toDevice) = 0 /\ Len(toHost) = 0
    BY <1>1, EmptySeq
  <2> QED
    BY <2>1, StalePackets, StaleItems, OnlyEmpty
<1>3. toDevice' = Append(<<>>, ThePacket) \/ toDevice' = <<>>
  BY <1>2 DEF Write, ThePacket
<1>4. toHost' = <<>>
  BY <1>2 DEF Write
<1>5. Append(<<>>, ThePacket) = <<ThePacket>>
  OBVIOUS
<1> QED
  BY <1>3, <1>4, <1>5

LEMMA OrderlySame ==
  ASSUME Orderly, phase' = phase,
         UNCHANGED <<probing, target, todo, result, lineVars, handled>>
  PROVE  Orderly'
<1>1. Fitting' = Fitting
  BY DEF Fitting
<1>2. ThePacket' = ThePacket
  BY RequestSame DEF ThePacket
<1> QED
  BY <1>1, <1>2 DEF Orderly, lineVars

\* The request that the device handles is the one that is under way.
LEMMA HandlesThePacket ==
  ASSUME HostInv, Orderly, Handle
  PROVE  /\ toDevice = <<ThePacket>> /\ toHost = <<>> /\ handled = "none"
         /\ Head(toDevice) = ThePacket /\ toDevice' = <<>>
         /\ ThePacket.to = target /\ ThePacket.request = CreatePacket(Request)
         /\ ThePacket.current = TRUE
         /\ phase \in {"waiting", "reading"} /\ UNCHANGED hostVars
         /\ Delay = "short" => phase # "reading"
<1>1. toDevice # <<>> /\ UNCHANGED hostVars /\ toDevice' = Tail(toDevice)
  BY DEF Handle
<1>2. toDevice = <<ThePacket>> /\ toHost = <<>> /\ handled = "none"
  BY <1>1 DEF Orderly
<1>3. phase \in {"waiting", "reading"} /\ (Delay = "short" => phase # "reading")
  <2>1. phase \in {"idle", "purging", "ready", "waiting", "reading"}
    BY DEF HostInv, HostSide
  <2> QED
    BY <1>1, <2>1 DEF Orderly
<1>4. ThePacket.to = target /\ ThePacket.request = CreatePacket(Request)
      /\ ThePacket.current = TRUE
  BY DEF ThePacket
<1> QED
  BY <1>1, <1>2, <1>3, <1>4

LEMMA OrderlyHandle ==
  ASSUME HostInv, Orderly, Handle
  PROVE  Orderly'
<1>1. /\ toDevice = <<ThePacket>> /\ toHost = <<>> /\ handled = "none"
      /\ Head(toDevice) = ThePacket /\ toDevice' = <<>>
      /\ ThePacket.current = TRUE
      /\ phase \in {"waiting", "reading"} /\ (Delay = "short" => phase # "reading")
  BY HandlesThePacket
<1>2. UNCHANGED <<phase, probing, target, todo, result>>
  BY HandlesThePacket DEF hostVars
<1>3. toHost' \in Seq(Fitting') /\ Len(toHost') <= AnswerLen
  <2>1. CASE toHost' = toHost
    <3>1. toHost' = <<>>
      BY <1>1, <2>1
    <3> QED
      BY <3>1, EmptySeq, HostConstants
  <2>2. CASE /\ AskTransport \/ AskSetId
             /\ \E n \in 0 .. AnswerLen :
                  toHost' = toHost \o
                    [i \in 1 .. n |-> [at |-> i, status |-> answer'.status,
                                       current |-> Head(toDevice).current]]
             /\ handled' = IF Head(toDevice).current THEN answer'.status ELSE handled
    <3>1. answer'.status \in Statuses
      BY <2>2, AnswerStatus
    <3>2. PICK n \in 0 .. AnswerLen :
             toHost' = toHost \o
               [i \in 1 .. n |-> [at |-> i, status |-> answer'.status,
                                  current |-> Head(toDevice).current]]
      BY <2>2
    <3>3. Head(toDevice).current = TRUE /\ handled' = answer'.status
      BY <1>1, <2>2
    <3> DEFINE new == [i \in 1 .. n |-> [at |-> i, status |-> answer'.status,
                                         current |-> Head(toDevice).current]]
    <3>4. new \in Seq(Fitting') /\ Len(new) = n
      <4>1. n \in Nat /\ \A i \in 1 .. n : i \in 1 .. AnswerLen
        BY HostConstants
      <4>2. \A i \in 1 .. n : [at |-> i, status |-> answer'.status,
                               current |-> Head(toDevice).current] \in Fitting'
        BY <3>1, <3>3, <4>1 DEF Fitting, Items
      <4>3. new \in [1 .. n -> Fitting']
        BY <4>2
      <4> HIDE DEF new
      <4> QED
        BY <4>1, <4>3
    <3> HIDE DEF new
    <3>5. toHost' = new
      <4>1. <<>> \o new = new
        BY <3>4, ConcatEmptySeq
      <4> QED
        BY <1>1, <3>2, <4>1 DEF new
    <3> QED
      BY <3>4, <3>5, HostConstants
  <2> QED
    BY <2>1, <2>2 DEF Handle, WriteSerial
<1> QED
  BY <1>1, <1>2, <1>3 DEF Orderly

LEMMA OrderlyLine ==
  ASSUME HostInv, Orderly, Arrive \/ LoseByte \/ Restart
  PROVE  Orderly'
<1>1. UNCHANGED <<hostVars, handled>>
  BY DEF Arrive, LoseByte, Restart
<1>2. Fitting' = Fitting
  BY <1>1 DEF Fitting
<1>3. UNCHANGED <<phase, probing, target, todo, result, handled>> /\ ThePacket' = ThePacket
  BY <1>1, RequestSame DEF hostVars, ThePacket
<1>4. toHost \in Seq(Items) /\ Len(toHost) \in Nat /\ arrived \in 0 .. Len(toHost)
      /\ toDevice \in Seq(Packets)
  BY LenProperties DEF HostInv, LineSide
<1>5. CASE Arrive
  <2>1. arrived < Len(toHost) /\ toHost' = toHost /\ toDevice' = toDevice
    BY <1>5 DEF Arrive
  <2>2. Delay = "short" => phase # "reading"
    BY <1>4, <2>1 DEF Orderly
  <2> QED
    BY <1>2, <1>3, <2>1, <2>2 DEF Orderly
<1>6. CASE LoseByte
  <2>1. CASE toDevice # <<>> /\ toDevice' = Tail(toDevice) /\ UNCHANGED toHost
    <3>1. toDevice' = <<>>
      BY <2>1 DEF Orderly
    <3>2. Delay = "short" => phase # "reading"
      BY <2>1 DEF Orderly
    <3> QED
      BY <1>2, <1>3, <2>1, <3>1, <3>2 DEF Orderly
  <2>2. CASE arrived < Len(toHost) /\ toHost' = RemoveAt(toHost, arrived + 1)
             /\ UNCHANGED toDevice
    <3>1. arrived + 1 \in 1 .. Len(toHost)
      BY <1>4, <2>2
    <3>2. toHost # <<>>
      BY <1>4, <3>1, EmptySeq
    <3>3. /\ phase # "ready" /\ toDevice = <<>>
          /\ Delay = "short" => phase \notin {"idle", "purging", "reading"}
      BY <1>4, <2>2, <3>2 DEF Orderly
    <3>4. ASSUME phase \in {"waiting", "reading"}
          PROVE  toHost' \in Seq(Fitting) /\ Len(toHost') <= AnswerLen
      <4>1. toHost \in Seq(Fitting) /\ Len(toHost) <= AnswerLen
        BY <3>4 DEF Orderly
      <4>2. toHost' \in Seq(Fitting) /\ Len(toHost') = Len(toHost) - 1
        BY <2>2, <3>1, <4>1, RemoveAtType
      <4> QED
        BY <1>4, <4>1, <4>2, HostConstants
    <3> QED
      BY <1>2, <1>3, <2>2, <3>3, <3>4 DEF Orderly
  <2> QED
    BY <1>6, <2>1, <2>2 DEF LoseByte
<1>7. CASE Restart
  <2>1. toDevice' = <<>> /\ toHost' = toHost /\ arrived' = arrived
    BY <1>7 DEF Restart
  <2> QED
    BY <1>2, <1>3, <2>1 DEF Orderly
<1> QED
  BY <1>5, <1>6, <1>7

LEMMA OrderlyHost ==
  ASSUME InTime, HostInv, Orderly, Host
  PROVE  Orderly'
<1>1. toHost \in Seq(Items) /\ Len(toHost) \in Nat /\ arrived \in 0 .. Len(toHost)
  BY LenProperties DEF HostInv, LineSide
<1>2. Delay # "long"
  BY DEF InTime, OneByOne
<1>3. CASE PurgeComm /\ UNCHANGED <<deckVars, handled>>
  <2>1. arrived > 0 /\ phase = "purging" /\ UNCHANGED <<hostVars, toDevice>>
    BY <1>3 DEF PurgeComm
  <2>2. Delay # "short"
    <3>1. toHost # <<>>
      BY <1>1, <2>1, EmptySeq
    <3> QED
      BY <2>1, <3>1 DEF Orderly
  <2>3. toDevice' = <<>>
    BY <2>1 DEF Orderly
  <2> QED
    BY <2>1, <2>2, <2>3 DEF Orderly, hostVars
<1>4. CASE Purged
  <2>1. toDevice' = <<>> /\ toHost' = <<>> /\ phase' = "ready" /\ result' = result
    BY <1>2, <1>4 DEF Purged, Quiet, lineVars
  <2>2. result.status \in Statuses => result.mine = TRUE
    BY DEF Orderly
  <2>3. ASSUME Delay # "short" PROVE ~probing' /\ Len(todo') <= 1
    BY <1>4, <2>3 DEF Purged, Orderly
  <2> QED
    BY <2>1, <2>2, <2>3, OrderlyBetween
<1>5. CASE Read /\ UNCHANGED handled
  <2>1. CASE Delay = "short"
    BY <1>5, <2>1, ReadTold, OrderlyBetween
  <2>2. CASE Delay # "short"
    <3>1. /\ phase' = "idle" /\ ~probing' /\ Len(todo') <= 1 /\ toDevice' = <<>>
          /\ result'.status \in Statuses => result'.mine = TRUE
      BY <1>5, <2>2, ReadTold
    <3> QED
      BY <2>2, <3>1 DEF Orderly
  <2> QED
    BY <2>1, <2>2
<1>6. CASE WaitOver /\ UNCHANGED <<probing, target, todo, result, lineVars, handled>>
  <2>1. phase = "waiting" /\ phase' = "reading"
        /\ (Delay = "short" => toDevice = <<>> /\ arrived = Len(toHost))
    BY <1>6 DEF WaitOver
  <2>2. UNCHANGED <<probing, todo, toDevice, toHost, arrived, result, handled>>
    BY <1>6 DEF lineVars
  <2>3. Fitting' = Fitting
    BY <2>2 DEF Fitting
  <2>4. ThePacket' = ThePacket
    BY <1>6, RequestSame DEF ThePacket
  <2> QED
    BY <2>1, <2>2, <2>3, <2>4 DEF Orderly
<1>7. CASE Timeout /\ UNCHANGED lineVars
  <2>1. phase = "reading" /\ toDevice' = <<>> /\ toHost' = <<>> /\ Proceed(Bad)
    BY <1>2, <1>7 DEF Timeout, Quiet, lineVars
  <2>2. ASSUME Delay # "short" PROVE ~probing' /\ Len(todo') <= 1
    BY <2>1, <2>2, OneIsLast
  <2> QED
    BY <1>7, <2>1, <2>2, BadTold, OrderlyBetween
<1>8. CASE Write
  <2>1. toHost' = <<>> /\ (toDevice' = <<>> \/ toDevice' = <<ThePacket>>)
    BY <1>8, WriteEmpty
  <2>2. phase' = "waiting" /\ handled' = "none"
        /\ UNCHANGED <<probing, target, todo, result>>
    BY <1>8 DEF Write
  <2>3. ThePacket' = ThePacket
    BY <2>2, RequestSame DEF ThePacket
  <2>4. toHost' \in Seq(Fitting') /\ Len(toHost') <= AnswerLen
    BY <2>1, EmptySeq, HostConstants
  <2>5. toDevice' # <<>> => toDevice' = <<ThePacket'>>
    BY <2>1, <2>3
  <2> QED
    BY <2>1, <2>2, <2>4, <2>5 DEF Orderly
<1> QED
  BY <1>3, <1>4, <1>5, <1>6, <1>7, <1>8 DEF Host

LEMMA OrderlyStep ==
  ASSUME InTime, HostInv, Orderly, [HostNext]_jlipVars
  PROVE  Orderly'
<1>1. CASE Start /\ UNCHANGED <<deckVars, lineVars, handled>>
  <2>1. /\ toDevice' = <<>> /\ phase' = "purging"
        /\ UNCHANGED <<result, probing, toHost>>
        /\ Delay = "short" => toHost = <<>>
    BY <1>1 DEF Start, Orderly, lineVars
  <2>2. result.status \in Statuses => result.mine = TRUE
    BY DEF Orderly
  <2>3. ASSUME Delay # "short" PROVE Len(todo') <= 1 /\ target' \in 1 .. 63 /\ ~probing
    <3>1. OneByOne /\ ~probing
      BY <2>3 DEF InTime, Orderly
    <3>2. target' \in IdArgs /\ todo' \in Scripts
      BY <1>1 DEF Start
    <3>3. Len(todo') = 1 /\ target' \in 1 .. 63
      BY <3>1, <3>2 DEF OneByOne
    <3> QED
      BY <3>1, <3>3
  <2> QED
    BY <2>1, <2>2, <2>3 DEF Orderly
<1>2. CASE Host
  BY <1>2, OrderlyHost
<1>3. CASE Surroundings
  <2>1. CASE Settle /\ UNCHANGED <<hostVars, lineVars, handled>>
    BY <2>1, OrderlySame DEF hostVars
  <2> QED
    BY <1>3, <2>1, OrderlyHandle, OrderlyLine DEF Surroundings
<1>4. CASE UNCHANGED jlipVars
  BY <1>4, OrderlySame DEF jlipVars, hostVars
<1> QED
  BY <1>1, <1>2, <1>3, <1>4 DEF HostNext

\* With prompt answers, or slow ones to a single request, an answer that the host
\* takes for one is the answer to the request it has made last, for every command,
\* every ID, every loss and every restart of the device.
THEOREM AnswersBelong ==
  ASSUME InTime
  PROVE  HostSpec => []AnswerBelongs
<1>1. HostInit => HostInv /\ Orderly
  BY InvInit, OrderlyInit
<1>2. HostInv /\ Orderly /\ [HostNext]_jlipVars => (HostInv /\ Orderly)'
  BY InvStep, OrderlyStep
<1>3. Orderly => AnswerBelongs
  BY OrderlyGives
<1> QED
  BY <1>1, <1>2, <1>3, PTL DEF HostSpec

-----------------------------------------------------------------------------
(* What the host may rely on.                                              *)

\* The host waits for an answer to a request.
LEMMA CallUnderWay ==
  ASSUME HostInv, phase \in {"waiting", "reading"}
  PROVE  /\ Call = [to |-> target, request |-> CreatePacket(Request), answer |-> handled]
         /\ Call # Calls!NoCall
<1>1. target # 0
  BY DEF HostInv, HostSide
<1>2. Call = [to |-> target, request |-> CreatePacket(Request), answer |-> handled]
  BY DEF Call
<1> QED
  BY <1>1, <1>2 DEF Calls!NoCall

LEMMA NoCallUnderWay ==
  ASSUME phase \notin {"waiting", "reading"}
  PROVE  Call = Calls!NoCall
<1> QED
  BY DEF Call, Calls!NoCall, NoArg

\* A step that leaves the device, the call and what was told alone.
LEMMA CallStutters ==
  ASSUME UNCHANGED deckVars, Call' = Call, result'.status = result.status
  PROVE  UNCHANGED Calls!remoteVars
<1> QED
  BY DEF Calls!remoteVars, Calls!deckVars, deckVars

LEMMA InitMaps ==
  ASSUME HostInit
  PROVE  Calls!RemoteInit
<1>1. Call = Calls!NoCall
  BY NoCallUnderWay DEF HostInit
<1>2. result.status = "none"
  BY DEF HostInit, None
<1> QED
  BY <1>1, <1>2 DEF HostInit, Calls!RemoteInit, DeckInit, Calls!DeckInit, NoAnswer,
     Calls!NoAnswer, Init, Calls!Init

LEMMA WriteMaps ==
  ASSUME HostInv, Write, UNCHANGED deckVars
  PROVE  Calls!Ask
<1>1. phase = "ready" /\ phase' = "waiting" /\ target' = target /\ handled' = "none"
      /\ result' = result
  BY DEF Write
<1>2. Call = Calls!NoCall
  BY <1>1, NoCallUnderWay
<1>3. Call' # Calls!NoCall /\ Call'.answer = "none"
  <2>1. Call' = [to |-> target', request |-> CreatePacket(Request)', answer |-> handled']
    BY <1>1 DEF Call
  <2>2. target' # 0
    BY <1>1 DEF HostInv, HostSide
  <2> QED
    BY <1>1, <2>1, <2>2 DEF Calls!NoCall
<1> QED
  BY <1>1, <1>2, <1>3 DEF Calls!Ask, Calls!Waiting, Calls!deckVars, deckVars

\* The host stops waiting: it was told the answer, or that there was none.
LEMMA EndMaps ==
  ASSUME HostInv, phase = "reading", phase' \in {"idle", "ready"}, UNCHANGED deckVars,
         \/ result'.status = "BAD"
         \/ result'.status \in Statuses /\ result'.status = handled
  PROVE  Calls!Tell \/ Calls!GiveUp
<1>1. Call # Calls!NoCall /\ Call.answer = handled
  BY CallUnderWay
<1>2. Call' = Calls!NoCall
  <2>1. Call' = [to |-> 0, request |-> NoArg("none"), answer |-> "none"]
    BY DEF Call
  <2> QED
    BY <2>1 DEF Calls!NoCall, NoArg
<1>3. handled \in Statuses => handled # "none"
  BY DEF Statuses
<1> QED
  BY <1>1, <1>2, <1>3 DEF Calls!Tell, Calls!GiveUp, Calls!Waiting, Calls!deckVars, deckVars

LEMMA HandleMaps ==
  ASSUME HostInv, Orderly, Handle
  PROVE  Calls!Execute \/ Calls!Ignore
<1> DEFINE p == ThePacket
<1>1. UNCHANGED hostVars
  BY HandlesThePacket
<1>2. handled = "none"
  BY HandlesThePacket
<1>3. p.to = target /\ p.request = CreatePacket(Request) /\ p.current = TRUE
  BY HandlesThePacket
<1>4. Head(toDevice) = p
  BY HandlesThePacket
<1> HIDE DEF p
<1>5. phase \in {"waiting", "reading"} /\ phase' \in {"waiting", "reading"}
  BY HandlesThePacket DEF hostVars
<1>6. UNCHANGED <<probing, todo, target, result>>
  BY <1>1 DEF hostVars
<1>7. Call = [to |-> target, request |-> CreatePacket(Request), answer |-> handled]
      /\ Call # Calls!NoCall
  BY <1>5, CallUnderWay
<1>8. Call' = [to |-> target, request |-> CreatePacket(Request), answer |-> handled']
  <2>1. Call' = [to |-> target', request |-> CreatePacket(Request)', answer |-> handled']
    BY <1>5 DEF Call
  <2> QED
    BY <1>6, <2>1, RequestSame
<1>9. CASE ~Meant(p) /\ Silence /\ UNCHANGED <<toHost, handled>>
  <2>1. Call' = Call
    BY <1>7, <1>8, <1>9
  <2>2. Call.to # id
    BY <1>3, <1>7, <1>9 DEF Meant
  <2>3. Calls!Silence
    BY <1>9 DEF Silence, Does, NoAnswer, Calls!Silence, Calls!Does,
                   Calls!NoAnswer
  <2> QED
    BY <1>6, <1>7, <2>1, <2>2, <2>3 DEF Calls!Ignore, Calls!Waiting
<1>10. CASE /\ Meant(p)
            /\ AskTransport \/ AskSetId
            /\ request' = p.request
            /\ handled' = IF p.current THEN answer'.status ELSE handled
  <2>1. Calls!AskTransport \/ Calls!AskSetId
    <3>1. AskTransport => Calls!AskTransport
      BY DEF AskTransport, AskOn, AskOff, AskPlay, AskPause, AskStop, AskSeek, AskNext,
             AskPrevious, AskPowerStatus, AskQuery, AskUnknown, SeekOrRefuse, TurnOn,
             TurnOff, Play, Pause, Stop, SeekTo, Same, Does, Says,
             Calls!AskTransport, Calls!AskOn, Calls!AskOff, Calls!AskPlay,
             Calls!AskPause, Calls!AskStop, Calls!AskSeek, Calls!AskNext,
             Calls!AskPrevious, Calls!AskPowerStatus, Calls!AskQuery,
             Calls!AskUnknown, Calls!SeekOrRefuse, Calls!TurnOn, Calls!TurnOff,
             Calls!Play, Calls!Pause, Calls!Stop, Calls!SeekTo, Calls!Same,
             Calls!Does, Calls!Says
    <3>2. AskSetId => Calls!AskSetId
      BY DEF AskSetId, Same, Does, Says,
             Calls!AskSetId, Calls!Same, Calls!Does, Calls!Says
    <3> QED
      BY <1>10, <3>1, <3>2
  <2>2. Call.to = id /\ Call.answer = "none" /\ request' = Call.request
    BY <1>2, <1>3, <1>7, <1>10 DEF Meant
  <2>3. handled' = answer'.status
    BY <1>3, <1>10
  <2>4. Call' = [Call EXCEPT !.answer = answer'.status]
    BY <1>7, <1>8, <2>3
  <2> QED
    BY <1>6, <1>7, <2>1, <2>2, <2>4 DEF Calls!Execute, Calls!Waiting
<1> QED
  BY <1>4, <1>9, <1>10 DEF Handle

LEMMA HostMaps ==
  ASSUME HostInv, Orderly, Host
  PROVE  [Calls!RemoteNext]_Calls!remoteVars
<1>1. CASE PurgeComm /\ UNCHANGED <<deckVars, handled>>
  <2>1. Call' = Call
    BY <1>1, NoCallUnderWay DEF PurgeComm, hostVars, Call, Request
  <2> QED
    BY <1>1, <2>1, CallStutters DEF PurgeComm, hostVars
<1>2. CASE Purged /\ UNCHANGED <<deckVars, handled>>
  <2>1. Call' = Call
    BY <1>2 DEF Purged, Call, NoArg
  <2> QED
    BY <1>2, <2>1, CallStutters DEF Purged
<1>3. CASE WaitOver /\ UNCHANGED <<probing, target, todo, result, lineVars, handled, deckVars>>
  <2>1. Request' = Request
    BY <1>3, RequestSame
  <2>2. Call' = Call
    BY <1>3, <2>1 DEF WaitOver, Call
  <2> QED
    BY <1>3, <2>2, CallStutters
<1>4. CASE Read /\ UNCHANGED <<deckVars, handled>>
  BY <1>4, ReadTold, ReadKeeps, EndMaps DEF Read, Calls!RemoteNext
<1>5. CASE Timeout /\ UNCHANGED deckVars
  BY <1>5, BadTold, EndMaps DEF Timeout, Calls!RemoteNext
<1>6. CASE Write /\ UNCHANGED deckVars
  BY <1>6, WriteMaps DEF Calls!RemoteNext
<1> QED
  BY <1>1, <1>2, <1>3, <1>4, <1>5, <1>6 DEF Host

LEMMA SurroundingsMap ==
  ASSUME HostInv, Orderly, Surroundings
  PROVE  [Calls!RemoteNext]_Calls!remoteVars
<1>1. CASE Handle
  BY <1>1, HandleMaps DEF Calls!RemoteNext
<1>2. ASSUME UNCHANGED <<hostVars, handled>>
      PROVE  Call' = Call /\ result'.status = result.status
  <2>1. Request' = Request
    BY <1>2, RequestSame DEF hostVars
  <2> QED
    BY <1>2, <2>1 DEF Call, hostVars
<1>3. CASE Arrive \/ LoseByte
  BY <1>2, <1>3, CallStutters DEF Arrive, LoseByte
<1>4. CASE Restart
  <2>1. Calls!PowerCut
    BY <1>4 DEF Restart, PowerCut, Does, NoAnswer, Calls!PowerCut, Calls!Does,
                   Calls!NoAnswer
  <2> QED
    BY <1>2, <1>4, <2>1 DEF Restart, Calls!DeviceAlone, Calls!RemoteNext
<1>5. CASE Settle /\ UNCHANGED <<hostVars, lineVars, handled>>
  <2>1. Calls!Settle
    BY <1>5 DEF Settle, Calls!Settle
  <2> QED
    BY <1>2, <1>5, <2>1 DEF Calls!DeviceAlone, Calls!RemoteNext
<1> QED
  BY <1>1, <1>3, <1>4, <1>5 DEF Surroundings

LEMMA StepMaps ==
  ASSUME HostInv, Orderly, [HostNext]_jlipVars
  PROVE  [Calls!RemoteNext]_Calls!remoteVars
<1>1. CASE Start /\ UNCHANGED <<deckVars, lineVars, handled>>
  <2>1. Call' = Call
    BY <1>1 DEF Start, Call, NoArg
  <2> QED
    BY <1>1, <2>1, CallStutters DEF Start
<1>2. CASE UNCHANGED jlipVars
  <2>1. Request' = Request
    BY <1>2, RequestSame DEF jlipVars, hostVars
  <2>2. Call' = Call /\ UNCHANGED deckVars /\ result' = result
    BY <1>2, <2>1 DEF Call, jlipVars, hostVars
  <2> QED
    BY <2>2, CallStutters
<1> QED
  BY <1>1, <1>2, HostMaps, SurroundingsMap DEF HostNext

\* With prompt answers, or slow ones to a single request, each request is carried out
\* at most once, while the host waits for it, and the host is told the answer the
\* device gave to it, or that none came; a rest of a slow answer that is still coming
\* in when the program ends does no harm, as the next run empties the line.
THEOREM HostImplementsRemote ==
  ASSUME InTime
  PROVE  HostSpec => ImplementsRemote
<1>1. HostInit => HostInv /\ Orderly /\ Calls!RemoteInit
  BY InvInit, OrderlyInit, InitMaps
<1>2. HostInv /\ Orderly /\ [HostNext]_jlipVars
         => (HostInv /\ Orderly)' /\ [Calls!RemoteNext]_Calls!remoteVars
  BY InvStep, OrderlyStep, StepMaps
<1> QED
  BY <1>1, <1>2, PTL DEF HostSpec, ImplementsRemote, Calls!RemoteSpec

-----------------------------------------------------------------------------
(* What the host was told has come true.                                   *)

\* The arguments with which SeekToChapter and SetID send what was asked for, or
\* something as impossible.
InRange ==
  {r \in Requests : /\ r.command = "seek" => r.arg \in 0 .. 99
                    /\ r.command = "set id" => r.arg \in 0 .. 64}

\* Once the device has answered, it is as the answer says, and it stays so while the
\* host reads.
Told ==
  /\ id \in 1 .. 63
  /\ todo \in Seq(InRange)
  /\ phase \in {"waiting", "reading"} /\ handled \in Statuses =>
       After(Request.command, Request.arg, handled)
  /\ Between /\ result.status \in Statuses =>
       After(result.command, result.arg, result.status)

LEMMA WhichCommand ==
  ASSUME AskTransport \/ AskSetId
  PROVE  /\ request'.command = "turn on" => AskOn
         /\ request'.command = "turn off" => AskOff
         /\ request'.command = "play" => AskPlay
         /\ request'.command = "stop" => AskStop
         /\ request'.command = "seek" => AskSeek
         /\ request'.command = "set id" => AskSetId
<1>1. \A c, a : Does(c, a) => request'.command = c
  BY DEF Does
<1>2. AskOn => request'.command = "turn on"
  BY <1>1 DEF AskOn
<1>3. AskOff => request'.command = "turn off"
  BY <1>1 DEF AskOff
<1>4. AskPlay => request'.command = "play"
  BY <1>1 DEF AskPlay
<1>5. AskPause => request'.command = "pause"
  BY <1>1 DEF AskPause
<1>6. AskStop => request'.command = "stop"
  BY <1>1 DEF AskStop
<1>7. AskSeek => request'.command = "seek"
  BY <1>1 DEF AskSeek
<1>8. AskNext => request'.command = "next"
  BY <1>1 DEF AskNext
<1>9. AskPrevious => request'.command = "previous"
  BY <1>1 DEF AskPrevious
<1>10. AskPowerStatus => request'.command = "power status"
  BY <1>1 DEF AskPowerStatus
<1>11. AskQuery => request'.command = "query"
  BY <1>1 DEF AskQuery
<1>12. AskUnknown => request'.command = "unknown"
  BY <1>1 DEF AskUnknown
<1>13. AskSetId => request'.command = "set id"
  BY <1>1 DEF AskSetId
<1> QED
  BY <1>2, <1>3, <1>4, <1>5, <1>6, <1>7, <1>8, <1>9, <1>10, <1>11, <1>12, <1>13
     DEF AskTransport

\* What SeekToChapter and SetID send.
LEMMA DigitsSent ==
  ASSUME NEW r \in InRange
  PROVE  /\ r.command = "seek" => CreatePacket(r) = [command |-> "seek", arg |-> r.arg]
         /\ r.command = "set id" =>
              \E new \in 0 .. 63 : /\ CreatePacket(r) = [command |-> "set id", arg |-> new]
                                   /\ new = r.arg \/ (new = 0 /\ r.arg = 64)
         /\ r.command \in {"turn on", "turn off", "play", "stop"} => CreatePacket(r) = r
<1>1. ASSUME NEW c \in 0 .. 99
      PROVE  10 * ((c \div 10) % 10) + (c % 10) = c
  OBVIOUS
<1>2. ASSUME NEW c \in 0 .. 64
      PROVE  c % 64 \in 0 .. 63 /\ (c % 64 = c \/ (c % 64 = 0 /\ c = 64))
  OBVIOUS
<1>3. r.command = "seek" => CreatePacket(r) = [command |-> "seek", arg |-> r.arg]
  <2> SUFFICES ASSUME r.command = "seek"
               PROVE  CreatePacket(r) = [command |-> "seek", arg |-> r.arg]
    OBVIOUS
  <2>1. CreatePacket(r) = SeekToChapter(r.arg)
    <3>1. r.command # "set id" /\ r.command \notin DeviceQueries
          /\ r.command \notin DriveCommands
      BY DEF DeviceQueries, DriveCommands
    <3> QED
      BY <3>1, Zenon DEF CreatePacket
  <2>2. r.arg \in 0 .. 99
    BY DEF InRange
  <2> QED
    BY <1>1, <2>1, <2>2 DEF SeekToChapter
<1>4. r.command = "set id" =>
        \E new \in 0 .. 63 : /\ CreatePacket(r) = [command |-> "set id", arg |-> new]
                             /\ new = r.arg \/ (new = 0 /\ r.arg = 64)
  <2> SUFFICES ASSUME r.command = "set id"
               PROVE  /\ CreatePacket(r) = [command |-> "set id", arg |-> r.arg % 64]
                      /\ r.arg % 64 \in 0 .. 63
                      /\ r.arg % 64 = r.arg \/ (r.arg % 64 = 0 /\ r.arg = 64)
    OBVIOUS
  <2>1. CreatePacket(r) = SetID(r.arg)
    <3>1. r.command # "seek" /\ r.command \notin DeviceQueries
          /\ r.command \notin DriveCommands
      BY DEF DeviceQueries, DriveCommands
    <3> QED
      BY <3>1, Zenon DEF CreatePacket
  <2>2. r.arg \in 0 .. 64
    BY DEF InRange
  <2> QED
    BY <1>2, <2>1, <2>2 DEF SetID
<1>5. r.command \in {"turn on", "turn off", "play", "stop"} => CreatePacket(r) = r
  BY DEF CreatePacket, DeviceQueries, DriveCommands
<1> QED
  BY <1>3, <1>4, <1>5

\* Each command of the device does what its answer says.
LEMMA AnswerTrue ==
  ASSUME id \in 1 .. 63, NEW r \in InRange, NEW s,
         AskTransport \/ AskSetId,
         request' = CreatePacket(r), s = answer'.status
  PROVE  After(r.command, r.arg, s)'
<1>1. CASE r.command = "turn on"
  <2>1. AskOn
    BY <1>1, WhichCommand, DigitsSent
  <2> QED
    BY <1>1, <2>1 DEF AskOn, TurnOn, Same, After
<1>2. CASE r.command = "turn off"
  <2>1. AskOff
    BY <1>2, WhichCommand, DigitsSent
  <2> QED
    BY <1>2, <2>1 DEF AskOff, TurnOff, Same, After
<1>3. CASE r.command = "play"
  <2>1. AskPlay
    BY <1>3, WhichCommand, DigitsSent
  <2> QED
    BY <1>3, <2>1 DEF AskPlay, Play, Says, After
<1>4. CASE r.command = "stop"
  <2>1. AskStop
    BY <1>4, WhichCommand, DigitsSent
  <2> QED
    BY <1>4, <2>1 DEF AskStop, Stop, Same, Says, After
<1>5. CASE r.command = "seek"
  <2>1. request' = [command |-> "seek", arg |-> r.arg]
    BY <1>5, DigitsSent
  <2>2. request'.command = "seek" /\ request'.arg = r.arg
    BY <2>1
  <2>3. PICK c \in ChapterArgs : Does("seek", c) /\ SeekOrRefuse(c)
    BY <2>2, WhichCommand DEF AskSeek
  <2>4. c = r.arg
    BY <2>2, <2>3 DEF Does
  <2> QED
    BY <1>5, <2>3, <2>4 DEF SeekOrRefuse, SeekTo, Says, After
<1>6. CASE r.command = "set id"
  <2> DEFINE name == "set id"
  <2>1. PICK new \in 0 .. 63 : /\ request' = [command |-> name, arg |-> new]
                               /\ new = r.arg \/ (new = 0 /\ r.arg = 64)
    BY <1>6, DigitsSent
  <2>2. request'.command = name => AskSetId
    BY WhichCommand
  <2>3. AskSetId => \E n \in NewIds :
          /\ Does(name, n)
          /\ \/ n \in 1 .. 63 /\ Says("OK", 0) /\ id' = n
             \/ n \notin 1 .. 63 /\ Says("ERROR", 0) /\ id' = id
    BY Zenon DEF AskSetId
  <2>4. ((s = "OK") <=> (id' = r.arg)) => After(r.command, r.arg, s)'
    BY <1>6 DEF After
  <2> HIDE DEF name
  <2>5. request'.command = name /\ request'.arg = new
    BY <2>1
  <2>6. PICK n \in NewIds :
          /\ Does(name, n)
          /\ \/ n \in 1 .. 63 /\ Says("OK", 0) /\ id' = n
             \/ n \notin 1 .. 63 /\ Says("ERROR", 0) /\ id' = id
    BY <2>2, <2>3, <2>5
  <2>7. n = new
    BY <2>5, <2>6 DEF Does
  <2>8. \/ new \in 1 .. 63 /\ s = "OK" /\ id' = new
        \/ new \notin 1 .. 63 /\ s = "ERROR" /\ id' = id
    BY <2>6, <2>7 DEF Says
  <2>9. CASE new \in 1 .. 63
    BY <2>1, <2>4, <2>8, <2>9
  <2>10. CASE new \notin 1 .. 63
    <3>1. r.arg \notin 1 .. 63
      BY <2>1, <2>10
    <3>2. id' # r.arg /\ s # "OK"
      BY <2>8, <2>10, <3>1
    <3> QED
      BY <2>4, <3>2
  <2> QED
    BY <2>9, <2>10
<1>7. CASE r.command \notin {"turn on", "turn off", "play", "stop", "seek", "set id"}
  BY <1>7 DEF After
<1> QED
  BY <1>1, <1>2, <1>3, <1>4, <1>5, <1>6, <1>7

LEMMA AfterSame ==
  ASSUME UNCHANGED <<mode, track, id>>, NEW c, NEW a, NEW s, After(c, a, s)
  PROVE  After(c, a, s)'
<1> QED
  BY DEF After

\* The host rests, or makes its requests; the device stays as it is.
LEMMA ToldRests ==
  ASSUME Told, UNCHANGED <<mode, track, id>>, UNCHANGED <<result, handled>>,
         todo' \in Seq(InRange),
         Between' => Between,
         phase' \in {"waiting", "reading"} =>
           phase \in {"waiting", "reading"} /\ Request' = Request
  PROVE  Told'
<1>1. id' \in 1 .. 63
  BY DEF Told
<1>2. ASSUME phase' \in {"waiting", "reading"}, handled' \in Statuses
      PROVE  After(Request.command, Request.arg, handled)'
  <2>1. After(Request.command, Request.arg, handled)
    BY <1>2 DEF Told
  <2>2. PICK c, a, s : c = Request.command /\ a = Request.arg /\ s = handled
    OBVIOUS
  <2>3. After(c, a, s)'
    BY <2>1, <2>2, AfterSame
  <2>4. c = Request'.command /\ a = Request'.arg /\ s = handled'
    BY <1>2, <2>2
  <2> QED
    BY <2>3, <2>4
<1>3. ASSUME Between', result'.status \in Statuses
      PROVE  After(result.command, result.arg, result.status)'
  <2>1. After(result.command, result.arg, result.status)
    BY <1>3 DEF Told
  <2>2. PICK c, a, s : c = result.command /\ a = result.arg /\ s = result.status
    OBVIOUS
  <2>3. After(c, a, s)'
    BY <2>1, <2>2, AfterSame
  <2> QED
    BY <2>2, <2>3
<1> QED
  BY <1>1, <1>2, <1>3 DEF Told

\* The requests that are left after one, or after a command.
LEMMA LeftInRange ==
  ASSUME HostInv, Told, phase # "idle", NEW r, Proceed(r)
  PROVE  todo' \in Seq(InRange)
<1>1. todo \in Seq(InRange) /\ todo # <<>>
  BY DEF HostInv, HostSide, Told
<1>2. Tail(todo) \in Seq(InRange) /\ <<>> \in Seq(InRange)
  BY <1>1, HeadTailProperties, EmptySeq
<1> QED
  BY <1>1, <1>2 DEF Proceed, ProbeFound, ProbeNext, ProbeFailed, CommandGoesOn

LEMMA RequestInRange ==
  ASSUME HostInv, Told, phase # "idle"
  PROVE  Request \in InRange
<1>1. NoOp \in InRange
  <2>1. NoOp \in Requests /\ NoOp.arg = 0
    BY DEF Requests, NoOp, NoArg
  <2>2. NoOp.arg \in 0 .. 99 /\ NoOp.arg \in 0 .. 64
    BY <2>1
  <2> QED
    BY <2>1, <2>2, Zenon DEF InRange
<1>2. todo \in Seq(InRange) /\ todo # <<>>
  BY DEF HostInv, HostSide, Told
<1>3. Head(todo) \in InRange
  BY <1>2, HeadTailProperties
<1> QED
  BY <1>1, <1>3 DEF Request

LEMMA ToldRead ==
  ASSUME HostInv, Orderly, Told, Read, UNCHANGED deckVars, UNCHANGED handled
  PROVE  Told'
<1>1. phase = "reading" /\ phase' \in {"idle", "ready"}
  BY ReadKeeps DEF Read
<1>2. PICK r \in GetPacketStatus(SubSeq(toHost, 1, Least(arrived, AnswerLen))) : Proceed(r)
  BY DEF Read
<1>3. todo' \in Seq(InRange) /\ result' = r
  BY <1>1, <1>2, LeftInRange DEF Proceed
<1>4. r.command = Request.command /\ r.arg = Request.arg
  BY <1>2 DEF GetPacketStatus, Bad, Outcome
<1>5. id' \in 1 .. 63
  BY DEF Told, deckVars
<1>6. ASSUME result'.status \in Statuses
      PROVE  After(result.command, result.arg, result.status)'
  <2>1. result'.status = handled
    BY <1>6, ReadTold
  <2>2. After(Request.command, Request.arg, handled)
    BY <1>1, <1>6, <2>1 DEF Told
  <2>3. PICK c, a, s : c = Request.command /\ a = Request.arg /\ s = handled
    OBVIOUS
  <2>4. After(c, a, s)'
    BY <2>2, <2>3, AfterSame DEF deckVars
  <2>5. c = result'.command /\ a = result'.arg /\ s = result'.status
    BY <1>3, <1>4, <2>1, <2>3
  <2> QED
    BY <2>4, <2>5
<1>7. phase' \notin {"waiting", "reading"}
  BY <1>1
<1> QED
  BY <1>3, <1>5, <1>6, <1>7 DEF Told

LEMMA ToldTimeout ==
  ASSUME HostInv, Told, Timeout, UNCHANGED deckVars
  PROVE  Told'
<1>1. result'.status = "BAD" /\ phase' \in {"idle", "ready"}
  BY BadTold
<1>2. result'.status \notin Statuses /\ phase' \notin {"waiting", "reading"}
  BY <1>1 DEF Statuses
<1>3. phase # "idle" /\ Proceed(Bad)
  BY DEF Timeout
<1>4. todo' \in Seq(InRange)
  BY <1>3, LeftInRange
<1> QED
  BY <1>2, <1>4 DEF Told, deckVars

LEMMA ToldHost ==
  ASSUME HostInv, Orderly, Told, Host
  PROVE  Told'
<1>1. CASE PurgeComm /\ UNCHANGED <<deckVars, handled>>
  <2>1. phase' = phase /\ UNCHANGED <<mode, track, id, result, handled, todo>>
        /\ phase' \notin {"waiting", "reading"}
    BY <1>1 DEF PurgeComm, hostVars, deckVars
  <2>2. Between' => Between
    BY <2>1 DEF Between
  <2> QED
    BY <2>1, <2>2, ToldRests DEF Told
<1>2. CASE Purged /\ UNCHANGED <<deckVars, handled>>
  <2>1. phase = "purging" /\ phase' = "ready"
        /\ UNCHANGED <<mode, track, id, result, handled, todo>>
    BY <1>2 DEF Purged, deckVars
  <2>2. Between /\ phase' \notin {"waiting", "reading"}
    BY <2>1 DEF Between
  <2> QED
    BY <2>1, <2>2, ToldRests DEF Told
<1>3. CASE Read /\ UNCHANGED <<deckVars, handled>>
  BY <1>3, ToldRead
<1>4. CASE WaitOver /\ UNCHANGED <<probing, target, todo, result, lineVars, deckVars, handled>>
  <2>1. phase \in {"waiting", "reading"} /\ phase' = "reading" /\ Request' = Request
        /\ UNCHANGED <<mode, track, id, result, handled, todo>>
    BY <1>4, RequestSame DEF WaitOver, deckVars
  <2>2. ~Between'
    BY <2>1 DEF Between
  <2> QED
    BY <2>1, <2>2, ToldRests DEF Told
<1>5. CASE Timeout /\ UNCHANGED <<lineVars, deckVars, handled>>
  BY <1>5, ToldTimeout
<1>6. CASE Write /\ UNCHANGED deckVars
  <2>1. phase' = "waiting" /\ handled' = "none" /\ UNCHANGED <<todo, id>>
    BY <1>6 DEF Write, deckVars
  <2>2. handled' \notin Statuses /\ ~Between'
    BY <2>1 DEF Statuses, Between
  <2> QED
    BY <2>1, <2>2 DEF Told
<1> QED
  BY <1>1, <1>2, <1>3, <1>4, <1>5, <1>6 DEF Host

\* The device does what was asked for, and says so.
LEMMA ToldHandle ==
  ASSUME HostInv, Orderly, Told, Handle
  PROVE  Told'
<1> DEFINE p == ThePacket
<1>1. UNCHANGED hostVars
  BY HandlesThePacket
<1>2. handled = "none"
  BY HandlesThePacket
<1>3. p.to = target /\ p.request = CreatePacket(Request) /\ p.current = TRUE
  BY HandlesThePacket
<1>4. Head(toDevice) = p
  BY HandlesThePacket
<1> HIDE DEF p
<1>5. phase \in {"waiting", "reading"} /\ phase' \in {"waiting", "reading"}
  BY HandlesThePacket DEF hostVars
<1>6. ~Between' /\ todo' = todo /\ Request' = Request
  BY <1>1, <1>5, RequestSame DEF Between, hostVars
<1>7. CASE Silence /\ UNCHANGED handled
  <2>1. handled' \notin Statuses
    BY <1>2, <1>7 DEF Statuses
  <2>2. id' = id
    BY <1>7 DEF Silence
  <2> QED
    BY <1>6, <2>1, <2>2 DEF Told
<1>8. CASE /\ AskTransport \/ AskSetId
           /\ request' = p.request
           /\ handled' = IF p.current THEN answer'.status ELSE handled
  <2>1. id' \in 1 .. 63
    <3>1. id' = id \/ id' \in 1 .. 63
      BY <1>8, Zenon DEF AskTransport, AskSetId
    <3> QED
      BY <3>1 DEF Told
  <2>2. PICK r \in InRange : r = Request
    BY <1>5, RequestInRange
  <2>3. PICK s : s = answer'.status
    OBVIOUS
  <2>4. id \in 1 .. 63
    BY DEF Told
  <2>5. request' = CreatePacket(r)
    BY <1>3, <1>8, <2>2
  <2>6. AskTransport \/ AskSetId
    BY <1>8
  <2>7. After(r.command, r.arg, s)'
    BY <2>3, <2>4, <2>5, <2>6, AnswerTrue
  <2>8. r = Request' /\ s = handled'
    BY <1>3, <1>6, <1>8, <2>2, <2>3
  <2>9. After(Request.command, Request.arg, handled)'
    BY <2>7, <2>8
  <2> QED
    BY <1>6, <2>1, <2>9 DEF Told
<1> QED
  BY <1>4, <1>7, <1>8 DEF Handle

LEMMA ToldStep ==
  ASSUME \A s \in Scripts : s \in Seq(InRange), "power cut" \notin LineFaults,
         HostInv, Orderly, Told, [HostNext]_jlipVars
  PROVE  Told'
<1>1. CASE Start /\ UNCHANGED <<deckVars, lineVars, handled>>
  <2>1. phase = "idle" /\ phase' = "purging" /\ todo' \in Seq(InRange)
        /\ UNCHANGED <<mode, track, id, result, handled>>
    BY <1>1 DEF Start, deckVars
  <2>2. Between /\ phase' \notin {"waiting", "reading"}
    BY <2>1 DEF Between
  <2> QED
    BY <2>1, <2>2, ToldRests
<1>2. CASE Host
  BY <1>2, ToldHost
<1>3. CASE UNCHANGED <<hostVars, mode, track, id, handled>>
  <2>1. phase' = phase /\ UNCHANGED <<mode, track, id, result, handled, todo>>
        /\ Request' = Request
    BY <1>3, RequestSame DEF hostVars
  <2>2. Between' => Between
    BY <2>1 DEF Between
  <2>3. todo' \in Seq(InRange)
    BY <2>1 DEF Told
  <2> QED
    BY <2>1, <2>2, <2>3, ToldRests
<1>4. CASE Surroundings
  <2>1. CASE Handle
    BY <2>1, ToldHandle
  <2>2. CASE Arrive \/ LoseByte \/ (Settle /\ UNCHANGED <<hostVars, lineVars, handled>>)
    BY <1>3, <2>2 DEF Arrive, LoseByte, Settle, deckVars, hostVars
  <2>3. ~Restart
    BY DEF Restart
  <2> QED
    BY <1>4, <2>1, <2>2, <2>3 DEF Surroundings
<1>5. CASE UNCHANGED jlipVars
  BY <1>3, <1>5 DEF jlipVars, deckVars
<1> QED
  BY <1>1, <1>2, <1>4, <1>5 DEF HostNext

LEMMA ToldInit ==
  ASSUME HostInit
  PROVE  Told
<1>1. id \in 1 .. 63
  BY HostConstants DEF HostInit
<1>2. phase = "idle" /\ todo = <<>> /\ result.status = "none"
  BY DEF HostInit, None
<1>3. todo \in Seq(InRange) /\ result.status \notin Statuses
      /\ phase \notin {"waiting", "reading"}
  BY <1>2, EmptySeq DEF Statuses
<1> QED
  BY <1>1, <1>3 DEF Told

\* With answers in time, arguments in range and power that stays on, whatever is lost
\* on the line, what the host was told is so (utils/JLIPTest.cpp, "@retval STATUS_OK
\* The device executed the play command" and the like).
THEOREM ToldIsTrue ==
  ASSUME InTime, "power cut" \notin LineFaults,
         \A s \in Scripts : s \in Seq(InRange)
  PROVE  HostSpec => []ToldTruly
<1>1. HostInit => HostInv /\ Orderly /\ Told
  BY InvInit, OrderlyInit, ToldInit
<1>2. HostInv /\ Orderly /\ Told /\ [HostNext]_jlipVars => (HostInv /\ Orderly /\ Told)'
  BY InvStep, OrderlyStep, ToldStep
<1>3. Told => ToldTruly
  BY DEF Told, ToldTruly
<1> QED
  BY <1>1, <1>2, <1>3, PTL DEF HostSpec

-----------------------------------------------------------------------------
(* The ID that was found.                                                  *)

\* A device that has answered to a NoOp has the ID the NoOp was sent to, and keeps it
\* until the next request.
Found ==
  /\ phase \in {"waiting", "reading"} /\ Request.command = "no op" /\ handled = "OK" =>
       target = id
  /\ FoundIsThere

\* A NoOp is a query, which changes no ID.
LEMMA NoOpSent ==
  ASSUME NEW r, r.command = "no op"
  PROVE  CreatePacket(r) = NoArg("query")
<1>1. /\ r.command # "seek" /\ r.command # "set id"
      /\ r.command \in DeviceQueries /\ r.command \notin DriveCommands
  BY DEF DeviceQueries, DriveCommands
<1> QED
  BY <1>1, Zenon DEF CreatePacket

\* The host goes on, or rests; the ID stays.
LEMMA FoundRests ==
  ASSUME Found, UNCHANGED <<id, result, handled>>,
         Between' => Between,
         phase' \in {"waiting", "reading"} =>
           phase \in {"waiting", "reading"} /\ UNCHANGED target /\ Request' = Request
  PROVE  Found'
<1>1. FoundIsThere'
  BY DEF Found, FoundIsThere
<1>2. ASSUME phase' \in {"waiting", "reading"}, Request'.command = "no op", handled' = "OK"
      PROVE  target' = id'
  BY <1>2 DEF Found
<1> QED
  BY <1>1, <1>2 DEF Found

LEMMA FoundRead ==
  ASSUME HostInv, Orderly, Found, Read, UNCHANGED deckVars, UNCHANGED handled
  PROVE  Found'
<1>1. phase = "reading" /\ phase' \notin {"waiting", "reading"}
  BY ReadKeeps DEF Read
<1>2. PICK r \in GetPacketStatus(SubSeq(toHost, 1, Least(arrived, AnswerLen))) : Proceed(r)
  BY DEF Read
<1>3. r.command = Request.command /\ r.to = target
  BY <1>2 DEF GetPacketStatus, Bad, Outcome
<1>4. result' = r
  BY <1>2 DEF Proceed
<1>5. ASSUME result'.command = "no op", result'.status = "OK"
      PROVE  result'.to = id'
  <2>1. result'.status \in Statuses
    BY <1>5 DEF Statuses
  <2>2. handled = "OK"
    BY <1>5, <2>1, ReadTold
  <2>3. Request.command = "no op"
    BY <1>3, <1>4, <1>5
  <2>4. target = id
    BY <1>1, <2>2, <2>3 DEF Found
  <2> QED
    BY <1>3, <1>4, <2>4 DEF deckVars
<1> QED
  BY <1>1, <1>5 DEF Found, FoundIsThere

LEMMA FoundHost ==
  ASSUME HostInv, Orderly, Found, Host
  PROVE  Found'
<1>1. CASE PurgeComm /\ UNCHANGED <<deckVars, handled>>
  <2>1. phase = "purging" /\ UNCHANGED <<phase, id, result, handled>>
    BY <1>1 DEF PurgeComm, hostVars, deckVars
  <2>2. Between /\ phase' \notin {"waiting", "reading"}
    BY <2>1 DEF Between
  <2> QED
    BY <2>1, <2>2, FoundRests
<1>2. CASE Purged /\ UNCHANGED <<deckVars, handled>>
  <2>1. phase = "purging" /\ phase' = "ready" /\ UNCHANGED <<id, result, handled>>
    BY <1>2 DEF Purged, deckVars
  <2>2. Between /\ phase' \notin {"waiting", "reading"}
    BY <2>1 DEF Between
  <2> QED
    BY <2>1, <2>2, FoundRests
<1>3. CASE Read /\ UNCHANGED <<deckVars, handled>>
  BY <1>3, FoundRead
<1>4. CASE WaitOver /\ UNCHANGED <<probing, target, todo, result, lineVars, deckVars, handled>>
  <2>1. phase \in {"waiting", "reading"} /\ phase' = "reading" /\ Request' = Request
        /\ UNCHANGED <<target, id, result, handled>>
    BY <1>4, RequestSame DEF WaitOver, deckVars
  <2>2. ~Between'
    BY <2>1 DEF Between
  <2> QED
    BY <2>1, <2>2, FoundRests
<1>5. CASE Timeout /\ UNCHANGED <<lineVars, deckVars, handled>>
  <2>1. result'.status = "BAD" /\ phase' \in {"idle", "ready"}
    BY <1>5, BadTold
  <2> QED
    BY <2>1 DEF Found, FoundIsThere
<1>6. CASE Write /\ UNCHANGED deckVars
  <2>1. phase' = "waiting" /\ handled' = "none"
    BY <1>6 DEF Write
  <2> QED
    BY <2>1 DEF Found, FoundIsThere, Between
<1> QED
  BY <1>1, <1>2, <1>3, <1>4, <1>5, <1>6 DEF Host

LEMMA FoundHandle ==
  ASSUME HostInv, Orderly, Found, Handle
  PROVE  Found'
<1> DEFINE p == ThePacket
<1>1. UNCHANGED hostVars
  BY HandlesThePacket
<1>2. handled = "none"
  BY HandlesThePacket
<1>3. p.to = target /\ p.request = CreatePacket(Request) /\ p.current = TRUE
  BY HandlesThePacket
<1>4. Head(toDevice) = p
  BY HandlesThePacket
<1> HIDE DEF p
<1>5. phase \in {"waiting", "reading"} /\ phase' \in {"waiting", "reading"}
  BY HandlesThePacket DEF hostVars
<1>6. FoundIsThere' /\ target' = target /\ Request' = Request
  BY <1>1, <1>5, RequestSame DEF FoundIsThere, Between, hostVars
<1>7. CASE UNCHANGED handled
  BY <1>2, <1>6, <1>7 DEF Found
<1>8. CASE Meant(p) /\ (AskTransport \/ AskSetId) /\ request' = p.request
  <2>1. ASSUME Request.command = "no op"
        PROVE  id' = id
    <3>1. request' = NoArg("query")
      BY <1>3, <1>8, <2>1, NoOpSent
    <3>2. request'.command = "query"
      BY <3>1 DEF NoArg
    <3>3. ~AskSetId
      <4>1. \A c, a : Does(c, a) => request'.command = c
        BY DEF Does
      <4>2. AskSetId => request'.command = "set id"
        BY <4>1 DEF AskSetId
      <4> QED
        BY <3>2, <4>2, Zenon
    <3> QED
      BY <1>8, <3>3 DEF AskTransport
  <2>2. target = id
    BY <1>3, <1>8 DEF Meant
  <2> QED
    BY <1>6, <2>1, <2>2 DEF Found
<1> QED
  BY <1>4, <1>7, <1>8 DEF Handle

LEMMA FoundInit ==
  ASSUME HostInit
  PROVE  Found
<1>1. phase = "idle" /\ result.status = "none"
  BY DEF HostInit, None
<1> QED
  BY <1>1 DEF Found, FoundIsThere

LEMMA FoundStep ==
  ASSUME "power cut" \notin LineFaults,
         HostInv, Orderly, Found, [HostNext]_jlipVars
  PROVE  Found'
<1>1. CASE Start /\ UNCHANGED <<deckVars, lineVars, handled>>
  <2>1. phase = "idle" /\ phase' = "purging" /\ UNCHANGED <<id, result, handled>>
    BY <1>1 DEF Start, deckVars
  <2>2. Between /\ phase' \notin {"waiting", "reading"}
    BY <2>1 DEF Between
  <2> QED
    BY <2>1, <2>2, FoundRests
<1>2. CASE Host
  BY <1>2, FoundHost
<1>3. CASE UNCHANGED <<hostVars, id, handled>>
  <2>1. UNCHANGED <<phase, target, id, result, handled>> /\ Request' = Request
    BY <1>3, RequestSame DEF hostVars
  <2>2. Between' => Between
    BY <2>1 DEF Between
  <2> QED
    BY <2>1, <2>2, FoundRests
<1>4. CASE Surroundings
  <2>1. CASE Handle
    BY <2>1, FoundHandle
  <2>2. CASE Arrive \/ LoseByte \/ (Settle /\ UNCHANGED <<hostVars, lineVars, handled>>)
    BY <1>3, <2>2 DEF Arrive, LoseByte, Settle, deckVars, hostVars
  <2>3. ~Restart
    BY DEF Restart
  <2> QED
    BY <1>4, <2>1, <2>2, <2>3 DEF Surroundings
<1>5. CASE UNCHANGED jlipVars
  BY <1>3, <1>5 DEF jlipVars, deckVars
<1> QED
  BY <1>1, <1>2, <1>4, <1>5 DEF HostNext

\* With answers in time and power that stays on, an ID that has answered is the
\* device's; above all the one that probing finds, whatever is lost on the line
\* (utils/JLIPTest.cpp, "@retval STATUS_OK The device responded successfully").
THEOREM FoundIsTrue ==
  ASSUME InTime, "power cut" \notin LineFaults
  PROVE  HostSpec => []FoundIsThere
<1>1. HostInit => HostInv /\ Orderly /\ Found
  BY InvInit, OrderlyInit, FoundInit
<1>2. HostInv /\ Orderly /\ Found /\ [HostNext]_jlipVars => (HostInv /\ Orderly /\ Found)'
  BY InvStep, OrderlyStep, FoundStep
<1>3. Found => FoundIsThere
  BY DEF Found
<1> QED
  BY <1>1, <1>2, <1>3, PTL DEF HostSpec

=============================================================================
