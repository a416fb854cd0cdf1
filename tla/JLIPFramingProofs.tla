------------------------- MODULE JLIPFramingProofs -------------------------
(***************************************************************************)
(* Whatever bytes a packet has and however many are lost, the window of    *)
(* the Victor emulation recognises every packet that arrives whole.  That  *)
(* it recognises nothing else, and that a packet it recognises is the one  *)
(* that was sent, holds as long as no more than two bytes of any two       *)
(* packets in a row are lost: the theorems that need this bound assume it, *)
(* and with three lost bytes they are false.  What the loop of             *)
(* CalcChecksum adds up is found by induction (SetInduction).              *)
(***************************************************************************)
EXTENDS JLIPFraming, SetInduction, TLAPS

\* How many bytes of the packet under way are in the window.
Fresh == sent - lost

FramingTypeOK ==
  /\ window \in [1 .. PacketLen -> Bytes]
  /\ heard \in BOOLEAN
  /\ sending \in HostPackets
  /\ sent \in 0 .. PacketLen
  /\ lost \in 0 .. sent
  /\ changed \in 0 .. MaxChanged
  /\ before \in Nat
  /\ before + lost <= MaxLost

\* Without loss or change the window ends with what has been sent.
EndsWithSent ==
  lost = 0 /\ changed = 0 =>
    \A i \in 1 .. sent : window[PacketLen - sent + i] = sending[i]

\* Without loss and with one change at most, it does so but for one place.
EndsWithOneChanged ==
  lost = 0 /\ changed <= 1 =>
    \E k \in 1 .. PacketLen :
      \A i \in 1 .. sent : i # k => window[PacketLen - sent + i] = sending[i]

\* A change has not been undone: it is in the window.
OneChangeIsThere ==
  lost = 0 /\ changed = 1 =>
    \E k \in 1 .. sent : window[PacketLen - sent + k] # sending[k]

HeardIsGood == heard => IsPacketGood(window)

\* What holds however many bytes are lost.
FramingInv ==
  /\ FramingTypeOK
  /\ EndsWithSent /\ EndsWithOneChanged /\ OneChangeIsThere
  /\ HeardIsGood /\ Recognised

\* Bytes with the top bit set are the first two of a packet: of the one under
\* way, or of the one before, which is short of the bytes that were lost.
TopsAt ==
  \A i \in 1 .. PacketLen :
    window[i] >= Half =>
      i \in {PacketLen - Fresh + 1, PacketLen - Fresh + 2,
             before - Fresh + 1, before - Fresh + 2}

\* What holds if the lost bytes are no more than the preamble has.
AlignedInv == TopsAt /\ Aligned

USE FramingAssumption

-----------------------------------------------------------------------------
(* What CalcChecksum computes.                                             *)

LEMMA Division ==
  ASSUME NEW x \in Nat
  PROVE  /\ x % Half \in 0 .. Half - 1
         /\ \E m \in Int : x = Half * m + (x % Half)
<1>1. x \div Half \in Int
  OBVIOUS
<1>2. x = Half * (x \div Half) + (x % Half)
  OBVIOUS
<1>3. x % Half \in 0 .. Half - 1
  OBVIOUS
<1> QED
  BY <1>1, <1>2, <1>3

\* Of numbers less than Half apart the remainders differ.
LEMMA SameRemainder ==
  ASSUME NEW x \in Nat, NEW y \in Nat, x % Half = y % Half, x - y < Half, y - x < Half
  PROVE  x = y
<1> DEFINE r == x % Half
<1>1. r \in Nat /\ y % Half = r
  BY Division
<1>2. PICK m \in Int : x = Half * m + r
  BY Division
<1>3. PICK n \in Int : y = Half * n + r
  BY <1>1, Division
<1> HIDE DEF r
<1>4. x - y = Half * (m - n) /\ y - x = Half * (n - m)
  BY <1>1, <1>2, <1>3
<1>5. m - n = 0
  <2>1. ASSUME m - n >= 1 PROVE FALSE
    <3>1. Half * (m - n) >= Half
      BY <2>1
    <3> QED
      BY <3>1, <1>4
  <2>2. ASSUME n - m >= 1 PROVE FALSE
    <3>1. Half * (n - m) >= Half
      BY <2>2
    <3> QED
      BY <3>1, <1>4
  <2> QED
    BY <2>1, <2>2
<1> QED
  BY <1>4, <1>5

LEMMA LowBits ==
  ASSUME NEW p \in [1 .. PacketLen -> Bytes], NEW i \in 1 .. PacketLen
  PROVE  p[i] \in Nat /\ p[i] % Half \in 0 .. Half - 1
<1>1. p[i] \in Nat
  BY DEF Bytes
<1>2. ASSUME NEW b \in Nat PROVE b % Half \in 0 .. Half - 1
  BY Division
<1> QED
  BY <1>1, <1>2

\* What the loop of CalcChecksum has added up after each byte.
RunningSum(p) ==
  CHOOSE sum : sum = [i \in 0 .. PacketLen - 1 |->
                        IF i = 0 THEN 0 ELSE sum[i - 1] + (p[i] % Half)]

LEMMA SumIsLast ==
  ASSUME NEW p
  PROVE  Sum(p) = RunningSum(p)[PacketLen - 1]
BY Zenon DEF Sum, RunningSum

\* A sum of the first n bytes.
IsSumUpTo(p, n, g) ==
  /\ g \in [0 .. n -> Nat]
  /\ g[0] = 0
  /\ \A i \in 1 .. n : g[i] = g[i - 1] + (p[i] % Half)

LEMMA SumsExist ==
  ASSUME NEW p \in [1 .. PacketLen -> Bytes]
  PROVE  \E g : IsSumUpTo(p, PacketLen - 1, g)
<1> DEFINE L == PacketLen - 1
           S == {n \in 0 .. L : \E g : IsSumUpTo(p, n, g)}
<1>1. L \in Nat
  OBVIOUS
<1>2. 0 \in S
  <2>1. IsSumUpTo(p, 0, [i \in 0 .. 0 |-> 0])
    BY DEF IsSumUpTo
  <2> QED
    BY <1>1, <2>1
<1>3. ASSUME NEW n \in 0 .. L - 1, n \in S PROVE n + 1 \in S
  <2>1. PICK g : IsSumUpTo(p, n, g)
    BY <1>3
  <2> DEFINE w == p[n + 1] % Half
             h == [i \in 0 .. n + 1 |-> IF i = n + 1 THEN g[n] + w ELSE g[i]]
  <2>2. w \in Nat
    BY LowBits
  <2>3. h \in [0 .. n + 1 -> Nat] /\ h[0] = 0
    BY <2>1, <2>2 DEF IsSumUpTo
  <2>4. ASSUME NEW i \in 1 .. n + 1 PROVE h[i] = h[i - 1] + (p[i] % Half)
    <3>1. CASE i = n + 1
      BY <3>1
    <3>2. CASE i \in 1 .. n
      <4>1. h[i] = g[i] /\ h[i - 1] = g[i - 1]
        BY <3>2
      <4> QED
        BY <2>1, <3>2, <4>1 DEF IsSumUpTo
    <3> QED
      BY <3>1, <3>2
  <2>5. IsSumUpTo(p, n + 1, h)
    <3> HIDE DEF h
    <3> QED
      BY <2>3, <2>4 DEF IsSumUpTo
  <2> QED
    BY <2>5
<1>4. 0 .. L \subseteq S
  <2> HIDE DEF L, S
  <2> QED
    BY <1>1, <1>2, <1>3, Induction
<1>5. L \in S
  BY <1>1, <1>4
<1> QED
  BY <1>5

\* The function that the loop is modelled by adds up one byte after the other.
LEMMA RunningSumAdds ==
  ASSUME NEW p \in [1 .. PacketLen -> Bytes]
  PROVE  IsSumUpTo(p, PacketLen - 1, RunningSum(p))
<1> DEFINE L == PacketLen - 1
           s == RunningSum(p)
           Step(f) == [i \in 0 .. L |-> IF i = 0 THEN 0 ELSE f[i - 1] + (p[i] % Half)]
<1>1. s = Step(s)
  <2>1. PICK g : IsSumUpTo(p, L, g)
    BY SumsExist
  <2>2. ASSUME NEW i \in 0 .. L PROVE g[i] = Step(g)[i]
    BY <2>1 DEF IsSumUpTo
  <2>3. g = Step(g)
    BY <2>1, <2>2 DEF IsSumUpTo
  <2>4. \E f : f = [i \in 0 .. PacketLen - 1 |-> IF i = 0 THEN 0 ELSE f[i - 1] + (p[i] % Half)]
    BY <2>3
  <2> QED
    BY <2>4, Zenon DEF RunningSum
<1> HIDE DEF s
<1>2. s[0] = 0 /\ \A i \in 1 .. L : s[i] = s[i - 1] + (p[i] % Half)
  <2>1. \A i \in 0 .. L : s[i] = IF i = 0 THEN 0 ELSE s[i - 1] + (p[i] % Half)
    BY <1>1, Zenon
  <2> QED
    BY <2>1
<1>3. \A i \in 1 .. L : p[i] % Half \in Nat
  BY LowBits
<1> DEFINE S == {n \in 0 .. L : s[n] \in Nat}
<1>4. 0 \in S /\ L \in Nat
  BY <1>2
<1>5. ASSUME NEW n \in 0 .. L - 1, n \in S PROVE n + 1 \in S
  <2>1. n + 1 \in 1 .. L /\ n + 1 - 1 = n
    OBVIOUS
  <2>2. s[n + 1] = s[n] + (p[n + 1] % Half)
    BY <1>2, <2>1
  <2> QED
    BY <1>3, <1>5, <2>1, <2>2
<1>6. 0 .. L \subseteq S
  <2> HIDE DEF L, S
  <2> QED
    BY <1>4, <1>5, Induction
<1>7. s \in [0 .. L -> Nat]
  <2>1. s = [i \in 0 .. L |-> s[i]]
    BY <1>1
  <2> QED
    BY <1>6, <2>1
<1> QED
  BY <1>2, <1>7 DEF IsSumUpTo, s

LEMMA SumSteps ==
  ASSUME NEW p, NEW m \in Nat, NEW g, IsSumUpTo(p, m, g)
  PROVE  /\ \A n \in 0 .. m : g[n] \in Nat
         /\ \A n \in 0 .. m - 1 : g[n + 1] = g[n] + (p[n + 1] % Half)
<1> DEFINE low(i) == p[i] % Half
<1>1. /\ g \in [0 .. m -> Nat]
      /\ \A i \in 1 .. m : g[i] = g[i - 1] + low(i)
  BY Zenon DEF IsSumUpTo
<1> HIDE DEF low
<1>2. \A n \in 0 .. m : g[n] \in Nat
  BY <1>1
<1>3. ASSUME NEW n \in 0 .. m - 1 PROVE g[n + 1] = g[n] + low(n + 1)
  <2> DEFINE k == n + 1
  <2>1. k \in 1 .. m /\ k - 1 = n
    OBVIOUS
  <2> HIDE DEF k
  <2>2. g[k] = g[k - 1] + low(k)
    BY <1>1, <2>1
  <2>3. g[k] = g[n] + low(k)
    BY <2>1, <2>2
  <2> QED
    BY <2>3 DEF k
<1> QED
  BY <1>2, <1>3 DEF low

\* Packets that differ in one place have sums that differ by the low bits there; the
\* checksum itself is not added up.
LEMMA SumsDiffer ==
  ASSUME NEW p \in [1 .. PacketLen -> Bytes], NEW q \in [1 .. PacketLen -> Bytes],
         NEW k \in 1 .. PacketLen, \A i \in 1 .. PacketLen : i # k => p[i] = q[i]
  PROVE  /\ Sum(p) \in Nat /\ Sum(q) \in Nat
         /\ k = PacketLen => Sum(p) = Sum(q)
         /\ k < PacketLen => Sum(p) - Sum(q) = (p[k] % Half) - (q[k] % Half)
<1> DEFINE L == PacketLen - 1
           s == RunningSum(p)
           t == RunningSum(q)
           a == p[k] % Half
           b == q[k] % Half
           S == {n \in 0 .. L : s[n] - t[n] = IF n < k THEN 0 ELSE a - b}
<1>1. IsSumUpTo(p, L, s) /\ IsSumUpTo(q, L, t) /\ L \in Nat
  BY RunningSumAdds
<1>2. Sum(p) = s[L] /\ Sum(q) = t[L]
  BY SumIsLast
<1>0. \A i \in 1 .. PacketLen : p[i] % Half \in Nat /\ q[i] % Half \in Nat
  <2> SUFFICES ASSUME NEW i \in 1 .. PacketLen
               PROVE  p[i] % Half \in Nat /\ q[i] % Half \in Nat
    OBVIOUS
  <2>1. p[i] % Half \in 0 .. Half - 1 /\ q[i] % Half \in 0 .. Half - 1
    BY LowBits
  <2> QED
    BY <2>1
<1>3. a \in Nat /\ b \in Nat
  BY <1>0
<1> HIDE DEF s, t
<1>4. 0 \in S
  BY <1>1 DEF IsSumUpTo
<1>5. ASSUME NEW n \in 0 .. L - 1, n \in S PROVE n + 1 \in S
  <2> DEFINE c == p[n + 1] % Half
             d == q[n + 1] % Half
  <2>1. s[n + 1] = s[n] + c /\ t[n + 1] = t[n] + d
    BY <1>1, SumSteps
  <2>2. s[n] \in Nat /\ t[n] \in Nat /\ c \in Nat /\ d \in Nat
    <3>1. s[n] \in Nat /\ t[n] \in Nat
      BY <1>1, SumSteps
    <3>2. n + 1 \in 1 .. PacketLen
      OBVIOUS
    <3> QED
      BY <1>0, <3>1, <3>2
  <2>3. n + 1 # k => c = d
    BY n + 1 \in 1 .. PacketLen
  <2>4. n + 1 = k => c = a /\ d = b
    OBVIOUS
  <2>5. s[n] - t[n] = IF n < k THEN 0 ELSE a - b
    BY <1>5
  <2>6. s[n + 1] - t[n + 1] = IF n + 1 < k THEN 0 ELSE a - b
    <3> HIDE DEF a, b, c, d
    <3> QED
      BY <1>3, <2>1, <2>2, <2>3, <2>4, <2>5
  <2> QED
    BY <2>6
<1>6. L \in S
  <2>1. 0 .. L \subseteq S
    <3> HIDE DEF L, S
    <3> QED
      BY <1>1, <1>4, <1>5, Induction
  <2> QED
    BY <1>1, <2>1
<1>7. s[L] \in Nat /\ t[L] \in Nat
  BY <1>1 DEF IsSumUpTo
<1> QED
  BY <1>2, <1>3, <1>6, <1>7

\* A change of the low bits of one byte does not escape the checksum.
LEMMA OneChangeShows ==
  ASSUME NEW p \in HostPackets, NEW q \in [1 .. PacketLen -> Bytes], IsPacketGood(q),
         \A i \in 3 .. PacketLen : q[i] < Half,
         NEW k \in 1 .. PacketLen, \A i \in 1 .. PacketLen : i # k => q[i] = p[i]
  PROVE  q = p
<1> DEFINE N == PacketLen
           a == p[k] % Half
           b == q[k] % Half
<1>1. /\ p \in [1 .. N -> Bytes] /\ p[1] = Preamble /\ p[2] = Preamble
      /\ \A i \in 3 .. N : p[i] < Half
      /\ p[N] < Half /\ (Sum(p) + p[N]) % Half = 0
  BY DEF HostPackets, ChecksumMatches
<1>2. /\ q[1] = Preamble /\ q[2] = Preamble
      /\ q[N] < Half /\ (Sum(q) + q[N]) % Half = 0
  BY DEF IsPacketGood, ChecksumMatches
<1>3. p[N] \in Nat /\ q[N] \in Nat /\ p[k] \in Nat /\ q[k] \in Nat
      /\ a \in 0 .. Half - 1 /\ b \in 0 .. Half - 1
  <2>1. N \in 1 .. PacketLen /\ p \in [1 .. PacketLen -> Bytes]
    BY <1>1
  <2>2. p[N] \in Nat /\ q[N] \in Nat
    BY <2>1, LowBits
  <2>3. p[k] \in Nat /\ a \in 0 .. Half - 1
    BY <2>1, LowBits
  <2>4. q[k] \in Nat /\ b \in 0 .. Half - 1
    BY LowBits
  <2> QED
    BY <2>2, <2>3, <2>4
<1>4. /\ Sum(p) \in Nat /\ Sum(q) \in Nat
      /\ k = N => Sum(q) = Sum(p)
      /\ k < N => Sum(q) - Sum(p) = b - a
  BY <1>1, SumsDiffer
<1> HIDE DEF a, b
<1>5. Sum(q) + q[N] = Sum(p) + p[N]
  <2> DEFINE x == Sum(q) + q[N]
             y == Sum(p) + p[N]
  <2>1. x \in Nat /\ y \in Nat /\ x % Half = y % Half
    <3>1. x \in Nat /\ y \in Nat
      BY <1>3, <1>4
    <3>2. x % Half = 0 /\ y % Half = 0
      BY <1>1, <1>2, Zenon
    <3> HIDE DEF x, y
    <3> QED
      BY <3>1, <3>2
  <2>2. x - y < Half /\ y - x < Half
    <3>1. CASE k = N
      BY <1>1, <1>2, <1>3, <1>4, <3>1
    <3>2. CASE k < N
      <4>1. q[N] = p[N]
        BY <3>2
      <4> QED
        BY <1>3, <1>4, <3>2, <4>1
    <3> QED
      BY <3>1, <3>2
  <2> HIDE DEF x, y
  <2>3. x = y
    BY <2>1, <2>2, SameRemainder
  <2> QED
    BY <2>3 DEF x, y
<1>6. q[k] = p[k]
  <2>1. CASE k <= 2
    BY <1>1, <1>2, <2>1
  <2>2. CASE k = N
    BY <1>3, <1>4, <1>5, <2>2
  <2>3. CASE k >= 3 /\ k < N
    <3>1. q[N] = p[N]
      BY <2>3
    <3>2. a = b
      BY <1>3, <1>4, <1>5, <2>3, <3>1
    <3>3. q[k] < Half /\ p[k] < Half
      BY <1>1, <2>3
    <3>4. q[k] - p[k] < Half /\ p[k] - q[k] < Half
      BY <1>3, <3>3
    <3>5. p[k] % Half = q[k] % Half
      BY <3>2 DEF a, b
    <3> QED
      BY <1>3, <3>4, <3>5, SameRemainder
  <2> QED
    BY <2>1, <2>2, <2>3
<1>7. \A i \in 1 .. N : q[i] = p[i]
  BY <1>6
<1> QED
  BY <1>1, <1>7

-----------------------------------------------------------------------------
(* The invariant.                                                          *)

\* The two bytes at the start of a packet have the top bit set, all others not.
LEMMA TopsOfPacket ==
  ASSUME NEW p \in HostPackets, NEW i \in 1 .. PacketLen
  PROVE  /\ p[i] \in Bytes
         /\ p[i] >= Half <=> i <= 2
BY DEF HostPackets, Bytes, Preamble

LEMMA InitFramingInv == FramingInit => FramingInv
<1> SUFFICES ASSUME FramingInit PROVE FramingInv
  OBVIOUS
<1>1. \A i \in 1 .. PacketLen : window[i] = 0
  BY DEF FramingInit
<1>2. window \in [1 .. PacketLen -> Bytes]
  BY DEF FramingInit, Bytes
<1>3. sent = 0 /\ lost = 0 /\ changed = 0 /\ before = 0 /\ heard = FALSE
      /\ sending \in HostPackets
  BY DEF FramingInit
<1>4. FramingTypeOK
  <2>1. heard \in BOOLEAN
    BY <1>3
  <2>2. sent \in 0 .. PacketLen /\ lost \in 0 .. sent /\ before + lost <= MaxLost
    BY <1>3
  <2>3. changed \in 0 .. MaxChanged /\ before \in Nat
    BY <1>3
  <2> QED
    BY <1>2, <1>3, <2>1, <2>2, <2>3, Zenon DEF FramingTypeOK
<1>5. EndsWithSent /\ EndsWithOneChanged /\ OneChangeIsThere
  <2>1. 1 \in 1 .. PacketLen
    OBVIOUS
  <2> QED
    BY <1>1, <1>3, <2>1 DEF EndsWithSent, EndsWithOneChanged, OneChangeIsThere
<1> QED
  BY <1>3, <1>4, <1>5 DEF FramingInv, Recognised, HeardIsGood

\* The window moves on by one byte.
LEMMA WindowMoves ==
  ASSUME FramingTypeOK, NEW byte \in Bytes, VictorReceiveByte(byte)
  PROVE  /\ window' \in [1 .. PacketLen -> Bytes]
         /\ window'[PacketLen] = byte
         /\ \A i \in 1 .. PacketLen - 1 : window'[i] = window[i + 1]
         /\ heard' \in BOOLEAN
BY DEF FramingTypeOK, VictorReceiveByte, IsPacketGood, ChecksumMatches

\* A byte of the packet under way, changed or not, keeps the places of the top
\* bits, and completes a packet only if all bytes before it arrived.
LEMMA ByteKeepsTops ==
  ASSUME MaxLost <= 2, FramingTypeOK, TopsAt, sent < PacketLen,
         NEW byte \in Bytes, byte >= Half <=> sent + 1 <= 2,
         VictorReceiveByte(byte),
         sent' = sent + 1, UNCHANGED <<lost, before>>
  PROVE  TopsAt' /\ Aligned'
<1> DEFINE N == PacketLen
           t == sent + 1 - lost
<1>1. /\ N \in Nat /\ N >= 5 /\ Half \in Nat
      /\ sent \in 0 .. N /\ lost \in 0 .. sent /\ before \in Nat /\ before + lost <= 2
  BY DEF FramingTypeOK
<1>2. t \in 1 .. N /\ Fresh' = t /\ Fresh = t - 1 /\ before' = before
  BY <1>1 DEF Fresh
<1>3. \A i \in 1 .. N : window'[i] >= Half =>
        i = N - t + 1 \/ i = N - t + 2 \/ i = before - t + 1 \/ i = before - t + 2
  <2> SUFFICES ASSUME NEW i \in 1 .. N, window'[i] >= Half
               PROVE  i = N - t + 1 \/ i = N - t + 2 \/ i = before - t + 1 \/ i = before - t + 2
    OBVIOUS
  <2>1. CASE i = N
    <3>1. sent + 1 <= 2
      BY <2>1, WindowMoves
    <3> QED
      BY <1>1, <2>1, <3>1
  <2>2. CASE i < N
    <3>1. i + 1 \in 1 .. N /\ window[i + 1] >= Half
      BY <1>1, <2>2, WindowMoves
    <3>2. i + 1 \in {N - Fresh + 1, N - Fresh + 2, before - Fresh + 1, before - Fresh + 2}
      BY <3>1 DEF TopsAt
    <3> QED
      BY <1>1, <1>2, <3>2
  <2> QED
    BY <1>1, <2>1, <2>2
<1>4. TopsAt'
  BY <1>2, <1>3 DEF TopsAt
<1>5. ASSUME heard' PROVE sent' = N /\ lost' = 0
  <2>1. window'[1] = Preamble /\ window'[2] = Preamble /\ window'[N] < Half
    BY <1>5 DEF VictorReceiveByte, IsPacketGood, ChecksumMatches
  <2>2. window'[1] >= Half /\ window'[2] >= Half
    BY <2>1, <1>1 DEF Preamble
  <2>3. ~ (sent + 1 <= 2)
    BY <2>1, <1>1, WindowMoves DEF Bytes
  <2>4. /\ 1 = N - t + 1 \/ 1 = N - t + 2 \/ 1 = before - t + 1 \/ 1 = before - t + 2
        /\ 2 = N - t + 1 \/ 2 = N - t + 2 \/ 2 = before - t + 1 \/ 2 = before - t + 2
    BY <1>1, <1>3, <2>2
  <2>5. t = N \/ t = before
    BY <1>1, <1>2, <2>4
  <2>6. t # before
    BY <1>1, <2>3
  <2> QED
    BY <1>1, <2>5, <2>6
<1> QED
  BY <1>4, <1>5 DEF Aligned

\* What the window ends with moves on with it: all places that held the right byte
\* still do, and the next place holds the byte that has come.
LEMMA EndMoves ==
  ASSUME FramingTypeOK, sent < PacketLen, NEW byte \in Bytes, VictorReceiveByte(byte),
         sent' = sent + 1, sending' = sending,
         NEW i \in 1 .. sent'
  PROVE  /\ i = sent' => window'[PacketLen - sent' + i] = byte
         /\ i # sent' => /\ i \in 1 .. sent
                         /\ window'[PacketLen - sent' + i] = window[PacketLen - sent + i]
<1>1. sent \in 0 .. PacketLen
  BY DEF FramingTypeOK
<1>2. CASE i = sent'
  <2>1. PacketLen - sent' + i = PacketLen
    BY <1>1, <1>2
  <2> QED
    BY <1>2, <2>1, WindowMoves
<1>3. CASE i # sent'
  <2>1. /\ i \in 1 .. sent
        /\ PacketLen - sent' + i \in 1 .. PacketLen - 1
        /\ PacketLen - sent' + i + 1 = PacketLen - sent + i
    BY <1>1, <1>3
  <2>2. window'[PacketLen - sent' + i] = window[PacketLen - sent' + i + 1]
    BY <2>1, WindowMoves
  <2> QED
    BY <1>3, <2>1, <2>2
<1> QED
  BY <1>2, <1>3

LEMMA ArriveFramingInv == FramingInv /\ Arrive => FramingInv'
<1> SUFFICES ASSUME FramingInv, Arrive PROVE FramingInv'
  OBVIOUS
<1> DEFINE byte == sending[sent + 1]
<1>1. /\ FramingTypeOK
      /\ EndsWithSent /\ EndsWithOneChanged /\ OneChangeIsThere
      /\ sent < PacketLen /\ sent' = sent + 1
      /\ UNCHANGED <<sending, lost, changed, before>>
      /\ VictorReceiveByte(byte)
  BY DEF FramingInv, Arrive
<1>2. sending \in HostPackets /\ sent + 1 \in 1 .. PacketLen
  BY <1>1 DEF FramingTypeOK
<1>3. byte \in Bytes
  BY <1>2, TopsOfPacket
<1>4. /\ window' \in [1 .. PacketLen -> Bytes]
      /\ window'[PacketLen] = byte
      /\ \A i \in 1 .. PacketLen - 1 : window'[i] = window[i + 1]
      /\ heard' \in BOOLEAN
  <2> HIDE DEF byte
  <2> QED BY <1>1, <1>3, WindowMoves
<1>5. FramingTypeOK'
  BY <1>1, <1>4 DEF FramingTypeOK
<1>6. EndsWithSent' /\ EndsWithOneChanged' /\ OneChangeIsThere' /\ HeardIsGood'
  <2>1. \A i \in 1 .. sent' :
          /\ i = sent' => window'[PacketLen - sent' + i] = byte
          /\ i # sent' => /\ i \in 1 .. sent
                          /\ window'[PacketLen - sent' + i] = window[PacketLen - sent + i]
    <3> HIDE DEF byte
    <3> QED
      BY <1>1, <1>3, EndMoves
  <2>2. EndsWithSent'
    BY <1>1, <2>1 DEF EndsWithSent
  <2>3. EndsWithOneChanged'
    <3> SUFFICES ASSUME lost = 0, changed <= 1 PROVE EndsWithOneChanged'
      BY <1>1 DEF EndsWithOneChanged
    <3>1. PICK k \in 1 .. PacketLen :
            \A i \in 1 .. sent : i # k => window[PacketLen - sent + i] = sending[i]
      BY <1>1 DEF EndsWithOneChanged
    <3>2. \A i \in 1 .. sent' : i # k => window'[PacketLen - sent' + i] = sending'[i]
      BY <1>1, <2>1, <3>1
    <3> QED
      BY <3>2 DEF EndsWithOneChanged
  <2>4. OneChangeIsThere'
    <3> SUFFICES ASSUME lost = 0, changed = 1 PROVE OneChangeIsThere'
      BY <1>1 DEF OneChangeIsThere
    <3>1. PICK k \in 1 .. sent : window[PacketLen - sent + k] # sending[k]
      BY <1>1 DEF OneChangeIsThere
    <3>2. k \in 1 .. sent' /\ k # sent'
      BY <1>1 DEF FramingTypeOK
    <3>3. window'[PacketLen - sent' + k] # sending'[k]
      BY <1>1, <2>1, <3>1, <3>2
    <3> QED
      BY <3>2, <3>3 DEF OneChangeIsThere
  <2> QED
    BY <1>1, <2>2, <2>3, <2>4 DEF HeardIsGood, VictorReceiveByte
<1>7. Recognised'
  <2> SUFFICES ASSUME sent' = PacketLen, lost' = 0, changed' = 0 PROVE heard'
    BY DEF Recognised
  <2>1. \A i \in 1 .. PacketLen : window'[i] = sending[i]
    BY <1>1, <1>6 DEF EndsWithSent, FramingTypeOK
  <2>2. window' = sending
    BY <1>2, <1>4, <2>1 DEF HostPackets
  <2>3. IsPacketGood(sending)
    BY <1>2 DEF HostPackets, IsPacketGood
  <2> QED
    BY <1>1, <2>2, <2>3 DEF VictorReceiveByte
<1> QED
  BY <1>5, <1>6, <1>7 DEF FramingInv

LEMMA ArriveChangedFramingInv == FramingInv /\ ArriveChanged => FramingInv'
<1> SUFFICES ASSUME FramingInv, ArriveChanged PROVE FramingInv'
  OBVIOUS
<1>1. /\ FramingTypeOK /\ EndsWithSent
      /\ sent < PacketLen /\ sent' = sent + 1 /\ changed' = changed + 1
      /\ UNCHANGED <<sending, lost, before>>
  BY DEF FramingInv, ArriveChanged
<1>2. PICK byte \in Bytes :
        /\ byte # sending[sent + 1]
        /\ byte < Half <=> sending[sent + 1] < Half
        /\ VictorReceiveByte(byte)
  BY DEF ArriveChanged
<1>3. sending \in HostPackets /\ sent + 1 \in 1 .. PacketLen
  BY <1>1 DEF FramingTypeOK
<1>4. FramingTypeOK'
  <2>1. changed' \in 0 .. MaxChanged
    BY <1>1 DEF ArriveChanged, FramingTypeOK
  <2> QED
    BY <1>1, <1>2, <2>1, WindowMoves DEF FramingTypeOK
<1>5. changed' # 0
  BY <1>1 DEF FramingTypeOK
<1>6. EndsWithOneChanged'
  <2> SUFFICES ASSUME lost = 0, changed + 1 <= 1 PROVE EndsWithOneChanged'
    BY <1>1 DEF EndsWithOneChanged
  <2>1. changed = 0
    BY <1>1 DEF FramingTypeOK
  <2>2. \A i \in 1 .. sent : window[PacketLen - sent + i] = sending[i]
    BY <1>1, <2>1 DEF EndsWithSent
  <2>3. \A i \in 1 .. sent' :
          i # sent' => /\ i \in 1 .. sent
                      /\ window'[PacketLen - sent' + i] = window[PacketLen - sent + i]
    BY <1>1, <1>2, EndMoves
  <2>4. \A i \in 1 .. sent' : i # sent' => window'[PacketLen - sent' + i] = sending'[i]
    BY <1>1, <2>2, <2>3
  <2>5. sent' \in 1 .. PacketLen
    BY <1>1, <1>3
  <2> QED
    BY <2>4, <2>5 DEF EndsWithOneChanged
<1>7. HeardIsGood'
  BY <1>2 DEF HeardIsGood, VictorReceiveByte
<1>8. OneChangeIsThere'
  <2>1. sent' \in 1 .. sent' /\ sending' = sending
    BY <1>1, <1>3
  <2>2. window'[PacketLen - sent' + sent'] = byte
    BY <1>1, <1>2, <2>1, EndMoves
  <2>3. byte # sending'[sent']
    BY <1>1, <1>2
  <2> QED
    BY <2>1, <2>2, <2>3 DEF OneChangeIsThere
<1> QED
  BY <1>4, <1>5, <1>6, <1>7, <1>8 DEF FramingInv, EndsWithSent, Recognised

LEMMA LoseFramingInv == FramingInv /\ Lose => FramingInv'
<1> SUFFICES ASSUME FramingInv, Lose PROVE FramingInv'
  OBVIOUS
<1>1. FramingTypeOK'
  <2>1. /\ sent' = sent + 1 /\ lost' = lost + 1 /\ heard' = FALSE /\ sent < PacketLen
        /\ before + lost < MaxLost
        /\ window' = window /\ sending' = sending /\ changed' = changed /\ before' = before
    BY DEF Lose
  <2>2. FramingTypeOK
    BY DEF FramingInv
  <2>3. sent' \in 0 .. PacketLen /\ lost' \in 0 .. sent' /\ before' + lost' <= MaxLost
    BY <2>1, <2>2 DEF FramingTypeOK
  <2> QED
    BY <2>1, <2>2, <2>3 DEF FramingTypeOK
<1>2. lost' # 0 /\ ~ heard'
  BY DEF FramingInv, FramingTypeOK, Lose
<1> QED
  BY <1>1, <1>2 DEF FramingInv, EndsWithSent, EndsWithOneChanged, OneChangeIsThere,
                    HeardIsGood, Recognised

LEMMA SendNextFramingInv == FramingInv /\ SendNext => FramingInv'
<1> SUFFICES ASSUME FramingInv, SendNext PROVE FramingInv'
  OBVIOUS
<1>1. FramingTypeOK'
  <2>1. /\ sent' = 0 /\ lost' = 0 /\ heard' = FALSE /\ changed' = 0 /\ before' = lost
        /\ window' = window /\ sending' \in HostPackets
    BY DEF SendNext
  <2>2. FramingTypeOK
    BY DEF FramingInv
  <2>3. before' \in Nat /\ before' + lost' <= MaxLost
    BY <2>1, <2>2 DEF FramingTypeOK
  <2>4. sent' \in 0 .. PacketLen /\ lost' \in 0 .. sent' /\ changed' \in 0 .. MaxChanged
    BY <2>1
  <2>5. window' \in [1 .. PacketLen -> Bytes] /\ heard' \in BOOLEAN
    BY <2>1, <2>2, Zenon DEF FramingTypeOK
  <2> QED
    BY <2>1, <2>3, <2>4, <2>5, Zenon DEF FramingTypeOK
<1>2. sent' = 0 /\ changed' = 0 /\ ~ heard'
  BY DEF SendNext
<1>3. EndsWithOneChanged'
  <2>1. 1 \in 1 .. PacketLen
    OBVIOUS
  <2> QED
    BY <1>2, <2>1 DEF EndsWithOneChanged
<1> QED
  BY <1>1, <1>2, <1>3 DEF FramingInv, EndsWithSent, OneChangeIsThere, HeardIsGood, Recognised

LEMMA FramingInvariant == FramingSpec => []FramingInv
<1>1. FramingInv /\ [FramingNext]_framingVars => FramingInv'
  <2> SUFFICES ASSUME FramingInv, [FramingNext]_framingVars PROVE FramingInv'
    OBVIOUS
  <2>1. CASE Arrive
    BY <2>1, ArriveFramingInv
  <2>2. CASE ArriveChanged
    BY <2>2, ArriveChangedFramingInv
  <2>3. CASE Lose
    BY <2>3, LoseFramingInv
  <2>4. CASE SendNext
    BY <2>4, SendNextFramingInv
  <2>5. CASE UNCHANGED framingVars
    BY <2>5 DEF framingVars, FramingInv, FramingTypeOK, EndsWithSent,
                EndsWithOneChanged, OneChangeIsThere, HeardIsGood, Recognised
  <2> QED
    BY <2>1, <2>2, <2>3, <2>4, <2>5 DEF FramingNext
<1> QED
  BY <1>1, InitFramingInv, PTL DEF FramingSpec

\* Every packet that arrives whole is recognised, although nothing ever clears the
\* window of VictorReceiveByte of the remains of those before, however much of them
\* was lost.
THEOREM WholePacketHeard == FramingSpec => []Recognised
<1>1. FramingInv => Recognised
  BY DEF FramingInv
<1> QED
  BY <1>1, FramingInvariant, PTL

-----------------------------------------------------------------------------
(* With at most two lost bytes nothing else is recognised.                 *)

\* Only a preamble has the top bit set, so a second one starts where the first
\* byte of a packet is, or one byte later where bytes before it are missing.
LEMMA StepKeepsAligned ==
  ASSUME MaxLost <= 2, FramingInv, AlignedInv, [FramingNext]_framingVars
  PROVE  AlignedInv'
<1>1. FramingTypeOK /\ TopsAt
  BY DEF FramingInv, AlignedInv
<1>2. CASE Arrive
  <2> DEFINE byte == sending[sent + 1]
  <2>1. sending \in HostPackets /\ sent + 1 \in 1 .. PacketLen
    BY <1>1, <1>2 DEF FramingTypeOK, Arrive
  <2>2. byte \in Bytes /\ (byte >= Half <=> sent + 1 <= 2)
    BY <2>1, TopsOfPacket
  <2>3. sent < PacketLen /\ sent' = sent + 1 /\ UNCHANGED <<lost, before>>
        /\ VictorReceiveByte(byte)
    BY <1>2 DEF Arrive
  <2> HIDE DEF byte
  <2> QED
    BY <1>1, <2>2, <2>3, ByteKeepsTops DEF AlignedInv
<1>3. CASE ArriveChanged
  <2>1. sending \in HostPackets /\ sent + 1 \in 1 .. PacketLen
    BY <1>1, <1>3 DEF FramingTypeOK, ArriveChanged
  <2>2. PICK byte \in Bytes :
          /\ byte < Half <=> sending[sent + 1] < Half
          /\ VictorReceiveByte(byte)
    BY <1>3 DEF ArriveChanged
  <2>3. byte >= Half <=> sent + 1 <= 2
    BY <2>1, <2>2, TopsOfPacket DEF Bytes
  <2>4. sent < PacketLen /\ sent' = sent + 1 /\ UNCHANGED <<lost, before>>
    BY <1>3 DEF ArriveChanged
  <2> QED
    BY <1>1, <2>2, <2>3, <2>4, ByteKeepsTops DEF AlignedInv
<1>4. CASE Lose
  <2>1. Fresh' = Fresh /\ window' = window /\ before' = before /\ ~ heard'
    BY <1>1, <1>4 DEF FramingTypeOK, Lose, Fresh
  <2> QED
    BY <1>1, <2>1 DEF AlignedInv, TopsAt, Aligned
<1>5. CASE SendNext
  <2>1. /\ Fresh = PacketLen - lost /\ Fresh' = 0 /\ before' = lost /\ window' = window
        /\ before \in Nat /\ lost \in Nat /\ before + lost <= 2 /\ ~ heard'
    BY <1>1, <1>5 DEF FramingTypeOK, SendNext, Fresh
  <2>2. \A i \in 1 .. PacketLen :
          i \in {PacketLen - Fresh + 1, PacketLen - Fresh + 2,
                 before - Fresh + 1, before - Fresh + 2}
            => i \in {before' - Fresh' + 1, before' - Fresh' + 2}
    BY <2>1
  <2> QED
    BY <1>1, <2>1, <2>2 DEF AlignedInv, TopsAt, Aligned
<1>6. CASE UNCHANGED framingVars
  BY <1>6 DEF framingVars, AlignedInv, TopsAt, Aligned, Fresh
<1> QED
  BY <1>2, <1>3, <1>4, <1>5, <1>6 DEF FramingNext

LEMMA AlignedInvariant ==
  ASSUME MaxLost <= 2
  PROVE  FramingSpec => []AlignedInv
<1>1. FramingInit => AlignedInv
  BY DEF FramingInit, AlignedInv, TopsAt, Aligned
<1>2. FramingInv /\ AlignedInv /\ [FramingNext]_framingVars => AlignedInv'
  BY StepKeepsAligned
<1> QED
  BY <1>1, <1>2, FramingInvariant, PTL DEF FramingSpec

\* As long as at most two bytes of any two packets in a row are lost, no packet is
\* recognised anywhere but at the end of one that arrived with all its bytes.
THEOREM NoFalsePacket ==
  ASSUME MaxLost <= 2
  PROVE  FramingSpec => []Aligned
<1>1. AlignedInv => Aligned
  BY DEF AlignedInv
<1> QED
  BY <1>1, AlignedInvariant, PTL

LEMMA HeardAsSent ==
  ASSUME MaxLost <= 2
  PROVE  FramingInv /\ AlignedInv => NoPhantom
<1> SUFFICES ASSUME FramingInv, AlignedInv, heard, changed <= 1 PROVE window = sending
  BY DEF NoPhantom
<1>1. /\ sent = PacketLen /\ lost = 0 /\ IsPacketGood(window)
      /\ window \in [1 .. PacketLen -> Bytes] /\ sending \in HostPackets
      /\ before \in Nat /\ before <= 2
  BY DEF FramingInv, AlignedInv, FramingTypeOK, HeardIsGood, Aligned
<1>2. \A i \in 3 .. PacketLen : window[i] < Half
  <2> SUFFICES ASSUME NEW i \in 3 .. PacketLen, window[i] >= Half PROVE FALSE
    BY <1>1 DEF Bytes
  <2>1. i \in {PacketLen - Fresh + 1, PacketLen - Fresh + 2,
              before - Fresh + 1, before - Fresh + 2}
    BY DEF AlignedInv, TopsAt
  <2> QED
    BY <1>1, <2>1 DEF Fresh
<1>3. PICK k \in 1 .. PacketLen : \A i \in 1 .. PacketLen : i # k => window[i] = sending[i]
  <2>1. PICK k \in 1 .. PacketLen :
          \A i \in 1 .. sent : i # k => window[PacketLen - sent + i] = sending[i]
    BY <1>1 DEF FramingInv, EndsWithOneChanged
  <2>2. \A i \in 1 .. PacketLen : PacketLen - sent + i = i
    BY <1>1
  <2> QED
    BY <1>1, <2>1, <2>2
<1> QED
  BY <1>1, <1>2, <1>3, OneChangeShows

\* As long as at most two bytes of any two packets in a row are lost, a packet that
\* is recognised is the packet that was sent, if at most one byte of it
\* came with other low bits: CalcChecksum finds every such change, in a byte of the
\* ID, the sequence number, the command or its parameters, and in the checksum.
THEOREM HeardWasSent ==
  ASSUME MaxLost <= 2
  PROVE  FramingSpec => []NoPhantom
<1>1. FramingInv /\ AlignedInv => NoPhantom
  BY HeardAsSent
<1> QED
  BY <1>1, FramingInvariant, AlignedInvariant, PTL

-----------------------------------------------------------------------------
(* The window implements the line of packets.                              *)

\* A packet with a change in it is not recognised.
HeardIsWhole ==
  heard => changed = 0 /\ lost = 0 /\ sent = PacketLen /\ window = sending

LEMMA HeardWhole ==
  ASSUME MaxLost <= 2, MaxChanged <= 1
  PROVE  FramingInv /\ AlignedInv => HeardIsWhole
<1> SUFFICES ASSUME FramingInv, AlignedInv, heard
             PROVE  changed = 0 /\ lost = 0 /\ sent = PacketLen /\ window = sending
  BY DEF HeardIsWhole
<1>1. changed \in 0 .. 1 /\ lost = 0 /\ sent = PacketLen
  BY DEF FramingInv, AlignedInv, FramingTypeOK, Aligned
<1>2. window = sending
  BY <1>1, HeardAsSent DEF NoPhantom
<1>3. changed # 1
  <2> SUFFICES ASSUME changed = 1 PROVE FALSE
    OBVIOUS
  <2>1. PICK k \in 1 .. PacketLen : window[PacketLen - PacketLen + k] # sending[k]
    BY <1>1 DEF FramingInv, OneChangeIsThere
  <2>2. PacketLen - PacketLen + k = k
    OBVIOUS
  <2> QED
    BY <1>2, <2>1, <2>2
<1> QED
  BY <1>1, <1>2, <1>3

LEMMA LineInit == FramingInit => Line!PacketLineInit
BY DEF FramingInit, Line!PacketLineInit, Line!Nothing

LEMMA LineNext ==
  ASSUME FramingInv, FramingInv', AlignedInv, AlignedInv', HeardIsWhole',
         [FramingNext]_framingVars
  PROVE  [Line!PacketLineNext]_(Line!packetLineVars)
<1> DEFINE N == PacketLen
<1>0. /\ sent \in 0 .. N /\ lost \in Nat /\ changed \in Nat
      /\ N \in Nat /\ heard \in BOOLEAN /\ heard' \in BOOLEAN
      /\ sent' \in 0 .. N /\ lost' \in Nat /\ changed' \in Nat
  BY DEF FramingInv, FramingTypeOK
<1>1. sent < N => ~ heard
  BY DEF AlignedInv, Aligned
<1>2. sent' < N => ~ heard'
  BY DEF AlignedInv, Aligned
<1>3. heard' => changed' = 0 /\ lost' = 0 /\ sent' = N /\ window' = sending'
  BY DEF HeardIsWhole
<1> DEFINE hurt == lost + changed > 0
           out  == IF heard THEN window ELSE <<>>
<1>4. /\ hurt <=> lost # 0 \/ changed # 0
      /\ hurt' <=> lost' # 0 \/ changed' # 0
  <2>1. ASSUME NEW a \in Nat, NEW b \in Nat PROVE a + b > 0 <=> a # 0 \/ b # 0
    OBVIOUS
  <2> QED
    BY <1>0, <2>1
<1>5. CASE Arrive \/ ArriveChanged \/ Lose
  <2>1. sent < N /\ sent' = sent + 1 /\ sending' = sending /\ out = <<>>
    BY <1>1, <1>5 DEF Arrive, ArriveChanged, Lose
  <2>2. hurt => hurt'
    <3>1. (lost' = lost \/ lost' = lost + 1) /\ (changed' = changed \/ changed' = changed + 1)
      BY <1>5 DEF Arrive, ArriveChanged, Lose
    <3> HIDE DEF hurt
    <3> QED
      BY <1>0, <1>4, <3>1
  <2>3. CASE heard'
    <3>1. ~ hurt' /\ ~ hurt
      BY <1>3, <1>4, <2>2, <2>3
    <3>2. out' = sending /\ ~ (sent' < N)
      BY <1>0, <1>3, <2>1, <2>3
    <3>3. Line!HandOver
      BY <2>1, <3>1, <3>2 DEF Line!HandOver
    <3> QED
      BY <3>3 DEF Line!PacketLineNext
  <2>4. CASE ~ heard' /\ sent' = N
    <3>1. hurt'
      <4>1. Recognised'
        BY DEF FramingInv
      <4> HIDE DEF hurt
      <4> QED
        BY <1>4, <2>4, <4>1 DEF Recognised
    <3>2. out' = out /\ ~ (sent' < N)
      BY <1>0, <2>1, <2>4
    <3>3. Line!PassOver
      BY <2>1, <3>1, <3>2 DEF Line!PassOver
    <3> QED
      BY <3>3 DEF Line!PacketLineNext
  <2>5. CASE ~ heard' /\ sent' # N
    <3>1. out' = out /\ sent' < N
      BY <1>0, <2>1, <2>5
    <3>2. CASE hurt'
      <4>1. Line!Harm
        BY <2>1, <3>1, <3>2 DEF Line!Harm
      <4> QED
        BY <4>1 DEF Line!PacketLineNext
    <3>3. CASE ~ hurt'
      <4>1. hurt' = hurt /\ (sent' < N) = (sent < N)
        BY <2>1, <2>2, <3>1, <3>3
      <4> QED
        BY <2>1, <3>1, <4>1 DEF Line!packetLineVars
    <3> QED
      BY <3>2, <3>3
  <2> QED
    BY <2>3, <2>4, <2>5
<1>6. CASE SendNext
  <2>1. Line!NextPacket
    BY <1>0, <1>6 DEF SendNext, Line!NextPacket, Line!Nothing
  <2> QED
    BY <2>1 DEF Line!PacketLineNext
<1>7. CASE UNCHANGED framingVars
  BY <1>7 DEF framingVars, Line!packetLineVars
<1> QED
  BY <1>5, <1>6, <1>7 DEF FramingNext

\* The handlers get each packet of the host that nothing happened to on the line, once
\* and in its turn, and nothing else, as long as no more than one byte of a packet is
\* changed and no more than two of any two packets in a row are lost.
THEOREM LineOfPackets ==
  ASSUME MaxLost <= 2, MaxChanged <= 1
  PROVE  FramingSpec => ImplementsPacketLine
<1>1. FramingInv /\ FramingInv' /\ AlignedInv /\ AlignedInv' /\ HeardIsWhole'
        /\ [FramingNext]_framingVars
        => [Line!PacketLineNext]_(Line!packetLineVars)
  BY LineNext
<1>2. FramingInv /\ AlignedInv => HeardIsWhole
  BY HeardWhole
<1> QED
  BY <1>1, <1>2, LineInit, FramingInvariant, AlignedInvariant, PTL
     DEF FramingSpec, ImplementsPacketLine, Line!PacketLineSpec

=============================================================================
