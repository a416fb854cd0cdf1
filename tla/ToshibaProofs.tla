--------------------------- MODULE ToshibaProofs ---------------------------
(***************************************************************************)
(* Theorems about the Toshiba emulation, for every size of its buffers and *)
(* every set of lines: the overrun of the line buffer stays within two     *)
(* bytes, every line is obeyed for what was typed, the chapter that is     *)
(* typed is the one that plays, and the video component keeps its promises.*)
(***************************************************************************)
EXTENDS Toshiba, VideoScreenProofs, SequenceTheorems

LEMMA Sizes ==
  /\ PacketLen \in Nat /\ PacketLen >= 3
  /\ Size = 2 * PacketLen /\ Size \in Nat /\ PacketLen + 2 < Size
BY ToshibaAssumption DEF Size

LEMMA Characters ==
  ASSUME NEW l \in Lines
  PROVE  /\ l \in Seq(Byte)
         /\ \A i \in 1 .. Len(l) : l[i] \in Byte /\ l[i] # Nul /\ l[i] # CR
<1>1. l \in Seq(STRING)
  BY ToshibaAssumption
<1>2. DOMAIN l = 1 .. Len(l) /\ Len(l) \in Nat /\ l = [i \in 1 .. Len(l) |-> l[i]]
  BY <1>1
<1>3. \A i \in DOMAIN l : l[i] \notin {Nul, CR}
  BY ToshibaAssumption
<1>4. ASSUME NEW i \in DOMAIN l PROVE l[i] \in Byte
  <2>1. l[i] \in CharactersOf(l)
    BY DEF CharactersOf
  <2>2. CharactersOf(l) \in {CharactersOf(k) : k \in Lines}
    OBVIOUS
  <2>3. l[i] \in UNION {CharactersOf(k) : k \in Lines}
    BY <2>1, <2>2
  <2> QED
    BY <2>3 DEF Byte
<1>5. l \in [1 .. Len(l) -> Byte]
  BY <1>2, <1>4
<1>6. l \in Seq(Byte)
  BY <1>2, <1>5, SeqDef
<1> QED
  BY <1>2, <1>3, <1>4, <1>6

\* A text with one more character, and a memory with one other cell.
LEMMA AppendIs ==
  ASSUME NEW S, NEW s \in Seq(S), NEW e \in S
  PROVE  /\ Append(s, e) \in Seq(S) /\ Len(Append(s, e)) = Len(s) + 1 /\ Len(s) \in Nat
         /\ \A i \in 1 .. Len(s) : Append(s, e)[i] = s[i]
         /\ Append(s, e)[Len(s) + 1] = e
  OBVIOUS

LEMMA CellIs ==
  ASSUME NEW n \in Nat, NEW S, NEW f \in [0 .. n - 1 -> S], NEW r \in 0 .. n - 1, NEW e \in S
  PROVE  /\ [f EXCEPT ![r] = e] \in [0 .. n - 1 -> S]
         /\ \A i \in 0 .. n - 1 : [f EXCEPT ![r] = e][i] = IF i = r THEN e ELSE f[i]
  OBVIOUS

LEMMA SomeBytes == Nul \in Byte /\ "K" \in Byte
<1>1. Nul \in {Nul, CR, "K", "E"} /\ "K" \in {Nul, CR, "K", "E"}
  OBVIOUS
<1> QED
  BY <1>1 DEF Byte

-----------------------------------------------------------------------------
(* Text in memory.                                                         *)

\* The end of a text is where its first zero byte is.
LEMMA EndIs ==
  ASSUME NEW mem, NEW at \in Nat, NEW e \in at .. Size,
         e < Size => mem[e] = Nul,
         \A i \in at .. e - 1 : mem[i] # Nul
  PROVE  End(mem, at) = e
<1> DEFINE Ends(x) == /\ x < Size => mem[x] = Nul
                      /\ \A i \in at .. x - 1 : mem[i] # Nul
<1>1. Ends(e)
  OBVIOUS
<1>2. ASSUME NEW x \in at .. Size, Ends(x) PROVE x = e
  <2>1. ~ (x < e)
    BY <1>1, <1>2, Sizes
  <2>2. ~ (e < x)
    BY <1>1, <1>2, Sizes
  <2> QED
    BY <2>1, <2>2, Sizes
<1>3. End(mem, at) = CHOOSE x \in at .. Size : Ends(x)
  BY DEF End
<1> HIDE DEF Ends
<1>4. \E x \in at .. Size : Ends(x)
  BY <1>1
<1>5. End(mem, at) \in at .. Size /\ Ends(End(mem, at))
  BY <1>3, <1>4
<1> QED
  BY <1>2, <1>5

\* What is kept of a line, and that a K behind it does not change what it says.
LEMMA KeptIs ==
  ASSUME NEW s \in Seq(Byte)
  PROVE  LET n == IF Len(s) > PacketLen THEN PacketLen ELSE Len(s)
         IN /\ Kept(s) \in Seq(Byte) /\ Len(Kept(s)) = n
            /\ \A i \in 1 .. n : Kept(s)[i] = s[i]
<1> DEFINE n == IF Len(s) > PacketLen THEN PacketLen ELSE Len(s)
<1>1. n \in 0 .. Len(s)
  BY Sizes
<1>2. Kept(s) = SubSeq(s, 1, n)
  BY DEF Kept
<1> HIDE DEF n
<1>3. SubSeq(s, 1, n) \in Seq(Byte) /\ Len(SubSeq(s, 1, n)) = n
        /\ \A i \in 1 .. n : SubSeq(s, 1, n)[i] = s[i]
  BY <1>1
<1> QED
  BY <1>2, <1>3 DEF n

LEMMA MeaningWithK ==
  ASSUME NEW s \in Seq(Byte), Len(s) >= 3
  PROVE  Meaning(Append(s, "K")) = Meaning(s)
<1> DEFINE k == Append(s, "K")
<1>1. Len(k) = Len(s) + 1 /\ Len(s) \in Nat
  OBVIOUS
<1>2. k[1] = s[1] /\ k[2] = s[2]
  OBVIOUS
<1> HIDE DEF k
<1>3. Len(k) # 2 /\ Len(s) # 2 /\ Len(k) >= 2 /\ Len(s) >= 2
  <2> DEFINE n == Len(s)
  <2>1. n \in Nat /\ n >= 3 /\ Len(k) = n + 1
    BY <1>1
  <2> HIDE DEF n
  <2>2. n + 1 # 2 /\ n # 2 /\ n + 1 >= 2 /\ n >= 2
    BY <2>1
  <2> QED
    BY <2>1, <2>2 DEF n
<1>4. Meaning(k) = Meaning(s)
  BY <1>2, <1>3, Zenon DEF Meaning
<1> QED
  BY <1>4 DEF k

\* The two parts of a field are digits in a text exactly if they are in the text
\* that goes on with one that is no digit.
LEMMA SameRuns ==
  ASSUME NEW m \in Nat, NEW s, NEW k, NEW D,
         \A i \in 1 .. m : k[i] = s[i],
         k[m + 1] \notin D, k[m + 1] # Comma,
         NEW a \in 4 .. m + 1, NEW b \in 4 .. m + 1
  PROVE  (/\ k[a] = Comma /\ \A i \in 3 .. a - 1 : k[i] \in D
          /\ a <= b /\ \A i \in a + 1 .. b : k[i] \in D
          /\ b < m + 1 => k[b + 1] \notin D)
         <=>
         (/\ a <= m /\ b <= m
          /\ s[a] = Comma /\ \A i \in 3 .. a - 1 : s[i] \in D
          /\ a <= b /\ \A i \in a + 1 .. b : s[i] \in D
          /\ b < m => s[b + 1] \notin D)
<1>1. ASSUME k[a] = Comma, a <= b, \A i \in a + 1 .. b : k[i] \in D
      PROVE  a <= m /\ b <= m
  <2>1. a # m + 1
    BY <1>1
  <2>2. b # m + 1
    <3>1. b = m + 1 => b \in a + 1 .. b
      BY <1>1, <2>1
    <3> QED
      BY <1>1, <3>1
  <2> QED
    BY <2>1, <2>2
<1>2. ASSUME a <= m, b <= m, a <= b
      PROVE  /\ k[a] = s[a]
             /\ \A i \in 3 .. a - 1 : k[i] = s[i]
             /\ \A i \in a + 1 .. b : k[i] = s[i]
  BY <1>2
<1>3. ASSUME b <= m
      PROVE  (b < m + 1 => k[b + 1] \notin D) <=> (b < m => s[b + 1] \notin D)
  <2>1. CASE b = m
    BY <2>1
  <2>2. CASE b < m
    <3>1. b + 1 \in 1 .. m /\ b < m + 1
      BY <2>2
    <3>2. k[b + 1] = s[b + 1]
      BY <3>1
    <3> QED
      BY <2>2, <3>1, <3>2
  <2> QED
    BY <1>3, <2>1, <2>2
<1>4. ASSUME a <= m, b <= m, a <= b
      PROVE  /\ k[a] = Comma <=> s[a] = Comma
             /\ (\A i \in 3 .. a - 1 : k[i] \in D) <=> (\A i \in 3 .. a - 1 : s[i] \in D)
             /\ (\A i \in a + 1 .. b : k[i] \in D) <=> (\A i \in a + 1 .. b : s[i] \in D)
  BY <1>2, <1>4, Zenon
<1> QED
  BY <1>1, <1>3, <1>4, Zenon

LEMMA FieldsWithK ==
  ASSUME NEW s \in Seq(Byte), Len(s) >= 3
  PROVE  Fields(Append(s, "K")) = Fields(s)
<1> DEFINE k == Append(s, "K")
           m == Len(s)
<1>1. /\ Len(k) = m + 1 /\ m \in Nat
      /\ \A i \in 1 .. m : k[i] = s[i]
      /\ k[m + 1] = "K"
  OBVIOUS
<1>2. k[m + 1] \notin DigitSet /\ k[m + 1] # Comma
  BY <1>1 DEF DigitSet, Digits, Comma
<1>3. ASSUME NEW a \in 4 .. m + 1, NEW b \in 4 .. m + 1
      PROVE  <<a, b>> \in Fields(k) <=> <<a, b>> \in Fields(s)
  <2>1. <<a, b>> \in Fields(k) <=>
          /\ k[a] = Comma /\ \A i \in 3 .. a - 1 : k[i] \in DigitSet
          /\ a <= b /\ \A i \in a + 1 .. b : k[i] \in DigitSet
          /\ b < m + 1 => k[b + 1] \notin DigitSet
    <3> HIDE DEF k, m
    <3> QED BY <1>1 DEF Fields
  <2>2. <<a, b>> \in Fields(s) <=>
          /\ a \in 4 .. m /\ b \in 4 .. m
          /\ s[a] = Comma /\ \A i \in 3 .. a - 1 : s[i] \in DigitSet
          /\ a <= b /\ \A i \in a + 1 .. b : s[i] \in DigitSet
          /\ b < m => s[b + 1] \notin DigitSet
    BY DEF Fields
  <2>3. (a \in 4 .. m <=> a <= m) /\ (b \in 4 .. m <=> b <= m)
    BY <1>1
  <2> HIDE DEF k, m
  <2> QED
    BY <1>1, <1>2, <2>1, <2>2, <2>3, SameRuns
<1>4. \A l : Fields(l) \subseteq (4 .. Len(l)) \X (4 .. Len(l))
  BY DEF Fields
<1>5. Fields(k) \subseteq (4 .. m + 1) \X (4 .. m + 1)
  BY <1>1, <1>4
<1>6. Fields(s) \subseteq (4 .. m + 1) \X (4 .. m + 1)
  BY <1>1, <1>4
<1>7. \A f \in (4 .. m + 1) \X (4 .. m + 1) : f \in Fields(k) <=> f \in Fields(s)
  <2> HIDE DEF k, m
  <2> QED BY <1>3
<1>8. Fields(k) = Fields(s)
  BY <1>5, <1>6, <1>7
<1> QED
  BY <1>8

LEMMA ChapterWithK ==
  ASSUME NEW s \in Seq(Byte), Len(s) >= 3
  PROVE  ChapterOf(Append(s, "K")) = ChapterOf(s)
<1>1. Fields(Append(s, "K")) = Fields(s)
  BY FieldsWithK
<1>2. CASE Fields(s) = {}
  BY <1>1, <1>2 DEF ChapterOf
<1>3. CASE Fields(s) # {}
  <2> DEFINE f == CHOOSE x \in Fields(s) : TRUE
  <2>1. f \in Fields(s)
    BY <1>3
  <2>2. f[1] \in 4 .. Len(s) /\ f[2] \in 4 .. Len(s) /\ f[1] <= f[2]
    <3> HIDE DEF f
    <3> QED BY <2>1 DEF Fields
  <2>3. SubSeq(Append(s, "K"), f[1] + 1, f[2]) = SubSeq(s, f[1] + 1, f[2])
    <3> HIDE DEF f
    <3> DEFINE a == f[1] + 1
               b == f[2]
    <3>1. a \in 1 .. Len(s) + 1 /\ b \in a - 1 .. Len(s)
      BY <2>2
    <3> HIDE DEF a, b
    <3>2. SubSeq(Append(s, "K"), a, b) = SubSeq(s, a, b)
      BY <3>1
    <3> QED
      BY <3>2 DEF a, b
  <2>4. ChapterOf(s) = NumberOf(SubSeq(s, f[1] + 1, f[2]))
    BY <1>3 DEF ChapterOf
  <2>5. ChapterOf(Append(s, "K")) = NumberOf(SubSeq(Append(s, "K"), f[1] + 1, f[2]))
    BY <1>1, <1>3 DEF ChapterOf
  <2> QED
    BY <2>3, <2>4, <2>5
<1> QED
  BY <1>2, <1>3

-----------------------------------------------------------------------------
(* The buffers.                                                            *)

\* Inductive: packet holds what was typed, as far as it fits, and zeros; behind it
\* at most the first two bytes are not zero, the second only if the first is not.
MemoryInv ==
  /\ memory \in [0 .. Size - 1 -> Byte]
  /\ typed \in Seq(Byte)
  /\ \A i \in 1 .. Len(typed) : typed[i] # Nul
  /\ \A i \in 0 .. PacketLen - 1 :
       memory[i] = IF i < Len(typed) THEN typed[i + 1] ELSE Nul
  /\ memory[PacketLen] = Nul => memory[PacketLen + 1] = Nul
  /\ Contained

\* Where the next byte goes.
Room == IF Len(typed) < PacketLen THEN Len(typed) ELSE PacketLen

LEMMA Cleared ==
  ASSUME MemoryInv
  PROVE  LET clear == ClearResponse(memory)
         IN /\ clear \in [0 .. Size - 1 -> Byte]
            /\ \A i \in 0 .. PacketLen - 1 : clear[i] = memory[i]
            /\ \A i \in PacketLen .. Size - 1 : clear[i] = Nul
            /\ End(clear, 0) = Room
<1> DEFINE clear == ClearResponse(memory)
<1>1. \A i \in 0 .. Size - 1 :
        clear[i] = IF i >= PacketLen /\ memory[PacketLen] # Nul THEN Nul ELSE memory[i]
  BY DEF ClearResponse
<1>2. clear \in [0 .. Size - 1 -> Byte]
  BY Sizes, SomeBytes DEF ClearResponse, MemoryInv
<1> HIDE DEF clear
<1>3. \A i \in 0 .. PacketLen - 1 : clear[i] = memory[i]
  BY <1>1, Sizes
<1>4. ASSUME NEW i \in PacketLen .. Size - 1 PROVE clear[i] = Nul
  <2>1. CASE memory[PacketLen] # Nul
    BY <1>1, <2>1, Sizes
  <2>2. CASE memory[PacketLen] = Nul
    <3>1. memory[i] = Nul
      <4>1. i = PacketLen \/ i = PacketLen + 1 \/ i \in PacketLen + 2 .. Size - 1
        BY Sizes
      <4> QED
        BY <2>2, <4>1 DEF MemoryInv, Contained
    <3> QED
      BY <1>1, <2>2, <3>1, Sizes
  <2> QED
    BY <2>1, <2>2
<1>5. Room \in 0 .. PacketLen /\ Room < Size /\ Len(typed) \in Nat /\ Room <= Len(typed)
  BY Sizes DEF MemoryInv, Room
<1>6. clear[Room] = Nul
  <2>1. CASE Len(typed) < PacketLen
    BY <1>3, <1>5, <2>1, Sizes DEF MemoryInv, Room
  <2>2. CASE Len(typed) >= PacketLen
    BY <1>4, <1>5, <2>2, Sizes DEF Room
  <2> QED
    BY <1>5, <2>1, <2>2, Sizes
<1>7. \A i \in 0 .. Room - 1 : clear[i] # Nul
  <2> SUFFICES ASSUME NEW i \in 0 .. Room - 1 PROVE clear[i] # Nul
    OBVIOUS
  <2>1. i \in 0 .. PacketLen - 1 /\ i < Len(typed) /\ i + 1 \in 1 .. Len(typed)
    BY <1>5, Sizes
  <2>2. memory[i] = typed[i + 1]
    BY <2>1 DEF MemoryInv
  <2> QED
    BY <1>3, <2>1, <2>2 DEF MemoryInv
<1>8. End(clear, 0) = Room
  <2>1. Room \in 0 .. Size
    BY <1>5, Sizes
  <2> QED
    BY <1>6, <1>7, <2>1, EndIs
<1> QED
  BY <1>2, <1>3, <1>4, <1>8 DEF clear

LEMMA InitMemoryInv == ToshibaInit => MemoryInv
<1> SUFFICES ASSUME ToshibaInit PROVE MemoryInv
  OBVIOUS
<1>1. memory \in [0 .. Size - 1 -> Byte] /\ \A i \in 0 .. Size - 1 : memory[i] = Nul
  BY SomeBytes DEF ToshibaInit
<1>2. typed = <<>> /\ typed \in Seq(Byte) /\ Len(typed) = 0
  BY DEF ToshibaInit
<1> QED
  BY <1>1, <1>2, Sizes DEF MemoryInv, Contained

LEMMA CharacterMemoryInv == MemoryInv /\ ReceiveCharacter => MemoryInv'
<1> SUFFICES ASSUME MemoryInv, ReceiveCharacter PROVE MemoryInv'
  OBVIOUS
<1>1. PICK l \in Lines :
        /\ Begins(typed, l) /\ typed # l
        /\ Collect(l[Len(typed) + 1])
        /\ typed' = Append(typed, l[Len(typed) + 1])
  BY DEF ReceiveCharacter
<1> DEFINE byte == l[Len(typed) + 1]
           clear == ClearResponse(memory)
<1>2. l \in Seq(Byte) /\ typed \in Seq(Byte) /\ Len(typed) \in Nat
  BY Characters DEF MemoryInv
<1>3. Len(typed) + 1 \in 1 .. Len(l)
  <2>1. Len(typed) <= Len(l) /\ typed = SubSeq(l, 1, Len(typed))
    BY <1>1 DEF Begins
  <2>2. Len(typed) # Len(l)
    <3>1. SubSeq(l, 1, Len(l)) = l
      BY <1>2
    <3> QED
      BY <1>1, <2>1, <3>1
  <2> QED
    BY <1>2, <2>1, <2>2
<1>4. byte \in Byte /\ byte # Nul
  BY <1>3, Characters
<1>5. /\ clear \in [0 .. Size - 1 -> Byte]
      /\ \A i \in 0 .. PacketLen - 1 : clear[i] = memory[i]
      /\ \A i \in PacketLen .. Size - 1 : clear[i] = Nul
      /\ End(clear, 0) = Room
  BY Cleared
<1>6. memory' = [clear EXCEPT ![Room] = byte]
  BY <1>1, <1>5 DEF Collect
<1>7. typed' = Append(typed, byte)
  BY <1>1
<1> HIDE DEF byte, clear
<1>8. /\ typed' \in Seq(Byte) /\ Len(typed') = Len(typed) + 1
      /\ \A i \in 1 .. Len(typed) : typed'[i] = typed[i]
      /\ typed'[Len(typed) + 1] = byte
  BY <1>2, <1>4, <1>7, AppendIs
<1>9. Room \in 0 .. Size - 1 /\ Room <= PacketLen /\ Room <= Len(typed)
      /\ (Room < PacketLen => Room = Len(typed))
      /\ (Room = PacketLen => PacketLen <= Len(typed))
  BY <1>2, Sizes DEF Room
<1>10. memory' \in [0 .. Size - 1 -> Byte]
       /\ \A i \in 0 .. Size - 1 : memory'[i] = IF i = Room THEN byte ELSE clear[i]
  BY <1>4, <1>5, <1>6, <1>9, Sizes, CellIs
<1>11. ASSUME NEW i \in 1 .. Len(typed') PROVE typed'[i] # Nul
  <2>1. i \in 1 .. Len(typed) \/ i = Len(typed) + 1
    BY <1>2, <1>8
  <2>2. \A j \in 1 .. Len(typed) : typed[j] # Nul
    BY DEF MemoryInv
  <2> QED
    BY <1>4, <1>8, <2>1, <2>2
<1>12. ASSUME NEW i \in 0 .. PacketLen - 1
       PROVE  memory'[i] = IF i < Len(typed') THEN typed'[i + 1] ELSE Nul
  <2>1. i \in 0 .. Size - 1
    BY Sizes
  <2>2. clear[i] = IF i < Len(typed) THEN typed[i + 1] ELSE Nul
    BY <1>5 DEF MemoryInv
  <2>3. CASE i = Room
    <3>1. i = Len(typed)
      BY <1>9, <2>3, Sizes
    <3> QED
      BY <1>2, <1>8, <1>10, <2>1, <2>3, <3>1
  <2>4. CASE i # Room
    <3>1. memory'[i] = clear[i]
      BY <1>10, <2>1, <2>4
    <3>2. i # Len(typed)
      BY <1>9, <2>4, Sizes DEF Room
    <3>3. i < Len(typed) => typed'[i + 1] = typed[i + 1]
      BY <1>2, <1>8
    <3>4. i < Len(typed') <=> i < Len(typed)
      BY <1>2, <1>8, <3>2
    <3> QED
      BY <2>2, <3>1, <3>3, <3>4
  <2> QED
    BY <2>3, <2>4
<1>13. memory'[PacketLen + 1] = Nul /\ Contained'
  <2>1. \A i \in PacketLen + 1 .. Size - 1 : memory'[i] = Nul
    BY <1>5, <1>9, <1>10, Sizes
  <2> QED
    BY <2>1, Sizes DEF Contained
<1> QED
  BY <1>8, <1>10, <1>11, <1>12, <1>13 DEF MemoryInv

LEMMA NulMemoryInv == MemoryInv /\ ReceiveNul => MemoryInv'
<1> SUFFICES ASSUME MemoryInv, ReceiveNul PROVE MemoryInv'
  OBVIOUS
<1> DEFINE clear == ClearResponse(memory)
<1>1. /\ clear \in [0 .. Size - 1 -> Byte]
      /\ \A i \in 0 .. PacketLen - 1 : clear[i] = memory[i]
      /\ \A i \in PacketLen .. Size - 1 : clear[i] = Nul
      /\ End(clear, 0) = Room
  BY Cleared
<1>2. memory' = [clear EXCEPT ![Room] = Nul] /\ typed' = typed
  BY <1>1 DEF ReceiveNul, Collect
<1> HIDE DEF clear
<1>3. Room \in 0 .. Size - 1 /\ (Room < PacketLen => Room = Len(typed)) /\ Len(typed) \in Nat
  BY Sizes DEF Room, MemoryInv
<1>4. memory' \in [0 .. Size - 1 -> Byte]
      /\ \A i \in 0 .. Size - 1 : memory'[i] = IF i = Room THEN Nul ELSE clear[i]
  BY <1>1, <1>2, <1>3, Sizes, CellIs, SomeBytes
<1>5. ASSUME NEW i \in 0 .. PacketLen - 1
      PROVE  memory'[i] = IF i < Len(typed') THEN typed'[i + 1] ELSE Nul
  <2>1. i \in 0 .. Size - 1 /\ clear[i] = memory[i]
    BY <1>1, Sizes
  <2>2. memory[i] = IF i < Len(typed) THEN typed[i + 1] ELSE Nul
    BY DEF MemoryInv
  <2>3. i = Room => ~ (i < Len(typed))
    BY <1>3, Sizes
  <2> QED
    BY <1>2, <1>4, <2>1, <2>2, <2>3
<1>6. \A i \in PacketLen .. Size - 1 : memory'[i] = Nul
  BY <1>1, <1>4, Sizes
<1>7. memory'[PacketLen + 1] = Nul /\ Contained'
  BY <1>6, Sizes DEF Contained
<1> QED
  BY <1>2, <1>4, <1>5, <1>7 DEF MemoryInv

-----------------------------------------------------------------------------
(* A carriage return.                                                      *)

LEMMA ResponseSet ==
  ASSUME NEW mem \in [0 .. Size - 1 -> Byte], NEW c \in Byte
  PROVE  /\ SetResponse(mem, c) \in [0 .. Size - 1 -> Byte]
         /\ SetResponse(mem, c)[PacketLen] = c
         /\ SetResponse(mem, c)[PacketLen + 1] = Nul
         /\ \A i \in 0 .. Size - 1 :
              i # PacketLen /\ i # PacketLen + 1 => SetResponse(mem, c)[i] = mem[i]
<1>1. PacketLen \in 0 .. Size - 1 /\ PacketLen + 1 \in 0 .. Size - 1
  BY Sizes
<1> QED
  BY <1>1, SomeBytes DEF SetResponse

\* The memory when ProcessPacket looks at the line: a K stands behind the line.
LEMMA Started ==
  ASSUME MemoryInv
  PROVE  LET started == SetResponse(ClearResponse(memory), "K")
         IN /\ started \in [0 .. Size - 1 -> Byte]
            /\ \A i \in 0 .. PacketLen - 1 : started[i] = memory[i]
            /\ started[PacketLen] = "K"
            /\ \A i \in PacketLen + 1 .. Size - 1 : started[i] = Nul
<1> DEFINE clear == ClearResponse(memory)
           started == SetResponse(clear, "K")
<1>1. /\ clear \in [0 .. Size - 1 -> Byte]
      /\ \A i \in 0 .. PacketLen - 1 : clear[i] = memory[i]
      /\ \A i \in PacketLen .. Size - 1 : clear[i] = Nul
  BY Cleared
<1> HIDE DEF clear
<1>2. "K" \in Byte
  BY SomeBytes
<1>3. /\ started \in [0 .. Size - 1 -> Byte]
      /\ started[PacketLen] = "K" /\ started[PacketLen + 1] = Nul
      /\ \A i \in 0 .. Size - 1 :
           i # PacketLen /\ i # PacketLen + 1 => started[i] = clear[i]
  BY <1>1, <1>2, ResponseSet
<1> HIDE DEF started
<1>4. \A i \in 0 .. PacketLen - 1 : started[i] = memory[i]
  BY <1>1, <1>3, Sizes
<1>5. \A i \in PacketLen + 1 .. Size - 1 : started[i] = Nul
  BY <1>1, <1>3, Sizes
<1> QED
  BY <1>3, <1>4, <1>5 DEF started, clear

\* The line it finds there is what was typed; if the buffer is full it runs on
\* into the K of the response, which does not change what it says.
LEMMA LineFound ==
  ASSUME MemoryInv
  PROVE  LET line == Text(SetResponse(ClearResponse(memory), "K"), 0)
         IN /\ Meaning(line) = Meaning(Kept(typed))
            /\ ChapterOf(line) = ChapterOf(Kept(typed))
<1> DEFINE started == SetResponse(ClearResponse(memory), "K")
           line == Text(started, 0)
           kept == Kept(typed)
<1> SUFFICES Meaning(line) = Meaning(kept) /\ ChapterOf(line) = ChapterOf(kept)
  OBVIOUS
<1>1. /\ \A i \in 0 .. PacketLen - 1 : started[i] = memory[i]
      /\ started[PacketLen] = "K"
      /\ \A i \in PacketLen + 1 .. Size - 1 : started[i] = Nul
  BY Started
<1> HIDE DEF started
<1>2. typed \in Seq(Byte) /\ Len(typed) \in Nat
  BY DEF MemoryInv
<1>3. /\ kept \in Seq(Byte) /\ Len(kept) = Room
      /\ \A i \in 1 .. Room : kept[i] = typed[i]
  <2>1. Room = IF Len(typed) > PacketLen THEN PacketLen ELSE Len(typed)
    BY <1>2, Sizes DEF Room
  <2> QED
    BY <1>2, <2>1, KeptIs
<1>4. ASSUME NEW i \in 0 .. PacketLen - 1
      PROVE  started[i] = IF i < Len(typed) THEN typed[i + 1] ELSE Nul
  BY <1>1 DEF MemoryInv
<1>5. \A i \in 1 .. Len(typed) : typed[i] # Nul
  BY DEF MemoryInv
<1>6. Room \in 0 .. PacketLen /\ Room <= Len(typed)
  BY <1>2, Sizes DEF Room
<1>7. \A i \in 0 .. Room - 1 : started[i] = kept[i + 1] /\ started[i] # Nul
  <2> SUFFICES ASSUME NEW i \in 0 .. Room - 1
               PROVE  started[i] = kept[i + 1] /\ started[i] # Nul
    OBVIOUS
  <2>1. i \in 0 .. PacketLen - 1 /\ i < Len(typed) /\ i + 1 \in 1 .. Room
        /\ i + 1 \in 1 .. Len(typed)
    BY <1>2, <1>6, Sizes
  <2>2. started[i] = typed[i + 1]
    BY <1>4, <2>1
  <2> QED
    BY <1>3, <1>5, <2>1, <2>2
<1>8. CASE Len(typed) < PacketLen
  <2>1. Room = Len(typed) /\ Room \in 0 .. PacketLen - 1 /\ Room \in 0 .. Size
    BY <1>2, <1>8, Sizes DEF Room
  <2>2. started[Room] = Nul
    BY <1>4, <2>1
  <2>3. End(started, 0) = Room
    BY <1>7, <2>1, <2>2, EndIs
  <2>4. line = [i \in 1 .. Room |-> started[i - 1]]
    BY <2>1, <2>3 DEF Text
  <2>5. kept = [i \in 1 .. Room |-> kept[i]]
    BY <1>3
  <2>6. \A i \in 1 .. Room : started[i - 1] = kept[i]
    BY <1>7, <2>1
  <2>7. line = kept
    BY <2>4, <2>5, <2>6
  <2> QED
    BY <2>7
<1>9. CASE Len(typed) >= PacketLen
  <2>1. Room = PacketLen /\ PacketLen + 1 \in 0 .. Size /\ PacketLen + 1 \in PacketLen + 1 .. Size - 1
    BY <1>2, <1>9, Sizes DEF Room
  <2>2. started[PacketLen + 1] = Nul
    BY <1>1, <2>1
  <2>3. \A i \in 0 .. PacketLen : started[i] # Nul
    <3> SUFFICES ASSUME NEW i \in 0 .. PacketLen PROVE started[i] # Nul
      OBVIOUS
    <3>1. CASE i = PacketLen
      BY <1>1, <3>1 DEF Nul
    <3>2. CASE i # PacketLen
      BY <1>7, <2>1, <3>2, Sizes
    <3> QED
      BY <3>1, <3>2
  <2>4. End(started, 0) = PacketLen + 1
    <3> DEFINE e == PacketLen + 1
    <3>1. e \in 0 .. Size /\ started[e] = Nul
      BY <2>1, <2>2
    <3>2. \A i \in 0 .. e - 1 : started[i] # Nul
      BY <2>3, Sizes
    <3> HIDE DEF e
    <3>3. End(started, 0) = e
      BY <3>1, <3>2, EndIs
    <3> QED
      BY <3>3 DEF e
  <2>5. line = [i \in 1 .. PacketLen + 1 |-> started[i - 1]]
    BY <2>4, Sizes DEF Text
  <2>6. /\ Append(kept, "K") = [i \in 1 .. PacketLen + 1 |-> Append(kept, "K")[i]]
        /\ \A i \in 1 .. PacketLen : Append(kept, "K")[i] = kept[i]
        /\ Append(kept, "K")[PacketLen + 1] = "K"
    <3> HIDE DEF kept
    <3>1. Len(kept) = PacketLen
      BY <1>3, <2>1
    <3>2. /\ Append(kept, "K") \in Seq(Byte) /\ Len(Append(kept, "K")) = PacketLen + 1
          /\ \A i \in 1 .. PacketLen : Append(kept, "K")[i] = kept[i]
          /\ Append(kept, "K")[PacketLen + 1] = "K"
      BY <1>3, <3>1, AppendIs, SomeBytes
    <3> DEFINE k == Append(kept, "K")
    <3> HIDE DEF k
    <3>3. k \in Seq(Byte) /\ Len(k) = PacketLen + 1 => k = [i \in 1 .. PacketLen + 1 |-> k[i]]
      OBVIOUS
    <3> QED
      BY <3>2, <3>3 DEF k
  <2>7. ASSUME NEW i \in 1 .. PacketLen + 1 PROVE started[i - 1] = Append(kept, "K")[i]
    <3>1. CASE i = PacketLen + 1
      BY <1>1, <2>6, <3>1, Sizes
    <3>2. CASE i # PacketLen + 1
      <4>1. i \in 1 .. PacketLen /\ i - 1 \in 0 .. Room - 1 /\ i - 1 + 1 = i
        BY <2>1, <3>2, Sizes
      <4> QED
        BY <1>7, <2>6, <4>1
    <3> QED
      BY <3>1, <3>2
  <2>8. line = Append(kept, "K")
    BY <2>5, <2>6, <2>7
  <2>9. Len(kept) >= 3
    BY <1>3, <2>1, Sizes
  <2> HIDE DEF line, kept
  <2> QED
    BY <1>3, <2>8, <2>9, MeaningWithK, ChapterWithK
<1> QED
  BY <1>2, <1>8, <1>9, Sizes

LEMMA LineFoundObeyed ==
  ASSUME MemoryInv
  PROVE  LET line == Text(SetResponse(ClearResponse(memory), "K"), 0)
         IN Obey(line) = Obey(Kept(typed)) /\ Answer(line) = Answer(Kept(typed))
BY LineFound, Zenon DEF Obey, Answer

\* The memory afterwards: no line, and a response of two characters.
LEMMA Answered ==
  ASSUME MemoryInv, ReceiveCR
  PROVE  /\ memory' \in [0 .. Size - 1 -> Byte]
         /\ \A i \in 0 .. PacketLen - 1 : memory'[i] = Nul
         /\ memory'[PacketLen] = Answer(Kept(typed)) /\ memory'[PacketLen] # Nul
         /\ memory'[PacketLen + 1] = CR
         /\ Contained'
<1> DEFINE started == SetResponse(ClearResponse(memory), "K")
           c == Answer(Text(started, 0))
           set == SetResponse(started, c)
           answered == ClearPacket(set)
<1>1. /\ started \in [0 .. Size - 1 -> Byte]
      /\ \A i \in PacketLen + 1 .. Size - 1 : started[i] = Nul
  BY Started
<1>2. c = Answer(Kept(typed))
  BY LineFoundObeyed
<1>3. memory' = [answered EXCEPT ![End(answered, PacketLen)] = CR]
  BY DEF ReceiveCR
<1>4. c \in {"K", "E"}
  BY DEF Answer
<1> HIDE DEF started, c
<1>5. c \in Byte /\ CR \in Byte /\ c # Nul /\ CR # Nul
  <2>1. c \in {Nul, CR, "K", "E"} /\ CR \in {Nul, CR, "K", "E"}
    BY <1>4
  <2>2. c # Nul /\ CR # Nul
    BY <1>4 DEF Nul, CR
  <2> QED
    BY <2>1, <2>2 DEF Byte
<1>6. /\ set \in [0 .. Size - 1 -> Byte]
      /\ set[PacketLen] = c /\ set[PacketLen + 1] = Nul
      /\ \A i \in 0 .. Size - 1 : i # PacketLen /\ i # PacketLen + 1 => set[i] = started[i]
  BY <1>1, <1>5, ResponseSet
<1> HIDE DEF set
<1>7. answered \in [0 .. Size - 1 -> Byte]
      /\ \A i \in 0 .. Size - 1 : answered[i] = IF i < PacketLen THEN Nul ELSE set[i]
  BY <1>6, SomeBytes DEF ClearPacket
<1> HIDE DEF answered
<1>8. \A i \in 0 .. PacketLen - 1 : answered[i] = Nul
  BY <1>7, Sizes
<1>9. answered[PacketLen] = c /\ answered[PacketLen + 1] = Nul
  BY <1>6, <1>7, Sizes
<1>10. \A i \in PacketLen + 2 .. Size - 1 : answered[i] = Nul
  BY <1>1, <1>6, <1>7, Sizes
<1>11. End(answered, PacketLen) = PacketLen + 1
  <2>1. PacketLen + 1 \in PacketLen .. Size /\ PacketLen \in Nat
    BY Sizes
  <2>2. \A i \in PacketLen .. PacketLen + 1 - 1 : answered[i] # Nul
    BY <1>5, <1>9, Sizes
  <2> QED
    BY <1>9, <2>1, <2>2, EndIs
<1>12. /\ memory' \in [0 .. Size - 1 -> Byte]
       /\ \A i \in 0 .. Size - 1 : memory'[i] = IF i = PacketLen + 1 THEN CR ELSE answered[i]
  <2>1. PacketLen + 1 \in 0 .. Size - 1
    BY Sizes
  <2> QED
    BY <1>3, <1>5, <1>7, <1>11, <2>1, Sizes, CellIs
<1>13. \A i \in 0 .. PacketLen - 1 : memory'[i] = Nul
  BY <1>8, <1>12, Sizes
<1>14. memory'[PacketLen] = c /\ memory'[PacketLen + 1] = CR
  BY <1>9, <1>12, Sizes
<1>15. Contained'
  BY <1>10, <1>12, Sizes DEF Contained
<1> QED
  BY <1>2, <1>5, <1>12, <1>13, <1>14, <1>15

LEMMA CRMemoryInv == MemoryInv /\ ReceiveCR => MemoryInv'
<1> SUFFICES ASSUME MemoryInv, ReceiveCR PROVE MemoryInv'
  OBVIOUS
<1>1. typed' = <<>> /\ typed' \in Seq(Byte) /\ Len(typed') = 0
  BY DEF ReceiveCR
<1> QED
  BY <1>1, Answered, Sizes DEF MemoryInv

\* A step on a carriage return does what LineObeyed says.
LEMMA CRObeys ==
  ASSUME MemoryInv, ReceiveCR
  PROVE  /\ main' = Obey(Kept(typed))
         /\ reply' = <<Answer(Kept(typed)), CR>>
<1>1. main' = Obey(Kept(typed))
  BY LineFoundObeyed DEF ReceiveCR, Invoke
<1>2. reply' = Text(memory', PacketLen)
  BY DEF ReceiveCR
<1>3. End(memory', PacketLen) = PacketLen + 2
  <2>1. PacketLen + 2 \in PacketLen .. Size /\ PacketLen \in Nat
        /\ PacketLen + 2 \in PacketLen + 2 .. Size - 1
    BY Sizes
  <2>2. memory'[PacketLen + 2] = Nul
    BY <2>1, Answered DEF Contained
  <2>3. \A i \in PacketLen .. PacketLen + 2 - 1 : memory'[i] # Nul
    <3>1. memory'[PacketLen] # Nul /\ memory'[PacketLen + 1] # Nul
      BY Answered DEF Nul, CR
    <3>2. \A i \in PacketLen .. PacketLen + 2 - 1 : i = PacketLen \/ i = PacketLen + 1
      BY Sizes
    <3> QED
      BY <3>1, <3>2
  <2> QED
    BY <2>1, <2>2, <2>3, EndIs
<1>4. Text(memory', PacketLen) = [i \in 1 .. 2 |-> memory'[PacketLen + i - 1]]
  BY <1>3, Sizes DEF Text
<1>5. memory'[PacketLen + 1 - 1] = Answer(Kept(typed)) /\ memory'[PacketLen + 2 - 1] = CR
  BY Answered, Sizes
<1> HIDE DEF Answer
<1>6. [i \in 1 .. 2 |-> memory'[PacketLen + i - 1]] = <<Answer(Kept(typed)), CR>>
  BY <1>5
<1> QED
  BY <1>1, <1>2, <1>4, <1>6

LEMMA NextMemoryInv == MemoryInv /\ [ToshibaNext]_allVars => MemoryInv'
<1> SUFFICES ASSUME MemoryInv, [ToshibaNext]_allVars PROVE MemoryInv'
  OBVIOUS
<1>1. CASE ReceiveCharacter
  BY <1>1, CharacterMemoryInv
<1>2. CASE ReceiveNul
  BY <1>2, NulMemoryInv
<1>3. CASE ReceiveCR
  BY <1>3, CRMemoryInv
<1>4. CASE UNCHANGED toshibaVars
  BY <1>4 DEF toshibaVars, MemoryInv, Contained
<1>5. CASE UNCHANGED allVars
  BY <1>4, <1>5 DEF allVars
<1> QED
  BY <1>1, <1>2, <1>3, <1>4, <1>5 DEF ToshibaNext, ToshibaReceiveByte

-----------------------------------------------------------------------------

\* However long the lines are, the unchecked index of ToshibaReceiveByte never
\* goes beyond the first two bytes of the response.
THEOREM OverrunContained == ToshibaSpec => []Contained
<1>1. MemoryInv => Contained
  BY DEF MemoryInv
<1> QED
  BY <1>1, InitMemoryInv, NextMemoryInv, PTL DEF ToshibaSpec

\* Every line is obeyed and answered for what was typed, whatever was in the
\* buffers before.
THEOREM EveryLineObeyed == ToshibaSpec => LineObeyed
<1>1. MemoryInv /\ [ToshibaNext]_allVars =>
        [typed # <<>> /\ ReceiveCR =>
           /\ main' = Obey(Kept(typed))
           /\ reply' = <<Answer(Kept(typed)), CR>>]_allVars
  BY CRObeys
<1> QED
  BY <1>1, InitMemoryInv, NextMemoryInv, PTL DEF ToshibaSpec, LineObeyed

-----------------------------------------------------------------------------
(* Types.                                                                  *)

\* What the types need besides the buffers.
LineInv ==
  /\ typed = <<>> \/ \E l \in Lines : Begins(typed, l)
  /\ reply \in {<<>>, <<"K", CR>>, <<"E", CR>>}

\* One more character of a line is a longer beginning of it.
LEMMA BeginsFurther ==
  ASSUME NEW l \in Seq(Byte), NEW text \in Seq(Byte), Begins(text, l), text # l
  PROVE  Begins(Append(text, l[Len(text) + 1]), l)
<1> DEFINE n == Len(text)
<1>1. n \in Nat /\ Len(l) \in Nat /\ n <= Len(l) /\ text = SubSeq(l, 1, n)
  BY DEF Begins
<1>2. n # Len(l)
  <2>1. SubSeq(l, 1, Len(l)) = l
    OBVIOUS
  <2> QED
    BY <1>1, <2>1
<1> HIDE DEF n
<1>3. n + 1 \in 1 .. Len(l)
  BY <1>1, <1>2
<1>4. SubSeq(l, 1, n + 1) = Append(SubSeq(l, 1, n), l[n + 1])
  BY <1>1, <1>3
<1>5. Append(text, l[n + 1]) = SubSeq(l, 1, n + 1)
  BY <1>1, <1>4
<1>6. Len(SubSeq(l, 1, n + 1)) = n + 1
  BY <1>1, <1>3
<1> QED
  BY <1>3, <1>5, <1>6 DEF Begins, n

LEMMA NextLineInv == MemoryInv /\ LineInv /\ [ToshibaNext]_allVars => LineInv'
<1> SUFFICES ASSUME MemoryInv, LineInv, [ToshibaNext]_allVars PROVE LineInv'
  OBVIOUS
<1>1. CASE ReceiveCharacter
  <2>1. PICK l \in Lines :
          /\ Begins(typed, l) /\ typed # l
          /\ Collect(l[Len(typed) + 1])
          /\ typed' = Append(typed, l[Len(typed) + 1])
    BY <1>1 DEF ReceiveCharacter
  <2>2. Begins(typed', l)
    BY <2>1, Characters, BeginsFurther DEF MemoryInv
  <2>3. reply' = <<>>
    BY <2>1 DEF Collect
  <2> QED
    BY <2>2, <2>3 DEF LineInv
<1>2. CASE ReceiveNul
  BY <1>2 DEF ReceiveNul, Collect, LineInv
<1>3. CASE ReceiveCR
  <2>1. reply' = <<Answer(Kept(typed)), CR>>
    BY <1>3, CRObeys
  <2>2. Answer(Kept(typed)) \in {"K", "E"}
    BY DEF Answer
  <2>3. typed' = <<>>
    BY <1>3 DEF ReceiveCR
  <2> QED
    BY <2>1, <2>2, <2>3 DEF LineInv
<1>4. CASE UNCHANGED toshibaVars
  BY <1>4 DEF toshibaVars, LineInv
<1>5. CASE UNCHANGED allVars
  BY <1>4, <1>5 DEF allVars
<1> QED
  BY <1>1, <1>2, <1>3, <1>4, <1>5 DEF ToshibaNext, ToshibaReceiveByte

\* The buffers hold bytes, what was typed is the beginning of a line, and the answer
\* is one of the two texts with a carriage return, however long the lines are.
THEOREM ToshibaTypeCorrect == ToshibaSpec => []ToshibaTypeOK
<1>1. ToshibaInit => LineInv
  BY DEF ToshibaInit, LineInv
<1>2. MemoryInv /\ LineInv => ToshibaTypeOK
  BY DEF MemoryInv, LineInv, ToshibaTypeOK
<1> QED
  BY <1>1, <1>2, InitMemoryInv, NextMemoryInv, NextLineInv, PTL DEF ToshibaSpec

-----------------------------------------------------------------------------
(* The video component inside the emulation.                               *)

\* Any line is a call of the video API, or none.
LEMMA LineIsVideoStep ==
  ASSUME NEW line, Invoke(Obey(line))
  PROVE  [Next]_vars
<1>1. \/ Obey(line) = PowerOn(main) \/ Obey(line) = Play(main) \/ Obey(line) = Pause(main)
      \/ Obey(line) = SeekToChapter(main, ChapterOf(line)) \/ Obey(line) = main
  BY DEF Obey
<1>2. CASE Invoke(main)
  BY <1>2 DEF Invoke, vars
<1>3. CASE Invoke(PowerOn(main)) \/ Invoke(Play(main)) \/ Invoke(Pause(main))
  BY <1>3 DEF CallPowerOn, CallPlay, CallPause, ApiCall, Next
<1>4. CASE Invoke(SeekToChapter(main, ChapterOf(line)))
  <2>1. CASE CanSeek(main, ChapterOf(line))
    <3>1. ChapterOf(line) \in ChapterArgs
      BY <2>1, ToshibaAssumption DEF CanSeek
    <3> QED
      BY <1>4, <3>1 DEF CallSeek, ApiCall, Next
  <2>2. CASE ~CanSeek(main, ChapterOf(line))
    <3>1. SeekToChapter(main, ChapterOf(line)) = main
      BY <2>2 DEF SeekToChapter
    <3> QED
      BY <1>2, <1>4, <3>1
  <2> QED
    BY <2>1, <2>2
<1> QED
  BY <1>1, <1>2, <1>3, <1>4

LEMMA ToshibaIsVideo ==
  ASSUME [ToshibaNext]_allVars
  PROVE  [Next]_vars
<1>1. CASE ReceiveCharacter \/ ReceiveNul
  BY <1>1 DEF ReceiveCharacter, ReceiveNul, Collect
<1>2. CASE ReceiveCR
  BY <1>2, LineIsVideoStep DEF ReceiveCR
<1>3. CASE VideoThreadAction \/ VideoThread \/ PlayerReady \/ PlayerExit
  BY <1>3 DEF Next
<1>4. CASE UNCHANGED allVars
  BY <1>4 DEF allVars
<1> QED
  BY <1>1, <1>2, <1>3, <1>4 DEF ToshibaNext, ToshibaReceiveByte

\* Whatever lines come, the screen ends up as the transport state says, no opcode is
\* dropped and the queue is not overrun, although no command is ever refused.
THEOREM ToshibaScreen ==
  ASSUME MaxChapter < ByteSize, 4 * MaxBurst <= QueueSize
  PROVE  ToshibaSpec => [](ScreenMatches /\ NothingDropped /\ QueueFits)
<1>1. VideoInv => ScreenMatches /\ NothingDropped /\ QueueFits
  BY InvScreenMatches, InvNothingDropped DEF VideoInv, QueueInv, QueueFits
<1>2. Init => VideoInv
  BY InitVideoInv
<1>3. VideoInv /\ [Next]_vars => VideoInv'
  BY NextVideoInv
<1>4. [ToshibaNext]_allVars => [Next]_vars
  BY ToshibaIsVideo
<1>5. ToshibaInit => Init
  BY DEF ToshibaInit
<1> QED
  BY <1>1, <1>2, <1>3, <1>4, <1>5, PTL DEF ToshibaSpec

\* Nor does any line take the four fields of the video component out of the modes of
\* its transport, start a player beside another one, or make the playback thread do
\* anything twice.
THEOREM ToshibaVideo ==
  ToshibaSpec => /\ [](TypeOK /\ DequeueSafe)
                 /\ ImplementsTransport
                 /\ OnePlayer
                 /\ WorkShrinks
<1> DEFINE Inv == TypeInv /\ PlayerKnown
<1>1. Inv => TypeOK /\ DequeueSafe
  BY DEF TypeInv
<1>2. ToshibaInit => Inv /\ Promise!Init
  BY InitTypeInv, InitPlayerKnown, InitTransport DEF ToshibaInit
<1>3. Inv /\ [Next]_vars => Inv'
  BY NextTypeInv, NextPlayerKnown
<1>4. Inv /\ [Next]_vars => [Promise!Next]_<<Mode, main.chapter>>
  BY NextAllowed
<1>5. Inv /\ [Next]_vars => [OnePlayerStep]_vars
  BY NextOnePlayer
<1>6. Inv /\ [Next]_vars =>
        [Work' < Work \/ UNCHANGED <<main, queue, pc, op, loaded>> \/ ApiCall]_vars
  BY NextWork
<1>7. [ToshibaNext]_allVars => [Next]_vars
  BY ToshibaIsVideo
<1> HIDE DEF Inv
<1> QED
  BY <1>1, <1>2, <1>3, <1>4, <1>5, <1>6, <1>7, PTL
     DEF ToshibaSpec, ImplementsTransport, Promise!Spec, OnePlayer, OnePlayerStep, WorkShrinks

-----------------------------------------------------------------------------
(* The chapter that is typed.                                              *)

LEMMA DigitIs ==
  ASSUME NEW v \in 0 .. 9
  PROVE  /\ Digits[v + 1] \in DigitSet /\ Value(Digits[v + 1]) = v
         /\ Digits[v + 1] # Comma
<1>1. DOMAIN Digits = 1 .. 10
  BY DEF Digits
<1>2. \A i, j \in 1 .. 10 : Digits[i] = Digits[j] => i = j
  BY DEF Digits
<1>3. \A i \in 1 .. 10 : Digits[i] # Comma
  BY DEF Digits, Comma
<1>4. v + 1 \in 1 .. 10 /\ v + 1 - 1 = v
  OBVIOUS
<1> DEFINE k == v + 1
           place == CHOOSE i \in DOMAIN Digits : Digits[i] = Digits[k]
<1>5. k \in DOMAIN Digits
  BY <1>1, <1>4
<1>6. place \in DOMAIN Digits /\ Digits[place] = Digits[k]
  BY <1>5
<1>7. place = k
  BY <1>1, <1>2, <1>5, <1>6
<1>8. Value(Digits[k]) = k - 1
  BY <1>7 DEF Value
<1> QED
  BY <1>1, <1>3, <1>4, <1>8 DEF DigitSet

\* A text of four characters with one more, and with two.
LEMMA FourAndOne ==
  ASSUME NEW S, NEW a \in S, NEW b \in S, NEW t \in S, NEW m \in S, NEW d \in S
  PROVE  LET line == <<a, b, t, m>> \o <<d>>
         IN /\ Len(line) = 5 /\ line[1] = a /\ line[2] = b /\ line[3] = t /\ line[4] = m
            /\ line[5] = d /\ SubSeq(line, 5, 5) = <<d>>
<1> DEFINE line == <<a, b, t, m>> \o <<d>>
<1>1. /\ line \in Seq(S) /\ Len(line) = 5
      /\ line[1] = a /\ line[2] = b /\ line[3] = t /\ line[4] = m /\ line[5] = d
  <2>1. <<a, b, t, m>> \in Seq(S) /\ <<d>> \in Seq(S)
    OBVIOUS
  <2> QED BY <2>1
<1> HIDE DEF line
<1>2. SubSeq(line, 5, 5) \in Seq(S) /\ Len(SubSeq(line, 5, 5)) = 1 /\ SubSeq(line, 5, 5)[1] = d
  BY <1>1
<1>3. <<d>> \in Seq(S) /\ Len(<<d>>) = 1 /\ <<d>>[1] = d
  OBVIOUS
<1> DEFINE sub == SubSeq(line, 5, 5)
           text == <<d>>
<1> HIDE DEF sub, text
<1>4. sub = text
  <2>1. /\ sub \in Seq(S) /\ Len(sub) = 1 /\ text \in Seq(S) /\ Len(text) = 1
        /\ \A i \in 1 .. 1 : sub[i] = text[i]
    BY <1>2, <1>3 DEF sub, text
  <2> QED
    BY <2>1, SeqEqual
<1> QED
  BY <1>1, <1>4 DEF line, sub, text

LEMMA FourAndTwo ==
  ASSUME NEW S, NEW a \in S, NEW b \in S, NEW t \in S, NEW m \in S, NEW d \in S, NEW e \in S
  PROVE  LET line == <<a, b, t, m>> \o <<d, e>>
         IN /\ Len(line) = 6 /\ line[1] = a /\ line[2] = b /\ line[3] = t /\ line[4] = m
            /\ line[5] = d /\ line[6] = e /\ SubSeq(line, 5, 6) = <<d, e>>
<1> DEFINE line == <<a, b, t, m>> \o <<d, e>>
<1>1. /\ line \in Seq(S) /\ Len(line) = 6
      /\ line[1] = a /\ line[2] = b /\ line[3] = t /\ line[4] = m
      /\ line[5] = d /\ line[6] = e
  <2>1. <<a, b, t, m>> \in Seq(S) /\ <<d, e>> \in Seq(S)
    OBVIOUS
  <2> QED BY <2>1
<1> HIDE DEF line
<1>2. /\ SubSeq(line, 5, 6) \in Seq(S) /\ Len(SubSeq(line, 5, 6)) = 2
      /\ SubSeq(line, 5, 6)[1] = d /\ SubSeq(line, 5, 6)[2] = e
  BY <1>1
<1>3. <<d, e>> \in Seq(S) /\ Len(<<d, e>>) = 2 /\ <<d, e>>[1] = d /\ <<d, e>>[2] = e
  OBVIOUS
<1> DEFINE sub == SubSeq(line, 5, 6)
           text == <<d, e>>
<1> HIDE DEF sub, text
<1>4. sub = text
  <2>1. /\ sub \in Seq(S) /\ Len(sub) = 2 /\ text \in Seq(S) /\ Len(text) = 2
        /\ \A i \in 1 .. 2 : sub[i] = text[i]
    BY <1>2, <1>3 DEF sub, text
  <2> QED
    BY <2>1, SeqEqual
<1> QED
  BY <1>1, <1>4 DEF line, sub, text

\* The loop over one digit and over two.
LEMMA NumberOfOne ==
  ASSUME NEW d, Value(d) \in Nat
  PROVE  NumberOf(<<d>>) = Value(d)
<1> DEFINE Loop(u) == u = [k \in 0 .. 1 |-> IF k = 0 THEN 0 ELSE 10 * u[k - 1] + Value(<<d>>[k])]
           w == [k \in 0 .. 1 |-> IF k = 0 THEN 0 ELSE Value(d)]
           upTo == CHOOSE u : Loop(u)
<1>1. Loop(w)
  OBVIOUS
<1>2. Loop(upTo)
  <2> HIDE DEF Loop
  <2> QED BY <1>1
<1>3. NumberOf(<<d>>) = upTo[1]
  BY DEF NumberOf
<1> HIDE DEF upTo
<1>4. upTo[0] = 0 /\ upTo[1] = 10 * upTo[0] + Value(d)
  BY <1>2
<1> QED
  BY <1>3, <1>4

LEMMA NumberOfTwo ==
  ASSUME NEW d, NEW e, Value(d) \in Nat, Value(e) \in Nat
  PROVE  NumberOf(<<d, e>>) = 10 * Value(d) + Value(e)
<1> DEFINE Loop(u) ==
             u = [k \in 0 .. 2 |-> IF k = 0 THEN 0 ELSE 10 * u[k - 1] + Value(<<d, e>>[k])]
           w == [k \in 0 .. 2 |-> IF k = 0 THEN 0
                                  ELSE IF k = 1 THEN Value(d) ELSE 10 * Value(d) + Value(e)]
           upTo == CHOOSE u : Loop(u)
<1>1. Loop(w)
  OBVIOUS
<1>2. Loop(upTo)
  <2> HIDE DEF Loop
  <2> QED BY <1>1
<1>3. NumberOf(<<d, e>>) = upTo[2]
  BY DEF NumberOf
<1> HIDE DEF upTo
<1>4. upTo[0] = 0 /\ upTo[1] = 10 * upTo[0] + Value(d) /\ upTo[2] = 10 * upTo[1] + Value(e)
  BY <1>2
<1> QED
  BY <1>3, <1>4

\* The one field of a line that asks for a chapter.
LEMMA OneField ==
  ASSUME NEW line, NEW n \in {5, 6}, Len(line) = n,
         line[3] \in DigitSet, line[4] = Comma,
         \A i \in 5 .. n : line[i] \in DigitSet /\ line[i] # Comma
  PROVE  ChapterOf(line) = NumberOf(SubSeq(line, 5, n))
<1>1. ASSUME NEW a \in 4 .. n, NEW b \in 4 .. n
      PROVE  <<a, b>> \in Fields(line) <=> a = 4 /\ b = n
  <2>1. <<a, b>> \in Fields(line) <=>
          /\ line[a] = Comma /\ \A i \in 3 .. a - 1 : line[i] \in DigitSet
          /\ a <= b /\ \A i \in a + 1 .. b : line[i] \in DigitSet
          /\ b < n => line[b + 1] \notin DigitSet
    BY DEF Fields
  <2>2. line[a] = Comma => a = 4
    BY DEF Fields
  <2>3. b < n => line[b + 1] \in DigitSet
    OBVIOUS
  <2>4. \A i \in 3 .. 4 - 1 : line[i] \in DigitSet
    OBVIOUS
  <2>5. \A i \in 4 + 1 .. n : line[i] \in DigitSet
    OBVIOUS
  <2>6. ASSUME <<a, b>> \in Fields(line) PROVE a = 4 /\ b = n
    BY <2>1, <2>2, <2>3, <2>6
  <2>7. ASSUME a = 4, b = n PROVE <<a, b>> \in Fields(line)
    BY <2>1, <2>4, <2>5, <2>7
  <2> QED
    BY <2>6, <2>7
<1>2. Fields(line) \subseteq (4 .. n) \X (4 .. n)
  BY DEF Fields
<1>3. Fields(line) = {<<4, n>>}
  BY <1>1, <1>2
<1>4. (CHOOSE f \in Fields(line) : TRUE) = <<4, n>>
  BY <1>3
<1> QED
  BY <1>3, <1>4 DEF ChapterOf

LEMMA ChapterLineIs ==
  ASSUME NEW title \in DigitSet, NEW c \in 1 .. 99
  PROVE  LET line == ChapterLine(title, c)
         IN /\ Len(line) \in {5, 6} /\ line[1] = "C" /\ line[2] = "S"
            /\ ChapterOf(line) = c
<1> DEFINE line == ChapterLine(title, c)
<1>1. CASE c < 10
  <2> DEFINE d == Digits[c + 1]
  <2>1. c \in 0 .. 9
    BY <1>1
  <2>2. d \in DigitSet /\ Value(d) = c /\ d # Comma
    BY <2>1, DigitIs
  <2>3. line = <<"C", "S", title, Comma>> \o <<d>>
    BY <1>1 DEF ChapterLine
  <2> HIDE DEF d
  <2> DEFINE S == DigitSet \cup {"C", "S", Comma}
  <2>4. /\ Len(line) = 5 /\ line[1] = "C" /\ line[2] = "S" /\ line[3] = title
        /\ line[4] = Comma /\ line[5] = d /\ SubSeq(line, 5, 5) = <<d>>
    <3>1. "C" \in S /\ "S" \in S /\ title \in S /\ Comma \in S /\ d \in S
      BY <2>2
    <3> HIDE DEF S, line
    <3> QED
      BY <2>3, <3>1, FourAndOne
  <2> HIDE DEF line
  <2>5. ChapterOf(line) = NumberOf(SubSeq(line, 5, 5))
    <3>1. Len(line) = 5 /\ line[3] \in DigitSet /\ line[4] = Comma
      BY <2>4
    <3>2. \A i \in 5 .. 5 : line[i] \in DigitSet /\ line[i] # Comma
      BY <2>2, <2>4
    <3> QED
      BY <3>1, <3>2, OneField
  <2>6. SubSeq(line, 5, 5) = <<d>>
    BY <2>4
  <2>7. NumberOf(<<d>>) = c
    BY <2>2, NumberOfOne
  <2>8. Len(line) \in {5, 6} /\ line[1] = "C" /\ line[2] = "S"
    BY <2>4
  <2> QED
    BY <2>5, <2>6, <2>7, <2>8 DEF line
<1>2. CASE c >= 10
  <2> DEFINE p == c \div 10
             q == c % 10
             d == Digits[p + 1]
             e == Digits[q + 1]
  <2>1. p \in 0 .. 9 /\ q \in 0 .. 9 /\ 10 * p + q = c
    OBVIOUS
  <2>2. line = <<"C", "S", title, Comma>> \o <<d, e>>
    BY <1>2 DEF ChapterLine
  <2> HIDE DEF p, q
  <2>3. /\ d \in DigitSet /\ Value(d) = p /\ d # Comma
        /\ e \in DigitSet /\ Value(e) = q /\ e # Comma
    BY <2>1, DigitIs
  <2> HIDE DEF d, e
  <2> DEFINE S == DigitSet \cup {"C", "S", Comma}
  <2>4. /\ Len(line) = 6 /\ line[1] = "C" /\ line[2] = "S" /\ line[3] = title
        /\ line[4] = Comma /\ line[5] = d /\ line[6] = e /\ SubSeq(line, 5, 6) = <<d, e>>
    <3>1. "C" \in S /\ "S" \in S /\ title \in S /\ Comma \in S /\ d \in S /\ e \in S
      BY <2>3
    <3> HIDE DEF S, line
    <3> QED
      BY <2>2, <3>1, FourAndTwo
  <2> HIDE DEF line
  <2>5. ChapterOf(line) = NumberOf(SubSeq(line, 5, 6))
    <3>1. Len(line) = 6 /\ line[3] \in DigitSet /\ line[4] = Comma
      BY <2>4
    <3>2. \A i \in 5 .. 6 : line[i] \in DigitSet /\ line[i] # Comma
      BY <2>3, <2>4
    <3> QED
      BY <3>1, <3>2, OneField
  <2>6. SubSeq(line, 5, 6) = <<d, e>>
    BY <2>4
  <2>7. NumberOf(<<d, e>>) = c
    BY <2>1, <2>3, NumberOfTwo
  <2>8. Len(line) \in {5, 6} /\ line[1] = "C" /\ line[2] = "S"
    BY <2>4
  <2> QED
    BY <2>5, <2>6, <2>7, <2>8 DEF line
<1> QED
  BY <1>1, <1>2

LEMMA ChapterLineObeyed ==
  ASSUME NEW line, Len(line) \in {5, 6}, line[1] = "C", line[2] = "S"
  PROVE  Obey(line) = SeekToChapter(main, ChapterOf(line))
<1>1. Meaning(line) = <<"C", "S">>
  BY DEF Meaning
<1>2. <<"C", "S">> \notin {<<"R", "E">>, <<"C", "L">>} /\ <<"C", "S">> # <<"P", "L">>
      /\ <<"C", "S">> # <<"P", "U">>
  OBVIOUS
<1> QED
  BY <1>1, <1>2, Zenon DEF Obey

\* A chapter of the disc that is typed is the one that plays, if the line buffer
\* has room for "CS", a title of one digit and a chapter of two.
THEOREM TypedChapterPlays ==
  ASSUME PacketLen >= 6
  PROVE  ToshibaSpec => SeekTyped
<1> DEFINE Step == ReceiveCR =>
                     \A title \in DigitSet, c \in 1 .. 99 :
                       typed = ChapterLine(title, c) /\ CanSeek(main, c) =>
                         main'.chapter = c /\ main'.playing_state
<1>1. ASSUME MemoryInv, TypeInv PROVE Step
  <2> SUFFICES ASSUME ReceiveCR, NEW title \in DigitSet, NEW c \in 1 .. 99,
                      typed = ChapterLine(title, c), CanSeek(main, c)
               PROVE  main'.chapter = c /\ main'.playing_state
    OBVIOUS
  <2>1. Len(typed) \in {5, 6} /\ typed[1] = "C" /\ typed[2] = "S" /\ ChapterOf(typed) = c
    BY ChapterLineIs
  <2>2. Kept(typed) = typed
    <3>1. ~ (Len(typed) > PacketLen)
      <4> DEFINE n == Len(typed)
      <4>1. n \in {5, 6}
        BY <2>1
      <4> HIDE DEF n
      <4>2. ~ (n > PacketLen)
        BY <4>1, Sizes
      <4> QED
        BY <4>2 DEF n
    <3>2. Kept(typed) = SubSeq(typed, 1, Len(typed))
      BY <3>1 DEF Kept
    <3>3. typed \in Seq(Byte)
      BY <1>1 DEF MemoryInv
    <3> QED
      BY <3>2, <3>3
  <2>3. main' = Obey(typed)
    BY <1>1, <2>2, CRObeys
  <2>4. main' = SeekToChapter(main, c)
    BY <2>1, <2>3, ChapterLineObeyed
  <2>5. main \in MainStates /\ Flags(main)
    BY <1>1 DEF TypeInv, TypeOK
  <2>6. c \in Nat
    OBVIOUS
  <2> HIDE DEF Step
  <2>7. SeekToChapter(main, c).chapter = c /\ SeekToChapter(main, c).playing_state = TRUE
    BY <2>5, <2>6, SeekFacts
  <2> QED
    BY <2>4, <2>7
<1>2. ToshibaInit => TypeInv
  BY InitTypeInv DEF ToshibaInit
<1>3. TypeInv /\ [ToshibaNext]_allVars => TypeInv'
  BY ToshibaIsVideo, NextTypeInv
<1>4. MemoryInv /\ TypeInv => [Step]_allVars
  BY <1>1
<1> QED
  BY <1>2, <1>3, <1>4, InitMemoryInv, NextMemoryInv, PTL DEF ToshibaSpec, SeekTyped

=============================================================================
