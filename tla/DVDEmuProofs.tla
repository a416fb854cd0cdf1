---------------------------- MODULE DVDEmuProofs ----------------------------
(***************************************************************************)
(* Theorems about the start-up of module DVDEmu, for any set of discs.     *)
(***************************************************************************)
EXTENDS DVDEmu, FiniteSetTheorems, SequenceTheorems, TLAPS

\* The stages after the port was emptied.
Emptied == {"video", "protocol", "running"}

Known == Victor \cup {"SD-B100-DVD"}

Types ==
  /\ stage \in Stages
  /\ disc \in Discs \cup {NoDisc} /\ there \in BOOLEAN
  /\ dvd_type \in {d.says : d \in Discs \cup {NoDisc}}
  /\ parity \in {"closed", "none", "even"}
  /\ max_chapter \in 0 .. Unsigned - 1
  /\ protocol \in {"none", "Victor VCD", "Victor DVD", "Toshiba"}

\* What was found out stays true of the disc that was mounted.
Chosen ==
  /\ stage \in {"open", "purge"} \cup Emptied => dvd_type = disc.says /\ dvd_type \in Known
  /\ stage \in {"purge"} \cup Emptied =>
       parity = IF dvd_type \in Victor THEN "even" ELSE "none"
  /\ stage = "running" => protocol = ProtocolOf(dvd_type)

\* The count is that of the disc while it is there.
Counted ==
  stage \in {"protocol", "running"} /\ there =>
    max_chapter = (Cardinality(disc.listed) - 1) % Unsigned

\* What is in the buffer came after it was emptied.
Fresh ==
  /\ "purge" \notin obeyed
  /\ input \in Seq(Stages) /\ obeyed \subseteq Stages
  /\ stage \in Emptied => input \in Seq(Emptied)

StartInv == Types /\ Chosen /\ Counted /\ Fresh

LEMMA CountType == \A n \in Int : n % Unsigned \in 0 .. Unsigned - 1
<1>1. Unsigned \in Nat /\ Unsigned > 0
  BY DVDEmuAssumption
<1> QED
  BY <1>1

LEMMA FolderType ==
  ASSUME Types
  PROVE  Cardinality(Folder.listed) \in Nat
<1>1. IsFiniteSet(Folder.listed)
  <2>1. CASE there /\ disc \in Discs
    <3>1. IsFiniteSet(disc.files) /\ disc.listed \subseteq disc.files
      BY <2>1, DVDEmuAssumption
    <3> QED
      BY <2>1, <3>1, FS_Subset DEF Folder
  <2>2. CASE ~there \/ disc = NoDisc
    BY <2>2, FS_EmptySet DEF Folder, NoDisc
  <2> QED
    BY <2>1, <2>2 DEF Types
<1> QED
  BY <1>1, FS_CardinalityType

LEMMA StartInvInit ==
  ASSUME StartInit
  PROVE  StartInv
<1>1. 0 \in 0 .. Unsigned - 1
  BY DVDEmuAssumption
<1>2. stage = "script" /\ input = <<>> /\ obeyed = {}
  BY DEF StartInit
<1>3. Fresh
  BY <1>2, EmptySeq DEF Fresh, Emptied
<1>4. Chosen /\ Counted
  BY <1>2 DEF Chosen, Counted, Emptied
<1>5. Types
  <2>1. NoDisc.says = "none"
    BY DEF NoDisc
  <2>2. dvd_type \in {d.says : d \in Discs \cup {NoDisc}}
    BY <2>1 DEF StartInit
  <2>3. stage \in Stages
    BY <1>2 DEF Stages
  <2>4. /\ disc \in Discs \cup {NoDisc} /\ there \in BOOLEAN /\ parity = "closed"
        /\ protocol = "none" /\ max_chapter = 0
    BY DEF StartInit
  <2> QED
    BY <1>1, <2>2, <2>3, <2>4 DEF Types
<1> QED
  BY <1>3, <1>4, <1>5 DEF StartInv

\* The buffer and what was obeyed, by a step that does not touch them.
LEMMA FreshRests ==
  ASSUME Fresh, UNCHANGED <<input, obeyed>>,
         stage' \in Emptied => stage \in Emptied
  PROVE  Fresh'
<1> QED
  BY DEF Fresh

LEMMA MountKeeps ==
  ASSUME StartInv, Mount
  PROVE  StartInv'
<1>1. stage' = "type" /\ stage' \notin Emptied
  BY DEF Mount, Emptied
<1>2. Fresh'
  BY <1>1, FreshRests DEF StartInv, Mount
<1>3. Types'
  BY <1>1 DEF StartInv, Types, Stages, Mount
<1>4. Chosen' /\ Counted'
  BY <1>1 DEF Chosen, Counted, Emptied
<1> QED
  BY <1>2, <1>3, <1>4 DEF StartInv

LEMMA GetDvdTypeKeeps ==
  ASSUME StartInv, GetDvdType
  PROVE  StartInv'
<1>1. /\ stage' = IF dvd_type' \in Known THEN "open" ELSE "ended"
      /\ dvd_type' = Folder.says
      /\ UNCHANGED <<disc, there, parity, input, max_chapter, obeyed>>
  BY DEF GetDvdType, Known
<1>2. stage' \in {"open", "ended"} /\ stage' \notin Emptied
  BY <1>1 DEF Emptied
<1>3. Fresh'
  BY <1>1, <1>2, FreshRests DEF StartInv
<1>4. Types'
  <2>1. dvd_type' \in {d.says : d \in Discs \cup {NoDisc}}
    BY <1>1 DEF StartInv, Types, Folder
  <2>2. UNCHANGED protocol
    BY DEF GetDvdType
  <2> QED
    BY <1>1, <1>2, <2>1, <2>2 DEF StartInv, Types, Stages
<1>5. stage' = "open" => dvd_type' = disc'.says /\ dvd_type' \in Known
  <2>1. "none" \notin Known /\ NoDisc.says = "none"
    BY DEF Known, Victor, NoDisc
  <2> QED
    BY <1>1, <2>1 DEF Folder
<1>6. Chosen' /\ Counted'
  BY <1>2, <1>5 DEF Chosen, Counted, Emptied
<1> QED
  BY <1>3, <1>4, <1>6 DEF StartInv

LEMMA OpenSerialKeeps ==
  ASSUME StartInv, OpenSerial
  PROVE  StartInv'
<1>1. /\ stage = "open" /\ stage' \in {"purge", "ended"}
      /\ UNCHANGED <<disc, there, dvd_type, input, max_chapter, protocol, obeyed>>
  BY DEF OpenSerial
<1>2. stage' \notin Emptied
  BY <1>1 DEF Emptied
<1>3. Fresh'
  BY <1>1, <1>2, FreshRests DEF StartInv
<1>4. parity' \in {"closed", "none", "even"}
  BY DEF OpenSerial, StartInv, Types
<1>5. Types'
  BY <1>1, <1>4 DEF StartInv, Types, Stages
<1>6. stage' = "purge" => parity' = IF dvd_type' \in Victor THEN "even" ELSE "none"
  BY <1>1 DEF OpenSerial
<1>7. Chosen' /\ Counted'
  BY <1>1, <1>6 DEF StartInv, Chosen, Counted, Emptied
<1> QED
  BY <1>3, <1>5, <1>7 DEF StartInv

LEMMA PurgeCommKeeps ==
  ASSUME StartInv, PurgeComm
  PROVE  StartInv'
<1>1. /\ stage = "purge" /\ stage' = "video" /\ input' = <<>>
      /\ UNCHANGED <<disc, there, dvd_type, parity, max_chapter, protocol, obeyed>>
  BY DEF PurgeComm
<1>2. Fresh'
  BY <1>1, EmptySeq DEF StartInv, Fresh
<1>3. Types'
  BY <1>1 DEF StartInv, Types, Stages
<1>4. Chosen' /\ Counted'
  BY <1>1 DEF StartInv, Chosen, Counted, Emptied
<1> QED
  BY <1>2, <1>3, <1>4 DEF StartInv

LEMMA VideoInitKeeps ==
  ASSUME StartInv, VideoInit
  PROVE  StartInv'
<1>1. /\ stage = "video" /\ stage' \in {"protocol", "ended"}
      /\ UNCHANGED <<disc, there, dvd_type, parity, input, protocol, obeyed>>
      /\ stage' = "protocol" => max_chapter' = (Cardinality(Folder.listed) - 1) % Unsigned
      /\ stage' = "ended" => max_chapter' = max_chapter
  BY DEF VideoInit, ChapterCount
<1>2. Fresh'
  BY <1>1, FreshRests DEF StartInv, Emptied
<1>3. max_chapter' \in 0 .. Unsigned - 1
  <2>1. Cardinality(Folder.listed) - 1 \in Int
    BY FolderType DEF StartInv
  <2>2. max_chapter \in 0 .. Unsigned - 1
    BY DEF StartInv, Types
  <2> QED
    BY <1>1, <2>1, <2>2, CountType
<1>4. Types'
  BY <1>1, <1>3 DEF StartInv, Types, Stages
<1>5. Chosen'
  BY <1>1 DEF StartInv, Chosen, Emptied
<1>6. Counted'
  BY <1>1 DEF Counted, Folder
<1> QED
  BY <1>2, <1>4, <1>5, <1>6 DEF StartInv

LEMMA ProtocolInitKeeps ==
  ASSUME StartInv, ProtocolInit
  PROVE  StartInv'
<1>1. /\ stage = "protocol" /\ stage' = "running" /\ protocol' = ProtocolOf(dvd_type)
      /\ UNCHANGED <<disc, there, dvd_type, parity, input, max_chapter, obeyed>>
  BY DEF ProtocolInit
<1>2. Fresh'
  BY <1>1, FreshRests DEF StartInv, Emptied
<1>3. Types'
  BY <1>1 DEF StartInv, Types, Stages, ProtocolOf
<1>4. ProtocolOf(dvd_type)' = ProtocolOf(dvd_type)
  BY <1>1 DEF ProtocolOf
<1>5. Chosen' /\ Counted'
  BY <1>1, <1>4 DEF StartInv, Chosen, Counted, Emptied
<1> QED
  BY <1>2, <1>3, <1>5 DEF StartInv

LEMMA ReceiveByteKeeps ==
  ASSUME StartInv, ReceiveByte
  PROVE  StartInv'
<1>1. /\ stage = "running" /\ stage' = stage /\ input # <<>> /\ input' = Tail(input)
      /\ obeyed' = obeyed \cup {Head(input)}
      /\ UNCHANGED <<disc, there, dvd_type, parity, max_chapter, protocol>>
  BY DEF ReceiveByte, ReadSerial
<1>2. input \in Seq(Emptied) /\ input \in Seq(Stages)
  BY <1>1 DEF StartInv, Fresh, Emptied
<1>3. Head(input) \in Emptied /\ Tail(input) \in Seq(Emptied) /\ Tail(input) \in Seq(Stages)
  BY <1>1, <1>2, HeadTailProperties
<1>4. "purge" \notin Emptied
  BY DEF Emptied
<1>5. Fresh'
  BY <1>1, <1>3, <1>4 DEF StartInv, Fresh
<1>6. Types' /\ Counted'
  BY <1>1 DEF StartInv, Types, Counted
<1>7. Chosen'
  BY <1>1 DEF StartInv, Chosen, ProtocolOf
<1> QED
  BY <1>5, <1>6, <1>7 DEF StartInv

LEMMA HostSendsKeeps ==
  ASSUME StartInv, HostSends
  PROVE  StartInv'
<1>1. /\ input' = Append(input, stage)
      /\ UNCHANGED <<stage, disc, there, dvd_type, parity, max_chapter, protocol, obeyed>>
  BY DEF HostSends
<1>2. stage \in Stages
  BY DEF StartInv, Types
<1>3. Fresh'
  <2>1. input' \in Seq(Stages)
    BY <1>1, <1>2, AppendProperties DEF StartInv, Fresh
  <2>2. stage \in Emptied => input' \in Seq(Emptied)
    BY <1>1, AppendProperties DEF StartInv, Fresh
  <2> QED
    BY <1>1, <2>1, <2>2 DEF StartInv, Fresh
<1>4. Types' /\ Counted'
  BY <1>1 DEF StartInv, Types, Counted
<1>5. Chosen'
  BY <1>1 DEF StartInv, Chosen, ProtocolOf
<1> QED
  BY <1>3, <1>4, <1>5 DEF StartInv

LEMMA PullOutKeeps ==
  ASSUME StartInv, PullOut
  PROVE  StartInv'
<1>1. /\ there' = FALSE
      /\ UNCHANGED <<stage, disc, dvd_type, parity, input, max_chapter, protocol, obeyed>>
  BY DEF PullOut
<1>2. Fresh'
  BY <1>1, FreshRests DEF StartInv
<1>3. Types' /\ Counted'
  BY <1>1 DEF StartInv, Types, Counted
<1>4. Chosen'
  BY <1>1 DEF StartInv, Chosen, ProtocolOf
<1> QED
  BY <1>2, <1>3, <1>4 DEF StartInv

LEMMA StartInvStep ==
  ASSUME StartInv, [StartNext]_startVars
  PROVE  StartInv'
<1>1. CASE UNCHANGED startVars
  BY <1>1 DEF startVars, StartInv, Types, Chosen, Counted, Fresh, ProtocolOf
<1> QED
  BY <1>1, MountKeeps, GetDvdTypeKeeps, OpenSerialKeeps, PurgeCommKeeps,
     VideoInitKeeps, ProtocolInitKeeps, ReceiveByteKeeps, HostSendsKeeps,
     PullOutKeeps DEF StartNext

-----------------------------------------------------------------------------
(* What follows.                                                           *)

\* The disc of a program that is running was there, with its type file.
LEMMA RunningDisc ==
  ASSUME StartInv, stage = "running"
  PROVE  disc \in Discs /\ disc.says \in Known /\ 0 \in disc.files
<1>1. disc.says \in Known
  BY DEF StartInv, Chosen, Emptied
<1>2. "none" \notin Known /\ NoDisc.says = "none"
  BY DEF Known, Victor, NoDisc
<1>3. disc \in Discs
  BY <1>1, <1>2 DEF StartInv, Types
<1> QED
  BY <1>1, <1>2, <1>3, DVDEmuAssumption

\* The type file is the one file that is not a chapter.
LEMMA CountOfChapters ==
  ASSUME disc \in Discs, 0 \in disc.files, Numbered
  PROVE  LET n == Cardinality(Chapters)
         IN  /\ n \in Nat /\ n < Unsigned
             /\ Cardinality({0} \cup Chapters) = n + 1
             /\ Cardinality(disc.files) \in Nat
             /\ n + 1 <= Cardinality(disc.files)
<1> DEFINE n == Cardinality(Chapters)
<1>1. IsFiniteSet(disc.files)
  BY DVDEmuAssumption
<1>2. Chapters \subseteq disc.files
  BY DEF Chapters
<1>3. IsFiniteSet(Chapters) /\ n \in Nat
  BY <1>1, <1>2, FS_Subset, FS_CardinalityType
<1>4. 0 \notin Chapters
  BY DEF Chapters
<1>5. Cardinality(Chapters \cup {0}) = n + 1
  BY <1>3, <1>4, FS_AddElement
<1>6. Chapters \cup {0} = {0} \cup Chapters
  OBVIOUS
<1>7. ({0} \cup Chapters) \subseteq disc.files
  BY <1>2
<1>8. Cardinality({0} \cup Chapters) <= Cardinality(disc.files)
  BY <1>1, <1>7, FS_Subset
<1>9. Cardinality(disc.files) \in Nat
  BY <1>1, FS_CardinalityType
<1> QED
  BY <1>3, <1>5, <1>6, <1>8, <1>9 DEF Numbered

LEMMA BoundsHold ==
  ASSUME StartInv
  PROVE  ChaptersInBounds
<1> DEFINE n == Cardinality(Chapters)
           all == Cardinality(disc.files)
<1> SUFFICES ASSUME stage = "running", there, Numbered, disc.listed = disc.files
             PROVE  /\ all <= Unsigned => Chapters \subseteq 1 .. max_chapter
                    /\ disc.files = {0} \cup Chapters => 1 .. max_chapter = Chapters
  BY DEF ChaptersInBounds
<1>1. disc \in Discs /\ 0 \in disc.files
  BY RunningDisc
<1>2. /\ n \in Nat /\ n < Unsigned /\ all \in Nat /\ n + 1 <= all
      /\ Cardinality({0} \cup Chapters) = n + 1
  BY <1>1, CountOfChapters
<1>3. max_chapter = (all - 1) % Unsigned
  BY DEF StartInv, Counted
<1>4. Unsigned \in Nat /\ Unsigned > 0
  BY DVDEmuAssumption
<1>5. Chapters = 1 .. n
  BY DEF Numbered
<1>6. disc.files = {0} \cup Chapters => all = n + 1
  BY <1>2
<1> HIDE DEF n, all
<1>7. \A k \in Nat : k < Unsigned => k % Unsigned = k
  BY <1>4
<1>8. all - 1 \in Nat /\ (all <= Unsigned => all - 1 < Unsigned)
  BY <1>2, <1>4
<1>9. all <= Unsigned => max_chapter = all - 1
  BY <1>3, <1>7, <1>8
<1>10. all <= Unsigned => 1 .. n \subseteq 1 .. max_chapter
  BY <1>2, <1>9
<1>11. all = n + 1 => max_chapter = n
  BY <1>2, <1>4, <1>9
<1> QED
  BY <1>5, <1>6, <1>10, <1>11

LEMMA AsDiscSaysHolds ==
  ASSUME StartInv
  PROVE  AsDiscSays
<1> SUFFICES ASSUME stage = "running"
             PROVE  /\ disc.says = "XV-D701-VCD" => protocol = "Victor VCD" /\ parity = "even"
                    /\ disc.says = "XV-D701-DVD" => protocol = "Victor DVD" /\ parity = "even"
                    /\ disc.says = "SD-B100-DVD" => protocol = "Toshiba" /\ parity = "none"
                    /\ disc.says \in Known
  BY DEF AsDiscSays, Known
<1>1. /\ dvd_type = disc.says /\ dvd_type \in Known
      /\ parity = IF dvd_type \in Victor THEN "even" ELSE "none"
      /\ protocol = ProtocolOf(dvd_type)
  BY DEF StartInv, Chosen, Emptied
<1> QED
  BY <1>1 DEF Victor, ProtocolOf

LEMMA StartInvGivesType ==
  ASSUME StartInv
  PROVE  StartTypeOK
<1> QED
  BY DEF StartInv, Types, Fresh, StartTypeOK

LEMMA StartInvariant == StartSpec => []StartInv
<1>1. StartInit => StartInv
  BY StartInvInit
<1>2. StartInv /\ [StartNext]_startVars => StartInv'
  BY StartInvStep
<1> QED
  BY <1>1, <1>2, PTL DEF StartSpec

\* The types of the start-up, for any set of discs.
THEOREM StartTypeCorrect == StartSpec => []StartTypeOK
<1>1. StartInv => StartTypeOK
  BY StartInvGivesType
<1> QED
  BY <1>1, StartInvariant, PTL

\* On every disc with numbered chapters, all of them and nothing else are in bounds,
\* if all files are counted (getDirectoryCount of DVDEmu.cpp).
THEOREM CountIsRight == StartSpec => []ChaptersInBounds
<1>1. StartInv => ChaptersInBounds
  BY BoundsHold
<1> QED
  BY <1>1, StartInvariant, PTL

\* What runs is the player the disc asked for (the three chains of conditions on
\* dvd_type in main of DVDEmu.cpp agree).
THEOREM RightPlayer == StartSpec => []AsDiscSays
<1>1. StartInv => AsDiscSays
  BY AsDiscSaysHolds
<1> QED
  BY <1>1, StartInvariant, PTL

\* No byte from before the start is obeyed (PurgeComm in main of DVDEmu.cpp).
THEOREM StartsFresh == StartSpec => []FreshStart
<1>1. StartInv => FreshStart
  BY DEF StartInv, Fresh, FreshStart
<1> QED
  BY <1>1, StartInvariant, PTL
=============================================================================
