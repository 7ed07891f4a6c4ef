----------------------- MODULE SegmenterFiles_proofs -----------------------
(***************************************************************************)
(* Proofs, for every value of the constants, of what the published index   *)
(* lists, of the segment and key files that it refers to, and that the     *)
(* index implements the abstract list of segments of SegmentWindow.        *)
(***************************************************************************)
EXTENDS SegmenterMain_proofs, FiniteSetTheorems

(***************************************************************************)
(* Counting the segments of a text.                                        *)
(***************************************************************************)

LEMMA SegmentsFinite ==
  ASSUME NEW l, NEW n \in Nat
  PROVE  IsFiniteSet(SegmentsUpTo(l, n)) /\ Cardinality(SegmentsUpTo(l, n)) \in Nat
<1>1. IsFiniteSet(1..n)
  BY FS_Interval
<1>2. SegmentsUpTo(l, n) \in SUBSET (1..n)
  BY DEF SegmentsUpTo
<1> QED  BY <1>1, <1>2, FS_Subset, FS_CardinalityType

LEMMA NoLines ==
  ASSUME NEW l
  PROVE  SegmentsUpTo(l, 0) = {} /\ Cardinality(SegmentsUpTo(l, 0)) = 0
<1>1. SegmentsUpTo(l, 0) = {}
  BY DEF SegmentsUpTo
<1> QED  BY <1>1, FS_EmptySet

(* One line more is one segment more, or none.                             *)
LEMMA OneMoreLine ==
  ASSUME NEW l, NEW n \in Nat
  PROVE  Cardinality(SegmentsUpTo(l, n + 1)) =
           IF l[n + 1].tag = "EXTINF" THEN Cardinality(SegmentsUpTo(l, n)) + 1
                                      ELSE Cardinality(SegmentsUpTo(l, n))
<1>1. n + 1 \notin SegmentsUpTo(l, n)
  BY DEF SegmentsUpTo
<1>2. CASE l[n + 1].tag = "EXTINF"
  <2>1. SegmentsUpTo(l, n + 1) = SegmentsUpTo(l, n) \cup {n + 1}
    BY <1>2 DEF SegmentsUpTo
  <2> QED  BY <1>1, <1>2, <2>1, SegmentsFinite, FS_AddElement
<1>3. CASE l[n + 1].tag # "EXTINF"
  <2>1. SegmentsUpTo(l, n + 1) = SegmentsUpTo(l, n)
    BY <1>3 DEF SegmentsUpTo
  <2> QED  BY <1>3, <2>1
<1> QED  BY <1>2, <1>3

(* Only the lines above a position say which number it has.                *)
LEMMA SameNumber ==
  ASSUME NEW a, NEW b, NEW n \in Nat, a[1] = b[1], \A j \in 1..n : a[j] = b[j]
  PROVE  NumberOf(a, n + 1) = NumberOf(b, n + 1)
<1>1. SegmentsUpTo(a, n) = SegmentsUpTo(b, n)
  BY DEF SegmentsUpTo
<1>2. n + 1 - 1 = n
  OBVIOUS
<1> QED  BY <1>1, <1>2 DEF NumberOf

(* Every listed segment has a number between that of the header and that   *)
(* of the segment to come, and later ones have larger numbers.             *)
LEMMA NumbersIncrease ==
  ASSUME NEW l, NEW n \in Nat, NEW i \in SegmentsUpTo(l, n), l[1].first \in Int
  PROVE  /\ NumberOf(l, i) \in l[1].first .. NumberOf(l, n + 1) - 1
         /\ \A j \in i+1 .. n : NumberOf(l, i) < NumberOf(l, j)
<1>1. i \in 1..n /\ l[i].tag = "EXTINF"
  BY DEF SegmentsUpTo
<1>2. ASSUME NEW j \in i+1 .. n+1
      PROVE  NumberOf(l, i) \in Int /\ NumberOf(l, j) \in Int /\ NumberOf(l, i) < NumberOf(l, j)
  <2>1. i - 1 \in Nat /\ j - 1 \in Nat /\ i - 1 + 1 = i
    BY <1>1
  <2>2. Cardinality(SegmentsUpTo(l, i)) = Cardinality(SegmentsUpTo(l, i - 1)) + 1
    BY <1>1, <2>1, OneMoreLine
  <2>3. SegmentsUpTo(l, i) \in SUBSET SegmentsUpTo(l, j - 1)
    BY <1>1 DEF SegmentsUpTo
  <2>4. Cardinality(SegmentsUpTo(l, i)) <= Cardinality(SegmentsUpTo(l, j - 1))
    BY <2>1, <2>3, SegmentsFinite, FS_Subset
  <2>5. /\ Cardinality(SegmentsUpTo(l, i - 1)) \in Nat
        /\ Cardinality(SegmentsUpTo(l, j - 1)) \in Nat
    BY <2>1, SegmentsFinite
  <2> QED  BY <2>2, <2>4, <2>5 DEF NumberOf
<1>3. NumberOf(l, i) >= l[1].first
  <2>1. i - 1 \in Nat
    BY <1>1
  <2> QED  BY <2>1, SegmentsFinite DEF NumberOf
<1>4. NumberOf(l, n + 1) \in Int /\ NumberOf(l, i) \in Int /\ NumberOf(l, i) < NumberOf(l, n + 1)
  BY <1>1, <1>2
<1> QED  BY <1>1, <1>2, <1>3, <1>4

(***************************************************************************)
(* Texts with numbered segments.                                           *)
(***************************************************************************)

(* What an additional line at the end changes in a text.                   *)
LEMMA AppendedLine ==
  ASSUME NEW l \in Seq(Line), NEW x \in Line, HasHeader(l)
  PROVE  LET m == Append(l, x) IN
         /\ m \in Seq(Line) /\ Len(m) = Len(l) + 1 /\ Len(l) \in Nat \ {0}
         /\ HasHeader(m) /\ m[1] = l[1]
         /\ \A i \in 1 .. Len(l) : m[i] = l[i]
         /\ m[Len(l) + 1] = x
         /\ \A i \in 1 .. Len(l) + 1 : NumberOf(m, i) = NumberOf(l, i)
         /\ NumberOf(m, Len(m) + 1) =
              IF x.tag = "EXTINF" THEN NumberOf(l, Len(l) + 1) + 1
                                  ELSE NumberOf(l, Len(l) + 1)
         /\ Segments(m) =
              IF x.tag = "EXTINF" THEN Segments(l) \cup {Len(l) + 1} ELSE Segments(l)
<1> DEFINE m == Append(l, x)
<1>1. /\ m \in Seq(Line) /\ Len(m) = Len(l) + 1 /\ Len(l) \in Nat \ {0}
      /\ \A i \in 1 .. Len(l) : m[i] = l[i]
      /\ m[Len(l) + 1] = x
  BY DEF HasHeader
<1>2. HasHeader(m) /\ m[1] = l[1]
  BY <1>1 DEF HasHeader
<1> HIDE DEF m
<1>3. ASSUME NEW i \in 1 .. Len(l) + 1
      PROVE  NumberOf(m, i) = NumberOf(l, i)
  <2>1. i - 1 \in Nat /\ i - 1 + 1 = i /\ \A j \in 1 .. i - 1 : m[j] = l[j]
    BY <1>1
  <2> QED  BY ZenonT(30), <1>2, <2>1, SameNumber
<1>4. NumberOf(m, Len(m) + 1) =
        IF x.tag = "EXTINF" THEN NumberOf(l, Len(l) + 1) + 1 ELSE NumberOf(l, Len(l) + 1)
  <2>1. Cardinality(SegmentsUpTo(m, Len(l) + 1)) =
          IF x.tag = "EXTINF" THEN Cardinality(SegmentsUpTo(m, Len(l))) + 1
                              ELSE Cardinality(SegmentsUpTo(m, Len(l)))
    BY <1>1, OneMoreLine
  <2>2. SegmentsUpTo(m, Len(l)) = SegmentsUpTo(l, Len(l))
    BY <1>1 DEF SegmentsUpTo
  <2>3. Cardinality(SegmentsUpTo(l, Len(l))) \in Nat
    BY <1>1, SegmentsFinite
  <2>4. Len(m) + 1 - 1 = Len(l) + 1 /\ Len(l) + 1 - 1 = Len(l)
    BY <1>1
  <2>5. m[1].first \in Int
    BY <1>1, <1>2 DEF HasHeader, Line
  <2> QED  BY <1>2, <2>1, <2>2, <2>3, <2>4, <2>5 DEF NumberOf
<1>5. Segments(m) = IF x.tag = "EXTINF" THEN Segments(l) \cup {Len(l) + 1} ELSE Segments(l)
  BY <1>1 DEF Segments, SegmentsUpTo
<1> QED  BY <1>1, <1>2, <1>3, <1>4, <1>5 DEF m

LEMMA NumberedOther ==
  ASSUME NEW l \in Seq(Line), NEW x \in Line, x.tag # "EXTINF",
         NEW f \in Int, NEW a \in Int, Numbered(l, f, a)
  PROVE  Numbered(Append(l, x), f, a)
<1> DEFINE m == Append(l, x)
<1>1. HasHeader(l)
  BY DEF Numbered
<1>2. /\ HasHeader(m) /\ m[1] = l[1] /\ Segments(m) = Segments(l)
      /\ \A i \in 1 .. Len(l) : m[i] = l[i] /\ NumberOf(m, i) = NumberOf(l, i)
      /\ NumberOf(m, Len(m) + 1) = NumberOf(l, Len(l) + 1)
  BY <1>1, AppendedLine
<1>3. Segments(l) \subseteq 1 .. Len(l)
  BY DEF Segments, SegmentsUpTo
<1> HIDE DEF m
<1>4. Numbered(m, f, a)
  BY <1>2, <1>3 DEF Numbered
<1> QED  BY <1>4 DEF m

LEMMA NumberedSegment ==
  ASSUME NEW l \in Seq(Line), NEW seg \in Segment, NEW f \in Int, NEW a \in Int,
         Numbered(l, f, a), IsSegment(seg, a)
  PROVE  Numbered(Append(l, ExtinfLine(seg)), f, a + 1)
<1> DEFINE m == Append(l, ExtinfLine(seg))
<1>1. HasHeader(l)
  BY DEF Numbered
<1>2. ExtinfLine(seg) \in Line /\ ExtinfLine(seg).tag = "EXTINF" /\ ExtinfLine(seg).seg = seg
  BY LineTypes DEF ExtinfLine
<1>3. /\ HasHeader(m) /\ m[1] = l[1] /\ Segments(m) = Segments(l) \cup {Len(l) + 1}
      /\ \A i \in 1 .. Len(l) : m[i] = l[i]
      /\ m[Len(l) + 1] = ExtinfLine(seg) /\ Len(l) \in Nat
      /\ \A i \in 1 .. Len(l) + 1 : NumberOf(m, i) = NumberOf(l, i)
      /\ NumberOf(m, Len(m) + 1) = NumberOf(l, Len(l) + 1) + 1
  BY <1>1, <1>2, AppendedLine
<1>4. Segments(l) \subseteq 1 .. Len(l)
  BY DEF Segments, SegmentsUpTo
<1> HIDE DEF m
<1>5. NumberOf(l, Len(l) + 1) = a
  BY DEF Numbered
<1>6. \A i \in Segments(m) : IsSegment(m[i].seg, NumberOf(m, i))
  BY <1>2, <1>3, <1>4, <1>5 DEF Numbered
<1>7. ASSUME NEW n \in f .. a + 1 - 1
      PROVE  \E i \in Segments(m) : NumberOf(m, i) = n
  <2>1. CASE n = a
    BY <1>3, <1>5, <2>1
  <2>2. CASE n \in f .. a - 1
    BY <1>3, <1>4, <2>2 DEF Numbered
  <2> QED  BY <2>1, <2>2
<1>8. Numbered(m, f, a + 1)
  BY <1>3, <1>5, <1>6, <1>7 DEF Numbered
<1> QED  BY <1>8 DEF m

(* The lists in front of a segment being written: what they mirror.        *)
LEMMA MirrorsOther ==
  ASSUME NEW l \in Seq(Line), NEW x \in Line, x.tag # "EXTINF", HasHeader(l), Mirrors(l)
  PROVE  Mirrors(Append(l, x))
<1> DEFINE m == Append(l, x)
<1>1. /\ Segments(m) = Segments(l)
      /\ \A i \in 1 .. Len(l) : m[i] = l[i] /\ NumberOf(m, i) = NumberOf(l, i)
  BY AppendedLine
<1>2. Segments(l) \subseteq 1 .. Len(l)
  BY DEF Segments, SegmentsUpTo
<1> HIDE DEF m
<1>3. Mirrors(m)
  BY <1>1, <1>2 DEF Mirrors
<1> QED  BY <1>3 DEF m

LEMMA MirrorsSegment ==
  ASSUME NEW l \in Seq(Line), NEW seg \in Segment, HasHeader(l), Mirrors(l),
         NumberOf(l, Len(l) + 1) >= WindowStart =>
           seg = m_segments[NumberOf(l, Len(l) + 1) - WindowStart + 1]
  PROVE  Mirrors(Append(l, ExtinfLine(seg)))
<1> DEFINE m == Append(l, ExtinfLine(seg))
<1>1. ExtinfLine(seg) \in Line /\ ExtinfLine(seg).tag = "EXTINF" /\ ExtinfLine(seg).seg = seg
  BY LineTypes DEF ExtinfLine
<1>2. /\ Segments(m) = Segments(l) \cup {Len(l) + 1}
      /\ \A i \in 1 .. Len(l) : m[i] = l[i]
      /\ m[Len(l) + 1] = ExtinfLine(seg) /\ Len(l) \in Nat
      /\ \A i \in 1 .. Len(l) + 1 : NumberOf(m, i) = NumberOf(l, i)
  BY <1>1, AppendedLine
<1>3. Segments(l) \subseteq 1 .. Len(l)
  BY DEF Segments, SegmentsUpTo
<1> HIDE DEF m
<1>4. Mirrors(m)
  BY <1>1, <1>2, <1>3 DEF Mirrors
<1> QED  BY <1>4 DEF m

LEMMA NotEnded ==
  ASSUME NEW l \in Seq(Line), NEW x \in Line, x.tag # "ENDLIST", ~Ended(l)
  PROVE  ~Ended(Append(l, x))
BY DEF Ended

(* WriteSegment adds a segment, and maybe a KEY line, to a text.           *)
LEMMA WithSegmentLists ==
  ASSUME NEW l \in Seq(Line), NEW seg \in Segment, NEW prev,
         NEW f \in Int, NEW a \in Int, Numbered(l, f, a), IsSegment(seg, a)
  PROVE  LET m == WithSegment(l, seg, prev) IN
         /\ m \in Seq(Line)
         /\ Numbered(m, f, a + 1)
         /\ ~Ended(l) => ~Ended(m)
         /\ Mirrors(l) /\ (a >= WindowStart => seg = m_segments[a - WindowStart + 1])
              => Mirrors(m)
<1> DEFINE k == IF KeyTag(seg) # prev THEN Append(l, KeyLine(seg)) ELSE l
           m == Append(k, ExtinfLine(seg))
<1>1. /\ KeyLine(seg) \in Line /\ KeyLine(seg).tag = "KEY"
      /\ ExtinfLine(seg) \in Line /\ ExtinfLine(seg).tag = "EXTINF"
  BY LineTypes DEF KeyLine, ExtinfLine
<1>2. HasHeader(l)
  BY DEF Numbered
<1>3. /\ k \in Seq(Line) /\ Numbered(k, f, a) /\ (~Ended(l) => ~Ended(k))
      /\ Mirrors(l) => Mirrors(k)
  BY <1>1, <1>2, NumberedOther, MirrorsOther, NotEnded
<1> HIDE DEF k
<1>4. HasHeader(k) /\ NumberOf(k, Len(k) + 1) = a
  BY <1>3 DEF Numbered
<1>5. /\ m \in Seq(Line) /\ Numbered(m, f, a + 1) /\ (~Ended(l) => ~Ended(m))
      /\ Mirrors(l) /\ (a >= WindowStart => seg = m_segments[a - WindowStart + 1]) => Mirrors(m)
  BY <1>1, <1>3, <1>4, NumberedSegment, MirrorsSegment, NotEnded
<1> QED  BY <1>5 DEF m, k, WithSegment

(* A text that is only a header.                                           *)
LEMMA HeaderLists ==
  ASSUME NEW f \in Nat, run \in 1..MaxRuns
  PROVE  LET m == <<HeaderLine(f)>> IN
         m \in Seq(Line) /\ Numbered(m, f, f) /\ Mirrors(m) /\ ~Ended(m)
<1> DEFINE m == <<HeaderLine(f)>>
<1>1. /\ m \in Seq(Line) /\ Len(m) = 1 /\ m[1].tag = "HEADER" /\ m[1].first = f
      /\ m[1].run = run /\ m # <<>>
  BY LineTypes DEF HeaderLine
<1> HIDE DEF m
<1>2. Segments(m) = {} /\ HasHeader(m) /\ ~Ended(m)
  BY <1>1 DEF Segments, SegmentsUpTo, HasHeader, Ended
<1>3. NumberOf(m, Len(m) + 1) = f
  <2>1. SegmentsUpTo(m, Len(m) + 1 - 1) = Segments(m)
    BY <1>1 DEF Segments
  <2>2. Cardinality(SegmentsUpTo(m, Len(m) + 1 - 1)) = 0
    BY <1>2, <2>1, FS_EmptySet
  <2> QED  BY <1>1, <2>2 DEF NumberOf
<1>4. f .. f - 1 = {}
  OBVIOUS
<1>5. Numbered(m, f, f)
  BY <1>1, <1>2, <1>3, <1>4 DEF Numbered
<1>6. Mirrors(m)
  BY <1>2 DEF Mirrors
<1> QED  BY <1>1, <1>2, <1>5, <1>6 DEF m

LEMMA ListedNumbers ==
  ASSUME NEW l \in Seq(Line), NEW f \in Int, NEW a \in Int, Numbered(l, f, a),
         NEW i \in Segments(l)
  PROVE  NumberOf(l, i) \in f .. a-1
BY NumbersIncrease DEF Numbered, Segments

(***************************************************************************)
(* What is given to the index.                                             *)
(***************************************************************************)

LEMMA NewSegmentIs ==
  ASSUME TypeInv, FileInv, pc = "add"
  PROVE  IsSegment(NewSegment, m_sequence)
<1>1. m_sequence \in 1..MaxSegments /\ out_filename = Filename[m_sequence]
  BY DEF TypeInv, TypeOK, Control, FileInv
<1>2. Crypto = 0 => KeyTag(NewSegment) = DefaultTag
  BY DEF NewSegment, KeyTag, DefaultTag
<1>3. SwitchesKeys => HasKeyOf(m_sequence) /\ Crypto # 0
  BY DEF FileInv, KeyFileInv, SwitchesKeys
<1> QED  BY <1>1, <1>2, <1>3 DEF IsSegment, HasKeyOf, NewSegment

(***************************************************************************)
(* The invariant of the lists.                                             *)
(***************************************************************************)

LEMMA ListInit == Init => ListInv
<1> SUFFICES ASSUME Init PROVE ListInv
  OBVIOUS
<1> USE Assumptions DEF SegmenterAssumption
<1>1. ~Published /\ playlist = NoFile
  BY DEF Init, Published
<1>2. Live => LiveInv
  BY <1>1 DEF Init, ProgramInit, IndexInit, LiveInit, LiveInv, Seen, InWindow
<1>3. ~Live => VodInv
  BY <1>1 DEF Init, ProgramInit, IndexInit, VodInv
<1> QED  BY <1>1, <1>2, <1>3 DEF ListInv, OldHeader

(* Nothing but the files of the index, and the number of the start, is in  *)
(* the invariant.                                                          *)
LEMMA ListFrame ==
  ASSUME ListInv, UNCHANGED <<indexVars, liveVars, run>>,
         pc \in {"begin", "dead"} => pc' \in {"begin", "dead"} \/ Live
  PROVE  ListInv'
<1>1. /\ m_sequence' = m_sequence /\ m_out' = m_out /\ playlist' = playlist
      /\ index_pc' = index_pc /\ m_segments' = m_segments /\ temp' = temp
      /\ iter' = iter /\ run' = run
  BY DEF indexVars, liveVars
<1>2. /\ Published' = Published /\ Seen' = Seen /\ WindowStart' = WindowStart
      /\ \A l, f, a : Numbered(l, f, a)' = Numbered(l, f, a)
      /\ \A l : Mirrors(l)' = Mirrors(l)
      /\ OldHeader(playlist)' = OldHeader(playlist)
  BY <1>1 DEF Published, Seen, WindowStart, Numbered, Mirrors, OldHeader
<1>3. LiveInv => LiveInv'
  BY <1>1 DEF LiveInv, Numbered, Mirrors, Published, Seen, WindowStart
<1>4. ~Live /\ VodInv => VodInv'
  BY <1>1 DEF VodInv, Numbered, Published, Seen
<1> QED  BY <1>1, <1>2, <1>3, <1>4 DEF ListInv

(* A list that does not change keeps mirroring a window that slides on.    *)
LEMMA SlidingWindow ==
  ASSUME NEW l \in Seq(Line), NEW f \in Int, NEW a \in Int, Numbered(l, f, a), Mirrors(l),
         m_segments \in Seq(Segment), WindowStart \in Int, m_sequence \in Int,
         a <= m_sequence,
         \/ WindowStart' = WindowStart /\ \E s \in Segment : m_segments' = Append(m_segments, s)
         \/ /\ WindowStart' = WindowStart + 1
            /\ m_segments # <<>> /\ m_segments' = Tail(m_segments)
  PROVE  \A i \in Segments(l) :
           NumberOf(l, i) >= WindowStart' =>
             l[i].seg = m_segments'[NumberOf(l, i) - WindowStart' + 1]
<1> SUFFICES ASSUME NEW i \in Segments(l), NumberOf(l, i) >= WindowStart'
             PROVE  l[i].seg = m_segments'[NumberOf(l, i) - WindowStart' + 1]
  OBVIOUS
<1>1. NumberOf(l, i) \in f .. a-1 /\ Len(m_segments) = m_sequence - WindowStart
  BY ListedNumbers DEF WindowStart
<1>2. /\ NumberOf(l, i) >= WindowStart /\ NumberOf(l, i) - WindowStart + 1 \in 1 .. Len(m_segments)
      /\ l[i].seg = m_segments[NumberOf(l, i) - WindowStart + 1]
  BY SMTT(30), <1>1 DEF Mirrors
<1>3. CASE WindowStart' = WindowStart /\ \E s \in Segment : m_segments' = Append(m_segments, s)
  BY <1>2, <1>3
<1>4. CASE /\ WindowStart' = WindowStart + 1
           /\ m_segments # <<>> /\ m_segments' = Tail(m_segments)
  BY SMTT(30), <1>1, <1>2, <1>4, HeadTailProperties
<1> QED  BY <1>3, <1>4

LEMMA WindowTypes ==
  ASSUME TypeInv
  PROVE  /\ WindowStart \in Nat \ {0} /\ m_segments \in Seq(Segment) /\ m_out \in Seq(Line)
         /\ m_sequence \in 1 .. MaxSegments+1 /\ Len(m_segments) \in Nat
         /\ NumSegments \in Nat /\ run \in 1..MaxRuns /\ MaxSegments \in Nat
         /\ Published => playlist \in Seq(Line)
BY Assumptions DEF TypeInv, TypeOK, Control, SegmenterAssumption, WindowStart, Published

(* A numbered text is one that the present start may publish.              *)
LEMMA NumberedPublished ==
  ASSUME NEW f, NEW a, playlist \in Seq(Line), Numbered(playlist, f, a)
  PROVE  Published
BY NoFileAssumption DEF Numbered, Published

(* What LiveInv says of the published list, once there is one.             *)
LEMMA PublishedList ==
  ASSUME TypeInv, LiveInv, Seen # 0
  PROVE  /\ Published /\ playlist \in Seq(Line) /\ Mirrors(playlist)
         /\ Numbered(playlist, Seen + 1 - InWindow(Seen), Seen + 1)
         /\ Seen + 1 - InWindow(Seen) \in Int /\ Seen + 1 \in Int /\ Seen + 1 <= m_sequence
<1>1. /\ Published /\ Mirrors(playlist)
      /\ Numbered(playlist, Seen + 1 - InWindow(Seen), Seen + 1)
  BY DEF LiveInv
<1> QED  BY SMTT(30), <1>1, WindowTypes DEF InWindow, Seen

LEMMA ListAdd ==
  ASSUME TypeInv, FileInv, LiveInv, Live, pc = "add", LiveAddSegment(NewSegment), run' = run
  PROVE  LiveInv'
<1> USE Assumptions DEF SegmenterAssumption
<1>1. /\ index_pc = "idle" /\ index_pc' = "trim" /\ m_sequence' = m_sequence + 1
      /\ m_segments' = Append(m_segments, NewSegment) /\ playlist' = playlist
  BY DEF LiveAddSegment
<1>2. NewSegment \in Segment /\ IsSegment(NewSegment, m_sequence)
  BY NewSegmentType, NewSegmentIs DEF TypeInv, Control
<1>3. Len(m_segments') = Len(m_segments) + 1 /\ WindowStart' = WindowStart
  BY <1>1, <1>2, WindowTypes, Extended DEF WindowStart
<1>4. ASSUME NEW j \in 1 .. Len(m_segments')
      PROVE  IsSegment(m_segments'[j], WindowStart + j - 1)
  <2>1. CASE j = Len(m_segments')
    <3>1. m_segments'[j] = NewSegment /\ WindowStart + j - 1 = m_sequence
      BY <1>1, <1>2, <1>3, <2>1, WindowTypes DEF WindowStart
    <3> QED  BY <1>2, <3>1
  <2>2. CASE j \in 1 .. Len(m_segments)
    <3>1. m_segments'[j] = m_segments[j]
      BY <1>1, <1>2, <2>2, WindowTypes
    <3> QED  BY <2>2, <3>1 DEF LiveInv
  <2> QED  BY <1>3, <2>1, <2>2, WindowTypes
<1>5. Seen' = Seen /\ Seen = m_sequence - 1 /\ Published' = Published
  BY <1>1, WindowTypes DEF Seen, Published
<1>6. Len(m_segments') = InWindow(Seen) + 1
  BY <1>1, <1>3, <1>5 DEF LiveInv
<1>7. Seen # 0 => Mirrors(playlist)'
  <2> SUFFICES ASSUME Seen # 0 PROVE Mirrors(playlist)'
    OBVIOUS
  <2>1. m_segments \in Seq(Segment) /\ \E s \in Segment : m_segments' = Append(m_segments, s)
    BY <1>1, <1>2, WindowTypes
  <2>3. /\ playlist \in Seq(Line) /\ Mirrors(playlist)
        /\ Numbered(playlist, Seen + 1 - InWindow(Seen), Seen + 1)
        /\ Seen + 1 - InWindow(Seen) \in Int /\ Seen + 1 \in Int /\ Seen + 1 <= m_sequence
        /\ m_sequence \in Int /\ WindowStart \in Int
    BY PublishedList, WindowTypes
  <2>2. \A i \in Segments(playlist) :
          NumberOf(playlist, i) >= WindowStart' =>
            playlist[i].seg = m_segments'[NumberOf(playlist, i) - WindowStart' + 1]
    BY <1>3, <2>1, <2>3, SlidingWindow
  <2> QED  BY <1>1, <2>2 DEF Mirrors
<1>8. /\ index_pc' # "idle" => m_sequence' > 1
      /\ index_pc' \notin {"write", "rename"}
  BY <1>1, WindowTypes
<1>9. \A f, a : Numbered(playlist, f, a)' = Numbered(playlist, f, a)
  BY <1>1 DEF Numbered
<1> QED
  BY <1>1, <1>3, <1>4, <1>5, <1>6, <1>7, <1>8, <1>9 DEF LiveInv, InWindow

LEMMA ListTrim ==
  ASSUME TypeInv, LiveInv, Live, Trim, run' = run
  PROVE  LiveInv'
<1> USE Assumptions DEF SegmenterAssumption
<1>1. /\ index_pc = "trim" /\ index_pc' = "trim" /\ m_sequence' = m_sequence
      /\ Len(m_segments) > NumSegments
      /\ m_segments' = Tail(m_segments) /\ playlist' = playlist
  BY DEF Trim, indexVars
<1>2. m_segments # <<>> /\ m_segments \in Seq(Segment)
  BY <1>1, WindowTypes
<1>3. /\ Len(m_segments') = Len(m_segments) - 1
      /\ \A j \in 1 .. Len(m_segments') : m_segments'[j] = m_segments[j + 1]
      /\ WindowStart' = WindowStart + 1
  BY <1>1, <1>2, WindowTypes, HeadTailProperties DEF WindowStart
<1>4. ASSUME NEW j \in 1 .. Len(m_segments')
      PROVE  IsSegment(m_segments'[j], WindowStart' + j - 1)
  <2>1. j + 1 \in 1 .. Len(m_segments) /\ WindowStart' + j - 1 = WindowStart + (j + 1) - 1
    BY <1>3, WindowTypes
  <2> QED  BY <1>3, <2>1 DEF LiveInv
<1>5. Seen' = Seen /\ Published' = Published /\ m_sequence > 1
  BY <1>1 DEF Seen, Published, LiveInv
<1>6. Len(m_segments') = InWindow(Seen + 1)
  BY SMTT(30), <1>1, <1>3, WindowTypes DEF LiveInv, InWindow, Seen
<1>7. Seen # 0 => Mirrors(playlist)'
  <2> SUFFICES ASSUME Seen # 0 PROVE Mirrors(playlist)'
    OBVIOUS
  <2>3. /\ playlist \in Seq(Line) /\ Mirrors(playlist)
        /\ Numbered(playlist, Seen + 1 - InWindow(Seen), Seen + 1)
        /\ Seen + 1 - InWindow(Seen) \in Int /\ Seen + 1 \in Int /\ Seen + 1 <= m_sequence
        /\ m_sequence \in Int /\ WindowStart \in Int
    BY PublishedList, WindowTypes
  <2>2. \A i \in Segments(playlist) :
          NumberOf(playlist, i) >= WindowStart' =>
            playlist[i].seg = m_segments'[NumberOf(playlist, i) - WindowStart' + 1]
    BY <1>1, <1>2, <1>3, <2>3, SlidingWindow
  <2> QED  BY <1>1, <2>2 DEF Mirrors
<1>8. \A f, a : Numbered(playlist, f, a)' = Numbered(playlist, f, a)
  BY <1>1 DEF Numbered
<1> QED
  BY <1>1, <1>3, <1>4, <1>5, <1>6, <1>7, <1>8 DEF LiveInv, InWindow

LEMMA ListOpenTemp ==
  ASSUME TypeInv, LiveInv, Live, OpenTemp, UNCHANGED run
  PROVE  LiveInv'
<1> USE Assumptions DEF SegmenterAssumption
<1>1. /\ index_pc = "trim" /\ index_pc' = "write" /\ m_sequence' = m_sequence
      /\ Len(m_segments) <= NumSegments /\ iter' = 1
      /\ m_segments' = m_segments /\ playlist' = playlist /\ run' = run
      /\ m_out' = <<HeaderLine(WindowStart)>>
  BY DEF OpenTemp, WriteHeader, WindowStart
<1>2. /\ WindowStart' = WindowStart /\ Seen' = Seen /\ Published' = Published
      /\ \A l, f, a : Numbered(l, f, a)' = Numbered(l, f, a)
      /\ \A l : Mirrors(l)' = Mirrors(l)
  BY <1>1 DEF WindowStart, Seen, Published, Numbered, Mirrors
<1>3. /\ Numbered(m_out', WindowStart, WindowStart) /\ Mirrors(m_out')
      /\ WindowStart + 1 - 1 = WindowStart
  BY <1>1, WindowTypes, HeaderLists
<1>4. Numbered(m_out, WindowStart, WindowStart + iter - 1)' /\ Mirrors(m_out)'
  BY <1>1, <1>2, <1>3 DEF Numbered, Mirrors
<1>5. Len(m_segments) = InWindow(m_sequence - 1)
  BY <1>1, WindowTypes DEF LiveInv, InWindow, Seen
<1>6. iter' <= Len(m_segments) + 1
  BY <1>1, WindowTypes
<1> QED  BY <1>1, <1>2, <1>4, <1>5, <1>6 DEF LiveInv, Numbered, Mirrors, Seen

LEMMA ListWriteNext ==
  ASSUME TypeInv, LiveInv, Live, WriteNext, UNCHANGED run
  PROVE  LiveInv'
<1> USE Assumptions DEF SegmenterAssumption
<1> DEFINE seg == m_segments[iter]
           a == WindowStart + iter - 1
<1>1. /\ index_pc = "write" /\ index_pc' = "write" /\ m_sequence' = m_sequence
      /\ iter' = iter + 1 /\ iter \in 1 .. Len(m_segments)
      /\ m_segments' = m_segments /\ playlist' = playlist /\ run' = run
  BY WindowTypes DEF WriteNext, TypeInv, TypeOK
<1>2. /\ WindowStart' = WindowStart /\ Seen' = Seen /\ Published' = Published
      /\ \A l, f, b : Numbered(l, f, b)' = Numbered(l, f, b)
      /\ \A l : Mirrors(l)' = Mirrors(l)
  BY <1>1 DEF WindowStart, Seen, Published, Numbered, Mirrors
<1>3. seg \in Segment /\ IsSegment(seg, a) /\ a \in Int /\ WindowStart \in Int
  BY <1>1, WindowTypes DEF LiveInv
<1>4. m_out' = WithSegment(m_out, seg, m_prev_crypto)
  BY <1>3, WindowTypes, WriteSegmentIs DEF WriteNext
<1>5. Numbered(m_out, WindowStart, a) /\ Mirrors(m_out)
  BY <1>1 DEF LiveInv
<1>6. a - WindowStart + 1 = iter
  BY <1>1, WindowTypes
<1> HIDE DEF seg
<1>7. Numbered(m_out', WindowStart, a + 1) /\ Mirrors(m_out')
  <2>1. a >= WindowStart => seg = m_segments[a - WindowStart + 1]
    BY <1>6 DEF seg
  <2> HIDE DEF a
  <2> QED  BY <1>3, <1>4, <1>5, <2>1, WindowTypes, WithSegmentLists
<1>8. a + 1 = WindowStart + iter' - 1
  BY <1>1, WindowTypes
<1> HIDE DEF a
<1>9. Numbered(m_out, WindowStart, WindowStart + iter - 1)' /\ Mirrors(m_out)'
  BY <1>1, <1>2, <1>7, <1>8 DEF Numbered, Mirrors
<1>10. iter' <= Len(m_segments) + 1
  BY <1>1, WindowTypes
<1> QED  BY <1>1, <1>2, <1>9, <1>10 DEF LiveInv, Numbered, Mirrors, Seen

LEMMA ListCloseTemp ==
  ASSUME TypeInv, LiveInv, Live, CloseTemp, UNCHANGED run
  PROVE  LiveInv'
<1> USE Assumptions DEF SegmenterAssumption
<1>1. /\ index_pc = "write" /\ index_pc' = "rename" /\ m_sequence' = m_sequence
      /\ iter = Len(m_segments) + 1
      /\ m_segments' = m_segments /\ playlist' = playlist /\ run' = run
  BY WindowTypes DEF CloseTemp, TypeInv, TypeOK, LiveInv
<1>2. /\ WindowStart' = WindowStart /\ Seen' = Seen /\ Published' = Published
      /\ \A l, f, b : Numbered(l, f, b)' = Numbered(l, f, b)
      /\ \A l : Mirrors(l)' = Mirrors(l)
  BY <1>1 DEF WindowStart, Seen, Published, Numbered, Mirrors
<1>3. temp' = m_out
  <2>1. temp = <<>>
    BY <1>1 DEF TypeInv, Control
  <2> QED  BY <2>1, WindowTypes DEF CloseTemp
<1>4. Numbered(m_out, WindowStart, m_sequence) /\ Mirrors(m_out)
  <2>1. WindowStart + iter - 1 = m_sequence
    BY <1>1, WindowTypes DEF WindowStart
  <2> QED  BY <1>1, <2>1 DEF LiveInv
<1>5. Numbered(temp, WindowStart, m_sequence)' /\ Mirrors(temp)'
  BY <1>1, <1>2, <1>3, <1>4 DEF Numbered, Mirrors
<1> QED  BY <1>1, <1>2, <1>5 DEF LiveInv, Numbered, Mirrors, Seen

LEMMA ListRename ==
  ASSUME TypeInv, LiveInv, Live, Rename, UNCHANGED run
  PROVE  LiveInv'
<1> USE Assumptions DEF SegmenterAssumption
<1>1. /\ index_pc = "rename" /\ index_pc' = "idle" /\ m_sequence' = m_sequence
      /\ m_segments' = m_segments /\ playlist' = temp /\ run' = run
      /\ temp \in Seq(Line)
  BY DEF Rename, TypeInv, Control
<1>2. WindowStart' = WindowStart /\ Seen' = m_sequence - 1 /\ m_sequence > 1
  BY <1>1 DEF WindowStart, Seen, LiveInv
<1>3. Numbered(temp, WindowStart, m_sequence) /\ Mirrors(temp)
  BY <1>1 DEF LiveInv
<1>4. /\ Seen' + 1 = m_sequence /\ Seen' # 0
      /\ Len(m_segments) = InWindow(m_sequence - 1)
      /\ Seen' + 1 - InWindow(Seen') = WindowStart
  <2>1. Len(m_segments) = InWindow(m_sequence - 1)
    BY <1>1 DEF LiveInv
  <2> QED  BY SMTT(30), <1>2, <2>1, WindowTypes DEF WindowStart
<1>5. Numbered(playlist, Seen + 1 - InWindow(Seen), Seen + 1)'
  BY <1>1, <1>3, <1>4 DEF Numbered, InWindow
<1>6. Mirrors(playlist)'
  BY <1>1, <1>2, <1>3 DEF Mirrors
<1>7. Published'
  BY <1>1, <1>3, NoFileAssumption DEF Numbered, Published
<1> QED  BY <1>1, <1>2, <1>4, <1>5, <1>6, <1>7 DEF LiveInv, InWindow

LEMMA VodBegin ==
  ASSUME TypeInv, pc = "begin", Begin, UNCHANGED run
  PROVE  VodInv'
<1>1. /\ m_sequence = 1 /\ index_pc = "idle" /\ m_sequence' = 1 /\ index_pc' = "idle"
      /\ run' = run /\ playlist' = <<>> /\ m_out' = <<HeaderLine(1)>>
  BY DEF TypeInv, Control, Begin, WriteHeader
<1>2. m_out' \in Seq(Line) /\ Numbered(m_out', 1, 1)
  BY <1>1, WindowTypes, HeaderLists
<1>3. playlist' \o m_out' = m_out' /\ playlist' \in Seq(Line)
  BY <1>1, <1>2, ConcatEmptySeq, Empty
<1>4. Numbered(playlist \o m_out, 1, m_sequence)'
  BY <1>1, <1>2, <1>3 DEF Numbered
<1> QED  BY <1>1, <1>3, <1>4 DEF VodInv, Seen

LEMMA VodAdd ==
  ASSUME TypeInv, FileInv, VodInv, pc = "add", AddSegment(NewSegment), UNCHANGED run
  PROVE  VodInv'
<1> DEFINE text == playlist \o m_out
<1>1. /\ index_pc = "idle" /\ index_pc' = "flush" /\ m_sequence' = m_sequence + 1
      /\ playlist' = playlist /\ run' = run /\ WriteSegment(NewSegment)
  BY DEF AddSegment
<1>2. NewSegment \in Segment /\ IsSegment(NewSegment, m_sequence)
  BY NewSegmentType, NewSegmentIs DEF TypeInv, Control
<1>3. /\ playlist \in Seq(Line) /\ Numbered(text, 1, m_sequence)
      /\ IF Seen = 0 THEN playlist = <<>> ELSE Numbered(playlist, 1, Seen + 1)
  BY DEF VodInv
<1>4. playlist' \o m_out' = WithSegment(text, NewSegment, m_prev_crypto)
  BY <1>1, <1>2, <1>3, WindowTypes, ConcatSegment
<1>5. text \in Seq(Line) /\ m_sequence \in Int
  BY <1>3, WindowTypes
<1> HIDE DEF text
<1>6. Numbered(playlist' \o m_out', 1, m_sequence')
  BY <1>1, <1>2, <1>3, <1>4, <1>5, WithSegmentLists
<1>7. Seen' = Seen
  BY <1>1, WindowTypes DEF Seen
<1> QED  BY <1>1, <1>3, <1>6, <1>7 DEF VodInv, Numbered

LEMMA VodFlush ==
  ASSUME TypeInv, VodInv, pc = "wait", Flush, UNCHANGED run
  PROVE  VodInv'
<1>1. /\ index_pc = "flush" /\ index_pc' = "idle" /\ m_sequence' = m_sequence
      /\ playlist' = playlist \o m_out /\ m_out' = <<>> /\ run' = run /\ m_sequence > 1
  BY DEF Flush, TypeInv, Control
<1>2. playlist \in Seq(Line) /\ Numbered(playlist \o m_out, 1, m_sequence)
  BY <1>1 DEF VodInv
<1>3. playlist' \in Seq(Line) /\ playlist' \o m_out' = playlist'
  BY <1>1, <1>2, WindowTypes, ConcatEmptySeq
<1>4. Numbered(playlist, 1, m_sequence)'
  BY <1>1, <1>2 DEF Numbered
<1>5. Seen' + 1 = m_sequence' /\ Seen' # 0
  BY <1>1, WindowTypes DEF Seen
<1> QED  BY <1>1, <1>3, <1>4, <1>5 DEF VodInv, Numbered

LEMMA VodEnd ==
  ASSUME TypeInv, VodInv, pc = "end", End, UNCHANGED run
  PROVE  VodInv'
<1>1. /\ index_pc = "idle" /\ index_pc' = "idle" /\ m_sequence' = m_sequence
      /\ m_out' = <<>> /\ run' = run /\ m_sequence > 1
  BY DEF End, TypeInv, Control
<1>2. playlist \in Seq(Line) /\ Numbered(playlist \o m_out, 1, m_sequence) /\ m_out = <<>>
  BY <1>1 DEF VodInv
<1>3. playlist \o m_out = playlist /\ playlist' = Append(playlist, EndLine)
  BY <1>2, ConcatEmptySeq, LineTypes DEF End
<1>4. EndLine \in Line /\ EndLine.tag # "EXTINF" /\ m_sequence \in Int
  BY LineTypes, WindowTypes DEF EndLine
<1>5. playlist' \in Seq(Line) /\ Numbered(playlist', 1, m_sequence)
  BY <1>2, <1>3, <1>4, NumberedOther
<1>6. playlist' \o m_out' = playlist'
  BY <1>1, <1>5, ConcatEmptySeq
<1>7. Seen' + 1 = m_sequence' /\ Seen' # 0
  BY <1>1, WindowTypes DEF Seen
<1> QED  BY <1>1, <1>5, <1>6, <1>7 DEF VodInv, Numbered

LEMMA LiveEnds ==
  ASSUME TypeInv, LiveInv, Live, pc = "end", LiveEnd, UNCHANGED run
  PROVE  LiveInv'
<1>1. /\ index_pc = "idle" /\ index_pc' = "idle" /\ m_sequence' = m_sequence
      /\ m_out = <<>> /\ run' = run /\ m_sequence > 1 /\ m_segments' = m_segments
  BY DEF LiveEnd, End, TypeInv, Control, liveVars
<1>2. /\ WindowStart' = WindowStart /\ Seen' = Seen /\ Seen # 0
      /\ \A l, f, b : Numbered(l, f, b)' = Numbered(l, f, b)
      /\ \A l : Mirrors(l)' = Mirrors(l)
  BY <1>1, WindowTypes DEF WindowStart, Seen, Numbered, Mirrors
<1>3. /\ playlist \in Seq(Line) /\ Mirrors(playlist)
      /\ Numbered(playlist, Seen + 1 - InWindow(Seen), Seen + 1)
      /\ Seen + 1 - InWindow(Seen) \in Int /\ Seen + 1 \in Int
  BY <1>2, PublishedList
<1>4. playlist' = Append(playlist, EndLine)
  BY <1>1, <1>3, ConcatEmptySeq, LineTypes DEF LiveEnd, End
<1>5. EndLine \in Line /\ EndLine.tag # "EXTINF" /\ HasHeader(playlist)
  BY <1>3, LineTypes DEF EndLine, Numbered
<1>6. /\ playlist' \in Seq(Line) /\ Mirrors(playlist')
      /\ Numbered(playlist', Seen + 1 - InWindow(Seen), Seen + 1)
  BY <1>3, <1>4, <1>5, NumberedOther, MirrorsOther
<1>7. /\ Numbered(playlist, Seen + 1 - InWindow(Seen), Seen + 1)'
      /\ Mirrors(playlist)'
  BY <1>1, <1>2, <1>6 DEF Numbered, Mirrors, InWindow
<1>8. Published'
  BY <1>1, <1>6, NoFileAssumption DEF Numbered, Published
<1> QED  BY <1>1, <1>2, <1>7, <1>8 DEF LiveInv, InWindow

LEMMA NumberedIsOld ==
  ASSUME NEW l, NEW f, NEW a, Numbered(l, f, a), run \in Int
  PROVE  OldHeader(l)
BY DEF Numbered, OldHeader

LEMMA ListStep ==
  ASSUME TypeInv, FileInv, ListInv, [Next]_vars
  PROVE  ListInv'
<1> USE Assumptions DEF SegmenterAssumption
<1>1. /\ OldHeader(playlist) /\ (Live => LiveInv) /\ (~Live => VodInv)
  BY DEF ListInv, OldHeader
<1>2. ASSUME run' = run, OldHeader(playlist'), Live => LiveInv', ~Live => VodInv'
      PROVE  ListInv'
  BY <1>2 DEF ListInv, OldHeader
<1>3. ASSUME UNCHANGED <<playlist, run>>, Live => LiveInv', ~Live => VodInv'
      PROVE  ListInv'
  BY <1>1, <1>2, <1>3
<1>4. CASE BeginIndex
  <2>1. pc = "begin" /\ UNCHANGED run /\ IF Live THEN LiveBegin ELSE Begin
    BY <1>4 DEF BeginIndex
  <2>2. CASE Live
    BY <2>1, <2>2, ListFrame DEF LiveBegin
  <2>3. CASE ~Live
    <3>1. playlist' = <<>> /\ OldHeader(playlist')
      BY <2>1, <2>3 DEF Begin, OldHeader, HasHeader
    <3> QED  BY <1>2, <2>1, <2>3, <3>1, VodBegin
  <2> QED  BY <2>2, <2>3
<1>5. CASE AddToIndex
  <2>1. /\ pc = "add" /\ UNCHANGED run
        /\ IF Live THEN LiveAddSegment(NewSegment) ELSE AddSegment(NewSegment)
    BY <1>5 DEF AddToIndex
  <2>2. UNCHANGED playlist
    BY <2>1 DEF LiveAddSegment, AddSegment
  <2> QED  BY <1>1, <1>3, <2>1, <2>2, ListAdd, VodAdd
<1>6. CASE IndexWorks
  <2>1. pc = "wait" /\ UNCHANGED run
    BY <1>6 DEF IndexWorks
  <2>2. CASE Flush
    <3>1. ~Live /\ playlist' = playlist \o m_out
      BY <2>2 DEF Flush, TypeInv, Control
    <3>2. Numbered(playlist \o m_out, 1, m_sequence)
      BY <1>1, <2>1, <3>1 DEF VodInv
    <3> QED  BY <1>1, <1>2, <2>1, <2>2, <3>1, <3>2, NumberedIsOld, WindowTypes, VodFlush
  <2>3. CASE Trim \/ OpenTemp \/ WriteNext \/ CloseTemp
    <3>1. UNCHANGED playlist /\ Live
      BY <2>3 DEF Trim, OpenTemp, WriteNext, CloseTemp, indexVars, TypeInv, Control
    <3> QED
      BY <1>1, <1>3, <2>1, <2>3, <3>1, ListTrim, ListOpenTemp, ListWriteNext, ListCloseTemp
  <2>4. CASE Rename
    <3>1. Live /\ playlist' = temp /\ index_pc = "rename"
      BY <2>4 DEF Rename, TypeInv, Control
    <3>2. Numbered(temp, WindowStart, m_sequence)
      BY <1>1, <3>1 DEF LiveInv
    <3> QED  BY <1>1, <1>2, <2>1, <2>4, <3>1, <3>2, NumberedIsOld, WindowTypes, ListRename
  <2> QED  BY <1>6, <2>2, <2>3, <2>4 DEF IndexWorks
<1>7. CASE EndIndex
  <2>1. /\ pc = "end" /\ UNCHANGED run /\ m_sequence > 1 /\ index_pc = "idle"
        /\ IF Live THEN LiveEnd ELSE End
    BY <1>7 DEF EndIndex, TypeInv, Control
  <2>2. CASE Live
    <3>1. LiveInv'
      BY <1>1, <2>1, <2>2, LiveEnds
    <3>2. Numbered(playlist', Seen' + 1 - InWindow(Seen'), Seen' + 1)
      <4>1. Seen' # 0
        BY <2>1, <2>2, WindowTypes DEF LiveEnd, End, Seen
      <4> QED  BY <2>1, <3>1, <4>1 DEF LiveInv, Numbered, InWindow
    <3> QED  BY <1>2, <2>1, <2>2, <3>1, <3>2, NumberedIsOld, WindowTypes
  <2>3. CASE ~Live
    <3>1. VodInv'
      BY <1>1, <2>1, <2>3, VodEnd
    <3>2. Numbered(playlist', 1, Seen' + 1)
      <4>1. Seen' # 0 /\ m_sequence' # 1
        BY <2>1, <2>3, WindowTypes DEF End, Seen
      <4> QED  BY <2>1, <3>1, <4>1 DEF VodInv, Numbered
    <3> QED  BY <1>2, <2>1, <2>3, <3>1, <3>2, NumberedIsOld, WindowTypes
  <2> QED  BY <2>2, <2>3
<1>8. CASE Restart
  <2>1. /\ playlist' = playlist /\ run' = run + 1 /\ m_sequence' = 1 /\ index_pc' = "idle"
        /\ pc' = "begin" /\ m_segments' = <<>>
    BY <1>8 DEF Restart
  <2>2. playlist # NoFile /\ HasHeader(playlist) => playlist[1].run \in Int
    BY DEF TypeInv, TypeOK, HasHeader, Line
  <2>3. ~Published' /\ OldHeader(playlist)' /\ run \in Int
    BY <1>1, <2>1, <2>2, WindowTypes DEF Published, OldHeader
  <2>4. Live => LiveInv'
    BY <2>1, <2>3 DEF LiveInv, Seen, InWindow
  <2>5. ~Live => VodInv'
    BY <2>1, <2>3 DEF VodInv
  <2> QED  BY <2>3, <2>4, <2>5 DEF ListInv, OldHeader
<1>9. CASE OpenSegment \/ SwitchKey \/ CloseSegment \/ NextRound \/ Copies \/ Die
  <2>1. /\ UNCHANGED <<indexVars, liveVars, run>>
        /\ pc \in {"begin", "dead"} => pc' \in {"begin", "dead"}
    BY <1>9 DEF OpenSegment, SwitchKey, CloseSegment, NextRound, Copies, CopySegment, Die
  <2> QED  BY <2>1, ListFrame
<1>10. CASE UNCHANGED vars
  BY <1>10, ListFrame DEF vars
<1> QED
  BY <1>4, <1>5, <1>6, <1>7, <1>8, <1>9, <1>10 DEF Next, Works

(***************************************************************************)
(* Which key is that of a segment.                                         *)
(***************************************************************************)

LEMMA FirstSwitch ==
  ASSUME SwitchesKeys
  PROVE  1 % Crypto = 1
BY Assumptions DEF SegmenterAssumption, SwitchesKeys

LEMMA KeyOfSwitch ==
  ASSUME NEW n \in Nat \ {0}, n % Crypto = 1
  PROVE  KeyOf(n, n)
BY DEF KeyOf

LEMMA KeyOfNext ==
  ASSUME NEW n \in Nat, NEW k, KeyOf(k, n), (n + 1) % Crypto # 1
  PROVE  KeyOf(k, n + 1)
BY DEF KeyOf

LEMMA KeyOfUnique ==
  ASSUME NEW n \in Nat, NEW k, NEW j, KeyOf(k, n), KeyOf(j, n)
  PROVE  j = k
BY DEF KeyOf

(***************************************************************************)
(* The invariant of the files.                                             *)
(***************************************************************************)

LEMMA StoredIsFile ==
  ASSUME NEW k, run \in 1..MaxRuns, NEW n \in 1..MaxSegments, k \in Keys \cup {NoKey},
         NEW whole \in BOOLEAN
  PROVE  File(n, k, whole) \in Contents /\ File(n, k, whole) # NoFile
<1>1. File(n, k, whole) \in Contents
  BY DEF File, Contents
<1> QED  BY <1>1, NoFileAssumption

(* The files that are still wanted have other names than the next one.     *)
LEMMA KeptNames ==
  ASSUME TypeInv, ListInv, index_pc = "idle", m_sequence <= MaxSegments,
         NEW n \in KeptFrom .. m_sequence - 1
  PROVE  /\ n \in 1..MaxSegments /\ Filename[n] # Filename[m_sequence]
         /\ Filename[n] \in Uris /\ Filename[m_sequence] \in Uris
<1> USE Assumptions DEF SegmenterAssumption
<1>1. n \in 1..MaxSegments /\ m_sequence \in 1..MaxSegments /\ n < m_sequence
  BY WindowTypes DEF KeptFrom
<1>2. Live => m_sequence - n <= NumSegments
  <2> SUFFICES ASSUME Live PROVE m_sequence - n <= NumSegments
    OBVIOUS
  <2>1. Len(m_segments) = InWindow(m_sequence - 1)
    BY DEF ListInv, LiveInv
  <2> QED  BY <1>1, <2>1, WindowTypes DEF KeptFrom, WindowStart, InWindow
<1> QED  BY <1>1, <1>2 DEF NamesAssumption

(* What does not touch the files, and leads to no new place in main().     *)
LEMMA FileFrame ==
  ASSUME FileInv,
         UNCHANGED <<m_sequence, m_segments, files, run, mainVars>>,
         pc' = pc \/ pc' \in {"end", "done", "dead"} \/ (pc' = "open" /\ (pc = "wait" \/ m_sequence = 1)),
         index_pc' = "idle" \/ index_pc # "idle"
  PROVE  FileInv'
<1>1. /\ m_sequence' = m_sequence /\ m_segments' = m_segments /\ files' = files /\ run' = run
      /\ key' = key /\ key_filename' = key_filename /\ key_files' = key_files
      /\ out_filename' = out_filename /\ out_bad' = out_bad
  BY DEF mainVars
<1>2. /\ \A n : Stored(n)' = Stored(n)
      /\ \A n : HasKeyOf(n)' = HasKeyOf(n)
      /\ KeptFrom' = KeptFrom
      /\ \A n : FreshKey(n)' = FreshKey(n)
  BY <1>1 DEF Stored, HasKeyOf, KeptFrom, WindowStart, FreshKey
<1>3. KeyFileInv => KeyFileInv'
  BY <1>1, <1>2 DEF KeyFileInv, HasKeyOf, FreshKey
<1>4. /\ \A u \in Uris : files'[u] # NoFile => files'[u].run <= run'
      /\ Unfailing => out_bad' = FALSE
  BY <1>1 DEF FileInv
<1>5. (\A n \in KeptFrom .. m_sequence - 1 : Stored(n))'
  BY <1>1, <1>2 DEF FileInv, Stored, KeptFrom
<1>6. (pc = "add" => Stored(m_sequence))'
  BY <1>1, <1>2 DEF FileInv, Stored
<1>7. (pc \in {"key", "copy", "close", "add"} => out_filename = Filename[m_sequence])'
  BY <1>1 DEF FileInv
<1>8. (Live /\ index_pc # "idle" /\ Len(m_segments) = NumSegments /\ Seen >= NumSegments
         => files[Filename[m_sequence - 1 - NumSegments]] = NoFile)'
  BY <1>1 DEF FileInv, Seen
<1> QED  BY <1>3, <1>4, <1>5, <1>6, <1>7, <1>8 DEF FileInv

LEMMA FileWhole ==
  ASSUME NEW n, NEW k, NEW whole
  PROVE  File(n, k, whole).whole = whole
BY DEF File

LEMMA FileInit == Init => FileInv
<1> SUFFICES ASSUME Init PROVE FileInv
  OBVIOUS
<1> USE Assumptions DEF SegmenterAssumption
<1>1. /\ m_sequence = 1 /\ pc = "begin" /\ out_bad = FALSE /\ index_pc = "idle"
      /\ m_segments = <<>>
      /\ \A u \in Uris : files[u] = NoFile
  BY DEF Init, ProgramInit, IndexInit, LiveInit
<1>2. KeptFrom .. m_sequence - 1 = {}
  BY <1>1 DEF KeptFrom, WindowStart
<1>3. SwitchesKeys => KeyFileInv
  BY <1>1, FirstSwitch DEF KeyFileInv
<1> QED  BY <1>1, <1>2, <1>3 DEF FileInv

(* What a step keeps that writes no other file than that of the segment at *)
(* work.                                                                   *)
LEMMA KeptStored ==
  ASSUME TypeInv, ListInv, FileInv, m_sequence <= MaxSegments, index_pc = "idle",
         m_sequence' = m_sequence, m_segments' = m_segments, run' = run,
         \A u \in Uris \ {Filename[m_sequence]} : files'[u] = files[u],
         files'[Filename[m_sequence]].run = run
  PROVE  /\ \A u \in Uris : files'[u] # NoFile => files'[u].run <= run'
         /\ (\A n \in KeptFrom .. m_sequence - 1 : Stored(n))'
<1>1. run \in Int
  BY WindowTypes
<1>3. \A u \in Uris : files'[u] # NoFile => files'[u].run <= run'
  BY <1>1 DEF FileInv
<1>4. KeptFrom' = KeptFrom
  BY DEF KeptFrom, WindowStart
<1>5. ASSUME NEW n \in KeptFrom .. m_sequence - 1
      PROVE  Stored(n)'
  <2>1. Filename[n] # Filename[m_sequence] /\ Filename[n] \in Uris
    BY KeptNames
  <2>2. files'[Filename[n]] = files[Filename[n]]
    BY <2>1
  <2>3. Stored(n)
    BY DEF FileInv
  <2> QED  BY <2>2, <2>3 DEF Stored, FreshKey
<1> QED  BY <1>3, <1>4, <1>5

LEMMA FileOpen ==
  ASSUME TypeInv, ListInv, FileInv, OpenSegment
  PROVE  FileInv'
<1> USE Assumptions DEF SegmenterAssumption
<1>1. /\ pc = "open" /\ m_sequence \in 1..MaxSegments /\ out_filename' = Filename[m_sequence]
      /\ files' = [files EXCEPT ![Filename[m_sequence]] = File(m_sequence, NoKey, FALSE)]
      /\ pc' = (IF SwitchesKey THEN "key" ELSE "copy")
      /\ index_pc = "idle" /\ index_pc' = "idle" /\ m_sequence' = m_sequence /\ m_segments' = m_segments
      /\ run' = run /\ UNCHANGED <<key, key_filename, key_files, out_bad>>
  BY DEF OpenSegment, TypeInv, TypeOK, Control, indexVars, liveVars
<1>2. /\ \A u \in Uris \ {Filename[m_sequence]} : files'[u] = files[u]
      /\ files'[Filename[m_sequence]].run = run
  <2>1. Filename[m_sequence] \in Uris
    BY <1>1 DEF NamesAssumption
  <2> QED  BY <1>1, <2>1 DEF TypeInv, TypeOK, File
<1>3. /\ \A u \in Uris : files'[u] # NoFile => files'[u].run <= run'
      /\ (\A n \in KeptFrom .. m_sequence - 1 : Stored(n))'
  <2>1. /\ m_sequence <= MaxSegments /\ index_pc = "idle"
        /\ m_sequence' = m_sequence /\ m_segments' = m_segments /\ run' = run
    BY <1>1
  <2> QED  BY <1>2, <2>1, KeptStored
<1>4. SwitchesKeys => KeyFileInv'
  <2> SUFFICES ASSUME SwitchesKeys PROVE KeyFileInv'
    OBVIOUS
  <2>1. KeyFileInv /\ Crypto # 0 /\ 1 % Crypto = 1
    BY FirstSwitch DEF FileInv, SwitchesKeys
  <2>2. \A n : FreshKey(n)' = FreshKey(n) /\ HasKeyOf(n)' = HasKeyOf(n)
    BY <1>1 DEF FreshKey, HasKeyOf
  <2>3. m_sequence > 1 => HasKeyOf(m_sequence - 1)
    BY <1>1, <2>1 DEF KeyFileInv
  <2>4. CASE SwitchesKey
    BY <1>1, <2>1, <2>2, <2>3, <2>4 DEF SwitchesKey, KeyFileInv, HasKeyOf, FreshKey
  <2>5. CASE ~SwitchesKey
    <3>1. m_sequence % Crypto # 1 /\ m_sequence > 1
      BY <1>1, <2>1, <2>5 DEF SwitchesKey
    <3>2. PICK k \in 1 .. m_sequence - 1 :
            KeyOf(k, m_sequence - 1) /\ key = FreshKey(k) /\ key_filename = KeyFilename[k]
      BY <2>3, <3>1 DEF HasKeyOf
    <3>3. m_sequence - 1 \in Nat /\ (m_sequence - 1) + 1 = m_sequence /\ k \in 1 .. m_sequence
      BY <1>1
    <3>4. KeyOf(k, m_sequence)
      BY <3>1, <3>2, <3>3, KeyOfNext
    <3>5. HasKeyOf(m_sequence)
      BY <3>2, <3>3, <3>4 DEF HasKeyOf
    <3> QED  BY <1>1, <2>1, <2>2, <2>5, <3>1, <3>5 DEF KeyFileInv, HasKeyOf, FreshKey
  <2> QED  BY <2>4, <2>5
<1>5. pc' # "add"
  BY <1>1
<1> QED  BY <1>1, <1>3, <1>4, <1>5 DEF FileInv

LEMMA FileKey ==
  ASSUME TypeInv, ListInv, FileInv, SwitchKey
  PROVE  FileInv'
<1> USE Assumptions DEF SegmenterAssumption, NamesAssumption
<1>1. /\ pc = "key" /\ pc' = "copy" /\ m_sequence \in 1..MaxSegments
      /\ key' = FreshKey(m_sequence) /\ key_filename' = KeyFilename[m_sequence]
      /\ key_files' = [key_files EXCEPT ![KeyFilename[m_sequence]] = FreshKey(m_sequence)]
      /\ index_pc = "idle" /\ index_pc' = "idle" /\ m_sequence' = m_sequence /\ m_segments' = m_segments
      /\ UNCHANGED <<files, run, out_filename, out_bad>>
  BY DEF SwitchKey, TypeInv, TypeOK, Control, indexVars, liveVars
<1>2. KeptFrom' = KeptFrom /\ \A n : FreshKey(n)' = FreshKey(n) /\ Stored(n)' = Stored(n)
  BY <1>1 DEF KeptFrom, WindowStart, FreshKey, Stored
<1>3. (\A n \in KeptFrom .. m_sequence - 1 : Stored(n))'
  BY <1>1, <1>2 DEF FileInv, Stored, KeptFrom, WindowStart
<1>4. SwitchesKeys => KeyFileInv'
  <2> SUFFICES ASSUME SwitchesKeys PROVE KeyFileInv'
    OBVIOUS
  <2>1. KeyFileInv /\ m_sequence % Crypto = 1
    BY <1>1 DEF FileInv, KeyFileInv
  <2>2. HasKeyOf(m_sequence)'
    BY <1>1, <1>2, <2>1, KeyOfSwitch DEF HasKeyOf
  <2>3. ASSUME NEW k \in 1..m_sequence, k % Crypto = 1
        PROVE  key_files'[KeyFilename[k]] = FreshKey(k)
    <3>1. KeyFilename[k] \in KeyUris
      BY <1>1
    <3>2. CASE k = m_sequence
      BY <1>1, <3>1, <3>2 DEF TypeInv, TypeOK
    <3>3. CASE k # m_sequence
      <4>1. KeyFilename[k] # KeyFilename[m_sequence]
        BY <1>1, <3>3
      <4>2. key_files[KeyFilename[k]] = FreshKey(k)
        BY <2>1, <2>3, <3>3 DEF KeyFileInv
      <4> QED  BY <1>1, <4>1, <4>2, <3>1 DEF TypeInv, TypeOK
    <3> QED  BY <3>2, <3>3
  <2> QED  BY <1>1, <1>2, <2>2, <2>3 DEF KeyFileInv, HasKeyOf, FreshKey
<1> QED  BY <1>1, <1>3, <1>4 DEF FileInv

LEMMA FileCopy ==
  ASSUME TypeInv, ListInv, FileInv, Copies
  PROVE  FileInv'
<1>1. PICK d \in Durations, bad \in BOOLEAN :
        (bad => DiskMayFail /\ Crypto # 0) /\ CopySegment(d, AbsVal(d), bad)
  BY DEF Copies
<1>2. /\ pc = "copy" /\ pc' = "close" /\ out_bad' = bad /\ index_pc' = index_pc
      /\ index_pc = "idle" /\ m_sequence' = m_sequence /\ m_segments' = m_segments
      /\ UNCHANGED <<files, run, key, key_filename, key_files, out_filename>>
  BY <1>1 DEF CopySegment, TypeInv, TypeOK, Control, indexVars, liveVars
<1>3. Unfailing => out_bad' = FALSE
  BY <1>1, <1>2 DEF Unfailing
<1>4. (\A n \in KeptFrom .. m_sequence - 1 : Stored(n))'
  BY <1>2 DEF FileInv, Stored, KeptFrom, WindowStart, FreshKey
<1>5. SwitchesKeys => KeyFileInv'
  BY <1>2 DEF FileInv, KeyFileInv, HasKeyOf, FreshKey
<1> QED  BY <1>2, <1>3, <1>4, <1>5 DEF FileInv

LEMMA FileClose ==
  ASSUME TypeInv, ListInv, FileInv, CloseSegment
  PROVE  FileInv'
<1> USE Assumptions DEF SegmenterAssumption
<1>1. /\ pc = "close" /\ pc' = "add"
      /\ UNCHANGED <<indexVars, liveVars, run, mainVars>>
      /\ files' = [files EXCEPT ![out_filename] =
                     File(m_sequence, IF Crypto # 0 THEN key ELSE NoKey, ~out_bad)]
  BY Zenon DEF CloseSegment
<1>2. /\ index_pc = "idle" /\ index_pc' = "idle" /\ m_sequence \in 1..MaxSegments
      /\ m_sequence' = m_sequence /\ m_segments' = m_segments /\ run' = run
      /\ key' = key /\ key_filename' = key_filename /\ key_files' = key_files
      /\ out_filename' = out_filename /\ out_bad' = out_bad
      /\ out_filename = Filename[m_sequence] /\ Filename[m_sequence] \in Uris
  BY <1>1 DEF TypeInv, TypeOK, Control, indexVars, liveVars, mainVars, FileInv
<1> DEFINE new == files'[Filename[m_sequence]]
<1>3. /\ new = File(m_sequence, IF Crypto # 0 THEN key ELSE NoKey, ~out_bad)
      /\ \A u \in Uris \ {Filename[m_sequence]} : files'[u] = files[u]
  <2>1. files \in [Uris -> Contents \cup {NoFile}]
    BY DEF TypeInv, TypeOK
  <2> QED  BY <1>1, <1>2, <2>1, Zenon
<1>4. new \in Contents /\ new # NoFile
  <2>1. (IF Crypto # 0 THEN key ELSE NoKey) \in Keys \cup {NoKey}
    BY DEF TypeInv, TypeOK
  <2>2. (~out_bad) \in BOOLEAN
    BY DEF TypeInv, TypeOK
  <2> QED  BY <1>2, <1>3, <2>1, <2>2, StoredIsFile, WindowTypes
<1>5. /\ new.run = run /\ new.n = m_sequence
      /\ new.key = IF Crypto # 0 THEN key ELSE NoKey
  BY <1>3 DEF File
<1>6. new.whole = ~out_bad
  <2> DEFINE file(b) == File(m_sequence, IF Crypto # 0 THEN key ELSE NoKey, b)
  <2>1. \A b : file(b).whole = b
    BY FileWhole
  <2>2. new = file(~out_bad)
    BY <1>3, Zenon
  <2> HIDE DEF file, new
  <2> QED  BY <2>1, <2>2, Zenon
<1>7. Unfailing => out_bad = FALSE /\ new.whole
  BY <1>6 DEF FileInv
<1> HIDE DEF new
<1>8. /\ \A u \in Uris : files'[u] # NoFile => files'[u].run <= run'
      /\ (\A n \in KeptFrom .. m_sequence - 1 : Stored(n))'
  BY <1>2, <1>3, <1>5, KeptStored DEF new
<1>9. SwitchesKeys => \E k \in 1..m_sequence : KeyOf(k, m_sequence) /\ new.key = FreshKey(k)
  BY <1>1, <1>5 DEF SwitchesKeys, FileInv, KeyFileInv, HasKeyOf
<1>10. Stored(m_sequence)'
  BY <1>2, <1>4, <1>5, <1>7, <1>9 DEF Stored, FreshKey, new
<1>11. SwitchesKeys => KeyFileInv'
  BY <1>1, <1>2 DEF FileInv, KeyFileInv, HasKeyOf, FreshKey
<1> QED  BY <1>1, <1>2, <1>7, <1>8, <1>10, <1>11 DEF FileInv

LEMMA FileAdd ==
  ASSUME TypeInv, ListInv, FileInv, AddToIndex
  PROVE  FileInv'
<1> USE Assumptions DEF SegmenterAssumption
<1>1. /\ pc = "add" /\ pc' = "wait" /\ index_pc = "idle" /\ m_sequence' = m_sequence + 1
      /\ run' = run /\ UNCHANGED mainVars /\ files' = files
      /\ IF Live THEN m_segments' = Append(m_segments, NewSegment) ELSE m_segments' = m_segments
  BY DEF AddToIndex, LiveAddSegment, AddSegment, liveVars
<1>2. /\ key' = key /\ key_filename' = key_filename /\ key_files' = key_files
      /\ out_bad' = out_bad
  BY <1>1 DEF mainVars
<1>3. Live => /\ Len(m_segments') = Len(m_segments) + 1
              /\ Len(m_segments) = InWindow(m_sequence - 1)
  <2>1. NewSegment \in Segment
    BY <1>1, NewSegmentType DEF TypeInv, Control
  <2> QED  BY <1>1, <2>1, WindowTypes, Extended DEF ListInv, LiveInv
<1>4. KeptFrom' = KeptFrom /\ \A n : Stored(n)' = Stored(n)
  <2>1. \A n : Stored(n)' = Stored(n)
    BY <1>1 DEF Stored, FreshKey
  <2>2. Live => WindowStart' = WindowStart
    BY SMTT(30), <1>1, <1>3, WindowTypes DEF WindowStart
  <2> QED  BY <2>1, <2>2 DEF KeptFrom
<1>5. (\A n \in KeptFrom .. m_sequence - 1 : Stored(n))'
  <2> SUFFICES ASSUME NEW n \in KeptFrom .. m_sequence
               PROVE  Stored(n)
    BY <1>1, <1>4, WindowTypes
  <2>1. CASE n = m_sequence
    BY <1>1, <2>1 DEF FileInv
  <2>2. CASE n # m_sequence
    <3>1. n \in KeptFrom .. m_sequence - 1
      BY <2>2, WindowTypes DEF KeptFrom
    <3> QED  BY <3>1 DEF FileInv
  <2> QED  BY <2>1, <2>2
<1>6. (Live /\ index_pc # "idle" /\ Len(m_segments) = NumSegments /\ Seen >= NumSegments
         => files[Filename[m_sequence - 1 - NumSegments]] = NoFile)'
  <2> SUFFICES ASSUME Live, index_pc' # "idle", Seen' >= NumSegments
               PROVE  Len(m_segments') # NumSegments
    OBVIOUS
  <2>1. Seen' = m_sequence - 1
    BY <1>1, WindowTypes DEF Seen
  <2> QED  BY <1>3, <2>1, WindowTypes DEF InWindow
<1>7. SwitchesKeys => KeyFileInv'
  <2> SUFFICES ASSUME SwitchesKeys PROVE KeyFileInv'
    OBVIOUS
  <2>1. /\ HasKeyOf(m_sequence)
        /\ \A k \in 1..m_sequence : k % Crypto = 1 => key_files[KeyFilename[k]] = FreshKey(k)
    BY <1>1 DEF FileInv, KeyFileInv
  <2>2. m_sequence' - 1 = m_sequence
    BY <1>1, WindowTypes
  <2>3. HasKeyOf(m_sequence - 1)'
    BY <1>1, <1>2, <2>1, <2>2 DEF HasKeyOf, FreshKey
  <2>4. ASSUME NEW k \in 1..m_sequence', k % Crypto = 1, k = m_sequence' => pc' \in {"copy", "close", "add"}
        PROVE  key_files'[KeyFilename[k]] = FreshKey(k)
    <3>1. k \in 1..m_sequence
      BY <1>1, <2>4, WindowTypes
    <3> QED  BY <1>1, <1>2, <2>1, <2>4, <3>1
  <2> QED  BY <1>1, <2>3, <2>4 DEF KeyFileInv, FreshKey
<1> QED  BY <1>1, <1>2, <1>5, <1>6, <1>7 DEF FileInv

(* The window is only ever shrunk by its oldest segment.                   *)
LEMMA TrimsOldest ==
  ASSUME TypeInv, ListInv, Trim
  PROVE  /\ Live /\ index_pc = "trim" /\ index_pc' = "trim"
         /\ m_sequence' = m_sequence /\ m_segments' = Tail(m_segments)
         /\ Len(m_segments) = NumSegments + 1 /\ Len(m_segments') = NumSegments
         /\ WindowStart = m_sequence - 1 - NumSegments /\ WindowStart' = WindowStart + 1
         /\ WindowStart \in 1..MaxSegments /\ Seen >= NumSegments
         /\ Filename[WindowStart] \in Uris
         /\ files' = [files EXCEPT ![Filename[WindowStart]] = NoFile]
<1> USE Assumptions DEF SegmenterAssumption
<1>1. /\ Live /\ index_pc = "trim" /\ index_pc' = "trim" /\ m_sequence' = m_sequence
      /\ m_segments' = Tail(m_segments) /\ Len(m_segments) > NumSegments
      /\ files' = [files EXCEPT ![Head(m_segments).uri] = NoFile]
  BY DEF Trim, TypeInv, Control, indexVars, m_unlink
<1>2. /\ Len(m_segments) \in {InWindow(Seen) + 1, InWindow(Seen + 1)}
      /\ \A j \in 1..Len(m_segments) : IsSegment(m_segments[j], WindowStart + j - 1)
      /\ m_sequence > 1
  BY <1>1 DEF ListInv, LiveInv
<1>3. Len(m_segments) = NumSegments + 1 /\ Seen >= NumSegments
  BY <1>1, <1>2, WindowTypes DEF InWindow, Seen
<1>4. Head(m_segments) = m_segments[1] /\ Len(m_segments') = NumSegments
  BY <1>1, <1>3, WindowTypes, HeadTailProperties
<1>5. WindowStart = m_sequence - 1 - NumSegments /\ WindowStart' = WindowStart + 1
  BY <1>1, <1>3, <1>4, WindowTypes DEF WindowStart
<1>6. IsSegment(m_segments[1], WindowStart)
  <2>1. 1 \in 1..Len(m_segments) /\ WindowStart + 1 - 1 = WindowStart
    BY <1>3, WindowTypes
  <2> QED  BY <1>2, <2>1
<1> QED  BY <1>1, <1>3, <1>4, <1>5, <1>6 DEF IsSegment, NamesAssumption

LEMMA FileTrim ==
  ASSUME TypeInv, ListInv, FileInv, Trim, UNCHANGED <<run, pc, mainVars>>
  PROVE  FileInv'
<1> USE Assumptions DEF SegmenterAssumption
<1>1. /\ Live /\ index_pc = "trim" /\ index_pc' = "trim"
      /\ m_sequence' = m_sequence
      /\ WindowStart = m_sequence - 1 - NumSegments /\ WindowStart' = WindowStart + 1
      /\ WindowStart \in 1..MaxSegments /\ Filename[WindowStart] \in Uris
      /\ files' = [files EXCEPT ![Filename[WindowStart]] = NoFile]
  BY TrimsOldest
<1>2. /\ run' = run /\ pc' = pc /\ key' = key /\ key_filename' = key_filename
      /\ key_files' = key_files /\ out_bad' = out_bad /\ out_filename' = out_filename
  BY DEF mainVars
<1>3. pc \notin {"key", "copy", "close", "add"}
  BY <1>1 DEF TypeInv, Control
<1>4. /\ \A u \in Uris \ {Filename[WindowStart]} : files'[u] = files[u]
      /\ files'[Filename[WindowStart]] = NoFile
  BY <1>1 DEF TypeInv, TypeOK
<1>5. \A u \in Uris : files'[u] # NoFile => files'[u].run <= run'
  BY <1>2, <1>4 DEF FileInv
<1>6. (\A n \in KeptFrom .. m_sequence - 1 : Stored(n))'
  <2> SUFFICES ASSUME NEW n \in WindowStart + 1 .. m_sequence - 1
               PROVE  Stored(n)'
    BY <1>1 DEF KeptFrom
  <2>1. n \in 1..MaxSegments /\ WindowStart < n /\ n - WindowStart <= NumSegments
    BY SMTT(30), <1>1, WindowTypes
  <2>2. Filename[n] # Filename[WindowStart] /\ Filename[n] \in Uris
    BY <1>1, <2>1 DEF NamesAssumption
  <2>3. Stored(n)
    BY <1>1, WindowTypes DEF FileInv, KeptFrom
  <2>4. files'[Filename[n]] = files[Filename[n]]
    BY <1>4, <2>2
  <2> QED  BY <1>2, <2>3, <2>4 DEF Stored, FreshKey
<1>7. SwitchesKeys => KeyFileInv'
  BY <1>1, <1>2 DEF FileInv, KeyFileInv, HasKeyOf, FreshKey
<1>8. Unfailing => out_bad' = FALSE
  BY <1>2 DEF FileInv
<1>9. files'[Filename[m_sequence' - 1 - NumSegments]] = NoFile
  BY <1>1, <1>4
<1> QED  BY <1>2, <1>3, <1>5, <1>6, <1>7, <1>8, <1>9 DEF FileInv

LEMMA FileRestart ==
  ASSUME TypeInv, FileInv, Restart
  PROVE  FileInv'
<1> USE Assumptions DEF SegmenterAssumption
<1>1. /\ m_sequence' = 1 /\ pc' = "begin" /\ out_bad' = FALSE /\ index_pc' = "idle"
      /\ m_segments' = <<>> /\ run' = run + 1 /\ files' = files
  BY DEF Restart
<1>2. \A u \in Uris : files'[u] # NoFile => files'[u].run <= run'
  <2> SUFFICES ASSUME NEW u \in Uris, files[u] # NoFile
               PROVE  files[u].run <= run + 1
    BY <1>1
  <2>1. files[u] \in Contents
    BY DEF TypeInv, TypeOK
  <2> QED  BY <2>1, WindowTypes DEF FileInv, Contents
<1>3. (KeptFrom .. m_sequence - 1)' = {}
  BY <1>1 DEF KeptFrom, WindowStart
<1>4. SwitchesKeys => KeyFileInv'
  BY <1>1, FirstSwitch DEF KeyFileInv
<1> QED  BY <1>1, <1>2, <1>3, <1>4 DEF FileInv

LEMMA FileStep ==
  ASSUME TypeInv, ListInv, FileInv, [Next]_vars
  PROVE  FileInv'
<1>1. CASE BeginIndex
  <2>1. UNCHANGED <<m_sequence, m_segments, files, run, mainVars>> /\ UNCHANGED index_pc
    BY <1>1 DEF BeginIndex, LiveBegin, Begin, indexVars, liveVars
  <2>2. pc' = "open" /\ m_sequence = 1
    BY <1>1 DEF BeginIndex, TypeInv, Control
  <2>3. index_pc = "idle"
    BY <1>1 DEF BeginIndex, TypeInv, Control
  <2> QED  BY <2>1, <2>2, <2>3, FileFrame
<1>2. CASE AddToIndex
  BY <1>2, FileAdd
<1>3. CASE IndexWorks
  <2>1. UNCHANGED <<run, pc, mainVars>>
    BY <1>3 DEF IndexWorks
  <2>2. CASE Trim
    BY <2>1, <2>2, FileTrim
  <2>3. CASE \/ Flush /\ UNCHANGED <<liveVars, files>>
             \/ OpenTemp \/ WriteNext \/ CloseTemp \/ Rename
    <3>1. UNCHANGED <<m_sequence, m_segments, files>> /\ index_pc # "idle"
      BY <2>3 DEF Flush, OpenTemp, WriteNext, CloseTemp, Rename, liveVars
    <3>2. UNCHANGED <<m_sequence, m_segments, files, run, mainVars>> /\ pc' = pc
      BY <2>1, <3>1
    <3> QED  BY <3>1, <3>2, FileFrame
  <2> QED  BY <1>3, <2>2, <2>3 DEF IndexWorks
<1>4. CASE EndIndex
  <2>1. /\ UNCHANGED <<m_sequence, m_segments, files, run, mainVars>> /\ pc' = "done"
        /\ index_pc' = "idle"
    BY <1>4 DEF EndIndex, LiveEnd, End, liveVars, TypeInv, Control
  <2> QED  BY <2>1, FileFrame
<1>5. CASE NextRound
  <2>1. /\ UNCHANGED <<m_sequence, m_segments, files, run, mainVars>>
        /\ pc' = "end" \/ (pc' = "open" /\ pc = "wait")
        /\ index_pc' = "idle"
    BY <1>5 DEF NextRound, indexVars, liveVars
  <2> QED  BY <2>1, FileFrame
<1>6. CASE Die
  <2>1. /\ UNCHANGED <<m_sequence, m_segments, files, run, mainVars>> /\ pc' = "dead"
        /\ index_pc' = index_pc
    BY <1>6 DEF Die, indexVars, liveVars
  <2> QED  BY <2>1, FileFrame
<1>7. CASE UNCHANGED vars
  <2>1. /\ UNCHANGED <<m_sequence, m_segments, files, run, mainVars>> /\ pc' = pc
        /\ index_pc' = index_pc
    BY <1>7 DEF vars, indexVars, liveVars
  <2> QED  BY <2>1, FileFrame
<1> QED
  BY <1>1, <1>2, <1>3, <1>4, <1>5, <1>6, <1>7, FileOpen, FileKey, FileCopy, FileClose, FileRestart
  DEF Next, Works

(***************************************************************************)
(* What a reader of the published index finds.                             *)
(***************************************************************************)

FilesInv == TypeInv /\ ListInv /\ FileInv

LEMMA FilesInvariant == Spec => []FilesInv
<1>1. Init => FilesInv
  BY TypeInit, ListInit, FileInit DEF FilesInv
<1>2. FilesInv /\ [Next]_vars => FilesInv'
  BY TypeStep, ListStep, FileStep DEF FilesInv
<1> QED  BY <1>1, <1>2, PTL DEF Spec

LEMMA CountTypes ==
  ASSUME TypeInv
  PROVE  /\ Seen \in Int /\ KeptFrom \in Nat \ {0}
         /\ \A k \in Int : InWindow(k) \in Int /\ InWindow(k) <= k /\ InWindow(k) <= NumSegments
BY WindowTypes DEF Seen, KeptFrom, InWindow

LEMMA NumberedUpwards ==
  ASSUME NEW l \in Seq(Line), NEW f \in Int, NEW a \in Int, Numbered(l, f, a)
  PROVE  f <= a
<1>1. Len(l) \in Nat /\ Len(l) + 1 - 1 = Len(l)
  OBVIOUS
<1> QED  BY <1>1, SegmentsFinite DEF Numbered, NumberOf

(* A published list is numbered, up to the last segment it has seen.       *)
LEMMA PublishedNumbers ==
  ASSUME FilesInv, Published
  PROVE  /\ playlist \in Seq(Line) /\ Seen # 0 /\ Seen + 1 \in 1 .. m_sequence
         /\ LET first == IF Live THEN Seen + 1 - InWindow(Seen) ELSE 1 IN
            first \in Int /\ Numbered(playlist, first, Seen + 1)
<1> USE Assumptions DEF SegmenterAssumption, FilesInv
<1>1. playlist \in Seq(Line) /\ playlist # <<>>
  BY WindowTypes DEF Published, HasHeader
<1>2. CASE Live
  <2>1. Seen # 0 /\ Numbered(playlist, Seen + 1 - InWindow(Seen), Seen + 1)
    BY <1>2 DEF ListInv, LiveInv
  <2> QED  BY <1>1, <1>2, <2>1, PublishedList, WindowTypes DEF ListInv, LiveInv, Seen
<1>3. CASE ~Live
  <2>1. VodInv
    BY <1>3 DEF ListInv
  <2>2. Seen # 0 /\ Numbered(playlist, 1, Seen + 1) /\ m_sequence - 1 >= Seen
    BY <1>1, <2>1, WindowTypes DEF VodInv, Seen
  <2>3. Seen >= 0
    BY <1>1, <2>2, CountTypes, NumberedUpwards
  <2> QED  BY <1>1, <1>3, <2>2, <2>3, WindowTypes DEF Seen
<1> QED  BY <1>2, <1>3

(* The file of a listed segment is there, but perhaps for that of the      *)
(* first, which a live index has just removed.                             *)
LEMMA ListedFiles ==
  ASSUME FilesInv, Published, NEW i \in Listed
  PROVE  LET n == NumberOf(playlist, i) IN
         /\ IsSegment(playlist[i].seg, n) /\ n < m_sequence
         /\ \/ Stored(n)
            \/ /\ Live /\ index_pc # "idle"
               /\ n = Seen + 1 - InWindow(Seen)
               /\ files[Filename[n]] = NoFile
<1>t. TypeInv /\ ListInv /\ FileInv /\ NumSegments \in Nat
  BY WindowTypes DEF FilesInv
<1>w. /\ Seen \in Int /\ KeptFrom \in Nat \ {0} /\ m_sequence \in Nat /\ Len(m_segments) \in Nat
      /\ InWindow(Seen) \in Int /\ InWindow(Seen) <= NumSegments
  BY <1>t, WindowTypes, CountTypes
<1>1. i \in Segments(playlist)
  BY DEF Listed, Published
<1>2. PICK first \in Int :
        /\ first = IF Live THEN Seen + 1 - InWindow(Seen) ELSE 1
        /\ playlist \in Seq(Line) /\ Seen # 0 /\ Seen + 1 \in 1 .. m_sequence
        /\ Numbered(playlist, first, Seen + 1)
  BY PublishedNumbers
<1>3. PICK n \in Int : n = NumberOf(playlist, i) /\ n \in first .. Seen
  <2>1. Seen + 1 \in Int /\ (Seen + 1) - 1 = Seen
    BY <1>w
  <2>2. NumberOf(playlist, i) \in first .. (Seen + 1) - 1
    BY <1>1, <1>2, <2>1, ListedNumbers
  <2> QED  BY <1>w, <2>1, <2>2
<1>4. IsSegment(playlist[i].seg, n)
  BY <1>1, <1>2, <1>3 DEF Numbered
<1>5. n < m_sequence /\ Seen \in Int
  BY <1>2, <1>3, <1>w, <1>w
<1>6. CASE n >= KeptFrom
  <2>1. n \in KeptFrom .. m_sequence - 1
    BY <1>3, <1>5, <1>6, <1>w
  <2>2. Stored(n)
    BY <1>t, <2>1 DEF FileInv
  <2> QED  BY <1>3, <1>4, <1>5, <2>2
<1>7. CASE n < KeptFrom
  <2>1. /\ Live /\ n < m_sequence - Len(m_segments) /\ n >= Seen + 1 - InWindow(Seen)
        /\ KeptFrom = WindowStart
    BY <1>2, <1>3, <1>7, <1>w DEF KeptFrom, WindowStart
  <2>2. IF index_pc = "trim"
          THEN Len(m_segments) \in {InWindow(Seen) + 1, InWindow(Seen + 1)}
          ELSE Len(m_segments) = InWindow(m_sequence - 1)
    BY <1>t, <2>1 DEF ListInv, LiveInv
  <2>3. index_pc # "idle" /\ Seen = m_sequence - 2
    <3>1. CASE index_pc = "idle"
      <4>1. Seen = m_sequence - 1 /\ Len(m_segments) = InWindow(Seen)
        BY <2>2, <3>1 DEF Seen
      <4> QED  BY <1>t, <2>1, <4>1, <1>w
    <3> QED  BY <3>1 DEF Seen
  <2>4. Len(m_segments) = InWindow(Seen + 1)
    <3>1. Seen + 1 = m_sequence - 1
      BY <1>t, <2>3, <1>w
    <3>2. Len(m_segments) # InWindow(Seen) + 1
      BY <1>5, <1>t, <2>1, <2>3, <1>w
    <3> QED  BY <2>2, <3>1, <3>2
  <2>5. /\ Seen >= NumSegments /\ Len(m_segments) = NumSegments
        /\ n = Seen + 1 - InWindow(Seen) /\ n = m_sequence - 1 - NumSegments
    BY <1>2, <1>5, <1>t, <2>1, <2>3, <2>4, <1>w DEF InWindow
  <2>6. files[Filename[n]] = NoFile
    BY <1>t, <2>1, <2>3, <2>5 DEF FileInv
  <2> QED  BY <1>3, <1>4, <1>5, <2>1, <2>3, <2>5, <2>6
<1> QED  BY <1>6, <1>7, <1>w

(* Whatever a published index lists can be played: the file under its URI  *)
(* was written for that entry by this start of the program, its number,    *)
(* the IV of its encryption, is the one that a reader computes, and its    *)
(* key is in the key file that the entry names.  With -c 1 no key is ever  *)
(* made, see the run one_segment_per_key.                                  *)
THEOREM ListedArePlayable ==
  ASSUME Crypto # 1
  PROVE  Spec => []ListedSegmentsPlayable
<1> USE Assumptions DEF SegmenterAssumption, NamesAssumption
<1>1. FilesInv => ListedSegmentsPlayable
  <2> SUFFICES ASSUME FilesInv, Published, NEW i \in Listed,
                      files[playlist[i].seg.uri] # NoFile
               PROVE  PlayableAs(files[playlist[i].seg.uri], playlist[i].seg,
                                 NumberOf(playlist, i))
    BY DEF ListedSegmentsPlayable
  <2> DEFINE n == NumberOf(playlist, i)
             seg == playlist[i].seg
  <2>1. IsSegment(seg, n) /\ n < m_sequence /\ seg.uri = Filename[n] /\ n \in 1..MaxSegments
    BY ListedFiles DEF IsSegment
  <2>2. Stored(n)
    BY <2>1, ListedFiles
  <2> HIDE DEF n, seg
  <2>3. files[seg.uri].run = run /\ files[seg.uri].n = n
    BY <2>1, <2>2 DEF Stored
  <2>4. CASE Crypto = 0
    BY <2>1, <2>2, <2>3, <2>4 DEF Stored, IsSegment, PlayableAs, n, seg
  <2>5. CASE Crypto # 0
    <3>1. SwitchesKeys
      BY <2>5 DEF SwitchesKeys
    <3>2. PICK k \in 1..n : KeyOf(k, n) /\ seg.key_uri = KeyFilename[k]
      BY <2>1, <3>1 DEF IsSegment
    <3>3. PICK j \in 1..n : KeyOf(j, n) /\ files[seg.uri].key = FreshKey(j)
      BY <2>1, <2>2, <3>1 DEF Stored
    <3>4. j = k
      BY <2>1, <3>2, <3>3, KeyOfUnique
    <3>5. k \in 1..m_sequence /\ k # m_sequence /\ k % Crypto = 1 /\ k \in 1..MaxSegments
      BY <2>1, <3>2, WindowTypes DEF KeyOf, FilesInv
    <3>6. key_files[KeyFilename[k]] = FreshKey(k) /\ KeyFilename[k] \in KeyUris
      BY <3>1, <3>5 DEF FilesInv, FileInv, KeyFileInv
    <3>7. KeyTag(seg) # DefaultTag
      BY <2>1, <3>1 DEF IsSegment, KeyTag, DefaultTag
    <3> QED  BY <2>3, <3>2, <3>3, <3>4, <3>6, <3>7 DEF PlayableAs, n, seg
  <2> QED  BY <2>4, <2>5
<1> QED  BY <1>1, FilesInvariant, PTL

(* A listed file may be missing only in a live stream, only the first one  *)
(* of the list, and only while the index is about to be replaced.          *)
THEOREM OldestMayBeMissing == Spec => []OnlyOldestMissing
<1>1. FilesInv => OnlyOldestMissing
  <2> SUFFICES ASSUME FilesInv, Published, NEW i \in Listed,
                      files[playlist[i].seg.uri] = NoFile
               PROVE  /\ Live
                      /\ \A j \in Listed : i <= j
                      /\ index_pc \in {"trim", "write", "rename"}
    BY DEF OnlyOldestMissing
  <2>1. ~Stored(NumberOf(playlist, i))
    BY ListedFiles DEF Stored, IsSegment
  <2>2. /\ Live /\ index_pc # "idle"
        /\ NumberOf(playlist, i) = Seen + 1 - InWindow(Seen)
    BY <2>1, ListedFiles
  <2>3. index_pc \in {"trim", "write", "rename"}
    BY <2>2 DEF FilesInv, TypeInv, TypeOK, Control
  <2>4. ASSUME NEW j \in Listed
        PROVE  i <= j
    <3>1. /\ playlist \in Seq(Line) /\ Listed = SegmentsUpTo(playlist, Len(playlist))
          /\ Listed \subseteq 1 .. Len(playlist)
      BY PublishedNumbers DEF Listed, Published, Segments, SegmentsUpTo
    <3>2. playlist[1].first = Seen + 1 - InWindow(Seen) /\ playlist[1].first \in Int
      BY <2>2, PublishedNumbers DEF Numbered
    <3>3. NumberOf(playlist, j) >= playlist[1].first
      BY <3>1, <3>2, NumbersIncrease
    <3>4. ASSUME j < i
          PROVE  NumberOf(playlist, j) < NumberOf(playlist, i)
      <4>1. i \in j+1 .. Len(playlist) /\ j \in SegmentsUpTo(playlist, Len(playlist))
        BY <3>1, <3>4
      <4> QED  BY <3>1, <3>2, <4>1, NumbersIncrease
    <3>5. NumberOf(playlist, j) \in Int
      BY <3>1, <3>2, NumbersIncrease
    <3> QED  BY <2>2, <3>1, <3>2, <3>3, <3>4, <3>5
  <2> QED  BY <2>2, <2>3, <2>4
<1> QED  BY <1>1, FilesInvariant, PTL

(* Every listed file is complete, unless it is encrypted and the disk was  *)
(* full for a while: the error of an encrypting stream gets lost.          *)
THEOREM ListedAreWhole ==
  ASSUME Crypto = 0 \/ ~DiskMayFail
  PROVE  Spec => []ListedSegmentsWhole
<1>1. FilesInv => ListedSegmentsWhole
  BY ListedFiles DEF ListedSegmentsWhole, Stored, IsSegment, Unfailing
<1> QED  BY <1>1, FilesInvariant, PTL

(* Whenever main() is at work on a segment, the index lists the one before *)
(* it under the number that Sequence() gave it.                            *)
THEOREM IndexIsUpToDate == Spec => []IndexUpToDate
<1> USE Assumptions DEF SegmenterAssumption
<1>1. FilesInv => IndexUpToDate
  <2> SUFFICES ASSUME FilesInv, pc \in {"open", "key", "copy", "close", "add"}, m_sequence > 1
               PROVE  /\ Published
                      /\ NumberOf(playlist, Len(playlist) + 1) = m_sequence
                      /\ \/ m_sequence - 1 \in {NumberOf(playlist, i) : i \in Listed}
                         \/ NumSegments = 0
    BY DEF IndexUpToDate
  <2> USE DEF FilesInv
  <2>1. index_pc = "idle" /\ Seen + 1 = m_sequence /\ Seen # 0
    BY WindowTypes DEF TypeInv, Control, Seen
  <2>2. Published
    <3>1. CASE Live
      BY <2>1, <3>1 DEF ListInv, LiveInv
    <3>2. CASE ~Live
      BY <2>1, <3>2, NumberedPublished DEF ListInv, VodInv
    <3> QED  BY <3>1, <3>2
  <2> DEFINE first == IF Live THEN Seen + 1 - InWindow(Seen) ELSE 1
  <2>3. first \in Int /\ Numbered(playlist, first, m_sequence)
    BY <2>1, <2>2, PublishedNumbers
  <2>4. NumSegments # 0 => m_sequence - 1 \in first .. m_sequence - 1
    BY <2>1, WindowTypes, CountTypes DEF InWindow
  <2> HIDE DEF first
  <2>5. Listed = Segments(playlist)
    BY <2>2 DEF Listed, Published
  <2> QED  BY <2>2, <2>3, <2>4, <2>5 DEF Numbered
<1> QED  BY <1>1, FilesInvariant, PTL

(***************************************************************************)
(* The room that a live stream takes on the disk.                          *)
(***************************************************************************)

LEMMA DiskInit == Init => DiskInv
BY DEF Init, DiskInv, OwnFiles

(* No file is added, and no number is given up.                            *)
LEMMA DiskFrame ==
  ASSUME DiskInv, files' = files, run' = run, WindowStart' = WindowStart,
         WindowStart \in Int, NewestOnDisk \in Int, NewestOnDisk' \in Int,
         NewestOnDisk' >= NewestOnDisk
  PROVE  DiskInv'
<1> SUFFICES ASSUME Live, NEW u \in Uris, files[u] # NoFile, files[u].run = run
             PROVE  \E n \in WindowStart .. NewestOnDisk' : n <= MaxSegments /\ u = Filename[n]
  BY DEF DiskInv, OwnFiles
<1>1. PICK n \in WindowStart .. NewestOnDisk : n <= MaxSegments /\ u = Filename[n]
  BY DEF DiskInv, OwnFiles
<1>2. n \in WindowStart .. NewestOnDisk'
  BY <1>1
<1> QED  BY <1>1, <1>2

(* Only the file of the segment at work is written.                        *)
LEMMA DiskWrite ==
  ASSUME TypeInv, DiskInv, index_pc = "idle", index_pc' = "idle", run' = run,
         m_sequence' = m_sequence, m_segments' = m_segments, m_sequence <= MaxSegments,
         \A u \in Uris \ {Filename[m_sequence]} : files'[u] = files[u]
  PROVE  DiskInv'
<1> SUFFICES ASSUME Live, NEW u \in Uris, files'[u] # NoFile, files'[u].run = run
             PROVE  \E n \in WindowStart .. NewestOnDisk : n <= MaxSegments /\ u = Filename[n]
  BY DEF DiskInv, OwnFiles, WindowStart, NewestOnDisk
<1>1. CASE u = Filename[m_sequence]
  <2>1. m_sequence \in WindowStart .. NewestOnDisk
    BY WindowTypes DEF WindowStart, NewestOnDisk
  <2> QED  BY <1>1, <2>1
<1>2. CASE u # Filename[m_sequence]
  <2>1. u \in OwnFiles
    BY <1>2 DEF OwnFiles
  <2> QED  BY <2>1 DEF DiskInv
<1> QED  BY <1>1, <1>2

LEMMA DiskTrim ==
  ASSUME TypeInv, ListInv, DiskInv, Trim, run' = run
  PROVE  DiskInv'
<1>1. /\ index_pc = "trim" /\ index_pc' = "trim" /\ m_sequence' = m_sequence
      /\ WindowStart' = WindowStart + 1 /\ Filename[WindowStart] \in Uris
      /\ files' = [files EXCEPT ![Filename[WindowStart]] = NoFile]
  BY TrimsOldest
<1>2. NewestOnDisk' = NewestOnDisk /\ NewestOnDisk \in Int /\ WindowStart \in Int
  BY <1>1, WindowTypes DEF NewestOnDisk
<1>3. /\ files'[Filename[WindowStart]] = NoFile
      /\ \A u \in Uris \ {Filename[WindowStart]} : files'[u] = files[u]
  BY <1>1 DEF TypeInv, TypeOK
<1> SUFFICES ASSUME Live, NEW u \in Uris, files'[u] # NoFile, files'[u].run = run
             PROVE  \E n \in WindowStart + 1 .. NewestOnDisk :
                      n <= MaxSegments /\ u = Filename[n]
  BY <1>1, <1>2 DEF DiskInv, OwnFiles
<1>4. u # Filename[WindowStart] /\ files'[u] = files[u]
  BY <1>3
<1>5. PICK n \in WindowStart .. NewestOnDisk : n <= MaxSegments /\ u = Filename[n]
  BY <1>4 DEF DiskInv, OwnFiles
<1>6. n \in WindowStart + 1 .. NewestOnDisk
  BY <1>2, <1>4, <1>5
<1> QED  BY <1>5, <1>6

LEMMA DiskStep ==
  ASSUME TypeInv, ListInv, FileInv, DiskInv, [Next]_vars
  PROVE  DiskInv'
<1> USE Assumptions DEF SegmenterAssumption
<1>t. WindowStart \in Int /\ NewestOnDisk \in Int /\ m_sequence \in Int
  BY WindowTypes DEF NewestOnDisk
<1>1. CASE OpenSegment
  <2>1. /\ index_pc = "idle" /\ index_pc' = "idle" /\ run' = run /\ m_sequence' = m_sequence
        /\ m_segments' = m_segments /\ m_sequence <= MaxSegments
        /\ files' = [files EXCEPT ![Filename[m_sequence]] = File(m_sequence, NoKey, FALSE)]
    BY <1>1 DEF OpenSegment, TypeInv, Control, indexVars, liveVars
  <2>2. \A u \in Uris \ {Filename[m_sequence]} : files'[u] = files[u]
    BY <2>1 DEF TypeInv, TypeOK
  <2> QED  BY <2>1, <2>2, DiskWrite
<1>2. CASE CloseSegment
  <2>1. /\ pc = "close" /\ UNCHANGED <<indexVars, liveVars, run>>
        /\ files' = [files EXCEPT ![out_filename] =
                       File(m_sequence, IF Crypto # 0 THEN key ELSE NoKey, ~out_bad)]
    BY <1>2, Zenon DEF CloseSegment
  <2>2. /\ index_pc = "idle" /\ index_pc' = "idle" /\ run' = run /\ m_sequence' = m_sequence
        /\ m_segments' = m_segments /\ m_sequence <= MaxSegments
        /\ out_filename = Filename[m_sequence]
    BY <2>1 DEF TypeInv, Control, indexVars, liveVars, FileInv
  <2>3. files \in [Uris -> Contents \cup {NoFile}]
    BY DEF TypeInv, TypeOK
  <2>4. \A u \in Uris \ {Filename[m_sequence]} : files'[u] = files[u]
    BY <2>1, <2>2, <2>3, Zenon
  <2> QED  BY <2>2, <2>4, DiskWrite
<1>3. CASE AddToIndex
  <2>1. CASE Live
    <3>1. /\ pc = "add" /\ index_pc = "idle" /\ index_pc' # "idle" /\ run' = run /\ files' = files
          /\ m_sequence' = m_sequence + 1 /\ m_segments' = Append(m_segments, NewSegment)
      BY <1>3, <2>1 DEF AddToIndex, LiveAddSegment
    <3>2. NewSegment \in Segment
      BY <3>1, NewSegmentType DEF TypeInv, Control
    <3>3. Len(m_segments') = Len(m_segments) + 1
      BY <3>1, <3>2, WindowTypes, Extended
    <3>4. WindowStart' = WindowStart /\ NewestOnDisk' = NewestOnDisk
      BY SMTT(30), <3>1, <3>3, WindowTypes DEF WindowStart, NewestOnDisk
    <3> QED  BY <1>t, <3>1, <3>4, DiskFrame
  <2> QED  BY <2>1 DEF DiskInv
<1>4. CASE IndexWorks
  <2>1. run' = run
    BY <1>4 DEF IndexWorks
  <2>2. CASE Trim
    BY <2>1, <2>2, DiskTrim
  <2>3. CASE \/ Flush /\ UNCHANGED <<liveVars, files>>
             \/ OpenTemp \/ WriteNext \/ CloseTemp \/ Rename
    <3>1. /\ files' = files /\ m_sequence' = m_sequence /\ m_segments' = m_segments
          /\ index_pc # "idle"
      BY <2>3 DEF Flush, OpenTemp, WriteNext, CloseTemp, Rename, liveVars
    <3>2. /\ WindowStart' = WindowStart /\ NewestOnDisk' >= NewestOnDisk /\ NewestOnDisk' \in Int
      BY <1>t, <3>1 DEF WindowStart, NewestOnDisk
    <3> QED  BY <1>t, <2>1, <3>1, <3>2, DiskFrame
  <2> QED  BY <1>4, <2>2, <2>3 DEF IndexWorks
<1>5. CASE Restart
  <2>1. run' = run + 1 /\ files' = files
    BY <1>5 DEF Restart
  <2>2. \A u \in Uris : files[u] # NoFile => files[u].run <= run /\ files[u].run \in Int
    BY SMTT(30) DEF FileInv, TypeInv, TypeOK, Contents
  <2>3. OwnFiles' = {}
    BY <2>1, <2>2, WindowTypes DEF OwnFiles
  <2> QED  BY <2>3 DEF DiskInv
<1>6. CASE BeginIndex \/ SwitchKey \/ Copies \/ NextRound \/ EndIndex \/ Die \/ UNCHANGED vars
  <2>1. /\ files' = files /\ m_sequence' = m_sequence /\ m_segments' = m_segments
        /\ run' = run /\ index_pc' = index_pc
    BY <1>6 DEF BeginIndex, LiveBegin, Begin, SwitchKey, Copies, CopySegment, NextRound,
       EndIndex, LiveEnd, End, Die, vars, indexVars, liveVars
  <2>2. WindowStart' = WindowStart /\ NewestOnDisk' = NewestOnDisk
    BY <2>1 DEF WindowStart, NewestOnDisk
  <2> QED  BY <1>t, <2>1, <2>2, DiskFrame
<1> QED  BY <1>1, <1>2, <1>3, <1>4, <1>5, <1>6 DEF Next, Works

(* A set whose elements all have numbers between a and b is not larger     *)
(* than the interval.                                                      *)
LEMMA NumberedSet ==
  ASSUME NEW S, NEW f, NEW a \in Int, NEW b \in Int, b >= a - 1,
         \A u \in S : \E n \in a..b : u = f[n]
  PROVE  IsFiniteSet(S) /\ Cardinality(S) <= b - a + 1
<1> DEFINE g == [u \in S |-> CHOOSE n \in a..b : u = f[n]]
<1>1. \A u \in S : g[u] \in a..b /\ u = f[g[u]]
  OBVIOUS
<1>2. g \in Injection(S, a..b)
  <2>1. g \in [S -> a..b]
    BY <1>1
  <2>2. \A u, v \in S : g[u] = g[v] => u = v
    BY <1>1, Zenon
  <2>3. DOMAIN g = S
    OBVIOUS
  <2> HIDE DEF g
  <2> QED  BY <2>1, <2>2, <2>3 DEF Injection, IsInjective
<1> HIDE DEF g
<1>3. IsFiniteSet(a..b) /\ Cardinality(a..b) = b - a + 1
  BY FS_Interval
<1>4. IsFiniteSet(S) /\ Cardinality(S) <= Cardinality(a..b)
  BY <1>2, <1>3, FS_Injection
<1> QED  BY <1>3, <1>4

(* A live stream does not fill the disk: at most the window and the one    *)
(* segment being written are there.                                        *)
THEOREM DiskIsBounded == Spec => []BoundedDisk
<1> USE Assumptions DEF SegmenterAssumption
<1>1. FilesInv /\ DiskInv => BoundedDisk
  <2> SUFFICES ASSUME FilesInv, DiskInv, Live
               PROVE  Cardinality(OwnFiles) <= NumSegments + 1
    BY DEF BoundedDisk
  <2>1. /\ WindowStart \in Int /\ NewestOnDisk \in Int /\ m_sequence \in Nat
        /\ Len(m_segments) \in Nat /\ TypeInv /\ ListInv
    BY WindowTypes DEF FilesInv, NewestOnDisk
  <2>2. /\ IF index_pc = "trim"
             THEN Len(m_segments) \in {InWindow(Seen) + 1, InWindow(Seen + 1)}
             ELSE Len(m_segments) = InWindow(m_sequence - 1)
        /\ index_pc # "idle" => m_sequence > 1
    BY <2>1 DEF ListInv, LiveInv
  <2>3. /\ Len(m_segments) <= NumSegments + 1
        /\ index_pc = "idle" => Len(m_segments) <= NumSegments
    <3>1. /\ InWindow(Seen) <= NumSegments /\ InWindow(Seen) \in Int
          /\ InWindow(Seen + 1) <= NumSegments /\ InWindow(Seen + 1) \in Int
          /\ InWindow(m_sequence - 1) <= NumSegments
      <4>1. Seen \in Int /\ \A k \in Int : InWindow(k) \in Int /\ InWindow(k) <= NumSegments
        BY <2>1, CountTypes
      <4>2. Seen + 1 \in Int /\ m_sequence - 1 \in Int
        BY <2>1, <4>1
      <4> QED  BY <4>1, <4>2
    <3> QED  BY <2>1, <2>2, <3>1
  <2>4. /\ NewestOnDisk >= WindowStart - 1
        /\ NewestOnDisk - WindowStart + 1 <= NumSegments + 1
    BY <2>1, <2>3 DEF WindowStart, NewestOnDisk
  <2>5. \A u \in OwnFiles : \E n \in WindowStart .. NewestOnDisk : u = Filename[n]
    BY DEF DiskInv
  <2>6. IsFiniteSet(OwnFiles) /\ Cardinality(OwnFiles) <= NewestOnDisk - WindowStart + 1
    BY <2>1, <2>4, <2>5, NumberedSet
  <2> QED  BY <2>1, <2>4, <2>6, FS_CardinalityType
<1>2. Init => DiskInv
  BY DiskInit
<1>3. FilesInv /\ DiskInv /\ [Next]_vars => DiskInv'
  BY DiskStep DEF FilesInv
<1> QED  BY <1>1, <1>2, <1>3, FilesInvariant, PTL DEF Spec

(***************************************************************************)
(* The published index implements the abstract list of segments of         *)
(* SegmentWindow.                                                          *)
(***************************************************************************)

(***************************************************************************)
(* Nothing follows the end of a list.                                      *)
(***************************************************************************)

LEMMA NothingEnded == ~Ended(<<>>)
BY DEF Ended

LEMMA ConcatNotEnded ==
  ASSUME NEW l \in Seq(Line), NEW k \in Seq(Line), ~Ended(l), ~Ended(k)
  PROVE  ~Ended(l \o k)
<1> SUFFICES ASSUME NEW i \in 1 .. Len(l \o k), (l \o k)[i].tag = "ENDLIST"
             PROVE  FALSE
  BY DEF Ended
<1>1. Len(l \o k) = Len(l) + Len(k) /\ Len(l) \in Nat /\ Len(k) \in Nat
  OBVIOUS
<1>2. CASE i <= Len(l)
  BY <1>1, <1>2, ConcatProperties DEF Ended
<1>3. CASE i > Len(l)
  <2>1. (l \o k)[i] = k[i - Len(l)] /\ i - Len(l) \in 1 .. Len(k)
    BY <1>1, <1>3, ConcatProperties
  <2> QED  BY <2>1 DEF Ended
<1> QED  BY <1>1, <1>2, <1>3

LEMMA SegmentNotEnded ==
  ASSUME TypeInv, NEW seg \in Segment, WriteSegment(seg), ~Ended(m_out)
  PROVE  ~Ended(m_out')
<1> DEFINE k == IF KeyTag(seg) # m_prev_crypto THEN Append(m_out, KeyLine(seg)) ELSE m_out
<1>1. /\ KeyLine(seg) \in Line /\ KeyLine(seg).tag # "ENDLIST"
      /\ ExtinfLine(seg) \in Line /\ ExtinfLine(seg).tag # "ENDLIST"
  BY LineTypes DEF KeyLine, ExtinfLine
<1>2. k \in Seq(Line) /\ ~Ended(k)
  BY <1>1, WindowTypes, NotEnded
<1> HIDE DEF k
<1>3. m_out' = Append(k, ExtinfLine(seg))
  BY WindowTypes, WriteSegmentIs DEF k, WithSegment
<1> QED  BY <1>1, <1>2, <1>3, NotEnded

LEMMA EndInit == Init => EndInv
BY NothingEnded DEF Init, ProgramInit, IndexInit, EndInv, Published

LEMMA EndStep ==
  ASSUME TypeInv, ListInv, EndInv, [Next]_vars
  PROVE  EndInv'
<1>e. ~Ended(m_out) /\ (index_pc = "rename" => ~Ended(temp))
  BY DEF EndInv
<1>1. CASE BeginIndex
  <2>1. pc = "begin" /\ index_pc = "idle" /\ pc' = "open"
    BY <1>1 DEF BeginIndex, TypeInv, Control
  <2>2. CASE Live
    <3>1. UNCHANGED <<m_out, playlist, index_pc, temp, run>>
      BY <1>1, <2>2 DEF BeginIndex, LiveBegin, indexVars, liveVars
    <3> QED  BY <2>1, <3>1 DEF EndInv, Published
  <2>3. CASE ~Live
    <3>1. playlist' = <<>> /\ m_out' = <<HeaderLine(1)>> /\ index_pc' = "idle"
      BY <1>1, <2>1, <2>3 DEF BeginIndex, Begin, WriteHeader
    <3>2. ~Ended(m_out') /\ ~Ended(playlist')
      BY <3>1, HeaderLists, WindowTypes, NothingEnded
    <3> QED  BY <3>1, <3>2 DEF EndInv
  <2> QED  BY <2>2, <2>3
<1>2. CASE AddToIndex
  <2>1. pc = "add" /\ index_pc' # "rename" /\ UNCHANGED <<playlist, run>>
    BY <1>2 DEF AddToIndex, LiveAddSegment, AddSegment
  <2>2. ~Ended(m_out')
    <3>1. NewSegment \in Segment
      BY <2>1, NewSegmentType DEF TypeInv, Control
    <3> QED  BY <1>e, <1>2, <3>1, SegmentNotEnded DEF AddToIndex, LiveAddSegment, AddSegment
  <2> QED  BY <2>1, <2>2 DEF EndInv, Published
<1>3. CASE IndexWorks
  <2>1. pc = "wait" /\ pc' = "wait" /\ run' = run
    BY <1>3 DEF IndexWorks
  <2>2. CASE Flush
    <3>1. /\ ~Live /\ index_pc = "flush" /\ index_pc' = "idle" /\ m_out' = <<>>
          /\ playlist' = playlist \o m_out
      BY <2>2 DEF Flush, TypeInv, Control
    <3>2. playlist \in Seq(Line) /\ ~Ended(playlist)
      <4>1. playlist \in Seq(Line) /\ (playlist = <<>> \/ Published)
        BY <2>1, <3>1, NumberedPublished DEF ListInv, VodInv
      <4> QED  BY <2>1, <4>1, NothingEnded DEF EndInv
    <3>3. ~Ended(playlist')
      BY <1>e, <3>1, <3>2, WindowTypes, ConcatNotEnded
    <3> QED  BY <3>1, <3>3, NothingEnded DEF EndInv
  <2>3. CASE Trim
    <3>1. UNCHANGED <<m_out, playlist, index_pc, temp>>
      BY <2>3 DEF Trim, indexVars
    <3> QED  BY <2>1, <3>1 DEF EndInv, Published
  <2>4. CASE OpenTemp
    <3>1. m_out' = <<HeaderLine(WindowStart)>> /\ index_pc' = "write" /\ playlist' = playlist
      BY <2>4 DEF OpenTemp, WriteHeader, WindowStart
    <3>2. ~Ended(m_out')
      BY <3>1, HeaderLists, WindowTypes
    <3> QED  BY <2>1, <3>1, <3>2 DEF EndInv, Published
  <2>5. CASE WriteNext
    <3>1. /\ index_pc' = "write" /\ playlist' = playlist /\ WriteSegment(m_segments[iter])
          /\ m_segments[iter] \in Segment
      BY <2>5 DEF WriteNext, TypeInv, TypeOK
    <3>2. ~Ended(m_out')
      BY <1>e, <3>1, SegmentNotEnded
    <3> QED  BY <2>1, <3>1, <3>2 DEF EndInv, Published
  <2>6. CASE CloseTemp
    <3>1. temp = <<>>
      BY <2>6 DEF CloseTemp, TypeInv, Control
    <3>2. temp' = m_out /\ m_out' = <<>> /\ playlist' = playlist
      BY <2>6, <3>1, WindowTypes DEF CloseTemp
    <3> QED  BY <1>e, <2>1, <3>2, NothingEnded DEF EndInv, Published
  <2>7. CASE Rename
    <3>1. index_pc = "rename" /\ playlist' = temp /\ m_out' = m_out /\ index_pc' = "idle"
      BY <2>7 DEF Rename
    <3> QED  BY <1>e, <3>1 DEF EndInv
  <2> QED  BY <1>3, <2>2, <2>3, <2>4, <2>5, <2>6, <2>7 DEF IndexWorks
<1>4. CASE EndIndex
  <2>1. index_pc' = "idle" /\ m_out' = <<>> /\ pc' = "done"
    BY <1>4 DEF EndIndex, LiveEnd, End
  <2> QED  BY <2>1, NothingEnded DEF EndInv
<1>5. CASE Restart
  <2>1. playlist' = playlist /\ run' = run + 1 /\ index_pc' = "idle" /\ m_out' = <<>>
    BY <1>5 DEF Restart
  <2>2. playlist # NoFile /\ HasHeader(playlist) => playlist[1].run \in Int /\ playlist[1].run <= run
    BY DEF ListInv, OldHeader, TypeInv, TypeOK, HasHeader, Line
  <2>3. ~Published'
    BY <2>1, <2>2, WindowTypes DEF Published
  <2> QED  BY <2>1, <2>3, NothingEnded DEF EndInv
<1>6. CASE OpenSegment \/ SwitchKey \/ CloseSegment \/ NextRound \/ Copies \/ Die
  <2>1. /\ UNCHANGED <<m_out, playlist, index_pc, temp, run>>
        /\ pc \notin {"done", "dead"}
    BY <1>6 DEF OpenSegment, SwitchKey, CloseSegment, NextRound, Copies, CopySegment, Die,
       indexVars, liveVars
  <2> QED  BY <2>1 DEF EndInv, Published
<1>7. CASE UNCHANGED vars
  BY <1>7 DEF EndInv, Published, vars, indexVars, liveVars
<1> QED  BY <1>1, <1>2, <1>3, <1>4, <1>5, <1>6, <1>7 DEF Next, Works

(***************************************************************************)
(* The entries of a text.                                                  *)
(***************************************************************************)

(* Each number of a list is that of one entry.                             *)
LEMMA NumberedEntries ==
  ASSUME NEW l \in Seq(Line), NEW f \in Int, NEW a \in Int, Numbered(l, f, a)
  PROVE  /\ Entries(l) \in Seq(Segment) /\ Len(Entries(l)) = a - f /\ a - f \in Nat
         /\ DOMAIN Entries(l) = 1 .. a - f
         /\ \A i \in Segments(l) :
              /\ NumberOf(l, i) \in f .. a-1
              /\ Entries(l)[NumberOf(l, i) - f + 1] = l[i].seg
         /\ \A n \in f .. a-1 : \E i \in Segments(l) : NumberOf(l, i) = n
<1> DEFINE count == Cardinality(Segments(l))
<1>1. count \in Nat /\ Len(l) \in Nat /\ l[1].first = f
  BY SegmentsFinite DEF Segments, Numbered
<1>2. count = a - f
  <2>1. Len(l) + 1 - 1 = Len(l)
    OBVIOUS
  <2> QED  BY <1>1, <2>1 DEF Numbered, NumberOf, Segments
<1>3. ASSUME NEW i \in Segments(l)
      PROVE  /\ NumberOf(l, i) \in f .. a-1
             /\ Cardinality(SegmentsUpTo(l, i)) = NumberOf(l, i) - f + 1
  <2>1. i \in 1..Len(l) /\ l[i].tag = "EXTINF" /\ i - 1 \in Nat /\ i - 1 + 1 = i
    BY DEF Segments, SegmentsUpTo
  <2>2. Cardinality(SegmentsUpTo(l, i)) = Cardinality(SegmentsUpTo(l, i - 1)) + 1
    BY <2>1, OneMoreLine
  <2>3. Cardinality(SegmentsUpTo(l, i - 1)) \in Nat
    BY <2>1, SegmentsFinite
  <2> QED  BY <1>1, <2>2, <2>3, ListedNumbers DEF NumberOf
<1>4. ASSUME NEW i \in Segments(l), NEW j \in Segments(l), NumberOf(l, i) = NumberOf(l, j)
      PROVE  i = j
  <2>1. /\ i \in SegmentsUpTo(l, Len(l)) /\ j \in SegmentsUpTo(l, Len(l))
        /\ i \in 1 .. Len(l) /\ j \in 1 .. Len(l) /\ l[1].first \in Int
    BY <1>1 DEF Segments, SegmentsUpTo
  <2>2. NumberOf(l, i) \in Int /\ NumberOf(l, j) \in Int
    BY <1>3
  <2>3. ~(i < j)
    BY <1>1, <1>4, <2>1, <2>2, NumbersIncrease
  <2>4. ~(j < i)
    BY <1>1, <1>4, <2>1, <2>2, NumbersIncrease
  <2> QED  BY <2>1, <2>3, <2>4
<1>5. ASSUME NEW i \in Segments(l)
      PROVE  LineOf(l, NumberOf(l, i) - f + 1) = i
  <2>1. \A j \in Segments(l) :
          Cardinality(SegmentsUpTo(l, j)) = NumberOf(l, i) - f + 1 => j = i
    BY <1>1, <1>3, <1>4
  <2> QED  BY <1>3, <2>1, Zenon DEF LineOf
<1>6. \A n \in f .. a-1 : \E i \in Segments(l) : NumberOf(l, i) = n
  BY DEF Numbered
<1>7. ASSUME NEW k \in 1 .. count
      PROVE  l[LineOf(l, k)].seg \in Segment
  <2>1. k + f - 1 \in f .. a-1 /\ (k + f - 1) - f + 1 = k
    BY <1>1, <1>2
  <2>2. PICK i \in Segments(l) : NumberOf(l, i) = k + f - 1
    BY <1>6, <2>1
  <2>3. LineOf(l, k) = i
    BY <1>5, <2>1, <2>2
  <2> QED  BY <2>3 DEF Segments, SegmentsUpTo, Line
<1>8. Entries(l) \in [1 .. count -> Segment]
  BY <1>7 DEF Entries
<1>9. Entries(l) \in Seq(Segment) /\ Len(Entries(l)) = count /\ DOMAIN Entries(l) = 1 .. count
  <2>1. Entries(l) \in Seq(Segment)
    BY <1>1, <1>8, SeqDef
  <2> QED  BY <1>1, <1>8, <2>1, LenProperties
<1>10. ASSUME NEW i \in Segments(l)
       PROVE  Entries(l)[NumberOf(l, i) - f + 1] = l[i].seg
  <2>1. NumberOf(l, i) - f + 1 \in 1 .. count
    BY <1>1, <1>2, <1>3
  <2> QED  BY <1>5, <2>1 DEF Entries
<1> QED  BY <1>1, <1>2, <1>3, <1>6, <1>9, <1>10

LEMMA NoEntries == Entries(<<>>) = <<>>
<1>1. Segments(<<>>) = {}
  BY DEF Segments, SegmentsUpTo
<1>2. Cardinality(Segments(<<>>)) = 0
  BY <1>1, FS_EmptySet
<1> QED  BY <1>2 DEF Entries

(***************************************************************************)
(* The steps of the abstract list.                                         *)
(***************************************************************************)

LEMMA WriterIsRun ==
  ASSUME run \in 1..MaxRuns
  PROVE  Writer = run <=> Published
<1>1. ~HasHeader(<<>>) /\ run # 0
  BY DEF HasHeader
<1> QED  BY <1>1 DEF Writer, Published, Lines

(* A list that takes over what it still has of the one before, and adds    *)
(* one segment, is published as the abstract list is.                      *)
LEMMA Publishing ==
  ASSUME run \in 1..MaxRuns, run' = run, playlist' \in Seq(Line), MaxEntries \in Nat,
         NEW f \in Int, NEW g \in Int, NEW a \in Int, NEW kept \in Nat,
         Numbered(playlist', g, a + 1), ~Ended(playlist'),
         kept = IF MaxEntries < a - f + 1 THEN MaxEntries ELSE a - f + 1,
         g = a + 1 - kept,
         IF Published
           THEN playlist \in Seq(Line) /\ Numbered(playlist, f, a) /\ ~Ended(playlist)
           ELSE f = 1 /\ a = 1,
         Published => \A i \in Segments(playlist'), j \in Segments(playlist) :
                        NumberOf(playlist', i) = NumberOf(playlist, j)
                          => playlist'[i].seg = playlist[j].seg
  PROVE  ReaderView!Publish
<1> DEFINE old  == ReaderView!Own(Entries(Lines))
           l    == playlist'
<1>1. Lines' = l /\ (Published => Lines = playlist)
  BY NoFileAssumption DEF Lines, Published
<1>2. /\ Writer' = run /\ FirstNumber' = g
      /\ ReaderView!OwnFirst = f
  <2>1. Writer' = run /\ FirstNumber' = g
    BY <1>1 DEF Writer, FirstNumber, Numbered
  <2>2. CASE Published
    <3>1. FirstNumber = f /\ Writer = run
      BY <1>1, <2>2, WriterIsRun DEF FirstNumber, Numbered
    <3> QED  BY <2>1, <3>1 DEF ReaderView!OwnFirst
  <2>3. CASE ~Published
    BY <2>1, <2>3, WriterIsRun DEF ReaderView!OwnFirst
  <2> QED  BY <2>2, <2>3
<1>3. /\ Len(old) = a - f /\ a - f \in Nat
      /\ Published => old = Entries(playlist)
  <2>1. CASE Published
    <3>1. old = Entries(playlist)
      BY <1>1, <2>1, WriterIsRun DEF ReaderView!Own
    <3> QED  BY <2>1, <3>1, NumberedEntries
  <2>2. CASE ~Published
    <3>1. old = <<>>
      BY <2>2, WriterIsRun DEF ReaderView!Own
    <3> QED  BY <2>2, <3>1
  <2> QED  BY <2>1, <2>2
<1>4. /\ Len(Entries(l)) = (a + 1) - g
      /\ \A i \in Segments(l) : Entries(l)[NumberOf(l, i) - g + 1] = l[i].seg
      /\ \A n \in g .. (a + 1) - 1 : \E i \in Segments(l) : NumberOf(l, i) = n
  <2>1. a + 1 \in Int
    OBVIOUS
  <2> QED  BY <2>1, NumberedEntries
<1>5. (a + 1) - g = kept /\ g = f + (a - f) + 1 - kept /\ f <= g
  BY <1>3
<1>s. kept = ReaderView!Smaller(MaxEntries, Len(old) + 1)
  BY <1>3 DEF ReaderView!Smaller
<1> HIDE DEF old, l
<1>6. ASSUME NEW i \in 1 .. kept - 1
      PROVE  Entries(l)[i] = old[i + g - f]
  <2>1. Published
    BY <1>6
  <2>a. PICK n \in Int : n = g + i - 1
    BY <1>6
  <2>2. n \in f .. a-1 /\ n \in g .. (a + 1) - 1
    BY <1>5, <1>6, <2>a
  <2>p. playlist \in Seq(Line) /\ Numbered(playlist, f, a)
    BY <2>1
  <2>3. PICK j \in Segments(playlist) : NumberOf(playlist, j) = n
    BY <2>2, <2>p DEF Numbered
  <2>4. PICK k \in Segments(l) : NumberOf(l, k) = n
    BY <1>4, <2>2
  <2>5. l[k].seg = playlist[j].seg
    BY <2>1, <2>3, <2>4 DEF l
  <2>6. Entries(l)[n - g + 1] = l[k].seg
    BY <1>4, <2>4
  <2>7. old[n - f + 1] = playlist[j].seg
    <3>1. Entries(playlist)[NumberOf(playlist, j) - f + 1] = playlist[j].seg
      <4>1. \A x \in Segments(playlist) :
              Entries(playlist)[NumberOf(playlist, x) - f + 1] = playlist[x].seg
        BY <2>p, NumberedEntries
      <4> QED  BY <4>1
    <3> QED  BY <1>3, <2>1, <2>3, <3>1
  <2>8. n - g + 1 = i /\ n - f + 1 = i + g - f
    BY <1>6, <2>a
  <2> QED  BY <2>5, <2>6, <2>7, <2>8
<1>7. ~(Writer = run /\ Ended(Lines)) /\ ~Ended(Lines')
  BY <1>1, WriterIsRun DEF l
<1>8. /\ Len(Entries(Lines)') = kept
      /\ \A i \in 1 .. kept - 1 : Entries(Lines)'[i] = old[i + FirstNumber' - f]
  <2>1. Entries(Lines)' = Entries(l)
    BY <1>1 DEF Entries, LineOf, Segments, SegmentsUpTo
  <2> QED  BY <1>2, <1>4, <1>5, <1>6, <2>1
<1>9. Ended(Lines)' = FALSE
  BY <1>1, <1>7 DEF Ended
<1> QED  BY <1>2, <1>3, <1>5, <1>s, <1>7, <1>8, <1>9 DEF ReaderView!Publish, old

LEMMA RenamePublishes ==
  ASSUME TypeInv, LiveInv, EndInv, Live, pc = "wait", Rename, run' = run
  PROVE  ReaderView!Publish
<1>1. /\ index_pc = "rename" /\ playlist' = temp /\ temp \in Seq(Line)
      /\ m_sequence \in Nat /\ m_sequence > 1 /\ m_segments \in Seq(Segment)
      /\ Len(m_segments) \in Nat /\ run \in 1..MaxRuns /\ NumSegments \in Nat
  BY WindowTypes DEF Rename, TypeInv, Control, LiveInv
<1>2. /\ Numbered(temp, WindowStart, m_sequence) /\ Mirrors(temp) /\ ~Ended(temp)
      /\ Len(m_segments) = InWindow(m_sequence - 1)
  BY <1>1 DEF LiveInv, EndInv
<1>3. Seen = m_sequence - 2
  BY <1>1 DEF Seen
<1>4. PICK a \in Int : a = m_sequence - 1
  BY <1>1
<1>5. PICK f \in Int : f = a - InWindow(a - 1)
  <2>1. a - InWindow(a - 1) \in Int
    BY <1>1, <1>4 DEF InWindow
  <2> QED  BY <2>1
<1>6. PICK g \in Int : g = WindowStart
  BY WindowTypes
<1>7. PICK kept \in Nat : kept = InWindow(a)
  BY <1>1, <1>4 DEF InWindow
<1>8. g = a + 1 - kept
  BY <1>1, <1>2, <1>4, <1>6, <1>7 DEF WindowStart
<1>9. kept = IF NumSegments < a - f + 1 THEN NumSegments ELSE a - f + 1
  BY <1>1, <1>4, <1>5, <1>7 DEF InWindow
<1>10. Numbered(playlist', g, a + 1) /\ playlist' \in Seq(Line) /\ ~Ended(playlist')
  <2>1. a + 1 = m_sequence
    BY <1>1, <1>4
  <2> QED  BY <1>1, <1>2, <1>6, <2>1
<1>11. IF Published
         THEN playlist \in Seq(Line) /\ Numbered(playlist, f, a) /\ ~Ended(playlist)
         ELSE f = 1 /\ a = 1
  <2>1. CASE Seen = 0
    <3>1. ~Published
      BY <2>1 DEF LiveInv
    <3>2. a = 1 /\ f = 1
      BY <1>1, <1>3, <1>4, <1>5, <2>1 DEF InWindow
    <3> QED  BY <3>1, <3>2
  <2>2. CASE Seen # 0
    <3>1. Published /\ playlist \in Seq(Line) /\ Numbered(playlist, Seen + 1 - InWindow(Seen), Seen + 1)
      BY <2>2, PublishedList
    <3>2. Seen + 1 = a /\ Seen = a - 1
      BY <1>1, <1>3, <1>4
    <3>3. ~Ended(playlist)
      BY <3>1 DEF EndInv
    <3>4. f = Seen + 1 - InWindow(Seen)
      <4>1. InWindow(a - 1) \in Int
        BY <1>1 DEF InWindow
      <4>2. PICK w \in Int : w = InWindow(a - 1)
        BY <4>1
      <4>3. f = a - w
        BY <1>5, <4>2
      <4>4. InWindow(Seen) = w
        BY <3>2, <4>2
      <4>5. Seen + 1 - InWindow(Seen) = a - w
        BY <3>2, <4>4
      <4> QED  BY <4>3, <4>5
    <3>5. Numbered(playlist, f, a)
      BY <3>1, <3>2, <3>4
    <3> QED  BY <3>1, <3>3, <3>5
  <2> QED  BY <2>1, <2>2
<1>12. ASSUME Published, NEW i \in Segments(playlist'), NEW j \in Segments(playlist),
              NumberOf(playlist', i) = NumberOf(playlist, j)
       PROVE  playlist'[i].seg = playlist[j].seg
  <2>1. Mirrors(playlist)
    BY <1>12 DEF LiveInv
  <2>2. NumberOf(temp, i) \in g .. (a + 1) - 1
    <3>1. a + 1 \in Int
      OBVIOUS
    <3> QED  BY <1>1, <1>10, <1>12, <3>1, ListedNumbers
  <2>3. NumberOf(temp, i) >= WindowStart
    BY <1>6, <2>2
  <2> QED  BY <1>1, <1>2, <1>12, <2>1, <2>3 DEF Mirrors
<1>13. MaxEntries = NumSegments
  BY DEF MaxEntries
<1>14. Published => \A i \in Segments(playlist'), j \in Segments(playlist) :
                      NumberOf(playlist', i) = NumberOf(playlist, j)
                        => playlist'[i].seg = playlist[j].seg
  BY <1>12
<1> QED  BY <1>1, <1>8, <1>9, <1>10, <1>11, <1>13, <1>14, Publishing

(* A text that grows at its end keeps its numbers.                         *)
LEMMA ConcatNumbers ==
  ASSUME NEW l \in Seq(Line), NEW k \in Seq(Line), HasHeader(l), NEW j \in Segments(l)
  PROVE  /\ j \in Segments(l \o k) /\ (l \o k)[j] = l[j]
         /\ NumberOf(l \o k, j) = NumberOf(l, j)
<1> DEFINE m == l \o k
<1>1. /\ Len(m) >= Len(l) /\ Len(l) \in Nat /\ Len(l) >= 1
      /\ \A i \in 1 .. Len(l) : m[i] = l[i]
  BY ConcatProperties DEF HasHeader
<1>2. j \in 1 .. Len(l) /\ l[j].tag = "EXTINF" /\ Len(m) \in Nat
  BY DEF Segments, SegmentsUpTo
<1> HIDE DEF m
<1>3. j \in Segments(m) /\ m[j] = l[j]
  BY <1>1, <1>2 DEF Segments, SegmentsUpTo
<1>4. NumberOf(m, j) = NumberOf(l, j)
  <2>1. j - 1 \in Nat /\ j - 1 + 1 = j /\ m[1] = l[1] /\ \A i \in 1 .. j - 1 : m[i] = l[i]
    BY <1>1, <1>2
  <2> QED  BY <2>1, SameNumber
<1> QED  BY <1>3, <1>4 DEF m

LEMMA FlushPublishes ==
  ASSUME TypeInv, VodInv, EndInv, ~Live, pc = "wait", Flush, run' = run
  PROVE  ReaderView!Publish
<1>1. /\ index_pc = "flush" /\ playlist' = playlist \o m_out /\ m_out \in Seq(Line)
      /\ m_sequence \in 2 .. MaxSegments+1 /\ run \in 1..MaxRuns /\ MaxSegments \in Nat
      /\ MaxEntries = MaxSegments
  BY WindowTypes DEF Flush, TypeInv, Control, MaxEntries
<1>2. /\ playlist \in Seq(Line) /\ Numbered(playlist \o m_out, 1, m_sequence)
      /\ IF Seen = 0 THEN playlist = <<>> ELSE Numbered(playlist, 1, Seen + 1)
  BY <1>1 DEF VodInv
<1>3. PICK a \in Int : a = m_sequence - 1
  BY <1>1
<1>f. PICK f \in Int : f = 1
  OBVIOUS
<1>4. Seen = a - 1 /\ Seen + 1 = a /\ a + 1 = m_sequence /\ a \in 1..MaxSegments
  BY <1>1, <1>3 DEF Seen
<1>5. Numbered(playlist', f, a + 1) /\ playlist' \in Seq(Line)
  BY <1>1, <1>2, <1>4, <1>f
<1>6. IF Published
        THEN playlist \in Seq(Line) /\ Numbered(playlist, f, a) /\ ~Ended(playlist)
        ELSE f = 1 /\ a = 1
  <2>1. CASE Seen = 0
    <3>1. ~Published
      BY <1>2, <2>1 DEF Published, HasHeader
    <3> QED  BY <1>4, <1>f, <2>1, <3>1
  <2>2. CASE Seen # 0
    <3>1. Numbered(playlist, f, a)
      BY <1>2, <1>4, <1>f, <2>2
    <3>2. Published /\ ~Ended(playlist)
      BY <1>2, <3>1, NumberedPublished DEF EndInv
    <3> QED  BY <1>2, <3>1, <3>2
  <2> QED  BY <2>1, <2>2
<1>7. ~Ended(playlist')
  <2>1. ~Ended(playlist)
    <3>1. Published \/ playlist = <<>>
      BY <1>2, NumberedPublished
    <3> QED  BY <3>1, NothingEnded DEF EndInv
  <2> QED  BY <1>1, <1>2, <2>1, ConcatNotEnded DEF EndInv
<1>8. ASSUME Published, NEW i \in Segments(playlist'), NEW j \in Segments(playlist),
             NumberOf(playlist', i) = NumberOf(playlist, j)
      PROVE  playlist'[i].seg = playlist[j].seg
  <2>1. HasHeader(playlist)
    BY <1>8 DEF Published
  <2>2. /\ j \in Segments(playlist') /\ playlist'[j] = playlist[j]
        /\ NumberOf(playlist', j) = NumberOf(playlist, j)
    BY <1>1, <1>2, <2>1, ConcatNumbers
  <2>3. a + 1 \in Int
    OBVIOUS
  <2>4. \A n \in Segments(playlist') :
          Entries(playlist')[NumberOf(playlist', n) - f + 1] = playlist'[n].seg
    BY <1>5, <2>3, NumberedEntries
  <2>5. /\ Entries(playlist')[NumberOf(playlist', i) - f + 1] = playlist'[i].seg
        /\ Entries(playlist')[NumberOf(playlist', j) - f + 1] = playlist'[j].seg
    BY <2>2, <2>4
  <2> QED  BY <1>8, <2>2, <2>5
<1>9. Published => \A i \in Segments(playlist'), j \in Segments(playlist) :
                     NumberOf(playlist', i) = NumberOf(playlist, j)
                       => playlist'[i].seg = playlist[j].seg
  BY <1>8
<1>10. /\ a \in Nat /\ f = a + 1 - a
       /\ a = IF MaxSegments < a - f + 1 THEN MaxSegments ELSE a - f + 1
  BY <1>1, <1>4, <1>f
<1> QED  BY <1>1, <1>5, <1>6, <1>7, <1>9, <1>10, Publishing

LEMMA ReaderInit == Init => ReaderView!Init
BY NoEntries, NothingEnded
DEF Init, ReaderView!Init, Lines, Writer, FirstNumber, HasHeader, Ended

(* What leaves the published file alone is not seen by its readers.        *)
LEMMA Unseen ==
  ASSUME playlist' = playlist
  PROVE  UNCHANGED <<Writer, FirstNumber, Entries(Lines), Ended(Lines)>>
<1>1. Lines' = Lines
  BY DEF Lines
<1>2. Entries(Lines)' = Entries(Lines)
  BY <1>1 DEF Entries, LineOf, Segments, SegmentsUpTo
<1>3. Ended(Lines)' = Ended(Lines)
  BY <1>1 DEF Ended
<1> QED  BY <1>1, <1>2, <1>3 DEF Writer, FirstNumber

LEMMA ReaderStep ==
  ASSUME TypeInv, ListInv, EndInv, [Next]_vars
  PROVE  [ReaderView!Next]_(ReaderView!vars)
<1>u. ASSUME playlist' = playlist, run' = run
      PROVE  UNCHANGED ReaderView!vars
  BY <1>u, Unseen DEF ReaderView!vars
<1>1. CASE BeginIndex
  <2>1. CASE Live
    <3>1. playlist' = playlist /\ run' = run
      BY <1>1, <2>1 DEF BeginIndex, LiveBegin, indexVars
    <3> QED  BY <1>u, <3>1
  <2>2. CASE ~Live
    <3>1. /\ pc = "begin" /\ m_sequence = 1 /\ index_pc = "idle" /\ playlist' = <<>> /\ run' = run
          /\ run \in 1..MaxRuns
      BY <1>1, <2>2 DEF BeginIndex, Begin, TypeInv, TypeOK, Control
    <3>2. ~Published
      <4>1. Seen = 0
        BY <3>1 DEF Seen
      <4> QED  BY <2>2, <3>1, <4>1 DEF ListInv, VodInv, Published, HasHeader
    <3>3. Lines' = <<>>
      BY <3>1, NoFileAssumption, Empty DEF Lines
    <3>4. Writer' = 0 /\ FirstNumber' = 1
      BY <3>3 DEF Writer, FirstNumber, HasHeader
    <3>5. Entries(Lines)' = <<>>
      <4>1. Entries(Lines)' = Entries(<<>>)
        BY <3>3 DEF Entries, LineOf, Segments, SegmentsUpTo
      <4> QED  BY <4>1, NoEntries
    <3>6. Ended(Lines)' = FALSE
      BY <3>3 DEF Ended
    <3>7. Writer # run
      BY <3>1, <3>2, WriterIsRun
    <3> QED  BY <3>1, <3>4, <3>5, <3>6, <3>7 DEF ReaderView!Next, ReaderView!Withdraw
  <2> QED  BY <2>1, <2>2
<1>2. CASE AddToIndex
  <2>1. playlist' = playlist /\ run' = run
    BY <1>2 DEF AddToIndex, LiveAddSegment, AddSegment
  <2> QED  BY <1>u, <2>1
<1>3. CASE IndexWorks
  <2>1. pc = "wait" /\ run' = run
    BY <1>3 DEF IndexWorks
  <2>2. CASE Flush
    <3>1. ~Live
      BY <2>2 DEF Flush, TypeInv, Control
    <3> QED  BY <2>1, <2>2, <3>1, FlushPublishes DEF ListInv, ReaderView!Next
  <2>3. CASE Trim \/ OpenTemp \/ WriteNext \/ CloseTemp
    <3>1. playlist' = playlist
      BY <2>3 DEF Trim, OpenTemp, WriteNext, CloseTemp, indexVars
    <3> QED  BY <1>u, <2>1, <3>1
  <2>4. CASE Rename
    <3>1. Live
      BY <2>4 DEF Rename, TypeInv, Control
    <3> QED  BY <2>1, <2>4, <3>1, RenamePublishes DEF ListInv, ReaderView!Next
  <2> QED  BY <1>3, <2>2, <2>3, <2>4 DEF IndexWorks
<1>4. CASE EndIndex
  <2>1. /\ pc = "end" /\ run' = run /\ m_sequence > 1 /\ index_pc = "idle"
        /\ run \in 1..MaxRuns /\ m_sequence \in Nat
        /\ playlist' = playlist \o Append(m_out, EndLine)
    <3>1. pc = "end" /\ run' = run
      BY <1>4 DEF EndIndex
    <3>2. m_sequence > 1 /\ index_pc = "idle"
      BY <3>1 DEF TypeInv, Control
    <3>3. run \in 1..MaxRuns /\ m_sequence \in Nat
      BY WindowTypes DEF TypeInv, TypeOK
    <3>4. playlist' = playlist \o Append(m_out, EndLine)
      BY <1>4 DEF EndIndex, LiveEnd, End
    <3> QED  BY <3>1, <3>2, <3>3, <3>4
  <2>2. Seen = m_sequence - 1 /\ Seen # 0
    BY <2>1 DEF Seen
  <2>3. PICK f \in Int : /\ playlist \in Seq(Line) /\ m_out = <<>>
                         /\ Numbered(playlist, f, m_sequence)
    <3>1. CASE Live
      <4>1. m_out = <<>>
        BY <2>1, <3>1 DEF TypeInv, Control
      <4>2. Seen + 1 = m_sequence
        BY <2>1, <2>2
      <4> QED  BY <2>2, <3>1, <4>1, <4>2, PublishedList DEF ListInv
    <3>2. CASE ~Live
      <4>1. /\ playlist \in Seq(Line) /\ m_out = <<>> /\ Numbered(playlist, 1, Seen + 1)
        BY <2>1, <2>2, <3>2 DEF ListInv, VodInv
      <4>2. Seen + 1 = m_sequence
        BY <2>1, <2>2
      <4> QED  BY <4>1, <4>2
    <3> QED  BY <3>1, <3>2
  <2>4. EndLine \in Line /\ EndLine.tag = "ENDLIST"
    BY LineTypes DEF EndLine
  <2>5. playlist' = Append(playlist, EndLine)
    BY <2>1, <2>3, <2>4
  <2>6. Published /\ ~Ended(playlist) /\ Lines = playlist /\ HasHeader(playlist)
    BY <2>1, <2>3, NumberedPublished DEF EndInv, Lines, Published
  <2>7. Writer = run
    BY <2>1, <2>6, WriterIsRun
  <2>8. /\ playlist' \in Seq(Line) /\ Len(playlist') = Len(playlist) + 1
        /\ playlist'[1] = playlist[1] /\ HasHeader(playlist')
        /\ Len(playlist) \in Nat /\ playlist'[Len(playlist) + 1] = EndLine
        /\ Segments(playlist') = Segments(playlist)
        /\ \A i \in 1 .. Len(playlist) :
             playlist'[i] = playlist[i] /\ NumberOf(playlist', i) = NumberOf(playlist, i)
    BY <2>3, <2>4, <2>5, <2>6, AppendedLine
  <2>9. Lines' = playlist'
    BY <2>8, NoFileAssumption DEF Lines
  <2>10. Writer' = Writer /\ FirstNumber' = FirstNumber
    BY <2>6, <2>8, <2>9 DEF Writer, FirstNumber
  <2>11. Ended(Lines)' = TRUE /\ ~Ended(Lines)
    <3>1. \E i \in 1 .. Len(playlist') : playlist'[i].tag = "ENDLIST"
      BY <2>4, <2>8
    <3> QED  BY <2>6, <2>9, <3>1 DEF Ended
  <2>12. Entries(playlist') = Entries(playlist)
    <3>i. m_sequence \in Int /\ playlist \in Seq(Line) /\ Numbered(playlist, f, m_sequence)
      BY <2>1, <2>3
    <3>1. Numbered(playlist', f, m_sequence)
      <4>1. EndLine.tag # "EXTINF"
        BY <2>4
      <4> QED  BY <2>4, <2>5, <3>i, <4>1, NumberedOther
    <3>l. playlist' \in Seq(Line)
      BY <2>8
    <3>2. /\ Entries(playlist') \in Seq(Segment) /\ Entries(playlist) \in Seq(Segment)
          /\ Len(Entries(playlist')) = m_sequence - f /\ Len(Entries(playlist)) = m_sequence - f
      BY <3>i, <3>l, <3>1, NumberedEntries
    <3>3. ASSUME NEW k \in 1 .. Len(Entries(playlist'))
          PROVE  Entries(playlist')[k] = Entries(playlist)[k]
      <4>1. PICK n \in Int : n = f + k - 1
        OBVIOUS
      <4>2. n \in f .. m_sequence - 1 /\ n - f + 1 = k
        BY <2>1, <3>2, <3>3, <4>1
      <4>3. PICK i \in Segments(playlist) : NumberOf(playlist, i) = n
        BY <2>3, <4>2 DEF Numbered
      <4>4. i \in 1 .. Len(playlist)
        BY DEF Segments, SegmentsUpTo
      <4>5. Entries(playlist)[NumberOf(playlist, i) - f + 1] = playlist[i].seg
        BY <3>i, NumberedEntries
      <4>6. i \in Segments(playlist') /\ NumberOf(playlist', i) = n /\ playlist'[i] = playlist[i]
        BY <2>8, <4>3, <4>4
      <4>7. Entries(playlist')[NumberOf(playlist', i) - f + 1] = playlist'[i].seg
        BY <3>i, <3>l, <3>1, <4>6, NumberedEntries
      <4> QED  BY <4>2, <4>3, <4>5, <4>6, <4>7
    <3> QED  BY <3>2, <3>3, SeqEqual
  <2>13. Entries(Lines)' = Entries(Lines)
    <3>1. Entries(Lines)' = Entries(playlist')
      BY <2>9 DEF Entries, LineOf, Segments, SegmentsUpTo
    <3> QED  BY <2>6, <2>12, <3>1
  <2> QED  BY <2>1, <2>7, <2>10, <2>11, <2>13 DEF ReaderView!Next, ReaderView!Finish
<1>5. CASE Restart
  <2>1. playlist' = playlist /\ run' = run + 1
    BY <1>5 DEF Restart
  <2> QED  BY <2>1, Unseen DEF ReaderView!Next, ReaderView!Restart
<1>6. CASE OpenSegment \/ SwitchKey \/ CloseSegment \/ NextRound \/ Copies \/ Die \/ UNCHANGED vars
  <2>1. playlist' = playlist /\ run' = run
    BY <1>6 DEF OpenSegment, SwitchKey, CloseSegment, NextRound, Copies, CopySegment, Die, vars,
       indexVars
  <2> QED  BY <1>u, <2>1
<1> QED  BY <1>1, <1>2, <1>3, <1>4, <1>5, <1>6 DEF Next, Works

(* Whatever the program does to its files, and wherever it dies, a reader  *)
(* that polls the index sees a list that only moves forward.               *)
THEOREM ReadersSeeWindow == Spec => ReaderSeesWindow
<1>1. Init => EndInv
  BY EndInit
<1>2. FilesInv /\ EndInv /\ [Next]_vars => EndInv'
  BY EndStep DEF FilesInv
<1>3. FilesInv /\ EndInv /\ [Next]_vars => [ReaderView!Next]_(ReaderView!vars)
  BY ReaderStep DEF FilesInv
<1> QED
  BY <1>1, <1>2, <1>3, ReaderInit, FilesInvariant, PTL DEF Spec, ReaderSeesWindow, ReaderView!Spec
=============================================================================
