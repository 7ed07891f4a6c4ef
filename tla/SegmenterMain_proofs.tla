------------------------ MODULE SegmenterMain_proofs ------------------------
(***************************************************************************)
(* Proofs, for every value of the constants, of properties of the program  *)
(* with its index.                                                         *)
(***************************************************************************)
EXTENDS SegmenterInvariant, SequenceTheorems, TLAPS

(***************************************************************************)
(* Types.                                                                  *)
(***************************************************************************)

(* Each tag an index writes is one of the known lines.                     *)
LEMMA LineTypes ==
  /\ \A n \in Nat : run \in 1..MaxRuns => HeaderLine(n) \in Line
  /\ \A seg \in Segment :
       KeyTag(seg) \in Tag /\ KeyLine(seg) \in Line /\ ExtinfLine(seg) \in Line
  /\ EndLine \in Line
  /\ DefaultTag \in Tag
BY DEF HeaderLine, KeyLine, ExtinfLine, EndLine, DefaultTag, KeyTag, Line, Tag, Segment

(* What AddSegment is given is a segment.                                  *)
LEMMA NewSegmentType ==
  ASSUME TypeOK, out_filename \in Uris
  PROVE  NewSegment \in Segment
<1>1. rounded_duration % ULong \in 0 .. ULong-1
  BY Assumptions DEF TypeOK, SegmenterAssumption
<1>2. key_filename \in KeyUris \cup {NoUri}
  BY DEF TypeOK
<1> QED  BY <1>1, <1>2 DEF NewSegment, Segment

(* Writing a segment appends one or two lines.                             *)
LEMMA WriteSegmentType ==
  ASSUME NEW seg \in Segment, m_out \in Seq(Line), WriteSegment(seg)
  PROVE  m_out' \in Seq(Line) /\ m_prev_crypto' \in Tag
BY LineTypes DEF WriteSegment

(* IntOf gives a value of the type int.                                    *)
LEMMA IntOfType ==
  ASSUME NEW x \in Int, NEW r \in IntOf(x)
  PROVE  r \in -IntMax-1 .. IntMax
BY Assumptions DEF IntOf, SegmenterAssumption
LEMMA RoundType ==
  ASSUME NEW x \in Int
  PROVE  Round(x) \in Int
BY Assumptions DEF Round, SegmenterAssumption
LEMMA AbsValType ==
  ASSUME NEW x \in Int
  PROVE  AbsVal(x) \in Nat
BY DEF AbsVal

(* The sequences that the program builds.                                  *)
LEMMA Empty == \A S : <<>> \in Seq(S) /\ Len(<<>>) = 0
OBVIOUS
LEMMA Extended ==
  ASSUME NEW S, NEW s \in Seq(S), NEW x \in S
  PROVE  Append(s, x) \in Seq(S) /\ Len(Append(s, x)) = Len(s) + 1
OBVIOUS

(* Writing a header starts a new text.                                     *)
LEMMA WriteHeaderType ==
  ASSUME NEW n \in Nat, run \in 1..MaxRuns, WriteHeader(n)
  PROVE  m_out' \in Seq(Line) /\ m_prev_crypto' \in Tag
<1>1. HeaderLine(n) \in Line
  BY LineTypes
<1>2. \A l \in Line : <<l>> \in Seq(Line)
  OBVIOUS
<1> QED  BY <1>1, <1>2, LineTypes DEF WriteHeader

LEMMA TypeInit == Init => TypeInv
<1> SUFFICES ASSUME Init PROVE TypeInv
  OBVIOUS
<1> USE Assumptions DEF SegmenterAssumption
<1>1. TypeOK
  <2>1. key \in Keys
    BY DEF Init, ProgramInit, FreshKey, Keys
  <2>2. m_out \in Seq(Line) /\ m_segments \in Seq(Segment)
    BY Empty DEF Init, ProgramInit, IndexInit, LiveInit
  <2>3. 0 \in -IntMax-1 .. IntMax
    OBVIOUS
  <2>4. /\ files \in [Uris -> Contents \cup {NoFile}]
        /\ key_files \in [KeyUris -> Keys \cup {NoFile}]
    BY DEF Init
  <2>5. out_bad \in BOOLEAN
    BY Zenon DEF Init, ProgramInit
  <2> QED
    BY <2>1, <2>2, <2>3, <2>4, <2>5, LineTypes DEF TypeOK, Init, ProgramInit, IndexInit, LiveInit
<1>2. Control
  BY DEF Control, Init, ProgramInit, IndexInit, LiveInit
<1> QED  BY <1>1, <1>2 DEF TypeInv

LEMMA TypeStep == TypeInv /\ [Next]_vars => TypeInv'
<1> SUFFICES ASSUME TypeInv, [Next]_vars PROVE TypeInv'
  OBVIOUS
<1> USE Assumptions DEF SegmenterAssumption
<1> USE DEF TypeInv
<1>1. CASE BeginIndex
  <2>1. CASE Live
    BY <1>1, <2>1 DEF BeginIndex, LiveBegin, TypeOK, Control, indexVars, liveVars, mainVars, timeVars
  <2>2. CASE ~Live
    <3>1. m_out' \in Seq(Line) /\ m_prev_crypto' \in Tag
      BY <1>1, <2>2, WriteHeaderType DEF BeginIndex, Begin, TypeOK
    <3> QED
      BY <1>1, <2>2, <3>1 DEF BeginIndex, Begin, TypeOK, Control, indexVars, liveVars, mainVars, timeVars
  <2> QED  BY <2>1, <2>2
<1>2. CASE OpenSegment
  <2>1. m_sequence \in 1..MaxSegments /\ out_filename' \in Uris
    BY <1>2 DEF OpenSegment, TypeOK, NamesAssumption
  <2>2. File(m_sequence, NoKey, FALSE) \in Contents
    BY <2>1 DEF File, Contents, TypeOK
  <2>3. files' \in [Uris -> Contents \cup {NoFile}]
    BY <1>2, <2>1, <2>2 DEF OpenSegment, TypeOK
  <2> QED
    BY <1>2, <2>1, <2>3 DEF OpenSegment, TypeOK, Control, indexVars, liveVars, timeVars
<1>3. CASE SwitchKey
  <2>1. FreshKey(m_sequence) \in Keys
    BY <1>3 DEF SwitchKey, FreshKey, Keys, TypeOK, Control
  <2>2. KeyFilename[m_sequence] \in KeyUris
    BY <1>3 DEF SwitchKey, TypeOK, Control, NamesAssumption
  <2>3. key_files' \in [KeyUris -> Keys \cup {NoFile}]
    BY <1>3, <2>1, <2>2 DEF SwitchKey, TypeOK
  <2> QED
    BY <1>3, <2>1, <2>2, <2>3 DEF SwitchKey, TypeOK, Control, indexVars, liveVars, timeVars
<1>4. CASE CloseSegment
  <2>1. File(m_sequence, IF Crypto # 0 THEN key ELSE NoKey, ~out_bad) \in Contents
    BY <1>4 DEF CloseSegment, File, Contents, TypeOK, Control
  <2>2. files' \in [Uris -> Contents \cup {NoFile}]
    BY <1>4, <2>1 DEF CloseSegment, TypeOK, Control
  <2>3. duration \in Int
    BY DEF TypeOK
  <2>4a. AbsVal(duration) \in Nat
    BY <2>3, AbsValType
  <2>4b. AbsVal(duration) + duration_acc_error \in Int
    BY <2>4a DEF TypeOK
  <2>4. Round(AbsVal(duration) + duration_acc_error) \in Int
    BY <2>4b, RoundType
  <2>5. PICK r \in IntOf(Round(AbsVal(duration) + duration_acc_error)) :
          /\ duration_acc_error' = duration_acc_error + duration - r*Scale
          /\ rounded_duration' \in IF duration <= 0 THEN IntOf(r + 1) ELSE {r}
          /\ listed' = listed + rounded_duration'
    BY <1>4 DEF CloseSegment
  <2>6. r \in -IntMax-1 .. IntMax
    BY <2>4, IntOfType
  <2>7. rounded_duration' \in -IntMax-1 .. IntMax
    BY <2>5, <2>6, IntOfType
  <2>8. duration_acc_error' \in Int /\ listed' \in Int /\ total' \in Nat
    BY <1>4, <2>3, <2>4a, <2>5, <2>6, <2>7 DEF CloseSegment, TypeOK
  <2> QED
    BY <1>4, <2>2, <2>7, <2>8 DEF CloseSegment, TypeOK, Control, indexVars, liveVars, mainVars
<1>5. CASE AddToIndex
  <2>1. NewSegment \in Segment
    BY <1>5, NewSegmentType DEF AddToIndex, Control
  <2>2. CASE Live
    <3>0. m_segments' = Append(m_segments, NewSegment)
      BY <1>5, <2>2 DEF AddToIndex, LiveAddSegment
    <3>1. m_segments' \in Seq(Segment)
      BY <2>1, <3>0, Extended DEF TypeOK
    <3>2. Len(m_segments') = Len(m_segments) + 1
      BY <2>1, <3>0, Extended DEF TypeOK
    <3> QED
      BY <1>5, <2>2, <3>1, <3>2
      DEF AddToIndex, LiveAddSegment, TypeOK, Control, mainVars, timeVars
  <2>3. CASE ~Live
    <3>1. m_out' \in Seq(Line) /\ m_prev_crypto' \in Tag
      BY <1>5, <2>1, <2>3, WriteSegmentType DEF AddToIndex, AddSegment, TypeOK
    <3> QED
      BY <1>5, <2>3, <3>1
      DEF AddToIndex, AddSegment, TypeOK, Control, mainVars, timeVars, liveVars
  <2> QED  BY <2>2, <2>3
<1>6. CASE IndexWorks
  <2> USE DEF mainVars, timeVars, indexVars, liveVars
  <2>1. CASE Flush /\ UNCHANGED <<liveVars, files>>
    BY <1>6, <2>1 DEF IndexWorks, Flush, TypeOK, Control
  <2>2. CASE Trim
    <3>1. m_segments' \in Seq(Segment) /\ Len(m_segments') = Len(m_segments) - 1
      BY <2>2 DEF Trim, TypeOK
    <3>2. files' \in [Uris -> Contents \cup {NoFile}]
      BY <2>2 DEF Trim, TypeOK
    <3>3. /\ UNCHANGED <<indexVars, temp, iter, run, pc, mainVars, timeVars>>
          /\ Live /\ index_pc = "trim"
      BY <1>6, <2>2 DEF IndexWorks, Trim, Control
    <3> QED
      BY <3>1, <3>2, <3>3 DEF TypeOK, Control
  <2>3. CASE OpenTemp
    <3>1. m_sequence - Len(m_segments) \in Nat
      BY DEF TypeOK, Control
    <3>2. m_out' \in Seq(Line) /\ m_prev_crypto' \in Tag
      BY <2>3, <3>1, WriteHeaderType DEF OpenTemp, TypeOK
    <3> QED
      BY <1>6, <2>3, <3>2 DEF IndexWorks, OpenTemp, TypeOK, Control
  <2>4. CASE WriteNext
    <3>1. m_segments[iter] \in Segment
      BY <2>4 DEF WriteNext, TypeOK
    <3>2. m_out' \in Seq(Line) /\ m_prev_crypto' \in Tag
      BY <2>4, <3>1, WriteSegmentType DEF WriteNext, TypeOK
    <3> QED
      BY <1>6, <2>4, <3>2 DEF IndexWorks, WriteNext, TypeOK, Control
  <2>5. CASE CloseTemp
    <3>1. temp \in Seq(Line) /\ m_out \in Seq(Line)
      BY <2>5, Empty DEF CloseTemp, TypeOK, Control
    <3>2. temp' \in Seq(Line) /\ m_out' \in Seq(Line)
      BY <2>5, <3>1, Empty DEF CloseTemp
    <3> QED
      BY <1>6, <2>5, <3>2 DEF IndexWorks, CloseTemp, TypeOK, Control
  <2>6. CASE Rename
    BY <1>6, <2>6 DEF IndexWorks, Rename, TypeOK, Control
  <2> QED  BY <1>6, <2>1, <2>2, <2>3, <2>4, <2>5, <2>6 DEF IndexWorks
<1>7. CASE NextRound
  BY <1>7 DEF NextRound, TypeOK, Control, mainVars, timeVars, indexVars, liveVars
<1>8. CASE EndIndex
  <2>1. playlist \in Seq(Line)
    BY <1>8 DEF EndIndex, Control
  <2>2. End /\ UNCHANGED <<liveVars, files>>
    BY <1>8 DEF EndIndex, LiveEnd
  <2>3. playlist' \in Seq(Line)
    BY <2>1, <2>2, LineTypes DEF End, TypeOK
  <2> QED
    BY <1>8, <2>2, <2>3 DEF EndIndex, End, TypeOK, Control, mainVars, timeVars, liveVars
<1>9. CASE Copies
  <2>1. PICK d \in Durations, bad \in BOOLEAN : CopySegment(d, AbsVal(d), bad)
    BY <1>9 DEF Copies
  <2>2. AbsVal(d) \in Nat
    BY AbsValType
  <2> QED
    BY <2>1, <2>2 DEF CopySegment, TypeOK, Control, indexVars, liveVars
<1>10. CASE Die
  BY <1>10 DEF Die, TypeOK, Control, mainVars, timeVars, indexVars, liveVars
<1>11. CASE Restart
  <2>1. run' \in 1..MaxRuns /\ <<run', 0>> \in Keys
    BY <1>11 DEF Restart, TypeOK, Keys
  <2>2. m_out' \in Seq(Line) /\ m_segments' \in Seq(Segment) /\ Len(m_segments') = 0
    BY <1>11, Empty DEF Restart
  <2>3. 0 \in -IntMax-1 .. IntMax
    OBVIOUS
  <2>4. TypeOK'
    <3>1. m_prev_crypto' \in Tag
      BY <1>11, LineTypes DEF Restart
    <3>2. /\ pc' = "begin" /\ index_pc' = "idle" /\ m_sequence' = 1 /\ iter' = 1
          /\ duration' = 1 /\ rounded_duration' = 0 /\ duration_acc_error' = 0
          /\ copied' = 0 /\ total' = 0 /\ listed' = 0 /\ key_filename' = NoUri
          /\ out_filename' = NoUri
      BY <1>11 DEF Restart
    <3>4. out_bad' \in BOOLEAN
      BY <1>11, Zenon DEF Restart
    <3>3. /\ playlist' = playlist /\ temp' = temp /\ files' = files
          /\ key_files' = key_files /\ key' \in Keys
      BY <1>11, <2>1 DEF Restart
    <3> QED
      BY <2>1, <2>2, <2>3, <3>1, <3>2, <3>3, <3>4 DEF TypeOK
  <2>5. Control'
    BY <1>11, <2>1, <2>2 DEF Restart, TypeOK, Control
  <2> QED
    BY <2>4, <2>5
<1>12. CASE UNCHANGED vars
  BY <1>12 DEF vars, TypeOK, Control, mainVars, timeVars, indexVars, liveVars
<1> QED
  BY <1>1, <1>2, <1>3, <1>4, <1>5, <1>6, <1>7, <1>8, <1>9, <1>10, <1>11, <1>12
  DEF Next, Works

(* Every variable of the program keeps its type and its C++ range,         *)
(* whatever the options, the input and the moment of a crash.              *)
THEOREM TypeCorrect == Spec => []TypeOK
<1>1. TypeInv => TypeOK
  BY DEF TypeInv
<1> QED  BY <1>1, TypeInit, TypeStep, PTL DEF Spec

(***************************************************************************)
(* The key in force.                                                       *)
(***************************************************************************)

(* Only the lines above a position say which key is in force there.        *)
LEMMA SamePrefix ==
  ASSUME NEW a, NEW b, NEW i \in Nat, NEW k, NEW d,
         \A j \in 1 .. i-1 : a[j] = b[j],
         InForce(a, i, k, d)
  PROVE  InForce(b, i, k, d)
BY DEF InForce

(* An additional line at the end leaves the others governed.               *)
LEMMA GovernedUpTo ==
  ASSUME NEW l \in Seq(Line), NEW x \in Line, Governed(l),
         NEW i \in Segments(Append(l, x)), i # Len(l) + 1
  PROVE  InForce(Append(l, x), i, KeyTag(Append(l, x)[i].seg), DefaultTag)
<1>1. i \in 1 .. Len(l) /\ \A j \in 1 .. Len(l) : Append(l, x)[j] = l[j]
  BY DEF Segments, SegmentsUpTo
<1>2. i \in Segments(l)
  BY <1>1 DEF Segments, SegmentsUpTo
<1>3. InForce(l, i, KeyTag(l[i].seg), DefaultTag)
  BY <1>2 DEF Governed
<1>4. i \in Nat /\ \A j \in 1 .. i-1 : l[j] = Append(l, x)[j]
  BY <1>1
<1>5. InForce(Append(l, x), i, KeyTag(l[i].seg), DefaultTag)
  BY <1>3, <1>4, SamePrefix
<1> QED  BY <1>1, <1>5

LEMMA GovernedOther ==
  ASSUME NEW l \in Seq(Line), NEW x \in Line, x.tag # "EXTINF", Governed(l)
  PROVE  Governed(Append(l, x))
<1> SUFFICES ASSUME NEW i \in Segments(Append(l, x))
             PROVE  InForce(Append(l, x), i, KeyTag(Append(l, x)[i].seg), DefaultTag)
  BY DEF Governed
<1>1. i # Len(l) + 1
  BY DEF Segments, SegmentsUpTo
<1> QED  BY <1>1, GovernedUpTo

(* After a KEY line its key is in force, and a segment does not change it. *)
LEMMA KeyTakesForce ==
  ASSUME NEW l \in Seq(Line), NEW seg \in Segment
  PROVE  InForce(Append(l, KeyLine(seg)), Len(l) + 2, KeyTag(seg), DefaultTag)
<1>1. /\ Append(l, KeyLine(seg))[Len(l) + 1] = KeyLine(seg)
      /\ Len(l) + 1 \in 1 .. Len(l) + 2 - 1
      /\ \A j \in Len(l) + 1 + 1 .. Len(l) + 2 - 1 : FALSE
  OBVIOUS
<1> QED  BY <1>1 DEF InForce, KeyLine

LEMMA GovernedSegment ==
  ASSUME NEW l \in Seq(Line), NEW seg \in Segment, Governed(l),
         InForce(l, Len(l) + 1, KeyTag(seg), DefaultTag)
  PROVE  /\ Governed(Append(l, ExtinfLine(seg)))
         /\ InForce(Append(l, ExtinfLine(seg)), Len(l) + 2, KeyTag(seg), DefaultTag)
<1> DEFINE n == Append(l, ExtinfLine(seg))
<1>1. /\ \A j \in 1 .. Len(l) : n[j] = l[j]
      /\ n[Len(l) + 1] = ExtinfLine(seg)
      /\ Len(l) \in Nat
  OBVIOUS
<1> HIDE DEF n
<1>2. InForce(n, Len(l) + 1, KeyTag(seg), DefaultTag)
  BY <1>1, SamePrefix
<1>3. n[Len(l) + 1].tag = "EXTINF" /\ n[Len(l) + 1].seg = seg
  BY <1>1 DEF ExtinfLine
<1>4. InForce(n, Len(l) + 2, KeyTag(seg), DefaultTag)
  BY <1>1, <1>2, <1>3 DEF InForce
<1>5. ASSUME NEW i \in Segments(n)
      PROVE  InForce(n, i, KeyTag(n[i].seg), DefaultTag)
  <2>1. CASE i = Len(l) + 1
    BY <2>1, <1>2, <1>3
  <2>2. CASE i # Len(l) + 1
    BY <2>2, GovernedUpTo, LineTypes DEF n
  <2> QED  BY <2>1, <2>2
<1> QED  BY <1>4, <1>5 DEF Governed, n

LEMMA EndLineKeepsKey ==
  ASSUME NEW l \in Seq(Line), NEW k, InForce(l, Len(l) + 1, k, DefaultTag)
  PROVE  LET n == Append(l, EndLine) IN InForce(n, Len(n) + 1, k, DefaultTag)
<1> DEFINE n == Append(l, EndLine)
<1>1. /\ \A j \in 1 .. Len(l) : n[j] = l[j]
      /\ n[Len(l) + 1] = EndLine /\ Len(n) = Len(l) + 1
      /\ Len(l) \in Nat
  BY LineTypes
<1> HIDE DEF n
<1>2. InForce(n, Len(l) + 1, k, DefaultTag)
  BY <1>1, SamePrefix
<1>3. InForce(n, Len(n) + 1, k, DefaultTag)
  BY <1>1, <1>2 DEF InForce, EndLine
<1> QED  BY <1>3 DEF n

(* WriteSegment, seen as adding to a text whose key in force is prev.      *)
WithSegment(l, seg, prev) ==
  Append(IF KeyTag(seg) # prev THEN Append(l, KeyLine(seg)) ELSE l, ExtinfLine(seg))

LEMMA GovernedWithSegment ==
  ASSUME NEW l \in Seq(Line), NEW seg \in Segment, NEW prev, Governed(l),
         InForce(l, Len(l) + 1, prev, DefaultTag)
  PROVE  LET n == WithSegment(l, seg, prev)
         IN  Governed(n) /\ InForce(n, Len(n) + 1, KeyTag(seg), DefaultTag)
<1>1. CASE KeyTag(seg) # prev
  <2> DEFINE k == Append(l, KeyLine(seg))
  <2>1. k \in Seq(Line) /\ Len(k) = Len(l) + 1
    BY LineTypes, Extended
  <2>2. KeyLine(seg).tag # "EXTINF" /\ KeyLine(seg) \in Line
    BY LineTypes DEF KeyLine
  <2>3. Governed(k)
    BY <2>2, GovernedOther
  <2>4. InForce(k, Len(l) + 2, KeyTag(seg), DefaultTag)
    BY KeyTakesForce
  <2>5. WithSegment(l, seg, prev) = Append(k, ExtinfLine(seg))
    BY <1>1 DEF WithSegment
  <2> HIDE DEF k
  <2>6. Len(l) + 2 = Len(k) + 1 /\ Len(Append(k, ExtinfLine(seg))) = Len(k) + 1
    BY <2>1
  <2>7. Len(k) + 1 + 1 = Len(k) + 2
    BY <2>1
  <2> QED  BY <2>1, <2>3, <2>4, <2>5, <2>6, <2>7, GovernedSegment
<1>2. CASE KeyTag(seg) = prev
  <2>1. WithSegment(l, seg, prev) = Append(l, ExtinfLine(seg))
    BY <1>2 DEF WithSegment
  <2>2. Len(Append(l, ExtinfLine(seg))) + 1 = Len(l) + 2
    OBVIOUS
  <2> QED  BY <1>2, <2>1, <2>2, GovernedSegment
<1> QED  BY <1>1, <1>2

LEMMA WriteSegmentIs ==
  ASSUME NEW seg \in Segment, m_out \in Seq(Line), WriteSegment(seg)
  PROVE  m_out' = WithSegment(m_out, seg, m_prev_crypto)
<1>1. ExtinfLine(seg) \in Line /\ KeyLine(seg) \in Line
  BY LineTypes
<1>2. \A t \in Seq(Line) : t \o <<ExtinfLine(seg)>> = Append(t, ExtinfLine(seg))
  BY <1>1, AppendIsConcat
<1> QED  BY <1>1, <1>2, Extended DEF WriteSegment, WithSegment

LEMMA ConcatSegment ==
  ASSUME NEW f \in Seq(Line), NEW seg \in Segment, m_out \in Seq(Line), WriteSegment(seg)
  PROVE  f \o m_out' = WithSegment(f \o m_out, seg, m_prev_crypto)
<1>1. \A t \in Seq(Line), x \in Line : f \o Append(t, x) = Append(f \o t, x)
  OBVIOUS
<1>2. ExtinfLine(seg) \in Line /\ KeyLine(seg) \in Line
  BY LineTypes
<1>3. Append(m_out, KeyLine(seg)) \in Seq(Line)
  BY <1>2, Extended
<1> QED  BY <1>1, <1>2, <1>3, WriteSegmentIs DEF WithSegment

(* What WriteSegment leaves in the stream, alone or after a file f.        *)
LEMMA WriteSegmentContinues ==
  ASSUME NEW f \in Seq(Line), NEW seg \in Segment, m_out \in Seq(Line),
         WriteSegment(seg), Continues(f \o m_out)
  PROVE  Continues(f \o m_out)'
<1>1. m_prev_crypto' = KeyTag(seg)
  BY DEF WriteSegment
<1>4. f \o m_out' = WithSegment(f \o m_out, seg, m_prev_crypto)
  BY ConcatSegment
<1>5. f \o m_out \in Seq(Line)
  OBVIOUS
<1>6. LET n == WithSegment(f \o m_out, seg, m_prev_crypto)
      IN  Governed(n) /\ InForce(n, Len(n) + 1, KeyTag(seg), DefaultTag)
  BY <1>5, GovernedWithSegment DEF Continues
<1> QED  BY <1>1, <1>4, <1>6 DEF Continues

(* A text of a single header governs nothing.                              *)
LEMMA HeaderContinues ==
  ASSUME NEW n \in Nat, WriteHeader(n)
  PROVE  Continues(m_out)'
BY DEF WriteHeader, HeaderLine, Continues, Governed, Segments, SegmentsUpTo, InForce

LEMMA KeyInit == Init => KeyInv
BY DEF Init, ProgramInit, IndexInit, KeyInv, KeyInForce

LEMMA KeyStep == TypeInv /\ KeyInv /\ [Next]_vars => KeyInv'
<1> SUFFICES ASSUME TypeInv, KeyInv, [Next]_vars PROVE KeyInv'
  OBVIOUS
<1> USE Assumptions DEF SegmenterAssumption
<1> USE DEF TypeInv
<1>1. CASE BeginIndex
  <2>1. CASE Live
    BY <1>1, <2>1 DEF BeginIndex, LiveBegin, KeyInv, KeyInForce, Control, indexVars, liveVars
  <2>2. CASE ~Live
    <3>1. WriteHeader(1) /\ playlist' = <<>> /\ temp' = temp /\ m_out' \in Seq(Line)
      BY <1>1, <2>2, WriteHeaderType DEF BeginIndex, Begin, liveVars, TypeOK
    <3>2. Continues(m_out)'
      BY <3>1, HeaderContinues
    <3>3. playlist' \o m_out' = m_out'
      BY <3>1
    <3>4. Continues(playlist \o m_out)'
      BY <3>2, <3>3 DEF Continues
    <3>5. Governed(playlist)'
      BY <3>1 DEF Governed, Segments, SegmentsUpTo
    <3> QED  BY <1>1, <2>2, <3>1, <3>4, <3>5 DEF BeginIndex, KeyInv, KeyInForce
  <2> QED  BY <2>1, <2>2
<1>2. CASE AddToIndex
  <2>1. NewSegment \in Segment
    BY <1>2, NewSegmentType DEF AddToIndex, Control
  <2>2. CASE Live
    BY <1>2, <2>2 DEF AddToIndex, LiveAddSegment, KeyInv, KeyInForce
  <2>3. CASE ~Live
    <3>1. /\ WriteSegment(NewSegment) /\ playlist' = playlist /\ temp' = temp
          /\ playlist \in Seq(Line) /\ m_out \in Seq(Line)
          /\ Continues(playlist \o m_out)
      BY <1>2, <2>3 DEF AddToIndex, AddSegment, liveVars, Control, TypeOK, KeyInv
    <3>2. Continues(playlist \o m_out)'
      BY <2>1, <3>1, WriteSegmentContinues DEF Continues
    <3> QED  BY <2>3, <3>1, <3>2 DEF KeyInv, KeyInForce, Governed
  <2> QED  BY <2>2, <2>3
<1>3. CASE IndexWorks
  <2>1. CASE Flush /\ UNCHANGED <<liveVars, files>>
    <3>1. /\ ~Live /\ playlist \in Seq(Line) /\ m_out \in Seq(Line)
          /\ Continues(playlist \o m_out) /\ pc = "wait"
      BY <1>3, <2>1 DEF IndexWorks, Flush, Control, TypeOK, KeyInv
    <3>2. /\ playlist' = playlist \o m_out /\ m_out' = <<>> /\ temp' = temp
          /\ m_prev_crypto' = m_prev_crypto /\ pc' = pc
      BY <1>3, <2>1 DEF IndexWorks, Flush, liveVars
    <3>3. playlist' \o m_out' = playlist \o m_out
      BY <3>1, <3>2
    <3>4. Continues(playlist \o m_out)'
      BY <3>1, <3>2, <3>3 DEF Continues
    <3>5. Governed(playlist')
      BY <3>1, <3>2 DEF Continues
    <3> QED  BY <3>1, <3>2, <3>4, <3>5 DEF KeyInv, KeyInForce
  <2>2. CASE Trim
    BY <1>3, <2>2 DEF IndexWorks, Trim, KeyInv, KeyInForce, Control, indexVars
  <2>3. CASE OpenTemp
    <3>1. m_sequence - Len(m_segments) \in Nat
      BY DEF TypeOK, Control
    <3>2. Continues(m_out)'
      BY <2>3, <3>1, HeaderContinues DEF OpenTemp
    <3>3. temp' = <<>> /\ Governed(temp')
      BY <2>3 DEF OpenTemp, Governed, Segments, SegmentsUpTo
    <3>4. Live
      BY <2>3 DEF OpenTemp, Control
    <3> QED  BY <2>3, <3>2, <3>3, <3>4 DEF OpenTemp, KeyInv, KeyInForce
  <2>4. CASE WriteNext
    <3>1. /\ m_segments[iter] \in Segment /\ WriteSegment(m_segments[iter])
          /\ m_out \in Seq(Line) /\ Live
      BY <2>4 DEF WriteNext, TypeOK, Control
    <3>2. Continues(m_out)
      BY <2>4, <3>1 DEF WriteNext, KeyInv
    <3>3. <<>> \o m_out = m_out /\ <<>> \o m_out' = m_out'
      BY <3>1, WriteSegmentType
    <3>4. Continues(m_out)'
      BY <3>1, <3>2, <3>3, Empty, WriteSegmentContinues DEF Continues
    <3> QED  BY <2>4, <3>1, <3>4 DEF WriteNext, KeyInv, KeyInForce
  <2>5. CASE CloseTemp
    <3>1. temp = <<>> /\ m_out \in Seq(Line) /\ Live /\ Governed(m_out)
      BY <2>5 DEF CloseTemp, TypeOK, Control, KeyInv, Continues
    <3>2. temp' = m_out
      BY <2>5, <3>1 DEF CloseTemp
    <3> QED  BY <2>5, <3>1, <3>2 DEF CloseTemp, KeyInv, KeyInForce
  <2>6. CASE Rename
    BY <1>3, <2>6 DEF IndexWorks, Rename, KeyInv, KeyInForce, Control
  <2> QED  BY <1>3, <2>1, <2>2, <2>3, <2>4, <2>5, <2>6 DEF IndexWorks
<1>4. CASE EndIndex
  <2>1. End /\ UNCHANGED <<liveVars, files>> /\ playlist \in Seq(Line) /\ m_out \in Seq(Line)
    BY <1>4 DEF EndIndex, LiveEnd, Control, TypeOK
  <2>2. Governed(playlist \o m_out)
    <3>1. CASE Live
      <4>1. Governed(playlist)
        BY <2>1, NoFileAssumption DEF KeyInv, KeyInForce
      <4>2. m_out = <<>> /\ playlist \o <<>> = playlist
        BY <1>4, <2>1, <3>1 DEF EndIndex, Control
      <4> QED  BY <4>1, <4>2
    <3>2. CASE ~Live
      BY <1>4, <2>1, <3>2 DEF EndIndex, KeyInv, Continues
    <3> QED  BY <3>1, <3>2
  <2>3. EndLine \in Line /\ EndLine.tag # "EXTINF"
    BY LineTypes DEF EndLine
  <2>4. playlist' = Append(playlist \o m_out, EndLine) /\ m_out' = <<>>
    BY <2>1, <2>3 DEF End
  <2>4a. playlist \o m_out \in Seq(Line)
    BY <2>1
  <2>5. Governed(playlist')
    BY <2>2, <2>3, <2>4, <2>4a, GovernedOther
  <2>6. CASE Live
    BY <1>4, <2>1, <2>5, <2>6 DEF EndIndex, End, Control, KeyInv, KeyInForce, liveVars
  <2>7. CASE ~Live
    <3>1. InForce(playlist \o m_out, Len(playlist \o m_out) + 1, m_prev_crypto, DefaultTag)
      BY <1>4, <2>7 DEF EndIndex, KeyInv, Continues
    <3>2. InForce(playlist', Len(playlist') + 1, m_prev_crypto, DefaultTag)
      BY <2>4, <2>4a, <3>1, EndLineKeepsKey
    <3>3. playlist' \o m_out' = playlist'
      BY <2>1, <2>3, <2>4
    <3>4. Continues(playlist \o m_out)'
      BY <2>1, <2>5, <3>2, <3>3 DEF Continues, End
    <3> QED  BY <2>1, <2>5, <2>7, <3>4 DEF KeyInv, KeyInForce, liveVars
  <2> QED  BY <2>6, <2>7
<1>5. CASE Restart
  BY <1>5 DEF Restart, KeyInv, KeyInForce
<1>6. CASE OpenSegment \/ SwitchKey \/ CloseSegment \/ NextRound \/ Copies \/ Die
  <2>1. UNCHANGED <<indexVars, liveVars>> /\ (pc' \in {"begin", "dead"} \/ pc \notin {"begin", "dead"})
    BY <1>6 DEF OpenSegment, SwitchKey, CloseSegment, NextRound, Copies, CopySegment, Die
  <2> QED  BY <2>1 DEF KeyInv, KeyInForce, Continues, indexVars, liveVars
<1>7. CASE UNCHANGED vars
  BY <1>7 DEF vars, KeyInv, KeyInForce, Continues, indexVars, liveVars
<1> QED
  BY <1>1, <1>2, <1>3, <1>4, <1>5, <1>6, <1>7 DEF Next, Works

(* Whatever index is published, by this start of the program or an earlier *)
(* one, and whenever it is read: each segment in it is read under the tag  *)
(* that AddSegment was given for it.                                       *)
THEOREM KeysStayInForce == Spec => []KeyInForce
<1>1. KeyInv => KeyInForce
  BY DEF KeyInv
<1> QED  BY <1>1, TypeInit, TypeStep, KeyInit, KeyStep, PTL DEF Spec

(***************************************************************************)
(* Rounding.                                                               *)
(***************************************************************************)

LEMMA Division ==
  ASSUME NEW a \in Nat, NEW b \in Nat \ {0}
  PROVE  /\ a \div b \in Nat
         /\ b * (a \div b) <= a
         /\ a < b * (a \div b) + b
OBVIOUS

LEMMA ScaleTimes ==
  ASSUME NEW q \in Int
  PROVE  /\ Scale * q \in Int /\ (2*Scale) * q = 2 * (Scale * q)
         /\ Scale * (-q) = -(Scale * q) /\ q * Scale = Scale * q
BY Assumptions DEF SegmenterAssumption

(* round() is off by at most half a second.                                *)
LEMMA RoundError ==
  ASSUME NEW x \in Int
  PROVE  -Scale <= 2*x - 2*(Scale*Round(x)) /\ 2*x - 2*(Scale*Round(x)) <= Scale
<1> USE Assumptions DEF SegmenterAssumption
<1>1. CASE x >= 0
  <2> DEFINE q == (2*x + Scale) \div (2*Scale)
  <2>0. 2*x + Scale \in Nat /\ 2*Scale \in Nat \ {0}
    BY <1>1
  <2>1. q \in Nat /\ (2*Scale) * q <= 2*x + Scale /\ 2*x + Scale < (2*Scale) * q + 2*Scale
    BY <2>0, Division
  <2>2. Round(x) = q
    BY <1>1 DEF Round
  <2> HIDE DEF q
  <2>3. (2*Scale) * q = 2 * (Scale * q) /\ Scale * q \in Int
    BY <2>1, ScaleTimes
  <2> QED  BY <2>1, <2>2, <2>3
<1>2. CASE x < 0
  <2> DEFINE q == (2*(-x) + Scale) \div (2*Scale)
  <2>0. 2*(-x) + Scale \in Nat /\ 2*Scale \in Nat \ {0}
    BY <1>2
  <2>1. q \in Nat /\ (2*Scale) * q <= 2*(-x) + Scale /\ 2*(-x) + Scale < (2*Scale) * q + 2*Scale
    BY <2>0, Division
  <2>2. Round(x) = -q
    BY <1>2 DEF Round
  <2> HIDE DEF q
  <2>3. (2*Scale) * q = 2 * (Scale * q) /\ Scale * q \in Int /\ Scale * (-q) = -(Scale * q)
    BY <2>1, ScaleTimes
  <2> QED  BY <2>1, <2>2, <2>3
<1> QED  BY <1>1, <1>2

(* What is rounded fits an int, when no duration comes near its limits.    *)
LEMMA RoundFits ==
  ASSUME DurationsFit, NEW d \in Durations, NEW e \in Int, 2*AbsVal(e) <= Scale
  PROVE  Round(AbsVal(d) + e) \in -IntMax .. IntMax - 1
<1> USE Assumptions DEF SegmenterAssumption
<1>1. d \in Int /\ AbsVal(d) \in Nat /\ AbsVal(e) \in Nat
  BY AbsValType
<1>2. -Scale <= 2*e /\ 2*e <= Scale
  BY DEF AbsVal
<1> DEFINE x == AbsVal(d) + e
           r == Round(x)
<1>3. x \in Int /\ r \in Int
  BY <1>1, RoundType
<1>4. -Scale <= 2*x - 2*(Scale*r) /\ 2*x - 2*(Scale*r) <= Scale
  BY <1>3, RoundError
<1>5. 2*AbsVal(d) + 4*Scale <= 2*(Scale*IntMax) /\ -Scale <= 2*x /\ 2*x <= 2*AbsVal(d) + Scale
  <2>1. AbsVal(d) + 2*Scale <= Scale*IntMax
    BY DEF DurationsFit
  <2>2. Scale*IntMax \in Int
    BY ScaleTimes
  <2> QED  BY <1>1, <1>2, <2>1, <2>2
<1> HIDE DEF x, r
<1>6. Scale*r \in Int /\ Scale*IntMax \in Int
  BY <1>3, ScaleTimes
<1>7. 2*(Scale*r) <= 2*(Scale*IntMax) - 2*Scale /\ -2*Scale <= 2*(Scale*r)
  BY <1>1, <1>3, <1>4, <1>5, <1>6
<1>8. Scale*r <= Scale*(IntMax - 1) /\ Scale*(-1) <= Scale*r
  <2>1. Scale*(IntMax - 1) = Scale*IntMax - Scale /\ Scale*(-1) = -Scale
    OBVIOUS
  <2> QED  BY <1>6, <1>7, <2>1
<1>9. r <= IntMax - 1 /\ -1 <= r
  BY <1>3, <1>8
<1>10. IntMax >= 1
  <2>1. Scale*IntMax >= 2*Scale
    BY <1>1, <1>5, <1>6
  <2> QED  BY <2>1
<1> QED  BY <1>3, <1>9, <1>10 DEF x, r
LEMMA RoundAtLeast ==
  ASSUME NEW d \in Int, NEW e \in Int, 2*AbsVal(e) <= Scale
  PROVE  Round(AbsVal(d) + e) >= -1
<1> USE Assumptions DEF SegmenterAssumption
<1> DEFINE x == AbsVal(d) + e
           r == Round(x)
<1>1. x \in Int /\ 2*x >= -Scale
  BY DEF AbsVal
<1>2. r \in Int
  BY <1>1, RoundType
<1>3. 2*x - 2*(Scale*r) <= Scale
  BY <1>1, RoundError
<1> HIDE DEF x, r
<1>4. Scale*r \in Int
  BY <1>2, ScaleTimes
<1>5. Scale*r >= Scale*(-1)
  BY <1>1, <1>3, <1>4
<1>6. r >= -1
  BY <1>2, <1>5
<1> QED  BY <1>6 DEF x, r

(* A positive duration is never rounded to a negative one.                 *)
LEMMA RoundNonNegative ==
  ASSUME NEW d \in Int, d > 0, NEW e \in Int, 2*AbsVal(e) <= Scale
  PROVE  Round(AbsVal(d) + e) >= 0
<1> USE Assumptions DEF SegmenterAssumption
<1> DEFINE x == AbsVal(d) + e
           r == Round(x)
<1>1. x \in Int /\ 2*x >= 2 - Scale
  BY DEF AbsVal
<1>2. r \in Int
  BY <1>1, RoundType
<1>3. 2*x - 2*(Scale*r) <= Scale
  BY <1>1, RoundError
<1> HIDE DEF x, r
<1>4. Scale*r \in Int
  BY <1>2, ScaleTimes
<1>5. Scale*r > -Scale
  BY <1>1, <1>3, <1>4
<1>6. Scale*r > Scale*(-1)
  BY <1>5
<1>7. r > -1
  BY <1>2, <1>6
<1> QED  BY <1>2, <1>7 DEF x, r

LEMMA TimeInit == Init => TimeInv
BY Assumptions
DEF Init, ProgramInit, TimeInv, ListedTimeTracksTotal, Additional, AbsVal, SegmenterAssumption

LEMMA TimeStep ==
  ASSUME DurationsFit
  PROVE  TypeInv /\ TimeInv /\ [Next]_vars => TimeInv'
<1> SUFFICES ASSUME TypeInv, TimeInv, [Next]_vars PROVE TimeInv'
  OBVIOUS
<1> USE Assumptions DEF SegmenterAssumption
<1>1. CASE CloseSegment
  <2> DEFINE e == duration_acc_error
             x == AbsVal(duration) + e
             extra == IF duration <= 0 THEN 1 ELSE 0
  <2>1. /\ duration \in Durations /\ copied = AbsVal(duration)
        /\ e = total - Scale*listed
        /\ 2*AbsVal(total - Scale*(listed - 0)) <= Scale
    BY <1>1 DEF CloseSegment, TimeInv, ListedTimeTracksTotal, Additional
  <2>2. /\ duration \in Int /\ e \in Int /\ total \in Nat /\ listed \in Int
        /\ AbsVal(duration) \in Nat /\ x \in Int
    BY <2>1, AbsValType DEF TypeInv, TypeOK
  <2>1a. 2*AbsVal(e) <= Scale
    <3>1. listed - 0 = listed
      BY <2>2
    <3> QED  BY <2>1, <3>1
  <2>3. Round(x) \in -IntMax .. IntMax - 1 /\ Round(x) \in Int
    BY <2>1, <2>1a, <2>2, RoundFits
  <2>4. IntOf(Round(x)) = {Round(x)} /\ IntOf(Round(x) + 1) = {Round(x) + 1}
    BY <2>3 DEF IntOf
  <2>5. /\ e' = e + duration - Round(x)*Scale
        /\ rounded_duration' = Round(x) + extra
        /\ listed' = listed + rounded_duration'
    BY <1>1, <2>3, <2>4 DEF CloseSegment
  <2>6. /\ pc' = "add" /\ total' = total + AbsVal(duration) /\ duration' = duration
    BY <1>1, <2>1 DEF CloseSegment
  <2>7. -Scale <= 2*x - 2*(Scale*Round(x)) /\ 2*x - 2*(Scale*Round(x)) <= Scale
    BY <2>2, RoundError
  <2>8. /\ Additional' = extra /\ listed' - extra = listed + Round(x)
        /\ Scale*(listed + Round(x)) = Scale*listed + Scale*Round(x)
        /\ Round(x)*Scale = Scale*Round(x)
    BY <2>2, <2>3, <2>5, <2>6 DEF Additional
  <2>9. Scale*listed \in Int /\ Scale*Round(x) \in Int
    BY <2>2, <2>3, ScaleTimes
  <2>10. total' - Scale*(listed' - extra) = x - Scale*Round(x)
    <3> HIDE DEF extra
    <3>1. Scale*(listed' - extra) = Scale*listed + Scale*Round(x)
      BY <2>8
    <3> QED  BY <2>1, <2>2, <2>3, <2>6, <2>9, <3>1
  <2>11. ListedTimeTracksTotal'
    BY <2>2, <2>7, <2>8, <2>9, <2>10 DEF ListedTimeTracksTotal, AbsVal
  <2>12. duration > 0 => e' = total' - Scale*listed'
    <3> SUFFICES ASSUME duration > 0 PROVE e' = total' - Scale*listed'
      OBVIOUS
    <3>1. extra = 0 /\ listed' = listed + Round(x)
      BY <2>2, <2>3, <2>5
    <3>2. Scale*listed' = Scale*listed + Scale*Round(x)
      BY <2>8, <3>1
    <3> QED  BY <2>1, <2>2, <2>5, <2>6, <2>8, <2>9, <3>2 DEF AbsVal
  <2>13. rounded_duration' \in 0..IntMax
    <3>1. CASE duration <= 0
      <4>1. Round(x) >= -1
        BY <2>1, <2>1a, <2>2, RoundAtLeast
      <4> QED  BY <2>3, <2>5, <3>1, <4>1
    <3>2. CASE duration > 0
      <4>1. Round(x) >= 0
        BY <2>1, <2>1a, <2>2, <3>2, RoundNonNegative
      <4> QED  BY <2>2, <2>3, <2>5, <3>2, <4>1
    <3> QED  BY <2>2, <3>1, <3>2
  <2> QED  BY <2>1, <2>6, <2>11, <2>12, <2>13 DEF TimeInv
<1>2. CASE Copies
  <2>1. PICK d \in Durations, bad \in BOOLEAN : CopySegment(d, AbsVal(d), bad)
    BY <1>2 DEF Copies
  <2>2. Additional' = 0 /\ Additional = 0
    BY <2>1 DEF CopySegment, Additional
  <2> QED  BY <2>1, <2>2 DEF CopySegment, TimeInv, ListedTimeTracksTotal
<1>3. CASE AddToIndex
  <2>1. Additional' = Additional
    BY <1>3 DEF AddToIndex, Additional, timeVars
  <2> QED  BY <1>3, <2>1 DEF AddToIndex, TimeInv, ListedTimeTracksTotal, timeVars
<1>4. CASE NextRound
  <2>1. Additional' = Additional
    <3>1. duration \in Int
      BY DEF TypeInv, TypeOK
    <3> QED  BY <1>4, <3>1 DEF NextRound, Additional, timeVars
  <2> QED  BY <1>4, <2>1 DEF NextRound, TimeInv, ListedTimeTracksTotal, timeVars
<1>5. CASE Restart
  BY <1>5 DEF Restart, TimeInv, ListedTimeTracksTotal, Additional, AbsVal
<1>6. CASE BeginIndex \/ OpenSegment \/ SwitchKey
  <2>1. Additional' = 0 /\ Additional = 0
    BY <1>6 DEF BeginIndex, OpenSegment, SwitchKey, Additional
  <2> QED
    BY <1>6, <2>1 DEF BeginIndex, OpenSegment, SwitchKey, TimeInv, ListedTimeTracksTotal, timeVars
<1>7. CASE IndexWorks \/ EndIndex \/ Die \/ UNCHANGED vars
  <2>1. pc' # "dead" => pc # "dead" /\ Additional' = Additional
    BY <1>7 DEF IndexWorks, EndIndex, Die, vars, Additional, timeVars
  <2> QED
    BY <1>7, <2>1 DEF IndexWorks, EndIndex, Die, vars, TimeInv, ListedTimeTracksTotal, timeVars
<1> QED
  BY <1>1, <1>2, <1>3, <1>4, <1>5, <1>6, <1>7 DEF Next, Works

(* The seconds that AddSegment is given differ from the seconds copied by  *)
(* no more than half a second, and the additional second of the last       *)
(* segment, however many segments there are.                               *)
THEOREM NoDrift ==
  ASSUME DurationsFit
  PROVE  Spec => []ListedTimeTracksTotal
<1>1. TimeInv => ListedTimeTracksTotal
  BY DEF TimeInv
<1> QED  BY <1>1, TypeInit, TypeStep, TimeInit, TimeStep, PTL DEF Spec

(***************************************************************************)
(* Durations in the index.                                                 *)
(***************************************************************************)

(* What is no negative number is not changed by the conversion for the     *)
(* index, or at most made smaller.                                         *)
LEMMA Remainder ==
  ASSUME NEW a \in Nat, NEW b \in Nat \ {0}
  PROVE  a % b <= a
OBVIOUS

LEMMA NewSegmentFits ==
  ASSUME TypeInv, TimeInv, pc = "add"
  PROVE  NewSegment.duration <= IntMax
<1> USE Assumptions DEF SegmenterAssumption
<1>1. rounded_duration \in 0..IntMax
  BY DEF TimeInv
<1>2. rounded_duration % ULong <= rounded_duration
  BY <1>1, Remainder
<1>3. rounded_duration % ULong \in Int
  BY <1>1
<1> QED  BY <1>1, <1>2, <1>3 DEF NewSegment

(* Texts whose durations fit stay so when a fitting segment is added.      *)
LEMMA FitsAppend ==
  ASSUME NEW l \in Seq(Line), NEW x \in Line, FitsInt(l),
         x.tag = "EXTINF" => x.seg.duration <= IntMax
  PROVE  FitsInt(Append(l, x))
BY DEF FitsInt, Segments, SegmentsUpTo

LEMMA FitsConcat ==
  ASSUME NEW l \in Seq(Line), NEW m \in Seq(Line), FitsInt(l), FitsInt(m)
  PROVE  FitsInt(l \o m)
<1> SUFFICES ASSUME NEW i \in Segments(l \o m)
             PROVE  (l \o m)[i].seg.duration <= IntMax
  BY DEF FitsInt
<1>1. /\ i \in 1 .. Len(l) + Len(m) /\ (l \o m)[i].tag = "EXTINF"
      /\ (l \o m)[i] = IF i <= Len(l) THEN l[i] ELSE m[i - Len(l)]
  BY ConcatProperties DEF Segments, SegmentsUpTo
<1>2. CASE i <= Len(l)
  BY <1>1, <1>2 DEF FitsInt, Segments, SegmentsUpTo
<1>3. CASE i > Len(l)
  BY <1>1, <1>3 DEF FitsInt, Segments, SegmentsUpTo
<1> QED  BY <1>1, <1>2, <1>3

LEMMA WriteSegmentFits ==
  ASSUME NEW seg \in Segment, m_out \in Seq(Line), WriteSegment(seg),
         FitsInt(m_out), seg.duration <= IntMax
  PROVE  FitsInt(m_out)'
<1>1. /\ KeyLine(seg) \in Line /\ KeyLine(seg).tag = "KEY"
      /\ ExtinfLine(seg) \in Line /\ ExtinfLine(seg).seg = seg
  BY LineTypes DEF KeyLine, ExtinfLine
<1> DEFINE t == IF KeyTag(seg) # m_prev_crypto THEN Append(m_out, KeyLine(seg)) ELSE m_out
<1>2. t \in Seq(Line) /\ FitsInt(t)
  BY <1>1, FitsAppend
<1>3. m_out' = Append(t, ExtinfLine(seg))
  BY <1>1, <1>2, AppendIsConcat DEF WriteSegment
<1> HIDE DEF t
<1>4. FitsInt(Append(t, ExtinfLine(seg)))
  BY <1>1, <1>2, FitsAppend
<1> QED  BY <1>3, <1>4 DEF FitsInt

LEMMA WriteHeaderFits ==
  ASSUME NEW n \in Nat, WriteHeader(n)
  PROVE  FitsInt(m_out')
BY DEF WriteHeader, HeaderLine, FitsInt, Segments, SegmentsUpTo

LEMMA DurationInit == Init => DurationInv
BY DEF Init, ProgramInit, IndexInit, LiveInit, DurationInv, NoDurationWraps, Listed, FitsInt,
       Segments, SegmentsUpTo

(* The invariant in terms of texts.                                        *)
LEMMA PublishedFits ==
  /\ NoDurationWraps <=> (playlist # NoFile => FitsInt(playlist))
  /\ NoDurationWraps' <=> (playlist' # NoFile => FitsInt(playlist'))
BY DEF NoDurationWraps, Listed, FitsInt

LEMMA DurationStep == TypeInv /\ TimeInv /\ DurationInv /\ [Next]_vars => DurationInv'
<1> SUFFICES ASSUME TypeInv, TimeInv, DurationInv, [Next]_vars PROVE DurationInv'
  OBVIOUS
<1> USE Assumptions DEF SegmenterAssumption
<1>e. FitsInt(<<>>)
  BY DEF FitsInt, Segments, SegmentsUpTo
<1>i. /\ playlist # NoFile => FitsInt(playlist)
      /\ temp # NoFile => FitsInt(temp)
      /\ FitsInt(m_out)
      /\ \A j \in 1..Len(m_segments) : m_segments[j].duration <= IntMax
  BY PublishedFits DEF DurationInv
<1>t. m_out \in Seq(Line) /\ m_segments \in Seq(Segment)
  BY DEF TypeInv, TypeOK
<1>g. SUFFICES /\ playlist' # NoFile => FitsInt(playlist')
               /\ temp' # NoFile => FitsInt(temp')
               /\ FitsInt(m_out')
               /\ \A j \in 1..Len(m_segments') : m_segments'[j].duration <= IntMax
  BY PublishedFits DEF DurationInv, FitsInt
<1>1. CASE BeginIndex
  BY <1>1, <1>e, <1>i, WriteHeaderFits DEF BeginIndex, LiveBegin, Begin, indexVars, liveVars
<1>2. CASE AddToIndex
  <2>1. NewSegment \in Segment /\ NewSegment.duration <= IntMax
    BY <1>2, NewSegmentType, NewSegmentFits DEF AddToIndex, TypeInv, Control
  <2>2. CASE Live
    BY <1>2, <1>i, <1>t, <2>1, <2>2 DEF AddToIndex, LiveAddSegment
  <2>3. CASE ~Live
    <3>1. FitsInt(m_out)'
      BY <1>2, <1>i, <1>t, <2>1, <2>3, WriteSegmentFits DEF AddToIndex, AddSegment
    <3> QED  BY <1>2, <1>i, <2>3, <3>1 DEF AddToIndex, AddSegment, liveVars, FitsInt
  <2> QED  BY <2>2, <2>3
<1>3. CASE IndexWorks
  <2>1. CASE Flush /\ UNCHANGED <<liveVars, files>>
    <3>1. playlist \in Seq(Line)
      BY <1>3, <2>1 DEF IndexWorks, Flush, TypeInv, Control
    <3>2. FitsInt(playlist \o m_out)
      BY <1>i, <1>t, <3>1, NoFileAssumption, FitsConcat
    <3> QED  BY <2>1, <1>i, <1>e, <3>2 DEF Flush, liveVars
  <2>2. CASE Trim
    BY <2>2, <1>i, <1>t DEF Trim, indexVars
  <2>3. CASE OpenTemp
    <3>1. m_sequence - Len(m_segments) \in Nat
      BY DEF TypeInv, TypeOK, Control
    <3> QED  BY <2>3, <1>i, <1>e, <3>1, WriteHeaderFits DEF OpenTemp
  <2>4. CASE WriteNext
    <3>1. m_segments[iter] \in Segment /\ m_segments[iter].duration <= IntMax
      BY <2>4, <1>i, <1>t DEF WriteNext, TypeInv, TypeOK
    <3>2. FitsInt(m_out)'
      BY <2>4, <1>i, <1>t, <3>1, WriteSegmentFits DEF WriteNext
    <3> QED  BY <2>4, <1>i, <3>2 DEF WriteNext, FitsInt
  <2>5. CASE CloseTemp
    <3>1. temp = <<>>
      BY <2>5 DEF CloseTemp, TypeInv, Control
    <3>2. temp' = m_out
      BY <2>5, <1>t, <3>1 DEF CloseTemp
    <3> QED  BY <2>5, <1>i, <1>e, <3>2 DEF CloseTemp
  <2>6. CASE Rename
    BY <2>6, <1>i DEF Rename
  <2> QED  BY <1>3, <2>1, <2>2, <2>3, <2>4, <2>5, <2>6 DEF IndexWorks
<1>4. CASE EndIndex
  <2>1. /\ End /\ UNCHANGED <<liveVars, files>> /\ playlist \in Seq(Line)
    BY <1>4 DEF EndIndex, LiveEnd, TypeInv, Control
  <2>2. /\ FitsInt(playlist \o m_out) /\ playlist \o m_out \in Seq(Line)
    BY <1>i, <1>t, <2>1, NoFileAssumption, FitsConcat
  <2>3. playlist' = Append(playlist \o m_out, EndLine) /\ EndLine \in Line /\ EndLine.tag = "ENDLIST"
    BY <1>t, <2>1, LineTypes DEF End, EndLine
  <2>4. FitsInt(playlist')
    BY <2>2, <2>3, FitsAppend
  <2> QED  BY <1>i, <1>e, <2>1, <2>4 DEF End, liveVars
<1>5. CASE Restart
  BY <1>5, <1>i, <1>e DEF Restart
<1>6. CASE OpenSegment \/ SwitchKey \/ CloseSegment \/ NextRound \/ Copies \/ Die
  BY <1>6, <1>i
  DEF OpenSegment, SwitchKey, CloseSegment, NextRound, Copies, CopySegment, Die, indexVars, liveVars
<1>7. CASE UNCHANGED vars
  BY <1>7, <1>i DEF vars, indexVars, liveVars
<1> QED
  BY <1>1, <1>2, <1>3, <1>4, <1>5, <1>6, <1>7 DEF Next, Works

(* With any segmenting module that reports the time it has copied, no      *)
(* segment as long as the largest int, no negative number is listed as a   *)
(* huge one: every duration in a published index is a number of type int.  *)
THEOREM DurationsNeverWrap ==
  ASSUME DurationsFit
  PROVE  Spec => []NoDurationWraps
<1>1. DurationInv => NoDurationWraps
  BY DEF DurationInv
<1> QED
  BY <1>1, TypeInit, TypeStep, TimeInit, TimeStep, DurationInit, DurationStep, PTL DEF Spec
=============================================================================
