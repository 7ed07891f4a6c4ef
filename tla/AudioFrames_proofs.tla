-------------------------- MODULE AudioFrames_proofs --------------------------
(***************************************************************************)
(* Proofs about AudioFrames, for streams of any number of frames with      *)
(* anything between them, and segments of any length.                      *)
(***************************************************************************)
EXTENDS AudioFrames, SequenceTheorems, TLAPS

Stretch == [from : Int, to : Int]

AudioInv ==
  /\ SEGMENTER \in {"ADTS", "MP3"} /\ stream \in Streams[SEGMENTER]
  /\ m_pos \in Nat /\ offset \in Int /\ offset <= stream.end /\ eof \in BOOLEAN
  /\ reported \in Nat
  /\ content \in [1..MaxSegments -> Seq(Stretch)]
  /\ m_sequence \in Nat \ {0}
  /\ pc \in {"key", "copy", "close", "add"} => m_sequence <= MaxSegments
  /\ eof => offset = stream.end

(* Until the input is over, each tick copied is reported or kept; what is  *)
(* kept when a segment is full is less than its last frame, and a second.  *)
LastOf(s) == stream.frames[s[Len(s)].from]
KeepsLess(rest) ==
  LET full == content[m_sequence]
      last == TrueTicks(SEGMENTER, LastOf(full))
  IN full # <<>> /\ last \in Nat /\ rest < last /\ rest < FRAC_SECOND

TimeInv ==
  ~eof =>
    /\ played = FRAC_SECOND * reported + m_pos
    /\ pc = "copy" /\ m_pos >= FRAC_SECOND * m_length
         => KeepsLess(m_pos - FRAC_SECOND * m_length)
    /\ pc = "close" => KeepsLess(m_pos)
    /\ pc \in {"begin", "open", "key", "add", "wait"} => m_pos < FRAC_SECOND

(* What is behind the read position has been copied, but for what has been *)
(* missed; and the read position is one at which the loop may stand.       *)
Kept(o) == MayBeMissed(o) \/ \E x \in Places : At(x).from = o
Stands ==
  {0} \cup stream.lone \cup DOMAIN stream.frames
      \cup {EndOf(p) : p \in DOMAIN stream.frames}

WholeInv ==
  \A x \in Places : /\ At(x).from \in DOMAIN stream.frames
                    /\ At(x).to = EndOf(At(x).from) /\ At(x).to <= offset

OrderInv == \A x, y \in Places : Precedes(x, y) => At(x).to <= At(y).from

FreshInv ==
  \A n \in 1..MaxSegments : n > m_sequence => content[n] = <<>>

PassedInv ==
  /\ ~eof => offset \in Stands
  /\ \A o \in DOMAIN stream.frames :
       (IF eof THEN EndOf(o) <= stream.end ELSE o < offset) => Kept(o)

KeptInv == WholeInv /\ OrderInv /\ FreshInv /\ PassedInv

(***************************************************************************)
(* What is read in headers.                                                *)
(***************************************************************************)
LEMMA Sizes ==
  ASSUME NEW s \in {"ADTS", "MP3"}
  PROVE  /\ HeaderSizeOf(s) \in {4, 7} /\ FracSecondOf(s) \in Nat \ {0}
         /\ s \in DOMAIN Streams
BY AudioAssumption, SMT
   DEF HeaderSizeOf, FracSecondOf, Adts!HeaderSize, Mp3!HeaderSize, Adts!FRAC_SECOND, Mp3!FRAC_SECOND

LEMMA RateDivides ==
  ASSUME NEW f \in Nat, NEW r \in Nat, 8000 <= r, r <= f
  PROVE  f \div r \in Nat \ {0} /\ 8000 * (f \div r) <= f
<1>1. PICK q \in Nat : q = f \div r /\ r * q <= f /\ f < r * q + r
  <2>1. f \div r \in Nat /\ r * (f \div r) <= f /\ f < r * (f \div r) + r
    OBVIOUS
  <2> QED  BY <2>1
<1>2. q # 0
  BY <1>1
<1>3. 8000 * q <= r * q
  <2>1. PICK k \in Nat : r = 8000 + k
    OBVIOUS
  <2>2. r * q = 8000 * q + k * q /\ k * q \in Nat
    BY <2>1
  <2> QED  BY <2>2
<1> QED  BY <1>1, <1>2, <1>3

(* No frame lasts a second, in the sampling rates of either format.        *)
LEMMA AdtsTicks ==
  ASSUME NEW h \in Adts!Headers
  PROVE  Adts!Ticks(h) \in Nat \ {0} /\ Adts!Ticks(h) < Adts!FRAC_SECOND
<1>1. h.samplerate_idx \in 0..11
  BY DEF Adts!Headers
<1>2. Adts!Rate(h) \in {96000, 88200, 64000, 48000, 44100, 32000,
                        24000, 22050, 16000, 12000, 11025, 8000}
  BY <1>1, SMTT(30) DEF Adts!Rate, Adts!samplerate
<1>3. Adts!Rate(h) \in Nat /\ 8000 <= Adts!Rate(h) /\ Adts!Rate(h) <= 28224000
  BY <1>2, SMT
<1>4. PICK q \in Nat \ {0} : q = 28224000 \div Adts!Rate(h) /\ 8000 * q <= 28224000
  BY <1>3, RateDivides, SMT
<1> QED  BY <1>4, SMT DEF Adts!Ticks, Adts!FRAC_SECOND

LEMMA Mp3Rates ==
  ASSUME NEW h \in Mp3!Headers
  PROVE  Mp3!Rate(h) \in Nat /\ 8000 <= Mp3!Rate(h) /\ Mp3!Rate(h) <= 14112000
<1>1. h.version_idx \in {0, 2, 3} /\ h.samplerate_idx \in 0..2
  BY DEF Mp3!Headers
<1>2. Mp3!Rate(h) \in {11025, 12000, 8000, 22050, 24000, 16000, 44100, 48000, 32000}
  <2>1. Mp3!samplerate[0] = <<11025, 12000, 8000>>
    BY SMT DEF Mp3!samplerate
  <2>2. Mp3!samplerate[2] = <<22050, 24000, 16000>>
    BY SMT DEF Mp3!samplerate
  <2>3. Mp3!samplerate[3] = <<44100, 48000, 32000>>
    BY SMT DEF Mp3!samplerate
  <2> QED  BY <1>1, <2>1, <2>2, <2>3, SMT DEF Mp3!Rate
<1> QED  BY <1>2, SMT

LEMMA Mp3Ticks ==
  ASSUME NEW h \in Mp3!Headers
  PROVE  Mp3!Ticks(h) \in Nat \ {0} /\ Mp3!Ticks(h) < Mp3!FRAC_SECOND
<1>1. PICK q \in Nat \ {0} : q = 14112000 \div Mp3!Rate(h) /\ 8000 * q <= 14112000
  BY Mp3Rates, RateDivides, SMT
<1> QED  BY <1>1, SMT DEF Mp3!Ticks, Mp3!FRAC_SECOND

LEMMA TicksFacts ==
  ASSUME NEW s \in {"ADTS", "MP3"}, NEW h \in HeadersOf(s)
  PROVE  TicksOf(s, h) \in Nat \ {0} /\ TicksOf(s, h) < FracSecondOf(s)
BY AdtsTicks, Mp3Ticks DEF HeadersOf, TicksOf, FracSecondOf

LEMMA Mp3Bitrates ==
  ASSUME NEW h \in Mp3!Headers
  PROVE  Mp3!bitrate[h.version_idx][h.layer_idx][h.bitrate_idx] \in Nat
<1>1. h.version_idx \in {0, 2, 3} /\ h.layer_idx \in {1, 2, 3} /\ h.bitrate_idx \in 1..14
  BY DEF Mp3!Headers
<1> DEFINE v == h.version_idx
           l == h.layer_idx
           k == h.bitrate_idx
<1>2. Mp3!bitrate[v][l][k] \in
        {<<32, 48, 56, 64, 80, 96, 112, 128, 144, 160, 176, 192, 224, 256>>[k],
         <<8, 16, 24, 32, 40, 48, 56, 64, 80, 96, 112, 128, 144, 160>>[k],
         <<32, 40, 48, 56, 64, 80, 96, 112, 128, 160, 192, 224, 256, 320>>[k],
         <<32, 48, 56, 64, 80, 96, 112, 128, 160, 192, 224, 256, 320, 384>>[k],
         32 * k}
  BY <1>1 DEF Mp3!bitrate
<1> QED  BY <1>1, <1>2

LEMMA Lengths ==
  ASSUME NEW s \in {"ADTS", "MP3"}, NEW h \in HeadersOf(s)
  PROVE  PayloadLengthOf(s, h) \in Int
<1>1. CASE s = "ADTS"
  <2>1. h \in Adts!Headers
    BY <1>1 DEF HeadersOf
  <2>2. h.frame_length \in Nat
    <3>1. Adts!HeaderSize \in Nat
      BY DEF Adts!HeaderSize
    <3> QED  BY <2>1, <3>1 DEF Adts!Headers
  <2>3. Adts!PayloadLength(h) \in Int
    BY <2>2 DEF Adts!PayloadLength, Adts!HeaderSize
  <2> QED  BY <1>1, <2>3 DEF PayloadLengthOf
<1>2. CASE s = "MP3"
  <2>1. h \in Mp3!Headers
    BY <1>2 DEF HeadersOf
  <2>2. PICK b \in Nat : b = Mp3!bitrate[h.version_idx][h.layer_idx][h.bitrate_idx]
    BY <2>1, Mp3Bitrates
  <2>3. PICK r \in Nat \ {0} : r = Mp3!Rate(h)
    BY <2>1, Mp3Rates, SMT
  <2>4. (144 * b * 1000) \div r \in Int /\ h.padding \in Int
    BY <2>1 DEF Mp3!Headers
  <2> QED  BY <1>2, <2>2, <2>3, <2>4 DEF PayloadLengthOf, Mp3!PayloadLength, Mp3!HeaderSize
<1> QED  BY <1>1, <1>2

LEMMA StreamFacts ==
  ASSUME AudioInv
  PROVE  /\ stream.end \in Nat
         /\ DOMAIN stream.frames \cup stream.lone \subseteq 0 .. stream.end - 1
         /\ stream.lone \cap DOMAIN stream.frames = {}
         /\ HeaderSize \in {4, 7} /\ FRAC_SECOND \in Nat \ {0}
         /\ \A o \in DOMAIN stream.frames :
              /\ o \in Nat /\ EndOf(o) \in Nat /\ EndOf(o) >= o + HeaderSize
              /\ Ticks(stream.frames[o].header) \in Nat \ {0}
              /\ Ticks(stream.frames[o].header) < FRAC_SECOND
              /\ PayloadLength(stream.frames[o].header) \in Int
              /\ \A p \in DOMAIN stream.frames : o < p => EndOf(o) <= p
<1>1. SEGMENTER \in {"ADTS", "MP3"} /\ stream \in Streams[SEGMENTER]
  BY DEF AudioInv
<1>2. /\ SEGMENTER \in DOMAIN Streams
      /\ HeaderSize \in {4, 7} /\ FRAC_SECOND \in Nat \ {0}
  BY <1>1, Sizes DEF HeaderSize, FRAC_SECOND
<1>3. /\ stream.end \in Nat
      /\ DOMAIN stream.frames \cup stream.lone \subseteq 0 .. stream.end - 1
      /\ stream.lone \cap DOMAIN stream.frames = {}
      /\ \A o \in DOMAIN stream.frames :
           /\ stream.frames[o].header \in HeadersOf(SEGMENTER)
           /\ stream.frames[o].size \in Nat
           /\ stream.frames[o].size >= HeaderSize
           /\ \A p \in DOMAIN stream.frames : o < p => o + stream.frames[o].size <= p
  BY <1>1, <1>2, StreamsAssumption DEF HeaderSize
<1>4. ASSUME NEW o \in DOMAIN stream.frames
      PROVE  /\ o \in Nat /\ EndOf(o) \in Nat /\ EndOf(o) >= o + HeaderSize
             /\ Ticks(stream.frames[o].header) \in Nat \ {0}
             /\ Ticks(stream.frames[o].header) < FRAC_SECOND
             /\ PayloadLength(stream.frames[o].header) \in Int
             /\ \A p \in DOMAIN stream.frames : o < p => EndOf(o) <= p
  <2>1. o \in Nat
    BY <1>3
  <2>2. /\ Ticks(stream.frames[o].header) \in Nat \ {0}
        /\ Ticks(stream.frames[o].header) < FRAC_SECOND
        /\ PayloadLength(stream.frames[o].header) \in Int
    BY <1>1, <1>3, TicksFacts, Lengths DEF Ticks, FRAC_SECOND, PayloadLength
  <2> QED  BY <1>2, <1>3, <2>1, <2>2 DEF EndOf
<1> QED  BY <1>2, <1>3, <1>4

(***************************************************************************)
(* The steps of main().                                                    *)
(***************************************************************************)
Moves ==
  \/ /\ \/ pc = "begin" /\ pc' = "open"
        \/ pc = "open" /\ pc' \in {"key", "copy"} /\ m_sequence <= MaxSegments
        \/ pc = "key" /\ pc' = "copy"
        \/ pc = "close" /\ pc' = "add"
        \/ pc = "wait" /\ pc' = "open"
        \/ pc = "wait" /\ pc' = "end"
        \/ pc = "end" /\ pc' = "done"
        \/ pc \notin {"done", "dead"} /\ pc' = "dead"
        \/ pc' = pc
     /\ m_sequence' = m_sequence
  \/ pc = "add" /\ pc' = "wait" /\ m_sequence' = m_sequence + 1

LEMMA MainMoves ==
  ASSUME MainStep \/ UNCHANGED AudioVars
  PROVE  Moves /\ UNCHANGED loopVars
<1>1. CASE UNCHANGED AudioVars
  BY <1>1 DEF AudioVars, vars, indexVars, timeVars, Moves
<1>2. CASE Die /\ UNCHANGED loopVars
  BY <1>2 DEF Die, indexVars, timeVars, Moves
<1>3. CASE BeginIndex /\ UNCHANGED loopVars
  BY <1>3 DEF BeginIndex, LiveBegin, Begin, WriteHeader, indexVars, timeVars, Moves
<1>4. CASE OpenSegment /\ UNCHANGED loopVars
  BY <1>4 DEF OpenSegment, indexVars, timeVars, Moves
<1>5. CASE CloseSegment /\ UNCHANGED loopVars
  BY <1>5 DEF CloseSegment, indexVars, Moves
<1>6. CASE AddToIndex /\ UNCHANGED loopVars
  BY <1>6 DEF AddToIndex, LiveAddSegment, AddSegment, timeVars, Moves
<1>7. CASE IndexWorks /\ UNCHANGED loopVars
  BY <1>7 DEF IndexWorks, Flush, Trim, OpenTemp, WriteNext, CloseTemp, Rename, WriteHeader,
              WriteSegment, indexVars, timeVars, Moves
<1>8. CASE NextRound /\ UNCHANGED loopVars
  BY <1>8 DEF NextRound, indexVars, timeVars, Moves
<1>9. CASE EndIndex /\ UNCHANGED loopVars
  BY <1>9 DEF EndIndex, LiveEnd, End, timeVars, Moves
<1>10. CASE SwitchKey /\ UNCHANGED loopVars
  BY <1>10 DEF SwitchKey, indexVars, timeVars, Moves
<1> QED  BY <1>1, <1>2, <1>3, <1>4, <1>5, <1>6, <1>7, <1>8, <1>9, <1>10 DEF MainStep, Works

(***************************************************************************)
(* The steps of copy_segment.                                              *)
(***************************************************************************)
LEMMA ProductGrows ==
  ASSUME NEW c \in Nat, NEW a \in Nat, NEW b \in Nat, a <= b
  PROVE  c * a <= c * b
<1>1. PICK k \in Nat : b = a + k
  OBVIOUS
<1>2. c * b = c * a + c * k /\ c * k \in Nat /\ c * a \in Nat
  BY <1>1
<1> QED  BY <1>2

LEMMA Quotient ==
  ASSUME NEW x \in Nat, NEW f \in Nat \ {0}, NEW m \in Nat
  PROVE  x \div f \in Nat /\ (x \div f < m <=> x < f * m)
<1>1. PICK q \in Nat : q = x \div f /\ f * q <= x /\ x < f * q + f
  <2>1. x \div f \in Nat /\ f * (x \div f) <= x /\ x < f * (x \div f) + f
    OBVIOUS
  <2> QED  BY <2>1
<1>2. CASE q < m
  <2>1. f * (q + 1) <= f * m
    BY <1>2, ProductGrows
  <2>2. f * (q + 1) = f * q + f /\ f * m \in Nat
    OBVIOUS
  <2> QED  BY <1>1, <1>2, <2>1, <2>2
<1>3. CASE ~(q < m)
  <2>1. f * m <= f * q
    BY <1>3, ProductGrows
  <2>2. f * q \in Nat /\ f * m \in Nat
    OBVIOUS
  <2> QED  BY <1>1, <1>3, <2>1, <2>2
<1> QED  BY <1>2, <1>3

LEMMA FillingFacts ==
  ASSUME AudioInv
  PROVE  /\ FRAC_SECOND * m_length \in Nat
         /\ m_pos \div FRAC_SECOND < m_length <=> m_pos < FRAC_SECOND * m_length
<1>1. m_pos \in Nat /\ FRAC_SECOND \in Nat \ {0} /\ m_length \in Nat
  BY StreamFacts, AudioAssumption DEF AudioInv
<1> QED  BY <1>1, Quotient

(* A header that can be read lies before the end, so that none is read     *)
(* after it.                                                               *)
LEMMA NotOver ==
  ASSUME AudioInv, HeaderRead
  PROVE  ~eof
BY StreamFacts DEF AudioInv, HeaderRead

LEMMA CopyFrameFacts ==
  ASSUME AudioInv, CopyFrame
  PROVE  /\ pc = "copy" /\ ~eof /\ m_sequence \in 1..MaxSegments
         /\ m_pos < FRAC_SECOND * m_length
         /\ offset \in DOMAIN stream.frames
         /\ offset' = FrameEnd /\ FrameEnd \in Int /\ FrameEnd <= stream.end
         /\ m_pos' = m_pos + Ticks(stream.frames[offset].header)
         /\ content' = [content EXCEPT ![m_sequence] =
                          Append(@, [from |-> offset, to |-> FrameEnd])]
         /\ played' = played + TrueTicks(SEGMENTER, stream.frames[offset])
         /\ UNCHANGED <<pc, m_sequence, SEGMENTER, stream, eof, reported>>
<1>1. /\ pc = "copy" /\ HeaderRead /\ m_pos \div FRAC_SECOND < m_length
      /\ offset \in DOMAIN stream.frames
      /\ offset' = FrameEnd /\ FrameEnd <= stream.end
      /\ m_pos' = m_pos + Ticks(stream.frames[offset].header)
      /\ content' = [content EXCEPT ![m_sequence] =
                       Append(@, [from |-> offset, to |-> FrameEnd])]
      /\ played' = played + TrueTicks(SEGMENTER, stream.frames[offset])
      /\ UNCHANGED <<pc, m_sequence, SEGMENTER, stream, eof, reported>>
  BY DEF CopyFrame, Filling, InSync, header, vars, indexVars
<1>2. ~eof /\ m_pos < FRAC_SECOND * m_length
  BY <1>1, NotOver, FillingFacts
<1>3. FrameEnd \in Int
  BY <1>1, StreamFacts DEF FrameEnd, header, AudioInv
<1>4. m_sequence \in 1..MaxSegments
  BY <1>1, Assumptions DEF AudioInv, SegmenterAssumption
<1> QED  BY <1>1, <1>2, <1>3, <1>4

LEMMA SkipJunkFacts ==
  ASSUME AudioInv, SkipJunk
  PROVE  /\ pc = "copy" /\ ~eof /\ ~InSync /\ m_pos < FRAC_SECOND * m_length
         /\ offset' \in NextFF /\ offset' <= stream.end
         /\ \A o \in NextFF : offset' <= o
         /\ UNCHANGED <<pc, m_sequence, SEGMENTER, stream, m_pos, eof, content, played, reported>>
<1>1. /\ pc = "copy" /\ ~InSync /\ HeaderRead /\ m_pos \div FRAC_SECOND < m_length
      /\ offset' \in NextFF
      /\ \A o \in NextFF : offset' <= o
      /\ UNCHANGED <<pc, m_sequence, SEGMENTER, stream, m_pos, eof, content, played, reported>>
  BY DEF SkipJunk, Filling, vars, indexVars
<1>2. ~eof /\ m_pos < FRAC_SECOND * m_length
  BY <1>1, NotOver, FillingFacts
<1>3. offset' \in 0 .. stream.end - 1
  BY <1>1, StreamFacts DEF NextFF
<1> QED  BY <1>1, <1>2, <1>3, StreamFacts

LEMMA MeetEndFacts ==
  ASSUME AudioInv, MeetEnd
  PROVE  /\ pc = "copy" /\ pc' = "close" /\ InputIsOver
         /\ eof' = TRUE /\ offset' = stream.end /\ m_pos' \in Nat
         /\ UNCHANGED <<m_sequence, SEGMENTER, stream, content, played, reported>>
<1>1. /\ pc = "copy" /\ pc' = "close" /\ InputIsOver
      /\ eof' = TRUE /\ offset' = stream.end /\ m_pos' = PosAtEnd
      /\ UNCHANGED <<m_sequence, SEGMENTER, stream, content, played, reported>>
  BY DEF MeetEnd, MeetEndReturning, Filling, Return, CopySegment, indexVars
<1>2. InSync => Ticks(header) \in Nat
  BY StreamFacts DEF InSync, header
<1> QED  BY <1>1, <1>2 DEF PosAtEnd, AudioInv

LEMMA ReturnFullFacts ==
  ASSUME AudioInv, ReturnFull
  PROVE  /\ pc = "copy" /\ pc' = "close"
         /\ m_pos >= FRAC_SECOND * m_length
         /\ m_pos' = m_pos - FRAC_SECOND * m_length /\ m_pos' \in Nat
         /\ reported' = reported + m_length + m_pos' \div FRAC_SECOND
         /\ UNCHANGED <<m_sequence, SEGMENTER, stream, offset, eof, content, played>>
<1>1. /\ pc = "copy" /\ pc' = "close" /\ m_pos \div FRAC_SECOND >= m_length
      /\ m_pos' = m_pos - m_length * FRAC_SECOND
      /\ reported' = reported + (m_length + m_pos' \div FRAC_SECOND)
      /\ UNCHANGED <<m_sequence, SEGMENTER, stream, offset, eof, content, played>>
  BY DEF ReturnFull, Return, CopySegment, indexVars
<1>2. m_pos \in Nat /\ FRAC_SECOND \in Nat \ {0} /\ m_length \in Nat /\ reported \in Nat
  BY StreamFacts, AudioAssumption DEF AudioInv
<1>3. m_pos \div FRAC_SECOND \in Nat /\ m_length * FRAC_SECOND = FRAC_SECOND * m_length
  BY <1>2, Quotient
<1>4. m_pos >= FRAC_SECOND * m_length
  BY <1>1, <1>2, <1>3, FillingFacts
<1>5. m_pos' \in Nat
  BY <1>1, <1>2, <1>3, <1>4, FillingFacts
<1>6. m_pos' \div FRAC_SECOND \in Nat
  BY <1>2, <1>5, Quotient
<1> QED  BY <1>1, <1>2, <1>3, <1>4, <1>5, <1>6

LEMMA AudioSteps ==
  ASSUME AudioInv, [AudioNext]_AudioVars
  PROVE  \/ Moves /\ UNCHANGED loopVars
         \/ CopyFrame
         \/ SkipJunk
         \/ MeetEnd
         \/ ReturnFull
BY MainMoves DEF AudioNext, CopyStep

(***************************************************************************)
(* The types of the loop's state.                                          *)
(***************************************************************************)
LEMMA Appended ==
  ASSUME AudioInv, CopyFrame
  PROVE  LET n == m_sequence
             k == Len(content[n])
         IN /\ content' \in [1..MaxSegments -> Seq(Stretch)]
            /\ k \in Nat /\ Len(content'[n]) = k + 1
            /\ content'[n][k + 1] = [from |-> offset, to |-> offset']
            /\ \A i \in 1..k : content'[n][i] = content[n][i]
            /\ \A m \in 1..MaxSegments : m # n => content'[m] = content[m]
<1> DEFINE stretch == [from |-> offset, to |-> offset']
<1>1. /\ m_sequence \in 1..MaxSegments /\ content \in [1..MaxSegments -> Seq(Stretch)]
      /\ offset \in Int /\ offset' \in Int
      /\ content' = [content EXCEPT ![m_sequence] = Append(@, stretch)]
  BY CopyFrameFacts DEF AudioInv
<1>2. stretch \in Stretch
  BY <1>1 DEF Stretch
<1>3. content[m_sequence] \in Seq(Stretch)
  BY <1>1
<1> HIDE DEF stretch
<1>4. /\ Append(content[m_sequence], stretch) \in Seq(Stretch)
      /\ Len(Append(content[m_sequence], stretch)) = Len(content[m_sequence]) + 1
      /\ \A i \in 1..Len(content[m_sequence]) :
           Append(content[m_sequence], stretch)[i] = content[m_sequence][i]
      /\ Append(content[m_sequence], stretch)[Len(content[m_sequence]) + 1] = stretch
      /\ Len(content[m_sequence]) \in Nat
  BY <1>2, <1>3, AppendProperties, LenProperties
<1>5. /\ content'[m_sequence] = Append(content[m_sequence], stretch)
      /\ content' \in [1..MaxSegments -> Seq(Stretch)]
      /\ \A m \in 1..MaxSegments : m # m_sequence => content'[m] = content[m]
  BY <1>1, <1>4
<1> QED  BY <1>4, <1>5 DEF stretch

LEMMA AudioTypes == AudioInit => AudioInv
<1> SUFFICES ASSUME AudioInit PROVE AudioInv
  OBVIOUS
<1>1. /\ pc = "begin" /\ m_sequence = 1 /\ SEGMENTER \in {"ADTS", "MP3"}
      /\ stream \in Streams[SEGMENTER] /\ m_pos = 0 /\ offset = 0 /\ eof = FALSE
      /\ played = 0 /\ reported = 0 /\ content = [n \in 1..MaxSegments |-> <<>>]
  BY DEF AudioInit, Init, ProgramInit, IndexInit
<1>2. content \in [1..MaxSegments -> Seq(Stretch)]
  BY <1>1, EmptySeq
<1>3. stream.end \in Nat
  BY <1>1, StreamsAssumption, Sizes
<1>4. offset \in Int /\ offset <= stream.end /\ m_pos \in Nat /\ reported \in Nat
      /\ m_sequence \in Nat \ {0} /\ ~(pc \in {"key", "copy", "close", "add"})
  BY <1>1, <1>3
<1>5. eof \in BOOLEAN /\ ~eof
  BY <1>1
<1> QED  BY <1>1, <1>2, <1>4, <1>5 DEF AudioInv

LEMMA AudioStep ==
  ASSUME AudioInv, [AudioNext]_AudioVars
  PROVE  AudioInv'
<1>1. CASE Moves /\ UNCHANGED loopVars
  BY <1>1 DEF AudioInv, Moves, loopVars
<1>2. CASE CopyFrame
  <2>1. content' \in [1..MaxSegments -> Seq(Stretch)]
    BY <1>2, Appended
  <2>2. Ticks(stream.frames[offset].header) \in Nat
    BY <1>2, CopyFrameFacts, StreamFacts
  <2> QED  BY <1>2, <2>1, <2>2, CopyFrameFacts DEF AudioInv
<1>3. CASE SkipJunk
  <2>1. /\ pc = "copy" /\ ~eof /\ offset' \in NextFF /\ offset' <= stream.end
        /\ UNCHANGED <<pc, m_sequence, SEGMENTER, m_pos, stream, eof, content, reported>>
    BY <1>3, SkipJunkFacts
  <2>2. offset' \in Int
    BY <2>1, StreamFacts DEF NextFF
  <2>3. offset' <= stream'.end /\ ~eof'
    BY <2>1
  <2> QED  BY <2>1, <2>2, <2>3 DEF AudioInv
<1>4. CASE MeetEnd
  <2>1. /\ pc = "copy" /\ pc' = "close" /\ eof' = TRUE /\ offset' = stream.end /\ m_pos' \in Nat
        /\ UNCHANGED <<m_sequence, SEGMENTER, stream, content, reported>>
    BY <1>4, MeetEndFacts
  <2>2. stream.end \in Nat
    BY StreamFacts
  <2>3. offset' \in Int /\ offset' <= stream'.end /\ (eof' => offset' = stream'.end)
    BY <2>1, <2>2
  <2>4. eof' \in BOOLEAN
    BY <2>1
  <2>5. /\ SEGMENTER' \in {"ADTS", "MP3"} /\ stream' \in Streams[SEGMENTER']
        /\ reported' \in Nat /\ content' \in [1..MaxSegments -> Seq(Stretch)]
        /\ m_sequence' \in Nat \ {0} /\ m_sequence' <= MaxSegments
    BY <2>1 DEF AudioInv
  <2> QED  BY <2>1, <2>3, <2>4, <2>5 DEF AudioInv
<1>5. CASE ReturnFull
  <2>1. m_pos' \div FRAC_SECOND \in Nat /\ m_length \in Nat
    BY <1>5, ReturnFullFacts, StreamFacts, Quotient, AudioAssumption
  <2> QED  BY <1>5, <2>1, ReturnFullFacts DEF AudioInv
<1> QED  BY <1>1, <1>2, <1>3, <1>4, <1>5, AudioSteps

(***************************************************************************)
(* Time.                                                                   *)
(***************************************************************************)
LEMMA TimeFacts ==
  ASSUME TimesAreRead, AudioInv, NEW o \in DOMAIN stream.frames
  PROVE  /\ TrueTicks(SEGMENTER, stream.frames[o]) = Ticks(stream.frames[o].header)
         /\ TrueTicks(SEGMENTER, stream.frames[o]) \in Nat
         /\ TrueTicks(SEGMENTER, stream.frames[o]) < FRAC_SECOND
<1>1. SEGMENTER \in DOMAIN Streams /\ stream \in Streams[SEGMENTER]
  BY Sizes DEF AudioInv
<1>2. TrueTicks(SEGMENTER, stream.frames[o]) = Ticks(stream.frames[o].header)
  BY <1>1 DEF TimesAreRead, Ticks
<1> QED  BY <1>2, StreamFacts

LEMMA TimeInit == AudioInit => TimeInv
<1> SUFFICES ASSUME AudioInit PROVE TimeInv
  OBVIOUS
<1>1. pc = "begin" /\ m_pos = 0 /\ played = 0 /\ reported = 0
  BY DEF AudioInit, Init, ProgramInit
<1>2. FRAC_SECOND \in Nat \ {0}
  BY AudioTypes, StreamFacts
<1> QED  BY <1>1, <1>2 DEF TimeInv

LEMMA TimeMain ==
  ASSUME AudioInv, TimeInv, m_length > 0, Moves, UNCHANGED loopVars
  PROVE  TimeInv'
<1> SUFFICES ASSUME ~eof'
             PROVE  /\ (played = FRAC_SECOND * reported + m_pos)'
                    /\ (pc = "copy" /\ m_pos >= FRAC_SECOND * m_length
                         => KeepsLess(m_pos - FRAC_SECOND * m_length))'
                    /\ (pc = "close" => KeepsLess(m_pos))'
                    /\ (pc \in {"begin", "open", "key", "add", "wait"} => m_pos < FRAC_SECOND)'
  BY DEF TimeInv
<1>1. UNCHANGED <<SEGMENTER, m_pos, stream, eof, content, played, reported>>
  BY DEF loopVars
<1>2. FRAC_SECOND' = FRAC_SECOND
  BY <1>1 DEF FRAC_SECOND
<1>3. /\ played = FRAC_SECOND * reported + m_pos
      /\ pc = "copy" /\ m_pos >= FRAC_SECOND * m_length
           => KeepsLess(m_pos - FRAC_SECOND * m_length)
      /\ pc = "close" => KeepsLess(m_pos)
      /\ pc \in {"begin", "open", "key", "add", "wait"} => m_pos < FRAC_SECOND
  BY <1>1 DEF TimeInv
<1>4. \A rest : m_sequence' = m_sequence /\ KeepsLess(rest) => KeepsLess(rest)'
  BY <1>1, <1>2 DEF KeepsLess, LastOf
<1>5. /\ pc' = "copy" => m_sequence' = m_sequence /\ pc \in {"copy", "open", "key"}
      /\ pc' = "close" => m_sequence' = m_sequence /\ pc = "close"
      /\ pc' \in {"begin", "open", "key", "add", "wait"}
           => pc \in {"begin", "open", "key", "add", "wait", "close"}
  BY DEF Moves
<1>6. m_pos < FRAC_SECOND => m_pos < FRAC_SECOND * m_length
  <2>1. FRAC_SECOND \in Nat /\ m_length \in Nat /\ m_pos \in Nat
    BY StreamFacts, AudioAssumption DEF AudioInv
  <2>2. FRAC_SECOND * 1 <= FRAC_SECOND * m_length
    BY <2>1, ProductGrows
  <2> QED  BY <2>1, <2>2, FillingFacts
<1>7. ASSUME pc' = "copy", m_pos' >= FRAC_SECOND' * m_length
      PROVE  KeepsLess(m_pos - FRAC_SECOND * m_length)'
  <2>1. pc = "copy"
    <3>1. m_pos >= FRAC_SECOND * m_length
      BY <1>1, <1>2, <1>7
    <3>2. FRAC_SECOND * m_length \in Nat /\ m_pos \in Nat
      BY FillingFacts DEF AudioInv
    <3>3. ~(m_pos < FRAC_SECOND)
      BY <1>6, <3>1, <3>2
    <3> QED  BY <1>3, <1>5, <1>7, <3>3
  <2>2. KeepsLess(m_pos - FRAC_SECOND * m_length)
    BY <1>1, <1>2, <1>3, <1>7, <2>1
  <2> QED  BY <1>1, <1>2, <1>4, <1>5, <1>7, <2>2 DEF KeepsLess, LastOf
<1>8. ASSUME pc' = "close"
      PROVE  KeepsLess(m_pos)'
  BY <1>1, <1>2, <1>3, <1>5, <1>8 DEF KeepsLess, LastOf
<1>9. ASSUME pc' \in {"begin", "open", "key", "add", "wait"}
      PROVE  m_pos < FRAC_SECOND
  BY <1>3, <1>5, <1>9 DEF KeepsLess
<1> QED  BY <1>1, <1>2, <1>3, <1>7, <1>8, <1>9

LEMMA TimeCopyFrame ==
  ASSUME TimesAreRead, AudioInv, TimeInv, CopyFrame
  PROVE  TimeInv'
<1>1. /\ pc = "copy" /\ ~eof /\ m_sequence \in 1..MaxSegments
      /\ m_pos < FRAC_SECOND * m_length
      /\ offset \in DOMAIN stream.frames
      /\ m_pos' = m_pos + Ticks(stream.frames[offset].header)
      /\ played' = played + TrueTicks(SEGMENTER, stream.frames[offset])
      /\ UNCHANGED <<pc, m_sequence, SEGMENTER, stream, eof, reported>>
  BY CopyFrameFacts
<1>2. FRAC_SECOND' = FRAC_SECOND
  BY <1>1 DEF FRAC_SECOND
<1>3. PICK ticks \in Nat : /\ ticks = TrueTicks(SEGMENTER, stream.frames[offset])
                           /\ ticks = Ticks(stream.frames[offset].header)
                           /\ ticks < FRAC_SECOND
  BY <1>1, TimeFacts
<1>4. PICK full \in Nat : full = FRAC_SECOND * m_length
  BY FillingFacts
<1>5. PICK before \in Int : before = FRAC_SECOND * reported
  BY StreamFacts DEF AudioInv
<1>6. m_pos \in Nat /\ played = before + m_pos
  BY <1>1, <1>5 DEF TimeInv, AudioInv
<1>7. (played = FRAC_SECOND * reported + m_pos)'
  BY <1>1, <1>2, <1>3, <1>5, <1>6
<1>8. KeepsLess(m_pos - FRAC_SECOND * m_length)'
  <2>1. m_pos' - full < ticks /\ m_pos' - full < FRAC_SECOND
    BY <1>1, <1>3, <1>4, <1>6, StreamFacts
  <2>2. PICK k \in Nat : /\ Len(content'[m_sequence]) = k + 1
                         /\ content'[m_sequence][k + 1] = [from |-> offset, to |-> offset']
    BY Appended
  <2>3. content'[m_sequence] # <<>>
    BY <2>2
  <2>4. LastOf(content[m_sequence])' = stream.frames[offset]
    BY <1>1, <2>2 DEF LastOf
  <2>5. TrueTicks(SEGMENTER, LastOf(content[m_sequence]))' = ticks
    BY <1>1, <1>3, <2>4
  <2> QED  BY <1>1, <1>2, <1>4, <2>1, <2>3, <2>5 DEF KeepsLess
<1> QED  BY <1>1, <1>7, <1>8 DEF TimeInv

LEMMA TimeReturnFull ==
  ASSUME AudioInv, TimeInv, ReturnFull
  PROVE  TimeInv'
<1> SUFFICES ASSUME ~eof' PROVE TimeInv'
  BY DEF TimeInv
<1>1. /\ pc = "copy" /\ pc' = "close" /\ ~eof
      /\ m_pos >= FRAC_SECOND * m_length
      /\ m_pos' = m_pos - FRAC_SECOND * m_length /\ m_pos' \in Nat
      /\ reported' = reported + m_length + m_pos' \div FRAC_SECOND
      /\ UNCHANGED <<m_sequence, SEGMENTER, stream, eof, content, played>>
  BY ReturnFullFacts
<1>2. FRAC_SECOND' = FRAC_SECOND /\ FRAC_SECOND \in Nat \ {0}
  BY <1>1, StreamFacts DEF FRAC_SECOND
<1>3. /\ played = FRAC_SECOND * reported + m_pos
      /\ KeepsLess(m_pos')
  BY <1>1 DEF TimeInv
<1>4. m_pos' < FRAC_SECOND
  BY <1>3 DEF KeepsLess
<1>5. m_pos' \div FRAC_SECOND = 0
  <2>1. m_pos' \div FRAC_SECOND \in Nat /\ m_pos' < FRAC_SECOND * 1
    BY <1>1, <1>2, <1>4, Quotient
  <2> QED  BY <1>1, <1>2, <2>1, Quotient
<1>6. m_length \in Nat /\ reported \in Nat /\ reported' = reported + m_length /\ m_pos \in Nat
  BY <1>1, <1>5, AudioAssumption DEF AudioInv
<1>7. FRAC_SECOND * reported' = FRAC_SECOND * reported + FRAC_SECOND * m_length
  BY <1>2, <1>6
<1>8. PICK before \in Nat, full \in Nat :
        before = FRAC_SECOND * reported /\ full = FRAC_SECOND * m_length
  BY <1>2, <1>6
<1>9. played' = FRAC_SECOND * reported' + m_pos'
  BY <1>1, <1>3, <1>6, <1>7, <1>8
<1>10. KeepsLess(m_pos)'
  BY <1>1, <1>2, <1>3 DEF KeepsLess, LastOf
<1> QED  BY <1>1, <1>2, <1>9, <1>10 DEF TimeInv

LEMMA TimeStep ==
  ASSUME TimesAreRead, m_length > 0, AudioInv, TimeInv, [AudioNext]_AudioVars
  PROVE  TimeInv'
<1>1. CASE SkipJunk
  <2>1. /\ pc = "copy" /\ m_pos < FRAC_SECOND * m_length /\ ~eof
        /\ UNCHANGED <<pc, m_sequence, SEGMENTER, stream, m_pos, eof, content, played, reported>>
    BY <1>1, SkipJunkFacts
  <2>2. FRAC_SECOND' = FRAC_SECOND /\ FRAC_SECOND * m_length \in Nat /\ m_pos \in Nat
    BY <2>1, FillingFacts DEF FRAC_SECOND, AudioInv
  <2> QED  BY <2>1, <2>2 DEF TimeInv
<1>2. CASE MeetEnd
  BY <1>2, MeetEndFacts DEF TimeInv
<1> QED  BY <1>1, <1>2, TimeMain, TimeCopyFrame, TimeReturnFull, AudioSteps

(* What is not reported at the end of a full segment is less than its last *)
(* frame, for any number of segments of any length, whatever the rates.    *)
THEOREM ErrorDoesNotAccumulate ==
  ASSUME TimesAreRead, m_length > 0
  PROVE  AudioSpec => []NoAccumulation
<1>1. AudioInit => AudioInv /\ TimeInv
  BY AudioTypes, TimeInit
<1>2. AudioInv /\ TimeInv /\ [AudioNext]_AudioVars => (AudioInv /\ TimeInv)'
  BY AudioStep, TimeStep
<1>3. AudioInv /\ TimeInv => NoAccumulation
  <2> SUFFICES ASSUME AudioInv, TimeInv, pc = "close", ~eof
               PROVE  played - FRAC_SECOND * reported \in
                        0 .. TrueTicks(SEGMENTER, LastOf(content[m_sequence])) - 1
    BY DEF NoAccumulation, LastOf
  <2>1. PICK before \in Int : before = FRAC_SECOND * reported
    BY StreamFacts DEF AudioInv
  <2>2. m_pos \in Nat /\ played = before + m_pos
    BY <2>1 DEF TimeInv, AudioInv
  <2>3. m_pos < TrueTicks(SEGMENTER, LastOf(content[m_sequence]))
    BY DEF TimeInv, KeepsLess
  <2>4. TrueTicks(SEGMENTER, LastOf(content[m_sequence])) \in Nat
    BY DEF TimeInv, KeepsLess
  <2> QED  BY <2>1, <2>2, <2>3, <2>4
<1> QED  BY <1>1, <1>2, <1>3, PTL DEF AudioSpec

(***************************************************************************)
(* The frames.                                                             *)
(***************************************************************************)
LEMMA PlaceFacts ==
  ASSUME NEW x
  PROVE  x \in Places <=> \E n \in 1..MaxSegments : \E k \in 1 .. Len(content[n]) : x = <<n, k>>
BY DEF Places

LEMMA PlaceFactsNext ==
  ASSUME NEW x
  PROVE  x \in Places' <=>
           \E n \in 1..MaxSegments : \E k \in 1 .. Len(content'[n]) : x = <<n, k>>
BY DEF Places

LEMMA FrameEnds ==
  ASSUME LengthsAreRead, AudioInv, offset \in DOMAIN stream.frames
  PROVE  FrameEnd = EndOf(offset)
<1>1. SEGMENTER \in DOMAIN Streams /\ stream \in Streams[SEGMENTER]
  BY Sizes DEF AudioInv
<1>2. stream.frames[offset].size = HeaderSize + PayloadLength(header)
  BY <1>1 DEF LengthsAreRead, HeaderSize, PayloadLength, header
<1>3. HeaderSize \in Int /\ PayloadLength(header) \in Int /\ offset \in Int
  BY StreamFacts DEF header, AudioInv
<1> QED  BY <1>2, <1>3 DEF FrameEnd, EndOf

(* The frame copied comes after all others.                                *)
LEMMA OneMore ==
  ASSUME AudioInv, FreshInv, CopyFrame
  PROVE  \E last :
           /\ Places' = Places \cup {last}
           /\ \A x \in Places : At(x)' = At(x) /\ ~Precedes(last, x)
           /\ At(last)' = [from |-> offset, to |-> offset']
           /\ ~Precedes(last, last)
<1>1. PICK m \in 1..MaxSegments, l \in Nat :
        /\ m = m_sequence /\ l = Len(content[m])
        /\ Len(content'[m]) = l + 1
        /\ content'[m][l + 1] = [from |-> offset, to |-> offset']
        /\ \A k \in 1 .. l : content'[m][k] = content[m][k]
        /\ \A n \in 1..MaxSegments : n # m => content'[n] = content[n]
  BY Appended, CopyFrameFacts
<1>2. PICK last : last = <<m, l + 1>>
  OBVIOUS
<1>3. At(last)' = [from |-> offset, to |-> offset']
  <2>1. last[1] = m /\ last[2] = l + 1
    BY <1>2
  <2> QED  BY <1>1, <2>1 DEF At
<1>4. ASSUME NEW x \in Places
      PROVE  At(x)' = At(x) /\ ~Precedes(last, x) /\ x \in Places'
  <2>1. PICK n \in 1..MaxSegments : \E k \in 1 .. Len(content[n]) : x = <<n, k>>
    BY PlaceFacts
  <2>2. PICK k \in 1 .. Len(content[n]) : x = <<n, k>>
    BY <2>1
  <2>3. content'[n][k] = content[n][k] /\ k \in 1 .. Len(content'[n])
    BY <1>1, <2>2
  <2>4. ~(n > m)
    <3>1. n > m => content[n] = <<>>
      BY <1>1 DEF FreshInv
    <3>2. Len(<<>>) = 0
      OBVIOUS
    <3> QED  BY <2>2, <3>1, <3>2
  <2>5. n = m => k <= l
    BY <1>1, <2>2
  <2>6. ~(m < n) /\ ~(m = n /\ l + 1 < k)
    BY <1>1, <2>2, <2>4, <2>5
  <2> QED  BY <1>2, <2>2, <2>3, <2>6, PlaceFactsNext DEF At, Precedes
<1>5. ASSUME NEW x \in Places'
      PROVE  x \in Places \cup {last}
  <2>1. PICK n \in 1..MaxSegments : \E k \in 1 .. Len(content'[n]) : x = <<n, k>>
    BY PlaceFactsNext
  <2>2. PICK k \in 1 .. Len(content'[n]) : x = <<n, k>>
    BY <2>1
  <2>3. CASE n = m
    <3>1. k \in 1 .. l \/ k = l + 1
      BY <1>1, <2>2, <2>3
    <3> QED  BY <1>1, <1>2, <2>2, <2>3, <3>1, PlaceFacts
  <2>4. CASE n # m
    BY <1>1, <2>2, <2>4, PlaceFacts
  <2> QED  BY <2>3, <2>4
<1>6. last \in Places'
  <2>1. l + 1 \in 1 .. Len(content'[m])
    BY <1>1
  <2> QED  BY <1>2, <2>1, PlaceFactsNext
<1>7. ~Precedes(last, last)
  BY <1>1, <1>2 DEF Precedes
<1> QED  BY <1>3, <1>4, <1>5, <1>6, <1>7

LEMMA KeptStart == AudioInit => KeptInv
<1> SUFFICES ASSUME AudioInit PROVE KeptInv
  OBVIOUS
<1>1. /\ content = [n \in 1..MaxSegments |-> <<>>] /\ offset = 0 /\ eof = FALSE
  BY DEF AudioInit
<1>2. Len(<<>>) = 0
  OBVIOUS
<1>3. Places = {}
  <2> SUFFICES ASSUME NEW x \in Places PROVE FALSE
    OBVIOUS
  <2>1. PICK n \in 1..MaxSegments : \E k \in 1 .. Len(content[n]) : x = <<n, k>>
    BY PlaceFacts
  <2>2. Len(content[n]) = 0
    BY <1>1, <1>2
  <2> QED  BY <2>1, <2>2
<1>4. WholeInv /\ OrderInv
  BY <1>3 DEF WholeInv, OrderInv
<1>5. FreshInv
  BY <1>1 DEF FreshInv
<1>6. PassedInv
  <2>1. \A o \in DOMAIN stream.frames : ~(o < offset)
    BY <1>1, AudioTypes, StreamFacts
  <2> QED  BY <1>1, <2>1 DEF PassedInv, Stands
<1> QED  BY <1>4, <1>5, <1>6 DEF KeptInv

LEMMA StreamStays ==
  ASSUME SEGMENTER' = SEGMENTER, stream' = stream
  PROVE  /\ HeaderSize' = HeaderSize /\ Stands' = Stands /\ OutOfSync' = OutOfSync
         /\ \A o : EndOf(o)' = EndOf(o) /\ MayBeMissed(o)' = MayBeMissed(o)
<1>1. HeaderSize' = HeaderSize
  BY DEF HeaderSize
<1>2. OutOfSync' = OutOfSync
  BY DEF OutOfSync, EndOf
<1> QED  BY <1>1, <1>2 DEF Stands, EndOf, MayBeMissed

LEMMA KeptStays ==
  ASSUME AudioInv, FreshInv, WholeInv, OrderInv,
         UNCHANGED <<SEGMENTER, stream, content>>, m_sequence' >= m_sequence, m_sequence' \in Nat,
         offset \in Int, offset' \in Int, offset' >= offset
  PROVE  /\ WholeInv' /\ OrderInv' /\ FreshInv'
         /\ \A o : Kept(o)' = Kept(o)
<1>1. Places' = Places /\ \A x : At(x)' = At(x)
  BY DEF Places, At
<1>2. /\ \A o : EndOf(o)' = EndOf(o)
      /\ \A o : MayBeMissed(o)' = MayBeMissed(o)
  BY StreamStays
<1>3. WholeInv'
  <2> SUFFICES ASSUME NEW x \in Places
               PROVE  /\ At(x).from \in DOMAIN stream.frames
                      /\ At(x).to = EndOf(At(x).from) /\ At(x).to <= offset'
    BY <1>1, <1>2 DEF WholeInv
  <2>1. /\ At(x).from \in DOMAIN stream.frames
        /\ At(x).to = EndOf(At(x).from) /\ At(x).to <= offset
    BY DEF WholeInv
  <2>2. At(x).to \in Nat
    BY <2>1, StreamFacts
  <2> QED  BY <2>1, <2>2
<1>4. OrderInv'
  BY <1>1 DEF OrderInv
<1>5. FreshInv'
  BY DEF FreshInv, AudioInv
<1>6. \A o : Kept(o)' = Kept(o)
  BY <1>1, <1>2 DEF Kept
<1> QED  BY <1>3, <1>4, <1>5, <1>6

LEMMA KeptQuiet ==
  ASSUME AudioInv, KeptInv, UNCHANGED <<SEGMENTER, stream, offset, eof, content>>,
         m_sequence' >= m_sequence, m_sequence' \in Nat
  PROVE  KeptInv'
<1>1. offset \in Int /\ offset' \in Int /\ offset' >= offset
  BY DEF AudioInv
<1>2. WholeInv' /\ OrderInv' /\ FreshInv' /\ \A o : Kept(o)' = Kept(o)
  BY <1>1, KeptStays DEF KeptInv
<1>3. Stands' = Stands /\ \A o : EndOf(o)' = EndOf(o)
  BY StreamStays
<1>4. PassedInv'
  BY <1>2, <1>3 DEF PassedInv, KeptInv
<1> QED  BY <1>2, <1>4 DEF KeptInv

LEMMA KeptCopyFrame ==
  ASSUME LengthsAreRead, AudioInv, KeptInv, CopyFrame
  PROVE  KeptInv'
<1>1. /\ ~eof /\ offset \in DOMAIN stream.frames /\ offset' = FrameEnd
      /\ UNCHANGED <<m_sequence, SEGMENTER, stream, eof>>
  BY CopyFrameFacts
<1>2. offset' = EndOf(offset) /\ offset' \in Nat /\ offset \in Nat /\ offset < offset'
  BY <1>1, FrameEnds, StreamFacts
<1>3. PICK last :
      /\ Places' = Places \cup {last}
      /\ \A x \in Places : At(x)' = At(x) /\ ~Precedes(last, x)
      /\ At(last)' = [from |-> offset, to |-> offset']
      /\ ~Precedes(last, last)
  BY OneMore DEF KeptInv
<1>4. Stands' = Stands
      /\ \A o : EndOf(o)' = EndOf(o) /\ MayBeMissed(o)' = MayBeMissed(o)
  BY <1>1, StreamStays
<1>5. ASSUME NEW x \in Places
      PROVE  /\ At(x).from \in DOMAIN stream.frames
             /\ At(x).to = EndOf(At(x).from) /\ At(x).to <= offset /\ At(x).to \in Nat
  <2>1. /\ At(x).from \in DOMAIN stream.frames
        /\ At(x).to = EndOf(At(x).from) /\ At(x).to <= offset
    BY DEF KeptInv, WholeInv
  <2> QED  BY <2>1, StreamFacts
<1>6. WholeInv'
  <2> SUFFICES ASSUME NEW x \in Places'
               PROVE  /\ At(x)'.from \in DOMAIN stream.frames
                      /\ At(x)'.to = EndOf(At(x)'.from) /\ At(x)'.to <= offset'
    BY <1>1, <1>4 DEF WholeInv
  <2>1. CASE x \in Places
    BY <1>2, <1>3, <1>5, <2>1
  <2>2. CASE x = last
    BY <1>1, <1>2, <1>3, <2>2
  <2> QED  BY <1>3, <2>1, <2>2
<1>7. OrderInv'
  <2> SUFFICES ASSUME NEW x \in Places', NEW y \in Places', Precedes(x, y)
               PROVE  At(x)'.to <= At(y)'.from
    BY DEF OrderInv
  <2>1. x \in Places
    BY <1>3
  <2>2. CASE y \in Places
    BY <1>3, <2>1, <2>2 DEF KeptInv, OrderInv
  <2>3. CASE y = last
    BY <1>3, <1>5, <2>1, <2>3
  <2> QED  BY <1>3, <2>2, <2>3
<1>8. FreshInv'
  <2>1. m_sequence \in Nat /\ \A n \in 1..MaxSegments : n # m_sequence => content'[n] = content[n]
    BY Appended DEF AudioInv
  <2> QED  BY <1>1, <2>1 DEF KeptInv, FreshInv
<1>9. ASSUME NEW o \in DOMAIN stream.frames, o < offset'
      PROVE  Kept(o)'
  <2>1. o \in Nat /\ ~(offset < o)
    BY <1>1, <1>2, <1>9, StreamFacts
  <2>2. CASE o = offset
    <3>1. last \in Places' /\ At(last)'.from = o
      BY <1>3, <2>2
    <3> QED  BY <3>1 DEF Kept
  <2>3. CASE o < offset
    <3>1. MayBeMissed(o) \/ \E x \in Places : At(x).from = o
      BY <1>1, <2>3 DEF KeptInv, PassedInv, Kept
    <3>2. (\E x \in Places : At(x).from = o) => \E x \in Places' : At(x)'.from = o
      BY <1>3
    <3> QED  BY <1>4, <3>1, <3>2 DEF Kept
  <2> QED  BY <1>2, <2>1, <2>2, <2>3
<1>10. PassedInv'
  <2>1. offset' \in Stands'
    BY <1>1, <1>2, <1>4 DEF Stands
  <2> QED  BY <1>1, <1>9, <2>1 DEF PassedInv
<1> QED  BY <1>6, <1>7, <1>8, <1>10 DEF KeptInv

LEMMA NotInSync ==
  ASSUME ~CharIsSigned, ~InSync
  PROVE  offset \notin DOMAIN stream.frames
BY DEF InSync, Mp3!SyncRecognised

(* What begins in a header that is none may be missed.                     *)
LEMMA Misses ==
  ASSUME ~CharIsSigned, AudioInv, PassedInv, ~eof, ~InSync,
         NEW o \in DOMAIN stream.frames, o >= offset, o \notin NextFF
  PROVE  Kept(o)
<1>1. offset \in OutOfSync
  BY NotInSync DEF PassedInv, Stands, OutOfSync
<1>2. o < offset + HeaderSize /\ offset < o
  <2>1. o \in Nat /\ offset \in Int /\ HeaderSize \in Nat
    BY StreamFacts DEF AudioInv
  <2>2. o # offset
    BY NotInSync
  <2>3. ~(o >= offset + HeaderSize)
    BY DEF NextFF
  <2> QED  BY <2>1, <2>2, <2>3
<1> QED  BY <1>1, <1>2 DEF Kept, MayBeMissed

LEMMA KeptSkipJunk ==
  ASSUME ~CharIsSigned, AudioInv, KeptInv, SkipJunk
  PROVE  KeptInv'
<1>1. /\ ~eof /\ ~InSync /\ offset' \in NextFF
      /\ \A o \in NextFF : offset' <= o
      /\ UNCHANGED <<m_sequence, SEGMENTER, stream, eof, content>>
  BY SkipJunkFacts
<1>2. offset \in Int /\ offset' \in Nat /\ offset' >= offset /\ m_sequence \in Nat
  BY <1>1, StreamFacts DEF NextFF, AudioInv
<1>3. WholeInv' /\ OrderInv' /\ FreshInv' /\ \A o : Kept(o)' = Kept(o)
  BY <1>1, <1>2, KeptStays DEF KeptInv
<1>4. ASSUME NEW o \in DOMAIN stream.frames, o < offset'
      PROVE  Kept(o)
  <2>1. o \in Nat
    BY StreamFacts
  <2>2. CASE o < offset
    BY <1>1, <2>2 DEF KeptInv, PassedInv
  <2>3. CASE o >= offset
    <3>1. o \notin NextFF
      BY <1>1, <1>2, <1>4, <2>1
    <3> QED  BY <1>1, <2>3, <3>1, Misses DEF KeptInv
  <2> QED  BY <1>2, <2>1, <2>2, <2>3
<1>5. PassedInv'
  <2>1. offset' \in Stands'
    BY <1>1, StreamStays DEF NextFF, Stands
  <2> QED  BY <1>1, <1>3, <1>4, <2>1 DEF PassedInv
<1> QED  BY <1>3, <1>5 DEF KeptInv

LEMMA KeptMeetEnd ==
  ASSUME LengthsAreRead, ~CharIsSigned, AudioInv, KeptInv, MeetEnd
  PROVE  KeptInv'
<1>1. /\ InputIsOver /\ eof' = TRUE /\ offset' = stream.end
      /\ UNCHANGED <<m_sequence, SEGMENTER, stream, content>>
  BY MeetEndFacts
<1>2. offset \in Int /\ offset' \in Nat /\ offset' >= offset /\ m_sequence \in Nat
  BY <1>1, StreamFacts DEF AudioInv
<1>3. WholeInv' /\ OrderInv' /\ FreshInv' /\ \A o : Kept(o)' = Kept(o)
  BY <1>1, <1>2, KeptStays DEF KeptInv
<1>4. ASSUME NEW o \in DOMAIN stream.frames, EndOf(o) <= stream.end
      PROVE  Kept(o)
  <2>0. /\ o \in Nat /\ EndOf(o) \in Nat /\ EndOf(o) >= o + HeaderSize
        /\ HeaderSize \in {4, 7} /\ stream.end \in Nat
    BY StreamFacts
  <2>1. CASE eof
    BY <1>4, <2>1 DEF KeptInv, PassedInv
  <2>2. CASE ~eof /\ o < offset
    BY <2>2 DEF KeptInv, PassedInv
  <2>3. CASE ~eof /\ o >= offset
    <3>1. HeaderRead
      BY <1>2, <1>4, <2>0, <2>3 DEF HeaderRead
    <3>2. CASE ~InSync /\ NextFF = {}
      BY <2>3, <3>2, Misses DEF KeptInv
    <3>3. CASE InSync /\ FrameEnd > stream.end
      <4>1. offset \in DOMAIN stream.frames
        BY <3>3 DEF InSync
      <4>2. EndOf(offset) > stream.end /\ EndOf(offset) \in Nat
        BY <3>3, <4>1, FrameEnds, StreamFacts
      <4>3. o # offset
        BY <1>4, <2>0, <4>2
      <4>4. EndOf(offset) <= o
        BY <1>2, <2>0, <2>3, <4>1, <4>3, StreamFacts
      <4> QED  BY <1>4, <2>0, <4>2, <4>4
    <3> QED  BY <1>1, <3>1, <3>2, <3>3 DEF InputIsOver
  <2> QED  BY <1>2, <2>0, <2>1, <2>2, <2>3
<1>5. PassedInv'
  <2>1. \A o : EndOf(o)' = EndOf(o)
    BY <1>1, StreamStays
  <2> QED  BY <1>1, <1>3, <1>4, <2>1 DEF PassedInv
<1> QED  BY <1>3, <1>5 DEF KeptInv

LEMMA KeptStep ==
  ASSUME LengthsAreRead, ~CharIsSigned, AudioInv, KeptInv, [AudioNext]_AudioVars
  PROVE  KeptInv'
<1>1. CASE Moves /\ UNCHANGED loopVars
  <2>1. m_sequence' >= m_sequence /\ m_sequence' \in Nat
    BY <1>1 DEF Moves, AudioInv
  <2> QED  BY <1>1, <2>1, KeptQuiet DEF loopVars
<1>2. CASE ReturnFull
  <2>1. m_sequence' >= m_sequence /\ m_sequence' \in Nat
    BY <1>2, ReturnFullFacts DEF AudioInv
  <2> QED  BY <1>2, <2>1, ReturnFullFacts, KeptQuiet
<1> QED  BY <1>1, <1>2, KeptCopyFrame, KeptSkipJunk, KeptMeetEnd, AudioSteps

(* No frame is cut, doubled or moved, and none is missed but those that    *)
(* start in a header that is none, whatever stands between the frames and  *)
(* wherever the input ends.                                                *)
THEOREM FramesAreKept ==
  ASSUME LengthsAreRead, ~CharIsSigned
  PROVE  AudioSpec => []FramesKept
<1>1. AudioInit => AudioInv /\ KeptInv
  BY AudioTypes, KeptStart
<1>2. AudioInv /\ KeptInv /\ [AudioNext]_AudioVars => (AudioInv /\ KeptInv)'
  BY AudioStep, KeptStep
<1>3. AudioInv /\ KeptInv => FramesKept
  <2> SUFFICES ASSUME AudioInv, KeptInv PROVE FramesKept
    OBVIOUS
  <2>1. ASSUME NEW o \in DOMAIN stream.frames, EndOf(o) <= offset
        PROVE  Kept(o)
    <3>1. /\ o \in Nat /\ EndOf(o) \in Nat /\ EndOf(o) >= o + HeaderSize
          /\ HeaderSize \in {4, 7} /\ offset \in Int
      BY StreamFacts DEF AudioInv
    <3>2. o < offset
      BY <2>1, <3>1
    <3>3. eof => EndOf(o) <= stream.end
      BY <2>1 DEF AudioInv
    <3> QED  BY <3>2, <3>3 DEF KeptInv, PassedInv
  <2> QED  BY <2>1 DEF KeptInv, WholeInv, OrderInv, FramesKept, Kept
<1> QED  BY <1>1, <1>2, <1>3, PTL DEF AudioSpec
=============================================================================
