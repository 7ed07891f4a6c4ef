----------------------------- MODULE AudioFrames -----------------------------
(***************************************************************************)
(* The programs ADTS and MP3: main() with the segmenting module of         *)
(* Segmenter/ADTS.cpp or Segmenter/MP3.cpp, which share their loop and     *)
(* differ in the header they read (modules ADTS and MP3).  The loop copies *)
(* whole frames until a segment is full, in ticks of FRAC_SECOND, and      *)
(* searches for the next header when it has lost its sync.                 *)
(*                                                                         *)
(* The input is a stream of bytes of which we know where the frames start, *)
(* where a byte 0xff stands that starts none, and where the input ends;    *)
(* what is between the frames is junk.  Junk that imitates a whole header  *)
(* is left out.                                                            *)
(***************************************************************************)
EXTENDS SegmenterMain

CONSTANTS
  m_length,       \* option -l
  CharIsSigned,   \* the type char of the build is signed
  Streams,        \* the inputs of each program
  ULongLong       \* number of values of unsigned long long

VARIABLES
  SEGMENTER,  \* the module main() is compiled with
  m_pos,      \* ticks of this segment, and of those before it not yet reported
  stream,     \* the input: [frames : start -> frame, lone : starts, end : Nat]
  offset,     \* the read position
  eof,        \* the input's eofbit
  content,    \* ghost: the stretches of the input in each segment, by its number
  played,     \* ghost: ticks that the frames copied so far last
  reported    \* ghost: seconds that the calls have returned for full segments

loopVars == <<SEGMENTER, m_pos, stream, offset, eof, content, played, reported>>
AudioVars == <<vars, loopVars>>

Adts == INSTANCE ADTS
Mp3  == INSTANCE MP3

ASSUME AudioAssumption ==
  /\ m_length \in Nat /\ CharIsSigned \in BOOLEAN /\ Scale = 1
  /\ DOMAIN Streams = {"ADTS", "MP3"}

(* "LCM of sample rates": the division of a second by a rate is exact, or  *)
(* the clock would drift with every frame.                                 *)
ASSUME RatesDivide ==
  /\ \A k \in DOMAIN Adts!samplerate :
       Adts!FRAC_SECOND % Adts!samplerate[k] = 0
  /\ \A v \in DOMAIN Mp3!samplerate : \A k \in DOMAIN Mp3!samplerate[v] :
       Mp3!FRAC_SECOND % Mp3!samplerate[v][k] = 0

FracSecondOf(s) == IF s = "ADTS" THEN Adts!FRAC_SECOND ELSE Mp3!FRAC_SECOND
HeaderSizeOf(s) == IF s = "ADTS" THEN Adts!HeaderSize ELSE Mp3!HeaderSize
HeadersOf(s)    == IF s = "ADTS" THEN Adts!Headers ELSE Mp3!Headers
PayloadLengthOf(s, h) ==
  IF s = "ADTS" THEN Adts!PayloadLength(h) ELSE Mp3!PayloadLength(h)
TicksOf(s, h) == IF s = "ADTS" THEN Adts!Ticks(h) ELSE Mp3!Ticks(h)

FRAC_SECOND      == FracSecondOf(SEGMENTER)
HeaderSize       == HeaderSizeOf(SEGMENTER)
PayloadLength(h) == PayloadLengthOf(SEGMENTER, h)
Ticks(h)         == TicksOf(SEGMENTER, h)

(* Frames have headers, begin before the end of the input and do not       *)
(* overlap.                                                                *)
ASSUME StreamsAssumption ==
  \A s \in DOMAIN Streams : \A input \in Streams[s] :
    /\ input.end \in Nat
    /\ DOMAIN input.frames \cup input.lone \subseteq 0 .. input.end - 1
    /\ input.lone \cap DOMAIN input.frames = {}
    /\ \A o \in DOMAIN input.frames :
         /\ input.frames[o].header \in HeadersOf(s)
         /\ input.frames[o].size \in Nat
         /\ input.frames[o].size >= HeaderSizeOf(s)
         /\ \A p \in DOMAIN input.frames : o < p => o + input.frames[o].size <= p

(* How long a frame lasts, by its format and not by what the code reads.   *)
TrueTicks(s, frame) == frame.samples * (FracSecondOf(s) \div frame.rate)

(* What the code reads in the headers is how long the frames are, and how  *)
(* long they last.  There are frames of which it is not.                   *)
LengthsAreRead ==
  \A s \in DOMAIN Streams : \A input \in Streams[s] : \A o \in DOMAIN input.frames :
    input.frames[o].size = HeaderSizeOf(s) + PayloadLengthOf(s, input.frames[o].header)
TimesAreRead ==
  \A s \in DOMAIN Streams : \A input \in Streams[s] : \A o \in DOMAIN input.frames :
    TrueTicks(s, input.frames[o]) = TicksOf(s, input.frames[o].header)

AudioInit ==
  /\ Init
  /\ SEGMENTER \in {"ADTS", "MP3"}
  /\ m_pos = 0
  /\ stream \in Streams[SEGMENTER]
  /\ offset = 0
  /\ eof = FALSE
  /\ content = [n \in 1..MaxSegments |-> <<>>]
  /\ played = 0 /\ reported = 0

Filling == pc = "copy" /\ m_pos \div FRAC_SECOND < m_length

HeaderRead == offset + HeaderSize <= stream.end

InSync ==
  /\ offset \in DOMAIN stream.frames
  /\ SEGMENTER = "MP3" => Mp3!SyncRecognised

header == stream.frames[offset].header
FrameEnd == offset + HeaderSize + PayloadLength(header)

(* A frame is written once all of it is read. *)
CopyFrame ==
  /\ Filling /\ HeaderRead /\ InSync
  /\ FrameEnd <= stream.end
  /\ m_pos' = m_pos + Ticks(header)
  /\ offset' = FrameEnd
  /\ content' = [content EXCEPT ![m_sequence] =
                   Append(@, [from |-> offset, to |-> FrameEnd])]
  /\ played' = played + TrueTicks(SEGMENTER, stream.frames[offset])
  /\ UNCHANGED <<vars, SEGMENTER, stream, eof, reported>>

(* The search for a byte 0xff starts after the header just read, so that a *)
(* header that began in the meantime is missed.                            *)
NextFF == {o \in DOMAIN stream.frames \cup stream.lone : o >= offset + HeaderSize}

SkipJunk ==
  /\ Filling /\ HeaderRead /\ ~InSync
  /\ \E next \in NextFF :
       /\ \A o \in NextFF : next <= o
       /\ offset' = next
  /\ UNCHANGED <<vars, SEGMENTER, m_pos, stream, eof, content, played,
                 reported>>

(* A header, the search or a payload runs into the end.                    *)
InputIsOver ==
  \/ ~HeaderRead
  \/ ~InSync /\ NextFF = {}
  \/ InSync /\ FrameEnd > stream.end

(* Whole seconds of the frames this call has copied, with what is carried. *)
SecondsCopied == IF eof THEN 0 ELSE played \div FRAC_SECOND - reported

Return(result) ==
  \E bad \in BOOLEAN :
    (bad => DiskMayFail /\ Crypto # 0) /\ CopySegment(result, SecondsCopied, bad)

(* The clock has advanced already when the payload turns out to be short.  *)
PosAtEnd == IF HeaderRead /\ InSync THEN m_pos + Ticks(header) ELSE m_pos

MeetEndReturning(result) ==
  /\ Filling /\ InputIsOver
  /\ eof' = TRUE
  /\ offset' = stream.end
  /\ m_pos' = PosAtEnd
  /\ Return(result % ULongLong)
  /\ UNCHANGED <<SEGMENTER, stream, content, played, reported>>

(* Variant: what has begun counts as a second. *)
MeetEnd_RoundsUp ==
  MeetEndReturning(-((PosAtEnd + FRAC_SECOND - 1) \div FRAC_SECOND))

(* The quotient is unsigned, and so is its negation.                       *)
MeetEnd == MeetEndReturning(-(PosAtEnd \div FRAC_SECOND))

(* Variant: the next segment starts at 0. *)
ReturnFull_NoCarry ==
  /\ pc = "copy"
  /\ m_pos \div FRAC_SECOND >= m_length
  /\ m_pos' = 0
  /\ Return(m_pos \div FRAC_SECOND)
  /\ reported' = reported + m_pos \div FRAC_SECOND
  /\ UNCHANGED <<SEGMENTER, stream, offset, eof, content, played>>

ReturnFull ==
  /\ pc = "copy"
  /\ m_pos \div FRAC_SECOND >= m_length
  /\ LET rest == m_pos - m_length * FRAC_SECOND
         secs == m_length + rest \div FRAC_SECOND
     IN /\ m_pos' = rest
        /\ Return(secs)
        /\ reported' = reported + secs
  /\ UNCHANGED <<SEGMENTER, stream, offset, eof, content, played>>

CopyStep == CopyFrame \/ SkipJunk \/ MeetEnd \/ ReturnFull
MainStep == (Works \/ Die) /\ UNCHANGED loopVars

AudioNext == CopyStep \/ MainStep
AudioSpec == AudioInit /\ [][AudioNext]_AudioVars

(* Nothing else but the calls: main() makes one after the other while they *)
(* return more than 0, however many that are.                              *)
CallAgain ==
  /\ pc \in {"begin", "close"}
  /\ pc' = IF duration > 0 THEN "copy" ELSE "done"
  /\ UNCHANGED <<indexVars, liveVars, files, run, mainVars, timeVars, loopVars>>

CallsSpec ==
  /\ AudioInit /\ [][CopyStep \/ CallAgain]_AudioVars
  /\ WF_AudioVars(CopyStep) /\ WF_AudioVars(CallAgain)

(* The input is a file: it does not keep the program waiting.              *)
AudioFairSpec ==
  AudioSpec /\ WF_AudioVars(CopyStep) /\ WF_AudioVars(Works /\ UNCHANGED loopVars)

Places == UNION {{n} \X (1 .. Len(content[n])) : n \in 1..MaxSegments}
At(x) == content[x[1]][x[2]]
Precedes(x, y) == x[1] < y[1] \/ (x[1] = y[1] /\ x[2] < y[2])

EndOf(o) == o + stream.frames[o].size

(* Where the loop may read a header and find none: at the start, after a   *)
(* frame, at a byte that looks like the first of a header.                 *)
OutOfSync ==
  ({0} \cup stream.lone \cup {EndOf(p) : p \in DOMAIN stream.frames})
    \ DOMAIN stream.frames

(* What begins within the header that is read there.                       *)
MayBeMissed(o) == \E x \in OutOfSync : x < o /\ o < x + HeaderSize

(* README.md:28-30 has the modules "split every N seconds, but keeping the *)
(* file structure in mind": the segments hold whole frames, each once and  *)
(* in the order of the input, whatever is cut between them or breaks off;  *)
(* and a frame is missed only if it starts while the loop, out of sync,    *)
(* reads a header that is none.                                            *)
FramesKept ==
  /\ \A x \in Places : /\ At(x).from \in DOMAIN stream.frames
                       /\ At(x).to = EndOf(At(x).from)
  /\ \A x, y \in Places : Precedes(x, y) => At(x).to <= At(y).from
  /\ \A o \in DOMAIN stream.frames :
       EndOf(o) <= offset => MayBeMissed(o) \/ \E x \in Places : At(x).from = o

(* "Keep our error, so we don't accumulate" (ADTS.cpp:69, MP3.cpp:94): the *)
(* seconds reported lag behind the time that the copied frames last by less*)
(* than the last of them, at the end of every full segment.                *)
NoAccumulation ==
  pc = "close" /\ ~eof =>
    LET full == content[m_sequence]
        last == stream.frames[full[Len(full)].from]
    IN played - FRAC_SECOND * reported \in 0 .. TrueTicks(SEGMENTER, last) - 1

(* The input is over with less than a second left: the call returns zero,  *)
(* and the program ends instead of making empty segments.                  *)
ShortRestEnds == (eof /\ m_pos < FRAC_SECOND) ~> pc \in {"done", "dead"}

(* Segmenter.hpp:27: "A value <=0 indicated end of stream": once the input *)
(* is over, some call returns such a value, so that main() ends its loop.  *)
EndOfInputReported == eof ~> duration <= 0
=============================================================================
