----------------------------- MODULE MpegtsH264 -----------------------------
(***************************************************************************)
(* The program MpegtsH264: main() with the segmenting module of            *)
(* Segmenter/MpegtsH264.cpp, which waits for the PAT and the PMT, keeps    *)
(* the packets of the PIDs they name, and cuts before an IDR frame of the  *)
(* video once the program clock (PCR) has advanced enough.                 *)
(*                                                                         *)
(* A packet is a record: its PID by what it carries ("PAT", "PMT",         *)
(* or an elementary stream such as "video", the H.264 one), whether a      *)
(* payload unit starts in it, whether that unit starts with an SPS, which  *)
(* elementary streams it names (a PMT), and its PCR or none.  The tables   *)
(* parsed are those that the code accepts; a table it refuses ends the     *)
(* program, which is a Die.  The option IDR sets m_idr, which only the     *)
(* message of the constructor reads; it is left out.                       *)
(***************************************************************************)
EXTENDS SegmenterMain

CONSTANTS
  m_length,         \* option -l
  TS_PCR_FREQ,      \* ticks of the PCR per second
  PcrMod,           \* where the PCR wraps: 2^33
  Kinds,            \* the packets of the input, without their PCR
  Advances,         \* by how many ticks the clock may advance to the next PCR
  FirstPcrs,        \* where the clock of the input may start
  Garbage,          \* m_pkt as the constructor leaves it, if it resembles a packet
  MaxPackets        \* bound: packets in the input

VARIABLES
  inside,               \* copy_segment is running
  m_pat,                \* the PAT has been kept
  m_pmt,                \* the PMT kept, by the streams it names, or NoTable
  m_media_pids,         \* the streams that are copied
  m_pkt,                \* the packet retained by the last call, if any
  m_pcr_segstart,
  pcr, pcr_segstart_actual,  \* local to a call
  read,                 \* ghost: packets read so far
  clock, origin, begun, \* ghosts: the clock of the input, without wrapping,
                        \* and where it stood when the input started, and
                        \* what this call copies
  content,              \* ghost: packets in each segment, by its number
  due,                  \* ghost: numbers of the packets to keep
  cuts, reported        \* ghosts: results > 0 so far; the seconds that all
                        \* results, the last one too, have reported

tsVars == <<inside, m_pat, m_pmt, m_media_pids, m_pkt, m_pcr_segstart, pcr,
            pcr_segstart_actual, read, clock, origin, begun,
            content, due, cuts, reported>>
MpegtsVars == <<vars, tsVars>>

NoPacket == [kind |-> "none", number |-> 0]
NoPcr == -1
NoTable == {}
m_pcr_length == m_length * TS_PCR_FREQ
Masked(x) == x % PcrMod

ASSUME MpegtsAssumption ==
  /\ m_length \in Nat \ {0} /\ TS_PCR_FREQ \in Nat \ {0}
  /\ PcrMod \in Nat \ {0} /\ m_pcr_length < PcrMod
  /\ Advances \subseteq Nat /\ FirstPcrs \subseteq Nat
  /\ MaxPackets \in Nat /\ Scale = 1
  /\ Garbage.number = 0 /\ Garbage.kind = "garbage"
  /\ \A kind \in Kinds : kind.kind # "garbage"

(* Only a PMT names streams, and one that does not name the H.264 stream   *)
(* is refused.                                                             *)
ASSUME KindsAssumption ==
  \A kind \in Kinds :
    IF kind.kind = "PMT" /\ kind.start THEN "video" \in kind.names
                                      ELSE kind.names = NoTable

MpegtsInit ==
  /\ Init
  /\ inside = FALSE /\ m_pat = FALSE /\ m_pmt = NoTable /\ m_media_pids = {}
  /\ m_pkt \in {NoPacket, Garbage}
  /\ m_pcr_segstart = -1
  /\ pcr = NoPcr /\ pcr_segstart_actual = NoPcr
  /\ read = 0 /\ clock \in FirstPcrs /\ origin = clock /\ begun = clock
  /\ content = [n \in 1..MaxSegments |-> <<>>]
  /\ due = {} /\ cuts = 0 /\ reported = 0

Write(packets) == content' = [content EXCEPT ![m_sequence] = @ \o packets]

TablesKnown == m_pat /\ m_pmt # NoTable

(* The tables that start a segment have no number: they are copies.        *)
Tables == <<[kind |-> "PAT", names |-> {}, number |-> 0],
            [kind |-> "PMT", names |-> m_pmt, number |-> 0]>>

StartCall ==
  /\ pc = "copy" /\ ~inside
  /\ inside' = TRUE
  /\ Write(IF TablesKnown THEN Tables ELSE <<>>)
  /\ pcr' = NoPcr /\ pcr_segstart_actual' = NoPcr
  /\ begun' = clock
  /\ UNCHANGED <<vars, m_pat, m_pmt, m_media_pids, m_pkt, m_pcr_segstart, read,
                 clock, origin, due, cuts, reported>>

(* Variant: m_pkt keeps its sync byte when it has been copied.              *)
CopyRetained_NotReset ==
  /\ pc = "copy" /\ inside /\ m_pkt # NoPacket
  /\ Write(<<m_pkt>>)
  /\ UNCHANGED <<vars, inside, m_pat, m_pmt, m_media_pids, m_pkt, m_pcr_segstart,
                 pcr, pcr_segstart_actual, read, clock, origin, begun, due,
                 cuts, reported>>

CopyRetained ==
  /\ pc = "copy" /\ inside /\ m_pkt # NoPacket
  /\ Write(<<m_pkt>>)
  /\ m_pkt' = NoPacket
  /\ UNCHANGED <<vars, inside, m_pat, m_pmt, m_media_pids, m_pcr_segstart, pcr,
                 pcr_segstart_actual, read, clock, origin, begun, due,
                 cuts, reported>>

Reading == pc = "copy" /\ inside /\ m_pkt = NoPacket

(* What has been copied is the time since the packet that the call began   *)
(* with, or since the tables were known.                                   *)
Return(result) ==
  /\ \E bad \in BOOLEAN :
       /\ bad => DiskMayFail /\ Crypto # 0
       /\ CopySegment(result, (clock' - begun') \div TS_PCR_FREQ, bad)
  /\ inside' = FALSE

(* Variant: the time is unsigned where the sign is changed, as in ADTS and MP3. *)
Stop_Unsigned(from) ==
  /\ Reading
  /\ UNCHANGED <<m_pat, m_pmt, m_media_pids, m_pkt, m_pcr_segstart, pcr,
                 pcr_segstart_actual, read, clock, origin, begun, content,
                 due, cuts>>
  /\ Return((-(Masked(pcr - from) \div TS_PCR_FREQ)) % ULong)

Stop(from) ==
  /\ Reading
  /\ UNCHANGED <<m_pat, m_pmt, m_media_pids, m_pkt, m_pcr_segstart, pcr,
                 pcr_segstart_actual, read, clock, origin, begun, content,
                 due, cuts>>
  /\ Return(-(Masked(pcr - from) \div TS_PCR_FREQ))

(* The input is over; main() lists the absolute value of the result.       *)
EndOfInput ==
  /\ Stop(pcr_segstart_actual)
  /\ reported' = reported + AbsVal(duration')

(* The next packet does not start with a sync byte.  The result does not   *)
(* count as reported: it is counted from where the segment ought to have   *)
(* started, and may be anything up to the wrap of the PCR.                 *)
LostSync ==
  /\ Stop(m_pcr_segstart)
  /\ UNCHANGED reported

(* The next packet: its number in the input, and the time it carries.      *)
Packet(kind, time) ==
  [kind |-> kind.kind, start |-> kind.start, sps |-> kind.sps, names |-> kind.names,
   number |-> read + 1, pcr |-> IF kind.timed THEN Masked(time) ELSE NoPcr]

Arrives(kind, time) ==
  /\ Reading
  /\ read < MaxPackets
  /\ read' = read + 1
  /\ clock' = time
  /\ begun' = IF TablesKnown THEN begun ELSE time
  /\ UNCHANGED origin

Copy(p) ==
  /\ Write(<<p>>)
  /\ due' = due \cup {p.number}

(* Before both tables are known everything else is dropped, PCRs unread.   *)
ReadTable(kind, time) ==
  /\ ~TablesKnown
  /\ Arrives(kind, time)
  /\ LET p      == Packet(kind, time)
         wanted == kind.start /\ kind.kind = (IF m_pat THEN "PMT" ELSE "PAT")
     IN IF wanted
          THEN /\ Copy(p)
               /\ m_pat' = TRUE
               /\ m_pmt' = kind.names
               /\ m_media_pids' = m_media_pids \cup kind.names
          ELSE UNCHANGED <<content, due, m_pat, m_pmt, m_media_pids>>
  /\ UNCHANGED <<vars, inside, m_pkt, m_pcr_segstart, pcr,
                 pcr_segstart_actual, cuts, reported>>

NotePcr(kind, time) ==
  IF kind.timed
    THEN /\ pcr' = Masked(time)
         /\ pcr_segstart_actual' =
              IF pcr_segstart_actual = NoPcr THEN pcr' ELSE pcr_segstart_actual
    ELSE UNCHANGED <<pcr, pcr_segstart_actual>>

(* Variant: any start of a video unit will do. *)
StartsNext_AnyUnit(kind) ==
  /\ Masked(pcr' - m_pcr_segstart) >= m_pcr_length
  /\ kind.kind = "video" /\ kind.start

(* Enough time has passed and the packet is the first of an IDR frame.     *)
StartsNext(kind) ==
  /\ Masked(pcr' - m_pcr_segstart) >= m_pcr_length
  /\ kind.kind = "video" /\ kind.start /\ kind.sps

IsCopied(kind) == kind.kind \in {"PAT", "PMT"} \cup m_media_pids

(* Variant: the table is kept up to date, the streams it names are not.    *)
ReadMedia_KeepsNewTable(kind, time) ==
  /\ TablesKnown
  /\ Arrives(kind, time)
  /\ NotePcr(kind, time)
  /\ ~StartsNext(kind)
  /\ m_pmt' = IF kind.kind = "PMT" THEN kind.names ELSE m_pmt
  /\ IF IsCopied(kind)
       THEN Copy(Packet(kind, time))
       ELSE UNCHANGED <<content, due>>
  /\ UNCHANGED <<vars, inside, m_pat, m_media_pids, m_pkt, m_pcr_segstart,
                 cuts, reported>>

(* Later tables are copied like any packet, and not parsed.                *)
ReadMedia(kind, time) ==
  /\ TablesKnown
  /\ Arrives(kind, time)
  /\ NotePcr(kind, time)
  /\ ~StartsNext(kind)
  /\ IF IsCopied(kind)
       THEN Copy(Packet(kind, time))
       ELSE UNCHANGED <<content, due>>
  /\ UNCHANGED <<vars, inside, m_pat, m_pmt, m_media_pids, m_pkt, m_pcr_segstart,
                 cuts, reported>>

(* Variant: the time since the segment ought to have started. *)
Passed_SinceSegstart == Masked(pcr' - m_pcr_segstart)

(* The time between the first and the last PCR of this call.               *)
Passed == Masked(pcr' - pcr_segstart_actual')

Cut(kind, time, next, length) ==
  /\ TablesKnown
  /\ Arrives(kind, time)
  /\ NotePcr(kind, time)
  /\ StartsNext(kind)
  /\ m_pkt' = next
  /\ m_pcr_segstart' = m_pcr_segstart + length
  /\ LET result == Passed \div TS_PCR_FREQ
     IN /\ Return(result)
        /\ cuts' = IF result > 0 THEN cuts + 1 ELSE cuts
        /\ reported' = reported + result
  /\ due' = due \cup {read'}
  /\ UNCHANGED <<m_pat, m_pmt, m_media_pids, content>>

(* Variants: the packet that starts the next segment is forgotten; the     *)
(* next segment is due at the time of this one.                            *)
CutBefore_Forgets(kind, time) == Cut(kind, time, NoPacket, m_pcr_length)
CutBefore_NotMoved(kind, time) == Cut(kind, time, Packet(kind, time), 0)

CutBefore(kind, time) == Cut(kind, time, Packet(kind, time), m_pcr_length)

CopyStep ==
  \/ StartCall
  \/ CopyRetained
  \/ EndOfInput
  \/ LostSync
  \/ \E kind \in Kinds :
       \E time \in IF kind.timed THEN {clock + a : a \in Advances} ELSE {clock} :
         \/ ReadTable(kind, time)
         \/ ReadMedia(kind, time)
         \/ CutBefore(kind, time)

MainStep == (Works \/ Die) /\ UNCHANGED tsVars

MpegtsNext == CopyStep \/ MainStep
MpegtsSpec == MpegtsInit /\ [][MpegtsNext]_MpegtsVars

(* Nothing of what is to be kept is lost where a segment ends, nothing is  *)
(* there twice, and nothing changes its place: the segments, with the      *)
(* packet retained for the next one, are the packets to keep in the order  *)
(* of the input.                                                           *)
FromInput(p) == p.number # 0
Places == UNION {{n} \X (1 .. Len(content[n])) : n \in 1..MaxSegments}
At(x) == content[x[1]][x[2]]
Precedes(x, y) == x[1] < y[1] \/ (x[1] = y[1] /\ x[2] < y[2])

PacketsOnceInOrder ==
  LET kept == {x \in Places : FromInput(At(x))}
      retained == {p \in {m_pkt} : FromInput(p)}
  IN /\ due = {At(x).number : x \in kept} \cup {p.number : p \in retained}
     /\ \A x, y \in kept : Precedes(x, y) => At(x).number < At(y).number
     /\ \A x \in kept, p \in retained : At(x).number < p.number

(* What the constructor left in m_pkt may resemble a packet: it is copied  *)
(* at most once, before all else, and never to a later segment.            *)
GarbageIsFirst ==
  \A n \in 1..MaxSegments : \A k \in 1 .. Len(content[n]) :
    content[n][k].kind = "garbage" => n = 1 /\ k = 1

(* A player can start with any segment after the first: it begins with the *)
(* two tables and the first packet of an IDR frame.                        *)
SegmentsSelfContained ==
  \A n \in 2 .. MaxSegments :
    Len(content[n]) >= 3 =>
      /\ content[n][1].kind = "PAT" /\ content[n][2].kind = "PMT"
      /\ content[n][3].kind = "video" /\ content[n][3].sps

(* The tables a segment starts with are those of the beginning for ever,   *)
(* and so is the choice of packets: until the input itself brings a PMT, a *)
(* player that starts with any segment finds in it only streams that the   *)
(* table before them names.                                                *)
TablesDescribeContent ==
  \A n \in 2 .. MaxSegments :
    \A k \in 3 .. Len(content[n]) :
      (\A j \in 3 .. k : content[n][j].kind # "PMT")
        => content[n][k].kind \in {"PAT"} \cup content[n][2].names

(* The segments together are not said to last longer than the input's      *)
(* clock has run, across any number of wraps of the PCR, unless the last   *)
(* of them ends where the sync is lost.                                    *)
ReportedWithinClock == reported * TS_PCR_FREQ <= clock - origin

(* main.cpp:62-63: the option -l gives "the average duration in seconds":  *)
(* by the time of a cut the clock has run as long as that many segments.   *)
AverageLength == clock - origin + 1 >= cuts * m_length * TS_PCR_FREQ

(* Segmenter.hpp:26: "the absolute value of the return value must be the   *)
(* number of seconds effectively copied".  Counted from the first PCR that *)
(* the call reads, the whole seconds of a segment that is cut or ends with *)
(* the input are those of its time in the input, less one advance of the   *)
(* clock at most; and a result > 0 comes with the packet that the next call*)
(* begins with.  (A result of 0 may do so too, MpegtsH264.cpp:196, and then*)
(* ends the program in mid-stream; the result of line 74 is excepted.)     *)
ReportsTimeCopied ==
  [][pc = "copy" /\ pc' = "close" =>
       /\ duration' > 0 => m_pkt' # NoPacket
       /\ m_pkt' # NoPacket \/ EndOfInput =>
            LET passed == clock' - begun' IN
            passed < PcrMod =>
              \E a \in Advances \cup {0} :
                /\ a <= passed
                /\ AbsVal(duration') = (passed - a) \div TS_PCR_FREQ
    ]_MpegtsVars
=============================================================================
