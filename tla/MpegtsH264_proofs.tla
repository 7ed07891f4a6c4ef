-------------------------- MODULE MpegtsH264_proofs --------------------------
(***************************************************************************)
(* Proofs about MpegtsH264, for any input of packets, any length of the    *)
(* segments and a clock that wraps anywhere.                               *)
(***************************************************************************)
EXTENDS MpegtsH264, SequenceTheorems, TLAPS

IsSeq(s) == \E S : s \in Seq(S)
IsIdr(p) == p.kind = "video" /\ p.sps

(* More segments will be made, as far as is known.                         *)
Going ==
  \/ pc \in {"begin", "open", "key", "copy"}
  \/ pc \in {"close", "add", "wait"} /\ duration > 0

(* The segment being written, and those before it, may have packets.       *)
Started == IF inside THEN cuts + 1 ELSE cuts

ContentInv ==
  /\ DOMAIN content = 1..MaxSegments
  /\ \A n \in 1..MaxSegments : IsSeq(content[n])

NumbersInv ==
  /\ duration \in Int /\ m_sequence \in Nat
  /\ cuts \in Nat /\ read \in Nat /\ reported \in Nat /\ clock \in Nat /\ origin \in Nat
  /\ pcr \in Int /\ pcr_segstart_actual \in Int /\ m_pcr_segstart \in Int

ControlInv ==
  /\ pc \in {"begin", "open", "key", "copy", "close", "add", "wait", "end", "done", "dead"}
  /\ pc \in {"key", "copy", "close", "add"} => m_sequence <= MaxSegments
  /\ inside => pc \in {"copy", "dead"}
  /\ Going => m_sequence = IF pc \in {"close", "add"} THEN cuts ELSE cuts + 1

FreshInv == Going => \A n \in 1..MaxSegments : n > Started => content[n] = <<>>

StateInv == ContentInv /\ NumbersInv /\ ControlInv /\ FreshInv

TablesInv ==
  /\ m_media_pids = m_pmt
  /\ m_pmt # NoTable => m_pat /\ "video" \in m_pmt
  /\ cuts > 0 => TablesKnown

(* A call after the first finds the packet it begins with.                 *)
RetainedInv == Going /\ ~inside /\ cuts > 0 => IsIdr(m_pkt)

(* How every segment after the first begins, and goes on.                  *)
Begins(n, s) ==
  s # <<>> =>
    /\ TablesKnown
    /\ Len(s) >= 2
    /\ s[1].kind = "PAT" /\ s[2].kind = "PMT" /\ s[2].names = m_pmt
    /\ IF Len(s) = 2 THEN n = m_sequence /\ pc \in {"copy", "dead"} /\ IsIdr(m_pkt)
                     ELSE IsIdr(s[3])
    /\ \A k \in 3 .. Len(s) : s[k].kind \in {"PAT", "PMT"} \cup m_pmt

OpenedInv ==
  pc = "copy" /\ inside /\ m_sequence >= 2 =>
    /\ content[m_sequence] # <<>>
    /\ Len(content[m_sequence]) > 2 => m_pkt = NoPacket

SegmentInv == RetainedInv /\ OpenedInv /\ \A n \in 2..MaxSegments : Begins(n, content[n])

(* The first and the last PCR of a call are those of two moments, and what  *)
(* has been reported is the time before them.                              *)
PcrsNoted(first, last, now) ==
  IF last = NoPcr
    THEN first = NoPcr
    ELSE /\ last = Masked(now)
         /\ \E a \in origin .. now :
              first = Masked(a) /\ reported * TS_PCR_FREQ <= a - origin

ClockInv ==
  /\ ReportedWithinClock
  /\ pc = "copy" /\ inside =>
       PcrsNoted(pcr_segstart_actual, pcr, clock) /\ (pcr # NoPcr => TablesKnown)

(* The cuts of an input whose clock starts at 0.                           *)
LengthInv ==
  /\ origin = 0
  /\ AverageLength
  /\ Going => m_pcr_segstart = cuts * m_length * TS_PCR_FREQ - 1

(* Segments c, with the packet p retained, hold the packets numbered in    *)
(* kept, in order; the copies of tables have number 0.                     *)
PlacesOf(c) == UNION {{n} \X (1 .. Len(c[n])) : n \in 1..MaxSegments}
NumberAt(c, x) == c[x[1]][x[2]].number
KeptOf(c) == {x \in PlacesOf(c) : NumberAt(c, x) # 0}

Ordered(c, kept, p) ==
  /\ kept = {NumberAt(c, x) : x \in KeptOf(c)} \cup IF p.number = 0 THEN {} ELSE {p.number}
  /\ \A x, y \in KeptOf(c) : Precedes(x, y) => NumberAt(c, x) < NumberAt(c, y)
  /\ p.number # 0 => \A x \in KeptOf(c) : NumberAt(c, x) < p.number
  /\ \A x \in PlacesOf(c) : NumberAt(c, x) \in Nat
  /\ p.number \in Nat

OrderInv == Ordered(content, due, m_pkt) /\ due \subseteq 1 .. read

(* Between the packets that a call has read first and last the clock has   *)
(* run from begun to clock, and at most one advance of it was not noted.   *)
BegunInv ==
  /\ begun \in Nat
  /\ pc = "copy" /\ inside =>
       IF pcr_segstart_actual = NoPcr
         THEN pcr = NoPcr /\ begun = clock
         ELSE /\ pcr = Masked(clock)
              /\ \E a \in Advances :
                   /\ begun + a <= clock
                   /\ pcr_segstart_actual = Masked(begun + a)

(***************************************************************************)
(* Sequences of which no type is known, and the clock.                     *)
(***************************************************************************)
LEMMA SeqFacts ==
  ASSUME NEW s, IsSeq(s)
  PROVE  Len(s) \in Nat /\ DOMAIN s = 1 .. Len(s) /\ (Len(s) = 0 <=> s = <<>>)
BY DEF IsSeq

LEMMA ConcatFacts ==
  ASSUME NEW s, NEW t, IsSeq(s), IsSeq(t)
  PROVE  /\ IsSeq(s \o t) /\ Len(s \o t) = Len(s) + Len(t)
         /\ \A k \in 1 .. Len(s) : (s \o t)[k] = s[k]
         /\ \A k \in 1 .. Len(t) : (s \o t)[Len(s) + k] = t[k]
<1>1. PICK S, T : s \in Seq(S) /\ t \in Seq(T)
  BY DEF IsSeq
<1> DEFINE U == S \cup T
<1>2. s \in Seq(U) /\ t \in Seq(U)
  <2>1. (\A k \in 1 .. Len(s) : s[k] \in U) /\ (\A k \in 1 .. Len(t) : t[k] \in U)
    BY <1>1
  <2> QED  BY <1>1, <2>1
<1> HIDE DEF U
<1>3. s \o t \in Seq(U)
  BY <1>2
<1> QED  BY <1>2, <1>3 DEF IsSeq

LEMMA ShortSeqs ==
  /\ IsSeq(<<>>) /\ Len(<<>>) = 0
  /\ \A p : IsSeq(<<p>>) /\ Len(<<p>>) = 1 /\ <<p>>[1] = p
  /\ \A p, q : IsSeq(<<p, q>>) /\ Len(<<p, q>>) = 2 /\ <<p, q>>[1] = p /\ <<p, q>>[2] = q
<1>1. <<>> \in Seq({})
  OBVIOUS
<1>2. \A p : <<p>> \in Seq({p})
  OBVIOUS
<1>3. \A p, q : <<p, q>> \in Seq({p, q})
  OBVIOUS
<1> QED  BY <1>1, <1>2, <1>3 DEF IsSeq

LEMMA MaskFacts ==
  ASSUME NEW x \in Int
  PROVE  /\ Masked(x) \in 0 .. PcrMod - 1
         /\ x >= 0 => Masked(x) <= x
BY MpegtsAssumption DEF Masked

LEMMA Quotient ==
  ASSUME NEW x \in Nat
  PROVE  /\ x \div TS_PCR_FREQ \in Nat
         /\ TS_PCR_FREQ * (x \div TS_PCR_FREQ) <= x
         /\ x \div TS_PCR_FREQ <= x
BY MpegtsAssumption

LEMMA NotedPcr ==
  ASSUME StateInv, NEW kind, NEW time \in Nat, NotePcr(kind, time)
  PROVE  pcr' \in Int /\ pcr_segstart_actual' \in Int
<1>1. Masked(time) \in Int
  BY MaskFacts
<1> QED  BY <1>1 DEF NotePcr, StateInv, NumbersInv

(***************************************************************************)
(* The steps of main().                                                    *)
(***************************************************************************)
Moves ==
  \/ /\ \/ pc = "begin" /\ pc' = "open"
        \/ pc = "open" /\ pc' \in {"key", "copy"} /\ m_sequence <= MaxSegments
        \/ pc = "key" /\ pc' = "copy"
        \/ pc = "close" /\ pc' = "add"
        \/ pc = "wait" /\ pc' = "open" /\ duration > 0
        \/ pc = "wait" /\ pc' = "end"
        \/ pc = "end" /\ pc' = "done"
        \/ pc \notin {"done", "dead"} /\ pc' = "dead"
        \/ pc' = pc
     /\ m_sequence' = m_sequence
  \/ pc = "add" /\ pc' = "wait" /\ m_sequence' = m_sequence + 1

LEMMA MainMoves ==
  ASSUME MainStep \/ UNCHANGED MpegtsVars
  PROVE  Moves /\ duration' = duration /\ UNCHANGED tsVars
<1>1. CASE UNCHANGED MpegtsVars
  BY <1>1 DEF MpegtsVars, vars, indexVars, timeVars, Moves
<1>2. CASE Die /\ UNCHANGED tsVars
  BY <1>2 DEF Die, indexVars, timeVars, Moves
<1>3. CASE BeginIndex /\ UNCHANGED tsVars
  BY <1>3 DEF BeginIndex, LiveBegin, Begin, WriteHeader, indexVars, timeVars, Moves
<1>4. CASE OpenSegment /\ UNCHANGED tsVars
  BY <1>4 DEF OpenSegment, indexVars, timeVars, Moves
<1>5. CASE CloseSegment /\ UNCHANGED tsVars
  BY <1>5 DEF CloseSegment, indexVars, Moves
<1>6. CASE AddToIndex /\ UNCHANGED tsVars
  BY <1>6 DEF AddToIndex, LiveAddSegment, AddSegment, timeVars, Moves
<1>7. CASE IndexWorks /\ UNCHANGED tsVars
  BY <1>7 DEF IndexWorks, Flush, Trim, OpenTemp, WriteNext, CloseTemp, Rename, WriteHeader,
              WriteSegment, indexVars, timeVars, Moves
<1>8. CASE NextRound /\ UNCHANGED tsVars
  BY <1>8 DEF NextRound, indexVars, timeVars, Moves
<1>9. CASE EndIndex /\ UNCHANGED tsVars
  BY <1>9 DEF EndIndex, LiveEnd, End, timeVars, Moves
<1>10. CASE SwitchKey /\ UNCHANGED tsVars
  BY <1>10 DEF SwitchKey, indexVars, timeVars, Moves
<1> QED  BY <1>1, <1>2, <1>3, <1>4, <1>5, <1>6, <1>7, <1>8, <1>9, <1>10 DEF MainStep, Works

LEMMA CopyFacts ==
  ASSUME StateInv, pc = "copy"
  PROVE  m_sequence = cuts + 1 /\ m_sequence \in 1..MaxSegments
BY Assumptions DEF StateInv, ControlInv, NumbersInv, Going, SegmenterAssumption

LEMMA Written ==
  ASSUME StateInv, pc = "copy", NEW packets, IsSeq(packets), Write(packets)
  PROVE  /\ ContentInv'
         /\ content'[m_sequence] = content[m_sequence] \o packets
         /\ \A n \in 1..MaxSegments : n # m_sequence => content'[n] = content[n]
<1>1. m_sequence \in 1..MaxSegments
  BY CopyFacts
<1>2. /\ DOMAIN content' = 1..MaxSegments
      /\ content'[m_sequence] = content[m_sequence] \o packets
      /\ \A n \in 1..MaxSegments : n # m_sequence => content'[n] = content[n]
  BY <1>1 DEF Write, StateInv, ContentInv
<1>3. IsSeq(content[m_sequence] \o packets)
  BY <1>1, ConcatFacts DEF StateInv, ContentInv
<1> QED  BY <1>1, <1>2, <1>3 DEF StateInv, ContentInv

(***************************************************************************)
(* Where main() and copy_segment stand, and what is written where.         *)
(***************************************************************************)
LEMMA StateInit == MpegtsInit => StateInv /\ TablesInv /\ RetainedInv
<1> SUFFICES ASSUME MpegtsInit PROVE StateInv /\ TablesInv /\ RetainedInv
  OBVIOUS
<1>1. /\ pc = "begin" /\ m_sequence = 1 /\ duration = 1 /\ cuts = 0 /\ read = 0 /\ reported = 0
      /\ inside = FALSE /\ clock \in FirstPcrs /\ origin = clock
      /\ pcr = NoPcr /\ pcr_segstart_actual = NoPcr /\ m_pcr_segstart = -1
      /\ content = [n \in 1..MaxSegments |-> <<>>]
      /\ m_pmt = NoTable /\ m_media_pids = {}
  BY DEF MpegtsInit, Init, ProgramInit, IndexInit
<1>2. ContentInv /\ FreshInv
  BY <1>1, ShortSeqs DEF ContentInv, FreshInv
<1>3. NumbersInv
  BY <1>1, MpegtsAssumption DEF NumbersInv, NoPcr
<1>4. ControlInv
  BY <1>1 DEF ControlInv
<1> QED  BY <1>1, <1>2, <1>3, <1>4 DEF StateInv, TablesInv, RetainedInv, NoTable

LEMMA StateMain ==
  ASSUME StateInv, MainStep \/ UNCHANGED MpegtsVars
  PROVE  StateInv'
<1>1. Moves /\ duration' = duration /\ UNCHANGED tsVars
  BY MainMoves
<1>2. UNCHANGED <<inside, content, cuts, read, reported, clock, origin, pcr, pcr_segstart_actual,
                  m_pcr_segstart>>
  BY <1>1 DEF tsVars
<1>3. ContentInv' /\ NumbersInv'
  BY <1>1, <1>2 DEF StateInv, ContentInv, NumbersInv, Moves
<1>4. Going' => Going
  BY <1>1 DEF Moves, Going
<1>5. ControlInv'
  BY <1>1, <1>2 DEF StateInv, ControlInv, NumbersInv, Going, Moves
<1>6. FreshInv'
  BY <1>2, <1>4 DEF StateInv, FreshInv, Started
<1> QED  BY <1>3, <1>5, <1>6 DEF StateInv

(* A step within a call.                                                   *)
LEMMA StateWithin ==
  ASSUME StateInv, pc = "copy", UNCHANGED <<pc, m_sequence, duration, cuts>>, inside' = TRUE,
         NumbersInv', ContentInv',
         \A n \in 1..MaxSegments : n # m_sequence => content'[n] = content[n]
  PROVE  StateInv'
<1>1. m_sequence = cuts + 1 /\ m_sequence \in 1..MaxSegments /\ cuts \in Nat
  BY CopyFacts DEF StateInv, NumbersInv
<1>2. Going /\ Going' /\ Started' = cuts + 1
  BY DEF Going, Started
<1>3. ControlInv'
  BY <1>1 DEF ControlInv
<1>4. \A n \in 1..MaxSegments : n > cuts + 1 => content'[n] = <<>>
  <2>1. \A n \in 1..MaxSegments : n > cuts + 1 => n > Started /\ n # m_sequence
    BY <1>1 DEF Started
  <2> QED  BY <1>2, <2>1 DEF StateInv, FreshInv
<1> QED  BY <1>2, <1>3, <1>4 DEF StateInv, FreshInv

LEMMA NothingWritten ==
  ASSUME StateInv, content' = content
  PROVE  ContentInv' /\ \A n \in 1..MaxSegments : content'[n] = content[n]
BY DEF StateInv, ContentInv

LEMMA StateStartCall ==
  ASSUME StateInv, StartCall
  PROVE  StateInv'
<1>1. /\ pc = "copy" /\ inside' = TRUE /\ UNCHANGED <<pc, m_sequence, duration, cuts>>
      /\ Write(IF TablesKnown THEN Tables ELSE <<>>)
  BY DEF StartCall, vars, indexVars, timeVars
<1>2. NumbersInv'
  BY DEF StartCall, vars, indexVars, timeVars, StateInv, NumbersInv, NoPcr
<1>3. IsSeq(IF TablesKnown THEN Tables ELSE <<>>)
  BY ShortSeqs DEF Tables
<1>4. ContentInv' /\ \A n \in 1..MaxSegments : n # m_sequence => content'[n] = content[n]
  BY <1>1, <1>3, Written
<1> QED  BY <1>1, <1>2, <1>4, StateWithin

LEMMA StateCopyRetained ==
  ASSUME StateInv, CopyRetained
  PROVE  StateInv'
<1>1. /\ pc = "copy" /\ inside' = TRUE /\ UNCHANGED <<pc, m_sequence, duration, cuts>>
      /\ Write(<<m_pkt>>)
  BY DEF CopyRetained, vars, indexVars, timeVars
<1>2. NumbersInv'
  BY DEF CopyRetained, vars, indexVars, timeVars, StateInv, NumbersInv
<1>3. IsSeq(<<m_pkt>>)
  BY ShortSeqs
<1>4. ContentInv' /\ \A n \in 1..MaxSegments : n # m_sequence => content'[n] = content[n]
  BY <1>1, <1>3, Written
<1> QED  BY <1>1, <1>2, <1>4, StateWithin

(* What a call returns at the end of the input ends the stream.            *)
LEMMA StopFacts ==
  ASSUME StateInv, EndOfInput \/ LostSync
  PROVE  /\ pc = "copy" /\ pc' = "close" /\ inside' = FALSE /\ m_pkt = NoPacket
         /\ duration' \in -PcrMod .. 0
         /\ EndOfInput =>
              /\ duration' = -(Masked(pcr - pcr_segstart_actual) \div TS_PCR_FREQ)
              /\ reported' = reported - duration'
         /\ LostSync => reported' = reported
         /\ UNCHANGED <<m_sequence, m_pat, m_pmt, m_media_pids, m_pkt, m_pcr_segstart, pcr,
                        pcr_segstart_actual, read, clock, origin, begun, content, due, cuts>>
<1>1. PICK from \in Int :
         /\ Stop(from)
         /\ EndOfInput => from = pcr_segstart_actual
  BY DEF EndOfInput, LostSync, StateInv, NumbersInv
<1>2. /\ pc = "copy" /\ pc' = "close" /\ inside' = FALSE /\ m_pkt = NoPacket
      /\ duration' = -(Masked(pcr - from) \div TS_PCR_FREQ)
      /\ UNCHANGED <<m_sequence, m_pat, m_pmt, m_media_pids, m_pkt, m_pcr_segstart, pcr,
                     pcr_segstart_actual, read, clock, origin, begun, content, due, cuts>>
  BY <1>1 DEF Stop, Reading, Return, CopySegment, indexVars
<1>3. Masked(pcr - from) \in 0 .. PcrMod - 1 /\ PcrMod \in Nat
  BY MaskFacts, MpegtsAssumption DEF StateInv, NumbersInv
<1>4. Masked(pcr - from) \div TS_PCR_FREQ \in 0 .. PcrMod - 1
  BY <1>3, Quotient
<1>5. duration' \in -PcrMod .. 0
  BY <1>2, <1>3, <1>4
<1>6. EndOfInput => reported' = reported - duration'
  <2>1. \A d \in -PcrMod .. 0 : AbsVal(d) = -d
    BY <1>3 DEF AbsVal
  <2> QED  BY <1>3, <1>5, <2>1 DEF EndOfInput, StateInv, NumbersInv
<1>7. LostSync => reported' = reported
  BY DEF LostSync
<1> QED  BY <1>1, <1>2, <1>5, <1>6, <1>7

LEMMA StateStop ==
  ASSUME StateInv, EndOfInput \/ LostSync
  PROVE  StateInv' /\ ~Going' /\ duration' <= 0
<1>1. /\ pc = "copy" /\ pc' = "close" /\ inside' = FALSE /\ duration' \in Int /\ duration' <= 0
      /\ reported' \in {reported, reported - duration'}
      /\ UNCHANGED <<m_sequence, m_pcr_segstart, pcr, pcr_segstart_actual, read, clock, origin,
                     content, cuts>>
  <2>1. duration' \in -PcrMod .. 0
    BY StopFacts
  <2>2. duration' \in Int /\ duration' <= 0
    BY <2>1, MpegtsAssumption
  <2>3. reported' \in {reported, reported - duration'}
    BY StopFacts
  <2>4. /\ pc = "copy" /\ pc' = "close" /\ inside' = FALSE
        /\ UNCHANGED <<m_sequence, m_pcr_segstart, pcr, pcr_segstart_actual, read, clock, origin,
                       content, cuts>>
    BY StopFacts
  <2> QED  BY <2>2, <2>3, <2>4
<1>2. ~Going'
  BY <1>1 DEF Going
<1>3. m_sequence \in 1..MaxSegments
  BY <1>1, CopyFacts
<1>4. ContentInv' /\ NumbersInv'
  <2>1. reported \in Nat
    BY DEF StateInv, NumbersInv
  <2>2. reported' \in Nat
    <3>1. \A d \in Int, x \in Nat : d <= 0 => x - d \in Nat
      OBVIOUS
    <3> QED  BY <1>1, <2>1, <3>1
  <2> QED  BY <1>1, <2>2 DEF StateInv, ContentInv, NumbersInv
<1>5. ControlInv' /\ FreshInv'
  BY <1>1, <1>2, <1>3 DEF ControlInv, FreshInv
<1> QED  BY <1>1, <1>2, <1>4, <1>5 DEF StateInv

LEMMA ArrivesFacts ==
  ASSUME NEW kind, NEW time, Arrives(kind, time)
  PROVE  /\ pc = "copy" /\ inside /\ m_pkt = NoPacket /\ read < MaxPackets
         /\ read' = read + 1 /\ clock' = time /\ origin' = origin
         /\ begun' = IF TablesKnown THEN begun ELSE time
BY DEF Arrives, Reading

LEMMA ReadTableFacts ==
  ASSUME NEW kind, NEW time, ReadTable(kind, time)
  PROVE  /\ ~TablesKnown /\ Arrives(kind, time)
         /\ UNCHANGED <<pc, m_sequence, duration, inside, m_pkt, m_pcr_segstart, pcr,
                        pcr_segstart_actual, cuts, reported>>
         /\ \/ /\ kind.start /\ kind.kind = (IF m_pat THEN "PMT" ELSE "PAT")
               /\ Copy(Packet(kind, time))
               /\ m_pat' = TRUE /\ m_pmt' = kind.names
               /\ m_media_pids' = m_media_pids \cup kind.names
            \/ UNCHANGED <<content, due, m_pat, m_pmt, m_media_pids>>
BY DEF ReadTable, vars, indexVars, timeVars

LEMMA ReadMediaFacts ==
  ASSUME NEW kind, NEW time, ReadMedia(kind, time)
  PROVE  /\ TablesKnown /\ Arrives(kind, time) /\ NotePcr(kind, time)
         /\ UNCHANGED <<pc, m_sequence, duration, inside, m_pat, m_pmt, m_media_pids, m_pkt,
                        m_pcr_segstart, cuts, reported>>
         /\ \/ IsCopied(kind) /\ Copy(Packet(kind, time))
            \/ UNCHANGED <<content, due>>
BY DEF ReadMedia, vars, indexVars, timeVars

(* The time between two PCRs, and its whole seconds.                       *)
TimeNoted == Masked(pcr' - pcr_segstart_actual')

Returns(noted, result) ==
  /\ noted = TimeNoted /\ result = noted \div TS_PCR_FREQ
  /\ duration' = result /\ reported' = reported + result
  /\ cuts' = IF result > 0 THEN cuts + 1 ELSE cuts

LEMMA CutFacts ==
  ASSUME StateInv, NEW kind, NEW time \in Nat, CutBefore(kind, time)
  PROVE  /\ TablesKnown /\ Arrives(kind, time) /\ NotePcr(kind, time)
         /\ Masked(pcr' - m_pcr_segstart) >= m_pcr_length
         /\ kind.kind = "video" /\ kind.sps /\ m_pkt' = Packet(kind, time)
         /\ m_pcr_segstart' = m_pcr_segstart + m_pcr_length
         /\ pc' = "close" /\ inside' = FALSE /\ due' = due \cup {read + 1}
         /\ UNCHANGED <<m_sequence, m_pat, m_pmt, m_media_pids, content>>
         /\ \E noted \in 0 .. PcrMod - 1, result \in 0 .. PcrMod : Returns(noted, result)
<1>1. /\ TablesKnown /\ Arrives(kind, time) /\ NotePcr(kind, time)
      /\ Masked(pcr' - m_pcr_segstart) >= m_pcr_length
      /\ kind.kind = "video" /\ kind.sps /\ m_pkt' = Packet(kind, time)
      /\ m_pcr_segstart' = m_pcr_segstart + m_pcr_length
      /\ pc' = "close" /\ inside' = FALSE /\ due' = due \cup {read'}
      /\ UNCHANGED <<m_sequence, m_pat, m_pmt, m_media_pids, content>>
      /\ duration' = TimeNoted \div TS_PCR_FREQ
      /\ cuts' = IF TimeNoted \div TS_PCR_FREQ > 0 THEN cuts + 1 ELSE cuts
      /\ reported' = reported + TimeNoted \div TS_PCR_FREQ
  BY DEF CutBefore, Cut, StartsNext, Return, CopySegment, Passed, TimeNoted, indexVars
<1>2. TimeNoted \in 0 .. PcrMod - 1 /\ PcrMod \in Nat
  <2>1. pcr' \in Int /\ pcr_segstart_actual' \in Int
    BY <1>1, NotedPcr
  <2>2. PICK x \in Int, y \in Int : x = pcr' /\ y = pcr_segstart_actual'
    BY <2>1
  <2>3. Masked(x - y) \in 0 .. PcrMod - 1
    BY MaskFacts
  <2> QED  BY <2>2, <2>3, MpegtsAssumption DEF TimeNoted
<1>3. PICK noted \in 0 .. PcrMod - 1 : noted = TimeNoted
  BY <1>2
<1>4. PICK result \in 0 .. PcrMod : result = noted \div TS_PCR_FREQ
  BY <1>2, Quotient
<1>5. Returns(noted, result)
  BY <1>1, <1>3, <1>4 DEF Returns
<1>6. read' = read + 1
  BY <1>1, ArrivesFacts
<1> QED  BY <1>1, <1>5, <1>6

LEMMA StateReadTable ==
  ASSUME StateInv, NEW kind, NEW time \in Nat, ReadTable(kind, time)
  PROVE  StateInv'
<1>1. /\ pc = "copy" /\ inside /\ read' = read + 1 /\ clock' = time /\ origin' = origin
      /\ UNCHANGED <<pc, m_sequence, duration, inside, m_pcr_segstart, pcr,
                     pcr_segstart_actual, cuts, reported>>
  BY ReadTableFacts, ArrivesFacts
<1>2. NumbersInv'
  BY <1>1 DEF StateInv, NumbersInv
<1>3. ContentInv' /\ \A n \in 1..MaxSegments : n # m_sequence => content'[n] = content[n]
  <2>1. Copy(Packet(kind, time)) \/ content' = content
    BY ReadTableFacts
  <2>2. CASE Copy(Packet(kind, time))
    <3>1. Write(<<Packet(kind, time)>>) /\ IsSeq(<<Packet(kind, time)>>)
      BY <2>2, ShortSeqs DEF Copy
    <3> QED  BY <1>1, <3>1, Written
  <2>3. CASE content' = content
    BY <2>3, NothingWritten
  <2> QED  BY <2>1, <2>2, <2>3
<1>4. inside' = TRUE
  BY <1>1
<1> QED  BY <1>1, <1>2, <1>3, <1>4, StateWithin

LEMMA StateReadMedia ==
  ASSUME StateInv, NEW kind, NEW time \in Nat, ReadMedia(kind, time)
  PROVE  StateInv'
<1>1. /\ pc = "copy" /\ inside /\ read' = read + 1 /\ clock' = time /\ origin' = origin
      /\ UNCHANGED <<pc, m_sequence, duration, inside, m_pcr_segstart, cuts, reported>>
      /\ NotePcr(kind, time)
  BY ReadMediaFacts, ArrivesFacts
<1>2. NumbersInv'
  <2>1. pcr' \in Int /\ pcr_segstart_actual' \in Int
    BY <1>1, NotedPcr
  <2> QED  BY <1>1, <2>1 DEF StateInv, NumbersInv
<1>3. ContentInv' /\ \A n \in 1..MaxSegments : n # m_sequence => content'[n] = content[n]
  <2>1. Copy(Packet(kind, time)) \/ content' = content
    BY ReadMediaFacts
  <2>2. CASE Copy(Packet(kind, time))
    <3>1. Write(<<Packet(kind, time)>>) /\ IsSeq(<<Packet(kind, time)>>)
      BY <2>2, ShortSeqs DEF Copy
    <3> QED  BY <1>1, <3>1, Written
  <2>3. CASE content' = content
    BY <2>3, NothingWritten
  <2> QED  BY <2>1, <2>2, <2>3
<1>4. inside' = TRUE
  BY <1>1
<1> QED  BY <1>1, <1>2, <1>3, <1>4, StateWithin

LEMMA StateCut ==
  ASSUME StateInv, NEW kind, NEW time \in Nat, CutBefore(kind, time)
  PROVE  StateInv'
<1>1. /\ Arrives(kind, time) /\ NotePcr(kind, time)
      /\ m_pcr_segstart' = m_pcr_segstart + m_pcr_length
      /\ pc' = "close" /\ inside' = FALSE /\ UNCHANGED <<m_sequence, content>>
  BY CutFacts
<1>2. /\ pc = "copy" /\ inside /\ read' = read + 1 /\ clock' = time /\ origin' = origin
  BY <1>1, ArrivesFacts
<1>3. m_sequence = cuts + 1 /\ m_sequence \in 1..MaxSegments
  BY <1>2, CopyFacts
<1>4. PICK noted \in 0 .. PcrMod - 1, d \in 0 .. PcrMod : Returns(noted, d)
  BY CutFacts
<1>r. /\ d \in Nat /\ duration' = d /\ reported' = reported + d
      /\ cuts' = IF d > 0 THEN cuts + 1 ELSE cuts
  BY <1>4, MpegtsAssumption DEF Returns
<1>5. NumbersInv'
  <2>1. pcr' \in Int /\ pcr_segstart_actual' \in Int
    BY <1>1, NotedPcr
  <2>2. m_pcr_length \in Int
    BY MpegtsAssumption DEF m_pcr_length
  <2>3. NumbersInv
    BY DEF StateInv
  <2> QED  BY <1>1, <1>2, <1>r, <2>1, <2>2, <2>3 DEF NumbersInv
<1>6. ContentInv'
  BY <1>1 DEF StateInv, ContentInv
<1>7. ControlInv'
  BY <1>1, <1>3, <1>r DEF ControlInv, Going
<1>8. FreshInv'
  <2>1. Going' => Started' = Started
    BY <1>1, <1>2, <1>r DEF Going, Started
  <2>2. Going
    BY <1>2 DEF Going
  <2> QED  BY <1>1, <2>1, <2>2 DEF StateInv, FreshInv
<1> QED  BY <1>5, <1>6, <1>7, <1>8 DEF StateInv

(***************************************************************************)
(* The steps of the program, and what they do to the state.                *)
(***************************************************************************)
Later(kind, time) ==
  /\ clock <= time
  /\ IF kind.timed THEN \E a \in Advances : time = clock + a ELSE time = clock

Takes(kind, time) ==
  ReadTable(kind, time) \/ ReadMedia(kind, time) \/ CutBefore(kind, time)

LEMMA Steps ==
  ASSUME StateInv, [MpegtsNext]_MpegtsVars
  PROVE  \/ MainStep \/ UNCHANGED MpegtsVars
         \/ StartCall
         \/ CopyRetained
         \/ EndOfInput \/ LostSync
         \/ \E kind \in Kinds, time \in Nat : Later(kind, time) /\ Takes(kind, time)
<1>1. ASSUME NEW kind \in Kinds,
             NEW time \in IF kind.timed THEN {clock + a : a \in Advances} ELSE {clock},
             ReadTable(kind, time) \/ ReadMedia(kind, time) \/ CutBefore(kind, time)
      PROVE  time \in Nat /\ Later(kind, time) /\ Takes(kind, time)
  <2>1. clock \in Nat
    BY DEF StateInv, NumbersInv
  <2>2. CASE kind.timed
    BY <1>1, <2>1, <2>2, MpegtsAssumption DEF Later, Takes
  <2>3. CASE ~kind.timed
    BY <1>1, <2>1, <2>3 DEF Later, Takes
  <2> QED  BY <2>2, <2>3
<1> QED  BY <1>1 DEF MpegtsNext, CopyStep

LEMMA StateStep ==
  ASSUME StateInv, [MpegtsNext]_MpegtsVars
  PROVE  StateInv'
<1>1. CASE MainStep \/ UNCHANGED MpegtsVars
  BY <1>1, StateMain
<1>2. CASE StartCall
  BY <1>2, StateStartCall
<1>3. CASE CopyRetained
  BY <1>3, StateCopyRetained
<1>4. CASE EndOfInput \/ LostSync
  BY <1>4, StateStop
<1>5. CASE \E kind \in Kinds, time \in Nat : Later(kind, time) /\ Takes(kind, time)
  BY <1>5, StateReadTable, StateReadMedia, StateCut DEF Takes
<1> QED  BY <1>1, <1>2, <1>3, <1>4, <1>5, Steps

LEMMA MainFacts ==
  ASSUME StateInv, MainStep \/ UNCHANGED MpegtsVars
  PROVE  /\ Moves /\ duration' = duration /\ (Going' => Going)
         /\ UNCHANGED <<inside, m_pat, m_pmt, m_media_pids, m_pkt, m_pcr_segstart, pcr,
                        pcr_segstart_actual, read, clock, origin, begun, content, due, cuts, reported>>
<1>1. Moves /\ duration' = duration /\ UNCHANGED tsVars
  BY MainMoves
<1> QED  BY <1>1 DEF tsVars, Moves, Going

LEMMA StartCallFacts ==
  ASSUME StartCall
  PROVE  /\ pc = "copy" /\ ~inside /\ inside' = TRUE
         /\ Write(IF TablesKnown THEN Tables ELSE <<>>)
         /\ pcr' = NoPcr /\ pcr_segstart_actual' = NoPcr /\ begun' = clock
         /\ UNCHANGED <<pc, m_sequence, duration, m_pat, m_pmt, m_media_pids, m_pkt,
                        m_pcr_segstart, read, clock, origin, due, cuts, reported>>
BY DEF StartCall, vars, indexVars, timeVars

LEMMA CopyRetainedFacts ==
  ASSUME CopyRetained
  PROVE  /\ pc = "copy" /\ inside /\ inside' = TRUE /\ m_pkt # NoPacket
         /\ Write(<<m_pkt>>) /\ m_pkt' = NoPacket
         /\ UNCHANGED <<pc, m_sequence, duration, m_pat, m_pmt, m_media_pids, m_pcr_segstart,
                        pcr, pcr_segstart_actual, read, clock, origin, begun, due, cuts, reported>>
<1>1. inside /\ inside' = inside
  BY DEF CopyRetained
<1>2. inside' = TRUE
  BY <1>1
<1> QED  BY <1>1, <1>2 DEF CopyRetained, vars, indexVars, timeVars

LEMMA TablesStep ==
  ASSUME StateInv, TablesInv, [MpegtsNext]_MpegtsVars
  PROVE  TablesInv'
<1> DEFINE Same == UNCHANGED <<m_pat, m_pmt, m_media_pids, cuts>>
<1>0. CASE Same
  BY <1>0 DEF TablesInv, TablesKnown
<1>1. CASE MainStep \/ UNCHANGED MpegtsVars
  BY <1>0, <1>1, MainFacts
<1>2. CASE StartCall
  BY <1>0, <1>2, StartCallFacts
<1>3. CASE CopyRetained
  BY <1>0, <1>3, CopyRetainedFacts
<1>4. CASE EndOfInput \/ LostSync
  BY <1>0, <1>4, StopFacts
<1>5. ASSUME NEW kind \in Kinds, NEW time \in Nat, Takes(kind, time)
      PROVE  TablesInv'
  <2>1. CASE ReadTable(kind, time)
    <3>1. /\ ~TablesKnown /\ cuts' = cuts
          /\ \/ /\ kind.start /\ kind.kind = (IF m_pat THEN "PMT" ELSE "PAT")
                /\ m_pat' = TRUE /\ m_pmt' = kind.names
                /\ m_media_pids' = m_media_pids \cup kind.names
             \/ UNCHANGED <<m_pat, m_pmt, m_media_pids>>
      BY <2>1, ReadTableFacts
    <3>2. CASE UNCHANGED <<m_pat, m_pmt, m_media_pids>>
      BY <1>0, <3>1, <3>2
    <3>3. CASE /\ kind.start /\ kind.kind = (IF m_pat THEN "PMT" ELSE "PAT")
               /\ m_pat' = TRUE /\ m_pmt' = kind.names
               /\ m_media_pids' = m_media_pids \cup kind.names
      <4>1. m_media_pids = {} /\ m_pmt = {}
        BY <3>1 DEF TablesInv, TablesKnown, NoTable
      <4>2. m_media_pids' = kind.names
        BY <3>3, <4>1
      <4>3. kind.names # NoTable => "video" \in kind.names
        BY KindsAssumption
      <4>4. ~(cuts > 0)
        BY <3>1 DEF TablesInv
      <4> QED  BY <3>1, <3>3, <4>2, <4>3, <4>4 DEF TablesInv
    <3> QED  BY <3>1, <3>2, <3>3
  <2>2. CASE ReadMedia(kind, time)
    BY <1>0, <2>2, ReadMediaFacts
  <2>3. CASE CutBefore(kind, time)
    <3>1. TablesKnown /\ UNCHANGED <<m_pat, m_pmt, m_media_pids>>
      BY <2>3, CutFacts
    <3> QED  BY <3>1 DEF TablesInv, TablesKnown
  <2> QED  BY <1>5, <2>1, <2>2, <2>3 DEF Takes
<1> QED  BY <1>1, <1>2, <1>3, <1>4, <1>5, Steps

(***************************************************************************)
(* How the segments begin.                                                 *)
(***************************************************************************)
LEMMA NoPacketIsNotIdr == ~IsIdr(NoPacket)
BY DEF IsIdr, NoPacket

LEMMA SegmentInit == MpegtsInit => SegmentInv
<1> SUFFICES ASSUME MpegtsInit PROVE SegmentInv
  OBVIOUS
<1>1. RetainedInv
  BY StateInit
<1>2. pc = "begin" /\ content = [n \in 1..MaxSegments |-> <<>>]
  BY DEF MpegtsInit, Init, ProgramInit
<1>3. OpenedInv
  BY <1>2 DEF OpenedInv
<1>4. \A n \in 2..MaxSegments : Begins(n, content[n])
  <2>1. \A n \in 2..MaxSegments : content[n] = <<>>
    BY <1>2, Assumptions DEF SegmenterAssumption
  <2> QED  BY <2>1 DEF Begins
<1> QED  BY <1>1, <1>3, <1>4 DEF SegmentInv

LEMMA SegmentMain ==
  ASSUME StateInv, SegmentInv, MainStep \/ UNCHANGED MpegtsVars
  PROVE  SegmentInv'
<1>1. /\ Moves /\ (Going' => Going)
      /\ UNCHANGED <<inside, m_pat, m_pmt, m_pkt, content, cuts>>
  BY MainFacts
<1>2. RetainedInv'
  BY <1>1 DEF SegmentInv, RetainedInv, IsIdr
<1>3. pc \in {"copy", "dead"} => pc' \in {"copy", "dead"} /\ m_sequence' = m_sequence
  BY <1>1 DEF Moves
<1>4. OpenedInv'
  <2>1. inside => pc \in {"copy", "dead"}
    BY DEF StateInv, ControlInv
  <2>2. pc' = "copy" /\ inside' => pc = "copy" /\ inside
    BY <1>1, <2>1 DEF Moves
  <2> QED  BY <1>1, <1>3, <2>2 DEF SegmentInv, OpenedInv
<1>5. ASSUME NEW n \in 2..MaxSegments
      PROVE  Begins(n, content[n])'
  <2>1. Begins(n, content[n])
    BY DEF SegmentInv
  <2>2. Len(content[n]) = 2 /\ content[n] # <<>> => pc \in {"copy", "dead"}
    BY <2>1 DEF Begins
  <2> QED  BY <1>1, <1>3, <2>1, <2>2 DEF Begins, TablesKnown, IsIdr
<1> QED  BY <1>2, <1>4, <1>5 DEF SegmentInv

LEMMA SegmentStartCall ==
  ASSUME StateInv, TablesInv, SegmentInv, StartCall
  PROVE  SegmentInv'
<1>1. /\ pc = "copy" /\ ~inside /\ inside' = TRUE
      /\ Write(IF TablesKnown THEN Tables ELSE <<>>)
      /\ UNCHANGED <<pc, m_sequence, m_pat, m_pmt, m_pkt, cuts>>
  BY StartCallFacts
<1>2. m_sequence = cuts + 1 /\ m_sequence \in 1..MaxSegments /\ cuts \in Nat
  BY <1>1, CopyFacts DEF StateInv, NumbersInv
<1>3. IsSeq(IF TablesKnown THEN Tables ELSE <<>>)
  BY ShortSeqs DEF Tables
<1>4. /\ \A n \in 1..MaxSegments : n # m_sequence => content'[n] = content[n]
      /\ content'[m_sequence]
           = content[m_sequence] \o (IF TablesKnown THEN Tables ELSE <<>>)
  BY <1>1, <1>3, Written
<1>5. ASSUME m_sequence >= 2
      PROVE  /\ TablesKnown /\ IsIdr(m_pkt) /\ Len(content'[m_sequence]) = 2
             /\ content'[m_sequence] # <<>>
             /\ content'[m_sequence][1].kind = "PAT" /\ content'[m_sequence][2].kind = "PMT"
             /\ content'[m_sequence][2].names = m_pmt
  <2>1. Going /\ cuts > 0
    BY <1>1, <1>2, <1>5 DEF Going
  <2>2. TablesKnown /\ IsIdr(m_pkt)
    BY <1>1, <2>1 DEF TablesInv, SegmentInv, RetainedInv
  <2>3. content[m_sequence] = <<>>
    <3>1. m_sequence > Started
      BY <1>1, <1>2 DEF Started
    <3> QED  BY <1>2, <2>1, <3>1 DEF StateInv, FreshInv
  <2>4. content'[m_sequence] = <<>> \o Tables
    BY <1>4, <2>2, <2>3
  <2>5. IsSeq(Tables) /\ Len(Tables) = 2 /\ Tables[1].kind = "PAT" /\ Tables[2].kind = "PMT"
        /\ Tables[2].names = m_pmt
    BY ShortSeqs DEF Tables
  <2>6. <<>> \o Tables = Tables
    <3>1. PICK S : Tables \in Seq(S)
      BY <2>5 DEF IsSeq
    <3> QED  BY <3>1
  <2>7. Tables # <<>>
    BY <2>5, ShortSeqs
  <2> QED  BY <2>2, <2>4, <2>5, <2>6, <2>7
<1>6. RetainedInv'
  BY <1>1 DEF RetainedInv
<1>7. OpenedInv'
  <2>1. ASSUME m_sequence >= 2
        PROVE  content'[m_sequence] # <<>> /\ ~(Len(content'[m_sequence]) > 2)
    <3>1. content'[m_sequence] # <<>> /\ Len(content'[m_sequence]) = 2
      BY <1>5, <2>1
    <3> QED  BY <3>1
  <2>2. m_sequence' = m_sequence
    BY <1>1
  <2> QED  BY <2>1, <2>2 DEF OpenedInv
<1>8. ASSUME NEW n \in 2..MaxSegments
      PROVE  Begins(n, content[n])'
  <2>1. CASE n = m_sequence
    <3>1. m_sequence >= 2
      BY <2>1, Assumptions DEF SegmenterAssumption
    <3> QED  BY <1>1, <1>5, <2>1, <3>1 DEF Begins, TablesKnown, IsIdr
  <2>2. CASE n # m_sequence
    <3>1. n \in 1..MaxSegments
      BY Assumptions DEF SegmenterAssumption
    <3>2. content'[n] = content[n] /\ Begins(n, content[n])
      BY <1>4, <2>2, <3>1 DEF SegmentInv
    <3> QED  BY <1>1, <3>2 DEF Begins, TablesKnown, IsIdr
  <2> QED  BY <2>1, <2>2
<1> QED  BY <1>6, <1>7, <1>8 DEF SegmentInv

(* One more packet at the end of the segment.                              *)
LEMMA OneMore ==
  ASSUME StateInv, pc = "copy", NEW p, Write(<<p>>)
  PROVE  /\ \A n \in 1..MaxSegments : n # m_sequence => content'[n] = content[n]
         /\ Len(content[m_sequence]) \in Nat
         /\ Len(content'[m_sequence]) = Len(content[m_sequence]) + 1
         /\ \A k \in 1 .. Len(content[m_sequence]) :
              content'[m_sequence][k] = content[m_sequence][k]
         /\ content'[m_sequence][Len(content[m_sequence]) + 1] = p
         /\ content'[m_sequence] # <<>>
<1>1. IsSeq(<<p>>) /\ Len(<<p>>) = 1 /\ <<p>>[1] = p
  BY ShortSeqs
<1>2. /\ \A n \in 1..MaxSegments : n # m_sequence => content'[n] = content[n]
      /\ content'[m_sequence] = content[m_sequence] \o <<p>>
  BY <1>1, Written
<1>3. IsSeq(content[m_sequence])
  BY CopyFacts DEF StateInv, ContentInv
<1>4. /\ IsSeq(content[m_sequence] \o <<p>>)
      /\ Len(content[m_sequence] \o <<p>>) = Len(content[m_sequence]) + 1
      /\ \A k \in 1 .. Len(content[m_sequence]) :
           (content[m_sequence] \o <<p>>)[k] = content[m_sequence][k]
      /\ (content[m_sequence] \o <<p>>)[Len(content[m_sequence]) + 1] = p
  BY <1>1, <1>3, ConcatFacts
<1>5. Len(content[m_sequence]) \in Nat
  BY <1>3, SeqFacts
<1>6. content[m_sequence] \o <<p>> # <<>>
  BY <1>4, <1>5, ShortSeqs
<1> QED  BY <1>2, <1>4, <1>5, <1>6

LEMMA SegmentCopyRetained ==
  ASSUME StateInv, TablesInv, SegmentInv, CopyRetained
  PROVE  SegmentInv'
<1>1. /\ pc = "copy" /\ inside /\ inside' = TRUE /\ m_pkt # NoPacket
      /\ Write(<<m_pkt>>) /\ m_pkt' = NoPacket
      /\ UNCHANGED <<pc, m_sequence, m_pat, m_pmt>>
  BY CopyRetainedFacts
<1>2. /\ \A n \in 1..MaxSegments : n # m_sequence => content'[n] = content[n]
      /\ Len(content[m_sequence]) \in Nat
      /\ Len(content'[m_sequence]) = Len(content[m_sequence]) + 1
      /\ \A k \in 1 .. Len(content[m_sequence]) :
           content'[m_sequence][k] = content[m_sequence][k]
      /\ content'[m_sequence][Len(content[m_sequence]) + 1] = m_pkt
      /\ content'[m_sequence] # <<>>
  BY <1>1, OneMore
<1>3. RetainedInv'
  BY <1>1 DEF RetainedInv
<1>4. OpenedInv'
  <2>1. m_sequence' = m_sequence
    BY <1>1
  <2> QED  BY <1>1, <1>2, <2>1 DEF OpenedInv
<1>5. ASSUME NEW n \in 2..MaxSegments
      PROVE  Begins(n, content[n])'
  <2>0. n \in 1..MaxSegments /\ n >= 2 /\ Begins(n, content[n])
    BY Assumptions DEF SegmenterAssumption, SegmentInv
  <2>1. CASE n = m_sequence
    <3>1. content[n] # <<>> /\ (Len(content[n]) > 2 => m_pkt = NoPacket)
      BY <1>1, <2>0, <2>1 DEF SegmentInv, OpenedInv
    <3>l. Len(content[n]) = 2
      <4>1. PICK l \in Nat : l = Len(content[n])
        BY <1>2, <2>1
      <4>2. l >= 2 /\ ~(l > 2)
        BY <1>1, <2>0, <3>1, <4>1 DEF Begins
      <4> QED  BY SMTT(30), <4>1, <4>2
    <3>2. /\ TablesKnown /\ Len(content[n]) = 2 /\ IsIdr(m_pkt)
          /\ content[n][1].kind = "PAT" /\ content[n][2].kind = "PMT"
          /\ content[n][2].names = m_pmt
      BY <2>0, <3>1, <3>l DEF Begins
    <3>3. /\ Len(content'[n]) = 3 /\ content'[n][1] = content[n][1]
          /\ content'[n][2] = content[n][2] /\ content'[n][3] = m_pkt
      BY <1>2, <2>1, <3>2
    <3>4. m_pkt.kind \in m_pmt
      BY <3>2 DEF TablesInv, TablesKnown, IsIdr
    <3>5. \A k \in 3 .. Len(content'[n]) : content'[n][k].kind \in {"PAT", "PMT"} \cup m_pmt
      <4>1. \A k \in 3 .. Len(content'[n]) : k = 3
        BY <3>3
      <4> QED  BY <3>3, <3>4, <4>1
    <3>6. m_pmt' = m_pmt /\ TablesKnown'
      BY <1>1, <3>2 DEF TablesKnown
    <3>7. /\ content'[n][1].kind = "PAT" /\ content'[n][2].kind = "PMT"
          /\ content'[n][2].names = m_pmt' /\ IsIdr(content'[n][3])
      BY <3>2, <3>3, <3>6
    <3> QED  BY <3>3, <3>5, <3>6, <3>7 DEF Begins, IsIdr
  <2>2. CASE n # m_sequence
    <3>1. content'[n] = content[n]
      BY <1>2, <2>0, <2>2
    <3> QED  BY <1>1, <2>0, <2>2, <3>1 DEF Begins, TablesKnown, IsIdr
  <2> QED  BY <2>1, <2>2
<1> QED  BY <1>3, <1>4, <1>5 DEF SegmentInv

(* When nothing is retained every segment has its first packets.           *)
LEMMA AllBegun ==
  ASSUME SegmentInv, m_pkt = NoPacket, NEW n \in 2..MaxSegments
  PROVE  content[n] # <<>> =>
           /\ TablesKnown
           /\ Len(content[n]) >= 2 /\ Len(content[n]) # 2
           /\ content[n][1].kind = "PAT" /\ content[n][2].kind = "PMT"
           /\ content[n][2].names = m_pmt /\ IsIdr(content[n][3])
           /\ \A k \in 3 .. Len(content[n]) :
                content[n][k].kind \in {"PAT", "PMT"} \cup m_pmt
BY NoPacketIsNotIdr DEF SegmentInv, Begins

(* The call returns.                                                       *)
LEMMA SegmentReturn ==
  ASSUME SegmentInv, m_pkt = NoPacket, UNCHANGED <<content, m_pat, m_pmt>>, pc' = "close",
         RetainedInv'
  PROVE  SegmentInv'
<1>1. OpenedInv'
  BY DEF OpenedInv
<1>2. ASSUME NEW n \in 2..MaxSegments
      PROVE  Begins(n, content[n])'
  BY AllBegun DEF Begins, TablesKnown, IsIdr
<1> QED  BY <1>1, <1>2 DEF SegmentInv

LEMMA SegmentReadTable ==
  ASSUME StateInv, TablesInv, SegmentInv, NEW kind, NEW time, ReadTable(kind, time)
  PROVE  SegmentInv'
<1>1. /\ ~TablesKnown /\ pc = "copy" /\ inside /\ m_pkt = NoPacket
      /\ UNCHANGED <<pc, m_sequence, inside, m_pkt, cuts>>
  BY ReadTableFacts, ArrivesFacts
<1>2. m_sequence = 1
  <2>1. m_sequence = cuts + 1 /\ cuts \in Nat
    BY <1>1, CopyFacts DEF StateInv, NumbersInv
  <2>2. ~(cuts > 0)
    BY <1>1 DEF TablesInv
  <2> QED  BY <2>1, <2>2
<1>3. ASSUME NEW n \in 2..MaxSegments
      PROVE  content'[n] = <<>>
  <2>1. content[n] = <<>>
    BY <1>1, AllBegun
  <2>2. n \in 1..MaxSegments /\ n # m_sequence
    BY <1>2, Assumptions DEF SegmenterAssumption
  <2>3. Copy(Packet(kind, time)) \/ content' = content
    BY ReadTableFacts
  <2>4. Write(<<Packet(kind, time)>>) => content'[n] = content[n]
    BY <1>1, <2>2, OneMore
  <2> QED  BY <2>1, <2>3, <2>4 DEF Copy
<1>4. RetainedInv' /\ OpenedInv'
  BY <1>1, <1>2 DEF RetainedInv, OpenedInv
<1> QED  BY <1>3, <1>4 DEF SegmentInv, Begins

LEMMA SegmentReadMedia ==
  ASSUME StateInv, TablesInv, SegmentInv, NEW kind, NEW time, ReadMedia(kind, time)
  PROVE  SegmentInv'
<1>1. /\ TablesKnown /\ pc = "copy" /\ inside /\ m_pkt = NoPacket
      /\ UNCHANGED <<pc, m_sequence, inside, m_pkt, m_pat, m_pmt, cuts>>
      /\ \/ IsCopied(kind) /\ Copy(Packet(kind, time))
         \/ content' = content
  BY ReadMediaFacts, ArrivesFacts
<1>2. RetainedInv'
  BY <1>1 DEF RetainedInv
<1>3. TablesKnown' /\ m_pmt' = m_pmt
  BY <1>1 DEF TablesKnown
<1>4. CASE content' = content
  <2>1. OpenedInv'
    BY <1>1, <1>4 DEF SegmentInv, OpenedInv
  <2>2. ASSUME NEW n \in 2..MaxSegments
        PROVE  Begins(n, content[n])'
    BY <1>1, <1>3, <1>4, AllBegun DEF Begins, IsIdr
  <2> QED  BY <1>2, <2>1, <2>2 DEF SegmentInv
<1>5. CASE IsCopied(kind) /\ Copy(Packet(kind, time))
  <2> DEFINE p == Packet(kind, time)
  <2>1. p.kind \in {"PAT", "PMT"} \cup m_pmt
    BY <1>5 DEF Packet, IsCopied, TablesInv
  <2>2. Write(<<p>>)
    BY <1>5 DEF Copy
  <2> HIDE DEF p
  <2>3. /\ \A n \in 1..MaxSegments : n # m_sequence => content'[n] = content[n]
        /\ Len(content[m_sequence]) \in Nat
        /\ Len(content'[m_sequence]) = Len(content[m_sequence]) + 1
        /\ \A k \in 1 .. Len(content[m_sequence]) :
             content'[m_sequence][k] = content[m_sequence][k]
        /\ content'[m_sequence][Len(content[m_sequence]) + 1] = p
        /\ content'[m_sequence] # <<>>
    BY <1>1, <2>2, OneMore
  <2>4. OpenedInv'
    BY <1>1, <2>3 DEF OpenedInv
  <2>5. ASSUME NEW n \in 2..MaxSegments
        PROVE  Begins(n, content[n])'
    <3>0. n \in 1..MaxSegments /\ n >= 2
      BY Assumptions DEF SegmenterAssumption
    <3>1. CASE n = m_sequence
      <4>1. content[n] # <<>>
        BY <1>1, <3>0, <3>1 DEF SegmentInv, OpenedInv
      <4>2. /\ Len(content[n]) >= 2 /\ Len(content[n]) # 2
            /\ content[n][1].kind = "PAT" /\ content[n][2].kind = "PMT"
            /\ content[n][2].names = m_pmt /\ IsIdr(content[n][3])
            /\ \A k \in 3 .. Len(content[n]) :
                 content[n][k].kind \in {"PAT", "PMT"} \cup m_pmt
        BY <1>1, <4>1, AllBegun
      <4>3. /\ Len(content'[n]) >= 2 /\ Len(content'[n]) # 2
            /\ content'[n][1] = content[n][1] /\ content'[n][2] = content[n][2]
            /\ content'[n][3] = content[n][3]
        <5>1. /\ Len(content[n]) \in Nat /\ Len(content'[n]) = Len(content[n]) + 1
              /\ \A k \in 1 .. Len(content[n]) : content'[n][k] = content[n][k]
          BY <2>3, <3>1
        <5>2. PICK l \in Nat : l = Len(content[n])
          BY <5>1
        <5>3. l > 2
          <6>1. l >= 2 /\ l # 2
            BY <4>2, <5>2
          <6> QED  BY <6>1
        <5>4. 1 \in 1 .. Len(content[n]) /\ 2 \in 1 .. Len(content[n]) /\ 3 \in 1 .. Len(content[n])
          BY <5>2, <5>3
        <5>5. Len(content'[n]) = l + 1 /\ l + 1 >= 2 /\ l + 1 # 2
          BY <5>1, <5>2, <5>3
        <5> QED  BY <5>1, <5>4, <5>5
      <4>4. \A k \in 3 .. Len(content'[n]) :
              content'[n][k].kind \in {"PAT", "PMT"} \cup m_pmt
        <5> SUFFICES ASSUME NEW k \in 3 .. Len(content'[n])
                     PROVE  content'[n][k].kind \in {"PAT", "PMT"} \cup m_pmt
          OBVIOUS
        <5>1. CASE k <= Len(content[n])
          <6>1. k \in 3 .. Len(content[n]) /\ k \in 1 .. Len(content[n])
            BY <2>3, <3>1, <5>1
          <6> QED  BY <2>3, <3>1, <4>2, <6>1
        <5>2. CASE ~(k <= Len(content[n]))
          <6>1. k = Len(content[n]) + 1
            BY <2>3, <3>1, <5>2
          <6> QED  BY <2>1, <2>3, <3>1, <6>1
        <5> QED  BY <5>1, <5>2
      <4> QED  BY <1>3, <4>2, <4>3, <4>4 DEF Begins, IsIdr
    <3>2. CASE n # m_sequence
      <4>1. content'[n] = content[n]
        BY <2>3, <3>0, <3>2
      <4> QED  BY <1>1, <1>3, <4>1, AllBegun DEF Begins, IsIdr
    <3> QED  BY <3>1, <3>2
  <2> QED  BY <1>2, <2>4, <2>5 DEF SegmentInv
<1> QED  BY <1>1, <1>4, <1>5

LEMMA SegmentStep ==
  ASSUME StateInv, TablesInv, SegmentInv, [MpegtsNext]_MpegtsVars
  PROVE  SegmentInv'
<1>1. CASE MainStep \/ UNCHANGED MpegtsVars
  BY <1>1, SegmentMain
<1>2. CASE StartCall
  BY <1>2, SegmentStartCall
<1>3. CASE CopyRetained
  BY <1>3, SegmentCopyRetained
<1>4. ASSUME EndOfInput \/ LostSync
      PROVE  SegmentInv'
  <2>1. m_pkt = NoPacket /\ pc' = "close" /\ UNCHANGED <<content, m_pat, m_pmt>>
    BY <1>4, StopFacts
  <2>2. RetainedInv'
    <3>1. ~Going'
      BY <1>4, StateStop
    <3> QED  BY <3>1 DEF RetainedInv
  <2> QED  BY <2>1, <2>2, SegmentReturn
<1>5. ASSUME NEW kind \in Kinds, NEW time \in Nat, Takes(kind, time)
      PROVE  SegmentInv'
  <2>1. CASE ReadTable(kind, time)
    BY <2>1, SegmentReadTable
  <2>2. CASE ReadMedia(kind, time)
    BY <2>2, SegmentReadMedia
  <2>3. CASE CutBefore(kind, time)
    <3>1. /\ Arrives(kind, time) /\ kind.kind = "video" /\ kind.sps
          /\ m_pkt' = Packet(kind, time)
          /\ pc' = "close" /\ UNCHANGED <<content, m_pat, m_pmt>>
      BY <2>3, CutFacts
    <3>2. m_pkt = NoPacket
      BY <3>1, ArrivesFacts
    <3>3. RetainedInv'
      BY <3>1 DEF RetainedInv, IsIdr, Packet
    <3> QED  BY <3>1, <3>2, <3>3, SegmentReturn
  <2> QED  BY <1>5, <2>1, <2>2, <2>3 DEF Takes
<1> QED  BY <1>1, <1>2, <1>3, <1>4, <1>5, Steps

MpegtsInv == StateInv /\ TablesInv /\ SegmentInv

LEMMA MpegtsStart == MpegtsInit => MpegtsInv
BY StateInit, SegmentInit DEF MpegtsInv

LEMMA MpegtsStep == MpegtsInv /\ [MpegtsNext]_MpegtsVars => MpegtsInv'
BY StateStep, TablesStep, SegmentStep DEF MpegtsInv

(* MpegtsH264.cpp:58-67 and 163-178: whatever the input and wherever a     *)
(* call returns, a segment after the first begins with the two tables and  *)
(* the packet of an IDR frame that the call before it retained.            *)
THEOREM SegmentsStandAlone == MpegtsSpec => []SegmentsSelfContained
<1>1. MpegtsInv => SegmentsSelfContained
  <2> SUFFICES ASSUME MpegtsInv, NEW n \in 2..MaxSegments, Len(content[n]) >= 3
               PROVE  /\ content[n][1].kind = "PAT" /\ content[n][2].kind = "PMT"
                      /\ content[n][3].kind = "video" /\ content[n][3].sps
    BY DEF SegmentsSelfContained
  <2>1. Begins(n, content[n])
    BY DEF MpegtsInv, SegmentInv
  <2>2. content[n] # <<>> /\ Len(content[n]) # 2
    <3>1. n \in 1..MaxSegments
      BY Assumptions DEF SegmenterAssumption
    <3>2. PICK l \in Nat : l = Len(content[n])
      BY <3>1, SeqFacts DEF MpegtsInv, StateInv, ContentInv
    <3>3. l >= 3
      BY <3>2, Zenon
    <3>4. l # 0 /\ l # 2
      BY <3>3
    <3> QED  BY <3>2, <3>4, ShortSeqs
  <2> QED  BY <2>1, <2>2 DEF Begins, IsIdr
<1> QED  BY <1>1, MpegtsStart, MpegtsStep, PTL DEF MpegtsSpec

(* MpegtsH264.cpp:105-152 and 180-185: the table at the start of a segment *)
(* names all streams in it, as long as the input brings no other table.    *)
THEOREM TablesNameContent == MpegtsSpec => []TablesDescribeContent
<1>1. MpegtsInv => TablesDescribeContent
  <2> SUFFICES ASSUME MpegtsInv, NEW n \in 2..MaxSegments, NEW k \in 3 .. Len(content[n]),
                      \A j \in 3 .. k : content[n][j].kind # "PMT"
               PROVE  content[n][k].kind \in {"PAT"} \cup content[n][2].names
    BY DEF TablesDescribeContent
  <2>1. Begins(n, content[n]) /\ IsSeq(content[n])
    <3>1. n \in 1..MaxSegments
      BY Assumptions DEF SegmenterAssumption
    <3> QED  BY <3>1 DEF MpegtsInv, SegmentInv, StateInv, ContentInv
  <2>2. content[n] # <<>> /\ k \in 3 .. k
    BY <2>1, SeqFacts, ShortSeqs
  <2> QED  BY <2>1, <2>2 DEF Begins
<1> QED  BY <1>1, MpegtsStart, MpegtsStep, PTL DEF MpegtsSpec

(***************************************************************************)
(* The time reported, and the time of the input.                           *)
(***************************************************************************)
LEMMA ClockInit == MpegtsInit => ClockInv
<1> SUFFICES ASSUME MpegtsInit PROVE ClockInv
  OBVIOUS
<1>1. /\ pc = "begin" /\ reported = 0 /\ origin = clock /\ clock \in Nat
      /\ TS_PCR_FREQ \in Nat
  BY MpegtsAssumption DEF MpegtsInit, Init, ProgramInit
<1> QED  BY <1>1 DEF ClockInv, ReportedWithinClock

(* The time between two PCRs is at most what the clock has run.            *)
LEMMA Remainder ==
  ASSUME NEW x \in Nat
  PROVE  \E q \in Nat : x = PcrMod * q + Masked(x)
<1>1. PcrMod \in Nat \ {0}
  BY MpegtsAssumption
<1>2. x \div PcrMod \in Nat /\ x = PcrMod * (x \div PcrMod) + Masked(x)
  BY <1>1 DEF Masked
<1> QED  BY <1>2

LEMMA SmallOrNegative ==
  ASSUME NEW x \in Int
  PROVE  /\ x \in 0 .. PcrMod - 1 => Masked(x) = x
         /\ x \in 1 - PcrMod .. -1 => Masked(x) = x + PcrMod
BY MpegtsAssumption DEF Masked

LEMMA MaskedDifference ==
  ASSUME NEW a \in Nat, NEW c \in Nat, a <= c
  PROVE  /\ Masked(Masked(c) - Masked(a)) <= c - a
         /\ c - a < PcrMod => Masked(Masked(c) - Masked(a)) = c - a
<1>1. PcrMod \in Nat \ {0}
  BY MpegtsAssumption
<1>2. PICK qa \in Nat, qc \in Nat, ra \in 0 .. PcrMod - 1, rc \in 0 .. PcrMod - 1 :
         /\ a = PcrMod * qa + ra /\ ra = Masked(a)
         /\ c = PcrMod * qc + rc /\ rc = Masked(c)
  <2>1. PICK qa \in Nat : a = PcrMod * qa + Masked(a)
    BY Remainder
  <2>2. PICK qc \in Nat : c = PcrMod * qc + Masked(c)
    BY Remainder
  <2>3. Masked(a) \in 0 .. PcrMod - 1 /\ Masked(c) \in 0 .. PcrMod - 1
    BY MaskFacts
  <2> QED  BY <2>1, <2>2, <2>3
<1>3. PICK d \in Int : d = qc - qa
  OBVIOUS
<1>4. PICK m \in Int : m = PcrMod * d
  BY <1>1
<1>5. c - a = m + (rc - ra)
  <2>1. PICK x \in Nat, y \in Nat : x = PcrMod * qa /\ y = PcrMod * qc
    BY <1>1
  <2>2. y - x = m
    BY <1>1, <1>3, <1>4, <2>1
  <2>3. a = x + ra /\ c = y + rc
    BY <1>2, <2>1
  <2> QED  BY <1>1, <2>2, <2>3
<1>6. d < 0 => m <= -PcrMod
  BY <1>1, <1>4
<1>7. d >= 0 => m >= 0
  BY <1>1, <1>4
<1>8. (d > 0 => m >= PcrMod) /\ (d > 1 => m >= 2*PcrMod) /\ (d = 1 => m = PcrMod) /\ (d = 0 => m = 0)
  BY <1>1, <1>4
<1>9. d >= 0
  BY <1>1, <1>2, <1>5, <1>6
<1>10. CASE rc >= ra
  <2>1. Masked(rc - ra) = rc - ra
    BY <1>1, <1>10, SmallOrNegative
  <2>2. c - a < PcrMod => d = 0
    BY <1>1, <1>2, <1>5, <1>8, <1>9, <1>10
  <2>3. Masked(Masked(c) - Masked(a)) = rc - ra
    BY <1>2, <2>1
  <2>4. c - a < PcrMod => c - a = rc - ra
    BY <1>2, <1>5, <1>8, <2>2
  <2>5. rc - ra <= c - a
    BY <1>2, <1>5, <1>7, <1>9
  <2> QED  BY <2>3, <2>4, <2>5
<1>11. CASE rc < ra
  <2>1. Masked(rc - ra) = rc - ra + PcrMod
    BY <1>1, <1>11, SmallOrNegative
  <2>2. d # 0
    BY <1>4, <1>5, <1>11, <1>1
  <2>3. Masked(Masked(c) - Masked(a)) = rc - ra + PcrMod
    BY <1>2, <2>1
  <2>4. c - a < PcrMod => d = 1
    BY <1>1, <1>2, <1>5, <1>8, <1>9, <2>2
  <2>5. c - a < PcrMod => c - a = rc - ra + PcrMod
    BY <1>1, <1>2, <1>5, <1>8, <2>4
  <2>6. rc - ra + PcrMod <= c - a
    BY <1>1, <1>2, <1>5, <1>8, <1>9, <2>2
  <2> QED  BY <2>3, <2>5, <2>6
<1> QED  BY <1>10, <1>11

(* What a call has noted once it has read one more packet.                 *)
LEMMA NotesPcr ==
  ASSUME StateInv, ClockInv, pc = "copy", inside, NEW kind, NEW time \in Nat,
         Later(kind, time), NotePcr(kind, time)
  PROVE  PcrsNoted(pcr_segstart_actual', pcr', time)
<1>1. /\ clock \in Nat /\ origin \in Nat /\ reported \in Nat /\ TS_PCR_FREQ \in Nat
      /\ clock <= time
  BY MpegtsAssumption DEF StateInv, NumbersInv, Later
<1>2. PICK x \in Nat : x = reported * TS_PCR_FREQ
  BY <1>1
<1>3. x <= clock - origin /\ PcrsNoted(pcr_segstart_actual, pcr, clock)
  BY <1>2 DEF ClockInv, ReportedWithinClock
<1>4. CASE ~kind.timed
  <2>1. time = clock /\ pcr' = pcr /\ pcr_segstart_actual' = pcr_segstart_actual
    BY <1>4 DEF Later, NotePcr
  <2> QED  BY <1>3, <2>1
<1>5. CASE kind.timed
  <2>1. pcr' = Masked(time) /\ Masked(time) # NoPcr
    BY <1>5, MaskFacts, MpegtsAssumption DEF NotePcr, NoPcr
  <2>2. CASE pcr_segstart_actual = NoPcr
    <3>1. pcr_segstart_actual' = Masked(time)
      BY <1>5, <2>1, <2>2 DEF NotePcr
    <3>2. time \in origin .. time /\ x <= time - origin
      BY <1>1, <1>3
    <3> QED  BY <1>2, <2>1, <3>1, <3>2 DEF PcrsNoted
  <2>3. CASE pcr_segstart_actual # NoPcr
    <3>1. pcr_segstart_actual' = pcr_segstart_actual
      BY <1>5, <2>3 DEF NotePcr
    <3>2. PICK a \in origin .. clock : pcr_segstart_actual = Masked(a) /\ x <= a - origin
      BY <1>2, <1>3, <2>3 DEF PcrsNoted
    <3>3. a \in origin .. time
      BY <1>1
    <3> QED  BY <1>2, <2>1, <3>1, <3>2, <3>3 DEF PcrsNoted
  <2> QED  BY <2>2, <2>3
<1> QED  BY <1>4, <1>5

(* The whole seconds that a call returns are within the time it noted.     *)
LEMMA NotedIsPast ==
  ASSUME StateInv, NEW time \in Nat, NEW noted \in Nat, NEW result \in Nat,
         PcrsNoted(pcr_segstart_actual', pcr', time),
         noted = TimeNoted, result = noted \div TS_PCR_FREQ,
         ReportedWithinClock, clock <= time
  PROVE  (reported + result) * TS_PCR_FREQ <= time - origin
<1>1. /\ clock \in Nat /\ origin \in Nat /\ reported \in Nat
      /\ TS_PCR_FREQ \in Nat \ {0} /\ PcrMod \in Nat \ {0}
  BY MpegtsAssumption DEF StateInv, NumbersInv
<1>2. PICK x \in Nat, y \in Nat : x = reported * TS_PCR_FREQ /\ y = TS_PCR_FREQ * result
  BY <1>1
<1>3. (reported + result) * TS_PCR_FREQ = x + y
  BY <1>1, <1>2
<1>4. y <= noted
  BY <1>2, Quotient
<1>5. noted = Masked(pcr' - pcr_segstart_actual')
  BY DEF TimeNoted
<1>6. x <= clock - origin
  BY <1>2 DEF ReportedWithinClock
<1>7. CASE pcr' = NoPcr
  <2>1. pcr_segstart_actual' = NoPcr
    BY <1>7 DEF PcrsNoted
  <2>2. noted = 0
    BY <1>1, <1>5, <1>7, <2>1 DEF NoPcr, Masked
  <2> QED  BY <1>1, <1>3, <1>4, <1>6, <2>2
<1>8. CASE pcr' # NoPcr
  <2>1. PICK a \in origin .. time : pcr_segstart_actual' = Masked(a) /\ x <= a - origin
    BY <1>2, <1>8 DEF PcrsNoted
  <2>2. pcr' = Masked(time)
    BY <1>8 DEF PcrsNoted
  <2>3. a \in Nat /\ a <= time
    BY <1>1
  <2>4. Masked(Masked(time) - Masked(a)) <= time - a
    BY <2>3, MaskedDifference
  <2>5. noted <= time - a
    BY <1>5, <2>1, <2>2, <2>4
  <2> QED  BY <1>1, <1>3, <1>4, <2>1, <2>3, <2>5
<1> QED  BY <1>7, <1>8

LEMMA ClockStep ==
  ASSUME StateInv, ClockInv, [MpegtsNext]_MpegtsVars
  PROVE  ClockInv'
<1> DEFINE Same == UNCHANGED <<pcr, pcr_segstart_actual, clock, origin, reported, m_pat, m_pmt>>
<1>0. CASE Same /\ (pc' = "copy" /\ inside' => pc = "copy" /\ inside)
  BY <1>0 DEF ClockInv, PcrsNoted, ReportedWithinClock, TablesKnown
<1>1. CASE MainStep \/ UNCHANGED MpegtsVars
  <2>1. Same /\ Moves /\ inside' = inside
    BY <1>1, MainFacts
  <2>2. inside => pc \in {"copy", "dead"}
    BY DEF StateInv, ControlInv
  <2>3. pc' = "copy" /\ inside' => pc = "copy" /\ inside
    BY <2>1, <2>2 DEF Moves
  <2> QED  BY <1>0, <2>1, <2>3
<1>2. CASE StartCall
  BY <1>2, StartCallFacts DEF ClockInv, PcrsNoted, ReportedWithinClock
<1>3. CASE CopyRetained
  BY <1>0, <1>3, CopyRetainedFacts
<1>4. ASSUME EndOfInput \/ LostSync
      PROVE  ClockInv'
  <2>1. pc = "copy" /\ pc' = "close" /\ UNCHANGED <<clock, origin, pcr, pcr_segstart_actual>>
    BY <1>4, StopFacts
  <2>2. CASE LostSync
    BY <2>1, <2>2, StopFacts DEF ClockInv, ReportedWithinClock
  <2>3. CASE EndOfInput
    <3>1. inside /\ PcrsNoted(pcr_segstart_actual', pcr', clock)
      BY <2>1, <2>3 DEF EndOfInput, Stop, Reading, ClockInv
    <3>2. /\ duration' = -(Masked(pcr - pcr_segstart_actual) \div TS_PCR_FREQ)
          /\ reported' = reported - duration'
      BY <2>3, StopFacts
    <3>3. Masked(pcr - pcr_segstart_actual) \in Nat
      BY MaskFacts DEF StateInv, NumbersInv
    <3>4. PICK noted \in Nat : noted = TimeNoted
      BY <2>1, <3>3 DEF TimeNoted
    <3>5. PICK result \in Nat : result = noted \div TS_PCR_FREQ
      BY Quotient
    <3>6. reported' = reported + result
      <4>1. duration' = -result
        BY <2>1, <3>2, <3>4, <3>5 DEF TimeNoted
      <4> QED  BY <3>2, <4>1 DEF StateInv, NumbersInv
    <3>7. clock \in Nat /\ clock <= clock
      BY DEF StateInv, NumbersInv
    <3>8. (reported + result) * TS_PCR_FREQ <= clock - origin
      BY <3>1, <3>4, <3>5, <3>7, NotedIsPast DEF ClockInv
    <3> QED  BY <2>1, <3>6, <3>8 DEF ClockInv, ReportedWithinClock
  <2> QED  BY <1>4, <2>2, <2>3
<1>5. ASSUME NEW kind \in Kinds, NEW time \in Nat, Later(kind, time), Takes(kind, time)
      PROVE  ClockInv'
  <2>1. Arrives(kind, time)
    BY <1>5, ReadTableFacts, ReadMediaFacts, CutFacts DEF Takes
  <2>2. /\ pc = "copy" /\ inside /\ clock' = time /\ origin' = origin
    BY <2>1, ArrivesFacts
  <2>3. clock <= time /\ clock \in Nat /\ origin \in Nat
    BY <1>5 DEF Later, StateInv, NumbersInv
  <2>4. reported' = reported => ReportedWithinClock'
    <3>1. PICK x \in Int : x = reported * TS_PCR_FREQ
      BY MpegtsAssumption DEF StateInv, NumbersInv
    <3>2. x <= clock - origin
      BY <3>1 DEF ClockInv, ReportedWithinClock
    <3>3. x <= time - origin
      BY <2>3, <3>2
    <3> QED  BY <2>2, <3>1, <3>3 DEF ReportedWithinClock
  <2>5. CASE ReadTable(kind, time)
    <3>1. /\ ~TablesKnown
          /\ UNCHANGED <<pc, inside, pcr, pcr_segstart_actual, reported>>
      BY <2>5, ReadTableFacts
    <3>2. pcr' = NoPcr /\ pcr_segstart_actual' = NoPcr
      BY <2>2, <3>1 DEF ClockInv, PcrsNoted
    <3> QED  BY <2>4, <3>1, <3>2 DEF ClockInv, PcrsNoted
  <2>6. CASE ReadMedia(kind, time)
    <3>1. /\ TablesKnown /\ NotePcr(kind, time)
          /\ UNCHANGED <<m_pat, m_pmt, reported>>
      BY <2>6, ReadMediaFacts
    <3>2. PcrsNoted(pcr_segstart_actual', pcr', time)
      BY <1>5, <2>2, <3>1, NotesPcr
    <3> QED  BY <2>2, <2>4, <3>1, <3>2 DEF ClockInv, PcrsNoted, TablesKnown
  <2>7. CASE CutBefore(kind, time)
    <3>1. NotePcr(kind, time) /\ pc' = "close"
      BY <2>7, CutFacts
    <3>2. PICK noted \in 0 .. PcrMod - 1, result \in 0 .. PcrMod : Returns(noted, result)
      BY <2>7, CutFacts
    <3>3. PcrsNoted(pcr_segstart_actual', pcr', time)
      BY <1>5, <2>2, <3>1, NotesPcr
    <3>4. noted \in Nat /\ result \in Nat
      BY MpegtsAssumption
    <3>5. (reported + result) * TS_PCR_FREQ <= time - origin
      BY <2>3, <3>2, <3>3, <3>4, NotedIsPast DEF ClockInv, Returns
    <3> QED  BY <2>2, <3>1, <3>2, <3>5 DEF ClockInv, ReportedWithinClock, Returns
  <2> QED  BY <1>5, <2>5, <2>6, <2>7 DEF Takes
<1> QED  BY <1>1, <1>2, <1>3, <1>4, <1>5, Steps

(* MpegtsH264.cpp:154-202: what the calls return together, the one at the  *)
(* end of the input too, is never more than the input has lasted, however  *)
(* often the PCR has wrapped.                                              *)
THEOREM ReportedTimeHasPassed == MpegtsSpec => []ReportedWithinClock
<1>1. MpegtsInit => StateInv /\ ClockInv
  BY StateInit, ClockInit
<1>2. (StateInv /\ ClockInv) /\ [MpegtsNext]_MpegtsVars => (StateInv /\ ClockInv)'
  BY StateStep, ClockStep
<1>3. StateInv /\ ClockInv => ReportedWithinClock
  BY DEF ClockInv
<1> QED  BY <1>1, <1>2, <1>3, PTL DEF MpegtsSpec

(***************************************************************************)
(* The time that is copied, and the time that a call returns.              *)
(***************************************************************************)

(* What has been noted in a call that began at b, when the clock is at c.  *)
NotedSince(b, c, first, last) ==
  IF first = NoPcr
    THEN last = NoPcr /\ b = c
    ELSE /\ last = Masked(c)
         /\ \E a \in Advances : b + a <= c /\ first = Masked(b + a)

LEMMA BegunInit == MpegtsInit => BegunInv
BY MpegtsAssumption DEF MpegtsInit, Init, ProgramInit, BegunInv

LEMMA NotesSince ==
  ASSUME StateInv, BegunInv, pc = "copy", inside, NEW kind, NEW time \in Nat,
         Later(kind, time), NotePcr(kind, time)
  PROVE  NotedSince(begun, time, pcr_segstart_actual', pcr')
<1>1. clock \in Nat /\ begun \in Nat /\ clock <= time
  BY DEF StateInv, NumbersInv, BegunInv, Later
<1>2. NotedSince(begun, clock, pcr_segstart_actual, pcr)
  BY DEF BegunInv, NotedSince
<1>3. CASE ~kind.timed
  BY <1>2, <1>3 DEF Later, NotePcr
<1>4. CASE kind.timed
  <2>1. PICK a \in Advances : time = clock + a
    BY <1>4 DEF Later
  <2>2. pcr' = Masked(time) /\ Masked(time) # NoPcr
    BY <1>4, MaskFacts, MpegtsAssumption DEF NotePcr, NoPcr
  <2>3. CASE pcr_segstart_actual = NoPcr
    <3>1. begun = clock /\ pcr_segstart_actual' = Masked(time)
      BY <1>2, <1>4, <2>2, <2>3 DEF NotedSince, NotePcr
    <3>2. time = begun + a /\ begun + a <= time
      BY <2>1, <3>1
    <3> QED  BY <2>2, <3>1, <3>2 DEF NotedSince
  <2>4. CASE pcr_segstart_actual # NoPcr
    <3>1. PICK b \in Advances : begun + b <= clock /\ pcr_segstart_actual = Masked(begun + b)
      BY <1>2, <2>4 DEF NotedSince
    <3>2. begun + b <= time
      BY <1>1, <3>1, MpegtsAssumption
    <3>3. pcr_segstart_actual' = pcr_segstart_actual
      BY <1>4, <2>4 DEF NotePcr
    <3> QED  BY <2>2, <2>4, <3>1, <3>2, <3>3 DEF NotedSince
  <2> QED  BY <2>3, <2>4
<1> QED  BY <1>3, <1>4

LEMMA BegunStep ==
  ASSUME StateInv, ClockInv, BegunInv, [MpegtsNext]_MpegtsVars
  PROVE  BegunInv'
<1> DEFINE Same == UNCHANGED <<pcr, pcr_segstart_actual, clock, begun>>
<1>0. CASE Same /\ (pc' = "copy" /\ inside' => pc = "copy" /\ inside)
  BY <1>0 DEF BegunInv
<1>1. CASE MainStep \/ UNCHANGED MpegtsVars
  <2>1. Same /\ Moves /\ inside' = inside
    BY <1>1, MainFacts
  <2>2. inside => pc \in {"copy", "dead"}
    BY DEF StateInv, ControlInv
  <2>3. pc' = "copy" /\ inside' => pc = "copy" /\ inside
    BY <2>1, <2>2 DEF Moves
  <2> QED  BY <1>0, <2>1, <2>3
<1>2. CASE StartCall
  <2>1. clock \in Nat
    BY DEF StateInv, NumbersInv
  <2> QED  BY <1>2, <2>1, StartCallFacts DEF BegunInv
<1>3. CASE CopyRetained
  BY <1>0, <1>3, CopyRetainedFacts
<1>4. CASE EndOfInput \/ LostSync
  BY <1>0, <1>4, StopFacts
<1>5. ASSUME NEW kind \in Kinds, NEW time \in Nat, Later(kind, time), Takes(kind, time)
      PROVE  BegunInv'
  <2>1. Arrives(kind, time)
    BY <1>5, ReadTableFacts, ReadMediaFacts, CutFacts DEF Takes
  <2>2. /\ pc = "copy" /\ inside /\ clock' = time
        /\ begun' = IF TablesKnown THEN begun ELSE time
    BY <2>1, ArrivesFacts
  <2>3. begun' \in Nat
    BY <2>2 DEF BegunInv
  <2>4. CASE ReadTable(kind, time)
    <3>1. ~TablesKnown /\ UNCHANGED <<pcr, pcr_segstart_actual>>
      BY <2>4, ReadTableFacts
    <3>2. pcr' = NoPcr /\ pcr_segstart_actual' = NoPcr
      BY <2>2, <3>1 DEF ClockInv, PcrsNoted
    <3> QED  BY <2>2, <2>3, <3>1, <3>2 DEF BegunInv
  <2>5. CASE ReadMedia(kind, time)
    <3>1. TablesKnown /\ NotePcr(kind, time)
      BY <2>5, ReadMediaFacts
    <3>2. NotedSince(begun, time, pcr_segstart_actual', pcr')
      BY <1>5, <2>2, <3>1, NotesSince
    <3> QED  BY <2>2, <2>3, <3>1, <3>2 DEF BegunInv, NotedSince
  <2>6. CASE CutBefore(kind, time)
    <3>1. pc' = "close"
      BY <2>6, CutFacts
    <3> QED  BY <2>3, <3>1 DEF BegunInv
  <2> QED  BY <1>5, <2>4, <2>5, <2>6 DEF Takes
<1> QED  BY <1>1, <1>2, <1>3, <1>4, <1>5, Steps

(* The seconds between the PCRs noted are those of the time that passed.   *)
SecondsOf(passed, result) ==
  passed < PcrMod =>
    \E a \in Advances \cup {0} : a <= passed /\ result = (passed - a) \div TS_PCR_FREQ

LEMMA NotedSeconds ==
  ASSUME NEW b \in Nat, NEW c \in Nat, NEW first \in Int, NEW last \in Int, b <= c,
         NotedSince(b, c, first, last)
  PROVE  SecondsOf(c - b, Masked(last - first) \div TS_PCR_FREQ)
<1> SUFFICES ASSUME c - b < PcrMod
             PROVE  \E a \in Advances \cup {0} :
                      /\ a <= c - b
                      /\ Masked(last - first) = (c - b) - a
  BY DEF SecondsOf
<1>1. CASE first = NoPcr
  <2>1. last - first = 0 /\ c - b = 0
    BY <1>1 DEF NotedSince, NoPcr
  <2>2. Masked(0) = 0
    BY MpegtsAssumption DEF Masked
  <2> QED  BY <2>1, <2>2
<1>2. CASE first # NoPcr
  <2>1. PICK a \in Advances : b + a <= c /\ first = Masked(b + a)
    BY <1>2 DEF NotedSince
  <2>2. last = Masked(c)
    BY <1>2 DEF NotedSince
  <2>3. a \in Nat /\ b + a \in Nat /\ c - (b + a) < PcrMod
    BY <2>1, MpegtsAssumption
  <2>4. Masked(Masked(c) - Masked(b + a)) = c - (b + a)
    BY <2>1, <2>3, MaskedDifference
  <2>5. a <= c - b /\ c - (b + a) = (c - b) - a
    BY <2>1, <2>3
  <2>6. Masked(last - first) = (c - b) - a
    BY <2>1, <2>2, <2>4, <2>5
  <2> QED  BY <2>5, <2>6
<1> QED  BY <1>1, <1>2

LEMMA BegunPast ==
  ASSUME StateInv, BegunInv, pc = "copy", inside
  PROVE  begun \in Nat /\ clock \in Nat /\ begun <= clock
BY MpegtsAssumption DEF StateInv, NumbersInv, BegunInv

LEMMA CallReports ==
  ASSUME StateInv, ClockInv, BegunInv, [MpegtsNext]_MpegtsVars, pc = "copy", pc' = "close"
  PROVE  /\ duration' > 0 => m_pkt' # NoPacket
         /\ m_pkt' # NoPacket \/ EndOfInput => SecondsOf(clock' - begun', AbsVal(duration'))
<1>1. CASE MainStep \/ UNCHANGED MpegtsVars
  BY <1>1, MainFacts DEF Moves
<1>2. CASE StartCall
  BY <1>2, StartCallFacts
<1>3. CASE CopyRetained
  BY <1>3, CopyRetainedFacts
<1>4. CASE EndOfInput \/ LostSync
  <2>1. /\ duration' \in -PcrMod .. 0 /\ m_pkt' = NoPacket /\ clock' = clock /\ begun' = begun
        /\ EndOfInput => duration' = -(Masked(pcr - pcr_segstart_actual) \div TS_PCR_FREQ)
    BY <1>4, StopFacts
  <2>2. duration' \in Int /\ duration' <= 0
    BY <2>1, MpegtsAssumption
  <2>3. ASSUME EndOfInput
        PROVE  SecondsOf(clock' - begun', AbsVal(duration'))
    <3>1. inside
      BY <2>3 DEF EndOfInput, Stop, Reading
    <3>2. begun \in Nat /\ clock \in Nat /\ begun <= clock
      BY <3>1, BegunPast
    <3>3. NotedSince(begun, clock, pcr_segstart_actual, pcr)
      BY <3>1 DEF BegunInv, NotedSince
    <3>4. pcr \in Int /\ pcr_segstart_actual \in Int
      BY DEF StateInv, NumbersInv
    <3>5. SecondsOf(clock - begun, Masked(pcr - pcr_segstart_actual) \div TS_PCR_FREQ)
      BY <3>2, <3>3, <3>4, NotedSeconds
    <3>6. PICK d \in Int : d = Masked(pcr - pcr_segstart_actual) \div TS_PCR_FREQ
      BY <3>4, MaskFacts, Quotient
    <3>7. AbsVal(duration') = d
      BY <2>1, <2>2, <2>3, <3>6 DEF AbsVal
    <3> QED  BY <2>1, <3>5, <3>6, <3>7
  <2> QED  BY <2>1, <2>2, <2>3
<1>5. ASSUME NEW kind \in Kinds, NEW time \in Nat, Later(kind, time), Takes(kind, time)
      PROVE  /\ m_pkt' # NoPacket
             /\ SecondsOf(clock' - begun', AbsVal(duration'))
  <2>1. CutBefore(kind, time)
    BY <1>5, ReadTableFacts, ReadMediaFacts DEF Takes
  <2>2. /\ TablesKnown /\ Arrives(kind, time) /\ NotePcr(kind, time)
        /\ kind.kind = "video" /\ m_pkt' = Packet(kind, time)
    BY <2>1, CutFacts
  <2>3. inside /\ clock' = time /\ begun' = begun
    BY <2>2, ArrivesFacts
  <2>4. begun \in Nat /\ clock \in Nat /\ begun <= time
    BY <1>5, <2>3, BegunPast DEF Later
  <2>5. pcr' \in Int /\ pcr_segstart_actual' \in Int
    BY <2>2, NotedPcr
  <2>6. PICK last \in Int, first \in Int : last = pcr' /\ first = pcr_segstart_actual'
    BY <2>5
  <2>7. NotedSince(begun, time, first, last)
    BY <1>5, <2>2, <2>3, <2>6, NotesSince
  <2>8. SecondsOf(time - begun, Masked(last - first) \div TS_PCR_FREQ)
    BY <2>4, <2>7, NotedSeconds
  <2>9. PICK noted \in 0 .. PcrMod - 1, result \in 0 .. PcrMod : Returns(noted, result)
    BY <2>1, CutFacts
  <2>10. AbsVal(duration') = Masked(last - first) \div TS_PCR_FREQ
    BY <2>6, <2>9, MpegtsAssumption DEF Returns, TimeNoted, AbsVal
  <2>11. m_pkt' # NoPacket
    BY <2>2 DEF Packet, NoPacket
  <2> QED  BY <2>3, <2>8, <2>10, <2>11
<1> QED  BY <1>1, <1>2, <1>3, <1>4, <1>5, Steps

(* MpegtsH264.cpp:78 and 196: the result of a call is the time copied, from*)
(* the first PCR read on, if it is less than the time in which the PCR     *)
(* wraps; and only a cut is reported by a result > 0.                      *)
THEOREM CallsReportTime == MpegtsSpec => ReportsTimeCopied
<1> DEFINE Inv == StateInv /\ ClockInv /\ BegunInv
<1>1. MpegtsInit => Inv
  BY StateInit, ClockInit, BegunInit
<1>2. Inv /\ [MpegtsNext]_MpegtsVars => Inv'
  BY StateStep, ClockStep, BegunStep
<1> DEFINE Step ==
      pc = "copy" /\ pc' = "close" =>
        /\ duration' > 0 => m_pkt' # NoPacket
        /\ m_pkt' # NoPacket \/ EndOfInput =>
             LET passed == clock' - begun' IN
             passed < PcrMod =>
               \E a \in Advances \cup {0} :
                 /\ a <= passed
                 /\ AbsVal(duration') = (passed - a) \div TS_PCR_FREQ
<1>3. Inv /\ [MpegtsNext]_MpegtsVars => [Step]_MpegtsVars
  BY CallReports DEF SecondsOf
<1>4. ReportsTimeCopied <=> [][Step]_MpegtsVars
  BY DEF ReportsTimeCopied
<1> QED  BY <1>1, <1>2, <1>3, <1>4, PTL DEF MpegtsSpec

(* A call that has noted no PCR returns 0, and one that has noted only the *)
(* PCR of the packet it stops at, too.                                     *)
LEMMA NothingNoted ==
  ASSUME StateInv, NEW kind, NEW time \in Nat, NotePcr(kind, time),
         pcr = NoPcr, pcr_segstart_actual = NoPcr,
         NEW noted, NEW result, Returns(noted, result)
  PROVE  result = 0
<1>1. TS_PCR_FREQ \in Nat \ {0} /\ PcrMod \in Nat \ {0}
  BY MpegtsAssumption
<1>2. PICK p \in Int, f \in Int : p = pcr' /\ f = pcr_segstart_actual'
  BY NotedPcr
<1>3. p = f
  BY <1>2 DEF NotePcr
<1>4. Masked(p - f) = 0
  BY <1>1, <1>3 DEF Masked
<1>5. noted = 0
  BY <1>2, <1>4 DEF Returns, TimeNoted
<1> QED  BY <1>1, <1>5 DEF Returns

(***************************************************************************)
(* The length of the segments.                                             *)
(***************************************************************************)
LEMMA MaskedSince ==
  ASSUME NEW t \in Nat, NEW s \in Int, s <= t
  PROVE  Masked(Masked(t) - s) <= t - s
<1>1. PcrMod \in Nat \ {0}
  BY MpegtsAssumption
<1>2. PICK q \in Nat, r \in 0 .. PcrMod - 1 : t = PcrMod * q + r /\ r = Masked(t)
  <2>1. PICK q \in Nat : t = PcrMod * q + Masked(t)
    BY Remainder
  <2>2. Masked(t) \in 0 .. PcrMod - 1
    BY MaskFacts
  <2> QED  BY <2>1, <2>2
<1>3. PICK y \in Int : y = r - s
  BY <1>1
<1>4. PICK k \in Int, m \in 0 .. PcrMod - 1 : y = PcrMod * k + m /\ m = Masked(y)
  <2>1. y \div PcrMod \in Int /\ y = PcrMod * (y \div PcrMod) + Masked(y)
    BY <1>1 DEF Masked
  <2>2. Masked(y) \in 0 .. PcrMod - 1
    BY MaskFacts
  <2> QED  BY <2>1, <2>2
<1>5. PICK d \in Int : d = q + k
  OBVIOUS
<1>6. PICK x \in Int, u \in Int, v \in Int : x = PcrMod * d /\ u = PcrMod * q /\ v = PcrMod * k
  BY <1>1
<1>7. x = u + v
  BY <1>1, <1>5, <1>6
<1>8. t - s = x + m
  BY <1>1, <1>2, <1>3, <1>4, <1>6, <1>7
<1>9. (d < 0 => x <= -PcrMod) /\ (d >= 0 => x >= 0)
  BY <1>1, <1>6
<1>10. m <= t - s
  BY <1>1, <1>8, <1>9
<1> QED  BY <1>2, <1>3, <1>4, <1>10

LEMMA Lengths ==
  ASSUME NEW c \in Nat
  PROVE  /\ m_pcr_length \in Nat
         /\ c * m_length * TS_PCR_FREQ \in Nat
         /\ (c + 1) * m_length * TS_PCR_FREQ = c * m_length * TS_PCR_FREQ + m_pcr_length
<1>1. m_length \in Nat /\ TS_PCR_FREQ \in Nat
  BY MpegtsAssumption
<1>2. PICK x \in Nat : x = c * m_length
  BY <1>1
<1>3. (c + 1) * m_length = x + m_length
  BY <1>1, <1>2
<1>4. (x + m_length) * TS_PCR_FREQ = x * TS_PCR_FREQ + m_length * TS_PCR_FREQ
  BY <1>1
<1> QED  BY <1>1, <1>2, <1>3, <1>4 DEF m_pcr_length

LEMMA LengthInit ==
  ASSUME FirstPcrs = {0}, MpegtsInit
  PROVE  LengthInv
<1>1. origin = 0 /\ clock = 0 /\ cuts = 0 /\ m_pcr_segstart = -1
  BY DEF MpegtsInit
<1>2. 0 * m_length * TS_PCR_FREQ = 0
  BY MpegtsAssumption
<1> QED  BY <1>1, <1>2 DEF LengthInv, AverageLength

LEMMA LengthStep ==
  ASSUME StateInv, ClockInv, LengthInv, [MpegtsNext]_MpegtsVars
  PROVE  LengthInv'
<1> DEFINE Same == UNCHANGED <<m_pcr_segstart, origin, cuts, clock>>
<1>0. CASE Same /\ (Going' => Going)
  BY <1>0 DEF LengthInv, AverageLength
<1>1. CASE MainStep \/ UNCHANGED MpegtsVars
  BY <1>0, <1>1, MainFacts
<1>2. CASE StartCall
  <2>1. Same /\ pc = "copy"
    BY <1>2, StartCallFacts
  <2> QED  BY <1>0, <2>1 DEF Going
<1>3. CASE CopyRetained
  <2>1. Same /\ pc = "copy"
    BY <1>3, CopyRetainedFacts
  <2> QED  BY <1>0, <2>1 DEF Going
<1>4. ASSUME EndOfInput \/ LostSync
      PROVE  LengthInv'
  <2>1. Same /\ pc = "copy"
    BY <1>4, StopFacts
  <2> QED  BY <1>0, <2>1 DEF Going
<1>5. ASSUME NEW kind \in Kinds, NEW time \in Nat, Later(kind, time), Takes(kind, time)
      PROVE  LengthInv'
  <2>1. Arrives(kind, time)
    BY <1>5, ReadTableFacts, ReadMediaFacts, CutFacts DEF Takes
  <2>2. pc = "copy" /\ inside /\ clock' = time /\ origin' = 0 /\ origin = 0
    BY <2>1, ArrivesFacts DEF LengthInv
  <2>3. clock <= time /\ clock \in Nat /\ cuts \in Nat
    BY <1>5 DEF Later, StateInv, NumbersInv
  <2>4. PICK x \in Nat, L \in Nat : /\ x = cuts * m_length * TS_PCR_FREQ /\ L = m_pcr_length
                                    /\ (cuts + 1) * m_length * TS_PCR_FREQ = x + L
    BY <2>3, Lengths
  <2>5. clock + 1 >= x /\ m_pcr_segstart = x - 1
    <3>1. clock - 0 + 1 >= x
      BY <2>2, <2>4 DEF LengthInv, AverageLength
    <3> QED  BY <2>2, <2>3, <2>4, <3>1 DEF LengthInv, Going
  <2>6. time - 0 + 1 >= x
    BY <2>3, <2>5
  <2>7. CASE UNCHANGED <<m_pcr_segstart, cuts>>
    BY <2>2, <2>4, <2>5, <2>6, <2>7 DEF LengthInv, AverageLength
  <2>8. CASE CutBefore(kind, time)
    <3>1. /\ NotePcr(kind, time) /\ pc' = "close" /\ Masked(pcr' - m_pcr_segstart) >= L
          /\ m_pcr_segstart' = m_pcr_segstart + L
      BY <2>4, <2>8, CutFacts
    <3>2. PICK noted \in 0 .. PcrMod - 1, result \in 0 .. PcrMod : Returns(noted, result)
      BY <2>8, CutFacts
    <3>3. duration' = result /\ cuts' = IF result > 0 THEN cuts + 1 ELSE cuts
      BY <3>2 DEF Returns
    <3>4. CASE ~(result > 0)
      <4>1. ~Going' /\ cuts' = cuts
        BY <3>1, <3>3, <3>4 DEF Going
      <4> QED  BY <2>2, <2>4, <2>6, <4>1 DEF LengthInv, AverageLength
    <3>5. CASE result > 0
      <4>1. pcr # NoPcr
        BY <2>2, <3>1, <3>2, <3>5, NothingNoted DEF ClockInv, PcrsNoted
      <4>2. pcr' = Masked(time)
        <5>1. PcrsNoted(pcr_segstart_actual', pcr', time)
          BY <1>5, <2>2, <3>1, NotesPcr
        <5>2. pcr' # NoPcr
          BY <3>1, <4>1, MaskFacts DEF NotePcr, NoPcr
        <5> QED  BY <5>1, <5>2 DEF PcrsNoted
      <4>3. PICK s \in Int : s = x - 1 /\ s = m_pcr_segstart
        BY <2>5
      <4>4. s <= time
        BY <2>6, <4>3
      <4>5. Masked(Masked(time) - s) <= time - s
        BY <4>4, MaskedSince
      <4>6. Masked(Masked(time) - s) >= L
        BY <3>1, <4>2, <4>3
      <4>7. PICK w \in Int : w = Masked(Masked(time) - s)
        BY MaskFacts
      <4>8. time - 0 + 1 >= x + L
        BY <4>3, <4>5, <4>6, <4>7
      <4>9. m_pcr_segstart' = (x + L) - 1
        BY <3>1, <4>3
      <4>10. cuts' = cuts + 1
        BY <3>3, <3>5
      <4> QED  BY <2>2, <2>4, <4>8, <4>9, <4>10 DEF LengthInv, AverageLength
    <3> QED  BY <3>4, <3>5
  <2>9. ReadTable(kind, time) \/ ReadMedia(kind, time) => UNCHANGED <<m_pcr_segstart, cuts>>
    BY ReadTableFacts, ReadMediaFacts
  <2> QED  BY <1>5, <2>7, <2>8, <2>9 DEF Takes
<1> QED  BY <1>1, <1>2, <1>3, <1>4, <1>5, Steps

(* main.cpp:62-63, MpegtsH264.cpp:154-202: the segments of an input whose  *)
(* clock starts at 0 are not shorter, on average, than the option -l asks. *)
THEOREM SegmentsAreLongEnough ==
  ASSUME FirstPcrs = {0}
  PROVE  MpegtsSpec => []AverageLength
<1> DEFINE Inv == StateInv /\ ClockInv /\ LengthInv
<1>1. MpegtsInit => Inv
  BY StateInit, ClockInit, LengthInit
<1>2. Inv /\ [MpegtsNext]_MpegtsVars => Inv'
  BY StateStep, ClockStep, LengthStep
<1>3. Inv => AverageLength
  BY DEF LengthInv
<1> QED  BY <1>1, <1>2, <1>3, PTL DEF MpegtsSpec

(***************************************************************************)
(* The order of the packets.                                               *)
(***************************************************************************)
LEMMA PlaceFacts ==
  ASSUME NEW c, NEW x
  PROVE  x \in PlacesOf(c) <=>
           \E n \in 1..MaxSegments : \E k \in 1 .. Len(c[n]) : x = <<n, k>>
BY DEF PlacesOf

(* Segment m becomes longer, and nothing else changes.                     *)
Longer(c, d, m, l, e) ==
  /\ m \in 1..MaxSegments /\ l \in Nat /\ e \in Nat
  /\ Len(c[m]) = l /\ Len(d[m]) = l + e
  /\ \A k \in 1 .. l : d[m][k] = c[m][k]
  /\ \A n \in 1..MaxSegments : n # m => d[n] = c[n]

LEMMA LongerFacts ==
  ASSUME NEW c, NEW d, NEW m, NEW l, NEW e, Longer(c, d, m, l, e)
  PROVE  /\ PlacesOf(d) = PlacesOf(c) \cup {<<m, k>> : k \in l + 1 .. l + e}
         /\ \A x \in PlacesOf(c) : NumberAt(d, x) = NumberAt(c, x)
<1>1. /\ m \in 1..MaxSegments /\ l \in Nat /\ e \in Nat
      /\ Len(c[m]) = l /\ Len(d[m]) = l + e
      /\ \A k \in 1 .. l : d[m][k] = c[m][k]
      /\ \A n \in 1..MaxSegments : n # m => d[n] = c[n]
  BY DEF Longer
<1>2. ASSUME NEW x
      PROVE  x \in PlacesOf(d) <=> x \in PlacesOf(c) \cup {<<m, k>> : k \in l + 1 .. l + e}
  <2>1. ASSUME x \in PlacesOf(d)
        PROVE  x \in PlacesOf(c) \cup {<<m, k>> : k \in l + 1 .. l + e}
    <3>1. PICK n \in 1..MaxSegments : \E k \in 1 .. Len(d[n]) : x = <<n, k>>
      BY <2>1, PlaceFacts
    <3>2. PICK k \in 1 .. Len(d[n]) : x = <<n, k>>
      BY <3>1
    <3>3. CASE n = m
      <4>1. k \in 1 .. l \/ k \in l + 1 .. l + e
        BY <1>1, <3>3
      <4>2. k \in 1 .. l => x \in PlacesOf(c)
        BY <1>1, <3>2, <3>3, PlaceFacts
      <4> QED  BY <3>2, <3>3, <4>1, <4>2
    <3>4. CASE n # m
      BY <1>1, <3>2, <3>4, PlaceFacts
    <3> QED  BY <3>3, <3>4
  <2>2. ASSUME x \in PlacesOf(c)
        PROVE  x \in PlacesOf(d)
    <3>1. PICK n \in 1..MaxSegments : \E k \in 1 .. Len(c[n]) : x = <<n, k>>
      BY <2>2, PlaceFacts
    <3>2. PICK k \in 1 .. Len(c[n]) : x = <<n, k>>
      BY <3>1
    <3>3. k \in 1 .. Len(d[n])
      BY <1>1, <3>2
    <3> QED  BY <3>2, <3>3, PlaceFacts
  <2>3. ASSUME NEW k \in l + 1 .. l + e
        PROVE  <<m, k>> \in PlacesOf(d)
    <3>1. k \in 1 .. Len(d[m])
      BY <1>1
    <3> QED  BY <1>1, <3>1, PlaceFacts
  <2> QED  BY <2>1, <2>2, <2>3
<1>3. ASSUME NEW x \in PlacesOf(c)
      PROVE  NumberAt(d, x) = NumberAt(c, x)
  <2>1. PICK n \in 1..MaxSegments : \E k \in 1 .. Len(c[n]) : x = <<n, k>>
    BY PlaceFacts
  <2>2. PICK k \in 1 .. Len(c[n]) : x = <<n, k>>
    BY <2>1
  <2>3. d[n][k] = c[n][k]
    BY <1>1, <2>2
  <2> QED  BY <2>2, <2>3 DEF NumberAt
<1> QED  BY <1>2, <1>3

(* Copies of tables are not counted.                                       *)
LEMMA AddsUnnumbered ==
  ASSUME NEW c, NEW d, NEW m, NEW l, NEW e, Longer(c, d, m, l, e), NEW kept, NEW p,
         Ordered(c, kept, p), \A k \in l + 1 .. l + e : d[m][k].number = 0
  PROVE  Ordered(d, kept, p)
<1>1. /\ PlacesOf(d) = PlacesOf(c) \cup {<<m, k>> : k \in l + 1 .. l + e}
      /\ \A x \in PlacesOf(c) : NumberAt(d, x) = NumberAt(c, x)
  BY LongerFacts
<1>2. \A k \in l + 1 .. l + e : NumberAt(d, <<m, k>>) = 0
  BY DEF NumberAt
<1>3. KeptOf(d) = KeptOf(c) /\ \A x \in KeptOf(c) : NumberAt(d, x) = NumberAt(c, x)
  BY <1>1, <1>2 DEF KeptOf
<1>4. {NumberAt(d, x) : x \in KeptOf(d)} = {NumberAt(c, x) : x \in KeptOf(c)}
  BY <1>3
<1>5. \A x \in PlacesOf(d) : NumberAt(d, x) \in Nat
  BY <1>1, <1>2 DEF Ordered
<1> QED  BY <1>3, <1>4, <1>5 DEF Ordered

(* The packet retained becomes the last of the last segment.               *)
LEMMA AddsRetained ==
  ASSUME NEW c, NEW d, NEW m, NEW l, Longer(c, d, m, l, 1), NEW kept, NEW p,
         Ordered(c, kept, p), d[m][l + 1] = p, p.number # 0,
         \A n \in 1..MaxSegments : n > m => Len(c[n]) = 0
  PROVE  Ordered(d, kept, NoPacket)
<1> DEFINE y == <<m, l + 1>>
<1>0. m \in 1..MaxSegments /\ l \in Nat /\ Len(c[m]) = l
  BY DEF Longer
<1>1. /\ PlacesOf(d) = PlacesOf(c) \cup {y}
      /\ \A x \in PlacesOf(c) : NumberAt(d, x) = NumberAt(c, x)
  <2>1. {<<m, k>> : k \in l + 1 .. l + 1} = {y}
    BY <1>0
  <2>2. /\ PlacesOf(d) = PlacesOf(c) \cup {<<m, k>> : k \in l + 1 .. l + 1}
        /\ \A x \in PlacesOf(c) : NumberAt(d, x) = NumberAt(c, x)
    BY LongerFacts
  <2> QED  BY <2>1, <2>2, Zenon
<1>2. NumberAt(d, y) = p.number
  BY DEF NumberAt
<1>3. \A x \in PlacesOf(c) : ~Precedes(y, x)
  <2> SUFFICES ASSUME NEW x \in PlacesOf(c) PROVE ~Precedes(y, x)
    OBVIOUS
  <2>1. PICK n \in 1..MaxSegments : \E k \in 1 .. Len(c[n]) : x = <<n, k>>
    BY PlaceFacts
  <2>2. PICK k \in 1 .. Len(c[n]) : x = <<n, k>>
    BY <2>1
  <2>3. ~(n > m)
    BY <2>2
  <2>4. n = m => k <= l
    BY <1>0, <2>2
  <2>5. ~(m < n) /\ ~(m = n /\ l + 1 < k)
    BY <1>0, <2>2, <2>3, <2>4
  <2> QED  BY <2>2, <2>5 DEF Precedes
<1>4. ~Precedes(y, y)
  BY <1>0 DEF Precedes
<1> HIDE DEF y
<1>5. /\ KeptOf(d) = KeptOf(c) \cup {y}
      /\ \A x \in KeptOf(c) : x \in PlacesOf(c) /\ NumberAt(d, x) = NumberAt(c, x)
  BY <1>1, <1>2 DEF KeptOf
<1>6. {NumberAt(d, x) : x \in KeptOf(d)} = {NumberAt(c, x) : x \in KeptOf(c)} \cup {p.number}
  BY <1>2, <1>5
<1>7. NoPacket.number = 0
  BY DEF NoPacket
<1>8. \A x \in PlacesOf(d) : NumberAt(d, x) \in Nat
  BY <1>1, <1>2 DEF Ordered
<1>9. ASSUME NEW x \in KeptOf(d), NEW z \in KeptOf(d), Precedes(x, z)
      PROVE  NumberAt(d, x) < NumberAt(d, z)
  <2>1. x \in KeptOf(c)
    BY <1>3, <1>4, <1>5, <1>9
  <2>2. CASE z \in KeptOf(c)
    BY <1>5, <1>9, <2>1, <2>2 DEF Ordered
  <2>3. CASE z = y
    BY <1>2, <1>5, <2>1, <2>3 DEF Ordered
  <2> QED  BY <1>5, <2>2, <2>3
<1> QED  BY <1>6, <1>7, <1>8, <1>9 DEF Ordered

(* A packet is kept that comes after all others.                           *)
LEMMA Retains ==
  ASSUME NEW c, NEW kept, NEW p, NEW r \in Nat, Ordered(c, kept, NoPacket),
         kept \subseteq 1 .. r, p.number = r + 1
  PROVE  Ordered(c, kept \cup {r + 1}, p)
<1>1. NoPacket.number = 0
  BY DEF NoPacket
<1>2. kept = {NumberAt(c, x) : x \in KeptOf(c)}
  BY <1>1 DEF Ordered
<1>3. \A x \in KeptOf(c) : NumberAt(c, x) \in 1 .. r
  BY <1>2
<1>4. \A x \in KeptOf(c) : NumberAt(c, x) < r + 1
  BY <1>3
<1> QED  BY <1>2, <1>4 DEF Ordered

LEMMA OrderInit == MpegtsInit => OrderInv
<1> SUFFICES ASSUME MpegtsInit PROVE OrderInv
  OBVIOUS
<1>1. /\ content = [n \in 1..MaxSegments |-> <<>>] /\ due = {} /\ m_pkt.number = 0
  BY MpegtsAssumption DEF MpegtsInit, NoPacket
<1>2. PlacesOf(content) = {}
  <2> SUFFICES ASSUME NEW x \in PlacesOf(content) PROVE FALSE
    OBVIOUS
  <2>1. PICK n \in 1..MaxSegments : \E k \in 1 .. Len(content[n]) : x = <<n, k>>
    BY PlaceFacts
  <2>2. Len(content[n]) = 0
    BY <1>1, ShortSeqs
  <2> QED  BY <2>1, <2>2
<1>3. KeptOf(content) = {}
  BY <1>2 DEF KeptOf
<1>4. {NumberAt(content, x) : x \in KeptOf(content)} = {}
  BY <1>3
<1>5. Ordered(content, due, m_pkt)
  <2>1. due = {} \cup IF m_pkt.number = 0 THEN {} ELSE {m_pkt.number}
    BY <1>1
  <2>2. m_pkt.number = 0 /\ m_pkt.number \in Nat
    BY <1>1
  <2> QED  BY <1>2, <1>3, <1>4, <2>1, <2>2 DEF Ordered
<1> QED  BY <1>1, <1>5 DEF OrderInv

(* What is written goes to the last segment.                               *)
LEMMA WrittenLonger ==
  ASSUME StateInv, pc = "copy", NEW packets, IsSeq(packets), Write(packets)
  PROVE  \E l \in Nat, e \in Nat :
           /\ e = Len(packets)
           /\ Longer(content, content', m_sequence, l, e)
           /\ \A k \in 1 .. e : content'[m_sequence][l + k] = packets[k]
           /\ \A n \in 1..MaxSegments : n > m_sequence => Len(content[n]) = 0
<1>1. m_sequence = cuts + 1 /\ m_sequence \in 1..MaxSegments /\ cuts \in Nat
  BY CopyFacts DEF StateInv, NumbersInv
<1>2. PICK l \in Nat : l = Len(content[m_sequence])
  BY <1>1, SeqFacts DEF StateInv, ContentInv
<1>3. PICK e \in Nat : e = Len(packets)
  BY SeqFacts
<1>4. /\ content'[m_sequence] = content[m_sequence] \o packets
      /\ \A n \in 1..MaxSegments : n # m_sequence => content'[n] = content[n]
  BY Written
<1>5. IsSeq(content[m_sequence])
  BY <1>1 DEF StateInv, ContentInv
<1>6. /\ Len(content'[m_sequence]) = l + e
      /\ \A k \in 1 .. l : content'[m_sequence][k] = content[m_sequence][k]
      /\ \A k \in 1 .. e : content'[m_sequence][l + k] = packets[k]
  BY <1>2, <1>3, <1>4, <1>5, ConcatFacts
<1>7. Longer(content, content', m_sequence, l, e)
  BY <1>1, <1>2, <1>4, <1>6 DEF Longer
<1>8. ASSUME NEW n \in 1..MaxSegments, n > m_sequence
      PROVE  Len(content[n]) = 0
  <2>1. n > Started /\ Going
    BY <1>1, <1>8 DEF Started, Going
  <2> QED  BY <2>1, ShortSeqs DEF StateInv, FreshInv
<1> QED  BY <1>3, <1>6, <1>7, <1>8

LEMMA OrderAdds ==
  ASSUME StateInv, pc = "copy", NEW p, Write(<<p>>), NEW kept, Ordered(content, kept, p)
  PROVE  Ordered(content', kept, NoPacket)
<1>1. IsSeq(<<p>>) /\ Len(<<p>>) = 1 /\ <<p>>[1] = p
  BY ShortSeqs
<1>2. PICK l \in Nat, e \in Nat :
         /\ e = Len(<<p>>)
         /\ Longer(content, content', m_sequence, l, e)
         /\ \A k \in 1 .. e : content'[m_sequence][l + k] = <<p>>[k]
         /\ \A n \in 1..MaxSegments : n > m_sequence => Len(content[n]) = 0
  BY <1>1, WrittenLonger
<1>3. e = 1
  BY <1>1, <1>2
<1>4. content'[m_sequence][l + 1] = p
  BY <1>1, <1>2, <1>3
<1>5. Longer(content, content', m_sequence, l, 1)
  BY <1>2, <1>3
<1>6. CASE p.number # 0
  BY <1>2, <1>4, <1>5, <1>6, AddsRetained
<1>7. CASE p.number = 0
  <2>1. \A k \in l + 1 .. l + 1 : content'[m_sequence][k].number = 0
    BY <1>4, <1>7
  <2>2. Ordered(content', kept, p)
    BY <1>5, <2>1, AddsUnnumbered
  <2> QED  BY <1>7, <2>2 DEF Ordered, NoPacket
<1> QED  BY <1>6, <1>7

LEMMA OrderStep ==
  ASSUME StateInv, OrderInv, [MpegtsNext]_MpegtsVars
  PROVE  OrderInv'
<1> DEFINE Same == UNCHANGED <<content, due, m_pkt>> /\ (read' = read \/ read' = read + 1)
<1>n. read \in Nat /\ due \subseteq 1 .. read /\ due \subseteq 1 .. read + 1
  BY DEF StateInv, NumbersInv, OrderInv
<1>0. CASE Same
  BY <1>n, <1>0 DEF OrderInv
<1>1. CASE MainStep \/ UNCHANGED MpegtsVars
  BY <1>0, <1>1, MainFacts
<1>2. CASE StartCall
  <2>1. pc = "copy" /\ UNCHANGED <<read, due, m_pkt>>
    BY <1>2, StartCallFacts
  <2>2. PICK packets : packets \in {Tables, <<>>} /\ Write(packets)
    BY <1>2, StartCallFacts
  <2>3. /\ IsSeq(packets) /\ Len(packets) \in {0, 2}
        /\ \A k \in 1 .. Len(packets) : packets[k].number = 0
    <3>1. CASE packets = <<>>
      BY <3>1, ShortSeqs
    <3>2. CASE packets = Tables
      <4>1. PICK p, q : packets = <<p, q>> /\ p.number = 0 /\ q.number = 0
        BY <3>2 DEF Tables
      <4>2. IsSeq(packets) /\ Len(packets) = 2 /\ packets[1] = p /\ packets[2] = q
        BY <4>1, ShortSeqs
      <4>3. \A k \in 1 .. 2 : k = 1 \/ k = 2
        OBVIOUS
      <4> QED  BY <4>1, <4>2, <4>3
    <3> QED  BY <2>2, <3>1, <3>2
  <2>4. PICK l \in Nat, e \in Nat :
           /\ e = Len(packets)
           /\ Longer(content, content', m_sequence, l, e)
           /\ \A k \in 1 .. e : content'[m_sequence][l + k] = packets[k]
    BY <2>1, <2>2, <2>3, WrittenLonger
  <2>5. ASSUME NEW k \in l + 1 .. l + e
        PROVE  content'[m_sequence][k].number = 0
    <3>1. k - l \in 1 .. e /\ l + (k - l) = k
      OBVIOUS
    <3> QED  BY <2>3, <2>4, <3>1
  <2>6. Ordered(content', due, m_pkt)
    BY <2>4, <2>5, AddsUnnumbered DEF OrderInv
  <2> QED  BY <2>1, <2>6, <1>n DEF OrderInv
<1>3. CASE CopyRetained
  <2>1. pc = "copy" /\ Write(<<m_pkt>>) /\ m_pkt' = NoPacket /\ UNCHANGED <<read, due>>
    BY <1>3, CopyRetainedFacts
  <2>2. Ordered(content', due, NoPacket)
    BY <2>1, OrderAdds DEF OrderInv
  <2> QED  BY <1>n, <2>1, <2>2 DEF OrderInv
<1>4. ASSUME EndOfInput \/ LostSync
      PROVE  OrderInv'
  BY <1>0, <1>4, StopFacts
<1>5. ASSUME NEW kind \in Kinds, NEW time \in Nat, Takes(kind, time)
      PROVE  OrderInv'
  <2> DEFINE p == Packet(kind, time)
  <2>1. Arrives(kind, time)
    BY <1>5, ReadTableFacts, ReadMediaFacts, CutFacts DEF Takes
  <2>2. pc = "copy" /\ m_pkt = NoPacket /\ read' = read + 1
    BY <2>1, ArrivesFacts
  <2>3. p.number = read + 1
    BY DEF Packet
  <2> HIDE DEF p
  <2>4. Ordered(content, due \cup {read + 1}, p)
    BY <1>n, <2>2, <2>3, Retains DEF OrderInv
  <2>5. due \cup {read + 1} \subseteq 1 .. read + 1
    BY <1>n
  <2>6. CASE m_pkt' = NoPacket /\ Copy(p)
    <3>1. Write(<<p>>) /\ due' = due \cup {read + 1}
      BY <2>3, <2>6 DEF Copy
    <3>2. Ordered(content', due \cup {read + 1}, NoPacket)
      BY <2>2, <2>4, <3>1, OrderAdds
    <3> QED  BY <2>2, <2>5, <2>6, <3>1, <3>2 DEF OrderInv
  <2>7. CASE m_pkt' = p /\ due' = due \cup {read + 1} /\ content' = content
    BY <2>2, <2>4, <2>5, <2>7 DEF OrderInv
  <2>8. CASE UNCHANGED <<content, due, m_pkt>>
    BY <1>0, <2>2, <2>8
  <2>9. \/ m_pkt' = NoPacket /\ Copy(p)
        \/ m_pkt' = p /\ due' = due \cup {read + 1} /\ content' = content
        \/ UNCHANGED <<content, due, m_pkt>>
    BY <1>5, <2>2, ReadTableFacts, ReadMediaFacts, CutFacts DEF Takes, p
  <2> QED  BY <2>6, <2>7, <2>8, <2>9
<1> QED  BY <1>1, <1>2, <1>3, <1>4, <1>5, Steps

(* MpegtsH264.cpp:48-67 and 163-202: the packets copied, with the one that *)
(* is retained from call to call, are those of the tables and the streams  *)
(* named, each once and in the order of the input.                         *)
THEOREM PacketsKeepOrder == MpegtsSpec => []PacketsOnceInOrder
<1>1. MpegtsInit => StateInv /\ OrderInv
  BY StateInit, OrderInit
<1>2. (StateInv /\ OrderInv) /\ [MpegtsNext]_MpegtsVars => (StateInv /\ OrderInv)'
  BY StateStep, OrderStep
<1>3. OrderInv => PacketsOnceInOrder
  <2> SUFFICES ASSUME OrderInv PROVE PacketsOnceInOrder
    OBVIOUS
  <2> DEFINE kept == {x \in Places : FromInput(At(x))}
             retained == {p \in {m_pkt} : FromInput(p)}
  <2>1. Places = PlacesOf(content) /\ \A x : At(x).number = NumberAt(content, x)
    BY DEF Places, PlacesOf, At, NumberAt
  <2>2. kept = KeptOf(content)
    BY <2>1 DEF KeptOf, FromInput
  <2>3. {At(x).number : x \in kept} = {NumberAt(content, x) : x \in KeptOf(content)}
    BY <2>1, <2>2
  <2>4. retained = IF m_pkt.number = 0 THEN {} ELSE {m_pkt}
    BY DEF FromInput
  <2>5. {p.number : p \in retained} = IF m_pkt.number = 0 THEN {} ELSE {m_pkt.number}
    BY <2>4
  <2> HIDE DEF kept, retained
  <2>6. Ordered(content, due, m_pkt)
    BY DEF OrderInv
  <2>7. due = {At(x).number : x \in kept} \cup {p.number : p \in retained}
    BY <2>3, <2>5, <2>6 DEF Ordered
  <2>8. \A x, y \in kept : Precedes(x, y) => At(x).number < At(y).number
    BY <2>1, <2>2, <2>6 DEF Ordered
  <2>9. \A x \in kept, p \in retained : At(x).number < p.number
    BY <2>1, <2>2, <2>4, <2>6 DEF Ordered
  <2> QED  BY <2>7, <2>8, <2>9 DEF PacketsOnceInOrder, kept, retained
<1> QED  BY <1>1, <1>2, <1>3, PTL DEF MpegtsSpec

(***************************************************************************)
(* What the constructor leaves in m_pkt.                                   *)
(***************************************************************************)
IsGarbage(p) == p.kind = "garbage"

(* It is still there only as long as nothing has been copied or kept.      *)
GarbageInv ==
  /\ GarbageIsFirst
  /\ IsGarbage(m_pkt) =>
       ~m_pat /\ cuts = 0 /\ \A n \in 1..MaxSegments : content[n] = <<>>

LEMMA NotGarbage ==
  /\ ~IsGarbage(NoPacket)
  /\ \A k \in 1 .. Len(Tables) : ~IsGarbage(Tables[k])
  /\ \A kind \in Kinds : \A time : ~IsGarbage(Packet(kind, time))
<1>1. ~IsGarbage(NoPacket)
  BY DEF IsGarbage, NoPacket
<1>2. \A k \in 1 .. Len(Tables) : ~IsGarbage(Tables[k])
  BY ShortSeqs DEF IsGarbage, Tables
<1>3. \A kind \in Kinds : \A time : ~IsGarbage(Packet(kind, time))
  BY MpegtsAssumption DEF IsGarbage, Packet
<1> QED  BY <1>1, <1>2, <1>3

LEMMA GarbageInit == MpegtsInit => GarbageInv
<1> SUFFICES ASSUME MpegtsInit PROVE GarbageInv
  OBVIOUS
<1>1. ~m_pat /\ cuts = 0 /\ \A n \in 1..MaxSegments : content[n] = <<>>
  BY DEF MpegtsInit
<1> QED  BY <1>1, ShortSeqs DEF GarbageInv, GarbageIsFirst

(* Writing packets that are none of it leaves it where it is.              *)
LEMMA WritesNoGarbage ==
  ASSUME StateInv, GarbageIsFirst, pc = "copy", NEW packets, IsSeq(packets), Write(packets),
         \A k \in 1 .. Len(packets) : ~IsGarbage(packets[k])
  PROVE  GarbageIsFirst'
<1>1. /\ m_sequence \in 1..MaxSegments
      /\ content'[m_sequence] = content[m_sequence] \o packets
      /\ \A n \in 1..MaxSegments : n # m_sequence => content'[n] = content[n]
  BY CopyFacts, Written
<1> SUFFICES ASSUME NEW n \in 1..MaxSegments, NEW k \in 1 .. Len(content'[n]),
                    content'[n][k].kind = "garbage"
             PROVE  n = 1 /\ k = 1
  BY DEF GarbageIsFirst
<1>2. CASE n # m_sequence
  BY <1>1, <1>2 DEF GarbageIsFirst
<1>3. CASE n = m_sequence
  <2> DEFINE s == content[m_sequence]
  <2>1. /\ Len(s) \in Nat /\ Len(packets) \in Nat
        /\ Len(s \o packets) = Len(s) + Len(packets)
        /\ \A j \in 1 .. Len(s) : (s \o packets)[j] = s[j]
        /\ \A j \in 1 .. Len(packets) : (s \o packets)[Len(s) + j] = packets[j]
    BY <1>1, SeqFacts, ConcatFacts DEF StateInv, ContentInv
  <2>2. content'[n] = s \o packets
    BY <1>1, <1>3
  <2> HIDE DEF s
  <2>3. CASE k <= Len(s)
    <3>1. k \in 1 .. Len(s) /\ s[k].kind = "garbage"
      BY <2>1, <2>2, <2>3
    <3> QED  BY <1>1, <1>3, <3>1 DEF GarbageIsFirst, s
  <2>4. CASE k > Len(s)
    <3>1. PICK j \in 1 .. Len(packets) : k = Len(s) + j
      <4>1. k - Len(s) \in 1 .. Len(packets) /\ k = Len(s) + (k - Len(s))
        BY <2>1, <2>2, <2>4
      <4> QED  BY <4>1
    <3>2. packets[j].kind = "garbage"
      BY <2>1, <2>2, <3>1
    <3> QED  BY <3>2 DEF IsGarbage
  <2> QED  BY <2>1, <2>2, <2>3, <2>4
<1> QED  BY <1>2, <1>3

LEMMA GarbageStep ==
  ASSUME StateInv, GarbageInv, [MpegtsNext]_MpegtsVars
  PROVE  GarbageInv'
<1>n. GarbageIsFirst
  BY DEF GarbageInv
<1>0. CASE content' = content /\ (~IsGarbage(m_pkt') \/ UNCHANGED <<m_pkt, m_pat, cuts>>)
  BY <1>0 DEF GarbageInv, GarbageIsFirst, IsGarbage
<1>1. CASE MainStep \/ UNCHANGED MpegtsVars
  BY <1>0, <1>1, MainFacts
<1>2. CASE StartCall
  <2>1. /\ pc = "copy" /\ UNCHANGED <<m_pkt, m_pat, cuts>>
        /\ Write(IF TablesKnown THEN Tables ELSE <<>>)
    BY <1>2, StartCallFacts
  <2>2. CASE TablesKnown
    <3>1. IsSeq(Tables) /\ Write(Tables)
      BY <2>1, <2>2, ShortSeqs DEF Tables
    <3>2. GarbageIsFirst'
      BY <1>n, <2>1, <3>1, NotGarbage, WritesNoGarbage
    <3>3. ~IsGarbage(m_pkt')
      BY <2>1, <2>2 DEF GarbageInv, TablesKnown
    <3> QED  BY <3>2, <3>3 DEF GarbageInv, IsGarbage
  <2>3. CASE ~TablesKnown
    <3>1. Write(<<>>) /\ IsSeq(<<>>) /\ Len(<<>>) = 0
      BY <2>1, <2>3, ShortSeqs
    <3>2. GarbageIsFirst'
      BY <1>n, <2>1, <3>1, WritesNoGarbage
    <3>3. ASSUME \A n \in 1..MaxSegments : content[n] = <<>>
          PROVE  \A n \in 1..MaxSegments : content'[n] = <<>>
      <4>1. <<>> \o <<>> = <<>>
        OBVIOUS
      <4> QED  BY <2>1, <3>1, <3>3, <4>1, Written
    <3> QED  BY <2>1, <3>2, <3>3 DEF GarbageInv, IsGarbage
  <2> QED  BY <2>2, <2>3
<1>3. CASE CopyRetained
  <2>1. pc = "copy" /\ Write(<<m_pkt>>) /\ m_pkt' = NoPacket /\ IsSeq(<<m_pkt>>)
        /\ Len(<<m_pkt>>) = 1 /\ <<m_pkt>>[1] = m_pkt
    BY <1>3, CopyRetainedFacts, ShortSeqs
  <2>2. ~IsGarbage(m_pkt')
    BY <2>1, NotGarbage
  <2>3. CASE ~IsGarbage(m_pkt)
    <3>1. \A k \in 1 .. Len(<<m_pkt>>) : ~IsGarbage(<<m_pkt>>[k])
      BY <2>1, <2>3
    <3>2. GarbageIsFirst'
      BY <1>n, <2>1, <3>1, WritesNoGarbage
    <3> QED  BY <2>2, <3>2 DEF GarbageInv
  <2>4. CASE IsGarbage(m_pkt)
    <3>1. cuts = 0 /\ \A n \in 1..MaxSegments : content[n] = <<>>
      BY <2>4 DEF GarbageInv
    <3>2. m_sequence = 1 /\ 1 \in 1..MaxSegments
      BY <2>1, <3>1, CopyFacts
    <3>3. /\ content'[1] = <<>> \o <<m_pkt>>
          /\ \A n \in 1..MaxSegments : n # 1 => content'[n] = <<>>
      BY <2>1, <3>1, <3>2, Written
    <3>4. Len(content'[1]) = 1
      BY <2>1, <3>3, ShortSeqs, ConcatFacts
    <3>5. GarbageIsFirst'
      BY <3>3, <3>4, ShortSeqs DEF GarbageIsFirst
    <3> QED  BY <2>2, <3>5 DEF GarbageInv
  <2> QED  BY <2>3, <2>4
<1>4. CASE EndOfInput \/ LostSync
  BY <1>0, <1>4, StopFacts
<1>5. ASSUME NEW kind \in Kinds, NEW time \in Nat, Takes(kind, time)
      PROVE  GarbageInv'
  <2> DEFINE p == Packet(kind, time)
  <2>1. ~IsGarbage(p) /\ ~IsGarbage(NoPacket)
    BY NotGarbage
  <2>2. pc = "copy" /\ m_pkt = NoPacket
    BY <1>5, ReadTableFacts, ReadMediaFacts, CutFacts, ArrivesFacts DEF Takes
  <2>3. \/ m_pkt' = m_pkt /\ (Copy(p) \/ content' = content)
        \/ m_pkt' = p /\ content' = content
    BY <1>5, ReadTableFacts, ReadMediaFacts, CutFacts DEF Takes
  <2> HIDE DEF p
  <2>4. ~IsGarbage(m_pkt')
    BY <2>1, <2>2, <2>3
  <2>5. CASE Copy(p)
    <3>1. Write(<<p>>) /\ IsSeq(<<p>>) /\ Len(<<p>>) = 1 /\ <<p>>[1] = p
      BY <2>5, ShortSeqs DEF Copy
    <3>2. \A k \in 1 .. Len(<<p>>) : ~IsGarbage(<<p>>[k])
      BY <2>1, <3>1
    <3>3. GarbageIsFirst'
      BY <1>n, <2>2, <3>1, <3>2, WritesNoGarbage
    <3> QED  BY <2>4, <3>3 DEF GarbageInv
  <2>6. CASE content' = content
    BY <1>0, <2>4, <2>6
  <2> QED  BY <2>3, <2>5, <2>6
<1> QED  BY <1>1, <1>2, <1>3, <1>4, <1>5, Steps

(* MpegtsH264.cpp:29-41, 67 and 190: m_pkt is not initialised, and what is *)
(* there may be copied as if it were a retained packet, but only once,     *)
(* before the PAT and in the first segment: no later segment begins with   *)
(* it, and none has it between its packets.                                *)
THEOREM GarbageComesFirst == MpegtsSpec => []GarbageIsFirst
<1>1. MpegtsInit => StateInv /\ GarbageInv
  BY StateInit, GarbageInit
<1>2. (StateInv /\ GarbageInv) /\ [MpegtsNext]_MpegtsVars => (StateInv /\ GarbageInv)'
  BY StateStep, GarbageStep
<1>3. GarbageInv => GarbageIsFirst
  BY DEF GarbageInv
<1> QED  BY <1>1, <1>2, <1>3, PTL DEF MpegtsSpec
=============================================================================
