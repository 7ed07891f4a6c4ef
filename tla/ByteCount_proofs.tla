-------------------------- MODULE ByteCount_proofs --------------------------
(***************************************************************************)
(* Proofs about the program ByteCount, for inputs, segments and blocks of  *)
(* any size.                                                               *)
(***************************************************************************)
EXTENDS ByteCount, FiniteSetTheorems, TLAPS

Full(n) == size[n] = WholeSegment

(* How many segments have been copied, and those among them that need not  *)
(* be full: the last one, if the input ended in it.                        *)
Made == IF pc \in {"close", "add"} THEN m_sequence ELSE m_sequence - 1
Rest(n) == left = 0 /\ i = 0 /\ size[n] > 0

Between == pc \in {"close", "add", "wait"}

(* Another segment is made, or will be.                                    *)
Going == pc \in {"begin", "open", "key", "copy"} \/ (Between /\ duration > 0)

(* The last segment has been copied.                                       *)
Stopping == pc \in {"end", "done"} \/ (Between /\ duration <= 0)

ByteTypes ==
  /\ pc \in {"begin", "open", "key", "copy", "close", "add", "wait", "end", "done", "dead"}
  /\ m_sequence \in Nat \ {0} /\ duration \in Int
  /\ i \in 0..m_length /\ left \in Nat /\ input \in InputSizes
  /\ size \in [1..MaxSegments -> Nat]
  /\ m_sequence <= MaxSegments + 1
  /\ pc \in {"key", "copy", "close", "add"} => m_sequence <= MaxSegments

SizeInv ==
  /\ pc \notin {"copy", "dead"} => i = 0
  /\ pc = "copy" => size[m_sequence] = i * m_block
  /\ pc \notin {"copy", "close", "add", "dead"} /\ m_sequence <= MaxSegments
       => size[m_sequence] = 0
  /\ \A n \in 1..MaxSegments : n > m_sequence => size[n] = 0
  /\ Going =>
       /\ m_length > 0 \/ Made = 0
       /\ \A n \in 1..Made : Full(n) \/ (n = Made /\ Rest(n))
  /\ Stopping =>
       /\ left = 0 \/ m_length = 0
       /\ m_length > 0 \/ Made = 1
       /\ \A n \in 1 .. Made-1 : Full(n) \/ (n = Made-1 /\ Rest(n))
  /\ pc = "dead" => \A n \in 1 .. m_sequence-2 : size[n] > 0

ByteInv == ByteTypes /\ SizeInv

(* Each segment has its piece, and the rest of the input is left, until    *)
(* the input is over.                                                      *)
PlaceInv ==
  /\ \A n \in 1..Made : size[n] = Piece(n)
  /\ pc # "dead" =>
       \/ left = input - Made * WholeSegment - i * m_block
       \/ left = 0 /\ i = 0 /\ input <= Made * WholeSegment

LEMMA Blocks ==
  /\ m_length * m_block \in Nat /\ (m_length > 0 => m_length * m_block > 0)
  /\ 0 * m_block = 0
  /\ \A k \in Nat : /\ k * m_block \in Nat /\ (k > 0 => k * m_block > 0)
                    /\ (k + 1) * m_block = k * m_block + m_block
<1>1. m_length \in Nat /\ m_block \in Nat \ {0}
  BY ByteCountAssumption
<1>2. \A k \in Nat : k * m_block \in Nat /\ (k > 0 => k * m_block > 0)
  BY <1>1
<1>3. \A k \in Nat : (k + 1) * m_block = k * m_block + m_block
  BY <1>1
<1> QED  BY <1>1, <1>2, <1>3

LEMMA ByteInit == ByteCountInit => ByteInv
BY Blocks, Assumptions, ByteCountAssumption
DEF ByteCountInit, Init, ProgramInit, IndexInit, ByteInv, ByteTypes, SizeInv, SegmenterAssumption,
    Going, Stopping, Between, Made

LEMMA ReadBlockStep == ByteInv /\ ReadBlock => ByteInv'
<1> SUFFICES ASSUME ByteInv, ReadBlock PROVE ByteInv'
  OBVIOUS
<1>1. /\ pc = "copy" /\ i < m_length /\ left >= m_block /\ left' = left - m_block
      /\ i' = i + 1 /\ size' = [size EXCEPT ![m_sequence] = @ + m_block]
      /\ pc' = pc /\ m_sequence' = m_sequence /\ duration' = duration /\ input' = input
  BY DEF ReadBlock, Transfer, vars, indexVars, timeVars
<1>2. m_block \in Nat \ {0} /\ m_length \in Nat /\ MaxSegments \in Nat
  BY ByteCountAssumption, Assumptions DEF SegmenterAssumption
<1>3. ByteTypes'
  BY <1>1, <1>2 DEF ByteInv, ByteTypes
<1>4. size[m_sequence] = i * m_block /\ (i + 1) * m_block = i * m_block + m_block
  BY <1>1, Blocks DEF ByteInv, ByteTypes, SizeInv
<1>5. /\ size'[m_sequence] = (i + 1) * m_block
      /\ \A n \in 1..MaxSegments : n # m_sequence => size'[n] = size[n]
  BY <1>1, <1>2, <1>4 DEF ByteInv, ByteTypes
<1>6. SizeInv'
  BY <1>1, <1>2, <1>3, <1>5
  DEF ByteInv, ByteTypes, SizeInv, Going, Stopping, Between, Made, Full, Rest
<1> QED  BY <1>3, <1>6 DEF ByteInv

LEMMA ReadPartStep == ByteInv /\ ReadPart => ByteInv'
<1> SUFFICES ASSUME ByteInv, ReadPart PROVE ByteInv'
  OBVIOUS
<1>1. /\ pc = "copy" /\ i < m_length /\ left < m_block /\ left' = left - left
      /\ i' = 0 /\ size' = [size EXCEPT ![m_sequence] = @ + left]
      /\ pc' = "close" /\ m_sequence' = m_sequence /\ duration' = IF i = 0 THEN 0 ELSE ULong
      /\ input' = input
  BY DEF ReadPart, Transfer, Return, CopySegment, Negated, indexVars
<1>2. m_block \in Nat \ {0} /\ m_length \in Nat /\ MaxSegments \in Nat /\ ULong \in Nat \ {0}
  BY ByteCountAssumption, Assumptions DEF SegmenterAssumption
<1>3. ByteTypes' /\ left' = 0
  BY <1>1, <1>2 DEF ByteInv, ByteTypes
<1>4. /\ size'[m_sequence] = i * m_block + left
      /\ i * m_block \in Nat /\ (i > 0 => i * m_block > 0)
      /\ \A n \in 1..MaxSegments : n # m_sequence => size'[n] = size[n]
  BY <1>1, <1>2, Blocks DEF ByteInv, ByteTypes, SizeInv
<1>5. SizeInv'
  BY <1>1, <1>2, <1>3, <1>4
  DEF ByteInv, ByteTypes, SizeInv, Going, Stopping, Between, Made, Full, Rest
<1> QED  BY <1>3, <1>5 DEF ByteInv

LEMMA ReturnFullStep == ByteInv /\ ReturnFull => ByteInv'
<1> SUFFICES ASSUME ByteInv, ReturnFull PROVE ByteInv'
  OBVIOUS
<1>1. /\ pc = "copy" /\ i >= m_length /\ left' = left /\ size' = size
      /\ i' = 0 /\ pc' = "close" /\ m_sequence' = m_sequence /\ duration' = i /\ input' = input
  BY DEF ReturnFull, Return, CopySegment, indexVars
<1>2. m_block \in Nat \ {0} /\ m_length \in Nat /\ MaxSegments \in Nat
  BY ByteCountAssumption, Assumptions DEF SegmenterAssumption
<1>3. ByteTypes' /\ i = m_length
  BY <1>1, <1>2 DEF ByteInv, ByteTypes
<1>4. Full(m_sequence)
  BY <1>1, <1>3 DEF ByteInv, SizeInv, Full, WholeSegment
<1>5. SizeInv'
  BY <1>1, <1>2, <1>3, <1>4
  DEF ByteInv, ByteTypes, SizeInv, Going, Stopping, Between, Made, Full, Rest
<1> QED  BY <1>3, <1>5 DEF ByteInv

(* What main() and the index do changes the phase, and counts the segment. *)
LEMMA MainStepTo ==
  ASSUME ByteTypes, MainStep
  PROVE  /\ UNCHANGED byteVars /\ duration' = duration
         /\ \/ /\ m_sequence' = m_sequence
               /\ \/ pc = "begin" /\ pc' = "open"
                  \/ pc = "open" /\ pc' \in {"key", "copy"} /\ m_sequence <= MaxSegments
                  \/ pc = "key" /\ pc' = "copy"
                  \/ pc = "close" /\ pc' = "add"
                  \/ pc = "wait" /\ pc' = "wait"
                  \/ pc = "wait" /\ pc' = IF duration > 0 THEN "open" ELSE "end"
                  \/ pc = "end" /\ pc' = "done"
                  \/ pc # "dead" /\ pc' = "dead"
            \/ pc = "add" /\ pc' = "wait" /\ m_sequence' = m_sequence + 1
<1> UNCHANGED byteVars
  BY DEF MainStep
<1>1. CASE BeginIndex
  BY <1>1 DEF BeginIndex, Begin, LiveBegin, indexVars, timeVars
<1>2. CASE OpenSegment
  <2>1. pc' \in {"key", "copy"}
    BY <1>2 DEF OpenSegment
  <2> QED  BY <1>2, <2>1 DEF OpenSegment, indexVars, timeVars
<1>3. CASE SwitchKey
  BY <1>3 DEF SwitchKey, indexVars, timeVars
<1>4. CASE CloseSegment
  BY <1>4 DEF CloseSegment, indexVars
<1>5. CASE AddToIndex
  BY <1>5 DEF AddToIndex, LiveAddSegment, AddSegment, timeVars
<1>6. CASE IndexWorks
  <2>1. pc = "wait" /\ pc' = pc /\ duration' = duration
    BY <1>6 DEF IndexWorks, timeVars
  <2>2. m_sequence' = m_sequence
    BY <1>6 DEF IndexWorks, Flush, Trim, OpenTemp, WriteNext, CloseTemp, Rename, indexVars
  <2> QED  BY <2>1, <2>2
<1>7. CASE NextRound
  BY <1>7 DEF NextRound, indexVars, timeVars
<1>8. CASE EndIndex
  BY <1>8 DEF EndIndex, LiveEnd, End, timeVars
<1>9. CASE Die
  BY <1>9 DEF Die, indexVars, timeVars
<1> QED  BY <1>1, <1>2, <1>3, <1>4, <1>5, <1>6, <1>7, <1>8, <1>9 DEF MainStep, Works

(* No segment but the last two lacks anything, and but the last is empty.  *)
LEMMA FullNotEmpty ==
  ASSUME ByteInv, NEW n \in 1..MaxSegments, Full(n), m_length > 0
  PROVE  size[n] > 0
BY Blocks DEF Full, WholeSegment

LEMMA MainStepKeeps == ByteInv /\ MainStep => ByteInv'
<1> SUFFICES ASSUME ByteInv, MainStep PROVE ByteInv'
  OBVIOUS
<1>1. i' = i /\ left' = left /\ size' = size /\ duration' = duration /\ input' = input
  BY MainStepTo DEF ByteInv, byteVars
<1>2. MaxSegments \in Nat /\ m_length \in Nat
  BY Assumptions, ByteCountAssumption DEF SegmenterAssumption
<1>3. \A n \in 1..MaxSegments : Full(n)' = Full(n) /\ Rest(n)' = Rest(n)
  BY <1>1 DEF Full, Rest
<1>4. CASE pc = "add" /\ pc' = "wait" /\ m_sequence' = m_sequence + 1
  <2>1. ByteTypes' /\ i = 0
    BY <1>1, <1>2, <1>4 DEF ByteInv, ByteTypes, SizeInv
  <2>2. Made' = Made
    BY <1>4 DEF Made, ByteInv, ByteTypes
  <2>3. SizeInv'
    BY <1>1, <1>2, <1>4, <2>1, <2>2
    DEF ByteInv, ByteTypes, SizeInv, Going, Stopping, Between, Full, Rest
  <2> QED  BY <2>1, <2>3 DEF ByteInv
<1>5. CASE pc # "dead" /\ pc' = "dead" /\ m_sequence' = m_sequence
  <2>1. ByteTypes'
    BY <1>1, <1>2, <1>5 DEF ByteInv, ByteTypes
  <2>2. ASSUME NEW n \in 1 .. m_sequence-2
        PROVE  size[n] > 0
    <3>1. n \in 1..MaxSegments /\ Made \in {m_sequence, m_sequence - 1} /\ n < Made
      BY <1>2 DEF ByteInv, ByteTypes, Made
    <3>2. Going \/ Stopping
      BY <1>5 DEF Going, Stopping, Between, ByteInv, ByteTypes
    <3>3. m_length > 0 /\ (Full(n) \/ Rest(n))
      BY <1>2, <3>1, <3>2 DEF ByteInv, SizeInv, ByteTypes
    <3> QED  BY <3>1, <3>3, FullNotEmpty DEF Rest
  <2>3. SizeInv'
    BY <1>1, <1>5, <2>1, <2>2 DEF ByteInv, ByteTypes, SizeInv, Going, Stopping, Between
  <2> QED  BY <2>1, <2>3 DEF ByteInv
<1>6. CASE /\ m_sequence' = m_sequence
           /\ \/ pc = "begin" /\ pc' = "open"
              \/ pc = "open" /\ pc' \in {"key", "copy"} /\ m_sequence <= MaxSegments
              \/ pc = "key" /\ pc' = "copy"
              \/ pc = "close" /\ pc' = "add"
              \/ pc = "wait" /\ pc' = "wait"
              \/ pc = "wait" /\ pc' = IF duration > 0 THEN "open" ELSE "end"
              \/ pc = "end" /\ pc' = "done"
  <2>1. ByteTypes' /\ i = 0
    BY <1>1, <1>2, <1>6 DEF ByteInv, ByteTypes, SizeInv
  <2>2. Made' = Made
    BY <1>6 DEF Made, ByteInv, ByteTypes
  <2>3. (Going' => Going) /\ (Stopping' => Stopping) /\ pc' # "dead"
    BY <1>1, <1>6 DEF Going, Stopping, Between, ByteInv, ByteTypes
  <2>4. i * m_block = 0
    BY <2>1, Blocks
  <2>5. /\ pc' = "copy" => size[m_sequence] = i * m_block
        /\ pc' \notin {"copy", "close", "add", "dead"} /\ m_sequence <= MaxSegments
             => size[m_sequence] = 0
        /\ \A n \in 1..MaxSegments : n > m_sequence => size[n] = 0
    BY <1>6, <2>1, <2>4 DEF ByteInv, ByteTypes, SizeInv
  <2>6. Going' =>
          /\ m_length > 0 \/ Made = 0
          /\ \A n \in 1..Made : Full(n)' \/ (n = Made /\ Rest(n)')
    BY <1>1, <2>3 DEF ByteInv, SizeInv, Full, Rest
  <2>7. Stopping' =>
          /\ left = 0 \/ m_length = 0
          /\ m_length > 0 \/ Made = 1
          /\ \A n \in 1 .. Made-1 : Full(n)' \/ (n = Made-1 /\ Rest(n)')
    BY <1>1, <2>3 DEF ByteInv, SizeInv, Full, Rest
  <2>8. SizeInv'
    BY <1>1, <1>6, <2>1, <2>2, <2>3, <2>5, <2>6, <2>7 DEF SizeInv
  <2> QED  BY <2>1, <2>8 DEF ByteInv
<1> QED  BY <1>4, <1>5, <1>6, MainStepTo DEF ByteInv

LEMMA ByteStep == ByteInv /\ [ByteCountNext]_ByteCountVars => ByteInv'
<1>1. ByteInv /\ UNCHANGED ByteCountVars => ByteInv'
  BY DEF ByteCountVars, vars, byteVars, indexVars, timeVars, ByteInv, ByteTypes, SizeInv, Going,
     Stopping, Between, Made, Full, Rest
<1> QED
  BY <1>1, ReadBlockStep, ReadPartStep, ReturnFullStep, MainStepKeeps DEF ByteCountNext, CopyStep

(***************************************************************************)
(* What each segment has of the input.                                     *)
(***************************************************************************)

LEMMA WholeSegments ==
  /\ MaxSegments \in Nat \ {0} /\ WholeSegment \in Nat
  /\ 0 * WholeSegment = 0
  /\ \A k \in Nat : /\ k * WholeSegment \in Nat
                    /\ (k + 1) * WholeSegment = k * WholeSegment + WholeSegment
<1>1. WholeSegment \in Nat
  BY Blocks DEF WholeSegment
<1>2. \A b \in Nat : 0 * b = 0 /\ \A k \in Nat : k * b \in Nat /\ (k + 1) * b = k * b + b
  OBVIOUS
<1> QED  BY <1>1, <1>2, Assumptions DEF SegmenterAssumption

(* What has been read of a segment that is not full, with less than a block*)
(* more, is less than a segment.                                           *)
LEMMA PartOfSegment ==
  ASSUME NEW k \in Nat, k < m_length, NEW rest \in Nat, rest < m_block
  PROVE  k * m_block \in Nat /\ k * m_block + rest < WholeSegment
<1>1. m_length \in Nat /\ m_block \in Nat
  BY ByteCountAssumption
<1>2. \A b \in Nat, l \in Nat : k < l => (k + 1) * b <= l * b
  OBVIOUS
<1>3. (k + 1) * m_block <= WholeSegment /\ WholeSegment \in Nat
  BY <1>1, <1>2, Blocks DEF WholeSegment
<1> QED  BY <1>1, <1>3, Blocks

LEMMA PlaceTypes ==
  ASSUME ByteInv
  PROVE  /\ m_block \in Nat \ {0} /\ m_length \in Nat /\ ULong \in Nat \ {0}
         /\ left \in Nat /\ input \in Nat /\ i \in Nat /\ i <= m_length
         /\ m_sequence \in Nat \ {0} /\ duration \in Int
         /\ Made \in Nat /\ i * m_block \in Nat /\ Made * WholeSegment \in Nat
<1>1. /\ m_block \in Nat \ {0} /\ m_length \in Nat /\ ULong \in Nat \ {0}
      /\ InputSizes \subseteq Nat
  BY ByteCountAssumption, Assumptions DEF SegmenterAssumption
<1>2. /\ left \in Nat /\ input \in Nat /\ i \in Nat /\ i <= m_length
      /\ m_sequence \in Nat \ {0} /\ duration \in Int
  BY <1>1 DEF ByteInv, ByteTypes
<1>3. Made \in Nat
  BY <1>2 DEF Made
<1> QED  BY <1>1, <1>2, <1>3, Blocks, WholeSegments

LEMMA PlaceInit == ByteCountInit => PlaceInv
<1> SUFFICES ASSUME ByteCountInit PROVE PlaceInv
  OBVIOUS
<1>1. pc = "begin" /\ m_sequence = 1 /\ i = 0 /\ left = input /\ input \in Nat
  BY ByteCountAssumption DEF ByteCountInit, Init, ProgramInit, IndexInit
<1>2. Made = 0 /\ 0 * m_block = 0 /\ 0 * WholeSegment = 0
  BY <1>1, Blocks, WholeSegments DEF Made
<1> QED  BY <1>1, <1>2 DEF PlaceInv

(* The segment that the end of the input, or its full length, completes    *)
(* has its piece.                                                          *)
LEMMA PieceMade ==
  ASSUME ByteInv, PlaceInv, ReadPart \/ ReturnFull
  PROVE  /\ Made' = Made + 1 /\ m_sequence = Made + 1
         /\ size'[m_sequence] = Piece(m_sequence)
         /\ \A n \in 1..Made : size'[n] = size[n]
         /\ \/ left' = input - Made' * WholeSegment
            \/ left' = 0 /\ input <= Made' * WholeSegment
<1> USE PlaceTypes
<1> DEFINE part == i * m_block
           done == Made * WholeSegment
<1>1. /\ pc = "copy" /\ pc' = "close" /\ m_sequence' = m_sequence
  BY DEF ReadPart, ReturnFull, Return, CopySegment, indexVars
<1>2. /\ Made' = m_sequence /\ m_sequence = Made + 1 /\ m_sequence <= MaxSegments
      /\ size[m_sequence] = part /\ size \in [1..MaxSegments -> Nat]
  BY <1>1 DEF Made, ByteInv, ByteTypes, SizeInv
<1>3. /\ Made' * WholeSegment = done + WholeSegment
      /\ WholeSegment \in Nat /\ MaxSegments \in Nat
  BY <1>2, WholeSegments
<1>4. \/ input = done + part + left
      \/ left = 0 /\ i = 0 /\ input <= done
  BY <1>1 DEF PlaceInv
<1>5. Piece(m_sequence) = CASE done + WholeSegment <= input -> WholeSegment
                            [] done > input                 -> 0
                            [] OTHER                        -> input - done
  <2>1. m_sequence * WholeSegment = done + WholeSegment
    BY <1>2, <1>3
  <2>2. m_sequence - 1 = Made
    BY <1>2
  <2> QED  BY <2>1, <2>2 DEF Piece
<1>6. CASE ReadPart
  <2>1. /\ i < m_length /\ left < m_block /\ left' = 0
        /\ size' = [size EXCEPT ![m_sequence] = @ + left]
    BY <1>6 DEF ReadPart, Transfer
  <2>2. part \in Nat /\ part + left < WholeSegment /\ (i = 0 => part = 0)
    BY <2>1, PartOfSegment, Blocks
  <2>3. size'[m_sequence] = part + left /\ \A n \in 1..Made : size'[n] = size[n]
    <3>1. m_sequence \in 1..MaxSegments /\ \A n \in 1..Made : n \in 1..MaxSegments /\ n # m_sequence
      <4> HIDE DEF part, done
      <4>1. m_sequence = Made + 1 /\ Made \in Nat /\ m_sequence <= MaxSegments /\ MaxSegments \in Nat
        BY <1>2, <1>3
      <4> HIDE PlaceTypes
      <4> QED  BY <4>1
    <3> HIDE DEF part
    <3> QED  BY <1>2, <2>1, <3>1
  <2> HIDE DEF part, done
  <2>4. done \in Nat
    BY DEF done
  <2>5. part + left = Piece(m_sequence) /\ input <= done + WholeSegment
    <3>1. CASE input = done + part + left
      <4>1. ~(done + WholeSegment <= input) /\ ~(done > input) /\ input - done = part + left
        BY <1>3, <2>2, <2>4, <3>1
      <4> QED  BY <1>3, <1>5, <2>2, <2>4, <3>1, <4>1
    <3>2. CASE left = 0 /\ i = 0 /\ input <= done
      <4>1. ~(done + WholeSegment <= input) /\ part + left = 0 /\ (~(done > input) => input - done = 0)
        BY <1>3, <2>2, <2>4, <3>2
      <4> QED  BY <1>3, <1>5, <2>4, <3>2, <4>1
    <3> QED  BY <1>4, <3>1, <3>2
  <2> QED  BY <1>2, <1>3, <2>1, <2>3, <2>5
<1>7. CASE ReturnFull
  <2>1. left' = left /\ size' = size /\ i = m_length
    BY <1>7 DEF ReturnFull
  <2>2. part = WholeSegment
    BY <2>1 DEF WholeSegment
  <2> HIDE DEF part, done
  <2>3. done \in Nat
    BY DEF done
  <2>4. CASE input = done + part + left
    <3>1. done + WholeSegment <= input /\ left' = input - (done + WholeSegment)
      BY <1>3, <2>1, <2>2, <2>3, <2>4
    <3>2. Piece(m_sequence) = WholeSegment /\ size'[m_sequence] = WholeSegment
      <4>1. Piece(m_sequence) = WholeSegment
        <5>1. ~(done > input)
          BY <1>3, <2>3, <3>1
        <5> HIDE PlaceTypes
        <5> QED  BY <1>5, <3>1, <5>1
      <4>2. size'[m_sequence] = WholeSegment
        <5> HIDE PlaceTypes
        <5> QED  BY <1>2, <2>1, <2>2
      <4> QED  BY <4>1, <4>2
    <3>3. left' = input - Made' * WholeSegment
      BY <1>3, <3>1
    <3> QED  BY <1>2, <2>1, <3>2, <3>3
  <2>5. CASE left = 0 /\ i = 0 /\ input <= done
    <3>1. part = 0
      BY <2>5, Blocks DEF part
    <3>2. Piece(m_sequence) = 0
      BY <1>3, <1>5, <2>2, <2>3, <2>5, <3>1
    <3> QED  BY <1>2, <1>3, <2>1, <2>2, <2>3, <2>5, <3>1, <3>2
  <2> QED  BY <1>4, <2>4, <2>5
<1> QED  BY <1>6, <1>7

LEMMA PlaceStep ==
  ASSUME ByteInv, PlaceInv, [ByteCountNext]_ByteCountVars
  PROVE  PlaceInv'
<1> USE PlaceTypes
<1>1. CASE ReadBlock
  <2>1. /\ pc = "copy" /\ left >= m_block /\ left' = left - m_block /\ i' = i + 1
        /\ pc' = pc /\ m_sequence' = m_sequence /\ input' = input
        /\ size' = [size EXCEPT ![m_sequence] = @ + m_block]
    BY <1>1 DEF ReadBlock, Transfer, vars, indexVars
  <2>2. Made' = Made /\ Made = m_sequence - 1 /\ size \in [1..MaxSegments -> Nat]
        /\ m_sequence <= MaxSegments /\ MaxSegments \in Nat
    BY <2>1, WholeSegments DEF Made, ByteInv, ByteTypes
  <2>3. \A n \in 1..Made : size'[n] = size[n] /\ Piece(n)' = Piece(n)
    BY <2>1, <2>2 DEF Piece
  <2>4. (i + 1) * m_block = i * m_block + m_block
    BY Blocks
  <2>5. left = input - Made * WholeSegment - i * m_block
    BY <2>1 DEF PlaceInv
  <2>6. Made' * WholeSegment = Made * WholeSegment /\ i' * m_block = i * m_block + m_block
    BY <2>1, <2>2, <2>4
  <2>7. left' = input' - Made' * WholeSegment - i' * m_block
    BY <2>1, <2>5, <2>6
  <2> QED  BY <2>2, <2>3, <2>7 DEF PlaceInv
<1>2. CASE ReadPart \/ ReturnFull
  <2>1. i' = 0 /\ input' = input
    BY <1>2 DEF ReadPart, ReturnFull, Return
  <2>2. 0 * m_block = 0 /\ Made' * WholeSegment \in Nat /\ \A n : Piece(n)' = Piece(n)
    <3>1. Made' \in Nat
      BY <1>2, PieceMade
    <3>2. \A n : Piece(n)' = Piece(n)
      BY <2>1 DEF Piece
    <3> HIDE PlaceTypes
    <3> QED  BY <3>1, <3>2, Blocks, WholeSegments
  <2>3. \A n \in 1..Made' : size'[n] = Piece(n)'
    BY <1>2, <2>2, PieceMade DEF PlaceInv
  <2>4. \/ left' = input' - Made' * WholeSegment - i' * m_block
        \/ left' = 0 /\ i' = 0 /\ input' <= Made' * WholeSegment
    BY <1>2, <2>1, <2>2, PieceMade
  <2> QED  BY <2>3, <2>4 DEF PlaceInv
<1>3. CASE MainStep \/ UNCHANGED ByteCountVars
  <2>1. i' = i /\ left' = left /\ input' = input /\ size' = size
    BY <1>3, MainStepTo DEF ByteInv, byteVars, ByteCountVars
  <2>0. Made \in Nat
    OBVIOUS
  <2>2. /\ Made' \in Nat /\ Made' <= Made
        /\ pc' # "dead" => pc # "dead" /\ Made' = Made
    <3>1. CASE MainStep
      <4> HIDE PlaceTypes
      <4>1. ByteTypes /\ m_sequence \in Nat \ {0}
        BY DEF ByteInv, ByteTypes
      <4>2. \/ /\ m_sequence' = m_sequence
               /\ \/ pc' = "dead"
                  \/ /\ pc' # "dead" /\ pc # "dead"
                     /\ pc \in {"close", "add"} <=> pc' \in {"close", "add"}
            \/ pc = "add" /\ pc' = "wait" /\ m_sequence' = m_sequence + 1
        BY <3>1, <4>1, MainStepTo
      <4> QED  BY <4>1, <4>2 DEF Made
    <3>2. CASE UNCHANGED ByteCountVars
      BY <3>2 DEF ByteCountVars, vars, indexVars, Made
    <3> QED  BY <1>3, <3>1, <3>2
  <2>3. \A n \in 1..Made' : size'[n] = Piece(n)'
    <3>1. \A n : Piece(n)' = Piece(n)
      BY <2>1 DEF Piece
    <3>2. \A n \in 1..Made' : n \in 1..Made
      <4> HIDE PlaceTypes
      <4> QED  BY <2>0, <2>2
    <3> HIDE PlaceTypes
    <3> QED  BY <2>1, <3>1, <3>2 DEF PlaceInv
  <2>4. pc' # "dead" =>
          \/ left' = input' - Made' * WholeSegment - i' * m_block
          \/ left' = 0 /\ i' = 0 /\ input' <= Made' * WholeSegment
    <3> HIDE PlaceTypes
    <3> QED  BY <2>1, <2>2 DEF PlaceInv
  <2> QED  BY <2>3, <2>4 DEF PlaceInv
<1> QED  BY <1>1, <1>2, <1>3 DEF ByteCountNext, CopyStep

LEMMA SplitEvenly == ByteInv /\ PlaceInv => InputIsSplitEvenly
<1> SUFFICES ASSUME ByteInv, PlaceInv PROVE InputIsSplitEvenly
  OBVIOUS
<1>1. \A n \in 1 .. m_sequence - 1 : n \in 1..Made
  BY DEF Made, ByteInv, ByteTypes
<1>2. pc = "done" => left = 0 \/ m_length = 0
  BY DEF ByteInv, SizeInv, Stopping
<1> QED  BY <1>1, <1>2 DEF PlaceInv, InputIsSplitEvenly

(* Of every input, each segment that is listed has exactly its piece: the  *)
(* segments are full until the one that the input ends in, and the program *)
(* that ends has put the whole input into them.                            *)
THEOREM AllIsSplitEvenly == ByteCountSpec => []InputIsSplitEvenly
<1>1. ByteCountInit => ByteInv /\ PlaceInv
  BY ByteInit, PlaceInit
<1>2. ByteInv /\ PlaceInv /\ [ByteCountNext]_ByteCountVars => (ByteInv /\ PlaceInv)'
  BY ByteStep, PlaceStep
<1> QED  BY <1>1, <1>2, SplitEvenly, PTL DEF ByteCountSpec

LEMMA OneEmpty == ByteInv => AtMostOneEmpty
<1> SUFFICES ASSUME ByteInv PROVE AtMostOneEmpty
  OBVIOUS
<1> DEFINE empty == {n \in 1 .. m_sequence - 1 : size[n] = 0}
<1>1. m_sequence \in Nat \ {0} /\ m_sequence <= MaxSegments + 1 /\ MaxSegments \in Nat /\ m_length \in Nat
  BY Assumptions, ByteCountAssumption DEF ByteInv, ByteTypes, SegmenterAssumption
<1>2. ASSUME NEW n \in 1 .. m_sequence - 2
      PROVE  size[n] > 0
  <2>1. n \in 1..MaxSegments /\ Made \in {m_sequence, m_sequence - 1} /\ n < Made
    BY <1>1 DEF ByteInv, ByteTypes, Made
  <2>2. Going \/ Stopping \/ pc = "dead"
    BY DEF Going, Stopping, Between, ByteInv, ByteTypes
  <2>3. CASE pc = "dead"
    BY <2>3 DEF ByteInv, SizeInv
  <2>4. CASE Going \/ Stopping
    <3>1. m_length > 0 /\ (Full(n) \/ Rest(n))
      BY <1>1, <2>1, <2>4 DEF ByteInv, SizeInv, ByteTypes
    <3> QED  BY <2>1, <3>1, FullNotEmpty DEF Rest
  <2> QED  BY <2>2, <2>3, <2>4
<1>3. empty \subseteq {m_sequence - 1}
  BY <1>1, <1>2
<1>4. IsFiniteSet({m_sequence - 1}) /\ Cardinality({m_sequence - 1}) = 1
  BY FS_Singleton
<1>5. Cardinality(empty) <= 1
  BY <1>3, <1>4, FS_Subset
<1> QED  BY <1>5 DEF AtMostOneEmpty

(* However the input ends, no two segments that are listed are empty.      *)
THEOREM OneIsEmpty == ByteCountSpec => []AtMostOneEmpty
BY ByteInit, ByteStep, OneEmpty, PTL DEF ByteCountSpec

(***************************************************************************)
(* ByteCount keeps the contract of Segmenter.hpp for inputs that end       *)
(* evenly: what has been proved of the program with any segmenting module  *)
(* that keeps it holds of those.                                           *)
(***************************************************************************)

(* The input ends within the segments that the model has names for.        *)
InputFits ==
  /\ InputSizes \subseteq 0 .. (MaxSegments - 1) * WholeSegment
  /\ 0..m_length \subseteq Durations

(* At the last segment that there is a name for the input is over.         *)
LEMMA InputEnds ==
  ASSUME InputFits, ByteInv, PlaceInv, pc = "copy", m_sequence = MaxSegments
  PROVE  left = 0 /\ i * m_block = 0
<1>1. Made = MaxSegments - 1 /\ (MaxSegments - 1) * WholeSegment \in Nat
  BY WholeSegments DEF Made
<1>2. PICK whole \in Nat, part \in Nat :
        whole = (MaxSegments - 1) * WholeSegment /\ part = i * m_block
  BY <1>1, PlaceTypes
<1>3. left \in Nat /\ input \in Nat /\ input <= whole
  BY <1>2, PlaceTypes DEF InputFits, ByteInv, ByteTypes
<1>4. left = input - whole - part \/ (left = 0 /\ i = 0)
  BY <1>1, <1>2 DEF PlaceInv
<1> QED  BY <1>2, <1>3, <1>4, Blocks

(* An input that ends evenly ends between two calls.                       *)
LEMMA EndsBetweenCalls ==
  ASSUME ByteInv, PlaceInv, ReadPart, EndsEvenly
  PROVE  i = 0
<1> USE PlaceTypes
<1>1. pc = "copy" /\ i < m_length /\ left < m_block
  BY DEF ReadPart
<1>2. SUFFICES ASSUME i # 0, left = input - Made * WholeSegment - i * m_block
               PROVE  FALSE
  BY <1>1 DEF PlaceInv
<1>3. PICK k \in 0..MaxSegments : input - k * WholeSegment \in 0 .. m_block-1
  BY DEF EndsEvenly
<1>4. PICK part \in Nat : part = i * m_block /\ part + left < WholeSegment /\ part >= m_block
  <2>1. i - 1 \in Nat /\ i = (i - 1) + 1
    BY <1>2
  <2>2. i * m_block = (i - 1) * m_block + m_block /\ (i - 1) * m_block \in Nat
    BY <2>1, Blocks
  <2> QED  BY <1>1, <2>2, PartOfSegment
<1>5. k \in Nat /\ k * WholeSegment \in Nat /\ WholeSegment \in Nat
  BY <1>3, WholeSegments
<1>6. \A S \in Nat, a \in Nat, b \in Nat : a < b => a * S + S <= b * S
  OBVIOUS
<1>7. CASE k = Made
  BY <1>2, <1>3, <1>4, <1>5, <1>7
<1>8. CASE k < Made
  <2>1. k * WholeSegment + WholeSegment <= Made * WholeSegment
    BY <1>5, <1>6, <1>8
  <2> QED  BY <1>2, <1>3, <1>4, <1>5, <2>1
<1>9. CASE Made < k
  <2>1. Made * WholeSegment + WholeSegment <= k * WholeSegment
    BY <1>5, <1>6, <1>9
  <2> QED  BY <1>2, <1>3, <1>4, <1>5, <2>1
<1> QED  BY <1>5, <1>7, <1>8, <1>9

LEMMA ByteCountStep ==
  ASSUME InputFits, ByteInv, PlaceInv, [ByteCountNext]_ByteCountVars, EndsEvenly
  PROVE  [Next]_vars
<1> USE PlaceTypes
<1>1. ASSUME NEW d \in Durations, NEW bad \in BOOLEAN, bad => DiskMayFail /\ Crypto # 0,
             CopySegment(d, AbsVal(d), bad), m_sequence = MaxSegments => d <= 0
      PROVE  Next
  BY <1>1 DEF Next, Copies
<1>2. CASE ReadBlock
  BY <1>2 DEF ReadBlock
<1>3. CASE ReadPart
  <2>1. i = 0 /\ Negated(i) = 0 /\ AbsVal(0) = 0 /\ 0 \in Durations
    BY <1>3, EndsBetweenCalls DEF Negated, AbsVal, InputFits
  <2>2. PICK bad \in BOOLEAN : (bad => DiskMayFail /\ Crypto # 0) /\ CopySegment(0, 0, bad)
    BY <1>3, <2>1 DEF ReadPart, Return
  <2>3. Next
    BY <1>1, <2>1, <2>2
  <2> QED  BY <2>3
<1>4. CASE ReturnFull
  <2>1. pc = "copy" /\ i >= m_length /\ i \in Durations /\ AbsVal(i) = i
    BY <1>4 DEF ReturnFull, AbsVal, InputFits
  <2>2. PICK bad \in BOOLEAN : (bad => DiskMayFail /\ Crypto # 0) /\ CopySegment(i, i, bad)
    BY <1>4 DEF ReturnFull, Return
  <2>3. m_sequence = MaxSegments => i <= 0
    <3>1. i > 0 => i * m_block > 0
      BY Blocks
    <3> QED  BY <2>1, <3>1, InputEnds
  <2>4. CopySegment(i, AbsVal(i), bad)
    BY <2>1, <2>2
  <2>5. Next
    BY <1>1, <2>1, <2>2, <2>3, <2>4
  <2> QED  BY <2>5
<1>5. CASE MainStep
  BY <1>5 DEF MainStep, Next
<1>6. CASE UNCHANGED ByteCountVars
  BY <1>6 DEF ByteCountVars
<1> QED  BY <1>2, <1>3, <1>4, <1>5, <1>6 DEF ByteCountNext, CopyStep

(* With an input that ends evenly ByteCount is one of the modules that     *)
(* main() is proved correct with.                                          *)
THEOREM ByteCountIsSegmenter ==
  ASSUME InputFits
  PROVE  ByteCountSpec => KeepsContract
<1>1. ByteCountInit => Init /\ ByteInv /\ PlaceInv
  BY ByteInit, PlaceInit DEF ByteCountInit
<1>2. ByteInv /\ PlaceInv /\ [ByteCountNext]_ByteCountVars => (ByteInv /\ PlaceInv)'
  BY ByteStep, PlaceStep
<1>3. ByteInv /\ PlaceInv /\ [ByteCountNext]_ByteCountVars => [EndsEvenly => Next]_vars
  BY ByteCountStep
<1> QED  BY <1>1, <1>2, <1>3, PTL DEF ByteCountSpec, KeepsContract
=============================================================================
