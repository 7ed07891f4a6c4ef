------------------------------ MODULE ByteCount ------------------------------
(***************************************************************************)
(* The program ByteCount: main() with the segmenting module of             *)
(* Segmenter/ByteCount.cpp, which takes m_length blocks of m_block bytes   *)
(* for a segment and calls each block a second.                            *)
(***************************************************************************)
EXTENDS SegmenterProperties

CONSTANTS
  m_length, m_block,   \* options -l and -e
  InputSizes           \* how many bytes the input may have

VARIABLES
  i,        \* blocks read in this call of copy_segment
  left,     \* bytes left in the input
  input,    \* ghost: bytes in the whole input
  size      \* ghost: bytes copied into each segment, by its number

byteVars == <<i, left, input, size>>

ASSUME ByteCountAssumption ==
  /\ m_length \in Nat /\ m_block \in Nat \ {0} /\ Scale = 1
  /\ InputSizes \subseteq Nat

ByteCountInit ==
  /\ Init
  /\ i = 0
  /\ input \in InputSizes /\ left = input
  /\ size = [n \in 1..MaxSegments |-> 0]

(* in->read and out->write, for as many bytes as there are.                *)
Transfer(bytes) ==
  /\ left' = left - bytes
  /\ size' = [size EXCEPT ![m_sequence] = @ + bytes]

ReadBlock ==
  /\ pc = "copy"
  /\ i < m_length
  /\ left >= m_block
  /\ Transfer(m_block)
  /\ i' = i + 1
  /\ UNCHANGED <<vars, input>>

(* What has been copied are i whole blocks, a second each.                 *)
Return(result) ==
  /\ \E bad \in BOOLEAN :
       (bad => DiskMayFail /\ Crypto # 0) /\ CopySegment(result, i, bad)
  /\ i' = 0
  /\ UNCHANGED input

(* Variant: the block that lacks bytes is counted too. *)
Negated_CountsLast(n) == ULong

(* The unsigned negation of i, as the float that is returned: 0, or what   *)
(* rounds to the number of unsigned longs.                                 *)
Negated(n) == IF n = 0 THEN 0 ELSE ULong

(* Fewer bytes than a block, or none: eofbit, failbit, an exception caught.*)
ReadPart ==
  /\ pc = "copy"
  /\ i < m_length
  /\ left < m_block
  /\ Transfer(left)
  /\ Return(Negated(i))

(* Variant: a segment is full one block early. *)
ReturnFull_OneShort ==
  /\ pc = "copy"
  /\ i >= m_length - 1
  /\ Return(i)
  /\ UNCHANGED <<left, size>>

ReturnFull ==
  /\ pc = "copy"
  /\ i >= m_length
  /\ Return(i)
  /\ UNCHANGED <<left, size>>

CopyStep == ReadBlock \/ ReadPart \/ ReturnFull
MainStep == (Works \/ Die) /\ UNCHANGED byteVars

ByteCountNext == CopyStep \/ MainStep

ByteCountVars == <<vars, byteVars>>

ByteCountSpec == ByteCountInit /\ [][ByteCountNext]_ByteCountVars

(* The input is a file, or a pipe whose other side goes on writing.        *)
ByteCountFairSpec ==
  /\ ByteCountSpec
  /\ WF_ByteCountVars(CopyStep)
  /\ WF_ByteCountVars(Works /\ UNCHANGED byteVars)

WholeSegment == m_length * m_block

(* What segment n gets of the input when it is cut after each WholeSegment.*)
Piece(n) ==
  CASE n * WholeSegment <= input     -> WholeSegment
    [] (n-1) * WholeSegment > input  -> 0
    [] OTHER                         -> input - (n-1) * WholeSegment

(* Each segment in the index holds exactly its piece of the input, the     *)
(* last one whatever there is of it; and the program does not end before   *)
(* its input, unless it is asked for segments of no length.                *)
InputIsSplitEvenly ==
  /\ \A n \in 1 .. m_sequence - 1 : size[n] = Piece(n)
  /\ pc = "done" => left = 0 \/ m_length = 0

(* At most one of the segments that the index lists is empty, whether or   *)
(* not the input ends at the end of a block or of a segment.               *)
AtMostOneEmpty ==
  Cardinality({n \in 1 .. m_sequence - 1 : size[n] = 0}) <= 1

(* The program ends, some time after its input does.                       *)
ProgramEnds == <>(pc \in {"done", "dead"})

(* The entries of segments of full length list the m_length seconds of     *)
(* their blocks.  What main.cpp:189 makes of the huge result with which    *)
(* ByteCount.cpp:41 reports the input that ends inside a segment, the      *)
(* least or the largest int, is in the entry of that segment and in that of*)
(* the empty one after it, and in no other.                                *)
ListedAreBlocks ==
  \A n \in Listed :
    m_length > 0 /\ NumberOf(playlist, n) * WholeSegment <= input =>
      playlist[n].seg.duration = m_length

(* The input ends less than a block after the end of a segment: the only   *)
(* inputs of which ByteCount.cpp:41 reports the end as Segmenter.hpp asks. *)
EndsEvenly ==
  \E k \in 0..MaxSegments : input - k * WholeSegment \in 0 .. m_block-1

(* The contract of Segmenter.hpp, for inputs that end evenly: copy_segment *)
(* takes its turn only while main() waits for it, the absolute value of its*)
(* result is what it has copied, and it is <= 0 when the input is over,    *)
(* before MaxSegments segments have been made of it.                       *)
KeepsContract == Init /\ [][EndsEvenly => Next]_vars
=============================================================================
