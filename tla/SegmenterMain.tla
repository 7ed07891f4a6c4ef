---------------------------- MODULE SegmenterMain ----------------------------
(***************************************************************************)
(* The program: main() of src/main.cpp from index->Begin() on, with the    *)
(* index of either class, the segment and key files it writes, its death   *)
(* at any point and its restart over the files it left.  The segmenting    *)
(* module is any that keeps the contract of Segmenter.hpp; the modules of  *)
(* the repository, which break it in places, are modelled in modules of    *)
(* their own.                                                              *)
(***************************************************************************)
EXTENDS IndexFileLive

CONSTANTS
  Live,           \* option -L given: the index is an IndexFileLive
  Crypto,         \* option -c: segments per key, 0 for no encryption
  Scale,          \* ticks per second: the unit of durations
  Durations,      \* what copy_segment may return, in ticks; <= 0 at the end
  IntMax,         \* largest value of the C++ type int
  ULong,          \* number of values of unsigned long
  Uris, Filename,         \* names of segment files, FileArray::Filename
  KeyUris, KeyFilename,   \* the same for key files
  NoKey,          \* what is not encrypted has no key
  DiskMayFail,    \* a write to an encrypting stream may fail
  MaxSegments,    \* bound: the input ends within so many segments
  MaxRuns         \* bound: how often the program is started

VARIABLES
  pc,                   \* where main() stands
  key, key_filename,    \* the array key and the name of its file
  key_files,            \* the key files: uri -> key or NoFile
  out_filename,         \* name of the segment file being written
  out_bad,              \* badbit of the encrypting stream
  duration,             \* result of the last copy_segment, in ticks
  copied,               \* ghost: ticks of the stream that it copied
  rounded_duration,     \* its value for the index, in seconds
  duration_acc_error,   \* ticks lost by rounding so far
  total, listed         \* ghosts: ticks copied by all calls, and seconds given
                        \* to the index

mainVars == <<key, key_filename, key_files, out_filename, out_bad>>
timeVars == <<duration, copied, rounded_duration, duration_acc_error, total,
              listed>>
vars == <<indexVars, liveVars, files, run, pc, mainVars, timeVars>>

AbsVal(x) == IF x < 0 THEN -x ELSE x

(* round(): to the nearest second, halves away from zero.                  *)
Round(x) == IF x >= 0 THEN (2*x + Scale) \div (2*Scale)
                      ELSE -((2*(-x) + Scale) \div (2*Scale))

(* Storing round() in an int: what does not fit is undefined behaviour;    *)
(* processors give the smallest int, or the int nearest to the value.      *)
IntOf(x) == IF x \in -IntMax-1 .. IntMax THEN {x} ELSE {-IntMax-1, IntMax}

SegmenterAssumption ==
  /\ Live \in BOOLEAN /\ DiskMayFail \in BOOLEAN
  /\ NumSegments \in Nat /\ Crypto \in Nat
  /\ Scale \in Nat \ {0} /\ Durations \subseteq Int
  /\ IntMax \in Nat /\ ULong \in Nat \ {0}
  /\ MaxSegments \in Nat \ {0} /\ MaxRuns \in Nat \ {0}

(* Names differ as long as their files are needed: in a live stream those  *)
(* of the window and the one being written, otherwise all.                 *)
NamesAssumption ==
  /\ Filename \in [1..MaxSegments -> Uris]
  /\ \A i, j \in 1..MaxSegments :
       i < j /\ (Live => j - i <= NumSegments) => Filename[i] # Filename[j]
  /\ KeyFilename \in [1..MaxSegments -> KeyUris]
  /\ \A i, j \in 1..MaxSegments : i # j => KeyFilename[i] # KeyFilename[j]
  /\ NoUri \notin KeyUris

ASSUME Assumptions == SegmenterAssumption /\ NamesAssumption

(* Keys are named for the start and the segment they were made in; number  *)
(* 0 is the content of the array before any key is made.                   *)
FreshKey(n) == <<run, n>>

(* A segment file: who wrote it, the sequence number it was written for    *)
(* (its encryption takes the number as IV), the key, and whether all of it *)
(* is there.                                                               *)
File(n, k, whole) == [run |-> run, n |-> n, key |-> k, whole |-> whole]

ProgramInit ==
  /\ IndexInit
  /\ LiveInit
  /\ pc = "begin"
  /\ key = FreshKey(0) /\ key_filename = NoUri
  /\ out_filename = NoUri /\ out_bad = FALSE
  /\ duration = 1 /\ rounded_duration = 0 /\ duration_acc_error = 0
  /\ copied = 0 /\ total = 0 /\ listed = 0

Init ==
  /\ run = 1
  /\ ProgramInit
  /\ playlist = NoFile /\ temp = NoFile
  /\ files = [u \in Uris |-> NoFile]
  /\ key_files = [u \in KeyUris |-> NoFile]

BeginIndex ==
  /\ pc = "begin"
  /\ IF Live THEN LiveBegin ELSE Begin /\ UNCHANGED <<liveVars, files>>
  /\ pc' = "open"
  /\ UNCHANGED <<run, mainVars, timeVars>>

(* For -c 1 this never holds: no number leaves remainder 1 modulo 1.       *)
SwitchesKey == Crypto # 0 /\ m_sequence % Crypto = 1

OpenSegment ==
  /\ pc = "open"
  /\ m_sequence <= MaxSegments
  /\ out_filename' = Filename[m_sequence]
  /\ files' = [files EXCEPT ![out_filename'] = File(m_sequence, NoKey, FALSE)]
  /\ pc' = IF SwitchesKey THEN "key" ELSE "copy"
  /\ UNCHANGED <<indexVars, liveVars, run, key, key_filename, key_files,
                 out_bad, timeVars>>

(* Variant: the name of the key file never changes.                        *)
SwitchKey_SameName ==
  /\ pc = "key"
  /\ key' = FreshKey(m_sequence)
  /\ key_filename' = KeyFilename[1]
  /\ key_files' = [key_files EXCEPT ![key_filename'] = key']
  /\ pc' = "copy"
  /\ UNCHANGED <<indexVars, liveVars, files, run, out_filename, out_bad,
                 timeVars>>

SwitchKey ==
  /\ pc = "key"
  /\ key' = FreshKey(m_sequence)
  /\ key_filename' = KeyFilename[m_sequence]
  /\ key_files' = [key_files EXCEPT ![key_filename'] = key']
  /\ pc' = "copy"
  /\ UNCHANGED <<indexVars, liveVars, files, run, out_filename, out_bad,
                 timeVars>>

(* Variant: added to the index before it is flushed and closed.            *)
CopySegment_NotClosed(d, ticks, bad) ==
  /\ pc = "copy"
  /\ duration' = d
  /\ copied' = ticks
  /\ out_bad' = bad
  /\ pc' = "add"
  /\ UNCHANGED <<indexVars, liveVars, files, run, key, key_filename,
                 key_files, out_filename, rounded_duration,
                 duration_acc_error, total, listed>>

(* copy_segment has copied so many ticks of the stream and returns d.      *)
(* A failing write to the plain file throws, which is a Die; the encrypting*)
(* stream catches the exception of the file below it, sets its own badbit  *)
(* and reports nothing, so that the segment lacks its end and its padding  *)
(* when a disk that was full has room again.                               *)
CopySegment(d, ticks, bad) ==
  /\ pc = "copy"
  /\ duration' = d
  /\ copied' = ticks
  /\ out_bad' = bad
  /\ pc' = "close"
  /\ UNCHANGED <<indexVars, liveVars, files, run, key, key_filename,
                 key_files, out_filename, rounded_duration,
                 duration_acc_error, total, listed>>

(* The contract of Segmenter.hpp: the absolute value of the result is the  *)
(* time copied, and a value <= 0 tells the end of the stream.              *)
Copies ==
  \E d \in Durations, bad \in BOOLEAN :
    /\ m_sequence = MaxSegments => d <= 0
    /\ bad => DiskMayFail /\ Crypto # 0
    /\ CopySegment(d, AbsVal(d), bad)

(* Variants: the error is not carried over; the last segment is not given  *)
(* its additional second.                                                  *)
CloseSegmentWith(carry, added) ==
  /\ pc = "close"
  /\ \E r \in IntOf(Round(AbsVal(duration) + duration_acc_error)) :
       /\ duration_acc_error' = carry * (duration_acc_error + duration - r*Scale)
       /\ rounded_duration' \in IF duration <= 0 THEN IntOf(r + added) ELSE {r}
       /\ listed' = listed + rounded_duration'
  /\ total' = total + copied
  /\ files' = [files EXCEPT ![out_filename] =
                 File(m_sequence, IF Crypto # 0 THEN key ELSE NoKey, ~out_bad)]
  /\ pc' = "add"
  /\ UNCHANGED <<indexVars, liveVars, run, mainVars, duration, copied>>
CloseSegment_NoCarry == CloseSegmentWith(0, 1)
CloseSegment_NoExtra == CloseSegmentWith(1, 0)

(* Rounding, then the flush and the close that complete the file.          *)
CloseSegment ==
  /\ pc = "close"
  /\ \E r \in IntOf(Round(AbsVal(duration) + duration_acc_error)) :
       /\ duration_acc_error' = duration_acc_error + duration - r*Scale
       /\ rounded_duration' \in IF duration <= 0 THEN IntOf(r + 1) ELSE {r}
       /\ listed' = listed + rounded_duration'
  /\ total' = total + copied
  /\ files' = [files EXCEPT ![out_filename] =
                 File(m_sequence, IF Crypto # 0 THEN key ELSE NoKey, ~out_bad)]
  /\ pc' = "add"
  /\ UNCHANGED <<indexVars, liveVars, run, mainVars, duration, copied>>

(* The arguments of AddSegment, the duration converted to unsigned long.   *)
NewSegment ==
  [duration      |-> rounded_duration % ULong,
   uri           |-> out_filename,
   crypto_method |-> IF Crypto # 0 THEN "AES-128" ELSE "NONE",
   key_uri       |-> IF Crypto # 0 THEN key_filename ELSE NoUri]

AddToIndex ==
  /\ pc = "add"
  /\ IF Live THEN LiveAddSegment(NewSegment)
             ELSE AddSegment(NewSegment) /\ UNCHANGED <<liveVars, files>>
  /\ pc' = "wait"
  /\ UNCHANGED <<run, mainVars, timeVars>>

IndexWorks ==
  /\ pc = "wait"
  /\ \/ Flush /\ UNCHANGED <<liveVars, files>>
     \/ Trim
     \/ OpenTemp
     \/ WriteNext
     \/ CloseTemp
     \/ Rename
  /\ UNCHANGED <<run, pc, mainVars, timeVars>>

(* Variant: a result of 0 does not end the stream.                         *)
NextRound_NegativeOnly ==
  /\ pc = "wait"
  /\ index_pc = "idle"
  /\ pc' = IF duration >= 0 THEN "open" ELSE "end"
  /\ UNCHANGED <<indexVars, liveVars, files, run, mainVars, timeVars>>

NextRound ==
  /\ pc = "wait"
  /\ index_pc = "idle"
  /\ pc' = IF duration > 0 THEN "open" ELSE "end"
  /\ UNCHANGED <<indexVars, liveVars, files, run, mainVars, timeVars>>

EndIndex ==
  /\ pc = "end"
  /\ IF Live THEN LiveEnd ELSE End /\ UNCHANGED <<liveVars, files>>
  /\ pc' = "done"
  /\ UNCHANGED <<run, mainVars, timeVars>>

(* A signal, or an exception of a stream: nothing in main() catches one.   *)
Die ==
  /\ pc \notin {"done", "dead"}
  /\ pc' = "dead"
  /\ UNCHANGED <<indexVars, liveVars, files, run, mainVars, timeVars>>

(* A new run begins with fresh variables over the files of the last one.   *)
Restart ==
  /\ pc \in {"done", "dead"}
  /\ run < MaxRuns
  /\ run' = run + 1
  /\ m_sequence' = 1 /\ m_prev_crypto' = DefaultTag /\ m_out' = <<>>
  /\ index_pc' = "idle" /\ m_segments' = <<>> /\ iter' = 1
  /\ pc' = "begin"
  /\ key' = <<run', 0>> /\ key_filename' = NoUri
  /\ out_filename' = NoUri /\ out_bad' = FALSE
  /\ duration' = 1 /\ rounded_duration' = 0 /\ duration_acc_error' = 0
  /\ copied' = 0 /\ total' = 0 /\ listed' = 0
  /\ UNCHANGED <<playlist, temp, files, key_files>>

(* Everything the program does on its own, once it has its input.          *)
Works ==
  \/ BeginIndex
  \/ OpenSegment
  \/ SwitchKey
  \/ CloseSegment
  \/ AddToIndex
  \/ IndexWorks
  \/ NextRound
  \/ EndIndex

Next == Works \/ Copies \/ Die \/ Restart

Spec == Init /\ [][Next]_vars

Segment == [duration : 0..ULong-1, uri : Uris,
            crypto_method : {"NONE", "AES-128"}, key_uri : KeyUris \cup {NoUri}]
Tag     == [method : {"NONE", "AES-128"}, uri : KeyUris \cup {NoUri}]
Keys    == (1..MaxRuns) \X (0..MaxSegments)
Contents ==
  [run : 1..MaxRuns, n : 1..MaxSegments, key : Keys \cup {NoKey}, whole : BOOLEAN]
Line ==
  [tag : {"HEADER"}, first : Nat, run : 1..MaxRuns]
    \cup [tag : {"KEY"}, key : Tag]
    \cup [tag : {"EXTINF"}, seg : Segment]
    \cup [tag : {"ENDLIST"}]

(* The absence of a file is none of the things a file can hold.            *)
ASSUME NoFileAssumption == NoFile \notin Seq(Line) \cup Contents

(* Every variable keeps its type, and the numbers their C++ range.         *)
TypeOK ==
  /\ run \in 1..MaxRuns
  /\ pc \in {"begin", "open", "key", "copy", "close", "add", "wait", "end",
             "done", "dead"}
  /\ index_pc \in {"idle", "flush", "trim", "write", "rename"}
  /\ m_sequence \in 1 .. MaxSegments+1
  /\ m_prev_crypto \in Tag
  /\ m_out \in Seq(Line)
  /\ playlist \in Seq(Line) \cup {NoFile}
  /\ temp \in Seq(Line) \cup {NoFile}
  /\ m_segments \in Seq(Segment)
  /\ iter \in Nat \ {0}
  /\ files \in [Uris -> Contents \cup {NoFile}]
  /\ key_files \in [KeyUris -> Keys \cup {NoFile}]
  /\ key \in Keys /\ key_filename \in KeyUris \cup {NoUri}
  /\ out_filename \in Uris \cup {NoUri} /\ out_bad \in BOOLEAN
  /\ duration \in Durations \cup {1} /\ rounded_duration \in -IntMax-1 .. IntMax
  /\ duration_acc_error \in Int
  /\ copied \in Nat /\ total \in Nat /\ listed \in Int

(* The program is one thread that only waits for its input.                *)
FairSpec == Spec /\ WF_vars(Works)
=============================================================================
