------------------------- MODULE SegmenterProperties -------------------------
(***************************************************************************)
(* What makes the segmenter correct, seen by those who read its files.     *)
(***************************************************************************)
EXTENDS SegmenterMain

(* The published index is one that the present start of the program wrote. *)
Published == playlist # NoFile /\ HasHeader(playlist) /\ playlist[1].run = run

Listed == IF playlist = NoFile THEN {} ELSE Segments(playlist)

Governed(lines) ==
  \A i \in Segments(lines) : InForce(lines, i, KeyTag(lines[i].seg), DefaultTag)

(* IndexFile::WriteSegment leaves the KEY line out when the tag is that of *)
(* the segment before, IndexFile::WriteHeader forgets the tag: a reader of *)
(* any published index applies to each segment the very tag it was given.  *)
KeyInForce == playlist # NoFile => Governed(playlist)

PlayableAs(file, seg, n) ==
  /\ file.run = run
  /\ file.n = n
  /\ IF KeyTag(seg) = DefaultTag
       THEN file.key = NoKey
       ELSE seg.key_uri \in KeyUris /\ file.key = key_files[seg.key_uri]

(* Whatever a published index lists can be played: the file found under    *)
(* the URI is the one written for that entry by this start of the program, *)
(* its number (the IV of its encryption, main.cpp:182) is the one a reader *)
(* computes from EXT-X-MEDIA-SEQUENCE, and its key is the one in the key   *)
(* file that the entry names.                                              *)
ListedSegmentsPlayable ==
  Published =>
    \A i \in Listed :
      LET seg == playlist[i].seg IN
      files[seg.uri] # NoFile =>
        PlayableAs(files[seg.uri], seg, NumberOf(playlist, i))

(* Only complete files are listed: main() closes a segment before it calls *)
(* AddSegment, and an error on a plain segment file ends the program.      *)
ListedSegmentsWhole ==
  Published =>
    \A i \in Listed :
      LET file == files[playlist[i].seg.uri] IN file # NoFile => file.whole

(* AddSegment of the live index removes the oldest file before it replaces *)
(* the index, so that a listed file may be missing; but it is the first of *)
(* the list, and only between those two calls (or after death in between). *)
OnlyOldestMissing ==
  Published =>
    \A i \in Listed :
      files[playlist[i].seg.uri] = NoFile =>
        /\ Live
        /\ \A j \in Listed : i <= j
        /\ index_pc \in {"trim", "write", "rename"}

OwnFiles == {u \in Uris : files[u] # NoFile /\ files[u].run = run}

(* A live stream does not fill the disk: at most the window and the one    *)
(* segment being written are there (IndexFileLive.cpp:26-31).              *)
BoundedDisk == Live => Cardinality(OwnFiles) <= NumSegments + 1

(* Whenever main() is at work on a segment, the index lists the one before *)
(* it, under the number that Sequence() gave it.                           *)
IndexUpToDate ==
  pc \in {"open", "key", "copy", "close", "add"} /\ m_sequence > 1 =>
    /\ Published
    /\ NumberOf(playlist, Len(playlist) + 1) = m_sequence
    /\ m_sequence - 1 \in {NumberOf(playlist, i) : i \in Listed} \/ NumSegments = 0

(* The second that main.cpp:191 adds to the last segment, when it is given.*)
Additional ==
  IF duration <= 0 /\ pc \in {"add", "wait", "end", "done"} THEN 1 ELSE 0

(* main.cpp:189-190 carries the rounding error over to the next segment:   *)
(* the seconds that AddSegment is given never drift from the seconds copied*)
(* by more than the half second of one rounding, and, once the last segment*)
(* is rounded, by the one additional second of main.cpp:191.               *)
ListedTimeTracksTotal ==
  pc # "dead" => 2 * AbsVal(total - Scale * (listed - Additional)) <= Scale

(* The rounded duration is an int that IndexFile takes as unsigned long:   *)
(* while copy_segment reports what it has copied, in numbers that fit an   *)
(* int, what is listed is never a negative number turned into a huge one.  *)
(* ByteCount.cpp:41, ADTS.cpp:65 and MP3.cpp:90 report huge numbers; what  *)
(* main() makes of those is in the program ByteCount.                      *)
NoDurationWraps == \A i \in Listed : playlist[i].seg.duration <= IntMax

(* main.cpp:70-71 promises "Encrypt the output segments; switch keys every *)
(* specified number of segments": every encrypted segment that is listed   *)
(* comes with the URI of a key file.                                       *)
EncryptedSegmentsHaveKey ==
  \A i \in Listed :
    playlist[i].seg.crypto_method # "NONE" => playlist[i].seg.key_uri \in KeyUris

(***************************************************************************)
(* The published index implements the abstract list of segments.           *)
(***************************************************************************)
Lines == IF playlist = NoFile THEN <<>> ELSE playlist

(* The segments of a text, without the numbers.                            *)
LineOf(lines, k) ==
  CHOOSE i \in Segments(lines) : Cardinality(SegmentsUpTo(lines, i)) = k
Entries(lines) ==
  [k \in 1 .. Cardinality(Segments(lines)) |-> lines[LineOf(lines, k)].seg]

MaxEntries  == IF Live THEN NumSegments ELSE MaxSegments
Writer      == IF HasHeader(Lines) THEN Lines[1].run ELSE 0
FirstNumber == IF HasHeader(Lines) THEN Lines[1].first ELSE 1

ReaderView == INSTANCE SegmentWindow WITH
  Window  <- MaxEntries,
  writer  <- Writer,
  first   <- FirstNumber,
  entries <- Entries(Lines),
  ended   <- Ended(Lines)

(* A reader that polls the index, at any moment, sees a list that only     *)
(* moves forward; truncating, rewriting and renaming show through nowhere. *)
ReaderSeesWindow == ReaderView!Spec

(***************************************************************************)
(* Progress, while the program is alive.                                   *)
(***************************************************************************)
Gone == pc = "dead"

(* What copy_segment has copied gets listed, whatever comes after it.      *)
CopiedGetsListed ==
  \A n \in 1..MaxSegments :
    (pc = "close" /\ m_sequence = n)
      ~> (Gone \/ (Published /\ NumberOf(playlist, Len(playlist) + 1) > n))

(* A result <= 0 of copy_segment leads to an index marked as complete.     *)
EndOfStreamEndsIndex ==
  (pc = "close" /\ duration <= 0) ~> (Gone \/ (pc = "done" /\ Ended(Lines)))
=============================================================================
