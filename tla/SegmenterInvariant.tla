------------------------- MODULE SegmenterInvariant -------------------------
(***************************************************************************)
(* The inductive strengthenings of the properties that                     *)
(* SegmenterMain_proofs proves.                                            *)
(***************************************************************************)
EXTENDS SegmenterProperties

(* What main() and the methods of the index know at each of their places.  *)
Control ==
  /\ pc \in {"key", "copy", "close", "add"} =>
       m_sequence <= MaxSegments /\ out_filename \in Uris
  /\ pc \notin {"wait", "dead"} => index_pc = "idle"
  /\ pc \in {"wait", "end"} => m_sequence > 1
  /\ pc = "begin" => m_out = <<>> /\ m_sequence = 1
  /\ Len(m_segments) < m_sequence
  /\ IF Live
       THEN /\ index_pc # "flush"
            /\ index_pc # "write" => m_out = <<>>
            /\ index_pc = "write" => temp = <<>>
            /\ index_pc = "rename" => temp \in Seq(Line)
            /\ pc \notin {"begin", "dead"} /\ m_sequence > 1 /\ index_pc = "idle"
                 => playlist \in Seq(Line)
       ELSE /\ index_pc \in {"idle", "flush"}
            /\ pc \notin {"begin", "dead"} => playlist \in Seq(Line)

TypeInv == TypeOK /\ Control

(* The next segment line at the end of lines would be read under m_prev_crypto. *)
Continues(lines) ==
  /\ Governed(lines)
  /\ InForce(lines, Len(lines) + 1, m_prev_crypto, DefaultTag)

KeyInv ==
  /\ KeyInForce
  /\ temp # NoFile => Governed(temp)
  /\ Live /\ index_pc = "write" => Continues(m_out)
  /\ ~Live /\ pc \notin {"begin", "dead"} => Continues(playlist \o m_out)

(* No segment comes near to lasting as many seconds as the largest int.    *)
DurationsFit == \A d \in Durations : AbsVal(d) + 2*Scale <= Scale*IntMax

TimeInv ==
  /\ ListedTimeTracksTotal
  /\ \/ pc \in {"begin", "open", "key", "copy", "close"}
     \/ pc \in {"add", "wait"} /\ duration > 0
     => duration_acc_error = total - Scale*listed
  /\ pc \in {"close", "add", "wait"} => duration \in Durations
  /\ pc = "close" => copied = AbsVal(duration)
  /\ pc = "add" => rounded_duration \in 0..IntMax

FitsInt(lines) == \A i \in Segments(lines) : lines[i].seg.duration <= IntMax

(* No segment on its way into the index has a duration that has wrapped.   *)
DurationInv ==
  /\ NoDurationWraps
  /\ temp # NoFile => FitsInt(temp)
  /\ FitsInt(m_out)
  /\ \A j \in 1..Len(m_segments) : m_segments[j].duration <= IntMax

(***************************************************************************)
(* The numbers of segments, and what an index lists under them.            *)
(***************************************************************************)

(* With -c 1 no key is ever made.                                          *)
SwitchesKeys == Crypto \notin {0, 1}

(* Segment n is encrypted with the key made for segment k.                 *)
KeyOf(k, n) ==
  /\ k \in 1..n
  /\ k % Crypto = 1
  /\ \A j \in k+1 .. n : j % Crypto # 1

(* seg is what AddSegment is given for segment number n.                   *)
IsSegment(seg, n) ==
  /\ n \in 1..MaxSegments
  /\ seg.uri = Filename[n]
  /\ Crypto = 0 => KeyTag(seg) = DefaultTag
  /\ SwitchesKeys =>
       /\ seg.crypto_method = "AES-128"
       /\ \E k \in 1..n : KeyOf(k, n) /\ seg.key_uri = KeyFilename[k]

(* A text of this start that lists exactly the segments first .. after-1.  *)
Numbered(lines, first, after) ==
  /\ HasHeader(lines)
  /\ lines[1].run = run
  /\ lines[1].first = first
  /\ NumberOf(lines, Len(lines) + 1) = after
  /\ \A i \in Segments(lines) : IsSegment(lines[i].seg, NumberOf(lines, i))
  /\ \A n \in first .. after-1 : \E i \in Segments(lines) : NumberOf(lines, i) = n

(* The number of the oldest segment that the live index remembers.         *)
WindowStart == m_sequence - Len(m_segments)

(* What a text lists of the window is what the live index remembers of it. *)
Mirrors(lines) ==
  \A i \in Segments(lines) :
    NumberOf(lines, i) >= WindowStart =>
      lines[i].seg = m_segments[NumberOf(lines, i) - WindowStart + 1]

(* How many segments are in the window after n were added.                 *)
InWindow(n) == IF n < NumSegments THEN n ELSE NumSegments

(* How many segments the published index of a live stream has seen.        *)
Seen == IF index_pc = "idle" THEN m_sequence - 1 ELSE m_sequence - 2

LiveInv ==
  /\ \A j \in 1..Len(m_segments) : IsSegment(m_segments[j], WindowStart + j - 1)
  /\ index_pc # "idle" => m_sequence > 1
  /\ IF index_pc = "trim"
       THEN Len(m_segments) \in {InWindow(Seen) + 1, InWindow(Seen + 1)}
       ELSE Len(m_segments) = InWindow(m_sequence - 1)
  /\ index_pc = "write" =>
       /\ iter <= Len(m_segments) + 1
       /\ Numbered(m_out, WindowStart, WindowStart + iter - 1)
       /\ Mirrors(m_out)
  /\ index_pc = "rename" => Numbered(temp, WindowStart, m_sequence) /\ Mirrors(temp)
  /\ IF Seen = 0
       THEN ~Published
       ELSE /\ Published
            /\ Numbered(playlist, Seen + 1 - InWindow(Seen), Seen + 1)
            /\ Mirrors(playlist)

(* The index of a complete stream, before Begin() and after it.            *)
VodInv ==
  \/ /\ pc \in {"begin", "dead"}
     /\ m_sequence = 1 /\ index_pc = "idle"
     /\ ~Published
  \/ /\ playlist \in Seq(Line)
     /\ Numbered(playlist \o m_out, 1, m_sequence)
     /\ IF Seen = 0 THEN playlist = <<>> ELSE Numbered(playlist, 1, Seen + 1)
     /\ m_sequence > 1 /\ index_pc = "idle" => m_out = <<>>

(* No index names a start of the program that is still to come.            *)
OldHeader(lines) == lines # NoFile /\ HasHeader(lines) => lines[1].run <= run

ListInv ==
  /\ OldHeader(playlist)
  /\ IF Live THEN LiveInv ELSE VodInv

(* Nothing follows the end of a list.                                      *)
EndInv ==
  /\ ~Ended(m_out)
  /\ index_pc = "rename" => ~Ended(temp)
  /\ Published /\ pc \notin {"done", "dead"} => ~Ended(playlist)

(***************************************************************************)
(* The files of the segments that are listed, or will be.                  *)
(***************************************************************************)

Unfailing == Crypto = 0 \/ ~DiskMayFail

(* The file of segment n is there, as this start of the program wrote it.  *)
Stored(n) ==
  LET file == files[Filename[n]] IN
  /\ file # NoFile
  /\ file.run = run
  /\ file.n = n
  /\ Crypto = 0 => file.key = NoKey
  /\ SwitchesKeys => \E k \in 1..n : KeyOf(k, n) /\ file.key = FreshKey(k)
  /\ Unfailing => file.whole

(* The key of segment n, and the name it has been stored under.            *)
HasKeyOf(n) ==
  \E k \in 1..n :
    KeyOf(k, n) /\ key = FreshKey(k) /\ key_filename = KeyFilename[k]

KeyFileInv ==
  /\ \A k \in 1..m_sequence :
       k % Crypto = 1 /\ (k = m_sequence => pc \in {"copy", "close", "add"})
         => key_files[KeyFilename[k]] = FreshKey(k)
  /\ pc = "key" => m_sequence % Crypto = 1
  /\ pc \in {"copy", "close", "add"} => HasKeyOf(m_sequence)
  /\ pc \in {"open", "key", "wait"} /\ m_sequence > 1 => HasKeyOf(m_sequence - 1)

(* The oldest segment that is still wanted.                                *)
KeptFrom == IF Live THEN WindowStart ELSE 1

(* The file that OpenSegment makes counts for the disk, all others are     *)
(* those of the window.                                                    *)
NewestOnDisk == IF index_pc = "idle" THEN m_sequence ELSE m_sequence - 1

FileInv ==
  /\ \A u \in Uris : files[u] # NoFile => files[u].run <= run
  /\ \A n \in KeptFrom .. m_sequence - 1 : Stored(n)
  /\ pc \in {"key", "copy", "close", "add"} => out_filename = Filename[m_sequence]
  /\ pc = "add" => Stored(m_sequence)
  /\ Unfailing => out_bad = FALSE
  /\ Live /\ index_pc # "idle" /\ Len(m_segments) = NumSegments /\ Seen >= NumSegments
       => files[Filename[m_sequence - 1 - NumSegments]] = NoFile
  /\ SwitchesKeys => KeyFileInv

DiskInv ==
  Live => \A u \in OwnFiles :
            \E n \in WindowStart .. NewestOnDisk : n <= MaxSegments /\ u = Filename[n]
=============================================================================
