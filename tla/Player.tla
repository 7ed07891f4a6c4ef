------------------------------- MODULE Player -------------------------------
(***************************************************************************)
(* How a media player reads an index file: the counterpart, outside this   *)
(* repository, of what IndexFile writes.  README.md names the protocol     *)
(* (draft-pantos-http-live-streaming-06); the fields are those that        *)
(* IndexFile.cpp emits, and only the reading rules the written tags rely   *)
(* on are stated here.                                                     *)
(*                                                                         *)
(* An index file is a sequence of lines:                                   *)
(*   HEADER   the three header tags, with the EXT-X-MEDIA-SEQUENCE value   *)
(*   KEY      EXT-X-KEY, the method and the URI of the key                 *)
(*   EXTINF   a segment: its duration and its URI                          *)
(*   ENDLIST  EXT-X-ENDLIST                                                *)
(* EXT-X-PROGRAM-DATE-TIME and the URI prefixes and suffixes are layout    *)
(* and are left out.                                                       *)
(***************************************************************************)
EXTENDS Naturals, Sequences, FiniteSets

(* A file that does not start with the header is no index. *)
HasHeader(lines) == lines # <<>> /\ lines[1].tag = "HEADER"

(* The positions of the first n lines that are segments. *)
SegmentsUpTo(lines, n) == {i \in 1..n : lines[i].tag = "EXTINF"}

Segments(lines) == SegmentsUpTo(lines, Len(lines))

(* The sequence number a player gives to the segment at position i: the    *)
(* media sequence of the header plus the number of segments before it.     *)
NumberOf(lines, i) ==
  lines[1].first + Cardinality(SegmentsUpTo(lines, i - 1))

(* The key that governs position i is the one of the closest KEY line      *)
(* above it, and nothing is encrypted (default) when there is none.        *)
InForce(lines, i, key, default) ==
  \/ \E k \in 1 .. i-1 :
       /\ lines[k].tag = "KEY"
       /\ lines[k].key = key
       /\ \A j \in k+1 .. i-1 : lines[j].tag # "KEY"
  \/ /\ key = default
     /\ \A j \in 1 .. i-1 : lines[j].tag # "KEY"

Ended(lines) == \E i \in 1 .. Len(lines) : lines[i].tag = "ENDLIST"
=============================================================================
