---------------------------- MODULE IndexFileLive ----------------------------
(***************************************************************************)
(* The index file of a live stream: class IndexFileLive.  AddSegment()     *)
(* keeps the newest NumSegments segments, unlinks the files of the others, *)
(* writes the whole index anew into a temporary file and renames that over *)
(* the published one.  Each system call is a step of its own, so a reader  *)
(* may look at the files, and the program may die, between any two.        *)
(***************************************************************************)
EXTENDS IndexFile

CONSTANTS NumSegments   \* m_num_segments, from the option -L

VARIABLES
  m_segments,   \* the segments in the window, oldest first
  temp,         \* content of the file m_temp_filename, or NoFile
  files,        \* the segment files: uri -> content or NoFile
  iter          \* position of the loop that writes the segments

liveVars == <<m_segments, temp, iter>>

(* Variant: the files stay. *)
m_unlink_never == FALSE

(* main() always asks for the files that leave the window to be removed.   *)
m_unlink == TRUE

LiveInit ==
  /\ m_segments = <<>>
  /\ iter = 1

(* The class overrides Begin with an empty method. *)
LiveBegin == UNCHANGED <<indexVars, liveVars, files>>

LiveAddSegment(seg) ==
  /\ index_pc = "idle"
  /\ m_sequence' = m_sequence + 1
  /\ m_segments' = Append(m_segments, seg)
  /\ index_pc' = "trim"
  /\ UNCHANGED <<m_prev_crypto, m_out, playlist, temp, iter, files>>

(* Variant: pop_front before the unlink. *)
Trim_PopsFirst ==
  /\ index_pc = "trim"
  /\ Len(m_segments) > NumSegments
  /\ files' = [files EXCEPT ![m_segments[2].uri] = NoFile]
  /\ m_segments' = Tail(m_segments)
  /\ UNCHANGED <<indexVars, temp, iter>>

(* One round of the loop that shrinks the window. *)
Trim ==
  /\ index_pc = "trim"
  /\ Len(m_segments) > NumSegments
  /\ files' = IF m_unlink
                THEN [files EXCEPT ![Head(m_segments).uri] = NoFile]
                ELSE files
  /\ m_segments' = Tail(m_segments)
  /\ UNCHANGED <<indexVars, temp, iter>>

(* Variants: an off-by-one, and a window taken for full.                   *)
OpenTempAt(first) ==
  /\ index_pc = "trim"
  /\ Len(m_segments) <= NumSegments
  /\ temp' = <<>>
  /\ WriteHeader(first)
  /\ iter' = 1
  /\ index_pc' = "write"
  /\ UNCHANGED <<m_sequence, m_segments, playlist, files>>
OpenTemp_OffByOne == OpenTempAt(m_sequence - Len(m_segments) + 1)
OpenTemp_Full     == OpenTempAt(m_sequence - NumSegments)

(* Opening truncates the temporary file; what reaches it before the close  *)
(* is unobserved, because the file is not published.                       *)
OpenTemp ==
  /\ index_pc = "trim"
  /\ Len(m_segments) <= NumSegments
  /\ temp' = <<>>
  /\ WriteHeader(m_sequence - Len(m_segments))
  /\ iter' = 1
  /\ index_pc' = "write"
  /\ UNCHANGED <<m_sequence, m_segments, playlist, files>>

WriteNext ==
  /\ index_pc = "write"
  /\ iter <= Len(m_segments)
  /\ WriteSegment(m_segments[iter])
  /\ iter' = iter + 1
  /\ UNCHANGED <<m_sequence, m_segments, playlist, temp, files, index_pc>>

CloseTemp ==
  /\ index_pc = "write"
  /\ iter > Len(m_segments)
  /\ temp' = temp \o m_out
  /\ m_out' = <<>>
  /\ index_pc' = "rename"
  /\ UNCHANGED <<m_sequence, m_prev_crypto, m_segments, playlist, files, iter>>

(* Variant: as on systems where rename fails when its target exists, with  *)
(* the failure ignored.                                                    *)
Rename_KeepsOld ==
  /\ index_pc = "rename"
  /\ playlist' = IF playlist = NoFile THEN temp ELSE playlist
  /\ temp' = NoFile
  /\ index_pc' = "idle"
  /\ UNCHANGED <<m_sequence, m_prev_crypto, m_out, m_segments, files, iter>>

Rename ==
  /\ index_pc = "rename"
  /\ playlist' = temp
  /\ temp' = NoFile
  /\ index_pc' = "idle"
  /\ UNCHANGED <<m_sequence, m_prev_crypto, m_out, m_segments, files, iter>>

(* Variant: opened without ios_base::app. *)
LiveEnd_Truncates ==
  /\ index_pc = "idle"
  /\ playlist' = <<EndLine>>
  /\ UNCHANGED <<m_sequence, m_prev_crypto, m_out, index_pc, liveVars, files>>

(* End() opens the published file for appending and calls IndexFile::End.  *)
LiveEnd ==
  /\ End
  /\ UNCHANGED <<liveVars, files>>
=============================================================================
