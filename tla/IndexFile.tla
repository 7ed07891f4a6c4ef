------------------------------ MODULE IndexFile ------------------------------
(***************************************************************************)
(* The index file of a complete (video on demand) stream: class IndexFile. *)
(* Begin() truncates the file, every AddSegment() appends one segment and  *)
(* flushes, End() appends the end tag and closes.  What the stream m_out   *)
(* has buffered is kept apart from what the file holds, since a reader of  *)
(* the file, and a crash of the program, see the difference.               *)
(***************************************************************************)
EXTENDS Player, Integers

CONSTANTS
  NoFile,   \* the file does not exist
  NoUri     \* the empty key URI

VARIABLES
  m_sequence,     \* number of the segment being made; starts at 1
  m_prev_crypto,  \* the EXT-X-KEY tag written last
  m_out,          \* lines written to the stream and not yet in the file
  playlist,       \* content of the file m_filename, or NoFile
  index_pc,       \* where the running method of the index stands
  run             \* ghost: how often the program has been started

indexVars == <<m_sequence, m_prev_crypto, m_out, playlist, index_pc>>

(* The tag of a segment: the method, and the key URI unless it is empty.   *)
KeyTag(seg) == [method |-> seg.crypto_method, uri |-> seg.key_uri]

(* "#EXT-X-KEY:METHOD=NONE" *)
DefaultTag == [method |-> "NONE", uri |-> NoUri]

(* The ghost field run tells which start of the program wrote the header.  *)
HeaderLine(first) == [tag |-> "HEADER", first |-> first, run |-> run]
KeyLine(seg)      == [tag |-> "KEY", key |-> KeyTag(seg)]
ExtinfLine(seg)   == [tag |-> "EXTINF", seg |-> seg]
EndLine           == [tag |-> "ENDLIST"]

(* Variant: the numbers start at 0.                                        *)
IndexInit_FromZero ==
  /\ m_sequence = 0
  /\ m_prev_crypto = DefaultTag
  /\ m_out = <<>>
  /\ index_pc = "idle"

IndexInit ==
  /\ m_sequence = 1
  /\ m_prev_crypto = DefaultTag
  /\ m_out = <<>>
  /\ index_pc = "idle"

(* Variant: the key tag of the former file is kept.                        *)
WriteHeader_KeepsTag(first) ==
  /\ m_out' = <<HeaderLine(first)>>
  /\ UNCHANGED m_prev_crypto

(* WriteHeader: also forgets the key tag, the new file has none yet.       *)
WriteHeader(first) ==
  /\ m_out' = <<HeaderLine(first)>>
  /\ m_prev_crypto' = DefaultTag

(* Variant: only a change of the method counts.                            *)
WriteSegment_MethodOnly(seg) ==
  /\ m_out' = (IF seg.crypto_method # m_prev_crypto.method
                 THEN Append(m_out, KeyLine(seg))
                 ELSE m_out) \o <<ExtinfLine(seg)>>
  /\ m_prev_crypto' = KeyTag(seg)

(* WriteSegment: a KEY line only where the tag changes.                    *)
WriteSegment(seg) ==
  /\ m_out' = (IF KeyTag(seg) # m_prev_crypto
                 THEN Append(m_out, KeyLine(seg))
                 ELSE m_out) \o <<ExtinfLine(seg)>>
  /\ m_prev_crypto' = KeyTag(seg)

Begin ==
  /\ playlist' = <<>>
  /\ WriteHeader(1)
  /\ UNCHANGED <<m_sequence, index_pc>>

AddSegment(seg) ==
  /\ index_pc = "idle"
  /\ m_sequence' = m_sequence + 1
  /\ WriteSegment(seg)
  /\ index_pc' = "flush"
  /\ UNCHANGED playlist

(* Variant: the file is written anew.                                      *)
Flush_Rewrites ==
  /\ index_pc = "flush"
  /\ playlist' = m_out
  /\ m_out' = <<>>
  /\ index_pc' = "idle"
  /\ UNCHANGED <<m_sequence, m_prev_crypto>>

(* The flush that ends AddSegment. *)
Flush ==
  /\ index_pc = "flush"
  /\ playlist' = playlist \o m_out
  /\ m_out' = <<>>
  /\ index_pc' = "idle"
  /\ UNCHANGED <<m_sequence, m_prev_crypto>>

End ==
  /\ index_pc = "idle"
  /\ playlist' = playlist \o Append(m_out, EndLine)
  /\ m_out' = <<>>
  /\ UNCHANGED <<m_sequence, m_prev_crypto, index_pc>>
=============================================================================
