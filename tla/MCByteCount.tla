----------------------------- MODULE MCByteCount -----------------------------
(***************************************************************************)
(* ByteCount over every input of a few segments, in a complete index.      *)
(***************************************************************************)
EXTENDS ByteCount

Numbers == 1..MaxSegments
Names == [n \in Numbers |-> n]
NoKeyNames == [n \in Numbers |-> <<"key", n>>]
KeyNames == {"key"} \X Numbers
Sizes == 0..13
Results == 0..m_length
=============================================================================
