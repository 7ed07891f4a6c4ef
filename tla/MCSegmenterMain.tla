--------------------------- MODULE MCSegmenterMain ---------------------------
(***************************************************************************)
(* Instances of the program for TLC.  Names of segment files are reused    *)
(* as soon as the window of a live stream allows it, as a pattern with few *)
(* '?' does (FileArray::Sequence counts modulo 16^digits); those of a      *)
(* complete stream and of keys never are.                                  *)
(***************************************************************************)
EXTENDS SegmenterInvariant

Numbers == 1..MaxSegments

LiveUris == 0..NumSegments
LiveFilename == [n \in Numbers |-> n % (NumSegments + 1)]

VodUris == Numbers
VodFilename == [n \in Numbers |-> n]

KeyNames == {"key"} \X Numbers
KeyNameOf == [n \in Numbers |-> <<"key", n>>]

(* In whole seconds, as every module of the repository returns.            *)
WholeSeconds == {-1, 0, 1}

(* In half seconds: every way a duration and an error can add to a tie.    *)
HalfSeconds == {-3, -2, -1, 0, 1, 2, 3}
=============================================================================
