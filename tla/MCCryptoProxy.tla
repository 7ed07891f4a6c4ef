---------------------------- MODULE MCCryptoProxy ----------------------------
(***************************************************************************)
(* CryptoProxy with blocks of 3 bytes.  The bytes written are those that   *)
(* the padding of one byte and of a whole block is made of.                *)
(***************************************************************************)
EXTENDS CryptoProxy

LikePadding == {1, 3}
=============================================================================
