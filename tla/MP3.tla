--------------------------------- MODULE MP3 ---------------------------------
(***************************************************************************)
(* What Segmenter/MP3.cpp reads in the header of an MPEG audio frame.  A   *)
(* header is a record of the fields of the same names.  Reserved versions, *)
(* layers and rates, which make the code divide by zero, are left out.     *)
(***************************************************************************)
EXTENDS Integers, Sequences

CONSTANT CharIsSigned   \* the type char of the build is signed

(* LCM of sample rates *)
FRAC_SECOND == 14112000
HeaderSize  == 4

(* Version: 0 is MPEG 2.5, 2 MPEG 2, 3 MPEG 1.  Layer: 1 is III, 3 is I.   *)
bitrate ==
  LET low23 == <<8, 16, 24, 32, 40, 48, 56, 64, 80, 96, 112, 128, 144, 160>>
      low1  == <<32, 48, 56, 64, 80, 96, 112, 128, 144, 160, 176, 192, 224, 256>>
  IN [v \in {0, 2, 3} |-> [layer \in 1..3 |->
       CASE v # 3 -> IF layer = 3 THEN low1 ELSE low23
         [] layer = 1 -> <<32, 40, 48, 56, 64, 80, 96, 112, 128, 160, 192, 224, 256, 320>>
         [] layer = 2 -> <<32, 48, 56, 64, 80, 96, 112, 128, 160, 192, 224, 256, 320, 384>>
         [] layer = 3 -> [k \in 1..14 |-> 32 * k]]]

samplerate == [v \in {0, 2, 3} |->
                 CASE v = 0 -> <<11025, 12000, 8000>>
                   [] v = 2 -> <<22050, 24000, 16000>>
                   [] v = 3 -> <<44100, 48000, 32000>>]

Headers == [version_idx : {0, 2, 3}, layer_idx : 1..3, bitrate_idx : 1..14,
            samplerate_idx : 0..2, padding : 0..1]

(* The second byte of a header is compared as an int with a char of 0xe0,  *)
(* which is -32 where char is signed: then no header is ever recognised.   *)
SyncRecognised == ~CharIsSigned

Rate(h) == samplerate[h.version_idx][h.samplerate_idx + 1]

(* Variant: without the padding byte. *)
PayloadLength_NoPadding(h) ==
  (144 * bitrate[h.version_idx][h.layer_idx][h.bitrate_idx] * 1000) \div Rate(h)
    - HeaderSize

(* The length of a frame of Layer II, or of Layer III in MPEG 1; for every *)
(* other frame the code uses the same formula.                             *)
PayloadLength(h) ==
  (144 * bitrate[h.version_idx][h.layer_idx][h.bitrate_idx] * 1000) \div Rate(h)
    + h.padding - HeaderSize

Ticks(h) == (IF h.layer_idx = 3 THEN 384 ELSE 1152) * (FRAC_SECOND \div Rate(h))
=============================================================================
