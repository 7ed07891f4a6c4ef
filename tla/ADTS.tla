-------------------------------- MODULE ADTS --------------------------------
(***************************************************************************)
(* What Segmenter/ADTS.cpp reads in the header of an AAC frame.  A header  *)
(* is a record of the fields the code looks at: the index of the sample    *)
(* rate and the 13 bits of the frame length.  Several raw blocks in a frame*)
(* are an assertion, reserved rates and lengths that are read as less than *)
(* 7 lead to undefined behaviour: no input has them.                       *)
(***************************************************************************)
EXTENDS Integers, Sequences

(* LCM of sample rates *)
FRAC_SECOND == 28224000
HeaderSize  == 7

samplerate == <<96000, 88200, 64000, 48000, 44100, 32000,
                24000, 22050, 16000, 12000, 11025, 8000>>

(* Of a length of 2048 to 2054 the code reads what is below 7.             *)
Headers ==
  [samplerate_idx : 0..11,
   frame_length   : (HeaderSize .. 2047) \cup (2048 + HeaderSize .. 8191)]

Rate(h) == samplerate[h.samplerate_idx + 1]

(* The mask of header[3] keeps one of the two bits it should keep: the bit *)
(* worth 2048 is dropped, and longer frames are read short by as much.     *)
PayloadLength(h) ==
  4096 * (h.frame_length \div 4096) + (h.frame_length % 2048) - HeaderSize

Ticks(h) == 1024 * (FRAC_SECOND \div Rate(h))
=============================================================================
