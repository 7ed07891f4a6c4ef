---------------------------- MODULE MCAudioFrames ----------------------------
(***************************************************************************)
(* Streams of two kinds of frames, i of one and then j of the other, with  *)
(* junk of gap bytes in between and the last cut bytes missing.  The size  *)
(* and the duration of a frame are those of its format, not of the code.   *)
(***************************************************************************)
EXTENDS AudioFrames, TLC

Numbers == 1..MaxSegments
Names == [n \in Numbers |-> n]
KeyNames == {"key"} \X Numbers
NoKeyNames == [n \in Numbers |-> <<"key", n>>]
Results == 0 .. ULongLong - 1

Aac(rate, idx, size) ==
  [size |-> size, samples |-> 1024, rate |-> rate,
   header |-> [samplerate_idx |-> idx, frame_length |-> size]]
Mpeg(version, layer, rate, idx, kbps, kidx, padding) ==
  [size |-> (144000 * kbps) \div rate + padding, samples |-> 1152, rate |-> rate,
   header |-> [version_idx |-> version, layer_idx |-> layer, bitrate_idx |-> kidx,
               samplerate_idx |-> idx, padding |-> padding]]

Stream(a, i, gap, lone, b, j, cut) ==
  LET later == i * a.size + gap
  IN [frames |-> [o \in {k * a.size : k \in 0 .. i-1} |-> a]
                   @@ [o \in {later + k * b.size : k \in 0 .. j-1} |-> b],
      lone   |-> lone,
      end    |-> later + j * b.size - cut]

(* Junk shorter than a header, junk that ends in a byte 0xff, longer junk; *)
(* an input that breaks off in a payload or in a header; a frame that is   *)
(* missed and has a byte 0xff just before the next one.                    *)
StreamsOf(a, b, is, js) ==
  {Stream(a, i, gap, lone, b, j, cut) :
     i \in is, j \in js, gap \in {0, 3, 9}, lone \in {{}}, cut \in {0, 1, b.size - 3}}
  \cup {Stream(a, i, 9, {i * a.size + 7}, b, j, 0) : i \in is, j \in js}
  \cup {Stream(a, i, 3, {i * a.size + 3 + b.size - 2}, b, j, 0) : i \in is, j \in js}

(* 0.128 s and 0.093 s; 0.072 s and 0.036 s.  Their lengths are among those*)
(* that the code computes right.                                           *)
TestStreams ==
  [s \in {"ADTS", "MP3"} |->
     IF s = "ADTS"
       THEN StreamsOf(Aac(8000, 11, 100), Aac(11025, 10, 4100), {0, 1, 7, 8, 9, 20}, {1, 2, 11, 12})
       ELSE StreamsOf(Mpeg(2, 2, 16000, 2, 8, 1, 0), Mpeg(3, 1, 32000, 2, 48, 3, 1),
                      {0, 1, 2, 13, 14, 15}, {1, 2, 27, 28, 29})]

(* What the theorem about time in AudioFrames_proofs asks of the streams.  *)
ASSUME TimesAreRight == TimesAreRead
=============================================================================
