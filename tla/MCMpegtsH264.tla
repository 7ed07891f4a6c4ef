---------------------------- MODULE MCMpegtsH264 ----------------------------
(***************************************************************************)
(* MpegtsH264 over every short stream of the packets that matter to it.    *)
(***************************************************************************)
EXTENDS MpegtsH264

Numbers == 1..MaxSegments
Names == [n \in Numbers |-> n]
KeyNames == {"key"} \X Numbers
NoKeyNames == [n \in Numbers |-> <<"key", n>>]
Results == -PcrMod .. PcrMod

Kind(kind, start, sps, timed) ==
  [kind |-> kind, start |-> start, sps |-> sps, timed |-> timed, names |-> {}]
Pmt(names) == [Kind("PMT", TRUE, FALSE, FALSE) EXCEPT !.names = names]

Packets ==
  { Kind("PAT", TRUE, FALSE, FALSE),
    Pmt({"video", "audio"}),           Pmt({"video", "other"}),
    Kind("video", TRUE, TRUE, TRUE),   Kind("video", TRUE, TRUE, FALSE),
    Kind("video", TRUE, FALSE, TRUE),  Kind("audio", TRUE, FALSE, FALSE),
    Kind("other", FALSE, FALSE, TRUE) }

Uninitialised == [kind |-> "garbage", names |-> {}, sps |-> FALSE, number |-> 0]
Steps == {1, 2}
AtZero == {0}
=============================================================================
