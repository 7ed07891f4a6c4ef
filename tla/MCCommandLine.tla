---------------------------- MODULE MCCommandLine ----------------------------
(***************************************************************************)
(* Every command line of a few options, and the files of the segments made *)
(* then; the arguments are a pattern with a text after its wildcards, one  *)
(* without, and one without wildcards.                                     *)
(***************************************************************************)
EXTENDS FileNames

Pattern(before, at, wildcards, after) ==
  [before |-> before, at |-> at, wildcards |-> wildcards, after |-> after]

OutDefault == Pattern("out-", 4, 5, ".ts")
KeyDefault == Pattern("key-", 4, 4, ".key")
Outs == {Pattern("a-", 2, 2, ".aac"), Pattern("b-", 2, 2, NoText), Pattern("c", 0, 0, NoText)}
Keys == {Pattern("k-", 2, 2, ".bin"), Pattern("l", 0, 0, NoText)}
Windows == {-1, 1, 3}
=============================================================================
