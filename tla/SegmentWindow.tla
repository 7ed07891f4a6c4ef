---------------------------- MODULE SegmentWindow ----------------------------
(***************************************************************************)
(* What the index file promises to those who read it, whichever class      *)
(* writes it: a list of numbered segments that grows at its end by one     *)
(* segment at a time, holds the newest Window of them, never rewrites an   *)
(* entry and, once ended, never changes again.  A new start of the program *)
(* may withdraw the old list, or replace it by its own first one.          *)
(***************************************************************************)
EXTENDS Integers, Sequences

CONSTANT Window   \* how many segments the list may hold

VARIABLES
  run,      \* how often the program has been started
  writer,   \* the start that wrote the list, 0 when there is none
  first,    \* the number of its first entry
  entries,  \* its entries, oldest first
  ended     \* no entry will follow

vars == <<run, writer, first, entries, ended>>

Init ==
  /\ run = 1
  /\ writer = 0
  /\ first = 1
  /\ entries = <<>>
  /\ ended = FALSE

(* The list that this start has published so far.                          *)
Own(list)  == IF writer = run THEN list ELSE <<>>
OwnFirst   == IF writer = run THEN first ELSE 1

Smaller(a, b) == IF a < b THEN a ELSE b

Publish ==
  LET old  == Own(entries)
      kept == Smaller(Window, Len(old) + 1)
  IN /\ ~(writer = run /\ ended)
     /\ writer' = run
     /\ Len(entries') = kept
     /\ first' = OwnFirst + Len(old) + 1 - kept
     /\ \A i \in 1 .. kept - 1 : entries'[i] = old[i + first' - OwnFirst]
     /\ ended' = FALSE
     /\ UNCHANGED run

Finish ==
  /\ writer = run
  /\ ~ended
  /\ ended' = TRUE
  /\ UNCHANGED <<run, writer, first, entries>>

Restart ==
  /\ run' = run + 1
  /\ UNCHANGED <<writer, first, entries, ended>>

Withdraw ==
  /\ writer # run
  /\ writer' = 0
  /\ first' = 1
  /\ entries' = <<>>
  /\ ended' = FALSE
  /\ UNCHANGED run

Next == Publish \/ Finish \/ Restart \/ Withdraw

Spec == Init /\ [][Next]_vars
=============================================================================
