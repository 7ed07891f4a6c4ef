------------------------------ MODULE FileNames ------------------------------
(***************************************************************************)
(* The names that the options of a command line lead to: FileArray::       *)
(* Filename of Sequence and Timestamp, as main() calls it for each segment *)
(* and each key, and the files that then have those names.  The index is   *)
(* followed only as far as names go: what it lists, and what it unlinks.   *)
(*                                                                         *)
(* A name is a record: the texts around the wildcards, and what they are   *)
(* replaced with.  A digit stands for Base values, 16 in the code.         *)
(***************************************************************************)
EXTENDS CommandLine, Sequences

CONSTANTS
  Base,         \* values of a digit
  NameMax,      \* the most digits that the name of a file can have
  MaxSequence   \* bound: segments made

VARIABLES
  sequence,               \* index->Sequence()
  seconds,                \* the clock
  out_filename, key_filename,
  key,                    \* the key in force, by the segment it was made for
  files, key_files,       \* what is on disk: name -> segment, name -> key
  listed,                 \* the entries of the index, oldest first
  hasty                   \* ghost: two segments were begun within one second

loopVars == <<sequence, seconds, out_filename, key_filename, key, files,
              key_files, listed, hasty>>
FileVars == <<optionVars, loopVars>>

(* That a power is a number is stated, since the prover knows of no powers. *)
ASSUME FileNamesAssumption ==
  /\ Base \in Nat \ {0} /\ NameMax \in Nat /\ MaxSequence \in Nat
  /\ \A d \in 0 .. UShort - 1 : Base ^ d \in Nat

NoName == "none"
None == [n \in {} |-> 0]

FilesInit ==
  /\ OptionsInit
  /\ sequence = 1 /\ seconds = 0
  /\ out_filename = NoName /\ key_filename = NoName /\ key = 0
  /\ files = None /\ key_files = None
  /\ listed = <<>> /\ hasty = FALSE

(* Variant: the loop over the digits ends one early. *)
Digits_DropsLast(names, seq) == (seq \div Base) % (Base ^ names.digits)

(* Sequence: the low digits of the number, as many as there are wildcards. *)
(* (Sequence.cpp:30 shifts by four bits for each, which is undefined from  *)
(* the 17th digit on; here these are 0.)                                   *)
Digits(names, seq) == seq % (Base ^ names.digits)

(* Timestamp: the seconds of the clock, the number is not looked at.       *)
FilenameOf(names, seq, now) ==
  [before |-> names.prefix, after |-> names.suffix, class |-> names.class,
   fill   |-> IF names.class = "Timestamp" THEN now ELSE Digits(names, seq)]

Openable(names) == names.class = "Timestamp" \/ names.digits <= NameMax

SwitchesKey == crypto # 0 /\ sequence % crypto = 1

(* The file of this name, new or truncated, holds something else now.      *)
Stored(disk, name, what) ==
  [n \in DOMAIN disk \cup {name} |-> IF n = name THEN what ELSE disk[n]]

(* Since the last segment was begun a second has passed, or it has not.    *)
(* Segments and keys are in maps of their own: that the patterns of -o and *)
(* -k are equal, so that a key overwrites its segment, is left out.        *)
Open ==
  /\ pc = "running"
  /\ sequence <= MaxSequence
  /\ seconds' \in {seconds, seconds + 1}
  /\ hasty' = (hasty \/ (sequence > 1 /\ seconds' = seconds))
  /\ Openable(out_filenames) /\ (SwitchesKey => Openable(key_filenames))
  /\ out_filename' = FilenameOf(out_filenames, sequence, seconds')
  /\ files' = Stored(files, out_filename', sequence)
  /\ IF SwitchesKey
       THEN /\ key' = sequence
            /\ key_filename' = FilenameOf(key_filenames, sequence, seconds')
            /\ key_files' = Stored(key_files, key_filename', key')
       ELSE UNCHANGED <<key, key_filename, key_files>>
  /\ pc' = "adding"
  /\ UNCHANGED <<settingVars, inputVars, count, asked, sequence, listed>>

(* The file system takes no such name, and the stream throws; what has    *)
(* been opened before it is of no account any more.                       *)
OpenFails ==
  /\ pc = "running"
  /\ ~Openable(out_filenames) \/ (SwitchesKey /\ ~Openable(key_filenames))
  /\ Fail
  /\ UNCHANGED <<count, asked, loopVars>>

Entry == [uri |-> out_filename, n |-> sequence,
          key_uri |-> key_filename, key |-> key]

Unlink(name) == files' = [u \in DOMAIN files \ {name} |-> files[u]]

(* AddSegment of either index; the list is longer than the window by one   *)
(* entry at most.                                                          *)
Add ==
  /\ pc = "adding"
  /\ sequence' = sequence + 1
  /\ LET longer == Append(listed, Entry)
     IN IF index.window # NotLive /\ Len(longer) > index.window
          THEN Unlink(Head(longer).uri) /\ listed' = Tail(longer)
          ELSE UNCHANGED files /\ listed' = longer
  /\ pc' = "running"
  /\ UNCHANGED <<settingVars, inputVars, count, asked, seconds, out_filename,
                 key_filename, key, key_files, hasty>>

FilesNext ==
  \/ OptionsNext /\ UNCHANGED loopVars
  \/ Open
  \/ OpenFails
  \/ Add

FilesSpec == FilesInit /\ [][FilesNext]_FileVars

(* How many segments before the newest are still listed.                   *)
Behind == IF index.window = NotLive THEN sequence - 1 ELSE index.window

SegmentNamesSuffice ==
  IF out_filenames.class = "Timestamp" THEN ~hasty
    ELSE Openable(out_filenames) => Base ^ out_filenames.digits > Behind

KeyNamesSuffice ==
  Openable(key_filenames) => Base ^ key_filenames.digits >= Behind + crypto

(* The digits of a name wrap, and names of the same second are the same.   *)
(* With more names than the window has entries (for keys: than it and one  *)
(* key interval span), or a clock that ticks between segments, every entry *)
(* of the index finds under its name the file made for it, whatever main() *)
(* overwrites and the live index unlinks.                                  *)
EntriesFindTheirFiles ==
  pc \in {"running", "adding"} =>
    \A k \in DOMAIN listed :
      LET e == listed[k]
      IN /\ SegmentNamesSuffice => e.uri \in DOMAIN files /\ files[e.uri] = e.n
         /\ KeyNamesSuffice /\ e.key # 0 => key_files[e.key_uri] = e.key
=============================================================================
