----------------------------- MODULE CommandLine -----------------------------
(***************************************************************************)
(* The options of main(), src/main.cpp:20-150, and the objects they set:   *)
(* the index, which -L replaces by a new one, and the arrays of segment    *)
(* and key file names (FileArray), of which -t replaces the first.         *)
(*                                                                         *)
(* A pattern is a record: the text before the wildcards and its length,    *)
(* how many wildcards there are (none is refused), and the text after them.*)
(***************************************************************************)
EXTENDS Integers

CONSTANTS
  OutPatterns, KeyPatterns,   \* arguments of -o and -k
  DefaultOut, DefaultKey,     \* out-?????.ts and key-????.key
  Names, DefaultName,         \* arguments of -I; out.m3u8
  Texts, NoText,              \* prefixes and suffixes; the empty string
  Lengths, DefaultLength,     \* arguments of -l; 10
  Lives, NotLive,             \* arguments of -L; the index is an IndexFile
  Malformed,                  \* an argument of -l, -L or -c that is no number
  Inputs, Unreadable, Stdin,  \* arguments of -i, those that cannot be opened
  Extras,                     \* arguments of -e
  Cryptos,                    \* arguments of -c; 0 without the option
  ULong, UShort,              \* number of values of the unsigned types
  MaxOptions                  \* bound: options given

VARIABLES
  index,              \* the object index points to
  out_file_pattern,
  out_filenames, key_filenames,
  duration,
  in, extra_options, crypto,
  pc,                 \* "options", "running" or "failed"
  count,              \* options read so far
  asked               \* ghost: the last argument of each option given

nameVars == <<out_file_pattern, out_filenames, key_filenames>>
settingVars == <<index, nameVars, duration>>
inputVars == <<in, extra_options, crypto>>
optionVars == <<settingVars, inputVars, pc, count, asked>>

ASSUME CommandLineAssumption ==
  /\ Lengths \subseteq Nat /\ DefaultLength \in Nat
  /\ Lives \subseteq Int /\ NotLive \notin 0 .. ULong - 1
  /\ Unreadable \subseteq Inputs /\ Stdin \notin Inputs /\ Cryptos \subseteq Int
  /\ ULong \in Nat \ {0} /\ UShort \in Nat \ {0}
  /\ \A p \in OutPatterns \cup KeyPatterns \cup {DefaultOut, DefaultKey} :
       p.at \in Nat /\ p.wildcards \in Nat
  /\ DefaultOut.wildcards > 0 /\ DefaultKey.wildcards > 0
  /\ DefaultOut.after # NoText /\ DefaultKey.after # NoText

(* What the four setters of an index set.                                  *)
Settings == {"uri_prefix", "uri_suffix", "key_prefix", "key_suffix"}

(* A live index takes the name of its temporary file from its first name.  *)
NewIndex(name, target, window) ==
  [filename |-> name, temp |-> name, target |-> target, window |-> window,
   set |-> [s \in Settings |-> NoText]]

(* FileArray::init.  Without a text after the wildcards find_first_not_of  *)
(* is npos: the suffix keeps what it held, and the number of digits is     *)
(* what an unsigned short holds of npos less the position.                 *)
Initialised(names, p) ==
  [names EXCEPT
     !.prefix = p.before,
     !.suffix = IF p.after = NoText THEN names.suffix ELSE p.after,
     !.digits = (IF p.after = NoText THEN ULong - 1 - p.at ELSE p.wildcards) % UShort]

NewNames(class, p) ==
  Initialised([class |-> class, prefix |-> NoText, suffix |-> NoText, digits |-> 0], p)

OptionsInit ==
  /\ index = NewIndex(DefaultName, DefaultLength, NotLive)
  /\ out_file_pattern = DefaultOut
  /\ out_filenames = NewNames("Sequence", DefaultOut)
  /\ key_filenames = NewNames("Sequence", DefaultKey)
  /\ duration = DefaultLength
  /\ in = Stdin /\ extra_options = NoText /\ crypto = 0
  /\ pc = "options" /\ count = 0
  /\ asked = [o \in {} |-> NoText]

Reads(option, argument) ==
  /\ pc = "options"
  /\ count < MaxOptions
  /\ count' = count + 1
  /\ asked' = [o \in DOMAIN asked \cup {option} |->
                 IF o = option THEN argument ELSE asked[o]]

(* An exception of init or of the input, or exit(EX_USAGE).                *)
Fail ==
  /\ pc' = "failed"
  /\ UNCHANGED <<settingVars, inputVars>>

(* Variant: the pattern goes to the name array alone. *)
Output_NotKept(p) ==
  /\ Reads("o", p)
  /\ p.wildcards > 0
  /\ out_filenames' = Initialised(out_filenames, p)
  /\ UNCHANGED <<index, out_file_pattern, key_filenames, duration, inputVars, pc>>

Output(p) ==
  /\ Reads("o", p)
  /\ IF p.wildcards = 0 THEN Fail
       ELSE /\ out_file_pattern' = p
            /\ out_filenames' = Initialised(out_filenames, p)
            /\ UNCHANGED <<index, key_filenames, duration, inputVars, pc>>

Timestamp ==
  /\ Reads("t", TRUE)
  /\ out_filenames' = NewNames("Timestamp", out_file_pattern)
  /\ UNCHANGED <<index, out_file_pattern, key_filenames, duration, inputVars, pc>>

Key(p) ==
  /\ Reads("k", p)
  /\ IF p.wildcards = 0 THEN Fail
       ELSE /\ key_filenames' = Initialised(key_filenames, p)
            /\ UNCHANGED <<index, out_file_pattern, out_filenames, duration,
                           inputVars, pc>>

(* -O, -s, -K and -S.                                                      *)
Set(s, text) ==
  /\ Reads(s, text)
  /\ index' = [index EXCEPT !.set[s] = text]
  /\ UNCHANGED <<nameVars, duration, inputVars, pc>>

(* The number goes through a float and is converted to unsigned long; that *)
(* is the identity for the lengths here, which are not negative and not so *)
(* large that a float rounds them.  Of a negative -l, which the code takes *)
(* and whose conversion is undefined, nothing is said.                     *)
Length(l) ==
  /\ Reads("l", l)
  /\ IF l = Malformed THEN Fail
       ELSE /\ duration' = l
            /\ index' = [index EXCEPT !.target = l]
            /\ UNCHANGED <<nameVars, inputVars, pc>>

IndexName(name) ==
  /\ Reads("I", name)
  /\ index' = [index EXCEPT !.filename = name]
  /\ UNCHANGED <<nameVars, duration, inputVars, pc>>

(* Variant: the new index starts from the defaults. *)
LiveIndex_Default(n) ==
  /\ Reads("L", n)
  /\ n # Malformed
  /\ index' = NewIndex(DefaultName, DefaultLength, n % ULong)
  /\ UNCHANGED <<nameVars, duration, inputVars, pc>>

(* -L: a new object with the name and the target of the old one.           *)
LiveIndex(n) ==
  /\ Reads("L", n)
  /\ IF n = Malformed THEN Fail
       ELSE /\ index' = NewIndex(index.filename, index.target, n % ULong)
            /\ UNCHANGED <<nameVars, duration, inputVars, pc>>

(* -?, and what getopt does not know.                                      *)
Usage == Reads("?", TRUE) /\ Fail

(* -i opens the file without looking at the outcome.                       *)
Input(file) ==
  /\ Reads("i", file)
  /\ in' = file
  /\ UNCHANGED <<settingVars, extra_options, crypto, pc>>

Extra(text) ==
  /\ Reads("e", text)
  /\ extra_options' = text
  /\ UNCHANGED <<settingVars, in, crypto, pc>>

Encrypt(n) ==
  /\ Reads("c", n)
  /\ IF n = Malformed THEN Fail
       ELSE /\ crypto' = n % ULong
            /\ UNCHANGED <<settingVars, in, extra_options, pc>>

(* Exceptions are asked for now: a file that was not opened raises one.    *)
Start ==
  /\ pc = "options"
  /\ pc' = IF in \in Unreadable THEN "failed" ELSE "running"
  /\ UNCHANGED <<settingVars, inputVars, count, asked>>

OptionsNext ==
  \/ \E p \in OutPatterns : Output(p)
  \/ Timestamp
  \/ \E p \in KeyPatterns : Key(p)
  \/ \E s \in Settings, text \in Texts : Set(s, text)
  \/ \E l \in Lengths \cup {Malformed} : Length(l)
  \/ \E name \in Names : IndexName(name)
  \/ \E n \in Lives \cup {Malformed} : LiveIndex(n)
  \/ \E file \in Inputs : Input(file)
  \/ \E text \in Extras : Extra(text)
  \/ \E n \in Cryptos \cup {Malformed} : Encrypt(n)
  \/ Usage
  \/ Start

OptionsSpec == OptionsInit /\ [][OptionsNext]_optionVars

Asked(option, default) == IF option \in DOMAIN asked THEN asked[option] ELSE default

(* -I, -l and -L in any order and number: the index has the last name, the *)
(* last length as its target, which is also what the segmenting module     *)
(* gets, and the last window; what is asked of an index without -L is what *)
(* it adds to the names of its entries.                                    *)
IndexAsAsked ==
  pc = "running" =>
    /\ index.filename = Asked("I", DefaultName)
    /\ index.target = Asked("l", DefaultLength)
    /\ duration = index.target
    /\ index.window =
         IF "L" \in DOMAIN asked THEN asked["L"] % ULong ELSE NotLive
    /\ "L" \notin DOMAIN asked =>
         \A s \in Settings : index.set[s] = Asked(s, NoText)

Matches(names, p) ==
  /\ names.prefix = p.before
  /\ p.after # NoText => names.suffix = p.after /\ names.digits = p.wildcards

(* -o, -t and -k in any order and number: the names follow the last        *)
(* pattern (when there is a text after its wildcards), and -t keeps        *)
(* filling in time stamps when a pattern comes after it.                   *)
NamesAsAsked ==
  pc = "running" =>
    /\ (out_filenames.class = "Timestamp") <=> ("t" \in DOMAIN asked)
    /\ Matches(out_filenames, Asked("o", DefaultOut))
    /\ Matches(key_filenames, Asked("k", DefaultKey))
=============================================================================
