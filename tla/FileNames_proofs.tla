-------------------------- MODULE FileNames_proofs --------------------------
(***************************************************************************)
(* Proofs about the options of main() and the names of files they lead to, *)
(* for every command line and every number of segments.                    *)
(***************************************************************************)
EXTENDS FileNames, TLAPS

(***************************************************************************)
(* The options, as they stand while the command line is still being read.  *)
(***************************************************************************)
IsIndex(r) ==
  /\ r = [filename |-> r.filename, temp |-> r.temp, target |-> r.target,
          window |-> r.window, set |-> r.set]
  /\ r.set = [s \in Settings |-> r.set[s]]

IndexInv ==
  /\ IsIndex(index)
  /\ pc # "failed" =>
       /\ index.filename = Asked("I", DefaultName)
       /\ index.target = Asked("l", DefaultLength)
       /\ duration = index.target
       /\ index.window =
            IF "L" \in DOMAIN asked THEN asked["L"] % ULong ELSE NotLive
       /\ "L" \notin DOMAIN asked =>
            \A s \in Settings : index.set[s] = Asked(s, NoText)

(* The number of wildcards of a pattern fits the unsigned short of         *)
(* FileArray: no file name has 65536 characters.                           *)
PatternsFit ==
  \A p \in OutPatterns \cup KeyPatterns \cup {DefaultOut, DefaultKey} :
    p.wildcards \in 0 .. UShort - 1

IsNames(r) ==
  r = [class |-> r.class, prefix |-> r.prefix, suffix |-> r.suffix, digits |-> r.digits]

NamesInv ==
  /\ IsNames(out_filenames) /\ IsNames(key_filenames)
  /\ out_file_pattern \in OutPatterns \cup {DefaultOut}
  /\ pc # "failed" =>
       /\ out_file_pattern = Asked("o", DefaultOut)
       /\ (out_filenames.class = "Timestamp") <=> ("t" \in DOMAIN asked)
       /\ Matches(out_filenames, Asked("o", DefaultOut))
       /\ Matches(key_filenames, Asked("k", DefaultKey))

(* What an option does to the ghost: its own argument is the last one.     *)
LEMMA OptionAsked ==
  ASSUME NEW option, NEW argument, Reads(option, argument)
  PROVE  /\ pc = "options"
         /\ DOMAIN asked' = DOMAIN asked \cup {option}
         /\ asked'[option] = argument
         /\ \A o, default : o # option => Asked(o, default)' = Asked(o, default)
         /\ \A default : Asked(option, default)' = argument
BY DEF Reads, Asked

LEMMA NewIndexType ==
  ASSUME NEW name, NEW target, NEW window
  PROVE  /\ IsIndex(NewIndex(name, target, window))
         /\ NewIndex(name, target, window).filename = name
         /\ NewIndex(name, target, window).target = target
         /\ NewIndex(name, target, window).window = window
         /\ \A s \in Settings : NewIndex(name, target, window).set[s] = NoText
BY DEF IsIndex, NewIndex

LEMMA InitialisedIs ==
  ASSUME NEW class, NEW prefix, NEW suffix, NEW digits, NEW p
  PROVE  Initialised([class |-> class, prefix |-> prefix, suffix |-> suffix, digits |-> digits], p)
           = [class  |-> class,
              prefix |-> p.before,
              suffix |-> IF p.after = NoText THEN suffix ELSE p.after,
              digits |-> (IF p.after = NoText THEN ULong - 1 - p.at ELSE p.wildcards) % UShort]
<1> DEFINE after == IF p.after = NoText THEN suffix ELSE p.after
           number == (IF p.after = NoText THEN ULong - 1 - p.at ELSE p.wildcards) % UShort
           r == [class |-> class, prefix |-> prefix, suffix |-> suffix, digits |-> digits]
<1>1. ASSUME NEW a, NEW b, NEW c
      PROVE  [r EXCEPT !.prefix = a, !.suffix = b, !.digits = c]
               = [class |-> class, prefix |-> a, suffix |-> b, digits |-> c]
  <2> DEFINE r1 == [r EXCEPT !.prefix = a]
             r2 == [r1 EXCEPT !.suffix = b]
             r3 == [r2 EXCEPT !.digits = c]
  <2>4. [r EXCEPT !.prefix = a, !.suffix = b, !.digits = c] = r3
    OBVIOUS
  <2>1. r1 = [class |-> class, prefix |-> a, suffix |-> suffix, digits |-> digits]
    OBVIOUS
  <2> HIDE DEF r1
  <2>2. r2 = [class |-> class, prefix |-> a, suffix |-> b, digits |-> digits]
    BY <2>1
  <2> HIDE DEF r2
  <2>3. r3 = [class |-> class, prefix |-> a, suffix |-> b, digits |-> c]
    BY <2>2
  <2> QED  BY <2>3, <2>4
<1>2. Initialised(r, p) = [r EXCEPT !.prefix = p.before, !.suffix = after, !.digits = number]
  BY DEF Initialised
<1> HIDE DEF after, number
<1>3. Initialised(r, p) = [class |-> class, prefix |-> p.before, suffix |-> after, digits |-> number]
  BY <1>1, <1>2
<1> QED  BY <1>3 DEF after, number

LEMMA InitialisedType ==
  ASSUME NEW names, IsNames(names), NEW p
  PROVE  /\ IsNames(Initialised(names, p))
         /\ Initialised(names, p).class = names.class
         /\ Initialised(names, p).prefix = p.before
         /\ p.after # NoText =>
              /\ Initialised(names, p).suffix = p.after
              /\ Initialised(names, p).digits = p.wildcards % UShort
<1> DEFINE suffix == IF p.after = NoText THEN names.suffix ELSE p.after
           digits == (IF p.after = NoText THEN ULong - 1 - p.at ELSE p.wildcards) % UShort
<1>1. Initialised(names, p)
        = [class |-> names.class, prefix |-> p.before, suffix |-> suffix, digits |-> digits]
  <2>1. names = [class |-> names.class, prefix |-> names.prefix,
                 suffix |-> names.suffix, digits |-> names.digits]
    BY DEF IsNames
  <2> DEFINE c == names.class
             f == names.suffix
             d == names.digits
  <2>2. Initialised([class |-> c, prefix |-> names.prefix, suffix |-> f, digits |-> d], p)
          = [class |-> c, prefix |-> p.before,
             suffix |-> IF p.after = NoText THEN f ELSE p.after, digits |-> digits]
    BY InitialisedIs
  <2> QED  BY <2>1, <2>2
<1>2. p.after # NoText => suffix = p.after /\ digits = p.wildcards % UShort
  OBVIOUS
<1> HIDE DEF suffix, digits
<1> QED  BY <1>1, <1>2 DEF IsNames

LEMMA NewNamesType ==
  ASSUME NEW class, NEW p
  PROVE  /\ IsNames(NewNames(class, p))
         /\ NewNames(class, p).class = class
         /\ NewNames(class, p).prefix = p.before
         /\ p.after # NoText =>
              /\ NewNames(class, p).suffix = p.after
              /\ NewNames(class, p).digits = p.wildcards % UShort
<1> DEFINE empty == [class |-> class, prefix |-> NoText, suffix |-> NoText, digits |-> 0]
<1>1. IsNames(empty) /\ empty.class = class
  BY DEF IsNames
<1>2. NewNames(class, p) = Initialised(empty, p)
  BY DEF NewNames
<1> HIDE DEF empty
<1>3. /\ IsNames(Initialised(empty, p))
      /\ Initialised(empty, p).class = class
      /\ Initialised(empty, p).prefix = p.before
  BY <1>1, InitialisedType
<1>4. p.after # NoText =>
        /\ Initialised(empty, p).suffix = p.after
        /\ Initialised(empty, p).digits = p.wildcards % UShort
  BY <1>1, InitialisedType
<1> QED  BY <1>2, <1>3, <1>4

(* Where an option that fails, or none, leaves the settings.               *)
LEMMA FailKeeps ==
  ASSUME Fail
  PROVE  pc' = "failed" /\ index' = index /\ duration' = duration
         /\ UNCHANGED nameVars
BY DEF Fail, settingVars, nameVars

LEMMA IndexInit == OptionsInit => IndexInv
<1> SUFFICES ASSUME OptionsInit PROVE IndexInv
  OBVIOUS
<1>1. index = NewIndex(DefaultName, DefaultLength, NotLive) /\ duration = DefaultLength
  BY DEF OptionsInit
<1>2. DOMAIN asked = {}
  BY DEF OptionsInit
<1> QED  BY <1>1, <1>2, NewIndexType DEF IndexInv, Asked

(* What an option other than those of the index leaves of its settings.    *)
LEMMA OtherOption ==
  ASSUME IndexInv, NEW option, NEW argument, Reads(option, argument),
         option \notin Settings \cup {"I", "l", "L"}, index' = index, duration' = duration
  PROVE  IndexInv'
<1>1. /\ \A o, default : o # option => Asked(o, default)' = Asked(o, default)
      /\ "L" \in DOMAIN asked' <=> "L" \in DOMAIN asked
      /\ pc = "options"
  BY OptionAsked
<1>2. "L" \in DOMAIN asked => asked'["L"] = asked["L"]
  BY DEF Reads
<1>3. IsIndex(index)'
  BY DEF IndexInv, IsIndex
<1> QED  BY <1>1, <1>2, <1>3 DEF IndexInv

LEMMA IndexStep ==
  ASSUME IndexInv, [FilesNext]_FileVars
  PROVE  IndexInv'
<1>1. ASSUME NEW p \in OutPatterns, Output(p) PROVE IndexInv'
  <2>1. Reads("o", p) /\ index' = index /\ duration' = duration
    BY <1>1, FailKeeps DEF Output
  <2> QED  BY <2>1, OtherOption DEF Settings
<1>2. CASE Timestamp
  BY <1>2, OtherOption DEF Timestamp, Settings
<1>3. ASSUME NEW p \in KeyPatterns, Key(p) PROVE IndexInv'
  <2>1. Reads("k", p) /\ index' = index /\ duration' = duration
    BY <1>3, FailKeeps DEF Key
  <2> QED  BY <2>1, OtherOption DEF Settings
<1>4. ASSUME NEW s \in Settings, NEW text \in Texts, Set(s, text) PROVE IndexInv'
  <2>1. /\ Reads(s, text) /\ index' = [index EXCEPT !.set[s] = text] /\ duration' = duration
        /\ s \notin {"I", "l", "L"}
    BY <1>4 DEF Set, Settings
  <2>2. /\ pc = "options" /\ Asked("I", DefaultName)' = Asked("I", DefaultName)
        /\ Asked("l", DefaultLength)' = Asked("l", DefaultLength)
        /\ "L" \in DOMAIN asked' <=> "L" \in DOMAIN asked
        /\ \A r \in Settings :
             Asked(r, NoText)' = IF r = s THEN text ELSE Asked(r, NoText)
    BY <2>1, OptionAsked DEF Reads, Asked
  <2>3. "L" \in DOMAIN asked => asked'["L"] = asked["L"]
    BY <2>1 DEF Reads
  <2>4. /\ IsIndex(index') /\ index'.filename = index.filename
        /\ index'.target = index.target /\ index'.window = index.window
        /\ \A r \in Settings : index'.set[r] = IF r = s THEN text ELSE index.set[r]
    BY <2>1 DEF IndexInv, IsIndex
  <2> QED  BY <2>1, <2>2, <2>3, <2>4 DEF IndexInv
<1>5. ASSUME NEW l \in Lengths \cup {Malformed}, Length(l) PROVE IndexInv'
  <2>1. Reads("l", l)
    BY <1>5 DEF Length
  <2>2. CASE l = Malformed
    BY <1>5, <2>2, FailKeeps DEF Length, IndexInv, IsIndex
  <2>3. CASE l # Malformed
    <3>1. index' = [index EXCEPT !.target = l] /\ duration' = l
      BY <1>5, <2>3 DEF Length
    <3>2. /\ pc = "options" /\ Asked("I", DefaultName)' = Asked("I", DefaultName)
          /\ Asked("l", DefaultLength)' = l
          /\ "L" \in DOMAIN asked' <=> "L" \in DOMAIN asked
          /\ \A r \in Settings : Asked(r, NoText)' = Asked(r, NoText)
      BY <2>1 DEF Reads, Asked, Settings
    <3>3. "L" \in DOMAIN asked => asked'["L"] = asked["L"]
      BY <2>1 DEF Reads
    <3>4. /\ IsIndex(index') /\ index'.filename = index.filename
          /\ index'.target = l /\ index'.window = index.window
          /\ index'.set = index.set
      BY <3>1 DEF IndexInv, IsIndex
    <3> QED  BY <3>1, <3>2, <3>3, <3>4 DEF IndexInv
  <2> QED  BY <2>2, <2>3
<1>6. ASSUME NEW name \in Names, IndexName(name) PROVE IndexInv'
  <2>1. Reads("I", name) /\ index' = [index EXCEPT !.filename = name] /\ duration' = duration
    BY <1>6 DEF IndexName
  <2>2. /\ pc = "options" /\ Asked("I", DefaultName)' = name
        /\ Asked("l", DefaultLength)' = Asked("l", DefaultLength)
        /\ "L" \in DOMAIN asked' <=> "L" \in DOMAIN asked
        /\ \A r \in Settings : Asked(r, NoText)' = Asked(r, NoText)
    BY <2>1 DEF Reads, Asked, Settings
  <2>3. "L" \in DOMAIN asked => asked'["L"] = asked["L"]
    BY <2>1 DEF Reads
  <2>4. /\ IsIndex(index') /\ index'.filename = name
        /\ index'.target = index.target /\ index'.window = index.window
        /\ index'.set = index.set
    BY <2>1 DEF IndexInv, IsIndex
  <2> QED  BY <2>1, <2>2, <2>3, <2>4 DEF IndexInv
<1>7. ASSUME NEW n \in Lives \cup {Malformed}, LiveIndex(n) PROVE IndexInv'
  <2>1. Reads("L", n)
    BY <1>7 DEF LiveIndex
  <2>2. CASE n = Malformed
    BY <1>7, <2>2, FailKeeps DEF LiveIndex, IndexInv, IsIndex
  <2>3. CASE n # Malformed
    <3>1. index' = NewIndex(index.filename, index.target, n % ULong) /\ duration' = duration
      BY <1>7, <2>3 DEF LiveIndex
    <3>2. /\ pc = "options" /\ Asked("I", DefaultName)' = Asked("I", DefaultName)
          /\ Asked("l", DefaultLength)' = Asked("l", DefaultLength)
          /\ "L" \in DOMAIN asked' /\ asked'["L"] = n
      BY <2>1 DEF Reads, Asked
    <3>3. /\ IsIndex(index') /\ index'.filename = index.filename
          /\ index'.target = index.target /\ index'.window = n % ULong
      BY <3>1, NewIndexType
    <3> QED  BY <3>1, <3>2, <3>3 DEF IndexInv
  <2> QED  BY <2>2, <2>3
<1>8. ASSUME NEW file \in Inputs, Input(file) PROVE IndexInv'
  <2>1. Reads("i", file) /\ index' = index /\ duration' = duration
    BY <1>8 DEF Input, settingVars
  <2> QED  BY <2>1, OtherOption DEF Settings
<1>9. ASSUME NEW text \in Extras, Extra(text) PROVE IndexInv'
  <2>1. Reads("e", text) /\ index' = index /\ duration' = duration
    BY <1>9 DEF Extra, settingVars
  <2> QED  BY <2>1, OtherOption DEF Settings
<1>10. ASSUME NEW n \in Cryptos \cup {Malformed}, Encrypt(n) PROVE IndexInv'
  <2>1. Reads("c", n) /\ index' = index /\ duration' = duration
    BY <1>10, FailKeeps DEF Encrypt, settingVars
  <2> QED  BY <2>1, OtherOption DEF Settings
<1>11. CASE Usage
  <2>1. Reads("?", TRUE) /\ index' = index /\ duration' = duration
    BY <1>11, FailKeeps DEF Usage
  <2> QED  BY <2>1, OtherOption DEF Settings
<1>12. CASE Start \/ Open \/ OpenFails \/ Add \/ UNCHANGED FileVars
  <2>1. index' = index /\ duration' = duration /\ asked' = asked
    BY <1>12, FailKeeps DEF Start, Open, OpenFails, Add, FileVars, optionVars, settingVars
  <2>2. pc = "failed" => pc' = "failed"
    BY <1>12 DEF Start, Open, OpenFails, Add, FileVars, optionVars
  <2> QED  BY <2>1, <2>2 DEF IndexInv, IsIndex, Asked
<1> QED
  BY <1>1, <1>2, <1>3, <1>4, <1>5, <1>6, <1>7, <1>8, <1>9, <1>10, <1>11, <1>12
  DEF FilesNext, OptionsNext

(* The options of the index, in any order and number, have their effect.   *)
THEOREM IndexIsAsAsked == FilesSpec => []IndexAsAsked
<1>1. FilesInit => IndexInv
  BY IndexInit DEF FilesInit
<1>2. IndexInv /\ [FilesNext]_FileVars => IndexInv'
  BY IndexStep
<1>3. IndexInv => IndexAsAsked
  BY DEF IndexInv, IndexAsAsked
<1> QED  BY <1>1, <1>2, <1>3, PTL DEF FilesSpec

(***************************************************************************)
(* The names that the patterns ask for.                                    *)
(***************************************************************************)
LEMMA NamesInit == PatternsFit /\ OptionsInit => NamesInv
<1> SUFFICES ASSUME PatternsFit, OptionsInit PROVE NamesInv
  OBVIOUS
<1>1. /\ out_file_pattern = DefaultOut /\ DOMAIN asked = {}
      /\ out_filenames = NewNames("Sequence", DefaultOut)
      /\ key_filenames = NewNames("Sequence", DefaultKey)
  BY DEF OptionsInit
<1>2. IsNames(out_filenames) /\ IsNames(key_filenames)
  BY <1>1, NewNamesType
<1>3. Asked("o", DefaultOut) = DefaultOut /\ Asked("k", DefaultKey) = DefaultKey
  BY <1>1 DEF Asked
<1>4. Matches(out_filenames, DefaultOut) /\ Matches(key_filenames, DefaultKey)
  <2>1. /\ DefaultOut.wildcards % UShort = DefaultOut.wildcards
        /\ DefaultKey.wildcards % UShort = DefaultKey.wildcards
    BY CommandLineAssumption DEF PatternsFit
  <2>2. Matches(out_filenames, DefaultOut)
    BY <1>1, <2>1, NewNamesType DEF Matches
  <2>3. Matches(key_filenames, DefaultKey)
    BY <1>1, <2>1, NewNamesType DEF Matches
  <2> QED  BY <2>2, <2>3
<1>5. out_filenames.class = "Sequence"
  BY <1>1, NewNamesType
<1> QED  BY <1>1, <1>2, <1>3, <1>4, <1>5 DEF NamesInv

LEMMA NamesStay ==
  ASSUME NamesInv, UNCHANGED nameVars, pc = "failed" => pc' = "failed",
         UNCHANGED <<Asked("o", DefaultOut), Asked("k", DefaultKey)>>,
         "t" \in DOMAIN asked' <=> "t" \in DOMAIN asked
  PROVE  NamesInv'
<1>1. out_filenames' = out_filenames /\ key_filenames' = key_filenames
      /\ out_file_pattern' = out_file_pattern
  BY DEF nameVars
<1> QED  BY <1>1 DEF NamesInv, IsNames, Matches

LEMMA OtherThanNames ==
  ASSUME NamesInv, NEW option, NEW argument, Reads(option, argument),
         option \notin {"o", "k", "t"}, UNCHANGED nameVars
  PROVE  NamesInv'
<1>1. /\ Asked("o", DefaultOut)' = Asked("o", DefaultOut)
      /\ Asked("k", DefaultKey)' = Asked("k", DefaultKey)
      /\ "t" \in DOMAIN asked' <=> "t" \in DOMAIN asked
      /\ pc = "options"
  BY DEF Reads, Asked
<1> QED  BY <1>1, NamesStay

LEMMA NamesStep ==
  ASSUME PatternsFit, NamesInv, [FilesNext]_FileVars
  PROVE  NamesInv'
<1>1. ASSUME NEW p \in OutPatterns, Output(p) PROVE NamesInv'
  <2>1. /\ Reads("o", p) /\ pc = "options"
        /\ Asked("o", DefaultOut)' = p /\ Asked("k", DefaultKey)' = Asked("k", DefaultKey)
        /\ "t" \in DOMAIN asked' <=> "t" \in DOMAIN asked
    BY <1>1 DEF Output, Reads, Asked
  <2>2. CASE p.wildcards = 0
    <3>1. UNCHANGED nameVars /\ pc' = "failed"
      BY <1>1, <2>2, FailKeeps DEF Output
    <3> QED  BY <3>1 DEF NamesInv, IsNames, nameVars
  <2>3. CASE p.wildcards # 0
    <3>1. /\ out_file_pattern' = p /\ key_filenames' = key_filenames
          /\ out_filenames' = Initialised(out_filenames, p)
      BY <1>1, <2>3 DEF Output
    <3>2. IsNames(out_filenames)
      BY DEF NamesInv
    <3>3. p.wildcards % UShort = p.wildcards
      BY CommandLineAssumption DEF PatternsFit
    <3>4. IsNames(out_filenames') /\ out_filenames'.class = out_filenames.class
      BY <3>1, <3>2, InitialisedType
    <3>5. Matches(out_filenames', p)
      BY <3>1, <3>2, <3>3, InitialisedType DEF Matches
    <3> QED  BY <2>1, <3>1, <3>4, <3>5 DEF NamesInv, IsNames, Matches
  <2> QED  BY <2>2, <2>3
<1>2. CASE Timestamp
  <2>1. /\ pc = "options"
        /\ Asked("o", DefaultOut)' = Asked("o", DefaultOut)
        /\ Asked("k", DefaultKey)' = Asked("k", DefaultKey)
        /\ "t" \in DOMAIN asked'
    BY <1>2 DEF Timestamp, Reads, Asked
  <2>2. /\ out_file_pattern' = out_file_pattern /\ key_filenames' = key_filenames
        /\ out_filenames' = NewNames("Timestamp", out_file_pattern)
    BY <1>2 DEF Timestamp
  <2>3. out_file_pattern.wildcards % UShort = out_file_pattern.wildcards
    BY CommandLineAssumption DEF PatternsFit, NamesInv
  <2>4. IsNames(out_filenames') /\ out_filenames'.class = "Timestamp"
    BY <2>2, NewNamesType
  <2>5. Matches(out_filenames', out_file_pattern)
    BY <2>2, <2>3, NewNamesType DEF Matches
  <2> QED  BY <2>1, <2>2, <2>4, <2>5 DEF NamesInv, IsNames, Matches
<1>3. ASSUME NEW p \in KeyPatterns, Key(p) PROVE NamesInv'
  <2>1. /\ Reads("k", p) /\ pc = "options"
        /\ Asked("k", DefaultKey)' = p /\ Asked("o", DefaultOut)' = Asked("o", DefaultOut)
        /\ "t" \in DOMAIN asked' <=> "t" \in DOMAIN asked
    BY <1>3 DEF Key, Reads, Asked
  <2>2. CASE p.wildcards = 0
    <3>1. UNCHANGED nameVars /\ pc' = "failed"
      BY <1>3, <2>2, FailKeeps DEF Key
    <3> QED  BY <3>1 DEF NamesInv, IsNames, nameVars
  <2>3. CASE p.wildcards # 0
    <3>1. /\ out_file_pattern' = out_file_pattern /\ out_filenames' = out_filenames
          /\ key_filenames' = Initialised(key_filenames, p)
      BY <1>3, <2>3 DEF Key
    <3>2. IsNames(key_filenames)
      BY DEF NamesInv
    <3>3. p.wildcards % UShort = p.wildcards
      BY CommandLineAssumption DEF PatternsFit
    <3>4. IsNames(key_filenames')
      BY <3>1, <3>2, InitialisedType
    <3>5. Matches(key_filenames', p)
      BY <3>1, <3>2, <3>3, InitialisedType DEF Matches
    <3> QED  BY <2>1, <3>1, <3>4, <3>5 DEF NamesInv, IsNames, Matches
  <2> QED  BY <2>2, <2>3
<1>4. ASSUME NEW s \in Settings, NEW text \in Texts, Set(s, text) PROVE NamesInv'
  BY <1>4, OtherThanNames DEF Set, Settings
<1>5. ASSUME NEW l \in Lengths \cup {Malformed}, Length(l) PROVE NamesInv'
  <2>1. Reads("l", l) /\ UNCHANGED nameVars
    BY <1>5, FailKeeps DEF Length
  <2> QED  BY <2>1, OtherThanNames
<1>6. ASSUME NEW name \in Names, IndexName(name) PROVE NamesInv'
  BY <1>6, OtherThanNames DEF IndexName
<1>7. ASSUME NEW n \in Lives \cup {Malformed}, LiveIndex(n) PROVE NamesInv'
  <2>1. Reads("L", n) /\ UNCHANGED nameVars
    BY <1>7, FailKeeps DEF LiveIndex
  <2> QED  BY <2>1, OtherThanNames
<1>8. ASSUME NEW file \in Inputs, Input(file) PROVE NamesInv'
  <2>1. Reads("i", file) /\ UNCHANGED nameVars
    BY <1>8 DEF Input, settingVars
  <2> QED  BY <2>1, OtherThanNames
<1>9. ASSUME NEW text \in Extras, Extra(text) PROVE NamesInv'
  <2>1. Reads("e", text) /\ UNCHANGED nameVars
    BY <1>9 DEF Extra, settingVars
  <2> QED  BY <2>1, OtherThanNames
<1>10. ASSUME NEW n \in Cryptos \cup {Malformed}, Encrypt(n) PROVE NamesInv'
  <2>1. Reads("c", n) /\ UNCHANGED nameVars
    BY <1>10, FailKeeps DEF Encrypt, settingVars
  <2> QED  BY <2>1, OtherThanNames
<1>11. CASE Usage
  <2>1. Reads("?", TRUE) /\ UNCHANGED nameVars
    BY <1>11, FailKeeps DEF Usage
  <2> QED  BY <2>1, OtherThanNames
<1>12. CASE Start \/ Open \/ OpenFails \/ Add \/ UNCHANGED FileVars
  <2>1. UNCHANGED nameVars /\ asked' = asked
    BY <1>12, FailKeeps DEF Start, Open, OpenFails, Add, FileVars, optionVars, settingVars
  <2>2. pc = "failed" => pc' = "failed"
    BY <1>12 DEF Start, Open, OpenFails, Add, FileVars, optionVars
  <2>3. UNCHANGED <<Asked("o", DefaultOut), Asked("k", DefaultKey)>>
    BY <2>1 DEF Asked
  <2> QED  BY <2>1, <2>2, <2>3, NamesStay
<1> QED
  BY <1>1, <1>2, <1>3, <1>4, <1>5, <1>6, <1>7, <1>8, <1>9, <1>10, <1>11, <1>12
  DEF FilesNext, OptionsNext

(* The options of names, in any order and number, have their effect.       *)
THEOREM NamesAreAsAsked ==
  ASSUME PatternsFit
  PROVE  FilesSpec => []NamesAsAsked
<1>1. FilesInit => NamesInv
  BY NamesInit DEF FilesInit
<1>2. NamesInv /\ [FilesNext]_FileVars => NamesInv'
  BY NamesStep
<1>3. NamesInv => NamesAsAsked
  BY DEF NamesInv, NamesAsAsked
<1> QED  BY <1>1, <1>2, <1>3, PTL DEF FilesSpec

(***************************************************************************)
(* What the names of the files rest on.                                    *)
(***************************************************************************)
IsSeq(s) == \E S : s \in Seq(S)

(* The settings that decide how many names there are.                      *)
RangeInv ==
  /\ IsIndex(index) /\ index.window \in 0 .. ULong - 1 \cup {NotLive}
  /\ IsNames(out_filenames) /\ out_filenames.digits \in 0 .. UShort - 1
  /\ IsNames(key_filenames) /\ key_filenames.digits \in 0 .. UShort - 1
  /\ key_filenames.class = "Sequence"
  /\ out_file_pattern \in OutPatterns \cup {DefaultOut}
  /\ crypto \in Nat
  /\ pc \in {"options", "running", "adding", "failed"}

(* The name of segment n, or of the key made for it.                       *)
FillsSegment(name, n) ==
  IF out_filenames.class = "Timestamp"
    THEN name.fill \in Nat /\ name.fill <= seconds
    ELSE name.fill = Digits(out_filenames, n)
FillsKey(name, n) == name.fill = Digits(key_filenames, n)

(* Segment n is encrypted with the key made for segment k, or not at all.  *)
KeyOf(k, n) ==
  k # 0 =>
    /\ crypto # 0 /\ Openable(key_filenames)
    /\ k \in 1 .. n /\ k % crypto = 1
    /\ \A j \in k + 1 .. n : j % crypto # 1

(* The entries carry consecutive numbers, the last of them made last.      *)
ListInv ==
  /\ sequence \in Nat \ {0} /\ seconds \in Nat /\ hasty \in BOOLEAN
  /\ IsSeq(listed) /\ Len(listed) <= sequence - 1
  /\ index.window # NotLive => Len(listed) <= index.window
  /\ \A i \in 1 .. Len(listed) :
       /\ listed[i].n = sequence - Len(listed) + i - 1
       /\ FillsSegment(listed[i].uri, listed[i].n)
  /\ pc = "adding" => FillsSegment(out_filename, sequence)
  /\ pc = "adding" \/ Len(listed) > 0 => Openable(out_filenames)

SegmentFilesInv ==
  SegmentNamesSuffice =>
    /\ \A i \in 1 .. Len(listed) :
         listed[i].uri \in DOMAIN files /\ files[listed[i].uri] = listed[i].n
    /\ pc = "adding" => out_filename \in DOMAIN files /\ files[out_filename] = sequence

KeyListInv ==
  /\ \A i \in 1 .. Len(listed) :
       /\ KeyOf(listed[i].key, listed[i].n)
       /\ listed[i].key # 0 => FillsKey(listed[i].key_uri, listed[i].key)
  /\ KeyOf(key, IF pc = "adding" THEN sequence ELSE sequence - 1)
  /\ key # 0 => FillsKey(key_filename, key)

KeyFilesInv ==
  KeyNamesSuffice =>
    /\ \A i \in 1 .. Len(listed) : listed[i].key # 0 =>
         listed[i].key_uri \in DOMAIN key_files /\ key_files[listed[i].key_uri] = listed[i].key
    /\ key # 0 => key_filename \in DOMAIN key_files /\ key_files[key_filename] = key

(* Nothing has been made while options are read.                           *)
Unused ==
  /\ sequence = 1 /\ seconds = 0 /\ ~hasty
  /\ listed = <<>> /\ key = 0

FilesInv ==
  /\ RangeInv
  /\ pc = "options" => Unused
  /\ pc \in {"running", "adding"} =>
       ListInv /\ SegmentFilesInv /\ KeyListInv /\ KeyFilesInv

(***************************************************************************)
(* Names that come round: numbers less than a power of the base apart have *)
(* different digits.                                                       *)
(***************************************************************************)
LEMMA Division ==
  ASSUME NEW a \in Nat, NEW m \in Nat \ {0}
  PROVE  /\ a \div m \in Nat /\ a % m \in 0 .. m - 1
         /\ a = (m * (a \div m)) + (a % m)
OBVIOUS

LEMMA Divides ==
  ASSUME NEW a \in Nat, NEW m \in Nat \ {0}
  PROVE  \E q \in Nat, r \in 0 .. m - 1 : a = (m * q) + r /\ r = a % m
<1> DEFINE p == a \div m
           o == a % m
<1>1. p \in Nat /\ o \in 0 .. m - 1 /\ a = (m * p) + o
  BY Division
<1>2. o = a % m
  OBVIOUS
<1> HIDE DEF p, o
<1> QED  BY <1>1, <1>2

LEMMA Apart ==
  ASSUME NEW a \in Nat, NEW b \in Nat, NEW m \in Nat, a < b, b - a < m
  PROVE b % m # a % m
<1>1. m \in Nat \ {0}
  OBVIOUS
<1>2. PICK q \in Nat, r \in 0 .. m - 1 : a = (m * q) + r /\ r = a % m
  BY <1>1, Divides
<1>3. PICK u \in Nat, s \in 0 .. m - 1 : b = (m * u) + s /\ s = b % m
  BY <1>1, Divides
<1>4. SUFFICES ASSUME r = s PROVE FALSE
  BY <1>2, <1>3
<1>5. PICK k \in Int : k = u - q
  OBVIOUS
<1>6. m * k = (m * u) - (m * q)
  BY <1>5
<1>7. b - a = m * k
  <2> DEFINE x == m * q
             y == m * u
  <2>1. x \in Nat /\ y \in Nat
    OBVIOUS
  <2>2. b = y + s /\ a = x + s /\ m * k = y - x
    BY <1>2, <1>3, <1>4, <1>6
  <2> HIDE DEF x, y
  <2> QED  BY <2>1, <2>2
<1>8. k > 0 => m * k >= m
  OBVIOUS
<1>9. k <= 0 => m * k <= 0
  OBVIOUS
<1> QED
  <2>1. PICK z \in Int : z = m * k
    OBVIOUS
  <2> QED  BY <1>7, <1>8, <1>9, <2>1

LEMMA Again ==
  ASSUME NEW a \in Nat, NEW m \in Nat \ {0}
  PROVE  (a + m) % m = a % m
<1>1. PICK q \in Nat, r \in 0 .. m - 1 : a = (m * q) + r /\ r = a % m
  BY Divides
<1>2. PICK u \in Nat, s \in 0 .. m - 1 : a + m = (m * u) + s /\ s = (a + m) % m
  <2>1. a + m \in Nat
    OBVIOUS
  <2> QED  BY <2>1, Divides
<1>5. PICK k \in Int : k = u - q
  OBVIOUS
<1>6. m * k = (m * u) - (m * q)
  BY <1>5
<1>7. m * k = m + r - s
  <2> DEFINE x == m * q
             y == m * u
  <2>1. x \in Nat /\ y \in Nat
    OBVIOUS
  <2>2. a + m = y + s /\ a = x + r /\ m * k = y - x
    BY <1>1, <1>2, <1>6
  <2> HIDE DEF x, y
  <2> QED  BY <2>1, <2>2
<1>8. k >= 2 => m * k >= m + m
  OBVIOUS
<1>9. k <= 0 => m * k <= 0
  OBVIOUS
<1>10. k = 1
  <2>1. PICK z \in Int : z = m * k
    OBVIOUS
  <2> QED  BY <1>7, <1>8, <1>9, <2>1
<1> QED
  <2>1. m * 1 = m /\ m \in Nat
    OBVIOUS
  <2>2. m = m + r - s
    BY <1>7, <1>10, <2>1
  <2>3. r = s
    BY <2>1, <2>2
  <2> QED  BY <1>1, <1>2, <2>3

(***************************************************************************)
(* Lists of entries, and files by name.                                    *)
(***************************************************************************)
LEMMA SeqFacts ==
  ASSUME NEW s, IsSeq(s)
  PROVE  Len(s) \in Nat /\ DOMAIN s = 1 .. Len(s)
BY DEF IsSeq

LEMMA LongerList ==
  ASSUME NEW s, IsSeq(s), NEW e
  PROVE  /\ IsSeq(Append(s, e)) /\ Len(Append(s, e)) = Len(s) + 1
         /\ \A i \in 1 .. Len(s) : Append(s, e)[i] = s[i]
         /\ Append(s, e)[Len(s) + 1] = e
<1>1. PICK S : s \in Seq(S)
  BY DEF IsSeq
<1> DEFINE U == S \cup {e}
<1>2. s \in Seq(U) /\ e \in U
  BY <1>1
<1> HIDE DEF U
<1>3. /\ Append(s, e) \in Seq(U) /\ Len(Append(s, e)) = Len(s) + 1
      /\ \A i \in 1 .. Len(s) : Append(s, e)[i] = s[i]
      /\ Append(s, e)[Len(s) + 1] = e
  BY <1>2
<1> QED  BY <1>3 DEF IsSeq

LEMMA ShorterList ==
  ASSUME NEW s, IsSeq(s), Len(s) > 0
  PROVE  /\ IsSeq(Tail(s)) /\ Len(Tail(s)) = Len(s) - 1 /\ Head(s) = s[1]
         /\ \A i \in 1 .. Len(s) - 1 : Tail(s)[i] = s[i + 1]
<1>1. PICK S : s \in Seq(S)
  BY DEF IsSeq
<1>2. /\ Tail(s) \in Seq(S) /\ Len(Tail(s)) = Len(s) - 1 /\ Head(s) = s[1]
      /\ \A i \in 1 .. Len(s) - 1 : Tail(s)[i] = s[i + 1]
  BY <1>1
<1> QED  BY <1>2 DEF IsSeq

LEMMA StoredFacts ==
  ASSUME NEW disk, NEW name, NEW what
  PROVE  /\ name \in DOMAIN Stored(disk, name, what)
         /\ Stored(disk, name, what)[name] = what
         /\ \A n \in DOMAIN disk : n # name =>
              n \in DOMAIN Stored(disk, name, what) /\ Stored(disk, name, what)[n] = disk[n]
BY DEF Stored

(***************************************************************************)
(* The settings.                                                           *)
(***************************************************************************)
LEMMA Powers ==
  ASSUME RangeInv
  PROVE  Base ^ out_filenames.digits \in Nat /\ Base ^ key_filenames.digits \in Nat
<1> DEFINE a == out_filenames.digits
           b == key_filenames.digits
<1>1. a \in 0 .. UShort - 1 /\ b \in 0 .. UShort - 1
  BY DEF RangeInv
<1> HIDE DEF a, b
<1>2. Base ^ a \in Nat /\ Base ^ b \in Nat
  BY <1>1, FileNamesAssumption
<1> QED  BY <1>2 DEF a, b

LEMMA UnsignedRemainder ==
  ASSUME NEW a \in Int, NEW m \in Nat \ {0}
  PROVE  a % m \in 0 .. m - 1
OBVIOUS

LEMMA PatternDigits ==
  ASSUME NEW names, IsNames(names),
         NEW p \in OutPatterns \cup KeyPatterns \cup {DefaultOut, DefaultKey}
  PROVE  Initialised(names, p).digits \in 0 .. UShort - 1
<1> DEFINE number == IF p.after = NoText THEN ULong - 1 - p.at ELSE p.wildcards
           c == names.class
           x == names.prefix
           f == names.suffix
           d == names.digits
<1>1. number \in Int
  BY CommandLineAssumption
<1> HIDE DEF number
<1>2. number % UShort \in 0 .. UShort - 1
  BY <1>1, UnsignedRemainder, CommandLineAssumption
<1>3. Initialised([class |-> c, prefix |-> x, suffix |-> f, digits |-> d], p)
        = [class |-> c, prefix |-> p.before,
           suffix |-> IF p.after = NoText THEN f ELSE p.after, digits |-> number % UShort]
  BY InitialisedIs DEF number
<1>4. names = [class |-> c, prefix |-> x, suffix |-> f, digits |-> d]
  BY DEF IsNames
<1> HIDE DEF c, x, f, d
<1>5. Initialised(names, p).digits = number % UShort
  BY <1>3, <1>4
<1> QED  BY <1>2, <1>5

LEMMA NewDigits ==
  ASSUME NEW class, NEW p \in OutPatterns \cup KeyPatterns \cup {DefaultOut, DefaultKey}
  PROVE  NewNames(class, p).digits \in 0 .. UShort - 1
<1> DEFINE empty == [class |-> class, prefix |-> NoText, suffix |-> NoText, digits |-> 0]
<1>1. IsNames(empty)
  BY DEF IsNames
<1>2. NewNames(class, p) = Initialised(empty, p)
  BY DEF NewNames
<1> HIDE DEF empty
<1> QED  BY <1>1, <1>2, PatternDigits

LEMMA RangeInit == OptionsInit => RangeInv
<1> SUFFICES ASSUME OptionsInit PROVE RangeInv
  OBVIOUS
<1>1. /\ index = NewIndex(DefaultName, DefaultLength, NotLive)
      /\ out_filenames = NewNames("Sequence", DefaultOut)
      /\ key_filenames = NewNames("Sequence", DefaultKey)
      /\ out_file_pattern = DefaultOut /\ crypto = 0 /\ pc = "options"
  BY DEF OptionsInit
<1>2. IsIndex(index) /\ index.window = NotLive
  BY <1>1, NewIndexType
<1>3. /\ IsNames(out_filenames) /\ out_filenames.digits \in 0 .. UShort - 1
      /\ IsNames(key_filenames) /\ key_filenames.digits \in 0 .. UShort - 1
      /\ key_filenames.class = "Sequence"
  BY <1>1, NewNamesType, NewDigits
<1> QED  BY <1>1, <1>2, <1>3 DEF RangeInv

LEMMA RangeStays ==
  ASSUME RangeInv, UNCHANGED <<index, nameVars, crypto>>,
         pc' \in {"options", "running", "adding", "failed"}
  PROVE  RangeInv'
<1>1. /\ index' = index /\ out_filenames' = out_filenames /\ key_filenames' = key_filenames
      /\ out_file_pattern' = out_file_pattern /\ crypto' = crypto
  BY DEF nameVars
<1> QED  BY <1>1 DEF RangeInv, IsIndex, IsNames

LEMMA FailRange ==
  ASSUME RangeInv, Fail
  PROVE  RangeInv'
BY RangeStays DEF Fail, settingVars, inputVars, nameVars

LEMMA RangeOption ==
  ASSUME RangeInv, OptionsNext
  PROVE  RangeInv'
<1>1. ASSUME NEW p \in OutPatterns, Output(p) PROVE RangeInv'
  <2>1. CASE p.wildcards = 0
    BY <1>1, <2>1, FailRange DEF Output
  <2>2. CASE p.wildcards # 0
    <3>1. /\ out_filenames' = Initialised(out_filenames, p) /\ out_file_pattern' = p
          /\ index' = index /\ key_filenames' = key_filenames
          /\ crypto' = crypto /\ pc' = pc
      BY <1>1, <2>2 DEF Output, inputVars
    <3>2. IsNames(out_filenames)
      BY DEF RangeInv
    <3>3. IsNames(out_filenames') /\ out_filenames'.digits \in 0 .. UShort - 1
      BY <3>1, <3>2, InitialisedType, PatternDigits
    <3> QED  BY <3>1, <3>3 DEF RangeInv, IsIndex, IsNames
  <2> QED  BY <2>1, <2>2
<1>2. CASE Timestamp
  <2>1. /\ out_filenames' = NewNames("Timestamp", out_file_pattern)
        /\ index' = index /\ key_filenames' = key_filenames
        /\ out_file_pattern' = out_file_pattern /\ crypto' = crypto /\ pc' = pc
    BY <1>2 DEF Timestamp, inputVars
  <2>2. out_file_pattern \in OutPatterns \cup KeyPatterns \cup {DefaultOut, DefaultKey}
    BY DEF RangeInv
  <2>3. IsNames(out_filenames') /\ out_filenames'.digits \in 0 .. UShort - 1
    BY <2>1, <2>2, NewNamesType, NewDigits
  <2> QED  BY <2>1, <2>3 DEF RangeInv, IsIndex, IsNames
<1>3. ASSUME NEW p \in KeyPatterns, Key(p) PROVE RangeInv'
  <2>1. CASE p.wildcards = 0
    BY <1>3, <2>1, FailRange DEF Key
  <2>2. CASE p.wildcards # 0
    <3>1. /\ key_filenames' = Initialised(key_filenames, p)
          /\ index' = index /\ out_filenames' = out_filenames
          /\ out_file_pattern' = out_file_pattern /\ crypto' = crypto /\ pc' = pc
      BY <1>3, <2>2 DEF Key, inputVars
    <3>2. IsNames(key_filenames) /\ key_filenames.class = "Sequence"
      BY DEF RangeInv
    <3>3. /\ IsNames(key_filenames') /\ key_filenames'.digits \in 0 .. UShort - 1
          /\ key_filenames'.class = "Sequence"
      BY <3>1, <3>2, InitialisedType, PatternDigits
    <3> QED  BY <3>1, <3>3 DEF RangeInv, IsIndex, IsNames
  <2> QED  BY <2>1, <2>2
<1>4. ASSUME NEW s \in Settings, NEW text \in Texts, Set(s, text) PROVE RangeInv'
  <2>1. /\ index' = [index EXCEPT !.set = [@ EXCEPT ![s] = text]]
        /\ UNCHANGED <<nameVars, crypto, pc>>
    BY <1>4 DEF Set, inputVars
  <2>2. IsIndex(index') /\ index'.window = index.window
    BY <2>1 DEF RangeInv, IsIndex
  <2> QED  BY <2>1, <2>2 DEF RangeInv, IsNames, nameVars
<1>5. ASSUME NEW l \in Lengths \cup {Malformed}, Length(l) PROVE RangeInv'
  <2>1. CASE l = Malformed
    BY <1>5, <2>1, FailRange DEF Length
  <2>2. CASE l # Malformed
    <3>1. index' = [index EXCEPT !.target = l] /\ UNCHANGED <<nameVars, crypto, pc>>
      BY <1>5, <2>2 DEF Length, inputVars
    <3>2. IsIndex(index') /\ index'.window = index.window
      BY <3>1 DEF RangeInv, IsIndex
    <3> QED  BY <3>1, <3>2 DEF RangeInv, IsNames, nameVars
  <2> QED  BY <2>1, <2>2
<1>6. ASSUME NEW name \in Names, IndexName(name) PROVE RangeInv'
  <2>1. index' = [index EXCEPT !.filename = name] /\ UNCHANGED <<nameVars, crypto, pc>>
    BY <1>6 DEF IndexName, inputVars
  <2>2. IsIndex(index') /\ index'.window = index.window
    BY <2>1 DEF RangeInv, IsIndex
  <2> QED  BY <2>1, <2>2 DEF RangeInv, IsNames, nameVars
<1>7. ASSUME NEW n \in Lives \cup {Malformed}, LiveIndex(n) PROVE RangeInv'
  <2>1. CASE n = Malformed
    BY <1>7, <2>1, FailRange DEF LiveIndex
  <2>2. CASE n # Malformed
    <3>1. /\ index' = NewIndex(index.filename, index.target, n % ULong)
          /\ UNCHANGED <<nameVars, crypto, pc>>
      BY <1>7, <2>2 DEF LiveIndex, inputVars
    <3>2. n % ULong \in 0 .. ULong - 1
      BY <2>2, UnsignedRemainder, CommandLineAssumption
    <3>3. IsIndex(index') /\ index'.window \in 0 .. ULong - 1
      BY <3>1, <3>2, NewIndexType
    <3> QED  BY <3>1, <3>3 DEF RangeInv, IsNames, nameVars
  <2> QED  BY <2>1, <2>2
<1>8. ASSUME NEW file \in Inputs, Input(file) PROVE RangeInv'
  BY <1>8, RangeStays DEF Input, settingVars, RangeInv
<1>9. ASSUME NEW text \in Extras, Extra(text) PROVE RangeInv'
  BY <1>9, RangeStays DEF Extra, settingVars, RangeInv
<1>10. ASSUME NEW n \in Cryptos \cup {Malformed}, Encrypt(n) PROVE RangeInv'
  <2>1. CASE n = Malformed
    BY <1>10, <2>1, FailRange DEF Encrypt
  <2>2. CASE n # Malformed
    <3>1. /\ crypto' = n % ULong
          /\ UNCHANGED <<index, out_file_pattern, out_filenames, key_filenames, pc>>
      BY <1>10, <2>2 DEF Encrypt, settingVars, nameVars
    <3>2. n % ULong \in 0 .. ULong - 1
      BY <2>2, UnsignedRemainder, CommandLineAssumption
    <3> QED  BY <3>1, <3>2, CommandLineAssumption DEF RangeInv, IsNames, IsIndex
  <2> QED  BY <2>1, <2>2
<1>11. CASE Usage
  BY <1>11, FailRange DEF Usage
<1>12. CASE Start
  BY <1>12, RangeStays DEF Start, settingVars, inputVars
<1> QED
  BY <1>1, <1>2, <1>3, <1>4, <1>5, <1>6, <1>7, <1>8, <1>9, <1>10, <1>11, <1>12 DEF OptionsNext

(* What the numbers of names have to exceed.                               *)
LEMMA BehindBounds ==
  ASSUME RangeInv, ListInv
  PROVE  Behind \in Nat /\ Len(listed) \in Nat /\ Len(listed) <= Behind
<1>1. Len(listed) \in Nat
  BY SeqFacts DEF ListInv
<1>2. CASE index.window = NotLive
  BY <1>1, <1>2 DEF Behind, ListInv
<1>3. CASE index.window # NotLive
  BY <1>1, <1>3, CommandLineAssumption DEF Behind, ListInv, RangeInv
<1> QED  BY <1>2, <1>3

LEMMA LoopKeeps ==
  ASSUME Open \/ Add
  PROVE  /\ index' = index /\ out_filenames' = out_filenames /\ crypto' = crypto
         /\ key_filenames' = key_filenames /\ out_file_pattern' = out_file_pattern
BY DEF Open, Add, settingVars, nameVars, inputVars

(* Nothing is listed and no key was made before the first segment.         *)
LEMMA UnusedFits ==
  ASSUME RangeInv', Unused', pc' = "running"
  PROVE  ListInv' /\ SegmentFilesInv' /\ KeyListInv' /\ KeyFilesInv'
<1>1. listed' = <<>> /\ Len(listed') = 0 /\ IsSeq(listed')
  <2>1. <<>> \in Seq({}) /\ Len(<<>>) = 0
    OBVIOUS
  <2> QED  BY <2>1 DEF Unused, IsSeq
<1>2. \A i \in 1 .. Len(listed') : FALSE
  BY <1>1
<1>3. sequence' = 1 /\ seconds' = 0 /\ hasty' = FALSE /\ key' = 0
  BY DEF Unused
<1>4. index'.window # NotLive => Len(listed') <= index'.window
  BY <1>1, CommandLineAssumption DEF RangeInv
<1>5. ListInv'
  <2>1. /\ sequence' \in Nat \ {0} /\ seconds' \in Nat /\ hasty' \in BOOLEAN
        /\ Len(listed') <= sequence' - 1
    <3>1. 0 <= 1 - 1 /\ 1 \in Nat \ {0}
      OBVIOUS
    <3> QED  BY <1>1, <1>3, <3>1
  <2>2. \A i \in 1 .. Len(listed') :
          /\ listed'[i].n = sequence' - Len(listed') + i - 1
          /\ FillsSegment(listed[i].uri, listed[i].n)'
    BY <1>2
  <2>3. ~(pc' = "adding" \/ Len(listed') > 0) /\ pc' # "adding"
    BY <1>1
  <2> QED  BY <1>1, <1>4, <2>1, <2>2, <2>3 DEF ListInv
<1>6. SegmentFilesInv'
  BY <1>2 DEF SegmentFilesInv
<1>7. KeyListInv'
  BY <1>2, <1>3 DEF KeyListInv, KeyOf
<1>8. KeyFilesInv'
  BY <1>2, <1>3 DEF KeyFilesInv
<1> QED  BY <1>5, <1>6, <1>7, <1>8

(***************************************************************************)
(* A segment is begun.                                                     *)
(***************************************************************************)
LEMMA OpenFacts ==
  ASSUME Open
  PROVE  /\ pc = "running" /\ pc' = "adding"
         /\ sequence' = sequence /\ listed' = listed
         /\ seconds' \in {seconds, seconds + 1}
         /\ hasty' = (hasty \/ (sequence > 1 /\ seconds' = seconds))
         /\ Openable(out_filenames) /\ (SwitchesKey => Openable(key_filenames))
         /\ out_filename' = FilenameOf(out_filenames, sequence, seconds')
         /\ files' = Stored(files, out_filename', sequence)
         /\ SwitchesKey =>
              /\ key' = sequence
              /\ key_filename' = FilenameOf(key_filenames, sequence, seconds')
              /\ key_files' = Stored(key_files, key_filename', key')
         /\ ~SwitchesKey =>
              key' = key /\ key_filename' = key_filename /\ key_files' = key_files
BY DEF Open

(* Names kept say no less at a later moment.                               *)
LEMMA FillsStay ==
  ASSUME UNCHANGED <<out_filenames, key_filenames>>, seconds \in Nat,
         seconds' \in {seconds, seconds + 1}
  PROVE  /\ \A name, n : FillsSegment(name, n) => FillsSegment(name, n)'
         /\ \A name, n : FillsKey(name, n) => FillsKey(name, n)'
<1>1. out_filenames' = out_filenames /\ key_filenames' = key_filenames
  OBVIOUS
<1>2. ASSUME NEW name, NEW n, FillsSegment(name, n) PROVE FillsSegment(name, n)'
  <2>1. CASE out_filenames.class = "Timestamp"
    BY <1>1, <1>2, <2>1 DEF FillsSegment
  <2>2. CASE out_filenames.class # "Timestamp"
    BY <1>1, <1>2, <2>2 DEF FillsSegment, Digits
  <2> QED  BY <2>1, <2>2
<1>3. ASSUME NEW name, NEW n, FillsKey(name, n) PROVE FillsKey(name, n)'
  BY <1>1, <1>3 DEF FillsKey, Digits
<1> QED  BY <1>2, <1>3

LEMMA OpenList ==
  ASSUME RangeInv, ListInv, Open
  PROVE  /\ ListInv' /\ FillsSegment(out_filename, sequence)'
         /\ \A i \in 1 .. Len(listed) : listed[i].n \in Nat /\ listed[i].n < sequence
                                          /\ sequence - listed[i].n <= Len(listed)
<1>1. UNCHANGED <<out_filenames, key_filenames>> /\ index' = index
  BY LoopKeeps
<1>2. /\ sequence \in Nat \ {0} /\ seconds \in Nat /\ hasty \in BOOLEAN
      /\ IsSeq(listed) /\ Len(listed) <= sequence - 1
      /\ Len(listed) \in Nat
  BY SeqFacts DEF ListInv
<1>3. FillsSegment(out_filename, sequence)'
  <2>1. out_filename'.fill =
          IF out_filenames.class = "Timestamp" THEN seconds' ELSE Digits(out_filenames, sequence)
    BY OpenFacts DEF FilenameOf
  <2>2. seconds' \in Nat
    BY <1>2, OpenFacts
  <2> QED  BY <1>1, <2>1, <2>2, OpenFacts DEF FillsSegment, Digits
<1>4. ASSUME NEW i \in 1 .. Len(listed)
      PROVE  /\ listed[i].n = sequence - Len(listed) + i - 1
             /\ FillsSegment(listed[i].uri, listed[i].n)'
             /\ listed[i].n \in Nat /\ listed[i].n < sequence
             /\ sequence - listed[i].n <= Len(listed)
  <2>1. PICK l \in Nat : l = Len(listed)
    BY <1>2
  <2>2. i \in 1 .. l /\ l <= sequence - 1
    BY <1>2, <2>1
  <2>3. listed[i].n = sequence - l + i - 1
    BY <2>1 DEF ListInv
  <2>4. listed[i].n \in Nat /\ listed[i].n < sequence /\ sequence - listed[i].n <= l
    BY <1>2, <2>2, <2>3
  <2>5. FillsSegment(listed[i].uri, listed[i].n)
    BY DEF ListInv
  <2>6. FillsSegment(listed[i].uri, listed[i].n)'
    <3> DEFINE u == listed[i].uri
               n == listed[i].n
    <3>1. FillsSegment(u, n)
      BY <2>5
    <3>2. u' = u /\ n' = n
      BY OpenFacts
    <3> HIDE DEF u, n
    <3>3. \A name, m : FillsSegment(name, m) => FillsSegment(name, m)'
      BY <1>1, <1>2, OpenFacts, FillsStay
    <3> QED  BY <3>1, <3>2, <3>3 DEF FillsSegment, u, n
  <2> QED  BY <2>1, <2>3, <2>4, <2>6
<1>5. ListInv'
  <2>1. seconds' \in Nat /\ hasty' \in BOOLEAN
    BY <1>2, OpenFacts
  <2>2. index.window # NotLive => Len(listed) <= index.window
    BY DEF ListInv
  <2>3. \A i \in 1 .. Len(listed') :
          /\ listed'[i].n = sequence' - Len(listed') + i - 1
          /\ FillsSegment(listed[i].uri, listed[i].n)'
    BY <1>4, OpenFacts
  <2>4. Openable(out_filenames)'
    BY <1>1, OpenFacts DEF Openable
  <2> QED  BY <1>1, <1>2, <1>3, <2>1, <2>2, <2>3, <2>4, OpenFacts DEF ListInv
<1> QED  BY <1>3, <1>4, <1>5

(* With names enough the new name is none of those listed.                 *)
LEMMA OtherName ==
  ASSUME RangeInv, ListInv, Open, SegmentNamesSuffice', NEW i \in 1 .. Len(listed)
  PROVE  listed[i].uri # out_filename'
<1>1. UNCHANGED <<out_filenames, key_filenames>> /\ index' = index
  BY LoopKeeps
<1>2. /\ sequence \in Nat \ {0} /\ seconds \in Nat /\ Len(listed) \in Nat
      /\ Len(listed) <= sequence - 1
  BY SeqFacts DEF ListInv
<1>3. FillsSegment(listed[i].uri, listed[i].n)
  BY DEF ListInv
<1>4. CASE out_filenames.class = "Timestamp"
  <2>1. ~hasty' /\ sequence > 1
    BY <1>1, <1>2, <1>4 DEF SegmentNamesSuffice
  <2>2. seconds' = seconds + 1
    BY <2>1, OpenFacts
  <2>3. out_filename'.fill = seconds'
    BY <1>4, OpenFacts DEF FilenameOf
  <2>4. listed[i].uri.fill \in Nat /\ listed[i].uri.fill <= seconds
    BY <1>3, <1>4 DEF FillsSegment
  <2>5. listed[i].uri.fill # seconds + 1
    BY <1>2, <2>4
  <2> QED  BY <2>2, <2>3, <2>5
<1>5. CASE out_filenames.class # "Timestamp"
  <2>1. PICK m \in Nat : m = Base ^ out_filenames.digits
    BY Powers
  <2>2. Behind' = Behind
    BY <1>1, OpenFacts DEF Behind
  <2>3. m > Behind
    BY <1>1, <1>5, <2>1, <2>2, OpenFacts DEF SegmentNamesSuffice, Openable
  <2>4. PICK n \in Nat : n = listed[i].n /\ n < sequence /\ sequence - n <= Len(listed)
    BY OpenList
  <2>5. sequence - n < m
    <3>1. Behind \in Nat /\ Len(listed) <= Behind
      BY BehindBounds
    <3> QED  BY <1>2, <2>3, <2>4, <3>1
  <2>6. sequence % m # n % m
    BY <1>2, <2>4, <2>5, Apart
  <2>7. listed[i].uri.fill = n % m
    BY <1>3, <1>5, <2>1, <2>4 DEF FillsSegment, Digits
  <2>8. out_filename'.fill = sequence % m
    BY <1>5, <2>1, OpenFacts DEF FilenameOf, Digits
  <2> QED  BY <2>6, <2>7, <2>8
<1> QED  BY <1>4, <1>5

LEMMA OpenSegmentFiles ==
  ASSUME RangeInv, ListInv, SegmentFilesInv, Open
  PROVE  SegmentFilesInv'
<1> SUFFICES ASSUME SegmentNamesSuffice'
             PROVE  /\ \A i \in 1 .. Len(listed') :
                         /\ listed'[i].uri \in DOMAIN files'
                         /\ files'[listed'[i].uri] = listed'[i].n
                    /\ out_filename' \in DOMAIN files' /\ files'[out_filename'] = sequence'
  BY DEF SegmentFilesInv
<1>1. UNCHANGED <<out_filenames, key_filenames>> /\ index' = index
  BY LoopKeeps
<1>2. SegmentNamesSuffice
  <2>1. ~hasty' => ~hasty
    BY OpenFacts DEF ListInv
  <2>2. Behind' = Behind
    BY <1>1, OpenFacts DEF Behind
  <2> QED  BY <1>1, <2>1, <2>2 DEF SegmentNamesSuffice, Openable
<1>3. out_filename' \in DOMAIN files' /\ files'[out_filename'] = sequence'
  BY OpenFacts, StoredFacts
<1>4. ASSUME NEW i \in 1 .. Len(listed)
      PROVE  listed[i].uri \in DOMAIN files' /\ files'[listed[i].uri] = listed[i].n
  <2>1. listed[i].uri \in DOMAIN files /\ files[listed[i].uri] = listed[i].n
    BY <1>2 DEF SegmentFilesInv
  <2>2. listed[i].uri # out_filename'
    BY OtherName
  <2> QED  BY <2>1, <2>2, OpenFacts, StoredFacts
<1> QED  BY <1>3, <1>4, OpenFacts

LEMMA OpenKeyList ==
  ASSUME RangeInv, ListInv, KeyListInv, Open
  PROVE  KeyListInv'
<1>1. /\ UNCHANGED <<out_filenames, key_filenames>> /\ crypto' = crypto
      /\ sequence \in Nat \ {0} /\ crypto \in Nat
  BY LoopKeeps DEF ListInv, RangeInv
<1>2. ASSUME NEW k, NEW n, KeyOf(k, n) PROVE KeyOf(k, n)'
  BY <1>1, <1>2 DEF KeyOf, Openable
<1>3. ASSUME NEW name, NEW n, FillsKey(name, n) PROVE FillsKey(name, n)'
  BY <1>1, <1>3 DEF FillsKey, Digits
<1>4. ASSUME NEW i \in 1 .. Len(listed')
      PROVE  /\ KeyOf(listed[i].key, listed[i].n)'
             /\ listed'[i].key # 0 => FillsKey(listed[i].key_uri, listed[i].key)'
  <2> DEFINE e == listed[i]
  <2>1. /\ e' = e /\ KeyOf(e.key, e.n) /\ (e.key # 0 => FillsKey(e.key_uri, e.key))
    BY OpenFacts DEF KeyListInv
  <2> HIDE DEF e
  <2>2. KeyOf(e.key, e.n)' /\ (e.key # 0 => FillsKey(e.key_uri, e.key)')
    <3>1. \A k, n : KeyOf(k, n) => KeyOf(k, n)'
      BY <1>2
    <3>2. \A name, n : FillsKey(name, n) => FillsKey(name, n)'
      BY <1>3
    <3> QED  BY <2>1, <3>1, <3>2 DEF KeyOf, FillsKey
  <2> QED  BY <2>1, <2>2 DEF e
<1>5. KeyOf(key, sequence)' /\ (key' # 0 => FillsKey(key_filename, key)')
  <2>1. CASE SwitchesKey
    <3>1. key' = sequence /\ crypto # 0 /\ sequence % crypto = 1 /\ Openable(key_filenames)
      BY <2>1, OpenFacts DEF SwitchesKey
    <3>2. key_filename'.fill = Digits(key_filenames, sequence)
      BY <2>1, OpenFacts DEF FilenameOf, RangeInv
    <3>3. \A j \in sequence + 1 .. sequence : FALSE
      BY <1>1
    <3>4. KeyOf(key, sequence)'
      BY <1>1, <3>1, <3>3, OpenFacts DEF KeyOf, Openable
    <3>5. FillsKey(key_filename, key)'
      BY <1>1, <3>1, <3>2, OpenFacts DEF FillsKey, Digits
    <3> QED  BY <3>4, <3>5
  <2>2. CASE ~SwitchesKey
    <3>1. key' = key /\ key_filename' = key_filename
      BY <2>2, OpenFacts
    <3>2. KeyOf(key, sequence - 1) /\ (key # 0 => FillsKey(key_filename, key))
      BY OpenFacts DEF KeyListInv
    <3>3. KeyOf(key, sequence)
      BY <1>1, <2>2, <3>2 DEF KeyOf, SwitchesKey
    <3>4. KeyOf(key, sequence)'
      BY <1>1, <3>1, <3>3, OpenFacts DEF KeyOf, Openable
    <3>5. key' # 0 => FillsKey(key_filename, key)'
      BY <1>1, <3>1, <3>2 DEF FillsKey, Digits
    <3> QED  BY <3>4, <3>5
  <2> QED  BY <2>1, <2>2
<1>6. KeyOf(key, IF pc = "adding" THEN sequence ELSE sequence - 1)'
  BY <1>5, OpenFacts DEF KeyOf
<1> QED  BY <1>4, <1>5, <1>6 DEF KeyListInv

(* The keys named in the index are less than a window and a key interval   *)
(* behind the new one.                                                     *)
LEMMA OtherKeyName ==
  ASSUME RangeInv, ListInv, KeyListInv, Open, SwitchesKey, KeyNamesSuffice,
         NEW i \in 1 .. Len(listed), listed[i].key # 0
  PROVE  listed[i].key_uri # key_filename'
<1>1. PICK n \in Nat : n = listed[i].n /\ n < sequence /\ sequence - n <= Len(listed)
  BY OpenList
<1>2. /\ sequence \in Nat \ {0} /\ crypto \in Nat \ {0}
  BY DEF ListInv, RangeInv, SwitchesKey
<1>3. PICK k \in 1 .. n : k = listed[i].key /\ k % crypto = 1
                            /\ \A j \in k + 1 .. n : j % crypto # 1
  <2>1. KeyOf(listed[i].key, n)
    BY <1>1 DEF KeyListInv
  <2> QED  BY <2>1 DEF KeyOf
<1>4. n < k + crypto
  <2>1. (k + crypto) % crypto = 1
    <3>1. k \in Nat
      BY <1>1
    <3> QED  BY <1>2, <1>3, <3>1, Again
  <2>2. k + crypto \notin k + 1 .. n
    BY <1>3, <2>1
  <2> QED  BY <1>1, <1>2, <2>2
<1>5. PICK m \in Nat : m = Base ^ key_filenames.digits
  BY Powers
<1>6. m >= Behind + crypto
  BY <1>5, OpenFacts DEF KeyNamesSuffice
<1>7. sequence - k < m
  <2>1. Behind \in Nat /\ Len(listed) \in Nat /\ Len(listed) <= Behind
    BY BehindBounds
  <2> QED  BY <1>1, <1>2, <1>4, <1>6, <2>1
<1>8. sequence % m # k % m
  <2>1. k \in Nat /\ k < sequence
    BY <1>1, <1>2
  <2> QED  BY <1>2, <1>7, <2>1, Apart
<1>9. listed[i].key_uri.fill = k % m
  BY <1>3, <1>5 DEF KeyListInv, FillsKey, Digits
<1>10. key_filename'.fill = sequence % m
  BY <1>5, OpenFacts DEF FilenameOf, Digits, RangeInv
<1> QED  BY <1>8, <1>9, <1>10

LEMMA OpenKeyFiles ==
  ASSUME RangeInv, ListInv, KeyListInv, KeyFilesInv, Open
  PROVE  KeyFilesInv'
<1>1. /\ UNCHANGED <<out_filenames, key_filenames>> /\ crypto' = crypto /\ index' = index
  BY LoopKeeps
<1>2. Behind' = Behind
  BY <1>1, OpenFacts DEF Behind
<1> SUFFICES ASSUME KeyNamesSuffice
             PROVE  /\ \A i \in 1 .. Len(listed') : listed'[i].key # 0 =>
                         /\ listed'[i].key_uri \in DOMAIN key_files'
                         /\ key_files'[listed'[i].key_uri] = listed'[i].key
                    /\ key' # 0 =>
                         key_filename' \in DOMAIN key_files' /\ key_files'[key_filename'] = key'
  BY <1>1, <1>2 DEF KeyFilesInv, KeyNamesSuffice, Openable
<1>3. CASE ~SwitchesKey
  BY <1>3, OpenFacts DEF KeyFilesInv
<1>4. CASE SwitchesKey
  <2>1. key_filename' \in DOMAIN key_files' /\ key_files'[key_filename'] = key'
    BY <1>4, OpenFacts, StoredFacts
  <2>2. ASSUME NEW i \in 1 .. Len(listed), listed[i].key # 0
        PROVE  /\ listed[i].key_uri \in DOMAIN key_files'
               /\ key_files'[listed[i].key_uri] = listed[i].key
    <3>1. /\ listed[i].key_uri \in DOMAIN key_files
          /\ key_files[listed[i].key_uri] = listed[i].key
      BY <2>2 DEF KeyFilesInv
    <3>2. listed[i].key_uri # key_filename'
      BY <1>4, <2>2, OtherKeyName
    <3> QED  BY <1>4, <3>1, <3>2, OpenFacts, StoredFacts
  <2> QED  BY <2>1, <2>2, OpenFacts
<1> QED  BY <1>3, <1>4

(***************************************************************************)
(* A segment is added to the index.                                        *)
(***************************************************************************)
Oldest == IF Len(listed) = 0 THEN out_filename ELSE listed[1].uri

LEMMA AddFacts ==
  ASSUME RangeInv, ListInv, Add
  PROVE  /\ pc = "adding" /\ pc' = "running" /\ sequence' = sequence + 1
         /\ seconds' = seconds /\ hasty' = hasty /\ key' = key
         /\ key_filename' = key_filename /\ key_files' = key_files
         /\ IsSeq(listed')
         /\ \E d \in {0, 1} :
              /\ Len(listed') = Len(listed) + 1 - d
              /\ \A i \in 1 .. Len(listed) + 1 - d :
                   listed'[i] = IF i + d <= Len(listed) THEN listed[i + d] ELSE Entry
              /\ d = 0 => files' = files
              /\ d = 1 => files' = [u \in DOMAIN files \ {Oldest} |-> files[u]]
              /\ index.window # NotLive => Len(listed) + 1 - d <= index.window
<1> DEFINE longer == Append(listed, Entry)
           drops  == index.window # NotLive /\ Len(longer) > index.window
<1>1. /\ pc = "adding" /\ pc' = "running" /\ sequence' = sequence + 1
      /\ seconds' = seconds /\ hasty' = hasty /\ key' = key
      /\ key_filename' = key_filename /\ key_files' = key_files
  BY DEF Add
<1>2. /\ drops => Unlink(Head(longer).uri) /\ listed' = Tail(longer)
      /\ ~drops => files' = files /\ listed' = longer
  BY DEF Add
<1>3. PICK l \in Nat : l = Len(listed)
  BY SeqFacts DEF ListInv
<1>4. /\ IsSeq(longer) /\ Len(longer) = l + 1
      /\ \A i \in 1 .. l : longer[i] = listed[i]
      /\ longer[l + 1] = Entry
  BY <1>3, LongerList DEF ListInv
<1>5. index.window # NotLive => index.window \in Nat /\ l <= index.window
  BY <1>3, CommandLineAssumption DEF ListInv, RangeInv
<1> HIDE DEF longer
<1>6. CASE ~drops
  <2>1. IsSeq(listed') /\ Len(listed') = l + 1 - 0 /\ files' = files
    BY <1>2, <1>4, <1>6
  <2>2. \A i \in 1 .. l + 1 - 0 : listed'[i] = IF i + 0 <= l THEN listed[i + 0] ELSE Entry
    <3> SUFFICES ASSUME NEW i \in 1 .. l + 1
                 PROVE  longer[i] = IF i <= l THEN listed[i] ELSE Entry
      BY <1>2, <1>6
    <3> QED  BY <1>4
  <2>3. index.window # NotLive => l + 1 - 0 <= index.window
    BY <1>4, <1>5, <1>6
  <2> QED  BY <1>1, <1>3, <2>1, <2>2, <2>3
<1>7. CASE drops
  <2>1. /\ IsSeq(listed') /\ Len(listed') = l + 1 - 1
        /\ \A i \in 1 .. l : listed'[i] = longer[i + 1]
        /\ Head(longer) = longer[1]
    <3>1. Len(longer) > 0 /\ Len(longer) - 1 = l /\ l + 1 - 1 = l
      BY <1>4
    <3>2. /\ IsSeq(Tail(longer)) /\ Len(Tail(longer)) = l /\ Head(longer) = longer[1]
          /\ \A i \in 1 .. l : Tail(longer)[i] = longer[i + 1]
      BY <1>4, <3>1, ShorterList
    <3> QED  BY <1>2, <1>7, <3>1, <3>2
  <2>2. \A i \in 1 .. l + 1 - 1 : listed'[i] = IF i + 1 <= l THEN listed[i + 1] ELSE Entry
    <3> SUFFICES ASSUME NEW i \in 1 .. l
                 PROVE  longer[i + 1] = IF i + 1 <= l THEN listed[i + 1] ELSE Entry
      BY <2>1
    <3> QED  BY <1>4
  <2>3. index.window # NotLive => l + 1 - 1 <= index.window
    BY <1>5
  <2>4. files' = [u \in DOMAIN files \ {Oldest} |-> files[u]]
    <3>1. longer[1].uri = Oldest
      <4>1. CASE l = 0
        BY <1>3, <1>4, <4>1 DEF Oldest, Entry
      <4>2. CASE l > 0
        BY <1>3, <1>4, <4>2 DEF Oldest
      <4> QED  BY <4>1, <4>2
    <3> QED  BY <1>2, <1>7, <2>1, <3>1 DEF Unlink
  <2> QED  BY <1>1, <1>3, <2>1, <2>2, <2>3, <2>4
<1> QED  BY <1>6, <1>7

(* What holds of an entry listed before, and of the new one, holds of each *)
(* that is listed then; numbers count from the newest.                     *)
LEMMA AddedEntries ==
  ASSUME RangeInv, ListInv, Add, NEW i \in 1 .. Len(listed')
  PROVE  /\ listed'[i].n = sequence' - Len(listed') + i - 1
         /\ \/ listed'[i] = Entry
            \/ \E j \in 1 .. Len(listed) : listed'[i] = listed[j]
<1>1. PICK l \in Nat : l = Len(listed)
  BY SeqFacts DEF ListInv
<1>2. PICK d \in {0, 1} :
        /\ Len(listed') = l + 1 - d
        /\ \A k \in 1 .. l + 1 - d :
             listed'[k] = IF k + d <= l THEN listed[k + d] ELSE Entry
  BY <1>1, AddFacts
<1>3. i \in 1 .. l + 1 - d /\ sequence' = sequence + 1 /\ sequence \in Nat
  BY <1>2, AddFacts DEF ListInv
<1>4. sequence' - Len(listed') + i - 1 = sequence - l + d + i - 1
  BY <1>1, <1>2, <1>3
<1>5. CASE i + d <= l
  <2>1. i + d \in 1 .. Len(listed) /\ listed'[i] = listed[i + d]
    BY <1>1, <1>2, <1>3, <1>5
  <2>2. listed[i + d].n = sequence - l + (i + d) - 1
    BY <1>1, <2>1 DEF ListInv
  <2>3. listed'[i].n = sequence - l + d + i - 1
    BY <1>1, <1>3, <2>1, <2>2
  <2> QED  BY <1>4, <2>1, <2>3
<1>6. CASE i + d > l
  <2>1. listed'[i] = Entry /\ i + d = l + 1
    BY <1>1, <1>2, <1>3, <1>6
  <2>2. Entry.n = sequence
    BY DEF Entry
  <2> QED  BY <1>1, <1>3, <1>4, <2>1, <2>2
<1> QED  BY <1>3, <1>5, <1>6

LEMMA AddList ==
  ASSUME RangeInv, ListInv, Add
  PROVE  ListInv'
<1>1. UNCHANGED <<out_filenames, key_filenames>> /\ index' = index
  BY LoopKeeps
<1>2. /\ sequence \in Nat \ {0} /\ seconds \in Nat /\ hasty \in BOOLEAN
      /\ Len(listed) \in Nat /\ Len(listed) <= sequence - 1
  BY SeqFacts DEF ListInv
<1>3. /\ sequence' \in Nat \ {0} /\ seconds' \in Nat /\ hasty' \in BOOLEAN
      /\ IsSeq(listed') /\ pc' # "adding"
  BY <1>2, AddFacts
<1>4. Len(listed') <= sequence' - 1 /\ (index'.window # NotLive => Len(listed') <= index'.window)
  <2>1. PICK l \in Nat : l = Len(listed)
    BY <1>2
  <2>2. PICK d \in {0, 1} :
          /\ Len(listed') = l + 1 - d
          /\ index.window # NotLive => l + 1 - d <= index.window
    BY <2>1, AddFacts
  <2> QED  BY <1>1, <1>2, <2>1, <2>2, AddFacts
<1>5. ASSUME NEW i \in 1 .. Len(listed')
      PROVE  FillsSegment(listed'[i].uri, listed'[i].n)
  <2>1. CASE listed'[i] = Entry
    BY <2>1, AddFacts DEF Entry, ListInv
  <2>2. ASSUME NEW j \in 1 .. Len(listed), listed'[i] = listed[j]
        PROVE  FillsSegment(listed'[i].uri, listed'[i].n)
    BY <2>2 DEF ListInv
  <2> QED  BY <2>1, <2>2, AddedEntries
<1>6. \A i \in 1 .. Len(listed') : FillsSegment(listed[i].uri, listed[i].n)'
  BY <1>1, <1>5, AddFacts DEF FillsSegment, Digits
<1>7. Openable(out_filenames)'
  BY <1>1, AddFacts DEF ListInv, Openable
<1>8. \A i \in 1 .. Len(listed') : listed'[i].n = sequence' - Len(listed') + i - 1
  BY AddedEntries
<1> QED  BY <1>3, <1>4, <1>6, <1>7, <1>8 DEF ListInv

(* The more is listed the more names are needed.                           *)
LEMMA MoreNamesNeeded ==
  ASSUME RangeInv, ListInv, Add
  PROVE  /\ SegmentNamesSuffice' => SegmentNamesSuffice
         /\ KeyNamesSuffice' => KeyNamesSuffice
<1>1. /\ index' = index /\ out_filenames' = out_filenames
      /\ crypto' = crypto /\ key_filenames' = key_filenames /\ hasty' = hasty
  BY LoopKeeps, AddFacts
<1>2. PICK b \in Nat : b = Behind
  BY BehindBounds
<1>3. Behind' \in {b, b + 1}
  <2>1. sequence \in Nat /\ sequence' = sequence + 1
    BY AddFacts DEF ListInv
  <2>2. CASE index.window = NotLive
    BY <1>1, <1>2, <2>1, <2>2 DEF Behind
  <2>3. CASE index.window # NotLive
    BY <1>1, <1>2, <2>3 DEF Behind
  <2> QED  BY <2>2, <2>3
<1>4. PICK c \in Nat : c = Behind' /\ c >= b
  BY <1>2, <1>3
<1>5. PICK m \in Nat, w \in Nat, e \in Nat :
        m = Base ^ out_filenames.digits /\ w = Base ^ key_filenames.digits /\ e = crypto
  BY Powers DEF RangeInv
<1>6. (m > c => m > b) /\ (w >= c + e => w >= b + e)
  <2>1. c >= b
    BY <1>4
  <2>2. m > c => m > b
    BY <2>1
  <2>3. w >= c + e => w >= b + e
    BY <2>1
  <2> QED  BY <2>2, <2>3
<1>7. SegmentNamesSuffice' => SegmentNamesSuffice
  BY <1>1, <1>2, <1>4, <1>5, <1>6 DEF SegmentNamesSuffice, Openable
<1>8. KeyNamesSuffice' => KeyNamesSuffice
  BY <1>1, <1>2, <1>4, <1>5, <1>6 DEF KeyNamesSuffice, Openable
<1> QED  BY <1>7, <1>8

LEMMA AddSegmentFiles ==
  ASSUME RangeInv, ListInv, SegmentFilesInv, Add
  PROVE  SegmentFilesInv'
<1> SUFFICES ASSUME SegmentNamesSuffice, NEW i \in 1 .. Len(listed')
             PROVE  /\ listed'[i].uri \in DOMAIN files'
                    /\ files'[listed'[i].uri] = listed'[i].n
  BY MoreNamesNeeded, AddFacts DEF SegmentFilesInv
<1>1. /\ \A j \in 1 .. Len(listed) :
           listed[j].uri \in DOMAIN files /\ files[listed[j].uri] = listed[j].n
      /\ Entry.uri \in DOMAIN files /\ files[Entry.uri] = Entry.n
  BY AddFacts DEF SegmentFilesInv, Entry
<1>2. listed'[i].uri \in DOMAIN files /\ files[listed'[i].uri] = listed'[i].n
  BY <1>1, AddedEntries
<1>3. PICK l \in Nat : l = Len(listed)
  BY SeqFacts DEF ListInv
<1>4. PICK d \in {0, 1} :
        /\ Len(listed') = l + 1 - d
        /\ d = 0 => files' = files
        /\ d = 1 => files' = [u \in DOMAIN files \ {Oldest} |-> files[u]]
  BY <1>3, AddFacts
<1>5. CASE d = 0
  BY <1>2, <1>4, <1>5
<1>6. CASE d = 1
  <2>1. i \in 1 .. l /\ l > 0
    BY <1>3, <1>4, <1>6
  <2>2. files[Oldest] = listed[1].n /\ listed[1].n = sequence - l + 1 - 1
    BY <1>1, <1>3, <2>1 DEF Oldest, ListInv
  <2>3. listed'[i].n = sequence - l + i
    <3>1. listed'[i].n = (sequence + 1) - l + i - 1
      BY <1>3, <1>4, <1>6, AddedEntries, AddFacts
    <3>2. sequence \in Nat
      BY DEF ListInv
    <3> QED  BY <1>3, <2>1, <3>1, <3>2
  <2>4. listed'[i].uri # Oldest
    <3>1. sequence \in Nat
      BY DEF ListInv
    <3>2. sequence - l + i # sequence - l + 1 - 1
      BY <1>3, <2>1, <3>1
    <3> QED  BY <1>2, <2>2, <2>3, <3>2
  <2> QED  BY <1>2, <1>4, <1>6, <2>4
<1> QED  BY <1>5, <1>6

LEMMA AddKeys ==
  ASSUME RangeInv, ListInv, KeyListInv, KeyFilesInv, Add
  PROVE  KeyListInv' /\ KeyFilesInv'
<1>1. /\ UNCHANGED <<out_filenames, key_filenames>> /\ crypto' = crypto
      /\ sequence \in Nat /\ sequence' = sequence + 1 /\ pc' # "adding" /\ pc = "adding"
      /\ key' = key /\ key_filename' = key_filename /\ key_files' = key_files
  BY LoopKeeps, AddFacts DEF ListInv
<1>2. /\ Entry.key = key /\ Entry.key_uri = key_filename /\ Entry.n = sequence
      /\ KeyOf(Entry.key, Entry.n)
      /\ Entry.key # 0 => FillsKey(Entry.key_uri, Entry.key)
  BY <1>1 DEF Entry, KeyListInv
<1>3. ASSUME NEW i \in 1 .. Len(listed')
      PROVE  /\ KeyOf(listed'[i].key, listed'[i].n)
             /\ listed'[i].key # 0 => FillsKey(listed'[i].key_uri, listed'[i].key)
             /\ KeyNamesSuffice /\ listed'[i].key # 0 =>
                  /\ listed'[i].key_uri \in DOMAIN key_files
                  /\ key_files[listed'[i].key_uri] = listed'[i].key
  <2>1. CASE listed'[i] = Entry
    BY <1>2, <2>1 DEF KeyFilesInv
  <2>2. ASSUME NEW j \in 1 .. Len(listed), listed'[i] = listed[j]
        PROVE  /\ KeyOf(listed'[i].key, listed'[i].n)
               /\ listed'[i].key # 0 => FillsKey(listed'[i].key_uri, listed'[i].key)
               /\ KeyNamesSuffice /\ listed'[i].key # 0 =>
                    /\ listed'[i].key_uri \in DOMAIN key_files
                    /\ key_files[listed'[i].key_uri] = listed'[i].key
    BY <2>2 DEF KeyListInv, KeyFilesInv
  <2> QED  BY <2>1, <2>2, AddedEntries
<1>4. KeyListInv'
  <2>1. \A i \in 1 .. Len(listed') :
          /\ KeyOf(listed[i].key, listed[i].n)'
          /\ listed'[i].key # 0 => FillsKey(listed[i].key_uri, listed[i].key)'
    BY <1>1, <1>3 DEF KeyOf, FillsKey, Digits, Openable
  <2>2. KeyOf(key, sequence)
    BY <1>2
  <2>3. sequence' - 1 = sequence
    BY <1>1
  <2>4. KeyOf(key, IF pc = "adding" THEN sequence ELSE sequence - 1)'
    BY <1>1, <2>2, <2>3 DEF KeyOf, Openable
  <2>5. key' # 0 => FillsKey(key_filename, key)'
    BY <1>1, <1>2 DEF FillsKey, Digits
  <2> QED  BY <2>1, <2>4, <2>5 DEF KeyListInv
<1>5. KeyFilesInv'
  <2>1. key # 0 /\ KeyNamesSuffice => key_filename \in DOMAIN key_files /\ key_files[key_filename] = key
    BY DEF KeyFilesInv
  <2> QED  BY <1>1, <1>3, <2>1, MoreNamesNeeded DEF KeyFilesInv
<1> QED  BY <1>4, <1>5

(***************************************************************************)
(* All steps.                                                              *)
(***************************************************************************)
LEMMA FilesStart == FilesInit => FilesInv
<1> SUFFICES ASSUME FilesInit PROVE FilesInv
  OBVIOUS
<1>1. RangeInv
  BY RangeInit DEF FilesInit
<1>2. pc = "options" /\ Unused
  BY DEF FilesInit, OptionsInit, Unused
<1> QED  BY <1>1, <1>2 DEF FilesInv

LEMMA FilesStep ==
  ASSUME FilesInv, [FilesNext]_FileVars
  PROVE  FilesInv'
<1>1. CASE OptionsNext /\ UNCHANGED loopVars
  <2>1. RangeInv'
    BY <1>1, RangeOption DEF FilesInv
  <2>2. pc = "options" /\ pc' \in {"options", "running", "failed"}
    BY <1>1 DEF OptionsNext, Output, Timestamp, Key, Set, Length, IndexName, LiveIndex,
                Usage, Input, Extra, Encrypt, Start, Reads, Fail
  <2>3. Unused'
    BY <1>1, <2>2 DEF FilesInv, Unused, loopVars
  <2>4. pc' = "running" => ListInv' /\ SegmentFilesInv' /\ KeyListInv' /\ KeyFilesInv'
    BY <2>1, <2>3, UnusedFits
  <2> QED  BY <2>1, <2>2, <2>3, <2>4 DEF FilesInv
<1>2. CASE Open
  <2>1. RangeInv /\ ListInv /\ SegmentFilesInv /\ KeyListInv /\ KeyFilesInv
    BY <1>2, OpenFacts DEF FilesInv
  <2>2. RangeInv'
    BY <1>2, <2>1, LoopKeeps, OpenFacts, RangeStays DEF nameVars
  <2>3. ListInv' /\ SegmentFilesInv' /\ KeyListInv' /\ KeyFilesInv'
    BY <1>2, <2>1, OpenList, OpenSegmentFiles, OpenKeyList, OpenKeyFiles
  <2>4. pc' # "options"
    BY <1>2, OpenFacts
  <2> QED  BY <2>2, <2>3, <2>4 DEF FilesInv
<1>3. CASE OpenFails
  <2>1. RangeInv' /\ pc' = "failed"
    BY <1>3, FailRange, FailKeeps DEF OpenFails, FilesInv
  <2> QED  BY <2>1 DEF FilesInv
<1>4. CASE Add
  <2>1. pc = "adding"
    BY <1>4 DEF Add
  <2>2. RangeInv /\ ListInv /\ SegmentFilesInv /\ KeyListInv /\ KeyFilesInv
    BY <2>1 DEF FilesInv
  <2>3. pc' = "running"
    BY <1>4 DEF Add
  <2>4. RangeInv'
    BY <1>4, <2>2, <2>3, LoopKeeps, RangeStays DEF nameVars
  <2>5. ListInv' /\ SegmentFilesInv' /\ KeyListInv' /\ KeyFilesInv'
    BY <1>4, <2>2, AddList, AddSegmentFiles, AddKeys
  <2> QED  BY <2>3, <2>4, <2>5 DEF FilesInv
<1>5. CASE UNCHANGED FileVars
  <2>1. UNCHANGED <<index, out_filenames, key_filenames, out_file_pattern, crypto, pc,
                    sequence, seconds, out_filename, key_filename, key, files, key_files,
                    listed, hasty>>
    BY <1>5 DEF FileVars, optionVars, settingVars, nameVars, inputVars, loopVars
  <2>2. RangeInv'
    BY <2>1, RangeStays DEF FilesInv, RangeInv, nameVars
  <2>3. Unused => Unused'
    BY <2>1 DEF Unused
  <2>4. ListInv => ListInv'
    BY <2>1 DEF ListInv, FillsSegment, Digits, Openable
  <2>5. SegmentFilesInv => SegmentFilesInv'
    BY <2>1 DEF SegmentFilesInv, SegmentNamesSuffice, Openable, Behind
  <2>6. KeyListInv => KeyListInv'
    BY <2>1 DEF KeyListInv, KeyOf, FillsKey, Digits, Openable
  <2>7. KeyFilesInv => KeyFilesInv'
    BY <2>1 DEF KeyFilesInv, KeyNamesSuffice, Openable, Behind
  <2> QED  BY <2>1, <2>2, <2>3, <2>4, <2>5, <2>6, <2>7 DEF FilesInv
<1> QED
  BY <1>1, <1>2, <1>3, <1>4, <1>5 DEF FilesNext

(* While the names outnumber what is listed, every entry of the index      *)
(* finds the segment and the key it was made with.                         *)
THEOREM EntriesFindFiles == FilesSpec => []EntriesFindTheirFiles
<1>1. FilesInit => FilesInv
  BY FilesStart
<1>2. FilesInv /\ [FilesNext]_FileVars => FilesInv'
  BY FilesStep
<1>3. FilesInv => EntriesFindTheirFiles
  <2> SUFFICES ASSUME FilesInv, pc \in {"running", "adding"}, NEW i \in DOMAIN listed
               PROVE  /\ SegmentNamesSuffice =>
                           listed[i].uri \in DOMAIN files /\ files[listed[i].uri] = listed[i].n
                      /\ KeyNamesSuffice /\ listed[i].key # 0 =>
                           key_files[listed[i].key_uri] = listed[i].key
    BY DEF EntriesFindTheirFiles
  <2>1. ListInv /\ SegmentFilesInv /\ KeyFilesInv
    BY DEF FilesInv
  <2>2. i \in 1 .. Len(listed)
    BY <2>1, SeqFacts DEF ListInv
  <2> QED  BY <2>1, <2>2 DEF SegmentFilesInv, KeyFilesInv
<1> QED  BY <1>1, <1>2, <1>3, PTL DEF FilesSpec
=============================================================================
