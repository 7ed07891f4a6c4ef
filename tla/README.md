# The HTTP live stream segmenter in TLA+

This directory holds a formal model of the segmenter of this repository: the
program that cuts an audio or video stream into files, encrypts them on demand
and keeps the index file that a player polls. `src/main.cpp` is compiled four
times, once for each segmenting module (ByteCount, MP3, ADTS, MpegtsH264).

## The system

| Component | State it keeps | Operations | Talks to |
| --- | --- | --- | --- |
| Main loop, `src/main.cpp:153-206` | the key and the name of its file, the carried rounding error, the open segment file | start, open a segment, switch the key, copy, round and close, add to the index, end | the segmenting module and the index by virtual calls; players through files |
| Command line, `src/main.cpp:20-154` | the index object, the name arrays, lengths, the input | one case per option | setters of the objects below |
| `IndexFile` | sequence number, last key tag, stream buffer, the index file | `Begin`, `AddSegment`, `End` | players, through the file |
| `IndexFileLive` | the window of segments, the temporary file | `AddSegment` (push, unlink, write, rename), `End` | players; the disk, whose old segments it removes; other programs in its directory |
| Segmenter contract, `Segmenter.hpp` | none | `copy_segment` | called by the main loop |
| `ByteCount` | none between calls | `copy_segment` | standard input, the segment file |
| `ADTS`, `MP3` | `m_pos`, the ticks not yet reported | `copy_segment` | the same |
| `MpegtsH264` | the two tables, the retained packet, the clock where the segment ought to start | `copy_segment` | the same |
| `CryptoProxy`, `CryptoAes128cbc` | a partly filled block, the IV of the next block | `overflow`, `sync` | sits between the module and the segment file |
| `FileArray::Sequence`, `Timestamp` | prefix, suffix, number of digits | `init`, `Filename` | main loop |
| `Random::RandomC` | the state of `rand()` | `Bytes` | main loop |
| Perl tools, `bin/` | read-ahead buffers, tables and packets being put together | parse and print; demux and remux (`ts-tools.pl`) | standalone |

### What is hard in it

* **Readers see every step.** A player polls the index and fetches segments and
  keys while the program works on them. Between any two system calls it sees
  what is on disk at that moment, and nothing else is synchronised.
* **Death and restart.** No exception is caught in `main()`. A signal or a full
  disk stops the program between any two steps, and the next run starts over the
  files of the last one, at number 1 and with the same names.
* **Numbers that must agree.** The sequence number names the file, is the IV
  of its encryption and decides when a key changes; the player computes it again
  from the header of the index. A live index derives that header from a list it
  has just shortened.
* **Rounding and wrapping.** Durations are rounded with an error carried from
  segment to segment, passed through `int` and `unsigned long`; modules negate
  unsigned numbers; the transport clock wraps at 2^33.
* **State between calls.** ADTS and MP3 carry a fraction of a frame and
  MpegtsH264 a packet into the next segment; MpegtsH264 also keeps for ever the
  tables it has seen first.
* **Names.** A name holds the low digits of the sequence number, or the seconds
  of the clock: names come round while the index still lists them. Options
  replace the objects that make names and keep some of their state. Variants of
  a stream are made by several programs in one directory.
* **The end.** A result of 0 or less ends the stream; a module that reports
  it too late, too early or never decides whether the program ends.

The properties that make each component correct are listed below, with the run
that checks each.

## The modules

| Module | Models | State and actions |
| --- | --- | --- |
| `Player` | how a player reads an index; outside the repository, taken from the tags `IndexFile.cpp` writes | operators on a sequence of lines |
| `IndexFile` | `IndexFile.cpp` | `m_sequence`, `m_prev_crypto` and `m_out` as in the class; `playlist` is the file on disk; `Begin`, `AddSegment`, `Flush`, `End` |
| `IndexFileLive` | `IndexFileLive.cpp` | `m_segments`, the temporary file `temp`, the segment files `files`; `AddSegment` is the steps `LiveAddSegment`, `Trim`, `OpenTemp`, `WriteNext`, `CloseTemp`, `Rename` |
| `SegmenterMain` | `main()` from line 153 on | `pc` is the place in the loop; one action per stretch between two calls that touch a file: `BeginIndex`, `OpenSegment`, `SwitchKey`, `CopySegment`, `CloseSegment`, `AddToIndex`, `IndexWorks`, `NextRound`, `EndIndex`; `Die` and `Restart` |
| `SegmentWindow` | nothing of the code: the abstract specification of what an index promises | a list that grows at its end, keeps the newest `Window` entries and may be ended |
| `SegmenterProperties` | | the properties of the program and the refinement mapping `ReaderView` |
| `SegmenterInvariant` | | the inductive strengthenings |
| `SegmenterMain_proofs` | | types, keys and rounding: theorems and proofs |
| `SegmenterFiles_proofs` | | the index and the files it lists, and the refinement of `SegmentWindow`: theorems and proofs |
| `ByteCount` | `Segmenter/ByteCount.cpp`, inside `SegmenterMain` | blocks read, bytes left, `eofbit` |
| `ADTS`, `MP3` | the headers that `Segmenter/ADTS.cpp` and `Segmenter/MP3.cpp` read | no state: the tables, and the payload length and duration computed from a header, as the code computes them |
| `AudioFrames` | the frame loop that the two share, inside `SegmenterMain` | `m_pos`, the read position in the input, `eof`; `CopyFrame`, `SkipJunk`, `MeetEnd`, `ReturnFull` |
| `MpegtsH264` | `Segmenter/MpegtsH264.cpp`, inside `SegmenterMain` | the tables kept and the PIDs taken from them, the retained packet, `m_pcr_segstart`, local clocks |
| `CryptoProxy` | `Crypto/Crypto.cpp` over `CryptoAes128cbc.cpp` | the block being filled, the chaining value, `badbit`; `overflow` and the loop of `sync` |
| `CommandLine` | `main.cpp:20-154`, `FileArray::init`, the setters of `IndexFile` | the index object, the two name arrays, length, input, extra options and key interval; one action per option, and `Start` |
| `FileNames` | `FileArray::Filename` of `Sequence` and `Timestamp`, after `CommandLine` | the clock, the files and keys on disk by name, the entries of the index; `Open`, `OpenFails`, `Add` |
| `TwoPrograms` | several `IndexFileLive` in one directory | per program the stream and what is written; names and inodes; `OpenTemp`, `Write`, `Close`, `Rename`, `End`, `Die`, `Restart` |

`ByteCount`, `AudioFrames` and `MpegtsH264` EXTEND `SegmenterMain` and replace
`Copies`, the contract of `Segmenter.hpp`, by the steps of their own
`copy_segment`; the rest of the program is the same text. `AudioFrames` takes the
headers from an INSTANCE of `ADTS` and one of `MP3`, and chooses between them
in its initial state. `FileNames` EXTENDS `CommandLine`: it goes on where the
options end, and follows only what names decide. `CryptoProxy` and `TwoPrograms`
stand alone: the first runs between the opening and the close of one file, which
`SegmenterMain` sees as `CopySegment` and `CloseSegment`; the second looks at the
five steps of `IndexFileLive` from the file system's side, where
`SegmenterMain` has the directory to itself.
The modules `MC...` give the constants their values; `ByteCount_proofs`,
`AudioFrames_proofs`, `MpegtsH264_proofs`, `CryptoProxy_proofs`, `FileNames_proofs` and
`TwoPrograms_proofs` hold the theorems about the module they are named for, with
the invariants these need.

The text a line is formatted to is left out: a line of the index is a
record, a segment a record of the arguments of `AddSegment`, a file the start of
the program, the number and the key it was written with. A key is named for
the moment it was made, so that a file read under the wrong key is seen at
once. The start of the program (`run`) is a ghost, as are `copied`, `total`, `listed` and
the variables marked so in the segmenting modules.

An operator whose comment says *Variant* stands before the definition it
alters. No specification uses it: it is a plausible slip in that
definition, and shows that some property notices the slip.

## The runs

### The program as a whole

The properties are in `SegmenterProperties`.

| Run | Instance | Properties |
| --- | --- | --- |
| `live_encrypted` | window of 2, a key for every 2 segments, 5 segments, 2 starts, names used again as soon as the window allows | `TypeOK`; `KeyInForce`: a reader of any published index applies to each entry the key tag it was added with; `ListedSegmentsPlayable`: the file under a listed name is the one written for that entry, under the IV that the reader computes and the key that the named key file holds; `OnlyOldestMissing`: a listed file may be gone only when it is the first listed and the index is being replaced; `ReaderSeesWindow` |
| `live_plain` | window of 2, 5 segments, 2 starts, names used once, fair | `BoundedDisk`: the window and one file more; `ListedSegmentsWhole`; `IndexUpToDate`: while a segment is made, the index lists the one before; `CopiedGetsListed`; `EndOfStreamEndsIndex` |
| `vod` | a key for every 3 segments, 7 segments, 2 starts, results of any number of half seconds between -1.5 and 1.5, each the time copied or its negative | `KeyInForce`, `ListedSegmentsPlayable`, `ReaderSeesWindow` for the index that is appended to; `ListedTimeTracksTotal`: the time copied and the time that `AddSegment` was given differ by half a second at most, and by the one additional second of `main.cpp:191` once the last segment is rounded; `NoDurationWraps`: what is listed is not a negative `int` turned into an `unsigned long` |
| `one_segment_per_key` | `-c 1` | finds `EncryptedSegmentsHaveKey` violated |

`ReaderSeesWindow` is the refinement: what the published file says, read as a
player reads it, implements `SegmentWindow`. Truncation, flushing, the rename
and the append at the end of a live stream all have to be a step of the list or
none at all. The abstract state is a function of the concrete one: the header's
number, the entries, whether the end tag is there, and which start wrote it.

What the runs of the whole program show is relative to two assumptions. Names
differ as long as their files are needed (`NamesAssumption`): the pattern has
digits enough, which is what the run `options` is about. And the module inside
the loop keeps the contract of `Segmenter.hpp:25-28` (`Copies`): the absolute
value of its result is the time it has copied (`copied`), and a result of 0 or
less comes at the end of the stream. So they hold for modules not in this
repository too; of the modules in it that break the contract, and where, the
next section speaks. `ListedTimeTracksTotal` and `NoDurationWraps` in particular
are not about the huge results with which ByteCount, ADTS and MP3 may report the
end of an input.

A run that finds the violation of a property stands for a disagreement between
the code and what it says of itself; PROJECT.json quotes both. With `-c 1`,
`Sequence() % crypto == 1` never holds: the segments are encrypted under
a key array that nobody wrote.

### The segmenting modules

| Run | Instance | Properties |
| --- | --- | --- |
| `bytecount` | inputs of 0 to 13 bytes, segments of 2 blocks of 2, encrypted, on a disk that may fail | `InputIsSplitEvenly`: each segment holds exactly its piece of the input; `AtMostOneEmpty`; `ListedAreBlocks`: the entries of the segments that the input fills list their blocks; `ProgramEnds`; `KeepsContract`, for inputs that end less than a block after a segment |
| `frames` | streams of up to 20 and then 12 AAC frames, or 15 and then 29 MPEG audio frames, of two kinds, with 0, 3 or 9 bytes of junk in between, whole or broken off in a payload or a header | `FramesKept`: the segments hold whole frames, each once and in order, and none is missed but within a header that turned out to be none; `NoAccumulation`: at the end of a full segment what is reported lags behind the true time of the frames by less than the last of them; `ShortRestEnds`: an end with less than a second pending ends the program |
| `frames_end_of_input` | the same streams in segments of 2 s, and only the calls that `main()` makes one after the other | finds `EndOfInputReported` violated: with a second or more, but less than a segment pending, each further call returns the same positive number, for ever |
| `mp3_signed_char` | the same, on a machine whose `char` is signed | finds `FramesKept` violated: the sync test of MP3 compares an `int` of 224 with -32, and no frame is ever copied |
| `mpegts` | all streams of up to 6 packets of 8 kinds, two of them tables that name different streams; a clock of 8 ticks that wraps | `PacketsOnceInOrder`; `GarbageIsFirst`: what the constructor left in `m_pkt` is copied at most once, before all else; `SegmentsSelfContained`; `TablesDescribeContent`: until the input brings a new table, a segment holds only streams that the table at its start names; `ReportedWithinClock`; `AverageLength`; `ReportsTimeCopied`: the absolute value of the result of a call is the whole seconds that it has copied |

No module of the repository keeps the contract of `Segmenter.hpp` for every input.
For ByteCount, `KeepsContract` is `Spec` of `SegmenterMain`, asked of those
inputs only that end less than a block after a segment (`EndsEvenly`): there each
step of the module is one that the contract allows, or is not seen by `main()`,
and the properties of the whole program hold with the module in it. Of any other
input the end is reported by the negation of an unsigned counter
(`ByteCount.cpp:41`), as a float of 1.8e19, which is neither what was copied nor
0 or less. What `main()` then makes of it is in the model: the `int` of
`main.cpp:189` is its least or its largest value, the entry lists that as an
`unsigned long`, and one call more is made. `ListedAreBlocks` says that the entries of all
segments before are right nevertheless, and `ProgramEnds` that the one call more ends it.

In ADTS and MP3 the same negation makes main() call again. If a second or more
is pending, but less than a segment, nothing changes any more and the calls never
end (`frames_end_of_input`). With less than a second the result is 0 and the
program ends, which is `ShortRestEnds`. A whole segment can be pending only after
a payload that broke off when the clock had advanced already; one more full
segment is then returned, and its rest decides between the two. With `-l 1` there is
always less than a second left after that, so that the program ends; `m_length`
is 2 in this run for that reason.

MpegtsH264 is asked for the first sentence of the contract, call by call
(`ReportsTimeCopied`), and departs from it in three places. A cut of less than a
second is reported as 0, and `main()` ends in mid-stream (`MpegtsH264.cpp:196`).
Where the sync is lost the time is counted from where the segment ought to have
started, and may be anything up to the wrap of the PCR, 26.5 hours (line 74);
`ReportedWithinClock` and `ReportsTimeCopied` except this result. And time is
counted from the first PCR that is read after the packet retained by the last
call, so that each segment is reported short by one advance of the PCR at most.

`FramesKept` and `NoAccumulation` compare what the code computes from a header
with the size and the duration that the format gives to the frame; these stand
in `MCAudioFrames` and are not taken from the code. `frames` is therefore about the
frames whose length the code gets right, and says so where it chooses them.

An input of `AudioFrames` says where its frames start, where a byte 0xff stands
that starts none, and where it ends (`StreamsAssumption`: frames have headers and
do not overlap). The loop may lose a frame that it should have kept: when it is
out of sync it reads a whole header before it looks for a byte 0xff, and a frame
that starts within that header is not seen. `MayBeMissed` says where this can
happen: at the start, behind a frame and at such a byte. `FramesKept` allows this
loss and no other. `played`, a ghost, is how long the frames copied last by
their format.

What is between these properties and the contract of `Segmenter.hpp` was seen
while modelling, and is in the models as the code has it, without a run:

* ByteCount negates an unsigned counter too (`ByteCount.cpp:41`). An input that
  ends inside a segment is reported as some 1.8e19 seconds, and the program
  makes one empty segment more before it ends; this is why `AtMostOneEmpty` says
  one and not none. `test/BC-run.sh` does not meet it because its input is a
  whole number of segments.
* A cut of MpegtsH264 less than a second after the first PCR of the call
  returns 0, which `main()` takes for the end (`MpegtsH264.cpp:196`).
* `m_pcr_segstart` starts at -1 and not at the first PCR (`MpegtsH264.cpp:32`):
  the run checks `AverageLength` for a clock that starts at 0 only. A stream
  joined in the middle is cut at every IDR frame until the target has caught up.
* ADTS drops one bit of the frame length (`ADTS.cpp:48`, mask `0x02`): a frame
  of 2048 to 4095, or of 6144 to 8191 bytes is read 2048 bytes short.
* MP3 has one formula for the length of all frames (`MP3.cpp:70`). It is wrong
  for Layer I, and for Layer III in MPEG 2 and 2.5, whose frames are half as
  long.
* MpegtsH264 counts from another origin when the sync is lost
  (`MpegtsH264.cpp:74`) than at the end of the input (line 78).
* `-e IDR` changes nothing but a message: `m_idr` is read by the constructor only,
  while the usage text promises a cut at every IDR frame (`MpegtsH264.cpp:53`).

### Encryption and command line

| Run | Instance | Properties |
| --- | --- | --- |
| `crypto` | two segments of up to 6 bytes in blocks of 3, any write may fail | `DecryptsToSource`: who knows key and number reads back what was written; `NoHoles`: after a failed write nothing follows it |
| `options` | every command line of up to 4 options, and the first 5 segments made with it | `IndexAsAsked`, `NamesAsAsked`: the last argument of each option has its effect in any order; `EntriesFindTheirFiles`: while the names outnumber what the index lists, or the clock ticks between segments, every entry finds the segment and the key it was made with |
| `two_programs` | two programs in any order of `-I` and `-L`, started twice, two versions of up to two pieces each | `TypeOK`; `IndexIsOwn`: a program whose temporary file is its own has in its index exactly what it published, and its rename never fails |

Also seen, without a run: the prefixes and suffixes of `-O`, `-s`, `-K` and `-S`
are lost by a `-L` after them, which replaces the index object (`main.cpp:123`);
`IndexAsAsked` therefore speaks of them without `-L` only. A pattern
that ends in a wildcard keeps the suffix of the pattern before, and asks for some
65000 digits (`Sequence.cpp:18-22`). The default name of `-k` in the usage text
has one wildcard more than the code (`main.cpp:27` and `73`). Two segments begun
within one second get one name under `-t`: `FileNames` lets the second overwrite the
first, and `EntriesFindTheirFiles` excepts it (`hasty`). Two programs with `-L` before
`-I` share `out.m3u8.tmp` (`IndexFileLive.cpp:7`): `TwoPrograms` has what becomes of their
indexes, and `IndexIsOwn`, by its condition `LeftAlone`, is not about them.

### Bounds, and why they are enough

`MaxSegments` and `MaxRuns` bound the run; they stand in the guards of
`OpenSegment`, `Copies` and `Restart`. Five segments and a window of 2 let the
window fill, move three times and reuse each name; with a key for every
2 segments, keys change in the middle of the window and at its edge. Seven
segments and a key for every 3 let a complete stream use three keys. A second
start is where files of an old run meet a new one, a third shows nothing more,
since a run looks at no file before writing it. Half seconds are the only
fractions at which rounding has ties. `IntMax` and `ULong` are small powers
of two, large enough for every duration but the wrapped ones that the
modules return; storing such a duration in an `int` is undefined and modelled as
either of the two values processors give.

Inputs to `bytecount` cover every remainder modulo block and segment, twice. In
`frames` a segment is one second, and the numbers of frames are those just
before, at and after the first full segments, so that the carried part takes
several values; where the end of the input is never reported a segment is two
seconds, so that a second can be pending; junk is shorter than a header, longer, or ends in a byte that
looks like the start of one, and a missed frame may have such a byte just before
its end. In `mpegts` six packets are two tables, a first frame, a
cut and what is carried over it, or a table that changes in between; the clock
wraps within a segment. `crypto` takes every length from none to two whole
blocks, bytes that look like the padding of one byte and of a whole block, and a
second segment to show that nothing is carried over. Four options are
one more than replacing an object and setting it before and after needs; a digit
has two values there, so that five segments use the four names of a pattern of
two wildcards, and the first of them again. In `two_programs` a second version meets what the other
program did to the first, and a second start meets the files of the dead; the
inodes are one more than names and streams can hold at once (`InodesAssumption`).

Deadlock is not checked: the program stops when it is done or dead, and a bounded
run when the bound is reached.

### Fairness

`FairSpec` is weak fairness of `Works`, the steps the program takes by itself:
it has one thread, and nothing it calls waits for anyone but the disk. The
arrival of input (`Copies`) is not fair, and neither is `Die`: a live
source may stay silent for ever and no property depends on death. In
`ByteCountFairSpec` the steps of `copy_segment` are fair as well, which says that
the input ends or goes on; `ProgramEnds` is about inputs that end. So it is in
`AudioFairSpec`, whose input is a file. `ShortRestEnds` needs no more: from the
end of the input on every step is the program's own. `CallsSpec` has the calls of
`copy_segment` and nothing else of `main()`, whose number of segments would have to
be bounded: `CallAgain` makes the next one when the last has returned more than 0
(`main.cpp:203`). Both kinds of step are fair, since neither waits for anything:
the counterexample of `frames_end_of_input` is a loop of the two, not a program
that stands still.

## The theorems

TLC checks small instances; the theorems below hold for every value of the
constants: any window, key interval, number of segments, restarts, packets,
programs, frames, length or clock. All safety properties of the passing runs but
`ListedAreBlocks` are proved. Each proof shows that an inductive invariant holds at the start, that
every action preserves it, and that it implies the property; the property alone
is seldom inductive. Those of the whole program, the names and the frames were checked
with TLC on the instances of the runs before they were proved.

### The program (`SegmenterMain_proofs`, `SegmenterFiles_proofs`)

The invariants are in `SegmenterInvariant`.

* `TypeCorrect`: `TypeOK`. That a name is drawn for a number within bounds, and
  that what is appended to is a sequence, depends on where `main()` and the index
  stand. `Control` says so, and `TypeInv == TypeOK /\ Control` is inductive.
* `KeysStayInForce`: `KeyInForce`. The published index is governed by its key
  lines because the file or buffer that becomes published was. `KeyInv` says that
  every such file is governed, and that a line added at the end of the one being
  written would be read under `m_prev_crypto` (`Continues`). The lemmas about
  appending a key line or an entry are where the argument lies.
* `NoDrift` and `DurationsNeverWrap`: `ListedTimeTracksTotal`, `NoDurationWraps`.
  `TimeInv` says that, until the last segment, the carried error is exactly the
  time copied less the time listed, and that what a call has copied is the absolute
  value of its result (the contract); a rounding lemma gives the half second, and
  that the rounded last duration, negated or not, is not below 0. `DurationInv`
  says of every text that is or will be the index, and of the window, that their
  durations fit an `int`. Both assume `DurationsFit`: durations are away from the
  largest `int`, without which rounding is undefined. The results that ByteCount,
  ADTS and MP3 may return at the end of an input are neither: these two
  theorems are not about them.
* `ListedArePlayable`, `OldestMayBeMissing`, `ListedAreWhole`, `IndexIsUpToDate`:
  what is listed is on disk, under the right key. `ListInv` says what each text
  that is or will be the index lists: `Numbered` (consecutive numbers from its
  header on) and `Mirrors` (the same segments as `m_segments`), for the buffer,
  the temporary file and the published one at every step of `IndexFileLive`, and
  for a complete stream the file together with its stream buffer. `FileInv` says
  that the file of every segment that is still wanted is `Stored`, and that the
  file of `key_filename` holds the key of the segment being made; it needs that
  names differ as long as they are wanted. `ListedArePlayable` assumes
  `Crypto # 1`, since with 1 no key is ever written (the run
  `one_segment_per_key`); `ListedAreWhole` assumes `Crypto = 0 \/ ~DiskMayFail`,
  since an encrypted segment may lose its end on a full disk (the hazard at
  `main.cpp:193`).
* `DiskIsBounded`: `BoundedDisk`. `DiskInv` maps each file of the present run to
  a number between the start of the window and the newest segment; a lemma about
  such sets gives the cardinality.
* `ReadersSeeWindow`: `Spec => ReaderSeesWindow`, the refinement of
  `SegmentWindow`. The initial states map to initial states; each action is a
  `Publish`, an `EndList`, a `StartOver` or a stutter of the abstract list. It
  needs `ListInv`, and `EndInv`: no text that may become the index says that the
  stream ended.

They rest on `Assumptions` (the types of the constants, and names that differ)
and `NoFileAssumption` (that no file is none of the contents).

### The modules inside the loop (`ByteCount_proofs`, `AudioFrames_proofs`, `MpegtsH264_proofs`)

* `AllIsSplitEvenly`, `OneIsEmpty`: `InputIsSplitEvenly`, `AtMostOneEmpty` of
  ByteCount, for every length, block and input. `PlaceInv` says that the segments
  made have their pieces of the input, and that what is left is the rest of it;
  `ByteInv` that of the segments made only the last can be the rest of the input,
  and one more at most is begun after it.
* `ByteCountIsSegmenter`: `KeepsContract`, which is the specification of `main()`
  with the contract of `Segmenter.hpp` in place of the module, for inputs that end
  less than a block after a segment. What is proved of `SegmenterMain` holds with
  ByteCount and such an input in it, plain or encrypted. `InputFits` assumes that
  the input is over before `MaxSegments` segments are made of it, so that the bound
  is not what stops the program, and that 0 to `m_length` seconds are among
  `Durations`; nothing larger is needed. That the input is over by then, and that
  what is returned is what has been copied, is in `PlaceInv`.
* `FramesAreKept`: `FramesKept` of ADTS and MP3, for any stream: any number of
  frames with any junk between them, ending anywhere. `KeptInv` says that what has
  been copied lies behind the read position, that every frame that starts behind it
  has been copied or may be missed, and that the read position is the start of the
  input, a byte 0xff or the end of a frame (`Stands`). The last is what makes the
  proof go through: a search starts from such a place only, and frames between it
  and the next byte 0xff start within the header read there, or would
  themselves have been found. The theorem assumes `~CharIsSigned` (with signed
  `char` MP3 copies nothing: the run `mp3_signed_char`) and `LengthsAreRead`: the
  length that the code computes from each header of the input is that of the
  frame. This is not so for every format, as said above under the runs.
* `ErrorDoesNotAccumulate`: `NoAccumulation`. `TimeInv` says that until the
  input is over the time played is the time reported and `m_pos` together, and that
  what is left in `m_pos` by a full segment is less than its last frame. No
  frame lasts a second, in any of the rates of the tables (`TicksFacts`),
  so that a carried rest never fills the next segment by itself. The theorem assumes
  `m_length > 0` (with 0 a segment is full before it has a frame) and
  `TimesAreRead`: the ticks that the code takes from a header are how long the frame
  lasts. That the tables of rates divide `FRAC_SECOND` is `RatesDivide`, which TLC
  checks.
* `PacketsKeepOrder`: `PacketsOnceInOrder`. `Ordered` speaks of the segments
  and the retained packet together: their numbers are those of the packets that
  were to be kept, and grow from place to place.
* `SegmentsStandAlone`, `TablesNameContent`: a segment after the first begins
  with the tables and an IDR frame, which is true of the retained packet before it
  is true of the segment (`RetainedInv`, `OpenedInv`, `Begins`).
* `GarbageComesFirst`: `GarbageIsFirst`. As long as `m_pkt` holds what the
  constructor left in it, nothing has been written and no table is known
  (`GarbageInv`).
* `ReportedTimeHasPassed`: `ReportedWithinClock`. `PcrsNoted` relates the PCRs
  that a call has noted, both modulo `PcrMod`, to a clock that does not wrap. The
  result at the end of the input counts, that of a lost sync does not.
* `CallsReportTime`: `ReportsTimeCopied`. `BegunInv` places the first PCR that a
  call has noted on the clock that does not wrap, one advance at most after the call
  began; in less than the time of a wrap the difference of the two PCRs is then
  that of the clock.
* `SegmentsAreLongEnough`: `AverageLength`, since `m_pcr_segstart` is exactly
  one less than the number of cuts times the length (`LengthInv`). Assumes
  `FirstPcrs = {0}`: of a clock that starts later it is not true.

They rest on the named assumptions of their modules, of which
`KindsAssumption` says that only a PMT names streams, the H.264 stream among
them, since another PMT is refused.

### Encryption, names, other programs (`CryptoProxy_proofs`, `FileNames_proofs`, `TwoPrograms_proofs`)

* `ClosedFilesDecrypt`, `FilesHaveNoHoles`: `DecryptsToSource`, `NoHoles`.
  While nothing has failed the file and the partly filled block together hold the
  bytes written so far, in a chain that starts from the number of the segment and
  ends in `m_iv` (`BufferInv`); after a failure the file is still the beginning
  of such a chain (`FileInv`).
* `IndexIsAsAsked`, `NamesAreAsAsked`: the effect of each option is that of its
  last argument from the moment it is read, and no option undoes another.
  `NamesAreAsAsked` assumes `PatternsFit`: no pattern has as many
  wildcards as an unsigned short has values.
* `EntriesFindFiles`: `EntriesFindTheirFiles`, without a bound on segments or
  options. Two numbers less than a power of the base apart have different low
  digits (lemma `Apart`). `ListInv` says that what is listed are the last
  numbers up to the newest, so that a new name differs from all of them;
  `KeyListInv` bounds by one key interval how far the key of an entry lies behind
  the entry. For time stamps the clock has moved since the newest entry was
  named.
* `TypesAndNames`, `IndexStaysOwn`: `TypeOK`, `IndexIsOwn`, for any number of
  programs. What a program has written so far is in the inode its temporary name
  stands for, and no other program has that inode, or the one of its index,
  open (`OwnInv`); in particular a file that a program still writes after
  its name was taken from it is no longer anybody's. The assumptions are that no
  `-I` is the name of a temporary file and that the file system does not run out
  of inodes.

### Only model-checked

* `ListedAreBlocks`: which entries of the index come from full segments depends on
  the numbers of the index, the rounding and the count of bytes together.
* Liveness: `CopiedGetsListed`, `EndOfStreamEndsIndex`, `ProgramEnds`,
  `ShortRestEnds`. The prover knows neither fairness nor `ENABLED`.
* That the streams of `MCAudioFrames` meet `TimesAreRead` (its assumption
  `TimesAreRight`). That they meet `LengthsAreRead` is not assumed there: a length
  read wrong, as with the variant `PayloadLength_NoPadding`, shows in the run
  `frames` as a violation of `FramesKept`. For the frames of a format in general
  both are a matter of the tables of that format, which are not in the repository.

## What is not modelled

* Time stamps in the index, log output, the quality of random keys.
* The bytes of transport stream tables and PES headers. Malformed audio headers
  (a length read as less than the size of the header, reserved rates), for which the
  behaviour is undefined, and junk that imitates a whole header.
* The parsing of a number in an option: an argument is a number or is none. The
  float and the `unsigned long` that `-l` passes through are the identity on the
  lengths of the model (`main.cpp:100`, `105`); a negative one, which the code takes,
  is left out.
* More than 16 wildcards in a name: the shift of `Sequence.cpp:30` is undefined from
  the 17th digit on. Equal patterns for `-o` and `-k`, with which a key overwrites its
  segment: `FileNames` keeps segments and keys in two maps.
* What `-e` makes ByteCount do with an argument that is no number, zero or negative.
* The Perl dumpers other than `ts-tools.pl`, which print what an external
  library parses; the AES implementation in `src/Crypto/aes.c`, which is not
  compiled.

## Plan

Left to do is `ts-tools.pl`: sections and PES packets put together from packets,
demux and remux; the read-ahead buffers below it.

`SegmenterMain` came first, since every reader of the program's files depends on
it, and with it the abstract `SegmentWindow`; then the modules that fill the
segments; then what stands before and beside them: options, names, and other
programs in the same directory.
