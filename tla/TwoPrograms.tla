----------------------------- MODULE TwoPrograms -----------------------------
(***************************************************************************)
(* Several live segmenters at work in one directory, as for the variants   *)
(* of a stream.  The constructor of IndexFileLive names the temporary file *)
(* after the index name of that moment: with -L before -I it is the        *)
(* default name, and programs started so write their indexes through one   *)
(* and the same file.                                                      *)
(*                                                                         *)
(* Of a file system we need what makes the difference: a name leads to an  *)
(* inode, an open stream keeps its inode whatever becomes of the name, and *)
(* writes at a position of its own.  An index is a number of cells, each   *)
(* marked with the program and the version it belongs to.                  *)
(***************************************************************************)
EXTENDS Integers, Sequences, FiniteSets

CONSTANTS
  Programs,
  DefaultName,   \* out.m3u8
  NoInode,       \* no file has the name
  Hole,          \* a cell nobody wrote, in front of one that somebody did
  END,           \* the last line of an index, EXT-X-ENDLIST
  Sizes,         \* how many cells an index may have
  Inodes,        \* as many as there may be files and open streams
  MaxVersions,   \* bound: how often each program writes its index
  MaxStarts      \* bound: how often each program is started

VARIABLES
  pc,
  m_filename,    \* the index name of each program, option -I
  live_first,    \* -L stands before -I
  version, size, \* what is being written
  m_out,         \* the inode of the stream
  written,       \* how many cells have been written to it
  dir, data,     \* the directory, and what the inodes hold
  starts,        \* ghost: how often the program has been started
  published      \* ghost: what the index of each program ought to hold

programVars == <<m_filename, live_first>>
vars == <<pc, programVars, version, size, m_out, written, dir, data,
          starts, published>>

ASSUME TwoProgramsAssumption ==
  /\ DefaultName \notin Programs /\ NoInode \notin Inodes
  /\ Sizes \subseteq Nat /\ MaxVersions \in Nat /\ MaxStarts \in Nat

(* A program without -I keeps the default name, others have their own.     *)
IndexNames == Programs \cup {DefaultName}
Temp(name) == <<name, "tmp">>
FileNames  == IndexNames \cup {Temp(name) : name \in IndexNames}

(* No option -I names the temporary file of an index.                      *)
ASSUME NamesAssumption ==
  IsFiniteSet(Programs) /\ \A name, other \in IndexNames : Temp(name) # other

(* The file system never runs out of inodes. *)
ASSUME InodesAssumption ==
  Cardinality(Inodes) > Cardinality(FileNames) + Cardinality(Programs)

(* Variant: whatever -I says. *)
TempName_Default(p) == Temp(DefaultName)

TempName(p) == Temp(IF live_first[p] THEN DefaultName ELSE m_filename[p])

Init ==
  /\ pc = [p \in Programs |-> "idle"]
  /\ m_filename \in {f \in [Programs -> IndexNames] :
       \A p, q \in Programs : f[p] \in {p, DefaultName} /\ (p # q => f[p] # f[q])}
  /\ live_first \in [Programs -> BOOLEAN]
  /\ version = [p \in Programs |-> 0] /\ size = [p \in Programs |-> 0]
  /\ m_out = [p \in Programs |-> NoInode] /\ written = [p \in Programs |-> 0]
  /\ dir = [name \in FileNames |-> NoInode]
  /\ data = [i \in Inodes |-> <<>>]
  /\ starts = [p \in Programs |-> 1] /\ published = [p \in Programs |-> <<>>]

InUse == {dir[name] : name \in FileNames} \cup {m_out[p] : p \in Programs}

(* Where an open leads: to the file of that name, or to a new one.         *)
Opened(name) ==
  IF dir[name] # NoInode THEN dir[name] ELSE CHOOSE i \in Inodes : i \notin InUse

(* An inode that no name and no stream leads to any more is gone.          *)
Reclaim == data' = [i \in Inodes |-> IF i \in InUse' THEN data[i] ELSE <<>>]

(* AddSegment opens the temporary file, which truncates it.                *)
OpenTemp(p) ==
  /\ pc[p] = "idle"
  /\ version[p] < MaxVersions
  /\ version' = [version EXCEPT ![p] = @ + 1]
  /\ \E s \in Sizes : size' = [size EXCEPT ![p] = s]
  /\ LET i == Opened(TempName(p))
     IN /\ dir' = [dir EXCEPT ![TempName(p)] = i]
        /\ data' = [data EXCEPT ![i] = <<>>]
        /\ m_out' = [m_out EXCEPT ![p] = i]
  /\ written' = [written EXCEPT ![p] = 0]
  /\ pc' = [pc EXCEPT ![p] = "write"]
  /\ UNCHANGED <<programVars, starts, published>>

WrittenAt(cells, k, cell) ==
  [i \in 1 .. (IF k > Len(cells) THEN k ELSE Len(cells)) |->
     IF i = k THEN cell ELSE IF i <= Len(cells) THEN cells[i] ELSE Hole]

(* The stream's buffer goes to the file, in one piece or in several.       *)
Write(p) ==
  /\ pc[p] = "write"
  /\ written[p] < size[p]
  /\ written' = [written EXCEPT ![p] = @ + 1]
  /\ data' = [data EXCEPT ![m_out[p]] =
                WrittenAt(@, written'[p], <<p, version[p]>>)]
  /\ UNCHANGED <<pc, programVars, version, size, m_out, dir, starts, published>>

Close(p) ==
  /\ pc[p] = "write"
  /\ written[p] = size[p]
  /\ m_out' = [m_out EXCEPT ![p] = NoInode]
  /\ written' = [written EXCEPT ![p] = 0]
  /\ pc' = [pc EXCEPT ![p] = "rename"]
  /\ UNCHANGED <<programVars, version, size, dir, starts, published>>
  /\ Reclaim

(* Variant: the temporary name stays, as with link(). *)
Rename_Links(p) ==
  /\ pc[p] = "rename"
  /\ dir' = [dir EXCEPT ![m_filename[p]] = dir[TempName(p)]]
  /\ published' = [published EXCEPT ![p] = [k \in 1 .. size[p] |-> <<p, version[p]>>]]
  /\ pc' = [pc EXCEPT ![p] = "idle"]
  /\ UNCHANGED <<programVars, version, size, m_out, written, data, starts>>

(* A rename of what another program has renamed already throws.            *)
Rename(p) ==
  /\ pc[p] = "rename"
  /\ IF dir[TempName(p)] = NoInode
       THEN pc' = [pc EXCEPT ![p] = "failed"] /\ UNCHANGED <<dir, published>>
       ELSE /\ dir' = [dir EXCEPT ![m_filename[p]] = dir[TempName(p)],
                                  ![TempName(p)] = NoInode]
            /\ published' = [published EXCEPT ![p] =
                               [k \in 1 .. size[p] |-> <<p, version[p]>>]]
            /\ pc' = [pc EXCEPT ![p] = "idle"]
  /\ UNCHANGED <<programVars, version, size, m_out, written, starts>>
  /\ Reclaim

(* The published file, or a new one, is opened for appending.              *)
End(p) ==
  /\ pc[p] = "idle"
  /\ LET i == Opened(m_filename[p])
     IN /\ dir' = [dir EXCEPT ![m_filename[p]] = i]
        /\ data' = [data EXCEPT ![i] = Append(@, END)]
  /\ published' = [published EXCEPT ![p] = Append(@, END)]
  /\ pc' = [pc EXCEPT ![p] = "done"]
  /\ UNCHANGED <<programVars, version, size, m_out, written, starts>>

Die(p) ==
  /\ pc[p] \in {"idle", "write", "rename"}
  /\ pc' = [pc EXCEPT ![p] = "dead"]
  /\ m_out' = [m_out EXCEPT ![p] = NoInode]
  /\ written' = [written EXCEPT ![p] = 0]
  /\ UNCHANGED <<programVars, version, size, dir, starts, published>>
  /\ Reclaim

(* With the same options over the files that are there.                    *)
Restart(p) ==
  /\ pc[p] \in {"done", "dead", "failed"}
  /\ starts[p] < MaxStarts
  /\ starts' = [starts EXCEPT ![p] = @ + 1]
  /\ pc' = [pc EXCEPT ![p] = "idle"]
  /\ UNCHANGED <<programVars, version, size, m_out, written, dir, data, published>>

Step(p) ==
  \/ OpenTemp(p)
  \/ Write(p)
  \/ Close(p)
  \/ Rename(p)
  \/ End(p)
  \/ Die(p)
  \/ Restart(p)

Next == \E p \in Programs : Step(p)
Spec == Init /\ [][Next]_vars

(* Types, and an inode has one name at most.                               *)
TypeOK ==
  /\ pc \in [Programs -> {"idle", "write", "rename", "done", "dead", "failed"}]
  /\ dir \in [FileNames -> Inodes \cup {NoInode}]
  /\ m_out \in [Programs -> Inodes \cup {NoInode}]
  /\ \A a, b \in FileNames : a # b /\ dir[a] = dir[b] => dir[a] = NoInode

Content(name) == IF dir[name] = NoInode THEN <<>> ELSE data[dir[name]]

LeftAlone(p) ==
  \A q \in Programs \ {p} :
    (live_first[p] \/ m_filename[p] = DefaultName)
      => ~(live_first[q] \/ m_filename[q] = DefaultName)

(* A program with -I before -L, or the only one of its directory without,  *)
(* is not disturbed by others, whenever they open, write, rename, die or   *)
(* are started again: its index holds what it published last, to the cell, *)
(* and its own rename finds the file it has written.                       *)
IndexIsOwn ==
  \A p \in Programs :
    LeftAlone(p) => Content(m_filename[p]) = published[p] /\ pc[p] # "failed"
=============================================================================
