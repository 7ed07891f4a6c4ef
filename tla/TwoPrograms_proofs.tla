------------------------- MODULE TwoPrograms_proofs -------------------------
(***************************************************************************)
(* Proofs about TwoPrograms, for any number of programs and starts, and    *)
(* indexes of any size.                                                    *)
(***************************************************************************)
EXTENDS TwoPrograms, FiniteSetTheorems, TLAPS

States == {"idle", "write", "rename", "done", "dead", "failed"}

OptionsInv ==
  /\ m_filename \in [Programs -> IndexNames]
  /\ \A p, q \in Programs :
       m_filename[p] \in {p, DefaultName} /\ (p # q => m_filename[p] # m_filename[q])

TypeInv ==
  /\ pc \in [Programs -> States]
  /\ dir \in [FileNames -> Inodes \cup {NoInode}]
  /\ m_out \in [Programs -> Inodes \cup {NoInode}]
  /\ version \in [Programs -> Nat] /\ size \in [Programs -> Nat]
  /\ written \in [Programs -> Nat]
  /\ published = [p \in Programs |-> published[p]]
  /\ data = [i \in Inodes |-> data[i]]

(* An inode has one name at most, and one that nothing leads to is empty.  *)
InodesInv ==
  /\ \A a, b \in FileNames : a # b /\ dir[a] = dir[b] => dir[a] = NoInode
  /\ \A i \in Inodes : i \notin InUse => data[i] = <<>>

StreamsInv == \A p \in Programs : m_out[p] # NoInode <=> pc[p] = "write"

Cells(p, v, n) == [k \in 1 .. n |-> <<p, v>>]

(* What nobody disturbs: the temporary file holds what has been written,   *)
(* the index what has been published, and no other program writes to them. *)
OwnInv(p) ==
  /\ pc[p] = "write" =>
       /\ m_out[p] = dir[TempName(p)]
       /\ written[p] <= size[p] /\ data[m_out[p]] = Cells(p, version[p], written[p])
  /\ pc[p] = "rename" =>
       /\ dir[TempName(p)] # NoInode
       /\ data[dir[TempName(p)]] = Cells(p, version[p], size[p])
  /\ Content(m_filename[p]) = published[p]
  /\ pc[p] # "failed"
  /\ \A q \in Programs \ {p} :
       m_out[q] # NoInode => m_out[q] # dir[m_filename[p]] /\ m_out[q] # dir[TempName(p)]

StateInv == OptionsInv /\ TypeInv /\ InodesInv /\ StreamsInv
ProgramsInv == StateInv /\ \A p \in Programs : LeftAlone(p) => OwnInv(p)

(***************************************************************************)
(* Names.                                                                  *)
(***************************************************************************)
SharesTemp(p) == live_first[p] \/ m_filename[p] = DefaultName

LEMMA TempNames ==
  ASSUME OptionsInv, NEW p \in Programs
  PROVE  /\ TempName(p) = Temp(IF SharesTemp(p) THEN DefaultName ELSE p)
         /\ TempName(p) \in FileNames /\ m_filename[p] \in FileNames
         /\ TempName(p) # m_filename[p]
<1>1. m_filename[p] \in IndexNames /\ m_filename[p] \in {p, DefaultName}
  BY DEF OptionsInv
<1>2. TempName(p) = Temp(IF SharesTemp(p) THEN DefaultName ELSE p)
  BY <1>1 DEF TempName, SharesTemp
<1>3. \E n \in IndexNames : TempName(p) = Temp(n)
  BY <1>2 DEF IndexNames
<1> QED  BY <1>1, <1>2, <1>3, NamesAssumption DEF FileNames

(* The names of a program that is left alone are no other program's.       *)
LEMMA NamesApart ==
  ASSUME OptionsInv, NEW p \in Programs, NEW q \in Programs, p # q, LeftAlone(p)
  PROVE  /\ m_filename[p] # m_filename[q] /\ m_filename[p] # TempName(q)
         /\ TempName(p) # m_filename[q] /\ TempName(p) # TempName(q)
<1>1. m_filename[p] # m_filename[q] /\ m_filename[p] \in IndexNames /\ m_filename[q] \in IndexNames
  BY DEF OptionsInv
<1>2. ~(SharesTemp(p) /\ SharesTemp(q))
  BY DEF LeftAlone, SharesTemp
<1> DEFINE np == IF SharesTemp(p) THEN DefaultName ELSE p
           nq == IF SharesTemp(q) THEN DefaultName ELSE q
<1>3. np # nq /\ np \in IndexNames /\ nq \in IndexNames
  BY <1>2, TwoProgramsAssumption DEF IndexNames
<1>4. TempName(p) = Temp(np) /\ TempName(q) = Temp(nq)
  BY TempNames
<1> HIDE DEF np, nq
<1>5. Temp(np) # Temp(nq)
  BY <1>3 DEF Temp
<1> QED  BY <1>1, <1>3, <1>4, <1>5, NamesAssumption

(***************************************************************************)
(* Inodes.                                                                 *)
(***************************************************************************)
LEMMA ImageBound ==
  ASSUME NEW S, NEW f, f = [x \in S |-> f[x]], IsFiniteSet(S)
  PROVE  LET T == {f[x] : x \in S} IN IsFiniteSet(T) /\ Cardinality(T) <= Cardinality(S)
<1> DEFINE T == {f[x] : x \in S}
<1>1. f \in Surjection(S, T)
  BY DEF Surjection
<1> HIDE DEF T
<1>2. IsFiniteSet(T) /\ Cardinality(T) <= Cardinality(S)
  BY <1>1, FS_Surjection
<1> QED  BY <1>2 DEF T

LEMMA FileNamesFinite == IsFiniteSet(FileNames)
<1>1. IsFiniteSet(IndexNames)
  BY NamesAssumption, FS_AddElement DEF IndexNames
<1> DEFINE f == [name \in IndexNames |-> Temp(name)]
           T == {f[name] : name \in IndexNames}
<1>2. f = [name \in IndexNames |-> f[name]]
  OBVIOUS
<1>3. T = {Temp(name) : name \in IndexNames}
  OBVIOUS
<1> HIDE DEF f
<1>4. IsFiniteSet(T)
  BY <1>1, <1>2, ImageBound
<1> HIDE DEF T
<1>5. IsFiniteSet(IndexNames \cup T)
  BY <1>1, <1>4, FS_Union
<1> QED  BY <1>3, <1>5 DEF FileNames

LEMMA FreeInode ==
  ASSUME TypeInv
  PROVE  \E i \in Inodes : i \notin InUse
<1> SUFFICES ASSUME Inodes \subseteq InUse PROVE FALSE
  OBVIOUS
<1> DEFINE A == {dir[name] : name \in FileNames}
           B == {m_out[p] : p \in Programs}
<1>1. dir = [name \in FileNames |-> dir[name]] /\ m_out = [p \in Programs |-> m_out[p]]
  BY DEF TypeInv
<1>2. IsFiniteSet(FileNames) /\ IsFiniteSet(Programs)
  BY FileNamesFinite, NamesAssumption
<1>3. IsFiniteSet(A) /\ Cardinality(A) <= Cardinality(FileNames)
  BY <1>1, <1>2, ImageBound
<1>4. IsFiniteSet(B) /\ Cardinality(B) <= Cardinality(Programs)
  BY <1>1, <1>2, ImageBound
<1>5. Inodes \in SUBSET (A \cup B)
  BY DEF InUse
<1> HIDE DEF A, B
<1>6. /\ IsFiniteSet(A \cup B)
      /\ Cardinality(A \cup B) = Cardinality(A) + Cardinality(B) - Cardinality(A \cap B)
  BY <1>3, <1>4, FS_Union
<1>7. IsFiniteSet(A \cap B)
  BY <1>3, FS_Intersection
<1>8. /\ Cardinality(A) \in Nat /\ Cardinality(B) \in Nat /\ Cardinality(A \cap B) \in Nat
      /\ Cardinality(FileNames) \in Nat /\ Cardinality(Programs) \in Nat
  BY <1>2, <1>3, <1>4, <1>7, FS_CardinalityType
<1>9. IsFiniteSet(Inodes) /\ Cardinality(Inodes) <= Cardinality(A \cup B)
  BY <1>5, <1>6, FS_Subset
<1>10. Cardinality(Inodes) \in Nat
  BY <1>9, FS_CardinalityType
<1> QED  BY <1>3, <1>4, <1>6, <1>8, <1>9, <1>10, InodesAssumption

(* An open leads to the file of the name, or to an inode that nothing      *)
(* leads to.                                                               *)
LEMMA OpenedFacts ==
  ASSUME TypeInv, NEW name \in FileNames
  PROVE  /\ Opened(name) \in Inodes /\ Opened(name) # NoInode
         /\ IF dir[name] # NoInode THEN Opened(name) = dir[name]
                                   ELSE Opened(name) \notin InUse
<1>1. CASE dir[name] # NoInode
  BY <1>1 DEF Opened, TypeInv
<1>2. CASE dir[name] = NoInode
  <2>1. Opened(name) = CHOOSE i \in Inodes : i \notin InUse
    BY <1>2 DEF Opened
  <2>2. Opened(name) \in Inodes /\ Opened(name) \notin InUse
    BY <2>1, FreeInode
  <2> QED  BY <1>2, <2>2, TwoProgramsAssumption
<1> QED  BY <1>1, <1>2

LEMMA ReclaimFacts ==
  ASSUME TypeInv, Reclaim
  PROVE  /\ data' = [i \in Inodes |-> data'[i]]
         /\ \A i \in Inodes : i \in InUse' => data'[i] = data[i]
         /\ \A i \in Inodes : i \notin InUse' => data'[i] = <<>>
BY DEF Reclaim

LEMMA CellsFacts ==
  ASSUME NEW p, NEW v, NEW n \in Nat
  PROVE  /\ Cells(p, v, 0) = <<>>
         /\ WrittenAt(Cells(p, v, n), n + 1, <<p, v>>) = Cells(p, v, n + 1)
<1> DEFINE c == <<p, v>>
           f == [k \in 1 .. n |-> c]
<1>1. f \in Seq({c}) /\ Len(f) = n /\ \A k \in 1 .. n : f[k] = c
  OBVIOUS
<1>2. [k \in 1 .. 0 |-> c] = <<>>
  OBVIOUS
<1> HIDE DEF c, f
<1>3. WrittenAt(f, n + 1, c) = [i \in 1 .. n + 1 |-> IF i = n + 1 THEN c ELSE IF i <= n THEN f[i] ELSE Hole]
  BY <1>1 DEF WrittenAt
<1>4. WrittenAt(f, n + 1, c) = [k \in 1 .. n + 1 |-> c]
  BY <1>1, <1>3
<1> QED  BY <1>1, <1>2, <1>4 DEF Cells, c, f

(* A name is opened, and what it leads to is written.                      *)
LEMMA InodesOpened ==
  ASSUME TypeInv, InodesInv, NEW name \in FileNames,
         dir' = [dir EXCEPT ![name] = Opened(name)],
         \A q \in Programs : m_out[q] = NoInode \/ m_out'[q] = m_out[q],
         \A i \in Inodes : i # Opened(name) => data'[i] = data[i]
  PROVE  InodesInv'
<1> DEFINE o == Opened(name)
<1>1. /\ o \in Inodes /\ o # NoInode
      /\ IF dir[name] # NoInode THEN o = dir[name] ELSE o \notin InUse
  BY OpenedFacts
<1> HIDE DEF o
<1>2. dir'[name] = o /\ \A a \in FileNames : a # name => dir'[a] = dir[a]
  BY DEF TypeInv, o
<1>3. \A a \in FileNames : dir[a] \in InUse
  BY DEF InUse
<1>4. \A a \in FileNames : a # name => dir[a] # o
  BY <1>1, <1>3 DEF InodesInv
<1>5. \A a, b \in FileNames : a # b /\ dir'[a] = dir'[b] => dir'[a] = NoInode
  BY <1>2, <1>4 DEF InodesInv
<1>6. ASSUME NEW i \in Inodes, i \notin InUse'
      PROVE  data'[i] = <<>>
  <2>1. i # o
    BY <1>2, <1>6 DEF InUse
  <2>2. \A a \in FileNames : dir[a] # i
    <3> SUFFICES ASSUME NEW a \in FileNames, dir[a] = i PROVE FALSE
      OBVIOUS
    <3>1. i # NoInode
      BY TwoProgramsAssumption
    <3>2. a = name
      BY <1>2, <1>6 DEF InUse
    <3> QED  BY <1>1, <2>1, <3>1, <3>2
  <2>3. \A q \in Programs : m_out[q] # i
    BY <1>6, TwoProgramsAssumption DEF InUse
  <2>4. i \notin InUse
    BY <2>2, <2>3 DEF InUse
  <2> QED  BY <2>1, <2>4 DEF InodesInv, o
<1> QED  BY <1>5, <1>6 DEF InodesInv

LEMMA StateInit == Init => StateInv
<1> SUFFICES ASSUME Init PROVE StateInv
  OBVIOUS
<1>1. OptionsInv
  BY DEF Init, OptionsInv
<1>2. TypeInv
  BY DEF Init, TypeInv, States
<1>3. InodesInv
  BY DEF Init, InodesInv
<1>4. StreamsInv
  BY DEF Init, StreamsInv
<1> QED  BY <1>1, <1>2, <1>3, <1>4 DEF StateInv

LEMMA TypeStep ==
  ASSUME OptionsInv, TypeInv, NEW p \in Programs, Step(p)
  PROVE  TypeInv'
<1> USE DEF TypeInv, States
<1>1. TempName(p) \in FileNames /\ m_filename[p] \in FileNames
  BY TempNames
<1>2. Opened(TempName(p)) \in Inodes /\ Opened(m_filename[p]) \in Inodes
  BY <1>1, OpenedFacts
<1>3. Reclaim => data' = [i \in Inodes |-> data'[i]]
  BY ReclaimFacts
<1>4. CASE OpenTemp(p)
  <2>1. PICK s \in Sizes : size' = [size EXCEPT ![p] = s]
    BY <1>4 DEF OpenTemp
  <2>2. s \in Nat
    BY TwoProgramsAssumption
  <2>3. size' \in [Programs -> Nat] /\ version' \in [Programs -> Nat]
    BY <1>4, <2>1, <2>2 DEF OpenTemp
  <2>4. /\ dir' \in [FileNames -> Inodes \cup {NoInode}]
        /\ m_out' \in [Programs -> Inodes \cup {NoInode}]
    BY <1>1, <1>2, <1>4 DEF OpenTemp
  <2>5. data' = [i \in Inodes |-> data'[i]]
    BY <1>4 DEF OpenTemp
  <2>6. written' \in [Programs -> Nat] /\ pc' \in [Programs -> States] /\ published' = published
    BY <1>4 DEF OpenTemp
  <2> QED  BY <2>3, <2>4, <2>5, <2>6
<1>5. CASE Write(p)
  BY <1>5 DEF Write
<1>6. CASE Close(p)
  BY <1>3, <1>6 DEF Close
<1>7. CASE Rename(p)
  <2>1. dir' \in [FileNames -> Inodes \cup {NoInode}]
    BY <1>1, <1>7 DEF Rename
  <2>2. pc' \in [Programs -> States] /\ published' = [q \in Programs |-> published'[q]]
    BY <1>7 DEF Rename
  <2> QED  BY <1>3, <1>7, <2>1, <2>2 DEF Rename
<1>8. CASE End(p)
  BY <1>1, <1>2, <1>8 DEF End
<1>9. CASE Die(p)
  BY <1>3, <1>9 DEF Die
<1>10. CASE Restart(p)
  BY <1>10 DEF Restart
<1> QED  BY <1>4, <1>5, <1>6, <1>7, <1>8, <1>9, <1>10 DEF Step

LEMMA StreamsStep ==
  ASSUME OptionsInv, TypeInv, StreamsInv, NEW p \in Programs, Step(p)
  PROVE  StreamsInv'
<1> USE DEF TypeInv, StreamsInv
<1>1. Opened(TempName(p)) # NoInode
  BY TempNames, OpenedFacts
<1>2. CASE OpenTemp(p)
  BY <1>1, <1>2 DEF OpenTemp
<1>3. CASE Write(p)
  BY <1>3 DEF Write
<1>4. CASE Close(p)
  BY <1>4 DEF Close
<1>5. CASE Rename(p)
  BY <1>5 DEF Rename
<1>6. CASE End(p)
  BY <1>6 DEF End
<1>7. CASE Die(p)
  BY <1>7 DEF Die
<1>8. CASE Restart(p)
  BY <1>8 DEF Restart
<1> QED  BY <1>2, <1>3, <1>4, <1>5, <1>6, <1>7, <1>8 DEF Step

LEMMA InodesStep ==
  ASSUME StateInv, NEW p \in Programs, Step(p)
  PROVE  InodesInv'
<1>0. OptionsInv /\ TypeInv /\ InodesInv /\ StreamsInv
  BY DEF StateInv
<1>1. TempName(p) \in FileNames /\ m_filename[p] \in FileNames /\ TempName(p) # m_filename[p]
  BY <1>0, TempNames
<1>2. CASE OpenTemp(p)
  <2>1. /\ dir' = [dir EXCEPT ![TempName(p)] = Opened(TempName(p))]
        /\ \A i \in Inodes : i # Opened(TempName(p)) => data'[i] = data[i]
    BY <1>0, <1>2 DEF OpenTemp, TypeInv
  <2>2. \A q \in Programs : m_out[q] = NoInode \/ m_out'[q] = m_out[q]
    BY <1>0, <1>2 DEF OpenTemp, TypeInv, StreamsInv
  <2> QED  BY <1>0, <1>1, <2>1, <2>2, InodesOpened
<1>3. CASE Write(p)
  <2>1. dir' = dir /\ m_out' = m_out /\ InUse' = InUse
    BY <1>3 DEF Write, InUse
  <2>2. m_out[p] \in InUse
    BY DEF InUse
  <2>3. \A i \in Inodes : i # m_out[p] => data'[i] = data[i]
    BY <1>0, <1>3 DEF Write, TypeInv
  <2> QED  BY <1>0, <2>1, <2>2, <2>3 DEF InodesInv
<1>4. CASE Close(p) \/ Die(p)
  <2>1. dir' = dir /\ Reclaim
    BY <1>4 DEF Close, Die
  <2>2. \A i \in Inodes : i \notin InUse' => data'[i] = <<>>
    BY <1>0, <2>1, ReclaimFacts
  <2> QED  BY <1>0, <2>1, <2>2 DEF InodesInv
<1>5. CASE Rename(p)
  <2>1. \A i \in Inodes : i \notin InUse' => data'[i] = <<>>
    BY <1>0, <1>5, ReclaimFacts DEF Rename
  <2>2. CASE dir' = dir
    BY <1>0, <2>1, <2>2 DEF InodesInv
  <2>3. CASE dir' # dir
    <3>1. dir' = [dir EXCEPT ![m_filename[p]] = dir[TempName(p)], ![TempName(p)] = NoInode]
      BY <1>5, <2>3 DEF Rename
    <3>2. /\ dir'[m_filename[p]] = dir[TempName(p)] /\ dir'[TempName(p)] = NoInode
          /\ \A a \in FileNames : a \notin {m_filename[p], TempName(p)} => dir'[a] = dir[a]
      BY <1>0, <1>1, <3>1 DEF TypeInv
    <3> HIDE <3>1
    <3>3. ASSUME NEW a \in FileNames, NEW b \in FileNames, a # b, dir'[a] = dir'[b]
          PROVE  dir'[a] = NoInode
      <4>1. CASE a = TempName(p) \/ b = TempName(p)
        BY <3>2, <3>3, <4>1
      <4>2. CASE a # TempName(p) /\ b # TempName(p)
        BY <1>0, <1>1, <3>2, <3>3, <4>2 DEF InodesInv
      <4> QED  BY <4>1, <4>2
    <3> QED  BY <2>1, <3>3 DEF InodesInv
  <2> QED  BY <2>2, <2>3
<1>6. CASE End(p)
  <2>1. /\ dir' = [dir EXCEPT ![m_filename[p]] = Opened(m_filename[p])] /\ m_out' = m_out
        /\ \A i \in Inodes : i # Opened(m_filename[p]) => data'[i] = data[i]
    BY <1>0, <1>6 DEF End, TypeInv
  <2> QED  BY <1>0, <1>1, <2>1, InodesOpened
<1>7. CASE Restart(p)
  BY <1>0, <1>7 DEF Restart, InodesInv, InUse
<1> QED  BY <1>2, <1>3, <1>4, <1>5, <1>6, <1>7 DEF Step

LEMMA OptionsStep ==
  ASSUME NEW p \in Programs, Step(p)
  PROVE  UNCHANGED <<m_filename, live_first>>
BY DEF Step, OpenTemp, Write, Close, Rename, End, Die, Restart, programVars

LEMMA StateStep ==
  ASSUME StateInv, NEW p \in Programs, Step(p)
  PROVE  StateInv'
<1>1. OptionsInv /\ TypeInv /\ StreamsInv
  BY DEF StateInv
<1>2. OptionsInv'
  BY <1>1, OptionsStep DEF OptionsInv
<1> QED  BY <1>1, <1>2, TypeStep, StreamsStep, InodesStep DEF StateInv

(***************************************************************************)
(* Other programs.                                                         *)
(***************************************************************************)
LEMMA OpenedApart ==
  ASSUME TypeInv, InodesInv, NEW name \in FileNames, NEW other \in FileNames, name # other
  PROVE  Opened(name) # dir[other]
<1>1. /\ Opened(name) # NoInode
      /\ IF dir[name] # NoInode THEN Opened(name) = dir[name] ELSE Opened(name) \notin InUse
  BY OpenedFacts
<1>2. dir[other] \in InUse
  BY DEF InUse
<1> QED  BY <1>1, <1>2 DEF InodesInv

(* The steps of program q leave alone what program p needs.                *)
Spares(p, q) ==
  /\ pc'[p] = pc[p] /\ version'[p] = version[p] /\ size'[p] = size[p]
  /\ m_out'[p] = m_out[p] /\ written'[p] = written[p] /\ published'[p] = published[p]
  /\ \A name \in {m_filename[p], TempName(p)} :
       /\ dir'[name] = dir[name]
       /\ dir[name] # NoInode => data'[dir[name]] = data[dir[name]]
       /\ m_out'[q] # NoInode => m_out'[q] # dir[name]

LEMMA OtherSpares ==
  ASSUME StateInv, NEW p \in Programs, NEW q \in Programs, p # q, LeftAlone(p), OwnInv(p),
         Step(q)
  PROVE  Spares(p, q)
<1>0. OptionsInv /\ TypeInv /\ InodesInv /\ StreamsInv
  BY DEF StateInv
<1>1. /\ m_filename[p] # m_filename[q] /\ m_filename[p] # TempName(q)
      /\ TempName(p) # m_filename[q] /\ TempName(p) # TempName(q)
      /\ m_filename[p] \in FileNames /\ TempName(p) \in FileNames
      /\ m_filename[q] \in FileNames /\ TempName(q) \in FileNames
  BY <1>0, NamesApart, TempNames
<1>2. /\ pc'[p] = pc[p] /\ version'[p] = version[p] /\ size'[p] = size[p]
      /\ m_out'[p] = m_out[p] /\ written'[p] = written[p] /\ published'[p] = published[p]
  BY <1>0 DEF Step, OpenTemp, Write, Close, Rename, End, Die, Restart, TypeInv
<1> DEFINE Mine == {m_filename[p], TempName(p)}
<1>3. SUFFICES ASSUME NEW name \in Mine
               PROVE  /\ dir'[name] = dir[name]
                      /\ dir[name] # NoInode => data'[dir[name]] = data[dir[name]]
                      /\ m_out'[q] # NoInode => m_out'[q] # dir[name]
  BY <1>2 DEF Spares
<1>4. name \in FileNames /\ name # m_filename[q] /\ name # TempName(q)
  BY <1>1
<1>5. m_out[q] # NoInode => m_out[q] # dir[name]
  BY DEF OwnInv
<1>6. dir[name] \in Inodes \cup {NoInode}
  BY <1>0, <1>4 DEF TypeInv
<1>7. Reclaim /\ dir'[name] = dir[name] => (dir[name] # NoInode => data'[dir[name]] = data[dir[name]])
  <2>1. dir'[name] \in InUse'
    BY <1>4 DEF InUse
  <2> QED  BY <1>0, <1>6, <2>1, ReclaimFacts
<1>8. CASE OpenTemp(q)
  <2>1. Opened(TempName(q)) # dir[name] /\ Opened(TempName(q)) \in Inodes
    BY <1>0, <1>1, <1>4, OpenedApart, OpenedFacts
  <2> QED  BY <1>0, <1>4, <1>6, <1>8, <2>1 DEF OpenTemp, TypeInv
<1>9. CASE Write(q)
  <2>1. m_out[q] # NoInode
    BY <1>0, <1>9 DEF Write, StreamsInv
  <2> QED  BY <1>0, <1>4, <1>5, <1>6, <1>9, <2>1 DEF Write, TypeInv
<1>10. CASE Close(q) \/ Die(q)
  BY <1>0, <1>7, <1>10 DEF Close, Die, TypeInv
<1>11. CASE Rename(q)
  <2>1. dir'[name] = dir[name]
    BY <1>0, <1>4, <1>11 DEF Rename, TypeInv
  <2> QED  BY <1>5, <1>7, <1>11, <2>1 DEF Rename
<1>12. CASE End(q)
  <2>1. Opened(m_filename[q]) # dir[name] /\ Opened(m_filename[q]) \in Inodes
    BY <1>0, <1>1, <1>4, OpenedApart, OpenedFacts
  <2> QED  BY <1>0, <1>4, <1>5, <1>6, <1>12, <2>1 DEF End, TypeInv
<1>13. CASE Restart(q)
  BY <1>5, <1>13 DEF Restart
<1> QED  BY <1>8, <1>9, <1>10, <1>11, <1>12, <1>13 DEF Step

LEMMA OtherStep ==
  ASSUME StateInv, NEW p \in Programs, NEW q \in Programs, p # q, LeftAlone(p), OwnInv(p),
         Step(q)
  PROVE  OwnInv(p)'
<1>1. Spares(p, q) /\ UNCHANGED <<m_filename, live_first>>
  BY OtherSpares, OptionsStep
<1>2. TempName(p)' = TempName(p)
  BY <1>1 DEF TempName
<1>3. \A r \in Programs \ {p, q} : m_out'[r] = m_out[r]
  BY DEF StateInv, TypeInv, Step, OpenTemp, Write, Close, Rename, End, Die, Restart
<1>4. pc[p] = "write" => m_out[p] # NoInode
  BY DEF StateInv, StreamsInv
<1>5. Content(m_filename[p])' = Content(m_filename[p])
  BY <1>1 DEF Content, Spares
<1> QED  BY <1>1, <1>2, <1>3, <1>4, <1>5 DEF OwnInv, Spares

(***************************************************************************)
(* The program itself.                                                     *)
(***************************************************************************)
LEMMA OpenedUnwritten ==
  ASSUME TypeInv, NEW p \in Programs, NEW name \in {m_filename[p], TempName(p)},
         name \in FileNames, OwnInv(p), NEW q \in Programs \ {p}, m_out[q] # NoInode
  PROVE  Opened(name) # m_out[q]
<1>1. IF dir[name] # NoInode THEN Opened(name) = dir[name] ELSE Opened(name) \notin InUse
  BY OpenedFacts
<1>2. m_out[q] \in InUse
  BY DEF InUse
<1> QED  BY <1>1, <1>2 DEF OwnInv

LEMMA OwnOpenTemp ==
  ASSUME StateInv, NEW p \in Programs, OwnInv(p), OpenTemp(p)
  PROVE  OwnInv(p)'
<1>0. OptionsInv /\ TypeInv /\ InodesInv /\ StreamsInv
  BY DEF StateInv
<1> DEFINE o == Opened(TempName(p))
<1>1. /\ TempName(p) \in FileNames /\ m_filename[p] \in FileNames /\ TempName(p) # m_filename[p]
      /\ TempName(p)' = TempName(p) /\ m_filename' = m_filename
  BY <1>0, TempNames DEF OpenTemp, programVars, TempName
<1>2. o \in Inodes /\ o # NoInode /\ o # dir[m_filename[p]]
  BY <1>0, <1>1, OpenedFacts, OpenedApart
<1>3. \A q \in Programs \ {p} : m_out[q] # NoInode => m_out[q] # o
  BY <1>0, <1>1, OpenedUnwritten
<1> HIDE DEF o
<1>4. /\ dir'[TempName(p)] = o /\ dir'[m_filename[p]] = dir[m_filename[p]]
      /\ data'[o] = <<>> /\ \A i \in Inodes : i # o => data'[i] = data[i]
      /\ m_out'[p] = o /\ written'[p] = 0 /\ pc'[p] = "write" /\ published' = published
      /\ \A q \in Programs \ {p} : m_out'[q] = m_out[q]
  BY <1>0, <1>1, <1>2 DEF OpenTemp, TypeInv, o
<1>5. PICK s \in Nat : s = size'[p]
  BY <1>0, TypeStep DEF Step, TypeInv
<1>6. written'[p] <= size'[p] /\ data'[m_out'[p]] = Cells(p, version'[p], written'[p])
  <2>1. 0 <= s /\ 0 \in Nat
    OBVIOUS
  <2>2. written'[p] <= size'[p]
    BY <1>4, <1>5, <2>1
  <2>3. Cells(p, version'[p], 0) = <<>>
    BY <2>1, CellsFacts
  <2> QED  BY <1>4, <2>2, <2>3
<1>7. Content(m_filename[p])' = Content(m_filename[p])
  BY <1>0, <1>1, <1>2, <1>4 DEF Content, TypeInv
<1> QED  BY <1>1, <1>3, <1>4, <1>6, <1>7 DEF OwnInv

LEMMA OwnWrite ==
  ASSUME StateInv, NEW p \in Programs, OwnInv(p), Write(p)
  PROVE  OwnInv(p)'
<1>0. OptionsInv /\ TypeInv /\ InodesInv /\ StreamsInv
  BY DEF StateInv
<1>1. /\ TempName(p) \in FileNames /\ m_filename[p] \in FileNames /\ TempName(p) # m_filename[p]
      /\ TempName(p)' = TempName(p) /\ m_filename' = m_filename
  BY <1>0, TempNames DEF Write, programVars, TempName
<1>2. /\ pc[p] = "write" /\ m_out[p] = dir[TempName(p)] /\ m_out[p] # NoInode
      /\ m_out[p] \in Inodes /\ m_out[p] # dir[m_filename[p]]
      /\ data[m_out[p]] = Cells(p, version[p], written[p])
  BY <1>0, <1>1 DEF Write, OwnInv, StreamsInv, InodesInv, TypeInv
<1>3. /\ UNCHANGED <<pc, version, size, m_out, dir, published>>
      /\ written'[p] = written[p] + 1 /\ written[p] < size[p]
      /\ data'[m_out[p]] = WrittenAt(data[m_out[p]], written'[p], <<p, version[p]>>)
      /\ \A i \in Inodes : i # m_out[p] => data'[i] = data[i]
  BY <1>0, <1>2 DEF Write, TypeInv
<1>4. PICK n \in Nat, s \in Nat : n = written[p] /\ s = size[p]
  BY <1>0 DEF TypeInv
<1>5. written'[p] <= size'[p]
  <2>1. n + 1 <= s
    BY <1>3, <1>4
  <2> QED  BY <1>3, <1>4, <2>1
<1>6. data'[m_out[p]] = Cells(p, version[p], written'[p])
  <2>1. written'[p] = n + 1
    BY <1>3, <1>4
  <2>2. data'[m_out[p]] = WrittenAt(Cells(p, version[p], n), n + 1, <<p, version[p]>>)
    BY <1>2, <1>3, <1>4, <2>1
  <2> QED  BY <2>1, <2>2, CellsFacts
<1>7. Content(m_filename[p])' = Content(m_filename[p])
  BY <1>0, <1>1, <1>2, <1>3 DEF Content, TypeInv
<1> QED  BY <1>1, <1>2, <1>3, <1>5, <1>6, <1>7 DEF OwnInv

(* What has a name stays.                                                  *)
LEMMA NamedStays ==
  ASSUME TypeInv, Reclaim, NEW name \in FileNames, NEW i \in Inodes, dir'[name] = i
  PROVE  data'[i] = data[i]
<1>1. i \in InUse'
  BY DEF InUse
<1> QED  BY <1>1, ReclaimFacts

LEMMA OwnClose ==
  ASSUME StateInv, NEW p \in Programs, OwnInv(p), Close(p) \/ Die(p)
  PROVE  OwnInv(p)'
<1>0. OptionsInv /\ TypeInv /\ InodesInv /\ StreamsInv
  BY DEF StateInv
<1>1. /\ TempName(p) \in FileNames /\ m_filename[p] \in FileNames
      /\ TempName(p)' = TempName(p) /\ m_filename' = m_filename
  BY <1>0, TempNames DEF Close, Die, programVars, TempName
<1>2. /\ UNCHANGED <<version, size, dir, published>> /\ Reclaim
      /\ \A q \in Programs \ {p} : m_out'[q] = m_out[q]
  BY <1>0 DEF Close, Die, TypeInv
<1>3. \A name \in FileNames : dir[name] # NoInode => data'[dir[name]] = data[dir[name]]
  BY <1>0, <1>2, NamedStays DEF TypeInv
<1>4. Content(m_filename[p])' = Content(m_filename[p])
  BY <1>1, <1>2, <1>3 DEF Content
<1>5. CASE Close(p)
  <2>1. /\ pc[p] = "write" /\ written[p] = size[p] /\ pc'[p] = "rename"
    BY <1>0, <1>5 DEF Close, TypeInv
  <2>2. /\ dir[TempName(p)] # NoInode
        /\ data[dir[TempName(p)]] = Cells(p, version[p], size[p])
    BY <1>0, <2>1 DEF OwnInv, StreamsInv
  <2>3. data'[dir[TempName(p)]] = Cells(p, version[p], size[p])
    BY <1>1, <1>3, <2>2
  <2> QED  BY <1>1, <1>2, <1>4, <2>1, <2>2, <2>3 DEF OwnInv
<1>6. CASE Die(p)
  <2>1. pc'[p] = "dead"
    BY <1>0, <1>6 DEF Die, TypeInv
  <2> QED  BY <1>1, <1>2, <1>4, <2>1 DEF OwnInv
<1> QED  BY <1>5, <1>6

LEMMA OwnRename ==
  ASSUME StateInv, NEW p \in Programs, OwnInv(p), Rename(p)
  PROVE  OwnInv(p)'
<1>0. OptionsInv /\ TypeInv /\ InodesInv /\ StreamsInv
  BY DEF StateInv
<1>1. /\ TempName(p) \in FileNames /\ m_filename[p] \in FileNames /\ TempName(p) # m_filename[p]
      /\ TempName(p)' = TempName(p) /\ m_filename' = m_filename
  BY <1>0, TempNames DEF Rename, programVars, TempName
<1>2. /\ pc[p] = "rename" /\ dir[TempName(p)] # NoInode
      /\ data[dir[TempName(p)]] = Cells(p, version[p], size[p])
  BY DEF Rename, OwnInv
<1> DEFINE i == dir[TempName(p)]
<1>3. i \in Inodes
  BY <1>0, <1>1, <1>2 DEF TypeInv
<1>4. /\ dir'[m_filename[p]] = i /\ dir'[TempName(p)] = NoInode
      /\ published'[p] = Cells(p, version[p], size[p]) /\ pc'[p] = "idle"
      /\ m_out' = m_out /\ Reclaim
  BY <1>0, <1>1, <1>2 DEF Rename, TypeInv, Cells
<1>5. \A q \in Programs \ {p} : m_out[q] # NoInode => m_out[q] # i
  BY DEF OwnInv
<1>6. data'[i] = data[i]
  BY <1>0, <1>1, <1>3, <1>4, NamedStays
<1>7. Content(m_filename[p])' = published'[p]
  BY <1>1, <1>2, <1>4, <1>6 DEF Content
<1> QED  BY <1>1, <1>4, <1>5, <1>7 DEF OwnInv

LEMMA OwnEnd ==
  ASSUME StateInv, NEW p \in Programs, OwnInv(p), End(p)
  PROVE  OwnInv(p)'
<1>0. OptionsInv /\ TypeInv /\ InodesInv /\ StreamsInv
  BY DEF StateInv
<1> DEFINE o == Opened(m_filename[p])
<1>1. /\ TempName(p) \in FileNames /\ m_filename[p] \in FileNames /\ TempName(p) # m_filename[p]
      /\ TempName(p)' = TempName(p) /\ m_filename' = m_filename
  BY <1>0, TempNames DEF End, programVars, TempName
<1>2. /\ o \in Inodes /\ o # NoInode
      /\ IF dir[m_filename[p]] # NoInode THEN o = dir[m_filename[p]] ELSE o \notin InUse
  BY <1>0, <1>1, OpenedFacts
<1>3. \A q \in Programs \ {p} : m_out[q] # NoInode => m_out[q] # o
  BY <1>0, <1>1, OpenedUnwritten
<1>4. data[o] = published[p]
  BY <1>0, <1>2 DEF OwnInv, Content, InodesInv
<1> HIDE DEF o
<1>5. /\ dir'[m_filename[p]] = o /\ dir'[TempName(p)] = dir[TempName(p)]
      /\ data'[o] = Append(data[o], END) /\ published'[p] = Append(published[p], END)
      /\ pc'[p] = "done" /\ m_out' = m_out
  BY <1>0, <1>1, <1>2 DEF End, TypeInv, o
<1>6. Content(m_filename[p])' = published'[p]
  BY <1>1, <1>2, <1>4, <1>5 DEF Content
<1> QED  BY <1>1, <1>3, <1>5, <1>6 DEF OwnInv

LEMMA OwnRestart ==
  ASSUME StateInv, NEW p \in Programs, OwnInv(p), Restart(p)
  PROVE  OwnInv(p)'
<1>1. /\ pc'[p] = "idle"
      /\ UNCHANGED <<m_filename, live_first, m_out, dir, data, published>>
  BY DEF StateInv, TypeInv, Restart, programVars
<1> QED  BY <1>1 DEF OwnInv, Content, TempName

LEMMA ProgramsStart == Init => ProgramsInv
<1> SUFFICES ASSUME Init PROVE ProgramsInv
  OBVIOUS
<1>1. StateInv
  BY StateInit
<1>2. ASSUME NEW p \in Programs
      PROVE  OwnInv(p)
  <2>1. m_filename[p] \in FileNames
    BY <1>1, TempNames DEF StateInv
  <2> QED  BY <2>1 DEF Init, OwnInv, Content
<1> QED  BY <1>1, <1>2 DEF ProgramsInv

LEMMA ProgramsStep == ProgramsInv /\ [Next]_vars => ProgramsInv'
<1> SUFFICES ASSUME ProgramsInv, [Next]_vars PROVE ProgramsInv'
  OBVIOUS
<1>1. CASE UNCHANGED vars
  <2>1. UNCHANGED <<pc, m_filename, live_first, version, size, m_out, written, dir, data,
                    published>>
    BY <1>1 DEF vars, programVars
  <2>2. StateInv'
    BY <2>1 DEF ProgramsInv, StateInv, OptionsInv, TypeInv, InodesInv, StreamsInv, InUse
  <2>3. ASSUME NEW p \in Programs, LeftAlone(p)'
        PROVE  OwnInv(p)'
    <3>1. LeftAlone(p)
      BY <2>1, <2>3 DEF LeftAlone
    <3>2. OwnInv(p)
      BY <3>1 DEF ProgramsInv
    <3> QED  BY <2>1, <3>2 DEF OwnInv, Content, TempName
  <2> QED  BY <2>2, <2>3 DEF ProgramsInv
<1>2. ASSUME NEW q \in Programs, Step(q)
      PROVE  ProgramsInv'
  <2>1. StateInv /\ StateInv' /\ UNCHANGED <<m_filename, live_first>>
    BY <1>2, StateStep, OptionsStep DEF ProgramsInv
  <2>2. ASSUME NEW p \in Programs, LeftAlone(p)'
        PROVE  OwnInv(p)'
    <3>1. LeftAlone(p)
      BY <2>1, <2>2 DEF LeftAlone
    <3>2. OwnInv(p)
      BY <3>1 DEF ProgramsInv
    <3>3. CASE p # q
      BY <1>2, <2>1, <3>1, <3>2, <3>3, OtherStep
    <3>4. CASE p = q
      BY <1>2, <2>1, <3>2, <3>4, OwnOpenTemp, OwnWrite, OwnClose, OwnRename, OwnEnd,
         OwnRestart DEF Step
    <3> QED  BY <3>3, <3>4
  <2> QED  BY <2>1, <2>2 DEF ProgramsInv
<1> QED  BY <1>1, <1>2 DEF Next

(* The types, and that no two names ever lead to the same inode.           *)
THEOREM TypesAndNames == Spec => []TypeOK
<1>1. ProgramsInv => TypeOK
  BY DEF ProgramsInv, StateInv, TypeInv, States, InodesInv, TypeOK
<1> QED  BY <1>1, ProgramsStart, ProgramsStep, PTL DEF Spec

(* IndexFileLive.cpp:3-8 and 27-44: any number of programs may write their *)
(* indexes in one directory; one whose temporary file is its own publishes *)
(* exactly what it has written, and never fails to rename it.              *)
THEOREM IndexStaysOwn == Spec => []IndexIsOwn
<1>1. ProgramsInv => IndexIsOwn
  BY DEF ProgramsInv, OwnInv, IndexIsOwn
<1> QED  BY <1>1, ProgramsStart, ProgramsStep, PTL DEF Spec
=============================================================================
