------------------------- MODULE CryptoProxy_proofs -------------------------
(***************************************************************************)
(* Proofs about the encrypting stream, for blocks of any size and for      *)
(* segments of any length and number.                                      *)
(***************************************************************************)
EXTENDS CryptoProxy, SequenceTheorems, TLAPS

(***************************************************************************)
(* Sequences of which no type is known, and numbers of bytes.              *)
(***************************************************************************)
IsSeq(s) == \E S : s \in Seq(S)

LEMMA SeqFacts ==
  ASSUME NEW s, IsSeq(s)
  PROVE  Len(s) \in Nat /\ DOMAIN s = 1 .. Len(s)
BY DEF IsSeq

LEMMA AppendFacts ==
  ASSUME NEW s, IsSeq(s), NEW x
  PROVE  /\ IsSeq(Append(s, x)) /\ Len(Append(s, x)) = Len(s) + 1
         /\ \A k \in 1 .. Len(s) : Append(s, x)[k] = s[k]
         /\ Append(s, x)[Len(s) + 1] = x
<1>1. PICK S : s \in Seq(S)
  BY DEF IsSeq
<1> DEFINE T == S \cup {x}
<1>2. s \in Seq(T) /\ x \in T
  <2>1. \A k \in 1 .. Len(s) : s[k] \in T
    BY <1>1
  <2> QED  BY <1>1, <2>1
<1> HIDE DEF T
<1>3. Append(s, x) \in Seq(T)
  BY <1>2
<1> QED  BY <1>2, <1>3 DEF IsSeq

LEMMA NoElements == IsSeq(<<>>) /\ Len(<<>>) = 0
<1>1. <<>> \in Seq({})
  OBVIOUS
<1> QED  BY <1>1 DEF IsSeq

LEMMA SizeFacts == blockSize \in Nat \ {0}
BY CryptoAssumption

LEMMA BlockFacts ==
  ASSUME NEW n \in Nat
  PROVE  /\ blockSize * n \in Nat
         /\ blockSize * (n + 1) = blockSize * n + blockSize
         /\ blockSize * 0 = 0
BY SizeFacts

(* The bytes of a block are among those of a file of which it is a part.   *)
LEMMA WithinBlocks ==
  ASSUME NEW l \in Nat, NEW b \in 1 .. l, NEW j \in 1 .. blockSize
  PROVE  /\ blockSize * (b - 1) + j \in 1 .. blockSize * l
         /\ blockSize * (b - 1) \in Nat
<1>1. b - 1 \in Nat /\ l - b \in Nat /\ b \in Nat
  OBVIOUS
<1>2. blockSize * (b - 1) \in Nat /\ blockSize * b = blockSize * (b - 1) + blockSize
  <2>1. b - 1 + 1 = b
    OBVIOUS
  <2> QED  BY <1>1, <2>1, BlockFacts
<1>3. blockSize * l = blockSize * b + blockSize * (l - b) /\ blockSize * (l - b) \in Nat
  BY <1>1, SizeFacts
<1> QED  BY <1>1, <1>2, <1>3, SizeFacts

(* Byte number k is in block (k - 1) \div blockSize + 1.                   *)
LEMMA Division ==
  ASSUME NEW a \in Nat, NEW b \in Nat \ {0}
  PROVE  /\ a \div b \in Nat /\ a % b \in 0 .. b - 1
         /\ a = b * (a \div b) + (a % b)
<1>1. a \div b \in Nat /\ b * (a \div b) <= a /\ a < b * (a \div b) + b
  OBVIOUS
<1>2. a % b \in 0 .. b - 1
  OBVIOUS
<1>3. a % b = a - b * (a \div b)
  OBVIOUS
<1> QED  BY <1>1, <1>2, <1>3

LEMMA BlockOfByte ==
  ASSUME NEW l \in Nat, NEW k \in 1 .. blockSize * l
  PROVE  /\ (k - 1) \div blockSize + 1 \in 1 .. l
         /\ ((k - 1) % blockSize) + 1 \in 1 .. blockSize
         /\ blockSize * ((k - 1) \div blockSize) + (((k - 1) % blockSize) + 1) = k
<1>1. k - 1 \in Nat /\ k \in Nat /\ k <= blockSize * l /\ blockSize * l \in Nat
  BY BlockFacts
<1>2. PICK q \in Nat, r \in 0 .. blockSize - 1 :
        q = (k - 1) \div blockSize /\ r = (k - 1) % blockSize /\ k - 1 = blockSize * q + r
  BY <1>1, SizeFacts, Division
<1>3. q < l
  <2> SUFFICES ASSUME q >= l PROVE FALSE
    OBVIOUS
  <2>1. blockSize * q = blockSize * l + blockSize * (q - l) /\ blockSize * (q - l) \in Nat
    BY SizeFacts
  <2> QED  BY <1>1, <1>2, <2>1
<1> QED  BY <1>1, <1>2, <1>3, SizeFacts

(***************************************************************************)
(* Chains of blocks that hold the beginning of a stream of bytes.          *)
(***************************************************************************)
Chained(blocks, n) == \A b \in 1 .. Len(blocks) : Opens(blocks, n, b)

Holds(blocks, s) ==
  \A b \in 1 .. Len(blocks), j \in 1 .. blockSize :
    blocks[b].plain[j] = s[blockSize * (b - 1) + j]

(* What the next block is chained to.                                      *)
Last(blocks, n) == IF Len(blocks) = 0 THEN IvOf(n) ELSE blocks[Len(blocks)]

LEMMA NoBlocks ==
  ASSUME NEW n, NEW s
  PROVE  Chained(<<>>, n) /\ Holds(<<>>, s) /\ Last(<<>>, n) = IvOf(n)
BY NoElements DEF Chained, Holds, Last

(* A block that holds the next bytes of the stream.                        *)
Continues(blocks, plain, s) ==
  \A j \in 1 .. blockSize : plain[j] = s[blockSize * Len(blocks) + j]

(* The chain with one more block.                                          *)
Longer(blocks, n, plain) == Append(blocks, encrypt(Last(blocks, n), plain))

LEMMA OneMore ==
  ASSUME NEW blocks, NEW n, NEW s, NEW plain, IsSeq(blocks), Chained(blocks, n), Holds(blocks, s),
         Continues(blocks, plain, s)
  PROVE  /\ IsSeq(Longer(blocks, n, plain)) /\ Len(Longer(blocks, n, plain)) = Len(blocks) + 1
         /\ Chained(Longer(blocks, n, plain), n) /\ Holds(Longer(blocks, n, plain), s)
         /\ Last(Longer(blocks, n, plain), n) = encrypt(Last(blocks, n), plain)
<1> DEFINE x == encrypt(Last(blocks, n), plain)
           more == Append(blocks, x)
<1>0. Longer(blocks, n, plain) = more
  BY DEF Longer
<1>1. x.prev = Last(blocks, n) /\ x.plain = plain
  BY DEF encrypt
<1> HIDE DEF x
<1>2. /\ IsSeq(more) /\ Len(more) = Len(blocks) + 1 /\ Len(blocks) \in Nat
      /\ \A k \in 1 .. Len(blocks) : more[k] = blocks[k]
      /\ more[Len(blocks) + 1] = x
  BY AppendFacts, SeqFacts
<1> HIDE DEF more
<1>3. Chained(more, n)
  <2> SUFFICES ASSUME NEW b \in 1 .. Len(blocks) + 1 PROVE Opens(more, n, b)
    BY <1>2 DEF Chained
  <2>1. CASE b <= Len(blocks)
    <3>1. b \in 1 .. Len(blocks) /\ (b # 1 => b - 1 \in 1 .. Len(blocks))
      BY <1>2, <2>1
    <3> QED  BY <1>2, <3>1 DEF Chained, Opens
  <2>2. CASE b = Len(blocks) + 1
    <3>1. b # 1 => Len(blocks) # 0 /\ b - 1 = Len(blocks) /\ b - 1 \in 1 .. Len(blocks)
      BY <1>2, <2>2
    <3>2. b = 1 => Len(blocks) = 0
      BY <1>2, <2>2
    <3> QED  BY <1>1, <1>2, <2>2, <3>1, <3>2 DEF Last, Opens
  <2> QED  BY <1>2, <2>1, <2>2
<1>4. Holds(more, s)
  <2> SUFFICES ASSUME NEW b \in 1 .. Len(blocks) + 1, NEW j \in 1 .. blockSize
               PROVE  more[b].plain[j] = s[blockSize * (b - 1) + j]
    BY <1>2 DEF Holds
  <2>1. CASE b \in 1 .. Len(blocks)
    BY <1>2, <2>1 DEF Holds
  <2>2. CASE b = Len(blocks) + 1
    <3>1. b - 1 = Len(blocks)
      BY <1>2, <2>2
    <3> QED  BY <1>1, <1>2, <2>2, <3>1 DEF Continues
  <2> QED  BY <1>2, <2>1, <2>2
<1>5. Last(more, n) = x
  BY <1>2 DEF Last
<1> QED  BY <1>0, <1>2, <1>3, <1>4, <1>5 DEF x

LEMMA SameStream ==
  ASSUME NEW blocks, NEW s, NEW t, IsSeq(blocks), Holds(blocks, s),
         \A k \in 1 .. blockSize * Len(blocks) : t[k] = s[k]
  PROVE  Holds(blocks, t)
<1>1. Len(blocks) \in Nat
  BY SeqFacts
<1>2. \A b \in 1 .. Len(blocks), j \in 1 .. blockSize :
        blockSize * (b - 1) + j \in 1 .. blockSize * Len(blocks)
  BY <1>1, WithinBlocks
<1> QED  BY <1>2 DEF Holds

LEMMA PlainFacts ==
  ASSUME NEW blocks, NEW s, IsSeq(blocks), Holds(blocks, s)
  PROVE  /\ \A k \in 1 .. blockSize * Len(blocks) : Plain(blocks)[k] = s[k]
         /\ DOMAIN Plain(blocks) = 1 .. blockSize * Len(blocks)
         /\ IsSeq(Plain(blocks)) /\ Len(Plain(blocks)) = blockSize * Len(blocks)
<1>1. Len(blocks) \in Nat /\ blockSize * Len(blocks) \in Nat
  BY SeqFacts, BlockFacts
<1>2. ASSUME NEW k \in 1 .. blockSize * Len(blocks)
      PROVE  Plain(blocks)[k] = s[k]
  <2>1. PICK b \in 1 .. Len(blocks), j \in 1 .. blockSize :
          /\ b = (k - 1) \div blockSize + 1 /\ j = ((k - 1) % blockSize) + 1
          /\ blockSize * ((k - 1) \div blockSize) + j = k
    BY <1>1, BlockOfByte
  <2>2. Plain(blocks)[k] = blocks[b].plain[j]
    BY <2>1 DEF Plain
  <2>3. b - 1 = (k - 1) \div blockSize
    <3>1. k - 1 \in Nat /\ blockSize \in Nat \ {0}
      BY <1>1, SizeFacts
    <3>2. (k - 1) \div blockSize \in Nat
      BY <3>1, Division
    <3> QED  BY <2>1, <3>2
  <2>4. blocks[b].plain[j] = s[blockSize * (b - 1) + j]
    BY DEF Holds
  <2> QED  BY <2>1, <2>2, <2>3, <2>4
<1>3. DOMAIN Plain(blocks) = 1 .. blockSize * Len(blocks)
  BY DEF Plain
<1>4. Plain(blocks) \in Seq({s[k] : k \in 1 .. blockSize * Len(blocks)})
  <2>1. Plain(blocks) \in [1 .. blockSize * Len(blocks) -> {s[k] : k \in 1 .. blockSize * Len(blocks)}]
    <3>1. \A k \in 1 .. blockSize * Len(blocks) :
            Plain(blocks)[k] \in {s[m] : m \in 1 .. blockSize * Len(blocks)}
      BY <1>2
    <3> QED  BY <3>1 DEF Plain
  <2> QED  BY <1>1, <2>1
<1>5. Len(Plain(blocks)) = blockSize * Len(blocks)
  BY <1>1, <1>3, <1>4
<1> QED  BY <1>2, <1>3, <1>4, <1>5 DEF IsSeq

(***************************************************************************)
(* The invariant: what has gone to the cipher is the beginning of what the *)
(* module wrote and of the padding, in whole blocks in the file and the    *)
(* rest in m_buf, unless a write has failed.                               *)
(***************************************************************************)
Fed == Len(given) + i
Stream == [k \in 1 .. Fed |-> IF k <= Len(given) THEN given[k] ELSE pad]

ProxyTypes ==
  /\ pc \in {"write", "pad", "closed"} /\ proxy_bad \in BOOLEAN
  /\ m_sequence \in Nat \ {0} /\ pad \in Nat /\ i \in Nat
  /\ IsSeq(m_buf) /\ IsSeq(file) /\ IsSeq(given) /\ IsSeq(closed)
  /\ Len(m_buf) < blockSize
  /\ pc = "write" => i = 0
  /\ Len(closed) = IF pc = "closed" THEN m_sequence ELSE m_sequence - 1

FileInv ==
  /\ Chained(file, m_sequence)
  /\ Holds(file, Stream)
  /\ blockSize * Len(file) <= Fed

BufferInv ==
  proxy_bad = FALSE =>
    /\ blockSize * Len(file) + Len(m_buf) = Fed
    /\ \A j \in 1 .. Len(m_buf) : m_buf[j] = Stream[blockSize * Len(file) + j]
    /\ m_iv = Last(file, m_sequence)

PadInv ==
  pc = "pad" /\ proxy_bad = FALSE =>
    /\ pad \in 1 .. blockSize
    /\ \/ i < pad /\ Len(m_buf) + pad - i = blockSize
       \/ i = pad /\ Len(m_buf) = 0

(* What a player makes of a file that was closed without a failure.        *)
Decrypts(c, n) ==
  LET bytes == Plain(c.file)
  IN /\ \A k \in 1 .. Len(c.file) : Opens(c.file, n, k)
     /\ WellPadded(bytes)
     /\ Unpadded(bytes) = c.given

ClosedInv ==
  \A n \in 1 .. Len(closed) : ~closed[n].bad => Decrypts(closed[n], n)

ProxyInv == ProxyTypes /\ FileInv /\ BufferInv /\ PadInv /\ ClosedInv

LEMMA FreshObjects ==
  ASSUME m_buf = <<>>, file = <<>>, given = <<>>, i = 0, m_sequence \in Nat,
         m_iv = IvOf(m_sequence)
  PROVE  FileInv /\ BufferInv
<1>1. Len(file) = 0 /\ Len(m_buf) = 0 /\ Len(given) = 0 /\ blockSize * 0 = 0
  BY NoElements, SizeFacts
<1>2. Chained(file, m_sequence) /\ Holds(file, Stream) /\ m_iv = Last(file, m_sequence)
  BY NoBlocks
<1>3. blockSize * Len(file) <= Fed /\ blockSize * Len(file) + Len(m_buf) = Fed
  BY <1>1 DEF Fed
<1>4. \A j \in 1 .. Len(m_buf) : m_buf[j] = Stream[blockSize * Len(file) + j]
  BY <1>1
<1> QED  BY <1>2, <1>3, <1>4 DEF FileInv, BufferInv

LEMMA ProxyStart == ProxyInit => ProxyInv
<1> SUFFICES ASSUME ProxyInit PROVE ProxyInv
  OBVIOUS
<1>1. FileInv /\ BufferInv
  BY FreshObjects DEF ProxyInit
<1>2. ProxyTypes
  <2>1. IsSeq(m_buf) /\ IsSeq(file) /\ IsSeq(given) /\ IsSeq(closed)
    BY NoElements DEF ProxyInit
  <2>2. Len(m_buf) < blockSize /\ Len(closed) = m_sequence - 1
    BY NoElements, SizeFacts DEF ProxyInit
  <2>3. proxy_bad \in BOOLEAN
    BY Zenon DEF ProxyInit
  <2> QED  BY <2>1, <2>2, <2>3 DEF ProxyInit, ProxyTypes
<1>3. PadInv
  BY DEF ProxyInit, PadInv
<1>4. ClosedInv
  BY NoElements DEF ProxyInit, ClosedInv
<1> QED  BY <1>1, <1>2, <1>3, <1>4 DEF ProxyInv

LEMMA OverflowBad ==
  ASSUME proxy_bad \in BOOLEAN, NEW c, NEW fails \in BOOLEAN, overflow(c, fails)
  PROVE  proxy_bad' \in BOOLEAN
<1>1. proxy_bad' = proxy_bad \/ proxy_bad' = fails
  BY Zenon DEF overflow
<1>2. CASE proxy_bad' = proxy_bad
  BY <1>2, Zenon
<1>3. CASE proxy_bad' = fails
  BY <1>3, Zenon
<1> QED  BY <1>1, <1>2, <1>3

(* overflow(), where s is the stream with the byte c at its end.           *)
LEMMA Overflow ==
  ASSUME ProxyTypes, FileInv, BufferInv, proxy_bad = FALSE,
         NEW c, NEW fails \in BOOLEAN, overflow(c, fails),
         NEW s, \A k \in 1 .. Fed : s[k] = Stream[k], s[Fed + 1] = c
  PROVE  /\ IsSeq(m_buf') /\ IsSeq(file') /\ Len(m_buf') < blockSize
         /\ Chained(file', m_sequence) /\ Holds(file', s)
         /\ blockSize * Len(file') <= Fed + 1
         /\ proxy_bad' = FALSE =>
              /\ blockSize * Len(file') + Len(m_buf') = Fed + 1
              /\ \A j \in 1 .. Len(m_buf') : m_buf'[j] = s[blockSize * Len(file') + j]
              /\ m_iv' = Last(file', m_sequence)
              /\ Len(m_buf') = IF Len(m_buf) + 1 = blockSize THEN 0 ELSE Len(m_buf) + 1
<1> DEFINE block == Append(m_buf, c)
<1>1. /\ Len(m_buf) \in Nat /\ Len(file) \in Nat /\ Fed \in Nat /\ blockSize * Len(file) \in Nat
      /\ Len(m_buf) < blockSize /\ IsSeq(m_buf) /\ IsSeq(file)
  BY SeqFacts, BlockFacts DEF ProxyTypes, Fed
<1>2. /\ blockSize * Len(file) + Len(m_buf) = Fed
      /\ \A j \in 1 .. Len(m_buf) : m_buf[j] = Stream[blockSize * Len(file) + j]
      /\ m_iv = Last(file, m_sequence)
  BY DEF BufferInv
<1>3. /\ IsSeq(block) /\ Len(block) = Len(m_buf) + 1
      /\ \A j \in 1 .. Len(m_buf) : block[j] = m_buf[j]
      /\ block[Len(m_buf) + 1] = c
  BY <1>1, AppendFacts
<1>4. IF Len(block) < blockSize
        THEN ~fails /\ m_buf' = block /\ m_iv' = m_iv /\ proxy_bad' = proxy_bad /\ file' = file
        ELSE /\ m_buf' = <<>> /\ m_iv' = encrypt(m_iv, block) /\ proxy_bad' = fails
             /\ file' = IF fails THEN file ELSE Append(file, encrypt(m_iv, block))
  BY DEF overflow
<1> HIDE DEF block
<1>5. \A j \in 1 .. Len(block) : block[j] = s[blockSize * Len(file) + j]
  <2> SUFFICES ASSUME NEW j \in 1 .. Len(m_buf) + 1
               PROVE  block[j] = s[blockSize * Len(file) + j]
    BY <1>3
  <2>1. CASE j <= Len(m_buf)
    <3>1. blockSize * Len(file) + j \in 1 .. Fed /\ j \in 1 .. Len(m_buf)
      BY <1>1, <1>2, <2>1
    <3> QED  BY <1>2, <1>3, <3>1
  <2>2. CASE j = Len(m_buf) + 1
    <3>1. blockSize * Len(file) + j = Fed + 1
      BY <1>1, <1>2, <2>2
    <3> QED  BY <1>3, <2>2, <3>1
  <2> QED  BY <1>1, <2>1, <2>2
<1>6. Chained(file, m_sequence) /\ Holds(file, s)
  <2>1. \A k \in 1 .. blockSize * Len(file) : k \in 1 .. Fed
    BY <1>1, <1>2
  <2> QED  BY <1>1, <2>1, SameStream DEF FileInv
<1>7. CASE Len(block) < blockSize
  <2>1. m_buf' = block /\ m_iv' = m_iv /\ proxy_bad' = FALSE /\ file' = file
    BY <1>4, <1>7
  <2>2. blockSize * Len(file) + (Len(m_buf) + 1) = Fed + 1
    BY <1>1, <1>2
  <2>3. blockSize * Len(file) <= Fed + 1
    BY <1>1, <1>2
  <2>4. /\ IsSeq(m_buf') /\ IsSeq(file') /\ Len(m_buf') < blockSize
        /\ Chained(file', m_sequence) /\ Holds(file', s)
        /\ blockSize * Len(file') <= Fed + 1
    BY <1>1, <1>3, <1>6, <1>7, <2>1, <2>3
  <2>5. /\ blockSize * Len(file') + Len(m_buf') = Fed + 1
        /\ \A j \in 1 .. Len(m_buf') : m_buf'[j] = s[blockSize * Len(file') + j]
        /\ m_iv' = Last(file', m_sequence)
        /\ Len(m_buf') = Len(m_buf) + 1 /\ Len(m_buf) + 1 # blockSize
    BY <1>2, <1>3, <1>5, <1>7, <2>1, <2>2
  <2> QED  BY <2>4, <2>5
<1>8. CASE ~(Len(block) < blockSize)
  <2>1. Len(block) = blockSize /\ Len(m_buf) + 1 = blockSize
    BY <1>1, <1>3, <1>8, SizeFacts
  <2>2. /\ m_buf' = <<>> /\ m_iv' = encrypt(m_iv, block) /\ proxy_bad' = fails
        /\ file' = IF fails THEN file ELSE Append(file, encrypt(m_iv, block))
    BY <1>4, <1>8
  <2>3. IsSeq(m_buf') /\ Len(m_buf') = 0 /\ Len(m_buf') < blockSize
    BY <2>2, NoElements, SizeFacts
  <2>4. CASE fails
    <3>0. proxy_bad' = TRUE
      BY <2>2, <2>4, Zenon
    <3>1. file' = file
      BY <2>2, <2>4
    <3>2. blockSize * Len(file) <= Fed + 1
      BY <1>1, <1>2
    <3> QED  BY <1>1, <1>6, <2>3, <3>0, <3>1, <3>2
  <2>5. CASE ~fails
    <3>0. proxy_bad' = FALSE
      <4>1. fails = FALSE
        BY <2>5
      <4> QED  BY <2>2, <4>1
    <3>1. file' = Append(file, encrypt(Last(file, m_sequence), block))
      BY <1>2, <2>2, <2>5
    <3>2. Continues(file, block, s)
      BY <1>5, <2>1 DEF Continues
    <3>3. /\ IsSeq(file') /\ Len(file') = Len(file) + 1 /\ Chained(file', m_sequence)
          /\ Holds(file', s) /\ Last(file', m_sequence) = encrypt(m_iv, block)
      <4>0. IsSeq(file) /\ Chained(file, m_sequence) /\ Holds(file, s)
        BY <1>1, <1>6
      <4>1. file' = Longer(file, m_sequence, block)
        BY <3>1 DEF Longer
      <4>2. /\ IsSeq(Longer(file, m_sequence, block))
            /\ Len(Longer(file, m_sequence, block)) = Len(file) + 1
            /\ Chained(Longer(file, m_sequence, block), m_sequence)
            /\ Holds(Longer(file, m_sequence, block), s)
            /\ Last(Longer(file, m_sequence, block), m_sequence)
                 = encrypt(Last(file, m_sequence), block)
        BY <3>2, <4>0, OneMore
      <4> QED  BY <1>2, <4>1, <4>2
    <3>4. blockSize * Len(file') = blockSize * Len(file) + blockSize
      BY <1>1, <3>3, BlockFacts
    <3>5. blockSize * Len(file') = Fed + 1
      BY <1>1, <1>2, <2>1, <3>4, SizeFacts
    <3>6. blockSize * Len(file') + Len(m_buf') = Fed + 1 /\ blockSize * Len(file') <= Fed + 1
      BY <1>1, <2>3, <3>5
    <3> QED  BY <2>1, <2>2, <2>3, <3>0, <3>1, <3>3, <3>6
  <2> QED  BY <2>4, <2>5
<1> QED  BY <1>7, <1>8

(* The segments that are closed stay as they are.                          *)
LEMMA ClosedStay == ClosedInv /\ closed' = closed => ClosedInv'
BY DEF ClosedInv

LEMMA WriteByteStep ==
  ASSUME ProxyInv, NEW c \in Bytes, NEW fails \in BOOLEAN, WriteByte(c, fails)
  PROVE  ProxyInv'
<1> DEFINE s == [k \in 1 .. Fed + 1 |-> IF k <= Len(given) THEN given[k] ELSE c]
<1>1. /\ pc = "write" /\ i = 0 /\ given' = Append(given, c) /\ IsSeq(given)
      /\ UNCHANGED <<m_sequence, pad, i, pc, closed>> /\ Len(given) \in Nat
      /\ pad \in Nat /\ m_sequence \in Nat \ {0}
  BY SeqFacts DEF WriteByte, ProxyInv, ProxyTypes
<1>2. /\ IsSeq(given') /\ Len(given') = Len(given) + 1
      /\ \A k \in 1 .. Len(given) : given'[k] = given[k]
      /\ given'[Len(given) + 1] = c
  BY <1>1, AppendFacts
<1>3. Fed = Len(given) /\ Fed' = Fed + 1 /\ Fed \in Nat
  BY <1>1, <1>2 DEF Fed
<1>4. Stream' = s
  <2>1. \A k \in 1 .. Fed + 1 : (IF k <= Len(given') THEN given'[k] ELSE pad') = s[k]
    BY <1>2, <1>3
  <2> QED  BY <1>3, <2>1 DEF Stream
<1>5. (\A k \in 1 .. Fed : s[k] = Stream[k]) /\ s[Fed + 1] = c
  BY <1>3 DEF Stream
<1> HIDE DEF s
<1>6. ClosedInv' /\ PadInv'
  BY <1>1, ClosedStay DEF ProxyInv, PadInv
<1>7. CASE proxy_bad
  <2>1. UNCHANGED <<m_buf, m_iv, file>> /\ proxy_bad' = TRUE
    BY <1>7 DEF WriteByte
  <2>2. ProxyTypes'
    BY <1>1, <1>2, <2>1 DEF ProxyInv, ProxyTypes
  <2>3. IsSeq(file) /\ blockSize * Len(file) <= Fed /\ blockSize * Len(file) \in Nat
    <3>1. IsSeq(file) /\ Len(file) \in Nat
      BY SeqFacts DEF ProxyInv, ProxyTypes
    <3> QED  BY <3>1, BlockFacts DEF ProxyInv, FileInv
  <2>4. Holds(file, s)
    <3>1. \A k \in 1 .. blockSize * Len(file) : s[k] = Stream[k]
      BY <1>3, <1>5, <2>3
    <3> QED  BY <2>3, <3>1, SameStream DEF ProxyInv, FileInv
  <2>5. FileInv'
    BY <1>1, <1>3, <1>4, <2>1, <2>3, <2>4 DEF ProxyInv, FileInv, Chained, Holds
  <2>6. BufferInv'
    BY <2>1 DEF BufferInv
  <2> QED  BY <1>6, <2>2, <2>5, <2>6 DEF ProxyInv
<1>8. CASE ~proxy_bad
  <2>1. proxy_bad = FALSE /\ overflow(c, fails)
    BY <1>8 DEF WriteByte, ProxyInv, ProxyTypes
  <2>2. ProxyTypes /\ FileInv /\ BufferInv
    BY DEF ProxyInv
  <2>3. /\ IsSeq(m_buf') /\ IsSeq(file') /\ Len(m_buf') < blockSize
        /\ Chained(file', m_sequence) /\ Holds(file', s)
        /\ blockSize * Len(file') <= Fed + 1
        /\ proxy_bad' = FALSE =>
             /\ blockSize * Len(file') + Len(m_buf') = Fed + 1
             /\ \A j \in 1 .. Len(m_buf') : m_buf'[j] = s[blockSize * Len(file') + j]
             /\ m_iv' = Last(file', m_sequence)
    BY ZenonT(30), <1>5, <2>1, <2>2, Overflow
  <2>4. proxy_bad' \in BOOLEAN
    <3>1. proxy_bad \in BOOLEAN
      BY <2>2 DEF ProxyTypes
    <3> QED  BY <2>1, <3>1, OverflowBad
  <2>5. ProxyTypes'
    BY <1>1, <1>2, <2>2, <2>3, <2>4 DEF ProxyTypes
  <2>6. FileInv'
    BY <1>1, <1>3, <1>4, <2>3 DEF FileInv, Chained, Holds
  <2>7. BufferInv'
    BY <1>1, <1>3, <1>4, <2>3 DEF BufferInv, Last
  <2> QED  BY <1>6, <2>5, <2>6, <2>7 DEF ProxyInv
<1> QED  BY <1>7, <1>8

LEMMA StartSyncStep ==
  ASSUME ProxyInv, StartSync
  PROVE  ProxyInv'
<1>1. /\ pc = "write" /\ i = 0 /\ i' = 0 /\ pad' = blockSize - Len(m_buf) /\ pc' = "pad"
      /\ ~proxy_bad
      /\ UNCHANGED <<m_sequence, m_buf, m_iv, proxy_bad, file, given, closed>>
  BY DEF StartSync, ProxyInv, ProxyTypes, m_nbuf
<1>2. Len(m_buf) \in Nat /\ Len(given) \in Nat /\ pad' \in 1 .. blockSize
  BY <1>1, SeqFacts, SizeFacts DEF ProxyInv, ProxyTypes
<1>3. Fed = Len(given) /\ Fed' = Fed /\ Fed \in Nat
  BY <1>1, <1>2 DEF Fed
<1>4. Stream' = Stream
  BY <1>1, <1>2, <1>3 DEF Stream
<1>5. ProxyTypes'
  BY <1>1, <1>2 DEF ProxyInv, ProxyTypes
<1>6. FileInv'
  BY <1>1, <1>3, <1>4 DEF ProxyInv, FileInv, Chained, Holds
<1>7. BufferInv'
  BY <1>1, <1>3, <1>4 DEF ProxyInv, BufferInv, Last
<1>8. PadInv'
  BY <1>1, <1>2, SizeFacts DEF PadInv
<1> QED  BY <1>1, <1>5, <1>6, <1>7, <1>8, ClosedStay DEF ProxyInv

LEMMA PadByteStep ==
  ASSUME ProxyInv, NEW fails \in BOOLEAN, PadByte(fails)
  PROVE  ProxyInv'
<1> DEFINE s == [k \in 1 .. Fed + 1 |-> IF k <= Len(given) THEN given[k] ELSE pad]
<1>1. /\ pc = "pad" /\ i < pad /\ i' = i + 1 /\ overflow(pad, fails)
      /\ UNCHANGED <<m_sequence, pad, given, pc, closed>> /\ Len(given) \in Nat
      /\ pad \in Nat /\ i \in Nat /\ m_sequence \in Nat \ {0} /\ Len(m_buf) \in Nat
  BY SeqFacts DEF PadByte, ProxyInv, ProxyTypes
<1>2. ~proxy_bad
  BY DEF PadByte
<1>b. proxy_bad = FALSE /\ ProxyTypes /\ FileInv /\ BufferInv
  <2>1. ProxyTypes /\ FileInv /\ BufferInv
    BY DEF ProxyInv
  <2>2. proxy_bad = FALSE
    BY <1>2, <2>1, Zenon DEF ProxyTypes
  <2> QED  BY <2>1, <2>2
<1>3. Fed' = Fed + 1 /\ Fed \in Nat /\ Fed >= Len(given)
  BY <1>1 DEF Fed
<1>4. Stream' = s
  BY <1>1, <1>3 DEF Stream
<1>5. (\A k \in 1 .. Fed : s[k] = Stream[k]) /\ s[Fed + 1] = pad
  BY <1>1, <1>3 DEF Stream
<1> HIDE DEF s
<1>6. /\ IsSeq(m_buf') /\ IsSeq(file') /\ Len(m_buf') < blockSize
      /\ Chained(file', m_sequence) /\ Holds(file', s)
      /\ blockSize * Len(file') <= Fed + 1
      /\ proxy_bad' = FALSE =>
           /\ blockSize * Len(file') + Len(m_buf') = Fed + 1
           /\ \A j \in 1 .. Len(m_buf') : m_buf'[j] = s[blockSize * Len(file') + j]
           /\ m_iv' = Last(file', m_sequence)
           /\ Len(m_buf') = IF Len(m_buf) + 1 = blockSize THEN 0 ELSE Len(m_buf) + 1
  BY <1>1, <1>5, <1>b, Overflow
<1>7. proxy_bad' \in BOOLEAN
  <2>1. proxy_bad \in BOOLEAN
    BY <1>b DEF ProxyTypes
  <2> QED  BY <1>1, <2>1, OverflowBad
<1>8. ProxyTypes'
  BY <1>1, <1>6, <1>7, <1>b DEF ProxyTypes
<1>9. FileInv'
  BY <1>1, <1>3, <1>4, <1>6 DEF FileInv, Chained, Holds
<1>10. BufferInv'
  BY <1>1, <1>3, <1>4, <1>6 DEF BufferInv, Last
<1>11. PadInv'
  <2>1. pad \in 1 .. blockSize /\ i < pad /\ Len(m_buf) + pad - i = blockSize
    BY <1>1, <1>b DEF ProxyInv, PadInv
  <2> SUFFICES ASSUME proxy_bad' = FALSE
               PROVE  \/ i' < pad' /\ Len(m_buf') + pad' - i' = blockSize
                      \/ i' = pad' /\ Len(m_buf') = 0
    BY <1>1, <2>1 DEF PadInv
  <2>2. Len(m_buf') = IF Len(m_buf) + 1 = blockSize THEN 0 ELSE Len(m_buf) + 1
    BY <1>6
  <2>3. pad' = pad /\ i' = i + 1
    BY <1>1
  <2>4. CASE Len(m_buf) + 1 = blockSize
    BY <1>1, <2>1, <2>2, <2>3, <2>4
  <2>5. CASE Len(m_buf) + 1 # blockSize
    BY <1>1, <2>1, <2>2, <2>3, <2>5, SizeFacts
  <2> QED  BY <2>4, <2>5
<1> QED  BY <1>1, <1>8, <1>9, <1>10, <1>11, ClosedStay DEF ProxyInv

(***************************************************************************)
(* Closing a file.  A file that went well holds the given bytes and pad    *)
(* bytes, each of them equal to pad, in whole blocks.                      *)
(***************************************************************************)
(* The padding tells its own length, so what the module wrote comes back.  *)
LEMMA PaddingComesOff ==
  ASSUME NEW bytes, NEW u, NEW p \in 1 .. blockSize, IsSeq(bytes), IsSeq(u),
         Len(bytes) = Len(u) + p,
         \A k \in 1 .. Len(bytes) : bytes[k] = IF k <= Len(u) THEN u[k] ELSE p
  PROVE  WellPadded(bytes) /\ Unpadded(bytes) = u
<1>1. Len(u) \in Nat /\ Len(bytes) \in Nat /\ p \in Nat /\ p >= 1
  BY SeqFacts, SizeFacts
<1>2. bytes[Len(bytes)] = p
  BY <1>1
<1>3. WellPadded(bytes)
  <2>1. bytes # <<>>
    BY <1>1, NoElements
  <2>2. \A k \in Len(bytes) - p + 1 .. Len(bytes) : bytes[k] = p
    BY <1>1
  <2> QED  BY <1>2, <2>1, <2>2 DEF WellPadded
<1>4. Unpadded(bytes) = SubSeq(bytes, 1, Len(u))
  BY <1>1, <1>2 DEF Unpadded
<1>5. PICK S : u \in Seq(S)
  BY DEF IsSeq
<1>6. \A k \in 1 .. Len(u) : bytes[k] = u[k] /\ u[k] \in S
  BY <1>1, <1>5
<1>7. /\ SubSeq(bytes, 1, Len(u)) \in Seq(S)
      /\ Len(SubSeq(bytes, 1, Len(u))) = IF 1 <= Len(u) THEN Len(u) - 1 + 1 ELSE 0
      /\ \A k \in 1 .. Len(u) - 1 + 1 : SubSeq(bytes, 1, Len(u))[k] = bytes[1 + k - 1]
  BY <1>1, <1>6, SubSeqProperties
<1>8. /\ Len(SubSeq(bytes, 1, Len(u))) = Len(u)
      /\ \A k \in 1 .. Len(u) : SubSeq(bytes, 1, Len(u))[k] = u[k]
  BY <1>1, <1>6, <1>7
<1>9. SubSeq(bytes, 1, Len(u)) = u
  BY <1>5, <1>7, <1>8, SeqEqual
<1> QED  BY <1>3, <1>4, <1>9

LEMMA GoodFile ==
  ASSUME ProxyTypes, FileInv, BufferInv, PadInv, pc = "pad", i = pad, proxy_bad = FALSE,
         NEW c, c.file = file, c.given = given
  PROVE  Decrypts(c, m_sequence)
<1>1. Len(given) \in Nat /\ IsSeq(file) /\ IsSeq(given) /\ Len(m_buf) = 0 /\ pad \in 1 .. blockSize
  BY SeqFacts DEF ProxyTypes, PadInv
<1>2. Fed = Len(given) + pad /\ blockSize * Len(file) = Fed
  <2>1. blockSize * Len(file) + Len(m_buf) = Fed /\ blockSize * Len(file) \in Nat
    <3>1. Len(file) \in Nat
      BY <1>1, SeqFacts
    <3> QED  BY <3>1, BlockFacts DEF BufferInv
  <2> QED  BY <1>1, <2>1 DEF Fed
<1>3. Chained(file, m_sequence) /\ Holds(file, Stream)
  BY DEF FileInv
<1>4. /\ \A k \in 1 .. blockSize * Len(file) : Plain(file)[k] = Stream[k]
      /\ IsSeq(Plain(file)) /\ Len(Plain(file)) = blockSize * Len(file)
  BY <1>1, <1>3, PlainFacts
<1>5. /\ Len(Plain(file)) = Len(given) + pad
      /\ \A k \in 1 .. Len(Plain(file)) :
           Plain(file)[k] = IF k <= Len(given) THEN given[k] ELSE pad
  BY <1>2, <1>4 DEF Stream
<1>6. WellPadded(Plain(file)) /\ Unpadded(Plain(file)) = given
  BY <1>1, <1>4, <1>5, PaddingComesOff
<1> QED  BY <1>3, <1>6 DEF Decrypts, Chained

LEMMA CloseStep ==
  ASSUME ProxyInv, Close
  PROVE  ProxyInv'
<1> DEFINE c == [file |-> file, given |-> given, bad |-> proxy_bad]
<1>1. /\ closed' = Append(closed, c) /\ pc' = "closed"
      /\ UNCHANGED <<m_sequence, m_buf, m_iv, pad, i, proxy_bad, file, given>>
      /\ \/ pc = "pad" /\ (i = pad \/ proxy_bad)
         \/ pc = "write" /\ proxy_bad
  BY DEF Close
<1>2. ProxyTypes /\ FileInv /\ BufferInv /\ PadInv /\ ClosedInv
  BY DEF ProxyInv
<1>3. c.file = file /\ c.given = given /\ c.bad = proxy_bad
  OBVIOUS
<1> HIDE DEF c
<1>4. /\ IsSeq(closed) /\ Len(closed) = m_sequence - 1 /\ m_sequence \in Nat \ {0}
      /\ IsSeq(closed') /\ Len(closed') = m_sequence
      /\ \A k \in 1 .. Len(closed) : closed'[k] = closed[k]
      /\ closed'[m_sequence] = c
  <2>1. IsSeq(closed) /\ Len(closed) = m_sequence - 1 /\ m_sequence \in Nat \ {0}
    BY <1>1, <1>2 DEF ProxyTypes
  <2>2. /\ IsSeq(Append(closed, c)) /\ Len(Append(closed, c)) = Len(closed) + 1
        /\ \A k \in 1 .. Len(closed) : Append(closed, c)[k] = closed[k]
        /\ Append(closed, c)[Len(closed) + 1] = c
    BY <2>1, AppendFacts
  <2>3. Len(closed) + 1 = m_sequence
    BY <2>1
  <2> QED  BY <1>1, <2>1, <2>2, <2>3
<1>5. ProxyTypes'
  <2>1. proxy_bad' \in BOOLEAN
    BY <1>1, <1>2, Zenon DEF ProxyTypes
  <2> QED  BY <1>1, <1>2, <1>4, <2>1 DEF ProxyTypes
<1>6. FileInv' /\ BufferInv'
  <2>1. Fed' = Fed /\ Stream' = Stream
    BY <1>1 DEF Fed, Stream
  <2> QED  BY <1>1, <1>2, <2>1 DEF FileInv, BufferInv, Chained, Holds, Last
<1>7. PadInv'
  BY <1>1 DEF PadInv
<1>8. ClosedInv'
  <2> SUFFICES ASSUME NEW n \in 1 .. m_sequence, ~closed'[n].bad
               PROVE  Decrypts(closed'[n], n)
    BY <1>4 DEF ClosedInv
  <2>1. CASE n # m_sequence
    <3>1. n \in 1 .. Len(closed) /\ closed'[n] = closed[n]
      BY <1>4, <2>1
    <3> QED  BY <1>2, <3>1 DEF ClosedInv
  <2>2. CASE n = m_sequence
    <3>1. closed'[n] = c
      BY <1>4, <2>2
    <3>2. ~proxy_bad
      BY <1>3, <3>1
    <3>3. proxy_bad = FALSE
      BY <1>2, <3>2, Zenon DEF ProxyTypes
    <3>4. pc = "pad" /\ i = pad
      BY <1>1, <3>2
    <3>5. Decrypts(c, m_sequence)
      BY <1>2, <1>3, <3>3, <3>4, GoodFile
    <3> QED  BY <2>2, <3>1, <3>5
  <2> QED  BY <2>1, <2>2
<1> QED  BY <1>5, <1>6, <1>7, <1>8 DEF ProxyInv

LEMMA NextSegmentStep ==
  ASSUME ProxyInv, NextSegment
  PROVE  ProxyInv'
<1>1. /\ pc = "closed" /\ m_sequence' = m_sequence + 1
      /\ m_buf' = <<>> /\ m_iv' = IvOf(m_sequence') /\ pad' = 0 /\ i' = 0
      /\ file' = <<>> /\ given' = <<>> /\ pc' = "write" /\ closed' = closed
  BY DEF NextSegment
<1>2. proxy_bad' = FALSE
  BY DEF NextSegment
<1>3. /\ IsSeq(closed) /\ m_sequence \in Nat \ {0} /\ Len(closed) = m_sequence
  BY <1>1 DEF ProxyInv, ProxyTypes
<1>4. ProxyTypes'
  <2>1. IsSeq(m_buf') /\ IsSeq(file') /\ IsSeq(given') /\ Len(m_buf') < blockSize
    BY <1>1, NoElements, SizeFacts
  <2>2. Len(closed') = m_sequence' - 1 /\ m_sequence' \in Nat \ {0} /\ IsSeq(closed')
    BY <1>1, <1>3
  <2>3. proxy_bad' \in BOOLEAN
    BY <1>2, Zenon
  <2> QED  BY <1>1, <2>1, <2>2, <2>3 DEF ProxyTypes
<1>5. Len(file') = 0 /\ Len(m_buf') = 0 /\ Len(given') = 0 /\ blockSize * 0 = 0
  BY <1>1, NoElements, SizeFacts
<1>6. FileInv'
  <2>1. blockSize * Len(file') <= Fed'
    BY <1>1, <1>5 DEF Fed
  <2> QED  BY <1>5, <2>1 DEF FileInv, Chained, Holds
<1>7. BufferInv'
  <2>1. blockSize * Len(file') + Len(m_buf') = Fed'
    BY <1>1, <1>5 DEF Fed
  <2>2. m_iv' = Last(file', m_sequence')
    BY <1>1, <1>5 DEF Last
  <2> QED  BY <1>5, <2>1, <2>2 DEF BufferInv, Last
<1>8. PadInv'
  BY <1>1 DEF PadInv
<1> QED  BY <1>1, <1>4, <1>6, <1>7, <1>8, ClosedStay DEF ProxyInv

LEMMA ProxyStep == ProxyInv /\ [ProxyNext]_proxyVars => ProxyInv'
<1> SUFFICES ASSUME ProxyInv, [ProxyNext]_proxyVars PROVE ProxyInv'
  OBVIOUS
<1>1. CASE \E c \in Bytes, fails \in BOOLEAN : WriteByte(c, fails)
  BY <1>1, WriteByteStep
<1>2. CASE StartSync
  BY <1>2, StartSyncStep
<1>3. CASE \E fails \in BOOLEAN : PadByte(fails)
  BY <1>3, PadByteStep
<1>4. CASE Close
  BY <1>4, CloseStep
<1>5. CASE NextSegment
  BY <1>5, NextSegmentStep
<1>6. CASE UNCHANGED proxyVars
  <2>1. UNCHANGED <<m_sequence, m_buf, m_iv, pad, i, proxy_bad, file, pc, given, closed>>
    BY <1>6 DEF proxyVars
  <2>2. Fed' = Fed /\ Stream' = Stream
    BY <2>1 DEF Fed, Stream
  <2>3. ProxyTypes'
    BY <2>1, Zenon DEF ProxyInv, ProxyTypes
  <2>4. FileInv' /\ BufferInv'
    BY <2>1, <2>2 DEF ProxyInv, FileInv, BufferInv, Chained, Holds, Last
  <2>5. PadInv'
    BY <2>1 DEF ProxyInv, PadInv
  <2> QED  BY <2>1, <2>3, <2>4, <2>5, ClosedStay DEF ProxyInv
<1> QED  BY <1>1, <1>2, <1>3, <1>4, <1>5, <1>6 DEF ProxyNext

(* Crypto.cpp:16-37 and 113-158: a file that was closed without a failure  *)
(* decrypts, from its own number alone, to what the module wrote, for      *)
(* every size of block up to 255 and any bytes, those that look like       *)
(* padding among them.                                                     *)
THEOREM ClosedFilesDecrypt == ProxySpec => []DecryptsToSource
<1>1. ProxyInv => DecryptsToSource
  BY DEF ProxyInv, ClosedInv, Decrypts, DecryptsToSource
<1> QED  BY <1>1, ProxyStart, ProxyStep, PTL DEF ProxySpec

(* Crypto.cpp:149-158: whatever write fails, the blocks in the file follow *)
(* from the IV without a gap and hold the beginning of the given bytes and *)
(* of the padding.                                                         *)
THEOREM FilesHaveNoHoles == ProxySpec => []NoHoles
<1>1. ProxyInv => NoHoles
  <2> SUFFICES ASSUME ProxyInv PROVE NoHoles
    OBVIOUS
  <2>1. Chained(file, m_sequence) /\ Holds(file, Stream) /\ blockSize * Len(file) <= Fed
    BY DEF ProxyInv, FileInv
  <2>2. IsSeq(file) /\ Len(file) \in Nat /\ Fed \in Nat /\ blockSize * Len(file) \in Nat
    <3>1. IsSeq(file) /\ Len(file) \in Nat /\ Len(given) \in Nat /\ i \in Nat
      BY SeqFacts DEF ProxyInv, ProxyTypes
    <3> QED  BY <3>1, BlockFacts DEF Fed
  <2>3. \A k \in 1 .. blockSize * Len(file) : Plain(file)[k] = Stream[k]
    BY <2>1, <2>2, PlainFacts
  <2>4. \A k \in 1 .. blockSize * Len(file) : k \in 1 .. Fed
    BY <2>1, <2>2
  <2> QED  BY <2>1, <2>3, <2>4 DEF NoHoles, Chained, Stream
<1> QED  BY <1>1, ProxyStart, ProxyStep, PTL DEF ProxySpec
=============================================================================
