----------------------------- MODULE CryptoProxy -----------------------------
(***************************************************************************)
(* The encrypting stream between a segmenting module and a segment file:   *)
(* classes CryptoProxy and CryptoProxyBuffer of Crypto/Crypto.cpp over     *)
(* CryptoAes128cbc, one object of each for every segment.                  *)
(*                                                                         *)
(* A block of the file is the record of what went into the cipher: the     *)
(* plain block and the block before it (the IV for the first).  Who holds  *)
(* the key gets the plain block back only from the same predecessor.  How  *)
(* much of its own bytes a failed write leaves on disk is up to the        *)
(* standard library and left out.                                          *)
(***************************************************************************)
EXTENDS Integers, Sequences

CONSTANTS
  blockSize,    \* bytes in a block
  Bytes,        \* the bytes a module may write
  MaxBytes,     \* bound: bytes written to a segment
  MaxSegments   \* bound: segments

VARIABLES
  m_sequence,     \* number of the segment
  m_buf,          \* the first m_nbuf bytes of the block being filled
  m_iv,           \* what the next block is chained to
  pad, i,         \* of the loop in sync()
  proxy_bad,      \* badbit of the CryptoProxy
  file,           \* the blocks in the segment file
  pc,             \* "write", "pad" or "closed"
  given,          \* ghost: what the module has written to the proxy
  closed          \* ghost: the segments that were closed

proxyVars == <<m_sequence, m_buf, m_iv, pad, i, proxy_bad, file, pc, given, closed>>

ASSUME CryptoAssumption ==
  /\ blockSize \in 1 .. 255 /\ MaxBytes \in Nat /\ MaxSegments \in Nat \ {0}
  /\ Bytes \subseteq 0 .. 255

m_nbuf == Len(m_buf)

(* main() makes the IV from the sequence number, as a player does.         *)
IvOf(n) == [iv |-> n]

encrypt(prev, plain) == [prev |-> prev, plain |-> plain]

ProxyInit ==
  /\ m_sequence = 1
  /\ m_buf = <<>> /\ m_iv = IvOf(1)
  /\ pad = 0 /\ i = 0
  /\ proxy_bad = FALSE
  /\ file = <<>> /\ given = <<>> /\ closed = <<>>
  /\ pc = "write"

(* Variant: a failure below is not noticed. *)
overflow_Unnoticed(c, fails) ==
  LET block == Append(m_buf, c) IN
  IF Len(block) < blockSize
    THEN ~fails /\ m_buf' = block /\ UNCHANGED <<m_iv, proxy_bad, file>>
    ELSE /\ m_buf' = <<>>
         /\ m_iv' = encrypt(m_iv, block)
         /\ file' = IF fails THEN file ELSE Append(file, m_iv')
         /\ UNCHANGED proxy_bad

(* A full block is encrypted and written; the exception of a write that    *)
(* fails ends in the formatting functions of the proxy, whose badbit it    *)
(* sets and whose exceptions are off.                                      *)
overflow(c, fails) ==
  LET block == Append(m_buf, c) IN
  IF Len(block) < blockSize
    THEN ~fails /\ m_buf' = block /\ UNCHANGED <<m_iv, proxy_bad, file>>
    ELSE /\ m_buf' = <<>>
         /\ m_iv' = encrypt(m_iv, block)
         /\ file' = IF fails THEN file ELSE Append(file, m_iv')
         /\ proxy_bad' = fails

(* The module writes a byte; a proxy gone bad does not pass it on.         *)
WriteByte(c, fails) ==
  /\ pc = "write"
  /\ Len(given) < MaxBytes
  /\ given' = Append(given, c)
  /\ IF proxy_bad THEN ~fails /\ UNCHANGED <<m_buf, m_iv, proxy_bad, file>>
                  ELSE overflow(c, fails)
  /\ UNCHANGED <<m_sequence, pad, i, pc, closed>>

(* Variant: no padding after a whole number of blocks. *)
StartSync_NotIfWhole ==
  /\ pc = "write"
  /\ ~proxy_bad
  /\ pad' = IF m_buf = <<>> THEN 0 ELSE blockSize - m_nbuf
  /\ i' = 0
  /\ pc' = "pad"
  /\ UNCHANGED <<m_sequence, m_buf, m_iv, proxy_bad, file, given, closed>>

(* The flush at main.cpp:193 calls sync(), unless the proxy has gone bad.  *)
StartSync ==
  /\ pc = "write"
  /\ ~proxy_bad
  /\ pad' = blockSize - m_nbuf
  /\ i' = 0
  /\ pc' = "pad"
  /\ UNCHANGED <<m_sequence, m_buf, m_iv, proxy_bad, file, given, closed>>

PadByte(fails) ==
  /\ pc = "pad"
  /\ i < pad /\ ~proxy_bad
  /\ overflow(pad, fails)
  /\ i' = i + 1
  /\ UNCHANGED <<m_sequence, pad, pc, given, closed>>

(* out_file.close() of main.cpp:194 succeeds: either all went well, or the *)
(* disk that was full has room again.                                      *)
Close ==
  /\ \/ pc = "pad" /\ (i = pad \/ proxy_bad)
     \/ pc = "write" /\ proxy_bad
  /\ closed' = Append(closed, [file |-> file, given |-> given, bad |-> proxy_bad])
  /\ pc' = "closed"
  /\ UNCHANGED <<m_sequence, m_buf, m_iv, pad, i, proxy_bad, file, given>>

(* main() deletes the proxy and makes new objects for the next file.       *)
NextSegment ==
  /\ pc = "closed"
  /\ m_sequence < MaxSegments
  /\ m_sequence' = m_sequence + 1
  /\ m_buf' = <<>> /\ m_iv' = IvOf(m_sequence')
  /\ pad' = 0 /\ i' = 0
  /\ proxy_bad' = FALSE
  /\ file' = <<>> /\ given' = <<>>
  /\ pc' = "write"
  /\ UNCHANGED closed

ProxyNext ==
  \/ \E c \in Bytes, fails \in BOOLEAN : WriteByte(c, fails)
  \/ StartSync
  \/ \E fails \in BOOLEAN : PadByte(fails)
  \/ Close
  \/ NextSegment

ProxySpec == ProxyInit /\ [][ProxyNext]_proxyVars

(***************************************************************************)
(* What a player makes of a file.                                          *)
(***************************************************************************)
(* It decrypts a block of segment n from the block before it.              *)
Opens(blocks, n, k) == blocks[k].prev = IF k = 1 THEN IvOf(n) ELSE blocks[k-1]

Plain(blocks) ==
  [k \in 1 .. blockSize * Len(blocks) |->
     blocks[(k - 1) \div blockSize + 1].plain[((k - 1) % blockSize) + 1]]

(* PKCS7: the last byte says how many bytes, all equal to it, to remove.   *)
WellPadded(bytes) ==
  /\ bytes # <<>>
  /\ LET last == bytes[Len(bytes)] IN
       /\ last \in 1 .. blockSize
       /\ \A k \in Len(bytes) - last + 1 .. Len(bytes) : bytes[k] = last
Unpadded(bytes) == SubSeq(bytes, 1, Len(bytes) - bytes[Len(bytes)])

(* Crypto.cpp:16-37: a segment closed without a failure decrypts, from its *)
(* own number alone, to what the module wrote, byte for byte, whatever its *)
(* length and even when its last bytes look like padding.                  *)
DecryptsToSource ==
  \A n \in 1 .. Len(closed) :
    LET bytes == Plain(closed[n].file) IN
    ~closed[n].bad =>
      /\ \A k \in 1 .. Len(closed[n].file) : Opens(closed[n].file, n, k)
      /\ WellPadded(bytes)
      /\ Unpadded(bytes) = closed[n].given

(* After a write below it has failed the proxy writes no further block: a  *)
(* file never has a hole, and its blocks decrypt to the beginning of what  *)
(* the module wrote, and of the padding.                                   *)
NoHoles ==
  /\ \A k \in 1 .. Len(file) : Opens(file, m_sequence, k)
  /\ \A k \in 1 .. blockSize * Len(file) :
       Plain(file)[k] = IF k <= Len(given) THEN given[k] ELSE pad
=============================================================================
