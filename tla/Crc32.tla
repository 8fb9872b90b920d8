------------------------------- MODULE Crc32 --------------------------------
(***************************************************************************)
(* The file CRC of libcrc32_file.c as it is built for the Raspberry Pi:    *)
(* CRCF_FILE_SYSTEM_API and CRCF_CRC_ALGORITHM are left undefined, so the  *)
(* LIBC file API and the software CRC (Crc32Fast over the nibble table)    *)
(* are compiled.  A file is the sequence of its bytes.  A uint32_t is a    *)
(* pair <<hi, lo>> of 16-bit halves, TLC's integers being 32-bit signed;   *)
(* a byte view of the 32-bit "cache" is kept as 4 bytes, least            *)
(* significant first, since fread fills it in little endian.               *)
(***************************************************************************)
EXTENDS Integers, Sequences, SequencesExt, Bitwise, TLC

Byte == 0 .. 255

\* uint32_t operations on <<hi, lo>>; shifts by at most 16 bits.  The xor
\* of two halves is taken a nibble at a time from a table of ^^.
XorNibble == [x \in 0 .. 15, y \in 0 .. 15 |-> x ^^ y]
XorHalf(a, b) ==
  LET n(v, k) == (v \div 16^k) % 16
  IN  XorNibble[n(a, 3), n(b, 3)] * 4096 + XorNibble[n(a, 2), n(b, 2)] * 256
    + XorNibble[n(a, 1), n(b, 1)] * 16 + XorNibble[n(a, 0), n(b, 0)]
XorU32(a, b) == <<XorHalf(a[1], b[1]), XorHalf(a[2], b[2])>>
ShlU32(a, n) == <<((a[1] * 2^n) % 65536) + (a[2] \div 2^(16 - n)),
                  (a[2] * 2^n) % 65536>>
TopBits(a, n) == a[1] \div 2^(16 - n)
\* Both halves in range: asserting it also has each register value computed
\* before the next step is built on it.
IsU32(a) == Assert(a[1] \in 0 .. 65535 /\ a[2] \in 0 .. 65535, "uint32_t out of range")
AllOnes == <<\hFFFF, \hFFFF>>

\* static const uint32_t crc_table[16], nibble table of 0x04C11DB7.
crc_table ==
  LET t == << <<\h0000, \h0000>>, <<\h04C1, \h1DB7>>, <<\h0982, \h3B6E>>,
              <<\h0D43, \h26D9>>, <<\h1304, \h76DC>>, <<\h17C5, \h6B6B>>,
              <<\h1A86, \h4DB2>>, <<\h1E47, \h5005>>, <<\h2608, \hEDB8>>,
              <<\h22C9, \hF00F>>, <<\h2F8A, \hD6D6>>, <<\h2B4B, \hCB61>>,
              <<\h350C, \h9B64>>, <<\h31CD, \h86D3>>, <<\h3C8E, \hA00A>>,
              <<\h384F, \hBDBD>> >>
  IN [i \in 0 .. 15 |-> t[i + 1]]

\* crc = (crc << 4) ^ crc_table[crc >> 28];
NibbleRound(crc) == XorU32(ShlU32(crc, 4), crc_table[TopBits(crc, 4)])

\* Crc32Fast: all 32 data bits xored in at once, then 8 nibble rounds.
Crc32Fast(crc, data) ==
  LET c0 == XorU32(crc, data)
      c1 == NibbleRound(c0)
      c2 == NibbleRound(c1)
      c3 == NibbleRound(c2)
      c4 == NibbleRound(c3)
      c5 == NibbleRound(c4)
      c6 == NibbleRound(c5)
      c7 == NibbleRound(c6)
  IN NibbleRound(c7)

\* The uint32_t of 4 bytes read in little endian.
WordOf(b) == <<b[4] * 256 + b[3], b[2] * 256 + b[1]>>

\* The mutant below ors in the 0xff padding without shifting the last bytes.
TailWordUnshifted(cache, tail) ==
  LET r == Len(tail)
      c == [p \in 1 .. 4 |-> IF p <= r THEN tail[p] ELSE cache[p]]
  IN [p \in 1 .. 4 |-> IF p <= 4 - r THEN 255 ELSE c[p]]

\* The last bytes: fread overwrites the r low bytes of the cache, which
\* still holds the previous word; cache << 8*(4-r) moves them to the top
\* and drops the rest, | 0xffffffff >> 8*r fills the low bytes with 0xff.
TailWord(cache, tail) ==
  LET r == Len(tail)
      c == [p \in 1 .. 4 |-> IF p <= r THEN tail[p] ELSE cache[p]]
  IN [p \in 1 .. 4 |-> IF p <= 4 - r THEN 255 ELSE c[p - (4 - r)]]

\* The for loop over fsize >> 2 words and the "Last bytes" block: the CRC
\* of bytes s, the cache starting at 0.
RECURSIVE CrcLoop(_, _, _)
CrcLoop(crc, cache, s) ==
  IF Len(s) >= 4
  THEN LET c == Crc32Fast(crc, WordOf(SubSeq(s, 1, 4)))
       IN IF IsU32(c) THEN CrcLoop(c, SubSeq(s, 1, 4), SubSeq(s, 5, Len(s)))
                      ELSE c
  ELSE IF Len(s) = 0 THEN crc
       ELSE Crc32Fast(crc, WordOf(TailWord(cache, s)))

\* CRCF_fsize (LIBC): ftell, fseek to the end, ftell, fseek back.  On a
\* regular file the calls succeed and it returns the file's length.
CRCF_fsize(file) == Len(file)

\* The errno values CRCF_calc_crc_soft returns (Linux).
ENOENT == 2
EIO == 5
EINVAL == 22

\* CRCF_calc_crc -> CRCF_calc_crc_soft(file, start, length, crc) for an
\* opened file: ENOENT on an empty file, EINVAL on a bad range, EIO when
\* fread (CRCF_fread, always FR_OK) returns fewer bytes than asked after
\* CRCF_fseek to start; otherwise 0 and the CRC of the range.
CRCF_calc_crc_soft(file, start, length) ==
  LET ffsize == CRCF_fsize(file)
      fsize  == IF length # 0 THEN length ELSE ffsize - start
  IN CASE ffsize = 0 -> [ret |-> ENOENT]
       [] start >= ffsize \/ length > ffsize \/ start % 4 # 0 ->
            [ret |-> EINVAL]
       [] ffsize - start < fsize -> [ret |-> EIO]
       [] OTHER ->
            [ret |-> 0,
             crc |-> CrcLoop(AllOnes, <<0, 0, 0, 0>>,
                             SubSeq(file, start + 1, start + fsize))]

\* CRCF_calc_crc: the software CRC is the one compiled.
CRCF_calc_crc(file, start, length) == CRCF_calc_crc_soft(file, start, length)

-----------------------------------------------------------------------------
(* The reference: the CRC of spec section 4.2 computed one bit at a time,  *)
(* MSB first, with the register 0xFFFFFFFF and the polynomial 0x04C11DB7,  *)
(* over the byte stream the spec describes: each group of 4 bytes as a     *)
(* little-endian word, a last group of 1 to 3 bytes shifted to the most    *)
(* significant end and padded with 0xFF.                                   *)
Poly == <<\h04C1, \h1DB7>>

RefShiftBit(crc, b) ==
  IF (TopBits(crc, 1) + b) % 2 = 1 THEN XorU32(ShlU32(crc, 1), Poly)
                                   ELSE ShlU32(crc, 1)

\* The 8 bits of byte x enter the register, bit 7 first.
RefShiftByte(crc, x) ==
  LET b(k) == (x \div 2^k) % 2
      c7 == RefShiftBit(crc, b(7))
      c6 == RefShiftBit(c7, b(6))
      c5 == RefShiftBit(c6, b(5))
      c4 == RefShiftBit(c5, b(4))
      c3 == RefShiftBit(c4, b(3))
      c2 == RefShiftBit(c3, b(2))
      c1 == RefShiftBit(c2, b(1))
  IN RefShiftBit(c1, b(0))

RefStream(s) ==
  LET groups == [g \in 1 .. (Len(s) + 3) \div 4 |->
                   SubSeq(s, 4 * g - 3, IF 4 * g <= Len(s) THEN 4 * g ELSE Len(s))]
  IN FlattenSeq([g \in DOMAIN groups |->
                   Reverse(groups[g]) \o [i \in 1 .. 4 - Len(groups[g]) |-> 255]])

\* The register after the bytes of stream have entered it.
RECURSIVE RefCrcOf(_, _)
RefCrcOf(crc, stream) ==
  IF stream = << >> THEN crc
  ELSE LET c == RefShiftByte(crc, Head(stream))
       IN IF IsU32(c) THEN RefCrcOf(c, Tail(stream)) ELSE c

ReferenceCrc(s) == RefCrcOf(AllOnes, RefStream(s))
=============================================================================
