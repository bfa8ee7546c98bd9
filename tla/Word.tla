-------------------------------- MODULE Word --------------------------------
(***************************************************************************)
(* The machine words of src/crypto/pow_hash/aux_hash.c: uint8_t, uint32_t  *)
(* and uint64_t values and the macros that load, store and rotate them.    *)
(*                                                                         *)
(* A w-bit word is a tuple of w \div 8 bytes, least significant byte       *)
(* first, so a word is at the same time its own little-endian encoding.    *)
(* TLC's integers stop at 2^31 - 1, so 32- and 64-bit values cannot be     *)
(* plain integers; every operator below computes byte by byte and wraps    *)
(* modulo 2^w exactly as C unsigned arithmetic does.                       *)
(*                                                                         *)
(* A byte buffer (uint8_t[]) is a tuple of bytes; At and Bytes address it  *)
(* with the C offsets, so buf[off] is At(buf, off).                        *)
(***************************************************************************)
EXTENDS Integers, Sequences

Byte == 0..255
Pow2 == <<1, 2, 4, 8, 16, 32, 64, 128, 256>>  \* Pow2[k + 1] = 2^k

\* One bit of a and b, at weight k.
AndBit(a, b, k) == ((a \div k) % 2) * ((b \div k) % 2) * k
AndByte(a, b) ==
  AndBit(a, b, 1) + AndBit(a, b, 2) + AndBit(a, b, 4) + AndBit(a, b, 8)
    + AndBit(a, b, 16) + AndBit(a, b, 32) + AndBit(a, b, 64) + AndBit(a, b, 128)
XorByte(a, b) == a + b - 2 * AndByte(a, b)
OrByte(a, b) == a + b - AndByte(a, b)

\* Byte-wise operators on words of equal width, built eagerly.
RECURSIVE WAnd(_, _), WXor(_, _), WOr(_, _), WNot(_)
WAnd(a, b) == IF a = <<>> THEN <<>>
              ELSE <<AndByte(Head(a), Head(b))>> \o WAnd(Tail(a), Tail(b))
WXor(a, b) == IF a = <<>> THEN <<>>
              ELSE <<XorByte(Head(a), Head(b))>> \o WXor(Tail(a), Tail(b))
WOr(a, b) == IF a = <<>> THEN <<>>
             ELSE <<OrByte(Head(a), Head(b))>> \o WOr(Tail(a), Tail(b))
WNot(a) == IF a = <<>> THEN <<>> ELSE <<255 - Head(a)>> \o WNot(Tail(a))

\* a + b modulo 2^w: byte-wise addition with carry c.
RECURSIVE AddCarry(_, _, _)
AddCarry(a, b, c) ==
  IF a = <<>> THEN <<>>
  ELSE LET s == Head(a) + Head(b) + c
       IN <<s % 256>> \o AddCarry(Tail(a), Tail(b), s \div 256)
WAdd(a, b) == AddCarry(a, b, 0)

\* Shift every byte left by s < 8 bits, taking in the s high bits of the
\* byte below it; cin is what enters the lowest byte.
RECURSIVE ShlBits(_, _, _)
ShlBits(a, s, cin) ==
  IF a = <<>> THEN <<>>
  ELSE <<((Head(a) * Pow2[s + 1]) % 256) + cin>>
         \o ShlBits(Tail(a), s, Head(a) \div Pow2[9 - s])

\* n zero bytes, for n <= 256.
ZeroPad == [k \in 1..256 |-> 0]
Zeros(n) == SubSeq(ZeroPad, 1, n)

\* Shift every byte right by s < 8 bits, taking in the s low bits of the
\* byte above it; zeros enter the highest byte.
RECURSIVE ShrBits(_, _)
ShrBits(a, s) ==
  IF a = <<>> THEN <<>>
  ELSE LET above == IF Len(a) = 1 THEN 0 ELSE a[2]
       IN <<(Head(a) \div Pow2[s + 1]) + ((above * Pow2[9 - s]) % 256)>>
            \o ShrBits(Tail(a), s)

\* x << n, x >> n (zero-filled) and the rotations, for 0 <= n < w.
ShlW(a, n) ==
  LET k == n \div 8
  IN ShlBits(Zeros(k) \o SubSeq(a, 1, Len(a) - k), n % 8, 0)
ShrW(a, n) ==
  LET k == n \div 8
  IN ShrBits(SubSeq(a, k + 1, Len(a)) \o Zeros(k), n % 8)
RotL(a, n) ==
  LET k == n \div 8
      b == SubSeq(a, Len(a) - k + 1, Len(a)) \o SubSeq(a, 1, Len(a) - k)
  IN ShlBits(b, n % 8, b[Len(b)] \div Pow2[9 - (n % 8)])
RotR(a, n) == RotL(a, 8 * Len(a) - n)

\* Literals: a 32-bit constant 0xHHHHLLLL is W32(0xHHHH, 0xLLLL), a 64-bit
\* one W64 of its four 16-bit groups, most significant first.
Half(x) == <<x % 256, x \div 256>>
W32(hi, lo) == Half(lo) \o Half(hi)
W64(a, b, c, d) == Half(d) \o Half(c) \o Half(b) \o Half(a)
\* A small natural number n < 2^31 as a word of nb bytes.
WordOf(n, nb) == [k \in 1..nb |-> IF k > 4 THEN 0 ELSE (n \div 256^(k - 1)) % 256]

\* Byte buffers addressed with C offsets.
At(buf, off) == buf[off + 1]
Bytes(buf, off, len) == SubSeq(buf, off + 1, off + len)
Rev(s) == [k \in 1..Len(s) |-> s[Len(s) + 1 - k]]

\* The bytes a (uintN_t *) access sees for the little-endian word bs, on a
\* build of the given byte order.
Native(littleEndian, bs) == IF littleEndian THEN bs ELSE Rev(bs)
==============================================================================
