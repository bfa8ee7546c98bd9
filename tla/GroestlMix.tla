----------------------------- MODULE GroestlMix -----------------------------
(***************************************************************************)
(* The byte algebra of Groestl as its specification defines it: the field  *)
(* GF(2^8) modulo x^8 + x^4 + x^3 + x + 1, the AES S-box (the inverse in   *)
(* that field followed by the affine map with constant 0x63), and the      *)
(* circulant matrix B = circ(02, 02, 03, 04, 05, 03, 05, 07) of MixBytes.  *)
(***************************************************************************)
EXTENDS Word

\* Multiplication by x, and by any field element.
XTime(a) == IF a >= 128 THEN XorByte((2 * a) % 256, 27) ELSE 2 * a
RECURSIVE GMul(_, _)
GMul(a, b) == IF b = 0 THEN 0
              ELSE XorByte(IF b % 2 = 1 THEN a ELSE 0, GMul(XTime(a), b \div 2))

\* a^e by repeated squaring; a^254 is the inverse of a, and 0 for a = 0.
RECURSIVE GPow(_, _)
GPow(a, e) == IF e = 0 THEN 1
              ELSE LET h == GPow(GMul(a, a), e \div 2)
                   IN IF e % 2 = 1 THEN GMul(a, h) ELSE h

\* b rotated left by k bits.
RotByte(b, k) == ((b * Pow2[k + 1]) % 256) + (b \div Pow2[9 - k])

\* S(x) = A(x^-1) + 0x63, the affine map A written with byte rotations.
SBox(x) ==
  LET b == GPow(x, 254)
  IN XorByte(XorByte(XorByte(b, RotByte(b, 1)), XorByte(RotByte(b, 2), RotByte(b, 3))),
             XorByte(RotByte(b, 4), 99))

\* The S-box as a table, S(x) at index x + 1; MCGroestlTable checks it against
\* SBox over all 256 bytes.
SBoxTab ==
  <<99, 124, 119, 123, 242, 107, 111, 197, 48, 1, 103, 43, 254, 215, 171, 118,
  202, 130, 201, 125, 250, 89, 71, 240, 173, 212, 162, 175, 156, 164, 114, 192,
  183, 253, 147, 38, 54, 63, 247, 204, 52, 165, 229, 241, 113, 216, 49, 21,
  4, 199, 35, 195, 24, 150, 5, 154, 7, 18, 128, 226, 235, 39, 178, 117,
  9, 131, 44, 26, 27, 110, 90, 160, 82, 59, 214, 179, 41, 227, 47, 132,
  83, 209, 0, 237, 32, 252, 177, 91, 106, 203, 190, 57, 74, 76, 88, 207,
  208, 239, 170, 251, 67, 77, 51, 133, 69, 249, 2, 127, 80, 60, 159, 168,
  81, 163, 64, 143, 146, 157, 56, 245, 188, 182, 218, 33, 16, 255, 243, 210,
  205, 12, 19, 236, 95, 151, 68, 23, 196, 167, 126, 61, 100, 93, 25, 115,
  96, 129, 79, 220, 34, 42, 144, 136, 70, 238, 184, 20, 222, 94, 11, 219,
  224, 50, 58, 10, 73, 6, 36, 92, 194, 211, 172, 98, 145, 149, 228, 121,
  231, 200, 55, 109, 141, 213, 78, 169, 108, 86, 244, 234, 101, 122, 174, 8,
  186, 120, 37, 46, 28, 166, 180, 198, 232, 221, 116, 31, 75, 189, 139, 138,
  112, 62, 181, 102, 72, 3, 246, 14, 97, 53, 87, 185, 134, 193, 29, 158,
  225, 248, 152, 17, 105, 217, 142, 148, 155, 30, 135, 233, 206, 85, 40, 223,
  140, 161, 137, 13, 191, 230, 66, 104, 65, 153, 45, 15, 176, 84, 187, 22>>
SBoxOf(x) == SBoxTab[x + 1]

\* a times b for b < 8, the field element a times x passed in as a1.
MulSmall(a, a1, b) ==
  XorByte(XorByte(IF b % 2 = 1 THEN a ELSE 0, IF (b \div 2) % 2 = 1 THEN a1 ELSE 0),
          IF b >= 4 THEN XTime(a1) ELSE 0)

\* Entry (i, l) of B, rows and columns numbered from 0.
MixB(i, l) == <<2, 2, 3, 4, 5, 3, 5, 7>>[((l - i + 8) % 8) + 1]
==============================================================================
