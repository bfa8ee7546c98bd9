------------------------------- MODULE JH256Ref -------------------------------
(***************************************************************************)
(* JH-256 as its specification defines it, for a message of any whole     *)
(* number of bytes.  The 1024-bit state H (128 bytes, bit h_i the bit of   *)
(* weight 2^(7 - i % 8) of byte i \div 8) absorbs each 512-bit block M by  *)
(* F8: M is xored into the first half, E8 is applied, M is xored into the  *)
(* second half.  E8 groups H into 256 4-bit elements, runs 42 rounds R8    *)
(* (S-boxes S0/S1 chosen by the bits of the round constant, the linear map *)
(* L on pairs, the permutation P8) and degroups.  The round constants are  *)
(* C_0 = the first 256 bits of sqrt(2) - 1 and C_(r+1) = R6(C_r) under the *)
(* all-zero constant.  H(0) = F8(H(-1), 0) with H(-1) = 256 in its first   *)
(* two bytes; the digest is the last 32 bytes of the final H.              *)
(***************************************************************************)
EXTENDS Word

CONSTANT Messages
ASSUME \A msg0 \in Messages : \E L \in 0..256 : msg0 \in [1..L -> Byte]

VARIABLES msg, chain, n, digest
avars == <<msg, chain, n, digest>>

\* The S-boxes S0 and S1.
SBoxes == << <<9, 0, 4, 11, 13, 12, 3, 15, 1, 10, 2, 6, 7, 5, 8, 14>>,
             <<3, 12, 6, 13, 5, 7, 1, 9, 15, 2, 0, 4, 11, 10, 14, 8>> >>

\* Multiplication by x in GF(2^4) modulo x^4 + x + 1; a nibble's most
\* significant bit is its first.
Mul2(a) == IF a >= 8 THEN XorByte((2 * a) % 16, 3) ELSE 2 * a

\* Bit e of a constant held as nibbles, most significant first.
CBit(c, e) == (c[(e \div 4) + 1] \div Pow2[4 - (e % 4)]) % 2

\* The S-box layer of a round on the elements a under the constant c.
SubLayer(a, c) ==
  SubSeq([k \in 1..Len(a) |-> SBoxes[CBit(c, k - 1) + 1][a[k] + 1]], 1, Len(a))

\* The linear layer: (C, D) = L(A, B) with D = B + 2A and C = A + 2D.
LinLayer(v) ==
  SubSeq([k \in 1..Len(v) |->
            LET a == v[2 * ((k - 1) \div 2) + 1]
                d == XorByte(v[2 * ((k - 1) \div 2) + 2], Mul2(a))
            IN IF (k - 1) % 2 = 0 THEN XorByte(a, Mul2(d)) ELSE d], 1, Len(v))

\* P_d = phi_d . P'_d . pi_d, written as the index each output element
\* is taken from: pi_d swaps elements 4i + 2 and 4i + 3, P'_d sends the
\* even elements to the first half and the odd ones to the second, phi_d
\* swaps the pairs of the second half.
PiSrc(j) == CASE j % 4 = 2 -> j + 1 [] j % 4 = 3 -> j - 1 [] OTHER -> j
PPrimeSrc(j, m) == IF j < m \div 2 THEN 2 * j ELSE 2 * (j - m \div 2) + 1
PhiSrc(j, m) == IF j < m \div 2 THEN j ELSE IF j % 2 = 0 THEN j + 1 ELSE j - 1
Permute(w) ==
  LET m == Len(w)
  IN SubSeq([k \in 1..m |-> w[PiSrc(PPrimeSrc(PhiSrc(k - 1, m), m)) + 1]], 1, m)

\* The round R_d with constant c.
R(a, c) == Permute(LinLayer(SubLayer(a, c)))

\* C_0 as 64 nibbles.
C0 == <<6, 10, 0, 9, 14, 6, 6, 7, 15, 3, 11, 12, 12, 9, 0, 8,
        11, 2, 15, 11, 1, 3, 6, 6, 14, 10, 9, 5, 7, 13, 3, 14,
        3, 10, 13, 14, 12, 1, 7, 5, 1, 2, 7, 7, 5, 0, 9, 9,
        13, 10, 2, 15, 5, 9, 0, 11, 0, 6, 6, 7, 3, 2, 2, 10>>
ZeroConst == [k \in 1..16 |-> 0]

\* Bit i of the state H.
HBit(h, i) == (h[(i \div 8) + 1] \div Pow2[8 - (i % 8)]) % 2

\* Grouping: q_2i = h_i h_(i+256) h_(i+512) h_(i+768), and q_(2i+1) the
\* same from h_(i+128).
Group(h) ==
  SubSeq([k \in 1..256 |->
            LET b == IF (k - 1) % 2 = 0 THEN (k - 1) \div 2 ELSE (k - 1) \div 2 + 128
            IN 8 * HBit(h, b) + 4 * HBit(h, b + 256) + 2 * HBit(h, b + 512)
                 + HBit(h, b + 768)], 1, 256)

\* De-grouping: bit h_p back from its element.
QBit(q, p) ==
  LET r == p % 256
      e == IF r < 128 THEN 2 * r ELSE 2 * (r - 128) + 1
  IN (q[e + 1] \div Pow2[4 - (p \div 256)]) % 2
Degroup(q) ==
  SubSeq([j \in 1..128 |->
            LET p == 8 * (j - 1)
            IN 128 * QBit(q, p) + 64 * QBit(q, p + 1) + 32 * QBit(q, p + 2)
                 + 16 * QBit(q, p + 3) + 8 * QBit(q, p + 4) + 4 * QBit(q, p + 5)
                 + 2 * QBit(q, p + 6) + QBit(q, p + 7)], 1, 128)

\* The 42 rounds, each taking the state and its constant to the next.
RECURSIVE Rounds8(_)
Rounds8(st) ==
  IF st.r = 42 THEN st.q
  ELSE Rounds8([q |-> R(st.q, st.c), c |-> R(st.c, ZeroConst), r |-> st.r + 1])

E8(h) == Degroup(Rounds8([q |-> Group(h), c |-> C0, r |-> 0]))

\* F8(H, M) for a 64-byte block M.
F8(h, m) ==
  LET e == E8(SubSeq([k \in 1..128 |-> IF k <= 64 THEN XorByte(h[k], m[k]) ELSE h[k]], 1, 128))
  IN SubSeq([k \in 1..128 |-> IF k > 64 THEN XorByte(e[k], m[k - 64]) ELSE e[k]], 1, 128)

\* The padded message: a 1 bit, 383 + (-l mod 512) zero bits and the bit
\* length l as a 128-bit big-endian number.
PadZeros(ms) == 47 + ((64 - (Len(ms) % 64)) % 64)
Padded(ms) ==
  LET l == 8 * Len(ms)
  IN ms \o <<128>> \o Zeros(PadZeros(ms)) \o Zeros(12)
       \o <<(l \div 16777216) % 256, (l \div 65536) % 256, (l \div 256) % 256, l % 256>>
NumBlocks(ms) == (Len(ms) + 1 + PadZeros(ms) + 16) \div 64

IV == F8(<<1, 0>> \o Zeros(126), Zeros(64))

Init ==
  /\ msg \in Messages
  /\ chain = IV
  /\ n = 0
  /\ digest = <<>>

Absorb ==
  /\ n < NumBlocks(msg)
  /\ n' = n + 1
  /\ chain' = F8(chain, Bytes(Padded(msg), 64 * n, 64))
  /\ UNCHANGED <<msg, digest>>

\* The digest: the last 256 bits of the state.
Finish ==
  /\ n = NumBlocks(msg) /\ digest = <<>>
  /\ digest' = Bytes(chain, 96, 32)
  /\ UNCHANGED <<msg, chain, n>>

Next == Absorb \/ Finish

\* Only safety: the code's loops are bounded.
Spec == Init /\ [][Next]_avars
==============================================================================
