---------------------------- MODULE Groestl256Ref ----------------------------
(***************************************************************************)
(* Groestl-256 as its specification defines it, for a message of any      *)
(* whole number of bytes.  The state is 64 bytes read as an 8 x 8 matrix   *)
(* column by column (byte 8j + i is row i of column j).  The message is    *)
(* padded with 0x80, zeros and the 64-bit big-endian number of blocks;     *)
(* each block m updates the chaining value h to P(h + m) + Q(m) + h; the   *)
(* digest is the last 32 bytes of P(h) + h.  P and Q are ten rounds of     *)
(* AddRoundConstant, SubBytes, ShiftBytes and MixBytes.                    *)
(***************************************************************************)
EXTENDS GroestlMix

CONSTANT Messages
ASSUME \A msg0 \in Messages : \E L \in 0..256 : msg0 \in [1..L -> Byte]

VARIABLES msg, chain, n, digest
avars == <<msg, chain, n, digest>>

\* Byte-wise XOR of two 64-byte states.
XorState(a, b) == [k \in 1..64 |-> XorByte(a[k], b[k])]

\* The round constant byte of row i, column j in round r of P or Q.
RC(isQ, r, i, j) ==
  IF isQ THEN (IF i = 7 THEN XorByte(255, XorByte(16 * j, r)) ELSE 255)
  ELSE (IF i = 0 THEN XorByte(16 * j, r) ELSE 0)

\* ShiftBytes moves row i left by Shift(isQ, i) columns.
Shift(isQ, i) == IF isQ THEN <<1, 3, 5, 7, 0, 2, 4, 6>>[i + 1] ELSE i

\* AddRoundConstant, SubBytes and ShiftBytes: byte (i, j) of the result.
SubShift(s, isQ, r) ==
  [k \in 1..64 |->
     LET i  == (k - 1) % 8
         j  == (k - 1) \div 8
         j0 == (j + Shift(isQ, i)) % 8
     IN SBoxOf(XorByte(s[8 * j0 + i + 1], RC(isQ, r, i, j0)))]

\* MixBytes: column j of the result is B times column j of a.
RECURSIVE XorAll(_)
XorAll(bs) == IF bs = <<>> THEN 0 ELSE XorByte(Head(bs), XorAll(Tail(bs)))
MixBytes(a) ==
  [k \in 1..64 |->
     LET i == (k - 1) % 8
         j == (k - 1) \div 8
     IN XorAll([l \in 1..8 |-> LET b == a[8 * j + l]
                                IN MulSmall(b, XTime(b), MixB(i, l - 1))])]

\* One round, its result forced into a tuple before the next round reads it.
PermRound(s, isQ, r) == SubSeq(MixBytes(SubSeq(SubShift(s, isQ, r), 1, 64)), 1, 64)

\* The states before round 0 and after each of the ten rounds.
RECURSIVE PermStates(_, _)
PermStates(ss, isQ) ==
  IF Len(ss) = 11 THEN ss
  ELSE LET next == Append(ss, PermRound(ss[Len(ss)], isQ, Len(ss) - 1))
       IN PermStates(next, isQ)
Perm(s, isQ) == PermStates(<<s>>, isQ)[11]

\* The compression function f(h, m) = P(h + m) + Q(m) + h.
Compress(h, m) ==
  XorState(XorState(Perm(XorState(h, m), FALSE), Perm(m, TRUE)), h)

\* The padded message: 0x80, zeros, then the number of 64-byte blocks as a
\* 64-bit big-endian number, to the next multiple of 64 bytes.
NumBlocks(ms) == (Len(ms) + 72) \div 64
Padded(ms) ==
  LET nb == NumBlocks(ms)
  IN ms \o <<128>> \o Zeros(64 * nb - Len(ms) - 9)
       \o Zeros(6) \o <<nb \div 256, nb % 256>>

\* The initial value: 256, the digest length in bits, in the last two bytes.
IV == Zeros(62) \o <<1, 0>>

Init ==
  /\ msg \in Messages
  /\ chain = IV
  /\ n = 0
  /\ digest = <<>>

Absorb ==
  /\ n < NumBlocks(msg)
  /\ n' = n + 1
  /\ chain' = Compress(chain, Bytes(Padded(msg), 64 * n, 64))
  /\ UNCHANGED <<msg, digest>>

\* The output transformation: the last 32 bytes of P(h) + h.
Finish ==
  /\ n = NumBlocks(msg) /\ digest = <<>>
  /\ digest' = Bytes(XorState(Perm(chain, FALSE), chain), 32, 32)
  /\ UNCHANGED <<msg, chain, n>>

Next == Absorb \/ Finish

\* Only safety: the code's loops are bounded.
Spec == Init /\ [][Next]_avars
==============================================================================
