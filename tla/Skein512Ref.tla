----------------------------- MODULE Skein512Ref -----------------------------
(***************************************************************************)
(* Skein-512-256 as the Skein specification defines it, for a message of  *)
(* any whole number of bytes.  The chaining value starts as UBI of the     *)
(* configuration block under the all-zero key; each message block is one  *)
(* UBI step whose tweak carries the bytes processed so far, the message   *)
(* type, and the first and final flags; the output transform is one more  *)
(* UBI step on the counter 0; the digest is the first 32 bytes of the     *)
(* result.  Threefish-512 is written in the specification's form: a       *)
(* subkey every four rounds, MIX on adjacent pairs, then the word          *)
(* permutation pi.                                                         *)
(***************************************************************************)
EXTENDS Word

CONSTANT Messages
ASSUME \A msg0 \in Messages : \E L \in 0..256 : msg0 \in [1..L -> Byte]

VARIABLES msg, chain, n, digest
avars == <<msg, chain, n, digest>>

\* C_240, the key schedule constant.
C240 == W64(\h1BD1, \h1BDA, \hA9FC, \h1A22)
\* R_{d mod 8, j}
Rot == << <<46, 36, 19, 37>>, <<33, 27, 14, 42>>, <<17, 49, 36, 39>>,
          <<44, 9, 54, 56>>, <<39, 30, 34, 24>>, <<13, 50, 10, 17>>,
          <<25, 29, 39, 43>>, <<8, 35, 56, 22>> >>
\* pi for N_w = 8
Pi == <<2, 1, 4, 7, 6, 5, 0, 3>>

\* Word i of subkey s of the extended key kx (9 words) and tweak tx (3).
Subkey(kx, tx, s, i) ==
  CASE i = 5 -> WAdd(kx[(s + i) % 9], tx[s % 3])
    [] i = 6 -> WAdd(kx[(s + i) % 9], tx[(s + 1) % 3])
    [] i = 7 -> WAdd(kx[(s + i) % 9], WordOf(s, 8))
    [] OTHER -> kx[(s + i) % 9]
\* The Threefish state v (a tuple v_0 .. v_7) plus subkey s.
AddKey(v, kx, tx, s) ==
  LET A(i) == WAdd(v[i + 1], Subkey(kx, tx, s, i))
  IN <<A(0), A(1), A(2), A(3), A(4), A(5), A(6), A(7)>>

\* MIX with rotation r: (x0 + x1, (x1 <<< r) ^ (x0 + x1)).
Mix(x0, x1, r) == LET y0 == WAdd(x0, x1) IN <<y0, WXor(RotL(x1, r), y0)>>

\* Round d: MIX each pair (v_2j, v_2j+1), then v'_i = f_pi(i).
TfRound(v, d) ==
  LET R  == Rot[(d % 8) + 1]
      f  == Mix(v[1], v[2], R[1]) \o Mix(v[3], v[4], R[2])
              \o Mix(v[5], v[6], R[3]) \o Mix(v[7], v[8], R[4])
      F(i) == f[Pi[i + 1] + 1]
  IN <<F(0), F(1), F(2), F(3), F(4), F(5), F(6), F(7)>>

\* Rounds 4s .. 4s + 3 after adding subkey s.
TfGroup(v, kx, tx, s) ==
  LET e  == AddKey(v, kx, tx, s)
      r1 == TfRound(e, 4 * s)
      r2 == TfRound(r1, 4 * s + 1)
      r3 == TfRound(r2, 4 * s + 2)
  IN TfRound(r3, 4 * s + 3)

\* The values v_0, v_4, ..., v_72 before each subkey addition.
RECURSIVE Groups(_, _, _)
Groups(vs, kx, tx) ==
  IF Len(vs) = 19 THEN vs
  ELSE LET next == Append(vs, TfGroup(vs[Len(vs)], kx, tx, Len(vs) - 1))
       IN Groups(next, kx, tx)

\* Threefish-512 encryption of the words p under key k and tweak t, all
\* indexed from 0; the result is the tuple of the eight ciphertext words.
Threefish(k, t, p) ==
  LET k8 == WXor(WXor(WXor(k[0], k[1]), WXor(k[2], k[3])),
                 WXor(WXor(k[4], k[5]), WXor(k[6], k[7])))
      kx == <<k[0], k[1], k[2], k[3], k[4], k[5], k[6], k[7], WXor(C240, k8)>>
      tx == <<t[0], t[1], WXor(t[0], t[1])>>
      K  == [i \in 0..8 |-> kx[i + 1]]
      T  == [i \in 0..2 |-> tx[i + 1]]
      v  == Groups(<<<<p[0], p[1], p[2], p[3], p[4], p[5], p[6], p[7]>>>>, K, T)[19]
  IN AddKey(v, K, T, 18)

\* The tweak of a UBI block: position, type and the first/final flags.
Tweak(pos, type, first, final) ==
  <<WordOf(pos, 8),
    Zeros(7) \o <<type + (IF first THEN 64 ELSE 0) + (IF final THEN 128 ELSE 0)>>>>
\* One UBI step: chain value g, a 64-byte block, its tweak.
UBI(g, block, tw) ==
  LET p == [i \in 0..7 |-> Bytes(block, 8 * i, 8)]
      c == Threefish(g, [i \in 0..1 |-> tw[i + 1]], p)
  IN [i \in 0..7 |-> WXor(c[i + 1], p[i])]

TypeCfg == 4
TypeMsg == 48
TypeOut == 63

\* The configuration block: schema "SHA3", version 1, output length 256
\* bits, no tree; and the chaining value it yields.
ConfigBlock == <<83, 72, 65, 51, 1, 0, 0, 0>> \o WordOf(256, 8) \o Zeros(48)
IV == UBI([i \in 0..7 |-> Zeros(8)], ConfigBlock, Tweak(32, TypeCfg, TRUE, TRUE))

\* The message in 64-byte blocks, the last padded with zeros (at least one
\* block, even for the empty message).
NumBlocks(ms) == IF Len(ms) = 0 THEN 1 ELSE (Len(ms) + 63) \div 64
Block(ms, j) ==
  LET padded == ms \o Zeros(64 * NumBlocks(ms) - Len(ms))
  IN Bytes(padded, 64 * j, 64)
MsgTweak(ms, j) ==
  Tweak(IF 64 * (j + 1) < Len(ms) THEN 64 * (j + 1) ELSE Len(ms),
        TypeMsg, j = 0, j = NumBlocks(ms) - 1)

\* Before the chaining value is set, chain is <<>>.
Init ==
  /\ msg \in Messages
  /\ chain = <<>>
  /\ n = 0
  /\ digest = <<>>

\* The chaining value starts as the configuration's UBI.
Configure ==
  /\ chain = <<>>
  /\ chain' = IV
  /\ UNCHANGED <<msg, n, digest>>

\* UBI of one message block.
Absorb ==
  /\ chain # <<>> /\ n < NumBlocks(msg)
  /\ chain' = UBI(chain, Block(msg, n), MsgTweak(msg, n))
  /\ n' = n + 1
  /\ UNCHANGED <<msg, digest>>

\* The output transform: UBI of the 8-byte counter 0.
OutputBlock ==
  /\ n = NumBlocks(msg)
  /\ chain' = UBI(chain, Zeros(64), Tweak(8, TypeOut, TRUE, TRUE))
  /\ n' = n + 1
  /\ UNCHANGED <<msg, digest>>

\* The digest: the first 32 bytes of the output, words little-endian.
Finish ==
  /\ n = NumBlocks(msg) + 1 /\ digest = <<>>
  /\ digest' = chain[0] \o chain[1] \o chain[2] \o chain[3]
  /\ UNCHANGED <<msg, chain, n>>

Next == Configure \/ Absorb \/ OutputBlock \/ Finish

\* Only safety: the code's loops are bounded.
Spec == Init /\ [][Next]_avars
==============================================================================
