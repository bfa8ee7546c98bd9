------------------------------ MODULE Blake256 ------------------------------
(***************************************************************************)
(* blake256_hash and blake256_compress of src/crypto/pow_hash/aux_hash.c:  *)
(* BLAKE-256 specialised to a 200-byte input and a 32-byte digest.         *)
(*                                                                         *)
(* The state is the blake_ctx S (h, s, t), the locals v and m of           *)
(* blake256_compress and its round counter i, the driver's position        *)
(* (nblk: compressions finished, pc: where control is) and the caller's    *)
(* hashval buffer.  One step is one statement group of the code: the       *)
(* counter update with the set-up of v and m, one iteration of the round   *)
(* loop, the feed-forward, and the output.                                 *)
(***************************************************************************)
EXTENDS Word

CONSTANT Inputs   \* the 200-byte messages the caller may pass
ASSUME Inputs \subseteq [1..200 -> Byte]

VARIABLES data,     \* the caller's 200-byte input
          h, s, t,  \* blake_ctx: chain value, salt, bit counter
          v, m,     \* blake256_compress's working words and message words
          i,        \* blake256_compress's round counter
          nblk,     \* compressions finished by blake256_hash
          pc,       \* "block", "round", "output" or "done"
          hashval   \* the caller's output buffer, <<>> until written

vars == <<data, h, s, t, v, m, i, nblk, pc, hashval>>

Word32 == [1..4 -> Byte]
Zero32 == Zeros(4)

\* U8TO32 reads a big-endian word, U32TO8 writes one.
U8TO32(p, off) == Rev(Bytes(p, off, 4))
U32TO8(x) == Rev(x)

\* The message permutations sigma[r][e] and the constants cst[k].
sigma == <<
  <<0, 1, 2, 3, 4, 5, 6, 7, 8, 9, 10, 11, 12, 13, 14, 15>>,
  <<14, 10, 4, 8, 9, 15, 13, 6, 1, 12, 0, 2, 11, 7, 5, 3>>,
  <<11, 8, 12, 0, 5, 2, 15, 13, 10, 14, 3, 6, 7, 1, 9, 4>>,
  <<7, 9, 3, 1, 13, 12, 11, 14, 2, 6, 5, 10, 4, 0, 15, 8>>,
  <<9, 0, 5, 7, 2, 4, 10, 15, 14, 1, 11, 12, 6, 8, 3, 13>>,
  <<2, 12, 6, 10, 0, 11, 8, 3, 4, 13, 7, 5, 15, 14, 1, 9>>,
  <<12, 5, 1, 15, 14, 13, 4, 10, 0, 7, 6, 3, 9, 2, 8, 11>>,
  <<13, 11, 7, 14, 12, 1, 3, 9, 5, 0, 15, 4, 8, 6, 2, 10>>,
  <<6, 15, 14, 9, 11, 3, 0, 8, 12, 2, 13, 7, 1, 4, 10, 5>>,
  <<10, 2, 8, 4, 7, 6, 1, 5, 15, 11, 9, 14, 3, 12, 13, 0>>,
  <<0, 1, 2, 3, 4, 5, 6, 7, 8, 9, 10, 11, 12, 13, 14, 15>>,
  <<14, 10, 4, 8, 9, 15, 13, 6, 1, 12, 0, 2, 11, 7, 5, 3>>,
  <<11, 8, 12, 0, 5, 2, 15, 13, 10, 14, 3, 6, 7, 1, 9, 4>>,
  <<7, 9, 3, 1, 13, 12, 11, 14, 2, 6, 5, 10, 4, 0, 15, 8>> >>
Sigma(r, e) == sigma[r + 1][e + 1]
cst == <<
  W32(\h243F, \h6A88), W32(\h85A3, \h08D3), W32(\h1319, \h8A2E), W32(\h0370, \h7344),
  W32(\hA409, \h3822), W32(\h299F, \h31D0), W32(\h082E, \hFA98), W32(\hEC4E, \h6C89),
  W32(\h4528, \h21E6), W32(\h38D0, \h1377), W32(\hBE54, \h66CF), W32(\h34E9, \h0C6C),
  W32(\hC0AC, \h29B7), W32(\hC97C, \h50DD), W32(\h3F84, \hD5B5), W32(\hB547, \h0917) >>
Cst(k) == cst[k + 1]

\* The macro G(a, b, c, d, e) of round r on the working words w; ROT(x, n)
\* rotates right.
G(w, r, a, b, c, d, e) ==
  LET x  == Sigma(r, e)
      y  == Sigma(r, e + 1)
      a1 == WAdd(w[a], WAdd(WXor(m[x], Cst(y)), w[b]))
      d1 == RotR(WXor(w[d], a1), 16)
      c1 == WAdd(w[c], d1)
      b1 == RotR(WXor(w[b], c1), 12)
      a2 == WAdd(a1, WAdd(WXor(m[y], Cst(x)), b1))
      d2 == RotR(WXor(d1, a2), 8)
      c2 == WAdd(c1, d2)
      b2 == RotR(WXor(b1, c2), 7)
  IN [w EXCEPT ![a] = a2, ![b] = b2, ![c] = c2, ![d] = d2]

\* One iteration of the round loop: four column steps, then four diagonal
\* steps in the order the code lists them.
RoundFn(w, r) ==
  LET w1 == G(w, r, 0, 4, 8, 12, 0)
      w2 == G(w1, r, 1, 5, 9, 13, 2)
      w3 == G(w2, r, 2, 6, 10, 14, 4)
      w4 == G(w3, r, 3, 7, 11, 15, 6)
      w5 == G(w4, r, 3, 4, 9, 14, 14)
      w6 == G(w5, r, 2, 7, 8, 13, 12)
      w7 == G(w6, r, 0, 5, 10, 15, 8)
  IN G(w7, r, 1, 6, 11, 12, 10)

IV == <<W32(\h6A09, \hE667), W32(\hBB67, \hAE85), W32(\h3C6E, \hF372),
        W32(\hA54F, \hF53A), W32(\h510E, \h527F), W32(\h9B05, \h688C),
        W32(\h1F83, \hD9AB), W32(\h5BE0, \hCD19)>>

\* blake256_compress up to its round loop, on block with counter tc:
\* load m, seed v from h, the salt, the constants and the counter.
CompressEntry(block, tc) ==
  /\ m' = [k \in 0..15 |-> U8TO32(block, 4 * k)]
  /\ v' = [k \in 0..15 |->
             CASE k < 8  -> h[k]
               [] k < 12 -> WXor(s[k - 8], Cst(k - 8))
               [] k < 14 -> WXor(Cst(k - 8), tc[0])
               [] OTHER  -> WXor(Cst(k - 8), tc[1])]
  /\ i' = 0

\* The last block: the final 8 bytes, 0x80, zero fill, the 0x01 marker at
\* byte 55 and the counter t (after t[0] += 64) big-endian at 56 and 60.
PadBuf(tc) ==
  Bytes(data, 192, 8) \o <<128>> \o Zeros(46) \o <<1>>
    \o U32TO8(tc[1]) \o U32TO8(tc[0])

Init ==
  /\ data \in Inputs
  /\ h = [k \in 0..7 |-> IV[k + 1]]
  /\ s = [k \in 0..3 |-> Zero32]
  /\ t = [k \in 0..1 |-> Zero32]
  /\ v = <<>> /\ m = <<>> /\ i = 0
  /\ nblk = 0
  /\ pc = "block"
  /\ hashval = <<>>

\* S.t[0] += 512; blake256_compress(&S, data); data += 64; up to the round
\* loop, for each of the three full blocks.
FullBlock ==
  /\ pc = "block" /\ nblk < 3
  /\ t' = [t EXCEPT ![0] = WAdd(t[0], WordOf(512, 4))]
  /\ CompressEntry(Bytes(data, 64 * nblk, 64), t')
  /\ pc' = "round"
  /\ UNCHANGED <<data, h, s, nblk, hashval>>

\* Faulty variant: the counter advanced by the 8 bytes of the last block
\* instead of its 64 bits.
LastBlockByteCount ==
  /\ pc = "block" /\ nblk = 3
  /\ t' = [t EXCEPT ![0] = WAdd(t[0], WordOf(8, 4))]
  /\ CompressEntry(PadBuf(t'), t')
  /\ pc' = "round"
  /\ UNCHANGED <<data, h, s, nblk, hashval>>

\* The padded last block, with S.t[0] += 64, up to the round loop.
LastBlock ==
  /\ pc = "block" /\ nblk = 3
  /\ t' = [t EXCEPT ![0] = WAdd(t[0], WordOf(64, 4))]
  /\ CompressEntry(PadBuf(t'), t')
  /\ pc' = "round"
  /\ UNCHANGED <<data, h, s, nblk, hashval>>

\* One iteration of for(i = 0; i < 14; ++i).
Round ==
  /\ pc = "round" /\ i < 14
  /\ v' = RoundFn(v, i)
  /\ i' = i + 1
  /\ UNCHANGED <<data, h, s, t, m, nblk, pc, hashval>>

\* The feed-forward that ends blake256_compress:
\* S->h[i % 8] ^= v[i] for all 16 words, then S->h[i] ^= S->s[i % 4].
Feedforward ==
  /\ pc = "round" /\ i = 14
  /\ h' = [k \in 0..7 |-> WXor(WXor(WXor(h[k], v[k]), v[k + 8]), s[k % 4])]
  /\ nblk' = nblk + 1
  /\ pc' = IF nblk' = 4 THEN "output" ELSE "block"
  /\ UNCHANGED <<data, s, t, v, m, i, hashval>>

\* Faulty variant: the last U32TO8 of the digest left out.
OutputSevenWords ==
  /\ pc = "output"
  /\ hashval' = U32TO8(h[0]) \o U32TO8(h[1]) \o U32TO8(h[2]) \o U32TO8(h[3])
                  \o U32TO8(h[4]) \o U32TO8(h[5]) \o U32TO8(h[6])
  /\ pc' = "done"
  /\ UNCHANGED <<data, h, s, t, v, m, i, nblk>>

\* U32TO8(hashval + 4k, S.h[k]) for k in 0..7.
Output ==
  /\ pc = "output"
  /\ hashval' = U32TO8(h[0]) \o U32TO8(h[1]) \o U32TO8(h[2]) \o U32TO8(h[3])
                  \o U32TO8(h[4]) \o U32TO8(h[5]) \o U32TO8(h[6]) \o U32TO8(h[7])
  /\ pc' = "done"
  /\ UNCHANGED <<data, h, s, t, v, m, i, nblk>>

Next == FullBlock \/ LastBlock \/ Round \/ Feedforward \/ Output

Spec == Init /\ [][Next]_vars

-----------------------------------------------------------------------------
\* The contract: BLAKE-256 of the input, one padded block per compression.
Ref == INSTANCE Blake256Ref
         WITH Messages <- Inputs, msg <- data, chain <- h, n <- nblk,
              digest <- hashval

\* Every variable holds a value of its C type.
TypeOK ==
  /\ data \in Inputs
  /\ h \in [0..7 -> Word32] /\ s \in [0..3 -> Word32] /\ t \in [0..1 -> Word32]
  /\ v \in {<<>>} \cup [0..15 -> Word32]
  /\ m \in {<<>>} \cup [0..15 -> Word32]
  /\ i \in 0..14 /\ nblk \in 0..4
  /\ pc \in {"block", "round", "output", "done"}
  /\ hashval \in {<<>>} \cup [1..32 -> Byte]

\* blake256_hash implements BLAKE-256 on 200-byte inputs: each call of
\* blake256_compress, with the counter the driver sets and the block it
\* builds, is one compression of the generic padded message, the diagonal
\* G steps in the code's order included, and the digest it writes is the
\* generic digest.
Blake256Refinement == Ref!Spec
==============================================================================
