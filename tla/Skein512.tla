------------------------------ MODULE Skein512 ------------------------------
(***************************************************************************)
(* skein_hash and Skein_512_Process_Block of aux_hash.c: Skein-512 with a  *)
(* 256-bit digest, specialised to a 200-byte input.                        *)
(*                                                                         *)
(* State: the skein_ctx (T, X; <<>> until set), skein_hash's buffer b, and *)
(* the locals of                                                           *)
(* the running Skein_512_Process_Block: the key and tweak schedule kw      *)
(* (ks = kw + 3, ts = kw), the working words X0..X7 (Xw), the message      *)
(* words w, the block pointer, the block count and byte count arguments,  *)
(* and which R512_8_rounds(R) comes next (rg).  nblk counts the blocks     *)
(* processed over all three calls.                                         *)
(***************************************************************************)
EXTENDS Word

CONSTANT Inputs,            \* the 200-byte messages the caller may pass
         HostLittleEndian   \* byte order of the build, for the final memcpy
ASSUME Inputs \subseteq [1..200 -> Byte]
ASSUME HostLittleEndian \in BOOLEAN

VARIABLES data, T, X, b, ks, ts, w, Xw, rg, blkPtr, blkCnt, byteCntAdd,
          nblk, pc, hashval
vars == <<data, T, X, b, ks, ts, w, Xw, rg, blkPtr, blkCnt, byteCntAdd,
          nblk, pc, hashval>>

Word64 == [1..8 -> Byte]
Zero64 == Zeros(8)

\* RotL_64(x, N)
RotL64(x, n) == RotL(x, n)

\* The rotation constants R_512_r_c.
R512Rot == << <<46, 36, 19, 37>>, <<33, 27, 14, 42>>, <<17, 49, 36, 39>>,
              <<44, 9, 54, 56>>, <<39, 30, 34, 24>>, <<13, 50, 10, 17>>,
              <<25, 29, 39, 43>>, <<8, 35, 56, 22>> >>

SKEIN_512_IV_256 ==
  << W64(\hCCD0, \h44A1, \h2FDB, \h3E13), W64(\hE835, \h9030, \h1A79, \hA9EB),
     W64(\h55AE, \hA061, \h4F81, \h6E6F), W64(\h2A27, \h67A4, \hAE9B, \h94DB),
     W64(\hEC06, \h025E, \h74DD, \h7683), W64(\hE7A4, \h36CD, \hC474, \h6251),
     W64(\hC36F, \hBAF9, \h393A, \hD185), W64(\h3EED, \hBA18, \h33ED, \hFC13) >>

\* 2004413935125273122ull, 8070450532247928832ull, 9223372036854775808ull,
\* ~4611686018427387904ull and 18374686479671623680ull.
KsParity  == W64(\h1BD1, \h1BDA, \hA9FC, \h1A22)
TFirstMsg == W64(\h7000, 0, 0, 0)
TFinal    == W64(\h8000, 0, 0, 0)
NotFirst  == W64(\hBFFF, \hFFFF, \hFFFF, \hFFFF)
TOutFinal == W64(\hFF00, 0, 0, 0)

\* Round512(p0, ..., p7, ROT, rNum): four add-rotate-xor mixes on the
\* pairs (p0, p1), (p2, p3), (p4, p5), (p6, p7) with the rotations rot.
Round512(x, p, rot) ==
  LET s0 == WAdd(x[p[1]], x[p[2]])
      s2 == WAdd(x[p[3]], x[p[4]])
      s4 == WAdd(x[p[5]], x[p[6]])
      s6 == WAdd(x[p[7]], x[p[8]])
  IN [x EXCEPT ![p[1]] = s0, ![p[2]] = WXor(RotL64(x[p[2]], rot[1]), s0),
               ![p[3]] = s2, ![p[4]] = WXor(RotL64(x[p[4]], rot[2]), s2),
               ![p[5]] = s4, ![p[6]] = WXor(RotL64(x[p[6]], rot[3]), s4),
               ![p[7]] = s6, ![p[8]] = WXor(RotL64(x[p[8]], rot[4]), s6)]

\* The word orders of the four R512 calls of R512_8_rounds.
R512Perm == << <<0, 1, 2, 3, 4, 5, 6, 7>>, <<2, 1, 4, 7, 6, 5, 0, 3>>,
               <<4, 1, 6, 3, 0, 5, 2, 7>>, <<6, 1, 0, 7, 2, 5, 4, 3>> >>

\* I512(R): the key schedule injection after every four rounds.
I512(x, r, k, t) ==
  [j \in 0..7 |->
     LET kj == WAdd(x[j], k[(r + j + 1) % 9])
     IN CASE j = 5 -> WAdd(kj, t[(r + 1) % 3])
          [] j = 6 -> WAdd(kj, t[(r + 2) % 3])
          [] j = 7 -> WAdd(kj, WordOf(r + 1, 8))
          [] OTHER -> kj]

\* R512_8_rounds(R): eight rounds with the two injections.
R512_8_rounds(x, r, k, t) ==
  LET x1 == Round512(x, R512Perm[1], R512Rot[1])
      x2 == Round512(x1, R512Perm[2], R512Rot[2])
      x3 == Round512(x2, R512Perm[3], R512Rot[3])
      x4 == Round512(x3, R512Perm[4], R512Rot[4])
      x5 == I512(x4, 2 * r, k, t)
      x6 == Round512(x5, R512Perm[1], R512Rot[5])
      x7 == Round512(x6, R512Perm[2], R512Rot[6])
      x8 == Round512(x7, R512Perm[3], R512Rot[7])
      x9 == Round512(x8, R512Perm[4], R512Rot[8])
  IN I512(x9, 2 * r + 1, k, t)

\* The buffer blkPtr points into.
Src(p) == IF p.buf = "data" THEN data ELSE b

\* The statement after the Skein_512_Process_Block call that returns once
\* nb blocks have been processed.
ReturnTo(nb) == CASE nb = 3 -> "call2" [] nb = 4 -> "call3" [] OTHER -> "output"

\* Entering Skein_512_Process_Block(&state, <buf>, cnt, add):
\* ts[0] = ctx->T[0]; ts[1] = ctx->T[1]; the rest of kw is not yet written.
Call(tw, buf, cnt, add) ==
  /\ ts' = [k \in 0..1 |-> tw[k]]
  /\ blkPtr' = [buf |-> buf, off |-> 0]
  /\ blkCnt' = cnt /\ byteCntAdd' = add
  /\ pc' = "entry"

Init ==
  /\ data \in Inputs
  /\ X = <<>> /\ T = <<>>
  /\ b = <<>> /\ ks = <<>> /\ ts = <<>> /\ w = <<>> /\ Xw = <<>>
  /\ rg = 0 /\ blkPtr = [buf |-> "data", off |-> 0] /\ blkCnt = 0
  /\ byteCntAdd = 0 /\ nblk = 0
  /\ pc = "call1"
  /\ hashval = <<>>

\* memcpy(state.X, SKEIN_512_IV_256, sizeof(state.X)); state.T[0] = 0;
\* state.T[1] = FIRST|MSG; Skein_512_Process_Block(&state, data, 3, 64).
Call1 ==
  /\ pc = "call1"
  /\ X' = [k \in 0..7 |-> SKEIN_512_IV_256[k + 1]]
  /\ T' = [k \in 0..1 |-> IF k = 0 THEN Zero64 ELSE TFirstMsg]
  /\ Call(T', "data", 3, 64)
  /\ UNCHANGED <<data, b, ks, w, Xw, rg, nblk, hashval>>

\* memcpy(b, data + 192, 8); memset(b + 8, 0, 56); state.T[1] |= FINAL;
\* Skein_512_Process_Block(&state, b, 1, 8).
Call2 ==
  /\ pc = "call2"
  /\ b' = Bytes(data, 192, 8) \o Zeros(56)
  /\ T' = [T EXCEPT ![1] = WOr(T[1], TFinal)]
  /\ Call(T', "b", 1, 8)
  /\ UNCHANGED <<data, X, ks, w, Xw, rg, nblk, hashval>>

\* memset(b, 0, 8); state.T[0] = 0; state.T[1] = OUT|FIRST|FINAL;
\* Skein_512_Process_Block(&state, b, 1, sizeof(uint64_t)).
Call3 ==
  /\ pc = "call3"
  /\ b' = Zeros(8) \o Bytes(b, 8, 56)
  /\ T' = [k \in 0..1 |-> IF k = 0 THEN Zero64 ELSE TOutFinal]
  /\ Call(T', "b", 1, 8)
  /\ UNCHANGED <<data, X, ks, w, Xw, rg, nblk, hashval>>

\* The top of the do loop: count the block's bytes into the tweak, build
\* the key schedule, load the block little-endian byte by byte, store the
\* tweak into ctx->T and add the first subkey.
BlockEntry ==
  /\ pc = "entry"
  /\ LET t0  == WAdd(ts[0], WordOf(byteCntAdd, 8))
         src == Src(blkPtr)
         par == WXor(WXor(WXor(WXor(X[0], X[1]), WXor(X[2], X[3])),
                          WXor(WXor(X[4], X[5]), WXor(X[6], X[7]))), KsParity)
     IN /\ ts' = [j \in 0..2 |-> CASE j = 0 -> t0 [] j = 1 -> ts[1]
                                      [] OTHER -> WXor(t0, ts[1])]
        /\ ks' = [j \in 0..8 |-> IF j < 8 THEN X[j] ELSE par]
        /\ w' = [j \in 0..7 |-> Bytes(src, blkPtr.off + 8 * j, 8)]
        /\ T' = [j \in 0..1 |-> IF j = 0 THEN t0 ELSE ts[1]]
        /\ Xw' = [j \in 0..7 |->
                   CASE j = 5 -> WAdd(WAdd(w'[j], X[j]), t0)
                     [] j = 6 -> WAdd(WAdd(w'[j], X[j]), ts[1])
                     [] OTHER -> WAdd(w'[j], X[j])]
        /\ blkPtr' = [blkPtr EXCEPT !.off = @ + 64]
  /\ rg' = 0
  /\ pc' = "rounds"
  /\ UNCHANGED <<data, X, b, blkCnt, byteCntAdd, nblk, hashval>>

\* One of R512_8_rounds(0) .. R512_8_rounds(8).
Rounds ==
  /\ pc = "rounds" /\ rg < 9
  /\ Xw' = R512_8_rounds(Xw, rg, ks, ts)
  /\ rg' = rg + 1
  /\ UNCHANGED <<data, T, X, b, ks, ts, w, blkPtr, blkCnt, byteCntAdd, nblk,
                 pc, hashval>>

\* Faulty variant: the FIRST flag left set after a block.
BlockExitKeepFirst ==
  /\ pc = "rounds" /\ rg = 9
  /\ X' = [j \in 0..7 |-> WXor(Xw[j], w[j])]
  /\ blkCnt' = blkCnt - 1
  /\ nblk' = nblk + 1
  /\ IF blkCnt' # 0
       THEN pc' = "entry" /\ UNCHANGED T
       ELSE /\ T' = [j \in 0..1 |-> ts[j]]
            /\ pc' = ReturnTo(nblk')
  /\ UNCHANGED <<data, b, ks, ts, w, Xw, rg, blkPtr, byteCntAdd, hashval>>

\* The bottom of the do loop: ctx->X = X ^ w, clear FIRST, --blkCnt; after
\* the last block, ctx->T = ts and return.
BlockExit ==
  /\ pc = "rounds" /\ rg = 9
  /\ X' = [j \in 0..7 |-> WXor(Xw[j], w[j])]
  /\ ts' = [ts EXCEPT ![1] = WAnd(@, NotFirst)]
  /\ blkCnt' = blkCnt - 1
  /\ nblk' = nblk + 1
  /\ IF blkCnt' # 0
       THEN pc' = "entry" /\ UNCHANGED T
       ELSE /\ T' = [j \in 0..1 |-> ts'[j]]
            /\ pc' = ReturnTo(nblk')
  /\ UNCHANGED <<data, b, ks, w, Xw, rg, blkPtr, byteCntAdd, hashval>>

\* Faulty variant: memcpy of 24 bytes instead of 32.
OutputThreeWords ==
  /\ pc = "output"
  /\ hashval' = Native(HostLittleEndian, X[0]) \o Native(HostLittleEndian, X[1])
                  \o Native(HostLittleEndian, X[2])
  /\ pc' = "done"
  /\ UNCHANGED <<data, T, X, b, ks, ts, w, Xw, rg, blkPtr, blkCnt, byteCntAdd,
                 nblk>>

\* memcpy(hashval, state.X, 32): the words in the host's byte order.
Output ==
  /\ pc = "output"
  /\ hashval' = Native(HostLittleEndian, X[0]) \o Native(HostLittleEndian, X[1])
                  \o Native(HostLittleEndian, X[2]) \o Native(HostLittleEndian, X[3])
  /\ pc' = "done"
  /\ UNCHANGED <<data, T, X, b, ks, ts, w, Xw, rg, blkPtr, blkCnt, byteCntAdd,
                 nblk>>

Next == Call1 \/ Call2 \/ Call3 \/ BlockEntry \/ Rounds \/ BlockExit \/ Output

Spec == Init /\ [][Next]_vars

-----------------------------------------------------------------------------
\* The contract: Skein-512-256 of the input, one UBI block per iteration of
\* Skein_512_Process_Block's loop.
Ref == INSTANCE Skein512Ref
         WITH Messages <- Inputs, msg <- data, chain <- X, n <- nblk,
              digest <- hashval

\* Every variable holds a value of its C type.
TypeOK ==
  /\ data \in Inputs
  /\ T \in {<<>>} \cup [0..1 -> Word64] /\ X \in {<<>>} \cup [0..7 -> Word64]
  /\ b \in {<<>>} \cup [1..64 -> Byte]
  /\ ks \in {<<>>} \cup [0..8 -> Word64]
  /\ ts \in {<<>>} \cup [0..1 -> Word64] \cup [0..2 -> Word64]
  /\ w \in {<<>>} \cup [0..7 -> Word64]
  /\ Xw \in {<<>>} \cup [0..7 -> Word64]
  /\ rg \in 0..9 /\ blkCnt \in 0..3 /\ byteCntAdd \in {0, 8, 64}
  /\ blkPtr \in [buf : {"data", "b"}, off : {0, 64, 128, 192}]
  /\ nblk \in 0..5
  /\ pc \in {"call1", "call2", "call3", "entry", "rounds", "output", "done"}
  /\ hashval \in {<<>>} \cup [1..32 -> Byte]

\* skein_hash implements Skein-512-256 on 200-byte inputs: SKEIN_512_IV_256
\* is UBI of the configuration block; the tweaks the driver and
\* Skein_512_Process_Block build (T[1] = FIRST|MSG, FIRST cleared after each
\* block, FINAL or'ed in for the fourth, a fresh OUT tweak for the output
\* block, T[0] advanced by each block's byte count) are the UBI tweaks; the
\* unrolled rounds with I512 are Threefish-512; and the digest is the
\* first 32 bytes of the output.
Skein512Refinement == Ref!Spec
==============================================================================
