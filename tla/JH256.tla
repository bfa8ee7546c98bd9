-------------------------------- MODULE JH256 --------------------------------
(***************************************************************************)
(* jh_hash and F8 of aux_hash.c: JH-256 specialised to a 200-byte input,  *)
(* in the bitsliced form of E8.                                            *)
(*                                                                         *)
(* State: jh_ctx's x[8][2], uint64_t values held as words; jh_hash's buf;  *)
(* the buffer F8 reads (bufPtr); F8's roundnumber, one round of the seven *)
(* of an iteration of its loop per step (rn); the F8 calls completed      *)
(* (nf8); the program counter; the caller's hashval.  F8 reads its block   *)
(* and the round constants through uint64_t pointer casts, whose values   *)
(* depend on the host's byte order; memcpy copies bytes.  The byte order *)
(* is fixed for a build: hostLittleEndian is chosen from HostOrders in the *)
(* initial state and no step changes it.                                   *)
(*                                                                         *)
(* hIn is an auxiliary variable the code does not have: the state bytes    *)
(* at the entry of the running F8, which F8 overwrites in place.  No       *)
(* action reads it; it only lets the refinement mapping show the abstract *)
(* specification the chaining value before the block while F8 runs.       *)
(***************************************************************************)
EXTENDS Word, JHTables

CONSTANT Inputs,            \* the 200-byte messages the caller may pass
         HostOrders         \* byte orders of the builds: TRUE is little-endian
ASSUME Inputs \subseteq [1..200 -> Byte]

ASSUME HostOrders \subseteq BOOLEAN

VARIABLES hostLittleEndian, data, x, buf, bufPtr, rn, nf8, pc, hashval, hIn
vars == <<hostLittleEndian, data, x, buf, bufPtr, rn, nf8, pc, hashval, hIn>>

Word64 == [1..8 -> Byte]

\* The uint64_t at byte offset off of a buffer, and a value's bytes.
Load64(b, off) == Native(hostLittleEndian, Bytes(b, off, 8))
Store64(v) == Native(hostLittleEndian, v)

\* The bytes of the state, x[0][0] first.
StateBytes(s) ==
  Store64(s[0][0]) \o Store64(s[0][1]) \o Store64(s[1][0]) \o Store64(s[1][1])
    \o Store64(s[2][0]) \o Store64(s[2][1]) \o Store64(s[3][0]) \o Store64(s[3][1])
    \o Store64(s[4][0]) \o Store64(s[4][1]) \o Store64(s[5][0]) \o Store64(s[5][1])
    \o Store64(s[6][0]) \o Store64(s[6][1]) \o Store64(s[7][0]) \o Store64(s[7][1])

\* One half (m0, m1, m2, m3 with cc0, or m4 .. m7 with cc1) of SS: the
\* two halves of the macro touch disjoint words and temporaries.  a is
\* <<m0, m1, m2, m3>>; the steps follow the macro's lines.
SSStep1(a, cc) ==           \* m3 = ~m3; m0 ^= ~m2 & cc
  <<WXor(a[1], WAnd(WNot(a[3]), cc)), a[2], a[3], WNot(a[4])>>
SSStep4(a, t) ==            \* m1 ^= temp & m0; m2 ^= temp
  <<a[1], WXor(a[2], WAnd(t, a[1])), WXor(a[3], t), a[4]>>
SSStep3Of(a, m2, t) ==      \* m2 ^= m0 & ~m3; m0 ^= m1 | m3; m3 ^= m1 & m2
  SSStep4(<<WXor(a[1], WOr(a[2], a[4])), a[2], m2, WXor(a[4], WAnd(a[2], m2))>>, t)
SSStep3(a, t) == SSStep3Of(a, WXor(a[3], WAnd(a[1], WNot(a[4]))), t)
SSStep2Of(a, m0, t) ==      \* m0 ^= m2 & m3; m3 ^= ~m1 & m2; m1 ^= m0 & m2
  SSStep3(<<m0, WXor(a[2], WAnd(m0, a[3])), a[3], WXor(a[4], WAnd(WNot(a[2]), a[3]))>>, t)
SSStep2(a, t) == SSStep2Of(a, WXor(a[1], WAnd(a[3], a[4])), t)
SSHalfOf(s1, cc) ==         \* temp = cc ^ (m0 & m1) after the first step
  SSStep2(s1, WXor(cc, WAnd(s1[1], s1[2])))
SSHalf(a, cc) == SSHalfOf(SSStep1(a, cc), cc)
SS(m, cc0, cc1) ==
  SSHalf(<<m[1], m[2], m[3], m[4]>>, cc0) \o SSHalf(<<m[5], m[6], m[7], m[8]>>, cc1)

\* L(m0, ..., m7): m4..m7 from m0..m3 first, then m0..m3 from them.
LSecond(m) ==
  <<WXor(m[1], m[6]), WXor(m[2], m[7]), WXor(m[3], WXor(m[5], m[8])), WXor(m[4], m[5]),
    m[5], m[6], m[7], m[8]>>
L(m) ==
  LSecond(<<m[1], m[2], m[3], m[4],
            WXor(m[5], m[2]), WXor(m[6], m[3]), WXor(m[7], WXor(m[1], m[4])), WXor(m[8], m[1])>>)

\* SWAP1, SWAP2, SWAP4, SWAP8, SWAP16 with their masks, and SWAP32.
SwapMask == << W64(\h5555, \h5555, \h5555, \h5555), W64(\h3333, \h3333, \h3333, \h3333),
               W64(\h0F0F, \h0F0F, \h0F0F, \h0F0F), W64(\h00FF, \h00FF, \h00FF, \h00FF),
               W64(0, \hFFFF, 0, \hFFFF) >>
SWAP(v, g) ==
  IF g = 5 THEN WOr(ShlW(v, 32), ShrW(v, 32))
  ELSE WOr(ShlW(WAnd(v, SwapMask[g + 1]), Pow2[g + 1]),
           ShrW(WAnd(v, WNot(SwapMask[g + 1])), Pow2[g + 1]))

\* The i-th half of round r: SS with the constant words i and i + 2 of
\* row r, L, and for r % 7 < 6 SWAP on the odd words m4..m7.
SwapOdd(l, r) ==
  IF r % 7 = 6 THEN l
  ELSE <<l[1], l[2], l[3], l[4], SWAP(l[5], r % 7), SWAP(l[6], r % 7),
         SWAP(l[7], r % 7), SWAP(l[8], r % 7)>>
HalfRound(m, r, i) ==
  LET cc(w) == Load64(E8_bitslice_roundconstant[r + 1], 8 * w)
  IN SwapOdd(L(SS(m, cc(i), cc(i + 2))), r)

\* The macro arguments x[0][i], x[2][i], x[4][i], x[6][i], x[1][i], ...
Slice(s, i) == <<s[0][i], s[2][i], s[4][i], s[6][i], s[1][i], s[3][i], s[5][i], s[7][i]>>
Unslice(h0, h1) ==
  LET pos == <<1, 5, 2, 6, 3, 7, 4, 8>>   \* x[w] is at pos[w + 1] of a slice
  IN [w \in 0..7 |-> [j \in 0..1 |-> IF j = 0 THEN h0[pos[w + 1]] ELSE h1[pos[w + 1]]]]

\* Round r of E8: both halves; after the seventh round of an iteration,
\* the loop at 575-580 swaps x[i][0] and x[i][1] for odd i.
SwapHalves(t, r) ==
  IF r % 7 = 6
    THEN [w \in 0..7 |-> IF w % 2 = 1 THEN [j \in 0..1 |-> t[w][1 - j]] ELSE t[w]]
    ELSE t
E8Round(s, r) ==
  SwapHalves(Unslice(HalfRound(Slice(s, 0), r, 0), HalfRound(Slice(s, 1), r, 1)), r)

\* The buffer F8 reads.
Src(p) == IF p.buf = "data" THEN data ELSE buf

\* memcpy(state.x, JH256_H0, 128); the first call F8(&state, data).
Init ==
  /\ hostLittleEndian \in HostOrders
  /\ data \in Inputs
  /\ x = [w \in 0..7 |-> [j \in 0..1 |-> Load64(JH256_H0, 16 * w + 8 * j)]]
  /\ buf = <<>>
  /\ bufPtr = [buf |-> "data", off |-> 0]
  /\ rn = 0 /\ nf8 = 0
  /\ pc = "entry"
  /\ hashval = <<>>
  /\ hIn = <<>>

\* F8(&state, data + 64) and F8(&state, data + 128).
CallData ==
  /\ pc = "driver" /\ nf8 \in {1, 2}
  /\ bufPtr' = [buf |-> "data", off |-> 64 * nf8]
  /\ pc' = "entry"
  /\ UNCHANGED <<data, x, buf, rn, nf8, hashval, hIn>>

\* The top of F8: state->x[i >> 1][i & 1] ^= ((uint64_t *)buffer)[i].
F8Entry ==
  /\ pc = "entry"
  /\ hIn' = StateBytes(x)
  /\ x' = [w \in 0..7 |-> [j \in 0..1 |->
             IF w < 4 THEN WXor(x[w][j], Load64(Src(bufPtr), bufPtr.off + 16 * w + 8 * j))
             ELSE x[w][j]]]
  /\ rn' = 0
  /\ pc' = "rounds"
  /\ UNCHANGED <<data, buf, bufPtr, nf8, hashval>>

\* One of the 42 rounds (one for (i = 0; i < 2; i++) block of F8's loop).
Round ==
  /\ pc = "rounds" /\ rn < 42
  /\ x' = E8Round(x, rn)
  /\ rn' = rn + 1
  /\ UNCHANGED <<data, buf, bufPtr, nf8, pc, hashval, hIn>>

\* The bottom of F8: the block into x[4..7]; return to jh_hash.
F8Exit ==
  /\ pc = "rounds" /\ rn = 42
  /\ x' = [w \in 0..7 |-> [j \in 0..1 |->
             IF w >= 4 THEN WXor(x[w][j], Load64(Src(bufPtr), bufPtr.off + 16 * (w - 4) + 8 * j))
             ELSE x[w][j]]]
  /\ nf8' = nf8 + 1
  /\ pc' = "driver"
  /\ UNCHANGED <<data, buf, bufPtr, rn, hashval, hIn>>

\* memcpy(buf, data + 192, 8); memset(buf + 8, 0, 56); buf[8] = 128;
\* F8(&state, buf).
PadFirst ==
  /\ pc = "driver" /\ nf8 = 3
  /\ buf' = Bytes(data, 192, 8) \o <<128>> \o Zeros(55)
  /\ bufPtr' = [buf |-> "buf", off |-> 0]
  /\ pc' = "entry"
  /\ UNCHANGED <<data, x, rn, nf8, hashval, hIn>>

\* Faulty variant: the length bytes written as 0x0640 - 8.
PadSecondShort ==
  /\ pc = "driver" /\ nf8 = 4
  /\ buf' = Zeros(12) \o SubSeq(buf, 13, 62) \o <<6, 56>>
  /\ bufPtr' = [buf |-> "buf", off |-> 0]
  /\ pc' = "entry"
  /\ UNCHANGED <<data, x, rn, nf8, hashval, hIn>>

\* memset(buf, 0, 12); buf[62] = 6; buf[63] = 64; F8(&state, buf): bytes
\* 12..61 are what the first padding block left there.
PadSecond ==
  /\ pc = "driver" /\ nf8 = 4
  /\ buf' = Zeros(12) \o SubSeq(buf, 13, 62) \o <<6, 64>>
  /\ bufPtr' = [buf |-> "buf", off |-> 0]
  /\ pc' = "entry"
  /\ UNCHANGED <<data, x, rn, nf8, hashval, hIn>>

\* Faulty variant: memcpy of 24 bytes.
OutputShort ==
  /\ pc = "driver" /\ nf8 = 5
  /\ hashval' = Bytes(StateBytes(x), 96, 24)
  /\ pc' = "done"
  /\ UNCHANGED <<data, x, buf, bufPtr, rn, nf8, hIn>>

\* memcpy(hashval, (uint8_t *)state.x + 96, 32).
Output ==
  /\ pc = "driver" /\ nf8 = 5
  /\ hashval' = Bytes(StateBytes(x), 96, 32)
  /\ pc' = "done"
  /\ UNCHANGED <<data, x, buf, bufPtr, rn, nf8, hIn>>

Next == /\ \/ CallData \/ F8Entry \/ Round \/ F8Exit \/ PadFirst \/ PadSecond \/ Output
        /\ UNCHANGED hostLittleEndian

Spec == Init /\ [][Next]_vars

-----------------------------------------------------------------------------
\* The contract: JH-256 of the input, one F8 per block.  While F8 runs,
\* the specification sees the state at its entry.
Ref == INSTANCE JH256Ref
         WITH Messages <- Inputs, msg <- data,
              chain <- IF pc = "rounds" THEN hIn ELSE StateBytes(x),
              n <- nf8, digest <- hashval

\* Every variable holds a value of its C type.
TypeOK ==
  /\ hostLittleEndian \in HostOrders
  /\ data \in Inputs
  /\ x \in [0..7 -> [0..1 -> Word64]]
  /\ buf \in {<<>>} \cup [1..64 -> Byte]
  /\ bufPtr \in [buf : {"data", "buf"}, off : {0, 64, 128}]
  /\ rn \in 0..42 /\ nf8 \in 0..5
  /\ pc \in {"entry", "rounds", "driver", "done"}
  /\ hashval \in {<<>>} \cup [1..32 -> Byte]

\* jh_hash implements JH-256 on 200-byte inputs: JH256_H0 is H(0); the
\* bitsliced rounds with their constant table, SWAPs and half swaps are
\* E8 with grouping, R8 and degrouping; the two hand-built padding blocks,
\* the second relying on bytes 12..61 of the first, are JH's padding; and
\* the digest is the last 32 bytes of the state.
JH256Refinement == Ref!Spec
==============================================================================
