----------------------------- MODULE Blake256Ref -----------------------------
(***************************************************************************)
(* BLAKE-256 as its specification defines it, for a message of any whole  *)
(* number of bytes: generic padding, a bit counter that counts the message *)
(* bits absorbed so far (0 for a block holding only padding), ten message  *)
(* permutations used cyclically, and the standard order of the G steps.    *)
(* It is the contract blake256_hash promises: one step absorbs one padded  *)
(* block, the last step writes the digest.  Nothing in it is taken from    *)
(* the specialised driver of aux_hash.c.                                   *)
(***************************************************************************)
EXTENDS Word

CONSTANT Messages
ASSUME \A msg0 \in Messages : \E L \in 0..256 : msg0 \in [1..L -> Byte]

VARIABLES msg, chain, n, digest
avars == <<msg, chain, n, digest>>

\* Word k (0-based) of a byte string, big-endian.
BE32(bs, k) == Rev(Bytes(bs, 4 * k, 4))

\* The padded message: a 1 bit, zeros, a 1 bit ending byte 55 of the last
\* block, then the bit length as a 64-bit big-endian number.
Padded(ms) ==
  LET L    == Len(ms)
      z    == (54 - L) % 64          \* bytes strictly between the two 1 bits
      bits == 8 * L
      len  == Zeros(4) \o <<(bits \div 2^24) % 256, (bits \div 2^16) % 256,
                             (bits \div 2^8) % 256, bits % 256>>
  IN IF L % 64 = 55 THEN ms \o <<129>> \o len                 \* the two bits share a byte
     ELSE ms \o <<128>> \o Zeros(z) \o <<1>> \o len
NumBlocks(ms) == Len(Padded(ms)) \div 64

\* The counter of block j: message bits up to the end of it, or 0 when it
\* holds no message bit.
Counter(ms, j) ==
  IF 64 * j >= Len(ms) THEN 0
  ELSE 8 * (IF 64 * (j + 1) < Len(ms) THEN 64 * (j + 1) ELSE Len(ms))

Perm == <<
  <<0, 1, 2, 3, 4, 5, 6, 7, 8, 9, 10, 11, 12, 13, 14, 15>>,
  <<14, 10, 4, 8, 9, 15, 13, 6, 1, 12, 0, 2, 11, 7, 5, 3>>,
  <<11, 8, 12, 0, 5, 2, 15, 13, 10, 14, 3, 6, 7, 1, 9, 4>>,
  <<7, 9, 3, 1, 13, 12, 11, 14, 2, 6, 5, 10, 4, 0, 15, 8>>,
  <<9, 0, 5, 7, 2, 4, 10, 15, 14, 1, 11, 12, 6, 8, 3, 13>>,
  <<2, 12, 6, 10, 0, 11, 8, 3, 4, 13, 7, 5, 15, 14, 1, 9>>,
  <<12, 5, 1, 15, 14, 13, 4, 10, 0, 7, 6, 3, 9, 2, 8, 11>>,
  <<13, 11, 7, 14, 12, 1, 3, 9, 5, 0, 15, 4, 8, 6, 2, 10>>,
  <<6, 15, 14, 9, 11, 3, 0, 8, 12, 2, 13, 7, 1, 4, 10, 5>>,
  <<10, 2, 8, 4, 7, 6, 1, 5, 15, 11, 9, 14, 3, 12, 13, 0>> >>
\* sigma_{r mod 10}(j)
P(r, j) == Perm[(r % 10) + 1][j + 1]

\* The constants c_0 .. c_15: the first digits of pi.
C == <<
  W32(\h243F, \h6A88), W32(\h85A3, \h08D3), W32(\h1319, \h8A2E), W32(\h0370, \h7344),
  W32(\hA409, \h3822), W32(\h299F, \h31D0), W32(\h082E, \hFA98), W32(\hEC4E, \h6C89),
  W32(\h4528, \h21E6), W32(\h38D0, \h1377), W32(\hBE54, \h66CF), W32(\h34E9, \h0C6C),
  W32(\hC0AC, \h29B7), W32(\hC97C, \h50DD), W32(\h3F84, \hD5B5), W32(\hB547, \h0917) >>

\* G_j of round r on the state words with indices q = <<a, b, c, d>>.
Gj(st, mw, r, j, q) ==
  LET a == q[1]  b == q[2]  c == q[3]  d == q[4]
      x == P(r, 2 * j)  y == P(r, 2 * j + 1)
      a1 == WAdd(WAdd(st[a], st[b]), WXor(mw[x], C[y + 1]))
      d1 == RotR(WXor(st[d], a1), 16)
      c1 == WAdd(st[c], d1)
      b1 == RotR(WXor(st[b], c1), 12)
      a2 == WAdd(WAdd(a1, b1), WXor(mw[y], C[x + 1]))
      d2 == RotR(WXor(d1, a2), 8)
      c2 == WAdd(c1, d2)
  IN [st EXCEPT ![a] = a2, ![b] = RotR(WXor(b1, c2), 7), ![c] = c2, ![d] = d2]

\* The eight G_j of a round: columns G_0..G_3, then diagonals G_4..G_7.
Quads == <<<<0, 4, 8, 12>>, <<1, 5, 9, 13>>, <<2, 6, 10, 14>>, <<3, 7, 11, 15>>,
           <<0, 5, 10, 15>>, <<1, 6, 11, 12>>, <<2, 7, 8, 13>>, <<3, 4, 9, 14>>>>
\* Round r: G_0 .. G_7 in turn.
StdRound(st, mw, r) ==
  LET s1 == Gj(st, mw, r, 0, Quads[1])
      s2 == Gj(s1, mw, r, 1, Quads[2])
      s3 == Gj(s2, mw, r, 2, Quads[3])
      s4 == Gj(s3, mw, r, 3, Quads[4])
      s5 == Gj(s4, mw, r, 4, Quads[5])
      s6 == Gj(s5, mw, r, 5, Quads[6])
      s7 == Gj(s6, mw, r, 6, Quads[7])
  IN Gj(s7, mw, r, 7, Quads[8])
\* The working states v^0 .. v^14 before the first round and after each.
RECURSIVE RoundStates(_, _)
RoundStates(vs, mw) ==
  IF Len(vs) = 15 THEN vs
  ELSE LET next == Append(vs, StdRound(vs[Len(vs)], mw, Len(vs) - 1))
       IN RoundStates(next, mw)

\* The compression function on chain value hv, block bl, counter ctr and
\* a zero salt.
Compress(hv, bl, ctr) ==
  LET mw   == [k \in 0..15 |-> BE32(bl, k)]
      ct   == WordOf(ctr, 4)
      init == [k \in 0..15 |->
                 IF k < 8 THEN hv[k]
                 ELSE IF k \in {12, 13} THEN WXor(C[k - 7], ct)
                 ELSE C[k - 7]]                    \* t_1 = 0 and salt = 0
      fin  == RoundStates(<<init>>, mw)[15]
  IN [k \in 0..7 |-> WXor(WXor(hv[k], fin[k]), fin[k + 8])]

IV == <<W32(\h6A09, \hE667), W32(\hBB67, \hAE85), W32(\h3C6E, \hF372),
        W32(\hA54F, \hF53A), W32(\h510E, \h527F), W32(\h9B05, \h688C),
        W32(\h1F83, \hD9AB), W32(\h5BE0, \hCD19)>>

Init ==
  /\ msg \in Messages
  /\ chain = [k \in 0..7 |-> IV[k + 1]]
  /\ n = 0
  /\ digest = <<>>

Absorb ==
  /\ n < NumBlocks(msg)
  /\ chain' = Compress(chain, Bytes(Padded(msg), 64 * n, 64), Counter(msg, n))
  /\ n' = n + 1
  /\ UNCHANGED <<msg, digest>>

Finish ==
  /\ n = NumBlocks(msg) /\ digest = <<>>
  /\ digest' = Rev(chain[0]) \o Rev(chain[1]) \o Rev(chain[2])
                 \o Rev(chain[3]) \o Rev(chain[4]) \o Rev(chain[5])
                 \o Rev(chain[6]) \o Rev(chain[7])
  /\ UNCHANGED <<msg, chain, n>>

Next == Absorb \/ Finish

\* Only safety: every loop of the code is bounded, so that the digest is
\* eventually written is not in question.
Spec == Init /\ [][Next]_avars
==============================================================================
