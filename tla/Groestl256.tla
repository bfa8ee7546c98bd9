------------------------------ MODULE Groestl256 ------------------------------
(***************************************************************************)
(* groestl_hash, Transform, RND512P and RND512Q of aux_hash.c: Groestl-256 *)
(* specialised to a 200-byte input, with the 64-bit state held in uint32_t *)
(* words that are also read as bytes.                                      *)
(*                                                                         *)
(* Memory is modelled as memory: each uint32_t array is a tuple of its 16  *)
(* words (word c at At(a, c)), each the four bytes it occupies in address *)
(* order.  A                                                               *)
(* word is read as a value (Val) or a value stored (Mem) in the byte order *)
(* of the build, the constant HostLittleEndian; the uint8_t accesses of    *)
(* COLUMN and the memcpy calls see the bytes as they are.                  *)
(*                                                                         *)
(* State: the arrays in mem (context.chaining, Transform's Ptmp, Qtmp, y   *)
(* and z, groestl_hash's temp), groestl_hash's buf, Transform's input      *)
(* pointer and msglen, the round about to run (k), the blocks compressed   *)
(* so far (nblk), the program counter, and the caller's hashval.           *)
(***************************************************************************)
EXTENDS GroestlTable
LOCAL INSTANCE SequencesExt

CONSTANT Inputs,            \* the 200-byte messages the caller may pass
         HostLittleEndian   \* byte order of the build
ASSUME Inputs \subseteq [1..200 -> Byte]
ASSUME HostLittleEndian \in BOOLEAN

VARIABLES data, mem, buf, input, msglen, k, nblk, pc, hashval
vars == <<data, mem, buf, input, msglen, k, nblk, pc, hashval>>

Arrays == {"chaining", "Ptmp", "Qtmp", "y", "z", "temp"}
Word32 == [1..4 -> Byte]

\* The value of the uint32_t whose bytes are m, and the bytes of value v.
Val(m) == Native(HostLittleEndian, m)
Mem(v) == Native(HostLittleEndian, v)

\* u32BIG(a): the two byte rotations ROTL32 by 8 and 24, masked and or'ed.
U32Big(a) == WOr(WAnd(RotL(a, 8), W32(\h00FF, \h00FF)),
                 WAnd(RotL(a, 24), W32(\hFF00, \hFF00)))

\* A uint32_t[16] with word c equal to F[c + 1], built as a tuple.
Array(F) == SubSeq(F, 1, 16)

\* x32[c] ^= 0x00000010 * (c / 2) ^ r for even c (RND512P).
AddConstP(x, r) ==
  Array([i \in 1..16 |->
           LET c == i - 1
           IN IF c % 2 = 0 THEN Mem(WXor(Val(At(x, c)), WXor(WordOf(8 * c, 4), r)))
              ELSE At(x, c)])

\* x32[c] = ~x32[c] for even c; x32[c] ^= 0x?fffffff ^ r for odd c, the
\* top nibble f, e, d, ..., 8 (RND512Q).
AddConstQ(x, r) ==
  Array([i \in 1..16 |->
           LET c == i - 1
           IN IF c % 2 = 0 THEN Mem(WNot(Val(At(x, c))))
              ELSE Mem(WXor(Val(At(x, c)),
                            WXor(W32(\hFFFF - \h1000 * (c \div 2), \hFFFF), r)))])

\* ROTATE_COLUMN_DOWN(v1, v2, a): v1 = (v1 << 8a) | (v2 >> (32 - 8a)) and
\* v2 = (v2 << 8a) | (v1 >> (32 - 8a)).  The shifts are by whole bytes, so
\* each new word is the top a bytes of the other word below the low 4 - a
\* bytes of its own (a = 0, where COLUMN does not rotate, leaves both).
RotateColumnDown(v1, v2, a) ==
  <<SubSeq(v2, 5 - a, 4) \o SubSeq(v1, 1, 4 - a),
    SubSeq(v1, 5 - a, 4) \o SubSeq(v2, 1, 4 - a)>>

\* The contribution of the byte x[4 * c + (j % 4)], the j-th of COLUMN:
\* T[2b] and T[2b + 1] rotated down by j % 4 bytes.
TermOf(b, a) == RotateColumnDown(TEntry(2 * b), TEntry(2 * b + 1), a)
Term(x, c, j) == TermOf(At(x, c)[(j % 4) + 1], j % 4)

\* COLUMN with the words cs = <<c0, ..., c7>>: <<tu, tl>>.  The pairs of
\* c0..c3 go (upper, lower) into (tu, tl), those of c4..c7 into (tl, tu).
Combine(t) ==
  LET u(j) == t[j + 1][IF j < 4 THEN 1 ELSE 2]
      l(j) == t[j + 1][IF j < 4 THEN 2 ELSE 1]
  IN << WXor(WXor(WXor(u(0), u(1)), WXor(u(2), u(3))),
             WXor(WXor(u(4), u(5)), WXor(u(6), u(7)))),
        WXor(WXor(WXor(l(0), l(1)), WXor(l(2), l(3))),
             WXor(WXor(l(4), l(5)), WXor(l(6), l(7)))) >>
COLUMN(x, cs) ==
  Combine(<<Term(x, cs[1], 0), Term(x, cs[2], 1), Term(x, cs[3], 2), Term(x, cs[4], 3),
            Term(x, cs[5], 4), Term(x, cs[6], 5), Term(x, cs[7], 6), Term(x, cs[8], 7)>>)

\* The word arguments c0..c7 of the eight COLUMN calls of RND512P and of
\* RND512Q, for i = 0, 2, ..., 14.
PCols == << <<0, 2, 4, 6, 9, 11, 13, 15>>, <<2, 4, 6, 8, 11, 13, 15, 1>>,
            <<4, 6, 8, 10, 13, 15, 1, 3>>, <<6, 8, 10, 12, 15, 1, 3, 5>>,
            <<8, 10, 12, 14, 1, 3, 5, 7>>, <<10, 12, 14, 0, 3, 5, 7, 9>>,
            <<12, 14, 0, 2, 5, 7, 9, 11>>, <<14, 0, 2, 4, 7, 9, 11, 13>> >>
QCols == << <<2, 6, 10, 14, 1, 5, 9, 13>>, <<4, 8, 12, 0, 3, 7, 11, 15>>,
            <<6, 10, 14, 2, 5, 9, 13, 1>>, <<8, 12, 0, 4, 7, 11, 15, 3>>,
            <<10, 14, 2, 6, 9, 13, 1, 5>>, <<12, 0, 4, 8, 11, 15, 3, 7>>,
            <<14, 2, 6, 10, 13, 1, 5, 9>>, <<0, 4, 8, 12, 15, 3, 7, 11>> >>

\* y[i] = tu; y[i + 1] = tl for the eight columns.
StoreColumns(cols) == Array([i \in 1..16 |-> Mem(cols[((i - 1) \div 2) + 1][((i - 1) % 2) + 1])])
Columns(x, css) ==
  StoreColumns(<<COLUMN(x, css[1]), COLUMN(x, css[2]), COLUMN(x, css[3]),
                 COLUMN(x, css[4]), COLUMN(x, css[5]), COLUMN(x, css[6]),
                 COLUMN(x, css[7]), COLUMN(x, css[8])>>)

\* A round RND512?(src, dst, r) in memory m: the constants are added to
\* src in place (xa), then dst receives the columns of xa.
RoundIn(m, src, dst, xa, css) == [m EXCEPT ![src] = xa, ![dst] = Columns(xa, css)]

\* The arrays of round k of Transform's and the output's ping-pong: the
\* first round reads first, the last writes last, y and z alternate.
RoundSrc(rk, first) == IF rk = 0 THEN first ELSE IF rk % 2 = 1 THEN "y" ELSE "z"
RoundDst(rk, last) == IF rk = 9 THEN last ELSE IF rk % 2 = 0 THEN "y" ELSE "z"

\* The buffer Transform's input points into.
Src(p) == IF p.buf = "data" THEN data ELSE buf

\* The bytes of a uint32_t array in address order.
Flat(a) == FlattenSeq(a)

\* memset(context.chaining, 0, 60); context.chaining[15] = u32BIG(256);
\* Transform(&context, data, 200).
Init ==
  /\ data \in Inputs
  /\ mem = [a \in Arrays |->
              IF a = "chaining"
                THEN [i \in 1..15 |-> Zeros(4)] \o <<Mem(U32Big(WordOf(256, 4)))>>
              ELSE <<>>]
  /\ buf = <<>>
  /\ input = [buf |-> "data", off |-> 0] /\ msglen = 200
  /\ k = 0 /\ nblk = 0
  /\ pc = "loop"
  /\ hashval = <<>>

\* The top of Transform's loop body with msglen >= 64: z = the input
\* words, Ptmp = chaining ^ input, through (uint32_t *) input.
BlockLoad ==
  /\ pc = "loop" /\ msglen >= 64
  /\ LET in(c) == Bytes(Src(input), input.off + 4 * c, 4)
     IN mem' = [mem EXCEPT
                  !["z"] = Array([i \in 1..16 |-> in(i - 1)]),
                  !["Ptmp"] = Array([i \in 1..16 |->
                                Mem(WXor(Val(At(mem["chaining"], i - 1)), Val(in(i - 1))))])]
  /\ k' = 0
  /\ pc' = "q"
  /\ UNCHANGED <<data, buf, input, msglen, nblk, hashval>>

\* RND512Q(src, dst, k << 24), for k = 0 .. 9: z -> y -> z ... -> Qtmp.
RoundQ ==
  /\ pc = "q"
  /\ LET s == RoundSrc(k, "z")
     IN mem' = RoundIn(mem, s, RoundDst(k, "Qtmp"),
                       AddConstQ(mem[s], W32(\h100 * k, 0)), QCols)
  /\ k' = (k + 1) % 10
  /\ pc' = IF k = 9 THEN "p" ELSE "q"
  /\ UNCHANGED <<data, buf, input, msglen, nblk, hashval>>

\* RND512P(src, dst, k), for k = 0 .. 9: Ptmp -> y -> z ... -> Ptmp in
\* Transform, temp -> y -> z ... -> temp in the output transformation.
RoundP ==
  /\ pc \in {"p", "outp"}
  /\ LET a == IF pc = "p" THEN "Ptmp" ELSE "temp"
         s == RoundSrc(k, a)
     IN mem' = RoundIn(mem, s, RoundDst(k, a), AddConstP(mem[s], WordOf(k, 4)), PCols)
  /\ k' = (k + 1) % 10
  /\ pc' = IF k < 9 THEN pc ELSE IF pc = "p" THEN "mix" ELSE "fin"
  /\ UNCHANGED <<data, buf, input, msglen, nblk, hashval>>

\* ctx->chaining[c] ^= Ptmp[c] ^ Qtmp[c]; then the loop's msglen -= 64,
\* input += 64.
Mix ==
  /\ pc = "mix"
  /\ mem' = [mem EXCEPT !["chaining"] =
               Array([i \in 1..16 |->
                        LET c == i - 1
                        IN Mem(WXor(Val(At(@, c)), WXor(Val(At(mem["Ptmp"], c)),
                                                        Val(At(mem["Qtmp"], c)))))])]
  /\ msglen' = msglen - 64
  /\ input' = [input EXCEPT !.off = @ + 64]
  /\ nblk' = nblk + 1
  /\ pc' = "loop"
  /\ UNCHANGED <<data, buf, k, hashval>>

\* Transform returns with msglen < 64: to groestl_hash's padding after the
\* call on data (the 8-byte tail is left unread), to the output
\* transformation after the call on buf.
LoopExit ==
  /\ pc = "loop" /\ msglen < 64
  /\ pc' = IF input.buf = "data" THEN "pad" ELSE "out"
  /\ UNCHANGED <<data, mem, buf, input, msglen, k, nblk, hashval>>

\* Faulty variant: the block count byte written as 3.
PadCountThree ==
  /\ pc = "pad"
  /\ buf' = Bytes(data, 192, 8) \o <<128>> \o Zeros(54) \o <<3>>
  /\ input' = [buf |-> "buf", off |-> 0] /\ msglen' = 64
  /\ pc' = "loop"
  /\ UNCHANGED <<data, mem, k, nblk, hashval>>

\* memcpy(buf, data + 192, 8); memset(buf + 8, 0, 56); buf[8] = 0x80;
\* buf[63] = 4; Transform(&context, buf, 64).
Pad ==
  /\ pc = "pad"
  /\ buf' = Bytes(data, 192, 8) \o <<128>> \o Zeros(54) \o <<4>>
  /\ input' = [buf |-> "buf", off |-> 0] /\ msglen' = 64
  /\ pc' = "loop"
  /\ UNCHANGED <<data, mem, k, nblk, hashval>>

\* memcpy(temp, context.chaining, 64), before the output rounds.
OutStart ==
  /\ pc = "out"
  /\ mem' = [mem EXCEPT !["temp"] = mem["chaining"]]
  /\ k' = 0
  /\ pc' = "outp"
  /\ UNCHANGED <<data, buf, input, msglen, nblk, hashval>>

\* The chaining words 8..15 after context.chaining[c] ^= temp[c].
FeedForward(ch, tmp) ==
  Array([i \in 1..16 |->
           IF i > 8 THEN Mem(WXor(Val(ch[i]), Val(tmp[i]))) ELSE ch[i]])

\* Faulty variant: memcpy of 28 bytes instead of 32.
FinishSevenWords ==
  /\ pc = "fin"
  /\ mem' = [mem EXCEPT !["chaining"] = FeedForward(@, mem["temp"])]
  /\ hashval' = Bytes(Flat(mem'["chaining"]), 32, 28)
  /\ pc' = "done"
  /\ UNCHANGED <<data, buf, input, msglen, k, nblk>>

\* context.chaining[c] ^= temp[c] for c = 8..15; memcpy(hashval,
\* context.chaining + 8, 32).
Finish ==
  /\ pc = "fin"
  /\ mem' = [mem EXCEPT !["chaining"] = FeedForward(@, mem["temp"])]
  /\ hashval' = Bytes(Flat(mem'["chaining"]), 32, 32)
  /\ pc' = "done"
  /\ UNCHANGED <<data, buf, input, msglen, k, nblk>>

Next == BlockLoad \/ RoundQ \/ RoundP \/ Mix \/ LoopExit \/ Pad \/ OutStart
          \/ Finish

Spec == Init /\ [][Next]_vars

-----------------------------------------------------------------------------
\* The chaining value the abstract specification sees: context.chaining,
\* except that after the output feed-forward it is the value before it
\* (XOR with temp undoes it), since the specification's output step
\* leaves h unchanged.
ChainBytes ==
  Flat(IF pc = "done" THEN FeedForward(mem["chaining"], mem["temp"])
       ELSE mem["chaining"])

\* The contract: Groestl-256 of the input, one compression per iteration
\* of Transform's loop.
Ref == INSTANCE Groestl256Ref
         WITH Messages <- Inputs, msg <- data, chain <- ChainBytes, n <- nblk,
              digest <- hashval

\* Every variable holds a value of its C type.
TypeOK ==
  /\ data \in Inputs
  /\ mem \in [Arrays -> {<<>>} \cup [1..16 -> Word32]]
  /\ buf \in {<<>>} \cup [1..64 -> Byte]
  /\ input \in [buf : {"data", "buf"}, off : {0, 64, 128, 192}]
  /\ msglen \in {200, 136, 72, 8, 64, 0}
  /\ k \in 0..9 /\ nblk \in 0..4
  /\ pc \in {"loop", "q", "p", "mix", "pad", "out", "outp", "fin", "done"}
  /\ hashval \in {<<>>} \cup [1..32 -> Byte]

\* groestl_hash implements Groestl-256 on 200-byte inputs: the IV written
\* through memset and u32BIG, Transform's three blocks of data and the
\* hand-padded fourth block, the T-table rounds with their in-place round
\* constants and y/z ping-pong, the chaining update, and the output
\* transformation's feed-forward of the lower half.
Groestl256Refinement == Ref!Spec
==============================================================================
