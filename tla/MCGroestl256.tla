---------------------------- MODULE MCGroestl256 ----------------------------
(***************************************************************************)
(* groestl_hash on the three test inputs, preceded by a walk through the  *)
(* code's T table that checks it against Groestl's definition one byte b  *)
(* per step; the hash starts when the walk is over.                        *)
(***************************************************************************)
EXTENDS Groestl256, GroestlMix, TestInputs

VARIABLE b

MCInit == Init /\ b = 0
TableStep == b < 256 /\ b' = b + 1 /\ UNCHANGED vars
HashStep == b = 256 /\ Next /\ UNCHANGED b
MCSpec == MCInit /\ [][TableStep \/ HashStep]_<<vars, b>>

\* The column MixBytes makes of a byte s in row 0: row i gets B(i, 0) * s.
MixColumn(s) == [i \in 0..7 |-> GMul(MixB(i, 0), s)]

\* COLUMN's table lookup is SubBytes and MixBytes fused: the value of
\* T[2b] holds rows 0..3 and T[2b + 1] rows 4..7 of the MixBytes column of
\* S(b), least significant byte first, so that the byte rotations and
\* upper/lower swaps of COLUMN place each row where MixBytes puts it.  The
\* S-box table the reference specification reads is SBox as well.
TColumnOK ==
  b < 256 =>
    LET col == MixColumn(SBox(b))
    IN /\ SBoxOf(b) = SBox(b)
       /\ TEntry(2 * b) = <<col[0], col[1], col[2], col[3]>>
       /\ TEntry(2 * b + 1) = <<col[4], col[5], col[6], col[7]>>
==============================================================================
