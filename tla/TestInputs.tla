----------------------------- MODULE TestInputs -----------------------------
(* The 200-byte messages the hash models are checked on: all zeros and all *)
(* 0xFF, the two inputs the specification names, and a ramp whose bytes    *)
(* all differ within each word, so that byte order and word order mistakes *)
(* show.                                                                   *)
EXTENDS Naturals

AllZero == [k \in 1..200 |-> 0]
AllFF   == [k \in 1..200 |-> 255]
Ramp    == [k \in 1..200 |-> ((k - 1) * 7 + 3) % 256]
MCInputs == {AllZero, AllFF, Ramp}
==============================================================================
