---------------------------- MODULE MCBlake256 ----------------------------
(* blake256_hash on the three test inputs.                                  *)
EXTENDS Blake256, TestInputs
==============================================================================
