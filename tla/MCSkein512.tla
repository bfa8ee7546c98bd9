---------------------------- MODULE MCSkein512 ----------------------------
(* skein_hash on the three test inputs.                                     *)
EXTENDS Skein512, TestInputs
==============================================================================
