------------------------------- MODULE MCJH256 -------------------------------
(* jh_hash on the three test inputs.                                        *)
EXTENDS JH256, TestInputs
==============================================================================
