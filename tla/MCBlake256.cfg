CONSTANT Inputs <- MCInputs
SPECIFICATION Spec
INVARIANT TypeOK
PROPERTY Blake256Refinement
\* blake256_hash returns after writing the digest: the final state has no
\* successor by design.
CHECK_DEADLOCK FALSE
