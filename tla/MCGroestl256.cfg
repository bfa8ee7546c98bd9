CONSTANT Inputs <- MCInputs
CONSTANT HostLittleEndian = TRUE
SPECIFICATION MCSpec
INVARIANT TypeOK
INVARIANT TColumnOK
PROPERTY Groestl256Refinement
\* groestl_hash returns after writing the digest: the final state has no
\* successor by design.
CHECK_DEADLOCK FALSE
