CONSTANT Inputs <- MCInputs
CONSTANT HostLittleEndian = TRUE
SPECIFICATION Spec
INVARIANT TypeOK
PROPERTY Skein512Refinement
\* skein_hash returns after writing the digest: the final state has no
\* successor by design.
CHECK_DEADLOCK FALSE
