\* groestl_hash built for a big-endian host.
CONSTANT Inputs <- MCInputs
CONSTANT HostLittleEndian = FALSE
SPECIFICATION MCSpec
PROPERTY Groestl256Refinement
\* groestl_hash returns after writing the digest: the final state has no
\* successor by design.
CHECK_DEADLOCK FALSE
