\* skein_hash built for a big-endian host.
CONSTANT Inputs <- MCInputs
CONSTANT HostLittleEndian = FALSE
SPECIFICATION Spec
PROPERTY Skein512Refinement
\* skein_hash returns after writing the digest: the final state has no
\* successor by design.
CHECK_DEADLOCK FALSE
