\* jh_hash built for a little-endian and for a big-endian host.
CONSTANT Inputs <- MCInputs
CONSTANT HostOrders = {TRUE, FALSE}
SPECIFICATION Spec
INVARIANT TypeOK
PROPERTY JH256Refinement
\* jh_hash returns after writing the digest: the final state has no
\* successor by design.
CHECK_DEADLOCK FALSE
