SPECIFICATION EnclaveSpec
CONSTANTS
  Conns = {k1, k2, k3}
  Threads = {t1, t2}
  Slots = {2, 4}
  Ids = {i1, i2}
  Configs <- AllConfigs
  Zero = Zero
  None = None
SYMMETRY MCPerms
INVARIANTS SamePseudonym
CHECK_DEADLOCK FALSE
