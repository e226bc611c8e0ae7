SPECIFICATION EnclaveSpec
CONSTANTS
  Conns = {k1, k2, k3}
  Threads = {t1, t2}
  Slots = {2, 3}
  Ids = {i1, i2}
  Configs <- SecondLayer
  Zero = Zero
  None = None
SYMMETRY MCPerms
INVARIANTS OwnKey
CHECK_DEADLOCK FALSE
