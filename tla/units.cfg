SPECIFICATION UnitsSpec
CONSTANTS
  BUFFER_SHUFFLING = 5
  PERIOD = 6
  Conns = {k1, k2, k3}
  Threads = {t1, t2}
  Slots = {2, 4}
  Ids = {i1, i2}
  Configs <- AllConfigs
  Zero = Zero
  None = None
  Callers = {c1, c2, c3}
  Nodes = {n1, n2}
  SHOULD_BE_ON_FREELIST = 8
  Pooled = Pooled
  null = null
  Enqueuers = {1, 2, 3}
  hashedId <- MCHashedId
  INITIAL_IMPLICIT_PRODUCER_HASH_SIZE = 2
  nullptr = nullptr
  Hops = 3
  MSG_LENGTH = 10
  Shortest = 1
  Sent <- MCSent
  Lengths = {2, 3, 5, 6}
  NoField = NoField
  ItemIds = {i1, i2}
  Bodies <- MCBodies
  ENABLE_ITEMS_DECR = 1
  NoItem = NoItem
SYMMETRY MCSymmetry
INVARIANTS TimerType HandedOffInTime AgeByPeriods EnclaveType OwnKey KeyOfNumber SamePseudonymOnSocket EnclaveInv FreeListType RefCount NothingLost ProducersType AllListed SlotFree ResizeHeld NeverStalled CutInChunksOnly ReturnsBuff RestartBinds
PROPERTIES PoolSpec OneProducerEach
CHECK_DEADLOCK FALSE
