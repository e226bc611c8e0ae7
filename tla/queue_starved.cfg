CONSTANTS
  Consumers = {c1, c2}
  BLOCK_SIZE = 2
  IMPLICIT_INITIAL_INDEX_SIZE = 1
  MaxEntries = 1
  InitialBlocks = 1
  Blocks = {b1}
  MaxBulk = 1
  Modulus = 8
  null = null
SPECIFICATION QueueFairSpec
PROPERTY EventuallyClaimed
CHECK_DEADLOCK FALSE
