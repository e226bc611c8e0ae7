CONSTANTS
  Consumers = {c1, c2}
  BLOCK_SIZE = 2
  IMPLICIT_INITIAL_INDEX_SIZE = 1
  MaxEntries = 2
  InitialBlocks = 1
  Blocks = {b1, b2}
  MaxBulk = 3
  Modulus = 10
  null = null
SPECIFICATION QueueSpec
INVARIANTS QueueType EntryIsRight ClaimsAddUp BlocksKept
PROPERTY FirstInFirstOut
VIEW View
SYMMETRY Symmetry
CHECK_DEADLOCK FALSE
