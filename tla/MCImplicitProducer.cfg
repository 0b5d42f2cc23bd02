CONSTANTS
  w1 = w1
  w2 = w2
  r1 = r1
  r2 = r2
  Writers = {w1, w2}
  Readers = {r1, r2}
  Threads = {w1, w2, r1, r2}
  Blocks = {b1, b2, b3}
  InitialBlockPool = {b1}
  BLOCK_SIZE = 2
  IMPLICIT_INITIAL_INDEX_SIZE = 2
  SHOULD_BE_ON_FREELIST = 8
  Plans <- MCPlans
  NoBlock = NoBlock
  INVALID_BLOCK_BASE = Invalid
  Unwritten = Unwritten
  NoWriter = NoWriter
  NoItem = NoItem
SPECIFICATION Spec
INVARIANTS
  TypeOK
  NeverOverdrawn
  EntryFound
  BlockInOnePlace
PROPERTY ImplementsStreams
SYMMETRY BlockSymmetry
CHECK_DEADLOCK FALSE
