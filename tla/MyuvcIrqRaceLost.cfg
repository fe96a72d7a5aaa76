SPECIFICATION Spec
CONSTANTS
  Buffers = {b1, b2, b3}
  HEAD = HEAD
  POISON = POISON
INVARIANT
  ListIsQueue
