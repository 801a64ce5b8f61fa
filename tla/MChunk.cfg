\* Four blocks of three bytes with a byte of eight values: block 3 is at the
\* offset 9, so both the exact and the truncated index occur.
SPECIFICATION Spec
CONSTANTS
  Byte = 8
  BlockSize = 3
  BlockNum = 4
  ClientBytes = {0, 6}
\* A chunk that was left is not used any more.
CHECK_DEADLOCK FALSE
INVARIANTS
  ChunkInv
