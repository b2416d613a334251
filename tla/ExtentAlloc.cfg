SPECIFICATION Spec
CONSTANTS
  BLOCK_NUM = 24
  BPB = 24
  BYTE = 4
  UINT8 = 3
  INODE_NUM = 4
  IPB = 3
  NDIRECT = 1
  NINDIRECT = 2
  Val = {u}
  PutSizes = {1, 2, 3}
  MaxAlloc = 11
INVARIANT AllocatedIsFree
