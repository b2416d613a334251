---------------------------- MODULE BlockManager ----------------------------
(***************************************************************************)
(* disk and block_manager.  A bitmap is the set of its one bits, numbered  *)
(* across the bitmap blocks; bit b is in byte b \div BYTE, the most        *)
(* significant bit first.  alloc_block and free_block compute byte         *)
(* positions in uint8_t variables, which drop the high bits.               *)
(***************************************************************************)
EXTENDS Naturals, Sequences

CONSTANTS BLOCK_NUM,  \* blocks of the disk                       (32768)
          BPB,        \* bits, and so block ids, per bitmap block  (4096)
          BYTE,       \* bits of a byte                               (8)
          UINT8,      \* values of a uint8_t                        (256)
          INODE_NUM,  \* inodes                                    (1024)
          IPB         \* inodes per block                             (3)

\* IBLOCK(i, nblocks)
IBLOCK(i) == BLOCK_NUM \div BPB + i \div IPB + 3

\* alloc_block starts with the block after the one of the last inode, as its
\* author computes it.
FirstBlock == IBLOCK(INODE_NUM)

\* The order in which the code's real values stand; the truncations in
\* alloc_block and free_block depend on nothing else.
ASSUME BlockConstants ==
  /\ {BLOCK_NUM, BPB, BYTE, UINT8, INODE_NUM, IPB} \subseteq Nat \ {0}
  /\ BLOCK_NUM % BPB = 0
  /\ BPB = 2 * UINT8 * BYTE
  /\ (UINT8 - 1) \div BYTE < FirstBlock \div BYTE
  /\ UINT8 < FirstBlock /\ FirstBlock < UINT8 * BYTE

BlockId == 0 .. BLOCK_NUM - 1

-----------------------------------------------------------------------------
\* The bit that alloc_block looks at and sets for block id; the number of the
\* byte within its block, id_2, is a uint8_t.
BitOf(id) ==
  LET j == id % BPB
  IN (id - j) + ((j \div BYTE) % UINT8) * BYTE + (j % BYTE)

FreeIds(B) == {id \in FirstBlock .. BLOCK_NUM - 1 : BitOf(id) \notin B}

\* alloc_block with bitmap B: the first free block, or 0.
alloc_block(B) ==
  IF FreeIds(B) = {} THEN 0
  ELSE CHOOSE id \in FreeIds(B) : \A x \in FreeIds(B) : id <= x

\* The bitmap that alloc_block leaves.
Marked(B) == IF FreeIds(B) = {} THEN B ELSE B \cup {BitOf(alloc_block(B))}

\* n calls of alloc_block: the ids they return and the bitmap they leave.
AllocBlocks(B, n) ==
  LET alloc[k \in 0 .. n] ==
        IF k = 0 THEN [ids |-> <<>>, bitmap |-> B]
        ELSE LET p == alloc[k - 1]
             IN [ids |-> Append(p.ids, alloc_block(p.bitmap)), bitmap |-> Marked(p.bitmap)]
  IN alloc[n]

\* Mutant: the position is not truncated.
FreedByteExact(id) == id \div BYTE

\* The byte that free_block changes for block id: here j, the position within
\* the bitmap block, is a uint8_t.
FreedByte(id) == ((id - (id % BPB)) + ((id % BPB) % UINT8)) \div BYTE

\* free_block of every id in S.  Because of the && each byte it touches becomes
\* 0 if it was 0 and 1 otherwise, so the order does not matter.
FreeBlocks(B, S) ==
  LET bytes == {FreedByte(id) : id \in S}
  IN {b \in B : b \div BYTE \notin bytes}
     \cup {(b \div BYTE) * BYTE + BYTE - 1 : b \in {x \in B : x \div BYTE \in bytes}}

=============================================================================
