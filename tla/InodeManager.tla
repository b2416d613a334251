---------------------------- MODULE InodeManager ----------------------------
(***************************************************************************)
(* inode_manager on top of block_manager.  File contents are sequences of  *)
(* blocks; what is inside a block does not matter, only that it is neither *)
(* zeroes nor a table of block ids.  An operation whose behaviour the code *)
(* does not define, or that destroys the file system as a whole, sets      *)
(* fault, and nothing is said about what happens then.                     *)
(***************************************************************************)
EXTENDS BlockManager

CONSTANTS NDIRECT, NINDIRECT,  \* (32 and 128)
          Val                  \* what a block of a file may contain

ASSUME InodeConstants == NDIRECT \in 1 .. BPB /\ NINDIRECT \in Nat \ {0}

MAXFILE == NDIRECT + NINDIRECT

Inum == 1 .. INODE_NUM - 1  \* alloc_inode never returns inode 0

VARIABLES
  bitmap,  \* the free block bitmap
  inode,   \* the inode table: whether the type is not 0, the size in blocks,
           \* and the array blocks, whose last element is the indirect block
  disk,    \* the data blocks: zeroes, a block of a file, or a table of ids
  fault    \* what went wrong for good: "none", or see below

inodeVars == <<bitmap, inode, disk, fault>>

Zero     == [kind |-> "zero"]
Data(v)  == [kind |-> "data", val |-> v]
Table(s) == [kind |-> "table", ids |-> s]

\* A free inode.  Elements of blocks that the size does not call for are never
\* read, and uninitialized in the code; they are 0 here.
NoInode == [used |-> FALSE, size |-> 0, blocks |-> [k \in 0 .. NDIRECT |-> 0]]

Faults == {"none",
           "garbage",  \* file data was read as an inode or as a table of ids
           "overrun",  \* write_file wrote past the end of the array blocks
           "wipe"}     \* write_file freed block ids up to 2^32

InodeTypeOK ==
  /\ bitmap \subseteq BlockId
  /\ inode \in [Inum -> [used : BOOLEAN, size : 0 .. MAXFILE,
                         blocks : [0 .. NDIRECT -> BlockId]]]
  /\ DOMAIN disk = BlockId
  /\ fault \in Faults

\* disk::disk, block_manager::block_manager, and inode_manager::inode_manager,
\* which makes inode 1 the root directory.
InodeInit ==
  /\ bitmap = {}
  /\ inode = [i \in Inum |-> [NoInode EXCEPT !.used = (i = 1)]]
  /\ disk = [b \in BlockId |-> Zero]
  /\ fault = "none"

-----------------------------------------------------------------------------
\* get_inode(i) looks at a block that still belongs to the inode table.
InTable(i) == disk[IBLOCK(i)] = Zero

\* get_inode(i) # NULL
Exists(i) == inode[i].used

\* The inode at which the loop of alloc_inode stops.
FirstFree ==
  LET C == {i \in Inum : ~InTable(i) \/ ~Exists(i)}
  IN CHOOSE i \in C : \A x \in C : i <= x

\* alloc_inode; the type makes no difference; with no free inode it changes nothing and is not a step.
alloc_inode ==
  /\ \E i \in Inum : ~InTable(i) \/ ~Exists(i)
  /\ IF InTable(FirstFree)
     THEN /\ inode' = [inode EXCEPT ![FirstFree] = [NoInode EXCEPT !.used = TRUE]]
          /\ UNCHANGED fault
     ELSE /\ fault' = "garbage"
          /\ UNCHANGED inode
  /\ UNCHANGED <<bitmap, disk>>

\* The ids in the indirect block of inode i.
Indirect(i) == disk[inode[i].blocks[NDIRECT]].ids

\* The indirect block of i, if it has one, holds a table of ids.
TableOK(i) ==
  inode[i].size > NDIRECT => disk[inode[i].blocks[NDIRECT]].kind = "table"

\* read_file(i): the blocks in order.
read_file(i) ==
  [k \in 1 .. inode[i].size |->
     disk[IF k <= NDIRECT THEN inode[i].blocks[k - 1] ELSE Indirect(i)[k - NDIRECT]]]

-----------------------------------------------------------------------------
(* write_file *)

MinOf(a, b) == IF a < b THEN a ELSE b

\* Mutant: the last block of the file is not written.
WrittenButLast(d, ids, data) ==
  [b \in BlockId |-> IF \E j \in 1 .. Len(ids) - 1 : ids[j] = b
                    THEN Data(data[CHOOSE j \in 1 .. Len(ids) - 1 : ids[j] = b])
                    ELSE d[b]]

\* d after the blocks of the file are written: the j-th id of ids gets data[j].
\* A block that occurs twice keeps what was written last.
Written(d, ids, data) ==
  [b \in BlockId |->
     IF \E j \in 1 .. Len(ids) : ids[j] = b
     THEN Data(data[CHOOSE j \in 1 .. Len(ids) :
                      ids[j] = b /\ \A m \in j + 1 .. Len(ids) : ids[m] # b])
     ELSE d[b]]

\* The array without the elements that a file of n <= NDIRECT blocks ignores.
Used(blks, n) == [k \in 0 .. NDIRECT |-> IF k < n THEN blks[k] ELSE 0]

Direct(blks, n) == [k \in 1 .. MinOf(n, NDIRECT) |-> blks[k - 1]]

\* The file gets longer, to n blocks, and had at most NDIRECT: first the direct
\* blocks are allocated, then the indirect block, then what it points to.  The
\* indirect block is read again after the direct blocks are written.
Grow(i, n, data) ==
  LET old    == inode[i].size
      direct == MinOf(n, NDIRECT) - old
      more   == IF n > NDIRECT THEN 1 + n - NDIRECT ELSE 0
      a      == AllocBlocks(bitmap, direct + more)
      blks   == [k \in 0 .. NDIRECT |->
                   IF old <= k /\ k < old + direct THEN a.ids[k - old + 1]
                   ELSE IF k = NDIRECT /\ more > 0 THEN a.ids[direct + 1]
                   ELSE inode[i].blocks[k]]
      table  == SubSeq(a.ids, direct + 2, direct + more)
      d      == IF more > 0 THEN [disk EXCEPT ![blks[NDIRECT]] = Table(table)] ELSE disk
      clash  == more > 0 /\ \E k \in 0 .. NDIRECT - 1 : blks[k] = blks[NDIRECT]
  IN IF clash
     THEN fault' = "garbage" /\ UNCHANGED <<bitmap, inode, disk>>
     ELSE /\ bitmap' = a.bitmap
          /\ inode' = [inode EXCEPT ![i].size = n, ![i].blocks = blks]
          /\ disk' = Written(d, Direct(blks, n) \o table, data)
          /\ UNCHANGED fault

\* Mutant: what is put is appended.
SizeAdded(i, n) == inode[i].size + n

NewSize(i, n) == n

\* The file does not get longer, and has at most NDIRECT blocks now.  What is
\* freed of the direct blocks are their positions in the file, not their ids;
\* of an indirect file, the indirect block and what it points to.
Shrink(i, n, data) ==
  LET old == inode[i].size
      ids == IF old > NDIRECT
             THEN {inode[i].blocks[NDIRECT]}
                  \cup {Indirect(i)[k] : k \in 1 .. old - NDIRECT}
             ELSE {}
  IN /\ bitmap' = FreeBlocks(bitmap, (n .. MinOf(old, NDIRECT) - 1) \cup ids)
     /\ inode' = [inode EXCEPT ![i].size = NewSize(i, n), ![i].blocks = Used(@, n)]
     /\ disk' = Written(disk, Direct(inode[i].blocks, n), data)
     /\ UNCHANGED fault

\* write_file(i, data), where i exists and data is not longer than MAXFILE;
\* otherwise it returns at once.  A file that has, or is to have, more than
\* NDIRECT blocks before and after makes limit - original_block, or
\* limit - block_num, wrap around.
write_file(i, data) ==
  LET n   == Len(data)
      old == inode[i].size
  IN /\ ~InTable(i) \/ Exists(i)
     /\ n <= MAXFILE
     /\ \/ /\ InTable(i) /\ TableOK(i)
           /\ \/ old < n /\ old <= NDIRECT /\ Grow(i, n, data)
              \/ n <= old /\ n <= NDIRECT /\ Shrink(i, n, data)
        \/ /\ \/ ~(InTable(i) /\ TableOK(i)) /\ fault' = "garbage"
              \/ InTable(i) /\ old < n /\ old > NDIRECT /\ fault' = "overrun"
              \/ InTable(i) /\ n <= old /\ n > NDIRECT /\ fault' = "wipe"
           /\ UNCHANGED <<bitmap, inode, disk>>

-----------------------------------------------------------------------------
\* remove_file(i) and free_inode(i): again the positions of the direct blocks
\* are freed, then what the indirect block points to, but not that block.
remove_file(i) ==
  LET old == inode[i].size
      ids == IF old > NDIRECT THEN {Indirect(i)[k] : k \in 1 .. old - NDIRECT} ELSE {}
  IN /\ ~InTable(i) \/ Exists(i)
     /\ IF InTable(i) /\ TableOK(i)
        THEN /\ bitmap' = FreeBlocks(bitmap, (0 .. MinOf(old, NDIRECT) - 1) \cup ids)
             /\ inode' = [inode EXCEPT ![i] = NoInode]
             /\ UNCHANGED fault
        ELSE /\ fault' = "garbage"
             /\ UNCHANGED <<bitmap, inode>>
     /\ UNCHANGED disk

=============================================================================
