---------------------------- MODULE ExtentServer ----------------------------
(***************************************************************************)
(* extent_server and extent_client in one process, as in lab1_tester: each *)
(* operation is one call into inode_manager.  get and getattr change       *)
(* nothing; what they return is read_file and the inode.  The operations   *)
(* return OK whatever happens below them.                                  *)
(***************************************************************************)
EXTENDS InodeManager

CONSTANTS PutSizes,  \* the lengths, in blocks, of what is put
          MaxAlloc   \* bound on the blocks ever allocated

ASSUME ExtentConstants == PutSizes \subseteq 0 .. MAXFILE /\ MaxAlloc \in Nat

VARIABLES
  file,   \* history: what was last put under each id
  nalloc  \* history: how often alloc_block was called

vars == <<inodeVars, file, nalloc>>

Init ==
  /\ InodeInit
  /\ file = [i \in Inum |-> <<>>]
  /\ nalloc = 0

\* The calls of alloc_block that putting n blocks under i makes.
Allocs(i, n) ==
  IF n <= inode[i].size THEN 0
  ELSE n - inode[i].size + (IF n > NDIRECT /\ inode[i].size <= NDIRECT THEN 1 ELSE 0)

Content(v, n) == [k \in 1 .. n |-> <<v, k>>]

-----------------------------------------------------------------------------
create ==
  /\ fault = "none"
  /\ alloc_inode
  /\ file' = IF fault' = "none" THEN [file EXCEPT ![FirstFree] = <<>>] ELSE file
  /\ UNCHANGED nalloc

put(i, v, n) ==
  /\ fault = "none"
  /\ nalloc + Allocs(i, n) <= MaxAlloc
  /\ write_file(i, Content(v, n))
  /\ file' = [file EXCEPT ![i] = Content(v, n)]
  /\ nalloc' = nalloc + Allocs(i, n)

remove(i) ==
  /\ fault = "none"
  /\ remove_file(i)
  /\ file' = [file EXCEPT ![i] = <<>>]
  /\ UNCHANGED nalloc

\* Nothing is said about the file system after a fault.
Faulted == fault # "none" /\ UNCHANGED vars

Next ==
  \/ create
  \/ \E i \in Inum, v \in Val, n \in PutSizes : put(i, v, n)
  \/ \E i \in Inum : remove(i)
  \/ Faulted

Spec == Init /\ [][Next]_vars

-----------------------------------------------------------------------------
\* Every variable has its type.
TypeOK ==
  /\ InodeTypeOK
  /\ file \in [Inum -> Seq(Val \X (1 .. MAXFILE))]
  /\ nalloc \in 0 .. MaxAlloc

\* The blocks that file i refers to, in order: its direct blocks, its indirect
\* block, and the blocks in its table.
References(i) ==
  Direct(inode[i].blocks, inode[i].size)
  \o (IF inode[i].size > NDIRECT
      THEN <<inode[i].blocks[NDIRECT]>> \o SubSeq(Indirect(i), 1, inode[i].size - NDIRECT)
      ELSE <<>>)

\* The file exists and its inode has not been overwritten.  The inode that lies
\* in the first data block is lost as soon as that block is written.
Intact(i) == InTable(i) /\ Exists(i)

\* Every place where a block is referred to: the block, the file, the position.
Owned ==
  UNION {{<<References(i)[k], i, k>> : k \in 1 .. Len(References(i))} :
           i \in {x \in Inum : Intact(x)}}

\* No block belongs to two files, or twice to one, and none is block 0, which
\* alloc_block returns when the disk is full.
NoSharing == \A o, p \in Owned : o[1] # 0 /\ (o[1] = p[1] => o = p)

\* The first UINT8 * BYTE - FirstBlock allocations (1696 in the code) look at
\* every byte of the bitmap at most once.
Young == nalloc <= UINT8 * BYTE - FirstBlock

\* As long as the file system is young and no fault has occurred, files with
\* an intact inode are disjoint, through every sequence of creating, rewriting
\* and removing them, although free_block frees the wrong bits.
DisjointWhileYoung == Young /\ fault = "none" => NoSharing

\* As long as the file system is young and no fault has occurred, get returns
\* what was last put under every intact inode: no block of a file, and no table
\* of ids, is overwritten on behalf of another file.
GetReturnsPut ==
  Young /\ fault = "none" =>
    \A i \in Inum : Intact(i) =>
      read_file(i) = [k \in 1 .. Len(file[i]) |-> Data(file[i][k])]

-----------------------------------------------------------------------------
(* The inductive invariant behind the two *)

\* The k-th element of References(i), and their number
RefAt(i, k) ==
  IF k <= NDIRECT + 1 THEN inode[i].blocks[k - 1] ELSE Indirect(i)[k - NDIRECT - 1]
RefCount(i) == IF inode[i].size > NDIRECT THEN inode[i].size + 1 ELSE inode[i].size

\* The k-th block of the data of file i
DataAt(i, k) == RefAt(i, IF k <= NDIRECT THEN k ELSE k + 1)

\* The blocks that were ever allocated: while the file system is young,
\* alloc_block returns one after the other, and free_block gives none back.
Taken == FirstBlock .. FirstBlock + nalloc - 1

RefsInv ==
  \A i, j \in Inum : Intact(i) /\ Intact(j) =>
    \A k \in 1 .. RefCount(i), l \in 1 .. RefCount(j) :
      RefAt(i, k) \in Taken /\ (RefAt(i, k) = RefAt(j, l) => i = j /\ k = l)

TablesInv ==
  \A i \in Inum : Intact(i) /\ inode[i].size > NDIRECT =>
    /\ disk[inode[i].blocks[NDIRECT]] = Table(Indirect(i))
    /\ Indirect(i) \in Seq(BlockId) /\ Len(Indirect(i)) = inode[i].size - NDIRECT

FilesInv ==
  \A i \in Inum : Intact(i) =>
    /\ Len(file[i]) = inode[i].size
    /\ \A k \in 1 .. inode[i].size : disk[DataAt(i, k)] = Data(file[i][k])

YoungInv == Young /\ fault = "none" => bitmap = Taken /\ RefsInv /\ TablesInv /\ FilesInv

-----------------------------------------------------------------------------
(* What comments in the source say and the code does not do. *)

\* inode_manager.cc on alloc_block, "Allocate a free disk block.": a block that
\* belongs to a file is not free.
AllocatedIsFree == fault = "none" => NoSharing

=============================================================================
