------------------------------- MODULE Buddy -------------------------------
(***************************************************************************)
(* The buddy allocator of a shared segment (impl/buddy.{hpp,cpp}) as       *)
(* ShmMemory uses it: each process attaches the data memory of its own     *)
(* segment, allocates from it, and frees into it whatever it is the last   *)
(* to use, blocks of other processes' segments included.                   *)
(*                                                                         *)
(* buddy_malloc and buddy_free hold the lock of one buddy_head_t from      *)
(* start to end; each turn of their loops is a step. A buddy_malloc that   *)
(* finds no block returns NULL, on which the Allocator that called it      *)
(* aborts the process. Addresses are page numbers; the headers of blocks   *)
(* that were merged away, which stay in memory but are never read, are     *)
(* left out.                                                               *)
(***************************************************************************)
EXTENDS Integers, FiniteSets, SequencesExt

CONSTANTS Procs,
          MaxLevel,    \* BUDDY_MAX_BLOCK_NUM
          Pages,       \* calculate_block_size, in pages
          Base,        \* where each process's data memory is mapped
          DataPages,   \* the size of each, in pages
          PageSize, HeadSize,
          Sizes        \* the sizes that are asked for

Levels == 0 .. (MaxLevel - 1)

Segment(p) == Base[p] .. (Base[p] + DataPages[p] - 1)

ASSUME BuddyAssumption ==
  /\ MaxLevel \in Nat \ {0} /\ DataPages \in [Procs -> Nat \ {0}]
  /\ Pages \in [0 .. MaxLevel -> Nat] /\ Pages[0] = 1
  /\ \A l \in Levels : Pages[l + 1] = 2 * Pages[l]
  /\ \A p \in Procs : DataPages[p] < Pages[MaxLevel]
  /\ Base \in [Procs -> Nat]
  /\ \A p, q \in Procs : p # q => Segment(p) \cap Segment(q) = {}
  /\ PageSize \in Nat \ {0} /\ HeadSize \in Nat /\ HeadSize < PageSize
  /\ Sizes \subseteq Nat

VARIABLES blocks,      \* the header of each block, by its address
          block_list,  \* of each process: for each level, its free blocks
          doing        \* the loop each process is in

vars == <<blocks, block_list, doing>>

Idle == [op |-> "none"]
Aborted == [op |-> "aborted"]

(* The last level whose blocks are no larger than the memory. *)
calculate_block_level(p) ==
  CHOOSE l \in Levels : Pages[l] <= DataPages[p] /\ DataPages[p] < Pages[l + 1]

(* Mutant: the header is forgotten. *)
WhichLevelHeadless(size) ==
  Min({l \in Levels : size <= Pages[l] * PageSize} \cup {MaxLevel})

(* The first level whose blocks are large enough for size bytes. *)
calculate_which_level(size) ==
  Min({l \in Levels : size + HeadSize <= Pages[l] * PageSize} \cup {MaxLevel})

(* buddy_is_buddy(first, second). is_first is set on the upper half of a    *)
(* split block and cleared on the lower one; an attached block has it set.  *)
buddy_is_buddy(a, b) ==
  LET first == blocks[a]  second == blocks[b]
  IN /\ first.level = second.level
     /\ first.is_first => second.is_first
     /\ first.host_pid = second.host_pid
     /\ a - b \in {Pages[first.level], - Pages[first.level]}

init_free_block(block, level, is_first) ==
  [block EXCEPT !.size = 0, !.is_free = TRUE, !.level = level,
                !.is_first = is_first]

init_used_block(block) == [block EXCEPT !.size = 0, !.is_free = FALSE]

(* Before the next higher address or at the end. It would dereference null  *)
(* where the next higher one is the first of the list: the only call finds  *)
(* the list empty.                                                          *)
buddy_insert_blcok(list, a) ==
  LET i == SelectInSeq(list, LAMBDA b : a < b)
  IN IF i = 0 THEN Append(list, a) ELSE InsertAt(list, i, a)

buddy_remove_block(list, i) == RemoveAt(list, i)

-----------------------------------------------------------------------------
buddy_init_system == [l \in Levels |-> <<>>]

(* The header of the block that q's data memory is attached as. *)
AttachedBlock(q) ==
  [level |-> calculate_block_level(q), is_free |-> TRUE, is_first |-> TRUE,
   size |-> 0, host_pid |-> q]

buddy_attch_memory(p, lists) ==
  [lists EXCEPT ![calculate_block_level(p)] = buddy_insert_blcok(@, Base[p])]

(* initialized(): init the buddy system, attach the data memory as a block. *)
Init ==
  /\ blocks = [a \in {Base[p] : p \in Procs} |->
                 AttachedBlock(CHOOSE q \in Procs : Base[q] = a)]
  /\ block_list = [p \in Procs |-> buddy_attch_memory(p, buddy_init_system)]
  /\ doing = [p \in Procs |-> Idle]

(* The levels from level on that have a free block in p's lists. *)
Stocked(p, level) == {l \in Levels : l >= level /\ block_list[p][l] # <<>>}

(* buddy_malloc: find the first level with a free block that is large       *)
(* enough, ...                                                              *)
Malloc(p, size) ==
  LET level == calculate_which_level(size)
  IN /\ doing[p] = Idle
     /\ Stocked(p, level) # {}
     /\ doing' = [doing EXCEPT ![p] = [op |-> "malloc", size |-> size,
                                       level |-> level,
                                       idx |-> Min(Stocked(p, level))]]
     /\ UNCHANGED <<blocks, block_list>>

(* There is none: allocate() gets NULL and aborts the process. What it had  *)
(* allocated stays in use, and others may still free it.                    *)
Exhausted(p, size) ==
  /\ doing[p] = Idle
  /\ Stocked(p, calculate_which_level(size)) = {}
  /\ doing' = [doing EXCEPT ![p] = Aborted]
  /\ UNCHANGED <<blocks, block_list>>

(* Mutant: the distance is the size of the whole block. *)
UpperHalfFar(a, idx) == a + Pages[idx]

UpperHalf(a, idx) == a + Pages[idx - 1]

(* The block at a halved: a and b are blocks of the level. *)
Halved(a, b, level) ==
  [x \in DOMAIN blocks \cup {b} |->
     CASE x = a -> init_free_block(blocks[a], level, FALSE)
       [] x = b -> init_free_block(blocks[a], level, TRUE)
       [] OTHER -> blocks[x]]

(* ... halve its first block until the level is reached, where the two      *)
(* halves replace the list of the level below, ...                          *)
Split(p) ==
  LET idx == doing[p].idx
      a == Head(block_list[p][idx])
      b == UpperHalf(a, idx)
  IN /\ doing[p].op = "malloc" /\ idx > doing[p].level
     /\ block_list' = [block_list EXCEPT ![p][idx] = Tail(@),
                                         ![p][idx - 1] = <<a, b>>]
     /\ blocks' = Halved(a, b, idx - 1)
     /\ doing' = [doing EXCEPT ![p].idx = idx - 1]

(* ... and grant the first block of the level. *)
Grant(p) ==
  LET level == doing[p].level
      a == Head(block_list[p][level])
  IN /\ doing[p].op = "malloc" /\ doing[p].idx = level
     /\ block_list' = [block_list EXCEPT ![p][level] = Tail(@)]
     /\ blocks' = [blocks EXCEPT ![a] =
                     [init_used_block(@) EXCEPT !.size = doing[p].size]]
     /\ doing' = [doing EXCEPT ![p] = Idle]

BeingFreed == {a \in DOMAIN blocks : \E p \in Procs : doing[p] = [op |-> "free", head |-> a]}
FreeBlocks == {a \in DOMAIN blocks : blocks[a].is_free} \ BeingFreed
Used == {a \in DOMAIN blocks : ~blocks[a].is_free} \ BeingFreed

(* buddy_free: the block is in use (or the call aborts). *)
Free(p, a) ==
  /\ doing[p] = Idle
  /\ a \in Used
  /\ doing' = [doing EXCEPT ![p] = [op |-> "free", head |-> a]]
  /\ UNCHANGED <<blocks, block_list>>

(* The turn of buddy_free's loop over one level: where its scan of the      *)
(* level's list stops for the block at head, 0 if it runs through.          *)
StopAt(head, list) ==
  SelectInSeq(list, LAMBDA b : buddy_is_buddy(head, b) \/ head < b)

(* Mutant: the merged block is taken to start at head. *)
MergedAtHead(head, b) == head

(* It stops at a buddy: the two become one block of the next level. *)
MergedAt(head, b) == IF head < b THEN head ELSE b

Merge(p) ==
  LET head == doing[p].head
      level == blocks[head].level
      list == block_list[p][level]
      i == StopAt(head, list)
      b == list[i]
      addr == MergedAt(head, b)
  IN /\ doing[p].op = "free"
     /\ i # 0 /\ buddy_is_buddy(head, b)
     /\ block_list' = [block_list EXCEPT ![p][level] = buddy_remove_block(@, i)]
     /\ blocks' = [x \in DOMAIN blocks \ ({head, b} \ {addr}) |->
                     IF x = addr
                       THEN init_free_block(blocks[x], level + 1, blocks[x].is_first)
                       ELSE blocks[x]]
     /\ doing' = [doing EXCEPT ![p].head = addr]

(* Mutant: the block is always appended. *)
PutLast(list, i, head) == Append(list, head)

(* It stops before a higher address, or nowhere: the block is inserted. *)
PutBefore(list, i, head) ==
  IF i = 0 THEN Append(list, head) ELSE InsertAt(list, i, head)

Insert(p) ==
  LET head == doing[p].head
      level == blocks[head].level
      list == block_list[p][level]
      i == StopAt(head, list)
  IN /\ doing[p].op = "free"
     /\ i # 0 => ~buddy_is_buddy(head, list[i])
     /\ block_list' = [block_list EXCEPT ![p][level] = PutBefore(@, i, head)]
     /\ blocks' = [blocks EXCEPT ![head] = init_free_block(@, level, @.is_first)]
     /\ doing' = [doing EXCEPT ![p] = Idle]

Next ==
  \E p \in Procs :
    \/ \E size \in Sizes : Malloc(p, size) \/ Exhausted(p, size)
    \/ Split(p) \/ Grant(p)
    \/ \E a \in DOMAIN blocks : Free(p, a)
    \/ Merge(p) \/ Insert(p)

Spec == Init /\ [][Next]_vars

-----------------------------------------------------------------------------
Header == [level : Levels, is_free : BOOLEAN, is_first : BOOLEAN,
           size : Sizes \cup {0}, host_pid : Procs]

Managed == UNION {Base[p] .. (Base[p] + Pages[calculate_block_level(p)] - 1) : p \in Procs}

Extent(a) == a .. (a + Pages[blocks[a].level] - 1)

TypeOK ==
  /\ DOMAIN blocks \subseteq Managed
  /\ \A a \in DOMAIN blocks : blocks[a] \in Header
  /\ block_list \in [Procs -> [Levels -> Seq(Managed)]]
  /\ DOMAIN doing = Procs
  /\ \A p \in Procs :
       \/ doing[p] \in {Idle, Aborted}
       \/ doing[p] \in [op : {"malloc"}, size : Sizes, level : Levels, idx : Levels]
       \/ doing[p] \in [op : {"free"}, head : DOMAIN blocks]

(* Splitting and merging keep every page of the attached memory in exactly  *)
(* one block: no page is lost, none is in two blocks, and no block reaches  *)
(* out of the segment it comes from, whichever process frees which block. A *)
(* block that is granted holds its header and the bytes asked for.          *)
Tiling ==
  /\ TypeOK
  /\ \A a, b \in DOMAIN blocks : a # b => Extent(a) \cap Extent(b) = {}
  /\ UNION {Extent(a) : a \in DOMAIN blocks} = Managed
  /\ \A a \in DOMAIN blocks : Extent(a) \subseteq Segment(blocks[a].host_pid)
  /\ \A a \in Used : blocks[a].size + HeadSize <= Pages[blocks[a].level] * PageSize

Listed(p, l) == Range(block_list[p][l])

(* The lists hold exactly the free blocks, each one once, on its level and  *)
(* in the order of addresses, and never a block that is in use: splitting   *)
(* may overwrite the list of the level below only because it is empty.      *)
ListsExact ==
  /\ \A p \in Procs, l \in Levels :
       /\ Listed(p, l) \subseteq {a \in FreeBlocks : blocks[a].level = l}
       /\ \A i \in 2 .. Len(block_list[p][l]) :
            block_list[p][l][i - 1] < block_list[p][l][i]
  /\ \A a \in FreeBlocks :
       Cardinality({p \in Procs : a \in Listed(p, blocks[a].level)}) = 1

(* malloc and free keep the promise of MemoryPool: nothing is granted while *)
(* somebody else has it.                                                    *)
Pool == INSTANCE MemoryPool WITH granted <- {Extent(a) : a \in Used}
Implements == Pool!Spec
=============================================================================
