-------------------------------- MODULE KHeap --------------------------------
(***************************************************************************)
(* The kernel heap (kernel/memory/heap/heap.c behind kernel/kmem/kheap.c): *)
(* blocks of HEAP_BLOCK_SIZE bytes and a table with one entry per block.   *)
(* The table is kept by bit: the blocks that are taken, those that start   *)
(* an allocation (HEAP_BLOCK_IS_FIRST) and those followed by another block *)
(* of theirs (HEAP_BLOCK_HAS_NEXT).  An address is the number of its       *)
(* block; every pointer the kernel frees came from kmalloc, so none lies   *)
(* inside a block.                                                         *)
(***************************************************************************)
EXTENDS Integers, FiniteSets, FiniteSetsExt

CONSTANTS
    HEAP_BLOCKS,       \* entries of the table (25600 in the code)
    HEAP_BLOCK_SIZE    \* bytes of a block

ASSUME HeapAssumption ==
    /\ HEAP_BLOCKS \in Nat
    /\ HEAP_BLOCK_SIZE \in Nat \ {0}

None == -1             \* a null pointer
Blocks == 0 .. HEAP_BLOCKS - 1

heap_desc_init == [taken |-> {}, first |-> {}, next |-> {}]

(* Mutant of find_free_block: stops one free entry early *)
find_free_block_short(table, total_blocks) ==
    LET fits == {s \in Blocks : /\ s + total_blocks <= HEAP_BLOCKS
                                /\ \A b \in s .. s + total_blocks - 2 :
                                       b \notin table.taken}
    IN  IF fits = {} THEN None ELSE Min(fits)

(* the scan stops at the first run of total_blocks free entries *)
find_free_block(table, total_blocks) ==
    LET fits == {s \in Blocks : /\ s + total_blocks <= HEAP_BLOCKS
                                /\ \A b \in s .. s + total_blocks - 1 :
                                       b \notin table.taken}
    IN  IF fits = {} THEN None ELSE Min(fits)

mark_taken_blocks(table, start_block, total_blocks) ==
    LET end_block == start_block + total_blocks - 1
    IN  [taken |-> table.taken \cup (start_block .. end_block),
         first |-> table.first \cup {start_block},
         next |-> table.next \cup (start_block .. end_block - 1)]

BlocksFor(size) == (size + HEAP_BLOCK_SIZE - 1) \div HEAP_BLOCK_SIZE

(* an outcome is the new table and the block handed out, None for none *)
HandOut(table, start_block, total_blocks) ==
    [table |-> IF start_block = None THEN table
               ELSE mark_taken_blocks(table, start_block, total_blocks),
     at |-> start_block]

heap_malloc(table, size) ==
    IF BlocksFor(size) = 0 THEN HandOut(table, None, 0)
    ELSE HandOut(table, find_free_block(table, BlocksFor(size)), BlocksFor(size))

(* the last block of an allocation: the first without the next bit *)
RunEnd(table, block) ==
    Min({b \in block .. HEAP_BLOCKS - 1 :
             b \notin table.next \/ b = HEAP_BLOCKS - 1})

heap_free_blocks(table, block) ==
    LET freed == block .. RunEnd(table, block)
    IN  [taken |-> table.taken \ freed, first |-> table.first \ freed,
         next |-> table.next \ freed]

(* what is not the start of an allocation is refused *)
heap_free(table, addr) ==
    IF addr \in Blocks /\ addr \in table.first
    THEN heap_free_blocks(table, addr)
    ELSE table

kmalloc(table, size) == heap_malloc(table, size)

kfree(table, addr) == IF addr = None THEN table ELSE heap_free(table, addr)

(* kheap_stats: the number of blocks in use *)
used_blocks(table) == Cardinality(table.taken)

-----------------------------------------------------------------------------
(* The allocations a table describes: first block and length of each run   *)

Runs(table) == {<<s, RunEnd(table, s) - s + 1>> : s \in table.first}

RunBlocks(run) == run[1] .. run[1] + run[2] - 1
=============================================================================
