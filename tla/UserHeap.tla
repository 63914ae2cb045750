------------------------------ MODULE UserHeap ------------------------------
(***************************************************************************)
(* malloc, free, calloc and realloc of user programs (user/lib/moos.c): a  *)
(* first fit allocator over sbrk.  u = [blocks, tail] is its state: the    *)
(* list from heap_head on, each block with its address, and the address    *)
(* heap_tail points at (0 for none).  m is the kernel's side (the task's   *)
(* address space and the kernel heap).  An outcome is [m, u, ptr], ptr = 0 *)
(* for a null pointer.                                                     *)
(***************************************************************************)
EXTENDS AddressSpace

CONSTANTS
    ALIGN,          \* payloads are multiples of it
    HEADER_SIZE     \* bytes of struct block before a payload

ASSUME UserHeapAssumption ==
    /\ ALIGN \in Nat \ {0}
    /\ HEADER_SIZE \in Nat \ {0} /\ HEADER_SIZE % ALIGN = 0

MIN_SPLIT == HEADER_SIZE + ALIGN

EmptyHeap == [blocks |-> <<>>, tail |-> 0]

block_payload(block) == block.addr + HEADER_SIZE

payload_block(u, ptr) ==
    CHOOSE i \in DOMAIN u.blocks : block_payload(u.blocks[i]) = ptr

RoundUp(size) == LET s == (size + ALIGN - 1) % Word IN s - (s % ALIGN)

(* takes block i, splitting off a tail that is big enough to be useful *)
TakeBlock(m, u, i, size) ==
    LET block == u.blocks[i]
        split == block.size >= (size + MIN_SPLIT) % Word
        taken == [block EXCEPT !.free = FALSE,
                               !.size = IF split THEN size ELSE @]
        rest == [addr |-> block_payload(block) + size,
                 size |-> block.size - size - HEADER_SIZE, free |-> TRUE]
        before == SubSeq(u.blocks, 1, i - 1)
        after == SubSeq(u.blocks, i + 1, Len(u.blocks))
    IN  [m |-> m, ptr |-> block_payload(block),
         u |-> [blocks |-> before \o <<taken>>
                               \o (IF split THEN <<rest>> ELSE <<>>) \o after,
                tail |-> IF split /\ u.tail = block.addr THEN rest.addr
                         ELSE u.tail]]

(* a new block at the old break goes behind heap_tail *)
Upto(u) == IF u.tail = 0 THEN <<>>
           ELSE SubSeq(u.blocks, 1, CHOOSE i \in DOMAIN u.blocks :
                                        u.blocks[i].addr = u.tail)
AppendBlock(m, u, block) ==
    IF m.ok THEN [m |-> m, ptr |-> block_payload(block),
                  u |-> [blocks |-> Append(Upto(u), block), tail |-> block.addr]]
    ELSE [m |-> m, u |-> u, ptr |-> 0]
GrowHeap(m, u, size) ==
    AppendBlock(task_sbrk(m, Signed((HEADER_SIZE + size) % Word)), u,
                [addr |-> m.space.brk, size |-> size, free |-> FALSE])

malloc(m, u, bytes) ==
    LET size == RoundUp(bytes)
        fits == {i \in DOMAIN u.blocks :
                     u.blocks[i].free /\ u.blocks[i].size >= size}
    IN  CASE bytes = 0 -> [m |-> m, u |-> u, ptr |-> 0]
          [] bytes # 0 /\ fits # {} -> TakeBlock(m, u, Min(fits), size)
          [] OTHER -> GrowHeap(m, u, size)

(* Mutant of MergeInto: heap_tail keeps pointing into the merged block *)
MergeIntoKeepsTail(u, block) ==
    LET n == Len(u.blocks)
    IN  IF n > 0 /\ u.blocks[n].free /\ block.free
        THEN [u EXCEPT !.blocks[n].size = @ + HEADER_SIZE + block.size]
        ELSE [u EXCEPT !.blocks = Append(@, block)]

(* runs of adjacent free blocks become one *)
MergeInto(u, block) ==
    LET n == Len(u.blocks)
    IN  IF n > 0 /\ u.blocks[n].free /\ block.free
        THEN [blocks |-> [u.blocks EXCEPT ![n].size = @ + HEADER_SIZE + block.size],
              tail |-> IF u.tail = block.addr THEN u.blocks[n].addr ELSE u.tail]
        ELSE [u EXCEPT !.blocks = Append(@, block)]

MergeRuns(u, blocks) ==
    LET after[n \in 0 .. Len(blocks)] ==
            IF n = 0 THEN [u EXCEPT !.blocks = <<>>]
            ELSE MergeInto(after[n - 1], blocks[n])
    IN  after[Len(blocks)]

free(u, ptr) ==
    MergeRuns(u, [u.blocks EXCEPT ![payload_block(u, ptr)].free = TRUE])

(* the product is checked for having wrapped *)
calloc(m, u, count, size) ==
    LET total == (count * size) % Word
    IN  IF size # 0 /\ total \div size # count
        THEN [m |-> m, u |-> u, ptr |-> 0]
        ELSE malloc(m, u, total)

(* Mutant of FreeOld: the old block is freed whatever malloc returned *)
FreeOldAlways(out, ptr) == [out EXCEPT !.u = free(@, ptr)]

(* a block that is large enough is kept; the old one is freed only once    *)
(* there is a bigger one                                                   *)
FreeOld(out, ptr) == IF out.ptr = 0 THEN out ELSE [out EXCEPT !.u = free(@, ptr)]

realloc(m, u, ptr, size) ==
    IF u.blocks[payload_block(u, ptr)].size >= size
    THEN [m |-> m, u |-> u, ptr |-> ptr]
    ELSE FreeOld(malloc(m, u, size), ptr)
=============================================================================
