---------------------------- MODULE MemoryProofs ----------------------------
(***************************************************************************)
(* The accounts of the kernel heap: what it hands out and takes back, for  *)
(* a table of any size, what every call of AddressSpace and UserHeap does  *)
(* to the blocks a task holds, and that every block that is taken has one  *)
(* holder in Memory (Memory!AllAccounted).                                 *)
(*                                                                         *)
(* Then the memory of a running program.  It has its image                 *)
(* (Memory!ImageMapped): what mapping a range does to the pages, what      *)
(* loading a program makes of them, and that sbrk keeps it.  And its heap  *)
(* is in order (Memory!BlocksTile, Memory!PointersHeld): what splitting,   *)
(* appending and merging do to blocks that lie one behind the other, and   *)
(* what malloc, calloc, realloc and free thus hand out and take back.      *)
(***************************************************************************)
EXTENDS Memory, NumberLemmas, SequenceTheorems, FiniteSetTheorems

(* The bits of the table agree: an allocation goes on in the next block,   *)
(* which is taken and starts no other, so none runs over the table's end.  *)
HeapOK(tb) ==
    /\ tb \in [taken : SUBSET Blocks, first : SUBSET Blocks,
                  next : SUBSET Blocks]
    /\ tb.first \subseteq tb.taken
    /\ tb.next \subseteq tb.taken
    /\ \A b \in tb.next : b + 1 \in tb.taken /\ b + 1 \notin tb.first
    /\ \A b \in tb.taken : b \in tb.first \/ b - 1 \in tb.next

(* The free entries find_free_block may start at *)
FreeRun(tb, s, n) ==
    /\ s \in Blocks /\ s + n <= HEAP_BLOCKS
    /\ \A b \in s .. s + n - 1 : b \notin tb.taken

(* Where find_free_block finds something, it is free and in the table      *)
(* (find_free_block).                                                      *)
LEMMA FoundIsFree ==
    ASSUME NEW tb, NEW n \in Nat, find_free_block(tb, n) # None
    PROVE  FreeRun(tb, find_free_block(tb, n), n)
<1>. DEFINE fits == {s \in Blocks : /\ s + n <= HEAP_BLOCKS
                                    /\ \A b \in s .. s + n - 1 :
                                           b \notin tb.taken}
<1>1. fits \in SUBSET Nat
  BY HeapAssumption DEF Blocks
<1>2. find_free_block(tb, n) = IF fits = {} THEN None ELSE Min(fits)
  BY DEF find_free_block
<1>3. fits # {}
  BY <1>2
<1>4. Min(fits) \in fits
  <2>. HIDE DEF fits
  <2>. QED
    BY <1>1, <1>3, MinIn
<1>. QED
  BY <1>2, <1>3, <1>4 DEF FreeRun

(* A size takes a number of blocks (heap_malloc).                          *)
LEMMA SomeBlocks ==
    ASSUME NEW size \in Nat
    PROVE  BlocksFor(size) \in Nat
BY HeapAssumption DEF BlocksFor

(* An allocation ends where its next bits do: every block before its end   *)
(* goes on, and the end is in the table (heap_free_blocks).                *)
LEMMA EndOfRun ==
    ASSUME NEW tb, HeapOK(tb), NEW s \in Blocks
    PROVE  /\ RunEnd(tb, s) \in s .. HEAP_BLOCKS - 1
           /\ RunEnd(tb, s) \notin tb.next
           /\ \A b \in s .. RunEnd(tb, s) - 1 : b \in tb.next
<1>. DEFINE ends == {b \in s .. HEAP_BLOCKS - 1 :
                         b \notin tb.next \/ b = HEAP_BLOCKS - 1}
<1>1. ends \in SUBSET Nat
  BY HeapAssumption DEF Blocks
<1>2. HEAP_BLOCKS - 1 \in ends
  BY HeapAssumption DEF Blocks
<1>3. RunEnd(tb, s) = Min(ends)
  BY DEF RunEnd
<1>4. Min(ends) \in ends /\ \A y \in ends : Min(ends) <= y
  <2>. HIDE DEF ends
  <2>. QED
    BY <1>1, <1>2, MinIn
<1>5. HEAP_BLOCKS - 1 \notin tb.next
  BY HeapAssumption DEF HeapOK, Blocks
<1>6. ASSUME NEW b \in s .. Min(ends) - 1 PROVE b \in tb.next
  <2>1. Min(ends) \in s .. HEAP_BLOCKS - 1
    BY <1>4
  <2>2. b \in s .. HEAP_BLOCKS - 1
    <3>. HIDE DEF ends
    <3>. QED
      BY <2>1, HeapAssumption DEF Blocks
  <2>3. ~ (Min(ends) <= b)
    <3>. HIDE DEF ends
    <3>. QED
      BY <2>1, HeapAssumption DEF Blocks
  <2>. QED
    BY <1>4, <2>2, <2>3
<1>. QED
  BY <1>3, <1>4, <1>5, <1>6

(* The empty table is consistent (heap_desc_init).                         *)
THEOREM HeapStarts == HeapOK(heap_desc_init)
BY DEF HeapOK, heap_desc_init

(* heap_malloc keeps the table consistent, and the blocks it hands out are *)
(* in the table, were free, and are all that changes: nothing is handed    *)
(* out twice and nothing past the end (find_free_block,                    *)
(* mark_taken_blocks).                                                     *)
THEOREM MallocHandsOutFree ==
    ASSUME NEW tb, HeapOK(tb), NEW size \in Nat
    PROVE  LET a == heap_malloc(tb, size)
               got == a.at .. a.at + BlocksFor(size) - 1
           IN  /\ HeapOK(a.table)
               /\ a.at = None => a.table = tb
               /\ a.at # None =>
                     /\ BlocksFor(size) # 0
                     /\ a.at \in a.table.first
                     /\ got \subseteq Blocks \ tb.taken
                     /\ a.table.taken = tb.taken \cup got
                     /\ a.table.first = tb.first \cup {a.at}
                     /\ a.table.next
                            = tb.next \cup (a.at .. a.at + BlocksFor(size) - 2)
<1>. DEFINE n == BlocksFor(size)
            at == IF n = 0 THEN None ELSE find_free_block(tb, n)
<1>1. n \in Nat
  BY SomeBlocks
<1>2. heap_malloc(tb, size) = HandOut(tb, at, n)
  BY DEF heap_malloc, HandOut
<1>3. CASE at = None
  BY <1>2, <1>3 DEF HandOut
<1>4. CASE at # None
  <2>. DEFINE got == at .. at + n - 1
              marked == mark_taken_blocks(tb, at, n)
  <2>1. n # 0 /\ FreeRun(tb, at, n)
    BY <1>1, <1>4, FoundIsFree
  <2>2. heap_malloc(tb, size) = [table |-> marked, at |-> at]
    BY <1>2, <1>4 DEF HandOut
  <2>. HIDE DEF at, n
  <2>3. marked = [taken |-> tb.taken \cup got,
                  first |-> tb.first \cup {at},
                  next |-> tb.next \cup (at .. at + n - 2)]
    <3>1. (at + n - 1) - 1 = at + n - 2
      BY <1>1, <2>1 DEF FreeRun, Blocks
    <3>. QED
      BY <3>1 DEF mark_taken_blocks
  <2>4. got \subseteq Blocks \ tb.taken
    BY <1>1, <2>1, HeapAssumption DEF FreeRun, Blocks
  <2>5. at \in got /\ at .. at + n - 2 \subseteq got
    BY <1>1, <2>1, HeapAssumption DEF FreeRun, Blocks
  <2>6. marked \in [taken : SUBSET Blocks, first : SUBSET Blocks,
                    next : SUBSET Blocks]
    BY <2>3, <2>4, <2>5 DEF HeapOK
  <2>7. ASSUME NEW b \in marked.next
        PROVE  b + 1 \in marked.taken /\ b + 1 \notin marked.first
    <3>1. CASE b \in tb.next
      <4>1. b + 1 \in tb.taken /\ b + 1 \notin tb.first
        BY <3>1 DEF HeapOK
      <4>. QED
        BY <2>3, <2>4, <2>5, <4>1
    <3>2. CASE b \in at .. at + n - 2
      <4>1. b + 1 \in got /\ b + 1 # at
        BY <1>1, <2>1, <3>2 DEF FreeRun, Blocks
      <4>. QED
        BY <2>3, <2>4, <4>1 DEF HeapOK
    <3>. QED
      BY <2>3, <3>1, <3>2
  <2>8. ASSUME NEW b \in marked.taken
        PROVE  b \in marked.first \/ b - 1 \in marked.next
    <3>1. CASE b \in tb.taken
      BY <2>3, <3>1 DEF HeapOK
    <3>2. CASE b \in got
      <4>1. b = at \/ b - 1 \in at .. at + n - 2
        BY <1>1, <2>1, <3>2 DEF FreeRun, Blocks
      <4>. QED
        BY <2>3, <4>1
    <3>. QED
      BY <2>3, <3>1, <3>2
  <2>9. HeapOK(marked)
    BY <2>3, <2>5, <2>6, <2>7, <2>8 DEF HeapOK
  <2>. QED
    BY <1>4, <2>1, <2>2, <2>3, <2>4, <2>9 DEF n
<1>. QED
  BY <1>3, <1>4

(* Two allocations share no block: the one that starts first ends before   *)
(* the other starts (HEAP_BLOCK_IS_FIRST, HEAP_BLOCK_HAS_NEXT).            *)
THEOREM RunsDisjoint ==
    ASSUME NEW tb, HeapOK(tb),
           NEW s \in tb.first, NEW t \in tb.first, s < t
    PROVE  RunEnd(tb, s) < t
<1>1. s \in Blocks /\ t \in Blocks
  BY DEF HeapOK
<1>2. SUFFICES ASSUME t <= RunEnd(tb, s) PROVE FALSE
  BY <1>1, EndOfRun, HeapAssumption DEF Blocks
<1>3. t - 1 \in s .. RunEnd(tb, s) - 1
  BY <1>1, <1>2, EndOfRun, HeapAssumption DEF Blocks
<1>4. t - 1 \in tb.next /\ (t - 1) + 1 = t
  BY <1>1, <1>3, EndOfRun, HeapAssumption DEF Blocks
<1>. QED
  BY <1>4 DEF HeapOK

(* heap_free keeps the table consistent (heap_free, heap_free_blocks).     *)
LEMMA FreeOK ==
    ASSUME NEW tb, HeapOK(tb), NEW addr \in Blocks \cup {None}
    PROVE  HeapOK(kfree(tb, addr))
<1>1. CASE addr = None \/ addr \notin tb.first
  BY <1>1 DEF kfree, heap_free
<1>2. CASE addr # None /\ addr \in tb.first
  <2>. DEFINE freed == addr .. RunEnd(tb, addr)
              after == heap_free_blocks(tb, addr)
  <2>1. addr \in Blocks
    BY <1>2 DEF HeapOK
  <2>2. kfree(tb, addr) = after
    BY <1>2, <2>1 DEF kfree, heap_free
  <2>3. after = [taken |-> tb.taken \ freed, first |-> tb.first \ freed,
                 next |-> tb.next \ freed]
    BY DEF heap_free_blocks
  <2>4. ASSUME NEW b \in tb.next, b \notin freed
        PROVE  b + 1 \notin freed
    <3>1. b \in Blocks /\ b + 1 \notin tb.first
      BY DEF HeapOK
    <3>2. b + 1 # addr
      BY <1>2, <3>1
    <3>. QED
      BY <2>1, <2>4, <3>1, <3>2, EndOfRun, HeapAssumption DEF Blocks
  <2>5. ASSUME NEW b \in after.next
        PROVE  b + 1 \in after.taken /\ b + 1 \notin after.first
    <3>1. b \in tb.next /\ b \notin freed
      BY <2>3
    <3>2. b + 1 \in tb.taken /\ b + 1 \notin tb.first
      BY <3>1 DEF HeapOK
    <3>. QED
      BY <2>3, <2>4, <3>1, <3>2
  <2>6. ASSUME NEW b \in after.taken
        PROVE  b \in after.first \/ b - 1 \in after.next
    <3>1. b \in tb.taken /\ b \notin freed
      BY <2>3
    <3>2. b \in tb.first \/ b - 1 \in tb.next
      BY <3>1 DEF HeapOK
    <3>3. ASSUME b - 1 \in tb.next PROVE b - 1 \notin freed
      BY <2>1, <3>1, <3>3, EndOfRun, HeapAssumption DEF HeapOK, Blocks
    <3>. QED
      BY <2>3, <3>1, <3>2, <3>3
  <2>. QED
    BY <2>2, <2>3, <2>5, <2>6 DEF HeapOK
<1>. QED
  BY <1>1, <1>2

(* Freeing what was just handed out gives back the table as it was, and    *)
(* with it exactly the blocks that were asked for: the end found from the  *)
(* next bits is the end that was marked (heap_malloc, heap_free).          *)
THEOREM FreeUndoesMalloc ==
    ASSUME NEW tb, HeapOK(tb), NEW size \in Nat,
           heap_malloc(tb, size).at # None
    PROVE  kfree(heap_malloc(tb, size).table, heap_malloc(tb, size).at)
               = tb
<1>. DEFINE a == heap_malloc(tb, size)
            n == BlocksFor(size)
            got == a.at .. a.at + n - 1
<1>1. /\ HeapOK(a.table)
      /\ n # 0
      /\ a.at \in a.table.first
      /\ got \subseteq Blocks \ tb.taken
      /\ a.table.taken = tb.taken \cup got
      /\ a.table.first = tb.first \cup {a.at}
      /\ a.table.next = tb.next \cup (a.at .. a.at + n - 2)
  BY MallocHandsOutFree
<1>2. n \in Nat /\ n # 0
  BY <1>1, SomeBlocks
<1>. HIDE DEF a, n
<1>3. a.at \in Blocks
  BY <1>1 DEF HeapOK
<1>4. RunEnd(a.table, a.at) = a.at + n - 1
  <2>. DEFINE end == RunEnd(a.table, a.at)
  <2>1. /\ end \in a.at .. HEAP_BLOCKS - 1
        /\ end \notin a.table.next
        /\ \A b \in a.at .. end - 1 : b \in a.table.next
    BY <1>1, <1>3, EndOfRun
  <2>. HIDE DEF end
  <2>2. a.at + n - 1 \in got
    BY <1>2, <1>3 DEF Blocks
  <2>3. a.at + n - 1 \notin a.table.next
    <3>1. a.at + n - 1 \notin tb.next
      BY <1>1, <2>2 DEF HeapOK
    <3>. QED
      BY <1>1, <1>2, <1>3, <3>1 DEF Blocks
  <2>4. ~ (a.at + n - 1 < end)
    BY <1>2, <1>3, <2>1, <2>3, HeapAssumption DEF Blocks
  <2>5. ~ (end < a.at + n - 1)
    BY <1>1, <1>2, <1>3, <2>1, HeapAssumption DEF Blocks
  <2>. QED
    BY <1>2, <1>3, <2>1, <2>4, <2>5, HeapAssumption DEF Blocks, end
<1>5. kfree(a.table, a.at)
          = [taken |-> a.table.taken \ got, first |-> a.table.first \ got,
             next |-> a.table.next \ got]
  <2>1. a.at # None
    BY <1>3 DEF Blocks, None
  <2>. QED
    BY <1>1, <1>3, <1>4, <2>1 DEF kfree, heap_free, heap_free_blocks
<1>6. a.at \in got /\ a.at .. a.at + n - 2 \subseteq got
  BY <1>2, <1>3 DEF Blocks
<1>7. a.table.taken \ got = tb.taken
  BY <1>1
<1>8. a.table.first \ got = tb.first
  BY <1>1, <1>6 DEF HeapOK
<1>9. a.table.next \ got = tb.next
  BY <1>1, <1>6 DEF HeapOK
<1>10. tb = [taken |-> tb.taken, first |-> tb.first,
                next |-> tb.next]
  BY DEF HeapOK
<1>. QED
  BY <1>5, <1>7, <1>8, <1>9, <1>10 DEF a

-----------------------------------------------------------------------------
(* The runs of a table                                                     *)

(* An allocation that goes on up to a block, which does not go on, ends    *)
(* there (HEAP_BLOCK_HAS_NEXT).                                            *)
LEMMA EndIs ==
    ASSUME NEW tb, HeapOK(tb), NEW s \in Blocks, NEW e \in s .. HEAP_BLOCKS - 1,
           e \notin tb.next, \A b \in s .. e - 1 : b \in tb.next
    PROVE  RunEnd(tb, s) = e
<1>. DEFINE end == RunEnd(tb, s)
<1>1. /\ end \in s .. HEAP_BLOCKS - 1
      /\ end \notin tb.next
      /\ \A b \in s .. end - 1 : b \in tb.next
  BY EndOfRun
<1>. HIDE DEF end
<1>2. ~ (end < e) /\ ~ (e < end)
  BY <1>1, HeapAssumption DEF Blocks
<1>. QED
  BY <1>1, <1>2, HeapAssumption DEF Blocks, end

(* The blocks of an allocation are taken (mark_taken_blocks).              *)
LEMMA RunTaken ==
    ASSUME NEW tb, HeapOK(tb), NEW s \in tb.first,
           NEW b \in s .. RunEnd(tb, s)
    PROVE  b \in tb.taken
<1>1. s \in Blocks
  BY DEF HeapOK
<1>2. /\ RunEnd(tb, s) \in s .. HEAP_BLOCKS - 1
      /\ \A c \in s .. RunEnd(tb, s) - 1 : c \in tb.next
  BY <1>1, EndOfRun
<1>3. CASE b = s
  BY <1>3 DEF HeapOK
<1>4. CASE b # s
  <2>1. b - 1 \in s .. RunEnd(tb, s) - 1 /\ (b - 1) + 1 = b
    BY <1>1, <1>2, <1>4, HeapAssumption DEF Blocks
  <2>2. b - 1 \in tb.next
    BY <1>2, <2>1
  <2>. QED
    BY <2>1, <2>2 DEF HeapOK
<1>. QED
  BY <1>3, <1>4

(* Every block that is taken belongs to an allocation                      *)
(* (mark_taken_blocks, heap_free_blocks).                                  *)
LEMMA TakenInRun ==
    ASSUME NEW tb, HeapOK(tb), NEW b \in tb.taken
    PROVE  \E s \in tb.first : b \in s .. RunEnd(tb, s)
<1>. DEFINE K == {s \in 0 .. b : \A c \in s .. b - 1 : c \in tb.next}
<1>1. b \in Blocks /\ b \in Nat
  BY HeapAssumption DEF HeapOK, Blocks
<1>2. K \in SUBSET Nat /\ b \in K
  BY <1>1
<1>. DEFINE s == Min(K)
<1>3. s \in K /\ \A y \in K : s <= y
  <2>. HIDE DEF K
  <2>. QED
    BY <1>2, MinIn
<1>. HIDE DEF s
<1>4. s \in 0 .. b /\ \A c \in s .. b - 1 : c \in tb.next
  BY <1>3
<1>5. s \in tb.taken
  <2>1. CASE s = b
    BY <2>1
  <2>2. CASE s # b
    <3>1. s \in tb.next
      BY <1>1, <1>4, <2>2
    <3>. QED
      BY <3>1 DEF HeapOK
  <2>. QED
    BY <2>1, <2>2
<1>6. s \in tb.first
  <2>1. SUFFICES ASSUME s - 1 \in tb.next PROVE FALSE
    BY <1>5 DEF HeapOK
  <2>2. s - 1 \in 0 .. b
    BY <1>1, <1>4, <2>1, HeapAssumption DEF HeapOK, Blocks
  <2>3. \A c \in (s - 1) .. b - 1 : c = s - 1 \/ c \in s .. b - 1
    BY <1>1, <1>4
  <2>4. s - 1 \in K
    BY <1>4, <2>1, <2>2, <2>3
  <2>. QED
    BY <1>3, <1>4, <2>4
<1>7. ~ (RunEnd(tb, s) < b)
  <2>1. s \in Blocks
    BY <1>6 DEF HeapOK
  <2>2. RunEnd(tb, s) \in s .. HEAP_BLOCKS - 1 /\ RunEnd(tb, s) \notin tb.next
    BY <2>1, EndOfRun
  <2>. QED
    BY <1>1, <1>4, <2>2, HeapAssumption DEF Blocks
<1>8. b \in s .. RunEnd(tb, s)
  BY <1>1, <1>4, <1>6, <1>7, EndOfRun, HeapAssumption DEF HeapOK, Blocks
<1>. QED
  BY <1>6, <1>8

(* An allocation adds its run and changes no other (heap_malloc).          *)
LEMMA RunsOfMalloc ==
    ASSUME NEW tb, HeapOK(tb), NEW size \in Nat
    PROVE  LET a == kmalloc(tb, size)
           IN  /\ HeapOK(a.table)
               /\ a.at \in Blocks \cup {None}
               /\ a.at = None => Runs(a.table) = Runs(tb)
               /\ a.at # None =>
                     /\ a.at \notin tb.first
                     /\ Runs(a.table) = Runs(tb) \cup {<<a.at, BlocksFor(size)>>}
<1>. DEFINE a == kmalloc(tb, size)
            n == BlocksFor(size)
            got == a.at .. a.at + n - 1
<1>1. /\ HeapOK(a.table)
      /\ a.at = None => a.table = tb
      /\ a.at # None => /\ n # 0
                        /\ a.at \in a.table.first
                        /\ got \subseteq Blocks \ tb.taken
                        /\ a.table.taken = tb.taken \cup got
                        /\ a.table.first = tb.first \cup {a.at}
                        /\ a.table.next = tb.next \cup (a.at .. a.at + n - 2)
  BY MallocHandsOutFree DEF kmalloc
<1>2. n \in Nat
  BY SomeBlocks
<1>. HIDE DEF a, n
<1>3. CASE a.at = None
  BY <1>1, <1>3 DEF a
<1>4. CASE a.at # None
  <2>1. a.at \in Blocks
    BY <1>1, <1>4 DEF HeapOK
  <2>2. a.at \in got /\ a.at + n - 1 \in got
    BY <1>1, <1>2, <1>4, <2>1 DEF Blocks
  <2>3. a.at \notin tb.first
    BY <1>1, <1>4, <2>2 DEF HeapOK
  <2>4. RunEnd(a.table, a.at) = a.at + n - 1
    <3>1. a.at + n - 1 \in a.at .. HEAP_BLOCKS - 1
      BY <1>1, <1>2, <1>4, <2>1, <2>2, HeapAssumption DEF Blocks
    <3>2. a.at + n - 1 \notin a.table.next
      <4>1. a.at + n - 1 \notin tb.next
        BY <1>1, <1>4, <2>2 DEF HeapOK
      <4>. QED
        BY <1>1, <1>2, <1>4, <2>1, <4>1 DEF Blocks
    <3>3. \A b \in a.at .. (a.at + n - 1) - 1 : b \in a.table.next
      <4>1. (a.at + n - 1) - 1 = a.at + n - 2
        BY <1>2, <2>1 DEF Blocks
      <4>. QED
        BY <1>1, <1>4, <4>1
    <3>. DEFINE e == a.at + n - 1
    <3>. HIDE DEF e
    <3>4. RunEnd(a.table, a.at) = e
      BY <1>1, <2>1, <3>1, <3>2, <3>3, EndIs DEF e
    <3>. QED
      BY <3>4 DEF e
  <2>5. ASSUME NEW s \in tb.first
        PROVE  RunEnd(a.table, s) = RunEnd(tb, s)
    <3>. DEFINE e == RunEnd(tb, s)
    <3>1. s \in Blocks
      BY DEF HeapOK
    <3>2. /\ e \in s .. HEAP_BLOCKS - 1 /\ e \notin tb.next
          /\ \A b \in s .. e - 1 : b \in tb.next
      BY <3>1, EndOfRun
    <3>3. e \in tb.taken
      BY <3>1, <3>2, RunTaken, HeapAssumption DEF Blocks
    <3>. HIDE DEF e
    <3>4. e \notin a.table.next
      BY <1>1, <1>2, <1>4, <2>1, <3>2, <3>3, HeapAssumption DEF Blocks
    <3>5. \A b \in s .. e - 1 : b \in a.table.next
      BY <1>1, <1>4, <3>2
    <3>. QED
      BY <1>1, <3>1, <3>2, <3>4, <3>5, EndIs DEF e
  <2>6. RunEnd(a.table, a.at) - a.at + 1 = n
    BY <1>2, <2>1, <2>4 DEF Blocks
  <2>7. Runs(a.table) = Runs(tb) \cup {<<a.at, n>>}
    <3>1. Runs(a.table)
              = {<<s, RunEnd(a.table, s) - s + 1>> : s \in tb.first}
                \cup {<<a.at, RunEnd(a.table, a.at) - a.at + 1>>}
      BY <1>1, <1>4 DEF Runs
    <3>2. {<<s, RunEnd(a.table, s) - s + 1>> : s \in tb.first} = Runs(tb)
      BY <2>5 DEF Runs
    <3>. QED
      BY <2>6, <3>1, <3>2
  <2>. QED
    BY <1>1, <1>4, <2>1, <2>3, <2>7 DEF a, n
<1>. QED
  BY <1>3, <1>4

(* Freeing an allocation takes its run away and changes no other           *)
(* (heap_free).                                                            *)
LEMMA RunsOfFree ==
    ASSUME NEW tb, HeapOK(tb), NEW run \in Runs(tb)
    PROVE  /\ run[1] \in tb.first
           /\ HeapOK(kfree(tb, run[1]))
           /\ Runs(kfree(tb, run[1])) = Runs(tb) \ {run}
           /\ kfree(tb, run[1]).taken = tb.taken \ RunBlocks(run)
<1>1. PICK s \in tb.first : run = <<s, RunEnd(tb, s) - s + 1>>
  BY DEF Runs
<1>. DEFINE after == kfree(tb, s)
            freed == s .. RunEnd(tb, s)
<1>2. s \in Blocks /\ run[1] = s
  BY <1>1 DEF HeapOK
<1>3. HeapOK(after)
  BY <1>2, FreeOK
<1>4. after = [taken |-> tb.taken \ freed, first |-> tb.first \ freed,
               next |-> tb.next \ freed]
  BY <1>2, HeapAssumption DEF kfree, heap_free, heap_free_blocks, Blocks, None
<1>5. RunEnd(tb, s) \in s .. HEAP_BLOCKS - 1
  BY <1>2, EndOfRun
<1>. HIDE DEF after
<1>6. after.first = tb.first \ {s}
  <2>1. ASSUME NEW t \in tb.first, t \in freed PROVE t = s
    <3>1. t \in Blocks
      BY DEF HeapOK
    <3>2. ~ (s < t)
      BY <1>1, <1>2, <1>5, <2>1, <3>1, RunsDisjoint, HeapAssumption DEF Blocks
    <3>. QED
      BY <1>2, <1>5, <2>1, <3>1, <3>2, HeapAssumption DEF Blocks
  <2>2. s \in freed
    BY <1>2, <1>5, HeapAssumption DEF Blocks
  <2>. QED
    BY <1>4, <2>1, <2>2
<1>7. ASSUME NEW t \in after.first PROVE RunEnd(after, t) = RunEnd(tb, t)
  <2>. DEFINE e == RunEnd(tb, t)
  <2>1. t \in Blocks /\ t \in tb.first /\ t # s
    BY <1>6 DEF HeapOK
  <2>2. /\ e \in t .. HEAP_BLOCKS - 1 /\ e \notin tb.next
        /\ \A b \in t .. e - 1 : b \in tb.next
    BY <2>1, EndOfRun
  <2>3. s < t => RunEnd(tb, s) < t
    BY <1>1, <2>1, RunsDisjoint
  <2>4. t < s => e < s
    BY <1>1, <2>1, RunsDisjoint
  <2>. HIDE DEF e
  <2>5. \A b \in t .. e : b \notin freed
    BY <1>2, <1>5, <2>1, <2>2, <2>3, <2>4, HeapAssumption DEF Blocks
  <2>6. \A b \in t .. e - 1 : b \in after.next
    BY <1>4, <2>1, <2>2, <2>5, HeapAssumption DEF Blocks
  <2>7. e \notin after.next
    BY <1>4, <2>2
  <2>. QED
    BY <1>3, <2>1, <2>2, <2>6, <2>7, EndIs DEF e
<1>8. Runs(after) = Runs(tb) \ {run}
  <2>1. Runs(after) = {<<t, RunEnd(tb, t) - t + 1>> : t \in tb.first \ {s}}
    BY <1>6, <1>7 DEF Runs
  <2>2. ASSUME NEW t \in tb.first PROVE <<t, RunEnd(tb, t) - t + 1>> = run <=> t = s
    BY <1>1
  <2>. QED
    BY <2>1, <2>2 DEF Runs
<1>9. after.taken = tb.taken \ RunBlocks(run)
  <2>1. /\ s \in Int /\ RunEnd(tb, s) \in Int
        /\ run[1] = s /\ run[2] = RunEnd(tb, s) - s + 1
    BY <1>1, <1>2, <1>5, HeapAssumption DEF Blocks
  <2>2. s + (RunEnd(tb, s) - s + 1) - 1 = RunEnd(tb, s)
    BY <2>1
  <2>3. RunBlocks(run) = freed
    BY <2>1, <2>2 DEF RunBlocks
  <2>. QED
    BY <1>4, <2>3
<1>. QED
  BY <1>1, <1>2, <1>3, <1>8, <1>9 DEF after

(* heap_free gives back the blocks of the allocation that starts at the    *)
(* address, all of them and no other's, and does nothing when none starts  *)
(* there; the table stays consistent (heap_free, heap_free_blocks).        *)
THEOREM FreeKeepsHeap ==
    ASSUME NEW tb, HeapOK(tb), NEW addr \in Blocks \cup {None}
    PROVE  /\ HeapOK(kfree(tb, addr))
           /\ \A run \in Runs(tb) : run[1] = addr =>
                  /\ kfree(tb, addr).taken = tb.taken \ RunBlocks(run)
                  /\ Runs(kfree(tb, addr)) = Runs(tb) \ {run}
           /\ (\A run \in Runs(tb) : run[1] # addr) => kfree(tb, addr) = tb
<1>1. HeapOK(kfree(tb, addr))
  BY FreeOK
<1>2. ASSUME NEW run \in Runs(tb), run[1] = addr
      PROVE  /\ kfree(tb, addr).taken = tb.taken \ RunBlocks(run)
             /\ Runs(kfree(tb, addr)) = Runs(tb) \ {run}
  BY <1>2, RunsOfFree
<1>3. ASSUME \A run \in Runs(tb) : run[1] # addr
      PROVE  kfree(tb, addr) = tb
  <2>1. ASSUME addr \in tb.first PROVE FALSE
    <3>1. <<addr, RunEnd(tb, addr) - addr + 1>> \in Runs(tb)
      BY <2>1 DEF Runs
    <3>. QED
      BY <1>3, <3>1
  <2>. QED
    BY <2>1 DEF kfree, heap_free
<1>. QED
  BY <1>1, <1>2, <1>3

-----------------------------------------------------------------------------
(* Holders and runs                                                        *)

(* Every run of the table has one holder and every holder its run.         *)
Accounts(tb, H) ==
    /\ HeapOK(tb)
    /\ {h.run : h \in H} = Runs(tb)
    /\ \A g, h \in H : g.run = h.run => g = h

(* What is accounted for is what is taken, no block of it twice            *)
(* (mark_taken_blocks).                                                    *)
LEMMA AccountsExact ==
    ASSUME NEW tb, NEW H, Accounts(tb, H)
    PROVE  /\ UNION {RunBlocks(h.run) : h \in H} = tb.taken
           /\ \A g, h \in H : g # h => RunBlocks(g.run) \cap RunBlocks(h.run) = {}
<1>1. ASSUME NEW h \in H
      PROVE  /\ h.run[1] \in tb.first /\ h.run[1] \in Blocks
             /\ h.run = <<h.run[1], RunEnd(tb, h.run[1]) - h.run[1] + 1>>
             /\ RunEnd(tb, h.run[1]) \in h.run[1] .. HEAP_BLOCKS - 1
             /\ RunBlocks(h.run) = h.run[1] .. RunEnd(tb, h.run[1])
  <2>1. h.run \in Runs(tb)
    BY DEF Accounts
  <2>2. PICK s \in tb.first : h.run = <<s, RunEnd(tb, s) - s + 1>>
    BY <2>1 DEF Runs
  <2>3. s \in Blocks
    BY DEF Accounts, HeapOK
  <2>4. RunEnd(tb, s) \in s .. HEAP_BLOCKS - 1
    BY <2>3, EndOfRun DEF Accounts
  <2>. DEFINE e == RunEnd(tb, s)
  <2>5. s + (e - s + 1) - 1 = e
    <3>. HIDE DEF e
    <3>. QED
      BY <2>3, <2>4, HeapAssumption DEF Blocks, e
  <2>. QED
    BY <2>2, <2>3, <2>4, <2>5 DEF RunBlocks
<1>2. ASSUME NEW b \in tb.taken PROVE \E h \in H : b \in RunBlocks(h.run)
  <2>1. PICK s \in tb.first : b \in s .. RunEnd(tb, s)
    BY TakenInRun DEF Accounts
  <2>2. PICK h \in H : h.run = <<s, RunEnd(tb, s) - s + 1>>
    BY DEF Accounts, Runs
  <2>3. h.run[1] = s
    BY <2>2
  <2>4. RunBlocks(h.run) = s .. RunEnd(tb, s)
    BY <1>1, <2>3
  <2>. QED
    BY <2>1, <2>4
<1>3. ASSUME NEW h \in H, NEW b \in RunBlocks(h.run) PROVE b \in tb.taken
  BY <1>1, RunTaken DEF Accounts
<1>4. ASSUME NEW g \in H, NEW h \in H, g # h
      PROVE  RunBlocks(g.run) \cap RunBlocks(h.run) = {}
  <2>. DEFINE s == g.run[1]
              t == h.run[1]
  <2>1. s # t
    BY <1>1, <1>4 DEF Accounts
  <2>2. s < t => RunEnd(tb, s) < t
    BY <1>1, RunsDisjoint DEF Accounts
  <2>3. t < s => RunEnd(tb, t) < s
    BY <1>1, RunsDisjoint DEF Accounts
  <2>4. /\ s \in Blocks /\ t \in Blocks
        /\ RunEnd(tb, s) \in s .. HEAP_BLOCKS - 1
        /\ RunEnd(tb, t) \in t .. HEAP_BLOCKS - 1
        /\ RunBlocks(g.run) = s .. RunEnd(tb, s)
        /\ RunBlocks(h.run) = t .. RunEnd(tb, t)
    BY <1>1
  <2>. HIDE DEF s, t
  <2>. QED
    BY <2>1, <2>2, <2>3, <2>4, HeapAssumption DEF Blocks
<1>. QED
  BY <1>2, <1>3, <1>4

(* A holder of its own for what was just allocated (kmalloc)               *)
LEMMA Grant ==
    ASSUME NEW tb, NEW H, Accounts(tb, H), NEW size \in Nat, NEW by
    PROVE  LET a == kmalloc(tb, size)
               c == [by |-> by, run |-> <<a.at, BlocksFor(size)>>]
           IN  /\ a.at \in Blocks \cup {None}
               /\ Accounts(a.table, IF a.at = None THEN H ELSE H \cup {c})
               /\ a.at # None => c \notin H
<1>. DEFINE a == kmalloc(tb, size)
            c == [by |-> by, run |-> <<a.at, BlocksFor(size)>>]
<1>1. /\ HeapOK(a.table)
      /\ a.at \in Blocks \cup {None}
      /\ a.at = None => Runs(a.table) = Runs(tb)
      /\ a.at # None => /\ a.at \notin tb.first
                        /\ Runs(a.table) = Runs(tb) \cup {<<a.at, BlocksFor(size)>>}
  BY RunsOfMalloc DEF Accounts
<1>2. ASSUME a.at # None, NEW h \in H PROVE h.run # c.run /\ h # c
  <2>1. h.run \in Runs(tb)
    BY DEF Accounts
  <2>2. h.run[1] \in tb.first
    BY <2>1 DEF Runs
  <2>. QED
    BY <1>1, <1>2, <2>2
<1>. HIDE DEF a
<1>3. CASE a.at = None
  BY <1>1, <1>3 DEF Accounts, a
<1>4. CASE a.at # None
  <2>1. {h.run : h \in H \cup {c}} = {h.run : h \in H} \cup {c.run}
    OBVIOUS
  <2>2. {h.run : h \in H \cup {c}} = Runs(a.table)
    BY <1>1, <1>4, <2>1 DEF Accounts
  <2>3. \A g, h \in H \cup {c} : g.run = h.run => g = h
    BY <1>2, <1>4 DEF Accounts
  <2>. QED
    BY <1>1, <1>2, <1>4, <2>2, <2>3 DEF Accounts, a
<1>. QED
  BY <1>3, <1>4

(* and none for what was freed (kfree)                                     *)
LEMMA Return ==
    ASSUME NEW tb, NEW H, Accounts(tb, H), NEW c \in H
    PROVE  Accounts(kfree(tb, c.run[1]), H \ {c})
<1>1. c.run \in Runs(tb)
  BY DEF Accounts
<1>2. /\ HeapOK(kfree(tb, c.run[1]))
      /\ Runs(kfree(tb, c.run[1])) = Runs(tb) \ {c.run}
  BY <1>1, RunsOfFree DEF Accounts
<1>3. {h.run : h \in H \ {c}} = {h.run : h \in H} \ {c.run}
  BY DEF Accounts
<1>. QED
  BY <1>2, <1>3 DEF Accounts

-----------------------------------------------------------------------------
(* The blocks of a task                                                    *)

Ptrs == Blocks \cup {None}

SpaceType ==
    [dir : Ptrs, dir_entry : Ptrs, user_tables : [Tables -> Ptrs],
     pages : [UserPages -> [block : Ptrs, writable : BOOLEAN]],
     kernel_stack : Ptrs, brk_start : Nat, brk : Nat]

(* Tables hang below a directory and pages below their table: who walks    *)
(* down from the directory meets them all (task_free).                     *)
Shape(s) ==
    /\ s.dir = None => /\ s.dir_entry = None
                       /\ \A i \in Tables : s.user_tables[i] = None
    /\ \A p \in UserPages :
           s.pages[p].block # None => s.user_tables[TableOf(p)] # None

(* The blocks a task may hold: its directory, its tables, its pages, its   *)
(* kernel stack (struct task, struct page_dir).                            *)
LEMMA FieldKinds ==
    ASSUME NEW f \in Fields
    PROVE  \/ f \in {<<"dir", 0>>, <<"dir_entry", 0>>, <<"kernel_stack", 0>>}
           \/ \E i \in Tables : f = <<"table", i>>
           \/ \E p \in UserPages : f = <<"page", p>>
BY DEF Fields

(* Where each of them is kept (struct page_dir, struct task)               *)
LEMMA FieldBlocks ==
    ASSUME NEW s
    PROVE  /\ BlockOf(s, <<"dir", 0>>) = s.dir
           /\ BlockOf(s, <<"dir_entry", 0>>) = s.dir_entry
           /\ BlockOf(s, <<"kernel_stack", 0>>) = s.kernel_stack
           /\ \A i : BlockOf(s, <<"table", i>>) = s.user_tables[i]
           /\ \A p : BlockOf(s, <<"page", p>>) = s.pages[p].block
BY DEF BlockOf

(* Everything but the kernel stack is one block long (kzalloc).            *)
LEMMA FieldLengths ==
    /\ BlocksOf(<<"dir", 0>>) = BlocksFor(1)
    /\ BlocksOf(<<"dir_entry", 0>>) = BlocksFor(PAGE_SIZE)
    /\ BlocksOf(<<"kernel_stack", 0>>) = BlocksFor(TASK_KERNEL_STACK_SIZE)
    /\ \A i : BlocksOf(<<"table", i>>) = BlocksFor(PAGE_SIZE)
    /\ \A p : BlocksOf(<<"page", p>>) = BlocksFor(PAGE_SIZE)
<1>. DEFINE S == HEAP_BLOCK_SIZE
<1>1. S \in Nat \ {0}
  BY HeapAssumption
<1>2. (1 + S - 1) \div S = 1
  <2>1. 1 + S - 1 = S * 1
    BY <1>1
  <2>. QED
    BY <1>1, <2>1
<1>3. (S + S - 1) \div S = 1
  <2>. DEFINE q == (S + S - 1) \div S
  <2>1. q \in Int /\ S * q <= S + S - 1 /\ S + S - 1 < S * q + S
    BY <1>1
  <2>2. q < 2
    BY <1>1, <2>1
  <2>3. q > 0
    BY <1>1, <2>1
  <2>. QED
    BY <2>1, <2>2, <2>3
<1>. QED
  BY <1>2, <1>3 DEF BlocksOf, BlocksFor, PAGE_SIZE

(* All of them are fields of the accounts (struct page_dir, struct task).  *)
LEMMA FieldsThere ==
    /\ {<<"dir", 0>>, <<"dir_entry", 0>>, <<"kernel_stack", 0>>} \subseteq Fields
    /\ \A i \in Tables : <<"table", i>> \in Fields
    /\ \A p \in UserPages : <<"page", p>> \in Fields
BY DEF Fields

(* A field holds a block or none (struct page_dir).                        *)
LEMMA BlockOfType ==
    ASSUME NEW s \in SpaceType, NEW f \in Fields
    PROVE  BlockOf(s, f) \in Ptrs
<1>1. CASE f \in {<<"dir", 0>>, <<"dir_entry", 0>>, <<"kernel_stack", 0>>}
  BY <1>1, FieldBlocks DEF SpaceType
<1>2. ASSUME NEW i \in Tables, f = <<"table", i>> PROVE BlockOf(s, f) \in Ptrs
  BY <1>2, FieldBlocks DEF SpaceType
<1>3. ASSUME NEW p \in UserPages, f = <<"page", p>> PROVE BlockOf(s, f) \in Ptrs
  BY <1>3, FieldBlocks DEF SpaceType
<1>. QED
  BY <1>1, <1>2, <1>3, FieldKinds

(* No one else claims what a task does.                                    *)
Apart(X, t) == \A x \in X, f \in Fields : x.by # <<"task", t, f>>

(* What the fields hold is all that counts for who holds what.             *)
LEMMA SameClaims ==
    ASSUME NEW t, NEW s, NEW s2, NEW G,
           \A g \in G : BlockOf(s2, g) = BlockOf(s, g)
    PROVE  Claims(t, s2, G) = Claims(t, s, G)
BY DEF Claims, Claim

(* Memory that was asked for is stored in an empty field, or nothing is    *)
(* (page_dir_new_user, page_dir_user_entry, task_user_page).               *)
LEMMA Store ==
    ASSUME NEW tb, NEW X, NEW t, NEW s, NEW s2, NEW f \in Fields, NEW size \in Nat,
           Accounts(tb, X \cup Claims(t, s, Fields)),
           BlockOf(s, f) = None, BlocksFor(size) = BlocksOf(f),
           BlockOf(s2, f) = kmalloc(tb, size).at,
           \A g \in Fields \ {f} : BlockOf(s2, g) = BlockOf(s, g)
    PROVE  /\ kmalloc(tb, size).at \in Ptrs
           /\ Accounts(kmalloc(tb, size).table, X \cup Claims(t, s2, Fields))
<1>. DEFINE a == kmalloc(tb, size)
            H == X \cup Claims(t, s, Fields)
            c == [by |-> <<"task", t, f>>, run |-> <<a.at, BlocksFor(size)>>]
<1>1. /\ a.at \in Ptrs
      /\ Accounts(a.table, IF a.at = None THEN H ELSE H \cup {c})
  BY Grant DEF Ptrs
<1>2. X \cup Claims(t, s2, Fields) = IF a.at = None THEN H ELSE H \cup {c}
  <2>. HIDE DEF a
  <2>1. Claims(t, s2, Fields \ {f}) = Claims(t, s, Fields \ {f})
    BY SameClaims
  <2>2. Claims(t, s, Fields \ {f}) = Claims(t, s, Fields)
    BY DEF Claims
  <2>3. CASE a.at = None
    <3>1. Claims(t, s2, Fields \ {f}) = Claims(t, s2, Fields)
      BY <2>3 DEF Claims, a
    <3>. QED
      BY <2>1, <2>2, <2>3, <3>1
  <2>4. CASE a.at # None
    <3>1. Claims(t, s2, Fields) = Claims(t, s2, Fields \ {f}) \cup {Claim(t, s2, f)}
      BY <2>4 DEF Claims, a
    <3>2. Claim(t, s2, f) = c
      BY DEF Claim, a
    <3>. QED
      BY <2>1, <2>2, <2>4, <3>1, <3>2
  <2>. QED
    BY <2>3, <2>4
<1>. QED
  BY <1>1, <1>2

(* Memory that is freed is no longer the field's (page_dir_free_user,      *)
(* task_free).                                                             *)
LEMMA Drop ==
    ASSUME NEW tb, NEW X, NEW t, NEW s, NEW G \in SUBSET Fields, NEW f \in G,
           Accounts(tb, X \cup Claims(t, s, G)), Apart(X, t)
    PROVE  Accounts(kfree(tb, BlockOf(s, f)), X \cup Claims(t, s, G \ {f}))
<1>1. CASE BlockOf(s, f) = None
  <2>1. Claims(t, s, G \ {f}) = Claims(t, s, G)
    BY <1>1 DEF Claims
  <2>. QED
    BY <1>1, <2>1 DEF kfree
<1>2. CASE BlockOf(s, f) # None
  <2>. DEFINE c == Claim(t, s, f)
  <2>1. c \in Claims(t, s, G) /\ c.run[1] = BlockOf(s, f) /\ c.by = <<"task", t, f>>
    BY <1>2 DEF Claims, Claim
  <2>2. c \notin X
    BY <2>1 DEF Apart
  <2>3. ASSUME NEW g \in G, g # f PROVE Claim(t, s, g) # c
    <3>1. Claim(t, s, g).by = <<"task", t, g>>
      BY DEF Claim
    <3>2. <<"task", t, g>> # <<"task", t, f>>
      BY <2>3
    <3>. QED
      BY <2>1, <3>1, <3>2
  <2>. HIDE DEF c
  <2>4. Claims(t, s, G) \ {c} = Claims(t, s, G \ {f})
    BY <1>2, <2>3 DEF Claims, c
  <2>5. (X \cup Claims(t, s, G)) \ {c} = X \cup Claims(t, s, G \ {f})
    BY <2>2, <2>4
  <2>6. Accounts(kfree(tb, c.run[1]), (X \cup Claims(t, s, G)) \ {c})
    BY <2>1, Return
  <2>. QED
    BY <2>1, <2>5, <2>6
<1>. QED
  BY <1>1, <1>2

-----------------------------------------------------------------------------
(* A call, step by step                                                    *)

TableType == [taken : SUBSET Blocks, first : SUBSET Blocks, next : SUBSET Blocks]

CallType ==
    [ok : BOOLEAN, table : TableType, space : SpaceType, at : Ptrs, buf : Ptrs]

(* Half way through a call for task t, with X what everyone else holds and *)
(* b what the call keeps (the buffer, the kernel stack, whether the task   *)
(* runs and thus has a directory): all of it is accounted for.             *)
CallOK(m, t, X, b) ==
    /\ m \in CallType
    /\ Shape(m.space)
    /\ m.ok \/ b.runs => m.space.dir # None
    /\ m.buf = b.buf /\ m.space.kernel_stack = b.stack
    /\ Accounts(m.table, X \cup Claims(t, m.space, Fields))

Fresh(buf) == [buf |-> buf, stack |-> None, runs |-> FALSE]

(* The constants of the address space (config.h).                          *)
LEMMA SpaceNumbers ==
    /\ PAGE_SIZE \in Nat \ {0} /\ USER_CODE_ADDR \in Nat
    /\ TOTAL_ENTRIES_PER_TABLE \in Nat \ {0} /\ USER_SPACE_TABLES \in Nat
    /\ USER_STACK_SIZE \in Nat /\ TASK_KERNEL_STACK_SIZE \in Nat
    /\ Word \in Nat \ {0} /\ USER_SPACE_PAGES \in Nat
    /\ USER_SPACE_PAGES = TOTAL_ENTRIES_PER_TABLE * USER_SPACE_TABLES
    /\ FirstPage \in Int
BY HeapAssumption, SpaceAssumption DEF PAGE_SIZE, USER_SPACE_PAGES, FirstPage

(* Every page of the user space has one of its tables (PAGE_TABLE_INDEX).  *)
LEMMA TableIn ==
    ASSUME NEW p \in UserPages
    PROVE  TableOf(p) \in Tables
<1>1. p - FirstPage \in 0 .. TOTAL_ENTRIES_PER_TABLE * USER_SPACE_TABLES - 1
  BY SpaceNumbers DEF UserPages
<1>. QED
  BY <1>1, SpaceNumbers, QuotientIn DEF TableOf, Tables

(* What an allocation does to a call (kzalloc)                             *)
LEMMA AllocIs ==
    ASSUME NEW m \in CallType, NEW size
    PROVE  LET a == kmalloc(m.table, size)
           IN  Alloc(m, size) = [ok |-> m.ok /\ a.at # None, table |-> a.table,
                                 space |-> m.space, at |-> a.at, buf |-> m.buf]
<1>. DEFINE a == kmalloc(m.table, size)
            ok == m.ok /\ a.at # None
<1>1. Alloc(m, size)
          = [[[m EXCEPT !.ok = ok] EXCEPT !.table = a.table] EXCEPT !.at = a.at]
  BY DEF Alloc, Got
<1>2. m = [ok |-> m.ok, table |-> m.table, space |-> m.space, at |-> m.at,
           buf |-> m.buf]
  BY DEF CallType
<1>. HIDE DEF a, ok
<1>3. Alloc(m, size) = [ok |-> ok, table |-> a.table, space |-> m.space,
                        at |-> a.at, buf |-> m.buf]
  BY <1>1, <1>2
<1>. QED
  BY <1>3 DEF a, ok

(* A call that fails keeps what it has (goto out).                         *)
LEMMA FailOK ==
    ASSUME NEW m, NEW t, NEW X, NEW b, CallOK(m, t, X, b)
    PROVE  CallOK(Fail(m), t, X, b) /\ ~ Fail(m).ok
<1>1. Fail(m) = [ok |-> FALSE, table |-> m.table, space |-> m.space,
                 at |-> m.at, buf |-> m.buf]
  <2>1. m = [ok |-> m.ok, table |-> m.table, space |-> m.space, at |-> m.at,
             buf |-> m.buf]
    BY DEF CallOK, CallType
  <2>. DEFINE no == FALSE
  <2>2. Fail(m) = [m EXCEPT !.ok = no]
    BY DEF Fail
  <2>. HIDE DEF no
  <2>3. Fail(m) = [ok |-> no, table |-> m.table, space |-> m.space, at |-> m.at,
                   buf |-> m.buf]
    BY <2>1, <2>2
  <2>. QED
    BY <2>3 DEF no
<1>. QED
  BY <1>1 DEF CallOK, CallType

(* A table of the heap that is accounted for is one.                       *)
LEMMA AccountsType ==
    ASSUME NEW tb, NEW H, Accounts(tb, H)
    PROVE  tb \in TableType
BY DEF Accounts, HeapOK, TableType

(* An allocation that is stored in an empty field of the task's memory; s2 *)
(* is that memory with the field set (page_dir_user_entry, task_user_page, *)
(* task_spawn).                                                            *)
LEMMA Stored ==
    ASSUME NEW m, NEW t, NEW X, NEW b, CallOK(m, t, X, b), m.ok,
           NEW size \in Nat, NEW f \in Fields, BlocksFor(size) = BlocksOf(f),
           BlockOf(m.space, f) = None, NEW s2,
           Alloc(m, size).at \in Blocks =>
               /\ s2 \in SpaceType /\ Shape(s2) /\ s2.dir # None
               /\ s2.kernel_stack = m.space.kernel_stack,
           BlockOf(s2, f) = Alloc(m, size).at,
           \A g \in Fields \ {f} : BlockOf(s2, g) = BlockOf(m.space, g)
    PROVE  LET m1 == Alloc(m, size)
               r == IF m1.ok THEN [m1 EXCEPT !.space = s2] ELSE m1
           IN  CallOK(r, t, X, b) /\ (r.ok => r.space = s2 /\ m1.at # None)
<1>. DEFINE a == kmalloc(m.table, size)
            m1 == Alloc(m, size)
            r == IF m1.ok THEN [m1 EXCEPT !.space = s2] ELSE m1
<1>1. m \in CallType /\ m.space \in SpaceType /\ m.buf \in Ptrs
  BY DEF CallOK, CallType
<1>2. m1 = [ok |-> m.ok /\ a.at # None, table |-> a.table,
            space |-> m.space, at |-> a.at, buf |-> m.buf]
  BY <1>1, AllocIs
<1>3. m1.at = a.at
  BY <1>2
<1>4. Accounts(m.table, X \cup Claims(t, m.space, Fields))
  BY DEF CallOK
<1>. HIDE DEF a
<1>5. a.at \in Ptrs /\ Accounts(a.table, X \cup Claims(t, s2, Fields))
  BY <1>3, <1>4, Store DEF a
<1>6. a.table \in TableType
  BY <1>5, AccountsType
<1>7. CASE a.at = None
  <2>1. m1 = [ok |-> FALSE, table |-> a.table, space |-> m.space,
              at |-> a.at, buf |-> m.buf]
    BY <1>2, <1>7
  <2>2. Claims(t, s2, Fields) = Claims(t, m.space, Fields)
    <3>1. \A g \in Fields : BlockOf(s2, g) = BlockOf(m.space, g)
      BY <1>3, <1>7
    <3>. QED
      BY <3>1, SameClaims
  <2>. HIDE DEF m1
  <2>3. CallOK(m1, t, X, b)
    BY <1>1, <1>5, <1>6, <2>1, <2>2 DEF CallOK, CallType
  <2>. QED
    BY <2>1, <2>3 DEF m1
<1>8. CASE a.at # None
  <2>1. m1 = [ok |-> TRUE, table |-> a.table, space |-> m.space,
              at |-> a.at, buf |-> m.buf]
    BY <1>2, <1>8
  <2>2. /\ s2 \in SpaceType /\ Shape(s2) /\ s2.dir # None
        /\ s2.kernel_stack = m.space.kernel_stack
    BY <1>3, <1>5, <1>8 DEF Ptrs
  <2>. HIDE DEF m1
  <2>3. r = [ok |-> TRUE, table |-> a.table, space |-> s2,
             at |-> a.at, buf |-> m.buf]
    BY <2>1
  <2>. HIDE DEF r
  <2>4. CallOK(r, t, X, b)
    BY <1>1, <1>5, <1>6, <2>2, <2>3 DEF CallOK, CallType
  <2>. QED
    BY <1>3, <1>8, <2>3, <2>4 DEF m1, r
<1>. QED
  BY <1>7, <1>8

(* A task's memory, field by field (struct task)                           *)
LEMMA SpaceIs ==
    ASSUME NEW s \in SpaceType
    PROVE  s = [dir |-> s.dir, dir_entry |-> s.dir_entry,
                user_tables |-> s.user_tables, pages |-> s.pages,
                kernel_stack |-> s.kernel_stack, brk_start |-> s.brk_start,
                brk |-> s.brk]
BY DEF SpaceType

(* The table of a page is there afterwards, or there was no memory for it  *)
(* (page_dir_user_entry).                                                  *)
LEMMA EntryOK ==
    ASSUME NEW m, NEW t, NEW X, NEW b, CallOK(m, t, X, b), m.ok, NEW page
    PROVE  LET r == page_dir_user_entry(m, page)
           IN  /\ CallOK(r, t, X, b)
               /\ r.ok => /\ page \in UserPages
                          /\ r.space.user_tables[TableOf(page)] # None
<1>. DEFINE r == page_dir_user_entry(m, page)
            i == TableOf(page)
            m1 == Alloc(m, PAGE_SIZE)
<1>1. CASE page \notin UserPages
  BY <1>1, FailOK DEF page_dir_user_entry
<1>2. CASE page \in UserPages /\ m.space.user_tables[i] # None
  BY <1>2 DEF page_dir_user_entry
<1>3. CASE page \in UserPages /\ m.space.user_tables[i] = None
  <2>. DEFINE s2 == [m.space EXCEPT !.user_tables[i] = m1.at]
              f == <<"table", i>>
  <2>1. i \in Tables
    BY <1>3, TableIn
  <2>2. m \in CallType /\ m.space \in SpaceType /\ PAGE_SIZE \in Nat
    BY SpaceNumbers DEF CallOK, CallType
  <2>. HIDE DEF i
  <2>3. r = NewTable(m1, i)
    BY <1>3 DEF page_dir_user_entry, i
  <2>4. m1.space = m.space /\ DOMAIN m1 = {"ok", "table", "space", "at", "buf"}
    BY <2>2, AllocIs
  <2>. HIDE DEF m1
  <2>5. s2 = [dir |-> m.space.dir, dir_entry |-> m.space.dir_entry,
              user_tables |-> [m.space.user_tables EXCEPT ![i] = m1.at],
              pages |-> m.space.pages, kernel_stack |-> m.space.kernel_stack,
              brk_start |-> m.space.brk_start, brk |-> m.space.brk]
    BY <2>2, SpaceIs
  <2>6. BlockOf(m.space, f) = None /\ BlockOf(s2, f) = m1.at
    BY <1>3, <2>1, <2>2, <2>5, FieldBlocks DEF SpaceType, i
  <2>. HIDE DEF s2
  <2>7. \A g \in Fields \ {f} : BlockOf(s2, g) = BlockOf(m.space, g)
    <3>1. ASSUME NEW g \in Fields, g # f
          PROVE  BlockOf(s2, g) = BlockOf(m.space, g)
      <4>1. CASE g \in {<<"dir", 0>>, <<"dir_entry", 0>>, <<"kernel_stack", 0>>}
        BY <2>5, <4>1, FieldBlocks
      <4>2. ASSUME NEW j \in Tables, g = <<"table", j>>
            PROVE  BlockOf(s2, g) = BlockOf(m.space, g)
        <5>1. s2.user_tables[j] = m.space.user_tables[j]
          BY <2>1, <2>2, <2>5, <3>1, <4>2 DEF SpaceType
        <5>. QED
          BY <4>2, <5>1, FieldBlocks
      <4>3. ASSUME NEW p \in UserPages, g = <<"page", p>>
            PROVE  BlockOf(s2, g) = BlockOf(m.space, g)
        BY <2>5, <4>3, FieldBlocks
      <4>. QED
        BY <4>1, <4>2, <4>3, FieldKinds
    <3>. QED
      BY <3>1
  <2>8. f \in Fields /\ BlocksFor(PAGE_SIZE) = BlocksOf(f)
    BY <2>1, FieldsThere, FieldLengths
  <2>9. ASSUME m1.at \in Blocks
        PROVE  /\ s2 \in SpaceType /\ Shape(s2) /\ s2.dir # None
               /\ s2.kernel_stack = m.space.kernel_stack
    <3>1. s2 \in SpaceType
      BY <2>1, <2>2, <2>5, <2>9 DEF SpaceType, Ptrs
    <3>2. s2.dir # None
      BY <2>5 DEF CallOK
    <3>3. ASSUME NEW p \in UserPages, s2.pages[p].block # None
          PROVE  s2.user_tables[TableOf(p)] # None
      <4>1. m.space.user_tables[TableOf(p)] # None
        BY <2>5, <3>3 DEF CallOK, Shape
      <4>2. m1.at # None
        BY <2>9 DEF Blocks, None
      <4>. QED
        BY <2>1, <2>2, <2>5, <4>1, <4>2, TableIn DEF SpaceType
    <3>. QED
      BY <2>5, <3>1, <3>2, <3>3 DEF Shape
  <2>10. r = IF m1.ok THEN [m1 EXCEPT !.space = s2] ELSE m1
    <3>1. m1.ok => r = [m1 EXCEPT !.space.user_tables[i] = m1.at]
      BY <2>3 DEF NewTable
    <3>2. ~ m1.ok => r = m1
      BY <2>3 DEF NewTable
    <3>. QED
      BY <2>4, <3>1, <3>2 DEF s2
  <2>. HIDE DEF r, f
  <2>11. CallOK(r, t, X, b) /\ (r.ok => r.space = s2 /\ m1.at # None)
    BY <2>2, <2>6, <2>7, <2>8, <2>9, <2>10, Stored DEF m1
  <2>12. s2.user_tables[i] = m1.at
    BY <2>1, <2>2, <2>5 DEF SpaceType
  <2>. QED
    BY <1>3, <2>11, <2>12 DEF i, r
<1>. QED
  BY <1>1, <1>2, <1>3

(* A page whose table is there gets its block, or there was no memory for  *)
(* it (task_user_page).                                                    *)
LEMMA MapPageOK ==
    ASSUME NEW m, NEW t, NEW X, NEW b, CallOK(m, t, X, b), NEW page,
           m.ok => /\ page \in UserPages
                   /\ m.space.user_tables[TableOf(page)] # None
    PROVE  LET r == MapPage(m, page)
           IN  /\ CallOK(r, t, X, b)
               /\ r.ok => page \in UserPages /\ r.space.pages[page].block # None
<1>. DEFINE r == MapPage(m, page)
            m1 == Alloc(m, PAGE_SIZE)
<1>1. CASE ~ (m.ok /\ m.space.pages[page].block = None)
  BY <1>1 DEF MapPage
<1>2. CASE m.ok /\ m.space.pages[page].block = None
  <2>. DEFINE s2 == [m.space EXCEPT !.pages[page].block = m1.at]
              f == <<"page", page>>
  <2>1. page \in UserPages /\ m.space.user_tables[TableOf(page)] # None
    BY <1>2
  <2>2. m \in CallType /\ m.space \in SpaceType /\ PAGE_SIZE \in Nat
    BY SpaceNumbers DEF CallOK, CallType
  <2>3. r = NewPage(m1, page)
    BY <1>2 DEF MapPage
  <2>4. m1.space = m.space /\ DOMAIN m1 = {"ok", "table", "space", "at", "buf"}
    BY <2>2, AllocIs
  <2>. HIDE DEF m1
  <2>5. s2 = [dir |-> m.space.dir, dir_entry |-> m.space.dir_entry,
              user_tables |-> m.space.user_tables,
              pages |-> [m.space.pages EXCEPT ![page].block = m1.at],
              kernel_stack |-> m.space.kernel_stack,
              brk_start |-> m.space.brk_start, brk |-> m.space.brk]
    BY <2>2, SpaceIs
  <2>. HIDE DEF s2
  <2>6. /\ s2.pages[page] = [block |-> m1.at,
                             writable |-> m.space.pages[page].writable]
        /\ \A p \in UserPages \ {page} : s2.pages[p] = m.space.pages[p]
        /\ s2.pages \in [UserPages -> [block : {m1.at} \cup Ptrs,
                                       writable : BOOLEAN]]
    BY <2>1, <2>2, <2>5 DEF SpaceType
  <2>7. BlockOf(m.space, f) = None /\ BlockOf(s2, f) = m1.at
    BY <1>2, <2>6, FieldBlocks
  <2>8. \A g \in Fields \ {f} : BlockOf(s2, g) = BlockOf(m.space, g)
    <3>1. ASSUME NEW g \in Fields, g # f
          PROVE  BlockOf(s2, g) = BlockOf(m.space, g)
      <4>1. CASE g \in {<<"dir", 0>>, <<"dir_entry", 0>>, <<"kernel_stack", 0>>}
        BY <2>5, <4>1, FieldBlocks
      <4>2. ASSUME NEW j \in Tables, g = <<"table", j>>
            PROVE  BlockOf(s2, g) = BlockOf(m.space, g)
        BY <2>5, <4>2, FieldBlocks
      <4>3. ASSUME NEW p \in UserPages, g = <<"page", p>>
            PROVE  BlockOf(s2, g) = BlockOf(m.space, g)
        <5>1. s2.pages[p] = m.space.pages[p]
          BY <2>6, <3>1, <4>3
        <5>. QED
          BY <4>3, <5>1, FieldBlocks
      <4>. QED
        BY <4>1, <4>2, <4>3, FieldKinds
    <3>. QED
      BY <3>1
  <2>9. f \in Fields /\ BlocksFor(PAGE_SIZE) = BlocksOf(f)
    BY <2>1, FieldsThere, FieldLengths
  <2>10. ASSUME m1.at \in Blocks
         PROVE  /\ s2 \in SpaceType /\ Shape(s2) /\ s2.dir # None
                /\ s2.kernel_stack = m.space.kernel_stack
    <3>1. s2.pages \in [UserPages -> [block : Ptrs, writable : BOOLEAN]]
      <4>1. {m1.at} \cup Ptrs = Ptrs
        BY <2>10 DEF Ptrs
      <4>. QED
        BY <2>6, <4>1
    <3>2. s2 \in SpaceType
      BY <2>2, <2>5, <3>1 DEF SpaceType
    <3>3. s2.dir # None
      BY <1>2, <2>5 DEF CallOK
    <3>4. ASSUME NEW p \in UserPages, s2.pages[p].block # None
          PROVE  s2.user_tables[TableOf(p)] # None
      <4>1. CASE p = page
        BY <2>1, <2>5, <4>1
      <4>2. CASE p # page
        BY <2>5, <2>6, <3>4, <4>2 DEF CallOK, Shape
      <4>. QED
        BY <4>1, <4>2
    <3>. QED
      BY <2>5, <3>2, <3>3, <3>4 DEF Shape
  <2>11. r = IF m1.ok THEN [m1 EXCEPT !.space = s2] ELSE m1
    <3>1. m1.ok => r = [m1 EXCEPT !.space.pages[page].block = m1.at]
      BY <2>3 DEF NewPage
    <3>2. ~ m1.ok => r = m1
      BY <2>3 DEF NewPage
    <3>. QED
      BY <2>4, <3>1, <3>2 DEF s2
  <2>. HIDE DEF r, f
  <2>12. CallOK(r, t, X, b) /\ (r.ok => r.space = s2 /\ m1.at # None)
    BY <1>2, <2>2, <2>7, <2>8, <2>9, <2>10, <2>11, Stored DEF m1
  <2>. QED
    BY <2>1, <2>6, <2>12 DEF r
<1>. QED
  BY <1>1, <1>2

(* Whether a page may be written does not change who holds it              *)
(* (task_user_page).                                                       *)
LEMMA PermitOK ==
    ASSUME NEW m, NEW t, NEW X, NEW b, CallOK(m, t, X, b), NEW page,
           NEW writable \in BOOLEAN, m.ok => page \in UserPages
    PROVE  CallOK(Permit(m, page, writable), t, X, b)
<1>. DEFINE r == Permit(m, page, writable)
<1>1. CASE ~ m.ok
  BY <1>1 DEF Permit
<1>2. CASE m.ok
  <2>. DEFINE w == m.space.pages[page].writable \/ writable
              s2 == [m.space EXCEPT !.pages[page].writable = w]
  <2>1. /\ page \in UserPages /\ m \in CallType /\ m.space \in SpaceType
        /\ w \in BOOLEAN
    BY <1>2 DEF CallOK, CallType
  <2>2. r = [m EXCEPT !.space = s2]
    BY <1>2 DEF Permit
  <2>. HIDE DEF w
  <2>3. s2 = [dir |-> m.space.dir, dir_entry |-> m.space.dir_entry,
              user_tables |-> m.space.user_tables,
              pages |-> [m.space.pages EXCEPT ![page].writable = w],
              kernel_stack |-> m.space.kernel_stack,
              brk_start |-> m.space.brk_start, brk |-> m.space.brk]
    BY <2>1, SpaceIs
  <2>. HIDE DEF s2
  <2>4. /\ s2.pages \in [UserPages -> [block : Ptrs, writable : BOOLEAN]]
        /\ \A p \in UserPages : s2.pages[p].block = m.space.pages[p].block
    BY <2>1, <2>3 DEF SpaceType
  <2>5. s2 \in SpaceType
    BY <2>1, <2>3, <2>4 DEF SpaceType
  <2>6. /\ s2.dir = m.space.dir /\ s2.kernel_stack = m.space.kernel_stack
        /\ Shape(s2)
    BY <2>3, <2>4 DEF CallOK, Shape
  <2>7. Claims(t, s2, Fields) = Claims(t, m.space, Fields)
    <3>1. ASSUME NEW g \in Fields PROVE BlockOf(s2, g) = BlockOf(m.space, g)
      <4>1. CASE g \in {<<"dir", 0>>, <<"dir_entry", 0>>, <<"kernel_stack", 0>>}
        BY <2>3, <4>1, FieldBlocks
      <4>2. ASSUME NEW j \in Tables, g = <<"table", j>>
            PROVE  BlockOf(s2, g) = BlockOf(m.space, g)
        BY <2>3, <4>2, FieldBlocks
      <4>3. ASSUME NEW p \in UserPages, g = <<"page", p>>
            PROVE  BlockOf(s2, g) = BlockOf(m.space, g)
        BY <2>4, <4>3, FieldBlocks
      <4>. QED
        BY <4>1, <4>2, <4>3, FieldKinds
    <3>. QED
      BY <3>1, SameClaims
  <2>. HIDE DEF r
  <2>8. r = [ok |-> m.ok, table |-> m.table, space |-> s2, at |-> m.at,
             buf |-> m.buf]
    BY <2>1, <2>2 DEF CallType
  <2>9. CallOK(r, t, X, b)
    BY <2>1, <2>5, <2>6, <2>7, <2>8 DEF CallOK, CallType
  <2>. QED
    BY <2>9 DEF r
<1>. QED
  BY <1>1, <1>2

(* One page of a range, mapped or refused (task_copy_to_user)              *)
LEMMA CopyPageOK ==
    ASSUME NEW m, NEW t, NEW X, NEW b, CallOK(m, t, X, b), NEW page,
           NEW writable \in BOOLEAN
    PROVE  CallOK(CopyPage(m, page, writable), t, X, b)
<1>1. CASE ~ m.ok
  BY <1>1 DEF CopyPage
<1>2. CASE m.ok
  <2>. DEFINE e == page_dir_user_entry(m, page)
              p == MapPage(e, page)
  <2>1. /\ CallOK(e, t, X, b)
        /\ e.ok => /\ page \in UserPages
                   /\ e.space.user_tables[TableOf(page)] # None
    BY <1>2, EntryOK
  <2>. HIDE DEF e
  <2>2. CallOK(p, t, X, b) /\ (p.ok => page \in UserPages)
    BY <2>1, MapPageOK
  <2>. HIDE DEF p
  <2>3. CallOK(Permit(p, page, writable), t, X, b)
    BY <2>2, PermitOK
  <2>. QED
    BY <1>2, <2>3 DEF CopyPage, task_user_page, e, p
<1>. QED
  BY <1>1, <1>2

(* The pages of a range: as many as lie between its ends                   *)
(* (task_copy_to_user).                                                    *)
LEMMA PagesOfSeq ==
    ASSUME NEW vaddr \in Nat, NEW len \in Nat
    PROVE  Len(PagesOf(vaddr, len)) \in Nat
<1>. DEFINE first == vaddr \div PAGE_SIZE
            k == IF len = 0 THEN 0
                 ELSE (vaddr + len - 1) \div PAGE_SIZE - first + 1
<1>1. k \in Nat
  <2>1. CASE len = 0
    BY <2>1
  <2>2. CASE len # 0
    <3>1. /\ vaddr + len - 1 \in Int /\ vaddr \in Int /\ vaddr <= vaddr + len - 1
          /\ PAGE_SIZE \in Nat \ {0}
      BY <2>2, SpaceNumbers
    <3>. DEFINE last == (vaddr + len - 1) \div PAGE_SIZE
    <3>2. first \in Int /\ last \in Int /\ first <= last
      BY <3>1, QuotientGrows
    <3>. HIDE DEF first, last
    <3>3. last - first + 1 \in Nat
      BY <3>2
    <3>. QED
      BY <2>2, <3>3 DEF last
  <2>. QED
    BY <2>1, <2>2
<1>2. PagesOf(vaddr, len) = [i \in 1 .. k |-> first + i - 1]
  BY DEF PagesOf
<1>. HIDE DEF k
<1>3. Len(PagesOf(vaddr, len)) = k
  BY <1>1, <1>2
<1>. QED
  BY <1>1, <1>3

(* A call page after page up to r, all of it accounted for                 *)
CopyRun(g, m, r, pages, writable, t, X, b) ==
    /\ g[0] = m /\ g[Len(pages)] = r
    /\ \A n \in 1 .. Len(pages) : g[n] = CopyPage(g[n - 1], pages[n], writable)
    /\ \A n \in 0 .. Len(pages) : CallOK(g[n], t, X, b)

(* Pages mapped one after the other                                        *)
(* (task_copy_to_user).                                                    *)
LEMMA CopySteps ==
    ASSUME NEW m, NEW t, NEW X, NEW b, CallOK(m, t, X, b), NEW vaddr \in Nat,
           NEW len \in Nat, NEW writable \in BOOLEAN
    PROVE  \E g : CopyRun(g, m, task_copy_to_user(m, vaddr, len, writable),
                         PagesOf(vaddr, len), writable, t, X, b)
<1>. DEFINE pages == PagesOf(vaddr, len)
            N == Len(pages)
            S == {c \in CallType : CallOK(c, t, X, b)}
            F == [n \in 1 .. N |-> [c \in S |-> CopyPage(c, pages[n], writable)]]
            Is(g) == g = [n \in 0 .. N |->
                        IF n = 0 THEN m ELSE CopyPage(g[n - 1], pages[n], writable)]
            after == CHOOSE g : Is(g)
<1>1. N \in Nat /\ m \in S
  BY PagesOfSeq DEF CallOK
<1>2. ASSUME NEW c \in S, NEW page PROVE CopyPage(c, page, writable) \in S
  <2>. DEFINE r == CopyPage(c, page, writable)
  <2>1. CallOK(r, t, X, b)
    BY CopyPageOK
  <2>. HIDE DEF r
  <2>2. r \in CallType
    BY <2>1 DEF CallOK
  <2>. QED
    BY <2>1, <2>2 DEF r
<1>. HIDE DEF N
<1>3. F \in [1 .. N -> [S -> S]]
  BY <1>2
<1>4. \A n \in 1 .. N, c \in S : F[n][c] = CopyPage(c, pages[n], writable)
  OBVIOUS
<1>. HIDE DEF S, F, pages
<1>5. PICK g \in [0 .. N -> S] :
          g[0] = m /\ \A n \in 1 .. N : g[n] = F[n][g[n - 1]]
  BY <1>1, <1>3, Iteration
<1>6. Is(g)
  <2>1. \A n \in 0 .. N : g[n] = IF n = 0 THEN m ELSE CopyPage(g[n - 1], pages[n], writable)
    BY <1>1, <1>4, <1>5
  <2>. QED
    BY <1>5, <2>1
<1>7. Is(after)
  <2>. HIDE DEF Is
  <2>. QED
    BY <1>6
<1>. HIDE DEF after
<1>. DEFINE T == {n \in 0 .. N : after[n] \in S}
<1>8. 0 \in T
  BY <1>1, <1>7
<1>9. ASSUME NEW n \in 1 .. N, n - 1 \in T PROVE n \in T
  BY <1>1, <1>2, <1>7, <1>9
<1>10. 0 .. N \subseteq T
  <2>. HIDE DEF T
  <2>. QED
    BY <1>1, <1>8, <1>9, UpTo
<1>11. \A n \in 0 .. N : CallOK(after[n], t, X, b)
  BY <1>10 DEF S
<1>12. task_copy_to_user(m, vaddr, len, writable) = after[N]
  BY DEF task_copy_to_user, after, N, pages
<1>13. /\ after[0] = m
       /\ \A n \in 1 .. N : after[n] = CopyPage(after[n - 1], pages[n], writable)
  BY <1>1, <1>7
<1>. QED
  BY <1>11, <1>12, <1>13 DEF CopyRun, N, pages

(* and every one of them accounted for (task_copy_to_user).                *)
LEMMA CopyOK ==
    ASSUME NEW m, NEW t, NEW X, NEW b, CallOK(m, t, X, b), NEW vaddr \in Nat,
           NEW len \in Nat, NEW writable \in BOOLEAN
    PROVE  CallOK(task_copy_to_user(m, vaddr, len, writable), t, X, b)
BY CopySteps, PagesOfSeq DEF CopyRun

(* Moving the break changes no block (task_sbrk, task_load).               *)
LEMMA BreakOK ==
    ASSUME NEW m, NEW t, NEW X, NEW b, CallOK(m, t, X, b),
           NEW start \in Nat, NEW brk \in Nat
    PROVE  LET s2 == [[m.space EXCEPT !.brk_start = start] EXCEPT !.brk = brk]
           IN  CallOK([m EXCEPT !.space = s2], t, X, b)
<1>. DEFINE s2 == [[m.space EXCEPT !.brk_start = start] EXCEPT !.brk = brk]
            r == [m EXCEPT !.space = s2]
<1>1. m \in CallType /\ m.space \in SpaceType
  BY DEF CallOK, CallType
<1>2. s2 = [dir |-> m.space.dir, dir_entry |-> m.space.dir_entry,
            user_tables |-> m.space.user_tables, pages |-> m.space.pages,
            kernel_stack |-> m.space.kernel_stack,
            brk_start |-> start, brk |-> brk]
  <2>. DEFINE s1 == [m.space EXCEPT !.brk_start = start]
  <2>1. s1 = [dir |-> m.space.dir, dir_entry |-> m.space.dir_entry,
              user_tables |-> m.space.user_tables, pages |-> m.space.pages,
              kernel_stack |-> m.space.kernel_stack,
              brk_start |-> start, brk |-> m.space.brk]
    BY <1>1, SpaceIs
  <2>. HIDE DEF s1
  <2>2. [s1 EXCEPT !.brk = brk]
            = [dir |-> m.space.dir, dir_entry |-> m.space.dir_entry,
               user_tables |-> m.space.user_tables, pages |-> m.space.pages,
               kernel_stack |-> m.space.kernel_stack,
               brk_start |-> start, brk |-> brk]
    BY <2>1
  <2>. QED
    BY <2>2 DEF s1
<1>. HIDE DEF s2
<1>3. s2 \in SpaceType
  BY <1>1, <1>2 DEF SpaceType
<1>4. /\ s2.dir = m.space.dir /\ s2.kernel_stack = m.space.kernel_stack
      /\ Shape(s2)
  BY <1>2 DEF CallOK, Shape
<1>5. Claims(t, s2, Fields) = Claims(t, m.space, Fields)
  <2>1. \A g \in Fields : BlockOf(s2, g) = BlockOf(m.space, g)
    BY <1>2 DEF BlockOf
  <2>. QED
    BY <2>1, SameClaims
<1>6. r = [ok |-> m.ok, table |-> m.table, space |-> s2, at |-> m.at,
           buf |-> m.buf]
  BY <1>1 DEF CallType
<1>. HIDE DEF r
<1>7. CallOK(r, t, X, b)
  BY <1>1, <1>3, <1>4, <1>5, <1>6 DEF CallOK, CallType
<1>. QED
  BY <1>7 DEF r, s2

-----------------------------------------------------------------------------
(* Loading a program                                                       *)

Words == 0 .. Word - 1

SegmentType ==
    [vaddr : Words, memsz : Words, offset : Words, filesz : Words,
     writable : BOOLEAN]

(* A segment is mapped or refused (elf_load).                              *)
LEMMA SegmentOK ==
    ASSUME NEW m, NEW t, NEW X, NEW b, CallOK(m, t, X, b), NEW p,
           NEW ph \in SegmentType
    PROVE  CallOK(LoadSegment(m, p, ph), t, X, b)
<1>1. CASE ~ m.ok
  BY <1>1 DEF LoadSegment
<1>2. CASE m.ok /\ SegmentRefused(p, ph)
  BY <1>2, FailOK DEF LoadSegment
<1>3. CASE m.ok /\ ~ SegmentRefused(p, ph)
  <2>1. /\ ph.vaddr \in Nat /\ ph.filesz \in Nat /\ ph.memsz \in Nat
        /\ ph.writable \in BOOLEAN /\ ~ (ph.filesz > ph.memsz)
    BY <1>3, SpaceNumbers DEF SegmentType, Words, SegmentRefused
  <2>2. ph.vaddr + ph.filesz \in Nat /\ ph.memsz - ph.filesz \in Nat
    BY <2>1
  <2>. DEFINE c == task_copy_to_user(m, ph.vaddr, ph.filesz, ph.writable)
  <2>3. CallOK(c, t, X, b)
    BY <2>1, CopyOK
  <2>. HIDE DEF c
  <2>4. CallOK(task_copy_to_user(c, ph.vaddr + ph.filesz, ph.memsz - ph.filesz,
                                 ph.writable), t, X, b)
    BY <2>1, <2>2, <2>3, CopyOK
  <2>. QED
    BY <1>3, <2>4 DEF LoadSegment, c
<1>. QED
  BY <1>1, <1>2, <1>3

(* Segment after segment up to r (elf_load)                                *)
LoadRun(g, m, r, p, t, X, b) ==
    /\ g[0] = m /\ g[Len(p.segments)] = r
    /\ \A n \in 1 .. Len(p.segments) : g[n] = LoadSegment(g[n - 1], p, p.segments[n])
    /\ \A n \in 0 .. Len(p.segments) : CallOK(g[n], t, X, b)

(* keeps the accounts at every segment (elf_load),                         *)
LEMMA SegmentSteps ==
    ASSUME NEW m, NEW t, NEW X, NEW b, CallOK(m, t, X, b), NEW p,
           p.segments \in Seq(SegmentType)
    PROVE  \E g : LoadRun(g, m, LoadSegments(m, p), p, t, X, b)
<1>. DEFINE N == Len(p.segments)
            S == {c \in CallType : CallOK(c, t, X, b)}
            F == [n \in 1 .. N |-> [c \in S |-> LoadSegment(c, p, p.segments[n])]]
            Is(g) == g = [n \in 0 .. N |->
                        IF n = 0 THEN m ELSE LoadSegment(g[n - 1], p, p.segments[n])]
            after == CHOOSE g : Is(g)
<1>1. N \in Nat /\ m \in S
  BY DEF CallOK
<1>2. ASSUME NEW c \in S, NEW n \in 1 .. N
      PROVE  LoadSegment(c, p, p.segments[n]) \in S
  <2>. DEFINE r == LoadSegment(c, p, p.segments[n])
  <2>1. p.segments[n] \in SegmentType
    OBVIOUS
  <2>2. CallOK(r, t, X, b)
    BY <2>1, SegmentOK
  <2>. HIDE DEF r
  <2>3. r \in CallType
    BY <2>2 DEF CallOK
  <2>. QED
    BY <2>2, <2>3 DEF r
<1>. HIDE DEF N
<1>3. F \in [1 .. N -> [S -> S]]
  BY <1>2
<1>4. \A n \in 1 .. N, c \in S : F[n][c] = LoadSegment(c, p, p.segments[n])
  OBVIOUS
<1>. HIDE DEF S, F
<1>5. PICK g \in [0 .. N -> S] :
          g[0] = m /\ \A n \in 1 .. N : g[n] = F[n][g[n - 1]]
  BY ONLY <1>1, <1>3, Iteration
<1>6. Is(g)
  <2>1. \A n \in 0 .. N :
            g[n] = IF n = 0 THEN m ELSE LoadSegment(g[n - 1], p, p.segments[n])
    BY <1>1, <1>4, <1>5
  <2>. QED
    BY <1>5, <2>1
<1>7. Is(after)
  <2>. HIDE DEF Is
  <2>. QED
    BY <1>6
<1>. HIDE DEF after
<1>. DEFINE T == {n \in 0 .. N : after[n] \in S}
<1>8. 0 \in T
  BY <1>1, <1>7
<1>9. ASSUME NEW n \in 1 .. N, n - 1 \in T PROVE n \in T
  BY <1>1, <1>2, <1>7, <1>9
<1>10. 0 .. N \subseteq T
  <2>. HIDE DEF T
  <2>. QED
    BY <1>1, <1>8, <1>9, UpTo
<1>11. \A n \in 0 .. N : CallOK(after[n], t, X, b)
  BY <1>10 DEF S
<1>12. LoadSegments(m, p) = after[N]
  BY DEF LoadSegments, after, N
<1>13. /\ after[0] = m
       /\ \A n \in 1 .. N : after[n] = LoadSegment(after[n - 1], p, p.segments[n])
  BY <1>1, <1>7
<1>. QED
  BY <1>11, <1>12, <1>13 DEF LoadRun, N

(* and all of them accounted for (elf_load).                               *)
LEMMA SegmentsOK ==
    ASSUME NEW m, NEW t, NEW X, NEW b, CallOK(m, t, X, b), NEW p,
           p.segments \in Seq(SegmentType)
    PROVE  CallOK(LoadSegments(m, p), t, X, b)
BY SegmentSteps DEF LoadRun

(* The whole file: its header, its segments, its entry point (elf_load)    *)
LEMMA ElfOK ==
    ASSUME NEW m, NEW t, NEW X, NEW b, CallOK(m, t, X, b), NEW p,
           p.segments \in Seq(SegmentType)
    PROVE  CallOK(elf_load(m, p), t, X, b)
<1>. DEFINE c == LoadSegments(m, p)
<1>1. CallOK(c, t, X, b)
  BY SegmentsOK
<1>. HIDE DEF c
<1>2. CallOK(Fail(c), t, X, b) /\ CallOK(Fail(m), t, X, b)
  BY <1>1, FailOK
<1>. QED
  BY <1>1, <1>2 DEF elf_load, Enter, c

(* A program ends at a number: there are finitely many segments            *)
(* (elf_load).                                                             *)
LEMMA ImageEndNat ==
    ASSUME NEW p, p.segments \in Seq(SegmentType)
    PROVE  PageAligned(ImageEnd(p)) \in Nat
<1>. DEFINE N == Len(p.segments)
            end(i) == p.segments[i].vaddr + p.segments[i].memsz
            T == {k \in 0 .. N : \E n \in Nat : \A i \in 1 .. k : end(i) <= n}
            ends == {USER_CODE_ADDR} \cup {end(i) : i \in 1 .. N}
<1>1. N \in Nat /\ DOMAIN p.segments = 1 .. N /\ \A i \in 1 .. N : end(i) \in Nat
  <2>1. /\ N \in Nat /\ DOMAIN p.segments = 1 .. N
        /\ \A i \in 1 .. N : p.segments[i] \in SegmentType
    OBVIOUS
  <2>2. \A ph \in SegmentType : ph.vaddr + ph.memsz \in Nat
    BY SpaceNumbers DEF SegmentType, Words
  <2>. QED
    BY ONLY <2>1, <2>2
<1>. HIDE DEF N
<1>2. 0 \in T
  BY <1>1
<1>3. ASSUME NEW k \in 1 .. N, k - 1 \in T PROVE k \in T
  <2>. HIDE DEF end
  <2>1. PICK n \in Nat : \A i \in 1 .. k - 1 : end(i) <= n
    BY <1>3
  <2>2. end(k) \in Nat /\ n + end(k) \in Nat
    BY <1>1
  <2>3. \A i \in 1 .. k : end(i) <= n + end(k)
    BY <1>1, <2>1, <2>2
  <2>. QED
    BY <2>2, <2>3
<1>4. 0 .. N \subseteq T
  <2>. HIDE DEF T
  <2>. QED
    BY <1>1, <1>2, <1>3, UpTo
<1>. HIDE DEF end
<1>5. PICK n \in Nat : \A i \in 1 .. N : end(i) <= n
  <2>1. N \in T
    <3>. HIDE DEF T
    <3>. QED
      BY <1>1, <1>4
  <2>. QED
    BY <2>1
<1>6. ends \in SUBSET (0 .. n + USER_CODE_ADDR) /\ ends # {}
      /\ n + USER_CODE_ADDR \in Nat
  BY <1>1, <1>5, SpaceNumbers
<1>7. Max(ends) \in ends
  <2>. HIDE DEF ends
  <2>. QED
    BY <1>6, MaxIn
<1>8. ImageEnd(p) = Max(ends)
  BY <1>1 DEF ImageEnd, end
<1>9. ImageEnd(p) \in Nat
  BY <1>6, <1>7, <1>8, SpaceNumbers
<1>. DEFINE x == ImageEnd(p) + PAGE_SIZE - 1
            q == x \div PAGE_SIZE
<1>10. x \in Int /\ 0 <= x /\ 0 \in Int /\ PAGE_SIZE \in Nat \ {0}
  BY <1>9, SpaceNumbers
<1>11. 0 \div PAGE_SIZE = 0
  <2>1. PAGE_SIZE * 0 = 0
    BY <1>10
  <2>. QED
    BY <1>10, <2>1
<1>12. q \in Int /\ 0 <= q
  <2>. HIDE DEF x
  <2>. QED
    BY <1>10, <1>11, QuotientGrows
<1>. HIDE DEF q
<1>13. q * PAGE_SIZE \in Nat
  BY <1>10, <1>12
<1>. QED
  BY <1>13 DEF PageAligned, q

(* A task without memory claims none (task_alloc).                         *)
LEMMA NoSpaceOK ==
    ASSUME NEW t
    PROVE  /\ NoSpace \in SpaceType /\ Shape(NoSpace)
           /\ Claims(t, NoSpace, Fields) = {}
<1>1. NoSpace \in SpaceType /\ Shape(NoSpace)
  BY TableIn DEF NoSpace, SpaceType, Shape, NotPresent, Ptrs
<1>2. ASSUME NEW f \in Fields PROVE BlockOf(NoSpace, f) = None
  <2>1. CASE f \in {<<"dir", 0>>, <<"dir_entry", 0>>, <<"kernel_stack", 0>>}
    BY <2>1, FieldBlocks DEF NoSpace
  <2>2. ASSUME NEW i \in Tables, f = <<"table", i>>
        PROVE  BlockOf(NoSpace, f) = None
    BY <2>2, FieldBlocks DEF NoSpace
  <2>3. ASSUME NEW p \in UserPages, f = <<"page", p>>
        PROVE  BlockOf(NoSpace, f) = None
    BY <2>3, FieldBlocks DEF NoSpace, NotPresent
  <2>. QED
    BY <2>1, <2>2, <2>3, FieldKinds
<1>. QED
  BY <1>1, <1>2 DEF Claims

(* The directory of a new task is there with its table, or there is        *)
(* neither (page_dir_new_user).                                            *)
LEMMA NewUserOK ==
    ASSUME NEW t, NEW X, NEW tb, Accounts(tb, X), Apart(X, t)
    PROVE  LET r == page_dir_new_user([ok |-> TRUE, table |-> tb,
                                       space |-> NoSpace, at |-> None,
                                       buf |-> None])
           IN  CallOK(r, t, X, Fresh(None)) /\ r.space.pages = NoSpace.pages
<1>. DEFINE m == [ok |-> TRUE, table |-> tb, space |-> NoSpace, at |-> None,
                  buf |-> None]
            a1 == kmalloc(tb, 1)
            s1 == [NoSpace EXCEPT !.dir = a1.at]
            m1 == NewDir(Alloc(m, 1))
            a2 == kmalloc(a1.table, PAGE_SIZE)
            s2 == [s1 EXCEPT !.dir_entry = a2.at]
            m2 == NewDirEntry(Alloc(m1, PAGE_SIZE))
            d == <<"dir", 0>>
            e == <<"dir_entry", 0>>
<1>1. m \in CallType /\ None \in Ptrs
  BY NoSpaceOK, AccountsType DEF CallType, Ptrs
<1>2. Accounts(tb, X \cup Claims(t, NoSpace, Fields))
  <2>1. X \cup Claims(t, NoSpace, Fields) = X
    BY NoSpaceOK
  <2>. QED
    BY <2>1
<1>3. /\ d \in Fields /\ e \in Fields /\ d # e
      /\ BlocksOf(d) = BlocksFor(1) /\ BlocksOf(e) = BlocksFor(PAGE_SIZE)
      /\ PAGE_SIZE \in Nat
  BY FieldsThere, FieldLengths, SpaceNumbers
<1>4. s1 = [dir |-> a1.at, dir_entry |-> None,
            user_tables |-> NoSpace.user_tables, pages |-> NoSpace.pages,
            kernel_stack |-> None, brk_start |-> 0, brk |-> 0]
  BY DEF NoSpace
<1>. HIDE DEF a1, s1
<1>5. s2 = [dir |-> a1.at, dir_entry |-> a2.at,
            user_tables |-> NoSpace.user_tables, pages |-> NoSpace.pages,
            kernel_stack |-> None, brk_start |-> 0, brk |-> 0]
  BY <1>4
<1>. HIDE DEF a2, s2
<1>6. /\ NoSpace.dir = None /\ NoSpace.dir_entry = None
      /\ NoSpace.kernel_stack = None
  BY DEF NoSpace
<1>7. a1.at \in Ptrs /\ Accounts(a1.table, X \cup Claims(t, s1, Fields))
  <2>1. BlockOf(NoSpace, d) = None /\ BlockOf(s1, d) = a1.at
    BY <1>4, <1>6, FieldBlocks
  <2>2. \A g \in Fields \ {d} : BlockOf(s1, g) = BlockOf(NoSpace, g)
    BY <1>4, <1>6, FieldKinds, FieldBlocks
  <2>. HIDE DEF d
  <2>. QED
    BY <1>2, <1>3, <2>1, <2>2, Store DEF a1
<1>8. a2.at \in Ptrs /\ Accounts(a2.table, X \cup Claims(t, s2, Fields))
  <2>1. BlockOf(s1, e) = None /\ BlockOf(s2, e) = a2.at
    BY <1>4, <1>5, FieldBlocks
  <2>2. \A g \in Fields \ {e} : BlockOf(s2, g) = BlockOf(s1, g)
    BY <1>4, <1>5, FieldKinds, FieldBlocks
  <2>. HIDE DEF e
  <2>. QED
    BY <1>3, <1>7, <2>1, <2>2, Store DEF a2
<1>9. a1.table \in TableType /\ a2.table \in TableType
  BY <1>7, <1>8, AccountsType
<1>10. s1 \in SpaceType /\ s2 \in SpaceType
  BY <1>1, <1>4, <1>5, <1>7, <1>8, NoSpaceOK DEF SpaceType
<1>. DEFINE ok1 == a1.at # None
            ok2 == ok1 /\ a2.at # None
<1>11. m1 = [ok |-> ok1, table |-> a1.table, space |-> s1, at |-> a1.at,
             buf |-> None]
  <2>1. Alloc(m, 1) = [ok |-> ok1, table |-> a1.table, space |-> NoSpace,
                       at |-> a1.at, buf |-> None]
    BY <1>1, AllocIs DEF a1
  <2>. HIDE DEF ok1, m
  <2>. QED
    BY <2>1 DEF NewDir, s1
<1>12. m2 = [ok |-> ok2, table |-> a2.table, space |-> s2, at |-> a2.at,
             buf |-> None]
  <2>1. m1 \in CallType
    <3>1. ok1 \in BOOLEAN
      OBVIOUS
    <3>. HIDE DEF m1, ok1
    <3>. QED
      BY <1>1, <1>7, <1>9, <1>10, <1>11, <3>1 DEF CallType
  <2>. HIDE DEF m1
  <2>2. Alloc(m1, PAGE_SIZE) = [ok |-> ok2, table |-> a2.table, space |-> s1,
                                at |-> a2.at, buf |-> None]
    BY <1>11, <2>1, AllocIs DEF a2
  <2>. HIDE DEF ok2
  <2>. QED
    BY <2>2 DEF NewDirEntry, s2
<1>. DEFINE r == FreeDirUnless(m2)
<1>13. page_dir_new_user(m) = r
  BY DEF page_dir_new_user
<1>. HIDE DEF m1, m2, m
<1>14. CASE ok2
  <2>1. r = [ok |-> TRUE, table |-> a2.table, space |-> s2, at |-> a2.at,
             buf |-> None]
    BY <1>12, <1>14 DEF FreeDirUnless
  <2>2. Shape(s2)
    BY <1>5, <1>14, NoSpaceOK DEF Shape, NoSpace
  <2>. HIDE DEF r
  <2>3. CallOK(r, t, X, Fresh(None))
    BY <1>1, <1>5, <1>8, <1>9, <1>10, <1>14, <2>1, <2>2 DEF CallOK, CallType, Fresh
  <2>4. r.space.pages = NoSpace.pages
    BY <1>5, <2>1
  <2>. QED
    BY <1>13, <2>3, <2>4 DEF m
<1>15. CASE ~ ok2
  <2>. DEFINE t1 == kfree(a2.table, a1.at)
              t2 == kfree(t1, a2.at)
              s3 == [[s2 EXCEPT !.dir = None] EXCEPT !.dir_entry = None]
  <2>1. BlockOf(s2, d) = a1.at /\ BlockOf(s2, e) = a2.at
    BY <1>5, FieldBlocks
  <2>2. Fields \in SUBSET Fields /\ Fields \ {d} \in SUBSET Fields /\ e \in Fields \ {d}
    BY <1>3
  <2>. DEFINE G == Fields \ {d}
  <2>3. Accounts(t1, X \cup Claims(t, s2, G))
    BY <1>3, <1>8, <2>1, <2>2, Drop
  <2>. HIDE DEF t1
  <2>4. Accounts(t2, X \cup Claims(t, s2, G \ {e}))
    <3>1. G \in SUBSET Fields /\ e \in G
      BY <2>2
    <3>. HIDE DEF G, e
    <3>. QED
      BY <2>1, <2>3, <3>1, Drop
  <2>5. Claims(t, s2, G \ {e}) = {}
    <3>1. ASSUME NEW f \in G \ {e} PROVE BlockOf(s2, f) = None
      <4>1. CASE f = <<"kernel_stack", 0>>
        BY <1>5, <4>1, FieldBlocks
      <4>2. ASSUME NEW i \in Tables, f = <<"table", i>>
            PROVE  BlockOf(s2, f) = None
        BY <1>5, <4>2, FieldBlocks DEF NoSpace
      <4>3. ASSUME NEW p \in UserPages, f = <<"page", p>>
            PROVE  BlockOf(s2, f) = None
        BY <1>5, <4>3, FieldBlocks DEF NoSpace, NotPresent
      <4>. QED
        BY <4>1, <4>2, <4>3, FieldKinds
    <3>. QED
      BY <3>1 DEF Claims
  <2>. HIDE DEF t2
  <2>6. r = [ok |-> FALSE, table |-> t2, space |-> s3, at |-> a2.at,
             buf |-> None]
    <3>1. m2 = [ok |-> FALSE, table |-> a2.table, space |-> s2, at |-> a2.at,
                buf |-> None]
      BY <1>12, <1>15
    <3>2. s2.dir = a1.at /\ s2.dir_entry = a2.at
      BY <1>5
    <3>3. r = [[[m2 EXCEPT !.table = t2] EXCEPT !.space.dir = None]
                   EXCEPT !.space.dir_entry = None]
      BY <3>1, <3>2 DEF FreeDirUnless, t1, t2
    <3>. HIDE DEF r
    <3>. QED
      BY <3>1, <3>3
  <2>7. s3 = NoSpace
    <3>1. s3 = [dir |-> None, dir_entry |-> None,
                user_tables |-> NoSpace.user_tables, pages |-> NoSpace.pages,
                kernel_stack |-> None, brk_start |-> 0, brk |-> 0]
      <4>. DEFINE s4 == [s2 EXCEPT !.dir = None]
      <4>1. s4 = [dir |-> None, dir_entry |-> a2.at,
                  user_tables |-> NoSpace.user_tables, pages |-> NoSpace.pages,
                  kernel_stack |-> None, brk_start |-> 0, brk |-> 0]
        BY <1>5
      <4>. HIDE DEF s4
      <4>2. [s4 EXCEPT !.dir_entry = None]
                = [dir |-> None, dir_entry |-> None,
                   user_tables |-> NoSpace.user_tables, pages |-> NoSpace.pages,
                   kernel_stack |-> None, brk_start |-> 0, brk |-> 0]
        BY <4>1
      <4>. QED
        BY <4>2 DEF s4
    <3>. HIDE DEF s3
    <3>. QED
      BY <3>1 DEF NoSpace
  <2>8. t2 \in TableType
    BY <2>4, AccountsType
  <2>9. Accounts(t2, X \cup Claims(t, NoSpace, Fields))
    <3>1. X \cup Claims(t, s2, G \ {e}) = X \cup Claims(t, NoSpace, Fields)
      BY <2>5, NoSpaceOK
    <3>. QED
      BY <2>4, <3>1
  <2>. HIDE DEF r, s3
  <2>10. CallOK(r, t, X, Fresh(None))
    BY <1>1, <1>6, <1>8, <2>6, <2>7, <2>8, <2>9, NoSpaceOK DEF CallOK, CallType, Fresh
  <2>11. r.space.pages = NoSpace.pages
    BY <2>6, <2>7
  <2>. QED
    BY <1>13, <2>10, <2>11 DEF m
<1>. QED
  BY <1>14, <1>15

(* What is wrong with the file fails the call (task_load).                 *)
LEMMA ReadOK ==
    ASSUME NEW m, NEW t, NEW X, NEW b, CallOK(m, t, X, b), NEW p
    PROVE  CallOK(ReadFile(m, p), t, X, b)
BY FailOK DEF ReadFile

(* The heap starts behind the image (task_load).                           *)
LEMMA PlaceOK ==
    ASSUME NEW m, NEW t, NEW X, NEW b, CallOK(m, t, X, b), NEW brk \in Nat
    PROVE  CallOK(PlaceHeap(m, brk), t, X, b)
<1>1. CASE ~ m.ok
  BY <1>1 DEF PlaceHeap
<1>2. CASE m.ok
  <2>. DEFINE s2 == [[m.space EXCEPT !.brk_start = brk] EXCEPT !.brk = brk]
              m1 == [m EXCEPT !.space.brk_start = brk]
  <2>1. CallOK([m EXCEPT !.space = s2], t, X, b)
    BY BreakOK
  <2>2. PlaceHeap(m, brk) = [m1 EXCEPT !.space.brk = brk]
    BY <1>2 DEF PlaceHeap
  <2>3. m \in CallType
    BY DEF CallOK
  <2>4. m1 = [m EXCEPT !.space = [m.space EXCEPT !.brk_start = brk]]
    OBVIOUS
  <2>5. [m1 EXCEPT !.space.brk = brk] = [m EXCEPT !.space = s2]
    <3>. DEFINE s1 == [m.space EXCEPT !.brk_start = brk]
    <3>1. m1 = [ok |-> m.ok, table |-> m.table, space |-> s1, at |-> m.at,
                buf |-> m.buf]
      <4>. HIDE DEF s1, m1
      <4>. QED
        BY <2>3, <2>4 DEF CallType, s1
    <3>2. [m EXCEPT !.space = s2]
              = [ok |-> m.ok, table |-> m.table, space |-> s2, at |-> m.at,
                 buf |-> m.buf]
      <4>. HIDE DEF s2
      <4>. QED
        BY <2>3 DEF CallType
    <3>3. s2 = [s1 EXCEPT !.brk = brk]
      OBVIOUS
    <3>. HIDE DEF m1, s1, s2
    <3>. QED
      BY <3>1, <3>2, <3>3
  <2>. QED
    BY <2>1, <2>2, <2>5
<1>. QED
  BY <1>1, <1>2

(* The stack is mapped below the top (task_load).                          *)
LEMMA MapStackOK ==
    ASSUME NEW m, NEW t, NEW X, NEW b, CallOK(m, t, X, b)
    PROVE  CallOK(MapStack(m), t, X, b)
<1>1. USER_STACK_TOP - USER_STACK_SIZE \in Nat
  <2>1. /\ USER_SPACE_PAGES * PAGE_SIZE \in Nat
        /\ USER_STACK_TOP \in Nat
    BY SpaceNumbers DEF USER_STACK_TOP
  <2>. QED
    BY <2>1, SpaceNumbers, SpaceAssumption DEF USER_HEAP_LIMIT
<1>. DEFINE base == USER_STACK_TOP - USER_STACK_SIZE
<1>. HIDE DEF base
<1>2. CallOK(task_copy_to_user(m, base, USER_STACK_SIZE, TRUE), t, X, b)
  BY <1>1, SpaceNumbers, CopyOK DEF base
<1>. QED
  BY <1>2 DEF MapStack, base

(* A call of a task that is not there yet                                  *)
FreshCall(tb) ==
    [ok |-> TRUE, table |-> tb, space |-> NoSpace, at |-> None, buf |-> None]

(* It begins with a directory and a buffer for the file,                   *)
Begun(tb, size) == NewBuf(Alloc(page_dir_new_user(FreshCall(tb)), size))

(* which no one else holds, if there is memory for it.                     *)
BufferClaim(at, size) == [by |-> <<"buf">>, run |-> <<at, BlocksFor(size)>>]
WithBuffer(X, at, size) == IF at = None THEN X ELSE X \cup {BufferClaim(at, size)}

(* Directory and buffer are accounted for, and no page is there yet        *)
(* (task_load).                                                            *)
LEMMA BegunOK ==
    ASSUME NEW t, NEW X, NEW tb, Accounts(tb, X), Apart(X, t), NEW size \in Nat
    PROVE  \E at : /\ CallOK(Begun(tb, size), t, WithBuffer(X, at, size), Fresh(at))
                   /\ at # None => BufferClaim(at, size) \notin X
                   /\ Begun(tb, size).space.pages = NoSpace.pages
<1>. DEFINE d == page_dir_new_user(FreshCall(tb))
            a == kmalloc(d.table, size)
            e == NewBuf(Alloc(d, size))
            c == BufferClaim(a.at, size)
            XB == WithBuffer(X, a.at, size)
            b == Fresh(a.at)
<1>1. CallOK(d, t, X, Fresh(None)) /\ d.space.pages = NoSpace.pages
  BY NewUserOK DEF FreshCall
<1>2. Begun(tb, size) = e
  BY DEF Begun
<1>. HIDE DEF d
<1>3. d \in CallType
  BY <1>1 DEF CallOK
<1>. DEFINE ok == d.ok /\ a.at # None
<1>4. e = [ok |-> ok, table |-> a.table, space |-> d.space, at |-> a.at,
           buf |-> a.at]
  <2>1. Alloc(d, size) = [ok |-> ok, table |-> a.table, space |-> d.space,
                          at |-> a.at, buf |-> d.buf]
    BY <1>3, AllocIs
  <2>. HIDE DEF ok, a
  <2>. QED
    BY <2>1 DEF NewBuf
<1>. DEFINE H == X \cup Claims(t, d.space, Fields)
<1>5. Accounts(d.table, H)
  BY <1>1 DEF CallOK
<1>6. /\ a.at \in Ptrs
      /\ Accounts(a.table, IF a.at = None THEN H ELSE H \cup {c})
      /\ a.at # None => c \notin H
  <2>. HIDE DEF H
  <2>. QED
    BY <1>5, Grant DEF Ptrs, BufferClaim
<1>. HIDE DEF a, e
<1>7. Accounts(a.table, XB \cup Claims(t, d.space, Fields))
  <2>1. XB = IF a.at = None THEN X ELSE X \cup {c}
    BY DEF WithBuffer
  <2>. HIDE DEF c, XB
  <2>2. XB \cup Claims(t, d.space, Fields)
            = IF a.at = None THEN H ELSE H \cup {c}
    BY <2>1
  <2>. HIDE DEF H
  <2>. QED
    BY <1>6, <2>2 DEF c
<1>8. a.table \in TableType
  BY <1>7, AccountsType
<1>9. CallOK(e, t, XB, b)
  <2>1. ok \in BOOLEAN /\ (ok => d.ok)
    OBVIOUS
  <2>2. d.space.kernel_stack = None
    BY <1>1 DEF CallOK, Fresh
  <2>. HIDE DEF ok, XB
  <2>. QED
    BY <1>1, <1>4, <1>6, <1>7, <1>8, <2>1, <2>2 DEF CallOK, CallType, Fresh
<1>10. a.at # None => c \notin X
  BY <1>6
<1>11. e.space.pages = NoSpace.pages
  BY <1>1, <1>4
<1>. QED
  BY <1>2, <1>9, <1>10, <1>11

(* A program is loaded, or what there is of it is the task's; the buffer   *)
(* it was read into is free again (task_load).                             *)
THEOREM LoadOK ==
    ASSUME NEW t, NEW X, NEW tb, Accounts(tb, X), Apart(X, t), NEW p,
           p.size \in Nat, p.segments \in Seq(SegmentType)
    PROVE  CallOK(task_load(FreshCall(tb), p), t, X, Fresh(None))
<1>. DEFINE m0 == FreshCall(tb)
<1>1. CASE p.size = 0
  <2>. DEFINE r == task_load(m0, p)
  <2>1. r = [ok |-> FALSE, table |-> tb, space |-> NoSpace, at |-> None,
             buf |-> None]
    BY <1>1 DEF task_load, Fail, FreshCall
  <2>2. Accounts(tb, X \cup Claims(t, NoSpace, Fields))
    <3>1. X \cup Claims(t, NoSpace, Fields) = X
      BY NoSpaceOK
    <3>. QED
      BY <3>1
  <2>3. None \in Ptrs /\ tb \in TableType /\ NoSpace.kernel_stack = None
    BY AccountsType DEF Ptrs, NoSpace
  <2>. HIDE DEF r
  <2>4. CallOK(r, t, X, Fresh(None))
    BY <2>1, <2>2, <2>3, NoSpaceOK DEF CallOK, CallType, Fresh
  <2>. QED
    BY <2>4 DEF r
<1>2. CASE p.size # 0
  <2>. DEFINE e == Begun(tb, p.size)
  <2>1. PICK at : /\ CallOK(e, t, WithBuffer(X, at, p.size), Fresh(at))
                  /\ at # None => BufferClaim(at, p.size) \notin X
    BY BegunOK
  <2>. DEFINE c == BufferClaim(at, p.size)
              XB == WithBuffer(X, at, p.size)
              b == Fresh(at)
  <2>2. task_load(m0, p)
            = FreeBuf(MapStack(PlaceHeap(elf_load(ReadFile(e, p), p),
                                         PageAligned(ImageEnd(p)))))
    BY <1>2 DEF task_load, Begun
  <2>. HIDE DEF e, m0, c
  <2>. DEFINE f == MapStack(PlaceHeap(elf_load(ReadFile(e, p), p),
                                      PageAligned(ImageEnd(p))))
  <2>. HIDE DEF XB, b
  <2>3. CallOK(f, t, XB, b)
    <3>1. CallOK(ReadFile(e, p), t, XB, b)
      BY <2>1, ReadOK DEF XB, b
    <3>2. CallOK(elf_load(ReadFile(e, p), p), t, XB, b)
      BY <3>1, ElfOK
    <3>3. PageAligned(ImageEnd(p)) \in Nat
      BY ImageEndNat
    <3>4. CallOK(PlaceHeap(elf_load(ReadFile(e, p), p),
                           PageAligned(ImageEnd(p))), t, XB, b)
      BY <3>2, <3>3, PlaceOK
    <3>. QED
      BY <3>4, MapStackOK
  <2>4. task_load(m0, p) = FreeBuf(f)
    BY <2>2
  <2>. HIDE DEF f
  <2>. DEFINE t2 == kfree(f.table, f.buf)
  <2>5. /\ f \in CallType /\ f.buf = at /\ f.space.kernel_stack = None
         /\ Accounts(f.table, XB \cup Claims(t, f.space, Fields))
    BY <2>3 DEF CallOK, b, Fresh
  <2>6. Accounts(t2, X \cup Claims(t, f.space, Fields))
    <3>1. CASE at = None
      <4>1. t2 = f.table /\ XB = X
        BY <2>5, <3>1 DEF kfree, XB, WithBuffer
      <4>. QED
        BY <2>5, <4>1
    <3>2. CASE at # None
      <4>1. c \notin X
        BY <2>1, <3>2 DEF c
      <4>2. c \notin Claims(t, f.space, Fields)
        <5>1. ASSUME NEW g \in Fields PROVE Claim(t, f.space, g) # c
          <6>1. Claim(t, f.space, g).by = <<"task", t, g>> /\ c.by = <<"buf">>
            BY DEF Claim, c, BufferClaim
          <6>. QED
            BY <6>1
        <5>. QED
          BY <5>1 DEF Claims
      <4>3. XB = X \cup {c}
        BY <3>2 DEF XB, c, WithBuffer
      <4>4. c.run[1] = at
        BY DEF c, BufferClaim
      <4>5. Accounts(kfree(f.table, c.run[1]),
                     (XB \cup Claims(t, f.space, Fields)) \ {c})
        BY <2>5, <4>3, Return
      <4>6. (XB \cup Claims(t, f.space, Fields)) \ {c}
                = X \cup Claims(t, f.space, Fields)
        BY <4>1, <4>2, <4>3
      <4>. QED
        BY <2>5, <4>4, <4>5, <4>6
    <3>. QED
      BY <3>1, <3>2
  <2>. HIDE DEF t2
  <2>7. t2 \in TableType /\ None \in Ptrs
    BY <2>6, AccountsType DEF Ptrs
  <2>8. FreeBuf(f) = [ok |-> f.ok, table |-> t2, space |-> f.space, at |-> f.at,
                       buf |-> None]
    <3>. DEFINE f1 == [f EXCEPT !.table = t2]
    <3>1. FreeBuf(f) = [f1 EXCEPT !.buf = None]
      BY DEF FreeBuf, t2
    <3>2. f1 = [ok |-> f.ok, table |-> t2, space |-> f.space, at |-> f.at,
                buf |-> f.buf]
      BY <2>5 DEF CallType
    <3>. HIDE DEF f1
    <3>. QED
      BY <3>1, <3>2
  <2>. DEFINE r == FreeBuf(f)
  <2>. HIDE DEF r
  <2>9. CallOK(r, t, X, Fresh(None))
    BY <2>3, <2>5, <2>6, <2>7, <2>8 DEF CallOK, CallType, r, Fresh
  <2>. QED
    BY <2>4, <2>9 DEF r, m0
<1>. QED
  BY <1>1, <1>2

(* The kernel stack comes last (task_spawn).                               *)
LEMMA KernelStackOK ==
    ASSUME NEW m, NEW t, NEW X, CallOK(m, t, X, Fresh(None))
    PROVE  LET r == task_alloc_kernel_stack(m)
           IN  \E b : CallOK(r, t, X, b)
<1>1. CASE ~ m.ok
  BY <1>1 DEF task_alloc_kernel_stack
<1>2. CASE m.ok
  <2>. DEFINE a == kmalloc(m.table, TASK_KERNEL_STACK_SIZE)
              s2 == [m.space EXCEPT !.kernel_stack = a.at]
              f == <<"kernel_stack", 0>>
              r == task_alloc_kernel_stack(m)
              ok == m.ok /\ a.at # None
  <2>1. /\ m \in CallType /\ m.space \in SpaceType
        /\ m.buf = None /\ m.space.kernel_stack = None
        /\ Accounts(m.table, X \cup Claims(t, m.space, Fields))
    BY DEF CallOK, CallType, Fresh
  <2>2. r = [ok |-> ok, table |-> a.table, space |-> s2, at |-> a.at,
             buf |-> m.buf]
    <3>1. Alloc(m, TASK_KERNEL_STACK_SIZE)
              = [ok |-> ok, table |-> a.table, space |-> m.space,
                 at |-> a.at, buf |-> m.buf]
      BY <2>1, AllocIs
    <3>. HIDE DEF ok, a
    <3>. QED
      BY <1>2, <3>1 DEF task_alloc_kernel_stack, NewStack
  <2>. HIDE DEF a
  <2>3. s2 = [dir |-> m.space.dir, dir_entry |-> m.space.dir_entry,
              user_tables |-> m.space.user_tables, pages |-> m.space.pages,
              kernel_stack |-> a.at,
              brk_start |-> m.space.brk_start, brk |-> m.space.brk]
    BY <2>1, SpaceIs
  <2>. HIDE DEF s2
  <2>4. BlockOf(m.space, f) = None /\ BlockOf(s2, f) = a.at
    BY <2>1, <2>3, FieldBlocks
  <2>5. \A g \in Fields \ {f} : BlockOf(s2, g) = BlockOf(m.space, g)
    BY <2>3, FieldKinds, FieldBlocks
  <2>6. /\ f \in Fields /\ BlocksFor(TASK_KERNEL_STACK_SIZE) = BlocksOf(f)
        /\ TASK_KERNEL_STACK_SIZE \in Nat
    BY FieldsThere, FieldLengths, SpaceNumbers
  <2>. HIDE DEF f
  <2>7. a.at \in Ptrs /\ Accounts(a.table, X \cup Claims(t, s2, Fields))
    BY <2>1, <2>4, <2>5, <2>6, Store DEF a
  <2>8. a.table \in TableType
    BY <2>7, AccountsType
  <2>9. s2 \in SpaceType /\ Shape(s2) /\ s2.dir # None
    BY <1>2, <2>1, <2>3, <2>7 DEF SpaceType, Shape, CallOK
  <2>10. ok \in BOOLEAN
    OBVIOUS
  <2>. HIDE DEF r, ok
  <2>11. CallOK(r, t, X, [buf |-> m.buf, stack |-> a.at, runs |-> FALSE])
    BY <2>1, <2>2, <2>3, <2>7, <2>8, <2>9, <2>10 DEF CallOK, CallType, Fresh
  <2>. QED
    BY <2>11 DEF r
<1>. QED
  BY <1>1, <1>2

-----------------------------------------------------------------------------
(* Growing a heap                                                          *)

(* The break moves and the pages below it come with it, as far as there is *)
(* memory (task_sbrk).                                                     *)
LEMMA SbrkOK ==
    ASSUME NEW m, NEW t, NEW X, NEW b, CallOK(m, t, X, b), NEW increment \in Int
    PROVE  CallOK(task_sbrk(m, increment), t, X, b)
<1>1. ASSUME NEW c, CallOK(c, t, X, b), NEW brk \in Nat
      PROVE  CallOK(SetBrk(c, brk), t, X, b)
  <2>1. CASE ~ c.ok
    BY <1>1, <2>1 DEF SetBrk
  <2>2. CASE c.ok
    <3>. DEFINE s1 == [c.space EXCEPT !.brk_start = c.space.brk_start]
                s2 == [s1 EXCEPT !.brk = brk]
    <3>1. c \in CallType /\ c.space \in SpaceType
      BY <1>1 DEF CallOK, CallType
    <3>2. s1 = c.space /\ c.space.brk_start \in Nat
      BY <3>1 DEF SpaceType
    <3>3. CallOK([c EXCEPT !.space = s2], t, X, b)
      BY <1>1, <3>2, BreakOK
    <3>. HIDE DEF s1
    <3>4. [c EXCEPT !.space = s2] = [c EXCEPT !.space.brk = brk]
      BY <3>2
    <3>. QED
      BY <2>2, <3>3, <3>4 DEF SetBrk
  <2>. QED
    BY <2>1, <2>2
<1>. DEFINE brk == m.space.brk
            new == (brk + increment + Word) % Word
<1>2. brk \in Nat
  BY DEF CallOK, CallType, SpaceType
<1>3. new \in Nat
  <2>. HIDE DEF brk
  <2>. QED
    BY <1>2, SpaceNumbers
<1>4. task_sbrk(m, increment) = MoveBrk(m, new, increment > 0)
  BY DEF task_sbrk
<1>. HIDE DEF new
<1>5. CallOK(Fail(m), t, X, b)
  BY FailOK
<1>6. CASE new <= brk
  <2>1. CallOK(SetBrk(m, new), t, X, b)
    BY <1>1, <1>3
  <2>. QED
    BY <1>4, <1>5, <1>6, <2>1 DEF MoveBrk
<1>7. CASE ~ (new <= brk)
  <2>. DEFINE c == task_copy_to_user(m, brk, new - brk, TRUE)
  <2>1. new - brk \in Nat /\ TRUE \in BOOLEAN
    BY <1>2, <1>3, <1>7
  <2>2. CallOK(c, t, X, b)
    <3>. HIDE DEF brk
    <3>. QED
      BY <1>2, <2>1, CopyOK
  <2>3. CallOK(SetBrk(c, new), t, X, b)
    <3>. HIDE DEF c
    <3>. QED
      BY <1>1, <1>3, <2>2
  <2>. QED
    BY <1>4, <1>5, <1>7, <2>3 DEF MoveBrk
<1>. QED
  BY <1>6, <1>7

(* All that an allocation of a program asks of the kernel is a sbrk, if    *)
(* that (moos.c).                                                          *)
AtMostSbrk(m, c) == c = m \/ \E increment \in Int : c = task_sbrk(m, increment)

(* and a sbrk keeps the accounts (syscall_handler).                        *)
LEMMA OutcomeOK ==
    ASSUME NEW m, NEW t, NEW X, NEW b, CallOK(m, t, X, b), NEW c,
           AtMostSbrk(m, c)
    PROVE  CallOK(c, t, X, b)
BY SbrkOK DEF AtMostSbrk

(* malloc extends the heap when no block fits (moos.c),                    *)
LEMMA MallocCalls ==
    ASSUME NEW m, NEW u, NEW bytes \in Nat
    PROVE  AtMostSbrk(m, malloc(m, u, bytes).m)
<1>. DEFINE size == RoundUp(bytes)
            inc == Signed((HEADER_SIZE + size) % Word)
            fits == {i \in DOMAIN u.blocks :
                        u.blocks[i].free /\ u.blocks[i].size >= size}
<1>1. size \in Int
  <2>. DEFINE s == (bytes + ALIGN - 1) % Word
  <2>1. s \in Nat
    BY SpaceNumbers, UserHeapAssumption
  <2>. HIDE DEF s
  <2>2. s % ALIGN \in Int
    BY <2>1, UserHeapAssumption
  <2>. QED
    BY <2>1, <2>2 DEF RoundUp, s
<1>2. inc \in Int
  <2>. DEFINE s == (HEADER_SIZE + size) % Word
  <2>1. s \in Int
    <3>. HIDE DEF size
    <3>. QED
      BY <1>1, SpaceNumbers, UserHeapAssumption
  <2>. HIDE DEF s
  <2>. QED
    BY <2>1, SpaceNumbers DEF Signed, s
<1>3. CASE bytes = 0
  BY <1>3 DEF malloc, AtMostSbrk
<1>4. CASE bytes # 0 /\ fits # {}
  <2>1. malloc(m, u, bytes) = TakeBlock(m, u, Min(fits), size)
    BY <1>4 DEF malloc
  <2>2. TakeBlock(m, u, Min(fits), size).m = m
    <3>. HIDE DEF size, fits
    <3>. QED
      BY DEF TakeBlock
  <2>. QED
    BY <2>1, <2>2 DEF AtMostSbrk
<1>5. CASE bytes # 0 /\ fits = {}
  <2>1. malloc(m, u, bytes) = GrowHeap(m, u, size)
    BY <1>5 DEF malloc
  <2>2. GrowHeap(m, u, size).m = task_sbrk(m, inc)
    <3>. HIDE DEF size
    <3>. QED
      BY DEF GrowHeap, AppendBlock
  <2>. HIDE DEF inc, size
  <2>. QED
    BY <1>2, <2>1, <2>2 DEF AtMostSbrk
<1>. QED
  BY <1>3, <1>4, <1>5

(* so does calloc,                                                         *)
LEMMA CallocCalls ==
    ASSUME NEW m, NEW u, NEW count \in Nat, NEW size \in Nat
    PROVE  AtMostSbrk(m, calloc(m, u, count, size).m)
<1>. DEFINE total == (count * size) % Word
<1>1. total \in Nat
  <2>1. count * size \in Nat
    OBVIOUS
  <2>. QED
    BY <2>1, SpaceNumbers
<1>2. AtMostSbrk(m, malloc(m, u, total).m)
  <2>. HIDE DEF total
  <2>. QED
    BY <1>1, MallocCalls
<1>. QED
  BY <1>2 DEF calloc, AtMostSbrk

(* and realloc when the block is too small (moos.c).                       *)
LEMMA ReallocCalls ==
    ASSUME NEW m, NEW u, NEW ptr, NEW size \in Nat
    PROVE  AtMostSbrk(m, realloc(m, u, ptr, size).m)
<1>. DEFINE out == malloc(m, u, size)
<1>1. AtMostSbrk(m, out.m)
  BY MallocCalls
<1>2. "m" \in DOMAIN out
  BY DEF malloc, TakeBlock, GrowHeap, AppendBlock
<1>. HIDE DEF out
<1>3. FreeOld(out, ptr).m = out.m
  BY <1>2 DEF FreeOld
<1>4. CASE u.blocks[payload_block(u, ptr)].size >= size
  BY <1>4 DEF realloc, AtMostSbrk
<1>5. CASE ~ (u.blocks[payload_block(u, ptr)].size >= size)
  BY <1>1, <1>3, <1>5 DEF realloc, out
<1>. QED
  BY <1>4, <1>5

-----------------------------------------------------------------------------
(* Freeing a task                                                          *)

(* What is freed leaves a table (heap_free).                               *)
LEMMA FreeType ==
    ASSUME NEW tb \in TableType, NEW addr
    PROVE  kfree(tb, addr) \in TableType
<1>. DEFINE freed == addr .. RunEnd(tb, addr)
<1>1. heap_free_blocks(tb, addr)
          = [taken |-> tb.taken \ freed, first |-> tb.first \ freed,
             next |-> tb.next \ freed]
  BY DEF heap_free_blocks
<1>. HIDE DEF freed
<1>2. heap_free_blocks(tb, addr) \in TableType
  BY <1>1 DEF TableType
<1>. QED
  BY <1>2 DEF kfree, heap_free

(* Addresses freed one after the other (page_dir_free_user)                *)
LEMMA FreeAllSteps ==
    ASSUME NEW tb \in TableType, NEW k \in Nat, NEW addrs, Len(addrs) = k
    PROVE  \E g \in [0 .. k -> TableType] :
               /\ g[0] = tb
               /\ \A n \in 1 .. k : g[n] = kfree(g[n - 1], addrs[n])
               /\ FreeAll(tb, addrs) = g[k]
<1>. DEFINE S == TableType
            F == [n \in 1 .. k |-> [c \in S |-> kfree(c, addrs[n])]]
            Is(g) == g = [n \in 0 .. k |->
                        IF n = 0 THEN tb ELSE kfree(g[n - 1], addrs[n])]
            after == CHOOSE g : Is(g)
<1>1. tb \in S /\ k \in Nat
  OBVIOUS
<1>2. F \in [1 .. k -> [S -> S]]
  BY FreeType
<1>3. \A n \in 1 .. k, c \in S : F[n][c] = kfree(c, addrs[n])
  OBVIOUS
<1>. HIDE DEF S, F
<1>4. PICK g \in [0 .. k -> S] :
          g[0] = tb /\ \A n \in 1 .. k : g[n] = F[n][g[n - 1]]
  BY ONLY <1>1, <1>2, Iteration
<1>5. Is(g)
  <2>1. \A n \in 0 .. k : g[n] = IF n = 0 THEN tb ELSE kfree(g[n - 1], addrs[n])
    BY <1>1, <1>3, <1>4
  <2>. QED
    BY <1>4, <2>1
<1>6. Is(after)
  <2>. HIDE DEF Is
  <2>. QED
    BY <1>5
<1>7. FreeAll(tb, addrs) = after[k]
  BY DEF FreeAll
<1>. HIDE DEF after
<1>8. after = g
  <2>1. ASSUME NEW n \in 1 .. k, after[n - 1] = g[n - 1] PROVE after[n] = g[n]
    BY <1>5, <1>6, <2>1
  <2>. DEFINE T == {n \in 0 .. k : after[n] = g[n]}
  <2>2. 0 \in T
    BY <1>5, <1>6
  <2>3. 0 .. k \subseteq T
    <3>1. \A n \in 1 .. k : n - 1 \in T => n \in T
      BY <2>1
    <3>. HIDE DEF T
    <3>. QED
      BY <2>2, <3>1, UpTo
  <2>4. \A n \in 0 .. k : after[n] = g[n]
    BY <2>3
  <2>. QED
    BY <1>4, <1>6, <2>4
<1>9. g \in [0 .. k -> TableType]
  BY DEF S
<1>10. \A n \in 1 .. k : g[n] = kfree(g[n - 1], addrs[n])
  BY <1>5
<1>. QED
  BY <1>4, <1>7, <1>8, <1>9, <1>10

(* The addresses in k fields of G, each field once                         *)
AddressesOf(addrs, s, fs, k, G) ==
    /\ k \in Nat /\ Len(addrs) = k
    /\ fs \in [1 .. k -> G]
    /\ \A i, j \in 1 .. k : fs[i] = fs[j] => i = j
    /\ \A i \in 1 .. k : addrs[i] = BlockOf(s, fs[i])

(* Freeing one field after the other takes away what they claim            *)
(* (page_dir_free_user, task_free).                                        *)
LEMMA FreeFields ==
    ASSUME NEW tb, NEW X, NEW t, NEW s, NEW G \in SUBSET Fields,
           Accounts(tb, X \cup Claims(t, s, G)), Apart(X, t),
           NEW addrs, NEW fs, NEW k, AddressesOf(addrs, s, fs, k, G)
    PROVE  Accounts(FreeAll(tb, addrs),
                    X \cup Claims(t, s, G \ {fs[i] : i \in 1 .. k}))
<1>. k \in Nat
  BY DEF AddressesOf
<1>1. PICK after \in [0 .. k -> TableType] :
          /\ after[0] = tb
          /\ \A n \in 1 .. k : after[n] = kfree(after[n - 1], addrs[n])
          /\ FreeAll(tb, addrs) = after[k]
  <2>1. tb \in TableType /\ k \in Nat /\ Len(addrs) = k
    BY AccountsType DEF AddressesOf
  <2>. QED
    BY ONLY <2>1, FreeAllSteps
<1>. DEFINE left == [n \in 0 .. k |-> G \ {fs[i] : i \in 1 .. n}]
            done(n) == Accounts(after[n], X \cup Claims(t, s, left[n]))
            T == {n \in 0 .. k : done(n)}
<1>2. 0 \in T
  <2>1. left[0] = G /\ after[0] = tb
    BY <1>1
  <2>. HIDE DEF left
  <2>2. done(0)
    BY <2>1
  <2>. HIDE DEF done
  <2>. QED
    BY <1>1, <2>2
<1>3. ASSUME NEW n \in 1 .. k, n - 1 \in T PROVE n \in T
  <2>1. fs[n] \in left[n - 1]
    BY DEF AddressesOf
  <2>2. left[n] = left[n - 1] \ {fs[n]}
    OBVIOUS
  <2>3. after[n] = kfree(after[n - 1], BlockOf(s, fs[n]))
    BY <1>1 DEF AddressesOf
  <2>4. left[n - 1] \in SUBSET Fields
    OBVIOUS
  <2>. HIDE DEF left
  <2>5. done(n - 1)
    <3>. HIDE DEF done
    <3>. QED
      BY <1>3
  <2>6. Accounts(after[n], X \cup Claims(t, s, left[n - 1] \ {fs[n]}))
    <3>. DEFINE L == left[n - 1]
                c == after[n - 1]
                f == fs[n]
    <3>1. L \in SUBSET Fields /\ f \in L /\ Accounts(c, X \cup Claims(t, s, L))
      BY <2>1, <2>4, <2>5
    <3>. HIDE DEF L, c, f
    <3>2. Accounts(kfree(c, BlockOf(s, f)), X \cup Claims(t, s, L \ {f}))
      BY <3>1, Drop
    <3>. QED
      BY <2>3, <3>2 DEF L, c, f
  <2>7. done(n)
    BY <2>2, <2>6
  <2>. HIDE DEF done
  <2>. QED
    BY <2>7
<1>4. 0 .. k \subseteq T
  <2>. HIDE DEF T
  <2>. QED
    BY <1>2, <1>3, UpTo
<1>5. done(k)
  <2>. HIDE DEF done
  <2>. QED
    BY <1>1, <1>4
<1>6. left[k] = G \ {fs[i] : i \in 1 .. k}
  OBVIOUS
<1>. HIDE DEF left
<1>. QED
  BY <1>1, <1>5, <1>6

(* Freeing a task gives back everything it holds and nothing else          *)
(* (task_free).                                                            *)
THEOREM TaskFreeOK ==
    ASSUME NEW tb, NEW X, NEW t, NEW s \in SpaceType, Shape(s),
           Accounts(tb, X \cup Claims(t, s, Fields)), Apart(X, t)
    PROVE  Accounts(task_free(tb, s), X)
<1>. DEFINE ks == <<"kernel_stack", 0>>
            freed == IF s.dir = None THEN tb
                     ELSE page_dir_free_user(FreeAll(tb, MappedPages(s)), s)
<1>1. ASSUME Accounts(freed, X \cup Claims(t, s, {ks}))
      PROVE  Accounts(task_free(tb, s), X)
  <2>. HIDE DEF freed
  <2>1. {ks} \in SUBSET Fields /\ ks \in {ks}
    BY FieldsThere
  <2>2. Accounts(kfree(freed, BlockOf(s, ks)), X \cup Claims(t, s, {ks} \ {ks}))
    <3>. HIDE DEF ks
    <3>. QED
      BY <1>1, <2>1, Drop
  <2>3. X \cup Claims(t, s, {ks} \ {ks}) = X
    BY DEF Claims
  <2>4. task_free(tb, s) = kfree(freed, BlockOf(s, ks))
    BY FieldBlocks DEF task_free, freed
  <2>. QED
    BY <2>2, <2>3, <2>4
<1>2. CASE s.dir = None
  <2>1. ASSUME NEW f \in Fields, f # ks PROVE BlockOf(s, f) = None
    <3>1. CASE f \in {<<"dir", 0>>, <<"dir_entry", 0>>}
      BY <1>2, <3>1, FieldBlocks DEF Shape
    <3>2. ASSUME NEW i \in Tables, f = <<"table", i>>
          PROVE  BlockOf(s, f) = None
      BY <1>2, <3>2, FieldBlocks DEF Shape
    <3>3. ASSUME NEW p \in UserPages, f = <<"page", p>>
          PROVE  BlockOf(s, f) = None
      BY <1>2, <3>3, TableIn, FieldBlocks DEF Shape
    <3>. QED
      BY <2>1, <3>1, <3>2, <3>3, FieldKinds
  <2>2. ks \in Fields
    BY FieldsThere
  <2>. HIDE DEF ks
  <2>3. Claims(t, s, Fields) = Claims(t, s, {ks})
    BY <2>1, <2>2 DEF Claims
  <2>. QED
    BY <1>1, <1>2, <2>3
<1>3. CASE s.dir # None
  <2>. DEFINE k == USER_SPACE_PAGES
              fs == [i \in 1 .. k |-> <<"page", FirstPage + i - 1>>]
              G == Fields \ {fs[i] : i \in 1 .. k}
              t1 == FreeAll(tb, MappedPages(s))
  <2>1. k \in Nat /\ FirstPage \in Int
    BY SpaceNumbers
  <2>2. \A i \in 1 .. k : FirstPage + i - 1 \in UserPages
    BY <2>1 DEF UserPages
  <2>3. MappedPages(s)
            = [i \in 1 .. k |->
                  IF s.user_tables[TableOf(FirstPage + i - 1)] = None THEN None
                  ELSE s.pages[FirstPage + i - 1].block]
    BY DEF MappedPages
  <2>4. Len(MappedPages(s)) = k
    <3>. HIDE DEF k
    <3>. QED
      BY <2>1, <2>3
  <2>5. \A i \in 1 .. k : MappedPages(s)[i] = BlockOf(s, fs[i])
    BY <2>2, <2>3, FieldBlocks DEF Shape
  <2>6. fs \in [1 .. k -> Fields] /\ Fields \in SUBSET Fields
    BY <2>2, FieldsThere
  <2>7. \A i, j \in 1 .. k : fs[i] = fs[j] => i = j
    BY <2>1
  <2>8. Accounts(t1, X \cup Claims(t, s, G))
    <3>. HIDE DEF k, fs
    <3>1. AddressesOf(MappedPages(s), s, fs, k, Fields)
      BY <2>1, <2>4, <2>5, <2>6, <2>7 DEF AddressesOf
    <3>2. Fields \in SUBSET Fields
      OBVIOUS
    <3>. QED
      BY <3>1, <3>2, FreeFields
  <2>9. \A p \in UserPages : <<"page", p>> \notin G
    <3>1. ASSUME NEW p \in UserPages
          PROVE  p - FirstPage + 1 \in 1 .. k /\ FirstPage + (p - FirstPage + 1) - 1 = p
      BY <2>1 DEF UserPages
    <3>2. ASSUME NEW p \in UserPages
          PROVE  <<"page", p>> = fs[p - FirstPage + 1]
      BY <3>1
    <3>. QED
      BY <3>1, <3>2
  <2>10. \A f \in Fields : f[1] # "page" => f \in G
    OBVIOUS
  <2>11. G \in SUBSET Fields
    OBVIOUS
  <2>. HIDE DEF G, t1, k, fs
  <2>. DEFINE n == USER_SPACE_TABLES
              front == [i \in 1 .. n |-> s.user_tables[i - 1]]
              addrs == front \o <<s.dir_entry, s.dir>>
              gs == [i \in 1 .. n + 2 |->
                        IF i <= n THEN <<"table", i - 1>>
                        ELSE IF i = n + 1 THEN <<"dir_entry", 0>> ELSE <<"dir", 0>>]
              t2 == FreeAll(t1, addrs)
              rest == G \ {gs[i] : i \in 1 .. n + 2}
  <2>12. n \in Nat
    BY SpaceNumbers
  <2>13. page_dir_free_user(t1, s) = t2
    BY DEF page_dir_free_user
  <2>14. /\ Len(addrs) = n + 2
         /\ \A i \in 1 .. n : addrs[i] = s.user_tables[i - 1]
         /\ addrs[n + 1] = s.dir_entry /\ addrs[n + 2] = s.dir
    <3>1. \A i \in 1 .. n : s.user_tables[i - 1] \in Ptrs
      BY <2>12 DEF SpaceType, Tables
    <3>2. s.dir \in Ptrs /\ s.dir_entry \in Ptrs
      BY DEF SpaceType
    <3>. HIDE DEF n
    <3>3. front \in [1 .. n -> Ptrs]
      BY <3>1
    <3>4. front \in Seq(Ptrs) /\ Len(front) = n
      BY <2>12, <3>3
    <3>5. \A i \in 1 .. n : front[i] = s.user_tables[i - 1]
      OBVIOUS
    <3>. HIDE DEF front
    <3>. QED
      BY <2>12, <3>2, <3>4, <3>5
  <2>15. \A i \in 1 .. n : i - 1 \in Tables
    BY <2>12 DEF Tables
  <2>16. gs \in [1 .. n + 2 -> G]
    <3>1. ASSUME NEW i \in 1 .. n + 2 PROVE gs[i] \in Fields /\ gs[i][1] # "page"
      BY <2>12, <2>15, FieldsThere
    <3>. QED
      BY <2>10, <3>1
  <2>17. \A i, j \in 1 .. n + 2 : gs[i] = gs[j] => i = j
    BY <2>12
  <2>18. \A i \in 1 .. n + 2 : addrs[i] = BlockOf(s, gs[i])
    <3>1. ASSUME NEW i \in 1 .. n + 2 PROVE i \in 1 .. n \/ i = n + 1 \/ i = n + 2
      BY <2>12
    <3>2. \A i \in 1 .. n : i \in 1 .. n + 2 /\ gs[i] = <<"table", i - 1>>
      BY <2>12
    <3>3. gs[n + 1] = <<"dir_entry", 0>> /\ gs[n + 2] = <<"dir", 0>>
      BY <2>12
    <3>. HIDE DEF addrs, gs
    <3>. QED
      BY <2>14, <3>1, <3>2, <3>3, FieldBlocks
  <2>19. rest = {ks}
    <3>1. ASSUME NEW i \in Tables
          PROVE  i + 1 \in 1 .. n + 2 /\ gs[i + 1] = <<"table", i>>
      BY <2>12 DEF Tables
    <3>2. gs[n + 1] = <<"dir_entry", 0>> /\ gs[n + 2] = <<"dir", 0>>
      BY <2>12
    <3>3. n + 1 \in 1 .. n + 2 /\ n + 2 \in 1 .. n + 2
      BY <2>12
    <3>4. \A i \in 1 .. n + 2 : gs[i] # ks
      OBVIOUS
    <3>5. ks \in G
      BY <2>10, FieldsThere
    <3>. HIDE DEF gs
    <3>6. ASSUME NEW f \in rest PROVE f = ks
      <4>1. f \in Fields /\ f \in G /\ \A i \in 1 .. n + 2 : gs[i] # f
        BY <2>11
      <4>2. f # <<"dir", 0>> /\ f # <<"dir_entry", 0>>
        BY <3>2, <3>3, <4>1
      <4>3. \A i \in Tables : f # <<"table", i>>
        BY <3>1, <4>1
      <4>4. \A p \in UserPages : f # <<"page", p>>
        BY <2>9, <4>1
      <4>. QED
        BY <4>1, <4>2, <4>3, <4>4, FieldKinds
    <3>. QED
      BY <3>4, <3>5, <3>6
  <2>20. Accounts(t2, X \cup Claims(t, s, rest))
    <3>1. n + 2 \in Nat
      BY <2>12
    <3>. HIDE DEF n, addrs, gs
    <3>2. AddressesOf(addrs, s, gs, n + 2, G)
      BY <2>14, <2>16, <2>17, <2>18, <3>1 DEF AddressesOf
    <3>. QED
      BY <2>8, <2>11, <3>2, FreeFields
  <2>. HIDE DEF rest, t2
  <2>21. freed = t2
    BY <1>3, <2>13 DEF t1
  <2>. QED
    BY <1>1, <2>19, <2>20, <2>21
<1>. QED
  BY <1>2, <1>3

-----------------------------------------------------------------------------
(* The system                                                              *)

KernelClaims(held) == {[by |-> <<"kernel">>, run |-> <<b, 1>>] : b \in held}

(* The scan finds a block no later than the first free one                 *)
(* (find_free_block).                                                      *)
LEMMA FirstFit ==
    ASSUME NEW tb, NEW b \in Blocks, b \notin tb.taken
    PROVE  find_free_block(tb, 1) \in 0 .. b
<1>. DEFINE fits == {s \in Blocks : /\ s + 1 <= HEAP_BLOCKS
                                    /\ \A c \in s .. s + 1 - 1 : c \notin tb.taken}
<1>1. fits \in SUBSET Nat /\ b \in fits
  BY HeapAssumption DEF Blocks
<1>2. find_free_block(tb, 1) = Min(fits)
  BY <1>1 DEF find_free_block
<1>3. Min(fits) \in fits /\ Min(fits) <= b
  <2>. HIDE DEF fits
  <2>. QED
    BY <1>1, MinIn
<1>. QED
  BY <1>1, <1>2, <1>3, HeapAssumption DEF Blocks

(* An allocation takes its blocks and no other (mark_taken_blocks).        *)
LEMMA MallocTakes ==
    ASSUME NEW tb, HeapOK(tb), NEW size \in Nat, heap_malloc(tb, size).at # None
    PROVE  LET a == heap_malloc(tb, size)
           IN  a.table.taken = tb.taken \cup (a.at .. a.at + BlocksFor(size) - 1)
BY MallocHandsOutFree

(* The kernel's own directory is what an empty heap gives first            *)
(* (page_dir_init).                                                        *)
LEMMA KernelDirOK ==
    LET r == page_dir_init(heap_desc_init)
    IN  Accounts(r.table, KernelClaims(r.held))
<1>. DEFINE t0 == heap_desc_init
            N == KernelTables + 2
            S == {r \in [table : TableType, held : SUBSET Ptrs] : HeapOK(r.table)}
            x == [table |-> t0, held |-> {}]
            F == [n \in 1 .. N |-> [r \in S |-> HoldAnother(r)]]
            Is(g) == g = [n \in 0 .. N |-> IF n = 0 THEN x ELSE HoldAnother(g[n - 1])]
            after == CHOOSE g : Is(g)
<1>1. N \in Nat /\ N <= HEAP_BLOCKS
  BY KernelFits
<1>2. BlocksFor(PAGE_SIZE) = 1 /\ PAGE_SIZE \in Nat
  BY FieldLengths, SpaceNumbers DEF BlocksOf
<1>3. x \in S /\ N \in Nat
  BY <1>1, HeapStarts DEF HeapOK, TableType
<1>4. ASSUME NEW r \in S PROVE HoldAnother(r) \in S
  <2>. DEFINE a == kmalloc(r.table, PAGE_SIZE)
  <2>1. HeapOK(a.table) /\ a.at \in Ptrs
    BY <1>2, RunsOfMalloc DEF Ptrs
  <2>2. a.table \in TableType
    BY <2>1 DEF HeapOK, TableType
  <2>3. HoldAnother(r) = [table |-> a.table, held |-> r.held \cup {a.at}]
    BY DEF HoldAnother
  <2>. HIDE DEF a
  <2>. QED
    BY <2>1, <2>2, <2>3
<1>5. page_dir_init(t0) = after[N]
  BY DEF page_dir_init
<1>. HIDE DEF S, N, x
<1>6. F \in [1 .. N -> [S -> S]]
  BY <1>4
<1>7. \A n \in 1 .. N, r \in S : F[n][r] = HoldAnother(r)
  OBVIOUS
<1>. HIDE DEF F
<1>8. PICK g \in [0 .. N -> S] : g[0] = x /\ \A n \in 1 .. N : g[n] = F[n][g[n - 1]]
  BY ONLY <1>3, <1>6, Iteration
<1>9. Is(g)
  <2>1. \A n \in 0 .. N : g[n] = IF n = 0 THEN x ELSE HoldAnother(g[n - 1])
    BY <1>3, <1>7, <1>8
  <2>. QED
    BY <1>8, <2>1
<1>10. Is(after)
  <2>. HIDE DEF Is
  <2>. QED
    BY <1>9
<1>. HIDE DEF after
<1>. DEFINE good(n, r) == /\ Accounts(r.table, KernelClaims(r.held))
                          /\ r.table.taken \subseteq 0 .. n - 1
            T == {n \in 0 .. N : good(n, after[n])}
<1>11. 0 \in T
  <2>1. after[0] = [table |-> t0, held |-> {}]
    BY <1>3, <1>10 DEF x
  <2>2. Accounts(t0, KernelClaims({}))
    <3>1. HeapOK(t0) /\ Runs(t0) = {} /\ KernelClaims({}) = {}
      BY HeapStarts DEF heap_desc_init, Runs, KernelClaims
    <3>. QED
      BY <3>1 DEF Accounts
  <2>3. t0.taken = {}
    BY DEF heap_desc_init
  <2>4. good(0, after[0])
    BY <2>1, <2>2, <2>3
  <2>. HIDE DEF good
  <2>. QED
    BY <1>3, <2>4
<1>12. ASSUME NEW n \in 1 .. N, n - 1 \in T PROVE n \in T
  <2>. DEFINE r == after[n - 1]
              a == kmalloc(r.table, PAGE_SIZE)
              H == KernelClaims(r.held)
              c == [by |-> <<"kernel">>, run |-> <<a.at, BlocksFor(PAGE_SIZE)>>]
  <2>1. good(n - 1, r)
    <3>. HIDE DEF good
    <3>. QED
      BY <1>12
  <2>2. after[n] = [table |-> a.table, held |-> r.held \cup {a.at}]
    <3>1. after[n] = HoldAnother(after[n - 1])
      BY <1>3, <1>10
    <3>. QED
      BY <3>1 DEF HoldAnother
  <2>3. /\ HeapOK(r.table)
        /\ a.at # None =>
              /\ a.table.taken
                     = r.table.taken \cup (a.at .. a.at + BlocksFor(PAGE_SIZE) - 1)
    <3>1. HeapOK(r.table)
      BY <2>1 DEF Accounts
    <3>. DEFINE tb == r.table
                k == PAGE_SIZE
    <3>2. a = heap_malloc(tb, k) /\ k \in Nat
      BY <1>2 DEF kmalloc
    <3>. HIDE DEF a, r, tb, k
    <3>3. HeapOK(tb)
      BY <3>1 DEF tb
    <3>4. a.at # None => a.table.taken = tb.taken \cup (a.at .. a.at + BlocksFor(k) - 1)
      BY ONLY <3>2, <3>3, MallocTakes
    <3>. QED
      BY <3>1, <3>4 DEF tb, k
  <2>4. a.at \in 0 .. n - 1
    <3>1. n - 1 \in Blocks /\ n - 1 \notin r.table.taken
      <4>1. r.table.taken \subseteq 0 .. (n - 1) - 1
        BY <2>1
      <4>2. n \in Nat /\ 1 <= n /\ n <= HEAP_BLOCKS
        BY <1>1, <1>12, HeapAssumption
      <4>. DEFINE k == n - 1
      <4>3. k \in Nat /\ k \in Blocks
        BY <4>2, HeapAssumption DEF Blocks
      <4>4. k \notin 0 .. k - 1
        BY <4>3
      <4>. QED
        BY <4>1, <4>3, <4>4
    <3>2. a.at = find_free_block(r.table, 1)
      BY <1>2 DEF kmalloc, heap_malloc, HandOut
    <3>. QED
      BY <3>1, <3>2, FirstFit
  <2>5. Accounts(a.table, IF a.at = None THEN H ELSE H \cup {c})
    <3>1. Accounts(r.table, H)
      BY <2>1
    <3>. HIDE DEF H, r
    <3>. QED
      BY <1>2, <3>1, Grant
  <2>. HIDE DEF a, r
  <2>6. a.at # None
    BY <2>4 DEF None
  <2>7. KernelClaims(r.held \cup {a.at}) = H \cup {c}
    BY <1>2 DEF KernelClaims
  <2>8. a.table.taken \subseteq 0 .. n - 1
    BY <1>2, <2>1, <2>3, <2>4, <2>6
  <2>9. good(n, after[n])
    <3>1. Accounts(a.table, KernelClaims(r.held \cup {a.at}))
      BY <2>5, <2>6, <2>7
    <3>2. after[n].table = a.table /\ after[n].held = r.held \cup {a.at}
      BY <2>2
    <3>. QED
      BY <2>8, <3>1, <3>2
  <2>. HIDE DEF good
  <2>. QED
    BY <2>9
<1>13. 0 .. N \subseteq T
  <2>. HIDE DEF T
  <2>. QED
    BY <1>3, <1>11, <1>12, UpTo
<1>14. good(N, after[N])
  <2>. HIDE DEF good
  <2>. QED
    BY <1>3, <1>13
<1>. QED
  BY <1>5, <1>14

(* What everyone but task t holds                                          *)
OtherClaims(held) == {[by |-> <<"other">>, run |-> run] : run \in held}

Rest(t) ==
    KernelClaims(kernel_dir) \cup OtherClaims(other)
        \cup UNION {Claims(u, space[u], Fields) : u \in Tasks \ {t}}

(* The inductive invariant: a task has a directory while it runs and no    *)
(* memory before and after, its memory can be walked from there, and the   *)
(* table holds what the holders do.                                        *)
MemoryOK ==
    /\ state \in [Tasks -> {"unused", "user", "zombie"}]
    /\ space \in [Tasks -> SpaceType]
    /\ \A t \in Tasks : /\ Shape(space[t])
                        /\ state[t] = "unused" => space[t] = NoSpace
                        /\ state[t] = "user" => space[t].dir # None
    /\ Accounts(table, Held)

(* One task's memory, and the rest of what is held                         *)
LEMMA HeldSplits ==
    ASSUME NEW t \in Tasks
    PROVE  Held = Rest(t) \cup Claims(t, space[t], Fields)
<1>1. Held = KernelClaims(kernel_dir) \cup OtherClaims(other)
                 \cup UNION {Claims(u, space[u], Fields) : u \in Tasks}
  BY DEF Held, KernelClaims, OtherClaims
<1>2. UNION {Claims(u, space[u], Fields) : u \in Tasks}
          = Claims(t, space[t], Fields)
                \cup UNION {Claims(u, space[u], Fields) : u \in Tasks \ {t}}
  OBVIOUS
<1>. QED
  BY <1>1, <1>2 DEF Rest

(* No one else claims a task's blocks in its name.                         *)
LEMMA RestApart ==
    ASSUME NEW t \in Tasks
    PROVE  Apart(Rest(t), t)
<1>1. ASSUME NEW x \in Rest(t), NEW f \in Fields
      PROVE  x.by # <<"task", t, f>>
  <2>1. CASE x \in KernelClaims(kernel_dir)
    BY <2>1 DEF KernelClaims
  <2>2. CASE x \in OtherClaims(other)
    BY <2>2 DEF OtherClaims
  <2>3. ASSUME NEW u \in Tasks \ {t}, x \in Claims(u, space[u], Fields)
        PROVE  x.by # <<"task", t, f>>
    <3>1. PICK g \in Fields : x.by = <<"task", u, g>>
      BY <2>3 DEF Claims, Claim
    <3>. QED
      BY <3>1
  <2>. QED
    BY <1>1, <2>1, <2>2, <2>3 DEF Rest
<1>. QED
  BY <1>1 DEF Apart

(* A step of one task that leaves the rest alone keeps the accounts when   *)
(* what the task has afterwards is accounted for (syscall_handler)         *)
LEMMA TaskStep ==
    ASSUME MemoryOK, NEW t \in Tasks, NEW tb, NEW s \in SpaceType, Shape(s),
           NEW q \in {"unused", "user", "zombie"},
           q = "unused" => s = NoSpace, q = "user" => s.dir # None,
           Accounts(tb, Rest(t) \cup Claims(t, s, Fields)),
           table' = tb, space' = [space EXCEPT ![t] = s],
           state' = [state EXCEPT ![t] = q], UNCHANGED <<kernel_dir, other>>
    PROVE  MemoryOK'
<1>1. /\ space \in [Tasks -> SpaceType]
      /\ state \in [Tasks -> {"unused", "user", "zombie"}]
  BY DEF MemoryOK
<1>2. /\ space' \in [Tasks -> SpaceType] /\ space'[t] = s
      /\ \A u \in Tasks \ {t} : space'[u] = space[u]
  BY <1>1
<1>3. /\ state' \in [Tasks -> {"unused", "user", "zombie"}] /\ state'[t] = q
      /\ \A u \in Tasks \ {t} : state'[u] = state[u]
  BY <1>1
<1>4. ASSUME NEW u \in Tasks
      PROVE  /\ Shape(space'[u])
             /\ state'[u] = "unused" => space'[u] = NoSpace
             /\ state'[u] = "user" => space'[u].dir # None
  <2>1. CASE u = t
    BY <1>2, <1>3, <2>1
  <2>2. CASE u # t
    BY <1>2, <1>3, <2>2 DEF MemoryOK
  <2>. QED
    BY <2>1, <2>2
<1>5. Held' = Rest(t) \cup Claims(t, s, Fields)
  <2>1. Held' = KernelClaims(kernel_dir) \cup OtherClaims(other)
                    \cup UNION {Claims(u, space'[u], Fields) : u \in Tasks}
    BY DEF Held, KernelClaims, OtherClaims
  <2>2. UNION {Claims(u, space'[u], Fields) : u \in Tasks}
            = Claims(t, s, Fields)
                  \cup UNION {Claims(u, space'[u], Fields) : u \in Tasks \ {t}}
    BY <1>2
  <2>3. UNION {Claims(u, space'[u], Fields) : u \in Tasks \ {t}}
            = UNION {Claims(u, space[u], Fields) : u \in Tasks \ {t}}
    BY <1>2
  <2>. QED
    BY <2>1, <2>2, <2>3 DEF Rest
<1>. QED
  BY <1>2, <1>3, <1>4, <1>5 DEF MemoryOK

(* The numbers in a program header are words (elf32_program_header).       *)
LEMMA ProgramFields ==
    ASSUME NEW p \in Programs
    PROVE  p.size \in Nat /\ p.segments \in Seq(SegmentType)
<1>1. p.size \in 0 .. Word - 1
  BY ProgramAssumption
<1>2. p.segments \in Seq(SegmentType)
  BY ProgramAssumption DEF SegmentType, Words
<1>. QED
  BY <1>1, <1>2, SpaceNumbers

(* A program is spawned, or what was there of it is freed (task_spawn).    *)
LEMMA SpawnKeeps ==
    ASSUME MemoryOK, NEW t \in Tasks, NEW p \in Programs, task_spawn(t, p)
    PROVE  MemoryOK'
<1>. DEFINE call == FreshCall(table)
            X == Rest(t)
            m == task_alloc_kernel_stack(task_load(call, p))
<1>1. /\ space \in [Tasks -> SpaceType]
      /\ state \in [Tasks -> {"unused", "user", "zombie"}]
      /\ space[t] = NoSpace /\ state[t] = "unused"
  BY DEF MemoryOK, task_spawn
<1>2. Accounts(table, X) /\ Apart(X, t)
  <2>1. Held = X
    BY <1>1, HeldSplits, NoSpaceOK
  <2>. QED
    BY <2>1, RestApart DEF MemoryOK
<1>3. Spawned(t, p, m)
  <2>1. Call(t) = call
    BY <1>1 DEF Call, FreshCall
  <2>. HIDE DEF call
  <2>. QED
    BY <2>1 DEF task_spawn
<1>4. PICK b : CallOK(m, t, X, b)
  <2>1. p.size \in Nat /\ p.segments \in Seq(SegmentType)
    BY ProgramFields
  <2>. HIDE DEF X
  <2>2. CallOK(task_load(call, p), t, X, Fresh(None))
    BY <1>2, <2>1, LoadOK
  <2>. HIDE DEF call
  <2>. QED
    BY <2>2, KernelStackOK
<1>. HIDE DEF m
<1>. DEFINE tb == m.table
            s == m.space
<1>5. /\ s \in SpaceType /\ Shape(s) /\ (m.ok => s.dir # None)
      /\ Accounts(tb, X \cup Claims(t, s, Fields))
  BY <1>4 DEF CallOK, CallType
<1>6. UNCHANGED <<kernel_dir, other>>
  BY <1>3 DEF Spawned
<1>7. CASE m.ok
  <2>1. /\ table' = tb /\ space' = [space EXCEPT ![t] = s]
        /\ state' = [state EXCEPT ![t] = "user"]
    BY <1>3, <1>7 DEF Spawned
  <2>. HIDE DEF tb, s
  <2>. QED
    BY <1>5, <1>6, <1>7, <2>1, TaskStep
<1>8. CASE ~ m.ok
  <2>1. /\ table' = task_free(tb, s)
        /\ space' = [space EXCEPT ![t] = NoSpace]
        /\ state' = [state EXCEPT ![t] = "unused"]
    BY <1>1, <1>3, <1>8 DEF Spawned
  <2>. HIDE DEF tb, s
  <2>2. Accounts(task_free(tb, s), X)
    <3>. HIDE DEF X
    <3>. QED
      BY <1>2, <1>5, TaskFreeOK
  <2>3. /\ Accounts(task_free(tb, s), X \cup Claims(t, NoSpace, Fields))
        /\ NoSpace \in SpaceType /\ Shape(NoSpace)
    BY <2>2, NoSpaceOK
  <2>. QED
    BY <1>6, <2>1, <2>3, TaskStep
<1>. QED
  BY <1>7, <1>8

(* A task that ends keeps its memory until it is reaped (task_exit).       *)
LEMMA ExitKeeps ==
    ASSUME MemoryOK, NEW t \in Tasks, task_exit(t)
    PROVE  MemoryOK'
<1>. DEFINE s == space[t]
<1>1. /\ s \in SpaceType /\ Shape(s) /\ space' = [space EXCEPT ![t] = s]
      /\ Accounts(table, Rest(t) \cup Claims(t, s, Fields))
  BY HeldSplits DEF MemoryOK, task_exit
<1>2. /\ state' = [state EXCEPT ![t] = "zombie"] /\ table' = table
      /\ UNCHANGED <<kernel_dir, other>>
  BY DEF task_exit
<1>. HIDE DEF s
<1>. QED
  BY <1>1, <1>2, TaskStep

(* Then all of it goes back (task_wait, task_reap_zombies).                *)
LEMMA ReapKeeps ==
    ASSUME MemoryOK, NEW t \in Tasks, Reap(t)
    PROVE  MemoryOK'
<1>. DEFINE s == space[t]
            X == Rest(t)
<1>1. /\ s \in SpaceType /\ Shape(s)
      /\ Accounts(table, X \cup Claims(t, s, Fields)) /\ Apart(X, t)
  BY HeldSplits, RestApart DEF MemoryOK
<1>2. /\ table' = task_free(table, s) /\ space' = [space EXCEPT ![t] = NoSpace]
      /\ state' = [state EXCEPT ![t] = "unused"] /\ UNCHANGED <<kernel_dir, other>>
  BY DEF Reap
<1>3. Accounts(task_free(table, s), X)
  <2>. HIDE DEF s, X
  <2>. QED
    BY <1>1, TaskFreeOK
<1>4. /\ Accounts(task_free(table, s), X \cup Claims(t, NoSpace, Fields))
      /\ NoSpace \in SpaceType /\ Shape(NoSpace)
  BY <1>3, NoSpaceOK
<1>. HIDE DEF s
<1>. QED
  BY <1>2, <1>4, TaskStep

(* The rest of the kernel allocates (kmalloc)                              *)
LEMMA AllocateKeeps ==
    ASSUME MemoryOK, NEW size \in KernelSizes, Allocate(size)
    PROVE  MemoryOK'
<1>. DEFINE a == kmalloc(table, size)
            c == [by |-> <<"other">>, run |-> <<a.at, BlocksFor(size)>>]
<1>1. /\ a.at # None /\ table' = a.table
      /\ other' = other \cup {<<a.at, BlocksFor(size)>>}
      /\ UNCHANGED <<kernel_dir, state, space>>
  BY DEF Allocate, Allocated
<1>2. Held' = Held \cup {c}
  <2>. HIDE DEF a
  <2>. QED
    BY <1>1 DEF Held
<1>3. size \in Nat
  BY RequestAssumption
<1>4. Accounts(a.table, Held \cup {c})
  <2>1. Accounts(table, Held)
    BY DEF MemoryOK
  <2>. DEFINE H == Held
  <2>. HIDE DEF H
  <2>2. Accounts(a.table, IF a.at = None THEN H ELSE H \cup {c})
    BY <1>3, <2>1, Grant DEF H
  <2>. QED
    BY <1>1, <2>2 DEF H
<1>. HIDE DEF a, c
<1>. QED
  BY <1>1, <1>2, <1>4 DEF MemoryOK

(* and frees (kfree).                                                      *)
LEMMA ReleaseKeeps ==
    ASSUME MemoryOK, NEW run \in other, Release(run)
    PROVE  MemoryOK'
<1>. DEFINE c == [by |-> <<"other">>, run |-> run]
<1>1. /\ table' = kfree(table, run[1]) /\ other' = other \ {run}
      /\ UNCHANGED <<kernel_dir, state, space>>
  BY DEF Release
<1>. DEFINE tasks == UNION {Claims(t, space[t], Fields) : t \in Tasks}
<1>2. c \notin KernelClaims(kernel_dir)
  BY DEF KernelClaims
<1>3. c \notin tasks
  <2>1. ASSUME NEW t \in Tasks, NEW x \in Claims(t, space[t], Fields)
        PROVE  x.by # <<"other">>
    <3>1. PICK f \in Fields : x.by = <<"task", t, f>>
      BY DEF Claims, Claim
    <3>. QED
      BY <3>1
  <2>2. c.by = <<"other">>
    OBVIOUS
  <2>. HIDE DEF c
  <2>. QED
    BY <2>1, <2>2
<1>4. Held = KernelClaims(kernel_dir) \cup OtherClaims(other) \cup tasks
  BY DEF Held, KernelClaims, OtherClaims
<1>5. Held' = KernelClaims(kernel_dir) \cup OtherClaims(other \ {run}) \cup tasks
  BY <1>1 DEF Held, KernelClaims, OtherClaims
<1>6. OtherClaims(other \ {run}) = OtherClaims(other) \ {c}
  BY DEF OtherClaims
<1>7. c \in OtherClaims(other)
  BY DEF OtherClaims
<1>8. Held' = Held \ {c} /\ c \in Held
  <2>. HIDE DEF c, tasks
  <2>. QED
    BY <1>2, <1>3, <1>4, <1>5, <1>6, <1>7
<1>9. Accounts(kfree(table, run[1]), Held \ {c})
  <2>1. Accounts(table, Held) /\ c.run = run
    BY DEF MemoryOK
  <2>. HIDE DEF c
  <2>. QED
    BY <1>8, <2>1, Return
<1>. QED
  BY <1>1, <1>8, <1>9 DEF MemoryOK

(* What a call of a running program starts from                            *)
Running(t) ==
    [buf |-> None, stack |-> space[t].kernel_stack, runs |-> TRUE]

(* A system call of a running task starts with its accounts in order       *)
(* (syscall_handler)                                                       *)
LEMMA CallReady ==
    ASSUME MemoryOK, NEW t \in Tasks, state[t] = "user"
    PROVE  CallOK(Call(t), t, Rest(t), Running(t))
<1>1. /\ space[t] \in SpaceType /\ Shape(space[t]) /\ space[t].dir # None
      /\ Accounts(table, Rest(t) \cup Claims(t, space[t], Fields))
  BY HeldSplits DEF MemoryOK
<1>2. table \in TableType
  BY <1>1, AccountsType
<1>. QED
  BY <1>1, <1>2 DEF CallOK, CallType, Call, Running, Ptrs

(* and leaves behind (malloc, calloc, realloc).                            *)
LEMMA KeepKeeps ==
    ASSUME MemoryOK, NEW t \in Tasks, state[t] = "user", NEW out, NEW old, NEW size,
           AtMostSbrk(Call(t), out.m), Keep(t, out, old, size)
    PROVE  MemoryOK'
<1>1. /\ out.m.space \in SpaceType /\ Shape(out.m.space)
      /\ out.m.space.dir # None
      /\ Accounts(out.m.table, Rest(t) \cup Claims(t, out.m.space, Fields))
  <2>1. CallOK(out.m, t, Rest(t), Running(t))
    BY CallReady, OutcomeOK
  <2>. QED
    BY <2>1 DEF CallOK, CallType, Running
<1>2. /\ table' = out.m.table /\ space' = [space EXCEPT ![t] = out.m.space]
      /\ UNCHANGED <<kernel_dir, other>>
  BY DEF Keep
<1>3. state' = [state EXCEPT ![t] = "user"]
  BY DEF Keep, MemoryOK
<1>. QED
  BY <1>1, <1>2, <1>3, TaskStep

(* An empty heap and no tasks: all that is held is the kernel's directory  *)
(* (page_init).                                                            *)
LEMMA MemoryStarts == Init => MemoryOK
<1>. SUFFICES ASSUME Init PROVE MemoryOK
  OBVIOUS
<1>. DEFINE r == page_dir_init(heap_desc_init)
<1>1. /\ table = r.table /\ kernel_dir = r.held /\ other = {}
      /\ state = [t \in Tasks |-> "unused"] /\ space = [t \in Tasks |-> NoSpace]
  BY DEF Init
<1>2. Accounts(r.table, KernelClaims(r.held))
  BY KernelDirOK
<1>. HIDE DEF r
<1>3. Held = KernelClaims(r.held)
  <2>1. \A t \in Tasks : Claims(t, space[t], Fields) = {}
    BY <1>1, NoSpaceOK
  <2>. QED
    BY <1>1, <2>1 DEF Held, KernelClaims
<1>4. \A t \in Tasks : /\ space[t] = NoSpace /\ NoSpace \in SpaceType
                       /\ Shape(NoSpace) /\ state[t] = "unused"
  BY <1>1, NoSpaceOK
<1>. QED
  BY <1>1, <1>2, <1>3, <1>4 DEF MemoryOK

(* Every step keeps the accounts (task_spawn, task_exit, task_wait, sbrk,  *)
(* kmalloc, kfree).                                                        *)
LEMMA MemoryKept == MemoryOK /\ [Next]_vars => MemoryOK'
<1>. SUFFICES ASSUME MemoryOK, [Next]_vars PROVE MemoryOK'
  OBVIOUS
<1>1. ASSUME NEW t \in Tasks, NEW p \in Programs, task_spawn(t, p) PROVE MemoryOK'
  BY <1>1, SpawnKeeps
<1>2. ASSUME NEW t \in Tasks, task_exit(t) PROVE MemoryOK'
  BY <1>2, ExitKeeps
<1>3. ASSUME NEW t \in Tasks, Reap(t) PROVE MemoryOK'
  BY <1>3, ReapKeeps
<1>4. ASSUME NEW size \in KernelSizes, Allocate(size) PROVE MemoryOK'
  BY <1>4, AllocateKeeps
<1>5. ASSUME NEW run \in other, Release(run) PROVE MemoryOK'
  BY <1>5, ReleaseKeeps
<1>6. ASSUME NEW t \in Tasks, NEW size \in Requests, Malloc(t, size) PROVE MemoryOK'
  <2>. DEFINE out == malloc(Call(t), heap[t], size)
  <2>1. state[t] = "user" /\ Keep(t, out, {}, size)
    BY <1>6 DEF Malloc
  <2>2. AtMostSbrk(Call(t), out.m)
    BY MallocCalls, RequestAssumption
  <2>. HIDE DEF out
  <2>. QED
    BY <2>1, <2>2, KeepKeeps
<1>7. ASSUME NEW t \in Tasks, NEW c \in Counts, Calloc(t, c) PROVE MemoryOK'
  <2>. DEFINE out == calloc(Call(t), heap[t], c[1], c[2])
  <2>1. state[t] = "user" /\ Keep(t, out, {}, c[1] * c[2])
    BY <1>7 DEF Calloc
  <2>2. c[1] \in Nat /\ c[2] \in Nat
    BY RequestAssumption
  <2>3. AtMostSbrk(Call(t), out.m)
    BY <2>2, CallocCalls
  <2>. HIDE DEF out
  <2>. QED
    BY <2>1, <2>3, KeepKeeps
<1>8. ASSUME NEW t \in Tasks, NEW p \in live[t], NEW size \in Requests,
             Realloc(t, p, size)
      PROVE  MemoryOK'
  <2>. DEFINE out == realloc(Call(t), heap[t], p.ptr, size)
  <2>1. state[t] = "user" /\ Keep(t, out, {p}, size)
    BY <1>8 DEF Realloc
  <2>2. AtMostSbrk(Call(t), out.m)
    BY ReallocCalls, RequestAssumption
  <2>. HIDE DEF out
  <2>. QED
    BY <2>1, <2>2, KeepKeeps
<1>9. ASSUME UNCHANGED <<table, kernel_dir, other, state, space>> PROVE MemoryOK'
  BY <1>9 DEF MemoryOK, Held
<1>10. ASSUME NEW t \in Tasks, NEW p \in live[t], Free(t, p) PROVE MemoryOK'
  BY <1>9, <1>10 DEF Free
<1>11. CASE UNCHANGED vars
  BY <1>9, <1>11 DEF vars
<1>. QED
  BY <1>1, <1>2, <1>3, <1>4, <1>5, <1>6, <1>7, <1>8, <1>10, <1>11 DEF Next

(* Every block of the kernel heap that is taken has exactly one holder and *)
(* every holder its blocks, whatever programs are loaded, fail to load,    *)
(* grow and end (task_load, task_sbrk, task_free).                         *)
THEOREM MemoryAccounted == Spec => []AllAccounted
<1>1. MemoryOK => AllAccounted
  <2>. SUFFICES ASSUME MemoryOK PROVE AllAccounted
    OBVIOUS
  <2>1. Accounts(table, Held)
    BY DEF MemoryOK
  <2>2. {h.run : h \in Held} = Runs(table)
    BY <2>1 DEF Accounts
  <2>. DEFINE H == Held
  <2>. HIDE DEF H
  <2>3. /\ UNION {RunBlocks(h.run) : h \in H} = table.taken
        /\ \A g, h \in H : g # h => RunBlocks(g.run) \cap RunBlocks(h.run) = {}
    BY <2>1, AccountsExact DEF H
  <2>. QED
    BY <2>2, <2>3 DEF AllAccounted, H
<1>. QED
  BY <1>1, MemoryStarts, MemoryKept, PTL DEF Spec

-----------------------------------------------------------------------------
(* Pages and bytes                                                         *)

(* The bytes from one to another, exclusively, lie on a page.              *)
Covers(from, to, page) ==
    /\ from < to
    /\ PAGE_SIZE * page < to /\ from < PAGE_SIZE * page + PAGE_SIZE

(* A number divided is at least p when it reaches to p times the divisor.  *)
LEMMA QuotientBounds ==
    ASSUME NEW d \in Nat \ {0}, NEW x \in Int, NEW p \in Int
    PROVE  /\ p <= x \div d <=> d * p <= x
           /\ x \div d <= p <=> x < d * p + d
<1>. DEFINE q == x \div d
<1>1. q \in Int /\ d * q <= x /\ x < d * q + d /\ d * q \in Int /\ d * p \in Int
  OBVIOUS
<1>. HIDE DEF q
<1>2. p <= q => d * p <= d * q
  BY <1>1, ProductGrows
<1>3. q + 1 <= p => d * q + d <= d * p
  <2>1. d * (q + 1) = d * q + d
    BY <1>1
  <2>. QED
    BY <1>1, <2>1, ProductGrows
<1>4. q <= p => d * q <= d * p
  BY <1>1, ProductGrows
<1>5. p + 1 <= q => d * p + d <= d * q
  <2>1. d * (p + 1) = d * p + d
    OBVIOUS
  <2>. QED
    BY <1>1, <2>1, ProductGrows
<1>6. (p <= q <=> d * p <= x) /\ (q <= p <=> x < d * p + d)
  BY <1>1, <1>2, <1>3, <1>4, <1>5
<1>. QED
  BY <1>6 DEF q

(* The pages of a range by what they cover (task_copy_to_user)             *)
LEMMA CoversIs ==
    ASSUME NEW from \in Int, NEW to \in Int, NEW page \in Int
    PROVE  Covers(from, to, page)
               <=> /\ from <= to - 1
                   /\ page \in from \div PAGE_SIZE .. (to - 1) \div PAGE_SIZE
<1>1. PAGE_SIZE \in Nat \ {0}
  BY SpaceNumbers
<1>. DEFINE P == PAGE_SIZE
            f == from \div P
            l == (to - 1) \div P
<1>2. f \in Int /\ l \in Int /\ P * page \in Int
  BY <1>1
<1>3. /\ page <= l <=> P * page <= to - 1
      /\ f <= page <=> from < P * page + P
  BY <1>1, QuotientBounds
<1>. HIDE DEF f, l
<1>4. (from <= to - 1 /\ page \in f .. l)
          <=> (from < to /\ P * page < to /\ from < P * page + P)
  BY <1>1, <1>2, <1>3
<1>. QED
  BY <1>4 DEF Covers, f, l

(* Pages of an order, bytes of the same                                    *)
LEMMA PageOrder ==
    ASSUME NEW p \in Int, NEW q \in Int
    PROVE  /\ PAGE_SIZE * p \in Int
           /\ p < q <=> PAGE_SIZE * p + PAGE_SIZE <= PAGE_SIZE * q
           /\ p <= q <=> PAGE_SIZE * p <= PAGE_SIZE * q
<1>. DEFINE P == PAGE_SIZE
<1>1. P \in Nat \ {0}
  BY SpaceNumbers
<1>. HIDE DEF P
<1>2. /\ P * p \in Int /\ P * q \in Int
      /\ P * (p + 1) = P * p + P /\ P * (q + 1) = P * q + P
  BY <1>1
<1>3. p <= q => P * p <= P * q
  BY <1>1, ProductGrows
<1>4. p + 1 <= q => P * p + P <= P * q
  BY <1>1, <1>2, ProductGrows
<1>5. q + 1 <= p => P * q + P <= P * p
  BY <1>1, <1>2, ProductGrows
<1>6. q <= p => P * q <= P * p
  BY <1>1, ProductGrows
<1>7. /\ p < q <=> P * p + P <= P * q
      /\ p <= q <=> P * p <= P * q
  BY <1>1, <1>2, <1>3, <1>4, <1>5, <1>6
<1>. QED
  BY <1>2, <1>7 DEF P

(* The page between heap and stack                                         *)
Guard == USER_HEAP_LIMIT \div PAGE_SIZE

(* Heap limit and stack lie on page boundaries, a page apart (config.h).   *)
LEMMA Layout ==
    /\ Guard \in Int /\ USER_HEAP_LIMIT = PAGE_SIZE * Guard
    /\ USER_HEAP_LIMIT \in Nat
    /\ USER_STACK_TOP - USER_STACK_SIZE = PAGE_SIZE * Guard + PAGE_SIZE
    /\ USER_STACK_TOP = PAGE_SIZE * (FirstPage + USER_SPACE_PAGES)
    /\ USER_STACK_TOP \in Nat
<1>. DEFINE P == PAGE_SIZE
            T == TOTAL_ENTRIES_PER_TABLE
            A == USER_CODE_ADDR
            U == USER_SPACE_PAGES
            Z == USER_STACK_SIZE
            K == Z \div P
            G == FirstPage + U - K - 1
<1>1. /\ P \in Nat \ {0} /\ T \in Nat \ {0} /\ A \in Nat /\ Z \in Nat
      /\ A % (T * P) = 0 /\ Z % P = 0 /\ U \in Nat
  BY SpaceNumbers, SpaceAssumption
<1>2. A = P * FirstPage /\ FirstPage \in Int
  <2>. DEFINE B == T * P
              j == A \div B
  <2>1. B \in Nat \ {0}
    <3>1. P <= P * T /\ P * T \in Int
      BY <1>1, ProductGrows
    <3>. QED
      BY <1>1, <3>1
  <2>. HIDE DEF B
  <2>2. j \in Int /\ A = B * j
    BY <1>1, <2>1 DEF B
  <2>. HIDE DEF j
  <2>3. A = P * (T * j) /\ T * j \in Int
    BY <1>1, <2>2 DEF B
  <2>. DEFINE k == T * j
  <2>. HIDE DEF k
  <2>4. k \in Int /\ A = P * k
    BY <2>3 DEF k
  <2>5. A \div P = k
    BY <1>1, <2>4
  <2>. QED
    BY <2>4, <2>5 DEF FirstPage
<1>3. Z = P * K /\ K \in Int
  BY <1>1
<1>. HIDE DEF K
<1>. DEFINE F == FirstPage
<1>4. F \in Int /\ A = P * F
  BY <1>2
<1>. HIDE DEF P, T, A, U, Z, F
<1>5. /\ USER_STACK_TOP = A + U * P
      /\ USER_HEAP_LIMIT = USER_STACK_TOP - Z - P
  BY DEF USER_STACK_TOP, USER_HEAP_LIMIT, A, U, P, Z
<1>6. G = F + U - K - 1
  BY DEF F
<1>. HIDE DEF G
<1>7. /\ P * F \in Int /\ P * U \in Int /\ P * K \in Int
      /\ U * P = P * U
      /\ P * G = P * F + P * U - P * K - P
      /\ P * (F + U) = P * F + P * U
      /\ G \in Int
  BY <1>1, <1>3, <1>4, <1>6
<1>8. USER_HEAP_LIMIT = P * G /\ G \in Int
  <2>1. USER_HEAP_LIMIT = P * F + P * U - P * K - P
    BY <1>1, <1>3, <1>4, <1>5, <1>7
  <2>. QED
    BY <1>7, <2>1
<1>9. Guard = G
  <2>1. (P * G) \div P = G
    BY <1>1, <1>7
  <2>. QED
    BY <1>8, <2>1 DEF Guard, P
<1>10. /\ USER_STACK_TOP - Z = P * G + P
       /\ USER_STACK_TOP = P * (F + U)
  BY <1>1, <1>3, <1>4, <1>5, <1>7, <1>8
<1>11. USER_HEAP_LIMIT \in Nat /\ USER_STACK_TOP \in Nat
  <2>1. USER_HEAP_LIMIT > A /\ USER_HEAP_LIMIT \in Int
    BY <1>7, <1>8, SpaceAssumption DEF A
  <2>. QED
    BY <1>1, <1>3, <1>5, <2>1, <1>4, <1>7
<1>. QED
  BY <1>8, <1>9, <1>10, <1>11 DEF P, F, U, Z

-----------------------------------------------------------------------------
(* What mapping pages does to them                                         *)

(* The same as far as a program can tell                                   *)
SameImage(s, s2) ==
    s2.pages = s.pages /\ s2.brk_start = s.brk_start /\ s2.brk = s.brk

(* From m to r the pages in ps are mapped, with write access if w, or some *)
(* of them until the call fails.  Pages keep what they have.               *)
Mapped(m, r, ps, w) ==
    /\ r.space.brk_start = m.space.brk_start /\ r.space.brk = m.space.brk
    /\ \A page \in UserPages :
           /\ m.space.pages[page].block # None => r.space.pages[page].block # None
           /\ m.space.pages[page].writable => r.space.pages[page].writable
    /\ \A page \in UserPages \ ps : r.space.pages[page] = m.space.pages[page]
    /\ r.ok => /\ m.ok /\ ps \subseteq UserPages
               /\ \A page \in ps :
                      /\ r.space.pages[page].block # None
                      /\ r.space.pages[page].writable
                             <=> m.space.pages[page].writable \/ w

(* Nothing mapped, or no call any more (task_copy_to_user)                 *)
LEMMA MappedNone ==
    ASSUME NEW m, NEW w
    PROVE  Mapped(m, m, {}, w) /\ (~ m.ok => \A ps : Mapped(m, m, ps, w))
BY DEF Mapped

(* Ranges one after the other (task_copy_to_user, elf_load)                *)
LEMMA MappedThen ==
    ASSUME NEW m, NEW c, NEW r, NEW ps, NEW qs, NEW w,
           Mapped(m, c, ps, w), Mapped(c, r, qs, w)
    PROVE  Mapped(m, r, ps \cup qs, w)
<1>1. /\ r.space.brk_start = m.space.brk_start /\ r.space.brk = m.space.brk
      /\ \A page \in UserPages :
             /\ m.space.pages[page].block # None => r.space.pages[page].block # None
             /\ m.space.pages[page].writable => r.space.pages[page].writable
      /\ \A page \in UserPages \ (ps \cup qs) :
             r.space.pages[page] = m.space.pages[page]
  BY DEF Mapped
<1>2. ASSUME r.ok
      PROVE  /\ m.ok /\ c.ok /\ ps \cup qs \subseteq UserPages
  BY <1>2 DEF Mapped
<1>3. ASSUME r.ok, NEW page \in ps \cup qs
      PROVE  /\ r.space.pages[page].block # None
             /\ r.space.pages[page].writable
                    <=> m.space.pages[page].writable \/ w
  <2>1. page \in UserPages /\ c.ok
    BY <1>2, <1>3
  <2>2. CASE page \in ps /\ page \notin qs
    BY <1>3, <2>1, <2>2 DEF Mapped
  <2>3. CASE page \in qs /\ page \notin ps
    BY <1>3, <2>1, <2>3 DEF Mapped
  <2>4. CASE page \in qs /\ page \in ps
    BY <1>3, <2>1, <2>4 DEF Mapped
  <2>. QED
    BY <1>3, <2>2, <2>3, <2>4
<1>. QED
  BY <1>1, <1>2, <1>3 DEF Mapped

(* A table is no page (page_dir_user_entry).                               *)
LEMMA EntryMaps ==
    ASSUME NEW m \in CallType, NEW page
    PROVE  LET r == page_dir_user_entry(m, page)
           IN  /\ SameImage(m.space, r.space)
               /\ r.ok => m.ok /\ page \in UserPages
<1>. DEFINE r == page_dir_user_entry(m, page)
            i == TableOf(page)
            m1 == Alloc(m, PAGE_SIZE)
<1>1. CASE page \notin UserPages
  <2>1. r.space = m.space /\ r.ok = FALSE
    BY <1>1 DEF page_dir_user_entry, Fail, CallType
  <2>. QED
    BY <2>1 DEF SameImage
<1>2. CASE page \in UserPages /\ m.space.user_tables[i] # None
  BY <1>2 DEF page_dir_user_entry, SameImage
<1>3. CASE page \in UserPages /\ m.space.user_tables[i] = None
  <2>1. r = NewTable(m1, i)
    BY <1>3 DEF page_dir_user_entry
  <2>2. /\ m1.space = m.space /\ (m1.ok => m.ok)
        /\ DOMAIN m1 = {"ok", "table", "space", "at", "buf"}
    <3>. DEFINE a == kmalloc(m.table, PAGE_SIZE)
                ok == m.ok /\ a.at # None
    <3>1. m1 = [ok |-> ok, table |-> a.table, space |-> m.space, at |-> a.at,
                buf |-> m.buf]
      BY AllocIs
    <3>2. ok => m.ok /\ a.at # None
      OBVIOUS
    <3>. HIDE DEF m1, ok, a
    <3>. QED
      BY <3>1, <3>2
  <2>3. m.space \in SpaceType
    BY DEF CallType
  <2>. HIDE DEF m1, i
  <2>4. CASE m1.ok
    <3>. DEFINE tables == [m.space.user_tables EXCEPT ![i] = m1.at]
                s2 == [m.space EXCEPT !.user_tables = tables]
    <3>1. r = [m1 EXCEPT !.space = s2]
      BY <2>1, <2>2, <2>4 DEF NewTable
    <3>2. r.space = s2 /\ r.ok = m1.ok
      <4>. HIDE DEF s2
      <4>. QED
        BY <2>2, <3>1
    <3>3. SameImage(m.space, s2)
      <4>. HIDE DEF tables
      <4>. QED
        BY <2>3 DEF SpaceType, SameImage
    <3>. QED
      BY <1>3, <2>2, <3>2, <3>3
  <2>5. CASE ~ m1.ok
    BY <2>1, <2>2, <2>5 DEF NewTable, SameImage
  <2>. QED
    BY <2>4, <2>5
<1>. QED
  BY <1>1, <1>2, <1>3

(* A page keeps its block, or gets one (task_user_page).                   *)
LEMMA MapPageMaps ==
    ASSUME NEW m \in CallType, NEW page \in UserPages
    PROVE  LET r == MapPage(m, page)
           IN  /\ r.space.brk_start = m.space.brk_start
               /\ r.space.brk = m.space.brk
               /\ \A p \in UserPages \ {page} : r.space.pages[p] = m.space.pages[p]
               /\ r.space.pages[page].writable = m.space.pages[page].writable
               /\ m.space.pages[page].block # None
                      => r.space.pages[page] = m.space.pages[page]
               /\ ~ r.ok => r.space = m.space
               /\ r.ok => m.ok /\ r.space.pages[page].block # None
<1>. DEFINE r == MapPage(m, page)
            m1 == Alloc(m, PAGE_SIZE)
<1>1. CASE ~ (m.ok /\ m.space.pages[page].block = None)
  BY <1>1 DEF MapPage
<1>2. CASE m.ok /\ m.space.pages[page].block = None
  <2>1. r = NewPage(m1, page)
    BY <1>2 DEF MapPage
  <2>2. /\ m1.space = m.space /\ (m1.ok => m1.at # None)
        /\ DOMAIN m1 = {"ok", "table", "space", "at", "buf"}
    <3>. DEFINE a == kmalloc(m.table, PAGE_SIZE)
                ok == m.ok /\ a.at # None
    <3>1. m1 = [ok |-> ok, table |-> a.table, space |-> m.space, at |-> a.at,
                buf |-> m.buf]
      BY AllocIs
    <3>2. ok => m.ok /\ a.at # None
      OBVIOUS
    <3>. HIDE DEF m1, ok, a
    <3>. QED
      BY <3>1, <3>2
  <2>3. m.space \in SpaceType
    BY DEF CallType
  <2>. HIDE DEF m1
  <2>4. CASE m1.ok
    <3>. DEFINE pages == [m.space.pages EXCEPT ![page].block = m1.at]
                s2 == [m.space EXCEPT !.pages = pages]
    <3>1. r = [m1 EXCEPT !.space = s2]
      BY <2>1, <2>2, <2>4 DEF NewPage
    <3>2. r.space = s2 /\ r.ok = m1.ok
      <4>. HIDE DEF s2
      <4>. QED
        BY <2>2, <3>1
    <3>3. /\ s2.pages = pages /\ s2.brk_start = m.space.brk_start
          /\ s2.brk = m.space.brk
      <4>. HIDE DEF pages
      <4>. QED
        BY <2>3 DEF SpaceType
    <3>4. /\ \A p \in UserPages \ {page} : pages[p] = m.space.pages[p]
          /\ pages[page].writable = m.space.pages[page].writable
          /\ pages[page].block = m1.at
      BY <2>3 DEF SpaceType
    <3>. HIDE DEF pages, s2, r
    <3>5. /\ r.space.brk_start = m.space.brk_start /\ r.space.brk = m.space.brk
          /\ r.space.pages = pages /\ r.ok /\ m1.at # None
      BY <2>2, <2>4, <3>2, <3>3
    <3>. QED
      BY <1>2, <3>4, <3>5 DEF r
  <2>5. CASE ~ m1.ok
    BY <1>2, <2>1, <2>2, <2>5 DEF NewPage
  <2>. QED
    BY <2>4, <2>5
<1>. QED
  BY <1>1, <1>2

(* A page may be written when some part on it may (task_user_page).        *)
LEMMA PermitMaps ==
    ASSUME NEW m \in CallType, m.ok, NEW page \in UserPages, NEW w \in BOOLEAN
    PROVE  LET r == Permit(m, page, w)
           IN  /\ r.space.brk_start = m.space.brk_start
               /\ r.space.brk = m.space.brk /\ r.ok
               /\ \A p \in UserPages \ {page} : r.space.pages[p] = m.space.pages[p]
               /\ r.space.pages[page].block = m.space.pages[page].block
               /\ r.space.pages[page].writable
                      <=> m.space.pages[page].writable \/ w
<1>. DEFINE r == Permit(m, page, w)
            e == m.space.pages[page].writable \/ w
            pages == [m.space.pages EXCEPT ![page].writable = e]
            s2 == [m.space EXCEPT !.pages = pages]
<1>1. r = [m EXCEPT !.space = s2]
  BY DEF Permit
<1>2. m.space \in SpaceType /\ e \in BOOLEAN
  BY DEF CallType
<1>3. r.space = s2 /\ r.ok = m.ok
  <2>. HIDE DEF s2
  <2>. QED
    BY <1>1 DEF CallType
<1>4. /\ s2.pages = pages /\ s2.brk_start = m.space.brk_start
      /\ s2.brk = m.space.brk
  <2>. HIDE DEF pages
  <2>. QED
    BY <1>2 DEF SpaceType
<1>5. /\ \A p \in UserPages \ {page} : pages[p] = m.space.pages[p]
      /\ pages[page].block = m.space.pages[page].block
      /\ pages[page].writable = e
  <2>. HIDE DEF e
  <2>. QED
    BY <1>2 DEF SpaceType
<1>. HIDE DEF s2, pages, r
<1>6. /\ r.space.brk_start = m.space.brk_start /\ r.space.brk = m.space.brk
      /\ r.space.pages = pages /\ r.ok
  BY <1>3, <1>4
<1>. QED
  BY <1>5, <1>6 DEF r

(* One page of a range (task_copy_to_user)                                 *)
LEMMA CopyPageMaps ==
    ASSUME NEW m, NEW t, NEW X, NEW b, CallOK(m, t, X, b), NEW page,
           NEW w \in BOOLEAN
    PROVE  Mapped(m, CopyPage(m, page, w), {page}, w)
<1>1. CASE ~ m.ok
  BY <1>1, MappedNone DEF CopyPage
<1>2. CASE m.ok
  <2>. DEFINE e == page_dir_user_entry(m, page)
              p == MapPage(e, page)
              r == Permit(p, page, w)
  <2>1. CopyPage(m, page, w) = r
    BY <1>2 DEF CopyPage, task_user_page
  <2>2. CallOK(e, t, X, b) /\ SameImage(m.space, e.space)
        /\ (e.ok => page \in UserPages /\ e.space.user_tables[TableOf(page)] # None)
    <3>1. m \in CallType
      BY DEF CallOK
    <3>2. SameImage(m.space, e.space)
      BY <3>1, EntryMaps
    <3>. QED
      BY <1>2, <3>2, EntryOK
  <2>. HIDE DEF e
  <2>3. CallOK(p, t, X, b)
    BY <2>2, MapPageOK
  <2>4. e \in CallType /\ p \in CallType
    BY <2>2, <2>3 DEF CallOK
  <2>5. CASE ~ e.ok
    <3>1. r = e
      BY <2>5 DEF MapPage, Permit
    <3>. QED
      BY <2>1, <2>2, <2>5, <3>1 DEF Mapped, SameImage
  <2>6. CASE e.ok
    <3>1. page \in UserPages
      BY <2>2, <2>6
    <3>2. /\ p.space.brk_start = m.space.brk_start /\ p.space.brk = m.space.brk
          /\ \A q \in UserPages \ {page} : p.space.pages[q] = m.space.pages[q]
          /\ p.space.pages[page].writable = m.space.pages[page].writable
          /\ m.space.pages[page].block # None
                 => p.space.pages[page] = m.space.pages[page]
          /\ ~ p.ok => p.space = e.space
          /\ p.ok => p.space.pages[page].block # None
      BY <2>2, <2>4, <3>1, MapPageMaps DEF SameImage
    <3>. HIDE DEF p
    <3>3. CASE ~ p.ok
      <4>1. r = p
        BY <3>3 DEF Permit
      <4>. QED
        BY <2>1, <2>2, <3>2, <3>3, <4>1 DEF Mapped, SameImage
    <3>4. CASE p.ok
      <4>1. /\ r.space.brk_start = p.space.brk_start
            /\ r.space.brk = p.space.brk /\ r.ok
            /\ \A q \in UserPages \ {page} : r.space.pages[q] = p.space.pages[q]
            /\ r.space.pages[page].block = p.space.pages[page].block
            /\ r.space.pages[page].writable <=> p.space.pages[page].writable \/ w
        BY <2>4, <3>1, <3>4, PermitMaps
      <4>. HIDE DEF r
      <4>2. ASSUME NEW q \in UserPages
            PROVE  /\ m.space.pages[q].block # None => r.space.pages[q].block # None
                   /\ m.space.pages[q].writable => r.space.pages[q].writable
        BY <3>2, <4>1
      <4>3. \A q \in UserPages \ {page} : r.space.pages[q] = m.space.pages[q]
        BY <3>2, <4>1
      <4>. QED
        BY <1>2, <2>1, <3>1, <3>2, <3>4, <4>1, <4>2, <4>3 DEF Mapped
    <3>. QED
      BY <3>3, <3>4
  <2>. QED
    BY <2>5, <2>6
<1>. QED
  BY <1>1, <1>2

(* The pages of len bytes from vaddr on                                    *)
PagesIn(vaddr, len) == {page \in Int : Covers(vaddr, vaddr + len, page)}

(* The pages of a range are those its bytes lie on (task_copy_to_user).    *)
LEMMA PagesOfIs ==
    ASSUME NEW vaddr \in Nat, NEW len \in Nat
    PROVE  LET pages == PagesOf(vaddr, len)
           IN  {pages[i] : i \in 1 .. Len(pages)} = PagesIn(vaddr, len)
<1>. DEFINE P == PAGE_SIZE
            f == vaddr \div P
            l == (vaddr + len - 1) \div P
            k == IF len = 0 THEN 0 ELSE l - f + 1
            pages == PagesOf(vaddr, len)
<1>1. P \in Nat \ {0}
  BY SpaceNumbers
<1>2. f \in Int /\ l \in Int /\ (len # 0 => f <= l)
  <2>1. vaddr \in Int /\ vaddr + len - 1 \in Int
        /\ (len # 0 => vaddr <= vaddr + len - 1)
    OBVIOUS
  <2>2. f \in Int /\ l \in Int
    BY <1>1, <2>1
  <2>3. len # 0 => f <= l
    BY <1>1, <2>1, QuotientGrows
  <2>. QED
    BY <2>2, <2>3
<1>3. pages = [i \in 1 .. k |-> f + i - 1]
  BY DEF PagesOf
<1>4. \A page \in Int : page \in PagesIn(vaddr, len) <=> len # 0 /\ page \in f .. l
  <2>1. ASSUME NEW page \in Int
        PROVE  page \in PagesIn(vaddr, len) <=> len # 0 /\ page \in f .. l
    <3>. DEFINE to == vaddr + len
    <3>1. to \in Int /\ vaddr \in Int /\ (len # 0 <=> vaddr <= to - 1)
      OBVIOUS
    <3>2. page \in PagesIn(vaddr, len) <=> Covers(vaddr, to, page)
      BY DEF PagesIn
    <3>3. l = (to - 1) \div P
      OBVIOUS
    <3>. HIDE DEF to, f, l
    <3>4. Covers(vaddr, to, page) <=> vaddr <= to - 1 /\ page \in f .. l
      BY <3>1, <3>3, CoversIs DEF f
    <3>. QED
      BY <3>1, <3>2, <3>4
  <2>. QED
    BY <2>1
<1>. HIDE DEF f, l, pages
<1>5. k \in Nat
  BY <1>2
<1>6. Len(pages) = k /\ \A i \in 1 .. k : pages[i] = f + i - 1
  <2>. HIDE DEF k
  <2>. QED
    BY <1>3, <1>5
<1>7. ASSUME NEW i \in 1 .. k PROVE pages[i] \in PagesIn(vaddr, len)
  <2>1. len # 0 /\ f + i - 1 \in f .. l
    BY <1>2
  <2>. QED
    BY <1>4, <1>6, <2>1
<1>8. ASSUME NEW page \in PagesIn(vaddr, len)
      PROVE  \E i \in 1 .. k : pages[i] = page
  <2>1. page \in Int /\ len # 0 /\ page \in f .. l
    BY <1>4 DEF PagesIn
  <2>2. page - f + 1 \in 1 .. k /\ f + (page - f + 1) - 1 = page
    BY <1>2, <2>1
  <2>. HIDE DEF k
  <2>. QED
    BY <1>6, <2>2
<1>9. {pages[i] : i \in 1 .. k} = PagesIn(vaddr, len)
  <2>. HIDE DEF k
  <2>. QED
    BY <1>7, <1>8
<1>. QED
  BY <1>6, <1>9 DEF pages

(* A range of bytes maps the pages they lie on (task_copy_to_user).        *)
LEMMA CopyMaps ==
    ASSUME NEW m, NEW t, NEW X, NEW b, CallOK(m, t, X, b), NEW vaddr \in Nat,
           NEW len \in Nat, NEW w \in BOOLEAN
    PROVE  Mapped(m, task_copy_to_user(m, vaddr, len, w), PagesIn(vaddr, len), w)
<1>. DEFINE pages == PagesOf(vaddr, len)
            N == Len(pages)
            done(n) == {pages[i] : i \in 1 .. n}
            r == task_copy_to_user(m, vaddr, len, w)
<1>1. N \in Nat
  BY PagesOfSeq
<1>2. PICK g : CopyRun(g, m, r, pages, w, t, X, b)
  BY CopySteps
<1>3. /\ g[0] = m /\ g[N] = r
      /\ \A n \in 1 .. N : g[n] = CopyPage(g[n - 1], pages[n], w)
      /\ \A n \in 0 .. N : CallOK(g[n], t, X, b)
  BY <1>2 DEF CopyRun
<1>4. done(N) = PagesIn(vaddr, len)
  BY PagesOfIs
<1>. HIDE DEF r, N
<1>5. done(0) = {}
  OBVIOUS
<1>6. ASSUME NEW n \in 1 .. N PROVE done(n) = done(n - 1) \cup {pages[n]}
  <2>1. 1 .. n = (1 .. n - 1) \cup {n}
    BY <1>1
  <2>. HIDE DEF pages
  <2>. QED
    BY <2>1
<1>. HIDE DEF pages, done
<1>. DEFINE T == {n \in 0 .. N : Mapped(m, g[n], done(n), w)}
<1>7. 0 \in T
  BY <1>1, <1>3, <1>5, MappedNone
<1>8. ASSUME NEW n \in 1 .. N, n - 1 \in T PROVE n \in T
  <2>1. Mapped(m, g[n - 1], done(n - 1), w) /\ CallOK(g[n - 1], t, X, b)
    BY <1>1, <1>3, <1>8
  <2>2. Mapped(g[n - 1], g[n], {pages[n]}, w)
    BY <1>3, <2>1, CopyPageMaps
  <2>3. Mapped(m, g[n], done(n - 1) \cup {pages[n]}, w)
    BY <2>1, <2>2, MappedThen
  <2>4. Mapped(m, g[n], done(n), w) /\ n \in 0 .. N
    BY <1>1, <1>6, <2>3
  <2>. QED
    BY <2>4
<1>9. 0 .. N \subseteq T
  <2>. HIDE DEF T
  <2>. QED
    BY <1>1, <1>7, <1>8, UpTo
<1>10. Mapped(m, g[N], done(N), w)
  BY <1>1, <1>9
<1>. QED
  BY <1>3, <1>4, <1>10 DEF r

(* Two ranges that meet are one (elf_load).                                *)
LEMMA PagesMeet ==
    ASSUME NEW a \in Int, NEW b \in Int, NEW c \in Int, a <= b, b <= c,
           NEW page \in Int
    PROVE  Covers(a, c, page) <=> Covers(a, b, page) \/ Covers(b, c, page)
<1>. DEFINE x == PAGE_SIZE * page
            y == PAGE_SIZE * page + PAGE_SIZE
<1>1. x \in Int /\ y \in Int /\ x < y
  BY SpaceNumbers
<1>. HIDE DEF x, y
<1>2. (a < c /\ x < c /\ a < y)
          <=> (a < b /\ x < b /\ a < y) \/ (b < c /\ x < c /\ b < y)
  BY <1>1
<1>. QED
  BY <1>2 DEF Covers, x, y

(* A sum of words that does not wrap (elf_load)                            *)
LEMMA NoWrap ==
    ASSUME NEW a \in Words, NEW b \in Words, (a + b) % Word >= a
    PROVE  (a + b) % Word = a + b
<1>1. Word \in Nat \ {0} /\ a \in 0 .. Word - 1 /\ b \in 0 .. Word - 1
  BY SpaceNumbers DEF Words
<1>2. CASE a + b < Word
  <2>. DEFINE c == a + b
  <2>1. c \in 0 .. Word - 1
    BY <1>1, <1>2
  <2>. HIDE DEF c
  <2>2. c % Word = c
    BY <1>1, <2>1, ModIn
  <2>. QED
    BY <2>2 DEF c
<1>3. CASE ~ (a + b < Word)
  <2>. DEFINE c == a + b - Word
  <2>1. c \in 0 .. Word - 1 /\ c + Word = a + b /\ c < a
    BY <1>1, <1>3
  <2>. HIDE DEF c
  <2>2. (c + Word) % Word = c
    BY <1>1, <2>1, ModIn
  <2>. QED
    BY <1>1, <2>1, <2>2
<1>. QED
  BY <1>2, <1>3

(* A call that fails has changed nothing (goto out).                       *)
LEMMA FailIs ==
    ASSUME NEW m \in CallType
    PROVE  Fail(m).space = m.space /\ ~ Fail(m).ok
<1>. DEFINE no == FALSE
<1>1. Fail(m) = [m EXCEPT !.ok = no]
  BY DEF Fail
<1>. HIDE DEF no
<1>2. Fail(m).space = m.space /\ Fail(m).ok = no
  BY <1>1 DEF CallType
<1>. QED
  BY <1>2 DEF no

(* A segment is mapped as a whole, and lies below the limit, unless it is  *)
(* refused (elf_load).                                                     *)
LEMMA SegmentMaps ==
    ASSUME NEW m, NEW t, NEW X, NEW b, CallOK(m, t, X, b), NEW p,
           NEW ph \in SegmentType
    PROVE  LET r == LoadSegment(m, p, ph)
           IN  /\ Mapped(m, r, PagesIn(ph.vaddr, ph.memsz), ph.writable)
               /\ r.ok => ph.vaddr + ph.memsz <= USER_HEAP_LIMIT
<1>. DEFINE r == LoadSegment(m, p, ph)
            ps == PagesIn(ph.vaddr, ph.memsz)
<1>1. CASE ~ m.ok
  <2>1. r = m
    BY <1>1 DEF LoadSegment
  <2>. QED
    BY <1>1, <2>1, MappedNone
<1>2. CASE m.ok /\ SegmentRefused(p, ph)
  <2>1. r = Fail(m)
    BY <1>2 DEF LoadSegment
  <2>2. r.space = m.space /\ ~ r.ok
    BY <2>1, FailIs DEF CallOK
  <2>. HIDE DEF r, ps
  <2>. QED
    BY <2>2 DEF Mapped, r, ps
<1>3. CASE m.ok /\ ~ SegmentRefused(p, ph)
  <2>. DEFINE v == ph.vaddr
              f == ph.filesz
              k == ph.memsz
              w == ph.writable
              c == task_copy_to_user(m, v, f, w)
  <2>1. /\ v \in Nat /\ f \in Nat /\ k \in Nat /\ w \in BOOLEAN /\ f <= k
        /\ v \in Words /\ k \in Words
    BY <1>3, SpaceNumbers DEF SegmentType, Words, SegmentRefused
  <2>2. v + k <= USER_HEAP_LIMIT
    <3>1. ~ ((v + k) % Word > USER_HEAP_LIMIT) /\ ~ ((v + k) % Word < v)
      BY <1>3 DEF SegmentRefused
    <3>. DEFINE e == (v + k) % Word
    <3>2. e \in Int
      <4>. HIDE DEF v, k
      <4>. QED
        BY <2>1, SpaceNumbers
    <3>. HIDE DEF v, k
    <3>3. e = v + k
      <4>1. (v + k) % Word >= v
        BY <2>1, <3>1, <3>2
      <4>. QED
        BY <2>1, <4>1, NoWrap
    <3>. HIDE DEF e
    <3>4. ~ (e > USER_HEAP_LIMIT)
      BY <3>1 DEF e
    <3>. QED
      BY <2>1, <3>3, <3>4, Layout
  <2>3. r = task_copy_to_user(c, v + f, k - f, w)
    BY <1>3 DEF LoadSegment
  <2>. HIDE DEF r, v, f, k, w
  <2>4. CallOK(c, t, X, b) /\ Mapped(m, c, PagesIn(v, f), w)
    BY <2>1, CopyOK, CopyMaps
  <2>. HIDE DEF c
  <2>5. v + f \in Nat /\ k - f \in Nat /\ (v + f) + (k - f) = v + k
    BY <2>1
  <2>6. Mapped(c, r, PagesIn(v + f, k - f), w)
    BY <2>1, <2>3, <2>4, <2>5, CopyMaps
  <2>7. PagesIn(v, f) \cup PagesIn(v + f, k - f) = PagesIn(v, k)
    <3>1. \A page \in Int : Covers(v, v + k, page)
                                <=> \/ Covers(v, v + f, page)
                                    \/ Covers(v + f, v + k, page)
      BY <2>1, PagesMeet
    <3>. QED
      BY <2>5, <3>1 DEF PagesIn
  <2>8. Mapped(m, r, PagesIn(v, k), w)
    BY <2>4, <2>6, <2>7, MappedThen
  <2>. QED
    BY <1>3, <2>2, <2>8 DEF r, v, k, w
<1>. QED
  BY <1>1, <1>2, <1>3

-----------------------------------------------------------------------------
(* The image of a program                                                  *)

(* A segment is on a page.                                                 *)
SegOn(ph, page) == Covers(ph.vaddr, ph.vaddr + ph.memsz, page)

(* A page is there when one of the first n segments is on it, and may be   *)
(* written when one of those may.                                          *)
ImageOf(s, p, n, page) ==
    /\ s.pages[page].block # None
           <=> \E i \in 1 .. n : SegOn(p.segments[i], page)
    /\ s.pages[page].writable
           <=> \E i \in 1 .. n : /\ SegOn(p.segments[i], page)
                                 /\ p.segments[i].writable

(* The segments loaded so far: the pages under them and no other           *)
Loaded(m, p, n) ==
    /\ \A i \in 1 .. n :
           p.segments[i].vaddr + p.segments[i].memsz <= USER_HEAP_LIMIT
    /\ \A page \in UserPages : ImageOf(m.space, p, n, page)

(* One more segment (elf_load)                                             *)
LEMMA LoadedNext ==
    ASSUME NEW m, NEW t, NEW X, NEW b, CallOK(m, t, X, b), NEW p,
           p.segments \in Seq(SegmentType), NEW n \in 1 .. Len(p.segments),
           LoadSegment(m, p, p.segments[n]).ok, m.ok => Loaded(m, p, n - 1)
    PROVE  Loaded(LoadSegment(m, p, p.segments[n]), p, n)
<1>. DEFINE ph == p.segments[n]
            r == LoadSegment(m, p, ph)
            ps == PagesIn(ph.vaddr, ph.memsz)
<1>1. ph \in SegmentType /\ n \in Nat
  OBVIOUS
<1>2. /\ Mapped(m, r, ps, ph.writable)
      /\ ph.vaddr + ph.memsz <= USER_HEAP_LIMIT
  BY <1>1, SegmentMaps
<1>3. r.ok
  OBVIOUS
<1>4. Loaded(m, p, n - 1)
  <2>. HIDE DEF r, ps, ph
  <2>. QED
    BY <1>2, <1>3 DEF Mapped
<1>5. 1 .. n = (1 .. n - 1) \cup {n}
  BY <1>1
<1>6. \A page \in UserPages : page \in ps <=> SegOn(ph, page)
  <2>1. UserPages \subseteq Int
    BY SpaceNumbers DEF UserPages
  <2>. QED
    BY <2>1 DEF PagesIn, SegOn
<1>. HIDE DEF r, ps
<1>7. ASSUME NEW page \in UserPages PROVE ImageOf(r.space, p, n, page)
  <2>. DEFINE On(i) == SegOn(p.segments[i], page)
              May(i) == SegOn(p.segments[i], page) /\ p.segments[i].writable
  <2>1. /\ m.space.pages[page].block # None <=> \E i \in 1 .. n - 1 : On(i)
        /\ m.space.pages[page].writable <=> \E i \in 1 .. n - 1 : May(i)
    BY <1>4 DEF Loaded, ImageOf
  <2>2. /\ On(n) <=> page \in ps
        /\ May(n) <=> page \in ps /\ ph.writable
    BY <1>6
  <2>. HIDE DEF On, May, ph
  <2>3. /\ r.space.pages[page].block # None <=> \E i \in 1 .. n : On(i)
        /\ r.space.pages[page].writable <=> \E i \in 1 .. n : May(i)
    <3>1. CASE page \in ps
      BY <1>2, <1>3, <1>5, <2>1, <2>2, <3>1 DEF Mapped
    <3>2. CASE page \notin ps
      <4>1. r.space.pages[page] = m.space.pages[page]
        BY <1>2, <3>2 DEF Mapped
      <4>. QED
        BY <1>5, <2>1, <2>2, <3>2, <4>1
    <3>. QED
      BY <3>1, <3>2
  <2>. QED
    BY <2>3 DEF ImageOf, On, May
<1>8. \A i \in 1 .. n :
          p.segments[i].vaddr + p.segments[i].memsz <= USER_HEAP_LIMIT
  BY <1>2, <1>4, <1>5 DEF Loaded
<1>. QED
  BY <1>7, <1>8 DEF Loaded, r

(* All of them (elf_load)                                                  *)
LEMMA SegmentsLoaded ==
    ASSUME NEW m, NEW t, NEW X, NEW b, CallOK(m, t, X, b), NEW p,
           p.segments \in Seq(SegmentType), m.space.pages = NoSpace.pages,
           LoadSegments(m, p).ok
    PROVE  Loaded(LoadSegments(m, p), p, Len(p.segments))
<1>. DEFINE N == Len(p.segments)
            r == LoadSegments(m, p)
<1>1. N \in Nat /\ r.ok
  OBVIOUS
<1>2. PICK g : LoadRun(g, m, r, p, t, X, b)
  BY SegmentSteps
<1>. HIDE DEF r
<1>3. /\ g[0] = m /\ g[N] = r
      /\ \A n \in 1 .. N : g[n] = LoadSegment(g[n - 1], p, p.segments[n])
      /\ \A n \in 0 .. N : CallOK(g[n], t, X, b)
  BY <1>2 DEF LoadRun
<1>. DEFINE T == {n \in 0 .. N : g[n].ok => Loaded(g[n], p, n)}
<1>4. 0 \in T
  <2>1. ASSUME NEW page \in UserPages PROVE ImageOf(m.space, p, 0, page)
    BY DEF ImageOf, NoSpace, NotPresent
  <2>. HIDE DEF N
  <2>. QED
    BY <1>1, <1>3, <2>1 DEF Loaded
<1>5. ASSUME NEW n \in 1 .. N, n - 1 \in T PROVE n \in T
  <2>1. /\ n \in 0 .. N /\ n - 1 \in 0 .. N
        /\ g[n - 1].ok => Loaded(g[n - 1], p, n - 1)
    BY <1>1, <1>5
  <2>2. CallOK(g[n - 1], t, X, b) /\ g[n] = LoadSegment(g[n - 1], p, p.segments[n])
    BY <1>3, <2>1
  <2>3. g[n].ok => Loaded(g[n], p, n)
    BY <2>1, <2>2, LoadedNext
  <2>. QED
    BY <2>1, <2>3
<1>6. 0 .. N \subseteq T
  <2>. HIDE DEF T, N
  <2>. QED
    BY <1>1, <1>4, <1>5, UpTo
<1>7. N \in T
  <2>. HIDE DEF T, N
  <2>. QED
    BY <1>1, <1>6
<1>. QED
  BY <1>1, <1>3, <1>7 DEF r

(* A file that loads: its segments are mapped, its entry point is in one   *)
(* of them (elf_load).                                                     *)
LEMMA ElfLoads ==
    ASSUME NEW m, NEW t, NEW X, NEW b, CallOK(m, t, X, b), NEW p,
           p.segments \in Seq(SegmentType), m.space.pages = NoSpace.pages,
           elf_load(m, p).ok
    PROVE  Loaded(elf_load(m, p), p, Len(p.segments)) /\ EntryLoaded(p)
<1>. DEFINE r == elf_load(m, p)
            c == LoadSegments(m, p)
<1>1. CallOK(c, t, X, b)
  BY SegmentsOK
<1>2. m.ok
  BY DEF elf_load
<1>3. ~ Fail(m).ok /\ ~ Fail(c).ok
  <2>. HIDE DEF c
  <2>. QED
    BY <1>1, FailOK
<1>4. r = c /\ EntryLoaded(p)
  <2>. HIDE DEF c
  <2>. QED
    BY <1>2, <1>3 DEF elf_load, Enter, c
<1>. QED
  BY <1>4, SegmentsLoaded

(* The heap starts at the first page boundary behind the segments, below   *)
(* the limit (task_load).                                                  *)
LEMMA HeapStart ==
    ASSUME NEW p, p.segments \in Seq(SegmentType),
           \A i \in 1 .. Len(p.segments) :
               p.segments[i].vaddr + p.segments[i].memsz <= USER_HEAP_LIMIT
    PROVE  LET e == PageAligned(ImageEnd(p))
           IN  /\ e \in Nat /\ e <= USER_HEAP_LIMIT
               /\ e = PAGE_SIZE * (e \div PAGE_SIZE)
               /\ \A i \in 1 .. Len(p.segments) :
                      p.segments[i].vaddr + p.segments[i].memsz <= e
<1>. DEFINE N == Len(p.segments)
            end(i) == p.segments[i].vaddr + p.segments[i].memsz
            ends == {USER_CODE_ADDR} \cup {end(i) : i \in 1 .. N}
            x == ImageEnd(p)
            P == PAGE_SIZE
            e == PageAligned(x)
<1>1. N \in Nat /\ DOMAIN p.segments = 1 .. N /\ \A i \in 1 .. N : end(i) \in Nat
  <2>1. /\ N \in Nat /\ DOMAIN p.segments = 1 .. N
        /\ \A i \in 1 .. N : p.segments[i] \in SegmentType
    OBVIOUS
  <2>2. \A ph \in SegmentType : ph.vaddr + ph.memsz \in Nat
    BY SpaceNumbers DEF SegmentType, Words
  <2>. QED
    BY ONLY <2>1, <2>2
<1>2. \A i \in 1 .. N : end(i) <= USER_HEAP_LIMIT
  OBVIOUS
<1>3. x = Max(ends)
  BY <1>1 DEF ImageEnd
<1>. HIDE DEF N, end, x
<1>4. ends \in SUBSET (0 .. USER_HEAP_LIMIT) /\ ends # {}
  BY <1>1, <1>2, Layout, SpaceNumbers, SpaceAssumption
<1>5. /\ x \in 0 .. USER_HEAP_LIMIT
      /\ \A i \in 1 .. N : end(i) <= x /\ end(i) \in Nat
  <2>1. \A i \in 1 .. N : end(i) \in ends
    OBVIOUS
  <2>. HIDE DEF ends
  <2>2. x \in ends /\ \A y \in ends : x >= y
    BY <1>3, <1>4, Layout, MaxIn
  <2>. QED
    BY <1>1, <1>4, <2>1, <2>2
<1>6. P \in Nat \ {0} /\ x \in Int
  BY <1>5, SpaceNumbers, Layout
<1>. DEFINE q == (x + P - 1) \div P
<1>. HIDE DEF P, e
<1>7. q \in Int /\ P * q \in Int /\ P * q <= x + P - 1 /\ x + P - 1 < P * q + P
  <2>. DEFINE z == x + P - 1
  <2>1. z \in Int
    BY <1>6
  <2>. HIDE DEF z
  <2>2. z \div P \in Int /\ P * (z \div P) <= z /\ z < P * (z \div P) + P
        /\ P * (z \div P) \in Int
    BY <1>6, <2>1
  <2>. QED
    BY <2>2 DEF z
<1>8. q <= Guard
  <2>. DEFINE z == x + P - 1
  <2>1. z \in Int /\ z < P * Guard + P
    BY <1>5, <1>6, Layout DEF P
  <2>. HIDE DEF z
  <2>2. z \div P <= Guard
    BY <1>6, <2>1, Layout, QuotientBounds
  <2>. QED
    BY <2>2 DEF z
<1>9. e = P * q
  <2>1. e = q * P
    BY DEF e, PageAligned, P
  <2>. HIDE DEF q
  <2>. QED
    BY <1>6, <1>7, <2>1
<1>. HIDE DEF q
<1>10. e \div P = q
  BY <1>6, <1>7, <1>9
<1>11. x <= e /\ e \in Nat
  BY <1>5, <1>6, <1>7, <1>9
<1>12. e <= USER_HEAP_LIMIT
  <2>1. PAGE_SIZE * q <= PAGE_SIZE * Guard
    BY <1>7, <1>8, Layout, PageOrder
  <2>. QED
    BY <1>9, <2>1, Layout DEF P
<1>13. \A i \in 1 .. N : end(i) <= e
  BY <1>5, <1>6, <1>11
<1>14. e = P * (e \div P)
  BY <1>9, <1>10
<1>. QED
  BY <1>11, <1>12, <1>13, <1>14 DEF e, x, P, N, end

(* The stack takes the pages above the guard page (task_load).             *)
LEMMA StackPages ==
    ASSUME NEW page \in UserPages
    PROVE  page \in PagesIn(USER_STACK_TOP - USER_STACK_SIZE, USER_STACK_SIZE)
               <=> page > Guard
<1>. DEFINE base == USER_STACK_TOP - USER_STACK_SIZE
            G == Guard
            F == FirstPage + USER_SPACE_PAGES
<1>1. /\ page \in Int /\ page < F /\ F \in Int /\ G \in Int
      /\ base = PAGE_SIZE * G + PAGE_SIZE
      /\ USER_STACK_TOP = PAGE_SIZE * F /\ USER_STACK_TOP \in Int
      /\ USER_STACK_SIZE \in Nat \ {0} /\ base \in Int
  BY SpaceNumbers, SpaceAssumption, Layout DEF UserPages
<1>2. base + USER_STACK_SIZE = USER_STACK_TOP /\ base < USER_STACK_TOP
  BY <1>1
<1>3. /\ G < page <=> PAGE_SIZE * G + PAGE_SIZE <= PAGE_SIZE * page
      /\ page < F <=> PAGE_SIZE * page + PAGE_SIZE <= PAGE_SIZE * F
      /\ page <= G <=> PAGE_SIZE * page <= PAGE_SIZE * G
      /\ PAGE_SIZE * page \in Int /\ PAGE_SIZE * G \in Int /\ PAGE_SIZE * F \in Int
      /\ PAGE_SIZE \in Nat \ {0}
  BY <1>1, PageOrder, SpaceNumbers
<1>. HIDE DEF base, G, F
<1>4. Covers(base, USER_STACK_TOP, page) <=> page > G
  BY <1>1, <1>2, <1>3 DEF Covers
<1>. QED
  BY <1>1, <1>2, <1>4 DEF PagesIn, base, G

(* The first page of a heap                                                *)
HeapPage(s) == s.brk_start \div PAGE_SIZE

(* A program's memory: the segments below the heap, the heap up to the     *)
(* break, the guard page, the stack.  Pages of the heap above the break    *)
(* may be there or not: a sbrk that fails halfway and one that shrinks     *)
(* leave them mapped.                                                      *)
ImageReady(s, p) ==
    /\ s.brk_start = PAGE_SIZE * HeapPage(s)
    /\ s.brk_start <= s.brk /\ s.brk <= USER_HEAP_LIMIT
    /\ \A i \in 1 .. Len(p.segments) :
           p.segments[i].vaddr + p.segments[i].memsz <= s.brk_start
    /\ \A page \in UserPages :
           /\ page < HeapPage(s) => ImageOf(s, p, Len(p.segments), page)
           /\ HeapPage(s) <= page /\ PAGE_SIZE * page < s.brk
                  => s.pages[page].block # None /\ s.pages[page].writable
           /\ page = Guard => s.pages[page] = NotPresent
           /\ page > Guard => s.pages[page].block # None /\ s.pages[page].writable
    /\ EntryLoaded(p)

(* The heap is placed and empty. *)
Placed(s) == s.brk_start \in Nat \ {0} /\ s.brk = s.brk_start

(* Only pages and break matter to it.                                      *)
LEMMA ReadySame ==
    ASSUME NEW s, NEW s2, NEW p, ImageReady(s, p), SameImage(s, s2)
    PROVE  ImageReady(s2, p)
BY DEF ImageReady, SameImage, HeapPage, ImageOf

(* The heap is placed (task_load).                                         *)
LEMMA PlaceIs ==
    ASSUME NEW m \in CallType, NEW brk
    PROVE  LET r == PlaceHeap(m, brk)
           IN  /\ r.ok = m.ok /\ r.space.pages = m.space.pages
               /\ m.ok => r.space.brk_start = brk /\ r.space.brk = brk
<1>. DEFINE r == PlaceHeap(m, brk)
            s1 == [m.space EXCEPT !.brk_start = brk]
            s2 == [s1 EXCEPT !.brk = brk]
            m1 == [m EXCEPT !.space.brk_start = brk]
<1>1. CASE ~ m.ok
  BY <1>1 DEF PlaceHeap
<1>2. CASE m.ok
  <2>1. r = [m1 EXCEPT !.space.brk = brk]
    BY <1>2 DEF PlaceHeap
  <2>2. m1 = [m EXCEPT !.space = s1]
    OBVIOUS
  <2>3. /\ s2.pages = m.space.pages /\ s2.brk_start = brk /\ s2.brk = brk
    <3>1. m.space \in SpaceType
      BY DEF CallType
    <3>. QED
      BY <3>1 DEF SpaceType
  <2>. HIDE DEF m1
  <2>4. m1 = [ok |-> m.ok, table |-> m.table, space |-> s1, at |-> m.at,
              buf |-> m.buf]
    <3>. HIDE DEF s1
    <3>. QED
      BY <2>2 DEF CallType
  <2>. HIDE DEF r, s1
  <2>5. r.space = s2 /\ r.ok = m.ok
    BY <2>1, <2>4
  <2>. HIDE DEF s2
  <2>. QED
    BY <2>3, <2>5 DEF r
<1>. QED
  BY <1>1, <1>2

(* Segments, an empty heap behind them and a stack make an image           *)
(* (task_load).                                                            *)
LEMMA StackReady ==
    ASSUME NEW m, NEW t, NEW X, NEW b, CallOK(m, t, X, b), NEW p,
           p.segments \in Seq(SegmentType), Loaded(m, p, Len(p.segments)),
           EntryLoaded(p), MapStack(m).ok,
           m.space.brk_start = PageAligned(ImageEnd(p)),
           m.space.brk = PageAligned(ImageEnd(p))
    PROVE  ImageReady(MapStack(m).space, p) /\ Placed(MapStack(m).space)
<1>. DEFINE N == Len(p.segments)
            e == PageAligned(ImageEnd(p))
            base == USER_STACK_TOP - USER_STACK_SIZE
            r == task_copy_to_user(m, base, USER_STACK_SIZE, TRUE)
            q == e \div PAGE_SIZE
            s == r.space
<1>1. MapStack(m) = r /\ r.ok
  <2>1. MapStack(m) = IF m.ok THEN r ELSE m
    BY ONLY DEF MapStack
  <2>. HIDE DEF r
  <2>. QED
    BY <2>1
<1>2. Mapped(m, r, PagesIn(base, USER_STACK_SIZE), TRUE) /\ CallOK(r, t, X, b)
  <2>1. base = USER_HEAP_LIMIT + PAGE_SIZE
    BY Layout
  <2>. HIDE DEF base
  <2>2. base \in Nat /\ USER_STACK_SIZE \in Nat /\ TRUE \in BOOLEAN
    BY <2>1, Layout, SpaceNumbers
  <2>. QED
    BY <2>2, CopyMaps, CopyOK
<1>3. \A page \in UserPages :
          page \in PagesIn(base, USER_STACK_SIZE) <=> page > Guard
  BY StackPages
<1>4. /\ e \in Nat /\ e <= USER_HEAP_LIMIT /\ e = PAGE_SIZE * q
      /\ \A i \in 1 .. N : p.segments[i].vaddr + p.segments[i].memsz <= e
  BY HeapStart DEF Loaded
<1>5. m.space.brk_start = e /\ m.space.brk = e
  OBVIOUS
<1>6. q \in Int /\ q <= Guard
  <2>1. q \in Int
    BY <1>4, SpaceNumbers
  <2>. HIDE DEF e, q
  <2>2. PAGE_SIZE * q <= PAGE_SIZE * Guard
    BY <1>4, Layout
  <2>. QED
    BY <2>1, <2>2, Layout, PageOrder
<1>7. s \in SpaceType
  BY <1>2 DEF CallOK, CallType
<1>. HIDE DEF r, e, q, base, N
<1>8. /\ s.brk_start = e /\ s.brk = e
      /\ \A page \in UserPages : page <= Guard => s.pages[page] = m.space.pages[page]
      /\ \A page \in UserPages :
             page > Guard => s.pages[page].block # None /\ s.pages[page].writable
  <2>1. \A page \in UserPages : page <= Guard <=> ~ (page > Guard)
    <3>1. UserPages \subseteq Int
      BY SpaceNumbers DEF UserPages
    <3>. QED
      BY ONLY <3>1, Layout
  <2>. QED
    BY <1>1, <1>2, <1>3, <1>5, <2>1 DEF Mapped
<1>9. \A page \in UserPages : page <= Guard => ImageOf(s, p, N, page)
  BY <1>8 DEF Loaded, ImageOf, N
<1>10. ASSUME Guard \in UserPages PROVE s.pages[Guard] = NotPresent
  <2>1. ASSUME NEW i \in 1 .. N PROVE ~ SegOn(p.segments[i], Guard)
    <3>. DEFINE to == p.segments[i].vaddr + p.segments[i].memsz
    <3>1. to \in Int /\ to <= PAGE_SIZE * Guard /\ PAGE_SIZE * Guard \in Int
      <4>1. p.segments[i] \in SegmentType
        BY DEF N
      <4>2. to \in Int
        <5>1. p.segments[i].vaddr \in Int /\ p.segments[i].memsz \in Int
          BY <4>1 DEF SegmentType, Words
        <5>. QED
          BY ONLY <5>1
      <4>3. to <= e /\ e <= PAGE_SIZE * Guard
        BY <1>4, Layout
      <4>. HIDE DEF to
      <4>. QED
        BY <1>4, <4>2, <4>3, Layout, SpaceNumbers
    <3>. HIDE DEF to
    <3>. QED
      BY <3>1 DEF SegOn, Covers, to
  <2>2. s.pages[Guard].block = None /\ ~ s.pages[Guard].writable
    BY <1>9, <1>10, <2>1, Layout DEF ImageOf
  <2>3. s.pages[Guard] \in [block : Ptrs, writable : BOOLEAN]
    BY <1>7, <1>10 DEF SpaceType
  <2>. QED
    BY <2>2, <2>3 DEF NotPresent
<1>11. HeapPage(s) = q
  BY <1>8 DEF HeapPage, q
<1>12. ASSUME NEW page \in UserPages
       PROVE  /\ page < q => page <= Guard
              /\ ~ (q <= page /\ PAGE_SIZE * page < e)
  <2>1. page \in Int
    BY SpaceNumbers DEF UserPages
  <2>2. q <= page => PAGE_SIZE * q <= PAGE_SIZE * page /\ PAGE_SIZE * page \in Int
    BY <1>6, <2>1, PageOrder
  <2>. QED
    BY <1>4, <1>6, <2>1, <2>2, Layout
<1>13. ImageReady(s, p)
  <2>1. e <= e
    BY <1>4
  <2>. QED
    BY <1>4, <1>8, <1>9, <1>10, <1>11, <1>12, <2>1 DEF ImageReady, N
<1>14. e # 0
  <2>1. PICK i \in 1 .. N :
            p.entry \in p.segments[i].vaddr
                           .. p.segments[i].vaddr + p.segments[i].memsz - 1
    <3>1. DOMAIN p.segments = 1 .. Len(p.segments)
      OBVIOUS
    <3>. QED
      BY <3>1 DEF EntryLoaded, N
  <2>. DEFINE v == p.segments[i].vaddr
              len == p.segments[i].memsz
  <2>2. v \in Nat /\ len \in Nat
    <3>1. p.segments[i] \in SegmentType
      BY DEF N
    <3>2. \A ph \in SegmentType : ph.vaddr \in Nat /\ ph.memsz \in Nat
      BY ONLY SpaceNumbers DEF SegmentType, Words
    <3>. QED
      BY ONLY <3>1, <3>2
  <2>3. p.entry \in v .. v + len - 1 /\ v + len <= e
    BY <1>4, <2>1
  <2>. HIDE DEF v, len
  <2>. QED
    BY <1>4, <2>2, <2>3
<1>15. Placed(s)
  BY <1>4, <1>8, <1>14 DEF Placed
<1>. QED
  BY <1>1, <1>13, <1>15

(* A program that is loaded is ready to run (task_load, task_spawn).       *)
LEMMA LoadReady ==
    ASSUME NEW t, NEW X, NEW tb, Accounts(tb, X), Apart(X, t), NEW p,
           p.size \in Nat, p.segments \in Seq(SegmentType),
           task_load(FreshCall(tb), p).ok
    PROVE  /\ ImageReady(task_load(FreshCall(tb), p).space, p)
           /\ Placed(task_load(FreshCall(tb), p).space)
<1>. DEFINE r == task_load(FreshCall(tb), p)
            e == Begun(tb, p.size)
            f == ReadFile(e, p)
            g == elf_load(f, p)
            brk == PageAligned(ImageEnd(p))
            h == PlaceHeap(g, brk)
            i == MapStack(h)
<1>1. p.size # 0
  <2>1. FreshCall(tb) \in CallType
    <3>1. None \in Ptrs /\ tb \in TableType
      BY AccountsType DEF Ptrs
    <3>. QED
      BY <3>1, NoSpaceOK DEF CallType, FreshCall
  <2>. QED
    BY <2>1, FailIs DEF task_load
<1>2. r = FreeBuf(i)
  BY <1>1 DEF task_load, Begun
<1>3. PICK Y, b : CallOK(e, t, Y, b) /\ e.space.pages = NoSpace.pages
  BY BegunOK
<1>. HIDE DEF e
<1>4. CallOK(f, t, Y, b) /\ (f.ok => f.space.pages = NoSpace.pages)
  <2>1. CallOK(f, t, Y, b)
    BY <1>3, ReadOK
  <2>2. f.ok => f = e
    BY <1>3, FailOK DEF ReadFile
  <2>. QED
    BY <1>3, <2>1, <2>2
<1>. HIDE DEF f
<1>5. CallOK(g, t, Y, b)
  BY <1>4, ElfOK
<1>6. g.ok => f.ok /\ Loaded(g, p, Len(p.segments)) /\ EntryLoaded(p)
  <2>1. g.ok => f.ok
    BY DEF elf_load
  <2>. QED
    BY <1>4, <2>1, ElfLoads
<1>. HIDE DEF g
<1>7. CallOK(h, t, Y, b)
  <2>1. brk \in Nat
    BY ImageEndNat
  <2>. HIDE DEF brk
  <2>. QED
    BY <1>5, <2>1, PlaceOK
<1>8. /\ h.ok = g.ok /\ h.space.pages = g.space.pages
      /\ g.ok => h.space.brk_start = brk /\ h.space.brk = brk
  BY <1>5, PlaceIs DEF CallOK
<1>. HIDE DEF h
<1>9. CallOK(i, t, Y, b) /\ (i.ok => h.ok)
  BY <1>7, MapStackOK DEF MapStack
<1>10. i.ok => ImageReady(i.space, p) /\ Placed(i.space)
  <2>1. ASSUME i.ok
        PROVE  /\ Loaded(h, p, Len(p.segments)) /\ EntryLoaded(p)
               /\ h.space.brk_start = brk /\ h.space.brk = brk
    <3>1. g.ok
      BY <1>8, <1>9, <2>1
    <3>. HIDE DEF brk, i
    <3>. QED
      BY <1>6, <1>8, <3>1 DEF Loaded, ImageOf
  <2>. QED
    BY <1>7, <2>1, StackReady
<1>. HIDE DEF i
<1>11. r.space = i.space /\ r.ok = i.ok
  <2>. DEFINE i1 == [i EXCEPT !.table = kfree(@, i.buf)]
  <2>1. r = [i1 EXCEPT !.buf = None]
    BY <1>2 DEF FreeBuf
  <2>2. /\ i1.space = i.space /\ i1.ok = i.ok
        /\ DOMAIN i1 = {"ok", "table", "space", "at", "buf"}
    BY <1>9 DEF CallOK, CallType
  <2>. HIDE DEF i1, r
  <2>. QED
    BY <2>1, <2>2
<1>. QED
  BY <1>10, <1>11

(* Its kernel stack is not part of the image (task_spawn).                 *)
LEMMA KernelStackReady ==
    ASSUME NEW m \in CallType, NEW p,
           m.ok => ImageReady(m.space, p) /\ Placed(m.space),
           task_alloc_kernel_stack(m).ok
    PROVE  /\ ImageReady(task_alloc_kernel_stack(m).space, p)
           /\ Placed(task_alloc_kernel_stack(m).space)
<1>. DEFINE a == Alloc(m, TASK_KERNEL_STACK_SIZE)
            r == task_alloc_kernel_stack(m)
            s2 == [a.space EXCEPT !.kernel_stack = a.at]
<1>1. m.ok /\ r = [a EXCEPT !.space = s2]
  BY DEF task_alloc_kernel_stack, NewStack
<1>2. a.space = m.space /\ DOMAIN a = {"ok", "table", "space", "at", "buf"}
  <2>. DEFINE c == kmalloc(m.table, TASK_KERNEL_STACK_SIZE)
              ok == m.ok /\ c.at # None
  <2>1. a = [ok |-> ok, table |-> c.table, space |-> m.space, at |-> c.at,
             buf |-> m.buf]
    BY AllocIs
  <2>. HIDE DEF a, ok, c
  <2>. QED
    BY <2>1
<1>3. SameImage(m.space, s2)
  <2>1. m.space \in SpaceType
    BY DEF CallType
  <2>. HIDE DEF a
  <2>. QED
    BY <1>2, <2>1 DEF SpaceType, SameImage
<1>. HIDE DEF a, s2, r
<1>4. r.space = s2
  BY <1>1, <1>2
<1>. QED
  BY <1>1, <1>3, <1>4, ReadySame DEF r, Placed, SameImage

-----------------------------------------------------------------------------
(* The image while the program runs                                        *)

(* A break within the pages that are mapped (task_sbrk)                    *)
LEMMA BreakReady ==
    ASSUME NEW m \in CallType, NEW p, NEW brk \in Int,
           ImageReady(m.space, p), m.space.brk_start <= brk,
           brk <= USER_HEAP_LIMIT,
           \A page \in UserPages :
               HeapPage(m.space) <= page /\ PAGE_SIZE * page < brk
                   => m.space.pages[page].block # None
                      /\ m.space.pages[page].writable
    PROVE  ImageReady(SetBrk(m, brk).space, p)
<1>. DEFINE s2 == [m.space EXCEPT !.brk = brk]
            r == SetBrk(m, brk)
<1>1. CASE ~ m.ok
  BY <1>1 DEF SetBrk
<1>2. CASE m.ok
  <2>1. r = [m EXCEPT !.space = s2]
    BY <1>2 DEF SetBrk
  <2>2. s2.pages = m.space.pages /\ s2.brk_start = m.space.brk_start /\ s2.brk = brk
    BY DEF CallType, SpaceType
  <2>. HIDE DEF s2
  <2>3. r.space = s2
    BY <2>1 DEF CallType
  <2>4. HeapPage(s2) = HeapPage(m.space)
    BY <2>2 DEF HeapPage
  <2>5. ImageReady(s2, p)
    BY <2>2, <2>4 DEF ImageReady, ImageOf
  <2>. HIDE DEF r
  <2>. QED
    BY <2>3, <2>5 DEF r
<1>. QED
  BY <1>1, <1>2

(* Pages from the break on are mapped, or some of them when the kernel     *)
(* runs out of memory: what was mapped stays (task_sbrk).                  *)
LEMMA GrowReady ==
    ASSUME NEW m, NEW r, NEW p, NEW brk \in Int, ImageReady(m.space, p),
           m.space \in SpaceType, m.space.brk < brk, brk <= USER_HEAP_LIMIT,
           Mapped(m, r, PagesIn(m.space.brk, brk - m.space.brk), TRUE)
    PROVE  /\ ImageReady(r.space, p) /\ r.space.brk_start = m.space.brk_start
           /\ r.ok => \A page \in UserPages :
                          HeapPage(r.space) <= page /\ PAGE_SIZE * page < brk
                              => r.space.pages[page].block # None
                                 /\ r.space.pages[page].writable
<1>. DEFINE s == m.space
            s2 == r.space
            q == HeapPage(s)
            ps == PagesIn(s.brk, brk - s.brk)
            N == Len(p.segments)
<1>1. /\ s.brk \in Int /\ s.brk_start \in Int /\ q \in Int
      /\ s.brk_start = PAGE_SIZE * q /\ s.brk_start <= s.brk
      /\ s2.brk_start = s.brk_start /\ s2.brk = s.brk /\ HeapPage(s2) = q
  <2>1. s.brk \in Int /\ s.brk_start \in Int
    BY DEF SpaceType
  <2>2. q \in Int
    BY <2>1, SpaceNumbers DEF HeapPage
  <2>. QED
    BY <2>1, <2>2 DEF ImageReady, Mapped, HeapPage
<1>2. \A page \in UserPages :
          page \in ps <=> /\ PAGE_SIZE * page < brk
                          /\ s.brk < PAGE_SIZE * page + PAGE_SIZE
  <2>1. UserPages \subseteq Int
    BY SpaceNumbers DEF UserPages
  <2>2. s.brk + (brk - s.brk) = brk /\ s.brk < brk
    BY <1>1
  <2>. QED
    BY <2>1, <2>2 DEF PagesIn, Covers
<1>3. Mapped(m, r, ps, TRUE)
  OBVIOUS
<1>. HIDE DEF ps, q
<1>4. ASSUME NEW page \in UserPages
      PROVE  /\ page < q => page \notin ps
             /\ page \in ps => page < Guard
  <2>1. /\ page \in Int /\ Guard \in Int /\ PAGE_SIZE * page \in Int
        /\ PAGE_SIZE * Guard \in Int /\ PAGE_SIZE * q \in Int
        /\ PAGE_SIZE \in Nat \ {0}
    BY <1>1, SpaceNumbers, Layout, PageOrder DEF UserPages
  <2>2. page < q => PAGE_SIZE * page + PAGE_SIZE <= PAGE_SIZE * q
    BY <1>1, <2>1, PageOrder
  <2>3. Guard <= page => PAGE_SIZE * Guard <= PAGE_SIZE * page
    BY <2>1, PageOrder
  <2>4. brk <= PAGE_SIZE * Guard
    BY Layout
  <2>5. page < q => page \notin ps
    BY <1>1, <1>2, <2>1, <2>2
  <2>6. page \in ps => page < Guard
    BY <1>2, <2>1, <2>3, <2>4
  <2>. QED
    BY <2>5, <2>6
<1>5. ASSUME NEW page \in UserPages
      PROVE  /\ page < q => ImageOf(s2, p, N, page)
             /\ q <= page /\ PAGE_SIZE * page < s.brk
                    => s2.pages[page].block # None /\ s2.pages[page].writable
             /\ page = Guard => s2.pages[page] = NotPresent
             /\ page > Guard
                    => s2.pages[page].block # None /\ s2.pages[page].writable
  <2>1. /\ page < q => ImageOf(s, p, N, page)
        /\ q <= page /\ PAGE_SIZE * page < s.brk
               => s.pages[page].block # None /\ s.pages[page].writable
        /\ page = Guard => s.pages[page] = NotPresent
        /\ page > Guard => s.pages[page].block # None /\ s.pages[page].writable
    BY DEF ImageReady, q
  <2>2. /\ s.pages[page].block # None => s2.pages[page].block # None
        /\ s.pages[page].writable => s2.pages[page].writable
        /\ page \notin ps => s2.pages[page] = s.pages[page]
    BY <1>3 DEF Mapped
  <2>3. page < q => ImageOf(s2, p, N, page)
    BY <1>4, <2>1, <2>2 DEF ImageOf
  <2>4. page = Guard => s2.pages[page] = NotPresent
    <3>1. ~ (Guard < Guard)
      BY Layout
    <3>. QED
      BY <1>4, <2>1, <2>2, <3>1
  <2>. HIDE DEF s, s2
  <2>. QED
    BY <2>1, <2>2, <2>3, <2>4
<1>6. ASSUME r.ok, NEW page \in UserPages, q <= page, PAGE_SIZE * page < brk
      PROVE  s2.pages[page].block # None /\ s2.pages[page].writable
  <2>1. CASE page \in ps
    BY <1>3, <1>6, <2>1 DEF Mapped
  <2>2. CASE page \notin ps
    <3>1. PAGE_SIZE * page < s.brk
      <4>1. page \in Int
        BY SpaceNumbers DEF UserPages
      <4>2. PAGE_SIZE * page \in Int /\ PAGE_SIZE \in Nat \ {0}
        BY <4>1, SpaceNumbers, PageOrder
      <4>3. PAGE_SIZE * page + PAGE_SIZE <= s.brk
        BY <1>1, <1>2, <1>6, <2>2, <4>2
      <4>. QED
        BY <1>1, <4>2, <4>3
    <3>. QED
      BY <1>5, <1>6, <3>1
  <2>. QED
    BY <2>1, <2>2
<1>7. ImageReady(s2, p)
  <2>1. /\ s.brk <= USER_HEAP_LIMIT /\ EntryLoaded(p)
        /\ \A i \in 1 .. N : p.segments[i].vaddr + p.segments[i].memsz <= s.brk_start
    BY DEF ImageReady
  <2>. HIDE DEF s, s2
  <2>. QED
    BY <1>1, <1>5, <2>1 DEF ImageReady, N
<1>. HIDE DEF s2
<1>. QED
  BY <1>1, <1>6, <1>7 DEF s2

(* A program's image survives its sbrk, whether there is memory or not     *)
(* (task_sbrk).                                                            *)
LEMMA SbrkReady ==
    ASSUME NEW m, NEW t, NEW X, NEW b, CallOK(m, t, X, b), NEW p,
           ImageReady(m.space, p), NEW increment \in Int
    PROVE  ImageReady(task_sbrk(m, increment).space, p)
<1>. DEFINE s == m.space
            brk == (s.brk + increment + Word) % Word
            r == task_sbrk(m, increment)
            c == task_copy_to_user(m, s.brk, brk - s.brk, TRUE)
<1>1. m \in CallType /\ s \in SpaceType /\ s.brk \in Nat /\ s.brk_start \in Nat
  BY DEF CallOK, CallType, SpaceType
<1>2. brk \in Nat
  <2>. DEFINE x == s.brk + increment + Word
  <2>1. x \in Int
    BY <1>1, SpaceNumbers
  <2>. HIDE DEF x
  <2>. QED
    BY <2>1, SpaceNumbers DEF x
<1>3. r = MoveBrk(m, brk, increment > 0)
  BY DEF task_sbrk
<1>. HIDE DEF r, brk
<1>4. CASE r = Fail(m)
  BY <1>1, <1>4, FailIs DEF r
<1>5. CASE r # Fail(m)
  <2>1. /\ ~ (brk < s.brk_start) /\ ~ (brk > USER_HEAP_LIMIT)
        /\ r = SetBrk(IF brk <= s.brk THEN m ELSE c, brk)
    BY <1>3, <1>5 DEF MoveBrk
  <2>2. s.brk_start <= brk /\ brk <= USER_HEAP_LIMIT
    BY <1>1, <1>2, <2>1, Layout
  <2>3. CASE brk <= s.brk
    <3>1. r = SetBrk(m, brk)
      BY <2>1, <2>3
    <3>2. ASSUME NEW page \in UserPages,
                 HeapPage(s) <= page, PAGE_SIZE * page < brk
          PROVE  s.pages[page].block # None /\ s.pages[page].writable
      <4>1. PAGE_SIZE * page < s.brk
        <5>1. page \in Int
          BY SpaceNumbers DEF UserPages
        <5>2. PAGE_SIZE * page \in Int
          BY <5>1, PageOrder
        <5>. QED
          BY <1>1, <1>2, <2>3, <3>2, <5>2
      <4>. QED
        BY <3>2, <4>1 DEF ImageReady
    <3>. QED
      BY <1>1, <1>2, <2>2, <3>1, <3>2, BreakReady DEF r
  <2>4. CASE ~ (brk <= s.brk)
    <3>1. brk - s.brk \in Nat /\ s.brk < brk /\ TRUE \in BOOLEAN
      BY <1>1, <1>2, <2>4
    <3>2. r = SetBrk(c, brk)
      BY <2>1, <2>4
    <3>3. /\ CallOK(c, t, X, b)
          /\ Mapped(m, c, PagesIn(s.brk, brk - s.brk), TRUE)
      <4>. HIDE DEF s
      <4>. QED
        BY <1>1, <3>1, CopyOK, CopyMaps
    <3>. HIDE DEF c
    <3>4. /\ ImageReady(c.space, p) /\ c.space.brk_start = s.brk_start
          /\ c.ok => \A page \in UserPages :
                         HeapPage(c.space) <= page /\ PAGE_SIZE * page < brk
                             => c.space.pages[page].block # None
                                /\ c.space.pages[page].writable
      <4>1. brk \in Int /\ m.space.brk < brk /\ brk <= USER_HEAP_LIMIT
        BY <1>2, <2>2, <3>1
      <4>2. ImageReady(m.space, p) /\ m.space \in SpaceType
        BY <1>1
      <4>3. Mapped(m, c, PagesIn(m.space.brk, brk - m.space.brk), TRUE)
        BY <3>3
      <4>. QED
        BY ONLY <4>1, <4>2, <4>3, GrowReady
    <3>5. c \in CallType
      BY <3>3 DEF CallOK
    <3>6. CASE c.ok
      BY <1>2, <2>2, <3>2, <3>4, <3>5, <3>6, BreakReady DEF r
    <3>7. CASE ~ c.ok
      BY <3>2, <3>4, <3>7 DEF SetBrk, r
    <3>. QED
      BY <3>6, <3>7
  <2>. QED
    BY <2>3, <2>4
<1>. QED
  BY <1>4, <1>5

(* The inductive invariant: what runs is a program, and its image is as it *)
(* was loaded, with a heap that may have grown.                            *)
ImageInv ==
    /\ prog \in [Tasks -> Programs \cup {NoProgram}]
    /\ \A t \in Tasks : state[t] = "user" =>
           prog[t] \in Programs /\ ImageReady(space[t], prog[t])

(* A step of one task changes no other's image (syscall_handler).          *)
LEMMA ImageStep ==
    ASSUME MemoryOK, ImageInv, NEW t \in Tasks, NEW s, NEW q,
           NEW p \in Programs \cup {NoProgram},
           space' = [space EXCEPT ![t] = s], state' = [state EXCEPT ![t] = q],
           prog' = [prog EXCEPT ![t] = p],
           q = "user" => p \in Programs /\ ImageReady(s, p)
    PROVE  ImageInv'
<1>1. /\ space'[t] = s /\ state'[t] = q /\ prog'[t] = p
      /\ \A u \in Tasks \ {t} : /\ space'[u] = space[u] /\ state'[u] = state[u]
                                /\ prog'[u] = prog[u]
      /\ prog' \in [Tasks -> Programs \cup {NoProgram}]
  BY DEF MemoryOK, ImageInv
<1>. QED
  BY <1>1 DEF ImageInv

(* A task that is spawned has its program's image and an empty heap, or    *)
(* there is no task (task_spawn).                                          *)
LEMMA SpawnReady ==
    ASSUME MemoryOK, NEW t \in Tasks, NEW p \in Programs,
           task_spawn(t, p)
    PROVE  \E m : /\ Spawned(t, p, m)
                  /\ m.ok => ImageReady(m.space, p) /\ Placed(m.space)
<1>. DEFINE X == Rest(t)
            m0 == task_load(FreshCall(table), p)
            m == task_alloc_kernel_stack(m0)
<1>1. /\ space \in [Tasks -> SpaceType] /\ space[t] = NoSpace
      /\ state \in [Tasks -> {"unused", "user", "zombie"}] /\ state[t] = "unused"
  BY DEF MemoryOK, task_spawn
<1>2. Accounts(table, X) /\ Apart(X, t)
  <2>1. Held = X
    BY <1>1, HeldSplits, NoSpaceOK
  <2>. QED
    BY <2>1, RestApart DEF MemoryOK
<1>3. Spawned(t, p, m)
  <2>1. Call(t) = FreshCall(table)
    BY <1>1 DEF Call, FreshCall
  <2>. QED
    BY <2>1 DEF task_spawn
<1>4. p.size \in Nat /\ p.segments \in Seq(SegmentType)
  BY ProgramFields
<1>. HIDE DEF X
<1>5. m0 \in CallType /\ (m0.ok => ImageReady(m0.space, p) /\ Placed(m0.space))
  <2>1. CallOK(m0, t, X, Fresh(None))
    BY <1>2, <1>4, LoadOK
  <2>2. m0.ok => ImageReady(m0.space, p) /\ Placed(m0.space)
    BY <1>2, <1>4, LoadReady
  <2>. QED
    BY <2>1, <2>2 DEF CallOK
<1>. HIDE DEF m0
<1>6. m.ok => ImageReady(m.space, p) /\ Placed(m.space)
  BY <1>5, KernelStackReady
<1>. HIDE DEF m
<1>. QED
  BY <1>3, <1>6

(* A new task has its program's image (task_spawn).                        *)
LEMMA SpawnImage ==
    ASSUME MemoryOK, ImageInv, NEW t \in Tasks, NEW p \in Programs,
           task_spawn(t, p)
    PROVE  ImageInv'
<1>1. PICK m : Spawned(t, p, m) /\ (m.ok => ImageReady(m.space, p))
  BY SpawnReady
<1>2. CASE m.ok
  <2>1. /\ space' = [space EXCEPT ![t] = m.space]
        /\ state' = [state EXCEPT ![t] = "user"]
        /\ prog' = [prog EXCEPT ![t] = p]
    BY <1>1, <1>2 DEF Spawned
  <2>. QED
    BY <1>1, <1>2, <2>1, ImageStep
<1>3. CASE ~ m.ok
  BY <1>1, <1>3 DEF Spawned, ImageInv
<1>. QED
  BY <1>2, <1>3

(* malloc, calloc and realloc keep it (moos.c).                            *)
LEMMA KeepImage ==
    ASSUME MemoryOK, ImageInv, NEW t \in Tasks, state[t] = "user", NEW out,
           NEW old, NEW size, AtMostSbrk(Call(t), out.m), Keep(t, out, old, size)
    PROVE  ImageInv'
<1>. DEFINE p == prog[t]
            s == out.m.space
<1>1. p \in Programs /\ ImageReady(space[t], p) /\ Call(t).space = space[t]
  BY DEF ImageInv, Call
<1>2. CallOK(Call(t), t, Rest(t), Running(t))
  BY CallReady
<1>3. ImageReady(s, p)
  <2>. HIDE DEF p
  <2>. QED
    BY <1>1, <1>2, SbrkReady DEF AtMostSbrk
<1>4. /\ space' = [space EXCEPT ![t] = s]
      /\ state' = [state EXCEPT ![t] = "user"]
      /\ prog' = [prog EXCEPT ![t] = p]
  BY DEF Keep, MemoryOK, ImageInv
<1>. HIDE DEF p, s
<1>. QED
  BY <1>1, <1>3, <1>4, ImageStep

(* So does every other step (task_exit, task_wait, free, kmalloc, kfree).  *)
LEMMA ImageKept == MemoryOK /\ ImageInv /\ [Next]_vars => ImageInv'
<1>. SUFFICES ASSUME MemoryOK, ImageInv, [Next]_vars PROVE ImageInv'
  OBVIOUS
<1>1. ASSUME NEW t \in Tasks, NEW p \in Programs, task_spawn(t, p) PROVE ImageInv'
  BY <1>1, SpawnImage
<1>2. ASSUME NEW t \in Tasks, task_exit(t) PROVE ImageInv'
  <2>. DEFINE s == space[t]
              p == prog[t]
  <2>1. /\ space' = [space EXCEPT ![t] = s] /\ prog' = [prog EXCEPT ![t] = p]
        /\ state' = [state EXCEPT ![t] = "zombie"]
        /\ p \in Programs \cup {NoProgram}
    BY <1>2 DEF task_exit, MemoryOK, ImageInv
  <2>. HIDE DEF s, p
  <2>. QED
    BY <1>2, <2>1, ImageStep
<1>3. ASSUME NEW t \in Tasks, Reap(t) PROVE ImageInv'
  BY <1>3, ImageStep DEF Reap
<1>4. ASSUME UNCHANGED <<state, prog, space>> PROVE ImageInv'
  BY <1>4 DEF ImageInv
<1>5. ASSUME NEW size \in KernelSizes, Allocate(size) PROVE ImageInv'
  BY <1>4, <1>5 DEF Allocate, Allocated
<1>6. ASSUME NEW run \in other, Release(run) PROVE ImageInv'
  BY <1>4, <1>6 DEF Release
<1>7. ASSUME NEW t \in Tasks, NEW size \in Requests, Malloc(t, size) PROVE ImageInv'
  <2>. DEFINE out == malloc(Call(t), heap[t], size)
  <2>1. state[t] = "user" /\ Keep(t, out, {}, size)
    BY <1>7 DEF Malloc
  <2>2. AtMostSbrk(Call(t), out.m)
    BY MallocCalls, RequestAssumption
  <2>. HIDE DEF out
  <2>. QED
    BY <2>1, <2>2, KeepImage
<1>8. ASSUME NEW t \in Tasks, NEW c \in Counts, Calloc(t, c) PROVE ImageInv'
  <2>. DEFINE out == calloc(Call(t), heap[t], c[1], c[2])
  <2>1. state[t] = "user" /\ Keep(t, out, {}, c[1] * c[2])
    BY <1>8 DEF Calloc
  <2>2. c[1] \in Nat /\ c[2] \in Nat
    BY RequestAssumption
  <2>3. AtMostSbrk(Call(t), out.m)
    BY <2>2, CallocCalls
  <2>. HIDE DEF out
  <2>. QED
    BY <2>1, <2>3, KeepImage
<1>9. ASSUME NEW t \in Tasks, NEW p \in live[t], NEW size \in Requests,
             Realloc(t, p, size)
      PROVE  ImageInv'
  <2>. DEFINE out == realloc(Call(t), heap[t], p.ptr, size)
  <2>1. state[t] = "user" /\ Keep(t, out, {p}, size)
    BY <1>9 DEF Realloc
  <2>2. AtMostSbrk(Call(t), out.m)
    BY ReallocCalls, RequestAssumption
  <2>. HIDE DEF out
  <2>. QED
    BY <2>1, <2>2, KeepImage
<1>10. ASSUME NEW t \in Tasks, NEW p \in live[t], Free(t, p) PROVE ImageInv'
  BY <1>4, <1>10 DEF Free
<1>11. CASE UNCHANGED vars
  BY <1>4, <1>11 DEF vars
<1>. QED
  BY <1>1, <1>2, <1>3, <1>5, <1>6, <1>7, <1>8, <1>9, <1>10, <1>11 DEF Next

(* Parts of a task by the bytes they take (task, elf32_program_header)     *)
LEMMA PartsAre ==
    ASSUME NEW t \in Tasks, space[t] \in SpaceType,
           prog[t].segments \in Seq(SegmentType), NEW page \in UserPages
    PROVE  LET s == space[t]
               p == prog[t]
               heap_on == Covers(s.brk_start, s.brk, page)
               stack_on == Covers(USER_STACK_TOP - USER_STACK_SIZE,
                                  USER_STACK_TOP, page)
               On(i) == SegOn(p.segments[i], page)
           IN  /\ PartsOn(t, page) # {}
                      <=> \/ \E i \in 1 .. Len(p.segments) : On(i)
                          \/ heap_on \/ stack_on
               /\ (\E part \in PartsOn(t, page) : part.writable)
                      <=> \/ \E i \in 1 .. Len(p.segments) :
                                 On(i) /\ p.segments[i].writable
                          \/ heap_on \/ stack_on
<1>. DEFINE s == space[t]
            N == Len(prog[t].segments)
            seg == prog[t].segments
            base == USER_STACK_TOP - USER_STACK_SIZE
            part(ph) == [from |-> ph.vaddr, to |-> ph.vaddr + ph.memsz - 1,
                         writable |-> ph.writable]
            heap_part == [from |-> s.brk_start, to |-> s.brk - 1,
                          writable |-> TRUE]
            stack == [from |-> base, to |-> USER_STACK_TOP - 1, writable |-> TRUE]
            IsOn(x) == /\ x.from <= x.to
                       /\ page \in x.from \div PAGE_SIZE .. x.to \div PAGE_SIZE
<1>1. page \in Int
  BY SpaceNumbers DEF UserPages
<1>2. ASSUME NEW from \in Int, NEW to \in Int, NEW x,
             x.from = from, x.to = to - 1
      PROVE  IsOn(x) <=> Covers(from, to, page)
  <2>1. Covers(from, to, page)
            <=> /\ from <= to - 1
                /\ page \in from \div PAGE_SIZE .. (to - 1) \div PAGE_SIZE
    BY <1>1, CoversIs
  <2>. QED
    BY <1>2, <2>1
<1>3. \A i \in 1 .. N : seg[i].vaddr \in Int /\ seg[i].memsz \in Int
  <2>1. \A i \in 1 .. N : seg[i] \in SegmentType
    OBVIOUS
  <2>2. \A ph \in SegmentType : ph.vaddr \in Int /\ ph.memsz \in Int
    BY SpaceNumbers DEF SegmentType, Words
  <2>. QED
    BY ONLY <2>1, <2>2
<1>4. \A x : x \in Parts(t) <=> \/ \E i \in 1 .. N : x = part(seg[i])
                                \/ x = heap_part \/ x = stack
  <2>. DEFINE headers == ToSet(seg)
  <2>1. headers = {seg[i] : i \in 1 .. N}
    BY DEF ToSet
  <2>. HIDE DEF headers
  <2>2. Parts(t) = {part(ph) : ph \in headers} \cup {heap_part, stack}
    BY ONLY DEF Parts, headers, s, seg, base, part, heap_part, stack
  <2>. HIDE DEF part, seg, N, heap_part, stack
  <2>. QED
    BY ONLY <2>1, <2>2
<1>5. PartsOn(t, page) = {x \in Parts(t) : IsOn(x)}
  BY DEF PartsOn
<1>6. ASSUME NEW i \in 1 .. N
      PROVE  /\ IsOn(part(seg[i])) <=> SegOn(seg[i], page)
             /\ part(seg[i]).writable = seg[i].writable
  <2>. DEFINE v == seg[i].vaddr
              e == seg[i].vaddr + seg[i].memsz
              y == part(seg[i])
  <2>1. v \in Int /\ e \in Int
    BY <1>3
  <2>2. y.from = v /\ y.to = e - 1 /\ y.writable = seg[i].writable
    BY <1>3
  <2>. HIDE DEF v, e, y, part, IsOn
  <2>3. IsOn(y) <=> Covers(v, e, page)
    BY <1>2, <2>1, <2>2
  <2>. QED
    BY <2>2, <2>3 DEF SegOn, v, e, y
<1>7. /\ IsOn(heap_part) <=> Covers(s.brk_start, s.brk, page)
      /\ heap_part.writable
  <2>1. /\ s.brk_start \in Int /\ s.brk \in Int /\ heap_part.writable
        /\ heap_part.from = s.brk_start /\ heap_part.to = s.brk - 1
    BY DEF SpaceType
  <2>. HIDE DEF heap_part, IsOn, s
  <2>. QED
    BY <1>2, <2>1
<1>8. /\ IsOn(stack) <=> Covers(base, USER_STACK_TOP, page)
      /\ stack.writable
  <2>1. /\ base \in Int /\ USER_STACK_TOP \in Int /\ stack.writable
        /\ stack.from = base /\ stack.to = USER_STACK_TOP - 1
    BY Layout, SpaceNumbers
  <2>. HIDE DEF stack, IsOn, base
  <2>. QED
    BY <1>2, <2>1
<1>. HIDE DEF IsOn, heap_part, stack, part
<1>9. \A x : x \in PartsOn(t, page)
          <=> IsOn(x) /\ \/ \E i \in 1 .. N : x = part(seg[i])
                         \/ x = heap_part \/ x = stack
  BY <1>4, <1>5
<1>. HIDE DEF s, seg, base, N
<1>10. PartsOn(t, page) # {}
           <=> \/ \E i \in 1 .. N : SegOn(seg[i], page)
               \/ Covers(s.brk_start, s.brk, page)
               \/ Covers(base, USER_STACK_TOP, page)
  BY <1>6, <1>7, <1>8, <1>9
<1>11. (\E x \in PartsOn(t, page) : x.writable)
           <=> \/ \E i \in 1 .. N : SegOn(seg[i], page) /\ seg[i].writable
               \/ Covers(s.brk_start, s.brk, page)
               \/ Covers(base, USER_STACK_TOP, page)
  BY <1>6, <1>7, <1>8, <1>9
<1>. QED
  BY <1>10, <1>11 DEF s, seg, base, N

(* The page between heap and stack is one of the user space (config.h).    *)
LEMMA GuardThere == Guard \in UserPages
<1>. DEFINE F == FirstPage
            U == USER_SPACE_PAGES
<1>1. Guard \in Int /\ F \in Int /\ U \in Nat
  BY Layout, SpaceNumbers
<1>2. F <= Guard
  <2>1. USER_CODE_ADDR \in Int /\ PAGE_SIZE \in Nat \ {0}
        /\ USER_CODE_ADDR < PAGE_SIZE * Guard + PAGE_SIZE
    <3>1. USER_CODE_ADDR < PAGE_SIZE * Guard /\ PAGE_SIZE * Guard \in Int
      BY Layout, SpaceAssumption
    <3>. QED
      BY <3>1, SpaceNumbers
  <2>. QED
    BY <1>1, <2>1, QuotientBounds DEF FirstPage
<1>3. Guard < F + U
  <2>. DEFINE k == F + U
  <2>1. k \in Int /\ PAGE_SIZE * Guard + PAGE_SIZE <= PAGE_SIZE * k
    <3>1. USER_STACK_TOP = PAGE_SIZE * k /\ USER_STACK_TOP \in Int
          /\ USER_STACK_TOP - USER_STACK_SIZE = PAGE_SIZE * Guard + PAGE_SIZE
          /\ USER_STACK_SIZE \in Nat
      BY Layout, SpaceNumbers
    <3>. HIDE DEF k
    <3>2. USER_STACK_TOP - USER_STACK_SIZE <= USER_STACK_TOP
      BY <3>1
    <3>. QED
      BY <1>1, <3>1, <3>2 DEF k
  <2>. HIDE DEF k
  <2>2. Guard < k
    BY <1>1, <2>1, PageOrder
  <2>. QED
    BY <2>2 DEF k
<1>. HIDE DEF F, U
<1>. QED
  BY <1>1, <1>2, <1>3 DEF UserPages, F, U

(* What the invariant says of a page, in terms of the parts on it          *)
LEMMA PageMapped ==
    ASSUME NEW t \in Tasks, space[t] \in SpaceType,
           prog[t].segments \in Seq(SegmentType), NEW page \in UserPages,
           ImageReady(space[t], prog[t]), PartsOn(t, page) # {}
    PROVE  /\ space[t].pages[page].block # None
           /\ space[t].pages[page].writable
                  <=> \E part \in PartsOn(t, page) : part.writable
<1>. DEFINE s == space[t]
            p == prog[t]
            q == HeapPage(s)
            N == Len(p.segments)
            heap_on == Covers(s.brk_start, s.brk, page)
            stack_on == Covers(USER_STACK_TOP - USER_STACK_SIZE,
                               USER_STACK_TOP, page)
            On(i) == SegOn(p.segments[i], page)
            May == \E part \in PartsOn(t, page) : part.writable
<1>1. /\ (\E i \in 1 .. N : On(i)) \/ heap_on \/ stack_on
      /\ May <=> \/ \E i \in 1 .. N : On(i) /\ p.segments[i].writable
                 \/ heap_on \/ stack_on
  BY PartsAre
<1>2. stack_on <=> page > Guard
  <2>. DEFINE base == USER_STACK_TOP - USER_STACK_SIZE
  <2>1. page \in PagesIn(base, USER_STACK_SIZE) <=> page > Guard
    BY StackPages
  <2>2. page \in Int /\ base + USER_STACK_SIZE = USER_STACK_TOP
    BY Layout, SpaceNumbers DEF UserPages
  <2>. HIDE DEF base
  <2>. QED
    BY <2>1, <2>2 DEF PagesIn, base
<1>3. /\ s.brk_start \in Int /\ s.brk \in Int /\ q \in Int /\ page \in Int
      /\ Guard \in Int
  <2>1. s.brk_start \in Int /\ s.brk \in Int
    BY DEF SpaceType
  <2>. QED
    BY <2>1, SpaceNumbers, Layout DEF HeapPage, UserPages
<1>4. /\ s.brk_start = PAGE_SIZE * q /\ s.brk_start <= s.brk
      /\ s.brk <= USER_HEAP_LIMIT
      /\ \A i \in 1 .. N : p.segments[i].vaddr + p.segments[i].memsz <= s.brk_start
      /\ page < q => ImageOf(s, p, N, page)
      /\ q <= page /\ PAGE_SIZE * page < s.brk
             => s.pages[page].block # None /\ s.pages[page].writable
      /\ page > Guard => s.pages[page].block # None /\ s.pages[page].writable
  BY DEF ImageReady
<1>. HIDE DEF q, s, stack_on, May
<1>5. PAGE_SIZE * page \in Int /\ PAGE_SIZE \in Nat \ {0}
      /\ PAGE_SIZE * q \in Int /\ PAGE_SIZE * Guard \in Int
  BY <1>3, SpaceNumbers, PageOrder
<1>6. CASE page < q
  <2>1. ~ heap_on
    <3>1. PAGE_SIZE * page + PAGE_SIZE <= PAGE_SIZE * q
      BY <1>3, <1>6, PageOrder
    <3>. QED
      BY <1>4, <1>5, <3>1 DEF Covers
  <2>2. ~ stack_on
    <3>1. q <= Guard
      <4>1. PAGE_SIZE * q <= s.brk /\ s.brk <= PAGE_SIZE * Guard
        BY <1>4, Layout
      <4>2. PAGE_SIZE * q <= PAGE_SIZE * Guard
        BY ONLY <1>3, <1>5, <4>1
      <4>. QED
        BY <1>3, <4>2, PageOrder
    <3>. QED
      BY <1>2, <1>3, <1>6, <3>1
  <2>3. /\ s.pages[page].block # None <=> \E i \in 1 .. N : On(i)
        /\ s.pages[page].writable
               <=> \E i \in 1 .. N : On(i) /\ p.segments[i].writable
    BY <1>4, <1>6 DEF ImageOf
  <2>. HIDE DEF heap_on, On, N, p
  <2>. QED
    BY <1>1, <2>1, <2>2, <2>3 DEF s, May
<1>7. CASE q <= page
  <2>1. ASSUME NEW i \in 1 .. N PROVE ~ On(i)
    <3>. DEFINE to == p.segments[i].vaddr + p.segments[i].memsz
    <3>1. to \in Int
      <4>1. p.segments[i] \in SegmentType
        OBVIOUS
      <4>. QED
        BY <4>1, SpaceNumbers DEF SegmentType, Words
    <3>2. to <= PAGE_SIZE * q /\ PAGE_SIZE * q <= PAGE_SIZE * page
      BY <1>3, <1>4, <1>7, PageOrder
    <3>. HIDE DEF to
    <3>. QED
      BY <1>5, <3>1, <3>2 DEF SegOn, Covers, to
  <2>2. heap_on => PAGE_SIZE * page < s.brk
    BY DEF Covers
  <2>. HIDE DEF heap_on, On, N, p
  <2>. QED
    BY <1>1, <1>2, <1>4, <1>7, <2>1, <2>2 DEF s, May
<1>. QED
  BY <1>3, <1>6, <1>7

(* A running program has the pages its segments, its heap and its stack    *)
(* lie on, writable where one of them is, and none between heap and stack, *)
(* however its loads and sbrks end and whatever the rest of the system     *)
(* does with the kernel heap (task_load, elf_load, task_sbrk).             *)
THEOREM ImagesMapped == Spec => []ImageMapped
<1>1. Init => ImageInv
  BY DEF Init, ImageInv
<1>2. ASSUME MemoryOK, ImageInv PROVE ImageMapped
  <2>. SUFFICES ASSUME NEW t \in Tasks, state[t] = "user"
                PROVE  /\ \A page \in UserPages : PartsOn(t, page) # {} =>
                              /\ space[t].pages[page].block # None
                              /\ space[t].pages[page].writable
                                     = \E part \in PartsOn(t, page) : part.writable
                       /\ space[t].pages[Guard] = NotPresent
                       /\ \E part \in Parts(t) :
                              prog[t].entry \in part.from .. part.to
    BY DEF ImageMapped, Guard
  <2>1. /\ prog[t] \in Programs /\ ImageReady(space[t], prog[t])
        /\ space[t] \in SpaceType
    BY <1>2 DEF ImageInv, MemoryOK
  <2>2. prog[t].segments \in Seq(SegmentType)
    BY <2>1, ProgramFields
  <2>3. ASSUME NEW page \in UserPages, PartsOn(t, page) # {}
        PROVE  /\ space[t].pages[page].block # None
               /\ space[t].pages[page].writable
                      = \E part \in PartsOn(t, page) : part.writable
    <3>. DEFINE may == \E part \in PartsOn(t, page) : part.writable
    <3>1. /\ space[t].pages[page].block # None
          /\ space[t].pages[page].writable <=> may
      BY <2>1, <2>2, <2>3, PageMapped
    <3>2. space[t].pages[page].writable \in BOOLEAN /\ may \in BOOLEAN
      BY <2>1 DEF SpaceType
    <3>. HIDE DEF may
    <3>. QED
      BY <3>1, <3>2 DEF may
  <2>4. space[t].pages[Guard] = NotPresent
    BY <2>1, GuardThere DEF ImageReady
  <2>5. \E part \in Parts(t) : prog[t].entry \in part.from .. part.to
    <3>. DEFINE seg == prog[t].segments
    <3>1. PICK i \in DOMAIN seg :
              prog[t].entry \in seg[i].vaddr .. seg[i].vaddr + seg[i].memsz - 1
      BY <2>1 DEF ImageReady, EntryLoaded
    <3>. DEFINE part == [from |-> seg[i].vaddr,
                         to |-> seg[i].vaddr + seg[i].memsz - 1,
                         writable |-> seg[i].writable]
    <3>2. part \in Parts(t)
      <4>1. seg[i] \in ToSet(seg)
        BY DEF ToSet
      <4>. QED
        BY <4>1 DEF Parts
    <3>. HIDE DEF seg
    <3>3. prog[t].entry \in part.from .. part.to
      BY <3>1
    <3>. HIDE DEF part
    <3>. QED
      BY <3>2, <3>3
  <2>. QED
    BY <2>3, <2>4, <2>5
<1>. QED
  BY <1>1, <1>2, MemoryStarts, MemoryKept, ImageKept, PTL DEF Spec

-----------------------------------------------------------------------------
(* The heap of a program                                                   *)

BlockType == [addr : Nat, size : Nat, free : BOOLEAN]

(* The first address behind a block *)
EndOf(b) == b.addr + HEADER_SIZE + b.size

(* Blocks one behind the other, from lo to hi *)
Tile(bs, lo, hi) ==
    /\ bs \in Seq(BlockType)
    /\ Len(bs) = 0 => lo = hi
    /\ Len(bs) > 0 => bs[1].addr = lo /\ EndOf(bs[Len(bs)]) = hi
    /\ \A i \in 1 .. Len(bs) - 1 : bs[i + 1].addr = EndOf(bs[i])
    /\ \A i, j \in 1 .. Len(bs) : i < j => EndOf(bs[i]) <= bs[j].addr

(* Free neighbours are merged *)
Merged(bs) == \A i \in 1 .. Len(bs) - 1 : ~ (bs[i].free /\ bs[i + 1].free)

(* The address of the last block, 0 for none *)
LastOf(bs) == IF Len(bs) = 0 THEN 0 ELSE bs[Len(bs)].addr

AllocatorOK(u, lo, hi) ==
    /\ lo \in Nat \ {0} /\ hi \in Nat
    /\ u = [blocks |-> u.blocks, tail |-> LastOf(u.blocks)]
    /\ Tile(u.blocks, lo, hi) /\ Merged(u.blocks)

(* What the first k blocks hand out *)
Handed(b) == [ptr |-> block_payload(b), size |-> b.size]
UsedUpTo(bs, k) == {Handed(bs[i]) : i \in {j \in 1 .. k : ~ bs[j].free}}
Used(bs) == UsedUpTo(bs, Len(bs))

(* Blocks of a heap in their order (moos.c)                                *)
LEMMA BlocksAre ==
    ASSUME NEW bs, NEW lo, NEW hi, Tile(bs, lo, hi)
    PROVE  /\ Len(bs) \in Nat /\ DOMAIN bs = 1 .. Len(bs)
           /\ \A i \in 1 .. Len(bs) :
                  /\ bs[i] \in BlockType
                  /\ bs[i] = [addr |-> bs[i].addr, size |-> bs[i].size,
                              free |-> bs[i].free]
                  /\ bs[i].addr \in Nat /\ bs[i].size \in Nat
                  /\ bs[i].free \in BOOLEAN
                  /\ EndOf(bs[i]) \in Nat /\ EndOf(bs[i]) > bs[i].addr
                  /\ block_payload(bs[i]) = bs[i].addr + HEADER_SIZE
                  /\ EndOf(bs[i]) <= hi /\ lo <= bs[i].addr
           /\ \A i, j \in 1 .. Len(bs) : bs[i].addr = bs[j].addr => i = j
<1>1. /\ bs \in Seq(BlockType) /\ Len(bs) \in Nat /\ DOMAIN bs = 1 .. Len(bs)
      /\ \A i \in 1 .. Len(bs) : bs[i] \in BlockType
  BY LenProperties DEF Tile
<1>2. ASSUME NEW i \in 1 .. Len(bs)
      PROVE  /\ bs[i] = [addr |-> bs[i].addr, size |-> bs[i].size,
                         free |-> bs[i].free]
             /\ bs[i].addr \in Nat /\ bs[i].size \in Nat /\ bs[i].free \in BOOLEAN
             /\ EndOf(bs[i]) \in Nat /\ EndOf(bs[i]) > bs[i].addr
             /\ block_payload(bs[i]) = bs[i].addr + HEADER_SIZE
  <2>1. bs[i] \in BlockType
    BY <1>1
  <2>. QED
    BY <2>1, UserHeapAssumption DEF BlockType, EndOf, block_payload
<1>3. ASSUME NEW i \in 1 .. Len(bs)
      PROVE  EndOf(bs[i]) <= hi /\ lo <= bs[i].addr
  <2>1. Len(bs) > 0 /\ 1 \in 1 .. Len(bs) /\ Len(bs) \in 1 .. Len(bs) /\ i \in Int
    BY <1>1
  <2>2. /\ bs[1].addr = lo /\ EndOf(bs[Len(bs)]) = hi
        /\ 1 < i => EndOf(bs[1]) <= bs[i].addr
        /\ i < Len(bs) => EndOf(bs[i]) <= bs[Len(bs)].addr
    BY <2>1 DEF Tile
  <2>3. EndOf(bs[i]) <= hi
    BY <1>1, <1>2, <2>1, <2>2
  <2>4. lo <= bs[i].addr
    BY <1>1, <1>2, <2>1, <2>2
  <2>. QED
    BY <2>3, <2>4
<1>4. ASSUME NEW i \in 1 .. Len(bs), NEW j \in 1 .. Len(bs), bs[i].addr = bs[j].addr
      PROVE  i = j
  <2>1. i < j => EndOf(bs[i]) <= bs[j].addr
    BY DEF Tile
  <2>2. j < i => EndOf(bs[j]) <= bs[i].addr
    BY DEF Tile
  <2>. QED
    BY <1>1, <1>2, <1>4, <2>1, <2>2
<1>. QED
  BY <1>1, <1>2, <1>3, <1>4

(* One block holds a pointer (payload_block)                               *)
LEMMA PayloadIs ==
    ASSUME NEW u, NEW lo, NEW hi, Tile(u.blocks, lo, hi),
           NEW i \in 1 .. Len(u.blocks)
    PROVE  payload_block(u, block_payload(u.blocks[i])) = i
<1>. DEFINE bs == u.blocks
            ptr == block_payload(bs[i])
            j == CHOOSE k \in DOMAIN bs : block_payload(bs[k]) = ptr
<1>1. i \in DOMAIN bs
  BY BlocksAre
<1>2. j \in DOMAIN bs /\ block_payload(bs[j]) = ptr
  <2>. HIDE DEF bs, ptr
  <2>. QED
    BY <1>1 DEF ptr
<1>3. payload_block(u, ptr) = j
  BY DEF payload_block
<1>. HIDE DEF j
<1>4. /\ DOMAIN bs = 1 .. Len(bs)
      /\ \A k \in 1 .. Len(bs) :
             bs[k].addr \in Nat /\ block_payload(bs[k]) = bs[k].addr + HEADER_SIZE
      /\ \A k, l \in 1 .. Len(bs) : bs[k].addr = bs[l].addr => k = l
  BY BlocksAre
<1>5. bs[j].addr = bs[i].addr
  <2>1. bs[j].addr + HEADER_SIZE = bs[i].addr + HEADER_SIZE
    BY <1>2, <1>4
  <2>. QED
    BY <1>2, <1>4, <2>1, UserHeapAssumption
<1>. QED
  BY <1>2, <1>3, <1>4, <1>5

(* What is handed out, block by block                                      *)
LEMMA UsedIs ==
    ASSUME NEW bs, NEW k
    PROVE  \A x : x \in UsedUpTo(bs, k)
                      <=> \E i \in 1 .. k : ~ bs[i].free /\ x = Handed(bs[i])
BY DEF UsedUpTo

(* A block in the place of another, and more behind it *)
Splice(bs, i, b, c) ==
    SubSeq(bs, 1, i - 1) \o <<b>> \o c \o SubSeq(bs, i + 1, Len(bs))

(* where the blocks are then *)
IsSplice(new, bs, i, b, c) ==
    /\ new \in Seq(BlockType) /\ Len(new) = Len(bs) + Len(c)
    /\ \A j \in 1 .. i - 1 : new[j] = bs[j]
    /\ new[i] = b
    /\ \A j \in 1 .. Len(c) : new[i + j] = c[j]
    /\ \A j \in i + Len(c) + 1 .. Len(bs) + Len(c) : new[j] = bs[j - Len(c)]

(* Splicing puts them there (malloc).                                      *)
LEMMA Spliced ==
    ASSUME NEW bs \in Seq(BlockType), NEW i \in 1 .. Len(bs),
           NEW b \in BlockType, NEW c \in Seq(BlockType)
    PROVE  IsSplice(Splice(bs, i, b, c), bs, i, b, c)
<1>. DEFINE n == Len(bs)
            l == Len(c)
            a == SubSeq(bs, 1, i - 1)
            o == <<b>>
            d == SubSeq(bs, i + 1, n)
            new == Splice(bs, i, b, c)
<1>1. n \in Nat /\ i \in Int /\ 1 <= i /\ i <= n /\ \A j \in 1 .. n : bs[j] \in BlockType
  BY LenProperties
<1>. HIDE DEF n
<1>2. /\ a \in Seq(BlockType) /\ Len(a) = i - 1
      /\ \A j \in 1 .. i - 1 : a[j] = bs[j]
  <2>1. \A j \in 1 .. i - 1 : bs[j] \in BlockType
    BY <1>1
  <2>2. /\ a \in Seq(BlockType) /\ Len(a) = IF 1 <= i - 1 THEN (i - 1) - 1 + 1 ELSE 0
        /\ \A j \in 1 .. (i - 1) - 1 + 1 : a[j] = bs[1 + j - 1]
    BY <1>1, <2>1, SubSeqProperties
  <2>. HIDE DEF a
  <2>. QED
    BY <1>1, <2>2
<1>3. o \in Seq(BlockType) /\ Len(o) = 1 /\ o[1] = b
  OBVIOUS
<1>4. l \in Nat
  BY LenProperties
<1>5. /\ d \in Seq(BlockType) /\ Len(d) = n - i
      /\ \A j \in 1 .. n - i : d[j] = bs[i + j]
  <2>1. \A j \in i + 1 .. n : bs[j] \in BlockType
    BY <1>1
  <2>2. /\ d \in Seq(BlockType) /\ Len(d) = IF i + 1 <= n THEN n - (i + 1) + 1 ELSE 0
        /\ \A j \in 1 .. n - (i + 1) + 1 : d[j] = bs[(i + 1) + j - 1]
    BY <1>1, <2>1, SubSeqProperties
  <2>. HIDE DEF d
  <2>3. \A j \in 1 .. n - i : (i + 1) + j - 1 = i + j
    BY <1>1
  <2>. QED
    BY <1>1, <2>2, <2>3
<1>. HIDE DEF a, o, d
<1>. DEFINE ao == a \o o
            aoc == ao \o c
<1>6. /\ ao \in Seq(BlockType) /\ Len(ao) = i
      /\ \A j \in 1 .. i - 1 : ao[j] = bs[j]
      /\ ao[i] = b
  <2>1. /\ ao \in Seq(BlockType) /\ Len(ao) = Len(a) + Len(o)
        /\ \A j \in 1 .. Len(a) + Len(o) :
               ao[j] = IF j <= Len(a) THEN a[j] ELSE o[j - Len(a)]
    BY <1>2, <1>3, ConcatProperties
  <2>. HIDE DEF ao
  <2>. QED
    BY <1>1, <1>2, <1>3, <2>1
<1>. HIDE DEF ao
<1>7. /\ aoc \in Seq(BlockType) /\ Len(aoc) = i + l
      /\ \A j \in 1 .. i - 1 : aoc[j] = bs[j]
      /\ aoc[i] = b /\ \A j \in 1 .. l : aoc[i + j] = c[j]
  <2>1. /\ aoc \in Seq(BlockType) /\ Len(aoc) = Len(ao) + l
        /\ \A j \in 1 .. Len(ao) + l :
               aoc[j] = IF j <= Len(ao) THEN ao[j] ELSE c[j - Len(ao)]
    BY <1>6, ConcatProperties
  <2>. HIDE DEF aoc, l
  <2>2. \A j \in 1 .. l : i + j \in 1 .. i + l /\ ~ (i + j <= i) /\ (i + j) - i = j
    BY <1>1, <1>4
  <2>. QED
    BY <1>1, <1>4, <1>6, <2>1, <2>2
<1>. HIDE DEF aoc, l
<1>8. /\ new \in Seq(BlockType) /\ Len(new) = i + l + (n - i)
      /\ \A j \in 1 .. i + l : new[j] = aoc[j]
      /\ \A j \in i + l + 1 .. n + l : new[j] = bs[j - l]
  <2>1. /\ aoc \o d \in Seq(BlockType) /\ Len(aoc \o d) = Len(aoc) + Len(d)
        /\ \A j \in 1 .. Len(aoc) + Len(d) :
               (aoc \o d)[j] = IF j <= Len(aoc) THEN aoc[j] ELSE d[j - Len(aoc)]
    BY <1>5, <1>7, ConcatProperties
  <2>2. new = aoc \o d
    BY DEF aoc, ao, a, o, d, n, Splice
  <2>. HIDE DEF new
  <2>3. ASSUME NEW j \in i + l + 1 .. n + l PROVE new[j] = bs[j - l]
    <3>1. j \in 1 .. Len(aoc) + Len(d) /\ ~ (j <= Len(aoc))
      BY <1>1, <1>4, <1>5, <1>7
    <3>2. new[j] = d[j - (i + l)]
      BY <1>7, <2>1, <2>2, <3>1
    <3>3. j - (i + l) \in 1 .. n - i /\ i + (j - (i + l)) = j - l
      BY <1>1, <1>4
    <3>. QED
      BY <1>5, <3>2, <3>3
  <2>4. ASSUME NEW j \in 1 .. i + l PROVE new[j] = aoc[j]
    <3>1. j \in 1 .. Len(aoc) + Len(d) /\ j <= Len(aoc)
      BY <1>1, <1>4, <1>5, <1>7
    <3>. QED
      BY <2>1, <2>2, <3>1
  <2>. QED
    BY <1>5, <1>7, <2>1, <2>2, <2>3, <2>4
<1>. HIDE DEF new
<1>9. /\ \A j \in 1 .. i - 1 : new[j] = bs[j]
      /\ new[i] = b /\ \A j \in 1 .. l : new[i + j] = c[j]
  <2>1. (\A j \in 1 .. i - 1 : j \in 1 .. i + l) /\ i \in 1 .. i + l
        /\ \A j \in 1 .. l : i + j \in 1 .. i + l
    BY <1>1, <1>4
  <2>. QED
    BY <1>7, <1>8, <2>1
<1>10. Len(new) = n + l
  BY <1>1, <1>4, <1>8
<1>. QED
  BY <1>8, <1>9, <1>10 DEF IsSplice, new, n, l

(* What a free block makes way for (malloc)                                *)
Taken(b, size, split) ==
    [addr |-> b.addr, size |-> IF split THEN size ELSE b.size, free |-> FALSE]
LeftOver(b, size) ==
    [addr |-> block_payload(b) + size, size |-> b.size - size - HEADER_SIZE,
     free |-> TRUE]

(* A free block is taken, or its front: the blocks lie as before, and one  *)
(* more of them is in use (malloc).                                        *)
LEMMA TakenTile ==
    ASSUME NEW bs, NEW lo, NEW hi, Tile(bs, lo, hi), Merged(bs),
           NEW i \in 1 .. Len(bs), bs[i].free,
           NEW size \in Nat, NEW split \in BOOLEAN,
           split => size + HEADER_SIZE <= bs[i].size
    PROVE  LET taken == Taken(bs[i], size, split)
               rest == LeftOver(bs[i], size)
               new == SubSeq(bs, 1, i - 1) \o <<taken>>
                          \o (IF split THEN <<rest>> ELSE <<>>)
                          \o SubSeq(bs, i + 1, Len(bs))
           IN  /\ Tile(new, lo, hi) /\ Merged(new)
               /\ LastOf(new) = IF split /\ LastOf(bs) = bs[i].addr THEN rest.addr
                                ELSE LastOf(bs)
               /\ Used(new) = Used(bs) \cup {Handed(taken)}
<1>. DEFINE n == Len(bs)
            taken == Taken(bs[i], size, split)
            rest == IF split THEN LeftOver(bs[i], size) ELSE taken
            new == SubSeq(bs, 1, i - 1) \o <<taken>>
                       \o (IF split THEN <<rest>> ELSE <<>>)
                       \o SubSeq(bs, i + 1, Len(bs))
            a(j) == bs[j].addr
            e(j) == EndOf(bs[j])
<1>1. /\ n \in Nat /\ i \in Int /\ 1 <= i /\ i <= n /\ bs \in Seq(BlockType)
      /\ \A j \in 1 .. n : /\ bs[j] \in BlockType /\ bs[j].free \in BOOLEAN
                           /\ a(j) \in Nat /\ e(j) \in Nat /\ a(j) < e(j)
      /\ \A j, k \in 1 .. n : a(j) = a(k) => j = k
  <2>1. /\ n \in Nat /\ bs \in Seq(BlockType)
        /\ \A j \in 1 .. n : /\ bs[j] \in BlockType /\ bs[j].free \in BOOLEAN
                             /\ a(j) \in Nat /\ e(j) \in Nat /\ e(j) > a(j)
        /\ \A j, k \in 1 .. n : a(j) = a(k) => j = k
    <3>1. bs \in Seq(BlockType)
      BY DEF Tile
    <3>. QED
      BY <3>1, BlocksAre
  <2>2. \A x, y \in Nat : y > x => x < y
    OBVIOUS
  <2>3. i \in Int /\ 1 <= i /\ i <= n
    BY <2>1
  <2>. QED
    BY <2>1, <2>2, <2>3
<1>2. /\ bs[1].addr = lo /\ EndOf(bs[n]) = hi
      /\ \A j \in 1 .. n - 1 : a(j + 1) = e(j)
      /\ \A j, k \in 1 .. n : j < k => e(j) <= a(k)
      /\ \A j \in 1 .. n - 1 : ~ (bs[j].free /\ bs[j + 1].free)
  BY <1>1 DEF Tile, Merged
<1>3. /\ taken \in BlockType /\ ~ taken.free /\ taken.addr = a(i)
      /\ split => /\ rest \in BlockType /\ rest.free
                  /\ EndOf(taken) = rest.addr /\ EndOf(rest) = e(i)
                  /\ a(i) < rest.addr /\ rest.addr < e(i)
      /\ ~ split => EndOf(taken) = e(i)
  <2>1. bs[i].size \in Nat /\ a(i) \in Nat
    BY <1>1 DEF BlockType
  <2>2. CASE split
    <3>1. /\ taken = [addr |-> a(i), size |-> size, free |-> FALSE]
          /\ rest = [addr |-> a(i) + HEADER_SIZE + size,
                     size |-> bs[i].size - size - HEADER_SIZE, free |-> TRUE]
          /\ e(i) = a(i) + HEADER_SIZE + bs[i].size
      BY <2>2 DEF Taken, LeftOver, EndOf, block_payload
    <3>2. /\ a(i) + HEADER_SIZE + size \in Nat
          /\ bs[i].size - size - HEADER_SIZE \in Nat
          /\ a(i) < a(i) + HEADER_SIZE + size
          /\ a(i) + HEADER_SIZE + size < e(i)
          /\ e(i) = a(i) + HEADER_SIZE + size + HEADER_SIZE
                      + (bs[i].size - size - HEADER_SIZE)
      <4>. DEFINE x == a(i)
                  z == bs[i].size
                  h == HEADER_SIZE
      <4>1. x \in Nat /\ z \in Nat /\ h \in Nat \ {0} /\ size + h <= z
        BY <2>1, <2>2, UserHeapAssumption
      <4>2. e(i) = x + h + z
        BY <3>1
      <4>. HIDE DEF x, z, h, e
      <4>3. /\ x + h + size \in Nat /\ z - size - h \in Nat
            /\ x < x + h + size /\ x + h + size < x + h + z
            /\ x + h + z = x + h + size + h + (z - size - h)
        BY ONLY <4>1, size \in Nat
      <4>. QED
        BY <4>2, <4>3 DEF x, z, h
    <3>. HIDE DEF taken, rest
    <3>. QED
      BY <2>1, <2>2, <3>1, <3>2 DEF BlockType, EndOf
  <2>3. CASE ~ split
    BY <2>1, <2>3, UserHeapAssumption
       DEF Taken, LeftOver, BlockType, EndOf, block_payload
  <2>. QED
    BY <2>2, <2>3
<1>4. /\ new \in Seq(BlockType)
      /\ Len(new) = IF split THEN n + 1 ELSE n
      /\ \A j \in 1 .. i - 1 : new[j] = bs[j]
      /\ new[i] = taken
      /\ split => /\ new[i + 1] = rest
                  /\ \A j \in i + 2 .. n + 1 : new[j] = bs[j - 1]
      /\ ~ split => \A j \in i + 1 .. n : new[j] = bs[j]
  <2>. DEFINE c == IF split THEN <<rest>> ELSE <<>>
  <2>1. /\ taken \in BlockType /\ c \in Seq(BlockType)
        /\ split => Len(c) = 1 /\ c[1] = rest
        /\ ~ split => Len(c) = 0
    <3>1. (split => rest \in BlockType) /\ taken \in BlockType
      BY <1>3
    <3>. HIDE DEF taken, rest
    <3>2. CASE split
      BY <3>1, <3>2
    <3>3. CASE ~ split
      BY <3>1, <3>3, EmptySeq
    <3>. QED
      BY <3>2, <3>3
  <2>. HIDE DEF taken, rest, c
  <2>2. bs \in Seq(BlockType) /\ i \in 1 .. Len(bs) /\ taken \in BlockType /\ c \in Seq(BlockType)
    BY <1>1, <2>1
  <2>. DEFINE l == Len(c)
              new2 == Splice(bs, i, taken, c)
  <2>3. IsSplice(new2, bs, i, taken, c)
    BY <2>2, Spliced
  <2>4. new = new2
    BY DEF c, Splice
  <2>. HIDE DEF new, new2, n, l
  <2>5. CASE split
    <3>1. l = 1
      BY <2>1, <2>5 DEF l
    <3>. QED
      BY <1>1, <2>1, <2>3, <2>4, <2>5, <3>1 DEF n, l, IsSplice
  <2>6. CASE ~ split
    <3>1. l = 0
      BY <2>1, <2>6 DEF l
    <3>2. \A j \in i + 1 .. n : j - 0 = j
      BY <1>1
    <3>. QED
      BY <1>1, <2>1, <2>3, <2>4, <2>6, <3>1, <3>2 DEF n, l, IsSplice
  <2>. QED
    BY <2>5, <2>6
<1>5. split => rest = LeftOver(bs[i], size)
  OBVIOUS
<1>6. new = SubSeq(bs, 1, i - 1) \o <<taken>>
                \o (IF split THEN <<LeftOver(bs[i], size)>> ELSE <<>>)
                \o SubSeq(bs, i + 1, Len(bs))
  BY <1>5
<1>. HIDE DEF new, taken, rest, n
<1>7. CASE ~ split
  <2>1. Len(new) = n
    BY <1>4, <1>7
  <2>2. ASSUME NEW j \in 1 .. n
        PROVE  /\ new[j].addr = a(j) /\ EndOf(new[j]) = e(j)
               /\ j # i => new[j] = bs[j]
    BY <1>1, <1>3, <1>4, <1>7
  <2>3. \A j \in 1 .. n - 1 : j \in 1 .. n /\ j + 1 \in 1 .. n
    BY <1>1
  <2>4. 1 \in 1 .. n /\ n \in 1 .. n /\ n > 0 /\ n # 0
    BY <1>1
  <2>5. Tile(new, lo, hi)
    BY <1>2, <1>4, <2>1, <2>2, <2>3, <2>4 DEF Tile
  <2>6. Merged(new)
    <3>. SUFFICES ASSUME NEW j \in 1 .. n - 1
                  PROVE  ~ (new[j].free /\ new[j + 1].free)
      BY <2>1 DEF Merged
    <3>1. CASE j # i /\ j + 1 # i
      BY <1>2, <2>2, <2>3, <3>1
    <3>2. CASE j = i \/ j + 1 = i
      BY <1>3, <1>4, <3>2
    <3>. QED
      BY <3>1, <3>2
  <2>7. LastOf(new) = LastOf(bs)
    BY <2>1, <2>2, <2>4 DEF LastOf, n
  <2>8. Used(new) = Used(bs) \cup {Handed(taken)}
    <3>1. ASSUME NEW x \in Used(new) PROVE x \in Used(bs) \cup {Handed(taken)}
      <4>1. PICK j \in 1 .. n : ~ new[j].free /\ x = Handed(new[j])
        BY <2>1, <3>1, UsedIs DEF Used
      <4>2. CASE j = i
        BY <1>4, <4>1, <4>2
      <4>3. CASE j # i
        BY <2>2, <4>1, <4>3, UsedIs DEF Used, n
      <4>. QED
        BY <4>2, <4>3
    <3>2. ASSUME NEW x \in Used(bs) PROVE x \in Used(new)
      <4>1. PICK j \in 1 .. n : ~ bs[j].free /\ x = Handed(bs[j])
        BY <3>2, UsedIs DEF Used, n
      <4>2. new[j] = bs[j]
        BY <2>2, <4>1
      <4>. QED
        BY <2>1, <4>1, <4>2, UsedIs DEF Used
    <3>3. Handed(taken) \in Used(new)
      <4>1. i \in 1 .. n
        BY <1>1
      <4>. QED
        BY <1>3, <1>4, <2>1, <4>1, UsedIs DEF Used
    <3>. QED
      BY <3>1, <3>2, <3>3
  <2>. QED
    BY <1>6, <1>7, <2>5, <2>6, <2>7, <2>8 DEF taken, rest
<1>8. CASE split
  <2>1. Len(new) = n + 1 /\ n + 1 > 0 /\ n + 1 # 0
    BY <1>1, <1>4, <1>8
  <2>2. /\ \A j \in 1 .. i - 1 : new[j] = bs[j]
        /\ new[i] = taken /\ new[i + 1] = rest
        /\ \A j \in i + 2 .. n + 1 : new[j] = bs[j - 1] /\ j - 1 \in i + 1 .. n
    <3>1. \A j \in i + 2 .. n + 1 : j - 1 \in i + 1 .. n
      BY <1>1
    <3>. QED
      BY <1>4, <1>8, <3>1
  <2>3. ASSUME NEW j \in 1 .. n + 1
        PROVE  \/ j \in 1 .. i - 1 \/ j = i \/ j = i + 1 \/ j \in i + 2 .. n + 1
    BY <1>1
  <2>4. ASSUME NEW j \in 1 .. n + 1, NEW k \in 1 .. n + 1, j < k
        PROVE  EndOf(new[j]) <= new[k].addr
    <3>1. CASE k \in 1 .. i - 1
      <4>1. j \in 1 .. i - 1 /\ j \in 1 .. n /\ k \in 1 .. n
        BY <1>1, <2>4, <3>1
      <4>. QED
        BY <1>2, <2>2, <2>4, <3>1, <4>1
    <3>2. CASE k = i \/ k = i + 1
      <4>1. CASE j \in 1 .. i - 1
        <5>1. j \in 1 .. n /\ j < i
          BY <1>1, <4>1
        <5>2. e(j) <= a(i) /\ e(j) \in Nat /\ a(i) \in Nat
          BY <1>1, <1>2, <5>1
        <5>3. new[j] = bs[j] /\ (new[k].addr = a(i) \/ new[k].addr = rest.addr)
          BY <1>3, <2>2, <3>2, <4>1
        <5>4. rest.addr \in Nat
          BY <1>3, <1>8 DEF BlockType
        <5>. QED
          BY <1>3, <1>8, <5>2, <5>3, <5>4
      <4>2. CASE j \notin 1 .. i - 1
        <5>1. j = i /\ k = i + 1
          BY <1>1, <2>4, <3>2, <4>2
        <5>2. rest.addr \in Nat
          BY <1>3, <1>8 DEF BlockType
        <5>. QED
          BY <1>3, <1>8, <2>2, <5>1, <5>2
      <4>. QED
        BY <4>1, <4>2
    <3>3. CASE k \in i + 2 .. n + 1
      <4>1. /\ new[k] = bs[k - 1] /\ k - 1 \in 1 .. n /\ i < k - 1
            /\ e(i) <= a(k - 1) /\ a(k - 1) \in Nat /\ e(i) \in Nat
        <5>1. new[k] = bs[k - 1] /\ k - 1 \in 1 .. n /\ i < k - 1 /\ i \in 1 .. n
          BY <1>1, <2>2, <3>3
        <5>2. e(i) <= a(k - 1) /\ a(k - 1) \in Nat /\ e(i) \in Nat
          BY <1>1, <1>2, <5>1
        <5>. QED
          BY <5>1, <5>2
      <4>2. CASE j \in 1 .. i - 1
        <5>1. j \in 1 .. n /\ j < k - 1
          BY <1>1, <4>1, <4>2
        <5>. QED
          BY <1>2, <2>2, <4>1, <4>2, <5>1
      <4>3. CASE j = i \/ j = i + 1
        <5>1. EndOf(new[j]) <= e(i)
          <6>1. rest.addr \in Nat
            BY <1>3, <1>8 DEF BlockType
          <6>. QED
            BY <1>3, <1>8, <2>2, <4>1, <4>3, <6>1
        <5>2. EndOf(new[j]) \in Nat
          <6>1. rest.addr \in Nat
            BY <1>3, <1>8 DEF BlockType
          <6>. QED
            BY <1>3, <1>8, <2>2, <4>1, <4>3, <6>1
        <5>. QED
          BY <4>1, <5>1, <5>2
      <4>4. CASE j \in i + 2 .. n + 1
        <5>1. new[j] = bs[j - 1] /\ j - 1 \in 1 .. n /\ j - 1 < k - 1
          BY <1>1, <2>2, <2>4, <4>1, <4>4
        <5>. QED
          BY <1>2, <4>1, <5>1
      <4>. QED
        BY <2>3, <4>2, <4>3, <4>4
    <3>. QED
      BY <2>3, <3>1, <3>2, <3>3
  <2>5. ASSUME NEW j \in 1 .. n
        PROVE  /\ new[j + 1].addr = EndOf(new[j])
               /\ ~ (new[j].free /\ new[j + 1].free)
    <3>1. CASE j + 1 \in 1 .. i
      <4>1. j \in 1 .. i - 1 /\ j \in 1 .. n - 1 /\ j + 1 \in 1 .. n
        BY <1>1, <3>1
      <4>2. /\ new[j] = bs[j] /\ a(j + 1) = e(j)
            /\ ~ (bs[j].free /\ bs[j + 1].free)
        BY <1>2, <2>2, <4>1
      <4>3. CASE j + 1 = i
        BY <1>3, <2>2, <4>2, <4>3
      <4>4. CASE j + 1 # i
        <5>1. j + 1 \in 1 .. i - 1
          BY <1>1, <3>1, <4>4
        <5>. QED
          BY <2>2, <4>2, <5>1
      <4>. QED
        BY <4>3, <4>4
    <3>2. CASE j = i
      BY <1>3, <1>8, <2>2, <3>2
    <3>3. CASE j = i + 1
      <4>1. /\ j + 1 \in i + 2 .. n + 1 /\ (j + 1) - 1 = i + 1 /\ i \in 1 .. n - 1
        BY <1>1, <3>3
      <4>2. new[j + 1] = bs[i + 1] /\ new[j] = rest
        BY <2>2, <3>3, <4>1
      <4>. QED
        BY <1>2, <1>3, <1>8, <4>1, <4>2
    <3>4. CASE j \in i + 2 .. n
      <4>1. /\ j \in i + 2 .. n + 1 /\ j + 1 \in i + 2 .. n + 1
            /\ (j + 1) - 1 = (j - 1) + 1 /\ j - 1 \in 1 .. n - 1
        BY <1>1, <3>4
      <4>2. new[j] = bs[j - 1] /\ new[j + 1] = bs[(j - 1) + 1]
        BY <2>2, <4>1
      <4>. QED
        BY <1>2, <4>1, <4>2
    <3>. QED
      BY <1>1, <3>1, <3>2, <3>3, <3>4
  <2>6. new[1].addr = lo
    <3>1. CASE i = 1
      BY <1>2, <1>3, <2>2, <3>1
    <3>2. CASE i # 1
      <4>1. 1 \in 1 .. i - 1
        BY <1>1, <3>2
      <4>. QED
        BY <1>2, <2>2, <4>1
    <3>. QED
      BY <3>1, <3>2
  <2>7. EndOf(new[n + 1]) = hi /\ new[n + 1].addr = IF i = n THEN rest.addr ELSE a(n)
    <3>1. CASE i = n
      BY <1>2, <1>3, <1>8, <2>2, <3>1
    <3>2. CASE i # n
      <4>1. n + 1 \in i + 2 .. n + 1 /\ (n + 1) - 1 = n
        BY <1>1, <3>2
      <4>. QED
        BY <1>2, <2>2, <3>2, <4>1
    <3>. QED
      BY <3>1, <3>2
  <2>8. Tile(new, lo, hi) /\ Merged(new)
    <3>1. Len(new) - 1 = n /\ Len(new) # 0
      BY <1>1, <2>1
    <3>2. \A j \in 1 .. Len(new) - 1 : new[j + 1].addr = EndOf(new[j])
      BY <2>5, <3>1
    <3>3. \A j, k \in 1 .. Len(new) : j < k => EndOf(new[j]) <= new[k].addr
      BY <2>1, <2>4
    <3>4. new[1].addr = lo /\ EndOf(new[Len(new)]) = hi
      BY <2>1, <2>6, <2>7
    <3>5. Merged(new)
      BY <2>5, <3>1 DEF Merged
    <3>. QED
      BY <1>4, <3>1, <3>2, <3>3, <3>4, <3>5 DEF Tile
  <2>9. LastOf(new) = IF LastOf(bs) = bs[i].addr THEN rest.addr ELSE LastOf(bs)
    <3>1. LastOf(bs) = a(n) /\ n \in 1 .. n
      BY <1>1 DEF LastOf, n
    <3>2. LastOf(bs) = bs[i].addr <=> i = n
      BY <1>1, <3>1
    <3>. QED
      BY <2>1, <2>7, <3>1, <3>2 DEF LastOf
  <2>10. Used(new) = Used(bs) \cup {Handed(taken)}
    <3>1. ASSUME NEW x \in Used(new) PROVE x \in Used(bs) \cup {Handed(taken)}
      <4>1. PICK j \in 1 .. n + 1 : ~ new[j].free /\ x = Handed(new[j])
        BY <2>1, <3>1, UsedIs DEF Used
      <4>2. CASE j = i
        BY <2>2, <4>1, <4>2
      <4>3. CASE j = i + 1
        BY <1>3, <1>8, <2>2, <4>1, <4>3
      <4>4. CASE j \in 1 .. i - 1
        <5>1. j \in 1 .. n /\ new[j] = bs[j]
          BY <1>1, <2>2, <4>4
        <5>. QED
          BY <4>1, <5>1, UsedIs DEF Used, n
      <4>5. CASE j \in i + 2 .. n + 1
        <5>1. j - 1 \in 1 .. n /\ new[j] = bs[j - 1]
          BY <1>1, <2>2, <4>5
        <5>. QED
          BY <4>1, <5>1, UsedIs DEF Used, n
      <4>. QED
        BY <2>3, <4>2, <4>3, <4>4, <4>5
    <3>2. ASSUME NEW x \in Used(bs) PROVE x \in Used(new)
      <4>1. PICK j \in 1 .. n : ~ bs[j].free /\ x = Handed(bs[j])
        BY <3>2, UsedIs DEF Used, n
      <4>2. j # i
        BY <4>1
      <4>3. CASE j < i
        <5>1. j \in 1 .. i - 1 /\ j \in 1 .. n + 1
          BY <1>1, <4>3
        <5>2. new[j] = bs[j]
          BY <2>2, <5>1
        <5>. QED
          BY <2>1, <4>1, <5>1, <5>2, UsedIs DEF Used
      <4>4. CASE j > i
        <5>1. j + 1 \in i + 2 .. n + 1 /\ j + 1 \in 1 .. n + 1 /\ (j + 1) - 1 = j
          BY <1>1, <4>4
        <5>2. new[j + 1] = bs[j]
          BY <2>2, <5>1
        <5>. QED
          BY <2>1, <4>1, <5>1, <5>2, UsedIs DEF Used
      <4>. QED
        BY <1>1, <4>2, <4>3, <4>4
    <3>3. Handed(taken) \in Used(new)
      <4>1. i \in 1 .. n + 1
        BY <1>1
      <4>. QED
        BY <1>3, <2>1, <2>2, <4>1, UsedIs DEF Used
    <3>. QED
      BY <3>1, <3>2, <3>3
  <2>11. rest = LeftOver(bs[i], size)
    BY <1>5, <1>8
  <2>. QED
    BY <1>6, <1>8, <2>8, <2>9, <2>10, <2>11 DEF taken, n
<1>. QED
  BY <1>7, <1>8

(* A block behind the others (malloc, free)                                *)
LEMMA AppendTile ==
    ASSUME NEW bs, NEW lo, NEW hi, Tile(bs, lo, hi), Merged(bs),
           NEW b \in BlockType, b.addr = hi,
           Len(bs) > 0 => ~ (bs[Len(bs)].free /\ b.free)
    PROVE  LET new == Append(bs, b)
           IN  /\ Tile(new, lo, EndOf(b)) /\ Merged(new) /\ LastOf(new) = b.addr
               /\ Len(new) = Len(bs) + 1 /\ new[Len(new)] = b
               /\ Used(new) = Used(bs) \cup (IF b.free THEN {} ELSE {Handed(b)})
<1>. DEFINE n == Len(bs)
            new == Append(bs, b)
<1>1. /\ n \in Nat /\ bs \in Seq(BlockType)
      /\ \A j \in 1 .. n : /\ bs[j].addr \in Nat /\ EndOf(bs[j]) \in Nat
                           /\ bs[j].addr < EndOf(bs[j]) /\ EndOf(bs[j]) <= hi
  <2>1. bs \in Seq(BlockType)
    BY DEF Tile
  <2>. QED
    BY <2>1, BlocksAre
<1>2. /\ new \in Seq(BlockType) /\ Len(new) = n + 1
      /\ \A j \in 1 .. n : new[j] = bs[j]
      /\ new[n + 1] = b
  BY <1>1, AppendProperties
<1>3. /\ n = 0 => lo = hi
      /\ n > 0 => bs[1].addr = lo /\ EndOf(bs[n]) = hi
      /\ \A j \in 1 .. n - 1 : /\ bs[j + 1].addr = EndOf(bs[j])
                               /\ ~ (bs[j].free /\ bs[j + 1].free)
      /\ \A j, k \in 1 .. n : j < k => EndOf(bs[j]) <= bs[k].addr
  BY DEF Tile, Merged
<1>4. b.addr \in Nat /\ EndOf(b) \in Nat
  BY UserHeapAssumption DEF BlockType, EndOf
<1>. HIDE DEF n, new
<1>5. new[1].addr = lo
  <2>1. CASE n = 0
    BY <1>2, <1>3, <2>1
  <2>2. CASE n # 0
    <3>1. 1 \in 1 .. n /\ n > 0
      BY <1>1, <2>2
    <3>. QED
      BY <1>2, <1>3, <3>1
  <2>. QED
    BY <2>1, <2>2
<1>6. ASSUME NEW j \in 1 .. n
      PROVE  /\ new[j + 1].addr = EndOf(new[j])
             /\ ~ (new[j].free /\ new[j + 1].free)
  <2>1. CASE j = n
    <3>1. n > 0
      BY <1>1, <2>1
    <3>. QED
      BY <1>2, <1>3, <2>1, <3>1 DEF n
  <2>2. CASE j # n
    <3>1. j \in 1 .. n - 1 /\ j + 1 \in 1 .. n
      BY <1>1, <2>2
    <3>. QED
      BY <1>2, <1>3, <3>1
  <2>. QED
    BY <2>1, <2>2
<1>7. ASSUME NEW j \in 1 .. n + 1, NEW k \in 1 .. n + 1, j < k
      PROVE  EndOf(new[j]) <= new[k].addr
  <2>1. j \in 1 .. n
    BY <1>1, <1>7
  <2>2. CASE k = n + 1
    BY <1>1, <1>2, <2>1, <2>2
  <2>3. CASE k # n + 1
    <3>1. k \in 1 .. n
      BY <1>1, <2>3
    <3>. QED
      BY <1>2, <1>3, <1>7, <2>1, <3>1
  <2>. QED
    BY <2>2, <2>3
<1>8. Len(new) - 1 = n /\ Len(new) # 0
  BY <1>1, <1>2
<1>9. Tile(new, lo, EndOf(b))
  <2>1. \A j \in 1 .. Len(new) - 1 : new[j + 1].addr = EndOf(new[j])
    BY <1>6, <1>8
  <2>2. \A j, k \in 1 .. Len(new) : j < k => EndOf(new[j]) <= new[k].addr
    BY <1>2, <1>7
  <2>3. new[1].addr = lo /\ EndOf(new[Len(new)]) = EndOf(b)
    BY <1>2, <1>5
  <2>. QED
    BY <1>2, <1>8, <2>1, <2>2, <2>3 DEF Tile
<1>10. Merged(new)
  BY <1>6, <1>8 DEF Merged
<1>11. LastOf(new) = b.addr
  BY <1>2, <1>8 DEF LastOf
<1>12. Used(new) = Used(bs) \cup (IF b.free THEN {} ELSE {Handed(b)})
  <2>1. ASSUME NEW x
        PROVE  x \in Used(new) <=> x \in Used(bs) \/ (~ b.free /\ x = Handed(b))
    <3>1. x \in Used(new) <=> \E j \in 1 .. n + 1 : ~ new[j].free /\ x = Handed(new[j])
      BY <1>2, UsedIs DEF Used
    <3>2. x \in Used(bs) <=> \E j \in 1 .. n : ~ bs[j].free /\ x = Handed(bs[j])
      BY UsedIs DEF Used, n
    <3>3. 1 .. n + 1 = (1 .. n) \cup {n + 1}
      BY <1>1
    <3>. QED
      BY <1>2, <3>1, <3>2, <3>3
  <2>. QED
    BY <2>1
<1>. QED
  BY <1>2, <1>9, <1>10, <1>11, <1>12 DEF new, n

(* A free block joins the free one before it (free).                       *)
LEMMA JoinTile ==
    ASSUME NEW bs, NEW lo, NEW hi, Tile(bs, lo, hi), Merged(bs),
           NEW b \in BlockType, b.addr = hi,
           Len(bs) > 0, bs[Len(bs)].free, b.free
    PROVE  LET n == Len(bs)
               new == [bs EXCEPT ![n].size = @ + HEADER_SIZE + b.size]
           IN  /\ Tile(new, lo, EndOf(b)) /\ Merged(new)
               /\ LastOf(new) = LastOf(bs) /\ Len(new) = n /\ new[n].free
               /\ new[n].addr = bs[n].addr
               /\ Used(new) = Used(bs)
<1>. DEFINE n == Len(bs)
            size == bs[n].size + HEADER_SIZE + b.size
            joined == [bs[n] EXCEPT !.size = size]
            new == [bs EXCEPT ![n].size = @ + HEADER_SIZE + b.size]
<1>1. /\ n \in Nat /\ bs \in Seq(BlockType) /\ n \in 1 .. n
      /\ bs[n] \in BlockType
      /\ \A j \in 1 .. n : EndOf(bs[j]) <= hi
  <2>1. bs \in Seq(BlockType)
    BY DEF Tile
  <2>2. n \in Nat /\ n > 0
    BY <2>1, LenProperties
  <2>3. n \in 1 .. n
    BY <2>2
  <2>4. bs[n] \in BlockType /\ \A j \in 1 .. n : EndOf(bs[j]) <= hi
    <3>. HIDE DEF n
    <3>. QED
      BY <2>3, BlocksAre DEF n
  <2>. QED
    BY <2>1, <2>2, <2>3, <2>4
<1>2. /\ bs[1].addr = lo /\ EndOf(bs[n]) = hi
      /\ \A j \in 1 .. n - 1 : /\ bs[j + 1].addr = EndOf(bs[j])
                               /\ ~ (bs[j].free /\ bs[j + 1].free)
      /\ \A j, k \in 1 .. n : j < k => EndOf(bs[j]) <= bs[k].addr
  BY DEF Tile, Merged
<1>3. /\ joined \in BlockType /\ joined.addr = bs[n].addr
      /\ joined.free = bs[n].free /\ joined.size = size
  <2>1. size \in Nat
    BY <1>1, UserHeapAssumption DEF BlockType
  <2>. HIDE DEF size
  <2>. QED
    BY <1>1, <2>1 DEF BlockType
<1>4. EndOf(joined) = EndOf(b)
  <2>1. /\ bs[n].addr \in Nat /\ bs[n].size \in Nat /\ b.size \in Nat
        /\ b.addr = bs[n].addr + HEADER_SIZE + bs[n].size
    BY <1>1, <1>2 DEF BlockType, EndOf
  <2>. HIDE DEF joined
  <2>2. HEADER_SIZE \in Nat
    BY UserHeapAssumption
  <2>3. EndOf(joined) = bs[n].addr + HEADER_SIZE + (bs[n].size + HEADER_SIZE + b.size)
    BY ONLY <1>3 DEF EndOf
  <2>4. EndOf(b) = bs[n].addr + HEADER_SIZE + bs[n].size + HEADER_SIZE + b.size
    BY ONLY <2>1 DEF EndOf
  <2>. QED
    BY ONLY <2>1, <2>2, <2>3, <2>4
<1>5. new = [bs EXCEPT ![n] = joined]
  OBVIOUS
<1>. HIDE DEF joined, new, n
<1>6. /\ new \in Seq(BlockType) /\ Len(new) = n
      /\ \A j \in 1 .. n : new[j] = IF j = n THEN joined ELSE bs[j]
  <2>1. n \in 1 .. Len(bs)
    BY <1>1 DEF n
  <2>. QED
    BY <1>1, <1>3, <1>5, <2>1, ExceptSeq DEF n
<1>7. new[n] = joined /\ \A j \in 1 .. n : new[j].addr = bs[j].addr
                                           /\ new[j].free = bs[j].free
                                           /\ (j < n => new[j] = bs[j])
  BY <1>1, <1>3, <1>6
<1>8. \A j \in 1 .. n - 1 : j \in 1 .. n /\ j + 1 \in 1 .. n /\ j < n
  BY <1>1
<1>9. Tile(new, lo, EndOf(b))
  <2>1. \A j \in 1 .. n - 1 : new[j + 1].addr = EndOf(new[j])
    BY <1>2, <1>7, <1>8
  <2>2. ASSUME NEW j \in 1 .. n, NEW k \in 1 .. n, j < k
        PROVE  EndOf(new[j]) <= new[k].addr
    <3>1. j < n
      BY <1>1, <2>2
    <3>. QED
      BY <1>2, <1>7, <2>2, <3>1
  <2>3. new[1].addr = lo /\ n # 0
    <3>1. 1 \in 1 .. n /\ n # 0
      BY <1>1
    <3>. QED
      BY <1>2, <1>7, <3>1
  <2>. QED
    BY <1>4, <1>6, <1>7, <2>1, <2>2, <2>3 DEF Tile
<1>10. Merged(new)
  BY <1>2, <1>6, <1>7, <1>8 DEF Merged
<1>11. LastOf(new) = LastOf(bs)
  BY <1>1, <1>6, <1>7 DEF LastOf, n
<1>12. Used(new) = Used(bs)
  <2>1. ASSUME NEW j \in 1 .. n
        PROVE  /\ new[j].free = bs[j].free
               /\ ~ bs[j].free => new[j] = bs[j]
    <3>1. bs[n].free
      BY DEF n
    <3>2. j # n => j < n
      BY <1>1
    <3>. QED
      BY <1>7, <3>1, <3>2
  <2>2. ASSUME NEW x PROVE x \in Used(new) <=> x \in Used(bs)
    <3>1. x \in Used(new) <=> \E j \in 1 .. n : ~ new[j].free /\ x = Handed(new[j])
      BY <1>6, UsedIs DEF Used
    <3>2. x \in Used(bs) <=> \E j \in 1 .. n : ~ bs[j].free /\ x = Handed(bs[j])
      BY UsedIs DEF Used, n
    <3>. QED
      BY <2>1, <3>1, <3>2
  <2>. QED
    BY <2>2
<1>13. new[n].free /\ new[n].addr = bs[n].addr
  BY <1>1, <1>7 DEF n
<1>. QED
  BY <1>6, <1>9, <1>10, <1>11, <1>12, <1>13 DEF new, n

HeapType == [blocks : Seq(BlockType), tail : Nat]

(* Merging keeps the shape of a heap.                                      *)
LEMMA MergeType ==
    ASSUME NEW w \in HeapType, NEW b \in BlockType
    PROVE  MergeInto(w, b) \in HeapType
<1>. DEFINE n == Len(w.blocks)
            new == [w.blocks EXCEPT ![n].size = @ + HEADER_SIZE + b.size]
<1>1. w.blocks \in Seq(BlockType) /\ w.tail \in Nat /\ b.addr \in Nat
  BY DEF HeapType, BlockType
<1>2. CASE n > 0 /\ w.blocks[n].free /\ b.free
  <2>1. n \in 1 .. n /\ n \in Nat
    BY <1>1, <1>2, LenProperties
  <2>2. w.blocks[n] \in BlockType
    BY <1>1, <2>1, ElementOfSeq
  <2>. DEFINE joined == [w.blocks[n] EXCEPT !.size = @ + HEADER_SIZE + b.size]
  <2>3. joined \in BlockType
    <3>1. w.blocks[n].size + HEADER_SIZE + b.size \in Nat
      <4>1. \A x \in BlockType : x.size \in Nat
        BY ONLY DEF BlockType
      <4>2. b \in BlockType
        OBVIOUS
      <4>3. w.blocks[n].size \in Nat
        BY ONLY <2>2, <4>1
      <4>4. b.size \in Nat
        BY ONLY <4>1, <4>2
      <4>5. HEADER_SIZE \in Nat
        BY ONLY UserHeapAssumption
      <4>6. \A x, y, z \in Nat : x + y + z \in Nat
        OBVIOUS
      <4>. QED
        BY ONLY <4>3, <4>4, <4>5, <4>6, Zenon
    <3>. QED
      BY <2>2, <3>1 DEF BlockType
  <2>4. new = [w.blocks EXCEPT ![n] = joined]
    OBVIOUS
  <2>. HIDE DEF joined, new
  <2>5. new \in Seq(BlockType)
    BY <1>1, <2>1, <2>3, <2>4, ExceptSeq
  <2>6. MergeInto(w, b)
            = [blocks |-> new,
               tail |-> IF w.tail = b.addr THEN w.blocks[n].addr ELSE w.tail]
    BY <1>2 DEF MergeInto, new
  <2>7. w.blocks[n].addr \in Nat
    BY <2>2 DEF BlockType
  <2>. HIDE DEF n
  <2>. QED
    BY <1>1, <2>5, <2>6, <2>7 DEF HeapType
<1>3. CASE ~ (n > 0 /\ w.blocks[n].free /\ b.free)
  <2>1. MergeInto(w, b) = [w EXCEPT !.blocks = Append(@, b)]
    BY <1>3 DEF MergeInto
  <2>2. Append(w.blocks, b) \in Seq(BlockType)
    BY <1>1, AppendProperties
  <2>. QED
    BY <2>1, <2>2 DEF HeapType
<1>. QED
  BY <1>2, <1>3

(* A heap w with one block more, merged with a free one before it *)
WithBlock(r, w, lo, b) ==
    LET n == Len(r.blocks)
    IN  /\ Tile(r.blocks, lo, EndOf(b)) /\ Merged(r.blocks)
        /\ n > 0 /\ r.blocks[n].free = b.free
        /\ r.tail = IF w.tail = b.addr THEN LastOf(r.blocks) ELSE w.tail
        /\ Used(r.blocks) = Used(w.blocks) \cup (IF b.free THEN {} ELSE {Handed(b)})

(* is what a step of the loop makes (free).                                *)
LEMMA MergeTile ==
    ASSUME NEW w \in HeapType, NEW lo, NEW hi,
           Tile(w.blocks, lo, hi), Merged(w.blocks),
           NEW b \in BlockType, b.addr = hi
    PROVE  WithBlock(MergeInto(w, b), w, lo, b)
<1>. DEFINE bs == w.blocks
            n == Len(bs)
            r == MergeInto(w, b)
<1>1. bs \in Seq(BlockType) /\ n \in Nat
  BY LenProperties DEF HeapType
<1>2. CASE n > 0 /\ bs[n].free /\ b.free
  <2>. DEFINE new == [bs EXCEPT ![n].size = @ + HEADER_SIZE + b.size]
  <2>1. /\ Tile(new, lo, EndOf(b)) /\ Merged(new)
        /\ LastOf(new) = LastOf(bs) /\ Len(new) = n /\ new[n].free
        /\ new[n].addr = bs[n].addr /\ Used(new) = Used(bs)
    <3>. HIDE DEF bs
    <3>1. /\ Tile(bs, lo, hi) /\ Merged(bs) /\ b \in BlockType /\ b.addr = hi
          /\ Len(bs) > 0 /\ bs[Len(bs)].free /\ b.free
      BY <1>2 DEF bs
    <3>. QED
      BY ONLY <3>1, JoinTile
  <2>2. r = [blocks |-> new,
             tail |-> IF w.tail = b.addr THEN bs[n].addr ELSE w.tail]
    BY <1>2 DEF MergeInto
  <2>3. LastOf(bs) = bs[n].addr
    BY <1>2 DEF LastOf
  <2>4. new[n].free = b.free
    <3>1. n \in 1 .. Len(new)
      BY <1>1, <1>2, <2>1
    <3>2. new[n].free \in BOOLEAN
      <4>. HIDE DEF new, n
      <4>. QED
        BY <2>1, <3>1, BlocksAre
    <3>3. b.free \in BOOLEAN
      BY DEF BlockType
    <3>. HIDE DEF new
    <3>. QED
      BY <1>2, <2>1, <3>2, <3>3
  <2>. HIDE DEF new, r, n
  <2>5. r.blocks = new /\ Len(r.blocks) = n
    BY <2>1, <2>2
  <2>6. r.tail = IF w.tail = b.addr THEN LastOf(r.blocks) ELSE w.tail
    BY <2>1, <2>2, <2>3, <2>5
  <2>7. Used(r.blocks) = Used(bs) \cup (IF b.free THEN {} ELSE {Handed(b)})
    BY <1>2, <2>1, <2>5
  <2>. QED
    BY <1>2, <2>1, <2>4, <2>5, <2>6, <2>7 DEF r, WithBlock
<1>3. CASE ~ (n > 0 /\ bs[n].free /\ b.free)
  <2>. DEFINE new == Append(bs, b)
  <2>1. /\ Tile(new, lo, EndOf(b)) /\ Merged(new) /\ LastOf(new) = b.addr
        /\ Len(new) = n + 1 /\ new[Len(new)] = b
        /\ Used(new) = Used(bs) \cup (IF b.free THEN {} ELSE {Handed(b)})
    BY <1>3, AppendTile
  <2>2. r = [w EXCEPT !.blocks = Append(@, b)]
    BY <1>3 DEF MergeInto
  <2>3. r.blocks = new /\ r.tail = w.tail
    <3>. HIDE DEF r
    <3>. QED
      BY <2>2 DEF HeapType
  <2>. HIDE DEF new, r, n
  <2>4. Len(r.blocks) > 0 /\ r.blocks[Len(r.blocks)].free = b.free
    BY <1>1, <2>1, <2>3
  <2>5. r.tail = IF w.tail = b.addr THEN LastOf(r.blocks) ELSE w.tail
    BY <2>1, <2>3
  <2>. QED
    BY <2>1, <2>3, <2>4, <2>5 DEF r, WithBlock
<1>. QED
  BY <1>2, <1>3

(* The heaps of the loop one after the other (free) *)
MergeRun(g, u, ms) ==
    /\ g \in [0 .. Len(ms) -> HeapType]
    /\ g[0] = [u EXCEPT !.blocks = <<>>]
    /\ \A n \in 1 .. Len(ms) : g[n] = MergeInto(g[n - 1], ms[n])
    /\ MergeRuns(u, ms) = g[Len(ms)]

(* All of them are there (free).                                           *)
LEMMA MergeSteps ==
    ASSUME NEW u, u \in HeapType, NEW ms, ms \in Seq(BlockType)
    PROVE  \E g : MergeRun(g, u, ms)
<1>1. PICK k \in Nat : k = Len(ms)
  BY LenProperties
<1>2. PICK w \in HeapType : w = [u EXCEPT !.blocks = <<>>]
  <2>1. <<>> \in Seq(BlockType)
    BY EmptySeq
  <2>. QED
    BY <2>1 DEF HeapType
<1>. DEFINE S == HeapType
            F == [n \in 1 .. k |-> [c \in S |-> MergeInto(c, ms[n])]]
            Is(g) == g = [n \in 0 .. k |->
                        IF n = 0 THEN w ELSE MergeInto(g[n - 1], ms[n])]
            after == CHOOSE g : Is(g)
<1>3. w \in S /\ k \in Nat
  OBVIOUS
<1>4. F \in [1 .. k -> [S -> S]]
  <2>1. \A n \in 1 .. k : ms[n] \in BlockType
    BY <1>1, ElementOfSeq
  <2>. QED
    BY <2>1, MergeType
<1>5. \A n \in 1 .. k, c \in S : F[n][c] = MergeInto(c, ms[n])
  OBVIOUS
<1>. HIDE DEF S, F
<1>6. PICK g \in [0 .. k -> S] :
          g[0] = w /\ \A n \in 1 .. k : g[n] = F[n][g[n - 1]]
  BY ONLY <1>3, <1>4, Iteration
<1>7. Is(g)
  <2>1. \A n \in 0 .. k : g[n] = IF n = 0 THEN w ELSE MergeInto(g[n - 1], ms[n])
    BY <1>3, <1>5, <1>6
  <2>. QED
    BY <1>6, <2>1
<1>8. Is(after)
  <2>. HIDE DEF Is
  <2>. QED
    BY <1>7
<1>9. MergeRuns(u, ms) = after[k]
  BY <1>1, <1>2 DEF MergeRuns
<1>. HIDE DEF after
<1>10. after = g
  <2>1. ASSUME NEW n \in 1 .. k, after[n - 1] = g[n - 1] PROVE after[n] = g[n]
    <3>1. n \in 0 .. k /\ n # 0
      OBVIOUS
    <3>2. after[n] = MergeInto(after[n - 1], ms[n])
      BY <1>8, <3>1
    <3>3. g[n] = MergeInto(g[n - 1], ms[n])
      BY <1>7, <3>1
    <3>. QED
      BY <2>1, <3>2, <3>3
  <2>. DEFINE T == {n \in 0 .. k : after[n] = g[n]}
  <2>2. 0 \in T
    BY <1>7, <1>8
  <2>3. 0 .. k \subseteq T
    <3>1. \A n \in 1 .. k : n - 1 \in T => n \in T
      BY <2>1
    <3>. HIDE DEF T
    <3>. QED
      BY <2>2, <3>1, UpTo
  <2>4. \A n \in 0 .. k : after[n] = g[n]
    BY <2>3
  <2>. QED
    BY <1>6, <1>8, <2>4
<1>11. \A n \in 1 .. k : g[n] = MergeInto(g[n - 1], ms[n])
  BY <1>7
<1>12. g \in [0 .. k -> HeapType] /\ g[0] = w
  BY <1>6 DEF S
<1>13. MergeRun(g, u, ms)
  BY <1>1, <1>2, <1>9, <1>10, <1>11, <1>12 DEF MergeRun
<1>. QED
  BY <1>13

(* free: the block of a pointer that is in use is in use no longer, the    *)
(* others are, and the blocks tile the heap without free neighbours.       *)
LEMMA FreeHeap ==
    ASSUME NEW u, NEW lo, NEW hi, AllocatorOK(u, lo, hi),
           NEW b \in Used(u.blocks)
    PROVE  /\ AllocatorOK(free(u, b.ptr), lo, hi)
           /\ Used(free(u, b.ptr).blocks) = Used(u.blocks) \ {b}
<1>. DEFINE bs == u.blocks
            n == Len(bs)
<1>1. /\ Tile(bs, lo, hi) /\ Merged(bs) /\ u.tail = LastOf(bs)
      /\ u = [blocks |-> bs, tail |-> LastOf(bs)]
      /\ lo \in Nat \ {0} /\ hi \in Nat
  BY DEF AllocatorOK
<1>2. /\ n \in Nat /\ DOMAIN bs = 1 .. n
      /\ \A i \in 1 .. n : /\ bs[i] \in BlockType /\ bs[i].addr \in Nat
                           /\ block_payload(bs[i]) = bs[i].addr + HEADER_SIZE
      /\ \A i, j \in 1 .. n : bs[i].addr = bs[j].addr => i = j
  BY <1>1, BlocksAre
<1>3. PICK i \in 1 .. n : ~ bs[i].free /\ b = Handed(bs[i])
  BY UsedIs DEF Used
<1>4. b.ptr = block_payload(bs[i])
  BY <1>3 DEF Handed
<1>5. payload_block(u, b.ptr) = i
  BY <1>1, <1>3, <1>4, PayloadIs
<1>. DEFINE ms == [bs EXCEPT ![i].free = TRUE]
            loose == [bs[i] EXCEPT !.free = TRUE]
<1>6. free(u, b.ptr) = MergeRuns(u, ms)
  BY <1>5 DEF free
<1>7. /\ loose \in BlockType /\ loose.free /\ loose.addr = bs[i].addr
      /\ EndOf(loose) = EndOf(bs[i])
  <2>1. bs[i] \in BlockType
    BY <1>2
  <2>. QED
    BY <2>1 DEF BlockType, EndOf
<1>8. /\ ms \in Seq(BlockType) /\ Len(ms) = n
      /\ \A j \in 1 .. n : ms[j] = IF j = i THEN loose ELSE bs[j]
  <2>1. ms = [bs EXCEPT ![i] = loose]
    OBVIOUS
  <2>2. bs \in Seq(BlockType) /\ i \in 1 .. Len(bs)
    BY <1>1 DEF Tile
  <2>. HIDE DEF ms, loose, bs
  <2>. QED
    BY <1>7, <2>1, <2>2, ExceptSeq DEF n
<1>. DEFINE w == [u EXCEPT !.blocks = <<>>]
<1>9. u \in HeapType /\ w = [blocks |-> <<>>, tail |-> u.tail] /\ w \in HeapType
  <2>1. u.tail \in Nat
    BY <1>1, <1>2 DEF LastOf
  <2>2. bs \in Seq(BlockType) /\ <<>> \in Seq(BlockType)
    BY <1>1, EmptySeq DEF Tile
  <2>3. w = [blocks |-> <<>>, tail |-> u.tail]
    BY <1>1
  <2>. QED
    BY <1>1, <2>1, <2>2, <2>3 DEF HeapType
<1>10. PICK g : /\ g \in [0 .. n -> HeapType] /\ g[0] = w
                /\ \A k \in 1 .. n : g[k] = MergeInto(g[k - 1], ms[k])
                /\ MergeRuns(u, ms) = g[n]
  <2>. HIDE DEF ms, n
  <2>1. PICK g : MergeRun(g, u, ms)
    BY <1>8, <1>9, MergeSteps
  <2>. QED
    BY <1>8, <1>9, <2>1 DEF MergeRun
<1>11. /\ 1 <= i /\ i <= n /\ n > 0 /\ n \in 1 .. n
       /\ bs[1].addr = lo /\ EndOf(bs[n]) = hi
       /\ \A j \in 1 .. n - 1 : bs[j + 1].addr = EndOf(bs[j])
       /\ u.tail = bs[n].addr
  <2>1. 1 <= i /\ i <= n /\ n > 0 /\ n # 0 /\ n \in 1 .. n
    BY <1>2
  <2>. QED
    BY <1>1, <2>1 DEF Tile, LastOf
<1>. HIDE DEF ms, loose, bs, n, w
<1>12. \A j \in 1 .. n : /\ ms[j] \in BlockType /\ ms[j].addr = bs[j].addr
                         /\ EndOf(ms[j]) = EndOf(bs[j])
                         /\ j # i => ms[j] = bs[j]
                         /\ j = i => ms[j].free
  BY <1>2, <1>7, <1>8
<1>. DEFINE at(k) == IF k = 0 THEN lo ELSE EndOf(bs[k])
            So(k) == LET x == g[k]
                     IN  /\ Tile(x.blocks, lo, at(k)) /\ Merged(x.blocks)
                         /\ x.tail = IF k < n THEN u.tail ELSE LastOf(x.blocks)
                         /\ Used(x.blocks) = UsedUpTo(ms, k)
            T == {k \in 0 .. n : So(k)}
<1>13. 0 \in T
  <2>1. g[0].blocks = <<>> /\ g[0].tail = u.tail
    BY <1>9, <1>10
  <2>2. Len(<<>>) = 0 /\ <<>> \in Seq(BlockType)
    BY EmptySeq
  <2>3. Tile(<<>>, lo, lo) /\ Merged(<<>>)
    BY <2>2 DEF Tile, Merged
  <2>4. Used(<<>>) = {} /\ UsedUpTo(ms, 0) = {}
    BY <2>2 DEF Used, UsedUpTo
  <2>5. at(0) = lo /\ 0 < n /\ 0 \in 0 .. n
    BY <1>2, <1>11
  <2>. HIDE DEF at
  <2>. QED
    BY <2>1, <2>3, <2>4, <2>5
<1>14. ASSUME NEW k \in 1 .. n, k - 1 \in T PROVE k \in T
  <2>. DEFINE x == g[k - 1]
              y == g[k]
  <2>1. /\ x \in HeapType /\ y = MergeInto(x, ms[k])
        /\ k \in 0 .. n /\ k - 1 \in 0 .. n /\ k - 1 < n
    BY <1>2, <1>10
  <2>2. /\ Tile(x.blocks, lo, at(k - 1)) /\ Merged(x.blocks)
        /\ x.tail = u.tail /\ Used(x.blocks) = UsedUpTo(ms, k - 1)
    BY <1>14, <2>1
  <2>3. ms[k] \in BlockType /\ ms[k].addr = at(k - 1) /\ EndOf(ms[k]) = at(k)
    <3>1. CASE k = 1
      BY <1>11, <1>12, <3>1
    <3>2. CASE k # 1
      <4>1. k - 1 \in 1 .. n - 1 /\ (k - 1) + 1 = k /\ k - 1 # 0 /\ k # 0
        BY <1>2, <3>2
      <4>2. bs[k].addr = EndOf(bs[k - 1])
        BY <1>11, <4>1
      <4>. QED
        BY <1>12, <4>1, <4>2
    <3>. QED
      BY <3>1, <3>2
  <2>. HIDE DEF x, at
  <2>4. /\ Tile(y.blocks, lo, at(k)) /\ Merged(y.blocks) /\ Len(y.blocks) > 0
        /\ y.tail = IF x.tail = ms[k].addr THEN LastOf(y.blocks) ELSE x.tail
        /\ Used(y.blocks)
               = Used(x.blocks) \cup (IF ms[k].free THEN {} ELSE {Handed(ms[k])})
    <3>. HIDE DEF y
    <3>. QED
      <4>1. WithBlock(y, x, lo, ms[k])
        BY <2>1, <2>2, <2>3, MergeTile
      <4>. QED
        BY <2>3, <4>1 DEF WithBlock
  <2>5. x.tail = ms[k].addr <=> k = n
    BY <1>2, <1>11, <1>12, <2>2
  <2>6. y.tail = IF k < n THEN u.tail ELSE LastOf(y.blocks)
    BY <1>2, <2>2, <2>4, <2>5
  <2>7. Used(y.blocks) = UsedUpTo(ms, k)
    <3>1. 1 .. k = (1 .. k - 1) \cup {k}
      BY <1>2
    <3>2. ASSUME NEW z
          PROVE  z \in UsedUpTo(ms, k)
                     <=> z \in UsedUpTo(ms, k - 1)
                         \/ (~ ms[k].free /\ z = Handed(ms[k]))
      <4>1. z \in UsedUpTo(ms, k)
                <=> \E j \in 1 .. k : ~ ms[j].free /\ z = Handed(ms[j])
        BY UsedIs
      <4>2. z \in UsedUpTo(ms, k - 1)
                <=> \E j \in 1 .. k - 1 : ~ ms[j].free /\ z = Handed(ms[j])
        BY UsedIs
      <4>. QED
        BY <3>1, <4>1, <4>2
    <3>. QED
      BY <2>2, <2>4, <3>2
  <2>. QED
    BY <2>1, <2>4, <2>6, <2>7
<1>15. n \in T
  <2>1. 0 .. n \subseteq T
    <3>. HIDE DEF T
    <3>. QED
      BY <1>2, <1>13, <1>14, UpTo
  <2>2. n \in 0 .. n
    BY <1>2
  <2>. HIDE DEF T
  <2>. QED
    BY <2>1, <2>2
<1>16. UsedUpTo(ms, n) = Used(bs) \ {b}
  <2>1. ASSUME NEW z
        PROVE  z \in UsedUpTo(ms, n) <=> z \in Used(bs) /\ z # b
    <3>1. z \in UsedUpTo(ms, n)
              <=> \E j \in 1 .. n : ~ ms[j].free /\ z = Handed(ms[j])
      BY UsedIs
    <3>2. z \in Used(bs) <=> \E j \in 1 .. n : ~ bs[j].free /\ z = Handed(bs[j])
      BY UsedIs DEF Used, n
    <3>3. ASSUME NEW j \in 1 .. n, j # i PROVE Handed(bs[j]) # b
      <4>1. bs[j].addr # bs[i].addr
        BY <1>2, <3>3
      <4>2. block_payload(bs[j]) # block_payload(bs[i])
        BY <1>2, <4>1, UserHeapAssumption
      <4>3. Handed(bs[j]).ptr = block_payload(bs[j])
        BY DEF Handed
      <4>. QED
        BY <1>4, <4>2, <4>3
    <3>. QED
      BY <1>3, <1>12, <3>1, <3>2, <3>3
  <2>. QED
    BY <2>1
<1>17. /\ g[n] = free(u, b.ptr) /\ g[n] \in HeapType
       /\ at(n) = hi /\ ~ (n < n) /\ So(n)
  <2>1. g[n] = free(u, b.ptr) /\ g[n] \in HeapType
    BY <1>2, <1>6, <1>10
  <2>2. at(n) = hi
    BY <1>11
  <2>3. ~ (n < n)
    BY <1>2
  <2>4. So(n)
    BY <1>15
  <2>. HIDE DEF So, at
  <2>. QED
    BY <2>1, <2>2, <2>3, <2>4
<1>. HIDE DEF at
<1>18. LET x == g[n]
       IN  /\ Tile(x.blocks, lo, hi) /\ Merged(x.blocks)
           /\ x.tail = LastOf(x.blocks) /\ Used(x.blocks) = UsedUpTo(ms, n)
           /\ x = [blocks |-> x.blocks, tail |-> x.tail]
  <2>1. g[n] = [blocks |-> g[n].blocks, tail |-> g[n].tail]
    BY <1>17 DEF HeapType
  <2>. QED
    BY <1>17, <2>1
<1>. QED
  BY <1>1, <1>16, <1>17, <1>18 DEF AllocatorOK, bs

-----------------------------------------------------------------------------
(* Requests                                                                *)

(* What a program may ask for without a size that wraps: see the README *)
Askable(bytes) == bytes \in Nat /\ bytes + ALIGN + HEADER_SIZE < Word \div 2

(* Such a request is rounded up to a block that is as large (malloc).      *)
LEMMA RoundUpIs ==
    ASSUME NEW bytes, Askable(bytes), bytes # 0
    PROVE  LET size == RoundUp(bytes)
           IN  /\ size \in Nat \ {0} /\ bytes <= size
               /\ (size + MIN_SPLIT) % Word = size + HEADER_SIZE + ALIGN
               /\ Signed((HEADER_SIZE + size) % Word) = HEADER_SIZE + size
               /\ HEADER_SIZE + size < Word
<1>. DEFINE A == ALIGN
            h == HEADER_SIZE
            H == Word \div 2
            s == bytes + A - 1
            r == s % A
            size == RoundUp(bytes)
<1>1. /\ A \in Nat \ {0} /\ h \in Nat \ {0} /\ Word \in Nat \ {0}
      /\ bytes \in Nat \ {0}
  BY SpaceNumbers, UserHeapAssumption DEF Askable
<1>2. H \in Nat /\ H + H <= Word
  BY <1>1
<1>3. bytes + A + h < H
  BY DEF Askable
<1>. HIDE DEF A, h, H
<1>4. s \in Nat /\ s >= A /\ 0 <= s /\ s < Word
  BY <1>1, <1>2, <1>3
<1>. HIDE DEF s
<1>5. s % Word = s
  BY <1>1, <1>4
<1>6. r \in Nat /\ r < A
  BY <1>1, <1>4
<1>7. size = s - r
  BY <1>5 DEF RoundUp, A, s
<1>. HIDE DEF size, r
<1>8. size \in Nat \ {0} /\ bytes <= size /\ size < bytes + A
  BY <1>1, <1>4, <1>6, <1>7 DEF s
<1>9. size + h + A < Word /\ h + size < H /\ h + size \in Nat /\ size + h + A \in Nat
      /\ h + size < Word
  BY <1>1, <1>2, <1>3, <1>8
<1>10. (size + MIN_SPLIT) % Word = size + h + A
  <2>1. size + MIN_SPLIT = size + h + A
    BY <1>1, <1>8 DEF MIN_SPLIT, h, A
  <2>. DEFINE z == size + h + A
  <2>. HIDE DEF z
  <2>2. z % Word = z
    <3>1. z \in Nat /\ z < Word
      BY <1>9 DEF z
    <3>. QED
      BY <1>1, <3>1
  <2>. QED
    BY <2>1, <2>2 DEF z
<1>11. Signed((h + size) % Word) = h + size
  <2>. DEFINE z == h + size
  <2>. HIDE DEF z
  <2>1. z \in Nat /\ z < Word /\ z < H
    BY <1>9 DEF z
  <2>2. z % Word = z
    BY <1>1, <2>1
  <2>3. Signed(z) = z
    BY <2>1 DEF Signed, H
  <2>. QED
    BY <2>2, <2>3 DEF z
<1>. QED
  BY <1>8, <1>9, <1>10, <1>11 DEF size, h, A

(* A sum of two words, and one that wraps around (task_sbrk)               *)
LEMMA WrapIs ==
    ASSUME NEW w \in Nat \ {0}, NEW a \in Nat, NEW c \in Nat, a < w, c < w
    PROVE  (a + c + w) % w = IF a + c < w THEN a + c ELSE a + c - w
<1>. DEFINE x == a + c
<1>1. x \in Nat /\ x < w + w
  OBVIOUS
<1>. HIDE DEF x
<1>2. (x + w) % w = IF x < w THEN x ELSE x - w
  BY <1>1
<1>. QED
  BY <1>2 DEF x

(* A sbrk moves the break by what was asked for, or not at all (task_sbrk).*)
LEMMA SbrkMoves ==
    ASSUME NEW m, NEW t, NEW X, NEW b, CallOK(m, t, X, b), NEW inc \in Nat \ {0},
           m.space.brk <= USER_HEAP_LIMIT, inc < Word
    PROVE  LET r == task_sbrk(m, inc)
           IN  /\ r.space.brk_start = m.space.brk_start
               /\ r.space.brk = IF r.ok THEN m.space.brk + inc ELSE m.space.brk
<1>. DEFINE s == m.space
            brk == (s.brk + inc + Word) % Word
            r == task_sbrk(m, inc)
            c == task_copy_to_user(m, s.brk, brk - s.brk, TRUE)
<1>1. m \in CallType /\ s \in SpaceType /\ s.brk \in Nat /\ s.brk_start \in Nat
  BY DEF CallOK, CallType, SpaceType
<1>2. /\ Word \in Nat \ {0} /\ s.brk < Word
  <2>1. USER_HEAP_LIMIT < Word
    BY Layout, SpaceNumbers, SpaceAssumption DEF USER_HEAP_LIMIT
  <2>. QED
    BY <1>1, <2>1, Layout, SpaceNumbers
<1>3. brk \in Nat /\ brk = IF s.brk + inc < Word THEN s.brk + inc
                           ELSE s.brk + inc - Word
  <2>1. brk = IF s.brk + inc < Word THEN s.brk + inc ELSE s.brk + inc - Word
    <3>. HIDE DEF s
    <3>. QED
      BY <1>1, <1>2, WrapIs
  <2>. HIDE DEF brk
  <2>. QED
    BY <1>1, <1>2, <2>1
<1>4. r = MoveBrk(m, brk, inc > 0) /\ inc > 0
  BY DEF task_sbrk
<1>. HIDE DEF r, brk
<1>5. CASE r = Fail(m)
  BY <1>1, <1>5, FailIs DEF r
<1>6. CASE r # Fail(m)
  <2>1. /\ ~ (brk < s.brk)
        /\ r = SetBrk(IF brk <= s.brk THEN m ELSE c, brk)
    BY <1>4, <1>6 DEF MoveBrk
  <2>2. brk = s.brk + inc /\ s.brk < brk /\ brk - s.brk \in Nat
    BY <1>1, <1>2, <1>3, <2>1
  <2>3. r = SetBrk(c, brk)
    <3>1. ~ (brk <= s.brk)
      BY <1>1, <1>3, <2>2
    <3>. HIDE DEF c, s
    <3>. QED
      BY <2>1, <3>1
  <2>4. /\ CallOK(c, t, X, b)
        /\ Mapped(m, c, PagesIn(s.brk, brk - s.brk), TRUE)
    <3>. HIDE DEF s
    <3>. QED
      BY <1>1, <2>2, CopyOK, CopyMaps
  <2>. HIDE DEF c
  <2>5. c.space.brk_start = s.brk_start /\ c.space.brk = s.brk
    BY <2>4 DEF Mapped
  <2>6. CASE c.ok
    <3>. DEFINE s2 == [c.space EXCEPT !.brk = brk]
    <3>1. r = [c EXCEPT !.space = s2]
      BY <2>3, <2>6 DEF SetBrk
    <3>2. c \in CallType /\ c.space \in SpaceType
      BY <2>4 DEF CallOK, CallType
    <3>3. s2.brk = brk /\ s2.brk_start = c.space.brk_start
      BY <3>2 DEF SpaceType
    <3>. HIDE DEF s2
    <3>4. r.space = s2 /\ r.ok
      BY <2>6, <3>1, <3>2 DEF CallType
    <3>. QED
      BY <2>2, <2>5, <3>3, <3>4 DEF r
  <2>7. CASE ~ c.ok
    <3>1. r = c
      BY <2>3, <2>7 DEF SetBrk
    <3>. QED
      BY <2>5, <2>7, <3>1 DEF r
  <2>. QED
    BY <2>6, <2>7
<1>. QED
  BY <1>5, <1>6

-----------------------------------------------------------------------------
(* What malloc, calloc and realloc do to a heap                            *)

(* A new block of at least this size is in use at ptr, the others as       *)
(* before; or nothing has changed. *)
Hands(out, used, lo, bytes) ==
    LET u == out.u
    IN  /\ AllocatorOK(u, lo, out.m.space.brk) /\ out.m.space.brk_start = lo
        /\ out.ptr = 0 => Used(u.blocks) = used
        /\ out.ptr # 0 => \E size \in Nat :
               /\ bytes <= size
               /\ Used(u.blocks) = used \cup {[ptr |-> out.ptr, size |-> size]}
               /\ \A b \in used : b.ptr # out.ptr

(* A heap with its block in front of which it may end (malloc) *)
HeapOf(m, u) == AllocatorOK(u, m.space.brk_start, m.space.brk)

(* A block with another size and use                                       *)
LEMMA BothFields ==
    ASSUME NEW x, x \in BlockType, NEW f, NEW z
    PROVE  [x EXCEPT !.free = f, !.size = z]
               = [addr |-> x.addr, size |-> z, free |-> f]
<1>. DEFINE y == [x EXCEPT !.free = f]
<1>1. x = [addr |-> x.addr, size |-> x.size, free |-> x.free]
  BY DEF BlockType
<1>2. y = [addr |-> x.addr, size |-> x.size, free |-> f]
  BY <1>1
<1>3. [x EXCEPT !.free = f, !.size = z] = [y EXCEPT !.size = z]
  BY SMT
<1>. HIDE DEF y
<1>. QED
  BY <1>2, <1>3

(* malloc takes the first block that is free and large enough.             *)
LEMMA TakeHands ==
    ASSUME NEW m, NEW u, HeapOf(m, u), NEW bytes, Askable(bytes), bytes # 0,
           NEW i \in 1 .. Len(u.blocks), u.blocks[i].free,
           u.blocks[i].size >= RoundUp(bytes)
    PROVE  Hands(TakeBlock(m, u, i, RoundUp(bytes)), Used(u.blocks),
                 m.space.brk_start, bytes)
<1>. DEFINE bs == u.blocks
            lo == m.space.brk_start
            hi == m.space.brk
            size == RoundUp(bytes)
            split == bs[i].size >= (size + MIN_SPLIT) % Word
            taken == Taken(bs[i], size, split)
            rest == LeftOver(bs[i], size)
            new == SubSeq(bs, 1, i - 1) \o <<taken>>
                       \o (IF split THEN <<rest>> ELSE <<>>)
                       \o SubSeq(bs, i + 1, Len(bs))
            out == TakeBlock(m, u, i, size)
<1>1. /\ Tile(bs, lo, hi) /\ Merged(bs) /\ u.tail = LastOf(bs)
      /\ lo \in Nat \ {0} /\ hi \in Nat
  BY DEF HeapOf, AllocatorOK
<1>2. /\ bs[i] \in BlockType /\ bs[i].addr \in Nat /\ bs[i].size \in Nat
      /\ bs[i] = [addr |-> bs[i].addr, size |-> bs[i].size, free |-> bs[i].free]
      /\ block_payload(bs[i]) = bs[i].addr + HEADER_SIZE
      /\ \A j \in 1 .. Len(bs) :
             /\ bs[j].addr \in Nat
             /\ block_payload(bs[j]) = bs[j].addr + HEADER_SIZE
      /\ \A j, k \in 1 .. Len(bs) : bs[j].addr = bs[k].addr => j = k
  <2>1. /\ \A j \in 1 .. Len(bs) :
               /\ bs[j] \in BlockType /\ bs[j].addr \in Nat
               /\ block_payload(bs[j]) = bs[j].addr + HEADER_SIZE
        /\ \A j, k \in 1 .. Len(bs) : bs[j].addr = bs[k].addr => j = k
    <3>. HIDE DEF bs, lo, hi, new, split, taken, rest, out, size
    <3>1. Tile(bs, lo, hi)
      BY <1>1
    <3>. QED
      BY ONLY <3>1, BlocksAre
  <2>2. bs[i] \in BlockType
    BY <2>1
  <2>. HIDE DEF bs
  <2>3. bs[i].size \in Nat
        /\ bs[i] = [addr |-> bs[i].addr, size |-> bs[i].size, free |-> bs[i].free]
    BY <2>2 DEF BlockType
  <2>. QED
    BY <2>1, <2>2, <2>3 DEF bs
<1>3. /\ size \in Nat \ {0} /\ bytes <= size /\ bytes \in Nat
      /\ (size + MIN_SPLIT) % Word = size + HEADER_SIZE + ALIGN
      /\ size <= bs[i].size
  BY <1>2, RoundUpIs DEF Askable
<1>4. /\ HEADER_SIZE \in Nat \ {0} /\ ALIGN \in Nat \ {0}
  BY UserHeapAssumption
<1>. HIDE DEF size
<1>5. split \in BOOLEAN /\ (split => size + HEADER_SIZE <= bs[i].size)
  BY <1>2, <1>3, <1>4
<1>6. out = [m |-> m, ptr |-> block_payload(bs[i]),
             u |-> [blocks |-> new,
                    tail |-> IF split /\ u.tail = bs[i].addr THEN rest.addr
                             ELSE u.tail]]
  <2>1. [bs[i] EXCEPT !.free = FALSE, !.size = IF split THEN size ELSE @] = taken
    <3>. DEFINE x == bs[i]
    <3>1. taken = [addr |-> x.addr, size |-> IF split THEN size ELSE x.size,
                   free |-> FALSE]
      BY DEF Taken
    <3>2. x \in BlockType
      BY <1>2
    <3>. HIDE DEF x, taken, split
    <3>. DEFINE z == IF split THEN size ELSE x.size
    <3>. HIDE DEF z
    <3>3. [x EXCEPT !.free = FALSE, !.size = z]
              = [addr |-> x.addr, size |-> z, free |-> FALSE]
      BY <3>2, BothFields
    <3>4. [x EXCEPT !.free = FALSE, !.size = IF split THEN size ELSE @]
              = [x EXCEPT !.free = FALSE, !.size = z]
      BY DEF z
    <3>. QED
      BY <3>1, <3>3, <3>4 DEF x, z
  <2>. HIDE DEF taken
  <2>. QED
    BY <2>1 DEF TakeBlock, LeftOver
<1>7. /\ Tile(new, lo, hi) /\ Merged(new)
      /\ LastOf(new) = IF split /\ LastOf(bs) = bs[i].addr THEN rest.addr
                       ELSE LastOf(bs)
      /\ Used(new) = Used(bs) \cup {Handed(taken)}
  <2>. HIDE DEF split, bs, lo, hi
  <2>1. /\ Tile(bs, lo, hi) /\ Merged(bs) /\ i \in 1 .. Len(bs) /\ bs[i].free
        /\ size \in Nat /\ split \in BOOLEAN
        /\ (split => size + HEADER_SIZE <= bs[i].size)
    BY <1>1, <1>3, <1>5 DEF bs
  <2>. QED
    BY ONLY <2>1, TakenTile
<1>8. Handed(taken) = [ptr |-> block_payload(bs[i]), size |-> taken.size]
  BY <1>2, <1>4 DEF Handed, Taken, block_payload
<1>9. taken.size \in Nat /\ bytes <= taken.size
  BY <1>2, <1>3 DEF Taken
<1>10. block_payload(bs[i]) # 0
  BY <1>2, <1>4
<1>11. ASSUME NEW b \in Used(bs) PROVE b.ptr # block_payload(bs[i])
  <2>1. PICK j \in 1 .. Len(bs) : ~ bs[j].free /\ b = Handed(bs[j])
    BY <1>11, UsedIs DEF Used
  <2>2. b.ptr = block_payload(bs[j]) /\ j # i
    BY <2>1 DEF Handed
  <2>3. /\ block_payload(bs[j]) = bs[j].addr + HEADER_SIZE /\ bs[j].addr \in Nat
        /\ block_payload(bs[i]) = bs[i].addr + HEADER_SIZE /\ bs[i].addr \in Nat
        /\ bs[j].addr # bs[i].addr
    BY <1>2, <2>2
  <2>. HIDE DEF bs
  <2>. QED
    BY ONLY <1>4, <2>2, <2>3
<1>. HIDE DEF split, new, taken, rest, bs, out
<1>12. /\ out.m = m /\ out.ptr = block_payload(bs[i])
       /\ out.u = [blocks |-> new, tail |-> LastOf(new)]
  BY <1>1, <1>6, <1>7
<1>13. AllocatorOK(out.u, lo, hi)
  BY <1>1, <1>7, <1>12 DEF AllocatorOK
<1>14. Used(out.u.blocks) = Used(bs) \cup {[ptr |-> out.ptr, size |-> taken.size]}
  BY <1>7, <1>8, <1>12
<1>. QED
  BY <1>9, <1>10, <1>11, <1>12, <1>13, <1>14 DEF Hands, out, bs, size

(* New blocks go behind all others (malloc).                               *)
LEMMA UptoIs ==
    ASSUME NEW u, NEW lo, NEW hi, AllocatorOK(u, lo, hi)
    PROVE  Upto(u) = u.blocks
<1>. DEFINE bs == u.blocks
            n == Len(bs)
            i == CHOOSE j \in DOMAIN bs : bs[j].addr = u.tail
<1>1. /\ Tile(bs, lo, hi) /\ u.tail = LastOf(bs) /\ lo \in Nat \ {0}
  BY DEF AllocatorOK
<1>2. /\ bs \in Seq(BlockType) /\ n \in Nat /\ DOMAIN bs = 1 .. n
      /\ \A j \in 1 .. n : bs[j].addr \in Nat /\ lo <= bs[j].addr
      /\ \A j, k \in 1 .. n : bs[j].addr = bs[k].addr => j = k
  <2>1. bs \in Seq(BlockType)
    BY <1>1 DEF Tile
  <2>. QED
    BY <1>1, <2>1, BlocksAre
<1>3. CASE n = 0
  <2>1. u.tail = 0
    BY <1>1, <1>3 DEF LastOf
  <2>2. bs = <<>>
    <3>. HIDE DEF bs
    <3>. QED
      BY <1>2, <1>3, EmptySeq DEF n
  <2>. QED
    BY <2>1, <2>2 DEF Upto
<1>4. CASE n # 0
  <2>1. n \in 1 .. n
    BY <1>2, <1>4
  <2>2. u.tail = bs[n].addr
    BY <1>1, <1>4 DEF LastOf
  <2>3. bs[n].addr \in Nat /\ lo <= bs[n].addr
    BY <1>2, <2>1
  <2>4. u.tail # 0
    BY <1>1, <2>2, <2>3
  <2>5. i \in DOMAIN bs /\ bs[i].addr = u.tail
    <3>1. n \in DOMAIN bs
      BY <1>2, <2>1
    <3>. HIDE DEF bs, n
    <3>. QED
      BY <2>2, <3>1
  <2>6. Upto(u) = SubSeq(bs, 1, i)
    BY <2>4 DEF Upto
  <2>. HIDE DEF i
  <2>7. i = n
    BY <1>2, <2>1, <2>2, <2>5
  <2>. QED
    BY <1>2, <2>6, <2>7, SubSeqFull
<1>. QED
  BY <1>3, <1>4

(* and otherwise a new one behind the last, if the break moves (malloc).   *)
LEMMA GrowHands ==
    ASSUME NEW m, NEW t, NEW X, NEW b, CallOK(m, t, X, b),
           m.space.brk <= USER_HEAP_LIMIT, NEW u, HeapOf(m, u),
           NEW bytes, Askable(bytes), bytes # 0
    PROVE  Hands(GrowHeap(m, u, RoundUp(bytes)), Used(u.blocks),
                 m.space.brk_start, bytes)
<1>. DEFINE bs == u.blocks
            lo == m.space.brk_start
            hi == m.space.brk
            size == RoundUp(bytes)
            inc == HEADER_SIZE + size
            r == task_sbrk(m, inc)
            block == [addr |-> hi, size |-> size, free |-> FALSE]
            new == Append(bs, block)
            out == GrowHeap(m, u, size)
<1>1. /\ size \in Nat \ {0} /\ bytes <= size
      /\ Signed((HEADER_SIZE + size) % Word) = HEADER_SIZE + size
      /\ HEADER_SIZE + size < Word
  BY RoundUpIs
<1>. HIDE DEF size
<1>2. HEADER_SIZE \in Nat \ {0}
  BY UserHeapAssumption
<1>3. inc \in Nat \ {0} /\ inc < Word
  BY <1>1, <1>2
<1>4. r.space.brk_start = lo /\ r.space.brk = IF r.ok THEN hi + inc ELSE hi
  <2>. HIDE DEF inc
  <2>. QED
    BY <1>3, SbrkMoves
<1>5. /\ Tile(bs, lo, hi) /\ Merged(bs) /\ u.tail = LastOf(bs)
      /\ lo \in Nat \ {0} /\ hi \in Nat /\ AllocatorOK(u, lo, hi)
  BY DEF HeapOf, AllocatorOK
<1>6. Upto(u) = bs
  <2>. HIDE DEF bs, lo, hi
  <2>. QED
    BY <1>5, UptoIs DEF bs
<1>7. out = IF r.ok THEN [m |-> r, ptr |-> block_payload(block),
                          u |-> [blocks |-> new, tail |-> block.addr]]
            ELSE [m |-> r, u |-> u, ptr |-> 0]
  <2>1. out = AppendBlock(r, u, block)
    BY <1>1 DEF GrowHeap
  <2>. HIDE DEF out, r, block
  <2>. QED
    BY <1>6, <2>1 DEF AppendBlock
<1>8. /\ block \in BlockType /\ block.addr = hi /\ block.size = size /\ ~ block.free
      /\ block_payload(block) = hi + HEADER_SIZE /\ EndOf(block) = hi + inc
  <2>1. block \in BlockType /\ block.addr = hi /\ block.size = size /\ ~ block.free
    BY <1>1, <1>5 DEF BlockType
  <2>. HIDE DEF block
  <2>. QED
    BY <1>1, <1>2, <1>5, <2>1 DEF block_payload, EndOf
<1>. HIDE DEF out, r, block, new
<1>9. CASE ~ r.ok
  <2>1. out.m = r /\ out.u = u /\ out.ptr = 0
    BY <1>7, <1>9
  <2>. QED
    BY <1>4, <1>5, <1>9, <2>1 DEF Hands, out, size
<1>10. CASE r.ok
  <2>1. /\ Tile(new, lo, hi + inc) /\ Merged(new) /\ LastOf(new) = block.addr
        /\ Used(new) = Used(bs) \cup {Handed(block)}
    <3>. DEFINE end == EndOf(block)
    <3>. HIDE DEF bs, lo, hi
    <3>1. /\ Tile(bs, lo, hi) /\ Merged(bs) /\ block \in BlockType
          /\ block.addr = hi /\ ~ block.free
          /\ (Len(bs) > 0 => ~ (bs[Len(bs)].free /\ block.free))
      BY <1>5, <1>8
    <3>2. LET n == Append(bs, block)
          IN  /\ Tile(n, lo, EndOf(block)) /\ Merged(n) /\ LastOf(n) = block.addr
              /\ Len(n) = Len(bs) + 1 /\ n[Len(n)] = block
              /\ Used(n) = Used(bs) \cup (IF block.free THEN {} ELSE {Handed(block)})
      BY ONLY <3>1, AppendTile
    <3>. QED
      BY <1>8, <3>2 DEF new
  <2>2. Handed(block) = [ptr |-> block_payload(block), size |-> size]
    BY <1>8 DEF Handed
  <2>3. /\ out.m = r /\ out.ptr = block_payload(block)
        /\ out.u = [blocks |-> new, tail |-> block.addr]
    BY <1>7, <1>10
  <2>4. hi + inc \in Nat /\ r.space.brk = hi + inc
    BY <1>3, <1>4, <1>5, <1>10
  <2>5. AllocatorOK(out.u, lo, r.space.brk)
    BY <1>5, <2>1, <2>3, <2>4 DEF AllocatorOK
  <2>6. Used(out.u.blocks) = Used(bs) \cup {[ptr |-> out.ptr, size |-> size]}
    BY <2>1, <2>2, <2>3
  <2>7. ASSUME NEW x \in Used(bs) PROVE x.ptr # out.ptr
    <3>1. PICK j \in 1 .. Len(bs) : ~ bs[j].free /\ x = Handed(bs[j])
      BY <2>7, UsedIs DEF Used
    <3>2. /\ bs[j].addr \in Nat /\ EndOf(bs[j]) <= hi /\ EndOf(bs[j]) > bs[j].addr
          /\ EndOf(bs[j]) \in Nat
          /\ block_payload(bs[j]) = bs[j].addr + HEADER_SIZE
      <4>. HIDE DEF bs, lo, hi
      <4>1. Tile(bs, lo, hi) /\ j \in 1 .. Len(bs)
        BY <1>5
      <4>. QED
        BY ONLY <4>1, BlocksAre
    <3>3. x.ptr = block_payload(bs[j])
      BY <3>1 DEF Handed
    <3>4. out.ptr = hi + HEADER_SIZE /\ x.ptr = bs[j].addr + HEADER_SIZE
      BY <1>8, <2>3, <3>2, <3>3
    <3>5. bs[j].addr < hi
      <4>1. hi \in Nat
        BY <1>5
      <4>. HIDE DEF bs, hi
      <4>. QED
        BY ONLY <3>2, <4>1
    <3>. QED
      <4>1. hi \in Nat /\ bs[j].addr \in Nat /\ HEADER_SIZE \in Nat
        BY <1>2, <1>5, <3>2
      <4>. HIDE DEF bs, hi
      <4>. QED
        BY ONLY <3>4, <3>5, <4>1
  <2>8. out.ptr # 0
    BY <1>2, <1>5, <1>8, <2>3
  <2>. HIDE DEF inc
  <2>9. Hands(out, Used(bs), lo, bytes)
    BY <1>1, <1>4, <2>3, <2>5, <2>6, <2>7, <2>8 DEF Hands
  <2>. QED
    BY <2>9 DEF out, size
<1>. QED
  BY <1>9, <1>10

(* So malloc hands out a block of its own, or nothing (malloc).            *)
LEMMA MallocHands ==
    ASSUME NEW m, NEW t, NEW X, NEW b, CallOK(m, t, X, b),
           m.space.brk <= USER_HEAP_LIMIT, NEW u, HeapOf(m, u),
           NEW bytes, Askable(bytes)
    PROVE  Hands(malloc(m, u, bytes), Used(u.blocks), m.space.brk_start, bytes)
<1>. DEFINE size == RoundUp(bytes)
            fits == {i \in DOMAIN u.blocks :
                         u.blocks[i].free /\ u.blocks[i].size >= size}
            out == malloc(m, u, bytes)
<1>1. CASE bytes = 0
  <2>1. out = [m |-> m, u |-> u, ptr |-> 0]
    BY <1>1 DEF malloc
  <2>2. AllocatorOK(u, m.space.brk_start, m.space.brk)
    BY DEF HeapOf
  <2>. QED
    BY <2>1, <2>2 DEF Hands
<1>2. CASE bytes # 0 /\ fits # {}
  <2>1. out = TakeBlock(m, u, Min(fits), size)
    BY <1>2 DEF malloc
  <2>2. Tile(u.blocks, m.space.brk_start, m.space.brk)
    BY DEF HeapOf, AllocatorOK
  <2>3. DOMAIN u.blocks = 1 .. Len(u.blocks) /\ Len(u.blocks) \in Nat
    BY <2>2, BlocksAre
  <2>4. Min(fits) \in fits
    <3>1. fits \subseteq Nat
      BY <2>3
    <3>. HIDE DEF fits
    <3>. QED
      BY <1>2, <3>1, MinIn
  <2>5. PICK i \in 1 .. Len(u.blocks) : /\ i = Min(fits)
                                        /\ u.blocks[i].free
                                        /\ u.blocks[i].size >= size
    BY <2>3, <2>4
  <2>6. Hands(TakeBlock(m, u, i, size), Used(u.blocks), m.space.brk_start, bytes)
    BY <1>2, <2>5, TakeHands
  <2>. QED
    BY <2>1, <2>5, <2>6
<1>3. CASE bytes # 0 /\ fits = {}
  <2>1. out = GrowHeap(m, u, size)
    BY <1>3 DEF malloc
  <2>. QED
    BY <1>3, <2>1, GrowHands
<1>. QED
  BY <1>1, <1>2, <1>3

(* calloc asks malloc for the product, unless it wraps (calloc).           *)
LEMMA CallocHands ==
    ASSUME NEW m, NEW t, NEW X, NEW b, CallOK(m, t, X, b),
           m.space.brk <= USER_HEAP_LIMIT, NEW u, HeapOf(m, u),
           NEW count \in Nat, NEW size \in Nat,
           count * size < Word => Askable(count * size)
    PROVE  Hands(calloc(m, u, count, size), Used(u.blocks), m.space.brk_start,
                 count * size)
<1>. DEFINE p == count * size
            total == p % Word
            out == calloc(m, u, count, size)
            refused == size # 0 /\ total \div size # count
<1>1. p \in Nat /\ Word \in Nat \ {0}
  BY SpaceNumbers
<1>2. CASE refused
  <2>1. out = [m |-> m, u |-> u, ptr |-> 0]
    BY <1>2 DEF calloc
  <2>2. AllocatorOK(u, m.space.brk_start, m.space.brk)
    BY DEF HeapOf
  <2>. QED
    BY <2>1, <2>2 DEF Hands
<1>3. CASE ~ refused
  <2>1. p < Word
    <3>1. CASE size = 0
      BY <1>1, <3>1
    <3>2. CASE size # 0
      <4>. DEFINE q == total \div size
      <4>1. q = count
        BY <1>3, <3>2
      <4>2. total \in Nat /\ total < Word
        <5>. HIDE DEF p
        <5>. QED
          BY <1>1
      <4>. HIDE DEF total
      <4>3. size * q <= total
        BY <3>2, <4>2
      <4>. HIDE DEF q
      <4>4. size * count = count * size
        OBVIOUS
      <4>. QED
        BY <1>1, <4>1, <4>2, <4>3, <4>4
    <3>. QED
      BY <3>1, <3>2
  <2>2. total = p
    <3>. HIDE DEF p
    <3>. QED
      BY <1>1, <2>1
  <2>3. out = malloc(m, u, total)
    BY <1>3 DEF calloc
  <2>4. Askable(p)
    BY <2>1
  <2>. HIDE DEF p, total
  <2>5. Hands(malloc(m, u, p), Used(u.blocks), m.space.brk_start, p)
    BY <2>4, MallocHands
  <2>. QED
    BY <2>2, <2>3, <2>5 DEF p
<1>. QED
  BY <1>2, <1>3

(* The block behind a pointer that is in use (payload_block).              *)
LEMMA HandedBlock ==
    ASSUME NEW u, NEW lo, NEW hi, AllocatorOK(u, lo, hi), NEW b \in Used(u.blocks)
    PROVE  /\ payload_block(u, b.ptr) \in 1 .. Len(u.blocks)
           /\ u.blocks[payload_block(u, b.ptr)].size = b.size
<1>1. Tile(u.blocks, lo, hi)
  BY DEF AllocatorOK
<1>2. PICK i \in 1 .. Len(u.blocks) : b = Handed(u.blocks[i])
  BY UsedIs DEF Used
<1>3. b.ptr = block_payload(u.blocks[i]) /\ b.size = u.blocks[i].size
  BY <1>2 DEF Handed
<1>4. payload_block(u, b.ptr) = i
  BY <1>1, <1>3, PayloadIs
<1>. QED
  BY <1>3, <1>4

(* A block of at least this size is in use at ptr in place of those that   *)
(* are gone, or nothing has changed (realloc).                             *)
Exchanges(out, used, gone, lo, bytes) ==
    /\ AllocatorOK(out.u, lo, out.m.space.brk) /\ out.m.space.brk_start = lo
    /\ out.ptr = 0 => Used(out.u.blocks) = used
    /\ out.ptr # 0 => \E size \in Nat :
           /\ bytes <= size
           /\ Used(out.u.blocks)
                  = (used \ gone) \cup {[ptr |-> out.ptr, size |-> size]}
           /\ \A b \in used \ gone : b.ptr # out.ptr

(* No two blocks in use have the same payload.                             *)
LEMMA UsedOnce ==
    ASSUME NEW u, NEW lo, NEW hi, AllocatorOK(u, lo, hi)
    PROVE  \A x \in Used(u.blocks) :
               /\ x = [ptr |-> x.ptr, size |-> x.size]
               /\ x.ptr \in Nat /\ x.ptr # 0 /\ x.size \in Nat
               /\ \A y \in Used(u.blocks) : x.ptr = y.ptr => x = y
<1>1. Tile(u.blocks, lo, hi)
  BY DEF AllocatorOK
<1>. DEFINE bs == u.blocks
<1>. HIDE DEF bs
<1>2. /\ \A i \in 1 .. Len(bs) :
             /\ bs[i].addr \in Nat /\ bs[i].size \in Nat
             /\ block_payload(bs[i]) = bs[i].addr + HEADER_SIZE
      /\ \A i, j \in 1 .. Len(bs) : bs[i].addr = bs[j].addr => i = j
  <2>1. Tile(bs, lo, hi)
    BY <1>1 DEF bs
  <2>. QED
    BY ONLY <2>1, BlocksAre
<1>3. HEADER_SIZE \in Nat \ {0}
  BY UserHeapAssumption
<1>4. ASSUME NEW x \in Used(bs)
      PROVE  \E i \in 1 .. Len(bs) :
                 /\ x = [ptr |-> bs[i].addr + HEADER_SIZE, size |-> bs[i].size]
                 /\ bs[i].addr \in Nat /\ bs[i].size \in Nat
  <2>1. PICK i \in 1 .. Len(bs) : x = Handed(bs[i])
    BY <1>4, UsedIs DEF Used
  <2>. QED
    BY <1>2, <2>1 DEF Handed
<1>5. ASSUME NEW x \in Used(bs), NEW y \in Used(bs), x.ptr = y.ptr PROVE x = y
  <2>1. PICK i \in 1 .. Len(bs) :
            /\ x = [ptr |-> bs[i].addr + HEADER_SIZE, size |-> bs[i].size]
            /\ bs[i].addr \in Nat
    BY <1>4
  <2>2. PICK j \in 1 .. Len(bs) :
            /\ y = [ptr |-> bs[j].addr + HEADER_SIZE, size |-> bs[j].size]
            /\ bs[j].addr \in Nat
    BY <1>4
  <2>3. bs[i].addr + HEADER_SIZE = bs[j].addr + HEADER_SIZE
    BY <1>5, <2>1, <2>2
  <2>4. bs[i].addr = bs[j].addr
    BY <1>3, <2>1, <2>2, <2>3
  <2>5. i = j
    BY <1>2, <2>4
  <2>. QED
    BY <2>1, <2>2, <2>5
<1>6. ASSUME NEW x \in Used(bs)
      PROVE  /\ x = [ptr |-> x.ptr, size |-> x.size]
             /\ x.ptr \in Nat /\ x.ptr # 0 /\ x.size \in Nat
  <2>1. PICK i \in 1 .. Len(bs) :
            /\ x = [ptr |-> bs[i].addr + HEADER_SIZE, size |-> bs[i].size]
            /\ bs[i].addr \in Nat /\ bs[i].size \in Nat
    BY <1>4
  <2>. QED
    BY <1>3, <2>1
<1>. QED
  BY <1>5, <1>6 DEF bs

(* realloc keeps the block or moves to a new one (realloc).                *)
LEMMA ReallocHands ==
    ASSUME NEW m, NEW t, NEW X, NEW b, CallOK(m, t, X, b),
           m.space.brk <= USER_HEAP_LIMIT, NEW u, HeapOf(m, u),
           NEW bytes, Askable(bytes), NEW old \in Used(u.blocks)
    PROVE  Exchanges(realloc(m, u, old.ptr, bytes), Used(u.blocks), {old},
                     m.space.brk_start, bytes)
<1>. DEFINE used == Used(u.blocks)
            lo == m.space.brk_start
            out == realloc(m, u, old.ptr, bytes)
            got == malloc(m, u, bytes)
<1>1. AllocatorOK(u, lo, m.space.brk)
  BY DEF HeapOf
<1>2. /\ old = [ptr |-> old.ptr, size |-> old.size]
      /\ old.ptr \in Nat /\ old.ptr # 0 /\ old.size \in Nat
      /\ \A y \in used : old.ptr = y.ptr => old = y
  <2>. HIDE DEF lo
  <2>. QED
    BY <1>1, UsedOnce
<1>3. u.blocks[payload_block(u, old.ptr)].size = old.size
  <2>. HIDE DEF lo
  <2>. QED
    BY <1>1, HandedBlock
<1>4. CASE old.size >= bytes
  <2>1. out = [m |-> m, u |-> u, ptr |-> old.ptr]
    BY <1>3, <1>4 DEF realloc
  <2>2. used = (used \ {old}) \cup {[ptr |-> old.ptr, size |-> old.size]}
    BY <1>2
  <2>3. \A x \in used \ {old} : x.ptr # old.ptr
    BY <1>2
  <2>4. bytes <= old.size
    BY <1>2, <1>4 DEF Askable
  <2>. HIDE DEF out
  <2>5. out.m = m /\ out.u = u /\ out.ptr = old.ptr
    BY <2>1
  <2>. QED
    BY <1>1, <1>2, <2>2, <2>3, <2>4, <2>5 DEF Exchanges, out
<1>5. CASE ~ (old.size >= bytes)
  <2>1. out = FreeOld(got, old.ptr)
    BY <1>3, <1>5 DEF realloc
  <2>2. Hands(got, used, lo, bytes)
    BY MallocHands
  <2>3. got = [m |-> got.m, u |-> got.u, ptr |-> got.ptr]
    BY DEF malloc, TakeBlock, GrowHeap, AppendBlock
  <2>. HIDE DEF got, out
  <2>4. CASE got.ptr = 0
    <3>1. out = got
      BY <2>1, <2>4 DEF FreeOld
    <3>. QED
      BY <2>2, <2>4, <3>1 DEF Hands, Exchanges, out
  <2>5. CASE got.ptr # 0
    <3>. DEFINE w == got.u
                hi == got.m.space.brk
                v == free(w, old.ptr)
    <3>1. PICK size \in Nat :
              /\ bytes <= size
              /\ Used(w.blocks) = used \cup {[ptr |-> got.ptr, size |-> size]}
              /\ \A x \in used : x.ptr # got.ptr
      BY <2>2, <2>5 DEF Hands
    <3>2. AllocatorOK(w, lo, hi) /\ got.m.space.brk_start = lo
      BY <2>2 DEF Hands
    <3>3. out.m = got.m /\ out.ptr = got.ptr /\ out.u = v
      <4>1. out = [got EXCEPT !.u = free(@, old.ptr)]
        BY <2>1, <2>5 DEF FreeOld
      <4>. HIDE DEF w
      <4>. QED
        BY <2>3, <4>1 DEF w
    <3>4. /\ AllocatorOK(v, lo, hi)
          /\ Used(v.blocks) = Used(w.blocks) \ {old}
      <4>. HIDE DEF w, hi, lo
      <4>1. old \in Used(w.blocks)
        BY <3>1
      <4>. QED
        BY <3>2, <4>1, FreeHeap
    <3>5. Used(v.blocks) = (used \ {old}) \cup {[ptr |-> got.ptr, size |-> size]}
      <4>1. old # [ptr |-> got.ptr, size |-> size]
        BY <3>1
      <4>. HIDE DEF v, w, used
      <4>. QED
        BY <3>1, <3>4, <4>1
    <3>. HIDE DEF v, w
    <3>. QED
      BY <2>5, <3>1, <3>2, <3>3, <3>4, <3>5 DEF Exchanges, out
  <2>. QED
    BY <2>4, <2>5
<1>. QED
  BY <1>4, <1>5

(* malloc and calloc put nothing aside (malloc).                           *)
LEMMA HandsIs ==
    ASSUME NEW out, NEW used, NEW lo, NEW bytes, Hands(out, used, lo, bytes)
    PROVE  Exchanges(out, used, {}, lo, bytes)
<1>1. used \ {} = used
  OBVIOUS
<1>. QED
  BY <1>1 DEF Hands, Exchanges

-----------------------------------------------------------------------------
(* The heaps of all tasks                                                  *)

(* Every pointer has its block, every block in use its pointer.            *)
Matches(used, held) ==
    /\ \A p \in held : \E b \in used : b.ptr = p.ptr /\ p.size <= b.size
    /\ \A b \in used : \E p \in held : p.ptr = b.ptr
    /\ \A p, q \in held : p.ptr = q.ptr => p = q

(* The inductive invariant: a program's heap tiles what lies between its   *)
(* start and its break, and hands out what the program holds; there is no  *)
(* heap without a program.                                                 *)
HeapInv ==
    /\ heap \in [Tasks -> HeapType]
    /\ live \in [Tasks -> SUBSET [ptr : Nat, size : Nat]]
    /\ \A t \in Tasks :
           IF state[t] = "user"
           THEN /\ HeapOf(Call(t), heap[t])
                /\ Matches(Used(heap[t].blocks), live[t])
           ELSE heap[t] = EmptyHeap /\ live[t] = {}

(* An allocator is one of these.                                           *)
LEMMA AllocatorType ==
    ASSUME NEW u, NEW lo, NEW hi, AllocatorOK(u, lo, hi)
    PROVE  u \in HeapType
<1>. DEFINE bs == u.blocks
<1>1. u = [blocks |-> bs, tail |-> LastOf(bs)] /\ Tile(bs, lo, hi)
  BY DEF AllocatorOK
<1>. HIDE DEF bs
<1>2. bs \in Seq(BlockType)
  BY <1>1 DEF Tile
<1>3. LastOf(bs) \in Nat
  <2>1. CASE Len(bs) = 0
    BY <2>1 DEF LastOf
  <2>2. CASE Len(bs) # 0
    <3>1. Len(bs) \in 1 .. Len(bs)
      BY <1>2, <2>2, LenProperties
    <3>2. bs[Len(bs)].addr \in Nat
      BY ONLY <1>1, <3>1, BlocksAre
    <3>. QED
      BY <2>2, <3>2 DEF LastOf
  <2>. QED
    BY <2>1, <2>2
<1>. QED
  BY <1>1, <1>2, <1>3 DEF HeapType

(* A program starts with a heap that is empty (task_load).                 *)
LEMMA EmptyOK ==
    /\ EmptyHeap \in HeapType /\ Used(EmptyHeap.blocks) = {}
    /\ \A lo \in Nat \ {0} : AllocatorOK(EmptyHeap, lo, lo)
    /\ Matches({}, {})
<1>1. EmptyHeap.blocks = <<>> /\ EmptyHeap.tail = 0 /\ Len(<<>>) = 0
      /\ <<>> \in Seq(BlockType)
  BY EmptySeq DEF EmptyHeap
<1>2. Used(<<>>) = {}
  BY <1>1 DEF Used, UsedUpTo
<1>3. \A lo \in Nat \ {0} : Tile(<<>>, lo, lo) /\ Merged(<<>>)
  BY <1>1 DEF Tile, Merged
<1>4. EmptyHeap = [blocks |-> <<>>, tail |-> LastOf(<<>>)]
  BY <1>1 DEF EmptyHeap, LastOf
<1>5. EmptyHeap \in HeapType
  BY <1>1 DEF EmptyHeap, HeapType
<1>6. \A lo \in Nat \ {0} : AllocatorOK(EmptyHeap, lo, lo)
  BY <1>1, <1>3, <1>4 DEF AllocatorOK
<1>. QED
  BY <1>1, <1>2, <1>5, <1>6 DEF Matches

(* What takes the place of a pointer takes that of its block (realloc).    *)
LEMMA MatchesNext ==
    ASSUME NEW used, NEW held, Matches(used, held),
           NEW gone, NEW old, \A p \in held, b \in used :
                                  p.ptr = b.ptr => (p \in old <=> b \in gone),
           NEW ptr, NEW size, NEW bytes, bytes <= size,
           \A b \in used \ gone : b.ptr # ptr
    PROVE  Matches((used \ gone) \cup {[ptr |-> ptr, size |-> size]},
                   (held \ old) \cup {[ptr |-> ptr, size |-> bytes]})
<1>. DEFINE c == [ptr |-> ptr, size |-> size]
            d == [ptr |-> ptr, size |-> bytes]
<1>1. c.ptr = ptr /\ d.ptr = ptr /\ d.size <= c.size
  OBVIOUS
<1>. HIDE DEF c, d
<1>2. \A p \in held \ old : \E b \in used \ gone : b.ptr = p.ptr /\ p.size <= b.size
  BY DEF Matches
<1>3. \A b \in used \ gone : \E p \in held \ old : p.ptr = b.ptr
  BY DEF Matches
<1>4. \A p, q \in held \ old : p.ptr = q.ptr => p = q
  BY DEF Matches
<1>5. \A p \in held \ old : p.ptr # ptr
  BY <1>2
<1>6. Matches((used \ gone) \cup {c}, (held \ old) \cup {d})
  BY <1>1, <1>2, <1>3, <1>4, <1>5 DEF Matches
<1>. QED
  BY <1>6 DEF c, d

(* What is given back takes its block along (free).                        *)
LEMMA MatchesLess ==
    ASSUME NEW used, NEW held, Matches(used, held), NEW p \in held, NEW b \in used,
           p.ptr = b.ptr, \A c \in used : c.ptr = b.ptr => c = b
    PROVE  Matches(used \ {b}, held \ {p})
BY DEF Matches

(* A step of one task changes no other's heap (syscall_handler).           *)
LEMMA HeapStep ==
    ASSUME MemoryOK, HeapInv, NEW t \in Tasks, NEW s, NEW q, NEW u \in HeapType,
           NEW held \in SUBSET [ptr : Nat, size : Nat],
           space' = [space EXCEPT ![t] = s], state' = [state EXCEPT ![t] = q],
           heap' = [heap EXCEPT ![t] = u], live' = [live EXCEPT ![t] = held],
           IF q = "user"
           THEN AllocatorOK(u, s.brk_start, s.brk) /\ Matches(Used(u.blocks), held)
           ELSE u = EmptyHeap /\ held = {}
    PROVE  HeapInv'
<1>1. /\ space'[t] = s /\ state'[t] = q /\ heap'[t] = u /\ live'[t] = held
      /\ \A v \in Tasks \ {t} : /\ space'[v] = space[v] /\ state'[v] = state[v]
                                /\ heap'[v] = heap[v] /\ live'[v] = live[v]
      /\ heap' \in [Tasks -> HeapType]
      /\ live' \in [Tasks -> SUBSET [ptr : Nat, size : Nat]]
  BY DEF MemoryOK, HeapInv
<1>2. /\ \A v \in Tasks : Call(v).space = space[v]
      /\ \A v \in Tasks : Call(v)'.space = space'[v]
  BY DEF Call
<1>3. ASSUME NEW v \in Tasks
      PROVE  IF state'[v] = "user"
             THEN /\ AllocatorOK(heap'[v], space'[v].brk_start, space'[v].brk)
                  /\ Matches(Used(heap'[v].blocks), live'[v])
             ELSE heap'[v] = EmptyHeap /\ live'[v] = {}
  <2>1. CASE v = t
    BY <1>1, <2>1
  <2>2. CASE v # t
    BY <1>1, <1>2, <2>2 DEF HeapInv, HeapOf
  <2>. QED
    BY <2>1, <2>2
<1>. QED
  BY <1>1, <1>2, <1>3 DEF HeapInv, HeapOf

(* malloc, calloc and realloc hand out a block for the pointer (moos.c).   *)
LEMMA KeepHeap ==
    ASSUME MemoryOK, HeapInv, NEW t \in Tasks, state[t] = "user", NEW out,
           NEW size \in Nat, NEW gone, NEW old,
           \A p \in live[t], b \in Used(heap[t].blocks) :
               p.ptr = b.ptr => (p \in old <=> b \in gone),
           Exchanges(out, Used(heap[t].blocks), gone, space[t].brk_start, size),
           Keep(t, out, old, size)
    PROVE  HeapInv'
<1>. DEFINE u == out.u
            s == out.m.space
            new == [ptr |-> out.ptr, size |-> size]
            held == IF out.ptr = 0 THEN live[t] ELSE (live[t] \ old) \cup {new}
            used == Used(heap[t].blocks)
<1>1. /\ space' = [space EXCEPT ![t] = s] /\ state' = [state EXCEPT ![t] = "user"]
      /\ heap' = [heap EXCEPT ![t] = u] /\ live' = [live EXCEPT ![t] = held]
  BY DEF Keep, MemoryOK
<1>2. /\ AllocatorOK(u, s.brk_start, s.brk) /\ Matches(used, live[t])
      /\ live[t] \in SUBSET [ptr : Nat, size : Nat]
  BY DEF Exchanges, HeapInv
<1>3. u \in HeapType
  BY <1>2, AllocatorType
<1>4. held \in SUBSET [ptr : Nat, size : Nat] /\ Matches(Used(u.blocks), held)
  <2>1. CASE out.ptr = 0
    BY <1>2, <2>1 DEF Exchanges
  <2>2. CASE out.ptr # 0
    <3>1. PICK sz \in Nat :
              /\ size <= sz
              /\ Used(u.blocks) = (used \ gone) \cup {[ptr |-> out.ptr, size |-> sz]}
              /\ \A b \in used \ gone : b.ptr # out.ptr
      BY <2>2 DEF Exchanges
    <3>2. Matches((used \ gone) \cup {[ptr |-> out.ptr, size |-> sz]},
                  (live[t] \ old) \cup {new})
      <4>. HIDE DEF used
      <4>1. /\ Matches(used, live[t]) /\ size <= sz
            /\ \A p \in live[t], b \in used :
                   p.ptr = b.ptr => (p \in old <=> b \in gone)
            /\ \A b \in used \ gone : b.ptr # out.ptr
        BY <1>2, <3>1 DEF used
      <4>. QED
        BY ONLY <4>1, MatchesNext
    <3>3. out.ptr \in Nat
      <4>1. [ptr |-> out.ptr, size |-> sz] \in Used(u.blocks)
        BY <3>1
      <4>. HIDE DEF u, s
      <4>2. [ptr |-> out.ptr, size |-> sz].ptr \in Nat
        BY <1>2, <4>1, UsedOnce
      <4>. QED
        BY <4>2
    <3>4. held = (live[t] \ old) \cup {new} /\ new \in [ptr : Nat, size : Nat]
      BY <2>2, <3>3
    <3>. HIDE DEF held, new
    <3>. QED
      BY <1>2, <3>1, <3>2, <3>4
  <2>. QED
    BY <2>1, <2>2
<1>. HIDE DEF u, s, held
<1>. QED
  BY <1>1, <1>2, <1>3, <1>4, HeapStep

(* A spawned task has an empty heap (task_spawn).                          *)
LEMMA SpawnHeap ==
    ASSUME MemoryOK, HeapInv, NEW t \in Tasks, NEW p \in Programs,
           task_spawn(t, p)
    PROVE  HeapInv'
<1>1. PICK m : Spawned(t, p, m) /\ (m.ok => Placed(m.space))
  BY SpawnReady
<1>2. /\ state[t] = "unused" /\ heap[t] = EmptyHeap /\ live[t] = {}
      /\ heap = [heap EXCEPT ![t] = heap[t]] /\ live = [live EXCEPT ![t] = live[t]]
  BY DEF task_spawn, HeapInv
<1>3. CASE m.ok
  <2>1. /\ space' = [space EXCEPT ![t] = m.space]
        /\ state' = [state EXCEPT ![t] = "user"]
        /\ heap' = [heap EXCEPT ![t] = EmptyHeap]
        /\ live' = [live EXCEPT ![t] = {}]
    BY <1>1, <1>2, <1>3 DEF Spawned
  <2>2. /\ AllocatorOK(EmptyHeap, m.space.brk_start, m.space.brk)
        /\ Matches(Used(EmptyHeap.blocks), {}) /\ EmptyHeap \in HeapType
    BY <1>1, <1>3, EmptyOK DEF Placed
  <2>. QED
    BY <2>1, <2>2, HeapStep
<1>4. CASE ~ m.ok
  BY <1>1, <1>4 DEF Spawned, HeapInv, HeapOf, Call
<1>. QED
  BY <1>3, <1>4

(* A request that the programs make does not wrap.                         *)
LEMMA RequestsAskable ==
    /\ \A n \in Requests : n \in Nat /\ Askable(n)
    /\ \A c \in Counts : /\ c[1] \in Nat /\ c[2] \in Nat
                         /\ c[1] * c[2] < Word => Askable(c[1] * c[2])
<1>1. \A n \in Requests : n \in Nat /\ Askable(n)
  BY RequestAssumption DEF Askable
<1>2. ASSUME NEW c \in Counts
      PROVE  /\ c[1] \in Nat /\ c[2] \in Nat
             /\ c[1] * c[2] < Word => Askable(c[1] * c[2])
  <2>1. c[1] \in Nat /\ c[2] \in Nat
    BY RequestAssumption
  <2>2. c[1] * c[2] \in Nat
    BY <2>1
  <2>. QED
    BY <2>1, <2>2, RequestAssumption DEF Askable
<1>. QED
  BY <1>1, <1>2

(* Every step keeps the heaps (malloc, calloc, realloc, free, task_spawn,  *)
(* task_exit, task_wait).                                                  *)
LEMMA HeapKept == MemoryOK /\ ImageInv /\ HeapInv /\ [Next]_vars => HeapInv'
<1>. SUFFICES ASSUME MemoryOK, ImageInv, HeapInv, [Next]_vars PROVE HeapInv'
  OBVIOUS
<1>1. ASSUME NEW t \in Tasks, NEW p \in Programs, task_spawn(t, p) PROVE HeapInv'
  BY <1>1, SpawnHeap
<1>2. ASSUME NEW t \in Tasks, task_exit(t) PROVE HeapInv'
  <2>1. /\ space' = [space EXCEPT ![t] = space[t]]
        /\ state' = [state EXCEPT ![t] = "zombie"]
        /\ heap' = [heap EXCEPT ![t] = EmptyHeap] /\ live' = [live EXCEPT ![t] = {}]
    BY <1>2 DEF task_exit, MemoryOK
  <2>. QED
    BY <2>1, HeapStep, EmptyOK
<1>3. ASSUME NEW t \in Tasks, Reap(t) PROVE HeapInv'
  <2>1. /\ space' = [space EXCEPT ![t] = NoSpace]
        /\ state' = [state EXCEPT ![t] = "unused"]
        /\ heap' = [heap EXCEPT ![t] = EmptyHeap] /\ live' = [live EXCEPT ![t] = {}]
    BY <1>3 DEF Reap, HeapInv
  <2>. QED
    BY <2>1, HeapStep, EmptyOK
<1>4. ASSUME UNCHANGED <<state, space, heap, live>> PROVE HeapInv'
  BY <1>4 DEF HeapInv, HeapOf, Call
<1>5. ASSUME NEW size \in KernelSizes, Allocate(size) PROVE HeapInv'
  BY <1>4, <1>5 DEF Allocate, Allocated
<1>6. ASSUME NEW run \in other, Release(run) PROVE HeapInv'
  BY <1>4, <1>6 DEF Release
<1>7. ASSUME NEW t \in Tasks, state[t] = "user"
      PROVE  /\ CallOK(Call(t), t, Rest(t), Running(t))
             /\ Call(t).space = space[t] /\ space[t].brk <= USER_HEAP_LIMIT
             /\ HeapOf(Call(t), heap[t]) /\ Matches(Used(heap[t].blocks), live[t])
             /\ AllocatorOK(heap[t], space[t].brk_start, space[t].brk)
  <2>1. CallOK(Call(t), t, Rest(t), Running(t))
    BY <1>7, CallReady
  <2>2. Call(t).space = space[t] /\ space[t].brk <= USER_HEAP_LIMIT
    BY <1>7 DEF Call, ImageInv, ImageReady
  <2>3. HeapOf(Call(t), heap[t]) /\ Matches(Used(heap[t].blocks), live[t])
    BY <1>7 DEF HeapInv
  <2>. QED
    BY <2>1, <2>2, <2>3 DEF HeapOf
<1>8. ASSUME NEW t \in Tasks, NEW size \in Requests, Malloc(t, size) PROVE HeapInv'
  <2>. DEFINE out == malloc(Call(t), heap[t], size)
              used == Used(heap[t].blocks)
  <2>1. state[t] = "user" /\ Keep(t, out, {}, size)
    BY <1>8 DEF Malloc
  <2>2. size \in Nat /\ Askable(size)
    BY RequestsAskable
  <2>3. Hands(out, used, space[t].brk_start, size)
    BY <1>7, <2>1, <2>2, MallocHands
  <2>. HIDE DEF out, used
  <2>4. Exchanges(out, used, {}, space[t].brk_start, size)
    BY <2>3, HandsIs
  <2>. QED
    BY <2>1, <2>2, <2>4, KeepHeap DEF used
<1>9. ASSUME NEW t \in Tasks, NEW c \in Counts, Calloc(t, c) PROVE HeapInv'
  <2>. DEFINE out == calloc(Call(t), heap[t], c[1], c[2])
              used == Used(heap[t].blocks)
              size == c[1] * c[2]
  <2>1. state[t] = "user" /\ Keep(t, out, {}, size)
    BY <1>9 DEF Calloc
  <2>2. c[1] \in Nat /\ c[2] \in Nat /\ (c[1] * c[2] < Word => Askable(c[1] * c[2]))
    BY RequestsAskable
  <2>3. Hands(out, used, space[t].brk_start, size)
    BY <1>7, <2>1, <2>2, CallocHands
  <2>4. size \in Nat
    BY <2>2
  <2>. HIDE DEF out, used, size
  <2>5. Exchanges(out, used, {}, space[t].brk_start, size)
    BY <2>3, HandsIs
  <2>. QED
    BY <2>1, <2>4, <2>5, KeepHeap DEF used
<1>10. ASSUME NEW t \in Tasks, NEW p \in live[t], state[t] = "user"
       PROVE  \E b \in Used(heap[t].blocks) :
                  /\ b.ptr = p.ptr
                  /\ \A c \in Used(heap[t].blocks) : c.ptr = p.ptr <=> c = b
                  /\ \A q \in live[t] : q.ptr = p.ptr <=> q = p
  <2>. DEFINE used == Used(heap[t].blocks)
  <2>1. Matches(used, live[t])
    BY <1>7, <1>10
  <2>2. \A x, y \in used : x.ptr = y.ptr => x = y
    BY <1>7, <1>10, UsedOnce
  <2>. HIDE DEF used
  <2>3. PICK b \in used : b.ptr = p.ptr
    BY <2>1 DEF Matches
  <2>. QED
    BY <2>1, <2>2, <2>3 DEF Matches, used
<1>11. ASSUME NEW t \in Tasks, NEW p \in live[t], NEW size \in Requests,
              Realloc(t, p, size)
       PROVE  HeapInv'
  <2>. DEFINE out == realloc(Call(t), heap[t], p.ptr, size)
              used == Used(heap[t].blocks)
  <2>1. state[t] = "user" /\ Keep(t, out, {p}, size)
    BY <1>11 DEF Realloc
  <2>2. size \in Nat /\ Askable(size)
    BY RequestsAskable
  <2>3. PICK b \in used : /\ b.ptr = p.ptr
                          /\ \A c \in used : c.ptr = p.ptr <=> c = b
                          /\ \A q \in live[t] : q.ptr = p.ptr <=> q = p
    BY <1>10, <2>1
  <2>4. Exchanges(out, used, {b}, space[t].brk_start, size)
    <3>1. Exchanges(realloc(Call(t), heap[t], b.ptr, size), Used(heap[t].blocks),
                    {b}, Call(t).space.brk_start, size)
      BY <1>7, <2>1, <2>2, ReallocHands
    <3>. QED
      BY <1>7, <2>1, <2>3, <3>1
  <2>5. \A q \in live[t], c \in used : q.ptr = c.ptr => (q \in {p} <=> c \in {b})
    BY <2>3
  <2>. HIDE DEF out
  <2>. QED
    BY <2>1, <2>2, <2>4, <2>5, KeepHeap
<1>12. ASSUME NEW t \in Tasks, NEW p \in live[t], Free(t, p) PROVE HeapInv'
  <2>. DEFINE u == free(heap[t], p.ptr)
              used == Used(heap[t].blocks)
  <2>1. /\ state[t] = "user" /\ space' = [space EXCEPT ![t] = space[t]]
        /\ state' = [state EXCEPT ![t] = "user"]
        /\ heap' = [heap EXCEPT ![t] = u] /\ live' = [live EXCEPT ![t] = live[t] \ {p}]
    BY <1>12 DEF Free, MemoryOK
  <2>2. PICK b \in used : /\ b.ptr = p.ptr
                          /\ \A c \in used : c.ptr = p.ptr <=> c = b
    BY <1>10, <2>1
  <2>3. /\ AllocatorOK(u, space[t].brk_start, space[t].brk)
        /\ Used(u.blocks) = used \ {b}
    <3>1. /\ AllocatorOK(free(heap[t], b.ptr), space[t].brk_start, space[t].brk)
          /\ Used(free(heap[t], b.ptr).blocks) = Used(heap[t].blocks) \ {b}
      BY <1>7, <2>1, FreeHeap
    <3>. QED
      BY <2>2, <3>1
  <2>. HIDE DEF u
  <2>4. u \in HeapType
    BY <2>3, AllocatorType
  <2>5. Matches(used \ {b}, live[t] \ {p})
    <3>1. Matches(used, live[t])
      BY <1>7, <2>1
    <3>. HIDE DEF used
    <3>. QED
      BY <2>2, <3>1, MatchesLess
  <2>6. live[t] \ {p} \in SUBSET [ptr : Nat, size : Nat]
    BY DEF HeapInv
  <2>. QED
    BY <2>1, <2>3, <2>4, <2>5, <2>6, HeapStep
<1>13. CASE UNCHANGED vars
  BY <1>4, <1>13 DEF vars
<1>. QED
  BY <1>1, <1>2, <1>3, <1>5, <1>6, <1>8, <1>9, <1>11, <1>12, <1>13 DEF Next

-----------------------------------------------------------------------------
(* What the heaps promise                                                  *)

(* No heaps without programs (task_init).                                  *)
LEMMA HeapsStart == Init => HeapInv
<1>. SUFFICES ASSUME Init PROVE HeapInv
  OBVIOUS
<1>. QED
  BY EmptyOK DEF Init, HeapInv

(* The heaps are in order all along, whatever the programs ask for, the    *)
(* kernel denies and the tasks next to them do (moos.c).                   *)
THEOREM HeapInductive == Spec => []HeapInv
<1>1. Init => ImageInv
  BY DEF Init, ImageInv
<1>. QED
  BY <1>1, MemoryStarts, HeapsStart, MemoryKept, ImageKept, HeapKept, PTL DEF Spec

(* Two sets are as large as each other when each member of one has its own *)
(* of the other.                                                           *)
LEMMA SameSize ==
    ASSUME NEW S, NEW T, IsFiniteSet(S), NEW f, f \in [S -> T],
           \A x, y \in S : f[x] = f[y] => x = y, \A z \in T : \E x \in S : f[x] = z
    PROVE  Cardinality(S) = Cardinality(T)
<1>1. f \in Bijection(S, T)
  BY DEF Bijection, Injection, Surjection, IsInjective
<1>2. ExistsBijection(S, T)
  BY <1>1 DEF ExistsBijection
<1>. QED
  BY <1>2, FS_Bijection

(* The blocks tile the heap (BlocksTile).                                  *)
LEMMA HeapTiles == HeapInv => BlocksTile
<1>. SUFFICES ASSUME HeapInv, NEW t \in Tasks, state[t] = "user"
     PROVE  LET bs == heap[t].blocks
                n == Len(bs)
                End(i) == block_payload(bs[i]) + bs[i].size
            IN  /\ n = 0 => heap[t].tail = 0 /\ space[t].brk = space[t].brk_start
                /\ n > 0 => /\ bs[1].addr = space[t].brk_start
                            /\ End(n) = space[t].brk
                            /\ heap[t].tail = bs[n].addr
                /\ \A i \in 1 .. n - 1 : /\ bs[i + 1].addr = End(i)
                                         /\ ~ (bs[i].free /\ bs[i + 1].free)
  BY DEF BlocksTile
<1>. DEFINE u == heap[t]
            bs == u.blocks
            lo == space[t].brk_start
            hi == space[t].brk
<1>1. /\ Tile(bs, lo, hi) /\ Merged(bs) /\ u.tail = LastOf(bs)
  BY DEF HeapInv, HeapOf, Call, AllocatorOK
<1>2. \A i \in 1 .. Len(bs) : EndOf(bs[i]) = block_payload(bs[i]) + bs[i].size
  BY DEF EndOf, block_payload
<1>3. Len(bs) \in Nat
  BY <1>1, LenProperties DEF Tile
<1>. HIDE DEF u, lo, hi
<1>4. Len(bs) = 0 => lo = hi /\ u.tail = 0
  BY <1>1 DEF Tile, LastOf
<1>. HIDE DEF bs
<1>5. Len(bs) > 0 => /\ bs[1].addr = lo /\ block_payload(bs[Len(bs)]) + bs[Len(bs)].size = hi
                     /\ u.tail = bs[Len(bs)].addr
  BY <1>1, <1>2, <1>3 DEF Tile, LastOf
<1>6. \A i \in 1 .. Len(bs) - 1 :
          /\ bs[i + 1].addr = block_payload(bs[i]) + bs[i].size
          /\ ~ (bs[i].free /\ bs[i + 1].free)
  BY <1>1, <1>2, <1>3 DEF Tile, Merged
<1>. QED
  BY <1>4, <1>5, <1>6 DEF bs, u, lo, hi

(* Every program's heap is tiled by its blocks, in the order of the list,  *)
(* up to the break: malloc, free, calloc and realloc keep Memory!BlocksTile*)
(* whatever the kernel does with a sbrk.                                   *)
THEOREM HeapTiled == Spec => []BlocksTile
BY HeapInductive, HeapTiles, PTL

(* The pointers are those of the blocks in use (PointersHeld).             *)
LEMMA HeapHolds == HeapInv => PointersHeld
<1>. SUFFICES ASSUME HeapInv, NEW t \in Tasks, state[t] = "user"
     PROVE  LET bs == heap[t].blocks
                inuse == {i \in DOMAIN bs : ~ bs[i].free}
            IN  /\ {block_payload(bs[i]) : i \in inuse} = {p.ptr : p \in live[t]}
                /\ Cardinality(live[t]) = Cardinality(inuse)
                /\ \A p \in live[t] : \E i \in inuse :
                       block_payload(bs[i]) = p.ptr /\ bs[i].size >= p.size
  BY DEF PointersHeld
<1>. DEFINE bs == heap[t].blocks
            inuse == {i \in DOMAIN bs : ~ bs[i].free}
            held == live[t]
            used == Used(bs)
<1>1. /\ Matches(used, held) /\ held \in SUBSET [ptr : Nat, size : Nat]
      /\ Tile(bs, space[t].brk_start, space[t].brk)
  BY DEF HeapInv, HeapOf, Call, AllocatorOK
<1>. HIDE DEF bs, held, used
<1>2. /\ Len(bs) \in Nat /\ DOMAIN bs = 1 .. Len(bs)
      /\ \A i \in 1 .. Len(bs) :
             /\ bs[i].addr \in Nat /\ bs[i].size \in Nat
             /\ block_payload(bs[i]) = bs[i].addr + HEADER_SIZE
      /\ \A i, j \in 1 .. Len(bs) : bs[i].addr = bs[j].addr => i = j
  BY ONLY <1>1, BlocksAre
<1>3. HEADER_SIZE \in Nat
  BY UserHeapAssumption
<1>4. \A i, j \in inuse : block_payload(bs[i]) = block_payload(bs[j]) => i = j
  <2>1. ASSUME NEW i \in inuse, NEW j \in inuse,
               block_payload(bs[i]) = block_payload(bs[j])
        PROVE  i = j
    <3>1. bs[i].addr + HEADER_SIZE = bs[j].addr + HEADER_SIZE
      BY <1>2, <2>1
    <3>. QED
      BY <1>2, <1>3, <3>1
  <2>. QED
    BY <2>1
<1>5. /\ \A i \in inuse : [ptr |-> block_payload(bs[i]), size |-> bs[i].size] \in used
      /\ \A b \in used : \E i \in inuse :
             b = [ptr |-> block_payload(bs[i]), size |-> bs[i].size]
  BY <1>2, UsedIs DEF used, Used, Handed
<1>6. \A p \in held : \E i \in inuse :
          block_payload(bs[i]) = p.ptr /\ bs[i].size >= p.size
  <2>1. ASSUME NEW p \in held
        PROVE  \E i \in inuse : block_payload(bs[i]) = p.ptr /\ bs[i].size >= p.size
    <3>1. PICK b \in used : b.ptr = p.ptr /\ p.size <= b.size
      BY <1>1 DEF Matches
    <3>2. PICK i \in inuse : b = [ptr |-> block_payload(bs[i]), size |-> bs[i].size]
      BY <1>5
    <3>3. p.size \in Nat /\ bs[i].size \in Nat
      BY <1>1, <1>2
    <3>. HIDE DEF inuse
    <3>. QED
      BY <3>1, <3>2, <3>3
  <2>. QED
    BY <2>1
<1>7. \A i \in inuse : \E p \in held : p.ptr = block_payload(bs[i])
  <2>1. ASSUME NEW i \in inuse PROVE \E p \in held : p.ptr = block_payload(bs[i])
    <3>. DEFINE b == [ptr |-> block_payload(bs[i]), size |-> bs[i].size]
    <3>1. b \in used /\ b.ptr = block_payload(bs[i])
      BY <1>5
    <3>. HIDE DEF b
    <3>. QED
      BY <1>1, <3>1 DEF Matches
  <2>. QED
    BY <2>1
<1>. HIDE DEF inuse
<1>8. {block_payload(bs[i]) : i \in inuse} = {p.ptr : p \in held}
  BY <1>6, <1>7
<1>9. Cardinality(held) = Cardinality(inuse)
  <2>. DEFINE Of(i) == CHOOSE p \in held : p.ptr = block_payload(bs[i])
              f == [i \in inuse |-> Of(i)]
  <2>1. \A i \in inuse : Of(i) \in held /\ Of(i).ptr = block_payload(bs[i])
    BY <1>7
  <2>. HIDE DEF Of
  <2>2. f \in [inuse -> held] /\ \A i \in inuse : f[i].ptr = block_payload(bs[i])
    BY <2>1
  <2>3. \A i, j \in inuse : f[i] = f[j] => i = j
    BY <1>4, <2>2
  <2>4. \A p \in held : \E i \in inuse : f[i] = p
    <3>1. ASSUME NEW p \in held PROVE \E i \in inuse : f[i] = p
      <4>1. PICK i \in inuse : block_payload(bs[i]) = p.ptr
        BY <1>6
      <4>2. f[i] \in held /\ f[i].ptr = p.ptr
        BY <2>2, <4>1
      <4>. QED
        BY <1>1, <4>2 DEF Matches
    <3>. QED
      BY <3>1
  <2>5. IsFiniteSet(inuse)
    <3>1. inuse \subseteq 1 .. Len(bs)
      BY <1>2 DEF inuse
    <3>. QED
      <4>1. 1 \in Int /\ Len(bs) \in Int
        BY <1>2
      <4>2. IsFiniteSet(1 .. Len(bs))
        BY ONLY <4>1, FS_Interval
      <4>. QED
        BY ONLY <3>1, <4>2, FS_Subset
  <2>. HIDE DEF f
  <2>. QED
    BY <2>2, <2>3, <2>4, <2>5, SameSize
<1>. QED
  BY <1>6, <1>8, <1>9 DEF bs, inuse, held

(* Every pointer a program holds has a block of its own in use, as large   *)
(* as was asked for, and no block in use is lost: Memory!PointersHeld,     *)
(* also when a realloc finds no memory and leaves the old block.           *)
THEOREM PointersAreHeld == Spec => []PointersHeld
BY HeapInductive, HeapHolds, PTL
=============================================================================
