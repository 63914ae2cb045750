---------------------------- MODULE AddressSpace ----------------------------
(***************************************************************************)
(* The memory of a user task: its page directory and tables (page.c), the  *)
(* loader (elf.c, task_load of task.c) and sbrk.  Everything here runs in  *)
(* the kernel, which is not preempted.  m = [ok, table, space, at, buf]    *)
(* is a call's progress: whether it has failed, the kernel heap, the task's *)
(* memory, the last block allocated and the buffer a program is read into. *)
(*                                                                         *)
(* The entries of a user page table are kept as one function of the page   *)
(* number; a page directory holds the same table addresses as user_tables, *)
(* written together, and the shared kernel tables, which never change.     *)
(***************************************************************************)
EXTENDS KHeap, Sequences, SequencesExt

CONSTANTS
    USER_CODE_ADDR,           \* first user address, at a table's start
    TOTAL_ENTRIES_PER_TABLE,  \* pages of a page table
    USER_SPACE_TABLES,        \* page tables of the user space
    USER_STACK_SIZE,          \* bytes of stack below the top
    TASK_KERNEL_STACK_SIZE,
    Word                      \* 2^w, numbers of addresses and sizes

PAGE_SIZE == HEAP_BLOCK_SIZE
USER_SPACE_PAGES == USER_SPACE_TABLES * TOTAL_ENTRIES_PER_TABLE
USER_STACK_TOP == USER_CODE_ADDR + USER_SPACE_PAGES * PAGE_SIZE
USER_HEAP_LIMIT == USER_STACK_TOP - USER_STACK_SIZE - PAGE_SIZE

ASSUME SpaceAssumption ==
    /\ {USER_CODE_ADDR, TOTAL_ENTRIES_PER_TABLE, USER_SPACE_TABLES,
        USER_STACK_SIZE, TASK_KERNEL_STACK_SIZE, Word} \subseteq Nat \ {0}
    /\ USER_CODE_ADDR % (TOTAL_ENTRIES_PER_TABLE * PAGE_SIZE) = 0
    /\ USER_STACK_SIZE % PAGE_SIZE = 0
    /\ USER_HEAP_LIMIT > USER_CODE_ADDR
    /\ USER_STACK_TOP < Word

Tables == 0 .. USER_SPACE_TABLES - 1
FirstPage == USER_CODE_ADDR \div PAGE_SIZE
UserPages == FirstPage .. FirstPage + USER_SPACE_PAGES - 1
TableOf(page) == (page - FirstPage) \div TOTAL_ENTRIES_PER_TABLE

(* a page table entry: the block it maps and IS_WRITABLE *)
NotPresent == [block |-> None, writable |-> FALSE]

NoSpace ==
    [dir |-> None, dir_entry |-> None,
     user_tables |-> [i \in Tables |-> None],
     pages |-> [p \in UserPages |-> NotPresent],
     kernel_stack |-> None, brk_start |-> 0, brk |-> 0]

Signed(x) == IF x < Word \div 2 THEN x ELSE x - Word

Fail(m) == [m EXCEPT !.ok = FALSE]

(* asks the kernel heap for memory and remembers the answer *)
Got(m, a) == [m EXCEPT !.ok = @ /\ a.at # None, !.table = a.table, !.at = a.at]
Alloc(m, size) == Got(m, kmalloc(m.table, size))

-----------------------------------------------------------------------------
(* page.c *)

NewDir(m) == [m EXCEPT !.space.dir = m.at]
NewDirEntry(m) == [m EXCEPT !.space.dir_entry = m.at]
FreeDirUnless(m) ==
    IF m.ok THEN m
    ELSE [m EXCEPT !.table = kfree(kfree(@, m.space.dir), m.space.dir_entry),
                   !.space.dir = None, !.space.dir_entry = None]

(* both allocations are tried, and both are freed when one fails *)
page_dir_new_user(m) ==
    FreeDirUnless(NewDirEntry(Alloc(NewDir(Alloc(m, 1)), PAGE_SIZE)))

NewTable(m, idx) ==
    IF m.ok THEN [m EXCEPT !.space.user_tables[idx] = m.at] ELSE m

(* the table of a page comes with the first page mapped in it *)
page_dir_user_entry(m, page) ==
    IF page \notin UserPages THEN Fail(m)
    ELSE IF m.space.user_tables[TableOf(page)] # None THEN m
    ELSE NewTable(Alloc(m, PAGE_SIZE), TableOf(page))

FreeAll(table, addrs) ==
    LET after[n \in 0 .. Len(addrs)] ==
            IF n = 0 THEN table ELSE kfree(after[n - 1], addrs[n])
    IN  after[Len(addrs)]

page_dir_free_user(table, space) ==
    FreeAll(table, [i \in 1 .. USER_SPACE_TABLES |-> space.user_tables[i - 1]]
                   \o <<space.dir_entry, space.dir>>)

-----------------------------------------------------------------------------
(* task.c *)

NewPage(m, page) ==
    IF m.ok THEN [m EXCEPT !.space.pages[page].block = m.at] ELSE m
MapPage(m, page) ==
    IF m.ok /\ m.space.pages[page].block = None
    THEN NewPage(Alloc(m, PAGE_SIZE), page) ELSE m
(* Mutant of Permit: the last part loaded decides *)
PermitOverwrites(m, page, writable) ==
    IF m.ok THEN [m EXCEPT !.space.pages[page].writable = writable] ELSE m

Permit(m, page, writable) ==
    IF m.ok THEN [m EXCEPT !.space.pages[page].writable = @ \/ writable] ELSE m

(* pages only stay read only if every part loaded into them is *)
task_user_page(m, page, writable) ==
    Permit(MapPage(page_dir_user_entry(m, page), page), page, writable)

(* the pages that hold len bytes from vaddr on, in order *)
PagesOf(vaddr, len) ==
    LET first == vaddr \div PAGE_SIZE
    IN  [i \in 1 .. IF len = 0 THEN 0
                    ELSE (vaddr + len - 1) \div PAGE_SIZE - first + 1 |->
            first + i - 1]

CopyPage(m, page, writable) ==
    IF m.ok THEN task_user_page(m, page, writable) ELSE m

(* page after page, up to the first that cannot be mapped; the bytes       *)
(* themselves are not modelled                                             *)
task_copy_to_user(m, vaddr, len, writable) ==
    LET pages == PagesOf(vaddr, len)
        after[n \in 0 .. Len(pages)] ==
            IF n = 0 THEN m ELSE CopyPage(after[n - 1], pages[n], writable)
    IN  after[Len(pages)]

NewStack(m) == [m EXCEPT !.space.kernel_stack = m.at]
task_alloc_kernel_stack(m) ==
    IF m.ok THEN NewStack(Alloc(m, TASK_KERNEL_STACK_SIZE)) ELSE m

(* every page present in a table, then the tables and the directory *)
MappedPages(space) ==
    [i \in 1 .. USER_SPACE_PAGES |->
        IF space.user_tables[TableOf(FirstPage + i - 1)] = None THEN None
        ELSE space.pages[FirstPage + i - 1].block]

task_free(table, space) ==
    kfree(IF space.dir = None THEN table
          ELSE page_dir_free_user(FreeAll(table, MappedPages(space)), space),
          space.kernel_stack)

SetBrk(m, brk) == IF m.ok THEN [m EXCEPT !.space.brk = brk] ELSE m

(* maps the pages between the old and the new end, shrinking keeps them    *)
(* mapped; a new end that wraps or leaves the heap is refused              *)
MoveBrk(m, new_brk, grows) ==
    IF \/ grows /\ new_brk < m.space.brk
       \/ new_brk < m.space.brk_start
       \/ new_brk > USER_HEAP_LIMIT
    THEN Fail(m)
    ELSE SetBrk(IF new_brk <= m.space.brk THEN m
                ELSE task_copy_to_user(m, m.space.brk, new_brk - m.space.brk, TRUE),
                new_brk)

task_sbrk(m, increment) ==
    MoveBrk(m, (m.space.brk + increment + Word) % Word, increment > 0)

-----------------------------------------------------------------------------
(* elf.c.  A program is [size, readable, header, entry, segments]; header  *)
(* is FALSE for a file that is no i386 executable or whose program header  *)
(* table leaves it.  Only segments to load (PT_LOAD, memsz > 0) are        *)
(* listed.                                                                 *)

SegmentRefused(prog, ph) ==
    LET seg_end == (ph.vaddr + ph.memsz) % Word
        file_end == (ph.offset + ph.filesz) % Word
    IN  \/ ph.vaddr < USER_CODE_ADDR \/ seg_end > USER_HEAP_LIMIT
        \/ seg_end < ph.vaddr
        \/ ph.filesz > ph.memsz
        \/ file_end > prog.size \/ file_end < ph.offset

(* the file contents, then the zero filled rest *)
LoadSegment(m, prog, ph) ==
    IF ~ m.ok THEN m
    ELSE IF SegmentRefused(prog, ph) THEN Fail(m)
    ELSE task_copy_to_user(
             task_copy_to_user(m, ph.vaddr, ph.filesz, ph.writable),
             ph.vaddr + ph.filesz, ph.memsz - ph.filesz, ph.writable)

LoadSegments(m, prog) ==
    LET after[n \in 0 .. Len(prog.segments)] ==
            IF n = 0 THEN m
            ELSE LoadSegment(after[n - 1], prog, prog.segments[n])
    IN  after[Len(prog.segments)]

EntryLoaded(prog) ==
    \E i \in DOMAIN prog.segments :
        LET ph == prog.segments[i]
        IN  prog.entry \in ph.vaddr .. ph.vaddr + ph.memsz - 1

(* the entry point has to lie in a segment, which is found out last *)
Enter(m, prog) == IF EntryLoaded(prog) THEN m ELSE Fail(m)

elf_load(m, prog) ==
    IF ~ m.ok THEN m
    ELSE IF ~ prog.header THEN Fail(m)
    ELSE Enter(LoadSegments(m, prog), prog)

ImageEnd(prog) ==
    Max({USER_CODE_ADDR} \cup {prog.segments[i].vaddr + prog.segments[i].memsz :
                                   i \in DOMAIN prog.segments})
PageAligned(addr) == ((addr + PAGE_SIZE - 1) \div PAGE_SIZE) * PAGE_SIZE

-----------------------------------------------------------------------------
(* task_load: the directory and a buffer for the file, both asked for      *)
(* before either is checked, the segments, the heap behind them, the       *)
(* stack; the buffer is freed on every path                                *)

NewBuf(m) == [m EXCEPT !.buf = m.at]
ReadFile(m, prog) == IF prog.readable THEN m ELSE Fail(m)
PlaceHeap(m, brk) ==
    IF m.ok THEN [m EXCEPT !.space.brk_start = brk, !.space.brk = brk] ELSE m
MapStack(m) ==
    IF m.ok THEN task_copy_to_user(m, USER_STACK_TOP - USER_STACK_SIZE,
                                   USER_STACK_SIZE, TRUE)
    ELSE m
FreeBuf(m) == [m EXCEPT !.table = kfree(@, m.buf), !.buf = None]

task_load(m, prog) ==
    IF prog.size = 0 THEN Fail(m)
    ELSE FreeBuf(MapStack(PlaceHeap(
             elf_load(ReadFile(NewBuf(Alloc(page_dir_new_user(m), prog.size)),
                               prog), prog),
             PageAligned(ImageEnd(prog)))))
=============================================================================
