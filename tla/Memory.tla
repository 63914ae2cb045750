------------------------------- MODULE Memory -------------------------------
(***************************************************************************)
(* Tasks that share the kernel heap.  Loading a program, growing a user    *)
(* heap and freeing a task take and return blocks of it; the rest of the   *)
(* kernel (pipes, the file system, the desktop's buffers) does too, as     *)
(* Allocate and Release.  The kernel is not preempted (idt.c:117), so      *)
(* every call is one step; malloc, free and realloc touch only the         *)
(* program's own memory apart from sbrk, so they are one step as well.     *)
(***************************************************************************)
EXTENDS UserHeap

CONSTANTS
    MAX_TASKS,     \* slots of the task table for user programs
    Programs,      \* files that may be spawned
    Requests,      \* sizes a program asks malloc and realloc for
    Counts,        \* <<count, size>> pairs of calloc
    KernelSizes,   \* sizes the rest of the kernel allocates
    KernelTables,  \* page tables of the kernel's own directory, 1024 in the code
    MaxLive,       \* bound: pointers the programs hold at once
    MaxOther       \* bound: allocations of the rest of the kernel

(* Larger requests wrap: see the README *)
ASSUME RequestAssumption ==
    /\ Requests \subseteq Nat /\ KernelSizes \subseteq Nat
    /\ Counts \subseteq Nat \X Nat
    /\ \A n \in Requests : n + ALIGN + HEADER_SIZE < Word \div 2
    /\ \A c \in Counts : c[1] * c[2] < Word =>
           c[1] * c[2] + ALIGN + HEADER_SIZE < Word \div 2

(* The fields of a program header are words, the file's size is one too.   *)
ASSUME ProgramAssumption ==
    LET Words == 0 .. Word - 1
    IN  \A p \in Programs :
            /\ p.size \in Words
            /\ p.segments \in Seq([vaddr : Words, memsz : Words, offset : Words,
                                   filesz : Words, writable : BOOLEAN])

(* The heap has room for the kernel's own directory: 25600 blocks in the   *)
(* code.                                                                   *)
ASSUME KernelFits ==
    KernelTables \in Nat /\ HEAP_BLOCKS >= KernelTables + 2

VARIABLES
    table,         \* kernel_heap_table
    kernel_dir,    \* blocks of the kernel's own page directory
    other,         \* blocks the rest of the kernel holds
    state,         \* [Tasks -> {"unused", "user", "zombie"}]
    prog,          \* the program a task was loaded from
    space,         \* [Tasks -> address space]
    heap,          \* [Tasks -> allocator of the program]
    live           \* [Tasks -> pointers the program holds, with their size]

Tasks == 1 .. MAX_TASKS

vars == <<table, kernel_dir, other, state, prog, space, heap, live>>

NoProgram ==
    [size |-> 0, readable |-> TRUE, header |-> FALSE, entry |-> 0,
     segments |-> <<>>]

(* page_dir_init: a directory, its tables and the page_dir that points at  *)
(* them, a block each                                                      *)
HoldAnother(got) ==
    LET a == kmalloc(got.table, PAGE_SIZE)
    IN  [table |-> a.table, held |-> got.held \cup {a.at}]

page_dir_init(t) ==
    LET after[n \in 0 .. KernelTables + 2] ==
            IF n = 0 THEN [table |-> t, held |-> {}]
            ELSE HoldAnother(after[n - 1])
    IN  after[KernelTables + 2]

Init ==
    /\ table = page_dir_init(heap_desc_init).table
    /\ kernel_dir = page_dir_init(heap_desc_init).held
    /\ other = {}
    /\ state = [t \in Tasks |-> "unused"]
    /\ prog = [t \in Tasks |-> NoProgram]
    /\ space = [t \in Tasks |-> NoSpace]
    /\ heap = [t \in Tasks |-> EmptyHeap]
    /\ live = [t \in Tasks |-> {}]

Call(t) ==
    [ok |-> TRUE, table |-> table, space |-> space[t], at |-> None, buf |-> None]

Spawned(t, p, m) ==
    /\ IF m.ok
       THEN /\ table' = m.table
            /\ space' = [space EXCEPT ![t] = m.space]
            /\ state' = [state EXCEPT ![t] = "user"]
            /\ prog' = [prog EXCEPT ![t] = p]
       ELSE /\ table' = task_free(m.table, m.space)
            /\ UNCHANGED <<space, state, prog>>
    /\ UNCHANGED <<kernel_dir, other, heap, live>>

(* into the first unused slot, task_alloc *)
task_spawn(t, p) ==
    /\ state[t] = "unused" /\ \A s \in 1 .. t - 1 : state[s] # "unused"
    /\ Spawned(t, p, task_alloc_kernel_stack(task_load(Call(t), p)))

(* what task_exit does to memory: nothing yet, its stack is in use *)
task_exit(t) ==
    /\ state[t] = "user"
    /\ state' = [state EXCEPT ![t] = "zombie"]
    /\ heap' = [heap EXCEPT ![t] = EmptyHeap]
    /\ live' = [live EXCEPT ![t] = {}]
    /\ UNCHANGED <<table, kernel_dir, other, prog, space>>

(* task_wait, or task_reap_zombies for a detached task *)
Reap(t) ==
    /\ state[t] = "zombie"
    /\ table' = task_free(table, space[t])
    /\ state' = [state EXCEPT ![t] = "unused"]
    /\ space' = [space EXCEPT ![t] = NoSpace]
    /\ prog' = [prog EXCEPT ![t] = NoProgram]
    /\ UNCHANGED <<kernel_dir, other, heap, live>>

Allocated(a, size) ==
    /\ a.at # None
    /\ table' = a.table
    /\ other' = other \cup {<<a.at, BlocksFor(size)>>}
    /\ UNCHANGED <<kernel_dir, state, prog, space, heap, live>>

Allocate(size) ==
    Cardinality(other) < MaxOther /\ Allocated(kmalloc(table, size), size)

Release(run) ==
    /\ table' = kfree(table, run[1])
    /\ other' = other \ {run}
    /\ UNCHANGED <<kernel_dir, state, prog, space, heap, live>>

-----------------------------------------------------------------------------
(* A program's calls *)

LiveCount == Cardinality(UNION {{t} \X live[t] : t \in Tasks})

(* the outcome of a call: a pointer that takes the place of those in old,  *)
(* which stay the program's when there is none                             *)
Keep(t, out, old, size) ==
    /\ table' = out.m.table
    /\ space' = [space EXCEPT ![t] = out.m.space]
    /\ heap' = [heap EXCEPT ![t] = out.u]
    /\ live' = [live EXCEPT ![t] =
                  IF out.ptr = 0 THEN @
                  ELSE (@ \ old) \cup {[ptr |-> out.ptr, size |-> size]}]
    /\ UNCHANGED <<kernel_dir, other, state, prog>>

Malloc(t, size) ==
    /\ state[t] = "user" /\ LiveCount < MaxLive
    /\ Keep(t, malloc(Call(t), heap[t], size), {}, size)

Calloc(t, c) ==
    /\ state[t] = "user" /\ LiveCount < MaxLive
    /\ Keep(t, calloc(Call(t), heap[t], c[1], c[2]), {}, c[1] * c[2])

Realloc(t, p, size) ==
    /\ state[t] = "user"
    /\ Keep(t, realloc(Call(t), heap[t], p.ptr, size), {p}, size)

Free(t, p) ==
    /\ state[t] = "user"
    /\ heap' = [heap EXCEPT ![t] = free(@, p.ptr)]
    /\ live' = [live EXCEPT ![t] = @ \ {p}]
    /\ UNCHANGED <<table, kernel_dir, other, state, prog, space>>

Next ==
    \/ \E t \in Tasks, p \in Programs : task_spawn(t, p)
    \/ \E t \in Tasks : task_exit(t) \/ Reap(t)
    \/ \E size \in KernelSizes : Allocate(size)
    \/ \E run \in other : Release(run)
    \/ \E t \in Tasks : \/ \E size \in Requests : Malloc(t, size)
                        \/ \E c \in Counts : Calloc(t, c)
                        \/ \E p \in live[t] : Free(t, p)
                        \/ \E p \in live[t], size \in Requests :
                               Realloc(t, p, size)

Spec == Init /\ [][Next]_vars

-----------------------------------------------------------------------------
(* Properties *)

(* who holds which run of the kernel heap *)
Fields ==
    ({"dir", "dir_entry", "kernel_stack"} \X {0})
        \cup ({"table"} \X Tables) \cup ({"page"} \X UserPages)

BlockOf(s, field) ==
    CASE field[1] = "dir"          -> s.dir
      [] field[1] = "dir_entry"    -> s.dir_entry
      [] field[1] = "kernel_stack" -> s.kernel_stack
      [] field[1] = "table"        -> s.user_tables[field[2]]
      [] OTHER                     -> s.pages[field[2]].block

BlocksOf(field) ==
    IF field[1] = "kernel_stack" THEN BlocksFor(TASK_KERNEL_STACK_SIZE) ELSE 1

Claim(t, s, field) ==
    [by |-> <<"task", t, field>>, run |-> <<BlockOf(s, field), BlocksOf(field)>>]

Claims(t, s, fields) ==
    {Claim(t, s, f) : f \in {g \in fields : BlockOf(s, g) # None}}

Held ==
    {[by |-> <<"kernel">>, run |-> <<b, 1>>] : b \in kernel_dir}
    \cup {[by |-> <<"other">>, run |-> run] : run \in other}
    \cup UNION {Claims(t, space[t], Fields) : t \in Tasks}

(* Every allocation of the kernel heap has exactly one holder and every    *)
(* holder its allocation, of the length it asked for: nothing leaks when a *)
(* load fails halfway (task_load, task_spawn) or a task is freed, nothing  *)
(* is handed out twice or freed under its owner (find_free_block,          *)
(* heap_free, task_free).                                                  *)
AllAccounted ==
    /\ {h.run : h \in Held} = Runs(table)
    /\ UNION {RunBlocks(h.run) : h \in Held} = table.taken
    /\ \A g, h \in Held :
           g # h => RunBlocks(g.run) \cap RunBlocks(h.run) = {}

(* the parts of a task's memory, with whether it may write them *)
Parts(t) ==
    {[from |-> ph.vaddr, to |-> ph.vaddr + ph.memsz - 1,
      writable |-> ph.writable] : ph \in ToSet(prog[t].segments)}
    \cup {[from |-> space[t].brk_start, to |-> space[t].brk - 1,
           writable |-> TRUE],
          [from |-> USER_STACK_TOP - USER_STACK_SIZE,
           to |-> USER_STACK_TOP - 1, writable |-> TRUE]}

PartsOn(t, page) ==
    {part \in Parts(t) : /\ part.from <= part.to
                         /\ page \in part.from \div PAGE_SIZE
                                       .. part.to \div PAGE_SIZE}

(* A running program has a page under every byte of its segments, of its   *)
(* heap up to brk and of its stack, one it can write exactly when some     *)
(* part on it is writable, and none between heap and stack ("the page      *)
(* below them stays unmapped to catch overflows", task_load) - also after  *)
(* a sbrk that ran out of memory halfway.                                  *)
ImageMapped ==
    \A t \in Tasks : state[t] = "user" =>
        /\ \A page \in UserPages : PartsOn(t, page) # {} =>
               /\ space[t].pages[page].block # None
               /\ space[t].pages[page].writable
                      = \E part \in PartsOn(t, page) : part.writable
        /\ space[t].pages[USER_HEAP_LIMIT \div PAGE_SIZE] = NotPresent
        /\ \E part \in Parts(t) : prog[t].entry \in part.from .. part.to

(* The blocks of a program's heap lie one behind the other from brk_start  *)
(* to brk, heap_tail is the last, and no two neighbours are free: what     *)
(* merging and splitting rely on ("blocks are kept in address order so     *)
(* neighbouring free blocks can be merged", moos.c).                       *)
BlocksTile ==
    \A t \in Tasks : state[t] = "user" =>
        LET bs == heap[t].blocks
            n == Len(bs)
            End(i) == block_payload(bs[i]) + bs[i].size
        IN  /\ n = 0 => heap[t].tail = 0 /\ space[t].brk = space[t].brk_start
            /\ n > 0 => /\ bs[1].addr = space[t].brk_start
                        /\ End(n) = space[t].brk
                        /\ heap[t].tail = bs[n].addr
            /\ \A i \in 1 .. n - 1 : /\ bs[i + 1].addr = End(i)
                                     /\ ~ (bs[i].free /\ bs[i + 1].free)

(* Every pointer a program holds is the payload of a block of its own that *)
(* is in use and as large as it asked for, and every block in use has its  *)
(* pointer (malloc, free, realloc).                                        *)
PointersHeld ==
    \A t \in Tasks : state[t] = "user" =>
        LET bs == heap[t].blocks
            inuse == {i \in DOMAIN bs : ~ bs[i].free}
        IN  /\ {block_payload(bs[i]) : i \in inuse} = {p.ptr : p \in live[t]}
            /\ Cardinality(live[t]) = Cardinality(inuse)
            /\ \A p \in live[t] : \E i \in inuse :
                   block_payload(bs[i]) = p.ptr /\ bs[i].size >= p.size
=============================================================================
