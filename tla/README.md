# moOS: a TLA+ verification project

moOS is a 32 bit x86 operating system: a preemptive kernel with three
scheduling policies, named mutexes with priority inheritance, pipes, a FAT16
file system and drivers for timer, keyboard, mouse, disk and screen, and a set
of user programs (a shell, a desktop, a small libc). This directory models the
parts of it whose correctness depends on the order of events, checks them with
TLC on small instances, and proves the central invariants with TLAPS for every
size of the tables.

Paths below are relative to `src/src/` of the repository.

## 1. Inventory

| component | state | operations | hard behaviours |
|---|---|---|---|
| scheduler `kernel/task/sched.c` | policy, `need_resched`, `task_running`, time slices | pick next, switch, wake, tick, set policy | preemption at every wakeup, rank changes without a wakeup, starvation, deadlines that wrap |
| tasks `kernel/task/task.c` | task table: state, priorities, period, deadline, parent, killed, detached, foreground | spawn, exit, kill, wait, sleep, wait for a key, set period/priority, return to user | kill in any wait, exit before/after/without a wait, reaping, slot reuse |
| mutexes `kernel/task/mutex.c` | name, references, owner, inherit flag; per task the open set and the mutex it waits for | open, lock, unlock, close, release at exit | hand over between unlock and the next run of the waiter, chains of owners, death of owners and waiters |
| interrupts and calls `kernel/idt`, `kernel/syscall` | none of their own | dispatch, return to ring 3 | interrupts at any instruction of ring 3 and inside `hlt` |
| init and idle `kernel/kernel.c`, `task.c` | where they are | restart of the shell, `hlt` loop | a wakeup just before `hlt` |
| keyboard `drivers/keyboard` | char ring buffer, event queue | interrupt, read, flush, ctrl+c | competing readers, full buffer |
| timer `drivers/timer` | tick counter | tick, conversions | wrap around, overflow of the conversion |
| pipes `kernel/task/pipe.c` | ring buffer, number of readers and writers | read, write, close | blocking both ways, last close, kill while blocked |
| handles `kernel/task/handle.c` | kind, reference count; terminal line | ref, close, read, write | sharing over spawn, line left by a killed reader |
| kernel heap `kernel/memory/heap` | table of blocks | malloc, free | runs of blocks, the end of the table |
| paging and loading `kernel/memory/paging`, `elf.c` | page directories | map, free, load, sbrk | failure half way |
| FAT16 `file_system` | FAT, directory entries, descriptors | open, read, write, seek, remove, mkdir | several descriptors on one file, disk full, failure half way |
| disk, mouse, screen, serial, rtc | device state | port I/O | mostly hardware |
| shell `user/sh.c` | descriptors, the pipeline it runs, job it waits for | split, parse, run, wait, kill, exit | a start that fails half way, pipe ends that keep a program waiting, kills between two waits |
| line editor `user/shline.c`, screen `drivers/screen` | the line, its place on the screen, history; cells and cursor | keys, completion, history, print, scroll | wrapping and scrolling under the line, output of other programs |
| desktop `user/desk.c` | windows, their order, selection, mouse mode, menu, alert, shells | press, move, release, keys, poll of the shells, quit | slots that are reused, several ways to close one window, programs that end by themselves |
| text editor `user/deskedit.c` | text, cursor, mode, pending keys, register, copy for undo | normal, insert and command keys, load, save, click | undo across saves, a full buffer, a save that fails |
| user heap `user/lib/moos.c` | list of blocks, its tail | malloc, free, calloc, realloc | splitting, merging, an sbrk that fails |
| other user programs | per program | libc, demos, games | no shared state |

The components meet in few places. Every system call and interrupt enters the
kernel through an interrupt gate, so it runs with interrupts off until it
returns to ring 3 or blocks in `schedule()`. Handlers therefore do not
interleave with each other except where a call blocks, and every blocking call
is a loop around `schedule()` that asks its condition again. On the way back to
ring 3 `task_return_to_user` switches if somebody asked for it and ends a task
that was killed. The scheduler is called by tasks (block, exit), mutexes, pipes
and interrupts (wake); `task_exit` calls mutexes and handles to give back what
the task holds.

`PROJECT.json` lists the hazards of this code one by one with the properties
that would catch them.

## 2. Modules

```
TaskTable            fields of struct task, constants of config.h
  Sched              sched.c
    Mutex            mutex.c
      Task           task.c
        Kernel       interrupts, system calls, init, idle; specification and properties
          MCKernel   views for TLC
          KernelProofs   types, running task, mutexes; waits for children,
                         ticks and keys; who runs, inherited priorities
                         (with NumberLemmas)

Pipe                 pipe.c
  Handle             handle.c, descriptors of task.c; specification and properties
    MCHandle         view and symmetry for TLC
    HandleProofs     proofs, also of the refinement (with NumberLemmas)
ByteStream           what a pipe promises; Handle is shown to implement it

Fat16                fat16.c, descriptors of stdio.c; specification and properties
  MCFat16            names, view and symmetry for TLC
  Fat16Proofs        proofs about it (with NumberLemmas)
FileStore            what a file system promises; Fat16 is shown to implement it

KHeap                heap.c, kheap.c
  AddressSpace       page.c, elf.c, load, sbrk and free of task.c
    UserHeap         malloc, free, calloc and realloc of lib/moos.c
      Memory         tasks that share the heap; specification and properties
        MCMemory     programs for TLC
        MemoryProofs proofs, from the block table up to image and heap of a
                     running program (with NumberLemmas)

Shell                sh.c and the programs it runs (MCShell)
  ShellProofs        proofs about it
Terminal             terminal.c, deskterm.c
  LineEdit           shline.c on a terminal (MCLineEdit)
DeskEdit             deskedit.c with save, close and alert of desk.c (MCDeskEdit)
  DeskEditProofs     proofs about it (with NumberLemmas)
Desk                 desk.c (MCDesk)
  DeskProofs         proofs about it (with NumberLemmas)
```

The modules extend each other because the C files share the task table and call
each other inside one handler. An operator named like a C function is the
function; it takes as arguments what the function reads after the caller has
changed it. Actions are in `Kernel`: one per system call, interrupt, step of a
kernel thread, and resume point after `schedule()`.

How the state corresponds to the code:

- `state`, `priority`, `base_priority`, `period`, `deadline`, `killed`,
  `detached`, `parent`, `foreground`, `is_shell`, `wake_tick`, `wait_pid`,
  `wait_mutex`, `wait_channel`, `mutexes` are the fields of `struct task`, as
  functions of the slot. `mutexes` is the bit set. Pids are not modelled: they
  are never reused, and a slot that is in use stands for its pid.
- `pc` is where the saved kernel stack of a task resumes it. A task that blocks
  inside `mutex_lock` has `pc = "lock"`, and the action `LockResumes` is the
  rest of the loop. `return`/`resumed`/`dying` are the points of
  `task_return_to_user`.
- `policy`, `need_resched`, `task_running`, `ticks` are the globals. `slice` is
  that of the running task, since `schedule()` sets it anew at every switch; the
  code counts it below 0 when a switch is late, the model stops at 0, which no
  test tells apart.
- `name`, `refs`, `inherit`, `owner` are `struct mutex`.
- `keys` is how many chars the keyboard buffer holds. Which chars they are
  makes no difference here.

The streams:

- `buffer`, `head`, `count`, `readers`, `writers` are `struct pipe`; `type`,
  `refs`, `end_of` are `struct handle`, a slot of each for every one the kernel
  heap has room for. A handle with `refs = 0` and a pipe with no end are free.
- `call`, `pipe`, `len`, `left` are the kernel stack of a task inside
  `pipe_read` or `pipe_write`; `wait_channel` is the pipe it is blocked on.
- `live` is that the task is neither unused nor a zombie, `fds` its descriptors.
- The loops over bytes are `Take` and `Store`; no other task runs in between.
- The two programs of the kernel model and the scheduler are not repeated here:
  any live task may take the next step. That is more than any of the three
  policies allows, so what holds here holds under each.
- Handles of files and of the terminal are only counted. A `sys_pipe` without
  two free descriptors closes both ends again and is a step that changes
  nothing; the same goes for an allocation that fails.

The files:

- `disk` is the image: `fat` and `next_free`, the directory `items` and the
  `bytes` of files, by cluster; cluster 0 stands for the root directory. The
  copies of the FAT and of the root directory in memory are only written
  together with those on disk, so there is one of each.
- `descs` is `struct fat_file_descriptor`: mode, position, its own copy of the
  directory item, and where on disk the item was.
- The operators named like functions take a disk and return the changed one
  with their result. A call runs with interrupts off from start to end and is
  one action; what interleaves is calls through several descriptors.
- A name is an 8.3 name or a long one, with its upper case form, its aliases in
  the order `fat16_make_alias` tries them, and the number of items it takes. The
  checksum of a long name is the alias itself: two aliases with the same 8 bit
  sum are not told apart in the code, and are here.
- Paths are absolute and have one or two parts. Dates, attributes and failing
  disk accesses are left out.
- With `Careful`, programs do not write to a file that another descriptor
  writes, and do not truncate or remove one that is open. The code does not
  stop them; `SharedFile.cfg`, one of the configurations of section 3 that no
  run uses, is about those that do.

The memory:

- `table` is the table of the kernel heap, kept as the sets of entries with each
  bit; an address in the heap is the number of its block, and a page is a block.
- `space` holds what `struct task` and its `struct page_dir` know of a task's
  memory. `m` threads a call's progress through the functions, so that an
  allocation may fail at each of them and the rest of the call does what the
  code does then.
- `heap` is the list `malloc` keeps in the program's own pages, `live` what the
  program was given. The bytes in memory are left out. A call is one step: the
  kernel is not preempted (`idt.c:117`), and a program's heap is its own.
- `other` are the allocations of pipes, handles and the file system; they make
  the heap run out and fragment it.

The shell:

- `job` is where the shell is in `sh_run_pipeline` and with which pipeline,
  `held` the descriptors it has open besides the standard ones, `procs` and
  `pipes` the programs and pipes it started. Programs read, write, exit and are killed as they like. A word is a
  model value, except in `sh_tokenize`, which is checked on short lines of chars.
- Built in commands that neither start nor kill a task are left out.

The line:

- `term` is the terminal, `editor` is `struct editor`. A key is two steps,
  drawing and `getcursor(&e.last)`, because a program may print in between. A
  window of the desktop is `dumb`.

The desktop and its editor:

- `d` in `Desk` has the windows, their order, selection, alert, directory and
  descriptors, `mouse` the mode between press and release. Positions are left
  out: a press hits any of the things `hit_test` can return for the windows
  there are. Folders are sets of names with a listing that may be stale.
- A text window is its flag `modified` there; `DeskEdit` is the window itself,
  with texts of a few chars, `edit_load` and `edit_save_data` translated with
  what they do to tabs, ends of lines and the last newline. Three history
  variables are about `u`: `before` is the text before the last change, `begun`
  the text before the command or insertion under way, and `idle` says that a
  command has called `save_undo` since then and changed nothing.

Choices worth knowing:

- `schedule()` returns early, and reaps no zombies, when it picks the task that
  called it; a task that runs for the first time starts in ring 3 without
  reaping either. `Reaped` is part of exactly the steps that come back out of a
  real switch.
- `sched_pick_next` is a scan in the code and a choice of the best candidate in
  the model. They agree unless deadlines lie more than half the range of the
  tick counter apart, where the comparison is not transitive; there the model
  leaves the choice open.
- A `task_spawn` that cannot load its program gives the slot back before any
  other task can see it, and is the same step as a call that fails its checks
  (`SysOther`).
- `SYS_SLEEP_UNTIL` is `SysSleep` with an offset: a tick in the past returns at
  once like offset 0.
- `mutex_boost` walks along the owners. The walk is deterministic, so the tasks
  it reaches are the least set that holds the first owner and leads out of no
  task it raises (`BoostChain`).
- Loops over a list whose result a theorem is about are functions of the number
  of rounds: `StripPrefix`, `Listing`, `close_windows`, `FreeAll`,
  `task_copy_to_user`, `LoadSegments`, `page_dir_init`.
- The proofs are about the modules as TLC checks them: no configuration replaces
  a definition.

## 3. Runs

| run | what may happen | checked |
|---|---|---|
| `chain` | two inheriting mutexes, owners that wait for each other; run, lock, unlock, close, kill, exit | `PriorityInherited`, `MutexBooks`, `BlockedHasOwner`, `KilledIsAwake`, `NoBarging` |
| `life` | spawn in fore- and background, wait, kill, sleep, exit; the shell restarts or fails | `ParentsLive`, `WaitsForLiveChild`, `SleepersInTime` |
| `sched` | setprio, policy changes, periods, yields | `MostImportantRuns`, `EdfRanksKept` |
| `fair` | key presses, ctrl+c, readers, programs that ignore ctrl+c, kill and policy changes, under fairness | `NoLostKey`, `KilledNeverReturns`, `ReadyRuns`, `KilledExits` |
| `streams` | two ends of a pipe shared by three tasks: open, pipe, spawn with chosen descriptors, read, write, close, kill, exit | `HandleBooks`, `BlockedForReason`, `PipeOutlivesCalls`, `StreamsKeepOrder` |
| `files` | two descriptors: open for reading, writing and appending, read, write, seek, close, remove, mkdir, in two levels of directories, disk and directories full | `FsckClean`, `DescriptorsCurrent`, `NamesUnambiguous`, `KeepsFiles` |
| `memory` | load, exit, reap, malloc, calloc, realloc and free of two programs on a kernel heap that others use too and that runs out | `AllAccounted`, `ImageMapped`, `BlocksTile`, `PointersHeld` |
| `shell` | pipelines with files, in the foreground and background; open, pipe and start may fail; ctrl+c and kill | `NothingHeldAtPrompt`, `ForegroundReaped`, `LinesRead`, `PipelineEnds` |
| `line` | all keys, completion, history, typing ahead, output of others, on a screen and in a window | `LineShown`, `HistoryLeafed` |
| `edit` | all keys and commands of the three modes, clicks, saves that fail, closing with an alert | `CursorRests`, `LastChangeUndone`, `UnmodifiedIsSaved`, `ChangesKept` |
| `desk` | mouse and keys on two windows of any kind, menus, alerts, shells that end, files made and removed, quitting | `WindowsLive`, `DescriptorsMatch`, `ShellsHaveWindows`, `ChangesAsked` |
| `line_delete` | the delete key on the last character | `LineShown` fails, see below |

The types of the kernel, the streams, the shell, the desktop and the editor
(there with the sizes of its buffers) are proved (section 4), so no run repeats
them.

Bounds. Five slots are idle, init, the shell and two programs: enough for an
owner, a waiter and a third party, for a parent, a child and a killer, and for
chains of two mutexes. The tick counter wraps after `TickMod` ticks, so wrap
around is part of the runs that sleep; `MaxTicks` bounds time only where
absolute deadlines would make the state space infinite, and there it leaves
room for jobs that end in time and late. One tick is a whole slice
(`SCHED_QUANTUM_TICKS = 1`; the code has 5), the worst case for preemption. Four
priorities keep the order user < user < shell < killed. The key buffer holds two
chars, so that it can be empty, in between and full.

For the streams, three tasks are a shell and two programs that share an end
with it; two handles are exactly one pipe, so a file handle and a pipe compete
for them; a ring of two bytes is empty, half full, full and wraps around, and
messages longer than it block half way. The shell is started again by init, so
the system never runs out of callers.

For the files, two clusters of two bytes: a file of three bytes takes both, a
directory and a file compete for them, and a directory that grows takes the
last one. Four items fill the root directory with an 8.3 and a long name and
leave the end marker no room for more; a subdirectory holds two more items
before it has to grow. The 8.3 name is the first alias of the long one. A
message of three bytes is longer than a cluster and than what is left of the
disk after any other write.

For the memory, pages of four bytes and tables of four pages make a user space of
two tables, with the stack in the second. The 19 blocks of the kernel heap hold
the kernel's own directory and two small programs, and not more: loads and
`sbrk` run out at different allocations. Two programs have segments that share a
page with different rights, in either order; three are refused after their first
segment was mapped (`MCMemory`). `Word` is 128, so addresses
wrap right behind the user space. Requests of 1, 4 and 9 bytes are smaller
than, as large as and larger than what splitting leaves.

For the shell, three stages, two words each and four descriptors: a pipeline of
three has a middle, and the descriptors run out in it. A pipe holds one
unit, so a writer blocks at once; an input ends after two.

For the line, a screen of three rows of three cells and lines of up to three
characters: a line and its prompt wrap over two or three rows and reach
the last one wherever they start. Of the two names in the
directory one is a completion that shares a prefix with the other. A history of two lines wraps around at the third;
`Lines` bounds which lines enter is pressed on.

For the editor, texts of up to three characters of a letter, a sign, a blank and
newlines, which is every class of `char_class`, and two changes after the file
was opened. Counts are left at one (`MaxCount`); the motion and the operators
take them as an argument. For the desktop, two window slots, so that a third window fails
and a slot is reused; two shells, the second for while a job of the first
still runs; five descriptors. A shell takes the four of its pipes and keeps two, so the
second one fails half way, with one pipe made and no room for the other: TLC
never sees two shells alive. Two shell windows side by side are left to the
proof (section 4), which has no bound.
`Hasty` is FALSE: while a mouse button is held down, on anything, no key is
handled and no shell ends, see below.

Views. `MCKernel` drops from the fingerprint the fields of slots that are not
in use, since `task_alloc` clears a slot before anybody reads it, and counts the
time to a wakeup instead of the absolute tick where no deadline depends on it.

`MCHandle` drops the bytes of the ring that hold no data and the fields of free
handles, and uses that the two programs, and the handles, are interchangeable.

`MCFat16` drops what unused clusters hold, since `fat16_alloc_cluster` clears a
cluster before anybody looks at it, and uses that descriptors are
interchangeable.

`MCDeskEdit` drops the editor of a closed window, which `edit_load` clears,
`MCLineEdit` what the editor cannot read any more: cells above the line, how
often the screen scrolled, lines that left the history.

Refinement. `KeepsFiles` maps the disk to the store of `FileStore`, a set of
paths with their bytes and a position for every descriptor: every call does to
the file it names what it promises and leaves all others alone, a write that
does not fit writes a part, and an open that finds no memory at the end has
created or truncated its file and changed nothing else. `StreamsKeepOrder` maps every pipe to its own copy of `ByteStream`,
a queue of bounded length with a readable and a writable side: a step of the
kernel model may append bytes while somebody can read, take bytes from the
front, close a side or start anew, and nothing else.

Fairness (`FairSpec`). The processor executes kernel code without end: weak
fairness of the steps of the kernel and of the exit of a task that
`task_return_to_user` found killed. The timer never stops and the interrupt
controller keeps its request while interrupts are off, so the tick comes if
interrupts are on again and again: strong fairness. Nothing is assumed of
programs: one may compute forever or make calls forever.

`PipelineEnds` assumes weak fairness of the shell, which the scheduler gives it,
and that every program of the pipeline goes on reading or writing until it
exits: the property is that then nothing in the shell, such as a pipe end it
forgot, keeps the pipeline from ending.

### Where the code and its comments disagree

- `line_delete`: the README of the repository promises "line editing with the
  arrow keys, home, end and delete". `editor_remove` treats a removal at the end
  of the line as a backspace and prints `\b`. The delete key on the last
  character gets there with the cursor already left of it, so the character
  before disappears from the screen, the deleted one stays, and the cursor is
  off by one; on a line of one character it is the prompt that is erased. The
  line itself is right. `DeletesLast` is FALSE in the run that passes.

The following have a configuration of their own to look at, with the property it
violates, and are no part of the runs:

- `EqualPriorities.cfg` (`EqualPrioritiesShare`): sched.h says that tasks with
  equal priority share the cpu round robin. The scan starts at the slot after
  the running task, whoever that was. When a more important task wakes up
  between two slices the scan starts behind that one each time, finds the same
  one of two equals first, and the other never runs.
- `LateJob.cfg` (`EarliestDeadlineRuns`): sched.h says that periodic tasks run
  in the order of their deadlines. `task_wait_period` of a late job moves the
  deadline on and returns without asking for a switch.
- `SpawnPriority.cfg` (`ShellAboveUserTasks`): config.h says that the shell sits
  above every user task. The spawn call starts programs with the effective
  priority of the caller.
- `SharedFile.cfg` (`FsckClean`): the README says that images stay valid for
  `fsck.fat`. A write puts the descriptor's copy of the directory item back
  where it was when the file was opened. If the file was removed since, the item
  comes back; if another item took its place, that one and its clusters are
  lost; with two writers of one file the last one decides which chain is kept.
- `DeskUndo.cfg` (`LastChangeNotForgotten`): the README says that `u` undoes the
  last change, and deskedit.c that `save_undo` remembers the text before a
  change and "u brings it back". The operators, `p`, `P`, `o`, `O` and the
  commands that begin an insertion call `save_undo` before they know whether
  anything will change. After `x`, a `dh` at the start of a line, a line opened
  in a full buffer or `i` and escape leaves `u` with a copy of the text as it
  is, and what `x` took is gone. `LastChangeUndone`, which the run `edit` checks,
  allows this exception and no other: the history variable `idle` is TRUE only
  after such a command.
- `DeskHasty.cfg` (`ShellsEnd`): desk.c says that "shells end with their
  windows". When ctrl+w or the end of a shell closes a window while its close
  box is held, the release closes it a second time; the second `order_len--`
  drops another window from the order, which is then neither drawn nor closed
  when the desktop quits, and its shell keeps what it runs.
- `FailedPipe.cfg` (`FailedPipeToTerminal`): sh.c says that a failed pipe leaves
  the stage writing to the terminal. With `> file` at the end of the pipeline it
  writes to that file.

Smaller ones. `task_kill` raises a task that is ready without asking for a
switch, so it waits for the end of the slice (`MostImportantRuns` excludes such
tasks). `task_set_priority` of a task blocked on an inheriting mutex does not
raise the owner (`PriorityInherited` is checked without setprio). A detached
zombie keeps its slot until some task comes back out of a real switch, while
task.h says it is freed as soon as it exits.

Memory. `malloc` rounds and adds its header without a check: a request near 2^32
reaches `sbrk` as a negative increment, which shrinks the heap and returns a
block below others, or is rounded to 0 (`RequestAssumption` leaves those out, for
`calloc` the products that are below 2^32 and still as large). A
`sbrk` that runs out half way keeps the pages it mapped beyond `brk`, which the
next one uses.

Shell. Operators inside quotes are operators again after `sh_tokenize` has
removed the quotes. Output of another program between the drawing of a key and
`getcursor(&e.last)` is taken for the editor's own, and the next key is drawn in
the wrong place (`Racy = TRUE` in `LineEdit.cfg`).

Editor. A `:w` that fails on a window without changes leaves a file that is empty
or holds a part of the text, and no `[+]`. A click while a command is typed and then escape leave the cursor on
the end of a line (`ClickModes` leaves it out). `w`
can end before the cursor, on the last character of the last line. A
file that is too long is cut when it is saved, and one of exactly `EDIT_MAX`
characters loses its last newline when it is opened again.

Desktop. Programs of a shell that has exited belong to init, so `kill_jobs` of
its window does not find them. The desktop blocks in the write to a shell whose
pipe is full. New Text from a stale listing may truncate a file
that has come since, and with all ninety-nine names taken it truncates and opens
the last of them. Restart does not ask about changes.

The alias of a new long name is only compared with other aliases. A file whose
long name looks like it (`Abc~1.txt` before `Abc.txt`) then shares that name
with the new one; `NamesUnambiguous` compares aliases with aliases and names
with names, as the code promises.

## 4. Proofs

Assumptions: `TableAssumption`, `MutexAssumption`, `TaskAssumption`,
`KernelAssumption`, `PipeAssumption`, `HandleAssumption`, `HeapAssumption`,
`SpaceAssumption`, `UserHeapAssumption`, `RequestAssumption`,
`ProgramAssumption`, `KernelFits`, `FatAssumption`, `ShellAssumption`,
`DeskAssumption`, `EditorAssumption` and `KeysAssumption`, all about constants (at least three
slots, a positive quantum, the priorities in order, an even range of ticks,
periods and sleeps below half of it, finite tables, a ring of at least one byte,
fewer clusters than the end mark of a chain and room for two items in each, a mark that is no byte, at least one stage and one window, a buffer of at least one char, a space among
the printable chars). TLC evaluates them in every run. `OwnersInherit`,
`CursorOnChar` and the theorems of `DeskProofs` and `Fat16Proofs` have a
hypothesis more; it is explained with them.

Every safety proof has the same shape: an inductive invariant, one lemma per
action or per operator that says what it keeps, and a theorem per property that
follows from the invariant.

### The kernel

`KernelProofs` proves for every value of the constants

- `TypeCorrect`: `Spec => []TypeOK`. Not a formality: reference counts are
  naturals only because every close has an open.
- `RunningIsUnique`: `Spec => []OneRunning`.
- `KilledWakesUp`: `Spec => []KilledIsAwake`.
- `BooksBalance`: `Spec => []MutexBooks`.
- `NoLostWakeup`: `Spec => []BlockedHasOwner`.
- `NobodyBarges`: `Spec => NoBarging`.
- `KilledLeavesByExit`: `Spec => KilledNeverReturns`.

They rest on one inductive invariant, `IInv` (theorem `Inductive`): `TypeOK`,
`OneRunning`, `KilledIsAwake` and the books of the mutexes strengthened by what
a step needs to know. `LockPoint` says that a task whose stack is inside
`mutex_lock` still names the mutex it waits for and has it open, so the loop
that resumes indexes a real mutex. `Counted` is the reference count as a
cardinality. `DeadHoldNothing` says a free or zombie slot has no mutex open, so
that taking or freeing a slot changes no count. `OwnerOpens` says that the owner
of a mutex is a live task that has it open, without which an exit could leave an
owner behind. `BlockedHasOwner` itself completes it: a hand over picks its heir
among tasks of which it holds.

The first part of the module has the lemmas about the operators (what
`schedule`, `sched_wake`, `mutex_boost`, `mutex_hand_over`, `task_exit`, ...
return) and the step of the type invariant, the second one step per action for
the rest. `NumberLemmas` has the facts about `%`, least elements and induction
up to a bound.

The second half of `KernelProofs` begins with the waits that end by somebody
else's doing:

- `ParentsStayLive`: `Spec => []ParentsLive`.
- `NoMissedExit`: `Spec => []WaitsForLiveChild`.
- `NoLateSleeper`: `Spec => []SleepersInTime`.
- `NoKeyLost`: `Spec => []NoLostKey`.

`WaitsForLiveChild` is not inductive: a parent that was woken and has not run
yet is ready, its child may be a zombie, and what it does next depends on the
child still being its own. `WaitPoints` says it of the whole stay inside
`task_wait`, by the resume point instead of the state. `StuckInit` says that
init only gives up where the shell may fail to start. A step either leaves all waits alone
(`Quiescent`; most steps) or begins or ends one kind. The tick is the step
for `SleepersInTime`: ticks wrap, and the sleeper whose distance is 1 is woken
before it would become 0.

Then it is about who runs:

- `ImportantTasksRun`: `Spec => []MostImportantRuns`.
- `RanksKept`: `Spec => []EdfRanksKept`.
- `OwnersInherit`: `Spec => []PriorityInherited`, if `setprio` is none of the
  calls programs make.

The first two are one argument, `SwitchesAsked`: in every state, also in the
middle of the kernel, either a switch was asked for or no ready task outranks
the running one (`Asked`), and a task on its way back to ring 3 has no request
pending (`AskedOnReturn`). `IdleIdles` makes the idle thread the exception it is
in the code: it owns nothing and is never boosted. For `OwnersInherit` the
induction needs `BaseKept`, that nobody runs below the priority it was given,
and a lemma that the set `mutex_boost` raises is closed under owners that
inherit. The hypothesis is the known deviation: `task_set_priority` of a task that is
blocked does not raise the owner it waits for, and TLC finds that in two steps.
A run with `setprio` would fail, so the hypothesis is needed.

### The streams

`HandleProofs` proves for every number of tasks, pipes, handles and descriptors
and every size of the ring, from `PipeAssumption` and `HandleAssumption`
(finite tables, a ring of at least one byte, the terminal is no heap handle),

- `HandleTypes`: `Spec => []TypeOK`; `count` stays within the ring and no
  reference count or number of ends drops below zero.
- `HandlesCounted`: `Spec => []HandleBooks`.
- `PipeWaitsJustified`: `Spec => []BlockedForReason`.
- `PipesOutliveCalls`: `Spec => []PipeOutlivesCalls`.
- `PipesAreStreams`: `Spec => StreamsKeepOrder`, the refinement.

The invariant there adds three facts. `EndHeld`: a task inside a call still has
an open descriptor for the end it uses, since a task closes descriptors only
itself and not while it is in a call; with `HandleBooks` this is why the pipe
outlives the call. `DeadHaveNothing`: a slot that is taken by spawn refers to no
handle. `EndsReal`: an open handle of a pipe names a pipe. The main work is in
counting: a close takes the released handles out of the ends of their pipes
(`ClosedRefs`, `ClosedEnds`), a spawn adds the descriptors of the child
(`SpawnStep`).

The refinement maps the ring to the queue of `ByteStream`, byte `i` of the queue
to slot `(head + i - 1) % PIPE_SIZE`, and each action of `Handle` to a step of
the stream of each pipe or to a stutter. `Wrap`, `WrapTwice` and `BehindEnd` are the
arithmetic of the ring: what `Store` writes lands right behind the content, also
where the ring wraps, and leaves the content alone.

### The memory

`MemoryProofs` starts with the operators of the kernel heap, for every size of
the table and of a block (`HeapAssumption`): `MallocHandsOutFree`, an allocation
gets blocks of the table that were free and nothing else changes; `RunsDisjoint`,
two allocations share no block; `FreeKeepsHeap`, a free gives back the blocks of
the one that starts at its address, all of them and no other's, and else nothing;
and `FreeUndoesMalloc`, the free of what was just handed out restores the table.
They rest on `HeapOK`, which ties the bits together: a taken block starts an
allocation or goes on one, and the block behind one with the next bit is taken
and starts none.

On top of that it proves, for every number of tasks, set of programs, sizes,
address space and heap,

- `MemoryAccounted`: `Spec => []AllAccounted`.
- `LoadOK`: a load that fails at any allocation, segment or check leaves the task
  with exactly the blocks its directory leads to.
- `TaskFreeOK`: freeing a task gives back just those.

The argument is double entry bookkeeping. `Accounts(table, H)` says that the
claims `H` and the allocations of the table correspond one to one; that it
implies disjoint claims that cover what is taken is `AccountsExact`. `Grant` and
`Return` are the two ways it changes. A call of the kernel is half done most of
the time, so each function of `AddressSpace` has a lemma about `CallOK`: the
table accounts for what the task holds at this point and for `X`, what all others
hold. `Store` and `Drop` are the steps between: an answer of `kmalloc` goes into an
empty field, or a field is freed and its claim with it. `CallOK` holds between
any two statements, also on the error paths, and that is why a failure needs no
argument of its own.

Two facts about the shape make the induction work. `Shape` says that tables hang
below a directory and pages below their table: `task_free` only frees what it
finds by walking down from the directory, and a page without its table would
leak. And a running task has a directory: `sbrk` hangs its tables below it without
asking, and `task_free` looks for tables only if there is one. The inductive invariant `MemoryOK` is that, for
every task, with `Accounts(table, Held)`.

The second half of `MemoryProofs` proves on top of that

- `ImagesMapped`: `Spec => []ImageMapped`.
- `HeapTiled`: `Spec => []BlocksTile`.
- `PointersAreHeld`: `Spec => []PointersHeld`.

`ImageMapped` speaks of the segments, the heap and the stack as one set of
parts. It is not inductive: it does not say that the parts lie in this order, and
a heap that grew over a page of a read-only segment would make that writable.
`ImageReady`, which `ImageInv` states of every running task, says so: the heap
starts on a page boundary behind the last segment, below it a page is there
exactly if a segment is on it and writable exactly if a writable one is, above it
all pages up to the break are there and writable, the guard page is not, and the
stack is. Pages between the break and the guard page may be either: a sbrk
that shrinks, or that runs out of memory halfway, leaves its pages mapped, and
`ImageMapped` asks nothing of them. What a call does to the pages is
`Mapped(m, r, ps, w)`: those in `ps` are there, with write access if `w`; or the
call failed and only some are; no page loses what it has. Calls one after the other compose
(`MappedThen`), so loading is the union of its segments and of the stack. That
the fields of a program header are 32-bit words (`ProgramAssumption`) is what makes
the check of `elf_load` that `vaddr + memsz` does not wrap sufficient. `MemoryOK`
is needed for `CallOK`, which says what state a page and its table are in when a call
maps it.

The two properties of the heap follow from one invariant, `HeapInv`
(`HeapInductive`). Of the list of blocks it says `AllocatorOK`: the blocks `Tile`
what is between the start of the heap and its break, no two free ones are
neighbours, and `heap_tail` is the last. Of the pointers it says `Matches`: each has
a block in use of the same payload that is large enough, each block in use has
a pointer, and no two pointers are the same. `BlocksTile` alone is not inductive:
`free` looks for a header in front of any pointer, so it needs that there is a
block in use, and `malloc` appends at the break, which is only behind the last
block as long as the two agree.

What the calls do is stated in terms of `Used`, the payloads and sizes of the
blocks in use. Splitting is a splice of one or two blocks for one (`TakenTile`);
growing appends one at the old break (`AppendTile`), where the new payload
differs from all others because they end there; merging goes through the list and
adds one block at a time (`MergeTile`), so after `n` rounds the blocks tile the heap
up to the end of block `n`, with what the first `n` blocks had in use, and the tail
moves exactly with the last one (`FreeHeap`). `Exchanges` puts this together for the
callers: a new payload in the place of the old one, or nothing has changed when
`sbrk` fails. That `sbrk` moves the break by just what was asked for, or not at all, is
`SbrkMoves`; it needs the image, which keeps the break below the limit and thus the
sum from wrapping twice. `RequestAssumption` is what keeps the rounded size, its
header and the split within a word (`RoundUpIs`). That a heap does not start at
0, where its first block would be taken for none, follows from the entry point
being in a segment (`Placed`).

The loops over pages, segments and tables are functions of the number of rounds.
What they keep is induction up to a bound; `Iteration` of `NumberLemmas` gives such
a function its type, and `UpTo` the induction. `SbrkOK` holds for any increment, one
that wraps, shrinks or is refused included, and `MemoryAccounted` and
`ImagesMapped` need of `RequestAssumption` only that the sizes are naturals. `KernelFits`
says that the heap is large enough for the kernel's own directory, which
`page_dir_init` does not check.

### The files

`Fat16Proofs` proves for every number of clusters, size of a cluster, of the root
directory and of a name, every set of names, messages and descriptors, for
programs that are `Careful`,

- `ImageClean`: `Spec => []FsckClean`.
- `FilesKnown`: `Spec => []DescriptorsCurrent`.
- `NamesDistinct`: `Spec => []NamesUnambiguous`,
- `FilesAreStore`: `Spec => KeepsFiles`, the refinement.

The first three follow from one invariant, `FatInv` (`FatInductive`), whose main part is
`Sound(d, X)`: it speaks of a disk in the middle of a call, with the clusters `X` in use
that belong to no item yet, or no longer. Every item has a chain that ends
(`Chained`), two items share no cluster (`Apart`), every other cluster in use belongs
to one (`Owned`, `Spare`), and the directories keep to their rules (`DirsGood`). A
call is a few steps from sound disk to sound disk: a chain grows (`Growing`), an item
is rewritten, erased or added (`Replaced`, `Erased`, `Created`), clusters of `X`
are given back (`Freeing`). In the middle of a write the new clusters are in `X`,
and when the disk is full the same lemmas say that what was appended so far is the
file's.

`Chain` walks along the FAT; `ChainIs` says that it finds the one sequence of
different clusters that is linked so. It needs that the walk has enough steps: a
row of different clusters is no longer than there are clusters (`RowFits`), so a chain
that ends does so in time. `FreeClusters`, the order in which the search from `next_free`
meets the free ones, is each of them once (`FreeIs`).

A directory is what its clusters hold, one behind the other. `GoodDir` says of that list
that nothing but end marks follows the first one, each part of a long name has its
item behind it, and no two items share a name. A name is read back from the items in
front (`fat16_lfn_count`): parts count if the number and the alias fit, so the name of
one item must not change when another is erased or put next to it. That is where
`EndsOnce` and the differing aliases are needed, and why `fat16_remove` must erase just
as many as `fat16_lfn_count` finds. When a directory grows, its list gets end marks,
and nothing that was found moves (`AreaGrows`).

Of the descriptors `Holds` says that the item they stand for is there, and that theirs
has the same first cluster and a size that is not larger, or had no cluster when
it was opened. With one writer for each item that is enough for the writer's copy to stay
the one on disk. The sizes are arithmetic: `ClustersFor`, `WriteFits` and
`WriteEnds` relate position, length and clusters, also for a write that ends early.

`TreeIs` connects the invariant to `Tree`, which the properties speak of.

The refinement adds two facts to the invariant (`KeepInv`). `Named`: every item has a
path of the names programs use, so the call that made it is one `FileStore` knows.
`Plain`: no cluster holds `ERROR`, so the bytes of a file are never taken for the
mark that stands for a directory (this is why `FatAssumption` says that `ERROR` is
not a byte). An item is known by the place it is stored at: `PathOf` and
`DataOf` give the path and the bytes of the item at a place, and `StoreIs` says that the
store the properties speak of is the set of these. What a call does to the store then
follows from what it does to one place. `Follows` says of every change to a directory
that the other items stay where they are and under their names, also when the directory grows
or the parts of a long name are written or erased next to them, and `Changes` that
paths and bytes of all items but one are as before. With `StoreWith` and
`StoreWithout` this is the step of the store: one lemma for each call (`ReadingImplements`,
`OpeningImplements`, `NewImplements`, `MakingDirImplements`, `RemovingImplements`,
`MovingImplements`, `ClosingImplements`, `WritingImplements`).

For the write, `OffsetIs` relates a position in the file to a cluster of the chain and an
offset in it, `ByteWritten` and `ByteBefore` say what the bytes at the positions inside and
outside the message are, and `WrittenData` puts them together: the bytes along the chain are
the old ones with the part of the message that fits over them (`OverwrittenIs`), also
when the disk fills up in the middle. A store may
refuse every write: that one succeeds while there is room is not claimed.

`Careful` leaves out that a program writes to a file that another one writes, or
truncates or removes one that is open. `SharedFile.cfg` shows that `FsckClean`
fails otherwise, so the hypothesis is needed.

### The shell

`ShellProofs` proves for every set of command lines, number of stages, programs,
pipes and descriptors

- `PromptHoldsNothing`: `Spec => []NothingHeldAtPrompt`.
- `PromptAfterForeground`: `Spec => []ForegroundReaped`.

Both speak of the prompt only; the invariant has to say what the shell has open
and whom it still has to wait for at every step before. `OpenIsKnown` gives `held`
exactly, step by step, as the descriptors the variables of `sh_run_pipeline` name.
`NextIsNew` says that the read end for the next stage is nobody else's, so a
close never takes a descriptor another variable still names.
`ForegroundIsStarted` says that a program of a foreground pipeline that is not
reaped yet is among the pids still to be waited for, and `PidsMatchStages` that
there is a pid for each stage begun. Nothing is assumed of `sh_parse`, a
fold over words: the number of stages and the flags may be anything, so the
proof does not depend on the parser being right.

### The desktop

`DeskProofs` proves for every number of windows, shells and descriptors and every
folder, for a desktop that is not `Hasty`,

- `WindowsStayLive`: `Spec => []WindowsLive`.
- `DescriptorsAccounted`: `Spec => []DescriptorsMatch`.
- `ShellsHoused`: `Spec => []ShellsHaveWindows`.
- `ChangesAreAsked`: `Spec => ChangesAsked`.

The invariant `DeskInv` has a part about the windows (`Sound`: each in the order
once, two descriptors of its own for each shell window and no others, a
selection that is shown), about the alert (`AlertSound`: an alert about changes is about a text
window in use), about the shells (`Housed`) and about the mouse (`Holding`: it
holds something that is there, and no alert is up meanwhile). What it says it
says of any desktop `dd`, not only of the variable: a handler is a composition of
operators from desktop to desktop, and each operator gets one lemma. `Keeps` is
what an operator that closes nothing owes (it composes, `KeepsOrder`), `Closes`
what closing owes, and `Fine` what the outcome of a key, menu item or alert owes
as a whole, also that no window with changes is gone without its alert.

The hypothesis `~ Hasty` leaves out every key and the end of any shell while the
mouse holds a button down, since either may close the window it holds.
`DeskHasty.cfg` shows that the properties fail then, which is the deviation of
section 3.

### The editor

`DeskEditProofs` proves for every size of the buffer, every set of chars, every
file, register and sequence of keys

- `BuffersHold`: `Spec => []TypeOK`; the text, its copy and the register fit
  their buffers and the cursor is in the text.
- `CursorOnChar`: `Spec => []CursorRests`, if no click comes while a command is
  typed.
- `UndoRestores`: `Spec => []LastChangeUndone`; `u` takes the last change back,
  or nothing at all after a command that copied the text and left it as it was
  (`idle`). Without that exception it is not true, `DeskUndo.cfg` (section 3).
- `NothingUnmarked`: `Spec => []UnmodifiedIsSaved`.
- `ChangesNotLost`: `Spec => ChangesKept`.

The module goes up from the lines (`LineStart`, `LineEnd`, `LinePos`: what the
three searches find) over the motions (`Moved`: only the cursor changed, and it
is in the text) and the two changes of a text (`Deletes`, `Inserts`: which char
is where afterwards) to the commands and keys. `Fine(e, f)` is what a command of
normal mode owes, from an editor `e` to an editor `f`: the texts fit, a cursor
that rested rests, a text that changed is marked, and either text and copy are as
before (`Left`) or the copy is the text from before the command (`Copied`).
`Owed` composes with a motion (`OwedMoved`, `MovedOwed`), as the code composes
changes with `clamp_cursor` and `set_column`.

That the exception of `LastChangeUndone` is no wider than the code makes it
takes the other direction too: a command that changed nothing has left the copy
alone (`Sparing`), for every key but those that copy before they look
(`NormalSpares`). `x`, `X` and `J` look first, so it comes down to their change
being one: a deletion makes the text shorter, and `J` has a space where there
was an `'\n'` (`JoinSpares`).

Most commands end in `clamp_cursor`, and the cursor rests whatever came before. The
others need an argument: `X` moves the char the cursor rests on up to it
(`BeforeDone`), `J` leaves the cursor on the space it has put between the lines
(`OneJoined`), and lines that turn out not to fit leave an empty line behind
and a cursor nobody clamps (`OpenedRests`). That a deletion goes from a lower to
a higher offset is seldom obvious: for whole lines it rests on the number of
`'\n'` before an offset growing with the offset (`RangeEndIs`).

The inductive invariant `EditInv` adds to the properties what insert and command
mode owe normal mode: while text is inserted the copy is `begun`, the text from
before the insertion, and the last change is the insertion itself unless it has
changed nothing yet (`Undoable`); under a command line the cursor keeps its place (`RestInv`).
For `UnmodifiedIsSaved` the lemma is `SavedLoads`: what is saved is loaded again,
as long as the last `'\n'` is among the bytes that are read. The hypothesis of
`CursorOnChar` leaves out the deviation of section 3: `clamp_cursor` looks at the
mode, and a click under a command line is not clamped.

### Only model checked

- The liveness properties `ReadyRuns`, `KilledExits` and `PipelineEnds`: the
  prover handles neither fairness nor ENABLED.
- `LinesRead` compares `sh_tokenize` and `sh_parse`, folds over a line, with a
  reference: what a fold computes for every input is induction over data. The
  same goes for `LineShown` and `HistoryLeafed`, where what the screen shows is the result of
  printing a line cell by cell.

## 5. Plan

1. Done: tasks, scheduler, mutexes, interrupts, with proofs of every safety
   property a run checks.
2. Done: pipes and handles, with proofs of every property a run checks,
   the refinement among them.
3. Done: the shell and the desktop, with proofs of all their safety properties
   but the reading of lines.
4. Done: FAT16 with chains, directory entries and several descriptors, memory from
   the block table to malloc and the text editor, with proofs of every safety
   property a run checks and of the refinement of the file system; the line editor
   on its terminal, for TLC.
5. Left to model: terminal line input over the keyboard buffer, the order of the
   sector writes inside a file system call, the buffered streams of the libc.

Not modelled for good: port I/O and register setup (disk, serial, rtc, gdt, tss,
fpu), mouse packets, the boot loader, drawing and the graphics modes, the demos,
games and ports, string, path and formatting helpers without state.
