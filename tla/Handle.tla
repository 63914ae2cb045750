------------------------------- MODULE Handle -------------------------------
(***************************************************************************)
(* Handles (kernel/task/handle.c) and the descriptors of tasks that refer  *)
(* to them (kernel/task/task.c): shared with children at spawn, counted,   *)
(* and released by the last close.  A program may make any call at any     *)
(* time; a call that fails its checks, or whose memory cannot be had,      *)
(* changes nothing.                                                        *)
(***************************************************************************)
EXTENDS Pipe, FiniteSetsExt

CONSTANTS
    Shell,         \* the task that init keeps running
    Handles,       \* handles the kernel heap has room for
    Terminal,      \* the terminal handle, never freed
    TASK_MAX_FDS,
    STD_FDS,       \* descriptors a child starts with, 3 in the code
    ReadLens,      \* lengths programs read
    Messages       \* what programs write

ASSUME HandleAssumption ==
    /\ Shell \in Tasks
    /\ IsFiniteSet(Tasks) /\ IsFiniteSet(Handles)
    /\ Terminal \notin Handles /\ NULL \notin Handles /\ NULL # Terminal
    /\ TASK_MAX_FDS \in Nat /\ STD_FDS \in 0 .. TASK_MAX_FDS
    /\ ReadLens \subseteq Nat
    /\ Messages \subseteq Seq(Bytes)

VARIABLES
    type, refs, end_of,  \* struct handle: type, refs and pipe
    live,                \* task->state is neither unused nor zombie
    fds                  \* task->fds

handleVars == <<type, refs, end_of>>
vars == <<pipeVars, killed, callVars, handleVars, live, fds>>

Fds == 0 .. TASK_MAX_FDS - 1
Std == 0 .. STD_FDS - 1

TypeOK ==
    /\ PipeTypeOK
    /\ type \in [Handles -> {"file", "read", "write"}]
    /\ refs \in [Handles -> Nat]
    /\ end_of \in [Handles -> Pipes \cup {NULL}]
    /\ live \in [Tasks -> BOOLEAN]
    /\ fds \in [Tasks -> [Fds -> Handles \cup {Terminal, NULL}]]

(* the shell inherits the terminal from init *)
Init ==
    /\ buffer = [p \in Pipes |-> [i \in Ring |-> CHOOSE b \in Bytes : TRUE]]
    /\ head = [p \in Pipes |-> 0]
    /\ count = [p \in Pipes |-> 0]
    /\ readers = [p \in Pipes |-> 0]
    /\ writers = [p \in Pipes |-> 0]
    /\ killed = [t \in Tasks |-> FALSE]
    /\ wait_channel = [t \in Tasks |-> NULL]
    /\ call = [t \in Tasks |-> "none"]
    /\ pipe = [t \in Tasks |-> NULL]
    /\ len = [t \in Tasks |-> 0]
    /\ left = [t \in Tasks |-> <<>>]
    /\ type = [h \in Handles |-> "file"]
    /\ refs = [h \in Handles |-> 0]
    /\ end_of = [h \in Handles |-> NULL]
    /\ live = [t \in Tasks |-> t = Shell]
    /\ fds = [t \in Tasks |-> [f \in Fds |-> IF t = Shell /\ f \in Std
                                             THEN Terminal ELSE NULL]]

(* task t is in ring 3 and may make a call *)
InUser(t) == live[t] /\ call[t] = "none"

-----------------------------------------------------------------------------
(* task_fd_install takes the first free descriptors *)
FreeFds(t) == {f \in Fds : fds[t][f] = NULL}
FirstFree(t) == Min(FreeFds(t))
SecondFree(t) == Min(FreeFds(t) \ {FirstFree(t)})

(* handle_new_file and handle_new of either end of a pipe *)
handle_new(h, ty, p) ==
    /\ type' = [type EXCEPT ![h] = ty]
    /\ refs' = [refs EXCEPT ![h] = 1]
    /\ end_of' = [end_of EXCEPT ![h] = p]

SysOpen(t) ==
    /\ InUser(t)
    /\ FreeFds(t) # {}
    /\ \E h \in Handles :
        /\ refs[h] = 0
        /\ handle_new(h, "file", NULL)
        /\ fds' = [fds EXCEPT ![t][FirstFree(t)] = h]
    /\ UNCHANGED <<pipeVars, killed, callVars, live>>

(***************************************************************************)
(* sys_pipe: without two free descriptors both new handles are closed      *)
(* again and the pipe with them.                                           *)
(***************************************************************************)
SysPipe(t) ==
    /\ InUser(t)
    /\ Cardinality(FreeFds(t)) >= 2
    /\ \E p \in Pipes, r, w \in {h \in Handles : refs[h] = 0} :
        /\ r # w
        /\ pipe_new(p)
        /\ type' = [type EXCEPT ![r] = "read", ![w] = "write"]
        /\ refs' = [refs EXCEPT ![r] = 1, ![w] = 1]
        /\ end_of' = [end_of EXCEPT ![r] = p, ![w] = p]
        /\ fds' = [fds EXCEPT ![t][FirstFree(t)] = r,
                              ![t][SecondFree(t)] = w]
    /\ UNCHANGED <<killed, callVars, live>>

(* mutant: the handles of the parent are passed on without a reference *)
RefsUncounted(std) == refs

(* handle_ref of each descriptor a child starts with *)
handle_ref(std) ==
    [h \in Handles |-> refs[h] + Cardinality({f \in Std : std[f] = h})]

(* an open descriptor of the caller, or the caller's own *)
task_inherit_fd(t, f) == IF fds[t][f] = NULL THEN Terminal ELSE fds[t][f]
StdHandles(t, f) == {task_inherit_fd(t, f)} \cup ({fds[t][g] : g \in Fds} \ {NULL})

(* sys_run and sys_spawn *)
SysRun(t) ==
    /\ InUser(t)
    /\ \E c \in Tasks, std \in [Std -> UNION {StdHandles(t, f) : f \in Std}] :
        /\ ~ live[c] /\ c # Shell
        /\ \A f \in Std : std[f] \in StdHandles(t, f)
        /\ live' = [live EXCEPT ![c] = TRUE]
        /\ killed' = [killed EXCEPT ![c] = FALSE]
        /\ fds' = [fds EXCEPT ![c] = [f \in Fds |-> IF f \in Std THEN std[f]
                                                    ELSE NULL]]
        /\ refs' = handle_ref(std)
    /\ UNCHANGED <<pipeVars, callVars, type, end_of>>

(* init_main starts the next shell when the last one is gone *)
InitStartsShell ==
    /\ ~ live[Shell]
    /\ live' = [live EXCEPT ![Shell] = TRUE]
    /\ killed' = [killed EXCEPT ![Shell] = FALSE]
    /\ fds' = [fds EXCEPT ![Shell] = [f \in Fds |-> IF f \in Std THEN Terminal
                                                     ELSE NULL]]
    /\ UNCHANGED <<pipeVars, callVars, handleVars>>

(* mutant: the last reference does not close the pipe *)
NoneReleased(rest) == {}

(* the handles whose last reference is gone *)
Released(rest) == {h \in Handles : refs[h] > 0 /\ rest[h] = 0}

(* handle_close of the descriptors fs of task t *)
handle_close(t, fs) ==
    LET rest == [h \in Handles |->
                    refs[h] - Cardinality({f \in fs : fds[t][f] = h})]
        ends(p, ty) == {h \in Released(rest) : type[h] = ty /\ end_of[h] = p}
    IN  /\ refs' = rest
        /\ fds' = [fds EXCEPT ![t] = [f \in Fds |-> IF f \in fs THEN NULL
                                                    ELSE @[f]]]
        /\ pipe_close([p \in Pipes |-> Cardinality(ends(p, "read"))],
                      [p \in Pipes |-> Cardinality(ends(p, "write"))])
        /\ UNCHANGED <<type, end_of>>

SysClose(t) ==
    /\ InUser(t)
    /\ \E f \in Fds : fds[t][f] # NULL /\ handle_close(t, {f})
    /\ UNCHANGED <<killed, call, pipe, len, left, live>>

(* handle_read and handle_write of a pipe; the rest is not about pipes *)
Opened(t, ty) == {h \in Handles : type[h] = ty /\ \E f \in Fds : fds[t][f] = h}

SysRead(t) ==
    /\ InUser(t)
    /\ \E h \in Opened(t, "read"), n \in ReadLens : pipe_read(t, end_of[h], n)
    /\ UNCHANGED <<killed, handleVars, live, fds>>

SysWrite(t) ==
    /\ InUser(t)
    /\ \E h \in Opened(t, "write"), s \in Messages : pipe_write(t, end_of[h], s)
    /\ UNCHANGED <<killed, handleVars, live, fds>>

(* a blocked call after it was woken *)
Resumes(t) ==
    /\ wait_channel[t] = NULL
    /\ \/ call[t] = "read" /\ pipe_read(t, pipe[t], len[t])
       \/ call[t] = "write" /\ pipe_write(t, pipe[t], left[t])
    /\ UNCHANGED <<killed, handleVars, live, fds>>

(* task_kill by another task or by ctrl+c *)
Kill(t) ==
    /\ live[t]
    /\ killed' = [killed EXCEPT ![t] = TRUE]
    /\ wait_channel' = [wait_channel EXCEPT ![t] = NULL]
    /\ UNCHANGED <<pipeVars, call, pipe, len, left, handleVars, live, fds>>

(* task_exit closes what is open *)
Exit(t) ==
    /\ InUser(t)
    /\ handle_close(t, {f \in Fds : fds[t][f] # NULL})
    /\ live' = [live EXCEPT ![t] = FALSE]
    /\ UNCHANGED <<killed, call, pipe, len, left>>

Next ==
    \/ InitStartsShell
    \/ \E t \in Tasks :
        \/ SysOpen(t) \/ SysPipe(t) \/ SysRun(t) \/ SysClose(t)
        \/ SysRead(t) \/ SysWrite(t) \/ Resumes(t) \/ Kill(t) \/ Exit(t)

Spec == Init /\ [][Next]_vars

-----------------------------------------------------------------------------
(* the descriptors that refer to handle h, and the handles of an end of p *)
Holders(h) == {x \in Tasks \X Fds : fds[x[1]][x[2]] = h}
Ends(p, ty) == {h \in Handles : refs[h] > 0 /\ type[h] = ty /\ end_of[h] = p}

(***************************************************************************)
(* A handle counts the descriptors that refer to it, over all tasks, and a *)
(* pipe counts the handles of each end.  One too few frees it in use, one  *)
(* too many keeps a reader waiting for an end that never comes.            *)
(***************************************************************************)
HandleBooks ==
    /\ \A h \in Handles : refs[h] = Cardinality(Holders(h))
    /\ \A p \in Pipes : /\ readers[p] = Cardinality(Ends(p, "read"))
                        /\ writers[p] = Cardinality(Ends(p, "write"))

(***************************************************************************)
(* No lost wakeup: a reader is blocked only while the pipe is empty and    *)
(* somebody can write, a writer only while it is full and somebody can     *)
(* read, and neither once it was killed.  Readers and writers share the    *)
(* channel, and other tasks may fill, drain or close the pipe between the  *)
(* wakeup and the next run.                                                *)
(***************************************************************************)
BlockedForReason ==
    \A t \in Tasks : wait_channel[t] # NULL =>
        LET p == wait_channel[t]
        IN  /\ p = pipe[t] /\ ~ killed[t]
            /\ \/ call[t] = "read" /\ count[p] = 0 /\ writers[p] > 0
               \/ call[t] = "write" /\ count[p] = PIPE_SIZE /\ readers[p] > 0

(***************************************************************************)
(* A pipe is not freed under a call: pipe_free_if_unused runs while other  *)
(* tasks are inside pipe_read and pipe_write, blocked or woken and not run *)
(* yet, and each of them still holds the end it uses.                      *)
(***************************************************************************)
PipeOutlivesCalls ==
    \A t \in Tasks :
        /\ call[t] = "read" => readers[pipe[t]] > 0
        /\ call[t] = "write" => writers[pipe[t]] > 0

(* the abstract stream of pipe p *)
Stream(p) ==
    INSTANCE ByteStream WITH
        Byte <- Bytes, Capacity <- PIPE_SIZE,
        queue <- IF Allocated(p) THEN Content(p) ELSE <<>>,
        readable <- readers[p] > 0, writable <- writers[p] > 0

StreamStep(p) == [Stream(p)!Next]_(Stream(p)!vars)

(***************************************************************************)
(* Every pipe implements ByteStream, all of them side by side: no call,    *)
(* close, kill or exit loses, repeats, reorders or makes up a byte.        *)
(***************************************************************************)
StreamsKeepOrder ==
    /\ \A p \in Pipes : Stream(p)!Init
    /\ [][\A p \in Pipes : StreamStep(p)]_vars
=============================================================================
