-------------------------------- MODULE Task --------------------------------
(***************************************************************************)
(* The life of a task (kernel/task/task.c): spawn, exit, kill, wait, the   *)
(* blocking sleeps and key reads, periods and priorities.  Each operator   *)
(* is the work of one handler, from its first check to the point where it  *)
(* returns or blocks in schedule(); Kernel.tla says when a handler runs    *)
(* and what happens on the way back to ring 3.                             *)
(***************************************************************************)
EXTENDS Mutex

CONSTANTS
    Priorities,  \* the priorities programs ask for
    Periods,     \* the periods they ask for, in ticks
    SleepTicks,  \* how long they sleep, in ticks
    KeyBuffer,   \* chars the keyboard buffer holds
    Backgrounds  \* whether programs start others in the background

ASSUME TaskAssumption ==
    /\ Priorities \subseteq 1 .. TASK_PRIORITY_SHELL - 1
    /\ Periods \subseteq 0 .. TickMod \div 2 - 1
    /\ SleepTicks \subseteq 0 .. TickMod \div 2 - 1
    /\ KeyBuffer \in Nat
    /\ Backgrounds \subseteq BOOLEAN

VARIABLES
    parent, foreground, is_shell, wake_tick,
    wait_pid,  \* slot of the child a task waits for
    keys       \* chars in the keyboard buffer

taskVars == <<parent, foreground, is_shell, wake_tick, wait_pid, keys>>

TaskTypeOK ==
    /\ parent \in [Slots -> Slots \cup {NULL}]
    /\ foreground \in [Slots -> BOOLEAN]
    /\ is_shell \in [Slots -> BOOLEAN]
    /\ wake_tick \in [Slots -> Tick]
    /\ wait_pid \in [Slots -> Slots \cup {NULL}]
    /\ keys \in 0 .. KeyBuffer

(* task_reap_zombies, run by every task that comes back out of schedule() *)
Reaped ==
    [t \in Slots |-> IF /\ state[t] = "zombie"
                        /\ detached[t]
                        /\ t # task_running
                     THEN "unused" ELSE state[t]]

(* the running task goes to state s inside the call at resume point at *)
Block(s, at, st) ==
    /\ pc' = [pc EXCEPT ![task_running] = at]
    /\ schedule([st EXCEPT ![task_running] = s])

(* the call returns without a switch *)
Return(st) ==
    /\ pc' = [pc EXCEPT ![task_running] = IF task_running = InitThread
                                          THEN "init" ELSE "return"]
    /\ state' = st
    /\ UNCHANGED <<task_running, slice, need_resched>>

(***************************************************************************)
(* task_spawn by the running task.  A spawn that fails to load the program *)
(* gives its slot back and changes nothing.                                *)
(***************************************************************************)
FreeSlots == {t \in Slots : state[t] = "unused"}

task_spawn(prio, background, shell) ==
    LET t == Min(FreeSlots)
        fg == ~ background /\ foreground[task_running]
    IN  /\ FreeSlots # {}
        /\ priority' = [priority EXCEPT ![t] = prio]
        /\ base_priority' = [base_priority EXCEPT ![t] = prio]
        /\ period' = [period EXCEPT ![t] = 0]
        /\ deadline' = [deadline EXCEPT ![t] = 0]
        /\ killed' = [killed EXCEPT ![t] = FALSE]
        /\ detached' = [detached EXCEPT ![t] = background]
        /\ mutexes' = [mutexes EXCEPT ![t] = {}]
        /\ wait_mutex' = [wait_mutex EXCEPT ![t] = NULL]
        /\ wait_channel' = [wait_channel EXCEPT ![t] = NULL]
        /\ parent' = [parent EXCEPT ![t] = task_running]
        /\ foreground' = [foreground EXCEPT ![t] = fg]
        /\ is_shell' = [is_shell EXCEPT ![t] = shell]
        /\ wake_tick' = [wake_tick EXCEPT ![t] = 0]
        /\ wait_pid' = [wait_pid EXCEPT ![t] = NULL]
        /\ keys' = IF fg THEN 0 ELSE keys
        /\ pc' = [pc EXCEPT ![t] = "user",
                     ![task_running] = IF task_running = InitThread
                                       THEN "init" ELSE "return"]
        /\ UNCHANGED <<policy, task_running, slice, ticks, name, refs,
                       inherit, owner>>
        /\ sched_wake({t}, state)

(* mutant: a child that already exited keeps its dead parent *)
LiveChildren(t) == {c \in Slots : Live(c) /\ parent[c] = t}

(* the children a task leaves behind *)
Orphans(t) == {c \in Slots : state[c] # "unused" /\ parent[c] = t}

(***************************************************************************)
(* task_exit: mutexes go to their waiters, children are orphaned, a parent *)
(* that waits is woken, and the task never runs again.                     *)
(***************************************************************************)
task_exit ==
    LET t == task_running
        released == Woken(Heirs(Owned(t), state), state)
        wakes == {p \in Slots : /\ p = parent[t]
                                /\ state[p] = "wait"
                                /\ wait_pid[p] = t}
    IN  /\ owner' = OwnersAfter(Owned(t), state)
        /\ ForgetMutexes(t, mutexes[t])
        /\ priority' = IF Owned(t) = {} THEN priority
                       ELSE [priority EXCEPT ![t] =
                               mutex_update_priority(t, base_priority[t],
                                   released, owner')]
        /\ parent' = [c \in Slots |-> IF c \in Orphans(t) THEN InitThread
                                      ELSE parent[c]]
        /\ detached' = [c \in Slots |-> c \in Orphans(t) \/ detached[c]]
        /\ keys' = IF foreground[t] THEN 0 ELSE keys
        /\ UNCHANGED <<policy, ticks, base_priority, period, deadline,
                       killed, name, inherit, wait_mutex, wait_channel,
                       foreground, is_shell, wake_tick, wait_pid, pc>>
        /\ schedule([Woken(wakes, released) EXCEPT ![t] = "zombie"])

(* mutant: the priority is not raised *)
task_kill_unraised(ts) ==
    /\ killed' = [t \in Slots |-> t \in ts \/ killed[t]]
    /\ UNCHANGED <<policy, period, deadline, priority>>
    /\ sched_wake({t \in ts : state[t] \in {"sleeping", "key", "blocked"}},
                  state)

(***************************************************************************)
(* task_kill of each task of ts, all of them live user tasks.  Only the    *)
(* waits that kill ends wake up: not the wait for a child.                 *)
(***************************************************************************)
task_kill(ts) ==
    /\ killed' = [t \in Slots |-> t \in ts \/ killed[t]]
    /\ priority' = [t \in Slots |-> IF t \in ts THEN TASK_PRIORITY_MAX
                                    ELSE priority[t]]
    /\ UNCHANGED <<policy, period, deadline>>
    /\ sched_wake({t \in ts : state[t] \in {"sleeping", "key", "blocked"}},
                  state)

(* task_kill_foreground: ctrl+c *)
ForegroundTasks ==
    {t \in Slots : /\ foreground[t] /\ ~ is_shell[t] /\ ~ IsKernel(t)
                   /\ Live(t)}

(***************************************************************************)
(* The loops of the blocking calls.  st are the states at the loop head.   *)
(***************************************************************************)
WaitableChild(c) ==
    state[c] # "unused" /\ parent[c] = task_running /\ ~ detached[c]

(* mutant: blocks before it looks whether the child is a zombie *)
task_wait_blocks_first(c, st) ==
    /\ wait_pid' = [wait_pid EXCEPT ![task_running] = c]
    /\ Block("wait", "wait", st)

task_wait(c, st) ==
    IF st[c] # "zombie"
    THEN /\ wait_pid' = [wait_pid EXCEPT ![task_running] = c]
         /\ Block("wait", "wait", st)
    ELSE /\ wait_pid' = [wait_pid EXCEPT ![task_running] = NULL]
         /\ Return([st EXCEPT ![c] = "unused"])   \* task_free

task_sleep_until_tick(tick, st) ==
    IF Signed(tick - ticks) > 0 /\ ~ killed[task_running]
    THEN /\ wake_tick' = [wake_tick EXCEPT ![task_running] = tick]
         /\ Block("sleeping", "sleep", st)
    ELSE \* the field is dead from here on
         /\ wake_tick' = [wake_tick EXCEPT ![task_running] = 0]
         /\ Return(st)

task_wait_key(st) ==
    IF killed[task_running]
    THEN UNCHANGED keys /\ Return(st)
    ELSE IF foreground[task_running] /\ keys > 0
         THEN keys' = keys - 1 /\ Return(st)
         ELSE UNCHANGED keys /\ Block("key", "key", st)

(* mutant: the new rank does not lead to a switch *)
task_set_period_quietly(ms) ==
    /\ period' = [period EXCEPT ![task_running] = ms]
    /\ deadline' = [deadline EXCEPT ![task_running] = (ticks + ms) % TickMod]
    /\ UNCHANGED need_resched

(* task_set_period *)
task_set_period(ms) ==
    /\ period' = [period EXCEPT ![task_running] = ms]
    /\ deadline' = [deadline EXCEPT ![task_running] = (ticks + ms) % TickMod]
    /\ need_resched' = TRUE

(***************************************************************************)
(* task_wait_period: the next deadline is one period on, the task sleeps   *)
(* until the deadline it just worked for.                                  *)
(***************************************************************************)
task_wait_period ==
    LET release == deadline[task_running]
    IN  /\ period[task_running] # 0
        /\ deadline' = [deadline EXCEPT ![task_running] =
                            (@ + period[task_running]) % TickMod]
        /\ UNCHANGED <<policy, priority, period>>
        /\ task_sleep_until_tick(release, state)

(* task_set_priority of task t, found live by the caller *)
task_set_priority(t, prio) ==
    /\ ~ killed[t]
    /\ base_priority' = [base_priority EXCEPT ![t] = prio]
    /\ priority' = [priority EXCEPT ![t] =
                        mutex_update_priority(t, prio, state, owner)]
    /\ need_resched' = TRUE
=============================================================================
