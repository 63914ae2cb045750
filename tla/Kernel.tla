------------------------------- MODULE Kernel -------------------------------
(***************************************************************************)
(* The kernel as user programs and the hardware drive it.  One processor   *)
(* runs one task.  System calls and interrupts are interrupt gates: a      *)
(* handler runs with interrupts off until it returns to ring 3 or blocks,  *)
(* so a handler is one action, and the tasks interleave only where a call  *)
(* blocks in schedule() or where task_return_to_user switches.             *)
(*                                                                         *)
(* A program in ring 3 may make any call of Syscalls at any time, or none. *)
(***************************************************************************)
EXTENDS Task

CONSTANTS
    Syscalls,      \* the calls programs make in this instance
    InitPolicy,    \* the scheduling policy at boot
    INIT_SLEEP,    \* ticks init sleeps when it cant start the shell
    ShellMayFail,  \* whether init may fail to start the shell
    MaxTicks       \* bound on ticks, TickMod for none

ASSUME KernelAssumption ==
    /\ InitPolicy \in Policy
    /\ INIT_SLEEP \in 0 .. TickMod \div 2 - 1
    /\ ShellMayFail \in BOOLEAN /\ (ShellMayFail => INIT_SLEEP > 0)
    /\ MaxTicks \in 0 .. TickMod

vars == <<tableVars, schedVars, mutexVars, taskVars>>

TypeOK == TableTypeOK /\ SchedTypeOK /\ MutexTypeOK /\ TaskTypeOK

(* task_init: the idle thread is ready, the boot context runs as init *)
Init ==
    /\ state = [t \in Slots |-> CASE t = Idle -> "ready"
                                  [] t = InitThread -> "running"
                                  [] OTHER -> "unused"]
    /\ priority = [t \in Slots |-> IF t = InitThread
                                   THEN TASK_PRIORITY_SHELL ELSE 0]
    /\ base_priority = priority
    /\ period = [t \in Slots |-> 0]
    /\ deadline = [t \in Slots |-> 0]
    /\ killed = [t \in Slots |-> FALSE]
    /\ detached = [t \in Slots |-> FALSE]
    /\ pc = [t \in Slots |-> CASE t = Idle -> "loop"
                               [] t = InitThread -> "init"
                               [] OTHER -> "user"]
    /\ policy = InitPolicy
    /\ need_resched = FALSE
    /\ task_running = InitThread
    /\ slice = 0
    /\ ticks = 0
    /\ name = [m \in MutexIds |-> NULL]
    /\ refs = [m \in MutexIds |-> 0]
    /\ inherit = [m \in MutexIds |-> FALSE]
    /\ owner = [m \in MutexIds |-> NULL]
    /\ mutexes = [t \in Slots |-> {}]
    /\ wait_mutex = [t \in Slots |-> NULL]
    /\ wait_channel = [t \in Slots |-> NULL]
    /\ parent = [t \in Slots |-> NULL]
    /\ foreground = [t \in Slots |-> t = InitThread]
    /\ is_shell = [t \in Slots |-> FALSE]
    /\ wake_tick = [t \in Slots |-> 0]
    /\ wait_pid = [t \in Slots |-> NULL]
    /\ keys = 0

-----------------------------------------------------------------------------
(* System calls.  The handler ends at resume point "return". *)

Calls(call) == pc[task_running] = "user" /\ call \in Syscalls

Returns == pc' = [pc EXCEPT ![task_running] = "return"]

(* sys_run and sys_spawn; spawn passes on the caller's effective priority *)
SysRun ==
    /\ Calls("run")
    /\ \E prio \in Priorities, background \in Backgrounds :
            task_spawn(prio, background, FALSE)

SysSpawn ==
    /\ Calls("spawn")
    /\ task_spawn(priority[task_running], FALSE, FALSE)

SysWait ==
    /\ Calls("wait")
    /\ UNCHANGED <<policy, ticks, priority, base_priority, period, deadline,
                   killed, detached, mutexVars, parent, foreground,
                   is_shell, wake_tick, keys>>
    /\ \E c \in Slots : WaitableChild(c) /\ task_wait(c, state)

SysKill ==
    /\ Calls("kill")
    /\ \E t \in Slots : ~ IsKernel(t) /\ Live(t) /\ task_kill({t})
    /\ Returns
    /\ UNCHANGED <<task_running, slice, ticks, base_priority, detached,
                   mutexVars, taskVars>>

SysSleep ==
    /\ Calls("sleep")
    /\ UNCHANGED <<policy, ticks, priority, base_priority, period, deadline,
                   killed, detached, mutexVars, parent, foreground,
                   is_shell, wait_pid, keys>>
    /\ \E n \in SleepTicks :
            task_sleep_until_tick((ticks + n) % TickMod, state)

SysGetchar ==
    /\ Calls("getchar")
    /\ UNCHANGED <<policy, ticks, priority, base_priority, period, deadline,
                   killed, detached, mutexVars, parent, foreground,
                   is_shell, wake_tick, wait_pid>>
    /\ task_wait_key(state)

SysPeriod ==
    /\ Calls("period")
    /\ \E ms \in Periods : task_set_period(ms)
    /\ Returns
    /\ UNCHANGED <<state, priority, base_priority, killed, detached, policy,
                   task_running, slice, ticks, mutexVars, taskVars>>

SysWaitPeriod ==
    /\ Calls("wait_period")
    /\ task_wait_period
    /\ UNCHANGED <<ticks, base_priority, killed, detached, mutexVars,
                   parent, foreground, is_shell, wait_pid, keys>>

SysSetprio ==
    /\ Calls("setprio")
    /\ \E t \in Slots, prio \in Priorities :
            ~ IsKernel(t) /\ Live(t) /\ task_set_priority(t, prio)
    /\ Returns
    /\ UNCHANGED <<state, period, deadline, killed, detached, policy,
                   task_running, slice, ticks, mutexVars, taskVars>>

SysSched ==
    /\ Calls("sched")
    /\ policy' \in Policy
    /\ need_resched' = TRUE
    /\ Returns
    /\ UNCHANGED <<state, priority, base_priority, period, deadline, killed,
                   detached, task_running, slice, ticks, mutexVars, taskVars>>

SysYield ==
    /\ Calls("yield")
    /\ need_resched' = TRUE
    /\ Returns
    /\ UNCHANGED <<state, priority, base_priority, period, deadline, killed,
                   detached, policy, task_running, slice, ticks, mutexVars,
                   taskVars>>

SysMutexOpen ==
    /\ Calls("mutex")
    /\ \E n \in MutexNames, inh \in InheritFlags : mutex_open(n, inh)
    /\ Returns
    /\ UNCHANGED <<base_priority, period, deadline, killed, detached, policy,
                   task_running, slice, ticks, taskVars>>

SysMutexLock ==
    /\ Calls("mutex")
    /\ UNCHANGED <<policy, ticks, base_priority, period, deadline, killed,
                   detached, taskVars>>
    /\ \E m \in MutexIds : /\ mutex_get(m) /\ owner[m] # task_running
                           /\ mutex_lock(m, state)

SysMutexUnlock ==
    /\ Calls("mutex")
    /\ Returns
    /\ UNCHANGED <<base_priority, period, deadline, killed, detached, policy,
                   task_running, slice, ticks, taskVars>>
    /\ \E m \in MutexIds : mutex_unlock(m)

SysMutexClose ==
    /\ Calls("mutex")
    /\ Returns
    /\ UNCHANGED <<base_priority, period, deadline, killed, detached, policy,
                   task_running, slice, ticks, taskVars>>
    /\ \E m \in MutexIds : mutex_close(m)

(* ignore_ctrl_c: ctrl+c only stops what the program runs *)
SysIgnoreCtrlC ==
    /\ Calls("ignore_ctrl_c")
    /\ \E ignore \in BOOLEAN :
            is_shell' = [is_shell EXCEPT ![task_running] = ignore]
    /\ Returns
    /\ UNCHANGED <<state, priority, base_priority, period, deadline, killed,
                   detached, schedVars, mutexVars, parent, foreground,
                   wake_tick, wait_pid, keys>>

(* a call that fails its checks, or one that changes none of this state *)
SysOther ==
    /\ pc[task_running] = "user"
    /\ Returns
    /\ UNCHANGED <<state, priority, base_priority, period, deadline, killed,
                   detached, schedVars, mutexVars, taskVars>>

-----------------------------------------------------------------------------
(* The way back to ring 3, and the end of a task. *)

(***************************************************************************)
(* task_return_to_user up to its schedule(), or to its end if that picks   *)
(* the task itself: then schedule() returns early and reaps nobody.        *)
(***************************************************************************)
ReturnToUser ==
    /\ pc[task_running] = "return"
    /\ UNCHANGED <<priority, base_priority, period, deadline, killed,
                   detached, policy, ticks, mutexVars, taskVars>>
    /\ IF killed[task_running]
       THEN /\ pc' = [pc EXCEPT ![task_running] = "dying"]
            /\ UNCHANGED <<state, need_resched, task_running, slice>>
       ELSE IF need_resched
       THEN /\ schedule(state)
            /\ pc' = [pc EXCEPT ![task_running] =
                        IF task_running' = task_running THEN "user"
                        ELSE "resumed"]
       ELSE /\ pc' = [pc EXCEPT ![task_running] = "user"]
            /\ UNCHANGED <<state, need_resched, task_running, slice>>

(* mutant: killed while it was switched out, and not asked *)
ResumedUnasked ==
    /\ pc[task_running] = "resumed"
    /\ pc' = [pc EXCEPT ![task_running] = "user"]
    /\ state' = Reaped
    /\ UNCHANGED <<priority, base_priority, period, deadline, killed,
                   detached, schedVars, mutexVars, taskVars>>

(* and after it *)
Resumed ==
    /\ pc[task_running] = "resumed"
    /\ pc' = [pc EXCEPT ![task_running] = IF killed[task_running]
                                          THEN "dying" ELSE "user"]
    /\ state' = Reaped
    /\ UNCHANGED <<priority, base_priority, period, deadline, killed,
                   detached, schedVars, mutexVars, taskVars>>

(* the exit call, a cpu exception in ring 3, or a killed task *)
Exit ==
    /\ ~ IsKernel(task_running)
    /\ \/ pc[task_running] = "dying"
       \/ Calls("exit")
    /\ task_exit

-----------------------------------------------------------------------------
(* Blocking calls after their schedule(). *)

LockResumes ==
    /\ pc[task_running] = "lock"
    /\ UNCHANGED <<policy, ticks, base_priority, period, deadline, killed,
                   detached, taskVars>>
    /\ mutex_lock(wait_mutex[task_running], Reaped)

WaitResumes ==
    /\ pc[task_running] = "wait"
    /\ UNCHANGED <<policy, ticks, priority, base_priority, period, deadline,
                   killed, detached, mutexVars, parent, foreground,
                   is_shell, wake_tick, keys>>
    /\ task_wait(wait_pid[task_running], Reaped)

SleepResumes ==
    /\ pc[task_running] = "sleep"
    /\ UNCHANGED <<policy, ticks, priority, base_priority, period, deadline,
                   killed, detached, mutexVars, parent, foreground,
                   is_shell, wait_pid, keys>>
    /\ task_sleep_until_tick(wake_tick[task_running], Reaped)

KeyResumes ==
    /\ pc[task_running] = "key"
    /\ UNCHANGED <<policy, ticks, priority, base_priority, period, deadline,
                   killed, detached, mutexVars, parent, foreground,
                   is_shell, wake_tick, wait_pid>>
    /\ task_wait_key(Reaped)

-----------------------------------------------------------------------------
(* The kernel threads. *)

(***************************************************************************)
(* init_main starts the desktop or the shell, waits for it and starts the  *)
(* next one.  The wait follows the spawn with nothing else in between.     *)
(***************************************************************************)
InitStartsShell ==
    /\ pc[InitThread] = "init" /\ task_running = InitThread
    /\ ~ \E c \in Slots : WaitableChild(c)
    /\ task_spawn(TASK_PRIORITY_SHELL, FALSE, TRUE)

InitWaits ==
    /\ pc[InitThread] = "init" /\ task_running = InitThread
    /\ UNCHANGED <<policy, ticks, priority, base_priority, period, deadline,
                   killed, detached, mutexVars, parent, foreground,
                   is_shell, wake_tick, keys>>
    /\ \E c \in Slots : WaitableChild(c) /\ task_wait(c, state)

(* the shell cant be started: init sleeps, again and again *)
InitSleeps ==
    /\ task_running = InitThread
    /\ \/ pc[InitThread] = "stuck"
       \/ /\ pc[InitThread] = "init"
          /\ ShellMayFail
          /\ ~ \E c \in Slots : WaitableChild(c)
    /\ wake_tick' = [wake_tick EXCEPT ![InitThread] =
                        (ticks + INIT_SLEEP) % TickMod]
    /\ UNCHANGED <<policy, ticks, priority, base_priority, period, deadline,
                   killed, detached, mutexVars, parent, foreground,
                   is_shell, wait_pid, keys>>
    /\ Block("sleeping", "stuck", Reaped)

(* idle_main: hlt, and after the interrupt that ends it schedule() *)
IdleHalts ==
    /\ task_running = Idle /\ pc[Idle] = "loop"
    /\ pc' = [pc EXCEPT ![Idle] = "halted"]
    /\ UNCHANGED <<state, priority, base_priority, period, deadline, killed,
                   detached, schedVars, mutexVars, taskVars>>

IdleSchedules ==
    /\ task_running = Idle /\ pc[Idle] = "awake"
    /\ UNCHANGED <<priority, base_priority, period, deadline, killed,
                   detached, policy, ticks, mutexVars, taskVars>>
    /\ schedule(state)
    /\ pc' = [pc EXCEPT ![Idle] = IF task_running' = Idle THEN "loop"
                                  ELSE "parked"]

IdleResumes ==
    /\ task_running = Idle /\ pc[Idle] = "parked"
    /\ pc' = [pc EXCEPT ![Idle] = "loop"]
    /\ state' = Reaped
    /\ UNCHANGED <<priority, base_priority, period, deadline, killed,
                   detached, schedVars, mutexVars, taskVars>>

-----------------------------------------------------------------------------
(***************************************************************************)
(* Interrupts (interrupt_handler).  They come while a program runs, or     *)
(* while a kernel thread runs with interrupts on; only the first leads to  *)
(* task_return_to_user.                                                    *)
(***************************************************************************)
InterruptsOn == pc[task_running] \in {"user", "init", "loop", "halted", "awake"}

Interrupted ==
    /\ InterruptsOn
    /\ pc' = [pc EXCEPT ![task_running] = CASE @ = "user" -> "return"
                                            [] @ = "halted" -> "awake"
                                            [] OTHER -> @]

(* mutant: a sleeper wakes one tick late *)
DueLate(now) == {t \in Slots : /\ state[t] = "sleeping"
                               /\ Signed(now - wake_tick[t]) > 0}

(* the sleepers whose time came *)
Due(now) == {t \in Slots : /\ state[t] = "sleeping"
                           /\ Signed(now - wake_tick[t]) >= 0}

(* irq 0: pit_tick, sched_tick *)
TimerInterrupt ==
    /\ ticks < MaxTicks
    /\ Interrupted
    /\ ticks' = (ticks + 1) % TickMod
    /\ UNCHANGED <<priority, base_priority, period, deadline, killed,
                   detached, policy, task_running, mutexVars, taskVars>>
    /\ sched_tick(Due(ticks'))

(* mutant: only the first reader is woken *)
FirstKeyWaiter ==
    {t \in Slots : /\ foreground[t] /\ state[t] = "key"
                   /\ \A o \in 0 .. t - 1 : ~ (foreground[o] /\ state[o] = "key")}

(* task_on_keyboard_input *)
KeyWaiters == {t \in Slots : foreground[t] /\ state[t] = "key"}

(* irq 1: a char, dropped if the buffer is full, or a key without one *)
KeyInterrupt ==
    /\ Interrupted
    /\ keys' \in {keys} \cup ({keys + 1} \cap 0 .. KeyBuffer)
    /\ UNCHANGED <<priority, base_priority, period, deadline, killed,
                   detached, policy, task_running, slice, ticks, mutexVars,
                   parent, foreground, is_shell, wake_tick, wait_pid>>
    /\ sched_wake(KeyWaiters, state)

(***************************************************************************)
(* irq 1 with ctrl+c: the foreground programs are killed and the buffer    *)
(* flushed; without one the char stays for the shell.  The key waiters     *)
(* that are not killed wake up too.                                        *)
(***************************************************************************)
CtrlC ==
    /\ "ctrl_c" \in Syscalls
    /\ Interrupted
    /\ keys' = IF ForegroundTasks # {} THEN 0
               ELSE IF keys < KeyBuffer THEN keys + 1 ELSE keys
    /\ killed' = [t \in Slots |-> t \in ForegroundTasks \/ killed[t]]
    /\ priority' = [t \in Slots |-> IF t \in ForegroundTasks
                                    THEN TASK_PRIORITY_MAX ELSE priority[t]]
    /\ UNCHANGED <<base_priority, period, deadline, detached, policy,
                   task_running, slice, ticks, mutexVars, parent,
                   foreground, is_shell, wake_tick, wait_pid>>
    /\ sched_wake(KeyWaiters \cup
                    {t \in ForegroundTasks :
                        state[t] \in {"sleeping", "key", "blocked"}}, state)

(* irq 12: mouse_handle_interrupt, which only keeps its own state *)
MouseInterrupt ==
    /\ Interrupted
    /\ UNCHANGED <<state, priority, base_priority, period, deadline, killed,
                   detached, schedVars, mutexVars, taskVars>>

-----------------------------------------------------------------------------
Syscall ==
    \/ SysRun \/ SysSpawn \/ SysWait \/ SysKill \/ SysSleep \/ SysGetchar
    \/ SysPeriod \/ SysWaitPeriod \/ SysSetprio \/ SysSched \/ SysYield
    \/ SysMutexOpen \/ SysMutexLock \/ SysMutexUnlock \/ SysMutexClose
    \/ SysIgnoreCtrlC \/ SysOther

KernelStep ==
    \/ ReturnToUser \/ Resumed
    \/ LockResumes \/ WaitResumes \/ SleepResumes \/ KeyResumes
    \/ InitStartsShell \/ InitWaits \/ InitSleeps
    \/ IdleHalts \/ IdleSchedules \/ IdleResumes

Interrupt == TimerInterrupt \/ KeyInterrupt \/ CtrlC \/ MouseInterrupt

Next == Syscall \/ Exit \/ KernelStep \/ Interrupt

Spec == Init /\ [][Next]_vars

-----------------------------------------------------------------------------
(* Invariants *)

(***************************************************************************)
(* Exactly the task the kernel believes to run is in the running state:    *)
(* schedule() hands the processor over in one piece on every path, also    *)
(* when it picks the task that called it or the idle thread.               *)
(***************************************************************************)
OneRunning == \A t \in Slots : state[t] = "running" <=> t = task_running

(***************************************************************************)
(* A mutex counts its openers (mutex_open, mutex_close, mutex_release_all) *)
(* and belongs to a live task that has it open.  Its slot is reused when   *)
(* the count is 0, so a miscount frees a mutex that is still in use.       *)
(***************************************************************************)
MutexBooks ==
    \A m \in MutexIds :
        /\ refs[m] = Cardinality({t \in Slots : Live(t) /\ m \in mutexes[t]})
        /\ owner[m] # NULL => Live(owner[m]) /\ m \in mutexes[owner[m]]

(***************************************************************************)
(* No lost wakeup in mutex_lock: a task blocked on a mutex has it open and *)
(* another task owns it, whatever order of unlocks, closes, kills and      *)
(* exits happened.  The owner will hand it over.                           *)
(***************************************************************************)
BlockedHasOwner ==
    \A t \in Slots : state[t] = "blocked" =>
        /\ wait_channel[t] \in mutexes[t]
        /\ wait_mutex[t] = wait_channel[t]
        /\ owner[wait_channel[t]] \notin {NULL, t}

(***************************************************************************)
(* Priority inheritance (mutex.h): the owner of an inheriting mutex runs   *)
(* at least at the priority of every task blocked on it, through chains of *)
(* owners that wait themselves.  Holds as long as no program changes the   *)
(* priority of another with setprio.                                       *)
(***************************************************************************)
PriorityInherited ==
    \A t \in Slots : state[t] = "blocked" /\ inherit[wait_channel[t]] =>
        priority[owner[wait_channel[t]]] >= priority[t]

(***************************************************************************)
(* A killed task is not left in a wait that nothing may end: task_kill     *)
(* wakes it, and no loop puts it back to sleep.  Only the wait for a child *)
(* goes on.                                                                *)
(***************************************************************************)
KilledIsAwake ==
    \A t \in Slots : killed[t] => state[t] \notin {"sleeping", "key", "blocked"}

(***************************************************************************)
(* task_wait never misses an exit: the child a waiting parent names is its *)
(* own, not detached, and still alive.                                     *)
(***************************************************************************)
WaitsForLiveChild ==
    \A t \in Slots : state[t] = "wait" =>
        LET c == wait_pid[t]
        IN  c # NULL /\ parent[c] = t /\ ~ detached[c] /\ Live(c)

(***************************************************************************)
(* Every task that somebody may still wait for has a live parent, so a     *)
(* zombie with an uncollected exit code is never unreachable and a parent  *)
(* pointer never leads to a reused slot (task_exit orphans the children).  *)
(***************************************************************************)
ParentsLive ==
    \A t \in Slots : state[t] # "unused" /\ ~ IsKernel(t) /\ ~ detached[t] =>
        parent[t] # NULL /\ Live(parent[t])

(***************************************************************************)
(* A sleeping task sleeps for a tick that has not come: sched_tick misses  *)
(* nobody, also when the counter wraps.                                    *)
(***************************************************************************)
SleepersInTime ==
    \A t \in Slots : state[t] = "sleeping" => Signed(wake_tick[t] - ticks) > 0

(***************************************************************************)
(* A foreground task waits for a key only while the buffer is empty: no    *)
(* interrupt between the look at the buffer and the wait loses the wakeup, *)
(* and no flush or ctrl+c leaves a char behind for a sleeper.              *)
(***************************************************************************)
NoLostKey == \A t \in Slots : state[t] = "key" /\ foreground[t] => keys = 0

(***************************************************************************)
(* Fixed priority preemption (sched.h): while a program runs under the     *)
(* real time policy, no ready task is more important.  Tasks killed while  *)
(* ready are left out: task_kill raises them without asking for a switch.  *)
(***************************************************************************)
MostImportantRuns ==
    policy = "real_time" /\ pc[task_running] = "user" =>
        \A t \in Slots : state[t] = "ready" /\ ~ killed[t] =>
            priority[t] <= priority[task_running]

(***************************************************************************)
(* The console stays in reach (config.h): only the shell and killed tasks  *)
(* reach the priority of the shell.                                        *)
(***************************************************************************)
ShellAboveUserTasks ==
    \A t \in Slots : Live(t) /\ ~ IsKernel(t) /\ ~ is_shell[t] /\ ~ killed[t]
        => base_priority[t] < TASK_PRIORITY_SHELL

(***************************************************************************)
(* Earliest deadline first (sched.h): while a periodic program runs, no    *)
(* ready periodic task has an earlier deadline.                            *)
(***************************************************************************)
Periodic(t) == period[t] # 0 /\ priority[t] < TASK_PRIORITY_SHELL

EarliestDeadlineRuns ==
    policy = "edf" /\ pc[task_running] = "user" /\ Periodic(task_running) =>
        \A t \in Slots : state[t] = "ready" /\ Periodic(t) =>
            Signed(deadline[t] - deadline[task_running]) >= 0

(***************************************************************************)
(* The ranks of sched.h under edf: an ordinary program only runs while no  *)
(* periodic task is ready, and either only while no task at the shell's    *)
(* priority is.  Waking, boosting, ending a boost and changing the period  *)
(* all have to ask for a switch.                                           *)
(***************************************************************************)
EdfRank(t) == IF priority[t] >= TASK_PRIORITY_SHELL THEN 0
              ELSE IF period[t] # 0 THEN 1 ELSE 2

EdfRanksKept ==
    policy = "edf" /\ pc[task_running] = "user" =>
        \A t \in Slots \ {Idle} : state[t] = "ready" /\ ~ killed[t] =>
            EdfRank(task_running) <= EdfRank(t)

-----------------------------------------------------------------------------
(* Action properties *)

(* A killed task inside the kernel stays there *)
KilledStays ==
    \A t \in Slots : Live(t) /\ killed[t] /\ pc[t] # "user" => pc'[t] # "user"

(***************************************************************************)
(* A killed task never gets back to ring 3: whatever call it was in when   *)
(* it was killed, and whatever it slept or waited for, it leaves through   *)
(* task_exit (task_return_to_user asks before and after its schedule()).   *)
(***************************************************************************)
KilledNeverReturns == [][KilledStays]_vars

(* The new owner of a mutex is the most important task blocked on it *)
HandedOver ==
    \A m \in MutexIds : owner'[m] # owner[m] /\ owner'[m] # NULL =>
        LET waiters == {t \in Slots : state[t] = "blocked"
                                        /\ wait_channel[t] = m}
        IN  waiters # {} => /\ owner'[m] \in waiters
                            /\ \A t \in waiters :
                                 priority[t] <= priority[owner'[m]]

(***************************************************************************)
(* A mutex changes hands only to a task that was blocked on it, the most   *)
(* important one: mutex_hand_over makes the heir the owner before it runs, *)
(* so nobody barges in while others wait.                                  *)
(***************************************************************************)
NoBarging == [][HandedOver]_vars

-----------------------------------------------------------------------------
(***************************************************************************)
(* Fairness: the processor executes kernel code without end.  The timer    *)
(* never stops, and the interrupt controller keeps its request pending     *)
(* while interrupts are off, so it is served if interrupts are on again    *)
(* and again (strong fairness).  Programs owe nothing: one may run in ring *)
(* 3 forever without a call, or call forever.                              *)
(***************************************************************************)
Fairness ==
    /\ WF_vars(KernelStep)
    /\ WF_vars(pc[task_running] = "dying" /\ Exit)
    /\ SF_vars(TimerInterrupt)

FairSpec == Spec /\ Fairness

(* A killed task that does not wait for a child exits. *)
KilledExits ==
    \A t \in Slots : (Live(t) /\ killed[t] /\ state[t] # "wait")
                        ~> ~ (Live(t) /\ killed[t])

(***************************************************************************)
(* sched.h: tasks with equal priority share the cpu round robin.  Of two   *)
(* tasks that keep the same priority, one cannot run again and again while *)
(* the other stays ready.                                                  *)
(***************************************************************************)
EqualPrioritiesShare ==
    \A t, u \in Slots \ {Idle} :
        ~ /\ <>[](state[t] = "ready" /\ priority[t] = priority[u])
          /\ []<>(task_running = u)

(* Round robin: a ready task gets the processor. *)
ReadyRuns ==
    \A t \in Slots \ {Idle} :
        (policy = "round_robin" /\ state[t] = "ready")
            ~> (state[t] # "ready" \/ policy # "round_robin")
=============================================================================
