----------------------------- MODULE TaskTable -----------------------------
(***************************************************************************)
(* The task table of the kernel (kernel/task/task.h): the fields of struct *)
(* task that the scheduler, the mutexes and the task calls share, and the  *)
(* constants of kernel/config.h that bound them.  A task is known by its   *)
(* slot; pids are never reused, so a slot and the time it was taken stand  *)
(* for the pid.                                                            *)
(***************************************************************************)
EXTENDS Integers

CONSTANTS
    MAX_TASKS,           \* slots of task_table
    SCHED_QUANTUM_TICKS, \* ticks of a time slice
    TASK_PRIORITY_MAX,   \* priority of a killed task
    TASK_PRIORITY_SHELL, \* priority of init and of the shell it starts
    TickMod              \* pit_ticks counts modulo this (2^32 in the code)

ASSUME TableAssumption ==
    /\ MAX_TASKS \in Nat /\ MAX_TASKS >= 3
    /\ SCHED_QUANTUM_TICKS \in Nat \ {0}
    /\ TASK_PRIORITY_SHELL \in Nat /\ TASK_PRIORITY_SHELL > 1
    /\ TASK_PRIORITY_MAX \in Nat /\ TASK_PRIORITY_SHELL < TASK_PRIORITY_MAX
    /\ TickMod \in Nat /\ TickMod >= 2 /\ TickMod % 2 = 0

(***************************************************************************)
(* task_init takes slot 0 for the idle thread and slot 1 for init.  NULL   *)
(* is the null pointer of every task, mutex and channel pointer.           *)
(***************************************************************************)
Slots == 0 .. MAX_TASKS - 1
Idle == 0
InitThread == 1
NULL == -1

IsKernel(t) == t \in {Idle, InitThread}
Priority == 0 .. TASK_PRIORITY_MAX
Tick == 0 .. TickMod - 1

(* (int32_t)(a - b) of two tick counts *)
Signed(d) == ((d + TickMod \div 2) % TickMod) - TickMod \div 2

(***************************************************************************)
(* enum task_state, under the names ps shows.  TASK_LOADING only exists    *)
(* inside task_spawn, which no other task can observe.                     *)
(***************************************************************************)
TaskState == {"unused", "ready", "running", "sleeping", "key", "wait",
              "blocked", "zombie"}

(***************************************************************************)
(* Where the kernel stack of a task resumes it.                            *)
(*   user     ring 3 (also a task that never ran)                          *)
(*   return   a handler is done, task_return_to_user comes next            *)
(*   resumed  switched out inside task_return_to_user                      *)
(*   dying    task_return_to_user found it killed                          *)
(*   lock, wait, sleep, key  after schedule() in the loop of that call     *)
(*   init     init between two calls, interrupts on                        *)
(*   stuck    the endless sleep of an init that cant start the shell       *)
(*   loop, halted, awake  idle_main before, in and after hlt               *)
(*   parked   idle_main switched out in its schedule()                     *)
(***************************************************************************)
Resume == {"user", "return", "resumed", "dying", "lock", "wait", "sleep",
           "key", "init", "stuck", "loop", "halted", "awake", "parked"}

VARIABLES
    state, priority, base_priority, period, deadline, killed, detached,
    pc            \* Resume point of each task

tableVars == <<state, priority, base_priority, period, deadline, killed,
               detached, pc>>

TableTypeOK ==
    /\ state \in [Slots -> TaskState]
    /\ priority \in [Slots -> Priority]
    /\ base_priority \in [Slots -> Priority]
    /\ period \in [Slots -> Nat]
    /\ deadline \in [Slots -> Tick]
    /\ killed \in [Slots -> BOOLEAN]
    /\ detached \in [Slots -> BOOLEAN]
    /\ pc \in [Slots -> Resume]

Live(t) == state[t] \notin {"unused", "zombie"}
=============================================================================
