------------------------------- MODULE Sched -------------------------------
(***************************************************************************)
(* The scheduler (kernel/task/sched.c).  Its functions are called in the   *)
(* middle of a handler, after the handler changed priorities, deadlines or *)
(* the policy: they read those fields primed, the value they have when the *)
(* scheduler runs.  Task states are passed as a function st, the states at *)
(* the time of the call.                                                   *)
(***************************************************************************)
EXTENDS TaskTable

VARIABLES
    policy,        \* current_policy
    need_resched,
    task_running,
    slice,         \* ticks left of the running task, the only one in use
    ticks          \* pit_ticks

schedVars == <<policy, need_resched, task_running, slice, ticks>>

Policy == {"round_robin", "real_time", "edf"}

SchedTypeOK ==
    /\ policy \in Policy
    /\ need_resched \in BOOLEAN
    /\ task_running \in Slots
    /\ slice \in 0 .. SCHED_QUANTUM_TICKS
    /\ ticks \in Tick

(* the shell and killed tasks, then periodic tasks, then the rest *)
sched_edf_class(t) ==
    IF priority'[t] >= TASK_PRIORITY_SHELL THEN 0
    ELSE IF period'[t] # 0 THEN 1 ELSE 2

(* task a should run before task b *)
sched_runs_before(a, b) ==
    LET class_a == sched_edf_class(a)
        class_b == sched_edf_class(b)
    IN  IF policy' = "edf" /\ class_a # class_b THEN class_a < class_b
        ELSE IF policy' = "edf" /\ class_a = 1
             THEN Signed(deadline'[a] - deadline'[b]) < 0
        ELSE priority'[a] > priority'[b]

task_runnable(t, st) ==
    st[t] = "ready" \/ (t = task_running /\ st[t] = "running")

(* mutant: the scan starts at the first slot *)
ScanFromFirst(t) == t

(* the order of the scan: the slot after the running one first *)
ScanOrder(t) == (t + MAX_TASKS - task_running - 1) % MAX_TASKS

(* the scan keeps a when it also sees b *)
Preferred(a, b) ==
    IF policy' = "round_robin" THEN ScanOrder(a) < ScanOrder(b)
    ELSE \/ sched_runs_before(a, b)
         \/ ~ sched_runs_before(b, a) /\ ScanOrder(a) < ScanOrder(b)

Candidates(st) == {t \in Slots \ {Idle} : task_runnable(t, st)}

Best(t, st) == \A o \in Candidates(st) \ {t} : Preferred(t, o)

(* the scan leaves no class of edf for a worse one *)
FirstClass(t, st) ==
    policy' = "edf" =>
        \A o \in Candidates(st) : sched_edf_class(t) <= sched_edf_class(o)

(***************************************************************************)
(* The idle thread if nobody else is runnable.  A best candidate exists    *)
(* unless deadlines lie more than half the range of the tick counter apart *)
(* (their comparison then runs in circles); the model leaves open which    *)
(* candidate of the first class the scan ends with in that case.           *)
(***************************************************************************)
sched_pick_next(st) ==
    IF Candidates(st) = {} THEN Idle
    ELSE CHOOSE t \in Candidates(st) :
            /\ FirstClass(t, st)
            /\ Best(t, st) \/ ~ \E b \in Candidates(st) : Best(b, st)

(***************************************************************************)
(* Switches to the picked task.  The running task is already in its new    *)
(* state in st, and the caller sets its resume point.                      *)
(***************************************************************************)
schedule(st) ==
    LET next == sched_pick_next(st)
    IN  /\ need_resched' = FALSE
        /\ slice' = SCHED_QUANTUM_TICKS
        /\ task_running' = next
        /\ state' = [t \in Slots |->
                        IF t = next THEN "running"
                        ELSE IF t = task_running /\ st[t] = "running"
                             THEN "ready"
                        ELSE st[t]]

(* sched_wake of every task in woken *)
Woken(woken, st) == [t \in Slots |-> IF t \in woken THEN "ready" ELSE st[t]]

(* mutant: only the idle thread is preempted by a woken task *)
WakePreemptsIdle(woken) == woken # {} /\ task_running = Idle

WakePreempts(woken) ==
    \E t \in woken :
        \/ task_running = Idle
        \/ policy' # "round_robin" /\ sched_runs_before(t, task_running)

sched_wake(woken, st) ==
    /\ state' = Woken(woken, st)
    /\ need_resched' = (need_resched \/ WakePreempts(woken))

(* --task_running->slice <= 0; it stays at 0 below that *)
SliceAfterTick == IF slice = 0 THEN 0 ELSE slice - 1

(* sched_tick once pit_tick counted; due are the sleepers whose time came *)
sched_tick(due) ==
    /\ state' = Woken(due, state)
    /\ slice' = IF task_running = Idle THEN slice ELSE SliceAfterTick
    /\ need_resched' = \/ need_resched
                       \/ WakePreempts(due)
                       \/ task_running # Idle /\ SliceAfterTick = 0
=============================================================================
