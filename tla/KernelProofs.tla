---------------------------- MODULE KernelProofs ----------------------------
(***************************************************************************)
(* Theorems about Kernel: every step keeps the types of the variables; the *)
(* inductive invariant IInv and the safety properties that follow from it, *)
(* for every number of tasks, mutexes and priorities and every set of      *)
(* system calls programs make.  The assumptions are those the modules of   *)
(* the kernel state about their constants.                                 *)
(*                                                                         *)
(* Its second half is about who waits and who runs.  A parent never misses *)
(* the exit of its child, no child outlives its parent unnoticed, no       *)
(* sleeper misses its tick and no reader its key.  Under the fixed         *)
(* priorities and the ranks of edf no ready task outranks a program in     *)
(* ring 3, and the owner of a mutex runs at the priority of those that     *)
(* wait for it.                                                            *)
(***************************************************************************)
EXTENDS Kernel, NumberLemmas, FiniteSetTheorems

USE TableAssumption, MutexAssumption, TaskAssumption, KernelAssumption

-----------------------------------------------------------------------------
(* Types                                                                   *)

States == [Slots -> TaskState]

(* A task inside mutex_lock knows which mutex it waits for. *)
LockPoint ==
    \A t \in Slots : pc[t] = "lock" => wait_mutex[t] \in mutexes[t]

(* Facts about the constants *)
LEMMA Constants ==
    /\ 0 \in Tick
    /\ \A n \in Int : n % TickMod \in Tick
    /\ Priorities \subseteq Priority
    /\ 0 \in Priority /\ TASK_PRIORITY_SHELL \in Priority
    /\ TASK_PRIORITY_MAX \in Priority
    /\ Periods \subseteq Nat /\ SleepTicks \subseteq Nat
    /\ INIT_SLEEP \in Nat
    /\ Idle \in Slots /\ InitThread \in Slots /\ Idle # InitThread
    /\ NULL \notin Slots /\ NULL \notin MutexIds
<1>1. TickMod \in Nat /\ TickMod > 0
  OBVIOUS
<1>2. 0 \in Tick /\ \A n \in Int : n % TickMod \in Tick
  BY <1>1 DEF Tick
<1>3. Periods \subseteq Nat /\ SleepTicks \subseteq Nat /\ INIT_SLEEP \in Nat
  OBVIOUS
<1>4. Priorities \subseteq Priority
  BY DEF Priority
<1>5. /\ 0 \in Priority /\ TASK_PRIORITY_SHELL \in Priority
      /\ TASK_PRIORITY_MAX \in Priority
  BY DEF Priority
<1>6. /\ Idle \in Slots /\ InitThread \in Slots /\ Idle # InitThread
      /\ NULL \notin Slots /\ NULL \notin MutexIds
  BY DEF Idle, InitThread, Slots, NULL, MutexIds
<1>. QED
  BY <1>2, <1>3, <1>4, <1>5, <1>6

-----------------------------------------------------------------------------
(* What the helpers of the scheduler and of the mutexes return *)

(* sched_pick_next ends with a candidate of the first class, the best one *)
(* if there is one.                                                       *)
LEMMA PickFirst ==
    ASSUME NEW st, Candidates(st) # {}
    PROVE  LET next == sched_pick_next(st)
           IN  /\ next \in Candidates(st)
               /\ FirstClass(next, st)
               /\ Best(next, st) \/ ~ \E b \in Candidates(st) : Best(b, st)
<1>1. PICK f \in Candidates(st) : FirstClass(f, st)
  <2>1. \A t : sched_edf_class(t) \in {0, 1, 2}
    BY DEF sched_edf_class
  <2>. HIDE DEF sched_edf_class
  <2>2. CASE \E t \in Candidates(st) : sched_edf_class(t) = 0
    BY <2>1, <2>2 DEF FirstClass
  <2>3. CASE /\ \A t \in Candidates(st) : sched_edf_class(t) # 0
             /\ \E t \in Candidates(st) : sched_edf_class(t) = 1
    BY <2>1, <2>3 DEF FirstClass
  <2>4. CASE \A t \in Candidates(st) : sched_edf_class(t) \notin {0, 1}
    BY <2>1, <2>4 DEF FirstClass
  <2>. QED
    BY <2>2, <2>3, <2>4
<1>2. ASSUME NEW b \in Candidates(st), Best(b, st)
      PROVE  FirstClass(b, st)
  <2>1. ASSUME policy' = "edf", NEW o \in Candidates(st)
        PROVE  sched_edf_class(b) <= sched_edf_class(o)
    <3>1. o = b \/ Preferred(b, o)
      BY <1>2 DEF Best
    <3>2. sched_edf_class(b) \in {0, 1, 2} /\ sched_edf_class(o) \in {0, 1, 2}
      BY DEF sched_edf_class
    <3>3. Preferred(b, o) => \/ sched_runs_before(b, o)
                             \/ ~ sched_runs_before(o, b)
      BY <2>1 DEF Preferred
    <3>. HIDE DEF sched_edf_class
    <3>. QED
      BY <2>1, <3>1, <3>2, <3>3 DEF sched_runs_before
  <2>. QED
    BY <2>1 DEF FirstClass
<1>3. \E t \in Candidates(st) :
        /\ FirstClass(t, st)
        /\ Best(t, st) \/ ~ \E b \in Candidates(st) : Best(b, st)
  BY <1>1, <1>2
<1>. QED
  BY <1>3 DEF sched_pick_next

(* sched_pick_next returns the idle thread or a runnable task. *)
LEMMA PickIn ==
    ASSUME NEW st
    PROVE  LET next == sched_pick_next(st)
           IN  /\ next \in Slots
               /\ next = Idle \/ (next # Idle /\ task_runnable(next, st))
<1>1. CASE Candidates(st) = {}
  BY <1>1 DEF sched_pick_next, Slots, Idle
<1>2. CASE Candidates(st) # {}
  BY <1>2, PickFirst DEF Candidates
<1>. QED
  BY <1>1, <1>2

(* schedule() keeps the types of what it assigns. *)
LEMMA ScheduleType ==
    ASSUME NEW st \in States, schedule(st)
    PROVE  /\ state' \in States
           /\ task_running' \in Slots
           /\ need_resched' \in BOOLEAN
           /\ slice' \in 0 .. SCHED_QUANTUM_TICKS
<1>1. sched_pick_next(st) \in Slots
  BY PickIn
<1>2. state' \in States
  BY <1>1 DEF schedule, States, TaskState
<1>3. task_running' \in Slots
  BY <1>1 DEF schedule
<1>4. need_resched' \in BOOLEAN
  BY DEF schedule
<1>5. slice' \in 0 .. SCHED_QUANTUM_TICKS
  BY DEF schedule
<1>. QED
  BY <1>2, <1>3, <1>4, <1>5

(* sched_wake keeps the types of what it assigns. *)
LEMMA WakeType ==
    ASSUME NEW S, NEW st \in States, sched_wake(S, st)
    PROVE  /\ state' \in States
           /\ need_resched' \in BOOLEAN
<1>1. state' \in States
  BY DEF sched_wake, Woken, States, TaskState
<1>2. need_resched' \in BOOLEAN
  BY DEF sched_wake
<1>. QED
  BY <1>1, <1>2

(* Waking tasks and reaping zombies keep the states well typed. *)
LEMMA StatesIn ==
    ASSUME NEW st \in States, NEW S, NEW t, NEW s \in TaskState, TypeOK
    PROVE  /\ Woken(S, st) \in States
           /\ Reaped \in States
           /\ [st EXCEPT ![t] = s] \in States
BY DEF Woken, Reaped, States, TaskState, TypeOK, TableTypeOK

(* The heir of a mutex is one of the tasks blocked on it. *)
LEMMA HeirIn ==
    ASSUME TypeOK, NEW m, NEW st
    PROVE  LET W == {t \in Slots : st[t] = "blocked" /\ wait_channel[t] = m}
           IN  IF W = {} THEN Heir(m, st) = NULL
               ELSE /\ Heir(m, st) \in W
                    /\ \A o \in W : priority[o] <= priority[Heir(m, st)]
<1>. DEFINE W == {t \in Slots : st[t] = "blocked" /\ wait_channel[t] = m}
            P == {priority[t] : t \in W}
            Q == {t \in W : priority[t] = Max(P)}
<1>1. CASE W = {}
  BY <1>1 DEF Heir
<1>2. CASE W # {}
  <2>1. W \subseteq Slots /\ Slots \subseteq Nat
    BY DEF Slots
  <2>2. P \in SUBSET (0 .. TASK_PRIORITY_MAX) /\ P # {}
    BY <1>2 DEF TypeOK, TableTypeOK, Priority
  <2>3. Max(P) \in P /\ \A p \in P : Max(P) >= p
    <3>. HIDE DEF P
    <3>. QED
      BY <2>2, MaxIn
  <2>4. Q \in SUBSET Nat /\ Q # {}
    BY <2>1, <2>3
  <2>5. Min(Q) \in Q /\ \A t \in Q : Min(Q) <= t
    <3>. HIDE DEF Q
    <3>. QED
      BY <2>4, MinIn
  <2>6. \A o \in W : \/ priority[Min(Q)] > priority[o]
                     \/ priority[Min(Q)] = priority[o] /\ Min(Q) <= o
    <3>. TAKE o \in W
    <3>1. priority[o] \in P /\ priority[o] \in Nat /\ priority[Min(Q)] = Max(P)
      BY <2>1, <2>5 DEF TypeOK, TableTypeOK, Priority
    <3>2. CASE priority[o] = Max(P)
      BY <2>5, <3>1, <3>2
    <3>3. CASE priority[o] # Max(P)
      <4>1. Max(P) \in Nat /\ Max(P) >= priority[o]
        BY <2>2, <2>3, <3>1
      <4>. QED
        BY <3>1, <3>3, <4>1
    <3>. QED
      BY <3>2, <3>3
  <2>7. Min(Q) \in W
    BY <2>5
  <2>. HIDE DEF Q, P
  <2>8. /\ Heir(m, st) \in W
        /\ \A o \in W : \/ priority[Heir(m, st)] > priority[o]
                        \/ priority[Heir(m, st)] = priority[o]
    BY <1>2, <2>6, <2>7 DEF Heir
  <2>9. \A t \in W : priority[t] \in Nat
    BY <2>1 DEF TypeOK, TableTypeOK, Priority
  <2>. QED
    BY <1>2, <2>8, <2>9
<1>. QED
  BY <1>1, <1>2

(* mutex_update_priority computes a priority. *)
LEMMA UpdateIn ==
    ASSUME TypeOK, NEW t \in Slots, NEW base \in Priority, NEW st, NEW own
    PROVE  mutex_update_priority(t, base, st, own) \in Priority
<1>. DEFINE S == {base} \cup InheritedPriorities(t, st, own)
<1>1. S \in SUBSET (0 .. TASK_PRIORITY_MAX) /\ S # {}
  BY DEF InheritedPriorities, TypeOK, TableTypeOK, Priority
<1>2. Max(S) \in S
  <2>. HIDE DEF S
  <2>. QED
    BY <1>1, MaxIn
<1>. QED
  BY <1>1, <1>2 DEF mutex_update_priority, TypeOK, TableTypeOK, Priority

(* mutex_boost raises priorities and nothing else. *)
LEMMA BoostIn ==
    ASSUME TypeOK, NEW m, NEW prio \in Priority
    PROVE  mutex_boost(m, prio) \in [Slots -> Priority]
BY DEF mutex_boost, TypeOK, TableTypeOK

(* Block and Return keep the types of what they assign. *)
LEMMA BlockType ==
    ASSUME TypeOK, NEW s \in TaskState, NEW at \in Resume, NEW st \in States,
           Block(s, at, st)
    PROVE  /\ state' \in States
           /\ task_running' \in Slots
           /\ need_resched' \in BOOLEAN
           /\ slice' \in 0 .. SCHED_QUANTUM_TICKS
           /\ pc' \in [Slots -> Resume]
<1>1. pc' \in [Slots -> Resume]
  BY DEF Block, TypeOK, TableTypeOK
<1>2. [st EXCEPT ![task_running] = s] \in States
  BY StatesIn
<1>. QED
  BY <1>1, <1>2, ScheduleType DEF Block

(* Return keeps the types of what it assigns. *)
LEMMA ReturnType ==
    ASSUME TypeOK, NEW st \in States, Return(st)
    PROVE  /\ state' \in States
           /\ task_running' \in Slots
           /\ need_resched' \in BOOLEAN
           /\ slice' \in 0 .. SCHED_QUANTUM_TICKS
           /\ pc' \in [Slots -> Resume]
BY DEF Return, TypeOK, TableTypeOK, SchedTypeOK, Resume

(* The three blocking loops of task.c *)
LEMMA LoopType ==
    ASSUME TypeOK, NEW st \in States, NEW c, NEW tick \in Tick,
           \/ task_wait(c, st)
           \/ task_sleep_until_tick(tick, st)
           \/ task_wait_key(st)
    PROVE  /\ state' \in States
           /\ task_running' \in Slots
           /\ need_resched' \in BOOLEAN
           /\ slice' \in 0 .. SCHED_QUANTUM_TICKS
           /\ pc' \in [Slots -> Resume]
<1>1. [st EXCEPT ![c] = "unused"] \in States
  BY StatesIn DEF TaskState
<1>2. {"wait", "sleeping", "key"} \subseteq TaskState
      /\ {"wait", "sleep", "key"} \subseteq Resume
  BY DEF TaskState, Resume
<1>3. CASE task_wait(c, st)
  BY <1>1, <1>2, <1>3, BlockType, ReturnType DEF task_wait
<1>4. CASE task_sleep_until_tick(tick, st)
  BY <1>1, <1>2, <1>4, BlockType, ReturnType DEF task_sleep_until_tick
<1>5. CASE task_wait_key(st)
  BY <1>1, <1>2, <1>5, BlockType, ReturnType DEF task_wait_key
<1>. QED
  BY <1>3, <1>4, <1>5

(* task_sleep_until_tick stores a tick. *)
LEMMA SleepType ==
    ASSUME TypeOK, NEW st, NEW tick \in Tick, task_sleep_until_tick(tick, st)
    PROVE  wake_tick' \in [Slots -> Tick]
<1>1. \A x \in Tick : [wake_tick EXCEPT ![task_running] = x] \in [Slots -> Tick]
  BY DEF TypeOK, TaskTypeOK
<1>. QED
  BY <1>1, Constants DEF task_sleep_until_tick

(* task_spawn *)
LEMMA SpawnType ==
    ASSUME TypeOK, NEW prio \in Priority, NEW background \in BOOLEAN,
           NEW shell \in BOOLEAN, task_spawn(prio, background, shell)
    PROVE  TypeOK'
<1>. DEFINE t == Min(FreeSlots)
<1>1. state' \in States /\ need_resched' \in BOOLEAN
  BY WakeType DEF task_spawn, TypeOK, TableTypeOK, States
<1>2. TableTypeOK'
  <2>1. killed' \in [Slots -> BOOLEAN] /\ detached' \in [Slots -> BOOLEAN]
    BY DEF task_spawn, TypeOK, TableTypeOK
  <2>2. pc' \in [Slots -> Resume]
    BY DEF task_spawn, TypeOK, TableTypeOK, Resume
  <2>3. /\ priority' \in [Slots -> Priority]
        /\ base_priority' \in [Slots -> Priority]
        /\ period' \in [Slots -> Nat]
        /\ deadline' \in [Slots -> Tick]
    BY Constants DEF task_spawn, TypeOK, TableTypeOK
  <2>. QED
    BY <1>1, <2>1, <2>2, <2>3 DEF TableTypeOK, States
<1>3. SchedTypeOK'
  BY <1>1 DEF task_spawn, TypeOK, SchedTypeOK
<1>4. MutexTypeOK'
  BY DEF task_spawn, TypeOK, MutexTypeOK
<1>5. TaskTypeOK'
  <2>. DEFINE fg == ~ background /\ foreground[task_running]
  <2>1. fg \in BOOLEAN
    OBVIOUS
  <2>2. foreground' = [foreground EXCEPT ![t] = fg]
    BY DEF task_spawn
  <2>3. foreground' \in [Slots -> BOOLEAN]
    <3>. HIDE DEF fg, t
    <3>. QED
      BY <2>1, <2>2 DEF TypeOK, TaskTypeOK
  <2>4. is_shell' \in [Slots -> BOOLEAN]
    BY DEF task_spawn, TypeOK, TaskTypeOK
  <2>5. keys' \in 0 .. KeyBuffer
    BY DEF task_spawn, TypeOK, TaskTypeOK
  <2>6. /\ parent' \in [Slots -> Slots \cup {NULL}]
        /\ wake_tick' \in [Slots -> Tick]
        /\ wait_pid' \in [Slots -> Slots \cup {NULL}]
    BY Constants DEF task_spawn, TypeOK, TaskTypeOK, SchedTypeOK
  <2>. QED
    BY <2>3, <2>4, <2>5, <2>6 DEF TaskTypeOK
<1>. QED
  BY <1>2, <1>3, <1>4, <1>5 DEF TypeOK

(* mutex_lock of a mutex in range *)
LEMMA LockType ==
    ASSUME TypeOK, NEW m \in MutexIds, NEW st \in States, mutex_lock(m, st)
    PROVE  /\ state' \in States
           /\ task_running' \in Slots
           /\ need_resched' \in BOOLEAN
           /\ slice' \in 0 .. SCHED_QUANTUM_TICKS
           /\ pc' \in [Slots -> Resume]
           /\ priority' \in [Slots -> Priority]
           /\ MutexTypeOK'
<1>. USE DEF TypeOK, TableTypeOK, SchedTypeOK, MutexTypeOK
<1>1. CASE LockWait(m, st)
  <2>1. [st EXCEPT ![task_running] = "blocked"] \in States
    BY StatesIn DEF TaskState
  <2>2. /\ state' \in States
        /\ task_running' \in Slots
        /\ need_resched' \in BOOLEAN
        /\ slice' \in 0 .. SCHED_QUANTUM_TICKS
    BY <1>1, <2>1, ScheduleType DEF LockWait
  <2>3. priority' \in [Slots -> Priority]
    BY <1>1, BoostIn DEF LockWait
  <2>4. pc' \in [Slots -> Resume]
    BY <1>1 DEF LockWait, Resume
  <2>5. MutexTypeOK'
    BY <1>1 DEF LockWait, mutex_lock
  <2>. QED
    BY <2>2, <2>3, <2>4, <2>5
<1>2. CASE LockDone(m, st)
  <2>. DEFINE o == owner[m]
              held == o \notin {NULL, task_running}
  <2>1. priority' \in [Slots -> Priority]
    <3>1. CASE held
      <4>1. o \in Slots /\ base_priority[o] \in Priority
        BY <3>1
      <4>2. mutex_update_priority(o, base_priority[o], st, owner) \in Priority
        BY <4>1, UpdateIn
      <4>3. priority' = [priority EXCEPT ![o] =
                mutex_update_priority(o, base_priority[o], st, owner)]
        BY <1>2, <3>1 DEF LockDone
      <4>. QED
        BY <4>2, <4>3
    <3>2. CASE ~ held
      BY <1>2, <3>2 DEF LockDone
    <3>. QED
      BY <3>1, <3>2
  <2>2. need_resched' \in BOOLEAN
    BY <1>2 DEF LockDone
  <2>3. pc' \in [Slots -> Resume]
    BY <1>2 DEF LockDone, Resume
  <2>4. state' \in States /\ task_running' \in Slots
        /\ slice' \in 0 .. SCHED_QUANTUM_TICKS
    BY <1>2 DEF LockDone
  <2>5. MutexTypeOK'
    BY <1>2 DEF LockDone, mutex_lock
  <2>. QED
    BY <2>1, <2>2, <2>3, <2>4, <2>5
<1>. QED
  BY <1>1, <1>2 DEF mutex_lock

(* Handing over mutexes *)
LEMMA OwnersType ==
    ASSUME TypeOK, NEW ms, NEW st
    PROVE  OwnersAfter(ms, st) \in [MutexIds -> Slots \cup {NULL}]
<1>1. \A m \in MutexIds : Heir(m, st) \in Slots \cup {NULL}
  BY HeirIn
<1>. QED
  BY <1>1 DEF OwnersAfter, TypeOK, MutexTypeOK

(* mutex_hand_over keeps the types of what it assigns. *)
LEMMA HandOverType ==
    ASSUME TypeOK, NEW ms, NEW old \in Slots, mutex_hand_over(ms, old)
    PROVE  /\ state' \in States
           /\ need_resched' \in BOOLEAN
           /\ priority' \in [Slots -> Priority]
           /\ owner' \in [MutexIds -> Slots \cup {NULL}]
<1>. DEFINE st == Woken(Heirs(ms, state), state)
            own == OwnersAfter(ms, state)
            p == mutex_update_priority(old, base_priority[old], st, own)
<1>1. state \in States /\ base_priority[old] \in Priority
  BY DEF TypeOK, TableTypeOK, States
<1>2. st \in States
  BY <1>1, StatesIn DEF TaskState
<1>3. p \in Priority
  <2>. HIDE DEF st, own
  <2>. QED
    BY <1>1, UpdateIn
<1>4. priority' = [priority EXCEPT ![old] = p] /\ state' = st /\ owner' = own
  BY DEF mutex_hand_over
<1>5. need_resched' \in BOOLEAN
  BY DEF mutex_hand_over
<1>6. priority' \in [Slots -> Priority]
  <2>. HIDE DEF p
  <2>. QED
    BY <1>3, <1>4 DEF TypeOK, TableTypeOK
<1>. QED
  BY <1>2, <1>4, <1>5, <1>6, OwnersType

(* A mutex somebody has open is counted. *)
OpenCounted == \A t \in Slots : \A m \in mutexes[t] : refs[m] > 0

(* task_exit keeps all types; it takes no count below zero. *)
LEMMA ExitType ==
    ASSUME TypeOK, OpenCounted, task_exit
    PROVE  TypeOK'
<1>. DEFINE t == task_running
            released == Woken(Heirs(Owned(t), state), state)
            wakes == {p \in Slots : /\ p = parent[t]
                                    /\ state[p] = "wait"
                                    /\ wait_pid[p] = t}
            p == mutex_update_priority(t, base_priority[t], released, owner')
<1>1. state \in States /\ t \in Slots /\ base_priority[t] \in Priority
  BY DEF TypeOK, TableTypeOK, SchedTypeOK, States
<1>2. [Woken(wakes, released) EXCEPT ![t] = "zombie"] \in States
  <2>1. released \in States
    BY <1>1, StatesIn DEF TaskState
  <2>2. Woken(wakes, released) \in States
    BY <2>1, StatesIn DEF TaskState
  <2>. QED
    BY <2>2, StatesIn DEF TaskState
<1>3. /\ state' \in States
      /\ task_running' \in Slots
      /\ need_resched' \in BOOLEAN
      /\ slice' \in 0 .. SCHED_QUANTUM_TICKS
  BY <1>2, ScheduleType DEF task_exit
<1>4. priority' \in [Slots -> Priority]
  <2>1. p \in Priority
    <3>. HIDE DEF released
    <3>. QED
      BY <1>1, UpdateIn
  <2>2. priority' = priority \/ priority' = [priority EXCEPT ![t] = p]
    BY DEF task_exit
  <2>. QED
    <3>. HIDE DEF p, t
    <3>. QED
      BY <2>1, <2>2 DEF TypeOK, TableTypeOK
<1>5. detached' \in [Slots -> BOOLEAN]
  BY DEF task_exit
<1>6. TableTypeOK'
  BY <1>3, <1>4, <1>5 DEF task_exit, TypeOK, TableTypeOK, States
<1>7. SchedTypeOK'
  BY <1>3 DEF task_exit, TypeOK, SchedTypeOK
<1>8. MutexTypeOK'
  <2>1. owner' \in [MutexIds -> Slots \cup {NULL}]
    BY OwnersType DEF task_exit
  <2>2. refs' \in [MutexIds -> Nat] /\ mutexes' \in [Slots -> SUBSET MutexIds]
    BY <1>1 DEF task_exit, ForgetMutexes, TypeOK, MutexTypeOK, OpenCounted
  <2>. QED
    BY <2>1, <2>2 DEF task_exit, TypeOK, MutexTypeOK
<1>9. TaskTypeOK'
  <2>1. parent' \in [Slots -> Slots \cup {NULL}]
    BY Constants DEF task_exit, TypeOK, TaskTypeOK
  <2>2. keys' \in 0 .. KeyBuffer
    BY DEF task_exit, TypeOK, TaskTypeOK
  <2>. QED
    BY <2>1, <2>2 DEF task_exit, TypeOK, TaskTypeOK
<1>. QED
  BY <1>6, <1>7, <1>8, <1>9 DEF TypeOK

(* task_kill and ctrl+c raise and wake the tasks they kill. *)
LEMMA KillType ==
    ASSUME TypeOK, NEW ts, NEW S,
           killed' = [t \in Slots |-> t \in ts \/ killed[t]],
           priority' = [t \in Slots |-> IF t \in ts THEN TASK_PRIORITY_MAX
                                        ELSE priority[t]],
           sched_wake(S, state)
    PROVE  /\ killed' \in [Slots -> BOOLEAN]
           /\ priority' \in [Slots -> Priority]
           /\ state' \in States
           /\ need_resched' \in BOOLEAN
<1>1. killed' \in [Slots -> BOOLEAN]
  OBVIOUS
<1>2. priority' \in [Slots -> Priority]
  BY Constants DEF TypeOK, TableTypeOK
<1>3. state' \in States /\ need_resched' \in BOOLEAN
  BY WakeType DEF TypeOK, TableTypeOK, States
<1>. QED
  BY <1>1, <1>2, <1>3

(* Interrupts keep the resume points well typed. *)
LEMMA InterruptedType ==
    ASSUME TypeOK, Interrupted
    PROVE  pc' \in [Slots -> Resume]
BY DEF Interrupted, TypeOK, TableTypeOK, Resume

(* sched_tick keeps the types of what it assigns. *)
LEMMA TickType ==
    ASSUME TypeOK, NEW due, sched_tick(due)
    PROVE  /\ state' \in States
           /\ slice' \in 0 .. SCHED_QUANTUM_TICKS
           /\ need_resched' \in BOOLEAN
<1>1. state' \in States
  BY StatesIn DEF sched_tick, TypeOK, TableTypeOK, States, Woken, TaskState
<1>2. slice' \in 0 .. SCHED_QUANTUM_TICKS
  BY DEF sched_tick, SliceAfterTick, TypeOK, SchedTypeOK
<1>3. need_resched' \in BOOLEAN
  BY DEF sched_tick
<1>. QED
  BY <1>1, <1>2, <1>3

-----------------------------------------------------------------------------
(* Every step keeps the types *)

(* No step takes a variable out of its type. *)
LEMMA TypeStep ==
    ASSUME TypeOK, OneRunning, LockPoint, OpenCounted, [Next]_vars
    PROVE  TypeOK'
<1>. USE DEF TypeOK, TableTypeOK, SchedTypeOK, MutexTypeOK, TaskTypeOK,
             mutexVars, taskVars, schedVars
<1>1. state \in States /\ Reaped \in States
  BY StatesIn DEF States, TaskState
<1>2. Returns => pc' \in [Slots -> Resume]
  BY DEF Returns, Resume
<1>3. CASE SysRun
  <2>1. PICK prio \in Priorities, background \in BOOLEAN :
            task_spawn(prio, background, FALSE)
    BY <1>3 DEF SysRun
  <2>2. prio \in Priority
    BY Constants
  <2>. HIDE DEF TypeOK
  <2>. QED
    BY <2>1, <2>2, SpawnType
<1>4. CASE SysSpawn
  <2>1. priority[task_running] \in Priority
    OBVIOUS
  <2>. QED
    BY <1>4, <2>1, SpawnType DEF SysSpawn
<1>5. CASE SysWait
  <2>1. PICK c \in Slots : task_wait(c, state)
    BY <1>5 DEF SysWait
  <2>2. wait_pid' \in [Slots -> Slots \cup {NULL}]
    BY <2>1 DEF task_wait
  <2>. QED
    BY <1>1, <1>5, <2>1, <2>2, LoopType, Constants DEF SysWait, States
<1>6. CASE SysKill
  <2>1. PICK t \in Slots : task_kill({t})
    BY <1>6 DEF SysKill
  <2>2. /\ killed' \in [Slots -> BOOLEAN]
        /\ priority' \in [Slots -> Priority]
        /\ state' \in States
        /\ need_resched' \in BOOLEAN
    BY <2>1, KillType DEF task_kill
  <2>. QED
    BY <1>2, <1>6, <2>1, <2>2 DEF SysKill, task_kill, States
<1>7. CASE SysSleep
  <2>1. PICK n \in SleepTicks :
            task_sleep_until_tick((ticks + n) % TickMod, state)
    BY <1>7 DEF SysSleep
  <2>2. (ticks + n) % TickMod \in Tick
    BY Constants DEF Tick
  <2>3. wake_tick' \in [Slots -> Tick]
    BY <2>1, <2>2, SleepType
  <2>. QED
    BY <1>1, <1>7, <2>1, <2>2, <2>3, LoopType DEF SysSleep, States
<1>8. CASE SysGetchar
  <2>1. keys' \in 0 .. KeyBuffer
    BY <1>8 DEF SysGetchar, task_wait_key
  <2>. QED
    BY <1>1, <1>8, <2>1, LoopType, Constants DEF SysGetchar, States
<1>9. CASE SysPeriod
  <2>1. PICK ms \in Periods : task_set_period(ms)
    BY <1>9 DEF SysPeriod
  <2>2. (ticks + ms) % TickMod \in Tick /\ ms \in Nat
    BY Constants DEF Tick
  <2>3. period' \in [Slots -> Nat] /\ deadline' \in [Slots -> Tick]
    BY <2>1, <2>2 DEF task_set_period
  <2>. QED
    BY <1>2, <1>9, <2>1, <2>3 DEF SysPeriod, task_set_period
<1>10. CASE SysWaitPeriod
  <2>1. deadline[task_running] \in Tick
    OBVIOUS
  <2>2. (deadline[task_running] + period[task_running]) % TickMod \in Tick
    <3>1. deadline[task_running] + period[task_running] \in Int
      BY <2>1 DEF Tick
    <3>. QED
      BY <3>1, Constants
  <2>3. deadline' \in [Slots -> Tick]
    BY <1>10, <2>2 DEF SysWaitPeriod, task_wait_period
  <2>4. task_sleep_until_tick(deadline[task_running], state)
    BY <1>10 DEF SysWaitPeriod, task_wait_period
  <2>5. wake_tick' \in [Slots -> Tick]
    BY <2>1, <2>4, SleepType
  <2>. QED
    BY <1>1, <1>10, <2>1, <2>3, <2>4, <2>5, LoopType
       DEF SysWaitPeriod, task_wait_period, States
<1>11. CASE SysSetprio
  <2>1. PICK t \in Slots, prio \in Priorities : task_set_priority(t, prio)
    BY <1>11 DEF SysSetprio
  <2>2. prio \in Priority
    BY Constants
  <2>3. mutex_update_priority(t, prio, state, owner) \in Priority
    BY <2>2, UpdateIn
  <2>4. /\ priority' \in [Slots -> Priority]
        /\ base_priority' \in [Slots -> Priority]
        /\ need_resched' \in BOOLEAN
    BY <2>1, <2>2, <2>3 DEF task_set_priority
  <2>. QED
    BY <1>2, <1>11, <2>4 DEF SysSetprio
<1>12. CASE SysSched
  BY <1>2, <1>12 DEF SysSched
<1>13. CASE SysYield
  BY <1>2, <1>13 DEF SysYield
<1>14. CASE SysMutexOpen
  <2>1. PICK n \in MutexNames, inh \in InheritFlags : mutex_open(n, inh)
    BY <1>14 DEF SysMutexOpen
  <2>. DEFINE id == IF FoundByName(n) = {} THEN Min(FreeMutexes)
                    ELSE Min(FoundByName(n))
  <2>2. id \in MutexIds
    <3>1. FoundByName(n) \in SUBSET Nat /\ FreeMutexes \in SUBSET Nat
      BY DEF FoundByName, FreeMutexes, MutexIds
    <3>2. FoundByName(n) # {} \/ FreeMutexes # {}
      BY <2>1 DEF mutex_open
    <3>3. id \in FoundByName(n) \cup FreeMutexes
      BY <3>1, <3>2, MinIn
    <3>. QED
      BY <3>3 DEF FoundByName, FreeMutexes
  <2>3. /\ name' \in [MutexIds -> MutexNames \cup {NULL}]
        /\ refs' \in [MutexIds -> Nat]
        /\ owner' \in [MutexIds -> Slots \cup {NULL}]
        /\ mutexes' \in [Slots -> SUBSET MutexIds]
    BY <2>1, <2>2 DEF mutex_open
  <2>4. inherit' \in [MutexIds -> BOOLEAN]
    BY <2>1, <2>2 DEF mutex_open
  <2>. QED
    BY <1>2, <1>14, <2>1, <2>3, <2>4 DEF SysMutexOpen, mutex_open
<1>15. CASE SysMutexLock
  <2>1. PICK m \in MutexIds : mutex_lock(m, state)
    BY <1>15 DEF SysMutexLock
  <2>. QED
    BY <1>1, <1>15, <2>1, LockType DEF SysMutexLock, States
<1>16. CASE SysMutexUnlock
  <2>1. PICK m \in MutexIds : mutex_unlock(m)
    BY <1>16 DEF SysMutexUnlock
  <2>. QED
    BY <1>2, <1>16, <2>1, HandOverType DEF SysMutexUnlock, mutex_unlock, States
<1>17. CASE SysMutexClose
  <2>1. PICK m \in MutexIds : mutex_close(m)
    BY <1>17 DEF SysMutexClose
  <2>2. /\ state' \in States
        /\ need_resched' \in BOOLEAN
        /\ priority' \in [Slots -> Priority]
        /\ owner' \in [MutexIds -> Slots \cup {NULL}]
    BY <1>1, <2>1, HandOverType DEF mutex_close
  <2>3. refs' \in [MutexIds -> Nat] /\ mutexes' \in [Slots -> SUBSET MutexIds]
    BY <2>1 DEF mutex_close, mutex_get, ForgetMutexes
  <2>. QED
    BY <1>2, <1>17, <2>1, <2>2, <2>3 DEF SysMutexClose, mutex_close, States
<1>18. CASE SysOther
  BY <1>2, <1>18 DEF SysOther
<1>19. CASE Exit
  BY <1>19, ExitType DEF Exit
<1>20. CASE ReturnToUser
  <2>1. /\ state' \in States
        /\ task_running' \in Slots
        /\ need_resched' \in BOOLEAN
        /\ slice' \in 0 .. SCHED_QUANTUM_TICKS
    BY <1>1, <1>20, ScheduleType DEF ReturnToUser
  <2>2. pc' \in [Slots -> Resume]
    BY <1>20 DEF ReturnToUser, Resume
  <2>. QED
    BY <1>20, <2>1, <2>2 DEF ReturnToUser, States
<1>21. CASE Resumed
  <2>1. pc' \in [Slots -> Resume]
    BY <1>21 DEF Resumed, Resume
  <2>. QED
    BY <1>1, <1>21, <2>1 DEF Resumed, States
<1>22. CASE LockResumes
  <2>1. wait_mutex[task_running] \in MutexIds
    BY <1>22 DEF LockResumes, LockPoint, OneRunning, Live
  <2>. QED
    BY <1>1, <1>22, <2>1, LockType DEF LockResumes, States
<1>23. CASE WaitResumes
  <2>1. task_wait(wait_pid[task_running], Reaped)
    BY <1>23 DEF WaitResumes
  <2>2. wait_pid' \in [Slots -> Slots \cup {NULL}]
    BY <2>1 DEF task_wait
  <2>. QED
    BY <1>1, <1>23, <2>1, <2>2, LoopType, Constants DEF WaitResumes, States
<1>24. CASE SleepResumes
  <2>1. /\ task_sleep_until_tick(wake_tick[task_running], Reaped)
        /\ wake_tick[task_running] \in Tick
    BY <1>24 DEF SleepResumes
  <2>2. wake_tick' \in [Slots -> Tick]
    BY <2>1, SleepType
  <2>. QED
    BY <1>1, <1>24, <2>1, <2>2, LoopType DEF SleepResumes, States
<1>25. CASE KeyResumes
  <2>1. keys' \in 0 .. KeyBuffer
    BY <1>25 DEF KeyResumes, task_wait_key
  <2>. QED
    BY <1>1, <1>25, <2>1, LoopType, Constants DEF KeyResumes, States
<1>26. CASE InitStartsShell
  BY <1>26, SpawnType, Constants DEF InitStartsShell
<1>27. CASE InitWaits
  <2>1. PICK c \in Slots : task_wait(c, state)
    BY <1>27 DEF InitWaits
  <2>2. wait_pid' \in [Slots -> Slots \cup {NULL}]
    BY <2>1 DEF task_wait
  <2>. QED
    BY <1>1, <1>27, <2>1, <2>2, LoopType, Constants DEF InitWaits, States
<1>28. CASE InitSleeps
  <2>1. (ticks + INIT_SLEEP) % TickMod \in Tick
    BY Constants DEF Tick
  <2>2. wake_tick' \in [Slots -> Tick]
    <3>. DEFINE tick == (ticks + INIT_SLEEP) % TickMod
    <3>1. wake_tick' = [wake_tick EXCEPT ![InitThread] = tick]
      BY <1>28 DEF InitSleeps
    <3>2. tick \in Tick
      BY <2>1
    <3>. HIDE DEF tick
    <3>. QED
      BY <3>1, <3>2
  <2>3. "sleeping" \in TaskState /\ "stuck" \in Resume
    BY DEF TaskState, Resume
  <2>. QED
    BY <1>1, <1>28, <2>2, <2>3, BlockType DEF InitSleeps, States
<1>29. CASE IdleHalts
  BY <1>29 DEF IdleHalts, Resume
<1>30. CASE IdleSchedules
  <2>1. pc' \in [Slots -> Resume]
    BY <1>30 DEF IdleSchedules, Resume
  <2>. QED
    BY <1>1, <1>30, <2>1, ScheduleType DEF IdleSchedules, States
<1>31. CASE IdleResumes
  <2>1. pc' \in [Slots -> Resume]
    BY <1>31 DEF IdleResumes, Resume
  <2>. QED
    BY <1>1, <1>31, <2>1 DEF IdleResumes, States
<1>32. CASE TimerInterrupt
  <2>1. ticks' \in Tick
    <3>1. ticks' = (ticks + 1) % TickMod /\ ticks + 1 \in Int
      BY <1>32 DEF TimerInterrupt, Tick
    <3>. QED
      BY <3>1, Constants
  <2>. QED
    BY <1>32, <2>1, TickType, InterruptedType DEF TimerInterrupt, States
<1>33. CASE KeyInterrupt
  <2>1. keys' \in 0 .. KeyBuffer
    BY <1>33 DEF KeyInterrupt
  <2>. QED
    BY <1>1, <1>33, <2>1, WakeType, InterruptedType DEF KeyInterrupt, States
<1>34. CASE CtrlC
  <2>1. keys' \in 0 .. KeyBuffer
    BY <1>34 DEF CtrlC
  <2>2. /\ killed' \in [Slots -> BOOLEAN]
        /\ priority' \in [Slots -> Priority]
        /\ state' \in States
        /\ need_resched' \in BOOLEAN
    BY <1>34, KillType DEF CtrlC
  <2>. QED
    BY <1>34, <2>1, <2>2, InterruptedType DEF CtrlC, States
<1>35. CASE MouseInterrupt
  BY <1>35, InterruptedType DEF MouseInterrupt
<1>36. CASE SysIgnoreCtrlC
  <2>1. PICK ignore \in BOOLEAN :
            is_shell' = [is_shell EXCEPT ![task_running] = ignore]
    BY <1>36 DEF SysIgnoreCtrlC
  <2>2. is_shell' \in [Slots -> BOOLEAN]
    BY <2>1
  <2>. QED
    BY <1>2, <1>36, <2>2 DEF SysIgnoreCtrlC
<1>37. CASE UNCHANGED vars
  BY <1>37 DEF vars, tableVars
<1>. QED
  BY <1>3, <1>4, <1>5, <1>6, <1>7, <1>8, <1>9, <1>10, <1>11, <1>12, <1>13,
     <1>14, <1>15, <1>16, <1>17, <1>18, <1>19, <1>20, <1>21, <1>22, <1>23,
     <1>24, <1>25, <1>26, <1>27, <1>28, <1>29, <1>30, <1>31, <1>32, <1>33,
     <1>34, <1>35, <1>36, <1>37
     DEF Next, Syscall, KernelStep, Interrupt

-----------------------------------------------------------------------------
(* Every step leaves exactly one task running *)

(* schedule() from states in which at most the caller runs *)
LEMMA ScheduleOne ==
    ASSUME NEW st \in States, schedule(st),
           \A t \in Slots : st[t] = "running" => t = task_running
    PROVE  OneRunning'
<1>1. sched_pick_next(st) \in Slots
  BY PickIn
<1>. QED
  BY <1>1 DEF schedule, OneRunning, States, TaskState

(* A call that blocks leaves one task running. *)
LEMMA BlockOne ==
    ASSUME TypeOK, NEW st \in States, NEW s \in TaskState, NEW at,
           Block(s, at, st),
           \A t \in Slots : st[t] = "running" => t = task_running
    PROVE  OneRunning'
<1>. DEFINE st2 == [st EXCEPT ![task_running] = s]
<1>1. st2 \in States /\ schedule(st2)
  BY StatesIn DEF Block
<1>2. \A t \in Slots : st2[t] = "running" => t = task_running
  BY DEF States
<1>. HIDE DEF st2
<1>. QED
  BY <1>1, <1>2, ScheduleOne

(* The blocking loops and mutex_lock *)
LEMMA LoopOne ==
    ASSUME TypeOK, NEW st \in States, NEW c, NEW tick,
           \A t \in Slots : st[t] = "running" <=> t = task_running,
           \/ task_wait(c, st)
           \/ task_sleep_until_tick(tick, st)
           \/ task_wait_key(st)
    PROVE  OneRunning'
<1>1. ASSUME NEW s \in {"wait", "sleeping", "key"}, NEW at,
             Block(s, at, st)
      PROVE  OneRunning'
  BY <1>1, BlockOne DEF TaskState
<1>2. Return(st) => OneRunning'
  BY DEF Return, OneRunning
<1>3. st[c] = "zombie" /\ Return([st EXCEPT ![c] = "unused"]) => OneRunning'
  BY DEF Return, OneRunning, States, TypeOK, SchedTypeOK
<1>. QED
  BY <1>1, <1>2, <1>3 DEF task_wait, task_sleep_until_tick, task_wait_key

(* mutex_lock leaves one task running. *)
LEMMA LockOne ==
    ASSUME TypeOK, NEW st \in States, NEW m,
           \A t \in Slots : st[t] = "running" <=> t = task_running,
           mutex_lock(m, st)
    PROVE  OneRunning'
<1>1. CASE LockWait(m, st)
  <2>. DEFINE st2 == [st EXCEPT ![task_running] = "blocked"]
  <2>1. st2 \in States /\ schedule(st2)
    BY <1>1, StatesIn DEF LockWait, TaskState
  <2>2. \A t \in Slots : st2[t] = "running" => t = task_running
    BY DEF States
  <2>. HIDE DEF st2
  <2>. QED
    BY <2>1, <2>2, ScheduleOne
<1>2. CASE LockDone(m, st)
  BY <1>2 DEF LockDone, OneRunning
<1>. QED
  BY <1>1, <1>2 DEF mutex_lock

(* Waking tasks that do not run *)
LEMMA WakeOne ==
    ASSUME OneRunning, NEW S, task_running \notin S, state' = Woken(S, state),
           task_running' = task_running
    PROVE  OneRunning'
BY DEF Woken, OneRunning

(* No heir of a mutex runs. *)
LEMMA HeirsBlocked ==
    ASSUME TypeOK, NEW ms, NEW st
    PROVE  \A h \in Heirs(ms, st) : h \in Slots /\ st[h] = "blocked"
                /\ \E m \in ms : wait_channel[h] = m /\ h = Heir(m, st)
BY HeirIn DEF Heirs

(* The slot of a new task was free. *)
LEMMA FreshSlot ==
    ASSUME FreeSlots # {}
    PROVE  Min(FreeSlots) \in Slots /\ state[Min(FreeSlots)] = "unused"
<1>1. FreeSlots \in SUBSET Nat
  BY DEF FreeSlots, Slots
<1>2. Min(FreeSlots) \in FreeSlots
  BY <1>1, MinIn
<1>. QED
  BY <1>2 DEF FreeSlots

(* task_spawn wakes a slot that was free. *)
LEMMA SpawnOne ==
    ASSUME TypeOK, OneRunning, NEW prio, NEW background, NEW shell,
           task_spawn(prio, background, shell)
    PROVE  OneRunning'
<1>1. FreeSlots # {} /\ task_running' = task_running
      /\ state' = Woken({Min(FreeSlots)}, state)
  BY DEF task_spawn, sched_wake
<1>2. task_running \notin {Min(FreeSlots)}
  BY <1>1, FreshSlot DEF OneRunning, TypeOK, SchedTypeOK
<1>. QED
  BY <1>1, <1>2, WakeOne

(* mutex_hand_over wakes tasks that were blocked. *)
LEMMA HandOverOne ==
    ASSUME TypeOK, OneRunning, NEW ms, NEW old, mutex_hand_over(ms, old),
           task_running' = task_running
    PROVE  OneRunning'
<1>1. task_running \notin Heirs(ms, state)
  BY HeirsBlocked DEF OneRunning, TypeOK, SchedTypeOK
<1>2. state' = Woken(Heirs(ms, state), state)
  BY DEF mutex_hand_over
<1>. QED
  BY <1>1, <1>2, WakeOne

(* task_exit leaves the task it switches to running. *)
LEMMA ExitOne ==
    ASSUME TypeOK, OneRunning, task_exit
    PROVE  OneRunning'
<1>. DEFINE t == task_running
            released == Woken(Heirs(Owned(t), state), state)
            wakes == {p \in Slots : /\ p = parent[t]
                                    /\ state[p] = "wait"
                                    /\ wait_pid[p] = t}
            st == [Woken(wakes, released) EXCEPT ![t] = "zombie"]
<1>1. state \in States
  BY DEF TypeOK, TableTypeOK, States
<1>2. released \in States /\ \A x \in Slots : released[x] = "running" => x = t
  BY <1>1 DEF Woken, States, TaskState, OneRunning
<1>3. schedule(st)
  BY DEF task_exit
<1>. HIDE DEF released
<1>4. st \in States /\ \A x \in Slots : st[x] = "running" => x = t
  BY <1>2 DEF Woken, States, TaskState
<1>. HIDE DEF st
<1>. QED
  BY <1>3, <1>4, ScheduleOne

(* No step leaves none or two tasks running. *)
LEMMA OneRunningStep ==
    ASSUME TypeOK, OneRunning, [Next]_vars
    PROVE  OneRunning'
<1>. USE DEF mutexVars, taskVars, schedVars
<1>1. /\ state \in States /\ Reaped \in States
      /\ \A t \in Slots : state[t] = "running" <=> t = task_running
      /\ \A t \in Slots : Reaped[t] = "running" <=> t = task_running
      /\ task_running \in Slots
  <2>1. state \in States /\ Reaped \in States /\ task_running \in Slots
    BY StatesIn DEF TypeOK, TableTypeOK, SchedTypeOK, States, TaskState
  <2>. QED
    BY <2>1 DEF OneRunning, Reaped
<1>2. UNCHANGED <<state, task_running>> => OneRunning'
  BY DEF OneRunning
<1>3. CASE SysRun \/ SysSpawn \/ InitStartsShell
  BY <1>3, SpawnOne DEF SysRun, SysSpawn, InitStartsShell
<1>4. CASE SysWait \/ SysSleep \/ SysGetchar \/ InitWaits
  BY <1>1, <1>4, LoopOne DEF SysWait, SysSleep, SysGetchar, InitWaits
<1>5. CASE SysWaitPeriod
  BY <1>1, <1>5, LoopOne DEF SysWaitPeriod, task_wait_period
<1>6. CASE WaitResumes \/ SleepResumes \/ KeyResumes
  BY <1>1, <1>6, LoopOne DEF WaitResumes, SleepResumes, KeyResumes
<1>7. CASE SysMutexLock
  BY <1>1, <1>7, LockOne DEF SysMutexLock
<1>8. CASE LockResumes
  BY <1>1, <1>8, LockOne DEF LockResumes
<1>9. CASE SysMutexUnlock \/ SysMutexClose
  BY <1>2, <1>9, HandOverOne
     DEF SysMutexUnlock, SysMutexClose, mutex_unlock, mutex_close
<1>10. CASE SysKill
  <2>1. PICK t \in Slots : task_kill({t})
    BY <1>10 DEF SysKill
  <2>. DEFINE S == {x \in {t} : state[x] \in {"sleeping", "key", "blocked"}}
  <2>2. state' = Woken(S, state) /\ task_running \notin S
        /\ task_running' = task_running
    BY <1>1, <1>10, <2>1 DEF SysKill, task_kill, sched_wake
  <2>. HIDE DEF S
  <2>. QED
    BY <2>2, WakeOne
<1>11. CASE SysPeriod \/ SysSetprio \/ SysSched \/ SysYield \/ SysOther
            \/ SysIgnoreCtrlC \/ MouseInterrupt
  BY <1>2, <1>11 DEF SysPeriod, SysSetprio, SysSched, SysYield, SysOther,
     SysIgnoreCtrlC, MouseInterrupt
<1>12. CASE SysMutexOpen
  BY <1>2, <1>12 DEF SysMutexOpen, mutex_open
<1>13. CASE Exit
  BY <1>13, ExitOne DEF Exit
<1>14. CASE ReturnToUser
  BY <1>1, <1>2, <1>14, ScheduleOne DEF ReturnToUser
<1>15. CASE IdleSchedules
  BY <1>1, <1>15, ScheduleOne DEF IdleSchedules
<1>16. CASE Resumed \/ IdleResumes
  BY <1>1, <1>16 DEF Resumed, IdleResumes, OneRunning
<1>17. CASE InitSleeps
  <2>1. "sleeping" \in TaskState /\ Block("sleeping", "stuck", Reaped)
    BY <1>17 DEF InitSleeps, TaskState
  <2>. QED
    BY <1>1, <2>1, BlockOne
<1>18. CASE IdleHalts
  BY <1>2, <1>18 DEF IdleHalts
<1>19. CASE TimerInterrupt
  BY <1>1, <1>19, WakeOne DEF TimerInterrupt, sched_tick, Due
<1>20. CASE KeyInterrupt
  BY <1>1, <1>20, WakeOne DEF KeyInterrupt, sched_wake, KeyWaiters
<1>21. CASE CtrlC
  BY <1>1, <1>21, WakeOne DEF CtrlC, sched_wake, KeyWaiters
<1>22. CASE UNCHANGED vars
  BY <1>2, <1>22 DEF vars, tableVars
<1>. QED
  BY <1>3, <1>4, <1>5, <1>6, <1>7, <1>8, <1>9, <1>10, <1>11, <1>12, <1>13,
     <1>14, <1>15, <1>16, <1>17, <1>18, <1>19, <1>20, <1>21, <1>22
     DEF Next, Syscall, KernelStep, Interrupt

-----------------------------------------------------------------------------
(* A killed task never stays in, or goes back to, a wait kill ends *)

Waits == {"sleeping", "key", "blocked"}

(* KilledIsAwake needs to know that init, whose sleep asks nobody whether it *)
(* was killed, cannot be.                                                    *)
KilledAwake == KilledIsAwake /\ ~ killed[InitThread]

(* What schedule() makes of the states it is called with *)
LEMMA ScheduleMoves ==
    ASSUME NEW st, schedule(st)
    PROVE  \A t \in Slots : \/ state'[t] = st[t]
                            \/ state'[t] \in {"running", "ready"}
BY DEF schedule

(* schedule() puts no killed task back into a wait. *)
LEMMA ScheduleAwake ==
    ASSUME KilledAwake, NEW st, schedule(st), killed' = killed,
           \A t \in Slots : killed[t] => st[t] \notin Waits
    PROVE  KilledAwake'
BY ScheduleMoves DEF KilledAwake, KilledIsAwake, Waits

(* A call may block the running task unless it is killed. *)
LEMMA PutAwake ==
    ASSUME KilledAwake, NEW st \in States, NEW s, killed' = killed,
           \A t \in Slots : killed[t] => st[t] \notin Waits,
           killed[task_running] => s \notin Waits,
           schedule([st EXCEPT ![task_running] = s])
    PROVE  KilledAwake'
<1>. DEFINE st2 == [st EXCEPT ![task_running] = s]
<1>1. \A t \in Slots : killed[t] => st2[t] \notin Waits
  BY DEF States
<1>. HIDE DEF st2
<1>. QED
  BY <1>1, ScheduleAwake DEF st2

(* The blocking loops of task.c ask for the kill first. *)
LEMMA LoopAwake ==
    ASSUME TypeOK, KilledAwake, NEW st \in States, NEW c, NEW tick,
           \A t \in Slots : killed[t] => st[t] \notin Waits,
           killed' = killed,
           \/ task_wait(c, st)
           \/ task_sleep_until_tick(tick, st)
           \/ task_wait_key(st)
    PROVE  KilledAwake'
<1>1. ASSUME NEW s, NEW at, Block(s, at, st),
             killed[task_running] => s \notin Waits
      PROVE  KilledAwake'
  BY <1>1, PutAwake DEF Block
<1>2. Return(st) => KilledAwake'
  BY DEF Return, KilledAwake, KilledIsAwake, Waits
<1>3. Return([st EXCEPT ![c] = "unused"]) => KilledAwake'
  BY DEF Return, KilledAwake, KilledIsAwake, Waits, States
<1>4. "wait" \notin Waits
  BY DEF Waits
<1>. QED
  BY <1>1, <1>2, <1>3, <1>4
     DEF task_wait, task_sleep_until_tick, task_wait_key

(* So does mutex_lock. *)
LEMMA LockAwake ==
    ASSUME TypeOK, KilledAwake, NEW st \in States, NEW m,
           \A t \in Slots : killed[t] => st[t] \notin Waits,
           killed' = killed, mutex_lock(m, st)
    PROVE  KilledAwake'
<1>1. CASE LockWait(m, st)
  BY <1>1, PutAwake DEF LockWait, LockBlocks
<1>2. CASE LockDone(m, st)
  BY <1>2 DEF LockDone, KilledAwake, KilledIsAwake, Waits
<1>. QED
  BY <1>1, <1>2 DEF mutex_lock

(* Waking only helps. *)
LEMMA WakeAwake ==
    ASSUME KilledAwake, NEW S, state' = Woken(S, state), killed' = killed
    PROVE  KilledAwake'
BY DEF Woken, KilledAwake, KilledIsAwake

(* Killing tasks and waking those of them that wait *)
LEMMA KillAwake ==
    ASSUME KilledAwake, NEW ts, NEW S, state' = Woken(S, state),
           {t \in ts : state[t] \in Waits} \subseteq S, InitThread \notin ts,
           killed' = [t \in Slots |-> t \in ts \/ killed[t]]
    PROVE  KilledAwake'
<1>1. InitThread \in Slots
  BY Constants
<1>. QED
  BY <1>1 DEF Woken, KilledAwake, KilledIsAwake, Waits

(* No step leaves a killed task in a wait kill ends. *)
LEMMA KilledAwakeStep ==
    ASSUME TypeOK, OneRunning, KilledAwake, [Next]_vars
    PROVE  KilledAwake'
<1>. USE DEF mutexVars, taskVars, schedVars
<1>1. /\ state \in States /\ Reaped \in States
      /\ \A t \in Slots : killed[t] => state[t] \notin Waits
      /\ \A t \in Slots : killed[t] => Reaped[t] \notin Waits
      /\ task_running \in Slots
  <2>1. state \in States /\ Reaped \in States /\ task_running \in Slots
    BY StatesIn DEF TypeOK, TableTypeOK, SchedTypeOK, States, TaskState
  <2>. QED
    BY <2>1 DEF KilledAwake, KilledIsAwake, Reaped, Waits
<1>2. UNCHANGED <<state, killed>> => KilledAwake'
  BY DEF KilledAwake, KilledIsAwake
<1>3. ASSUME NEW prio, NEW background, NEW shell,
             task_spawn(prio, background, shell)
      PROVE  KilledAwake'
  <2>1. FreeSlots # {} /\ state' = Woken({Min(FreeSlots)}, state)
        /\ killed' = [killed EXCEPT ![Min(FreeSlots)] = FALSE]
    BY <1>3 DEF task_spawn, sched_wake
  <2>. QED
    BY <2>1, Constants
       DEF Woken, KilledAwake, KilledIsAwake, TypeOK, TableTypeOK
<1>4. CASE SysRun \/ SysSpawn \/ InitStartsShell
  BY <1>3, <1>4 DEF SysRun, SysSpawn, InitStartsShell
<1>5. CASE SysWait \/ SysSleep \/ SysGetchar \/ InitWaits
  BY <1>1, <1>5, LoopAwake DEF SysWait, SysSleep, SysGetchar, InitWaits
<1>6. CASE SysWaitPeriod
  BY <1>1, <1>6, LoopAwake DEF SysWaitPeriod, task_wait_period
<1>7. CASE WaitResumes \/ SleepResumes \/ KeyResumes
  BY <1>1, <1>7, LoopAwake DEF WaitResumes, SleepResumes, KeyResumes
<1>8. CASE SysMutexLock
  BY <1>1, <1>8, LockAwake DEF SysMutexLock
<1>9. CASE LockResumes
  BY <1>1, <1>9, LockAwake DEF LockResumes
<1>10. CASE SysMutexUnlock \/ SysMutexClose
  BY <1>2, <1>10, WakeAwake DEF SysMutexUnlock, SysMutexClose, mutex_unlock,
     mutex_close, mutex_hand_over
<1>11. CASE SysKill
  <2>1. PICK t \in Slots : ~ IsKernel(t) /\ task_kill({t})
    BY <1>11 DEF SysKill
  <2>. DEFINE S == {x \in {t} : state[x] \in {"sleeping", "key", "blocked"}}
  <2>2. state' = Woken(S, state)
        /\ killed' = [x \in Slots |-> x \in {t} \/ killed[x]]
    BY <2>1 DEF task_kill, sched_wake
  <2>3. InitThread \notin {t} /\ {x \in {t} : state[x] \in Waits} \subseteq S
    BY <2>1 DEF IsKernel, Waits
  <2>. HIDE DEF S
  <2>. QED
    BY <2>2, <2>3, KillAwake
<1>12. CASE SysPeriod \/ SysSetprio \/ SysSched \/ SysYield \/ SysOther
            \/ SysIgnoreCtrlC \/ MouseInterrupt
  BY <1>2, <1>12 DEF SysPeriod, SysSetprio, SysSched, SysYield, SysOther,
     SysIgnoreCtrlC, MouseInterrupt
<1>13. CASE SysMutexOpen
  BY <1>2, <1>13 DEF SysMutexOpen, mutex_open
<1>14. CASE Exit
  <2>. DEFINE t == task_running
              released == Woken(Heirs(Owned(t), state), state)
              wakes == {p \in Slots : /\ p = parent[t]
                                      /\ state[p] = "wait"
                                      /\ wait_pid[p] = t}
              st == [Woken(wakes, released) EXCEPT ![t] = "zombie"]
  <2>1. schedule(st) /\ killed' = killed
    BY <1>14 DEF Exit, task_exit
  <2>2. \A x \in Slots : killed[x] => st[x] \notin Waits
    BY <1>1 DEF Woken, Waits
  <2>. HIDE DEF st
  <2>. QED
    BY <2>1, <2>2, ScheduleAwake
<1>15. CASE ReturnToUser
  BY <1>1, <1>2, <1>15, ScheduleAwake DEF ReturnToUser
<1>16. CASE IdleSchedules
  BY <1>1, <1>16, ScheduleAwake DEF IdleSchedules
<1>17. CASE Resumed \/ IdleResumes
  BY <1>1, <1>17 DEF Resumed, IdleResumes, KilledAwake, KilledIsAwake, Waits
<1>18. CASE InitSleeps
  <2>1. /\ schedule([Reaped EXCEPT ![task_running] = "sleeping"])
        /\ killed' = killed /\ ~ killed[task_running]
    BY <1>18 DEF InitSleeps, Block, KilledAwake
  <2>. QED
    BY <1>1, <2>1, PutAwake
<1>19. CASE IdleHalts
  BY <1>2, <1>19 DEF IdleHalts
<1>20. CASE TimerInterrupt
  BY <1>20, WakeAwake DEF TimerInterrupt, sched_tick
<1>21. CASE KeyInterrupt
  BY <1>21, WakeAwake DEF KeyInterrupt, sched_wake
<1>22. CASE CtrlC
  <2>. DEFINE S == KeyWaiters \cup
                    {t \in ForegroundTasks :
                        state[t] \in {"sleeping", "key", "blocked"}}
  <2>1. /\ state' = Woken(S, state)
        /\ killed' = [t \in Slots |-> t \in ForegroundTasks \/ killed[t]]
    BY <1>22 DEF CtrlC, sched_wake
  <2>2. /\ {x \in ForegroundTasks : state[x] \in Waits} \subseteq S
        /\ InitThread \notin ForegroundTasks
    BY DEF ForegroundTasks, IsKernel, Waits
  <2>. HIDE DEF S
  <2>. QED
    BY <2>1, <2>2, KillAwake
<1>23. CASE UNCHANGED vars
  BY <1>2, <1>23 DEF vars, tableVars
<1>. QED
  BY <1>4, <1>5, <1>6, <1>7, <1>8, <1>9, <1>10, <1>11, <1>12, <1>13,
     <1>14, <1>15, <1>16, <1>17, <1>18, <1>19, <1>20, <1>21, <1>22, <1>23
     DEF Next, Syscall, KernelStep, Interrupt

-----------------------------------------------------------------------------
(* The steps that leave the mutexes alone *)

Openers(m) == {t \in Slots : m \in mutexes[t]}

Counted == \A m \in MutexIds : refs[m] = Cardinality(Openers(m))

DeadHoldNothing == \A t \in Slots : ~ Live(t) => mutexes[t] = {}

OwnerOpens ==
    \A m \in MutexIds : owner[m] # NULL => m \in mutexes[owner[m]]

MutexInv == /\ LockPoint /\ Counted /\ DeadHoldNothing /\ OwnerOpens
            /\ BlockedHasOwner

(* No mutex changes, nobody ends and nobody starts to wait for one. *)
Calm(st) == \A t \in Slots : /\ Live(t) => st[t] \notin {"unused", "zombie"}
                             /\ st[t] = "blocked" => state[t] = "blocked"

KeepsLocks ==
    \A t \in Slots : pc'[t] = "lock" =>
        pc[t] = "lock" /\ wait_mutex'[t] = wait_mutex[t]

Quiet == /\ UNCHANGED <<refs, owner, mutexes>>
         /\ Calm(state')
         /\ KeepsLocks
         /\ \A t \in Slots : state[t] = "blocked" =>
                /\ wait_mutex'[t] = wait_mutex[t]
                /\ wait_channel'[t] = wait_channel[t]

(* A step that leaves the mutexes alone keeps their invariant. *)
LEMMA QuietKeeps ==
    ASSUME TypeOK, TypeOK', MutexInv, Quiet
    PROVE  MutexInv'
<1>1. LockPoint'
  BY DEF MutexInv, LockPoint, Quiet, KeepsLocks
<1>2. Counted'
  BY DEF MutexInv, Counted, Openers, Quiet
<1>3. DeadHoldNothing'
  BY DEF MutexInv, DeadHoldNothing, Quiet, Calm, Live
<1>4. OwnerOpens'
  BY DEF MutexInv, OwnerOpens, Quiet
<1>5. BlockedHasOwner'
  BY DEF MutexInv, BlockedHasOwner, Quiet, Calm
<1>. QED
  BY <1>1, <1>2, <1>3, <1>4, <1>5 DEF MutexInv

(* schedule() ends nobody and blocks nobody on a mutex. *)
LEMMA ScheduleCalm ==
    ASSUME NEW st, schedule(st), Calm(st)
    PROVE  Calm(state')
BY ScheduleMoves DEF Calm

(* Nor does a call that blocks elsewhere. *)
LEMMA BlockCalm ==
    ASSUME TypeOK, NEW st \in States, Calm(st), NEW s, NEW at,
           s \notin {"unused", "zombie", "blocked"}, at # "lock",
           Block(s, at, st), wait_mutex' = wait_mutex
    PROVE  Calm(state') /\ KeepsLocks
<1>. DEFINE st2 == [st EXCEPT ![task_running] = s]
<1>1. Calm(st2) /\ schedule(st2)
  BY DEF Calm, States, Block
<1>2. KeepsLocks
  BY DEF Block, KeepsLocks, TypeOK, TableTypeOK
<1>. HIDE DEF st2
<1>. QED
  BY <1>1, <1>2, ScheduleCalm

(* Nor do the blocking loops of task.c. *)
LEMMA LoopCalm ==
    ASSUME TypeOK, NEW st \in States, Calm(st), NEW c, NEW tick,
           \A t \in Slots : st[t] = "zombie" => state[t] = "zombie",
           wait_mutex' = wait_mutex,
           \/ task_wait(c, st)
           \/ task_sleep_until_tick(tick, st)
           \/ task_wait_key(st)
    PROVE  Calm(state') /\ KeepsLocks
<1>1. Return(st) => Calm(state') /\ KeepsLocks
  BY DEF Return, Calm, KeepsLocks, TypeOK, TableTypeOK
<1>2. st[c] = "zombie" /\ Return([st EXCEPT ![c] = "unused"])
        => Calm(state') /\ KeepsLocks
  BY DEF Return, Calm, KeepsLocks, TypeOK, TableTypeOK, States, Live
<1>3. ASSUME NEW s \in {"wait", "sleeping", "key"},
             NEW at \in {"wait", "sleep", "key"}, Block(s, at, st)
      PROVE  Calm(state') /\ KeepsLocks
  BY <1>3, BlockCalm
<1>. QED
  BY <1>1, <1>2, <1>3 DEF task_wait, task_sleep_until_tick, task_wait_key

(* Nor does waking tasks. *)
LEMMA WakeCalm ==
    ASSUME TypeOK, NEW S, state' = Woken(S, state)
    PROVE  Calm(state')
BY DEF Calm, Woken, Live, TypeOK, TableTypeOK

(* A new task has no mutex open, as the slot it takes had none. *)
LEMMA SpawnQuiet ==
    ASSUME TypeOK, DeadHoldNothing, NEW prio, NEW background, NEW shell,
           task_spawn(prio, background, shell)
    PROVE  Quiet
<1>. DEFINE t == Min(FreeSlots)
<1>1. t \in Slots /\ state[t] = "unused"
  BY FreshSlot DEF task_spawn
<1>2. mutexes[t] = {}
  BY <1>1 DEF DeadHoldNothing, Live
<1>3. /\ state' = Woken({t}, state)
      /\ UNCHANGED <<refs, owner>>
      /\ mutexes' = [mutexes EXCEPT ![t] = {}]
      /\ wait_mutex' = [wait_mutex EXCEPT ![t] = NULL]
      /\ wait_channel' = [wait_channel EXCEPT ![t] = NULL]
      /\ pc' = [pc EXCEPT ![t] = "user",
                   ![task_running] = IF task_running = InitThread
                                     THEN "init" ELSE "return"]
  BY DEF task_spawn, sched_wake
<1>. HIDE DEF t
<1>4. mutexes' = mutexes
  BY <1>1, <1>2, <1>3 DEF TypeOK, MutexTypeOK
<1>5. Calm(state')
  BY <1>3, WakeCalm
<1>6. KeepsLocks
  BY <1>1, <1>3 DEF KeepsLocks, TypeOK, TableTypeOK, MutexTypeOK
<1>7. \A x \in Slots : state[x] = "blocked" =>
            wait_mutex'[x] = wait_mutex[x] /\ wait_channel'[x] = wait_channel[x]
  BY <1>1, <1>3 DEF TypeOK, MutexTypeOK
<1>. QED
  BY <1>3, <1>4, <1>5, <1>6, <1>7 DEF Quiet

(* The actions that do not touch the mutexes *)
QuietAction ==
    \/ SysRun \/ SysSpawn \/ SysWait \/ SysKill \/ SysSleep \/ SysGetchar
    \/ SysPeriod \/ SysWaitPeriod \/ SysSetprio \/ SysSched \/ SysYield
    \/ SysIgnoreCtrlC \/ SysOther \/ ReturnToUser \/ Resumed \/ WaitResumes \/ SleepResumes
    \/ KeyResumes \/ InitStartsShell \/ InitWaits \/ InitSleeps
    \/ IdleHalts \/ IdleSchedules \/ IdleResumes
    \/ TimerInterrupt \/ KeyInterrupt \/ CtrlC \/ MouseInterrupt

(* Those actions indeed leave the mutexes alone. *)
LEMMA QuietStep ==
    ASSUME TypeOK, DeadHoldNothing, QuietAction
    PROVE  Quiet
<1>. USE DEF mutexVars, taskVars, schedVars
<1>1. /\ state \in States /\ Reaped \in States
      /\ Calm(state) /\ Calm(Reaped)
      /\ \A t \in Slots : Reaped[t] = "zombie" => state[t] = "zombie"
  <2>1. state \in States /\ Reaped \in States
    BY StatesIn DEF TypeOK, TableTypeOK, States, TaskState
  <2>. QED
    BY <2>1 DEF Calm, Reaped, Live, States
<1>2. ASSUME UNCHANGED mutexVars, Calm(state'), KeepsLocks
      PROVE  Quiet
  BY <1>2 DEF Quiet
<1>3. ASSUME UNCHANGED mutexVars, NEW p, p # "lock",
             pc' = [pc EXCEPT ![task_running] = p]
      PROVE  KeepsLocks
  BY <1>3 DEF KeepsLocks, TypeOK, TableTypeOK
<1>4. ASSUME UNCHANGED mutexVars, Returns
      PROVE  KeepsLocks
  BY <1>3, <1>4 DEF Returns
<1>5. ASSUME UNCHANGED mutexVars, Interrupted
      PROVE  KeepsLocks
  BY <1>5 DEF Interrupted, KeepsLocks, TypeOK, TableTypeOK
<1>6. state' = state \/ state' = Reaped => Calm(state')
  BY <1>1
<1>7. CASE SysRun \/ SysSpawn \/ InitStartsShell
  BY <1>7, SpawnQuiet DEF SysRun, SysSpawn, InitStartsShell
<1>8. CASE SysWait \/ SysSleep \/ SysGetchar \/ InitWaits
  BY <1>1, <1>2, <1>8, LoopCalm DEF SysWait, SysSleep, SysGetchar, InitWaits
<1>9. CASE SysWaitPeriod
  BY <1>1, <1>2, <1>9, LoopCalm DEF SysWaitPeriod, task_wait_period
<1>10. CASE WaitResumes \/ SleepResumes \/ KeyResumes
  BY <1>1, <1>2, <1>10, LoopCalm DEF WaitResumes, SleepResumes, KeyResumes
<1>11. CASE SysKill
  BY <1>2, <1>4, <1>11, WakeCalm DEF SysKill, task_kill, sched_wake
<1>12. CASE SysPeriod \/ SysSetprio \/ SysSched \/ SysYield \/ SysOther
            \/ SysIgnoreCtrlC
  BY <1>2, <1>4, <1>6, <1>12
     DEF SysPeriod, SysSetprio, SysSched, SysYield, SysOther, SysIgnoreCtrlC
<1>13. CASE ReturnToUser
  <2>1. KeepsLocks
    BY <1>13 DEF ReturnToUser, KeepsLocks, TypeOK, TableTypeOK
  <2>2. Calm(state')
    BY <1>1, <1>13, ScheduleCalm DEF ReturnToUser
  <2>. QED
    BY <1>2, <1>13, <2>1, <2>2 DEF ReturnToUser
<1>14. CASE Resumed
  BY <1>2, <1>3, <1>6, <1>14 DEF Resumed
<1>15. CASE InitSleeps
  BY <1>1, <1>2, <1>15, BlockCalm DEF InitSleeps
<1>16. CASE IdleHalts
  <2>1. KeepsLocks
    BY <1>16 DEF IdleHalts, KeepsLocks, TypeOK, TableTypeOK
  <2>. QED
    BY <1>2, <1>6, <1>16, <2>1 DEF IdleHalts
<1>17. CASE IdleSchedules
  <2>1. KeepsLocks
    BY <1>17 DEF IdleSchedules, KeepsLocks, TypeOK, TableTypeOK
  <2>2. Calm(state')
    BY <1>1, <1>17, ScheduleCalm DEF IdleSchedules
  <2>. QED
    BY <1>2, <1>17, <2>1, <2>2 DEF IdleSchedules
<1>18. CASE IdleResumes
  <2>1. KeepsLocks
    BY <1>18 DEF IdleResumes, KeepsLocks, TypeOK, TableTypeOK
  <2>. QED
    BY <1>2, <1>6, <1>18, <2>1 DEF IdleResumes
<1>19. CASE TimerInterrupt
  BY <1>2, <1>5, <1>19, WakeCalm DEF TimerInterrupt, sched_tick
<1>20. CASE KeyInterrupt
  BY <1>2, <1>5, <1>20, WakeCalm DEF KeyInterrupt, sched_wake
<1>21. CASE CtrlC
  BY <1>2, <1>5, <1>21, WakeCalm DEF CtrlC, sched_wake
<1>22. CASE MouseInterrupt
  BY <1>2, <1>5, <1>6, <1>22 DEF MouseInterrupt
<1>. QED
  BY <1>7, <1>8, <1>9, <1>10, <1>11, <1>12, <1>13, <1>14, <1>15, <1>16,
     <1>17, <1>18, <1>19, <1>20, <1>21, <1>22 DEF QuietAction

-----------------------------------------------------------------------------
(* The steps that change the mutexes *)

(* The task table is finite. *)
LEMMA SlotsFinite == IsFiniteSet(Slots)
<1>1. 0 \in Int /\ MAX_TASKS - 1 \in Int
  OBVIOUS
<1>. QED
  BY <1>1, FS_Interval DEF Slots

(* A mutex somebody has open is counted. *)
LEMMA CountedOpen ==
    ASSUME TypeOK, Counted
    PROVE  OpenCounted
<1>. SUFFICES ASSUME NEW t \in Slots, NEW m \in mutexes[t]
              PROVE  refs[m] > 0
  BY DEF OpenCounted
<1>1. m \in MutexIds /\ t \in Openers(m)
  BY DEF Openers, TypeOK, MutexTypeOK
<1>3. IsFiniteSet(Openers(m))
  BY SlotsFinite, FS_Subset DEF Openers
<1>4. Cardinality(Openers(m)) \in Nat /\ Cardinality(Openers(m)) # 0
  BY <1>1, <1>3, FS_CardinalityType, FS_EmptySet
<1>. QED
  BY <1>1, <1>4 DEF Counted

(* Opening by one task raises the count by one. *)
LEMMA CountAdd ==
    ASSUME TypeOK, NEW t \in Slots, NEW m \in MutexIds, m \notin mutexes[t]
    PROVE  Cardinality(Openers(m) \cup {t}) = Cardinality(Openers(m)) + 1
<1>1. IsFiniteSet(Openers(m)) /\ t \notin Openers(m)
  BY SlotsFinite, FS_Subset DEF Openers
<1>. QED
  BY <1>1, FS_AddElement

(* Closing by one task lowers the count by one. *)
LEMMA CountRemove ==
    ASSUME TypeOK, NEW t \in Slots, NEW m \in mutexes[t]
    PROVE  Cardinality(Openers(m) \ {t}) = Cardinality(Openers(m)) - 1
<1>1. IsFiniteSet(Openers(m)) /\ t \in Openers(m)
  BY SlotsFinite, FS_Subset DEF Openers
<1>. QED
  BY <1>1, FS_RemoveElement

(* mutex_open *)
LEMMA OpenStep ==
    ASSUME TypeOK, OneRunning, MutexInv, SysMutexOpen
    PROVE  MutexInv'
<1>. USE DEF MutexInv
<1>1. PICK n \in MutexNames, inh \in InheritFlags : mutex_open(n, inh)
  BY DEF SysMutexOpen
<1>. DEFINE r == task_running
            create == FoundByName(n) = {}
            id == IF create THEN Min(FreeMutexes) ELSE Min(FoundByName(n))
            opens == id \notin mutexes[r]
<1>2. id \in MutexIds /\ (create => refs[id] = 0)
  <2>1. FoundByName(n) \in SUBSET Nat /\ FreeMutexes \in SUBSET Nat
    BY DEF FoundByName, FreeMutexes, MutexIds
  <2>2. FoundByName(n) # {} \/ FreeMutexes # {}
    BY <1>1 DEF mutex_open
  <2>3. id \in IF create THEN FreeMutexes ELSE FoundByName(n)
    BY <2>1, <2>2, MinIn
  <2>. QED
    BY <2>3 DEF FoundByName, FreeMutexes
<1>3. /\ owner' = [owner EXCEPT ![id] = IF create THEN NULL ELSE @]
      /\ refs' = [refs EXCEPT ![id] = IF opens THEN @ + 1 ELSE @]
      /\ mutexes' = [mutexes EXCEPT ![r] = @ \cup {id}]
      /\ UNCHANGED <<wait_mutex, wait_channel, state>>
      /\ pc' = [pc EXCEPT ![r] = "return"]
  BY <1>1 DEF mutex_open, SysMutexOpen, Returns
<1>4. OpenCounted /\ r \in Slots /\ Live(r)
  BY CountedOpen DEF TypeOK, SchedTypeOK, OneRunning, Live
<1>. HIDE DEF id, create, r
<1>5. \A t \in Slots : mutexes[t] \subseteq mutexes'[t]
  BY <1>3, <1>4 DEF TypeOK, MutexTypeOK
<1>6. LockPoint'
  BY <1>3, <1>4, <1>5 DEF LockPoint, TypeOK, TableTypeOK
<1>7. Counted'
  <2>. SUFFICES ASSUME NEW m \in MutexIds
                PROVE  refs'[m] = Cardinality(Openers(m)')
    BY DEF Counted
  <2>1. CASE m = id /\ opens
    <3>1. Openers(m)' = Openers(m) \cup {r}
      BY <1>3, <1>4, <2>1 DEF Openers, TypeOK, MutexTypeOK
    <3>2. refs'[m] = refs[m] + 1
      BY <1>3, <2>1 DEF TypeOK, MutexTypeOK
    <3>3. Cardinality(Openers(m) \cup {r}) = Cardinality(Openers(m)) + 1
      BY <1>4, <2>1, CountAdd
    <3>. QED
      BY <3>1, <3>2, <3>3 DEF Counted
  <2>2. CASE ~ (m = id /\ opens)
    <3>1. Openers(m)' = Openers(m)
      BY <1>3, <1>4, <2>2 DEF Openers, TypeOK, MutexTypeOK
    <3>2. refs'[m] = refs[m]
      BY <1>3, <2>2 DEF TypeOK, MutexTypeOK
    <3>. QED
      BY <3>1, <3>2 DEF Counted
  <2>. QED
    BY <2>1, <2>2
<1>8. DeadHoldNothing'
  BY <1>3, <1>4 DEF DeadHoldNothing, Live, TypeOK, MutexTypeOK
<1>9. OwnerOpens'
  BY <1>2, <1>3, <1>5 DEF OwnerOpens, TypeOK, MutexTypeOK
<1>10. BlockedHasOwner'
  <2>1. \A t \in Slots : state[t] = "blocked" =>
            wait_channel[t] \in MutexIds /\ refs[wait_channel[t]] > 0
    BY <1>4 DEF BlockedHasOwner, OpenCounted, TypeOK, MutexTypeOK
  <2>2. \A m \in MutexIds : refs[m] > 0 => owner'[m] = owner[m]
    BY <1>2, <1>3 DEF TypeOK, MutexTypeOK
  <2>. QED
    BY <1>3, <1>5, <2>1, <2>2 DEF BlockedHasOwner
<1>. QED
  BY <1>6, <1>7, <1>8, <1>9, <1>10

(* mutex_lock of a mutex the running task has open *)
LEMMA LockStep ==
    ASSUME TypeOK, OneRunning, MutexInv, NEW st \in States, Calm(st),
           NEW m \in mutexes[task_running], mutex_lock(m, st)
    PROVE  MutexInv'
<1>. USE DEF MutexInv
<1>. DEFINE r == task_running
<1>1. r \in Slots /\ Live(r) /\ m \in MutexIds /\ UNCHANGED <<refs, mutexes>>
  BY DEF TypeOK, SchedTypeOK, MutexTypeOK, OneRunning, Live, mutex_lock
<1>2. Counted'
  BY <1>1 DEF Counted, Openers
<1>3. CASE LockWait(m, st)
  <2>. DEFINE st2 == [st EXCEPT ![r] = "blocked"]
  <2>1. /\ wait_mutex' = [wait_mutex EXCEPT ![r] = m]
        /\ wait_channel' = [wait_channel EXCEPT ![r] = m]
        /\ pc' = [pc EXCEPT ![r] = "lock"]
        /\ owner' = owner /\ owner[m] \notin {NULL, r}
        /\ schedule(st2)
    BY <1>3 DEF LockWait, LockBlocks
  <2>2. \A t \in Slots : /\ Live(t) => st2[t] \notin {"unused", "zombie"}
                         /\ st2[t] = "blocked" => t = r \/ state[t] = "blocked"
    BY DEF Calm, States
  <2>. HIDE DEF st2
  <2>3. \A t \in Slots : /\ Live(t) => state'[t] \notin {"unused", "zombie"}
                         /\ state'[t] = "blocked" => t = r \/ state[t] = "blocked"
    BY <2>1, <2>2, ScheduleMoves
  <2>4. LockPoint'
    BY <1>1, <2>1 DEF LockPoint, TypeOK, TableTypeOK, MutexTypeOK
  <2>5. DeadHoldNothing'
    BY <1>1, <2>3 DEF DeadHoldNothing, Live
  <2>6. OwnerOpens'
    BY <1>1, <2>1 DEF OwnerOpens
  <2>7. BlockedHasOwner'
    BY <1>1, <2>1, <2>3 DEF BlockedHasOwner, TypeOK, MutexTypeOK
  <2>. QED
    BY <1>2, <2>4, <2>5, <2>6, <2>7
<1>4. CASE LockDone(m, st)
  <2>1. /\ wait_mutex' = [wait_mutex EXCEPT ![r] = NULL]
        /\ wait_channel' = [wait_channel EXCEPT ![r] = NULL]
        /\ pc' = [pc EXCEPT ![r] = "return"]
        /\ owner' = IF owner[m] = NULL THEN [owner EXCEPT ![m] = r] ELSE owner
        /\ state' = st
    BY <1>4 DEF LockDone
  <2>2. \A t \in Slots : /\ Live(t) => state'[t] \notin {"unused", "zombie"}
                         /\ state'[t] = "blocked" => t # r /\ state[t] = "blocked"
    BY <1>1, <2>1 DEF Calm, OneRunning
  <2>3. LockPoint'
    BY <1>1, <2>1 DEF LockPoint, TypeOK, TableTypeOK, MutexTypeOK
  <2>4. DeadHoldNothing'
    BY <1>1, <2>2 DEF DeadHoldNothing, Live
  <2>5. OwnerOpens'
    BY <1>1, <2>1 DEF OwnerOpens, TypeOK, MutexTypeOK
  <2>6. BlockedHasOwner'
    BY <1>1, <2>1, <2>2 DEF BlockedHasOwner, TypeOK, MutexTypeOK
  <2>. QED
    BY <1>2, <2>3, <2>4, <2>5, <2>6
<1>. QED
  BY <1>3, <1>4 DEF mutex_lock

(* Handing over mutexes of the running task: the heirs have them open, and *)
(* whoever stays blocked has a new owner to wait for.                      *)
LEMMA HandOverKeeps ==
    ASSUME TypeOK, OneRunning, MutexInv, NEW ms \in SUBSET MutexIds
    PROVE  LET own == OwnersAfter(ms, state)
               st == Woken(Heirs(ms, state), state)
           IN  /\ \A m \in MutexIds : own[m] # NULL => m \in mutexes[own[m]]
               /\ \A m \in ms : own[m] # task_running
               /\ \A t \in Slots : st[t] = "blocked" =>
                    /\ state[t] = "blocked"
                    /\ own[wait_channel[t]] \notin {NULL, t}
<1>. USE DEF MutexInv
<1>. DEFINE own == OwnersAfter(ms, state)
            st == Woken(Heirs(ms, state), state)
            W(m) == {t \in Slots : state[t] = "blocked" /\ wait_channel[t] = m}
<1>1. \A m \in MutexIds : own[m] = IF m \in ms THEN Heir(m, state) ELSE owner[m]
  BY DEF OwnersAfter
<1>2. \A m \in ms : IF W(m) = {} THEN Heir(m, state) = NULL
                    ELSE Heir(m, state) \in W(m)
  BY HeirIn
<1>3. task_running \in Slots /\ state[task_running] = "running"
  BY DEF TypeOK, SchedTypeOK, OneRunning
<1>. HIDE DEF own
<1>4. \A m \in MutexIds : own[m] # NULL => m \in mutexes[own[m]]
  BY <1>1, <1>2 DEF OwnerOpens, BlockedHasOwner
<1>5. \A m \in ms : own[m] # task_running
  BY <1>1, <1>2, <1>3, Constants
<1>6. \A t \in Slots : st[t] = "blocked" =>
            state[t] = "blocked" /\ t \notin Heirs(ms, state)
  BY DEF Woken
<1>7. ASSUME NEW t \in Slots, state[t] = "blocked", t \notin Heirs(ms, state)
      PROVE  own[wait_channel[t]] \notin {NULL, t}
  <2>1. wait_channel[t] \in MutexIds
    BY <1>7 DEF BlockedHasOwner, TypeOK, MutexTypeOK
  <2>2. CASE wait_channel[t] \in ms
    <3>1. t \in W(wait_channel[t])
      BY <1>7
    <3>2. Heir(wait_channel[t], state) \in Slots
      BY <1>2, <2>2, <3>1
    <3>3. Heir(wait_channel[t], state) # t
      BY <1>7, <2>2, <3>2, Constants DEF Heirs
    <3>. QED
      BY <1>1, <2>1, <2>2, <3>2, <3>3, Constants
  <2>3. CASE wait_channel[t] \notin ms
    BY <1>1, <1>7, <2>1, <2>3 DEF BlockedHasOwner
  <2>. QED
    BY <2>2, <2>3
<1>. HIDE DEF st
<1>8. \A t \in Slots : st[t] = "blocked" =>
            state[t] = "blocked" /\ own[wait_channel[t]] \notin {NULL, t}
  BY <1>6, <1>7
<1>. QED
  BY <1>4, <1>5, <1>8 DEF own, st

(* mutex_unlock *)
LEMMA UnlockStep ==
    ASSUME TypeOK, OneRunning, MutexInv, SysMutexUnlock
    PROVE  MutexInv'
<1>. USE DEF MutexInv
<1>1. PICK m \in MutexIds : mutex_unlock(m)
  BY DEF SysMutexUnlock
<1>. DEFINE own == OwnersAfter({m}, state)
            st == Woken(Heirs({m}, state), state)
<1>2. /\ owner' = own /\ state' = st
      /\ UNCHANGED <<refs, mutexes, wait_mutex, wait_channel>>
      /\ pc' = [pc EXCEPT ![task_running] = "return"]
  BY <1>1 DEF mutex_unlock, mutex_hand_over, SysMutexUnlock, Returns
<1>3. /\ \A x \in MutexIds : own[x] # NULL => x \in mutexes[own[x]]
      /\ \A t \in Slots : st[t] = "blocked" =>
            state[t] = "blocked" /\ own[wait_channel[t]] \notin {NULL, t}
  BY HandOverKeeps
<1>. HIDE DEF own
<1>4. Calm(state')
  BY <1>2, WakeCalm
<1>. HIDE DEF st
<1>5. LockPoint'
  BY <1>2 DEF LockPoint, TypeOK, TableTypeOK
<1>6. Counted'
  BY <1>2 DEF Counted, Openers
<1>7. DeadHoldNothing'
  BY <1>2, <1>4 DEF DeadHoldNothing, Calm, Live
<1>8. OwnerOpens'
  BY <1>2, <1>3 DEF OwnerOpens
<1>9. BlockedHasOwner'
  BY <1>2, <1>3 DEF BlockedHasOwner
<1>. QED
  BY <1>5, <1>6, <1>7, <1>8, <1>9

(* What mutex_close and task_exit forget is no longer counted. *)
LEMMA ForgetCounted ==
    ASSUME TypeOK, Counted, NEW t \in Slots, NEW ms \in SUBSET mutexes[t],
           ForgetMutexes(t, ms)
    PROVE  Counted'
<1>. SUFFICES ASSUME NEW m \in MutexIds
              PROVE  refs'[m] = Cardinality(Openers(m)')
  BY DEF Counted
<1>1. CASE m \in ms
  <2>1. Openers(m)' = Openers(m) \ {t}
    BY <1>1 DEF Openers, ForgetMutexes, TypeOK, MutexTypeOK
  <2>2. refs'[m] = refs[m] - 1
    BY <1>1 DEF ForgetMutexes
  <2>3. Cardinality(Openers(m) \ {t}) = Cardinality(Openers(m)) - 1
    BY <1>1, CountRemove
  <2>. QED
    BY <2>1, <2>2, <2>3 DEF Counted
<1>2. CASE m \notin ms
  <2>1. Openers(m)' = Openers(m)
    BY <1>2 DEF Openers, ForgetMutexes, TypeOK, MutexTypeOK
  <2>2. refs'[m] = refs[m]
    BY <1>2 DEF ForgetMutexes
  <2>. QED
    BY <2>1, <2>2 DEF Counted
<1>. QED
  BY <1>1, <1>2

(* mutex_close *)
LEMMA CloseStep ==
    ASSUME TypeOK, OneRunning, MutexInv, SysMutexClose
    PROVE  MutexInv'
<1>. USE DEF MutexInv
<1>1. PICK m \in MutexIds : mutex_close(m)
  BY DEF SysMutexClose
<1>. DEFINE r == task_running
            own == OwnersAfter({m}, state)
            st == Woken(Heirs({m}, state), state)
<1>2. /\ UNCHANGED <<wait_mutex, wait_channel>>
      /\ pc' = [pc EXCEPT ![r] = "return"]
      /\ ForgetMutexes(r, {m})
      /\ m \in mutexes[r]
      /\ \/ owner[m] # r /\ UNCHANGED <<owner, state>>
         \/ owner[m] = r /\ owner' = own /\ state' = st
  BY <1>1 DEF mutex_close, mutex_get, mutex_hand_over, SysMutexClose, Returns
<1>3. /\ r \in Slots /\ pc[r] = "user" /\ state[r] = "running"
      /\ mutexes' = [mutexes EXCEPT ![r] = @ \ {m}]
  BY <1>2 DEF TypeOK, SchedTypeOK, OneRunning, ForgetMutexes, SysMutexClose,
     Calls
<1>4. /\ \A x \in MutexIds : own[x] # NULL => x \in mutexes[own[x]]
      /\ \A x \in {m} : own[x] # r
      /\ \A t \in Slots : st[t] = "blocked" =>
            state[t] = "blocked" /\ own[wait_channel[t]] \notin {NULL, t}
  BY HandOverKeeps
<1>5. own \in [MutexIds -> Slots \cup {NULL}]
  BY OwnersType
<1>. HIDE DEF own
<1>6. Calm(state')
  <2>1. state' = st \/ state' = Woken({}, state)
    BY <1>2 DEF Woken, TypeOK, TableTypeOK
  <2>. QED
    BY <2>1, WakeCalm
<1>. HIDE DEF st
<1>7. LockPoint'
  BY <1>2, <1>3 DEF LockPoint, TypeOK, TableTypeOK, MutexTypeOK
<1>8. Counted'
  BY <1>2, <1>3, ForgetCounted
<1>9. DeadHoldNothing'
  BY <1>3, <1>6 DEF DeadHoldNothing, Calm, Live, TypeOK, MutexTypeOK
<1>10. OwnerOpens'
  <2>1. CASE owner[m] # r /\ UNCHANGED <<owner, state>>
    BY <1>3, <2>1 DEF OwnerOpens, TypeOK, MutexTypeOK
  <2>2. CASE owner[m] = r /\ owner' = own
    BY <1>3, <1>4, <1>5, <2>2 DEF OwnerOpens, TypeOK, MutexTypeOK
  <2>. QED
    BY <1>2, <2>1, <2>2
<1>11. BlockedHasOwner'
  <2>1. \A t \in Slots : state'[t] = "blocked" =>
            /\ state[t] = "blocked" /\ t # r
            /\ owner'[wait_channel[t]] \notin {NULL, t}
    BY <1>2, <1>3, <1>4 DEF BlockedHasOwner
  <2>. QED
    BY <1>2, <1>3, <2>1 DEF BlockedHasOwner, TypeOK, MutexTypeOK
<1>. QED
  BY <1>7, <1>8, <1>9, <1>10, <1>11

(* task_exit with mutex_release_all *)
LEMMA ExitStep ==
    ASSUME TypeOK, OneRunning, MutexInv, Exit
    PROVE  MutexInv'
<1>. USE DEF MutexInv
<1>. DEFINE r == task_running
            ms == Owned(r)
            own == OwnersAfter(ms, state)
            released == Woken(Heirs(ms, state), state)
            wakes == {p \in Slots : /\ p = parent[r]
                                    /\ state[p] = "wait"
                                    /\ wait_pid[p] = r}
            st == [Woken(wakes, released) EXCEPT ![r] = "zombie"]
<1>1. /\ owner' = own /\ schedule(st) /\ ForgetMutexes(r, mutexes[r])
      /\ UNCHANGED <<wait_mutex, wait_channel, pc>>
      /\ pc[r] # "lock"
  BY DEF Exit, task_exit, Calls
<1>2. /\ r \in Slots /\ state[r] = "running"
      /\ mutexes' = [mutexes EXCEPT ![r] = {}]
      /\ ms \in SUBSET MutexIds
      /\ \A m \in MutexIds : owner[m] = r => m \in ms
  <2>1. r \in Slots /\ state[r] = "running"
    BY DEF TypeOK, SchedTypeOK, OneRunning
  <2>2. mutexes' = [mutexes EXCEPT ![r] = {}]
    BY <1>1 DEF ForgetMutexes
  <2>3. ms \in SUBSET MutexIds
    BY <2>1 DEF Owned, TypeOK, MutexTypeOK
  <2>4. \A m \in MutexIds : owner[m] = r => m \in ms
    BY <2>1, Constants DEF Owned, OwnerOpens
  <2>. QED
    BY <2>1, <2>2, <2>3, <2>4
<1>3. /\ \A x \in MutexIds : own[x] # NULL => x \in mutexes[own[x]]
      /\ \A x \in ms : own[x] # r
      /\ \A t \in Slots : released[t] = "blocked" =>
            state[t] = "blocked" /\ own[wait_channel[t]] \notin {NULL, t}
  BY <1>2, HandOverKeeps
<1>4. own \in [MutexIds -> Slots \cup {NULL}] /\ \A m \in MutexIds : own[m] # r
  <2>1. \A m \in MutexIds \ ms : own[m] = owner[m] /\ owner[m] # r
    BY <1>2 DEF OwnersAfter
  <2>. QED
    BY <1>3, <2>1, OwnersType
<1>5. \A t \in Slots : /\ released[t] = "ready" \/ released[t] = state[t]
                       /\ t # r => st[t] = "ready" \/ st[t] = released[t]
                       /\ st[r] = "zombie"
  BY <1>2 DEF Woken
<1>. HIDE DEF own, released, st, ms
<1>6. \A t \in Slots : /\ t # r => (Live(t) => state'[t] \notin {"unused", "zombie"})
                       /\ state'[t] = "blocked" =>
                            t # r /\ released[t] = "blocked"
  BY <1>1, <1>2, <1>5, ScheduleMoves DEF Live
<1>7. LockPoint'
  BY <1>1, <1>2 DEF LockPoint, TypeOK, MutexTypeOK
<1>8. Counted'
  BY <1>1, <1>2, ForgetCounted
<1>9. DeadHoldNothing'
  BY <1>2, <1>6 DEF DeadHoldNothing, Live, TypeOK, MutexTypeOK
<1>10. OwnerOpens'
  BY <1>1, <1>2, <1>3, <1>4 DEF OwnerOpens, TypeOK, MutexTypeOK
<1>11. BlockedHasOwner'
  BY <1>1, <1>2, <1>3, <1>6 DEF BlockedHasOwner, TypeOK, MutexTypeOK
<1>. QED
  BY <1>7, <1>8, <1>9, <1>10, <1>11

(* No step breaks the invariant of the mutexes. *)
LEMMA MutexStep ==
    ASSUME TypeOK, TypeOK', OneRunning, MutexInv, [Next]_vars
    PROVE  MutexInv'
<1>1. state \in States /\ Reaped \in States /\ Calm(state) /\ Calm(Reaped)
  <2>1. state \in States /\ Reaped \in States
    BY StatesIn DEF TypeOK, TableTypeOK, States, TaskState
  <2>. QED
    BY <2>1 DEF Calm, Reaped, Live, States
<1>2. CASE QuietAction
  BY <1>2, QuietStep, QuietKeeps DEF MutexInv
<1>3. CASE UNCHANGED vars
  <2>1. Quiet
    BY <1>1, <1>3 DEF Quiet, KeepsLocks, vars, tableVars, mutexVars
  <2>. QED
    BY <2>1, QuietKeeps
<1>4. CASE SysMutexOpen
  BY <1>4, OpenStep
<1>5. CASE SysMutexLock
  <2>1. PICK m \in MutexIds : mutex_get(m) /\ mutex_lock(m, state)
    BY <1>5 DEF SysMutexLock
  <2>. QED
    BY <1>1, <2>1, LockStep DEF mutex_get
<1>6. CASE LockResumes
  <2>1. /\ wait_mutex[task_running] \in mutexes[task_running]
        /\ mutex_lock(wait_mutex[task_running], Reaped)
    BY <1>6 DEF LockResumes, MutexInv, LockPoint, TypeOK, SchedTypeOK
  <2>. QED
    BY <1>1, <2>1, LockStep
<1>7. CASE SysMutexUnlock
  BY <1>7, UnlockStep
<1>8. CASE SysMutexClose
  BY <1>8, CloseStep
<1>9. CASE Exit
  BY <1>9, ExitStep
<1>. QED
  BY <1>2, <1>3, <1>4, <1>5, <1>6, <1>7, <1>8, <1>9
     DEF Next, Syscall, KernelStep, Interrupt, QuietAction

-----------------------------------------------------------------------------
(* The inductive invariant and what follows from it *)

IInv == TypeOK /\ OneRunning /\ KilledAwake /\ MutexInv

(* The invariant holds after task_init. *)
LEMMA InitInv ==
    ASSUME Init
    PROVE  IInv
<1>1. TypeOK
  <2>1. TableTypeOK
    BY Constants DEF Init, TableTypeOK, TaskState, Resume
  <2>2. SchedTypeOK
    <3>1. policy \in Policy /\ task_running \in Slots /\ ticks \in Tick
      BY Constants DEF Init
    <3>2. need_resched = FALSE /\ slice = 0
      BY DEF Init
    <3>3. 0 \in 0 .. SCHED_QUANTUM_TICKS
      OBVIOUS
    <3>. QED
      BY <3>1, <3>2, <3>3 DEF SchedTypeOK
  <2>3. MutexTypeOK
    BY DEF Init, MutexTypeOK
  <2>4. TaskTypeOK
    BY Constants DEF Init, TaskTypeOK
  <2>. QED
    BY <2>1, <2>2, <2>3, <2>4 DEF TypeOK
<1>2. OneRunning
  BY Constants DEF Init, OneRunning
<1>3. KilledAwake
  BY Constants DEF Init, KilledAwake, KilledIsAwake
<1>4. MutexInv
  <2>1. Counted
    BY FS_EmptySet DEF Init, Counted, Openers
  <2>2. LockPoint /\ DeadHoldNothing /\ OwnerOpens /\ BlockedHasOwner
    BY DEF Init, LockPoint, DeadHoldNothing, OwnerOpens, BlockedHasOwner
  <2>. QED
    BY <2>1, <2>2 DEF MutexInv
<1>. QED
  BY <1>1, <1>2, <1>3, <1>4 DEF IInv

(* Every step keeps the invariant. *)
LEMMA StepInv ==
    ASSUME IInv, [Next]_vars
    PROVE  IInv'
<1>1. OpenCounted /\ LockPoint
  BY CountedOpen DEF IInv, MutexInv
<1>2. TypeOK'
  BY <1>1, TypeStep DEF IInv
<1>3. OneRunning'
  BY OneRunningStep DEF IInv
<1>4. KilledAwake'
  BY KilledAwakeStep DEF IInv
<1>5. MutexInv'
  BY <1>2, MutexStep DEF IInv
<1>. QED
  BY <1>2, <1>3, <1>4, <1>5 DEF IInv

(* The invariant holds in every reachable state. *)
THEOREM Inductive == Spec => []IInv
<1>1. Init => IInv
  BY InitInv
<1>2. IInv /\ [Next]_vars => IInv'
  BY StepInv
<1>. QED
  BY <1>1, <1>2, PTL DEF Spec

(* Every field of the task table, the scheduler and the mutexes keeps its  *)
(* range; no reference count of a mutex drops below zero.                  *)
THEOREM TypeCorrect == Spec => []TypeOK
<1>1. IInv => TypeOK
  BY DEF IInv
<1>. QED
  BY <1>1, Inductive, PTL

(* Whatever programs and the hardware do, exactly the task schedule() last *)
(* switched to is in the running state.                                    *)
THEOREM RunningIsUnique == Spec => []OneRunning
<1>1. IInv => OneRunning
  BY DEF IInv
<1>. QED
  BY <1>1, Inductive, PTL

(* No killed task sleeps, waits for a key or waits for a mutex. *)
THEOREM KilledWakesUp == Spec => []KilledIsAwake
<1>1. IInv => KilledIsAwake
  BY DEF IInv, KilledAwake
<1>. QED
  BY <1>1, Inductive, PTL

(* A mutex counts exactly the live tasks that have it open, and its owner  *)
(* is one of them.                                                         *)
THEOREM BooksBalance == Spec => []MutexBooks
<1>1. ASSUME IInv
      PROVE  MutexBooks
  <2>1. \A m : {t \in Slots : Live(t) /\ m \in mutexes[t]} = Openers(m)
    BY <1>1 DEF IInv, MutexInv, DeadHoldNothing, Openers
  <2>2. \A m \in MutexIds : owner[m] # NULL => owner[m] \in Slots
    BY <1>1 DEF IInv, TypeOK, MutexTypeOK
  <2>3. \A m \in MutexIds :
            owner[m] # NULL => Live(owner[m]) /\ m \in mutexes[owner[m]]
    BY <1>1, <2>2 DEF IInv, MutexInv, OwnerOpens, DeadHoldNothing
  <2>. QED
    BY <1>1, <2>1, <2>3 DEF MutexBooks, IInv, MutexInv, Counted
<1>. QED
  BY <1>1, Inductive, PTL

(* No wakeup is lost: a task blocked on a mutex has another owner to wait  *)
(* for.                                                                    *)
THEOREM NoLostWakeup == Spec => []BlockedHasOwner
<1>1. IInv => BlockedHasOwner
  BY DEF IInv, MutexInv
<1>. QED
  BY <1>1, Inductive, PTL

(* The owner of a mutex hands it to the most important task blocked on it: *)
(* no other task takes it while one waits.                                 *)
THEOREM NobodyBarges == Spec => NoBarging
<1>1. ASSUME IInv, Next
      PROVE  HandedOver
  <2>. USE DEF IInv
  <2>. DEFINE W(m) == {t \in Slots : state[t] = "blocked" /\ wait_channel[t] = m}
  <2>1. \A m \in MutexIds : W(m) # {} => owner[m] # NULL
    BY <1>1 DEF MutexInv, BlockedHasOwner
  <2>2. ASSUME \A m \in MutexIds : \/ owner'[m] \in {owner[m], NULL}
                                   \/ owner[m] = NULL
                                   \/ owner'[m] = Heir(m, state)
        PROVE  HandedOver
    <3>1. \A m \in MutexIds : W(m) # {} => /\ Heir(m, state) \in W(m)
                /\ \A o \in W(m) : priority[o] <= priority[Heir(m, state)]
      BY <1>1, HeirIn
    <3>. QED
      BY <2>1, <2>2, <3>1 DEF HandedOver
  <2>3. CASE QuietAction
    BY <1>1, <2>2, <2>3, QuietStep DEF MutexInv, Quiet
  <2>4. CASE SysMutexOpen
    BY <1>1, <2>2, <2>4
       DEF SysMutexOpen, mutex_open, TypeOK, MutexTypeOK
  <2>5. CASE SysMutexLock \/ LockResumes
    BY <1>1, <2>2, <2>5 DEF SysMutexLock, LockResumes, mutex_lock, LockWait,
       LockDone, TypeOK, MutexTypeOK
  <2>6. CASE SysMutexUnlock \/ SysMutexClose
    BY <1>1, <2>2, <2>6 DEF SysMutexUnlock, SysMutexClose, mutex_unlock,
       mutex_close, mutex_hand_over, OwnersAfter
  <2>7. CASE Exit
    BY <1>1, <2>2, <2>7 DEF Exit, task_exit, OwnersAfter
  <2>. QED
    BY <1>1, <2>3, <2>4, <2>5, <2>6, <2>7
       DEF Next, Syscall, KernelStep, Interrupt, QuietAction
<1>2. IInv /\ [Next]_vars => [HandedOver]_vars
  BY <1>1
<1>. QED
  BY <1>2, Inductive, PTL DEF Spec, NoBarging

(* No path through the kernel takes a killed task back to ring 3. *)
THEOREM KilledLeavesByExit == Spec => KilledNeverReturns
<1>1. ASSUME IInv, Next
      PROVE  KilledStays
  <2>1. TypeOK /\ pc \in [Slots -> Resume] /\ task_running \in Slots
    BY <1>1 DEF IInv, TypeOK, TableTypeOK, SchedTypeOK
  <2>2. ASSUME NEW p, p # "user" \/ ~ killed[task_running],
               pc' = [pc EXCEPT ![task_running] = p]
        PROVE  KilledStays
    BY <2>1, <2>2 DEF KilledStays
  <2>3. pc' = pc => KilledStays
    BY DEF KilledStays
  <2>4. ASSUME NEW s, NEW at, NEW st, at # "user", Block(s, at, st)
        PROVE  KilledStays
    BY <2>2, <2>4 DEF Block
  <2>5. ASSUME NEW st, Return(st)
        PROVE  KilledStays
    <3>1. PICK p \in {"init", "return"} : pc' = [pc EXCEPT ![task_running] = p]
      BY <2>5 DEF Return
    <3>. QED
      BY <2>2, <3>1
  <2>6. ASSUME NEW prio, NEW background, NEW shell,
               task_spawn(prio, background, shell)
        PROVE  KilledStays
    <3>. DEFINE t == Min(FreeSlots)
                at == IF task_running = InitThread THEN "init" ELSE "return"
    <3>1. pc' = [pc EXCEPT ![t] = "user", ![task_running] = at] /\ ~ Live(t)
      BY <2>6, FreshSlot DEF task_spawn, Live
    <3>2. at # "user"
      OBVIOUS
    <3>. HIDE DEF t, at
    <3>. QED
      BY <2>1, <3>1, <3>2 DEF KilledStays
  <2>7. CASE SysRun \/ SysSpawn \/ InitStartsShell
    BY <2>6, <2>7 DEF SysRun, SysSpawn, InitStartsShell
  <2>8. CASE SysWait \/ SysSleep \/ SysGetchar \/ SysWaitPeriod \/ InitWaits
    BY <2>4, <2>5, <2>8 DEF SysWait, SysSleep, SysGetchar, SysWaitPeriod,
       InitWaits, task_wait, task_sleep_until_tick, task_wait_key,
       task_wait_period
  <2>9. CASE WaitResumes \/ SleepResumes \/ KeyResumes
    BY <2>4, <2>5, <2>9 DEF WaitResumes, SleepResumes, KeyResumes,
       task_wait, task_sleep_until_tick, task_wait_key
  <2>10. CASE SysKill \/ SysPeriod \/ SysSetprio \/ SysSched \/ SysYield
              \/ SysMutexOpen \/ SysMutexUnlock \/ SysMutexClose
              \/ SysIgnoreCtrlC \/ SysOther
    <3>1. pc' = [pc EXCEPT ![task_running] = "return"]
      BY <2>10 DEF SysKill, SysPeriod, SysSetprio, SysSched, SysYield,
         SysMutexOpen, SysMutexUnlock, SysMutexClose, SysIgnoreCtrlC,
         SysOther, Returns
    <3>. QED
      BY <2>2, <3>1
  <2>11. CASE SysMutexLock \/ LockResumes
    <3>1. PICK m, st : LockWait(m, st) \/ LockDone(m, st)
      BY <2>11 DEF SysMutexLock, LockResumes, mutex_lock
    <3>2. \/ pc' = [pc EXCEPT ![task_running] = "lock"]
          \/ pc' = [pc EXCEPT ![task_running] = "return"]
      BY <3>1 DEF LockWait, LockDone
    <3>. QED
      BY <2>2, <3>2
  <2>12. CASE Exit
    BY <2>3, <2>12 DEF Exit, task_exit
  <2>13. CASE ReturnToUser
    BY <2>1, <2>13 DEF ReturnToUser, KilledStays
  <2>14. CASE Resumed
    BY <2>1, <2>14 DEF Resumed, KilledStays
  <2>15. CASE InitSleeps
    BY <2>4, <2>15 DEF InitSleeps
  <2>16. CASE IdleHalts \/ IdleSchedules \/ IdleResumes
    BY <2>1, <2>16 DEF IdleHalts, IdleSchedules, IdleResumes, KilledStays
  <2>17. CASE TimerInterrupt \/ KeyInterrupt \/ CtrlC \/ MouseInterrupt
    <3>1. Interrupted
      BY <2>17 DEF TimerInterrupt, KeyInterrupt, CtrlC, MouseInterrupt
    <3>. QED
      BY <2>1, <3>1 DEF Interrupted, KilledStays
  <2>. QED
    BY <1>1, <2>7, <2>8, <2>9, <2>10, <2>11, <2>12, <2>13, <2>14, <2>15,
       <2>16, <2>17 DEF Next, Syscall, KernelStep, Interrupt
<1>2. IInv /\ [Next]_vars => [KilledStays]_vars
  BY <1>1
<1>. QED
  BY <1>2, Inductive, PTL DEF Spec, KilledNeverReturns

-----------------------------------------------------------------------------
(* Waits.  A step either leaves all of them alone (Quiescent), and most    *)
(* do, or it is one of the few that begin or end one kind.                 *)

(***************************************************************************)
(* A parent is inside task_wait from its first look at the child to the    *)
(* last: also woken and not run yet, when the child may be a zombie but is *)
(* still the parent's to free.                                             *)
(***************************************************************************)
WaitPoints ==
    \A t \in Slots :
        /\ pc[t] = "wait" => /\ wait_pid[t] \in Slots
                             /\ parent[wait_pid[t]] = t
                             /\ ~ detached[wait_pid[t]]
                             /\ state[wait_pid[t]] # "unused"
        /\ state[t] = "wait" => pc[t] = "wait" /\ state[wait_pid[t]] # "zombie"

(* init only gives up where the shell may fail to start, and then sleeps. *)
StuckInit == \A t \in Slots : pc[t] = "stuck" => ShellMayFail

LifeInv ==
    /\ WaitPoints /\ StuckInit
    /\ ParentsLive /\ SleepersInTime /\ NoLostKey

(* What the proofs of KernelProofs say of every reachable state *)
Base == TypeOK /\ OneRunning /\ DeadHoldNothing

-----------------------------------------------------------------------------
(* What a step does to the states *)

Waiting == {"wait", "sleeping", "key"}

(* In states st nobody ended or began, only the slot c and slots of        *)
(* detached tasks became free, and only the running task waits anew, in s. *)
Moves(st, s, c) ==
    \A t \in Slots :
        /\ Live(t) => st[t] \notin {"unused", "zombie"}
        /\ st[t] = "unused" => state[t] = "unused" \/ detached[t] \/ t = c
        /\ st[t] # "unused" => state[t] # "unused" \/ IsKernel(t)
        /\ st[t] \in Waiting =>
            \/ t # task_running /\ st[t] = state[t]
            \/ t = task_running /\ st[t] = s

(* The running task alone moves on inside the kernel. *)
OwnPc(points) ==
    /\ pc'[task_running] \in points
    /\ \A t \in Slots : t # task_running => pc'[t] = pc[t]

(* The states at the head of a loop *)
LEMMA HeadMoves ==
    ASSUME Base
    PROVE  /\ task_running \in Slots
           /\ state \in States /\ Reaped \in States
           /\ Moves(state, "none", NULL) /\ Moves(Reaped, "none", NULL)
           /\ \A t \in Slots : ~ detached[t] => Reaped[t] = state[t]
<1>1. task_running \in Slots /\ state \in States /\ Reaped \in States
  BY StatesIn DEF Base, TypeOK, TableTypeOK, SchedTypeOK, States, TaskState
<1>2. \A t \in Slots : state[t] = "running" <=> t = task_running
  BY DEF Base, OneRunning
<1>. QED
  BY <1>1, <1>2 DEF Moves, Reaped, Live, Waiting

(* schedule() only moves tasks between ready and running. *)
LEMMA ScheduleKeepsMoves ==
    ASSUME NEW st, NEW s, NEW c, Moves(st, s, c), schedule(st)
    PROVE  Moves(state', s, c)
<1>1. \A t \in Slots : state'[t] = "unused" <=> st[t] = "unused" /\ t # task_running'
  BY DEF schedule
<1>2. \/ sched_pick_next(st) = Idle
      \/ st[sched_pick_next(st)] \in {"ready", "running"}
  BY PickIn DEF task_runnable
<1>3. task_running' = sched_pick_next(st)
  BY DEF schedule
<1>4. ASSUME NEW t \in Slots, state'[t] # "unused"
      PROVE  state[t] # "unused" \/ IsKernel(t)
  BY <1>1, <1>2, <1>3, <1>4 DEF Moves, IsKernel
<1>. QED
  BY <1>4, ScheduleMoves DEF Moves, Waiting

(* So does waking tasks. *)
LEMMA WakeKeepsMoves ==
    ASSUME Base, NEW S, state' = Woken(S, state),
           \A t \in S : state[t] # "unused"
    PROVE  Moves(state', "none", NULL)
<1>1. Moves(state, "none", NULL)
  BY HeadMoves
<1>. QED
  BY <1>1 DEF Moves, Woken, Waiting

(* A call that blocks begins its own wait and no other. *)
LEMMA BlockMoves ==
    ASSUME Base, NEW st \in States, Moves(st, "none", NULL),
           NEW s \in Waiting, NEW at, Block(s, at, st)
    PROVE  Moves(state', s, NULL) /\ OwnPc({at})
<1>. DEFINE st2 == [st EXCEPT ![task_running] = s]
<1>1. task_running \in Slots /\ pc \in [Slots -> Resume]
  BY DEF Base, TypeOK, TableTypeOK, SchedTypeOK
<1>2. Moves(st2, s, NULL) /\ schedule(st2)
  BY <1>1 DEF Moves, States, Waiting, Block, Base, OneRunning
<1>3. OwnPc({at})
  BY <1>1 DEF OwnPc, Block
<1>. HIDE DEF st2
<1>. QED
  BY <1>2, <1>3, ScheduleKeepsMoves

(* A call that returns begins none. *)
LEMMA ReturnMoves ==
    ASSUME Base, NEW st, Return(st)
    PROVE  state' = st /\ OwnPc({"init", "return"})
BY DEF Base, TypeOK, TableTypeOK, SchedTypeOK, Return, OwnPc

-----------------------------------------------------------------------------
(* The steps that leave all waits alone *)

Quiescent ==
    /\ Moves(state', "none", NULL)
    /\ pc'[task_running] \notin {"wait", "stuck"}
    /\ \A t \in Slots : t # task_running => pc'[t] = pc[t]
    /\ UNCHANGED <<parent, detached, wait_pid, wake_tick, ticks, foreground>>
    /\ keys' = keys

(***************************************************************************)
(* A step that only concerns the wait of the running task, which may free  *)
(* one of its own zombies, the slot c, keeps the invariant if it holds of  *)
(* the running task afterwards.                                            *)
(***************************************************************************)
OwnWaitHolds ==
    LET r == task_running
    IN  /\ pc'[r] = "stuck" => ShellMayFail
        /\ pc'[r] = "wait" => /\ wait_pid'[r] \in Slots
                              /\ parent[wait_pid'[r]] = r
                              /\ ~ detached[wait_pid'[r]]
                              /\ state'[wait_pid'[r]] # "unused"
        /\ state'[r] = "wait" => /\ pc'[r] = "wait"
                                 /\ state'[wait_pid'[r]] # "zombie"
        /\ state'[r] = "sleeping" => Signed(wake_tick'[r] - ticks) > 0
        /\ state'[r] = "key" /\ foreground[r] => keys' = 0

OthersKept ==
    /\ \A t \in Slots : t # task_running => /\ pc'[t] = pc[t]
                                           /\ wait_pid'[t] = wait_pid[t]
                                           /\ wake_tick'[t] = wake_tick[t]
    /\ UNCHANGED <<parent, detached, ticks, foreground>>
    /\ keys = 0 => keys' = 0

LEMMA OwnWaitKeeps ==
    ASSUME Base, LifeInv, OthersKept, OwnWaitHolds, NEW s, NEW c,
           Moves(state', s, c),
           c \in Slots => parent[c] = task_running /\ state[c] = "zombie"
    PROVE  LifeInv'
<1>. USE DEF LifeInv, OthersKept
<1>1. \A t \in Slots : t # task_running /\ state'[t] \in Waiting =>
            state'[t] = state[t]
  BY DEF Moves
<1>2. \A t \in Slots : /\ Live(t) => state'[t] \notin {"unused", "zombie"}
                       /\ state'[t] = "unused" =>
                            \/ state[t] = "unused" \/ detached[t]
                            \/ parent[t] = task_running
  BY DEF Moves
<1>3. WaitPoints'
  <2>1. ASSUME NEW t \in Slots, t # task_running, pc'[t] = "wait"
        PROVE  /\ pc[t] = "wait"
               /\ wait_pid'[t] = wait_pid[t]
               /\ state'[wait_pid[t]] # "unused"
    BY <1>2, <2>1 DEF WaitPoints
  <2>2. ASSUME NEW t \in Slots, t # task_running, state'[t] = "wait"
        PROVE  /\ pc'[t] = "wait"
               /\ state'[wait_pid[t]] # "zombie"
    <3>1. state[t] = "wait"
      BY <1>1, <2>2 DEF Waiting
    <3>2. pc[t] = "wait" /\ wait_pid[t] \in Slots /\ Live(wait_pid[t])
      BY <3>1 DEF WaitPoints, Live
    <3>. QED
      BY <1>2, <2>2, <3>2
  <2>. QED
    BY <2>1, <2>2 DEF WaitPoints, OwnWaitHolds
<1>4. StuckInit'
  BY DEF StuckInit, OwnWaitHolds
<1>5. ParentsLive'
  <2>1. ASSUME NEW t \in Slots, state'[t] # "unused", ~ IsKernel(t), ~ detached[t]
        PROVE  parent[t] \in Slots /\ Live(parent[t])
    <3>1. state[t] # "unused"
      BY <2>1 DEF Moves
    <3>. QED
      BY <2>1, <3>1 DEF ParentsLive, Base, TypeOK, TaskTypeOK
  <2>. QED
    BY <1>2, <2>1, Constants DEF ParentsLive, Live
<1>6. SleepersInTime'
  BY <1>1 DEF SleepersInTime, Waiting, Signed, OwnWaitHolds
<1>7. NoLostKey'
  BY <1>1 DEF NoLostKey, Waiting, OwnWaitHolds
<1>. QED
  BY <1>3, <1>4, <1>5, <1>6, <1>7

(* A step that leaves all waits alone keeps the invariant. *)
LEMMA QuiescentKeeps ==
    ASSUME Base, LifeInv, Quiescent
    PROVE  LifeInv'
<1>1. task_running \in Slots /\ NULL \notin Slots
  BY Constants DEF Base, TypeOK, SchedTypeOK
<1>2. OthersKept /\ Moves(state', "none", NULL)
  BY DEF OthersKept, Quiescent
<1>3. OwnWaitHolds
  BY <1>1 DEF OwnWaitHolds, Quiescent, Moves, Waiting
<1>. QED
  BY <1>1, <1>2, <1>3, OwnWaitKeeps

(* The actions that do so *)
QuiescentAction ==
    \/ SysKill \/ SysPeriod \/ SysSetprio \/ SysSched \/ SysYield
    \/ SysMutexOpen \/ SysMutexLock \/ SysMutexUnlock \/ SysMutexClose
    \/ SysIgnoreCtrlC \/ SysOther \/ ReturnToUser \/ Resumed \/ LockResumes
    \/ IdleHalts \/ IdleSchedules \/ IdleResumes \/ MouseInterrupt

(* mutex_lock blocks on a mutex, which is none of the waits here. *)
LEMMA LockMoves ==
    ASSUME Base, NEW st \in States, Moves(st, "none", NULL), NEW m,
           mutex_lock(m, st)
    PROVE  Moves(state', "none", NULL) /\ OwnPc({"lock", "return"})
<1>1. task_running \in Slots /\ pc \in [Slots -> Resume]
  BY DEF Base, TypeOK, TableTypeOK, SchedTypeOK
<1>2. CASE LockWait(m, st)
  <2>. DEFINE st2 == [st EXCEPT ![task_running] = "blocked"]
  <2>1. Moves(st2, "none", NULL) /\ schedule(st2)
    BY <1>1, <1>2 DEF Moves, States, Waiting, LockWait, Base, OneRunning
  <2>2. OwnPc({"lock", "return"})
    BY <1>1, <1>2 DEF OwnPc, LockWait
  <2>. HIDE DEF st2
  <2>. QED
    BY <2>1, <2>2, ScheduleKeepsMoves
<1>3. CASE LockDone(m, st)
  BY <1>1, <1>3 DEF OwnPc, LockDone
<1>. QED
  BY <1>2, <1>3 DEF mutex_lock

(* They do. *)
LEMMA QuiescentStep ==
    ASSUME Base, QuiescentAction
    PROVE  Quiescent
<1>. USE DEF mutexVars, taskVars, schedVars
<1>1. /\ task_running \in Slots /\ pc \in [Slots -> Resume]
      /\ state \in States /\ Reaped \in States
      /\ Moves(state, "none", NULL) /\ Moves(Reaped, "none", NULL)
  BY HeadMoves DEF Base, TypeOK, TableTypeOK
<1>2. ASSUME Returns, Moves(state', "none", NULL),
             UNCHANGED <<parent, detached, wait_pid, wake_tick, ticks,
                         foreground, keys>>
      PROVE  Quiescent
  BY <1>1, <1>2 DEF Returns, Quiescent
<1>3. ASSUME OwnPc({"lock", "return"}), Moves(state', "none", NULL),
             UNCHANGED <<parent, detached, wait_pid, wake_tick, ticks,
                         foreground, keys>>
      PROVE  Quiescent
  BY <1>3 DEF OwnPc, Quiescent
<1>4. CASE SysKill
  <2>1. PICK t \in Slots : Live(t) /\ task_kill({t})
    BY <1>4 DEF SysKill
  <2>. DEFINE S == {x \in {t} : state[x] \in {"sleeping", "key", "blocked"}}
  <2>2. state' = Woken(S, state) /\ \A x \in S : state[x] # "unused"
    BY <2>1 DEF task_kill, sched_wake, Live
  <2>. HIDE DEF S
  <2>3. Moves(state', "none", NULL)
    BY <2>2, WakeKeepsMoves
  <2>. QED
    BY <1>2, <1>4, <2>3 DEF SysKill
<1>5. CASE SysPeriod \/ SysSetprio \/ SysSched \/ SysYield \/ SysOther
  BY <1>1, <1>2, <1>5
     DEF SysPeriod, SysSetprio, SysSched, SysYield, SysOther
<1>6. CASE SysIgnoreCtrlC
  BY <1>1, <1>2, <1>6 DEF SysIgnoreCtrlC
<1>7. CASE SysMutexOpen
  BY <1>1, <1>2, <1>7 DEF SysMutexOpen, mutex_open
<1>8. CASE SysMutexUnlock \/ SysMutexClose
  <2>1. ASSUME NEW ms PROVE \A x \in Heirs(ms, state) : state[x] # "unused"
    BY HeirsBlocked DEF Base
  <2>2. state' = state \/ \E ms : state' = Woken(Heirs(ms, state), state)
    BY <1>8 DEF SysMutexUnlock, SysMutexClose, mutex_unlock, mutex_close,
       mutex_hand_over
  <2>3. Moves(state', "none", NULL)
    BY <1>1, <2>1, <2>2, WakeKeepsMoves
  <2>. QED
    BY <1>2, <1>8, <2>3 DEF SysMutexUnlock, SysMutexClose
<1>9. CASE SysMutexLock
  <2>1. PICK m \in MutexIds : mutex_lock(m, state)
    BY <1>9 DEF SysMutexLock
  <2>. QED
    BY <1>1, <1>3, <1>9, <2>1, LockMoves DEF SysMutexLock
<1>10. CASE LockResumes
  BY <1>1, <1>3, <1>10, LockMoves DEF LockResumes
<1>11. CASE ReturnToUser
  <2>1. Moves(state', "none", NULL)
    BY <1>1, <1>11, ScheduleKeepsMoves DEF ReturnToUser
  <2>2. \E p \in {"dying", "user", "resumed"} :
            pc' = [pc EXCEPT ![task_running] = p]
    BY <1>11 DEF ReturnToUser
  <2>. QED
    BY <1>1, <1>11, <2>1, <2>2 DEF ReturnToUser, Quiescent
<1>12. CASE Resumed
  BY <1>1, <1>12 DEF Resumed, Quiescent
<1>13. CASE IdleHalts \/ IdleResumes
  BY <1>1, <1>13 DEF IdleHalts, IdleResumes, Quiescent
<1>14. CASE IdleSchedules
  <2>1. Moves(state', "none", NULL)
    BY <1>1, <1>14, ScheduleKeepsMoves DEF IdleSchedules
  <2>. QED
    BY <1>1, <1>14, <2>1 DEF IdleSchedules, Quiescent
<1>15. CASE MouseInterrupt
  BY <1>1, <1>15
     DEF MouseInterrupt, Interrupted, InterruptsOn, Quiescent
<1>. QED
  BY <1>4, <1>5, <1>6, <1>7, <1>8, <1>9, <1>10, <1>11, <1>12, <1>13, <1>14,
     <1>15 DEF QuiescentAction

-----------------------------------------------------------------------------
(* The steps that begin, go on with or end a wait *)

(* What is the same at the head of the loops, in the call and resumed *)
Head(st) ==
    /\ st \in States /\ Moves(st, "none", NULL)
    /\ \A t \in Slots : ~ detached[t] => st[t] = state[t]

(* Neither the first look nor a wakeup of task_wait misses the exit. *)
LEMMA WaitKeeps ==
    ASSUME Base, LifeInv, NEW st, Head(st), NEW c \in Slots,
           parent[c] = task_running, ~ detached[c], state[c] # "unused",
           task_wait(c, st),
           UNCHANGED <<parent, detached, ticks, foreground, wake_tick, keys>>
    PROVE  LifeInv'
<1>. DEFINE r == task_running
<1>1. /\ r \in Slots /\ NULL \notin Slots
      /\ wait_pid \in [Slots -> Slots \cup {NULL}]
  BY Constants DEF Base, TypeOK, SchedTypeOK, TaskTypeOK
<1>2. CASE st[c] # "zombie"
  <2>1. wait_pid' = [wait_pid EXCEPT ![r] = c] /\ Block("wait", "wait", st)
    BY <1>2 DEF task_wait
  <2>2. Moves(state', "wait", NULL) /\ OwnPc({"wait"})
    BY <2>1, BlockMoves DEF Head, Waiting
  <2>3. OthersKept
    BY <1>1, <2>1, <2>2 DEF OthersKept, OwnPc
  <2>4. state'[c] \notin {"unused", "zombie"}
    BY <1>2, <2>2 DEF Head, Moves, Live
  <2>5. OwnWaitHolds
    BY <1>1, <2>1, <2>2, <2>4 DEF OwnWaitHolds, OwnPc, Moves, Waiting
  <2>. QED
    BY <1>1, <2>2, <2>3, <2>5, OwnWaitKeeps
<1>3. CASE st[c] = "zombie"
  <2>. DEFINE st2 == [st EXCEPT ![c] = "unused"]
  <2>1. wait_pid' = [wait_pid EXCEPT ![r] = NULL] /\ Return(st2)
    BY <1>3 DEF task_wait
  <2>2. state' = st2 /\ OwnPc({"init", "return"})
    BY <2>1, ReturnMoves
  <2>3. Moves(st2, "none", c) /\ state[c] = "zombie"
    BY <1>1, <1>3 DEF Head, Moves, States, Waiting, Live
  <2>. HIDE DEF st2
  <2>4. OthersKept
    BY <1>1, <2>1, <2>2 DEF OthersKept, OwnPc
  <2>5. OwnWaitHolds
    BY <1>1, <2>2, <2>3 DEF OwnWaitHolds, OwnPc, Moves, Waiting
  <2>. QED
    BY <2>2, <2>3, <2>4, <2>5, OwnWaitKeeps
<1>. QED
  BY <1>2, <1>3

(* task_sleep_until_tick only sleeps for a tick to come. *)
LEMMA SleepKeeps ==
    ASSUME Base, LifeInv, NEW st, Head(st), NEW tick,
           task_sleep_until_tick(tick, st),
           UNCHANGED <<parent, detached, ticks, foreground, wait_pid, keys>>
    PROVE  LifeInv'
<1>. DEFINE r == task_running
<1>1. /\ r \in Slots /\ NULL \notin Slots
      /\ wake_tick \in [Slots -> Tick]
  BY Constants DEF Base, TypeOK, SchedTypeOK, TaskTypeOK
<1>2. CASE Signed(tick - ticks) > 0 /\ ~ killed[r]
  <2>1. /\ wake_tick' = [wake_tick EXCEPT ![r] = tick]
        /\ Block("sleeping", "sleep", st)
    BY <1>2 DEF task_sleep_until_tick
  <2>2. Moves(state', "sleeping", NULL) /\ OwnPc({"sleep"})
    BY <2>1, BlockMoves DEF Head, Waiting
  <2>3. OthersKept
    BY <1>1, <2>1, <2>2 DEF OthersKept, OwnPc
  <2>4. OwnWaitHolds
    BY <1>1, <1>2, <2>1, <2>2 DEF OwnWaitHolds, OwnPc, Moves, Waiting
  <2>. QED
    BY <1>1, <2>2, <2>3, <2>4, OwnWaitKeeps
<1>3. CASE ~ (Signed(tick - ticks) > 0 /\ ~ killed[r])
  <2>1. wake_tick' = [wake_tick EXCEPT ![r] = 0] /\ Return(st)
    BY <1>3 DEF task_sleep_until_tick
  <2>2. Moves(state', "none", NULL) /\ OwnPc({"init", "return"})
    BY <2>1, ReturnMoves DEF Head
  <2>3. OthersKept
    BY <1>1, <2>1, <2>2 DEF OthersKept, OwnPc
  <2>4. OwnWaitHolds
    BY <1>1, <2>2 DEF OwnWaitHolds, OwnPc, Moves, Waiting
  <2>. QED
    BY <1>1, <2>2, <2>3, <2>4, OwnWaitKeeps
<1>. QED
  BY <1>2, <1>3

(* task_wait_key only waits while there is no char for the task. *)
LEMMA KeyKeeps ==
    ASSUME Base, LifeInv, NEW st, Head(st), task_wait_key(st),
           UNCHANGED <<parent, detached, ticks, foreground, wait_pid, wake_tick>>
    PROVE  LifeInv'
<1>1. /\ task_running \in Slots /\ NULL \notin Slots
      /\ keys \in Nat
  BY Constants DEF Base, TypeOK, SchedTypeOK, TaskTypeOK
<1>2. CASE Block("key", "key", st) /\ keys' = keys
           /\ ~ (foreground[task_running] /\ keys > 0)
  <2>1. Moves(state', "key", NULL) /\ OwnPc({"key"})
    BY <1>2, BlockMoves DEF Head, Waiting
  <2>2. OthersKept
    BY <1>2, <2>1 DEF OthersKept, OwnPc
  <2>3. OwnWaitHolds
    BY <1>1, <1>2, <2>1 DEF OwnWaitHolds, OwnPc, Moves, Waiting
  <2>. QED
    BY <1>1, <2>1, <2>2, <2>3, OwnWaitKeeps
<1>3. CASE Return(st) /\ (keys = 0 => keys' = 0)
  <2>1. Moves(state', "none", NULL) /\ OwnPc({"init", "return"})
    BY <1>3, ReturnMoves DEF Head
  <2>2. OthersKept
    BY <1>3, <2>1 DEF OthersKept, OwnPc
  <2>3. OwnWaitHolds
    BY <1>1, <2>1 DEF OwnWaitHolds, OwnPc, Moves, Waiting
  <2>. QED
    BY <1>1, <2>1, <2>2, <2>3, OwnWaitKeeps
<1>. QED
  BY <1>1, <1>2, <1>3 DEF task_wait_key

(* A new task has a live parent and waits for nothing. *)
LEMMA SpawnKeeps ==
    ASSUME Base, LifeInv, NEW prio, NEW background, NEW shell,
           task_spawn(prio, background, shell)
    PROVE  LifeInv'
<1>. USE DEF LifeInv
<1>. DEFINE r == task_running
            n == Min(FreeSlots)
            fg == ~ background /\ foreground[r]
<1>1. n \in Slots /\ state[n] = "unused"
  BY FreshSlot DEF task_spawn
<1>2. /\ state' = [t \in Slots |-> IF t \in {n} THEN "ready" ELSE state[t]]
      /\ parent' = [parent EXCEPT ![n] = r]
      /\ detached' = [detached EXCEPT ![n] = background]
      /\ foreground' = [foreground EXCEPT ![n] = fg]
      /\ wake_tick' = [wake_tick EXCEPT ![n] = 0]
      /\ wait_pid' = [wait_pid EXCEPT ![n] = NULL]
      /\ keys' = IF fg THEN 0 ELSE keys
      /\ ticks' = ticks
      /\ pc' = [pc EXCEPT ![n] = "user",
                   ![r] = IF r = InitThread THEN "init" ELSE "return"]
  BY DEF task_spawn, sched_wake, Woken
<1>. HIDE DEF n, fg
<1>3. /\ r \in Slots /\ Live(r) /\ r # n
      /\ pc \in [Slots -> Resume] /\ state \in States
      /\ parent \in [Slots -> Slots \cup {NULL}]
      /\ wait_pid \in [Slots -> Slots \cup {NULL}]
      /\ detached \in [Slots -> BOOLEAN]
      /\ foreground \in [Slots -> BOOLEAN]
      /\ wake_tick \in [Slots -> Tick]
  BY <1>1 DEF Base, TypeOK, TableTypeOK, SchedTypeOK, TaskTypeOK, OneRunning,
     Live, States
<1>4. \A t \in Slots : t # n =>
        /\ state'[t] = state[t] /\ parent'[t] = parent[t]
        /\ detached'[t] = detached[t] /\ foreground'[t] = foreground[t]
        /\ wake_tick'[t] = wake_tick[t] /\ wait_pid'[t] = wait_pid[t]
        /\ pc'[t] = pc[t] \/ pc'[t] \in {"init", "return"}
        /\ t # r => pc'[t] = pc[t]
  BY <1>2, <1>3
<1>5. /\ state'[n] = "ready" /\ parent'[n] = r /\ pc'[n] = "user"
      /\ state[r] = "running"
  BY <1>1, <1>2, <1>3 DEF Base, OneRunning
<1>6. WaitPoints'
  <2>1. ASSUME NEW t \in Slots, pc'[t] = "wait"
        PROVE  /\ t # n /\ pc[t] = "wait"
               /\ wait_pid[t] \in Slots /\ wait_pid[t] # n
    BY <1>1, <1>4, <1>5, <2>1 DEF WaitPoints
  <2>2. ASSUME NEW t \in Slots, state'[t] = "wait"
        PROVE  pc'[t] = "wait" /\ state[wait_pid[t]] # "zombie"
    BY <1>4, <1>5, <2>2 DEF WaitPoints
  <2>. QED
    BY <1>4, <2>1, <2>2 DEF WaitPoints
<1>7. StuckInit'
  BY <1>4, <1>5 DEF StuckInit
<1>8. ParentsLive'
  <2>1. \A t \in Slots : Live(t) => t # n /\ state'[t] \notin {"unused", "zombie"}
    BY <1>1, <1>4 DEF Live
  <2>2. ASSUME NEW t \in Slots, t # n, state'[t] # "unused", ~ IsKernel(t),
               ~ detached'[t]
        PROVE  parent'[t] \in Slots /\ Live(parent'[t])
    BY <1>3, <1>4, <2>2 DEF ParentsLive
  <2>. QED
    BY <1>3, <1>5, <2>1, <2>2, Constants DEF ParentsLive, Live
<1>9. SleepersInTime'
  BY <1>2, <1>4, <1>5 DEF SleepersInTime, Signed
<1>10. NoLostKey'
  BY <1>2, <1>4, <1>5 DEF NoLostKey
<1>. QED
  BY <1>6, <1>7, <1>8, <1>9, <1>10

(***************************************************************************)
(* A task that exits is a zombie its waiting parent is woken for, and the  *)
(* children it leaves are detached.                                        *)
(***************************************************************************)
LEMMA ExitKeeps ==
    ASSUME Base, LifeInv, Exit
    PROVE  LifeInv'
<1>. USE DEF LifeInv
<1>. DEFINE r == task_running
            released == Woken(Heirs(Owned(r), state), state)
            wakes == {p \in Slots : /\ p = parent[r]
                                    /\ state[p] = "wait"
                                    /\ wait_pid[p] = r}
            st == [Woken(wakes, released) EXCEPT ![r] = "zombie"]
<1>1. /\ r \in Slots /\ state[r] = "running" /\ ~ IsKernel(r)
      /\ pc[r] \notin {"wait", "stuck"}
  BY DEF Base, TypeOK, SchedTypeOK, OneRunning, Exit, Calls
<1>2. /\ schedule(st)
      /\ parent' = [c \in Slots |-> IF c \in Orphans(r) THEN InitThread
                                     ELSE parent[c]]
      /\ detached' = [c \in Slots |-> c \in Orphans(r) \/ detached[c]]
      /\ UNCHANGED <<pc, wait_pid, wake_tick, ticks, foreground>>
      /\ keys' = 0 \/ keys' = keys
  BY DEF Exit, task_exit
<1>3. \A t \in Slots :
        /\ t # r /\ Live(t) => st[t] \notin {"unused", "zombie"}
        /\ st[t] = "unused" <=> state[t] = "unused"
        /\ st[t] \in Waiting => t # r /\ state[t] = st[t] /\ t \notin wakes
        /\ st[r] = "zombie"
  <2>1. \A t \in Slots : released[t] # state[t] =>
            released[t] = "ready" /\ state[t] = "blocked"
    BY HeirsBlocked DEF Woken, Base
  <2>2. \A t \in Slots : released[t] = "unused" <=> state[t] = "unused"
    BY <2>1
  <2>. HIDE DEF released
  <2>. QED
    BY <1>1, <2>1, <2>2 DEF Woken, Live, Waiting
<1>. HIDE DEF st, wakes
<1>4. \A t \in Slots :
        /\ t # r /\ Live(t) => state'[t] \notin {"unused", "zombie"}
        /\ state'[t] = "unused" => state[t] = "unused"
        /\ state'[t] # "unused" /\ ~ IsKernel(t) => state[t] # "unused"
        /\ state'[t] \in Waiting => t # r /\ state[t] = state'[t] /\ t \notin wakes
  <2>1. \A t \in Slots : state'[t] = "unused" <=> st[t] = "unused" /\ t # task_running'
    BY <1>2 DEF schedule
  <2>2. \/ task_running' = Idle
        \/ st[task_running'] \in {"ready", "running"} /\ task_running' \in Slots
    BY <1>2, PickIn DEF task_runnable, schedule
  <2>3. \A t \in Slots : state'[t] # "unused" /\ ~ IsKernel(t) => state[t] # "unused"
    BY <1>3, <2>1, <2>2 DEF IsKernel
  <2>. QED
    BY <1>2, <1>3, <2>1, <2>3, ScheduleMoves DEF Waiting
<1>5. \A t \in Slots : /\ t \in Orphans(r) <=> state[t] # "unused" /\ parent[t] = r
                       /\ ~ detached'[t] => ~ detached[t] /\ t \notin Orphans(r)
                                            /\ parent'[t] = parent[t]
  BY <1>2 DEF Orphans
<1>6. WaitPoints'
  <2>1. ASSUME NEW t \in Slots, pc'[t] = "wait"
        PROVE  /\ wait_pid[t] \in Slots
               /\ parent'[wait_pid[t]] = t
               /\ ~ detached'[wait_pid[t]]
               /\ state'[wait_pid[t]] # "unused"
    <3>1. /\ t # r /\ wait_pid[t] \in Slots
          /\ parent[wait_pid[t]] = t /\ ~ detached[wait_pid[t]]
          /\ state[wait_pid[t]] # "unused"
      BY <1>1, <1>2, <2>1 DEF WaitPoints
    <3>. QED
      BY <1>2, <1>4, <1>5, <3>1
  <2>2. ASSUME NEW t \in Slots, state'[t] = "wait"
        PROVE  pc'[t] = "wait" /\ state'[wait_pid[t]] # "zombie"
    <3>1. state[t] = "wait" /\ t \notin wakes
      BY <1>4, <2>2 DEF Waiting
    <3>2. /\ pc[t] = "wait" /\ wait_pid[t] \in Slots
          /\ Live(wait_pid[t]) /\ parent[wait_pid[t]] = t
      BY <3>1 DEF WaitPoints, Live
    <3>3. wait_pid[t] # r
      BY <3>1, <3>2 DEF wakes
    <3>. QED
      BY <1>2, <1>4, <3>2, <3>3
  <2>. QED
    BY <1>2, <2>1, <2>2 DEF WaitPoints
<1>7. StuckInit'
  BY <1>2 DEF StuckInit
<1>8. ParentsLive'
  <2>1. ASSUME NEW t \in Slots, state'[t] # "unused", ~ IsKernel(t),
               ~ detached'[t]
        PROVE  /\ parent'[t] \in Slots /\ Live(parent'[t])
               /\ parent'[t] # r
    <3>1. state[t] # "unused" /\ ~ detached[t] /\ parent'[t] = parent[t]
          /\ parent[t] # r
      BY <1>4, <1>5, <2>1
    <3>. QED
      BY <2>1, <3>1 DEF ParentsLive, Base, TypeOK, TaskTypeOK
  <2>. QED
    BY <1>4, <2>1, Constants DEF ParentsLive, Live
<1>9. SleepersInTime'
  BY <1>2, <1>4 DEF SleepersInTime, Signed, Waiting
<1>10. NoLostKey'
  BY <1>2, <1>4 DEF NoLostKey, Waiting
<1>. QED
  BY <1>6, <1>7, <1>8, <1>9, <1>10

-----------------------------------------------------------------------------
(* The tick counter wraps; its differences do not, up to half its range *)

Half == TickMod \div 2

(* The signed difference of two ticks *)
LEMMA SignedOf ==
    ASSUME NEW a \in Tick, NEW b \in Tick
    PROVE  /\ Half \in Nat /\ TickMod = 2 * Half
           /\ Signed(a - b) = IF a - b >= Half THEN a - b - TickMod
                              ELSE IF a - b < -Half THEN a - b + TickMod
                              ELSE a - b
<1>1. Half \in Nat /\ TickMod = 2 * Half
  BY DEF Half
<1>2. a \in Nat /\ b \in Nat /\ a < TickMod /\ b < TickMod
  BY DEF Tick
<1>. DEFINE x == a - b + Half
<1>3. CASE a - b >= Half
  <2>1. x - TickMod \in 0 .. TickMod - 1 /\ x = (x - TickMod) + TickMod
    BY <1>1, <1>2, <1>3
  <2>2. x % TickMod = x - TickMod
    BY <2>1, ModIn
  <2>. QED
    BY <1>1, <1>2, <1>3, <2>2 DEF Signed, Half
<1>4. CASE a - b < -Half
  <2>1. x + TickMod \in 0 .. TickMod - 1 /\ x = (x + TickMod) - TickMod
    BY <1>1, <1>2, <1>4
  <2>2. x % TickMod = x + TickMod
    BY <2>1, ModIn
  <2>. QED
    BY <1>1, <1>2, <1>4, <2>2 DEF Signed, Half
<1>5. CASE ~ (a - b >= Half) /\ ~ (a - b < -Half)
  <2>1. x \in 0 .. TickMod - 1
    BY <1>1, <1>2, <1>5
  <2>2. x % TickMod = x
    BY <2>1, ModIn
  <2>. QED
    BY <1>1, <1>2, <1>5, <2>2 DEF Signed, Half
<1>. QED
  BY <1>1, <1>3, <1>4, <1>5

(* The tick n ticks on, n less than half the range *)
LEMMA TickAfter ==
    ASSUME NEW t \in Tick, NEW n \in 0 .. Half - 1
    PROVE  /\ (t + n) % TickMod \in Tick
           /\ (t + n) % TickMod = IF t + n < TickMod THEN t + n
                                  ELSE t + n - TickMod
           /\ Signed(((t + n) % TickMod) - t) = n
<1>1. Half \in Nat /\ TickMod = 2 * Half
  BY DEF Half
<1>2. t \in Nat /\ t < TickMod
  BY DEF Tick
<1>3. (t + n) % TickMod = IF t + n < TickMod THEN t + n ELSE t + n - TickMod
  <2>1. CASE t + n < TickMod
    BY <1>1, <1>2, <2>1, ModIn
  <2>2. CASE t + n >= TickMod
    <3>1. t + n - TickMod \in 0 .. TickMod - 1
          /\ t + n = (t + n - TickMod) + TickMod
      BY <1>1, <1>2, <2>2
    <3>. QED
      BY <2>2, <3>1, ModIn
  <2>. QED
    BY <1>1, <1>2, <2>1, <2>2
<1>4. (t + n) % TickMod \in Tick
  BY <1>1, <1>2, <1>3 DEF Tick
<1>5. Signed(((t + n) % TickMod) - t) = n
  <2>. DEFINE a == (t + n) % TickMod
  <2>1. a \in Tick /\ a = IF t + n < TickMod THEN t + n ELSE t + n - TickMod
    BY <1>3, <1>4
  <2>. HIDE DEF a
  <2>2. Signed(a - t) = n
    BY <1>1, <1>2, <2>1, SignedOf
  <2>. QED
    BY <2>2 DEF a
<1>. QED
  BY <1>3, <1>4, <1>5

(* A tick that has not come is due at the next one or still to come. *)
LEMMA NextTick ==
    ASSUME NEW w \in Tick, NEW t \in Tick, Signed(w - t) > 0
    PROVE  LET now == (t + 1) % TickMod
           IN  Signed(now - w) >= 0 \/ Signed(w - now) > 0
<1>. DEFINE now == (t + 1) % TickMod
<1>1. Half \in Nat /\ TickMod = 2 * Half /\ Half >= 1
  BY DEF Half
<1>2. w \in Nat /\ t \in Nat /\ w < TickMod /\ t < TickMod
  BY DEF Tick
<1>3. Signed(w - t) = IF w - t >= Half THEN w - t - TickMod
                      ELSE IF w - t < -Half THEN w - t + TickMod
                      ELSE w - t
  BY SignedOf
<1>4. now = IF t + 1 < TickMod THEN t + 1 ELSE 0
  <2>1. CASE t + 1 < TickMod
    BY <1>2, <2>1, ModIn
  <2>2. CASE t + 1 >= TickMod
    BY <1>1, <1>2, <2>2, ModIn
  <2>. QED
    BY <1>1, <1>2, <2>1, <2>2
<1>. HIDE DEF now
<1>5. now \in Tick
  BY <1>1, <1>2, <1>4 DEF Tick
<1>6. /\ Signed(now - w) = IF now - w >= Half THEN now - w - TickMod
                           ELSE IF now - w < -Half THEN now - w + TickMod
                           ELSE now - w
      /\ Signed(w - now) = IF w - now >= Half THEN w - now - TickMod
                           ELSE IF w - now < -Half THEN w - now + TickMod
                           ELSE w - now
  BY <1>5, SignedOf
<1>7. Signed(now - w) >= 0 \/ Signed(w - now) > 0
  BY <1>1, <1>2, <1>3, <1>4, <1>6
<1>. QED
  BY <1>7 DEF now

(* init that cannot start the shell sleeps for a tick to come. *)
LEMMA InitSleepKeeps ==
    ASSUME Base, LifeInv, InitSleeps
    PROVE  LifeInv'
<1>. DEFINE tick == (ticks + INIT_SLEEP) % TickMod
<1>1. /\ task_running = InitThread /\ InitThread \in Slots
      /\ NULL \notin Slots
      /\ Reaped \in States /\ Moves(Reaped, "none", NULL)
      /\ wake_tick \in [Slots -> Tick] /\ ticks \in Tick
  BY HeadMoves, Constants
     DEF InitSleeps, Base, TypeOK, SchedTypeOK, TaskTypeOK
<1>2. ShellMayFail
  BY <1>1 DEF InitSleeps, LifeInv, StuckInit
<1>3. /\ wake_tick' = [wake_tick EXCEPT ![InitThread] = tick]
      /\ Block("sleeping", "stuck", Reaped)
      /\ UNCHANGED <<parent, detached, ticks, foreground, wait_pid, keys>>
  BY DEF InitSleeps
<1>4. Signed(tick - ticks) > 0
  BY <1>1, <1>2, TickAfter DEF Half
<1>. HIDE DEF tick
<1>5. Moves(state', "sleeping", NULL) /\ OwnPc({"stuck"})
  BY <1>1, <1>3, BlockMoves DEF Waiting
<1>6. OthersKept
  BY <1>1, <1>3, <1>5 DEF OthersKept, OwnPc
<1>7. OwnWaitHolds
  BY <1>1, <1>2, <1>3, <1>4, <1>5 DEF OwnWaitHolds, OwnPc, Moves, Waiting
<1>. QED
  BY <1>1, <1>5, <1>6, <1>7, OwnWaitKeeps

(* An interrupt comes while nobody is inside a call. *)
LEMMA InterruptedPc ==
    ASSUME Base, Interrupted
    PROVE  /\ pc[task_running] \notin {"wait", "stuck"}
           /\ pc'[task_running] \notin {"wait", "stuck"}
           /\ \A t \in Slots : t # task_running => pc'[t] = pc[t]
BY DEF Interrupted, InterruptsOn, Base, TypeOK, TableTypeOK, SchedTypeOK

(***************************************************************************)
(* An interrupt that wakes tasks keeps what it says of parents and of      *)
(* tasks inside task_wait: it wakes none of them and ends no child.        *)
(***************************************************************************)
LEMMA WakeKeepsParents ==
    ASSUME Base, LifeInv, Interrupted, NEW S, state' = Woken(S, state),
           \A t \in S : state[t] # "unused",
           UNCHANGED <<parent, detached, wait_pid>>
    PROVE  WaitPoints' /\ StuckInit' /\ ParentsLive'
<1>. USE DEF LifeInv
<1>1. /\ task_running \in Slots /\ NULL \notin Slots
      /\ pc'[task_running] \notin {"wait", "stuck"}
      /\ \A t \in Slots : t # task_running => pc'[t] = pc[t]
  BY InterruptedPc, Constants DEF Base, TypeOK, SchedTypeOK
<1>2. \A t \in Slots :
        /\ Live(t) => state'[t] \notin {"unused", "zombie"}
        /\ state'[t] = "unused" <=> state[t] = "unused"
        /\ state'[t] = "zombie" => state[t] = "zombie"
        /\ state'[t] = "wait" => state[t] = "wait" /\ t # task_running
  BY <1>1 DEF Woken, Live, Base, OneRunning
<1>3. WaitPoints'
  BY <1>1, <1>2 DEF WaitPoints
<1>4. StuckInit'
  BY <1>1 DEF StuckInit
<1>5. ParentsLive'
  <2>1. ASSUME NEW t \in Slots, state[t] # "unused", ~ IsKernel(t),
               ~ detached[t]
        PROVE  parent[t] \in Slots /\ Live(parent[t])
    BY <2>1 DEF ParentsLive, Base, TypeOK, TaskTypeOK
  <2>. QED
    BY <1>1, <1>2, <2>1 DEF ParentsLive, Live
<1>. QED
  BY <1>3, <1>4, <1>5

(* The timer wakes the sleepers whose tick came, and no sleeper is late. *)
LEMMA TimerKeeps ==
    ASSUME Base, LifeInv, TimerInterrupt
    PROVE  LifeInv'
<1>. USE DEF LifeInv
<1>. DEFINE due == Due(ticks')
<1>1. /\ state' = Woken(due, state)
      /\ ticks' = (ticks + 1) % TickMod
      /\ UNCHANGED <<parent, detached, wait_pid, wake_tick, foreground, keys>>
      /\ Interrupted
  BY DEF TimerInterrupt, sched_tick, taskVars
<1>2. ticks \in Tick /\ \A t \in Slots : wake_tick[t] \in Tick
  BY DEF Base, TypeOK, SchedTypeOK, TaskTypeOK
<1>3. SleepersInTime'
  <2>. SUFFICES ASSUME NEW t \in Slots, state'[t] = "sleeping"
                PROVE  Signed(wake_tick[t] - ticks') > 0
    BY <1>1 DEF SleepersInTime, Signed
  <2>1. state[t] = "sleeping" /\ t \notin due
    BY <1>1 DEF Woken
  <2>2. ~ (Signed(ticks' - wake_tick[t]) >= 0)
    BY <2>1 DEF Due
  <2>3. Signed(wake_tick[t] - ticks) > 0
    BY <2>1 DEF SleepersInTime
  <2>. QED
    BY <1>1, <1>2, <2>2, <2>3, NextTick
<1>4. NoLostKey'
  BY <1>1 DEF NoLostKey, Woken
<1>5. \A t \in due : state[t] # "unused"
  BY DEF Due
<1>. HIDE DEF due
<1>6. WaitPoints' /\ StuckInit' /\ ParentsLive'
  BY <1>1, <1>5, WakeKeepsParents
<1>. QED
  BY <1>3, <1>4, <1>6

(* A char wakes every foreground reader, so that none waits beside it. *)
LEMMA KeyboardKeeps ==
    ASSUME Base, LifeInv, Interrupted, NEW S, state' = Woken(S, state),
           KeyWaiters \subseteq S, \A t \in S : state[t] # "unused",
           UNCHANGED <<parent, detached, wait_pid, wake_tick, ticks, foreground>>
    PROVE  LifeInv'
<1>1. WaitPoints' /\ StuckInit' /\ ParentsLive'
  BY WakeKeepsParents
<1>2. SleepersInTime'
  BY DEF SleepersInTime, Woken, Signed, LifeInv
<1>3. NoLostKey'
  BY DEF NoLostKey, Woken, KeyWaiters
<1>. QED
  BY <1>1, <1>2, <1>3 DEF LifeInv

-----------------------------------------------------------------------------
(* Every step keeps the invariant. *)
LEMMA LifeStep ==
    ASSUME Base, LifeInv, [Next]_vars
    PROVE  LifeInv'
<1>. USE DEF taskVars, mutexVars
<1>1. CASE QuiescentAction
  BY <1>1, QuiescentStep, QuiescentKeeps
<1>2. Head(state) /\ Head(Reaped)
  BY HeadMoves DEF Head
<1>3. CASE SysRun \/ SysSpawn \/ InitStartsShell
  BY <1>3, SpawnKeeps DEF SysRun, SysSpawn, InitStartsShell
<1>4. CASE SysWait \/ InitWaits
  <2>1. PICK c \in Slots : WaitableChild(c) /\ task_wait(c, state)
    BY <1>4 DEF SysWait, InitWaits
  <2>2. UNCHANGED <<parent, detached, ticks, foreground, wake_tick, keys>>
    BY <1>4 DEF SysWait, InitWaits
  <2>. QED
    BY <1>2, <2>1, <2>2, WaitKeeps DEF WaitableChild
<1>5. CASE WaitResumes
  <2>1. /\ wait_pid[task_running] \in Slots
        /\ parent[wait_pid[task_running]] = task_running
        /\ ~ detached[wait_pid[task_running]]
        /\ state[wait_pid[task_running]] # "unused"
    BY <1>2, <1>5, HeadMoves DEF WaitResumes, LifeInv, WaitPoints
  <2>2. /\ task_wait(wait_pid[task_running], Reaped)
        /\ UNCHANGED <<parent, detached, ticks, foreground, wake_tick, keys>>
    BY <1>5 DEF WaitResumes
  <2>. QED
    BY <1>2, <2>1, <2>2, WaitKeeps
<1>6. CASE SysSleep \/ SysWaitPeriod \/ SleepResumes
  BY <1>2, <1>6, SleepKeeps DEF SysSleep, SysWaitPeriod, SleepResumes,
     task_wait_period
<1>7. CASE SysGetchar \/ KeyResumes
  BY <1>2, <1>7, KeyKeeps DEF SysGetchar, KeyResumes
<1>8. CASE InitSleeps
  BY <1>8, InitSleepKeeps
<1>9. CASE Exit
  BY <1>9, ExitKeeps
<1>10. CASE TimerInterrupt
  BY <1>10, TimerKeeps
<1>11. CASE KeyInterrupt
  BY <1>11, KeyboardKeeps DEF KeyInterrupt, sched_wake, KeyWaiters
<1>12. CASE CtrlC
  BY <1>12, KeyboardKeeps DEF CtrlC, sched_wake, KeyWaiters, ForegroundTasks, Live
<1>13. CASE UNCHANGED vars
  BY <1>13 DEF vars, tableVars, schedVars, LifeInv, WaitPoints, StuckInit,
     ParentsLive, SleepersInTime, NoLostKey, Live, Signed
<1>. QED
  BY <1>1, <1>3, <1>4, <1>5, <1>6, <1>7, <1>8, <1>9, <1>10, <1>11, <1>12,
     <1>13 DEF Next, Syscall, KernelStep, Interrupt, QuiescentAction

(* At boot init runs alone, and nobody waits. *)
LEMMA LifeInit ==
    ASSUME Init
    PROVE  LifeInv
BY Constants DEF Init, LifeInv, WaitPoints, StuckInit, ParentsLive,
   SleepersInTime, NoLostKey, IsKernel

(* In every reachable state all waits are sound. *)
THEOREM LifeInductive == Spec => []LifeInv
<1>1. IInv => Base
  BY DEF IInv, Base, MutexInv
<1>2. IInv /\ LifeInv /\ [Next]_vars => LifeInv'
  BY <1>1, LifeStep
<1>. QED
  BY <1>2, LifeInit, Inductive, PTL DEF Spec

(***************************************************************************)
(* task_exit orphans the children of a task: a task that somebody may      *)
(* still wait for has a live parent, so no zombie is out of reach.         *)
(***************************************************************************)
THEOREM ParentsStayLive == Spec => []ParentsLive
<1>1. LifeInv => ParentsLive
  BY DEF LifeInv
<1>. QED
  BY <1>1, LifeInductive, PTL

(***************************************************************************)
(* task_wait never misses an exit: task_exit wakes the parent that names   *)
(* the task, and orphans, spawns and reaping leave its pointer alone.      *)
(***************************************************************************)
THEOREM NoMissedExit == Spec => []WaitsForLiveChild
<1>1. LifeInv => WaitsForLiveChild
  BY Constants DEF LifeInv, WaitPoints, WaitsForLiveChild, Live
<1>. QED
  BY <1>1, LifeInductive, PTL

(* sched_tick misses no sleeper, also when the tick counter wraps. *)
THEOREM NoLateSleeper == Spec => []SleepersInTime
<1>1. LifeInv => SleepersInTime
  BY DEF LifeInv
<1>. QED
  BY <1>1, LifeInductive, PTL

(***************************************************************************)
(* task_wait_key and task_on_keyboard_input lose no wakeup: no foreground  *)
(* task waits for a key while a char is in the buffer.                     *)
(***************************************************************************)
THEOREM NoKeyLost == Spec => []NoLostKey
<1>1. LifeInv => NoLostKey
  BY DEF LifeInv
<1>. QED
  BY <1>1, LifeInductive, PTL

-----------------------------------------------------------------------------
(* Who runs                                                                *)

(* The idle thread is always there, makes no calls and has the lowest      *)
(* priority.                                                               *)
IdlePoints == {"loop", "halted", "awake", "parked"}

IdleIdles ==
    /\ state[Idle] \in {"ready", "running"}
    /\ pc[Idle] \in IdlePoints
    /\ priority[Idle] = 0
    /\ mutexes[Idle] = {}

(* Task t should run rather than task u, however late their deadlines are. *)
Outranks(t, u) ==
    \/ policy = "real_time" /\ priority[t] > priority[u]
    \/ policy = "edf" /\ EdfRank(t) < EdfRank(u)

(***************************************************************************)
(* Who lets a ready task outrank the running one asks for a switch, and no *)
(* way to ring 3 leads past that request.                                  *)
(***************************************************************************)
Asked ==
    ~ need_resched /\ task_running # Idle =>
        \A t \in Slots \ {Idle} : state[t] = "ready" /\ ~ killed[t] =>
            ~ Outranks(t, task_running)

AskedOnReturn == pc[task_running] \in {"user", "resumed"} => ~ need_resched

(* A task keeps at least the priority it was given. *)
BaseKept == \A t \in Slots : base_priority[t] <= priority[t]

-----------------------------------------------------------------------------
(* The idle thread *)

(* schedule() leaves the idle thread ready or runs it. *)
LEMMA ScheduleIdle ==
    ASSUME NEW st, schedule(st), st[Idle] \in {"ready", "running"}
    PROVE  state'[Idle] \in {"ready", "running"}
BY Constants DEF schedule

(* The idle thread opens no mutex, so it never owns one. *)
LEMMA IdleOwnsNothing ==
    ASSUME IInv, IdleIdles
    PROVE  \A m \in MutexIds : owner[m] # Idle
BY Constants DEF IInv, MutexInv, OwnerOpens, IdleIdles

(* No chain of owners leads to the idle thread. *)
LEMMA BoostSparesIdle ==
    ASSUME IInv, IdleIdles, NEW m \in MutexIds, owner[m] # NULL, NEW prio
    PROVE  mutex_boost(m, prio)[Idle] = 0
<1>. DEFINE others == Slots \ {Idle}
<1>1. \A n \in MutexIds : owner[n] \in others \cup {NULL}
  BY IdleOwnsNothing DEF IInv, TypeOK, MutexTypeOK
<1>2. \A t \in Slots : NextOwner(t) \in others \cup {NULL}
  BY <1>1 DEF NextOwner, IInv, TypeOK, MutexTypeOK
<1>3. others \in ClosedChains(m, prio)
  BY <1>1, <1>2 DEF ClosedChains
<1>4. Idle \notin BoostChain(m, prio) /\ Idle \in Slots
  BY <1>3, Constants DEF BoostChain
<1>. QED
  BY <1>4 DEF mutex_boost, IdleIdles

(* mutex_lock by another task leaves the idle thread alone. *)
LEMMA LockIdle ==
    ASSUME IInv, IdleIdles, task_running # Idle, NEW st \in States,
           st[Idle] \in {"ready", "running"}, NEW m \in MutexIds,
           mutex_lock(m, st)
    PROVE  IdleIdles'
<1>. USE DEF IdleIdles
<1>1. task_running \in Slots /\ Idle \in Slots /\ pc \in [Slots -> Resume]
  BY Constants DEF IInv, TypeOK, TableTypeOK, SchedTypeOK
<1>2. mutexes' = mutexes /\ (LockWait(m, st) \/ LockDone(m, st))
  BY DEF mutex_lock
<1>3. CASE LockWait(m, st)
  <2>. DEFINE st2 == [st EXCEPT ![task_running] = "blocked"]
  <2>1. st2[Idle] \in {"ready", "running"} /\ schedule(st2)
    BY <1>1, <1>3 DEF LockWait, States
  <2>2. state'[Idle] \in {"ready", "running"}
    BY <2>1, ScheduleIdle
  <2>3. priority'[Idle] = 0
    BY <1>3, BoostSparesIdle DEF LockWait, LockBlocks
  <2>. QED
    BY <1>1, <1>2, <1>3, <2>2, <2>3 DEF LockWait
<1>4. CASE LockDone(m, st)
  <2>1. priority'[Idle] = priority[Idle]
    BY <1>1, <1>4, IdleOwnsNothing DEF LockDone, IInv, TypeOK, TableTypeOK
  <2>. QED
    BY <1>1, <1>2, <1>4, <2>1 DEF LockDone
<1>. QED
  BY <1>2, <1>3, <1>4

(* The blocking loops of task.c do, too. *)
LEMMA LoopIdle ==
    ASSUME IInv, IdleIdles, task_running # Idle, NEW st \in States,
           st[Idle] \in {"ready", "running"}, NEW c, NEW tick,
           \/ task_wait(c, st) /\ (st[c] = "zombie" => c # Idle)
           \/ task_sleep_until_tick(tick, st)
           \/ task_wait_key(st),
           UNCHANGED <<priority, mutexes>>
    PROVE  IdleIdles'
<1>. USE DEF IdleIdles
<1>1. task_running \in Slots /\ Idle \in Slots /\ pc \in [Slots -> Resume]
  BY Constants DEF IInv, TypeOK, TableTypeOK, SchedTypeOK
<1>2. ASSUME NEW s, NEW at, Block(s, at, st)
      PROVE  IdleIdles'
  <2>. DEFINE st2 == [st EXCEPT ![task_running] = s]
  <2>1. st2[Idle] \in {"ready", "running"} /\ schedule(st2)
    BY <1>1, <1>2 DEF Block, States
  <2>2. state'[Idle] \in {"ready", "running"}
    BY <2>1, ScheduleIdle
  <2>. QED
    BY <1>1, <1>2, <2>2 DEF Block
<1>3. ASSUME NEW st2, Return(st2), st2[Idle] \in {"ready", "running"}
      PROVE  IdleIdles'
  BY <1>1, <1>3 DEF Return
<1>4. CASE task_wait(c, st) /\ (st[c] = "zombie" => c # Idle)
  BY <1>1, <1>2, <1>3, <1>4 DEF task_wait, States
<1>5. CASE task_sleep_until_tick(tick, st)
  BY <1>2, <1>3, <1>5 DEF task_sleep_until_tick
<1>6. CASE task_wait_key(st)
  BY <1>2, <1>3, <1>6 DEF task_wait_key
<1>. QED
  BY <1>4, <1>5, <1>6

(* So do the steps that only wake tasks and move the running one on. *)
LEMMA WakeIdle ==
    ASSUME IInv, IdleIdles,
           state' = state \/ (\E S : state' = Woken(S, state)) \/ state' = Reaped,
           pc'[Idle] \in IdlePoints, priority'[Idle] = 0, mutexes'[Idle] = {}
    PROVE  IdleIdles'
BY Constants DEF IdleIdles, Woken, Reaped

(* The calls that leave the states to the tasks they wake, and what they  *)
(* do to the idle thread                                                   *)
LEMMA CallsIdle ==
    ASSUME IInv, IdleIdles, task_running # Idle,
           \/ SysRun \/ SysSpawn \/ SysKill \/ SysPeriod \/ SysSetprio
           \/ SysSched \/ SysYield \/ SysMutexOpen \/ SysMutexUnlock
           \/ SysMutexClose \/ SysIgnoreCtrlC \/ SysOther
           \/ Resumed \/ InitStartsShell
    PROVE  IdleIdles'
<1>. USE DEF mutexVars, schedVars, taskVars
<1>1. /\ task_running \in Slots /\ Idle \in Slots
      /\ state \in States /\ pc \in [Slots -> Resume]
      /\ priority \in [Slots -> Priority]
      /\ mutexes \in [Slots -> SUBSET MutexIds]
  BY Constants
     DEF IInv, TypeOK, TableTypeOK, SchedTypeOK, MutexTypeOK, States
<1>2. Returns => pc'[Idle] = pc[Idle]
  BY <1>1 DEF Returns
<1>3. ASSUME NEW prio, NEW background, NEW shell,
             task_spawn(prio, background, shell)
      PROVE  IdleIdles'
  <2>1. Min(FreeSlots) \in Slots /\ Min(FreeSlots) # Idle
    BY <1>3, FreshSlot DEF task_spawn, IdleIdles
  <2>2. /\ state' = Woken({Min(FreeSlots)}, state)
        /\ pc'[Idle] = pc[Idle] /\ priority'[Idle] = priority[Idle]
        /\ mutexes'[Idle] = mutexes[Idle]
    BY <1>1, <1>3, <2>1 DEF task_spawn, sched_wake
  <2>. QED
    BY <2>2, WakeIdle DEF IdleIdles
<1>4. CASE SysRun \/ SysSpawn \/ InitStartsShell
  BY <1>3, <1>4 DEF SysRun, SysSpawn, InitStartsShell
<1>5. CASE SysKill
  <2>1. PICK t \in Slots : ~ IsKernel(t) /\ task_kill({t})
    BY <1>5 DEF SysKill
  <2>2. priority'[Idle] = priority[Idle] /\ \E S : state' = Woken(S, state)
    BY <1>1, <2>1 DEF task_kill, sched_wake, IsKernel
  <2>3. pc'[Idle] = pc[Idle] /\ mutexes' = mutexes
    BY <1>2, <1>5 DEF SysKill
  <2>. QED
    BY <2>2, <2>3, WakeIdle DEF IdleIdles
<1>6. CASE SysSetprio
  <2>1. priority'[Idle] = priority[Idle]
    BY <1>1, <1>6 DEF SysSetprio, task_set_priority, IsKernel
  <2>2. pc'[Idle] = pc[Idle] /\ mutexes' = mutexes /\ state' = state
    BY <1>2, <1>6 DEF SysSetprio
  <2>. QED
    BY <2>1, <2>2, WakeIdle DEF IdleIdles
<1>7. CASE SysPeriod \/ SysSched \/ SysYield \/ SysIgnoreCtrlC \/ SysOther
  <2>1. /\ pc'[Idle] = pc[Idle] /\ mutexes' = mutexes /\ state' = state
        /\ priority' = priority
    BY <1>2, <1>7 DEF SysPeriod, SysSched, SysYield, SysIgnoreCtrlC, SysOther
  <2>. QED
    BY <2>1, WakeIdle DEF IdleIdles
<1>8. CASE Resumed
  <2>1. /\ pc'[Idle] = pc[Idle] /\ mutexes' = mutexes /\ state' = Reaped
        /\ priority' = priority
    BY <1>1, <1>8 DEF Resumed
  <2>. QED
    BY <2>1, WakeIdle DEF IdleIdles
<1>9. CASE SysMutexOpen
  <2>1. PICK n \in MutexNames, inh \in InheritFlags : mutex_open(n, inh)
    BY <1>9 DEF SysMutexOpen
  <2>2. /\ mutexes'[Idle] = mutexes[Idle]
        /\ priority' = priority /\ state' = state
    BY <1>1, <2>1 DEF mutex_open
  <2>3. pc'[Idle] = pc[Idle]
    BY <1>2, <1>9 DEF SysMutexOpen
  <2>. QED
    BY <2>2, <2>3, WakeIdle DEF IdleIdles
<1>10. CASE SysMutexUnlock \/ SysMutexClose
  <2>1. ASSUME NEW ms, mutex_hand_over(ms, task_running)
        PROVE  /\ priority'[Idle] = priority[Idle]
               /\ \E S : state' = Woken(S, state)
    BY <1>1, <2>1 DEF mutex_hand_over
  <2>2. PICK m \in MutexIds : mutex_unlock(m) \/ mutex_close(m)
    BY <1>10 DEF SysMutexUnlock, SysMutexClose
  <2>3. /\ priority'[Idle] = priority[Idle]
        /\ state' = state \/ \E S : state' = Woken(S, state)
    BY <2>1, <2>2 DEF mutex_unlock, mutex_close
  <2>4. mutexes'[Idle] = mutexes[Idle]
    BY <1>1, <2>2 DEF mutex_unlock, mutex_close, ForgetMutexes
  <2>5. pc'[Idle] = pc[Idle]
    BY <1>2, <1>10 DEF SysMutexUnlock, SysMutexClose
  <2>. QED
    BY <2>3, <2>4, <2>5, WakeIdle DEF IdleIdles
<1>. QED
  BY <1>4, <1>5, <1>6, <1>7, <1>8, <1>9, <1>10

(* Every step keeps the idle thread as it is. *)
LEMMA IdleStep ==
    ASSUME IInv, IdleIdles, [Next]_vars
    PROVE  IdleIdles'
<1>. USE DEF mutexVars, schedVars, taskVars
<1>1. /\ task_running \in Slots /\ Idle \in Slots
      /\ state \in States /\ Reaped \in States /\ pc \in [Slots -> Resume]
      /\ priority \in [Slots -> Priority]
      /\ mutexes \in [Slots -> SUBSET MutexIds]
      /\ state[Idle] \in {"ready", "running"}
      /\ Reaped[Idle] \in {"ready", "running"}
  BY Constants, StatesIn
     DEF IInv, TypeOK, TableTypeOK, SchedTypeOK, MutexTypeOK, States, TaskState,
         IdleIdles, Reaped
<1>2. CASE Interrupt
  <2>1. pc'[Idle] \in IdlePoints
    <3>1. Interrupted
      BY <1>2 DEF Interrupt, TimerInterrupt, KeyInterrupt, CtrlC, MouseInterrupt
    <3>. QED
      BY <1>1, <3>1 DEF Interrupted, IdleIdles, IdlePoints
  <2>2. /\ mutexes' = mutexes
        /\ state' = state \/ \E S : state' = Woken(S, state)
    BY <1>2 DEF Interrupt, TimerInterrupt, KeyInterrupt, CtrlC, MouseInterrupt,
       sched_wake, sched_tick
  <2>3. priority'[Idle] = priority[Idle]
    BY <1>1, <1>2 DEF Interrupt, TimerInterrupt, KeyInterrupt, CtrlC,
       MouseInterrupt, ForegroundTasks, IsKernel
  <2>. QED
    BY <2>1, <2>2, <2>3, WakeIdle DEF IdleIdles
<1>3. CASE IdleHalts \/ IdleSchedules \/ IdleResumes
  <2>1. pc'[Idle] \in IdlePoints
    BY <1>1, <1>3 DEF IdleHalts, IdleSchedules, IdleResumes, IdlePoints
  <2>2. state'[Idle] \in {"ready", "running"}
    BY <1>1, <1>3, ScheduleIdle DEF IdleHalts, IdleSchedules, IdleResumes
  <2>3. priority' = priority /\ mutexes' = mutexes
    BY <1>3 DEF IdleHalts, IdleSchedules, IdleResumes
  <2>. QED
    BY <2>1, <2>2, <2>3 DEF IdleIdles
<1>4. CASE UNCHANGED vars
  BY <1>4 DEF vars, tableVars, IdleIdles
<1>5. ASSUME Syscall \/ Exit \/ ReturnToUser \/ Resumed \/ LockResumes
             \/ WaitResumes \/ SleepResumes \/ KeyResumes \/ InitStartsShell
             \/ InitWaits \/ InitSleeps
      PROVE  task_running # Idle
  <2>1. pc[Idle] \notin {"user", "return", "resumed", "lock", "wait", "sleep",
                         "key"}
    BY DEF IdleIdles, IdlePoints
  <2>2. Syscall => pc[task_running] = "user"
    BY DEF Syscall, Calls, SysRun, SysSpawn, SysWait, SysKill, SysSleep,
       SysGetchar, SysPeriod, SysWaitPeriod, SysSetprio, SysSched, SysYield,
       SysMutexOpen, SysMutexLock, SysMutexUnlock, SysMutexClose,
       SysIgnoreCtrlC, SysOther
  <2>. QED
    BY <1>5, <2>1, <2>2, Constants DEF Exit, ReturnToUser, Resumed, LockResumes,
       WaitResumes, SleepResumes, KeyResumes, InitStartsShell, InitWaits,
       InitSleeps, IsKernel
<1>6. CASE \/ SysRun \/ SysSpawn \/ SysKill \/ SysPeriod \/ SysSetprio
           \/ SysSched \/ SysYield \/ SysMutexOpen \/ SysMutexUnlock
           \/ SysMutexClose \/ SysIgnoreCtrlC \/ SysOther
           \/ Resumed \/ InitStartsShell
  BY <1>5, <1>6, CallsIdle DEF Syscall
<1>7. CASE SysMutexLock \/ LockResumes
  <2>1. CASE SysMutexLock
    BY <1>1, <1>5, <2>1, LockIdle DEF SysMutexLock, Syscall
  <2>2. CASE LockResumes
    <3>1. wait_mutex[task_running] \in MutexIds
      BY <1>1, <2>2 DEF LockResumes, IInv, MutexInv, LockPoint, TypeOK, MutexTypeOK
    <3>. QED
      BY <1>1, <1>5, <2>2, <3>1, LockIdle DEF LockResumes
  <2>. QED
    BY <1>7, <2>1, <2>2
<1>8. CASE SysWait \/ InitWaits \/ WaitResumes
  BY <1>1, <1>5, <1>8, LoopIdle DEF SysWait, InitWaits, WaitResumes, Syscall
<1>9. CASE SysSleep \/ SysWaitPeriod \/ SleepResumes
  BY <1>1, <1>5, <1>9, LoopIdle DEF SysSleep, SysWaitPeriod, SleepResumes, Syscall,
     task_wait_period
<1>10. CASE SysGetchar \/ KeyResumes
  BY <1>1, <1>5, <1>10, LoopIdle DEF SysGetchar, KeyResumes, Syscall
<1>11. CASE InitSleeps
  <2>. DEFINE st == [Reaped EXCEPT ![task_running] = "sleeping"]
  <2>1. st[Idle] \in {"ready", "running"} /\ schedule(st) /\ pc'[Idle] = pc[Idle]
    BY <1>1, <1>5, <1>11 DEF InitSleeps, Block, States
  <2>2. state'[Idle] \in {"ready", "running"}
    BY <2>1, ScheduleIdle
  <2>. QED
    BY <1>11, <2>1, <2>2 DEF InitSleeps, IdleIdles
<1>12. CASE ReturnToUser
  <2>1. state'[Idle] \in {"ready", "running"}
    BY <1>1, <1>12, ScheduleIdle DEF ReturnToUser
  <2>2. pc'[Idle] = pc[Idle] /\ priority' = priority /\ mutexes' = mutexes
    BY <1>1, <1>5, <1>12 DEF ReturnToUser
  <2>. QED
    BY <2>1, <2>2 DEF IdleIdles
<1>13. CASE Exit
  <2>. DEFINE r == task_running
              released == Woken(Heirs(Owned(r), state), state)
              wakes == {p \in Slots : /\ p = parent[r]
                                      /\ state[p] = "wait"
                                      /\ wait_pid[p] = r}
              st == [Woken(wakes, released) EXCEPT ![r] = "zombie"]
  <2>1. schedule(st) /\ pc' = pc
    BY <1>13 DEF Exit, task_exit
  <2>2. st[Idle] \in {"ready", "running"}
    BY <1>1, <1>5, <1>13 DEF Woken
  <2>. HIDE DEF st
  <2>3. state'[Idle] \in {"ready", "running"}
    BY <2>1, <2>2, ScheduleIdle
  <2>4. priority'[Idle] = priority[Idle] /\ mutexes'[Idle] = mutexes[Idle]
    BY <1>1, <1>5, <1>13 DEF Exit, task_exit, ForgetMutexes
  <2>. QED
    BY <2>1, <2>3, <2>4 DEF IdleIdles
<1>. QED
  BY <1>2, <1>3, <1>4, <1>6, <1>7, <1>8, <1>9, <1>10, <1>11, <1>12, <1>13
     DEF Next, Syscall, KernelStep

-----------------------------------------------------------------------------
(* Who the scan of the task table ends with *)

(* It visits every slot once. *)
LEMMA ScanInjective ==
    ASSUME task_running \in Slots, NEW a \in Slots, NEW b \in Slots, a # b
    PROVE  /\ ScanOrder(a) \in Nat /\ ScanOrder(b) \in Nat
           /\ ScanOrder(a) # ScanOrder(b)
<1>1. ASSUME NEW t \in Slots
      PROVE  ScanOrder(t) = IF t <= task_running
                            THEN t - task_running - 1 + MAX_TASKS
                            ELSE t - task_running - 1
  <2>1. t \in Nat /\ task_running \in Nat /\ t < MAX_TASKS
        /\ task_running < MAX_TASKS
    BY DEF Slots
  <2>2. CASE t <= task_running
    <3>. DEFINE x == t - task_running - 1 + MAX_TASKS
    <3>1. x \in 0 .. MAX_TASKS - 1 /\ x = t + MAX_TASKS - task_running - 1
      BY <2>1, <2>2
    <3>. HIDE DEF x
    <3>2. x % MAX_TASKS = x
      BY <3>1, ModIn
    <3>. QED
      BY <2>2, <3>1, <3>2 DEF ScanOrder, x
  <2>3. CASE t > task_running
    <3>. DEFINE x == t - task_running - 1
    <3>1. x \in 0 .. MAX_TASKS - 1
          /\ x + MAX_TASKS = t + MAX_TASKS - task_running - 1
      BY <2>1, <2>3
    <3>2. ~ (t <= task_running)
      BY <2>1, <2>3
    <3>. HIDE DEF x
    <3>3. (x + MAX_TASKS) % MAX_TASKS = x
      BY <3>1, ModIn
    <3>. QED
      BY <3>1, <3>2, <3>3 DEF ScanOrder, x
  <2>. QED
    BY <2>1, <2>2, <2>3
<1>. QED
  BY <1>1 DEF Slots

(* Under fixed priorities there is a best candidate. *)
LEMMA BestExists ==
    ASSUME NEW st, policy' = "real_time", priority' \in [Slots -> Priority],
           task_running \in Slots, Candidates(st) # {}
    PROVE  \E b \in Candidates(st) : Best(b, st)
<1>. DEFINE C == Candidates(st)
            P == {priority'[t] : t \in C}
            Q == {t \in C : priority'[t] = Max(P)}
            O == {ScanOrder(t) : t \in Q}
<1>1. C \subseteq Slots /\ \A t \in C : priority'[t] \in Nat
  BY DEF Candidates, Priority
<1>2. P \in SUBSET (0 .. TASK_PRIORITY_MAX) /\ P # {}
  BY <1>1 DEF Priority
<1>3. Max(P) \in P /\ \A p \in P : Max(P) >= p
  <2>. HIDE DEF P
  <2>. QED
    BY <1>2, MaxIn
<1>4. \A t \in Slots : ScanOrder(t) \in Nat
  <2>. SUFFICES ASSUME NEW t \in Slots
                PROVE  ScanOrder(t) \in Nat
    OBVIOUS
  <2>1. PICK u \in Slots : u # t
    BY Constants
  <2>. QED
    BY <2>1, ScanInjective
<1>5. O \in SUBSET Nat /\ O # {}
  BY <1>1, <1>3, <1>4
<1>6. Min(O) \in O /\ \A o \in O : Min(O) <= o
  <2>. HIDE DEF O
  <2>. QED
    BY <1>5, MinIn
<1>7. PICK b \in Q : ScanOrder(b) = Min(O)
  BY <1>6
<1>8. ASSUME NEW o \in C \ {b}
      PROVE  Preferred(b, o)
  <2>1. /\ priority'[b] = Max(P) /\ priority'[b] \in Nat
        /\ priority'[o] \in Nat /\ priority'[o] <= priority'[b]
    BY <1>1, <1>3, <1>7
  <2>2. CASE priority'[o] # priority'[b]
    BY <2>1, <2>2 DEF Preferred, sched_runs_before
  <2>3. CASE priority'[o] = priority'[b]
    <3>1. ScanOrder(b) <= ScanOrder(o)
      <4>1. o \in Q
        BY <1>1, <1>8, <2>1, <2>3
      <4>2. ScanOrder(o) \in O
        BY <4>1
      <4>. QED
        BY ONLY <1>6, <1>7, <4>2
    <3>2. ScanOrder(b) < ScanOrder(o)
      <4>. HIDE DEF Q, O, C
      <4>1. b \in Slots /\ o \in Slots /\ b # o
        BY <1>1, <1>7, <1>8 DEF Q
      <4>. QED
        BY <3>1, <4>1, ScanInjective
    <3>. QED
      BY <2>1, <2>3, <3>2 DEF Preferred, sched_runs_before
  <2>. QED
    BY <2>2, <2>3
<1>. QED
  BY <1>7, <1>8 DEF Best

(* After schedule() no ready task outranks the running one. *)
LEMMA ScheduleAnswers ==
    ASSUME TypeOK, NEW st, schedule(st), priority' \in [Slots -> Priority]
    PROVE  Asked' /\ AskedOnReturn'
<1>1. /\ need_resched' = FALSE /\ task_running' = sched_pick_next(st)
      /\ task_running \in Slots
  BY DEF schedule, TypeOK, SchedTypeOK
<1>2. ASSUME NEW next, next = sched_pick_next(st), next # Idle,
             NEW t \in Slots \ {Idle}, state'[t] = "ready"
      PROVE  ~ Outranks(t, next)'
  <2>1. t # next /\ t \in Candidates(st)
    BY <1>2 DEF schedule, Candidates, task_runnable
  <2>2. /\ next \in Candidates(st) /\ FirstClass(next, st)
        /\ Best(next, st) \/ ~ \E b \in Candidates(st) : Best(b, st)
    BY <1>2, <2>1, PickFirst
  <2>3. /\ priority'[t] \in Nat /\ priority'[next] \in Nat
        /\ \A u : EdfRank(u)' = sched_edf_class(u)
        /\ \A u : sched_edf_class(u) \in {0, 1, 2}
    BY <2>1, <2>2 DEF Candidates, Priority, EdfRank, sched_edf_class
  <2>4. CASE policy' = "edf"
    <3>1. sched_edf_class(next) <= sched_edf_class(t)
      BY <2>1, <2>2, <2>4 DEF FirstClass
    <3>2. ~ (EdfRank(t)' < EdfRank(next)')
      <4>. HIDE DEF EdfRank
      <4>. QED
        BY <2>3, <3>1
    <3>. QED
      BY <2>4, <3>2 DEF Outranks
  <2>5. CASE policy' = "real_time"
    <3>1. Best(next, st)
      BY <1>1, <2>1, <2>2, <2>5, BestExists
    <3>2. Preferred(next, t)
      BY <2>1, <3>1 DEF Best
    <3>3. ~ (priority'[t] > priority'[next])
      BY <2>3, <2>5, <3>2 DEF Preferred, sched_runs_before
    <3>. QED
      BY <2>5, <3>3 DEF Outranks
  <2>. QED
    BY <2>4, <2>5 DEF Outranks
<1>3. Asked'
  BY <1>1, <1>2 DEF Asked, Outranks, EdfRank
<1>. QED
  BY <1>1, <1>3 DEF AskedOnReturn

-----------------------------------------------------------------------------
(* The other steps ask for a switch where one is due *)

(***************************************************************************)
(* Unless it asks for a switch, the step wakes tasks S that do not preempt *)
(* the running one, and lets no other ready task rise above it.            *)
(***************************************************************************)
Rises(S) ==
    ~ need_resched' =>
        /\ ~ need_resched /\ ~ WakePreempts(S)
        /\ period'[task_running] = period[task_running]
        /\ priority'[task_running] >= priority[task_running]
        /\ \A t \in Slots \ {Idle} : state'[t] = "ready" /\ ~ killed'[t] =>
             \/ t \in S
             \/ /\ state[t] = "ready" /\ ~ killed[t]
                /\ priority'[t] = priority[t] /\ period'[t] = period[t]

(* Such a step leaves no task that outranks the running one unnoticed. *)
LEMMA AskKeeps ==
    ASSUME TypeOK, TypeOK', Asked, NEW S, Rises(S),
           task_running' = task_running, policy' = policy
    PROVE  Asked'
<1>. SUFFICES ASSUME ~ need_resched', task_running # Idle,
                     NEW t \in Slots \ {Idle}, state'[t] = "ready", ~ killed'[t]
              PROVE  ~ Outranks(t, task_running)'
  BY DEF Asked, Outranks, EdfRank
<1>. DEFINE r == task_running
<1>1. /\ r \in Slots
      /\ \A u \in Slots : /\ priority[u] \in Nat /\ priority'[u] \in Nat
                          /\ period[u] \in Nat /\ period'[u] \in Nat
  BY DEF TypeOK, TableTypeOK, SchedTypeOK, Priority
<1>2. /\ ~ need_resched /\ ~ WakePreempts(S)
      /\ period'[r] = period[r] /\ priority'[r] >= priority[r]
  BY DEF Rises
<1>3. CASE t \in S
  <2>1. policy' # "round_robin" => ~ sched_runs_before(t, r)
    BY <1>2, <1>3 DEF WakePreempts
  <2>. QED
    BY <1>1, <2>1 DEF sched_runs_before, Outranks, EdfRank, sched_edf_class
<1>4. CASE t \notin S
  <2>1. /\ state[t] = "ready" /\ ~ killed[t]
        /\ priority'[t] = priority[t] /\ period'[t] = period[t]
    BY <1>4 DEF Rises
  <2>2. ~ Outranks(t, r)
    BY <1>2, <2>1 DEF Asked
  <2>. QED
    BY <1>1, <1>2, <2>1, <2>2 DEF Outranks, EdfRank
<1>. QED
  BY <1>3, <1>4

(* The blocking loops of task.c switch, or they change nobody's rank. *)
LEMMA LoopAsks ==
    ASSUME TypeOK, TypeOK', Asked, NEW st \in {state, Reaped}, NEW c, NEW tick,
           \/ task_wait(c, st)
           \/ task_sleep_until_tick(tick, st)
           \/ task_wait_key(st),
           pc[task_running] # "resumed",
           UNCHANGED <<policy, priority, period, killed>>
    PROVE  Asked' /\ AskedOnReturn'
<1>1. /\ task_running \in Slots /\ pc \in [Slots -> Resume]
      /\ priority' \in [Slots -> Priority]
      /\ \A t \in Slots : priority[t] \in Nat
  BY DEF TypeOK, TableTypeOK, SchedTypeOK, Priority
<1>2. ASSUME NEW s, NEW at, Block(s, at, st)
      PROVE  Asked' /\ AskedOnReturn'
  BY <1>1, <1>2, ScheduleAnswers DEF Block
<1>3. ASSUME NEW st2, Return(st2), \A t \in Slots : st2[t] = "ready" => st[t] = "ready"
      PROVE  Asked' /\ AskedOnReturn'
  <2>1. /\ task_running' = task_running /\ need_resched' = need_resched
        /\ state' = st2 /\ pc'[task_running] \in {"init", "return"}
    BY <1>1, <1>3 DEF Return
  <2>2. \A t \in Slots : state'[t] = "ready" => state[t] = "ready"
    BY <1>3, <2>1 DEF Reaped
  <2>3. Rises({})
    BY <1>1, <2>1, <2>2 DEF Rises, WakePreempts
  <2>. QED
    BY <2>1, <2>3, AskKeeps DEF AskedOnReturn
<1>4. CASE task_wait(c, st)
  <2>1. \A t \in Slots : [st EXCEPT ![c] = "unused"][t] = "ready" => st[t] = "ready"
    BY DEF Reaped, TypeOK, TableTypeOK
  <2>. QED
    BY <1>2, <1>3, <1>4, <2>1 DEF task_wait
<1>5. CASE task_sleep_until_tick(tick, st)
  BY <1>2, <1>3, <1>5 DEF task_sleep_until_tick
<1>6. CASE task_wait_key(st)
  BY <1>2, <1>3, <1>6 DEF task_wait_key
<1>. QED
  BY <1>4, <1>5, <1>6

(***************************************************************************)
(* mutex_lock switches, or it asks for a switch if the wait it gives up    *)
(* had raised the owner.                                                   *)
(***************************************************************************)
LEMMA LockAsks ==
    ASSUME TypeOK, TypeOK', Asked, NEW st \in {state, Reaped}, NEW m \in MutexIds,
           mutex_lock(m, st), UNCHANGED <<policy, period, killed>>
    PROVE  Asked' /\ AskedOnReturn'
<1>1. /\ task_running \in Slots /\ pc \in [Slots -> Resume]
      /\ owner[m] \in Slots \cup {NULL}
      /\ priority' \in [Slots -> Priority]
      /\ \A t \in Slots : priority[t] \in Nat /\ priority'[t] \in Nat
  BY DEF TypeOK, TableTypeOK, SchedTypeOK, MutexTypeOK, Priority
<1>2. CASE LockWait(m, st)
  BY <1>1, <1>2, ScheduleAnswers DEF LockWait
<1>3. CASE LockDone(m, st)
  <2>1. /\ task_running' = task_running /\ state' = st
        /\ pc'[task_running] = "return"
    BY <1>1, <1>3 DEF LockDone
  <2>2. \A t \in Slots : state'[t] = "ready" => state[t] = "ready"
    BY <2>1 DEF Reaped
  <2>3. ~ need_resched' => ~ need_resched /\ priority' = priority
    <3>. SUFFICES ASSUME ~ need_resched'
                  PROVE  ~ need_resched /\ priority' = priority
      OBVIOUS
    <3>. DEFINE held == owner[m] \notin {NULL, task_running}
    <3>1. ~ need_resched /\ (held => killed[owner[m]])
      BY <1>3 DEF LockDone
    <3>2. CASE held
      <4>1. priority' = [priority EXCEPT ![owner[m]] = priority[owner[m]]]
        BY <1>3, <3>1, <3>2 DEF LockDone, mutex_update_priority
      <4>. QED
        BY <3>1, <4>1 DEF TypeOK, TableTypeOK
    <3>3. CASE ~ held
      BY <1>3, <3>1, <3>3 DEF LockDone
    <3>. QED
      BY <3>2, <3>3
  <2>4. Rises({})
    BY <1>1, <2>2, <2>3 DEF Rises, WakePreempts
  <2>. QED
    BY <2>1, <2>4, AskKeeps DEF AskedOnReturn
<1>. QED
  BY <1>2, <1>3 DEF mutex_lock

(* task_spawn asks for a switch if the new task outranks its parent. *)
LEMMA SpawnAsks ==
    ASSUME TypeOK, TypeOK', OneRunning, Asked, NEW prio, NEW background,
           NEW shell, task_spawn(prio, background, shell)
    PROVE  Asked' /\ AskedOnReturn'
<1>. DEFINE n == Min(FreeSlots)
<1>1. n \in Slots /\ state[n] = "unused"
  BY FreshSlot DEF task_spawn
<1>2. /\ task_running \in Slots /\ n # task_running
      /\ priority[task_running] \in Nat
  BY <1>1 DEF TypeOK, TableTypeOK, SchedTypeOK, OneRunning, Priority
<1>3. /\ state' = [t \in Slots |-> IF t \in {n} THEN "ready" ELSE state[t]]
      /\ need_resched' = (need_resched \/ WakePreempts({n}))
      /\ task_running' = task_running /\ policy' = policy
      /\ priority' = [priority EXCEPT ![n] = prio]
      /\ period' = [period EXCEPT ![n] = 0]
      /\ killed' = [killed EXCEPT ![n] = FALSE]
      /\ pc' = [pc EXCEPT ![n] = "user",
                   ![task_running] = IF task_running = InitThread
                                     THEN "init" ELSE "return"]
  BY DEF task_spawn, sched_wake, Woken
<1>. HIDE DEF n
<1>4. \A t \in Slots : t # n => /\ state'[t] = state[t]
                                /\ priority'[t] = priority[t]
                                /\ period'[t] = period[t]
                                /\ killed'[t] = killed[t]
  BY <1>3 DEF TypeOK, TableTypeOK
<1>5. pc'[task_running] \in {"init", "return"}
  BY <1>2, <1>3 DEF TypeOK, TableTypeOK
<1>6. ~ need_resched' => ~ need_resched /\ ~ WakePreempts({n})
  BY <1>3
<1>7. Rises({n})
  BY <1>2, <1>4, <1>6 DEF Rises
<1>. QED
  BY <1>3, <1>5, <1>7, AskKeeps DEF AskedOnReturn

(* task_kill and ctrl+c raise only tasks they kill. *)
LEMMA KillAsks ==
    ASSUME TypeOK, TypeOK', Asked, NEW ts, NEW S,
           killed' = [t \in Slots |-> t \in ts \/ killed[t]],
           priority' = [t \in Slots |-> IF t \in ts THEN TASK_PRIORITY_MAX
                                        ELSE priority[t]],
           sched_wake(S, state), UNCHANGED <<policy, period, task_running>>
    PROVE  Asked'
<1>1. \A t \in Slots : priority[t] \in Nat /\ priority[t] <= TASK_PRIORITY_MAX
  BY DEF TypeOK, TableTypeOK, Priority
<1>2. task_running \in Slots
  BY DEF TypeOK, SchedTypeOK
<1>3. ~ need_resched' => ~ need_resched /\ ~ WakePreempts(S)
  BY DEF sched_wake
<1>4. ASSUME NEW t \in Slots, state'[t] = "ready", ~ killed'[t]
      PROVE  /\ t \in S \/ state[t] = "ready"
             /\ ~ killed[t] /\ priority'[t] = priority[t]
  BY <1>4 DEF sched_wake, Woken
<1>5. priority'[task_running] >= priority[task_running]
  BY <1>1, <1>2
<1>6. Rises(S)
  BY <1>2, <1>3, <1>4, <1>5 DEF Rises
<1>. QED
  BY <1>6, AskKeeps

(* The unlock of a killed task is the only one that may not ask. *)
LEMMA HandOverAsks ==
    ASSUME TypeOK, TypeOK', Asked, NEW ms, mutex_hand_over(ms, task_running),
           UNCHANGED <<policy, period, killed, task_running>>
    PROVE  Asked'
<1>1. task_running \in Slots /\ \A t \in Slots : priority[t] \in Nat
  BY DEF TypeOK, TableTypeOK, SchedTypeOK, Priority
<1>2. ~ need_resched' => /\ ~ need_resched /\ ~ WakePreempts(Heirs(ms, state))
                         /\ killed[task_running]
  BY DEF mutex_hand_over
<1>3. killed[task_running] => priority' = priority
  <2>1. killed[task_running] =>
            priority' = [priority EXCEPT ![task_running] = priority[task_running]]
    BY DEF mutex_hand_over, mutex_update_priority
  <2>. QED
    BY <2>1 DEF TypeOK, TableTypeOK
<1>4. \A t \in Slots : state'[t] = "ready" =>
            state[t] = "ready" \/ t \in Heirs(ms, state)
  BY DEF mutex_hand_over, Woken
<1>5. Rises(Heirs(ms, state))
  BY <1>1, <1>2, <1>3, <1>4 DEF Rises
<1>. QED
  BY <1>5, AskKeeps

(* A step that changes no rank, wakes nobody and takes back no request *)
LEMMA CalmAsks ==
    ASSUME TypeOK, TypeOK', Asked,
           UNCHANGED <<policy, priority, period, killed, task_running>>,
           \A t \in Slots : state'[t] = "ready" => state[t] = "ready",
           need_resched' = need_resched
    PROVE  Asked'
<1>1. task_running \in Slots /\ \A t \in Slots : priority[t] \in Nat
  BY DEF TypeOK, TableTypeOK, SchedTypeOK, Priority
<1>2. Rises({})
  BY <1>1 DEF Rises, WakePreempts
<1>. QED
  BY <1>2, AskKeeps

(* Every step asks for a switch where one is due. *)
LEMMA AskStep ==
    ASSUME IInv, TypeOK', IdleIdles, Asked, AskedOnReturn, [Next]_vars
    PROVE  Asked' /\ AskedOnReturn'
<1>. USE DEF mutexVars, schedVars, taskVars
<1>1. /\ TypeOK /\ OneRunning /\ task_running \in Slots
      /\ pc \in [Slots -> Resume] /\ priority' \in [Slots -> Priority]
      /\ state \in {state, Reaped} /\ Reaped \in {state, Reaped}
      /\ \A t \in Slots : Reaped[t] = "ready" => state[t] = "ready"
  BY DEF IInv, TypeOK, TableTypeOK, SchedTypeOK, Reaped
<1>2. ASSUME Returns \/ Interrupted, task_running' = task_running
      PROVE  AskedOnReturn'
  <2>1. pc'[task_running] \notin {"user", "resumed"}
    BY <1>1, <1>2 DEF Returns, Interrupted, InterruptsOn
  <2>. QED
    BY <1>2, <2>1 DEF AskedOnReturn
<1>3. CASE SysRun \/ SysSpawn \/ InitStartsShell
  BY <1>1, <1>3, SpawnAsks DEF SysRun, SysSpawn, InitStartsShell
<1>4. CASE SysWait \/ InitWaits \/ WaitResumes
  <2>1. pc[task_running] # "resumed"
    BY <1>4 DEF SysWait, InitWaits, WaitResumes, Calls
  <2>. QED
    BY <1>1, <1>4, <2>1, LoopAsks DEF SysWait, InitWaits, WaitResumes
<1>5. CASE SysSleep \/ SysWaitPeriod \/ SleepResumes
  <2>1. pc[task_running] # "resumed"
    BY <1>5 DEF SysSleep, SysWaitPeriod, SleepResumes, Calls
  <2>. QED
    BY <1>1, <1>5, <2>1, LoopAsks
       DEF SysSleep, SysWaitPeriod, SleepResumes, task_wait_period
<1>6. CASE SysGetchar \/ KeyResumes
  <2>1. pc[task_running] # "resumed"
    BY <1>6 DEF SysGetchar, KeyResumes, Calls
  <2>. QED
    BY <1>1, <1>6, <2>1, LoopAsks DEF SysGetchar, KeyResumes
<1>7. CASE SysKill
  BY <1>1, <1>2, <1>7, KillAsks DEF SysKill, task_kill
<1>8. CASE SysPeriod \/ SysSetprio \/ SysSched \/ SysYield
  <2>1. need_resched' = TRUE /\ task_running' = task_running /\ Returns
    BY <1>8 DEF SysPeriod, SysSetprio, SysSched, SysYield, task_set_period,
       task_set_priority
  <2>. QED
    BY <1>2, <2>1 DEF Asked
<1>9. CASE SysMutexLock \/ LockResumes
  <2>1. CASE SysMutexLock
    BY <1>1, <2>1, LockAsks DEF SysMutexLock
  <2>2. CASE LockResumes
    <3>1. wait_mutex[task_running] \in MutexIds
      BY <1>1, <2>2 DEF LockResumes, IInv, MutexInv, LockPoint, TypeOK, MutexTypeOK
    <3>. QED
      BY <1>1, <2>2, <3>1, LockAsks DEF LockResumes
  <2>. QED
    BY <1>9, <2>1, <2>2
<1>10. CASE SysMutexUnlock \/ SysMutexClose
  <2>1. PICK m \in MutexIds : mutex_unlock(m) \/ mutex_close(m)
    BY <1>10 DEF SysMutexUnlock, SysMutexClose
  <2>2. /\ Returns
        /\ UNCHANGED <<policy, period, killed, task_running>>
    BY <1>10 DEF SysMutexUnlock, SysMutexClose
  <2>3. \/ mutex_hand_over({m}, task_running)
        \/ UNCHANGED <<priority, state, need_resched>>
    BY <2>1 DEF mutex_unlock, mutex_close
  <2>. QED
    BY <1>1, <1>2, <2>2, <2>3, HandOverAsks, CalmAsks
<1>11. CASE SysMutexOpen \/ SysIgnoreCtrlC \/ SysOther
  <2>1. /\ Returns
        /\ UNCHANGED <<policy, priority, period, killed, task_running, state,
                       need_resched>>
    BY <1>11 DEF SysMutexOpen, SysIgnoreCtrlC, SysOther, mutex_open
  <2>. QED
    BY <1>1, <1>2, <2>1, CalmAsks
<1>12. CASE Exit \/ IdleSchedules
  <2>1. \E st : schedule(st)
    BY <1>12 DEF Exit, task_exit, IdleSchedules
  <2>. QED
    BY <1>1, <2>1, ScheduleAnswers
<1>13. CASE InitSleeps
  <2>1. \E st : schedule(st)
    BY <1>13 DEF InitSleeps, Block
  <2>. QED
    BY <1>1, <2>1, ScheduleAnswers
<1>14. CASE ReturnToUser
  <2>1. CASE ~ killed[task_running] /\ need_resched
    BY <1>1, <1>14, <2>1, ScheduleAnswers DEF ReturnToUser
  <2>2. CASE killed[task_running] \/ ~ need_resched
    <3>1. /\ UNCHANGED <<policy, priority, period, killed, task_running, state,
                         need_resched>>
          /\ killed[task_running] => pc'[task_running] = "dying"
      BY <1>1, <1>14, <2>2 DEF ReturnToUser
    <3>. QED
      BY <1>1, <2>2, <3>1, CalmAsks DEF AskedOnReturn
  <2>. QED
    BY <2>1, <2>2
<1>15. CASE Resumed
  <2>1. /\ UNCHANGED <<policy, priority, period, killed, task_running,
                       need_resched>>
        /\ state' = Reaped /\ ~ need_resched
    BY <1>15 DEF Resumed, AskedOnReturn
  <2>. QED
    BY <1>1, <2>1, CalmAsks DEF AskedOnReturn
<1>16. CASE IdleHalts \/ IdleResumes
  <2>1. /\ UNCHANGED <<policy, priority, period, killed, task_running,
                       need_resched>>
        /\ state' = Reaped \/ state' = state
        /\ task_running = Idle /\ pc'[Idle] \in {"halted", "loop"}
    BY <1>1, <1>16 DEF IdleHalts, IdleResumes
  <2>. QED
    BY <1>1, <2>1, CalmAsks DEF AskedOnReturn
<1>17. CASE TimerInterrupt
  <2>1. /\ Interrupted
        /\ UNCHANGED <<policy, priority, period, killed, task_running>>
        /\ state' = Woken(Due(ticks'), state)
        /\ ~ need_resched' => ~ need_resched /\ ~ WakePreempts(Due(ticks'))
    BY <1>17 DEF TimerInterrupt, sched_tick
  <2>2. \A t \in Slots : priority[t] \in Nat
    BY <1>1 DEF TypeOK, TableTypeOK, Priority
  <2>3. Rises(Due(ticks'))
    BY <1>1, <2>1, <2>2 DEF Rises, Woken
  <2>. QED
    BY <1>1, <1>2, <2>1, <2>3, AskKeeps
<1>18. CASE KeyInterrupt
  <2>1. /\ Interrupted
        /\ UNCHANGED <<policy, priority, period, killed, task_running>>
        /\ state' = Woken(KeyWaiters, state)
        /\ ~ need_resched' => ~ need_resched /\ ~ WakePreempts(KeyWaiters)
    BY <1>18 DEF KeyInterrupt, sched_wake
  <2>2. \A t \in Slots : priority[t] \in Nat
    BY <1>1 DEF TypeOK, TableTypeOK, Priority
  <2>3. Rises(KeyWaiters)
    BY <1>1, <2>1, <2>2 DEF Rises, Woken
  <2>. QED
    BY <1>1, <1>2, <2>1, <2>3, AskKeeps
<1>19. CASE CtrlC
  BY <1>1, <1>2, <1>19, KillAsks DEF CtrlC
<1>20. CASE MouseInterrupt
  BY <1>1, <1>2, <1>20, CalmAsks DEF MouseInterrupt
<1>21. CASE UNCHANGED vars
  BY <1>21 DEF vars, tableVars, Asked, AskedOnReturn, Outranks, EdfRank
<1>. QED
  BY <1>3, <1>4, <1>5, <1>6, <1>7, <1>8, <1>9, <1>10, <1>11, <1>12, <1>13,
     <1>14, <1>15, <1>16, <1>17, <1>18, <1>19, <1>20, <1>21
     DEF Next, Syscall, KernelStep, Interrupt

-----------------------------------------------------------------------------
(* What the owner of a mutex gets *)

(* mutex_update_priority computes the least priority that is fair to the   *)
(* task itself and to all tasks that wait for it.                          *)
LEMMA UpdateBounds ==
    ASSUME TypeOK, NEW t \in Slots, NEW base \in Priority, NEW st, NEW own,
           ~ killed[t]
    PROVE  LET p == mutex_update_priority(t, base, st, own)
           IN  /\ p \in {base} \cup InheritedPriorities(t, st, own)
               /\ \A q \in {base} \cup InheritedPriorities(t, st, own) : p >= q
<1>. DEFINE S == {base} \cup InheritedPriorities(t, st, own)
<1>1. S \in SUBSET (0 .. TASK_PRIORITY_MAX) /\ S # {}
  BY DEF InheritedPriorities, TypeOK, TableTypeOK, Priority
<1>2. Max(S) \in S /\ \A q \in S : Max(S) >= q
  <2>. HIDE DEF S
  <2>. QED
    BY <1>1, MaxIn
<1>. QED
  BY <1>2 DEF mutex_update_priority

(* mutex_boost raises the owner, and with a task the one it waits for. *)
LEMMA BoostRaises ==
    ASSUME TypeOK, NEW m \in MutexIds, owner[m] # NULL, NEW prio \in Priority
    PROVE  LET p == mutex_boost(m, prio)
           IN  /\ \A t \in Slots : p[t] >= priority[t]
               /\ p[owner[m]] >= prio
               /\ \A t \in Slots : p[t] # priority[t] /\ NextOwner(t) # NULL =>
                    p[t] = prio /\ p[NextOwner(t)] >= prio
<1>. DEFINE p == mutex_boost(m, prio)
<1>1. /\ owner[m] \in Slots
      /\ \A t \in Slots : NextOwner(t) # NULL => NextOwner(t) \in Slots
      /\ prio \in Nat /\ \A t \in Slots : priority[t] \in Nat
  BY DEF TypeOK, TableTypeOK, MutexTypeOK, NextOwner, Priority
<1>2. \A t \in Slots : p[t] = IF t \in BoostChain(m, prio) /\ priority[t] < prio
                              THEN prio ELSE priority[t]
  BY DEF mutex_boost
<1>3. owner[m] \in BoostChain(m, prio)
  BY <1>1 DEF BoostChain, ClosedChains
<1>4. ASSUME NEW t \in Slots, p[t] # priority[t], NextOwner(t) # NULL
      PROVE  NextOwner(t) \in BoostChain(m, prio)
  BY <1>1, <1>2, <1>4 DEF BoostChain, ClosedChains
<1>. HIDE DEF p
<1>. QED
  BY <1>1, <1>2, <1>3, <1>4 DEF p

(***************************************************************************)
(* A task blocked on an inheriting mutex is one mutex_boost sees waiting   *)
(* for its owner, and the owner is another task.                           *)
(***************************************************************************)
LEMMA BlockedOn ==
    ASSUME IInv, NEW t \in Slots, state[t] = "blocked"
    PROVE  LET m == wait_channel[t]
           IN  /\ m \in MutexIds /\ m # NULL /\ wait_mutex[t] = m
               /\ owner[m] \in Slots /\ owner[m] # t
               /\ refs[m] > 0
               /\ inherit[m] => NextOwner(t) = owner[m]
<1>1. OpenCounted
  BY CountedOpen DEF IInv, MutexInv
<1>2. /\ wait_channel[t] \in mutexes[t] /\ wait_mutex[t] = wait_channel[t]
      /\ owner[wait_channel[t]] \notin {NULL, t}
  BY DEF IInv, MutexInv, BlockedHasOwner
<1>3. wait_channel[t] \in MutexIds /\ owner[wait_channel[t]] \in Slots
  BY <1>2 DEF IInv, TypeOK, MutexTypeOK
<1>. QED
  BY <1>1, <1>2, <1>3, Constants DEF OpenCounted, NextOwner

-----------------------------------------------------------------------------
(* No step takes a task below the priority it was given *)

LEMMA BaseStep ==
    ASSUME IInv, TypeOK', BaseKept, [Next]_vars
    PROVE  BaseKept'
<1>. USE DEF BaseKept, mutexVars
<1>1. /\ TypeOK /\ task_running \in Slots
      /\ \A t \in Slots : /\ base_priority[t] \in Priority
                          /\ priority[t] \in Nat /\ base_priority[t] \in Nat
                          /\ base_priority'[t] \in Nat
                          /\ base_priority[t] <= TASK_PRIORITY_MAX
  BY DEF IInv, TypeOK, TableTypeOK, SchedTypeOK, Priority
<1>2. ASSUME UNCHANGED <<priority, base_priority>>
      PROVE  BaseKept'
  BY <1>2
<1>3. ASSUME NEW t \in Slots, NEW base \in Priority, NEW st, NEW own,
             base_priority' = [base_priority EXCEPT ![t] = base],
             priority' = [priority EXCEPT ![t] =
                            mutex_update_priority(t, base, st, own)],
             ~ killed[t] \/ base = base_priority[t]
      PROVE  BaseKept'
  <2>. DEFINE p == mutex_update_priority(t, base, st, own)
  <2>1. p >= base
    <3>1. CASE killed[t]
      BY <1>1, <1>3, <3>1 DEF mutex_update_priority
    <3>2. CASE ~ killed[t]
      BY <1>1, <3>2, UpdateBounds
    <3>. QED
      BY <3>1, <3>2
  <2>. HIDE DEF p
  <2>2. \A u \in Slots : /\ base_priority'[u] = IF u = t THEN base ELSE base_priority[u]
                         /\ priority'[u] = IF u = t THEN p ELSE priority[u]
    BY <1>1, <1>3 DEF p, TypeOK, TableTypeOK
  <2>. QED
    BY <2>1, <2>2
<1>4. ASSUME NEW t \in Slots, NEW st, NEW own, base_priority' = base_priority,
             priority' = [priority EXCEPT ![t] =
                            mutex_update_priority(t, base_priority[t], st, own)]
      PROVE  BaseKept'
  <2>1. base_priority' = [base_priority EXCEPT ![t] = base_priority[t]]
    BY <1>1, <1>4 DEF TypeOK, TableTypeOK
  <2>. QED
    BY <1>1, <1>3, <1>4, <2>1
<1>5. CASE SysRun \/ SysSpawn \/ InitStartsShell
  <2>1. ASSUME NEW prio, NEW background, NEW shell, prio \in Nat,
               task_spawn(prio, background, shell)
        PROVE  BaseKept'
    BY <1>1, <2>1 DEF task_spawn, TypeOK, TableTypeOK
  <2>2. Priorities \subseteq Nat /\ TASK_PRIORITY_SHELL \in Nat
    OBVIOUS
  <2>. QED
    BY <1>1, <1>5, <2>1, <2>2 DEF SysRun, SysSpawn, InitStartsShell
<1>6. CASE SysKill
  BY <1>1, <1>6 DEF SysKill, task_kill
<1>7. CASE CtrlC
  BY <1>1, <1>7 DEF CtrlC
<1>8. CASE SysSetprio
  <2>1. PICK t \in Slots, prio \in Priorities : task_set_priority(t, prio)
    BY <1>8 DEF SysSetprio
  <2>. QED
    BY <1>3, <2>1, Constants DEF task_set_priority
<1>9. CASE SysMutexLock \/ LockResumes
  <2>1. PICK m \in MutexIds, st \in {state, Reaped} : mutex_lock(m, st)
    <3>1. LockResumes => wait_mutex[task_running] \in MutexIds
      BY <1>1 DEF LockResumes, IInv, MutexInv, LockPoint, TypeOK, MutexTypeOK
    <3>. QED
      BY <1>9, <3>1 DEF SysMutexLock, LockResumes
  <2>2. base_priority' = base_priority
    BY <1>9 DEF SysMutexLock, LockResumes
  <2>3. CASE LockWait(m, st)
    <3>1. \A t \in Slots : priority'[t] >= priority[t]
      <4>1. owner[m] # NULL /\ priority[task_running] \in Priority
        BY <1>1, <2>3 DEF LockWait, LockBlocks, TypeOK, TableTypeOK
      <4>2. priority' = priority
            \/ priority' = mutex_boost(m, priority[task_running])
        BY <2>3 DEF LockWait
      <4>. QED
        BY <1>1, <4>1, <4>2, BoostRaises
    <3>2. \A t \in Slots : priority'[t] \in Nat
      BY DEF TypeOK, TableTypeOK, Priority
    <3>. QED
      BY <1>1, <2>2, <3>1, <3>2
  <2>4. CASE LockDone(m, st)
    <3>1. owner[m] \in Slots \cup {NULL}
      BY <1>1 DEF TypeOK, MutexTypeOK
    <3>. QED
      BY <1>2, <1>4, <2>2, <2>4, <3>1 DEF LockDone
  <2>. QED
    BY <2>1, <2>3, <2>4 DEF mutex_lock
<1>10. CASE SysMutexUnlock \/ SysMutexClose
  <2>1. PICK m \in MutexIds : mutex_unlock(m) \/ mutex_close(m)
    BY <1>10 DEF SysMutexUnlock, SysMutexClose
  <2>2. base_priority' = base_priority
    BY <1>10 DEF SysMutexUnlock, SysMutexClose
  <2>. QED
    BY <1>1, <1>2, <1>4, <2>1, <2>2 DEF mutex_unlock, mutex_close, mutex_hand_over
<1>11. CASE Exit
  BY <1>1, <1>2, <1>4, <1>11 DEF Exit, task_exit
<1>12. CASE UNCHANGED vars
  BY <1>2, <1>12 DEF vars, tableVars
<1>13. CASE \/ SysWait \/ SysSleep \/ SysGetchar \/ SysPeriod \/ SysWaitPeriod
            \/ SysSched \/ SysYield \/ SysMutexOpen \/ SysIgnoreCtrlC
            \/ SysOther \/ ReturnToUser \/ Resumed \/ WaitResumes
            \/ SleepResumes \/ KeyResumes \/ InitWaits \/ InitSleeps
            \/ IdleHalts \/ IdleSchedules \/ IdleResumes
            \/ TimerInterrupt \/ KeyInterrupt \/ MouseInterrupt
  BY <1>2, <1>13
     DEF SysWait, SysSleep, SysGetchar, SysPeriod, SysWaitPeriod, SysSched,
         SysYield, SysMutexOpen, mutex_open, SysIgnoreCtrlC, SysOther,
         ReturnToUser, Resumed, WaitResumes, SleepResumes, KeyResumes,
         InitWaits, InitSleeps, IdleHalts, IdleSchedules, IdleResumes,
         TimerInterrupt, KeyInterrupt, MouseInterrupt, task_wait_period
<1>. QED
  BY <1>5, <1>6, <1>7, <1>8, <1>9, <1>10, <1>11, <1>12, <1>13
     DEF Next, Syscall, KernelStep, Interrupt

-----------------------------------------------------------------------------
(* Priority inheritance, while nobody calls setprio *)

(* Steps that leave the mutexes, and the priorities of who waits, alone *)
LEMMA QuietInherits ==
    ASSUME IInv, PriorityInherited, TypeOK', Quiet, inherit' = inherit,
           \A t \in Slots : state'[t] = "blocked" => priority'[t] = priority[t],
           \A m \in MutexIds : owner[m] # NULL =>
                priority'[owner[m]] >= priority[owner[m]]
    PROVE  PriorityInherited'
<1>. SUFFICES ASSUME NEW t \in Slots, state'[t] = "blocked",
                     inherit'[wait_channel'[t]]
              PROVE  priority'[owner'[wait_channel'[t]]] >= priority'[t]
  BY DEF PriorityInherited
<1>1. state[t] = "blocked" /\ wait_channel'[t] = wait_channel[t] /\ owner' = owner
  BY DEF Quiet, Calm
<1>2. wait_channel[t] \in MutexIds /\ owner[wait_channel[t]] \in Slots
  BY <1>1, BlockedOn
<1>3. priority[owner[wait_channel[t]]] >= priority[t]
  BY <1>1 DEF PriorityInherited
<1>4. priority'[owner[wait_channel[t]]] >= priority[owner[wait_channel[t]]]
  BY <1>2, Constants
<1>5. \A u \in Slots : priority[u] \in Nat /\ priority'[u] \in Nat
  BY DEF IInv, TypeOK, TableTypeOK, Priority
<1>. QED
  BY <1>1, <1>2, <1>3, <1>4, <1>5

(* mutex_lock raises the owners the task waits for from now on, and when   *)
(* it gives up it leaves them what the other waiters need.                 *)
LEMMA LockInherits ==
    ASSUME IInv, PriorityInherited, BaseKept, TypeOK', NEW st \in {state, Reaped},
           NEW m \in MutexIds, mutex_lock(m, st)
    PROVE  PriorityInherited'
<1>. DEFINE r == task_running
<1>1. /\ TypeOK /\ r \in Slots /\ state[r] = "running"
      /\ priority[r] \in Priority
      /\ owner[m] \in Slots \cup {NULL}
      /\ \A t \in Slots : /\ priority[t] \in Nat /\ priority'[t] \in Nat
                          /\ base_priority[t] \in Priority
                          /\ base_priority[t] \in Nat
  BY DEF IInv, TypeOK, TableTypeOK, SchedTypeOK, MutexTypeOK, OneRunning, Priority
<1>2. inherit' = inherit
  BY DEF mutex_lock
<1>3. \A t \in Slots : st[t] = "blocked" <=> state[t] = "blocked"
  BY DEF Reaped
<1>4. CASE LockWait(m, st)
  <2>. DEFINE p == priority[r]
              st2 == [st EXCEPT ![r] = "blocked"]
  <2>1. /\ wait_channel' = [wait_channel EXCEPT ![r] = m]
        /\ owner' = owner /\ owner[m] # NULL /\ schedule(st2)
        /\ priority' = IF inherit[m] THEN mutex_boost(m, p) ELSE priority
    BY <1>4 DEF LockWait, LockBlocks
  <2>2. \A t \in Slots : state'[t] = "blocked" => t = r \/ state[t] = "blocked"
    <3>1. \A t \in Slots : t # r => st2[t] = st[t]
      BY DEF Reaped, IInv, TypeOK, TableTypeOK
    <3>. HIDE DEF st2
    <3>. QED
      BY <1>3, <2>1, <3>1, ScheduleMoves
  <2>3. \A t \in Slots : priority'[t] >= priority[t]
    BY <1>1, <2>1, BoostRaises
  <2>4. \A t \in Slots : priority'[t] # priority[t] /\ NextOwner(t) # NULL =>
            priority'[t] = p /\ priority'[NextOwner(t)] >= p
    BY <1>1, <2>1, BoostRaises
  <2>5. inherit[m] => priority'[owner[m]] >= p
    BY <1>1, <2>1, BoostRaises
  <2>6. priority'[r] = p
    BY <1>1, <2>1 DEF mutex_boost
  <2>. SUFFICES ASSUME NEW t \in Slots, state'[t] = "blocked",
                       inherit[wait_channel'[t]]
                PROVE  priority'[owner[wait_channel'[t]]] >= priority'[t]
    BY <1>2, <2>1 DEF PriorityInherited
  <2>7. CASE t = r
    <3>1. wait_channel'[t] = m
      BY <1>1, <2>1, <2>7 DEF TypeOK, MutexTypeOK
    <3>. QED
      BY <2>5, <2>6, <2>7, <3>1
  <2>8. CASE t # r
    <3>1. state[t] = "blocked" /\ wait_channel'[t] = wait_channel[t]
      BY <1>1, <2>1, <2>2, <2>8 DEF TypeOK, MutexTypeOK
    <3>2. /\ owner[wait_channel[t]] \in Slots
          /\ NextOwner(t) = owner[wait_channel[t]]
      BY <3>1, BlockedOn
    <3>3. priority[owner[wait_channel[t]]] >= priority[t]
      BY <3>1 DEF PriorityInherited
    <3>. QED
      BY <1>1, <2>3, <2>4, <3>1, <3>2, <3>3, Constants
  <2>. QED
    BY <2>7, <2>8
<1>5. CASE LockDone(m, st)
  <2>. DEFINE o == owner[m]
              held == o \notin {NULL, r}
              p == mutex_update_priority(o, base_priority[o], st, owner)
  <2>1. /\ wait_channel' = [wait_channel EXCEPT ![r] = NULL]
        /\ state' = st
        /\ owner' = IF o = NULL THEN [owner EXCEPT ![m] = r] ELSE owner
        /\ priority' = IF ~ held THEN priority ELSE [priority EXCEPT ![o] = p]
    BY <1>5 DEF LockDone
  <2>. SUFFICES ASSUME NEW t \in Slots, state'[t] = "blocked",
                       inherit[wait_channel'[t]]
                PROVE  priority'[owner'[wait_channel'[t]]] >= priority'[t]
    BY <1>2 DEF PriorityInherited
  <2>2. /\ state[t] = "blocked" /\ t # r /\ wait_channel'[t] = wait_channel[t]
    BY <1>1, <1>3, <2>1 DEF TypeOK, MutexTypeOK
  <2>. DEFINE c == wait_channel[t]
  <2>3. /\ c \in MutexIds /\ c # NULL /\ wait_mutex[t] = c
        /\ owner[c] \in Slots /\ owner[c] # t
    BY <2>2, BlockedOn
  <2>4. owner'[c] = owner[c]
    BY <2>1, <2>3, Constants DEF IInv, TypeOK, MutexTypeOK
  <2>5. priority[owner[c]] >= priority[t]
    BY <2>2 DEF PriorityInherited
  <2>6. CASE ~ held
    BY <2>1, <2>2, <2>4, <2>5, <2>6
  <2>7. CASE held /\ killed[o]
    <3>1. p = priority[o]
      BY <2>7 DEF mutex_update_priority
    <3>2. priority' = priority
      <4>. HIDE DEF p
      <4>. QED
        BY <1>1, <2>1, <2>7, <3>1 DEF TypeOK, TableTypeOK
    <3>. QED
      BY <2>2, <2>4, <2>5, <3>2
  <2>8. CASE held /\ ~ killed[o]
    <3>1. o \in Slots
      BY <1>1, <2>8
    <3>2. /\ p \in {base_priority[o]} \cup InheritedPriorities(o, st, owner)
          /\ \A q \in {base_priority[o]} \cup InheritedPriorities(o, st, owner) :
                p >= q
      BY <1>1, <2>8, <3>1, UpdateBounds
    <3>. HIDE DEF p
    <3>3. \A u \in Slots : priority'[u] = IF u = o THEN p ELSE priority[u]
      BY <1>1, <2>1, <2>8, <3>1 DEF TypeOK, TableTypeOK
    <3>4. CASE t = o
      <4>1. p <= priority[o]
        <5>1. ASSUME p \in InheritedPriorities(o, st, owner)
              PROVE  p <= priority[o]
          <6>1. PICK w \in Slots : /\ st[w] = "blocked"
                                   /\ owner[wait_mutex[w]] = o
                                   /\ inherit[wait_mutex[w]]
                                   /\ p = priority[w]
            BY <5>1 DEF InheritedPriorities
          <6>2. state[w] = "blocked" /\ wait_mutex[w] = wait_channel[w]
            BY <1>3, <6>1, BlockedOn
          <6>. QED
            BY <1>1, <3>1, <6>1, <6>2 DEF PriorityInherited
        <5>. QED
          BY <1>1, <3>1, <3>2, <5>1 DEF BaseKept
      <4>. QED
        BY <1>1, <2>2, <2>3, <2>4, <2>5, <3>3, <3>4, <4>1
    <3>5. CASE t # o /\ owner[c] = o
      <4>1. priority[t] \in InheritedPriorities(o, st, owner)
        BY <1>3, <2>1, <2>2, <2>3, <3>5 DEF InheritedPriorities
      <4>. QED
        BY <2>2, <2>4, <3>1, <3>2, <3>3, <3>5, <4>1
    <3>6. CASE t # o /\ owner[c] # o
      BY <2>2, <2>3, <2>4, <2>5, <3>3, <3>6
    <3>. QED
      BY <3>4, <3>5, <3>6
  <2>. QED
    BY <2>6, <2>7, <2>8
<1>. QED
  BY <1>4, <1>5 DEF mutex_lock

(***************************************************************************)
(* mutex_hand_over: the most important waiter becomes the owner, so it     *)
(* needs no boost; the old owner keeps what its other mutexes call for.    *)
(***************************************************************************)
LEMMA HandOverInherits ==
    ASSUME IInv, PriorityInherited, TypeOK', NEW ms \in SUBSET MutexIds,
           inherit' = inherit, wait_channel' = wait_channel,
           LET own == OwnersAfter(ms, state)
               st == Woken(Heirs(ms, state), state)
           IN  /\ owner' = own
               /\ \/ priority' = [priority EXCEPT ![task_running] =
                        mutex_update_priority(task_running,
                            base_priority[task_running], st, own)]
                  \/ /\ priority' = priority
                     /\ \A m \in MutexIds \ ms : owner[m] # task_running
               /\ \A t \in Slots : state'[t] = "blocked" => st[t] = "blocked"
    PROVE  PriorityInherited'
<1>. DEFINE r == task_running
            own == OwnersAfter(ms, state)
            st == Woken(Heirs(ms, state), state)
            p == mutex_update_priority(r, base_priority[r], st, own)
<1>1. /\ TypeOK /\ r \in Slots /\ state[r] = "running"
      /\ base_priority[r] \in Priority
      /\ \A t \in Slots : priority[t] \in Nat /\ priority'[t] \in Nat
  BY DEF IInv, TypeOK, TableTypeOK, SchedTypeOK, OneRunning, Priority
<1>. SUFFICES ASSUME NEW t \in Slots, state'[t] = "blocked",
                     inherit[wait_channel[t]]
              PROVE  priority'[owner'[wait_channel[t]]] >= priority'[t]
  BY DEF PriorityInherited
<1>. DEFINE c == wait_channel[t]
<1>2. st[t] = "blocked" /\ state[t] = "blocked" /\ t # r
  BY <1>1 DEF Woken
<1>3. /\ c \in MutexIds /\ c # NULL /\ wait_mutex[t] = c
      /\ owner[c] \in Slots /\ owner[c] # t
  BY <1>2, BlockedOn
<1>4. priority[owner[c]] >= priority[t]
  BY <1>2 DEF PriorityInherited
<1>5. owner'[c] = IF c \in ms THEN Heir(c, state) ELSE owner[c]
  BY <1>3 DEF OwnersAfter
<1>6. priority' = priority \/ priority' = [priority EXCEPT ![r] = p]
  OBVIOUS
<1>7. priority'[t] = priority[t]
  <2>. HIDE DEF p
  <2>. QED
    BY <1>1, <1>2, <1>6 DEF TypeOK, TableTypeOK
<1>8. CASE c \in ms
  <2>. DEFINE W == {x \in Slots : state[x] = "blocked" /\ wait_channel[x] = c}
              h == Heir(c, state)
  <2>1. t \in W
    BY <1>2
  <2>2. h \in W /\ priority[t] <= priority[h]
    <3>. HIDE DEF h
    <3>. QED
      BY <1>1, <2>1, HeirIn DEF h
  <2>3. h \in Slots /\ h # r
    BY <1>1, <2>2
  <2>4. priority'[h] = priority[h]
    <3>. HIDE DEF p, h
    <3>. QED
      BY <1>1, <1>6, <2>3 DEF TypeOK, TableTypeOK
  <2>. HIDE DEF h
  <2>. QED
    BY <1>1, <1>5, <1>7, <1>8, <2>2, <2>3, <2>4 DEF h
<1>9. CASE c \notin ms /\ owner[c] # r
  <2>1. priority'[owner[c]] = priority[owner[c]]
    <3>. HIDE DEF p
    <3>. QED
      BY <1>1, <1>3, <1>6, <1>9 DEF TypeOK, TableTypeOK
  <2>. QED
    BY <1>4, <1>5, <1>7, <1>9, <2>1
<1>10. CASE c \notin ms /\ owner[c] = r
  <2>1. priority' = [priority EXCEPT ![r] = p]
    BY <1>3, <1>10
  <2>2. p >= priority[t]
    <3>1. CASE killed[r]
      BY <1>4, <1>10, <3>1 DEF mutex_update_priority
    <3>2. CASE ~ killed[r]
      <4>1. own[c] = r
        BY <1>3, <1>5, <1>10
      <4>2. priority[t] \in InheritedPriorities(r, st, own)
        <5>. HIDE DEF own, st
        <5>. QED
          BY <1>2, <1>3, <4>1 DEF InheritedPriorities
      <4>. HIDE DEF own, st
      <4>. QED
        BY <1>1, <3>2, <4>2, UpdateBounds
    <3>. QED
      BY <3>1, <3>2
  <2>. HIDE DEF p
  <2>. QED
    BY <1>1, <1>5, <1>7, <1>10, <2>1, <2>2 DEF TypeOK, TableTypeOK
<1>. QED
  BY <1>8, <1>9, <1>10

(* task_exit hands over all mutexes of the task. *)
LEMMA ExitInherits ==
    ASSUME IInv, PriorityInherited, TypeOK', Exit
    PROVE  PriorityInherited'
<1>. DEFINE r == task_running
            ms == Owned(r)
            own == OwnersAfter(ms, state)
            released == Woken(Heirs(ms, state), state)
            wakes == {p \in Slots : /\ p = parent[r]
                                    /\ state[p] = "wait"
                                    /\ wait_pid[p] = r}
            st == [Woken(wakes, released) EXCEPT ![r] = "zombie"]
<1>1. /\ owner' = own /\ schedule(st) /\ UNCHANGED <<inherit, wait_channel>>
      /\ priority' = IF ms = {} THEN priority
                     ELSE [priority EXCEPT ![r] =
                             mutex_update_priority(r, base_priority[r],
                                 released, own)]
  BY DEF Exit, task_exit
<1>2. r \in Slots /\ ms \in SUBSET MutexIds
  BY DEF Owned, IInv, TypeOK, SchedTypeOK, MutexTypeOK
<1>3. \A m \in MutexIds \ ms : owner[m] # r
  BY <1>2, Constants DEF Owned, IInv, MutexInv, OwnerOpens
<1>4. \A t \in Slots : st[t] = "blocked" => released[t] = "blocked"
  BY <1>2 DEF Woken
<1>5. \A t \in Slots : state'[t] = "blocked" => released[t] = "blocked"
  <2>. HIDE DEF st, released, own
  <2>. QED
    BY <1>1, <1>4, ScheduleMoves
<1>. QED
  BY <1>1, <1>2, <1>3, <1>5, HandOverInherits

(* mutex_open only chooses the flag of a mutex nobody has open. *)
LEMMA OpenInherits ==
    ASSUME IInv, PriorityInherited, NEW n, NEW inh, mutex_open(n, inh)
    PROVE  PriorityInherited'
<1>. DEFINE create == FoundByName(n) = {}
            id == IF create THEN Min(FreeMutexes) ELSE Min(FoundByName(n))
<1>1. /\ inherit' = [inherit EXCEPT ![id] = IF create THEN inh ELSE @]
      /\ owner' = [owner EXCEPT ![id] = IF create THEN NULL ELSE @]
      /\ UNCHANGED <<wait_channel, priority, state>>
      /\ create => FreeMutexes # {}
  BY DEF mutex_open
<1>2. create => id \in FreeMutexes
  <2>1. FreeMutexes \in SUBSET Nat
    BY DEF FreeMutexes, MutexIds
  <2>. QED
    BY <1>1, <2>1, MinIn
<1>. HIDE DEF id, create
<1>3. \A m \in MutexIds : refs[m] > 0 => m # id \/ ~ create
  BY <1>2 DEF FreeMutexes
<1>4. \A m \in MutexIds : refs[m] > 0 =>
            inherit'[m] = inherit[m] /\ owner'[m] = owner[m]
  BY <1>1, <1>3 DEF IInv, TypeOK, MutexTypeOK
<1>. SUFFICES ASSUME NEW t \in Slots, state[t] = "blocked",
                     inherit'[wait_channel[t]]
              PROVE  priority[owner'[wait_channel[t]]] >= priority[t]
  BY <1>1 DEF PriorityInherited
<1>5. wait_channel[t] \in MutexIds /\ refs[wait_channel[t]] > 0
  BY BlockedOn
<1>. QED
  BY <1>4, <1>5 DEF PriorityInherited

(* Without setprio every step keeps the owners as important as who waits   *)
(* for them.                                                               *)
LEMMA InheritStep ==
    ASSUME IInv, TypeOK', BaseKept, PriorityInherited, "setprio" \notin Syscalls,
           [Next]_vars
    PROVE  PriorityInherited'
<1>. USE DEF mutexVars
<1>1. /\ TypeOK /\ DeadHoldNothing /\ task_running \in Slots
      /\ state \in {state, Reaped} /\ Reaped \in {state, Reaped}
      /\ \A t \in Slots : priority[t] \in Nat /\ priority[t] <= TASK_PRIORITY_MAX
      /\ \A m \in MutexIds : owner[m] # NULL =>
            owner[m] \in Slots /\ Live(owner[m])
  BY Constants DEF IInv, MutexInv, OwnerOpens, DeadHoldNothing, TypeOK, TableTypeOK,
     SchedTypeOK, MutexTypeOK, Priority
<1>2. ASSUME QuietAction, UNCHANGED <<priority, inherit>>
      PROVE  PriorityInherited'
  BY <1>1, <1>2, QuietStep, QuietInherits
<1>3. ~ SysSetprio
  BY DEF SysSetprio, Calls
<1>4. CASE SysRun \/ SysSpawn \/ InitStartsShell
  <2>1. PICK prio, background, shell : task_spawn(prio, background, shell)
    BY <1>4 DEF SysRun, SysSpawn, InitStartsShell
  <2>. DEFINE s == Min(FreeSlots)
  <2>2. /\ s \in Slots /\ state[s] = "unused"
        /\ priority' = [priority EXCEPT ![s] = prio]
        /\ state' = Woken({s}, state)
        /\ inherit' = inherit
    BY <2>1, FreshSlot DEF task_spawn, sched_wake
  <2>. HIDE DEF s
  <2>3. \A t \in Slots : state'[t] = "blocked" => priority'[t] = priority[t]
    BY <1>1, <2>2 DEF Woken, TypeOK, TableTypeOK
  <2>4. \A m \in MutexIds : owner[m] # NULL =>
            priority'[owner[m]] >= priority[owner[m]]
    BY <1>1, <2>2 DEF Live, TypeOK, TableTypeOK
  <2>5. QuietAction
    BY <1>4 DEF QuietAction
  <2>. QED
    BY <1>1, <2>2, <2>3, <2>4, <2>5, QuietStep, QuietInherits
<1>5. CASE SysKill \/ CtrlC
  <2>1. ASSUME NEW ts \in SUBSET Slots,
               priority' = [t \in Slots |-> IF t \in ts THEN TASK_PRIORITY_MAX
                                            ELSE priority[t]],
               inherit' = inherit, \A t \in ts : state'[t] # "blocked"
        PROVE  PriorityInherited'
    <3>1. QuietAction
      BY <1>5 DEF QuietAction
    <3>2. \A t \in Slots : state'[t] = "blocked" => priority'[t] = priority[t]
      BY <2>1
    <3>3. \A m \in MutexIds : owner[m] # NULL =>
              priority'[owner[m]] >= priority[owner[m]]
      BY <1>1, <2>1
    <3>. QED
      BY <1>1, <2>1, <3>1, <3>2, <3>3, QuietStep, QuietInherits
  <2>2. CASE SysKill
    <3>1. PICK t \in Slots : task_kill({t})
      BY <2>2 DEF SysKill
    <3>. DEFINE ts == {t}
    <3>2. /\ ts \in SUBSET Slots /\ inherit' = inherit
          /\ priority' = [x \in Slots |-> IF x \in ts THEN TASK_PRIORITY_MAX
                                          ELSE priority[x]]
      BY <2>2, <3>1 DEF SysKill, task_kill
    <3>3. \A x \in ts : state'[x] # "blocked"
      BY <3>1 DEF task_kill, sched_wake, Woken
    <3>. HIDE DEF ts
    <3>. QED
      BY <2>1, <3>2, <3>3
  <2>3. CASE CtrlC
    <3>1. /\ priority' = [x \in Slots |->
                            IF x \in ForegroundTasks THEN TASK_PRIORITY_MAX
                            ELSE priority[x]]
          /\ inherit' = inherit
          /\ \A x \in ForegroundTasks : state'[x] # "blocked"
      BY <2>3 DEF CtrlC, sched_wake, Woken, ForegroundTasks
    <3>2. ForegroundTasks \in SUBSET Slots
      BY DEF ForegroundTasks
    <3>. QED
      BY <2>1, <3>1, <3>2
  <2>. QED
    BY <1>5, <2>2, <2>3
<1>6. CASE \/ SysWait \/ SysSleep \/ SysGetchar \/ SysPeriod \/ SysWaitPeriod
           \/ SysSched \/ SysYield \/ SysIgnoreCtrlC \/ SysOther \/ ReturnToUser
           \/ Resumed \/ WaitResumes \/ SleepResumes \/ KeyResumes \/ InitWaits
           \/ InitSleeps \/ IdleHalts \/ IdleSchedules \/ IdleResumes
           \/ TimerInterrupt \/ KeyInterrupt \/ MouseInterrupt
  <2>1. UNCHANGED <<priority, inherit>>
    BY <1>6
       DEF SysWait, SysSleep, SysGetchar, SysPeriod, SysWaitPeriod, SysSched,
           SysYield, SysIgnoreCtrlC, SysOther, ReturnToUser, Resumed,
           WaitResumes, SleepResumes, KeyResumes, InitWaits, InitSleeps,
           IdleHalts, IdleSchedules, IdleResumes, TimerInterrupt,
           KeyInterrupt, MouseInterrupt, task_wait_period
  <2>2. QuietAction
    BY <1>6 DEF QuietAction
  <2>. QED
    BY <1>2, <2>1, <2>2
<1>7. CASE SysMutexLock
  BY <1>1, <1>7, LockInherits DEF SysMutexLock
<1>8. CASE LockResumes
  <2>1. wait_mutex[task_running] \in MutexIds
    BY <1>1, <1>8 DEF LockResumes, IInv, MutexInv, LockPoint, TypeOK, MutexTypeOK
  <2>. QED
    BY <1>1, <1>8, <2>1, LockInherits DEF LockResumes
<1>9. CASE SysMutexOpen
  BY <1>9, OpenInherits DEF SysMutexOpen
<1>10. CASE SysMutexUnlock \/ SysMutexClose
  <2>1. PICK m \in MutexIds : mutex_unlock(m) \/ mutex_close(m)
    BY <1>10 DEF SysMutexUnlock, SysMutexClose
  <2>2. UNCHANGED <<inherit, wait_channel>>
    BY <2>1 DEF mutex_unlock, mutex_close
  <2>3. CASE mutex_hand_over({m}, task_running)
    <3>1. {m} \in SUBSET MutexIds
      OBVIOUS
    <3>. QED
      BY <2>2, <2>3, <3>1, HandOverInherits DEF mutex_hand_over
  <2>4. CASE UNCHANGED <<owner, priority, state>>
    BY <2>2, <2>4 DEF PriorityInherited
  <2>. QED
    BY <2>1, <2>3, <2>4 DEF mutex_unlock, mutex_close
<1>11. CASE Exit
  BY <1>11, ExitInherits
<1>12. CASE UNCHANGED vars
  BY <1>12 DEF vars, tableVars, PriorityInherited
<1>. QED
  BY <1>3, <1>4, <1>5, <1>6, <1>7, <1>8, <1>9, <1>10, <1>11, <1>12
     DEF Next, Syscall, KernelStep, Interrupt

-----------------------------------------------------------------------------
(* What holds in every reachable state *)

Ranked == IdleIdles /\ Asked /\ AskedOnReturn

(* The idle thread idles, and no step forgets to ask for a switch. *)
THEOREM SwitchesAsked == Spec => []Ranked
<1>1. Init => Ranked
  BY Constants DEF Init, Ranked, IdleIdles, IdlePoints, Asked, AskedOnReturn
<1>2. ASSUME IInv, Ranked, [Next]_vars
      PROVE  Ranked'
  <2>1. TypeOK'
    BY <1>2, StepInv DEF IInv
  <2>. QED
    BY <1>2, <2>1, IdleStep, AskStep DEF Ranked
<1>3. IInv /\ Ranked /\ [Next]_vars => Ranked'
  BY <1>2
<1>. QED
  BY <1>1, <1>3, Inductive, PTL DEF Spec

(***************************************************************************)
(* Fixed priority preemption: under the real time policy no program runs   *)
(* in ring 3 while a more important task is ready.                         *)
(***************************************************************************)
THEOREM ImportantTasksRun == Spec => []MostImportantRuns
<1>1. ASSUME IInv, Ranked
      PROVE  MostImportantRuns
  <2>. SUFFICES ASSUME policy = "real_time", pc[task_running] = "user",
                       NEW t \in Slots, state[t] = "ready", ~ killed[t]
                PROVE  priority[t] <= priority[task_running]
    BY DEF MostImportantRuns
  <2>1. /\ task_running \in Slots /\ task_running # Idle
        /\ priority[t] \in Nat /\ priority[task_running] \in Nat
    BY <1>1 DEF IInv, TypeOK, TableTypeOK, SchedTypeOK, Priority, Ranked,
       IdleIdles, IdlePoints
  <2>2. CASE t = Idle
    BY <1>1, <2>1, <2>2 DEF Ranked, IdleIdles
  <2>3. CASE t # Idle
    BY <1>1, <2>1, <2>3 DEF Ranked, Asked, AskedOnReturn, Outranks
  <2>. QED
    BY <2>2, <2>3
<1>2. IInv /\ Ranked => MostImportantRuns
  BY <1>1
<1>. QED
  BY <1>2, Inductive, SwitchesAsked, PTL

(***************************************************************************)
(* The ranks of edf: an ordinary program only runs while no periodic task  *)
(* is ready, and both only while no task at the priority of the shell is.  *)
(***************************************************************************)
THEOREM RanksKept == Spec => []EdfRanksKept
<1>1. ASSUME IInv, Ranked
      PROVE  EdfRanksKept
  <2>. SUFFICES ASSUME policy = "edf", pc[task_running] = "user",
                       NEW t \in Slots \ {Idle}, state[t] = "ready", ~ killed[t]
                PROVE  EdfRank(task_running) <= EdfRank(t)
    BY DEF EdfRanksKept
  <2>1. task_running # Idle /\ ~ need_resched
    BY <1>1 DEF Ranked, IdleIdles, IdlePoints, AskedOnReturn
  <2>2. ~ (EdfRank(t) < EdfRank(task_running))
    <3>. HIDE DEF EdfRank
    <3>. QED
      BY <1>1, <2>1 DEF Ranked, Asked, Outranks
  <2>3. \A u : EdfRank(u) \in {0, 1, 2}
    BY DEF EdfRank
  <2>. HIDE DEF EdfRank
  <2>. QED
    BY <2>2, <2>3
<1>2. IInv /\ Ranked => EdfRanksKept
  BY <1>1
<1>. QED
  BY <1>2, Inductive, SwitchesAsked, PTL

(* No boost that ends, and no update, takes a task below its base. *)
THEOREM BaseIsKept == Spec => []BaseKept
<1>1. Init => BaseKept
  BY DEF Init, BaseKept
<1>2. ASSUME IInv, BaseKept, [Next]_vars
      PROVE  BaseKept'
  <2>1. TypeOK'
    BY <1>2, StepInv DEF IInv
  <2>. QED
    BY <1>2, <2>1, BaseStep
<1>3. IInv /\ BaseKept /\ [Next]_vars => BaseKept'
  BY <1>2
<1>. QED
  BY <1>1, <1>3, Inductive, PTL DEF Spec

(***************************************************************************)
(* Priority inheritance: as long as no program calls setprio, the owner of *)
(* an inheriting mutex runs at least at the priority of every task that is *)
(* blocked on it, whatever chain the owners form and whoever is killed.    *)
(***************************************************************************)
THEOREM OwnersInherit ==
    ASSUME "setprio" \notin Syscalls
    PROVE  Spec => []PriorityInherited
<1>1. Init => PriorityInherited
  BY DEF Init, PriorityInherited
<1>2. ASSUME IInv, BaseKept, PriorityInherited, [Next]_vars
      PROVE  PriorityInherited'
  <2>1. TypeOK'
    BY <1>2, StepInv DEF IInv
  <2>. QED
    BY <1>2, <2>1, InheritStep
<1>3. IInv /\ BaseKept /\ PriorityInherited /\ [Next]_vars => PriorityInherited'
  BY <1>2
<1>. QED
  BY <1>1, <1>3, Inductive, BaseIsKept, PTL DEF Spec
=============================================================================
