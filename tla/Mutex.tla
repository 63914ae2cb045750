------------------------------- MODULE Mutex -------------------------------
(***************************************************************************)
(* Named kernel mutexes with priority inheritance (kernel/task/mutex.c).   *)
(* The running task makes every call here; interrupts are off from the     *)
(* start of a call to its end or to the schedule() it blocks in.           *)
(***************************************************************************)
EXTENDS Sched, FiniteSets, FiniteSetsExt

CONSTANTS
    MAX_MUTEXES,
    MutexNames,
    InheritFlags  \* whether programs open mutexes with MUTEX_INHERIT

ASSUME MutexAssumption ==
    /\ MAX_MUTEXES \in Nat
    /\ NULL \notin MutexNames
    /\ InheritFlags \subseteq BOOLEAN

MutexIds == 0 .. MAX_MUTEXES - 1

VARIABLES
    name, refs, inherit, owner,  \* struct mutex, refs = 0 for a free slot
    mutexes,                     \* task->mutexes: the ids a task has open
    wait_mutex,                  \* task->wait_mutex
    wait_channel                 \* task->wait_channel, here always a mutex

mutexVars == <<name, refs, inherit, owner, mutexes, wait_mutex, wait_channel>>

MutexTypeOK ==
    /\ name \in [MutexIds -> MutexNames \cup {NULL}]
    /\ refs \in [MutexIds -> Nat]
    /\ inherit \in [MutexIds -> BOOLEAN]
    /\ owner \in [MutexIds -> Slots \cup {NULL}]
    /\ mutexes \in [Slots -> SUBSET MutexIds]
    /\ wait_mutex \in [Slots -> MutexIds \cup {NULL}]
    /\ wait_channel \in [Slots -> MutexIds \cup {NULL}]

(* mutex_get: the running task has mutex m open *)
mutex_get(m) == refs[m] > 0 /\ m \in mutexes[task_running]

(***************************************************************************)
(* mutex_open finds a mutex by its name or takes the first free slot; the  *)
(* inherit flag only counts for the open that creates it.                  *)
(***************************************************************************)
FoundByName(n) == {m \in MutexIds : refs[m] > 0 /\ name[m] = n}
FreeMutexes == {m \in MutexIds : refs[m] = 0}

mutex_open(n, inh) ==
    LET create == FoundByName(n) = {}
        id == IF create THEN Min(FreeMutexes) ELSE Min(FoundByName(n))
        opens == id \notin mutexes[task_running]
    IN  /\ FoundByName(n) # {} \/ FreeMutexes # {}
        /\ name' = [name EXCEPT ![id] = n]
        /\ inherit' = [inherit EXCEPT ![id] = IF create THEN inh ELSE @]
        /\ owner' = [owner EXCEPT ![id] = IF create THEN NULL ELSE @]
        /\ refs' = [refs EXCEPT ![id] = IF opens THEN @ + 1 ELSE @]
        /\ mutexes' = [mutexes EXCEPT ![task_running] = @ \cup {id}]
        /\ UNCHANGED <<wait_mutex, wait_channel, priority, need_resched,
                       state>>

(* mutant: only the owner of m itself is raised *)
mutex_boost_owner(m, prio) ==
    [t \in Slots |-> IF t = owner[m] /\ priority[t] < prio
                     THEN prio ELSE priority[t]]

(* the task that task t waits for, if that mutex inherits *)
NextOwner(t) ==
    IF wait_mutex[t] # NULL /\ inherit[wait_mutex[t]]
    THEN owner[wait_mutex[t]] ELSE NULL

(* the sets mutex_boost does not lead out of when it starts at mutex m *)
ClosedChains(m, prio) ==
    {chain \in SUBSET Slots :
        /\ owner[m] \in chain
        /\ \A t \in chain : priority[t] < prio =>
                NextOwner(t) \in chain \cup {NULL}}

(***************************************************************************)
(* mutex_boost follows the owners from m on: the owner of m, the owner of  *)
(* the mutex that one waits for, and so on while the mutexes inherit.  It  *)
(* stops at a task that is important enough already.                       *)
(***************************************************************************)
BoostChain(m, prio) ==
    {t \in Slots : \A chain \in ClosedChains(m, prio) : t \in chain}

mutex_boost(m, prio) ==
    [t \in Slots |-> IF t \in BoostChain(m, prio) /\ priority[t] < prio
                     THEN prio ELSE priority[t]]

(***************************************************************************)
(* The priority mutex_update_priority computes for task t: its base, or    *)
(* that of the most important task blocked on an inheriting mutex t owns.  *)
(***************************************************************************)
InheritedPriorities(t, st, own) ==
    {priority[w] : w \in {x \in Slots : /\ st[x] = "blocked"
                                        /\ wait_mutex[x] # NULL
                                        /\ own[wait_mutex[x]] = t
                                        /\ inherit[wait_mutex[x]]}}

mutex_update_priority(t, base, st, own) ==
    IF killed[t] THEN priority[t]
    ELSE Max({base} \cup InheritedPriorities(t, st, own))

(* mutant: the loop does not ask whether the task was killed *)
LockBlocksKilled(m) == owner[m] \notin {NULL, task_running}

(***************************************************************************)
(* The loop of mutex_lock, entered by the call and again after every       *)
(* schedule() inside it.  st are the states at that point.                 *)
(***************************************************************************)
LockBlocks(m) == /\ owner[m] \notin {NULL, task_running}
                 /\ ~ killed[task_running]

LockWait(m, st) ==
    /\ LockBlocks(m)
    /\ wait_mutex' = [wait_mutex EXCEPT ![task_running] = m]
    /\ priority' = IF inherit[m]
                   THEN mutex_boost(m, priority[task_running]) ELSE priority
    /\ wait_channel' = [wait_channel EXCEPT ![task_running] = m]
    /\ pc' = [pc EXCEPT ![task_running] = "lock"]
    /\ UNCHANGED owner
    /\ schedule([st EXCEPT ![task_running] = "blocked"])

LockDone(m, st) ==
    LET held == owner[m] \notin {NULL, task_running} \* killed while waiting
    IN  /\ ~ LockBlocks(m)
        /\ wait_mutex' = [wait_mutex EXCEPT ![task_running] = NULL]
        /\ wait_channel' = [wait_channel EXCEPT ![task_running] = NULL]
        /\ owner' = IF owner[m] = NULL
                    THEN [owner EXCEPT ![m] = task_running] ELSE owner
        /\ priority' = IF ~ held THEN priority
                       ELSE [priority EXCEPT ![owner[m]] =
                               mutex_update_priority(owner[m],
                                   base_priority[owner[m]], st, owner)]
        /\ need_resched' = (need_resched \/ (held /\ ~ killed[owner[m]]))
        /\ pc' = [pc EXCEPT ![task_running] = "return"]
        /\ state' = st
        /\ UNCHANGED <<task_running, slice>>

mutex_lock(m, st) ==
    /\ LockWait(m, st) \/ LockDone(m, st)
    /\ UNCHANGED <<name, refs, inherit, mutexes>>

(* mutant: the last waiter inherits, whatever its priority *)
LastWaiter(m, st) ==
    LET waiters == {t \in Slots : st[t] = "blocked" /\ wait_channel[t] = m}
    IN  IF waiters = {} THEN NULL ELSE Max(waiters)

(***************************************************************************)
(* mutex_hand_over of each mutex of ms, which the task old owns: the first *)
(* of the most important waiters becomes the owner.  A waiter waits for    *)
(* one mutex, so the hand overs do not interfere.                          *)
(***************************************************************************)
Heir(m, st) ==
    LET waiters == {t \in Slots : st[t] = "blocked" /\ wait_channel[t] = m}
    IN  IF waiters = {} THEN NULL
        ELSE CHOOSE t \in waiters : \A o \in waiters :
                \/ priority[t] > priority[o]
                \/ priority[t] = priority[o] /\ t <= o

Heirs(ms, st) == {Heir(m, st) : m \in ms} \ {NULL}

(* mutant: the mutex is free until the woken task takes it *)
OwnersCleared(ms, st) ==
    [m \in MutexIds |-> IF m \in ms THEN NULL ELSE owner[m]]

OwnersAfter(ms, st) ==
    [m \in MutexIds |-> IF m \in ms THEN Heir(m, st) ELSE owner[m]]

mutex_hand_over(ms, old) ==
    LET heirs == Heirs(ms, state)
        st == Woken(heirs, state)
        own == OwnersAfter(ms, state)
    IN  /\ owner' = own
        /\ priority' = [priority EXCEPT ![old] =
                mutex_update_priority(old, base_priority[old], st, own)]
        /\ state' = st
        /\ need_resched' = \/ need_resched
                           \/ ~ killed[old]
                           \/ WakePreempts(heirs)

mutex_unlock(m) ==
    /\ mutex_get(m) /\ owner[m] = task_running
    /\ mutex_hand_over({m}, task_running)
    /\ UNCHANGED <<name, refs, inherit, mutexes, wait_mutex, wait_channel>>

(* mutant: the reference is not given back *)
ForgetWithoutCount(t, ms) ==
    mutexes' = [mutexes EXCEPT ![t] = @ \ ms] /\ UNCHANGED refs

(* the part of mutex_close_task after the hand over *)
ForgetMutexes(t, ms) ==
    /\ mutexes' = [mutexes EXCEPT ![t] = @ \ ms]
    /\ refs' = [m \in MutexIds |-> IF m \in ms THEN refs[m] - 1 ELSE refs[m]]

mutex_close(m) ==
    /\ mutex_get(m)
    /\ IF owner[m] = task_running THEN mutex_hand_over({m}, task_running)
       ELSE UNCHANGED <<owner, priority, state, need_resched>>
    /\ ForgetMutexes(task_running, {m})
    /\ UNCHANGED <<name, inherit, wait_mutex, wait_channel>>

(* mutex_release_all: the mutexes a task that exits still owns *)
Owned(t) == {m \in mutexes[t] : owner[m] = t}
=============================================================================
