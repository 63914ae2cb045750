------------------------------ MODULE MCKernel ------------------------------
(***************************************************************************)
(* Kernel with small constants for TLC.  The views drop what no action     *)
(* reads: the fields of a slot that is free (task_alloc clears them) and,  *)
(* for a zombie, all but its parent and detached.                          *)
(***************************************************************************)
EXTENDS Kernel, TLC

InUse(f, default) == [t \in Slots |-> IF Live(t) THEN f[t] ELSE default]
Kept(f, default) ==
    [t \in Slots |-> IF state[t] = "unused" THEN default ELSE f[t]]

TaskView ==
    <<state, InUse(priority, 0), InUse(base_priority, 0), InUse(period, 0),
      InUse(deadline, 0), InUse(killed, FALSE), InUse(pc, "user"),
      Kept(detached, FALSE), Kept(parent, NULL), InUse(foreground, FALSE),
      InUse(is_shell, FALSE), InUse(wait_pid, NULL),
      policy, need_resched, task_running, slice, keys, refs, inherit,
      [m \in MutexIds |-> IF refs[m] = 0 THEN NULL ELSE name[m]], owner,
      mutexes, InUse(wait_mutex, NULL), InUse(wait_channel, NULL)>>

(* for runs with a bound on ticks *)
TimedView == <<TaskView, ticks, InUse(wake_tick, 0)>>

(* without one only the time left to sleep counts *)
View ==
    <<TaskView, [t \in Slots |-> IF Live(t) /\ pc[t] \in {"sleep", "stuck"}
                                 THEN Signed(wake_tick[t] - ticks) ELSE 0]>>

(* mutexes are found by comparing names, so names are interchangeable *)
NameSymmetry == Permutations(MutexNames)
=============================================================================
