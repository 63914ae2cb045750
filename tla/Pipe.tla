-------------------------------- MODULE Pipe --------------------------------
(***************************************************************************)
(* Pipes (kernel/task/pipe.c): ring buffers with readers that block while  *)
(* the ring is empty and writers that block while it is full.  Calls run   *)
(* with interrupts off from their start, or from where they wake up, to    *)
(* their end or to the point where they block; each of these pieces is one *)
(* step of a task.  Which ready task runs next is left open here, so this  *)
(* holds under every scheduling policy.                                    *)
(***************************************************************************)
EXTENDS Integers, Sequences, FiniteSets

CONSTANTS
    Tasks,      \* slots of the task table
    Pipes,      \* pipes the kernel heap has room for
    PIPE_SIZE,
    Bytes,
    NULL        \* the null pointer

ASSUME PipeAssumption ==
    /\ PIPE_SIZE \in Nat \ {0}
    /\ Bytes # {}
    /\ NULL \notin Pipes

VARIABLES
    buffer, head, count, readers, writers,  \* struct pipe
    killed,        \* task->killed
    wait_channel,  \* the pipe a task is blocked on, NULL if it is not blocked
    call,          \* the pipe call a task is in
    pipe,          \* its arguments: the pipe,
    len,           \*   the bytes to read,
    left           \*   the bytes still to write

pipeVars == <<buffer, head, count, readers, writers>>
callVars == <<wait_channel, call, pipe, len, left>>

Ring == 0 .. PIPE_SIZE - 1

PipeTypeOK ==
    /\ buffer \in [Pipes -> [Ring -> Bytes]]
    /\ head \in [Pipes -> Ring]
    /\ count \in [Pipes -> 0 .. PIPE_SIZE]
    /\ readers \in [Pipes -> Nat]
    /\ writers \in [Pipes -> Nat]
    /\ killed \in [Tasks -> BOOLEAN]
    /\ wait_channel \in [Tasks -> Pipes \cup {NULL}]
    /\ call \in [Tasks -> {"none", "read", "write"}]
    /\ pipe \in [Tasks -> Pipes \cup {NULL}]
    /\ len \in [Tasks -> Nat]
    /\ left \in [Tasks -> Seq(Bytes)]

(* a pipe is allocated until both ends are closed *)
Allocated(p) == readers[p] > 0 \/ writers[p] > 0

(* the bytes in the ring, oldest first *)
Content(p) ==
    [i \in 1 .. count[p] |-> buffer[p][(head[p] + i - 1) % PIPE_SIZE]]

(* pipe_new: calloc clears the memory *)
pipe_new(p) ==
    /\ ~ Allocated(p)
    /\ buffer' = [buffer EXCEPT ![p] = [i \in Ring |-> CHOOSE b \in Bytes : TRUE]]
    /\ head' = [head EXCEPT ![p] = 0]
    /\ count' = [count EXCEPT ![p] = 0]
    /\ readers' = [readers EXCEPT ![p] = 1]
    /\ writers' = [writers EXCEPT ![p] = 1]

(* mutant: only one task is woken *)
FirstOn(ps) ==
    LET on == {t \in Tasks : wait_channel[t] \in ps}
    IN  [t \in Tasks |-> IF on # {} /\ t = CHOOSE u \in on : TRUE
                         THEN NULL ELSE wait_channel[t]]

(* task_wake_channel of every pipe of ps *)
task_wake_channel(ps) ==
    [t \in Tasks |-> IF wait_channel[t] \in ps THEN NULL ELSE wait_channel[t]]

(* task_block_on, inside call op with arguments p, n and s *)
Blocks(t, op, p, n, s, channels) ==
    /\ call' = [call EXCEPT ![t] = op]
    /\ pipe' = [pipe EXCEPT ![t] = p]
    /\ len' = [len EXCEPT ![t] = n]
    /\ left' = [left EXCEPT ![t] = s]
    /\ wait_channel' = [channels EXCEPT ![t] = p]

Returns(t, channels) ==
    /\ call' = [call EXCEPT ![t] = "none"]
    /\ pipe' = [pipe EXCEPT ![t] = NULL]
    /\ len' = [len EXCEPT ![t] = 0]
    /\ left' = [left EXCEPT ![t] = <<>>]
    /\ wait_channel' = channels

(* the ring moves on by the n bytes that were read *)
Take(p, n) ==
    /\ head' = [head EXCEPT ![p] = (@ + n) % PIPE_SIZE]
    /\ count' = [count EXCEPT ![p] = @ - n]
    /\ UNCHANGED buffer

(* mutant: the first byte overwrites the newest one *)
StoreEarly(p, s) ==
    LET end == (head[p] + count[p] + PIPE_SIZE - 1) % PIPE_SIZE
        offset(i) == (i - end + PIPE_SIZE) % PIPE_SIZE
    IN  /\ buffer' = [buffer EXCEPT ![p] =
                        [i \in Ring |-> IF offset(i) < Len(s)
                                        THEN s[offset(i) + 1] ELSE @[i]]]
        /\ count' = [count EXCEPT ![p] = @ + Len(s)]
        /\ UNCHANGED head

(* the bytes of s go behind the ones in the ring *)
Store(p, s) ==
    LET end == (head[p] + count[p]) % PIPE_SIZE
        offset(i) == (i - end + PIPE_SIZE) % PIPE_SIZE
    IN  /\ buffer' = [buffer EXCEPT ![p] =
                        [i \in Ring |-> IF offset(i) < Len(s)
                                        THEN s[offset(i) + 1] ELSE @[i]]]
        /\ count' = [count EXCEPT ![p] = @ + Len(s)]
        /\ UNCHANGED head

AtMost(a, b) == IF a < b THEN a ELSE b

(***************************************************************************)
(* pipe_read of n bytes by task t, from its start or from where it blocked *)
(* to where it blocks or returns.                                          *)
(***************************************************************************)
pipe_read(t, p, n) ==
    /\ UNCHANGED <<readers, writers>>
    /\ \/ /\ count[p] = 0 /\ writers[p] > 0 /\ ~ killed[t]
          /\ Blocks(t, "read", p, n, <<>>, wait_channel)
          /\ UNCHANGED <<buffer, head, count>>
       \/ /\ killed[t]
          /\ Returns(t, wait_channel)
          /\ UNCHANGED <<buffer, head, count>>
       \/ /\ count[p] > 0 \/ writers[p] = 0
          /\ ~ killed[t]
          /\ Take(p, AtMost(n, count[p]))
          /\ Returns(t, task_wake_channel({p}))

(***************************************************************************)
(* pipe_write of the bytes s.  It writes what fits and wakes the readers;  *)
(* when that was not all the ring is full and it blocks.                   *)
(***************************************************************************)
pipe_write(t, p, s) ==
    /\ UNCHANGED <<readers, writers>>
    /\ \/ /\ s # <<>> /\ count[p] = PIPE_SIZE /\ readers[p] > 0
          /\ ~ killed[t]
          /\ Blocks(t, "write", p, 0, s, wait_channel)
          /\ UNCHANGED <<buffer, head, count>>
       \/ /\ s = <<>> \/ killed[t] \/ readers[p] = 0
          /\ Returns(t, wait_channel)
          /\ UNCHANGED <<buffer, head, count>>
       \/ /\ s # <<>> /\ count[p] < PIPE_SIZE /\ readers[p] > 0
          /\ ~ killed[t]
          /\ LET total == AtMost(Len(s), PIPE_SIZE - count[p])
                 rest == SubSeq(s, total + 1, Len(s))
             IN  /\ Store(p, SubSeq(s, 1, total))
                 /\ IF rest = <<>>
                    THEN Returns(t, task_wake_channel({p}))
                    ELSE Blocks(t, "write", p, 0, rest, task_wake_channel({p}))

(* pipe_close_reader and pipe_close_writer of so many ends of each pipe *)
pipe_close(readers_gone, writers_gone) ==
    /\ readers' = [p \in Pipes |-> readers[p] - readers_gone[p]]
    /\ writers' = [p \in Pipes |-> writers[p] - writers_gone[p]]
    /\ wait_channel' = task_wake_channel(
            {p \in Pipes : readers_gone[p] + writers_gone[p] > 0})
    /\ UNCHANGED <<buffer, head, count>>
=============================================================================
