---------------------------- MODULE HandleProofs ----------------------------
(***************************************************************************)
(* Theorems about Handle: the counts of handles and pipes, the reason of   *)
(* every wait, the life of pipes and that each of them implements a byte   *)
(* stream, for every number of tasks, handles, pipes and descriptors and   *)
(* every size of the ring.                                                 *)
(***************************************************************************)
EXTENDS Handle, NumberLemmas, FiniteSetTheorems

USE PipeAssumption, HandleAssumption

-----------------------------------------------------------------------------
(* The inductive invariant *)

(* the handle a pipe call of task t went through is still open *)
Holds(t, ty) ==
    \E f \in Fds : /\ fds[t][f] \in Handles
                   /\ type[fds[t][f]] = ty
                   /\ end_of[fds[t][f]] = pipe[t]

EndHeld ==
    \A t \in Tasks : call[t] # "none" => pipe[t] \in Pipes /\ Holds(t, call[t])

DeadHaveNothing ==
    \A t \in Tasks : ~ live[t] => /\ call[t] = "none"
                                  /\ \A f \in Fds : fds[t][f] = NULL

EndsReal ==
    \A h \in Handles : refs[h] > 0 /\ type[h] # "file" => end_of[h] \in Pipes

IInv == /\ TypeOK /\ HandleBooks /\ BlockedForReason
        /\ EndHeld /\ DeadHaveNothing /\ EndsReal

-----------------------------------------------------------------------------
(* Types *)

(* Ring positions are computed modulo the size. *)
LEMMA InRing == \A n \in Int : n % PIPE_SIZE \in Ring
BY DEF Ring

(* A byte of the cleared memory *)
LEMMA SomeByte == (CHOOSE b \in Bytes : TRUE) \in Bytes
OBVIOUS

(* The blocked state of a call keeps its types. *)
LEMMA BlocksType ==
    ASSUME TypeOK, NEW t \in Tasks, NEW op \in {"read", "write"},
           NEW p \in Pipes, NEW n \in Nat, NEW s \in Seq(Bytes),
           NEW channels \in [Tasks -> Pipes \cup {NULL}],
           Blocks(t, op, p, n, s, channels)
    PROVE  /\ wait_channel' \in [Tasks -> Pipes \cup {NULL}]
           /\ call' \in [Tasks -> {"none", "read", "write"}]
           /\ pipe' \in [Tasks -> Pipes \cup {NULL}]
           /\ len' \in [Tasks -> Nat]
           /\ left' \in [Tasks -> Seq(Bytes)]
BY DEF TypeOK, PipeTypeOK, Blocks

(* The end of a call keeps its types. *)
LEMMA ReturnsType ==
    ASSUME TypeOK, NEW t \in Tasks,
           NEW channels \in [Tasks -> Pipes \cup {NULL}],
           Returns(t, channels)
    PROVE  /\ wait_channel' \in [Tasks -> Pipes \cup {NULL}]
           /\ call' \in [Tasks -> {"none", "read", "write"}]
           /\ pipe' \in [Tasks -> Pipes \cup {NULL}]
           /\ len' \in [Tasks -> Nat]
           /\ left' \in [Tasks -> Seq(Bytes)]
<1>1. <<>> \in Seq(Bytes)
  OBVIOUS
<1>. QED
  BY <1>1 DEF TypeOK, PipeTypeOK, Returns

(* Waking tasks leaves a function of channels. *)
LEMMA WakeType ==
    ASSUME TypeOK, NEW ps
    PROVE  task_wake_channel(ps) \in [Tasks -> Pipes \cup {NULL}]
BY DEF TypeOK, PipeTypeOK, task_wake_channel

(* pipe_read keeps the types. *)
LEMMA ReadType ==
    ASSUME TypeOK, NEW t \in Tasks, NEW p \in Pipes, NEW n \in Nat,
           pipe_read(t, p, n), UNCHANGED killed
    PROVE  PipeTypeOK'
<1>. <<>> \in Seq(Bytes)
  OBVIOUS
<1>1. wait_channel \in [Tasks -> Pipes \cup {NULL}]
  BY DEF TypeOK, PipeTypeOK
<1>2. /\ wait_channel' \in [Tasks -> Pipes \cup {NULL}]
      /\ call' \in [Tasks -> {"none", "read", "write"}]
      /\ pipe' \in [Tasks -> Pipes \cup {NULL}]
      /\ len' \in [Tasks -> Nat]
      /\ left' \in [Tasks -> Seq(Bytes)]
  BY <1>1, BlocksType, ReturnsType, WakeType DEF pipe_read
<1>3. /\ buffer' \in [Pipes -> [Ring -> Bytes]]
      /\ head' \in [Pipes -> Ring]
      /\ count' \in [Pipes -> 0 .. PIPE_SIZE]
  <2>1. CASE UNCHANGED <<buffer, head, count>>
    BY <2>1 DEF TypeOK, PipeTypeOK
  <2>2. CASE Take(p, AtMost(n, count[p]))
    <3>1. head[p] \in Ring /\ count[p] \in 0 .. PIPE_SIZE
      BY DEF TypeOK, PipeTypeOK
    <3>2. AtMost(n, count[p]) \in 0 .. count[p]
      BY <3>1 DEF AtMost
    <3>3. (head[p] + AtMost(n, count[p])) % PIPE_SIZE \in Ring
      <4>1. head[p] + AtMost(n, count[p]) \in Int
        BY <3>1, <3>2 DEF Ring
      <4>. QED
        BY <4>1, InRing
    <3>. QED
      BY <2>2, <3>1, <3>2, <3>3 DEF Take, TypeOK, PipeTypeOK
  <2>. QED
    BY <2>1, <2>2 DEF pipe_read
<1>. QED
  BY <1>2, <1>3 DEF TypeOK, PipeTypeOK, pipe_read

(* pipe_write keeps the types. *)
LEMMA WriteType ==
    ASSUME TypeOK, NEW t \in Tasks, NEW p \in Pipes, NEW s \in Seq(Bytes),
           pipe_write(t, p, s), UNCHANGED killed
    PROVE  PipeTypeOK'
<1>. DEFINE total == AtMost(Len(s), PIPE_SIZE - count[p])
            rest == SubSeq(s, total + 1, Len(s))
            chunk == SubSeq(s, 1, total)
<1>1. wait_channel \in [Tasks -> Pipes \cup {NULL}]
  BY DEF TypeOK, PipeTypeOK
<1>2. count[p] \in 0 .. PIPE_SIZE /\ head[p] \in Ring
  BY DEF TypeOK, PipeTypeOK
<1>3. total \in 0 .. Len(s) /\ total \in 0 .. PIPE_SIZE - count[p]
  BY <1>2 DEF AtMost
<1>4. rest \in Seq(Bytes) /\ chunk \in Seq(Bytes) /\ Len(chunk) = total
  BY <1>3
<1>. HIDE DEF total, rest, chunk
<1>5. /\ wait_channel' \in [Tasks -> Pipes \cup {NULL}]
      /\ call' \in [Tasks -> {"none", "read", "write"}]
      /\ pipe' \in [Tasks -> Pipes \cup {NULL}]
      /\ len' \in [Tasks -> Nat]
      /\ left' \in [Tasks -> Seq(Bytes)]
  BY <1>1, <1>4, BlocksType, ReturnsType, WakeType
     DEF pipe_write, total, rest
<1>6. /\ buffer' \in [Pipes -> [Ring -> Bytes]]
      /\ head' \in [Pipes -> Ring]
      /\ count' \in [Pipes -> 0 .. PIPE_SIZE]
  <2>1. CASE UNCHANGED <<buffer, head, count>>
    BY <2>1 DEF TypeOK, PipeTypeOK
  <2>2. CASE Store(p, chunk)
    <3>. DEFINE end == (head[p] + count[p]) % PIPE_SIZE
                offset(i) == (i - end + PIPE_SIZE) % PIPE_SIZE
                ring == [i \in Ring |-> IF offset(i) < Len(chunk)
                                        THEN chunk[offset(i) + 1]
                                        ELSE buffer[p][i]]
    <3>1. end \in Int
      BY <1>2 DEF Ring
    <3>2. ASSUME NEW i \in Ring PROVE offset(i) \in Nat
      <4>. HIDE DEF end
      <4>1. i - end + PIPE_SIZE \in Int
        BY <3>1 DEF Ring
      <4>2. offset(i) \in Ring
        BY <4>1, InRing
      <4>. QED
        BY <4>2 DEF Ring
    <3>3. \A i \in Ring : offset(i) < Len(chunk) => chunk[offset(i) + 1] \in Bytes
      <4>. HIDE DEF offset
      <4>. QED
        BY <3>2, <1>4
    <3>4. buffer[p] \in [Ring -> Bytes]
      BY DEF TypeOK, PipeTypeOK
    <3>5. ring \in [Ring -> Bytes]
      <4>. HIDE DEF offset
      <4>. QED
        BY <3>3, <3>4
    <3>6. buffer' = [buffer EXCEPT ![p] = ring]
      BY <2>2 DEF Store
    <3>7. count[p] + Len(chunk) \in 0 .. PIPE_SIZE
      BY <1>2, <1>3, <1>4
    <3>. HIDE DEF ring
    <3>. QED
      BY <2>2, <3>5, <3>6, <3>7 DEF Store, TypeOK, PipeTypeOK
  <2>. QED
    BY <2>1, <2>2 DEF pipe_write, total, chunk
<1>. QED
  BY <1>5, <1>6 DEF TypeOK, PipeTypeOK, pipe_write

(* pipe_close keeps the types if it closes ends that are open. *)
LEMMA CloseType ==
    ASSUME TypeOK, NEW r \in [Pipes -> Nat], NEW w \in [Pipes -> Nat],
           \A p \in Pipes : r[p] <= readers[p] /\ w[p] <= writers[p],
           pipe_close(r, w)
    PROVE  /\ wait_channel' \in [Tasks -> Pipes \cup {NULL}]
           /\ readers' \in [Pipes -> Nat] /\ writers' \in [Pipes -> Nat]
BY WakeType, SMTT(30) DEF TypeOK, PipeTypeOK, pipe_close

-----------------------------------------------------------------------------
(* Counting *)

(* The sets that are counted are finite. *)
LEMMA Finite ==
    /\ IsFiniteSet(Tasks \X Fds) /\ IsFiniteSet(Fds)
    /\ \A h : IsFiniteSet(Holders(h))
    /\ \A p, ty : IsFiniteSet(Ends(p, ty))
<1>1. IsFiniteSet(Fds)
  BY FS_Interval DEF Fds
<1>2. IsFiniteSet(Tasks \X Fds)
  BY <1>1, FS_Product
<1>3. ASSUME NEW h PROVE IsFiniteSet(Holders(h))
  BY <1>2, FS_Subset DEF Holders
<1>4. ASSUME NEW p, NEW ty PROVE IsFiniteSet(Ends(p, ty))
  BY FS_Subset DEF Ends
<1>. QED
  BY <1>1, <1>2, <1>3, <1>4

(* A handle some descriptor refers to has a reference. *)
LEMMA HeldCounts ==
    ASSUME IInv, NEW t \in Tasks, NEW f \in Fds, fds[t][f] \in Handles
    PROVE  refs[fds[t][f]] > 0
<1>. DEFINE h == fds[t][f]
<1>1. <<t, f>> \in Holders(h)
  BY DEF Holders
<1>2. refs[h] = Cardinality(Holders(h)) /\ IsFiniteSet(Holders(h))
  BY Finite DEF IInv, HandleBooks
<1>3. refs[h] # 0
  BY <1>1, <1>2, FS_EmptySet
<1>. QED
  BY <1>3 DEF IInv, TypeOK

(* No descriptor refers to a free handle. *)
LEMMA FreeUnheld ==
    ASSUME IInv, NEW h \in Handles, refs[h] = 0, NEW t \in Tasks, NEW f \in Fds
    PROVE  fds[t][f] # h
BY HeldCounts

(* The open handles of an end keep it counted. *)
LEMMA EndCounts ==
    ASSUME IInv, NEW h \in Handles, refs[h] > 0
    PROVE  /\ type[h] = "read" => readers[end_of[h]] > 0
           /\ type[h] = "write" => writers[end_of[h]] > 0
<1>1. type[h] # "file" => end_of[h] \in Pipes
  BY DEF IInv, EndsReal
<1>2. ASSUME NEW ty, type[h] = ty
      PROVE  Cardinality(Ends(end_of[h], ty)) # 0
  <2>1. h \in Ends(end_of[h], ty)
    BY <1>2 DEF Ends
  <2>. QED
    BY <2>1, Finite, FS_EmptySet
<1>. QED
  BY <1>1, <1>2 DEF IInv, HandleBooks, TypeOK, PipeTypeOK

(* PipeOutlivesCalls follows from the inductive invariant. *)
LEMMA Outlives == IInv => PipeOutlivesCalls
<1>. SUFFICES ASSUME IInv, NEW t \in Tasks, call[t] # "none"
              PROVE  /\ call[t] = "read" => readers[pipe[t]] > 0
                     /\ call[t] = "write" => writers[pipe[t]] > 0
  BY DEF PipeOutlivesCalls
<1>1. PICK f \in Fds : /\ fds[t][f] \in Handles
                       /\ type[fds[t][f]] = call[t]
                       /\ end_of[fds[t][f]] = pipe[t]
  BY DEF IInv, EndHeld, Holds
<1>. QED
  BY <1>1, HeldCounts, EndCounts

-----------------------------------------------------------------------------
(* Steps that only use pipes *)

(* What a pipe call leaves alone *)
LEMMA CallFrame ==
    ASSUME IInv, NEW t \in Tasks, NEW p \in Pipes,
           NEW ty \in {"read", "write"},
           \E f \in Fds : /\ fds[t][f] \in Handles
                          /\ type[fds[t][f]] = ty /\ end_of[fds[t][f]] = p,
           UNCHANGED <<killed, handleVars, live, fds, readers, writers>>,
           live[t],
           \/ \E n, s, channels : Blocks(t, ty, p, n, s, channels)
           \/ \E channels : Returns(t, channels)
    PROVE  HandleBooks' /\ EndHeld' /\ DeadHaveNothing' /\ EndsReal'
<1>1. HandleBooks'
  <2>1. \A h : Holders(h)' = Holders(h)
    BY DEF Holders
  <2>2. \A q, y : Ends(q, y)' = Ends(q, y)
    BY DEF Ends, handleVars
  <2>. QED
    BY <2>1, <2>2 DEF IInv, HandleBooks, handleVars
<1>2. EndHeld'
  <2>. SUFFICES ASSUME NEW u \in Tasks, call'[u] # "none"
                PROVE  pipe'[u] \in Pipes /\ Holds(u, call[u])'
    BY DEF EndHeld
  <2>1. CASE u = t
    <3>1. call'[u] = ty /\ pipe'[u] = p
      BY <2>1 DEF Blocks, Returns, IInv, TypeOK, PipeTypeOK
    <3>. QED
      BY <2>1, <3>1 DEF Holds, handleVars
  <2>2. CASE u # t
    <3>1. call'[u] = call[u] /\ pipe'[u] = pipe[u]
      BY <2>2 DEF Blocks, Returns, IInv, TypeOK, PipeTypeOK
    <3>. QED
      BY <3>1 DEF Holds, handleVars, IInv, EndHeld
  <2>. QED
    BY <2>1, <2>2
<1>3. DeadHaveNothing'
  BY DEF DeadHaveNothing, IInv, Blocks, Returns, TypeOK, PipeTypeOK
<1>4. EndsReal'
  BY DEF EndsReal, IInv, handleVars
<1>. QED
  BY <1>1, <1>2, <1>3, <1>4

(* pipe_read blocks only for a reason and wakes whom it may concern. *)
LEMMA ReadBlocked ==
    ASSUME IInv, NEW t \in Tasks, NEW p \in Pipes, NEW n \in Nat,
           wait_channel[t] = NULL,
           pipe_read(t, p, n), UNCHANGED killed
    PROVE  BlockedForReason'
<1>. SUFFICES ASSUME NEW u \in Tasks, wait_channel'[u] # NULL
              PROVE  LET q == wait_channel'[u]
                     IN  /\ q = pipe'[u] /\ ~ killed'[u]
                         /\ \/ call'[u] = "read" /\ count'[q] = 0 /\ writers'[q] > 0
                            \/ /\ call'[u] = "write" /\ count'[q] = PIPE_SIZE
                               /\ readers'[q] > 0
  BY DEF BlockedForReason
<1>. USE DEF IInv, TypeOK, PipeTypeOK
<1>1. CASE /\ count[p] = 0 /\ writers[p] > 0 /\ ~ killed[t]
           /\ Blocks(t, "read", p, n, <<>>, wait_channel)
           /\ UNCHANGED <<buffer, head, count>>
  <2>1. CASE u = t
    BY <1>1, <2>1 DEF Blocks, pipe_read
  <2>2. CASE u # t
    BY <1>1, <2>2 DEF Blocks, pipe_read, BlockedForReason
  <2>. QED
    BY <2>1, <2>2
<1>2. CASE Returns(t, wait_channel) /\ UNCHANGED <<buffer, head, count>>
  <2>1. u # t
    BY <1>2 DEF Returns
  <2>. QED
    BY <1>2, <2>1 DEF Returns, pipe_read, BlockedForReason
<1>3. CASE /\ Take(p, AtMost(n, count[p]))
           /\ Returns(t, task_wake_channel({p}))
  <2>1. u # t /\ wait_channel'[u] = wait_channel[u] /\ wait_channel[u] # p
    BY <1>3 DEF Returns, task_wake_channel
  <2>2. count'[wait_channel[u]] = count[wait_channel[u]]
    BY <1>3, <2>1 DEF Take
  <2>. QED
    BY <1>3, <2>1, <2>2 DEF Returns, pipe_read, BlockedForReason
<1>. QED
  BY <1>1, <1>2, <1>3 DEF pipe_read

(* pipe_write blocks only for a reason and wakes whom it may concern. *)
LEMMA WriteBlocked ==
    ASSUME IInv, NEW t \in Tasks, NEW p \in Pipes, NEW s \in Seq(Bytes),
           wait_channel[t] = NULL,
           pipe_write(t, p, s), UNCHANGED killed
    PROVE  BlockedForReason'
<1>. SUFFICES ASSUME NEW u \in Tasks, wait_channel'[u] # NULL
              PROVE  LET q == wait_channel'[u]
                     IN  /\ q = pipe'[u] /\ ~ killed'[u]
                         /\ \/ call'[u] = "read" /\ count'[q] = 0 /\ writers'[q] > 0
                            \/ /\ call'[u] = "write" /\ count'[q] = PIPE_SIZE
                               /\ readers'[q] > 0
  BY DEF BlockedForReason
<1>. DEFINE total == AtMost(Len(s), PIPE_SIZE - count[p])
            rest == SubSeq(s, total + 1, Len(s))
            chunk == SubSeq(s, 1, total)
<1>1. CASE /\ s # <<>> /\ count[p] = PIPE_SIZE /\ readers[p] > 0
           /\ ~ killed[t]
           /\ Blocks(t, "write", p, 0, s, wait_channel)
           /\ UNCHANGED <<buffer, head, count>>
  <2>1. CASE u = t
    BY <1>1, <2>1 DEF Blocks, pipe_write, IInv, TypeOK, PipeTypeOK
  <2>2. CASE u # t
    BY <1>1, <2>2
       DEF Blocks, pipe_write, BlockedForReason, IInv, TypeOK, PipeTypeOK
  <2>. QED
    BY <2>1, <2>2
<1>2. CASE Returns(t, wait_channel) /\ UNCHANGED <<buffer, head, count>>
  <2>1. u # t
    BY <1>2 DEF Returns
  <2>. QED
    BY <1>2, <2>1
       DEF Returns, pipe_write, BlockedForReason, IInv, TypeOK, PipeTypeOK
<1>3. CASE /\ s # <<>> /\ count[p] < PIPE_SIZE /\ readers[p] > 0
           /\ ~ killed[t]
           /\ Store(p, chunk)
           /\ IF rest = <<>>
              THEN Returns(t, task_wake_channel({p}))
              ELSE Blocks(t, "write", p, 0, rest, task_wake_channel({p}))
  <2>1. CASE u = t
    <3>0. count[p] \in 0 .. PIPE_SIZE
      BY DEF IInv, TypeOK, PipeTypeOK
    <3>1. rest # <<>> /\ Blocks(t, "write", p, 0, rest, task_wake_channel({p}))
      BY <1>3, <2>1 DEF Returns, task_wake_channel
    <3>2. total \in 0 .. Len(s) /\ Len(chunk) = total
      BY <3>0 DEF AtMost
    <3>3. total = PIPE_SIZE - count[p]
      <4>1. total # Len(s)
        BY <3>1, <3>2
      <4>. QED
        BY <4>1 DEF AtMost
    <3>4. count'[p] = PIPE_SIZE
      <4>. HIDE DEF total, chunk
      <4>. QED
        BY <1>3, <3>0, <3>2, <3>3 DEF Store, IInv, TypeOK, PipeTypeOK
    <3>. HIDE DEF rest, total, chunk
    <3>. QED
      BY <1>3, <2>1, <3>1, <3>4
         DEF Blocks, pipe_write, task_wake_channel, IInv, TypeOK, PipeTypeOK
  <2>2. CASE u # t
    <3>. HIDE DEF rest, chunk
    <3>0. /\ wait_channel'[u] = task_wake_channel({p})[u]
          /\ pipe'[u] = pipe[u] /\ call'[u] = call[u]
      <4>1. task_wake_channel({p}) \in [Tasks -> Pipes \cup {NULL}]
        BY WakeType DEF IInv
      <4>2. CASE rest = <<>>
        BY <1>3, <2>2, <4>1, <4>2 DEF Returns, IInv, TypeOK, PipeTypeOK
      <4>3. CASE rest # <<>>
        <5>1. Blocks(t, "write", p, 0, rest, task_wake_channel({p}))
          BY <1>3, <4>3
        <5>. HIDE DEF task_wake_channel
        <5>. QED
          BY <2>2, <4>1, <5>1 DEF Blocks, IInv, TypeOK, PipeTypeOK
      <4>. QED
        BY <4>2, <4>3
    <3>1. wait_channel'[u] = wait_channel[u] /\ wait_channel[u] # p
      BY <3>0 DEF task_wake_channel
    <3>2. count'[wait_channel[u]] = count[wait_channel[u]]
      BY <1>3, <3>1 DEF Store, IInv, TypeOK, PipeTypeOK
    <3>. QED
      BY <1>3, <3>0, <3>1, <3>2 DEF pipe_write, BlockedForReason, IInv
  <2>. QED
    BY <2>1, <2>2
<1>. QED
  BY <1>1, <1>2, <1>3 DEF pipe_write

(* Calls of pipes, from their start or from where they blocked *)
LEMMA PipeStep ==
    ASSUME IInv, NEW t \in Tasks, live[t], wait_channel[t] = NULL,
           NEW p \in Pipes, NEW n \in Nat, NEW s \in Seq(Bytes),
           NEW ty \in {"read", "write"},
           \E f \in Fds : /\ fds[t][f] \in Handles
                          /\ type[fds[t][f]] = ty /\ end_of[fds[t][f]] = p,
           UNCHANGED <<killed, handleVars, live, fds>>,
           \/ ty = "read" /\ pipe_read(t, p, n)
           \/ ty = "write" /\ pipe_write(t, p, s)
    PROVE  IInv'
<1>1. UNCHANGED <<readers, writers>>
  BY DEF pipe_read, pipe_write
<1>2. \/ \E k, r, channels : Blocks(t, ty, p, k, r, channels)
      \/ \E channels : Returns(t, channels)
  BY DEF pipe_read, pipe_write
<1>3. HandleBooks' /\ EndHeld' /\ DeadHaveNothing' /\ EndsReal'
  BY <1>1, <1>2, CallFrame
<1>4. BlockedForReason'
  BY ReadBlocked, WriteBlocked
<1>5. PipeTypeOK'
  BY ReadType, WriteType DEF IInv
<1>6. TypeOK'
  BY <1>5 DEF TypeOK, IInv, handleVars
<1>. QED
  BY <1>3, <1>4, <1>6 DEF IInv

-----------------------------------------------------------------------------
(* Closing descriptors *)

(* What is subtracted from a reference count is what no longer refers. *)
LEMMA ClosedRefs ==
    ASSUME IInv, NEW t \in Tasks, NEW fs \in SUBSET Fds, handle_close(t, fs),
           NEW h \in Handles
    PROVE  refs'[h] = Cardinality(Holders(h)') /\ refs'[h] \in Nat
<1>. DEFINE F == {f \in fs : fds[t][f] = h}
            D == {t} \X F
<1>1. IsFiniteSet(F)
  BY Finite, FS_Subset
<1>2. IsFiniteSet({t}) /\ Cardinality({t}) = 1
  BY FS_Singleton
<1>3. Cardinality(F) \in Nat
  BY <1>1, FS_CardinalityType
<1>4. Cardinality(D) = Cardinality(F)
  <2>1. Cardinality(D) = Cardinality({t}) * Cardinality(F)
    BY <1>1, <1>2, FS_Product
  <2>. QED
    BY <1>2, <1>3, <2>1
<1>5. Holders(h) \cap D = D
  BY DEF Holders
<1>6. Holders(h)' = Holders(h) \ D
  <2>1. ASSUME NEW u \in Tasks, NEW f \in Fds
        PROVE  fds'[u][f] = h <=> fds[u][f] = h /\ <<u, f>> \notin D
    BY DEF handle_close, IInv, TypeOK
  <2>. QED
    BY <2>1 DEF Holders
<1>7. /\ IsFiniteSet(Holders(h) \ D)
      /\ Cardinality(Holders(h) \ D)
            = Cardinality(Holders(h)) - Cardinality(Holders(h) \cap D)
  BY Finite, FS_Difference
<1>8. refs'[h] = refs[h] - Cardinality(F)
  BY DEF handle_close
<1>9. Cardinality(Holders(h) \ D) \in Nat
  BY <1>7, FS_CardinalityType
<1>. HIDE DEF F, D
<1>. QED
  BY <1>4, <1>5, <1>6, <1>7, <1>8, <1>9 DEF IInv, HandleBooks

(* The ends of p that are closed are those whose last reference is gone. *)
LEMMA ClosedEnds ==
    ASSUME IInv, NEW t \in Tasks, NEW fs \in SUBSET Fds, handle_close(t, fs),
           NEW p \in Pipes, NEW ty
    PROVE  LET gone == {h \in Released(refs') : type[h] = ty /\ end_of[h] = p}
           IN  /\ Cardinality(gone) \in Nat
               /\ Cardinality(gone) <= Cardinality(Ends(p, ty))
               /\ Cardinality(Ends(p, ty)')
                    = Cardinality(Ends(p, ty)) - Cardinality(gone)
               /\ Cardinality(Ends(p, ty)) \in Nat
<1>. DEFINE gone == {h \in Released(refs') : type[h] = ty /\ end_of[h] = p}
<1>1. \A h \in Handles : refs[h] \in Nat /\ refs'[h] \in Nat
                            /\ refs'[h] <= refs[h]
  <2>. SUFFICES ASSUME NEW h \in Handles
                PROVE  refs[h] \in Nat /\ refs'[h] \in Nat /\ refs'[h] <= refs[h]
    OBVIOUS
  <2>1. IsFiniteSet({f \in fs : fds[t][f] = h})
    BY Finite, FS_Subset
  <2>2. Cardinality({f \in fs : fds[t][f] = h}) \in Nat
    BY <2>1, FS_CardinalityType
  <2>3. refs'[h] = refs[h] - Cardinality({f \in fs : fds[t][f] = h})
    BY DEF handle_close
  <2>. QED
    BY <2>2, <2>3, ClosedRefs DEF IInv, TypeOK
<1>2. gone \in SUBSET Ends(p, ty) /\ Ends(p, ty) \cap gone = gone
  BY DEF Released, Ends
<1>3. Ends(p, ty)' = Ends(p, ty) \ gone
  BY <1>1 DEF Released, Ends, handle_close
<1>4. IsFiniteSet(Ends(p, ty))
  BY Finite
<1>. HIDE DEF gone
<1>5. /\ IsFiniteSet(gone)
      /\ Cardinality(gone) <= Cardinality(Ends(p, ty))
  BY <1>2, <1>4, FS_Subset
<1>6. Cardinality(gone) \in Nat /\ Cardinality(Ends(p, ty)) \in Nat
  BY <1>4, <1>5, FS_CardinalityType
<1>7. Cardinality(Ends(p, ty) \ gone)
        = Cardinality(Ends(p, ty)) - Cardinality(Ends(p, ty) \cap gone)
  BY <1>4, FS_Difference
<1>. QED
  BY <1>2, <1>3, <1>5, <1>6, <1>7 DEF gone

(* handle_close of some descriptors of a task that is in no call *)
LEMMA CloseStep ==
    ASSUME IInv, NEW t \in Tasks, call[t] = "none",
           NEW fs \in SUBSET Fds, handle_close(t, fs),
           UNCHANGED <<killed, call, pipe, len, left>>,
           live' \in [Tasks -> BOOLEAN],
           \A u \in Tasks : u # t => live'[u] = live[u],
           live'[t] \/ (\A f \in Fds : fds[t][f] # NULL => f \in fs)
    PROVE  IInv'
<1>. DEFINE ends(p, ty) == {h \in Released(refs') : type[h] = ty /\ end_of[h] = p}
            r == [p \in Pipes |-> Cardinality(ends(p, "read"))]
            w == [p \in Pipes |-> Cardinality(ends(p, "write"))]
<1>1. pipe_close(r, w)
  BY DEF handle_close
<1>2. \A p \in Pipes : /\ r[p] \in Nat /\ w[p] \in Nat
                       /\ r[p] <= Cardinality(Ends(p, "read"))
                       /\ w[p] <= Cardinality(Ends(p, "write"))
                       /\ Cardinality(Ends(p, "read")') = readers[p] - r[p]
                       /\ Cardinality(Ends(p, "write")') = writers[p] - w[p]
  BY ClosedEnds DEF IInv, HandleBooks
<1>3. r \in [Pipes -> Nat] /\ w \in [Pipes -> Nat]
  <2>1. \A p \in Pipes : Cardinality(ends(p, "read")) \in Nat
                            /\ Cardinality(ends(p, "write")) \in Nat
    BY <1>2
  <2>. HIDE DEF ends
  <2>. QED
    BY <2>1
<1>. HIDE DEF r, w
<1>4. \A p \in Pipes : r[p] <= readers[p] /\ w[p] <= writers[p]
  BY <1>2 DEF IInv, HandleBooks
<1>5. /\ wait_channel' \in [Tasks -> Pipes \cup {NULL}]
      /\ readers' \in [Pipes -> Nat] /\ writers' \in [Pipes -> Nat]
  BY <1>1, <1>3, <1>4, CloseType DEF IInv
<1>6. fds' \in [Tasks -> [Fds -> Handles \cup {Terminal, NULL}]]
  BY DEF handle_close, IInv, TypeOK
<1>7. refs' \in [Handles -> Nat]
  <2>1. \A h \in Handles : refs'[h] \in Nat
    BY ClosedRefs
  <2>2. DOMAIN refs' = Handles /\ refs' = [h \in Handles |-> refs'[h]]
    BY DEF handle_close
  <2>. QED
    BY <2>1, <2>2
<1>8. TypeOK'
  BY <1>1, <1>5, <1>6, <1>7
     DEF IInv, TypeOK, PipeTypeOK, handle_close, pipe_close
<1>9. HandleBooks'
  <2>1. \A p \in Pipes : readers'[p] = readers[p] - r[p]
                            /\ writers'[p] = writers[p] - w[p]
    BY <1>1 DEF pipe_close
  <2>. QED
    BY <1>2, <2>1, ClosedRefs DEF HandleBooks
<1>10. BlockedForReason'
  <2>. SUFFICES ASSUME NEW u \in Tasks, wait_channel'[u] # NULL
                PROVE  LET q == wait_channel'[u]
                       IN  /\ q = pipe'[u] /\ ~ killed'[u]
                           /\ \/ /\ call'[u] = "read" /\ count'[q] = 0
                                 /\ writers'[q] > 0
                              \/ /\ call'[u] = "write" /\ count'[q] = PIPE_SIZE
                                 /\ readers'[q] > 0
    BY DEF BlockedForReason
  <2>1. /\ wait_channel'[u] = wait_channel[u]
        /\ wait_channel[u] \notin {p \in Pipes : r[p] + w[p] > 0}
    BY <1>1 DEF pipe_close, task_wake_channel
  <2>2. wait_channel[u] \in Pipes
    BY <2>1 DEF IInv, TypeOK, PipeTypeOK
  <2>3. r[wait_channel[u]] = 0 /\ w[wait_channel[u]] = 0
    BY <1>3, <2>1, <2>2
  <2>4. /\ readers'[wait_channel[u]] = readers[wait_channel[u]]
        /\ writers'[wait_channel[u]] = writers[wait_channel[u]]
        /\ UNCHANGED count
    BY <1>1, <2>2, <2>3 DEF pipe_close, IInv, TypeOK, PipeTypeOK
  <2>. QED
    BY <2>1, <2>4 DEF IInv, BlockedForReason
<1>11. EndHeld'
  <2>. SUFFICES ASSUME NEW u \in Tasks, call[u] # "none"
                PROVE  pipe[u] \in Pipes /\ Holds(u, call[u])'
    BY DEF EndHeld
  <2>1. u # t /\ fds'[u] = fds[u]
    BY DEF handle_close, IInv, TypeOK
  <2>. QED
    BY <2>1 DEF IInv, EndHeld, Holds, handle_close
<1>12. DeadHaveNothing'
  <2>. SUFFICES ASSUME NEW u \in Tasks, ~ live'[u]
                PROVE  call[u] = "none" /\ \A f \in Fds : fds'[u][f] = NULL
    BY DEF DeadHaveNothing
  <2>1. CASE u = t
    BY <2>1 DEF handle_close, IInv, TypeOK
  <2>2. CASE u # t
    BY <2>2 DEF handle_close, IInv, TypeOK, DeadHaveNothing
  <2>. QED
    BY <2>1, <2>2
<1>13. EndsReal'
  <2>. SUFFICES ASSUME NEW h \in Handles, refs'[h] > 0, type[h] # "file"
                PROVE  end_of[h] \in Pipes
    BY DEF EndsReal, handle_close
  <2>1. IsFiniteSet({f \in fs : fds[t][f] = h})
    BY Finite, FS_Subset
  <2>2. Cardinality({f \in fs : fds[t][f] = h}) \in Nat
    BY <2>1, FS_CardinalityType
  <2>3. refs'[h] = refs[h] - Cardinality({f \in fs : fds[t][f] = h})
    BY DEF handle_close
  <2>4. refs[h] > 0
    BY <2>2, <2>3 DEF IInv, TypeOK
  <2>. QED
    BY <2>4 DEF IInv, EndsReal
<1>. QED
  BY <1>8, <1>9, <1>10, <1>11, <1>12, <1>13 DEF IInv

-----------------------------------------------------------------------------
(* Spawning *)

(* A child that starts with the handles std: each is counted. *)
LEMMA SpawnStep ==
    ASSUME IInv, NEW c \in Tasks, ~ live[c],
           NEW std \in [Std -> Handles \cup {Terminal}],
           \A f \in Std : std[f] \in Handles => refs[std[f]] > 0,
           live' = [live EXCEPT ![c] = TRUE],
           killed' = [killed EXCEPT ![c] = FALSE],
           fds' = [fds EXCEPT ![c] = [f \in Fds |-> IF f \in Std THEN std[f]
                                                    ELSE NULL]],
           refs' = handle_ref(std),
           UNCHANGED <<pipeVars, callVars, type, end_of>>
    PROVE  IInv'
<1>. Std \subseteq Fds
  BY DEF Std, Fds
<1>1. ASSUME NEW h \in Handles
      PROVE  /\ refs'[h] = Cardinality(Holders(h)')
             /\ refs'[h] \in Nat /\ (refs'[h] > 0 <=> refs[h] > 0)
  <2>. DEFINE F == {f \in Std : std[f] = h}
              D == {c} \X F
  <2>1. IsFiniteSet(F)
    BY Finite, FS_Subset
  <2>2. IsFiniteSet({c}) /\ Cardinality({c}) = 1
    BY FS_Singleton
  <2>3. Cardinality(F) \in Nat
    BY <2>1, FS_CardinalityType
  <2>4. IsFiniteSet(D) /\ Cardinality(D) = Cardinality(F)
    <3>1. /\ IsFiniteSet(D)
          /\ Cardinality(D) = Cardinality({c}) * Cardinality(F)
      BY <2>1, <2>2, FS_Product
    <3>. QED
      BY <2>2, <2>3, <3>1
  <2>5. Holders(h)' = Holders(h) \cup D
    <3>1. ASSUME NEW u \in Tasks, NEW f \in Fds
          PROVE  fds'[u][f] = h <=> fds[u][f] = h \/ <<u, f>> \in D
      <4>1. CASE u = c
        <5>1. fds[u][f] = NULL
          BY <4>1 DEF IInv, DeadHaveNothing
        <5>2. fds'[u][f] = IF f \in Std THEN std[f] ELSE NULL
          BY <4>1 DEF IInv, TypeOK
        <5>. QED
          BY <4>1, <5>1, <5>2
      <4>2. CASE u # c
        BY <4>2 DEF IInv, TypeOK
      <4>. QED
        BY <4>1, <4>2
    <3>. QED
      BY <3>1 DEF Holders
  <2>6. Holders(h) \cap D = {}
    BY DEF Holders, IInv, DeadHaveNothing
  <2>7. /\ Cardinality(Holders(h) \cup D) = Cardinality(Holders(h))
              + Cardinality(D) - Cardinality(Holders(h) \cap D)
    BY <2>4, Finite, FS_Union
  <2>8. refs'[h] = refs[h] + Cardinality(F)
    BY DEF handle_ref
  <2>9. Cardinality(F) > 0 => refs[h] > 0
    <3>1. F = {} \/ \E f \in Std : std[f] = h
      OBVIOUS
    <3>2. F = {} => Cardinality(F) = 0
      BY FS_EmptySet
    <3>. HIDE DEF F
    <3>. QED
      BY <2>3, <3>1, <3>2
  <2>10. refs[h] \in Nat /\ refs[h] = Cardinality(Holders(h))
    BY DEF IInv, TypeOK, HandleBooks
  <2>11. Cardinality(Holders(h) \cap D) = 0
    BY <2>6, FS_EmptySet, Zenon
  <2>. HIDE DEF F, D
  <2>12. Cardinality(Holders(h) \cup D) = refs[h] + Cardinality(F)
    BY <2>3, <2>4, <2>7, <2>10, <2>11
  <2>. QED
    BY <2>3, <2>5, <2>8, <2>9, <2>10, <2>12
<1>2. TypeOK'
  <2>1. refs' \in [Handles -> Nat]
    BY <1>1 DEF handle_ref
  <2>2. fds' \in [Tasks -> [Fds -> Handles \cup {Terminal, NULL}]]
    BY DEF IInv, TypeOK
  <2>. QED
    BY <2>1, <2>2 DEF IInv, TypeOK, PipeTypeOK, pipeVars, callVars
<1>3. HandleBooks'
  <2>1. \A p, ty : Ends(p, ty)' = Ends(p, ty)
    BY <1>1 DEF Ends
  <2>. QED
    BY <1>1, <2>1 DEF IInv, HandleBooks, pipeVars
<1>4. BlockedForReason'
  BY DEF IInv, BlockedForReason, pipeVars, callVars, TypeOK, PipeTypeOK
<1>5. EndHeld'
  <2>. SUFFICES ASSUME NEW u \in Tasks, call[u] # "none"
                PROVE  pipe[u] \in Pipes /\ Holds(u, call[u])'
    BY DEF EndHeld, callVars
  <2>1. u # c /\ fds'[u] = fds[u]
    BY DEF IInv, DeadHaveNothing, TypeOK
  <2>. QED
    BY <2>1 DEF IInv, EndHeld, Holds, callVars
<1>6. DeadHaveNothing'
  BY DEF IInv, DeadHaveNothing, TypeOK, callVars
<1>7. EndsReal'
  BY <1>1 DEF IInv, EndsReal
<1>. QED
  BY <1>2, <1>3, <1>4, <1>5, <1>6, <1>7 DEF IInv

(* What a child may start with is open, or the terminal. *)
LEMMA StdOpen ==
    ASSUME IInv, NEW t \in Tasks, NEW f \in Std, NEW h \in StdHandles(t, f)
    PROVE  /\ h \in Handles \cup {Terminal}
           /\ h \in Handles => refs[h] > 0
<1>1. f \in Fds
  BY DEF Std, Fds
<1>2. h = Terminal \/ (h # NULL /\ \E g \in Fds : h = fds[t][g])
  BY <1>1 DEF StdHandles, task_inherit_fd
<1>3. ASSUME NEW g \in Fds, h = fds[t][g], h # NULL
      PROVE  h \in Handles \cup {Terminal} /\ (h \in Handles => refs[h] > 0)
  BY <1>3, HeldCounts DEF IInv, TypeOK
<1>. QED
  BY <1>2, <1>3

(* sys_run and sys_spawn preserve the invariant. *)
LEMMA RunStep == ASSUME IInv, NEW t \in Tasks, SysRun(t) PROVE IInv'
<1>1. PICK c \in Tasks, std \in [Std -> UNION {StdHandles(t, f) : f \in Std}] :
        /\ ~ live[c] /\ c # Shell
        /\ \A f \in Std : std[f] \in StdHandles(t, f)
        /\ live' = [live EXCEPT ![c] = TRUE]
        /\ killed' = [killed EXCEPT ![c] = FALSE]
        /\ fds' = [fds EXCEPT ![c] = [f \in Fds |-> IF f \in Std THEN std[f]
                                                    ELSE NULL]]
        /\ refs' = handle_ref(std)
  BY DEF SysRun
<1>2. \A f \in Std : /\ std[f] \in Handles \cup {Terminal}
                     /\ std[f] \in Handles => refs[std[f]] > 0
  BY <1>1, StdOpen
<1>3. std \in [Std -> Handles \cup {Terminal}]
  BY <1>1, <1>2
<1>4. UNCHANGED <<pipeVars, callVars, type, end_of>>
  BY DEF SysRun
<1>. QED
  BY <1>1, <1>2, <1>3, <1>4, SpawnStep

(* init starts the shell on the terminal. *)
LEMMA InitStartsStep == ASSUME IInv, InitStartsShell PROVE IInv'
<1>. DEFINE std == [f \in Std |-> Terminal]
<1>1. std \in [Std -> Handles \cup {Terminal}] /\ \A f \in Std : std[f] \notin Handles
  OBVIOUS
<1>2. fds' = [fds EXCEPT ![Shell] = [f \in Fds |-> IF f \in Std THEN std[f]
                                                   ELSE NULL]]
  <2>1. [f \in Fds |-> IF f \in Std THEN std[f] ELSE NULL]
            = [f \in Fds |-> IF f \in Std THEN Terminal ELSE NULL]
    OBVIOUS
  <2>. QED
    BY <2>1 DEF InitStartsShell
<1>3. refs' = handle_ref(std)
  <2>1. ASSUME NEW h \in Handles
        PROVE  refs[h] + Cardinality({f \in Std : std[f] = h}) = refs[h]
    <3>1. {f \in Std : std[f] = h} = {}
      OBVIOUS
    <3>2. Cardinality({f \in Std : std[f] = h}) = 0
      BY <3>1, FS_EmptySet, Zenon
    <3>3. refs[h] \in Nat
      BY DEF IInv, TypeOK
    <3>. HIDE DEF std
    <3>. QED
      BY <3>2, <3>3
  <2>2. refs = [h \in Handles |-> refs[h]]
    BY DEF IInv, TypeOK
  <2>3. refs' = refs
    BY DEF InitStartsShell, handleVars
  <2>. HIDE DEF std
  <2>. QED
    BY <2>1, <2>2, <2>3 DEF handle_ref
<1>4. /\ ~ live[Shell]
      /\ live' = [live EXCEPT ![Shell] = TRUE]
      /\ killed' = [killed EXCEPT ![Shell] = FALSE]
      /\ UNCHANGED <<pipeVars, callVars, type, end_of>>
  BY DEF InitStartsShell, handleVars
<1>. HIDE DEF std
<1>. QED
  BY <1>1, <1>2, <1>3, <1>4, SpawnStep

-----------------------------------------------------------------------------
(* New handles *)

(* Descriptors that are installed were free. *)
LEMMA FreeFd ==
    ASSUME NEW t \in Tasks
    PROVE  /\ FreeFds(t) # {} => FirstFree(t) \in FreeFds(t)
           /\ Cardinality(FreeFds(t)) >= 2 =>
                /\ FirstFree(t) \in FreeFds(t)
                /\ SecondFree(t) \in FreeFds(t) \ {FirstFree(t)}
<1>1. FreeFds(t) \in SUBSET Nat /\ IsFiniteSet(FreeFds(t))
  <2>1. FreeFds(t) \in SUBSET Fds
    BY DEF FreeFds
  <2>. QED
    BY <2>1, Finite, FS_Subset DEF Fds
<1>2. FreeFds(t) # {} => FirstFree(t) \in FreeFds(t)
  BY <1>1, MinIn DEF FirstFree
<1>3. ASSUME Cardinality(FreeFds(t)) >= 2
      PROVE  FreeFds(t) # {} /\ FreeFds(t) \ {FirstFree(t)} # {}
  <2>1. FreeFds(t) # {}
    BY <1>3, FS_EmptySet
  <2>2. Cardinality(FreeFds(t) \ {FirstFree(t)}) = Cardinality(FreeFds(t)) - 1
    BY <1>1, <1>2, <2>1, FS_RemoveElement
  <2>3. Cardinality(FreeFds(t) \ {FirstFree(t)}) # 0
    BY <1>1, <1>3, <2>2, FS_CardinalityType
  <2>. QED
    BY <2>1, <2>3, FS_EmptySet
<1>4. ASSUME Cardinality(FreeFds(t)) >= 2
      PROVE  SecondFree(t) \in FreeFds(t) \ {FirstFree(t)}
  <2>1. FreeFds(t) \ {FirstFree(t)} \in SUBSET Nat
    BY <1>1
  <2>. QED
    BY <1>3, <1>4, <2>1, MinIn DEF SecondFree
<1>. QED
  BY <1>2, <1>3, <1>4

(* A new handle takes the place of a free one behind free descriptors. *)
LEMMA OpenStep == ASSUME IInv, NEW t \in Tasks, SysOpen(t) PROVE IInv'
<1>1. PICK h \in Handles :
        /\ refs[h] = 0
        /\ handle_new(h, "file", NULL)
        /\ fds' = [fds EXCEPT ![t][FirstFree(t)] = h]
  BY DEF SysOpen
<1>. DEFINE f == FirstFree(t)
<1>2. f \in Fds /\ fds[t][f] = NULL
  BY FreeFd DEF SysOpen, FreeFds
<1>. HIDE DEF f
<1>3. UNCHANGED <<pipeVars, killed, callVars, live>> /\ InUser(t)
  BY DEF SysOpen
<1>4. \A u \in Tasks, g \in Fds :
        fds'[u][g] = IF u = t /\ g = f THEN h ELSE fds[u][g]
  BY <1>1, <1>2 DEF IInv, TypeOK, f
<1>5. TypeOK'
  <2>1. fds' \in [Tasks -> [Fds -> Handles \cup {Terminal, NULL}]]
    BY <1>1, <1>2 DEF IInv, TypeOK, f
  <2>. QED
    BY <1>1, <1>3, <2>1
       DEF IInv, TypeOK, PipeTypeOK, pipeVars, callVars, handle_new
<1>6. HandleBooks'
  <2>1. Holders(h)' = {<<t, f>>}
    BY <1>1, <1>2, <1>4, FreeUnheld DEF Holders
  <2>2. \A k \in Handles : k # h => Holders(k)' = Holders(k)
    BY <1>2, <1>4 DEF Holders
  <2>3. Cardinality(Holders(h)') = 1
    BY <2>1, FS_Singleton
  <2>4. ASSUME NEW p \in Pipes, NEW ty \in {"read", "write"}
        PROVE  Ends(p, ty)' = Ends(p, ty)
    BY <1>1 DEF Ends, handle_new, IInv, TypeOK
  <2>5. refs'[h] = 1 /\ \A k \in Handles : k # h => refs'[k] = refs[k]
    BY <1>1 DEF handle_new, IInv, TypeOK
  <2>6. ASSUME NEW k \in Handles PROVE refs'[k] = Cardinality(Holders(k)')
    BY <2>2, <2>3, <2>5 DEF IInv, HandleBooks
  <2>. QED
    BY <1>3, <2>4, <2>6 DEF IInv, HandleBooks, pipeVars
<1>7. BlockedForReason'
  BY <1>3 DEF IInv, BlockedForReason, pipeVars, callVars
<1>8. EndHeld'
  <2>. SUFFICES ASSUME NEW u \in Tasks, call[u] # "none"
                PROVE  pipe[u] \in Pipes /\ Holds(u, call[u])'
    BY <1>3 DEF EndHeld, callVars
  <2>1. PICK g \in Fds : /\ fds[u][g] \in Handles
                         /\ type[fds[u][g]] = call[u]
                         /\ end_of[fds[u][g]] = pipe[u]
    BY DEF IInv, EndHeld, Holds
  <2>2. fds[u][g] # h /\ fds'[u][g] = fds[u][g]
    BY <1>1, <1>2, <1>4, <2>1, FreeUnheld
  <2>3. type'[fds[u][g]] = type[fds[u][g]] /\ end_of'[fds[u][g]] = end_of[fds[u][g]]
    BY <1>1, <2>1, <2>2 DEF handle_new, IInv, TypeOK
  <2>. QED
    BY <1>3, <2>1, <2>2, <2>3 DEF IInv, EndHeld, Holds, callVars
<1>9. DeadHaveNothing'
  BY <1>3, <1>4 DEF IInv, DeadHaveNothing, InUser, callVars
<1>10. EndsReal'
  BY <1>1 DEF IInv, EndsReal, handle_new, TypeOK
<1>. QED
  BY <1>5, <1>6, <1>7, <1>8, <1>9, <1>10 DEF IInv

(* sys_pipe: a new pipe with one handle for each end *)
LEMMA NewPipeStep == ASSUME IInv, NEW t \in Tasks, SysPipe(t) PROVE IInv'
<1>0. PICK p \in Pipes, r, w \in {h \in Handles : refs[h] = 0} :
        /\ r # w
        /\ pipe_new(p)
        /\ type' = [type EXCEPT ![r] = "read", ![w] = "write"]
        /\ refs' = [refs EXCEPT ![r] = 1, ![w] = 1]
        /\ end_of' = [end_of EXCEPT ![r] = p, ![w] = p]
        /\ fds' = [fds EXCEPT ![t][FirstFree(t)] = r, ![t][SecondFree(t)] = w]
  BY Zenon DEF SysPipe
<1>1. /\ r \in Handles /\ w \in Handles /\ r # w
      /\ refs[r] = 0 /\ refs[w] = 0
      /\ \A u \in Tasks, k \in Fds : fds[u][k] # r /\ fds[u][k] # w
  BY <1>0, FreeUnheld
<1>. DEFINE f == FirstFree(t)
            g == SecondFree(t)
<1>2. /\ f \in Fds /\ fds[t][f] = NULL
      /\ g \in Fds /\ fds[t][g] = NULL /\ f # g
  BY FreeFd DEF SysPipe, FreeFds
<1>. HIDE DEF f, g
<1>3. UNCHANGED <<killed, callVars, live>> /\ InUser(t)
  BY DEF SysPipe
<1>4. \A u \in Tasks, k \in Fds :
        fds'[u][k] = IF u = t /\ k = f THEN r
                     ELSE IF u = t /\ k = g THEN w ELSE fds[u][k]
  <2>1. fds \in [Tasks -> [Fds -> Handles \cup {Terminal, NULL}]]
    BY DEF IInv, TypeOK
  <2>2. fds' = [fds EXCEPT ![t][f] = r, ![t][g] = w]
    BY <1>0 DEF f, g
  <2>. QED
    BY <1>2, <2>1, <2>2
<1>5. \A h \in Handles :
        /\ type'[h] = IF h = w THEN "write" ELSE IF h = r THEN "read" ELSE type[h]
        /\ refs'[h] = IF h \in {r, w} THEN 1 ELSE refs[h]
        /\ end_of'[h] = IF h \in {r, w} THEN p ELSE end_of[h]
  BY <1>0, <1>1 DEF IInv, TypeOK
<1>6. TypeOK'
  <2>1. fds' \in [Tasks -> [Fds -> Handles \cup {Terminal, NULL}]]
    <3>1. fds \in [Tasks -> [Fds -> Handles \cup {Terminal, NULL}]]
      BY DEF IInv, TypeOK
    <3>2. fds' = [fds EXCEPT ![t][f] = r, ![t][g] = w]
      BY <1>0 DEF f, g
    <3>. QED
      BY <1>1, <1>2, <3>1, <3>2
  <2>2. /\ type' \in [Handles -> {"file", "read", "write"}]
        /\ refs' \in [Handles -> Nat]
        /\ end_of' \in [Handles -> Pipes \cup {NULL}]
    BY <1>0, <1>1 DEF IInv, TypeOK
  <2>3. [i \in Ring |-> CHOOSE b \in Bytes : TRUE] \in [Ring -> Bytes]
    BY SomeByte
  <2>4. 0 \in Ring /\ 0 \in 0 .. PIPE_SIZE
    BY DEF Ring
  <2>5. PipeTypeOK'
    BY <1>0, <1>3, <2>3, <2>4 DEF IInv, TypeOK, PipeTypeOK, pipe_new, callVars
  <2>. QED
    BY <1>3, <2>1, <2>2, <2>5 DEF IInv, TypeOK
<1>7. readers[p] = 0 /\ writers[p] = 0
  BY <1>0 DEF pipe_new, Allocated, IInv, TypeOK, PipeTypeOK
<1>8. \A q \in Pipes : /\ readers'[q] = IF q = p THEN 1 ELSE readers[q]
                       /\ writers'[q] = IF q = p THEN 1 ELSE writers[q]
                       /\ q # p => count'[q] = count[q]
  BY <1>0 DEF pipe_new, IInv, TypeOK, PipeTypeOK
<1>9. HandleBooks'
  <2>1. Holders(r)' = {<<t, f>>} /\ Holders(w)' = {<<t, g>>}
    <3>1. ASSUME NEW u \in Tasks, NEW k \in Fds
          PROVE  /\ (fds'[u][k] = r) <=> (u = t /\ k = f)
                 /\ (fds'[u][k] = w) <=> (u = t /\ k = g)
      BY <1>1, <1>2, <1>4
    <3>. QED
      BY <1>2, <3>1 DEF Holders
  <2>2. \A k \in Handles \ {r, w} : Holders(k)' = Holders(k)
    BY <1>2, <1>4 DEF Holders
  <2>3. Cardinality(Holders(r)') = 1 /\ Cardinality(Holders(w)') = 1
    BY <2>1, FS_Singleton
  <2>4. ASSUME NEW k \in Handles PROVE refs'[k] = Cardinality(Holders(k)')
    BY <1>5, <2>2, <2>3 DEF IInv, HandleBooks
  <2>5. Ends(p, "read") = {} /\ Ends(p, "write") = {}
    BY <1>7, Finite, FS_EmptySet DEF IInv, HandleBooks
  <2>6. ASSUME NEW h \in Handles
        PROVE  /\ h \in Ends(p, "read")' <=> h = r
               /\ h \in Ends(p, "write")' <=> h = w
    <3>1. CASE h \in {r, w}
      BY <1>1, <1>5, <3>1 DEF Ends
    <3>2. CASE h \notin {r, w}
      <4>1. refs'[h] = refs[h] /\ type'[h] = type[h] /\ end_of'[h] = end_of[h]
        BY <1>5, <3>2
      <4>2. h \notin Ends(p, "read") /\ h \notin Ends(p, "write")
        BY <2>5
      <4>. QED
        BY <3>2, <4>1, <4>2 DEF Ends
    <3>. QED
      BY <3>1, <3>2
  <2>7. Ends(p, "read")' = {r} /\ Ends(p, "write")' = {w}
    <3>1. Ends(p, "read")' \subseteq Handles /\ Ends(p, "write")' \subseteq Handles
      BY DEF Ends
    <3>. QED
      BY <1>1, <2>6, <3>1
  <2>8. ASSUME NEW q \in Pipes, q # p, NEW ty
        PROVE  Ends(q, ty)' = Ends(q, ty)
    <3>1. ASSUME NEW h \in Handles
          PROVE  refs'[h] > 0 /\ type'[h] = ty /\ end_of'[h] = q
                    <=> refs[h] > 0 /\ type[h] = ty /\ end_of[h] = q
      BY <1>1, <1>5, <2>8
    <3>. QED
      BY <3>1 DEF Ends
  <2>9. Cardinality(Ends(p, "read")') = 1 /\ Cardinality(Ends(p, "write")') = 1
    BY <2>7, FS_Singleton
  <2>10. ASSUME NEW q \in Pipes
         PROVE  /\ readers'[q] = Cardinality(Ends(q, "read")')
                /\ writers'[q] = Cardinality(Ends(q, "write")')
    <3>1. CASE q = p
      BY <1>8, <2>9, <3>1
    <3>2. CASE q # p
      BY <1>8, <2>8, <3>2 DEF IInv, HandleBooks
    <3>. QED
      BY <3>1, <3>2
  <2>. QED
    BY <2>4, <2>10 DEF HandleBooks
<1>10. BlockedForReason'
  <2>. SUFFICES ASSUME NEW u \in Tasks, wait_channel[u] # NULL
                PROVE  LET q == wait_channel[u]
                       IN  /\ q = pipe[u] /\ ~ killed[u]
                           /\ \/ /\ call[u] = "read" /\ count'[q] = 0
                                 /\ writers'[q] > 0
                              \/ /\ call[u] = "write" /\ count'[q] = PIPE_SIZE
                                 /\ readers'[q] > 0
    BY <1>3 DEF BlockedForReason, callVars
  <2>1. wait_channel[u] # p /\ wait_channel[u] \in Pipes
    <3>1. wait_channel[u] \in Pipes
      BY DEF IInv, TypeOK, PipeTypeOK
    <3>2. writers[wait_channel[u]] > 0 \/ readers[wait_channel[u]] > 0
      BY DEF IInv, BlockedForReason
    <3>. QED
      BY <1>7, <3>1, <3>2
  <2>. QED
    BY <1>8, <2>1 DEF IInv, BlockedForReason
<1>11. EndHeld'
  <2>. SUFFICES ASSUME NEW u \in Tasks, call[u] # "none"
                PROVE  pipe[u] \in Pipes /\ Holds(u, call[u])'
    BY <1>3 DEF EndHeld, callVars
  <2>1. PICK k \in Fds : /\ fds[u][k] \in Handles
                         /\ type[fds[u][k]] = call[u]
                         /\ end_of[fds[u][k]] = pipe[u]
    BY DEF IInv, EndHeld, Holds
  <2>2. fds[u][k] \notin {r, w} /\ fds'[u][k] = fds[u][k]
    <3>1. fds[u][k] \notin {r, w} /\ fds[u][k] # NULL
      BY <1>1, <2>1
    <3>. QED
      BY <1>2, <1>4, <3>1
  <2>3. type'[fds[u][k]] = type[fds[u][k]] /\ end_of'[fds[u][k]] = end_of[fds[u][k]]
    BY <1>5, <2>1, <2>2
  <2>. QED
    BY <1>3, <2>1, <2>2, <2>3 DEF IInv, EndHeld, Holds, callVars
<1>12. DeadHaveNothing'
  BY <1>3, <1>4 DEF IInv, DeadHaveNothing, InUser, callVars
<1>13. EndsReal'
  BY <1>5 DEF IInv, EndsReal
<1>. QED
  BY <1>6, <1>9, <1>10, <1>11, <1>12, <1>13 DEF IInv

-----------------------------------------------------------------------------
(* The other steps *)

(* task_kill preserves the invariant: the killed task is not blocked. *)
LEMMA KillStep == ASSUME IInv, NEW t \in Tasks, Kill(t) PROVE IInv'
<1>1. TypeOK'
  BY DEF Kill, IInv, TypeOK, PipeTypeOK, pipeVars, handleVars
<1>2. HandleBooks'
  <2>1. \A h : Holders(h)' = Holders(h)
    BY DEF Holders, Kill
  <2>2. \A q, y : Ends(q, y)' = Ends(q, y)
    BY DEF Ends, Kill, handleVars
  <2>. QED
    BY <2>1, <2>2 DEF IInv, HandleBooks, Kill, handleVars, pipeVars
<1>3. BlockedForReason'
  BY DEF Kill, IInv, BlockedForReason, TypeOK, PipeTypeOK, pipeVars
<1>4. EndHeld' /\ DeadHaveNothing' /\ EndsReal'
  BY DEF Kill, IInv, EndHeld, Holds, DeadHaveNothing, EndsReal, handleVars
<1>. QED
  BY <1>1, <1>2, <1>3, <1>4 DEF IInv

(* sys_close and task_exit preserve the invariant. *)
LEMMA SysCloseStep == ASSUME IInv, NEW t \in Tasks, SysClose(t) PROVE IInv'
<1>1. PICK f \in Fds : fds[t][f] # NULL /\ handle_close(t, {f})
  BY DEF SysClose
<1>2. /\ live[t] /\ call[t] = "none" /\ live' = live
      /\ UNCHANGED <<killed, call, pipe, len, left>>
  BY DEF SysClose, InUser
<1>3. live' \in [Tasks -> BOOLEAN] /\ live'[t]
  BY <1>2 DEF IInv, TypeOK
<1>. QED
  BY <1>1, <1>2, <1>3, CloseStep

LEMMA ExitStep == ASSUME IInv, NEW t \in Tasks, Exit(t) PROVE IInv'
<1>. DEFINE fs == {f \in Fds : fds[t][f] # NULL}
<1>1. /\ call[t] = "none" /\ handle_close(t, fs)
      /\ UNCHANGED <<killed, call, pipe, len, left>>
  BY DEF Exit, InUser
<1>2. /\ live' \in [Tasks -> BOOLEAN]
      /\ \A u \in Tasks : u # t => live'[u] = live[u]
  BY DEF Exit, IInv, TypeOK
<1>3. fs \in SUBSET Fds /\ \A f \in Fds : fds[t][f] # NULL => f \in fs
  OBVIOUS
<1>. HIDE DEF fs
<1>. QED
  BY <1>1, <1>2, <1>3, CloseStep

(* A task in user mode is not blocked. *)
LEMMA UserRuns ==
    ASSUME IInv, NEW t \in Tasks, InUser(t)
    PROVE  live[t] /\ wait_channel[t] = NULL
BY DEF IInv, BlockedForReason, InUser

(* An opened handle of a pipe is an end of it. *)
LEMMA OpenedEnd ==
    ASSUME IInv, NEW t \in Tasks, NEW ty \in {"read", "write"},
           NEW h \in Opened(t, ty)
    PROVE  /\ end_of[h] \in Pipes
           /\ \E f \in Fds : /\ fds[t][f] \in Handles
                             /\ type[fds[t][f]] = ty
                             /\ end_of[fds[t][f]] = end_of[h]
<1>1. h \in Handles /\ type[h] = ty
  BY DEF Opened
<1>2. PICK f \in Fds : fds[t][f] = h
  BY DEF Opened
<1>3. refs[h] > 0
  BY <1>1, <1>2, HeldCounts
<1>. QED
  BY <1>1, <1>2, <1>3 DEF IInv, EndsReal

(* Reads and writes, from their start and from where they blocked *)
LEMMA ReadStep == ASSUME IInv, NEW t \in Tasks, SysRead(t) PROVE IInv'
<1>1. PICK h \in Opened(t, "read"), n \in ReadLens : pipe_read(t, end_of[h], n)
  BY DEF SysRead
<1>2. n \in Nat /\ <<>> \in Seq(Bytes)
  OBVIOUS
<1>3. /\ InUser(t) /\ UNCHANGED <<killed, handleVars, live, fds>>
  BY DEF SysRead
<1>4. /\ end_of[h] \in Pipes
      /\ \E f \in Fds : /\ fds[t][f] \in Handles
                        /\ type[fds[t][f]] = "read"
                        /\ end_of[fds[t][f]] = end_of[h]
  BY OpenedEnd
<1>5. live[t] /\ wait_channel[t] = NULL
  BY <1>3, UserRuns
<1>. QED
  BY <1>1, <1>2, <1>3, <1>4, <1>5, PipeStep

LEMMA WriteStep == ASSUME IInv, NEW t \in Tasks, SysWrite(t) PROVE IInv'
<1>1. PICK h \in Opened(t, "write"), s \in Messages : pipe_write(t, end_of[h], s)
  BY DEF SysWrite
<1>2. s \in Seq(Bytes) /\ 0 \in Nat
  OBVIOUS
<1>3. /\ InUser(t) /\ UNCHANGED <<killed, handleVars, live, fds>>
  BY DEF SysWrite
<1>4. /\ end_of[h] \in Pipes
      /\ \E f \in Fds : /\ fds[t][f] \in Handles
                        /\ type[fds[t][f]] = "write"
                        /\ end_of[fds[t][f]] = end_of[h]
  BY OpenedEnd
<1>5. live[t] /\ wait_channel[t] = NULL
  BY <1>3, UserRuns
<1>. QED
  BY <1>1, <1>2, <1>3, <1>4, <1>5, PipeStep

LEMMA ResumeStep == ASSUME IInv, NEW t \in Tasks, Resumes(t) PROVE IInv'
<1>1. /\ call[t] \in {"read", "write"} /\ wait_channel[t] = NULL
      /\ UNCHANGED <<killed, handleVars, live, fds>>
      /\ \/ call[t] = "read" /\ pipe_read(t, pipe[t], len[t])
         \/ call[t] = "write" /\ pipe_write(t, pipe[t], left[t])
  BY DEF Resumes
<1>2. live[t]
  BY <1>1 DEF IInv, DeadHaveNothing
<1>3. len[t] \in Nat /\ left[t] \in Seq(Bytes)
  BY DEF IInv, TypeOK, PipeTypeOK
<1>4. /\ pipe[t] \in Pipes
      /\ \E f \in Fds : /\ fds[t][f] \in Handles
                        /\ type[fds[t][f]] = call[t]
                        /\ end_of[fds[t][f]] = pipe[t]
  BY <1>1 DEF IInv, EndHeld, Holds
<1>. QED
  BY <1>1, <1>2, <1>3, <1>4, PipeStep

(* The first shell runs, and every handle and pipe is free. *)
LEMMA Initially == Init => IInv
<1>. SUFFICES ASSUME Init PROVE IInv
  OBVIOUS
<1>1. TypeOK
  <2>1. [i \in Ring |-> CHOOSE b \in Bytes : TRUE] \in [Ring -> Bytes]
    BY SomeByte
  <2>2. 0 \in Ring /\ 0 \in 0 .. PIPE_SIZE /\ <<>> \in Seq(Bytes)
    BY DEF Ring
  <2>3. PipeTypeOK
    BY <2>1, <2>2 DEF Init, PipeTypeOK
  <2>4. live \in [Tasks -> BOOLEAN]
    BY Zenon DEF Init
  <2>. QED
    BY <2>3, <2>4 DEF Init, TypeOK
<1>2. HandleBooks
  <2>1. ASSUME NEW h \in Handles PROVE Holders(h) = {}
    BY DEF Holders, Init
  <2>2. ASSUME NEW p, NEW ty PROVE Ends(p, ty) = {}
    BY DEF Ends, Init
  <2>. QED
    BY <2>1, <2>2, FS_EmptySet DEF HandleBooks, Init
<1>3. BlockedForReason /\ EndHeld /\ EndsReal
  BY DEF BlockedForReason, EndHeld, EndsReal, Init
<1>4. DeadHaveNothing
  BY DEF DeadHaveNothing, Init
<1>. QED
  BY <1>1, <1>2, <1>3, <1>4 DEF IInv

(* A stuttering step preserves the invariant. *)
LEMMA Stutters == ASSUME IInv, UNCHANGED vars PROVE IInv'
<1>. USE DEF vars, pipeVars, callVars, handleVars
<1>1. TypeOK'
  BY DEF IInv, TypeOK, PipeTypeOK
<1>2. HandleBooks'
  BY DEF IInv, HandleBooks, Holders, Ends
<1>3. BlockedForReason' /\ DeadHaveNothing' /\ EndsReal'
  BY DEF IInv, BlockedForReason, DeadHaveNothing, EndsReal
<1>4. EndHeld'
  BY DEF IInv, EndHeld, Holds
<1>. QED
  BY <1>1, <1>2, <1>3, <1>4 DEF IInv

-----------------------------------------------------------------------------
(* Theorems *)

(* Every step preserves the invariant. *)
LEMMA StepInv == ASSUME IInv, [Next]_vars PROVE IInv'
<1>1. CASE UNCHANGED vars
  BY <1>1, Stutters
<1>2. CASE InitStartsShell
  BY <1>2, InitStartsStep
<1>3. ASSUME NEW t \in Tasks,
             \/ SysOpen(t) \/ SysPipe(t) \/ SysRun(t) \/ SysClose(t)
             \/ SysRead(t) \/ SysWrite(t) \/ Resumes(t) \/ Kill(t) \/ Exit(t)
      PROVE  IInv'
  BY <1>3, OpenStep, NewPipeStep, RunStep, SysCloseStep, ReadStep, WriteStep,
     ResumeStep, KillStep, ExitStep
<1>. QED
  BY <1>1, <1>2, <1>3 DEF Next

(***************************************************************************)
(* Every call, wakeup, kill and exit preserves IInv: handle.c, pipe.c and  *)
(* the descriptors of task.c.                                              *)
(***************************************************************************)
THEOREM HandleInductive == Spec => []IInv
<1>1. IInv /\ [Next]_vars => IInv'
  BY StepInv
<1>. QED
  BY <1>1, Initially, PTL DEF Spec

(* The state of pipes, handles and descriptors keeps its types. *)
THEOREM HandleTypes == Spec => []TypeOK
<1>1. IInv => TypeOK
  BY DEF IInv
<1>. QED
  BY <1>1, HandleInductive, PTL

(***************************************************************************)
(* handle_ref and handle_close count the descriptors of all tasks, and     *)
(* pipe_new and pipe_close_reader/_writer the handles of each end, through *)
(* every order of spawns, closes and exits.                                *)
(***************************************************************************)
THEOREM HandlesCounted == Spec => []HandleBooks
<1>1. IInv => HandleBooks
  BY DEF IInv
<1>. QED
  BY <1>1, HandleInductive, PTL

(***************************************************************************)
(* No wakeup of pipe_read and pipe_write is lost: whoever is blocked on a  *)
(* pipe waits for something that has not happened yet and still can.       *)
(***************************************************************************)
THEOREM PipeWaitsJustified == Spec => []BlockedForReason
<1>1. IInv => BlockedForReason
  BY DEF IInv
<1>. QED
  BY <1>1, HandleInductive, PTL

(***************************************************************************)
(* pipe_free_if_unused never frees a pipe that a blocked or woken call     *)
(* still uses.                                                             *)
(***************************************************************************)
THEOREM PipesOutliveCalls == Spec => []PipeOutlivesCalls
BY Outlives, HandleInductive, PTL

-----------------------------------------------------------------------------
(* Every pipe is a stream of bytes *)

(* the slot of the ring n slots on from its start *)
Slot(n) == n % PIPE_SIZE

(* It is in the ring, and one that is at most a round too far comes down   *)
(* by a round.                                                             *)
LEMMA Wrap ==
    /\ \A x \in Int : Slot(x) \in Ring
    /\ \A x \in 0 .. PIPE_SIZE - 1 : Slot(x) = x /\ Slot(x + PIPE_SIZE) = x
    /\ \A x \in 0 .. 2 * PIPE_SIZE - 1 :
          Slot(x) = IF x < PIPE_SIZE THEN x ELSE x - PIPE_SIZE
<1>1. \A x \in Int : Slot(x) \in Ring
  BY InRing DEF Slot
<1>2. \A x \in 0 .. PIPE_SIZE - 1 : Slot(x) = x /\ Slot(x + PIPE_SIZE) = x
  BY ModIn DEF Slot
<1>3. ASSUME NEW x \in 0 .. 2 * PIPE_SIZE - 1
      PROVE  Slot(x) = IF x < PIPE_SIZE THEN x ELSE x - PIPE_SIZE
  <2>1. CASE x < PIPE_SIZE
    BY <1>2, <2>1
  <2>2. CASE x >= PIPE_SIZE
    <3>. DEFINE y == x - PIPE_SIZE
    <3>1. y \in 0 .. PIPE_SIZE - 1 /\ x = y + PIPE_SIZE
      BY <2>2
    <3>. HIDE DEF y
    <3>2. Slot(x) = y
      BY <1>2, <3>1
    <3>. QED
      BY <2>2, <3>2 DEF y
  <2>. QED
    BY <2>1, <2>2
<1>. QED
  BY <1>1, <1>2, <1>3

(* Two steps along the ring are one of their sum. *)
LEMMA WrapTwice ==
    ASSUME NEW h \in Ring, NEW a \in Nat, NEW b \in Nat, a + b < PIPE_SIZE
    PROVE  Slot(Slot(h + a) + b) = Slot(h + a + b)
<1>1. /\ h \in 0 .. PIPE_SIZE - 1
      /\ h + a \in 0 .. 2 * PIPE_SIZE - 1
      /\ h + a + b \in 0 .. 2 * PIPE_SIZE - 1
  BY DEF Ring
<1>2. Slot(h + a) = IF h + a < PIPE_SIZE THEN h + a ELSE h + a - PIPE_SIZE
  BY <1>1, Wrap
<1>3. Slot(h + a) + b \in 0 .. 2 * PIPE_SIZE - 1
  BY <1>1, <1>2
<1>. QED
  BY <1>1, <1>2, <1>3, Wrap

(***************************************************************************)
(* How far position b of the content is behind the end of a content of     *)
(* length a: the new bytes start there, the old ones are a round away.     *)
(***************************************************************************)
LEMMA BehindEnd ==
    ASSUME NEW h \in Ring, NEW a \in 0 .. PIPE_SIZE, NEW b \in Ring
    PROVE  Slot(Slot(h + b) - Slot(h + a) + PIPE_SIZE)
             = IF b >= a THEN b - a ELSE b - a + PIPE_SIZE
<1>1. /\ h \in 0 .. PIPE_SIZE - 1 /\ b \in 0 .. PIPE_SIZE - 1
      /\ h + b \in 0 .. 2 * PIPE_SIZE - 1
      /\ h + a \in 0 .. 2 * PIPE_SIZE - 1
  BY DEF Ring
<1>2. Slot(h + b) = IF h + b < PIPE_SIZE THEN h + b ELSE h + b - PIPE_SIZE
  BY <1>1, Wrap
<1>3. Slot(h + a) = IF h + a < PIPE_SIZE THEN h + a ELSE h + a - PIPE_SIZE
  BY <1>1, Wrap
<1>4. Slot(h + b) - Slot(h + a) + PIPE_SIZE \in 0 .. 2 * PIPE_SIZE - 1
  BY <1>1, <1>2, <1>3
<1>. QED
  BY <1>1, <1>2, <1>3, <1>4, Wrap, SMTT(30)

(* The content of a pipe is a sequence of bytes, *)
LEMMA ContentBytes ==
    ASSUME TypeOK, NEW p \in Pipes
    PROVE  /\ Content(p) \in Seq(Bytes) /\ Len(Content(p)) = count[p]
           /\ \A i \in 1 .. count[p] :
                Content(p)[i] = buffer[p][Slot(head[p] + i - 1)]
<1>. DEFINE b == buffer[p]   h == head[p]   k == count[p]
            c == Content(p)
<1>1. b \in [Ring -> Bytes] /\ h \in Ring /\ k \in Nat
  BY DEF TypeOK, PipeTypeOK
<1>2. c = [i \in 1 .. k |-> b[Slot(h + i - 1)]]
  BY DEF Content, Slot
<1>. HIDE DEF b, h, k, c
<1>3. \A i \in 1 .. k : b[Slot(h + i - 1)] \in Bytes
  <2>1. \A i \in 1 .. k : h + i - 1 \in Int
    BY <1>1 DEF Ring
  <2>. QED
    BY <1>1, <2>1, Wrap
<1>4. c \in [1 .. k -> Bytes]
  BY <1>2, <1>3
<1>5. c \in Seq(Bytes) /\ Len(c) = k
  BY <1>1, <1>4
<1>6. \A i \in 1 .. k : c[i] = b[Slot(h + i - 1)]
  BY <1>2
<1>. QED
  BY <1>5, <1>6 DEF b, h, k, c

(* also after a step. *)
LEMMA ContentBytesAfter ==
    ASSUME TypeOK', NEW p \in Pipes
    PROVE  /\ Content(p)' \in Seq(Bytes) /\ Len(Content(p)') = count'[p]
           /\ \A i \in 1 .. count'[p] :
                Content(p)'[i] = buffer'[p][Slot(head'[p] + i - 1)]
<1>. DEFINE b == buffer'[p]   h == head'[p]   k == count'[p]
            c == Content(p)'
<1>1. b \in [Ring -> Bytes] /\ h \in Ring /\ k \in Nat
  BY DEF TypeOK, PipeTypeOK
<1>2. c = [i \in 1 .. k |-> b[Slot(h + i - 1)]]
  BY DEF Content, Slot
<1>. HIDE DEF b, h, k, c
<1>3. \A i \in 1 .. k : b[Slot(h + i - 1)] \in Bytes
  <2>1. \A i \in 1 .. k : h + i - 1 \in Int
    BY <1>1 DEF Ring
  <2>. QED
    BY <1>1, <2>1, Wrap
<1>4. c \in [1 .. k -> Bytes]
  BY <1>2, <1>3
<1>5. c \in Seq(Bytes) /\ Len(c) = k
  BY <1>1, <1>4
<1>6. \A i \in 1 .. k : c[i] = b[Slot(h + i - 1)]
  BY <1>2
<1>. QED
  BY <1>5, <1>6 DEF b, h, k, c

(* Two sequences end to end *)
LEMMA Appended ==
    ASSUME NEW S, NEW a \in Seq(S), NEW b \in Seq(S), NEW c \in Seq(S),
           Len(c) = Len(a) + Len(b),
           \A i \in 1 .. Len(a) : c[i] = a[i],
           \A i \in 1 .. Len(b) : c[Len(a) + i] = b[i]
    PROVE  c = a \o b
<1>. DEFINE d == a \o b
<1>1. d \in Seq(S) /\ Len(d) = Len(a) + Len(b)
  OBVIOUS
<1>2. ASSUME NEW i \in 1 .. Len(a) + Len(b) PROVE d[i] = c[i]
  <2>1. CASE i <= Len(a)
    BY <2>1
  <2>2. CASE i > Len(a)
    <3>1. i - Len(a) \in 1 .. Len(b) /\ Len(a) + (i - Len(a)) = i
      BY <2>2
    <3>2. d[i] = b[i - Len(a)]
      BY <2>2
    <3>3. c[Len(a) + (i - Len(a))] = b[i - Len(a)]
      BY <3>1
    <3>. QED
      BY <3>1, <3>2, <3>3
  <2>. QED
    BY <2>1, <2>2
<1>. HIDE DEF d
<1>3. \A i \in 1 .. Len(c) : d[i] = c[i]
  BY <1>2
<1>4. c = d
  BY <1>1, <1>3
<1>. QED
  BY <1>4 DEF d

(* The bytes pipe_read takes are the oldest ones. *)
LEMMA TakeContent ==
    ASSUME TypeOK, NEW p \in Pipes, NEW n \in 0 .. count[p], Take(p, n)
    PROVE  Content(p)' = SubSeq(Content(p), n + 1, count[p])
<1>. DEFINE c == Content(p)
            k == count[p]
            h == head[p]
<1>1. /\ k \in 0 .. PIPE_SIZE /\ k \in Nat /\ h \in Ring /\ h \in Int
      /\ n \in 0 .. k
      /\ head'[p] = Slot(h + n) /\ count'[p] = k - n /\ buffer' = buffer
  BY DEF Take, TypeOK, PipeTypeOK, Slot, Ring
<1>2. /\ c \in Seq(Bytes) /\ Len(c) = k
      /\ \A i \in 1 .. k : c[i] = buffer[p][Slot(h + i - 1)]
  BY ContentBytes
<1>3. Content(p)' = [i \in 1 .. k - n |-> buffer[p][Slot(Slot(h + n) + i - 1)]]
  BY <1>1 DEF Content, Slot
<1>. HIDE DEF c, k, h
<1>4. ASSUME NEW i \in 1 .. k - n
      PROVE  buffer[p][Slot(Slot(h + n) + i - 1)] = c[n + i]
  <2>1. i - 1 \in Nat /\ n \in Nat /\ n + (i - 1) < PIPE_SIZE /\ n + i \in 1 .. k
    BY <1>1
  <2>2. Slot(Slot(h + n) + (i - 1)) = Slot(h + n + (i - 1))
    BY <1>1, <2>1, WrapTwice
  <2>3. Slot(h + n) \in Int
    <3>1. h + n \in Int
      BY <1>1, <2>1
    <3>. QED
      BY <3>1, Wrap DEF Ring
  <2>4. /\ Slot(h + n) + (i - 1) = Slot(h + n) + i - 1
        /\ h + n + (i - 1) = h + (n + i) - 1
    BY <1>1, <2>1, <2>3
  <2>5. Slot(Slot(h + n) + i - 1) = Slot(h + (n + i) - 1)
    BY <2>2, <2>4
  <2>. QED
    BY <1>2, <2>1, <2>5
<1>5. Content(p)' = [i \in 1 .. k - n |-> c[n + i]]
  BY <1>3, <1>4
<1>6. SubSeq(c, n + 1, k) = [i \in 1 .. k - n |-> c[n + i]]
  <2>1. /\ SubSeq(c, n + 1, k) \in Seq(Bytes)
        /\ Len(SubSeq(c, n + 1, k)) = k - n
        /\ \A i \in 1 .. k - n : SubSeq(c, n + 1, k)[i] = c[n + i]
    BY <1>1, <1>2
  <2>. QED
    BY <1>1, <2>1
<1>. QED
  BY <1>5, <1>6 DEF c, k

(* The bytes pipe_write stores follow those that were there. *)
LEMMA StoreContent ==
    ASSUME TypeOK, TypeOK', NEW p \in Pipes, NEW s \in Seq(Bytes),
           Len(s) <= PIPE_SIZE - count[p], Store(p, s)
    PROVE  Content(p)' = Content(p) \o s
<1>. DEFINE h == head[p]
            k == count[p]
            offset(i) == Slot(i - Slot(h + k) + PIPE_SIZE)
            old == Content(p)
            new == Content(p)'
<1>1. /\ k \in 0 .. PIPE_SIZE /\ k \in Nat /\ h \in Ring /\ h \in Int
      /\ Len(s) \in Nat /\ Len(s) <= PIPE_SIZE - k
      /\ head'[p] = h /\ count'[p] = k + Len(s)
      /\ buffer'[p] = [i \in Ring |-> IF offset(i) < Len(s) THEN s[offset(i) + 1]
                                      ELSE buffer[p][i]]
  BY DEF Store, TypeOK, PipeTypeOK, Ring, Slot
<1>2. /\ old \in Seq(Bytes) /\ Len(old) = k
      /\ \A i \in 1 .. k : old[i] = buffer[p][Slot(h + i - 1)]
  BY ContentBytes
<1>3. /\ new \in Seq(Bytes) /\ Len(new) = count'[p]
      /\ \A i \in 1 .. count'[p] : new[i] = buffer'[p][Slot(head'[p] + i - 1)]
  BY ContentBytesAfter
<1>. HIDE DEF h, k, old, new
<1>4. ASSUME NEW i \in 1 .. k + Len(s)
      PROVE  new[i] = IF i <= k THEN old[i] ELSE s[i - k]
  <2>. DEFINE x == Slot(h + i - 1)
  <2>1. i - 1 \in Ring /\ h + i - 1 = h + (i - 1) /\ h + i - 1 \in Int
    BY <1>1 DEF Ring
  <2>2. Slot(Slot(h + (i - 1)) - Slot(h + k) + PIPE_SIZE)
             = IF i - 1 >= k THEN i - 1 - k ELSE i - 1 - k + PIPE_SIZE
    <3>1. h \in Ring /\ k \in 0 .. PIPE_SIZE
      BY <1>1
    <3>. QED
      BY <2>1, <3>1, BehindEnd
  <2>3. offset(x) = IF i - 1 >= k THEN i - 1 - k ELSE i - 1 - k + PIPE_SIZE
    BY <2>1, <2>2
  <2>4. x \in Ring
    BY <2>1, Wrap
  <2>. HIDE DEF offset, x
  <2>5. new[i] = buffer'[p][x]
    BY <1>1, <1>3 DEF x
  <2>6. new[i] = IF offset(x) < Len(s) THEN s[offset(x) + 1] ELSE buffer[p][x]
    BY <1>1, <2>4, <2>5
  <2>7. CASE i <= k
    <3>1. ~ (offset(x) < Len(s)) /\ i \in 1 .. k
      BY <1>1, <2>3, <2>7
    <3>. QED
      BY <1>2, <2>6, <2>7, <3>1 DEF x
  <2>8. CASE i > k
    <3>1. offset(x) < Len(s) /\ offset(x) + 1 = i - k
      BY <1>1, <2>3, <2>8
    <3>. QED
      BY <1>1, <2>6, <2>8, <3>1
  <2>. QED
    BY <1>1, <2>7, <2>8
<1>5. new = old \o s
  <2>1. \A i \in 1 .. Len(old) : new[i] = old[i]
    BY <1>1, <1>2, <1>4, SMTT(30)
  <2>2. \A i \in 1 .. Len(s) : new[Len(old) + i] = s[i]
    BY <1>1, <1>2, <1>4
  <2>3. Len(new) = Len(old) + Len(s)
    BY <1>1, <1>2, <1>3
  <2>. QED
    BY <1>2, <1>3, <2>1, <2>2, <2>3, Appended
<1>. QED
  BY <1>5 DEF old, new

(* A pipe whose fields a step leaves alone stutters as a stream. *)
LEMMA StreamStays ==
    ASSUME NEW p, buffer'[p] = buffer[p], head'[p] = head[p],
           count'[p] = count[p], readers'[p] = readers[p],
           writers'[p] = writers[p]
    PROVE  StreamStep(p)
BY DEF StreamStep, Stream!vars, Allocated, Content

(* Taking bytes from a pipe somebody can read is a Get of the stream. *)
LEMMA TakeStep ==
    ASSUME TypeOK, NEW p \in Pipes, NEW n \in 0 .. count[p], Take(p, n),
           readers[p] > 0, UNCHANGED <<readers, writers>>
    PROVE  StreamStep(p)
<1>1. /\ Allocated(p) /\ Allocated(p)'
      /\ readers'[p] = readers[p] /\ writers'[p] = writers[p]
      /\ count[p] \in Nat
  BY DEF Allocated, TypeOK, PipeTypeOK
<1>2. Content(p) \in Seq(Bytes) /\ Len(Content(p)) = count[p]
  BY ContentBytes
<1>3. Content(p)' = SubSeq(Content(p), n + 1, count[p])
  BY TakeContent
<1>. DEFINE c == Content(p)
            d == Content(p)'
<1>4. /\ c \in Seq(Bytes) /\ Len(c) = count[p] /\ d = SubSeq(c, n + 1, count[p])
  BY <1>2, <1>3
<1>5. CASE n = 0
  <2>1. d = c
    <3>. HIDE DEF c, d
    <3>. QED
      BY <1>1, <1>4, <1>5
  <2>. QED
    BY <1>1, <2>1 DEF StreamStep, Stream!vars
<1>6. CASE n # 0
  <2>1. n \in 1 .. Len(c) /\ d = SubSeq(c, n + 1, Len(c))
    <3>. HIDE DEF c, d
    <3>. QED
      BY <1>1, <1>4, <1>6
  <2>2. Stream(p)!Get
    BY <1>1, <2>1 DEF Stream!Get
  <2>. QED
    BY <2>2 DEF StreamStep, Stream!Next
<1>. QED
  BY <1>5, <1>6

(* Storing bytes in a pipe with both ends is a Put of the stream. *)
LEMMA StoreStep ==
    ASSUME TypeOK, TypeOK', NEW p \in Pipes, NEW s \in Seq(Bytes), s # <<>>,
           Len(s) <= PIPE_SIZE - count[p], Store(p, s),
           readers[p] > 0, writers[p] > 0, UNCHANGED <<readers, writers>>
    PROVE  StreamStep(p)
<1>1. /\ Allocated(p) /\ Allocated(p)'
      /\ readers'[p] = readers[p] /\ writers'[p] = writers[p]
      /\ count[p] \in 0 .. PIPE_SIZE /\ count[p] \in Nat
  BY DEF Allocated, TypeOK, PipeTypeOK
<1>2. Content(p) \in Seq(Bytes) /\ Len(Content(p)) = count[p]
  BY ContentBytes
<1>3. Content(p)' = Content(p) \o s
  BY StoreContent
<1>4. s \in UNION {[1 .. n -> Bytes] : n \in 1 .. PIPE_SIZE - Len(Content(p))}
  <2>1. /\ Len(s) \in 1 .. PIPE_SIZE - count[p]
        /\ s \in [1 .. Len(s) -> Bytes]
    BY <1>1
  <2>. QED
    BY <1>2, <2>1
<1>5. Stream(p)!Put
  <2>. DEFINE c == Content(p)
              d == Content(p)'
  <2>1. d = c \o s /\ s \in UNION {[1 .. n -> Bytes] : n \in 1 .. PIPE_SIZE - Len(c)}
    BY <1>3, <1>4
  <2>. QED
    BY <1>1, <2>1 DEF Stream!Put
<1>. QED
  BY <1>5 DEF StreamStep, Stream!Next

(* Every step of pipe_read reads or stutters. *)
LEMMA ReadStreams ==
    ASSUME TypeOK, NEW t \in Tasks, NEW q \in Pipes, NEW n \in Nat,
           readers[q] > 0, pipe_read(t, q, n), NEW p \in Pipes
    PROVE  StreamStep(p)
<1>1. UNCHANGED <<readers, writers>>
  BY DEF pipe_read
<1>2. CASE UNCHANGED <<buffer, head, count>>
  BY <1>1, <1>2, StreamStays
<1>3. CASE Take(q, AtMost(n, count[q]))
  <2>1. AtMost(n, count[q]) \in 0 .. count[q]
    BY DEF AtMost, TypeOK, PipeTypeOK
  <2>2. CASE p = q
    BY <1>1, <1>3, <2>1, <2>2, TakeStep
  <2>3. CASE p # q
    <3>1. /\ buffer'[p] = buffer[p] /\ head'[p] = head[p]
          /\ count'[p] = count[p]
      BY <1>3, <2>3 DEF Take, TypeOK, PipeTypeOK
    <3>. QED
      BY <1>1, <3>1, StreamStays
  <2>. QED
    BY <2>2, <2>3
<1>. QED
  BY <1>2, <1>3 DEF pipe_read

(* Every step of pipe_write writes or stutters. *)
LEMMA WriteStreams ==
    ASSUME TypeOK, TypeOK', NEW t \in Tasks, NEW q \in Pipes,
           NEW s \in Seq(Bytes), writers[q] > 0, pipe_write(t, q, s),
           NEW p \in Pipes
    PROVE  StreamStep(p)
<1>. DEFINE total == AtMost(Len(s), PIPE_SIZE - count[q])
            chunk == SubSeq(s, 1, total)
<1>1. UNCHANGED <<readers, writers>>
  BY DEF pipe_write
<1>2. CASE UNCHANGED <<buffer, head, count>>
  BY <1>1, <1>2, StreamStays
<1>3. CASE s # <<>> /\ count[q] < PIPE_SIZE /\ readers[q] > 0 /\ Store(q, chunk)
  <2>1. count[q] \in 0 .. PIPE_SIZE
    BY DEF TypeOK, PipeTypeOK
  <2>2. total \in 1 .. Len(s) /\ total <= PIPE_SIZE - count[q]
    BY <1>3, <2>1 DEF AtMost
  <2>. HIDE DEF total
  <2>3. chunk \in Seq(Bytes) /\ Len(chunk) = total /\ chunk # <<>>
    BY <2>2
  <2>. HIDE DEF chunk
  <2>4. CASE p = q
    BY <1>1, <1>3, <2>2, <2>3, <2>4, StoreStep
  <2>5. CASE p # q
    <3>1. /\ buffer'[p] = buffer[p] /\ head'[p] = head[p]
          /\ count'[p] = count[p]
      BY <1>3, <2>5 DEF Store, TypeOK, PipeTypeOK
    <3>. QED
      BY <1>1, <3>1, StreamStays
  <2>. QED
    BY <2>4, <2>5
<1>. QED
  BY <1>2, <1>3 DEF pipe_write

(* Closing ends closes the stream; what it held goes with the last end. *)
LEMMA CloseStreams ==
    ASSUME IInv, NEW t \in Tasks, NEW fs \in SUBSET Fds, handle_close(t, fs),
           NEW p \in Pipes
    PROVE  StreamStep(p)
<1>. DEFINE gone(ty) == {h \in Released(refs') : type[h] = ty /\ end_of[h] = p}
<1>1. /\ readers'[p] = readers[p] - Cardinality(gone("read"))
      /\ writers'[p] = writers[p] - Cardinality(gone("write"))
      /\ UNCHANGED <<buffer, head, count>>
  BY DEF handle_close, pipe_close
<1>2. Cardinality(gone("read")) \in Nat /\ Cardinality(gone("write")) \in Nat
  BY ClosedEnds
<1>. HIDE DEF gone
<1>3. readers[p] \in Nat /\ writers[p] \in Nat
  BY DEF IInv, TypeOK, PipeTypeOK
<1>4. /\ readers'[p] > 0 => readers[p] > 0
      /\ writers'[p] > 0 => writers[p] > 0
  BY <1>1, <1>2, <1>3
<1>5. Content(p)' = Content(p)
  BY <1>1 DEF Content
<1>6. Stream(p)!Close
  BY <1>4, <1>5 DEF Stream!Close, Allocated
<1>. QED
  BY <1>6 DEF StreamStep, Stream!Next

(* pipe_new opens an empty stream. *)
LEMMA NewStreams ==
    ASSUME TypeOK, NEW q \in Pipes, pipe_new(q), NEW p \in Pipes
    PROVE  StreamStep(p)
<1>1. CASE p = q
  <2>1. /\ ~ (readers[p] > 0) /\ ~ (writers[p] > 0)
        /\ readers'[p] = 1 /\ writers'[p] = 1 /\ count'[p] = 0
    BY <1>1 DEF pipe_new, Allocated, TypeOK, PipeTypeOK
  <2>2. Content(p)' = <<>>
    BY <2>1 DEF Content
  <2>3. Stream(p)!Open
    BY <2>1, <2>2 DEF Stream!Open, Allocated
  <2>. QED
    BY <2>3 DEF StreamStep, Stream!Next
<1>2. CASE p # q
  <2>1. /\ buffer'[p] = buffer[p] /\ head'[p] = head[p]
        /\ count'[p] = count[p] /\ readers'[p] = readers[p]
        /\ writers'[p] = writers[p]
    BY <1>2 DEF pipe_new, TypeOK, PipeTypeOK
  <2>. QED
    BY <2>1, StreamStays
<1>. QED
  BY <1>1, <1>2

(* Every step of the kernel is a step or a stutter of each stream. *)
LEMMA EveryStreamSteps ==
    ASSUME IInv, [Next]_vars, NEW p \in Pipes
    PROVE  StreamStep(p)
<1>1. TypeOK /\ TypeOK'
  BY StepInv DEF IInv
<1>2. CASE UNCHANGED vars \/ InitStartsShell \/ \E t \in Tasks :
                SysOpen(t) \/ SysRun(t) \/ Kill(t)
  BY <1>2, StreamStays
     DEF vars, pipeVars, InitStartsShell, SysOpen, SysRun, Kill
<1>3. ASSUME NEW t \in Tasks, SysPipe(t) PROVE StreamStep(p)
  BY <1>1, <1>3, NewStreams DEF SysPipe
<1>4. ASSUME NEW t \in Tasks, SysClose(t) \/ Exit(t) PROVE StreamStep(p)
  <2>1. PICK fs \in SUBSET Fds : handle_close(t, fs)
    <3>1. ASSUME NEW f \in Fds PROVE {f} \in SUBSET Fds
      OBVIOUS
    <3>2. {f \in Fds : fds[t][f] # NULL} \in SUBSET Fds
      OBVIOUS
    <3>. QED
      BY <1>4, <3>1, <3>2 DEF SysClose, Exit
  <2>. QED
    BY <2>1, CloseStreams
<1>5. ASSUME NEW t \in Tasks, SysRead(t) PROVE StreamStep(p)
  <2>1. PICK h \in Opened(t, "read"), n \in ReadLens :
            pipe_read(t, end_of[h], n)
    BY <1>5 DEF SysRead
  <2>2. h \in Handles /\ type[h] = "read" /\ end_of[h] \in Pipes /\ n \in Nat
    BY OpenedEnd DEF Opened
  <2>3. refs[h] > 0
    BY <2>2, HeldCounts DEF Opened
  <2>. QED
    BY <1>1, <2>1, <2>2, <2>3, EndCounts, ReadStreams
<1>6. ASSUME NEW t \in Tasks, SysWrite(t) PROVE StreamStep(p)
  <2>1. PICK h \in Opened(t, "write"), s \in Messages :
            pipe_write(t, end_of[h], s)
    BY <1>6 DEF SysWrite
  <2>2. /\ h \in Handles /\ type[h] = "write" /\ end_of[h] \in Pipes
        /\ s \in Seq(Bytes)
    BY OpenedEnd DEF Opened
  <2>3. refs[h] > 0
    BY <2>2, HeldCounts DEF Opened
  <2>. QED
    BY <1>1, <2>1, <2>2, <2>3, EndCounts, WriteStreams
<1>7. ASSUME NEW t \in Tasks, Resumes(t) PROVE StreamStep(p)
  <2>1. /\ call[t] = "read" => readers[pipe[t]] > 0
        /\ call[t] = "write" => writers[pipe[t]] > 0
    BY Outlives DEF PipeOutlivesCalls
  <2>2. call[t] # "none" => pipe[t] \in Pipes
    BY DEF IInv, EndHeld
  <2>3. len[t] \in Nat /\ left[t] \in Seq(Bytes)
    BY <1>1 DEF TypeOK, PipeTypeOK
  <2>. QED
    BY <1>1, <1>7, <2>1, <2>2, <2>3, ReadStreams, WriteStreams DEF Resumes
<1>. QED
  BY <1>2, <1>3, <1>4, <1>5, <1>6, <1>7 DEF Next

(***************************************************************************)
(* The ring of pipe.c implements ByteStream for every size, every message  *)
(* and every number of readers and writers: no call, close, kill or exit   *)
(* loses, repeats, reorders or makes up a byte, and nothing is written     *)
(* once the readers or the writers are gone.                               *)
(***************************************************************************)
THEOREM PipesAreStreams == Spec => StreamsKeepOrder
<1>1. ASSUME Init
      PROVE  \A p \in Pipes : Stream(p)!Init
  BY <1>1 DEF Init, Stream!Init, Allocated
<1>2. IInv /\ [Next]_vars => [\A p \in Pipes : StreamStep(p)]_vars
  BY EveryStreamSteps
<1>3. Init => \A p \in Pipes : Stream(p)!Init
  BY <1>1
<1>. QED
  BY <1>2, <1>3, HandleInductive, PTL DEF Spec, StreamsKeepOrder
=============================================================================
