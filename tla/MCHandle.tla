------------------------------ MODULE MCHandle ------------------------------
(***************************************************************************)
(* Handle with small constants for TLC.  The view drops what no step       *)
(* reads: bytes of a ring that were read already, pipes and handles that   *)
(* are free and the flags of tasks that are gone.                          *)
(***************************************************************************)
EXTENDS Handle, TLC

CONSTANTS a, b

TwoBytes == {a, b}
ShortMessages == {<<a>>, <<b, a, b>>}

View ==
    <<[p \in Pipes |-> IF Allocated(p) THEN <<Content(p), head[p]>> ELSE <<>>],
      readers, writers, callVars, live, fds, refs,
      [t \in Tasks |-> live[t] /\ killed[t]],
      [h \in Handles |-> IF refs[h] = 0 THEN <<>> ELSE <<type[h], end_of[h]>>]>>

Symmetry == Permutations(Handles) \cup Permutations(Tasks \ {Shell})
=============================================================================
