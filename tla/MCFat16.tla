------------------------------ MODULE MCFat16 ------------------------------
(***************************************************************************)
(* Fat16 with small constants for TLC.  The view leaves out what unused    *)
(* clusters hold, since a cluster is cleared when it is taken; disk = disk *)
(* has TLC evaluate the whole disk before it stores the state.             *)
(***************************************************************************)
EXTENDS Fat16, TLC

(* an 8.3 name that is the first alias of a long name *)
FoldOf(n) == CASE n = "longna~1" -> "LONGNA~1" [] n = "long name" -> "LONG NAME"
AliasesOf(n) == <<"LONGNA~1", "LONGNA~2">>
LfnCountOf(n) == 1

OneMessage == {<<1, 2, 3>>}

Symmetry == Permutations(Descs)

View ==
    <<disk = disk, disk.fat, disk.next_free, descs,
      [c \in DOMAIN disk.items |->
        IF c = ROOT \/ disk.fat[c] # UNUSED THEN disk.items[c] ELSE <<>>],
      [c \in Clusters |-> IF disk.fat[c] # UNUSED THEN disk.bytes[c] ELSE <<>>]>>
=============================================================================
