----------------------------- MODULE MCDeskEdit -----------------------------
(***************************************************************************)
(* DeskEdit with a buffer of three chars, a file of one line and a line    *)
(* in the register that another window left there.                         *)
(***************************************************************************)
EXTENDS DeskEdit

a == "a"
SmallFiles ==
    {<<a, NL>>}

FullReg == [text |-> <<"-", NL>>, lines |-> TRUE]
Regs == {FullReg}

(* the editor of a closed window is not read again, edit_load clears it; a *)
(* command of normal mode sets begun anew                                  *)
View == IF window = "closed" THEN <<"closed", reg, file, changes>>
        ELSE <<window, ed, before, IF ed.mode = "insert" THEN begun ELSE <<>>,
               idle, failed, reg, file, changes>>
=============================================================================
