------------------------------- MODULE MCDesk -------------------------------
EXTENDS Desk

MCNames == <<"sub", "sh", "txt">>
MCKindOf == [sub |-> "dir", sh |-> "shell", txt |-> "text"]

=============================================================================
