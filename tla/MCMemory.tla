------------------------------ MODULE MCMemory ------------------------------
(***************************************************************************)
(* Memory with small constants for TLC: pages and blocks of 4 bytes, page  *)
(* tables of 4 pages, a user space of two tables.                          *)
(***************************************************************************)
EXTENDS Memory

Segment(vaddr, memsz, offset, filesz, writable) ==
    [vaddr |-> vaddr, memsz |-> memsz, offset |-> offset, filesz |-> filesz,
     writable |-> writable]

(* code and data share the middle page; the data ends in zeroed bytes *)
Plain == [size |-> 6, readable |-> TRUE, header |-> TRUE, entry |-> 17,
          segments |-> <<Segment(16, 5, 0, 5, FALSE), Segment(21, 3, 5, 1, TRUE)>>]

(* one page, its data before its code *)
Tiny == [size |-> 3, readable |-> TRUE, header |-> TRUE, entry |-> 18,
         segments |-> <<Segment(16, 2, 0, 2, TRUE), Segment(18, 1, 2, 1, FALSE)>>]

(* refused after its first segment was mapped: the second ends behind the  *)
(* heap limit, or wraps around, or no segment holds the entry point        *)
Beyond == [Plain EXCEPT !.segments[2].memsz = 24]
Wraps == [Plain EXCEPT !.segments[2].memsz = Word - 4]
Astray == [Plain EXCEPT !.entry = 30]
Unread == [Plain EXCEPT !.readable = FALSE]
NotElf == [Plain EXCEPT !.header = FALSE]

ProgramFiles == {Plain, Tiny, Beyond, Wraps, Astray, Unread, NotElf, NoProgram}
CallocCounts == {<<1, 2>>, <<16, 9>>}
=============================================================================
