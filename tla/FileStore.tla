----------------------------- MODULE FileStore -----------------------------
(***************************************************************************)
(* What the file system promises (README, file.h): a tree of directories   *)
(* and files that hold the bytes written to them, and descriptors with a   *)
(* position of their own.  A write that does not fit writes a part.  Each  *)
(* operator below is the set of stores a call may lead to.                 *)
(***************************************************************************)
EXTENDS Naturals, Sequences, SequencesExt

CONSTANTS
    Descriptor, Path, Message,
    Directory  \* what a directory holds instead of bytes

VARIABLE
    store  \* files: a set of records with path and data,
           \* open: a set of records with desc, path and pos

Paths(s) == {x.path : x \in s.files}
Data(s, p) == (CHOOSE x \in s.files : x.path = p).data
IsFile(s, p) == p \in Paths(s) /\ Data(s, p) # Directory

Without(s, p) == [s EXCEPT !.files = {x \in @ : x.path # p}]
With(s, p, data) ==
    [Without(s, p) EXCEPT !.files = @ \cup {[path |-> p, data |-> data]}]

(* the bytes of data at position k of a file *)
Overwritten(file, k, data) ==
    SubSeq(file, 1, k) \o data \o SubSeq(file, k + Len(data) + 1, Len(file))

MayCreate(s, p) ==
    /\ p \notin Paths(s)
    /\ Len(p) = 1 \/ [path |-> Front(p), data |-> Directory] \in s.files

(* a descriptor is opened, unless there is no memory for it *)
Opened(s, p, k) ==
    {s} \cup {[s EXCEPT !.open = @ \cup {[desc |-> f, path |-> p, pos |-> k]}] :
                f \in Descriptor \ {o.desc : o \in s.open}}

OpenRead(s, p) == IF p \in Paths(s) THEN Opened(s, p, 0) ELSE {}

OpenWrite(s, p) ==
    IF MayCreate(s, p) \/ IsFile(s, p) THEN Opened(With(s, p, <<>>), p, 0) ELSE {}

OpenAppend(s, p) ==
    IF MayCreate(s, p) THEN Opened(With(s, p, <<>>), p, 0)
    ELSE IF IsFile(s, p) THEN Opened(s, p, Len(Data(s, p))) ELSE {}

Unlink(s, p) ==
    IF p \in Paths(s) /\ \A q \in Paths(s) : Len(q) > 1 => Front(q) # p
    THEN {Without(s, p)} ELSE {}

Mkdir(s, p) == IF MayCreate(s, p) THEN {With(s, p, Directory)} ELSE {}

Closed(s, o) == [s EXCEPT !.open = @ \ {o}]
Moved(s, o, k) == [s EXCEPT !.open = (@ \ {o}) \cup {[o EXCEPT !.pos = k]}]

Written(s, o, data) ==
    With(Moved(s, o, o.pos + Len(data)), o.path,
         Overwritten(Data(s, o.path), o.pos, data))
Write(s, o) ==
    IF IsFile(s, o.path)
    THEN UNION {{Written(s, o, SubSeq(m, 1, n)) : n \in 0 .. Len(m)} : m \in Message}
    ELSE {}

(* read moves on, seek anywhere *)
Move(s, o) ==
    IF IsFile(s, o.path)
    THEN {Moved(s, o, k) : k \in 0 .. Len(Data(s, o.path))} ELSE {}

After(s) ==
    (UNION {OpenRead(s, p) \cup OpenWrite(s, p) \cup OpenAppend(s, p)
             \cup Unlink(s, p) \cup Mkdir(s, p) : p \in Path})
    \cup (UNION {Write(s, o) \cup Move(s, o) \cup {Closed(s, o)} : o \in s.open})

Init == store = [files |-> {}, open |-> {}]
Step(s, t) == t \in After(s)
Next == Step(store, store')

Spec == Init /\ [][Next]_store
=============================================================================
