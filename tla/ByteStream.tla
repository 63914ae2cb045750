----------------------------- MODULE ByteStream -----------------------------
(***************************************************************************)
(* What a pipe promises (pipe.h): a one way stream of bytes between the    *)
(* holders of its two ends.  Bytes come out in the order they went in,     *)
(* none is lost, made up or read twice, and once no writer is left nothing *)
(* is added any more: then an empty stream is at its end for ever.         *)
(***************************************************************************)
EXTENDS Naturals, Sequences

CONSTANTS Byte, Capacity

VARIABLES
    queue,     \* bytes written and not read yet
    readable,  \* somebody holds the read end
    writable   \* somebody holds the write end

vars == <<queue, readable, writable>>

Init == queue = <<>> /\ ~ readable /\ ~ writable

Open ==
    /\ ~ readable /\ ~ writable
    /\ queue' = <<>> /\ readable' /\ writable'

Put ==
    /\ readable /\ writable
    /\ \E s \in UNION {[1 .. n -> Byte] : n \in 1 .. Capacity - Len(queue)} :
            queue' = queue \o s
    /\ UNCHANGED <<readable, writable>>

Get ==
    /\ readable
    /\ \E n \in 1 .. Len(queue) : queue' = SubSeq(queue, n + 1, Len(queue))
    /\ UNCHANGED <<readable, writable>>

(* one end, or both, is dropped; what is left goes with the last one *)
Close ==
    /\ readable' => readable
    /\ writable' => writable
    /\ queue' = IF readable' \/ writable' THEN queue ELSE <<>>

Next == Open \/ Put \/ Get \/ Close

Spec == Init /\ [][Next]_vars
=============================================================================
