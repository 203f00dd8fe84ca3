------------------------------ MODULE ByteQueue ------------------------------
(***************************************************************************)
(* What a ring buffer promises its callers: a bounded first-in first-out   *)
(* queue of bytes.  "out" is the outcome of the last call: its name, the   *)
(* number of bytes it asked for, the number it returned (-1 for a refusal) *)
(* and the bytes it moved.                                                 *)
(***************************************************************************)
EXTENDS Integers, Sequences

CONSTANTS Capacity,     \* the most bytes it holds
          MaxRequest,   \* the most bytes a refused call asked for
          Byte

VARIABLES queue, out

vars == <<queue, out>>

Outcome(call, asked, ret, data) ==
    [call |-> call, asked |-> asked, ret |-> ret, data |-> data]

Init == /\ queue = <<>>
        /\ out = Outcome("create", 0, 0, <<>>)

Write(data) == /\ out' = Outcome("write", Len(data), Len(data), data)
               /\ Len(data) <= Capacity - Len(queue)
               /\ queue' = queue \o data

\* read, gets and get_all all remove the n oldest bytes
Remove(call, n) == /\ n <= Len(queue)
                   /\ queue' = SubSeq(queue, n + 1, Len(queue))
                   /\ out' = Outcome(call, n, n, SubSeq(queue, 1, n))

\* A write is refused only when it does not fit, a removal only when it asks
\* for more than there is, or a gets for nothing at all.
Refuse(call, n) == /\ out' = Outcome(call, n, -1, <<>>)
                   /\ \/ call = "write" /\ n > Capacity - Len(queue)
                      \/ call = "read" /\ n > Len(queue)
                      \/ call = "gets" /\ (n = 0 \/ n > Len(queue))
                   /\ UNCHANGED queue

Next == \/ \E call \in {"write", "read", "gets"}, n \in 0 .. MaxRequest : Refuse(call, n)
        \/ \E n \in 0 .. Capacity : Remove("read", n)
        \/ \E n \in 1 .. Capacity : Remove("gets", n)
        \/ \E n \in 0 .. Capacity : \E data \in [1 .. n -> Byte] : Write(data)

Spec == Init /\ [][Next]_vars

=============================================================================
