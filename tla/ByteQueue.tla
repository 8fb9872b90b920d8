------------------------------ MODULE ByteQueue ------------------------------
(***************************************************************************)
(* What a byte ring promises its callers (spec section 4.1), independent   *)
(* of how fifo.c stores the bytes: a bounded queue whose writes append a   *)
(* prefix of what was offered, whose reads hand out the oldest bytes in    *)
(* order, and whose flush empties it.  out is what the last read handed    *)
(* out.                                                                    *)
(***************************************************************************)
EXTENDS Naturals, Sequences

CONSTANTS Byte, Capacity

VARIABLES q, out
vars == <<q, out>>

Init == q = << >> /\ out = << >>

\* A write appends some bytes, never beyond the capacity.
Enq == \E n \in 1 .. Capacity - Len(q) : \E s \in [1 .. n -> Byte] :
         /\ q' = q \o s
         /\ UNCHANGED out

\* A read of k >= 1 bytes hands out the k oldest ones.
Deq == \E k \in 1 .. Len(q) :
         /\ out' = SubSeq(q, 1, k)
         /\ q' = SubSeq(q, k + 1, Len(q))

Flush == q' = << >> /\ UNCHANGED out

Next == Enq \/ Deq \/ Flush

Spec == Init /\ [][Next]_vars
=============================================================================
