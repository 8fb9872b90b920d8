------------------------------ MODULE ByteRing ------------------------------
(***************************************************************************)
(* One fifo of src/fifo.c driven by one caller at a time, the way the tx   *)
(* ring is used (the worker writes into it in ble_mldp_send_bytes and      *)
(* drains it in tx_fifo_send_bytes) and the way the rx ring would behave   *)
(* if its producer and consumer never overlapped.  Every fifo.c operation *)
(* that changes the fifo is an action; out is what the last fifo_get or    *)
(* fifo_read handed out.                                                   *)
(***************************************************************************)
EXTENDS Fifo, FiniteSets

CONSTANT MaxIO   \* longest array a caller passes to fifo_write / fifo_read

ASSUME MaxIO \in Nat \ {0}

VARIABLES fifo, out
vars == <<fifo, out>>

Init == fifo = FifoInit /\ out = << >>

\* fifo_write(p_fifo, s, &len) with a non-NULL array.
Write == \E s \in BoundedSeq(Byte, MaxIO) :
           /\ s # << >>
           /\ fifo' = FifoWrite(fifo, s)
           /\ UNCHANGED out

\* fifo_get without its empty check (mutant).
GetUnchecked == \E oob \in Byte :
                  /\ fifo' = FifoGet(fifo, oob)
                  /\ out' = << FifoGetByte(fifo) >>

\* fifo_get on a non-empty fifo (on an empty one it only sleeps).
Get == /\ FifoLength(fifo) # 0
       /\ \E oob \in Byte :
            /\ fifo' = FifoGet(fifo, oob)
            /\ out' = << FifoGetByte(fifo) >>

\* fifo_read(p_fifo, array, &n) with a non-NULL array.
Read == \E n \in 1 .. MaxIO, oob \in Byte :
          LET r == FifoRead(fifo, n, oob)
          IN /\ FifoReadSize(fifo, n) > 0
             /\ fifo' = r.fifo
             /\ out' = r.data

Flush == fifo' = FifoFlush(fifo) /\ UNCHANGED out

Next == Write \/ Get \/ Read \/ Flush

Spec == Init /\ [][Next]_vars

(* The cursors stay within the backing array: write_pos never drops     *)
(* below read_pos (no fifo_get on an empty fifo) nor passes BufSize.     *)
TypeOK == /\ fifo \in FifoType
          /\ fifo.read_pos = 0
          /\ fifo.write_pos \in 0 .. BufSize
          /\ out \in BoundedSeq(Byte, MaxIO)

(* The ring implements a bounded FIFO queue of capacity BufSize: writes   *)
(* append a prefix of the offered bytes without overwriting unread ones,  *)
(* fifo_get / fifo_read (the shift-based removal) hand out the oldest     *)
(* bytes in order, fifo_flush empties it.                                 *)
Queue == INSTANCE ByteQueue WITH q <- Contents(fifo), Capacity <- BufSize
ImplementsByteQueue == Queue!Spec

=============================================================================
