------------------------------ MODULE MldpFifos ------------------------------
(***************************************************************************)
(* The two MLDP fifos of struct gatt_central side by side: the rx ring,    *)
(* one fifo of src/fifo.c used by one caller at a time (ByteRing), and the *)
(* tx ring with the worker's send path (TxPath).  They share no variable;  *)
(* what couples them is fifos_flush, which start_file_transfer runs on the *)
(* main thread before the worker of a new transfer exists, so never while  *)
(* a tx_fifo_send_bytes call is under way.  Each step is a step of one of  *)
(* the two components, the other one's variables left unchanged, or the    *)
(* flush of both.                                                          *)
(***************************************************************************)
EXTENDS Naturals

CONSTANTS
  RxByte, RxBufSize, MaxIO,                       \* the rx ring
  TxByte, TxBufSize, Packets, MaxDataLen, MaxCalls \* the tx ring and its path

VARIABLES
  rxf, rxout,                          \* mldp_fifo_rx, last bytes taken out
  txf, tx, sent, acked, calls, gaveup  \* mldp_fifo_tx and the send path
rxvars == <<rxf, rxout>>
txvars == <<txf, tx, sent, acked, calls, gaveup>>
vars == <<rxvars, txvars>>

Rx == INSTANCE ByteRing
        WITH Byte <- RxByte, Zero <- 0, BufSize <- RxBufSize,
             ArraySize <- RxBufSize, fifo <- rxf, out <- rxout
Tx == INSTANCE TxPath
        WITH Byte <- TxByte, Zero <- 0, BufSize <- TxBufSize,
             ArraySize <- TxBufSize

\* mldp_fifos_init: fifo_init on both static buffers.
Init == Rx!Init /\ Tx!Init

\* fifos_flush, at the start of every transfer: both rings back to empty.
\* The mldp_fifos_init of each new connection does the same to the cursors.
FifosFlush ==
  /\ tx.pc = "idle"
  /\ rxf' = Rx!FifoFlush(rxf)
  /\ txf' = Tx!FifoFlush(txf)
  /\ UNCHANGED <<rxout, tx, sent, acked, calls, gaveup>>

Next ==
  \/ Rx!Next /\ UNCHANGED txvars
  \/ Tx!Next /\ UNCHANGED rxvars
  \/ FifosFlush

Spec == Init /\ [][Next]_vars

-----------------------------------------------------------------------------
TypeOK == Rx!TypeOK /\ Tx!TypeOK

(* The rx ring implements a bounded FIFO queue of capacity RxBufSize:      *)
(* fifo_write appends a prefix of the offered bytes, fifo_get / fifo_read  *)
(* (the shift-based removal) hand out the oldest bytes in order, and       *)
(* fifo_flush, alone or through fifos_flush, empties it.                   *)
ImplementsByteQueue == Rx!ImplementsByteQueue

(* While no chunk was rejected four times in a row, the retries of         *)
(* tx_fifo_send_bytes lose, duplicate and reorder nothing, whatever        *)
(* fifos_flush drops between transfers: between two ktx_data calls the     *)
(* bytes the stack accepted are exactly the packets acknowledged X_OK.     *)
NoLossWithoutGiveUp == Tx!NoLossWithoutGiveUp
=============================================================================
