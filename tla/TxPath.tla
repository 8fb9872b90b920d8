------------------------------- MODULE TxPath -------------------------------
(***************************************************************************)
(* The worker's send path: ktx_data (unixio_rpi.c) calls the hook          *)
(* ble_mldp_send_bytes (main.c), which queues the packet in the tx fifo    *)
(* with fifo_write and drains it at once with tx_fifo_send_bytes: chunks   *)
(* of at most BLE_MLDP_MAX_DATA_LEN bytes read with fifo_read and written  *)
(* with bt_gatt_client_write_without_response, a rejected chunk being      *)
(* written again up to three more times.  Only the worker thread uses the  *)
(* tx fifo once the transfer has started, so its calls do not overlap.     *)
(* Whether the link still is in BLE_FILE_TRANSFER, and whether the stack   *)
(* accepts a write, are the environment's choice.                          *)
(***************************************************************************)
EXTENDS Fifo, FiniteSets

CONSTANTS
  Packets,      \* the packets the engine may hand to ktx_data
  MaxDataLen,   \* BLE_MLDP_MAX_DATA_LEN
  MaxCalls      \* bound on the number of ktx_data calls

ASSUME /\ Packets \subseteq (Seq(Byte) \ {<< >>})
       /\ MaxDataLen \in Nat \ {0}
       /\ MaxCalls \in Nat

\* The retry limit of tx_fifo_send_bytes.
MaxRepeat == 3

VARIABLES
  txf,      \* struct fifo mldp_fifo_tx
  tx,       \* ble_mldp_send_bytes / tx_fifo_send_bytes: pc, nbReadableBytes,
            \* repeatOnErrorCount, data_array, the packet, its result
  sent,     \* bytes the stack accepted, in order
  acked,    \* packets for which ktx_data returned X_OK, in order
  calls,    \* ktx_data calls so far
  gaveup    \* some chunk was dropped after MaxRepeat + 1 rejections
vars == <<txf, tx, sent, acked, calls, gaveup>>

Init ==
  /\ txf = FifoInit
  /\ tx = [pc |-> "idle", nb |-> 0, rep |-> 0, chunk |-> << >>,
           pkt |-> << >>, ret |-> "X_OK"]
  /\ sent = << >>
  /\ acked = << >>
  /\ calls = 0
  /\ gaveup = FALSE

\* ktx_data: X_ERROR when the ble_mldp_send_bytes hook is unset (never:
\* start_file_transfer sets it before the worker exists) or returns
\* non-zero, X_OK when it returns 0.
KtxDataRet(sendRet) == IF sendRet = 0 THEN "X_OK" ELSE "X_ERROR"

\* tx_fifo_send_bytes returns EXIT_SUCCESS, and so ktx_data X_OK.
ReturnSuccess ==
  /\ tx' = [tx EXCEPT !.pc = "idle", !.ret = KtxDataRet(0)]
  /\ acked' = Append(acked, tx.pkt)

\* ktx_data -> ble_mldp_send_bytes: EXIT_FAILURE unless ble_con_step is
\* BLE_FILE_TRANSFER; fifo_write's FIFO_FULL is returned as is; otherwise
\* the packet is queued and tx_fifo_send_bytes starts with
\* nbReadableBytes = fifo_length (never 0: the packet is not empty).
KtxData ==
  /\ tx.pc = "idle"
  /\ calls < MaxCalls
  /\ \E p \in Packets, transferring \in BOOLEAN :
       IF ~transferring \/ IsFifoFull(txf)
       THEN /\ tx' = [tx EXCEPT !.pkt = p, !.ret = KtxDataRet(1)]
            /\ UNCHANGED txf
       ELSE LET f == FifoWrite(txf, p)
            IN /\ txf' = f
               /\ tx' = [tx EXCEPT !.pc = "send", !.nb = FifoLength(f),
                                   !.rep = 0, !.pkt = p]
  /\ calls' = calls + 1
  /\ UNCHANGED <<sent, acked, gaveup>>

\* if (repeatOnErrorCount >= 3) break;
GivesUp(rep) == rep >= MaxRepeat

\* A rejected chunk read again from the fifo (mutant).
NeedsReadAlways(rep) == TRUE

\* if (repeatOnErrorCount == 0) fifo_read(...): a retry resends data_array.
NeedsRead(rep) == rep = 0

\* One turn of the while (nbReadableBytes) loop.  A write the stack accepts
\* resets repeatOnErrorCount and consumes the chunk; a rejected one is
\* retried, and after MaxRepeat retries the loop breaks and the function
\* returns EXIT_SUCCESS.
TxChunk ==
  /\ tx.pc = "send"
  /\ LET length == MinOf(tx.nb, MaxDataLen)
     IN \E oob \in Byte, accepted \in BOOLEAN :
          LET r     == FifoRead(txf, length, oob)
              chunk == IF NeedsRead(tx.rep) THEN r.data ELSE tx.chunk
          IN /\ txf' = IF NeedsRead(tx.rep) THEN r.fifo ELSE txf
             /\ IF accepted
                THEN /\ sent' = sent \o chunk
                     /\ IF tx.nb - length = 0
                        THEN ReturnSuccess
                        ELSE /\ tx' = [tx EXCEPT !.nb = @ - length, !.rep = 0,
                                                 !.chunk = chunk]
                             /\ UNCHANGED acked
                     /\ UNCHANGED gaveup
                ELSE /\ UNCHANGED sent
                     /\ IF GivesUp(tx.rep)
                        THEN ReturnSuccess /\ gaveup' = TRUE
                        ELSE /\ tx' = [tx EXCEPT !.rep = @ + 1, !.chunk = chunk]
                             /\ UNCHANGED <<acked, gaveup>>
  /\ UNCHANGED calls

Next == KtxData \/ TxChunk

Spec == Init /\ [][Next]_vars

-----------------------------------------------------------------------------
TypeOK ==
  /\ txf \in FifoType
  /\ tx.pc \in {"idle", "send"} /\ tx.rep \in 0 .. MaxRepeat
  /\ sent \in Seq(Byte) /\ acked \in Seq(Packets)
  /\ calls \in 0 .. MaxCalls /\ gaveup \in BOOLEAN

(* As long as no chunk was rejected four times in a row, the retries of    *)
(* tx_fifo_send_bytes lose, duplicate and reorder nothing: between two     *)
(* ktx_data calls the bytes the stack accepted are exactly the packets     *)
(* acknowledged with X_OK, in order.                                       *)
NoLossWithoutGiveUp ==
  tx.pc = "idle" /\ ~gaveup => sent = FlattenSeq(acked)

(* Spec section 4.4: a chunk still rejected after its retries is a fatal   *)
(* transport error, so ktx_data returns X_OK only for packets whose bytes  *)
(* all went out: between calls, sent is the acknowledged packets.          *)
AckedWasSent == tx.pc = "idle" => sent = FlattenSeq(acked)
=============================================================================
