----------------------------- MODULE RxFifoRace -----------------------------
(***************************************************************************)
(* The rx fifo shared by two threads with no lock (spec section 5):        *)
(*  - the event loop, in server_mldp_data_char_write_cb, calls fifo_write  *)
(*    with the bytes the peer wrote into the MLDP data characteristic;     *)
(*  - the Kermit worker, in kreadpkt, calls ble_mldp_get_byte = fifo_get.  *)
(* Both threads modify write_pos (fifo_put increments it, fifo_shift       *)
(* decrements it) and p_buff (fifo_put stores at write_pos, fifo_shift     *)
(* moves every byte left).  The unsynchronised accesses are a data race;  *)
(* the model takes the outcome of a build that performs each C access of  *)
(* the shared fields as one memory access (no caching in registers across *)
(* statements), one of the outcomes the compiler may produce.  Each step  *)
(* below is one statement of fifo.c.                                      *)
(***************************************************************************)
EXTENDS Fifo, FiniteSets

CONSTANT Input   \* the bytes the peer writes, in order (distinct values)

ASSUME Input \in Seq(Byte) /\ Len(Input) > 0

VARIABLES
  fifo,      \* the shared struct fifo mldp_fifo_rx
  prod,      \* event loop: pc, next input byte, bytes left of this write, register
  cons,      \* worker: pc, byte read, length, shift index, register
  accepted,  \* bytes fifo_put stored, in order (history)
  received   \* bytes fifo_get handed to kreadpkt, in order (history)
vars == <<fifo, prod, cons, accepted, received>>

Init ==
  /\ fifo = FifoInit
  /\ prod = [pc |-> "idle", next |-> 1, left |-> 0, reg |-> 0]
  /\ cons = [pc |-> "idle", byte |-> Zero, len |-> 0, i |-> 0, reg |-> 0]
  /\ accepted = << >>
  /\ received = << >>

-----------------------------------------------------------------------------
(* Event loop: one call of fifo_write(&mldp_fifo_rx, value, &len).         *)

\* fifo_write prologue: available_count and write_size from fifo_length,
\* FIFO_FULL when is_fifo_full.  The peer's write carries n >= 1 bytes.
WriteStart ==
  /\ prod.pc = "idle"
  /\ prod.next <= Len(Input)
  /\ \E n \in 1 .. Len(Input) - prod.next + 1 :
       prod' = [prod EXCEPT
                  !.pc = "put_len",
                  !.left = IF IsFifoFull(fifo) THEN 0
                           ELSE MinOf(n, FifoAvailable(fifo))]
  /\ UNCHANGED <<fifo, cons, accepted, received>>

\* fifo_put: the length check, reached while fifo_write has bytes left;
\* a failed check drops the byte (FIFO_NOT_ENOUGH_BIG is ignored).
PutCheck ==
  /\ prod.pc = "put_len"
  /\ IF prod.left = 0
     THEN prod' = [prod EXCEPT !.pc = "idle"]
     ELSE IF FifoLength(fifo) <= buff_size
          THEN prod' = [prod EXCEPT !.pc = "put_store"]
          ELSE prod' = [prod EXCEPT !.pc = "put_len", !.next = @ + 1,
                                    !.left = @ - 1]
  /\ UNCHANGED <<fifo, cons, accepted, received>>

\* p_fifo->p_buff[p_fifo->write_pos] = byte
PutStore ==
  /\ prod.pc = "put_store"
  /\ fifo' = [fifo EXCEPT !.p_buff[fifo.write_pos] = Input[prod.next]]
  /\ accepted' = Append(accepted, Input[prod.next])
  /\ prod' = [prod EXCEPT !.pc = "put_load"]
  /\ UNCHANGED <<cons, received>>

\* p_fifo->write_pos++ : load ...
PutLoad ==
  /\ prod.pc = "put_load"
  /\ prod' = [prod EXCEPT !.pc = "put_inc", !.reg = fifo.write_pos]
  /\ UNCHANGED <<fifo, cons, accepted, received>>

\* ... and store.
PutInc ==
  /\ prod.pc = "put_inc"
  /\ fifo' = [fifo EXCEPT !.write_pos = prod.reg + 1]
  /\ prod' = [prod EXCEPT !.pc = "put_len", !.next = @ + 1, !.left = @ - 1]
  /\ UNCHANGED <<cons, accepted, received>>

-----------------------------------------------------------------------------
(* Worker: one call of fifo_get(&mldp_fifo_rx, &byte) from kreadpkt.       *)

\* if (fifo_length(p_fifo) != 0); an empty fifo sleeps 250 us and returns.
GetCheck ==
  /\ cons.pc = "idle"
  /\ Len(received) < Len(Input)
  /\ FifoLength(fifo) # 0
  /\ cons' = [cons EXCEPT !.pc = "get_byte"]
  /\ UNCHANGED <<fifo, prod, accepted, received>>

\* *p_byte = p_fifo->p_buff[p_fifo->read_pos]
GetByte ==
  /\ cons.pc = "get_byte"
  /\ cons' = [cons EXCEPT !.pc = "shift_len", !.byte = FifoGetByte(fifo)]
  /\ UNCHANGED <<fifo, prod, accepted, received>>

\* fifo_shift: len = fifo_length(p_fifo); readpos = p_fifo->read_pos
ShiftStart ==
  /\ cons.pc = "shift_len"
  /\ cons' = [cons EXCEPT !.pc = "shift_loop", !.len = FifoLength(fifo),
                          !.i = fifo.read_pos]
  /\ UNCHANGED <<fifo, prod, accepted, received>>

\* while (readpos < len) p_buff[readpos] = p_buff[readpos + 1], readpos++;
\* p_buff[len] past the array is whatever lies after it.
ShiftStep ==
  /\ cons.pc = "shift_loop"
  /\ IF cons.i < cons.len
     THEN /\ \E oob \in Byte :
               fifo' = [fifo EXCEPT !.p_buff[cons.i] =
                          IF cons.i + 1 \in Index THEN fifo.p_buff[cons.i + 1]
                          ELSE oob]
          /\ cons' = [cons EXCEPT !.i = @ + 1]
     ELSE /\ cons' = [cons EXCEPT !.pc = "dec_load"]
          /\ UNCHANGED fifo
  /\ UNCHANGED <<prod, accepted, received>>

\* p_fifo->write_pos-- : load ...
DecLoad ==
  /\ cons.pc = "dec_load"
  /\ cons' = [cons EXCEPT !.pc = "dec_store", !.reg = fifo.write_pos]
  /\ UNCHANGED <<fifo, prod, accepted, received>>

\* ... and store; fifo_get returns the byte to kreadpkt.
DecStore ==
  /\ cons.pc = "dec_store"
  /\ fifo' = [fifo EXCEPT !.write_pos = cons.reg - 1]
  /\ received' = Append(received, cons.byte)
  /\ cons' = [cons EXCEPT !.pc = "idle"]
  /\ UNCHANGED <<prod, accepted>>

Next ==
  \/ WriteStart \/ PutCheck \/ PutStore \/ PutLoad \/ PutInc
  \/ GetCheck \/ GetByte \/ ShiftStart \/ ShiftStep \/ DecLoad \/ DecStore

Spec == Init /\ [][Next]_vars

-----------------------------------------------------------------------------
TypeOK ==
  /\ fifo \in [p_buff: [Index -> Byte], read_pos: Nat, write_pos: Int]
  /\ accepted \in Seq(Byte) /\ received \in Seq(Byte)

(* Spec section 5: bytes the event loop puts into the rx ring reach the   *)
(* worker strictly in arrival order, none lost, none duplicated: what      *)
(* fifo_get has handed to kreadpkt is always a prefix of what fifo_put     *)
(* stored.                                                                 *)
RxInOrder == IsPrefix(received, accepted)
=============================================================================
