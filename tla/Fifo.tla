-------------------------------- MODULE Fifo --------------------------------
(***************************************************************************)
(* The byte fifo of src/fifo.c as operators on a fifo value, so that the   *)
(* modules of its users (the rx ring filled by the BLE write callback and  *)
(* drained by the Kermit worker, the tx ring filled and drained by the     *)
(* worker) can apply the very same code to their own variables.            *)
(*                                                                         *)
(* A fifo value is a record with the fields of struct fifo (inc/fifo.h):   *)
(*   p_buff    : the backing array, indices 0 .. BufSize-1                 *)
(*   read_pos  : read cursor (fifo_get never advances it: it shifts)      *)
(*   write_pos : write cursor = number of bytes held when read_pos = 0     *)
(* buff_size is BufSize - 1 for the life of the fifo (fifo_init) and is a  *)
(* definition here.                                                        *)
(***************************************************************************)
EXTENDS Naturals, Sequences, SequencesExt

CONSTANTS
  Byte,       \* the byte values the model distinguishes
  Zero,       \* content of the static backing arrays before any write
  BufSize,    \* buf_size passed to fifo_init (MLDP_RX/TX_BUFF_SIZE)
  ArraySize   \* sizeof(p_fifo->fifo), the array is_fifo_full compares to

ASSUME /\ Zero \in Byte
       /\ BufSize \in Nat \ {0}
       /\ ArraySize \in Nat \ {0}

Index == 0 .. BufSize - 1

\* fifo_init stores buf_size - 1 ("start at 0").
buff_size == BufSize - 1

MinOf(a, b) == IF a < b THEN a ELSE b

\* fifo_init on the zero-initialised static buffer of mldp_fifos_init.
FifoInit ==
  [p_buff |-> [i \in Index |-> Zero], read_pos |-> 0, write_pos |-> 0]

\* fifo_length: number of unread bytes.
FifoLength(f) == f.write_pos - f.read_pos

\* is_fifo_full compares write_pos with the size of the struct's own array,
\* not with the buffer given to fifo_init.
IsFifoFull(f) == f.write_pos = ArraySize

\* fifo_put: store at write_pos and advance it while length <= buff_size.
FifoPut(f, byte) ==
  IF FifoLength(f) <= buff_size
  THEN [f EXCEPT !.p_buff[f.write_pos] = byte, !.write_pos = @ + 1]
  ELSE f

\* fifo_shift that decrements write_pos but moves nothing (mutant).
FifoShiftNoMove(f, oob) == [f EXCEPT !.write_pos = @ - 1]

\* fifo_shift: move every element one slot to the left, from read_pos while
\* below the length, then decrement write_pos.  The last copy reads
\* p_buff[len]; when the fifo is full that is one past the backing array,
\* whose content (oob) the caller chooses.
FifoShift(f, oob) ==
  LET len == FifoLength(f)
  IN [f EXCEPT
        !.p_buff = [i \in Index |->
                      IF f.read_pos <= i /\ i < len
                      THEN IF i + 1 \in Index THEN f.p_buff[i + 1] ELSE oob
                      ELSE f.p_buff[i]],
        !.write_pos = @ - 1]

\* fifo_get on a non-empty fifo: the byte handed out, and the fifo after it.
FifoGetByte(f) == f.p_buff[f.read_pos]
FifoGet(f, oob) == FifoShift(f, oob)

\* fifo_write: accept the first MinOf(len, available) bytes of s through
\* fifo_put, unless is_fifo_full.  FifoWriteSize is what it reports back.
FifoAvailable(f) == buff_size - FifoLength(f) + 1
FifoWriteSize(f, s) == MinOf(Len(s), FifoAvailable(f))
FifoWrite(f, s) ==
  IF IsFifoFull(f)
  THEN f
  ELSE FoldLeft(FifoPut, f, SubSeq(s, 1, FifoWriteSize(f, s)))

\* fifo_read: MinOf(n, length) successive fifo_get calls; returns the fifo
\* after them and the bytes they handed out, in order.
RECURSIVE ReadLoop(_, _, _, _)
ReadLoop(f, k, oob, data) ==
  IF k = 0
  THEN [fifo |-> f, data |-> data]
  ELSE ReadLoop(FifoGet(f, oob), k - 1, oob, Append(data, FifoGetByte(f)))

FifoReadSize(f, n) == MinOf(n, FifoLength(f))
FifoRead(f, n, oob) == ReadLoop(f, FifoReadSize(f, n), oob, << >>)

\* fifo_flush: both cursors back to zero, content left in place.
FifoFlush(f) == [f EXCEPT !.write_pos = 0, !.read_pos = 0]

\* The bytes a fifo holds, oldest first.
Contents(f) == [i \in 1 .. FifoLength(f) |-> f.p_buff[f.read_pos + i - 1]]

FifoType ==
  [p_buff: [Index -> Byte], read_pos: Nat, write_pos: Int]
=============================================================================
