------------------------------- MODULE MCTxPath -------------------------------
(* The send path with chunks of 2 bytes instead of 20 and a 4 byte fifo    *)
(* instead of 4096: a 3 byte packet takes two chunks, so a rejection can   *)
(* strike the first or the last chunk of a packet.                         *)
EXTENDS TxPath

MCByte == 0 .. 4
MCPackets == {<<1, 2, 3>>, <<4>>}
=============================================================================
