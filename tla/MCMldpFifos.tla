----------------------------- MODULE MCMldpFifos -----------------------------
(* Both rings of 4096 bytes shrunk: an rx ring of three slots over two     *)
(* byte values fills, wraps a write and shifts a full ring; a tx ring of   *)
(* four slots sent in chunks of two, so a three byte packet takes two      *)
(* chunks and a rejection can strike the first or the last of them.       *)
EXTENDS MldpFifos

MCRxByte == {0, 1}
MCTxByte == 0 .. 4
MCPackets == {<<1, 2, 3>>, <<4>>}
=============================================================================
