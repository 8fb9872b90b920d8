---------------------------- MODULE MCRxFifoRace ----------------------------
EXTENDS RxFifoRace

\* Three distinct bytes written by the peer into a three-slot ring: enough
\* for a put to overlap a get on both write_pos and p_buff.
MCInput == <<1, 2, 3>>
MCByte == {0, 1, 2, 3}
MCBufSize == 3
MCArraySize == MCBufSize
=============================================================================
