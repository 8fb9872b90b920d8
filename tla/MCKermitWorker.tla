--------------------------- MODULE MCKermitWorker ---------------------------
(* KermitWorker with the Kermit defaults (SOH = 1, EOM = CR = 13, no       *)
(* parity), a scaled down timeout (12 polls' worth instead of 1200: one    *)
(* 10 ms step then two 1 ms steps, the same shape as the code's countdown) *)
(* and a peer that writes start markers, data, end markers and the pieces  *)
(* of the abort command, split as a BLE write may split them.              *)
EXTENDS KermitWorker

MCWrites == {<<1>>, <<65>>, <<13>>, <<67, 77, 68, 13>>, <<10>>}
=============================================================================
