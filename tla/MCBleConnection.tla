--------------------------- MODULE MCBleConnection ---------------------------
(* Two centrals, so that a worker of the first connection and the next     *)
(* connection's worker can meet, and one SIGINT, delivered at any point.   *)
(* The peer exposes the SLATE's database (a generic service, then the      *)
(* handshake service, then the MLDP service) or one in which the           *)
(* identification characteristic is missing.                               *)
EXTENDS BleConnection

Chr(u, h) == [uuid |-> u, value_handle |-> h]

MCSlateDb ==
  << << Chr("other", 3) >>,
     << Chr("ident", 6), Chr("auth", 8), Chr("misc", 10) >>,
     << Chr("mldp_data", 13), Chr("mldp_ctrl", 16) >> >>

MCNoIdentDb ==
  << << Chr("other", 3) >>,
     << Chr("auth", 6), Chr("misc", 8) >>,
     << Chr("mldp_data", 11), Chr("mldp_ctrl", 14) >> >>

MCPeerDbs == {MCSlateDb, MCNoIdentDb}
=============================================================================
