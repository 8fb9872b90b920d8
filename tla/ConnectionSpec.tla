---------------------------- MODULE ConnectionSpec ----------------------------
(***************************************************************************)
(* What the connection state machine promises (spec section 4.5), apart    *)
(* from how main.c stores its state: the states of a connection, in their  *)
(* order, a teardown edge from any state back to Scanning, and the         *)
(* TransferSession it owns.  A session is created only by the first        *)
(* inbound write of AwaitingFirstData and only while none is alive; it may *)
(* end on its own (the worker leaves its loop); a teardown back to         *)
(* Scanning waits for it (the join).  The process may stop in any state    *)
(* (section 7, Unrecoverable; a user interrupt while scanning).            *)
(***************************************************************************)
EXTENDS Naturals

VARIABLES
  cstate,    \* the connection state
  session    \* a TransferSession worker is alive
vars == <<cstate, session>>

\* The states in the order of section 4.5's transitions, then Stopped.
States == <<"Scanning", "LinkCandidateFound", "Connected", "SocketOpen",
            "ServiceDiscovering", "ServicesReady", "AwaitingFirstData",
            "TransferActive">>

Init == cstate = "Scanning" /\ session = FALSE

\* One forward transition of section 4.5 other than the session start.
Advance ==
  /\ \E i \in 1 .. 6 : cstate = States[i] /\ cstate' = States[i + 1]
  /\ UNCHANGED session

\* AwaitingFirstData -> TransferActive: the first inbound write starts a
\* TransferSession.
StartSession ==
  /\ cstate = "AwaitingFirstData" /\ ~session
  /\ cstate' = "TransferActive" /\ session' = TRUE

\* The worker leaves its loop (ProtocolAbort, TransportFatal, or done).
SessionEnds == session /\ session' = FALSE /\ UNCHANGED cstate

\* Any state -> Scanning: link loss, handshake or socket failure; the
\* worker, if one exists, has been joined.
Teardown ==
  /\ cstate \notin {"Scanning", "Stopped"} /\ ~session
  /\ cstate' = "Scanning" /\ UNCHANGED session

\* The process exits, or the main thread leaves its loop for good.
Stop == cstate # "Stopped" /\ cstate' = "Stopped" /\ UNCHANGED session

Next == Advance \/ StartSession \/ SessionEnds \/ Teardown \/ Stop

Spec == Init /\ [][Next]_vars
=============================================================================
