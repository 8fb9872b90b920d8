---------------------------- MODULE BleConnection ----------------------------
(***************************************************************************)
(* The connection state machine of main.c, composed with the life of the   *)
(* file transfer worker threads (file_transfer_task.c, libfile_transfer.c). *)
(*                                                                         *)
(* The main thread runs the while loop of main(): cmd_lescan, le_connection *)
(* and l2cap_le_att_connect move ble_con_step forward, then                *)
(* gatt_central_create builds a new central and mainloop_run hands the     *)
(* thread to the BlueZ event loop, whose callbacks (ready_cb, the three    *)
(* handshake write callbacks, server_mldp_data_char_write_cb,              *)
(* att_disconnect_cb) are the actions of the "mainloop" phase.  The first  *)
(* MLDP write after the handshake creates an ft_task thread; the           *)
(* disconnect callback joins it before going back to scanning.  SIGINT     *)
(* runs whichever handler was installed last.                              *)
(*                                                                         *)
(* Data is abstracted away: the fifos are ByteRing's, the Kermit session   *)
(* is KermitWorker's.  A session reports a transaction type and whether it *)
(* failed; with the link down no byte arrives, and KermitWorker's          *)
(* SessionEnds shows that such a session ends, in a timeout error.  The    *)
(* peer and the radio are the environment: a link may drop at any time,    *)
(* a GATT request may fail, and the SLATE is found by a scan only while no *)
(* link to it is up (a connected peripheral does not advertise).           *)
(***************************************************************************)
EXTENDS Naturals, FiniteSets, SequencesExt

CONSTANTS
  MaxConn,     \* bound on the number of centrals gatt_central_create builds
  MaxSigint,   \* bound on the number of SIGINTs the user sends
  PeerDbs      \* the GATT databases the peer may expose: sequences of
               \* services, each a sequence of characteristics
               \* [uuid, value_handle]

ASSUME MaxConn \in Nat \ {0} /\ MaxSigint \in Nat

Conns == 1 .. MaxConn

\* The values ble_con_step takes.  BLE_SPS_DISCOVERING is set by
\* client_store_handle and overwritten by ready_cb in the same callback,
\* so no other code ever reads it.
Steps == {"SCANNING", "SLATE_FOUND", "CONNECTED", "SOCKET_OPEN",
          "ALL_SERVICE_DISCOVERY_COMPLETE", "WAIT_MLDP_DATA", "FILE_TRANSFER"}

\* What l2cap_le_att_connect returns: a socket, EXIT_FAILURE (that is 1)
\* when socket, bind or setsockopt fails, -1 when connect fails.
L2capResults == {"sock", "EXIT_FAILURE", "-1"}

\* What gatt_central_create returns: the central, or NULL when bt_att_new,
\* the disconnect registration, a database, the GATT server or the GATT
\* client cannot be made.
GattCentralResults == {"central", "NULL"}

\* The transaction types ft_task sees (ft_transaction_type_e).
FtTypes == {"get", "send", "dir", "end", "other"}

\* The five characteristic UUIDs client_store_handle looks for: central
\* identification, peripheral authentication, misc, MLDP data and MLDP
\* control.  The handshake writes are named after theirs.
CharUuids == {"ident", "auth", "misc", "mldp_data", "mldp_ctrl"}

\* new0 zeroes the client part of a new central.
NoHandles == [u \in CharUuids |-> 0]

\* client_store_handle: a characteristic with one of the five UUIDs stores
\* its value handle (a later one overwrites an earlier one); any other is
\* skipped.  (mldp_data_desc_handle = value_handle + 1 is never read.)
client_store_handle(h, chr) ==
  IF chr.uuid \in CharUuids THEN [h EXCEPT ![chr.uuid] = chr.value_handle]
                            ELSE h

\* client_parse_chrc: gatt_db_service_foreach_char over one service.
client_parse_chrc(h, svc) == FoldLeft(client_store_handle, h, svc)

\* get_handle_from_uuid: gatt_db_foreach_service over the client database,
\* in database order, on top of the handles the central already holds.
get_handle_from_uuid(h, db) == FoldLeft(client_parse_chrc, h, db)

VARIABLES
  pc,          \* main thread: "loop" (top of the while loop), in
               \* scan_result "scan_read" (blocked in read), "scan_eintr"
               \* (read interrupted), "scan_report" (an event taken in),
               \* "mainloop"
               \* (in mainloop_run), "joining" (att_disconnect_cb blocked in
               \* pthread_join), "stopped" (pthread_exit); "exit" and
               \* "crash" end the process
  ble_con_step,
  end_of_state_machine,
  handler,     \* the SIGINT disposition: "default", "sig_handler",
               \* "file_transfer_sig_handler"
  link,        \* the LE link to the SLATE: "up" or "down"
  fd,          \* what the central's fd is: "none", "sock", "stdout"
  conn,        \* centrals created so far; conn is m_gatt_central
  cli,         \* the GATT client work pending on m_gatt_central:
               \* "discovering", a handshake write "ident", "auth", "misc",
               \* or "idle"
  handles,     \* the characteristic value handles stored in the client
               \* part of m_gatt_central, 0 until found
  worker,      \* worker[c]: the ft_task of central c: "none", "created",
               \* "running", "exited"
  ftinit,      \* gStatus.state = FT_IS_INITIALIZED
  sigints,     \* SIGINTs sent so far
  ub           \* undefined behaviours met: "join_uncreated", "argv_null"
vars == <<pc, ble_con_step, end_of_state_machine, handler, link, fd, conn,
          cli, handles, worker, ftinit, sigints, ub>>

\* parse_given_address accepted argv[1] and set BLE_SCANNING.
Init ==
  /\ pc = "loop"
  /\ ble_con_step = "SCANNING"
  /\ end_of_state_machine = 0
  /\ handler = "default"
  /\ link = "down"
  /\ fd = "none"
  /\ conn = 0
  /\ cli = "idle"
  /\ handles = NoHandles
  /\ worker = [c \in Conns |-> "none"]
  /\ ftinit = FALSE
  /\ sigints = 0
  /\ ub = {}

Alive == pc \notin {"exit", "crash"}

\* The main thread inside scan_result.
Scanning == pc \in {"scan_read", "scan_eintr", "scan_report"}

-----------------------------------------------------------------------------
(* The main thread's loop.                                                 *)

\* while (end_of_state_machine == 0) { signal(SIGINT, &sig_handler); ...
LoopTurn ==
  /\ pc = "loop" /\ end_of_state_machine = 0
  /\ handler' = "sig_handler"

\* ... } pthread_exit(NULL): the process lives on while a worker does.
LoopExit ==
  /\ pc = "loop" /\ end_of_state_machine = 1
  /\ pc' = "stopped"
  /\ UNCHANGED <<ble_con_step, end_of_state_machine, handler, link, fd, conn,
                 cli, handles, worker, ftinit, sigints, ub>>

\* cmd_lescan up to the read loop of scan_result: hci_open_dev,
\* hci_le_set_scan_parameters or hci_le_set_scan_enable failing is exit(1);
\* otherwise scan_result either fails to swap the socket's HCI filter and
\* returns at once (cmd_lescan then disables the scan and the loop turns
\* again), or sigaction installs sig_handler (without SA_RESTART) and the
\* thread blocks in read() on the HCI socket.
CmdLescan ==
  /\ LoopTurn /\ ble_con_step = "SCANNING"
  /\ pc' \in {"exit", "loop", "scan_read"}
  /\ UNCHANGED <<ble_con_step, end_of_state_machine, link, fd, conn, cli,
                 handles, worker, ftinit, sigints, ub>>

\* The rest of cmd_lescan once scan_result has returned: disabling the scan
\* failing is exit(1); a match sets BLE_SLATE_FOUND.  scan_result's
\* EXIT_FAILURE is 1, which the err < 0 test lets through.
ScanEnd(found) ==
  /\ \/ pc' = "exit" /\ UNCHANGED ble_con_step
     \/ /\ pc' = "loop"
        /\ ble_con_step' = IF found THEN "SLATE_FOUND" ELSE ble_con_step
  /\ UNCHANGED <<end_of_state_machine, handler, link, fd, conn, cli, handles,
                 worker, ftinit, sigints, ub>>

\* The radio ends a blocked read(): an HCI event (an advertising report of
\* some device, or another LE meta event) is taken in, or read fails with
\* an error other than EINTR and scan_result goes to done.  Nothing forces
\* either to happen: no advertiser in range, no event.
HciEvent ==
  /\ pc = "scan_read"
  /\ \/ pc' = "scan_report"
        /\ UNCHANGED <<ble_con_step, end_of_state_machine, handler, link, fd,
                       conn, cli, handles, worker, ftinit, sigints, ub>>
     \/ ScanEnd(FALSE)

\* read() interrupted by the SIGINT that sig_handler recorded in
\* signal_received: goto done, and scan_result returns without a match.
ReadInterrupted == pc = "scan_eintr" /\ ScanEnd(FALSE)

\* One event processed: a subevent other than an advertising report goes to
\* done; a report from the SLATE (which advertises only while no link to
\* it is up) returns the match; any other device's report goes back to
\* read().
ScanReport ==
  /\ pc = "scan_report"
  /\ \/ ScanEnd(FALSE)
     \/ link = "down" /\ conn < MaxConn /\ ScanEnd(TRUE)
     \/ pc' = "scan_read"
        /\ UNCHANGED <<ble_con_step, end_of_state_machine, handler, link, fd,
                       conn, cli, handles, worker, ftinit, sigints, ub>>

\* le_connection: hci_le_create_conn brings the link up, or exit(1).
LeConnection ==
  /\ LoopTurn /\ ble_con_step = "SLATE_FOUND"
  /\ \/ pc' = "exit" /\ UNCHANGED <<ble_con_step, link>>
     \/ ble_con_step' = "CONNECTED" /\ link' = "up" /\ UNCHANGED pc
  /\ UNCHANGED <<end_of_state_machine, fd, conn, cli, handles, worker, ftinit,
                 sigints, ub>>

\* if (fd < 0): only connect's -1 counts as a failure.
L2capFailed(r) == r = "-1"

\* The BLE_CONNECTED branch: str2ba or hci_devba failing breaks out of the
\* loop; a failed l2cap_le_att_connect sets BLE_SCANNING, then breaks.
Connected ==
  /\ LoopTurn /\ ble_con_step = "CONNECTED"
  /\ \/ pc' = "stopped" /\ UNCHANGED <<ble_con_step, fd>>
     \/ \E r \in L2capResults :
          IF L2capFailed(r)
          THEN /\ ble_con_step' = "SCANNING" /\ pc' = "stopped"
               /\ UNCHANGED fd
          ELSE /\ ble_con_step' = "SOCKET_OPEN" /\ UNCHANGED pc
               /\ fd' = IF r = "sock" THEN "sock" ELSE "stdout"
  /\ UNCHANGED <<end_of_state_machine, link, conn, cli, handles, worker,
                 ftinit, sigints, ub>>

\* The BLE_SOCKET_OPEN branch: gatt_central_create failing sets
\* BLE_SCANNING, closes fd and breaks; otherwise the new central (its
\* ft_task_id zeroed by new0) becomes m_gatt_central, a failed
\* pthread_cond_init or pthread_mutex_init breaks, and mldp_fifos_init and
\* mainloop_run follow.
SocketOpen ==
  /\ LoopTurn /\ ble_con_step = "SOCKET_OPEN"
  /\ \E central \in GattCentralResults :
       IF central = "NULL"
       THEN /\ ble_con_step' = "SCANNING" /\ pc' = "stopped" /\ fd' = "none"
            /\ UNCHANGED <<conn, cli, handles>>
       ELSE /\ conn' = conn + 1 /\ cli' = "discovering"
            /\ handles' = NoHandles
            /\ pc' \in {"stopped", "mainloop"}
            /\ UNCHANGED <<ble_con_step, fd>>
  /\ UNCHANGED <<end_of_state_machine, link, worker, ftinit, sigints, ub>>

-----------------------------------------------------------------------------
(* The event loop's callbacks.  They only come from an ATT socket.         *)

InLoop == pc = "mainloop" /\ fd = "sock"

\* bt_gatt_client_write_value returns 0 when it cannot queue the request;
\* write_*_char then returns EXIT_FAILURE, which nobody reads, and no
\* callback will come.
WriteIssued(w) == {w, "idle"}

\* retry_scan: mainloop_quit, so mainloop_run returns, and BLE_SCANNING.
retry_scan ==
  /\ pc' = "loop" /\ ble_con_step' = "SCANNING" /\ cli' = "idle"

\* ready_cb: on failure it just returns; on success get_handle_from_uuid
\* stores the handles, then BLE_ALL_SERVICE_DISCOVERY_COMPLETE and
\* write_ble_sps issues the identification write.
ReadyCb ==
  /\ InLoop /\ cli = "discovering"
  /\ \/ cli' = "idle" /\ UNCHANGED <<ble_con_step, handles>>
     \/ /\ link = "up"
        /\ \E db \in PeerDbs : handles' = get_handle_from_uuid(handles, db)
        /\ ble_con_step' = "ALL_SERVICE_DISCOVERY_COMPLETE"
        /\ cli' \in WriteIssued("ident")
  /\ UNCHANGED <<pc, end_of_state_machine, handler, link, fd, conn, worker,
                 ftinit, sigints, ub>>

\* client_write_cb_identification_char, client_write_cb_authentication_char
\* and client_write_cb_misc_char: a failed write calls retry_scan; a
\* successful one issues the next write, or, for the last, sets
\* BLE_WAIT_MLDP_DATA.  A write to handle 0 (its characteristic was not
\* found) is answered with an ATT error, so it never succeeds.
HandshakeNext == [ident |-> "auth", auth |-> "misc"]

ClientWriteCb ==
  /\ InLoop /\ cli \in {"ident", "auth", "misc"}
  /\ \/ retry_scan
     \/ /\ link = "up" /\ handles[cli] # 0 /\ cli \in {"ident", "auth"}
        /\ cli' \in WriteIssued(HandshakeNext[cli])
        /\ UNCHANGED <<pc, ble_con_step>>
     \/ /\ link = "up" /\ handles[cli] # 0 /\ cli = "misc"
        /\ ble_con_step' = "WAIT_MLDP_DATA" /\ cli' = "idle"
        /\ UNCHANGED pc
  /\ UNCHANGED <<end_of_state_machine, handler, link, fd, conn, handles,
                 worker, ftinit, sigints, ub>>

\* start_file_transfer: fifos_flush, the hooks, then
\* file_transfer_start_server's pthread_create; exit(1) if it fails.
start_file_transfer ==
  \/ pc' = "exit" /\ UNCHANGED worker
  \/ worker' = [worker EXCEPT ![conn] = "created"] /\ UNCHANGED pc

\* A transfer started by any write once the handshake is done (mutant).
StartsTransferInTransfer == ble_con_step \in {"WAIT_MLDP_DATA", "FILE_TRANSFER"}

\* if (ble_con_step == BLE_WAIT_MLDP_DATA): only the first write starts one.
StartsTransfer == ble_con_step = "WAIT_MLDP_DATA"

\* server_mldp_data_char_write_cb: the first write in BLE_WAIT_MLDP_DATA
\* sets BLE_FILE_TRANSFER and calls start_file_transfer.  Its fifo_write,
\* and any write in another step, only touches the rx fifo.
ServerMldpDataCharWriteCb ==
  /\ InLoop /\ link = "up" /\ StartsTransfer
  /\ ble_con_step' = "FILE_TRANSFER"
  /\ start_file_transfer
  /\ UNCHANGED <<end_of_state_machine, handler, link, fd, conn, cli, handles,
                 ftinit, sigints, ub>>

\* The disconnect callback without its pthread_join (mutant).
JoinNeverBlocks(w) == FALSE

\* A join that waits only for a worker already inside ft_task (mutant).
JoinBlocksRunningOnly(w) == w = "running"

\* Whether pthread_join(ft_task_id) waits: only for a thread still alive.
JoinBlocks(w) == w \in {"created", "running"}

\* The end of att_disconnect_cb: BLE_SCANNING and mainloop_quit.
DisconnectDone ==
  /\ ble_con_step' = "SCANNING" /\ pc' = "loop"

\* att_disconnect_cb joins m_gatt_central's ft_task_id.  When no worker was
\* created on this central the id is 0: joining it is undefined, and
\* crashes or fails with ESRCH.
AttDisconnectCb ==
  /\ InLoop /\ link = "down"
  /\ ub' = IF worker[conn] = "none" THEN ub \cup {"join_uncreated"} ELSE ub
  /\ IF JoinBlocks(worker[conn])
     THEN pc' = "joining" /\ UNCHANGED ble_con_step
     ELSE \/ DisconnectDone
          \/ worker[conn] = "none" /\ pc' = "crash"
             /\ UNCHANGED ble_con_step
  /\ UNCHANGED <<end_of_state_machine, handler, link, fd, conn, cli, handles,
                 worker, ftinit, sigints>>

\* pthread_join returns once the worker has left ft_task.
JoinReturn ==
  /\ pc = "joining" /\ worker[conn] = "exited"
  /\ DisconnectDone
  /\ UNCHANGED <<end_of_state_machine, handler, link, fd, conn, cli, handles,
                 worker, ftinit, sigints, ub>>

-----------------------------------------------------------------------------
(* The worker threads, the peer and the user.                              *)

\* FT_init: EACCES when gStatus is already initialised, otherwise _EK_init
\* and FT_IS_INITIALIZED whatever _EK_init returns.
FT_init == ftinit' = TRUE

\* FT_deinit: EACCES when not initialised; otherwise the library is
\* "considered as freed, even if there are errors".
FT_deinit == ftinit' = FALSE

\* FT_start_server fails with EACCES unless gStatus is initialised, so
\* only then can a session succeed; with the link down the session times
\* out: K_TIMEOUT, that is ETIME, with the type left at ft_type_other.
FT_start_server(type, err) ==
  /\ err \/ (ftinit /\ link = "up")
  /\ link = "down" => type = "other"

\* ft_task begins with FT_init, whose EACCES it prints and ignores.
FtTaskStart(c) ==
  /\ Alive /\ worker[c] = "created"
  /\ worker' = [worker EXCEPT ![c] = "running"]
  /\ FT_init
  /\ UNCHANGED <<pc, ble_con_step, end_of_state_machine, handler, link, fd,
                 conn, cli, handles, sigints, ub>>

\* ft_task leaving its loop only after a GET (mutant).
LeavesLoopOnGetOnly(type, err) == type = "get"

\* if (err) ... break;  if (flag == 1) break;  flag is set by a GET.
LeavesLoop(type, err) == err \/ type = "get"

\* One turn of ft_task's loop: signal(SIGINT, &file_transfer_sig_handler),
\* then FT_start_server; leaving the loop runs FT_deinit.
FtTaskTurn(c) ==
  /\ Alive /\ worker[c] = "running"
  /\ handler' = "file_transfer_sig_handler"
  /\ \E type \in FtTypes, err \in BOOLEAN :
       /\ FT_start_server(type, err)
       /\ IF LeavesLoop(type, err)
          THEN worker' = [worker EXCEPT ![c] = "exited"] /\ FT_deinit
          ELSE UNCHANGED <<worker, ftinit>>
  /\ UNCHANGED <<pc, ble_con_step, end_of_state_machine, link, fd, conn, cli,
                 handles, sigints, ub>>

\* The SLATE or the radio drops the link.
LinkLoss ==
  /\ Alive /\ link = "up"
  /\ link' = "down"
  /\ UNCHANGED <<pc, ble_con_step, end_of_state_machine, handler, fd, conn,
                 cli, handles, worker, ftinit, sigints, ub>>

\* SIGINT runs the last installed handler.  file_transfer_sig_handler
\* calls exit(0).  sig_handler ends the machine while scanning; otherwise
\* le_deconnection either exits (hci_open_dev failing) or reads argv[0]
\* with argv = NULL.
Sigint ==
  /\ Alive /\ sigints < MaxSigint
  /\ sigints' = sigints + 1
  /\ \/ handler \in {"default", "file_transfer_sig_handler"}
        /\ pc' = "exit" /\ UNCHANGED <<end_of_state_machine, ub>>
     \/ handler = "sig_handler" /\ ble_con_step = "SCANNING"
        /\ end_of_state_machine' = 1
        /\ pc' = (IF pc = "scan_read" THEN "scan_eintr" ELSE pc)
        /\ UNCHANGED ub
     \/ handler = "sig_handler" /\ ble_con_step /= "SCANNING"
        /\ \/ pc' = "exit" /\ UNCHANGED ub
           \/ pc' = "crash" /\ ub' = ub \cup {"argv_null"}
        /\ UNCHANGED end_of_state_machine
  /\ UNCHANGED <<ble_con_step, handler, link, fd, conn, cli, handles, worker,
                 ftinit>>

MainThread ==
  \/ LoopExit \/ CmdLescan \/ ReadInterrupted \/ ScanReport
  \/ LeConnection \/ Connected \/ SocketOpen
  \/ ReadyCb \/ ClientWriteCb \/ ServerMldpDataCharWriteCb
  \/ AttDisconnectCb \/ JoinReturn

Next ==
  \/ MainThread
  \/ \E c \in Conns : FtTaskStart(c) \/ FtTaskTurn(c)
  \/ HciEvent \/ LinkLoss \/ Sigint

Spec == Init /\ [][Next]_vars

\* The event loop dispatches every ready callback and the main loop always
\* takes its next turn; the scheduler runs every live worker thread.  The
\* peer, the radio and the user get no fairness.
FairSpec ==
  /\ Spec
  /\ WF_vars(MainThread)
  /\ \A c \in Conns : WF_vars(FtTaskStart(c)) /\ WF_vars(FtTaskTurn(c))
-----------------------------------------------------------------------------
\* The ft_task threads alive: created and not yet out of ft_task.
LiveWorkers == {c \in Conns : worker[c] \in {"created", "running"}}

(* Spec section 5: there is never more than one TransferSession alive.     *)
(* The code relies on att_disconnect_cb joining the worker before it sets  *)
(* BLE_SCANNING: a worker outliving its link would share the rx fifo and   *)
(* the Kermit globals with the worker of the next connection.              *)
WorkerExclusive == Cardinality(LiveWorkers) <= 1

(* signal() is process-wide: every turn of ft_task's loop installs        *)
(* file_transfer_sig_handler (exit(0)) over main's sig_handler.  While the *)
(* main thread is inside scan_result no ft_task is alive, so the SIGINT    *)
(* disposition is still the sig_handler that the loop head and             *)
(* scan_result's sigaction installed, and a user interrupt reaches the     *)
(* scan.  It rests on att_disconnect_cb joining a worker that was created  *)
(* but has not started yet as well as one that is running.                *)
ScanningAlone == Scanning => LiveWorkers = {} /\ handler = "sig_handler"

\* The spec's connection state of the main thread: ble_con_step, except
\* that BLE_SOCKET_OPEN is SocketOpen until gatt_central_create and
\* ServiceDiscovering once the central exists (ready_cb not yet run), and
\* that a process that ended or a main thread that left its loop is Stopped.
StepState == [SCANNING |-> "Scanning", SLATE_FOUND |-> "LinkCandidateFound",
              CONNECTED |-> "Connected", SOCKET_OPEN |-> "SocketOpen",
              ALL_SERVICE_DISCOVERY_COMPLETE |-> "ServicesReady",
              WAIT_MLDP_DATA |-> "AwaitingFirstData",
              FILE_TRANSFER |-> "TransferActive"]

ConnState ==
  CASE ~Alive \/ pc = "stopped"                  -> "Stopped"
    [] ble_con_step = "SOCKET_OPEN" /\ pc # "loop" -> "ServiceDiscovering"
    [] OTHER                                       -> StepState[ble_con_step]

CS == INSTANCE ConnectionSpec
        WITH cstate <- ConnState, session <- LiveWorkers # {}

(* Spec 4.5 and 5: main.c implements the connection state machine of the   *)
(* spec.  ble_con_step moves forward one state at a time, goes back only   *)
(* to BLE_SCANNING (retry_scan, a failed central, att_disconnect_cb), and  *)
(* only once the worker of the connection has been joined; an ft_task is  *)
(* created only by the first MLDP write of BLE_WAIT_MLDP_DATA, never a     *)
(* second one by a later write, even after the first has ended.            *)
ImplementsConnectionSpec == CS!Spec

(* Spec section 5: the join in att_disconnect_cb is bounded by the worker  *)
(* observing a transport error.  Once the link is down under a running     *)
(* event loop, the main thread gets back to BLE_SCANNING (unless the       *)
(* process ends): the disconnect callback fires, ft_task's next session    *)
(* fails and the task leaves its loop, and the join returns.               *)
DisconnectReturnsToScan ==
  (link = "down" /\ InLoop)
    ~> (pc = "loop" /\ ble_con_step = "SCANNING") \/ ~Alive

(* Spec 4.5: on link loss the disconnect callback joins the transfer       *)
(* worker "if one is running".  att_disconnect_cb calls pthread_join on    *)
(* ft_task_id whether or not start_file_transfer ever ran on this central. *)
JoinsOnlyCreatedWorker == "join_uncreated" \notin ub

(* Spec 4.5: any state goes back to Scanning on signal-driven teardown.    *)
(* sig_handler outside BLE_SCANNING calls le_deconnection, which reads     *)
(* argv[0] from argv = NULL.                                               *)
SigintTearsDown == "argv_null" \notin ub

(* Spec 4.5: once in TransferActive, inbound writes are queued for the     *)
(* TransferSession.  ft_task leaves its loop after a GET (flag = 1): the   *)
(* link stays in BLE_FILE_TRANSFER with no worker to read the rx fifo,     *)
(* and no new worker is started until the link drops.                      *)
ServedWhileTransferring ==
  (InLoop /\ link = "up" /\ ble_con_step = "FILE_TRANSFER")
    => worker[conn] \in {"created", "running"}

(* Spec 3, Scanning: a user interrupt while scanning terminates the whole  *)
(* process.  sig_handler only sets end_of_state_machine and                *)
(* signal_received; scan_result checks them only when read() fails with    *)
(* EINTR, and the while loop of main() only once scan_result returns.  A   *)
(* SIGINT that lands while scan_result processes a report, or before it    *)
(* blocks, leaves it waiting for an HCI event that may never come.         *)
SigintEndsScan ==
  (Scanning /\ end_of_state_machine = 1) ~> (~Alive \/ pc = "stopped")
=============================================================================
