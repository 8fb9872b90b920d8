---------------------------- MODULE KermitWorker ----------------------------
(***************************************************************************)
(* The file transfer worker thread: ft_task (file_transfer_task.c) calls   *)
(* FT_start_server (libfile_transfer.c) -> _EK_start_server -> kermit_main *)
(* (libe-kermit.c), whose receive loop reads packets with kreadpkt         *)
(* (unixio_rpi.c), which pulls bytes one at a time from the rx fifo with   *)
(* ble_mldp_get_byte and waits with ft_wait_ms between empty polls.        *)
(*                                                                         *)
(* The rx fifo is the queue rx: the ByteRing module shows that fifo.c      *)
(* behaves as a FIFO queue when calls do not overlap (RxFifoRace shows     *)
(* that they can).  The peer appends writes to it.  The Kermit engine,     *)
(* kermit(K_RUN, ...), is outside the repository: its status and the       *)
(* transaction type it reports are chosen nondeterministically.           *)
(***************************************************************************)
EXTENDS Integers, Sequences, SequencesExt

CONSTANTS
  RSoh, REom,     \* k->r_soh, k->r_eom: start and end of packet markers
  Parity,         \* k->parity /= 0: strip bit 7 before comparing
  RMaxLen,        \* k->r_maxlen
  RTimo,          \* k->r_timo, the packet timeout in seconds
  TimeoutScale,   \* the factor 1200 of kreadpkt, a multiple of 10 as 1200 is
  Retry,          \* k.retry: kermit_main allows Retry + 1 timeouts
  Writes,         \* the byte strings one peer write may carry
  MaxWritten      \* bound on the number of bytes the peer writes in a run

ASSUME /\ RTimo \in Nat \ {0}
       /\ TimeoutScale \in Nat \ {0} /\ TimeoutScale % 10 = 0
       /\ Retry \in Nat
       /\ RMaxLen \in Nat

\* "CMD\r\n", compared by strncmp once the first five bytes are in.
AbortSeq == <<67, 77, 68, 13, 10>>

\* Return codes: kreadpkt returns a length, 0 on timeout, -K_END on abort.
K_END == 100
Results == {"K_SUCCESS", "K_TIMEOUT", "K_END", "K_FAILURE"}
TxTypes == {"A_GET", "A_SEND", "A_DIR", "A_OTHER"}

VARIABLES
  rx,        \* bytes in the rx fifo, oldest first
  written,   \* number of bytes the peer has written
  rd,        \* kreadpkt locals, plus taken: the bytes this call pulled
  km,        \* kermit_main: pc, retrycounter, start, ret
  ft         \* ft_task: pc, last (type, err) it saw
vars == <<rx, written, rd, km, ft>>

RdIdle == [pc |-> "idle", timeout |-> 0, byte |-> 0, got |-> FALSE,
           i |-> 0, comp |-> TRUE, flag |-> FALSE, n |-> 0,
           cmd |-> [j \in 0 .. 4 |-> 0], pkt |-> << >>, taken |-> << >>,
           res |-> 0, why |-> "none", cmdix |-> 0]

Init ==
  /\ rx = << >>
  /\ written = 0
  /\ rd = RdIdle
  /\ km = [pc |-> "idle", retrycounter |-> 0, start |-> TRUE,
           ret |-> "K_SUCCESS"]
  /\ ft = [pc |-> "serve", type |-> "A_OTHER", err |-> FALSE]

-----------------------------------------------------------------------------
(* The peer: server_mldp_data_char_write_cb queues each write into rx.     *)
PeerWrite ==
  /\ \E w \in Writes :
       /\ written + Len(w) <= MaxWritten
       /\ rx' = rx \o w
       /\ written' = written + Len(w)
  /\ UNCHANGED <<rd, km, ft>>

-----------------------------------------------------------------------------
(* ft_task: each loop turn is one FT_start_server -> _EK_start_server ->  *)
(* kermit_main(A_WAIT) call.  kdevopen always succeeds; K_REINIT is the    *)
(* engine's and may fail (K_ERROR, before *type is set); otherwise         *)
(* retrycounter = k.retry + 1 and the receive loop starts.                 *)
SessionStart(rc) ==
  /\ ft.pc = "serve"
  /\ km.pc = "idle"
  /\ \/ km' = [pc |-> "read", retrycounter |-> rc, start |-> TRUE,
                ret |-> "K_SUCCESS"]
     \/ km' = [pc |-> "end", retrycounter |-> 0, start |-> TRUE,
                ret |-> "K_ERROR"]
  /\ rd' = [RdIdle EXCEPT !.pc = IF km'.pc = "read" THEN "start" ELSE "idle"]
  /\ ft' = [ft EXCEPT !.pc = "wait"]
  /\ UNCHANGED <<rx, written>>

StartServer == SessionStart(Retry + 1)

-----------------------------------------------------------------------------
(* kreadpkt.  One kreadpkt loop turn starts with timeout = r_timo * 1200.  *)
ReadStart ==
  /\ rd.pc = "start"
  /\ rd' = [rd EXCEPT !.pc = "poll", !.timeout = RTimo * TimeoutScale]
  /\ UNCHANGED <<rx, written, km, ft>>

\* timeout -= 10 and a 10 ms wait while timeout >= 10, else timeout--.
NextTimeout(t) == IF t >= 10 THEN t - 10 ELSE t - 1

\* ble_mldp_get_byte: fifo_get on the rx fifo; EXIT_FAILURE (1) when it is
\* empty, EXIT_SUCCESS (0) with its oldest byte otherwise.
ble_mldp_get_byte(q) == IF q = << >> THEN 1 ELSE 0

\* One turn of the do/while: ble_mldp_get_byte (fifo_get, which never
\* reports anything but a byte or empty), the countdown and ft_wait_ms; the
\* loop goes on while the fifo was empty and timeout /= 0.
Poll ==
  /\ rd.pc = "poll"
  /\ LET got == ble_mldp_get_byte(rx) = 0
         t2  == NextTimeout(rd.timeout)
     IN /\ rx' = IF got THEN Tail(rx) ELSE rx
        /\ rd' = [rd EXCEPT
                    !.timeout = t2,
                    !.got = got,
                    !.byte = IF got THEN Head(rx) ELSE @,
                    !.taken = IF got THEN Append(@, Head(rx)) ELSE @,
                    !.pc = IF got \/ t2 = 0 THEN "byte" ELSE "poll"]
  /\ UNCHANGED <<written, km, ft>>

StripParity(c) == IF Parity THEN c % 128 ELSE c

\* strncmp((char *)cmd, "CMD\r\n", 5) == 0
IsAbort(cmd) == [j \in 1 .. 5 |-> cmd[j - 1]] = AbortSeq

\* Stores the byte without counting it (mutant).
AcceptNoCount(r, c) == [r EXCEPT !.pkt = Append(@, c)]

\* Contents of packet: n++ counts it, *p++ stores it.
Accept(r, c) == [r EXCEPT !.n = @ + 1, !.pkt = Append(@, c)]

Done(r, v, why) == [r EXCEPT !.pc = "done", !.res = v, !.why = why]

\* The loop body after a byte was obtained: the abort check over the first
\* five bytes of the call (cmd[i] = byte; i++ while comp), then framing.
\* Once i = 5 every further byte is stored at cmd[5], past the array; that
\* write has no modelled effect and is recorded in cmdix.
ReadByte(r) ==
  LET c     == r.byte
      cmd2  == IF r.i < 5 THEN [r.cmd EXCEPT ![r.i] = c] ELSE r.cmd
      i2    == IF r.comp THEN r.i + 1 ELSE r.i
      check == i2 = 5 /\ r.comp
      final == StripParity(c)
      s     == [r EXCEPT !.cmd = cmd2, !.i = i2, !.cmdix = r.i,
                         !.comp = r.comp /\ ~check]
  IN IF check /\ IsAbort(cmd2) THEN Done(s, -K_END, "abort")
     ELSE IF ~r.flag /\ final # RSoh THEN [s EXCEPT !.pc = "start"]
     ELSE IF final = RSoh THEN [s EXCEPT !.pc = "start", !.flag = TRUE]
     ELSE IF final = REom THEN Done(s, r.n, "eom")
     ELSE IF r.n > RMaxLen THEN Done([s EXCEPT !.n = @ + 1], r.n + 1, "long")
     ELSE [Accept(s, c) EXCEPT !.pc = "start"]

\* After the poll loop: timeout = 0 returns 0, even if the last poll got a
\* byte; otherwise the byte is processed.
Process ==
  /\ rd.pc = "byte"
  /\ rd' = IF rd.timeout = 0 THEN Done(rd, 0, "timeout") ELSE ReadByte(rd)
  /\ UNCHANGED <<rx, written, km, ft>>

-----------------------------------------------------------------------------
(* kermit_main, after rx_len = k.rxd(...) returned rd.res.                 *)
Finish(ret) ==
  /\ km' = [km EXCEPT !.pc = "end", !.ret = ret]
  /\ rd' = RdIdle

\* The timeout is counted without retrycounter-- (mutant).
CountTimeoutNoDec(k) == k

\* rx_len = 0 with retrycounter > 0: retrycounter--.
CountTimeout(k) == [k EXCEPT !.retrycounter = @ - 1]

\* The budget tested as spent only below zero (mutant).
BudgetSpentBelowZero(k) == k.retrycounter < 0

\* if (retrycounter == 0): the empty read that finds no budget left.
BudgetSpent(k) == k.retrycounter = 0

\* rx_len < 0: fatal, ret = -rx_len, i.e. K_END.  rx_len = 0 with
\* retrycounter = 0: K_TIMEOUT (an E packet is sent unless start; the
\* engine is not modelled).  Otherwise on to kermit(K_RUN).
AfterRead ==
  /\ km.pc = "read"
  /\ rd.pc = "done"
  /\ \/ /\ rd.res < 0
        /\ Finish("K_END")
     \/ /\ rd.res = 0
        /\ BudgetSpent(km)
        /\ Finish("K_TIMEOUT")
     \/ /\ rd.res = 0
        /\ ~BudgetSpent(km)
        /\ km' = [CountTimeout(km) EXCEPT !.pc = "run"]
        /\ UNCHANGED rd
     \/ /\ rd.res > 0
        /\ km' = [km EXCEPT !.pc = "run"]
        /\ UNCHANGED rd
  /\ UNCHANGED <<rx, written, ft>>

\* status = kermit(K_RUN, &k, rx_len, "", &r); start = 0: X_OK reads the
\* next packet, X_DONE leaves the loop with K_SUCCESS, X_ERROR with
\* K_FAILURE.
EngineRun ==
  /\ km.pc = "run"
  /\ \/ /\ km' = [km EXCEPT !.pc = "read", !.start = FALSE]
        /\ rd' = [RdIdle EXCEPT !.pc = "start"]
     \/ Finish("K_SUCCESS")
     \/ Finish("K_FAILURE")
  /\ UNCHANGED <<rx, written, ft>>

\* kermit_main_end *type = r.type; _EK_start_server and FT_start_server
\* translate it (A_WAIT after an early return is "other"); FT_start_server
\* maps K_SUCCESS to FT_SUCCESS, K_TIMEOUT to ETIME, K_END to ft_type_end
\* with FT_SUCCESS, anything else to EIO.  ft_task leaves its loop, calls
\* FT_deinit and ends the thread on an error or after a GET.
ServerReturn ==
  /\ km.pc = "end"
  /\ \E t \in TxTypes :
       LET type == IF km.ret = "K_END" THEN "END" ELSE t
           err  == km.ret # "K_SUCCESS" /\ km.ret # "K_END"
       IN ft' = [pc |-> IF err \/ type = "A_GET" THEN "exited" ELSE "serve",
                 type |-> type, err |-> err]
  /\ km' = [km EXCEPT !.pc = "idle"]
  /\ UNCHANGED <<rx, written, rd>>

Next ==
  \/ PeerWrite \/ StartServer \/ ReadStart \/ Poll \/ Process
  \/ AfterRead \/ EngineRun \/ ServerReturn

Spec == Init /\ [][Next]_vars

\* The worker is a thread of its own: once it can take a step it takes it.
\* The peer and the engine's choices get no fairness.
FairSpec ==
  /\ Spec
  /\ WF_vars(ReadStart) /\ WF_vars(Poll) /\ WF_vars(Process)
  /\ WF_vars(AfterRead) /\ WF_vars(EngineRun) /\ WF_vars(ServerReturn)

-----------------------------------------------------------------------------
\* The bytes of a call after its first start marker, without the markers
\* and without the end marker that ended it.
Payload(t) ==
  LET f == SelectInSeq(t, LAMBDA x : StripParity(x) = RSoh)
  IN SelectSeq(SubSeq(t, f + 1, Len(t) - 1),
               LAMBDA x : StripParity(x) # RSoh)

(* The type of every variable; in particular kermit_main's retrycounter    *)
(* stays within 0 .. k.retry + 1 over any run of empty reads, so it is     *)
(* never decremented past zero.                                             *)
TypeOK ==
  /\ rx \in Seq(Nat) /\ written \in 0 .. MaxWritten
  /\ rd.pc \in {"idle", "start", "poll", "byte", "done"}
  /\ rd.n \in 0 .. RMaxLen + 2 /\ rd.i \in 0 .. 5
  /\ rd.timeout \in 0 .. RTimo * TimeoutScale
  /\ km.pc \in {"idle", "read", "run", "end"}
  /\ km.retrycounter \in 0 .. Retry + 1
  /\ km.ret \in Results \cup {"K_ERROR"}
  /\ ft.pc \in {"serve", "wait", "exited"}

(* A packet kreadpkt hands to kermit() on the end marker holds exactly the *)
(* bytes the call took after its first start marker (repeated start       *)
(* markers dropped), and the length it returns is the length of that      *)
(* packet.                                                                  *)
PacketFramed ==
  rd.why = "eom" => /\ rd.res = Len(rd.pkt)
                    /\ rd.pkt = Payload(rd.taken)

(* Every receive loop of kermit_main ends: kreadpkt calls time out when    *)
(* the peer stops writing, each empty read takes one unit of retrycounter, *)
(* so the retry budget runs out even if the engine keeps answering X_OK.   *)
SessionEnds == km.pc = "read" ~> km.pc = "end"

-----------------------------------------------------------------------------
(* Statements of spec section 4.3 the code does not meet.                  *)

(* A kreadpkt call that reports a timeout took no byte on its last poll    *)
(* ("exhausting the budget with zero bytes read").                         *)
TimeoutTakesNoByte == rd.why = "timeout" => ~rd.got

(* kreadpkt stores each byte into cmd[i] only while i is an index of the   *)
(* five-byte array cmd.                                                     *)
CmdWriteInBounds == rd.cmdix < 5
=============================================================================
