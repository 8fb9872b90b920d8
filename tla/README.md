# TLA+ models of the BLE file-transfer bridge

This directory holds TLA+ models of `src/raspberry_pi-bluez_server_file_transfer`,
which is a BlueZ BLE central program for the Raspberry Pi. The program scans for a
"SLATE" peripheral and connects to it. It runs a vendor handshake over GATT, then
serves the Kermit file-transfer protocol over the MLDP data characteristic. Each
model is a translation of the C source. `PROJECT.json` maps every definition to the
lines it models, and it also lists the runs, the mutants, the findings and the
hazards.

## 1. The system

### Parts

| Part | Source | State | Operations |
|---|---|---|---|
| **ByteRing**: the byte fifo | `src/fifo.c`, `inc/fifo.h` | `p_buff`, `read_pos`, `write_pos`, `buff_size` | `fifo_init`, `fifo_put`, `fifo_get` (uses `fifo_shift`), `fifo_read`, `fifo_write`, `fifo_flush`, `fifo_length`, `is_fifo_full` |
| **FrameReader** | `kreadpkt` in `src/libe_kermit/unixio_rpi.c` | `timeout`, `cmd[5]`, `i`, `comp`, `flag`, `n`, the packet buffer | one call reads bytes until a packet, an abort, an over-long packet or a timeout |
| **TransferSession worker** | `ft_task` (`file_transfer_task.c`), `FT_start_server` (`libfile_transfer.c`), `_EK_start_server` and `kermit_main` (`libe-kermit.c`) | `retrycounter`, `start`, `status`, `ret`, `r.type`, the `flag` of `ft_task` | a loop of server sessions; each session is a receive loop around the Kermit engine |
| **Tx send path** | `ktx_data` (`unixio_rpi.c`), `ble_mldp_send_bytes` and `tx_fifo_send_bytes` (`main.c`) | the tx fifo, `repeatOnErrorCount`, `data_array` | a packet is queued, then drained in chunks of up to 20 bytes, with up to 3 retries per chunk |
| **ConnectionStateMachine** | `main.c` | `ble_con_step` (SCANNING, SLATE_FOUND, CONNECTED, SOCKET_OPEN, SPS_DISCOVERING, ALL_SERVICE_DISCOVERY_COMPLETE, WAIT_MLDP_DATA, FILE_TRANSFER), `end_of_state_machine` | the `main` loop; the GATT callbacks `ready_cb`, `client_store_handle` and the three handshake write callbacks; `server_mldp_data_char_write_cb`; `att_disconnect_cb`; `retry_scan`; `sig_handler` |
| **libfile_transfer** | `libfile_transfer.c` | `gStatus.state`, `gStatus.mode` | `FT_init`, `FT_deinit`, `FT_start_server`, plus the client calls, which are unused |
| **CrcDigest** | `libcrc32/libcrc32_file.c` | the table; `crc` is threaded through | `CRCF_calc_crc_soft`, `Crc32Fast` |
| **Directory listing and file hooks** | `kgetdirdata`, `kopenfile`, `kreadfile`, `kwritefile`, `kclosefile`, `kaccessfile` in `unixio_rpi.c` | `ifile`, `ofile` | stdio wrappers; listing with CRC etags |
| **Kermit engine** | `kermit()` and `ok2rxd`, which are not in the repository | the protocol state | `K_REINIT`, `K_RUN`, `K_ERROR` |

### How the parts interact

There are two threads.

**The event loop** (`mainloop_run`) runs every BlueZ callback.
- When the peer writes the MLDP data characteristic, `server_mldp_data_char_write_cb` handles the write.
- On the first write it switches `WAIT_MLDP_DATA` to `FILE_TRANSFER` and calls `start_file_transfer`, which flushes both fifos and creates the worker thread.
- Every write's bytes then go into the **rx fifo** through `fifo_write`.

**The worker** (`ft_task`) runs Kermit server sessions.
- Each session is `FT_start_server` → `_EK_start_server` → `kermit_main(A_WAIT)`.
- `kermit_main` reads packets with `k.rxd = kreadpkt`.
- `kreadpkt` polls `ble_mldp_get_byte`, which is `fifo_get` on the rx fifo, and waits with `ft_wait_ms` between empty polls.
- Replies go out through `ktx_data` → `ble_mldp_send_bytes`. That function writes into the **tx fifo** and drains it at once with `bt_gatt_client_write_without_response`.

**How the two threads share state.**
- They share the rx fifo with no lock: the event loop writes and the worker reads.
- They also share `ble_con_step`. The worker reads it in `ble_mldp_send_bytes`.
- When the link drops, `att_disconnect_cb` joins the worker from the event loop, then sets `BLE_SCANNING` and leaves the main loop.

### Hard behaviours

- **rx fifo race.** The event loop and the worker use the rx fifo without a lock. `fifo_put` increments `write_pos` and `fifo_shift` decrements it, and both move bytes in `p_buff`.
- **FrameReader timeout and abort:**
  - The timeout is a countdown of polls: 10 per step, then 1 per step.
  - The abort sequence `"CMD\r\n"` is checked only against the first five bytes of each call.
  - A repeated SOH does not restart the packet.
  - The length check uses a post-increment.
- **Retry budget.** `kermit_main` gets `Retry + 1` retries per session, and the budget is not restored after a good packet.
- **Session loop.** The `ft_task` loop ends after a GET or an error. Nothing restarts the worker until the link drops.
- **tx retries.** A chunk is retried 3 times and then dropped, and the call still reports success.
- **Connection machine:**
  - failure paths that `break` out of `main`;
  - `retry_scan` leaves the socket open;
  - joining a thread that was never created;
  - SIGINT while connected dereferences a NULL `argv`.

### Properties per part

| Part | Properties (checked by a run) |
|---|---|
| ByteRing | Used by one caller at a time it refines a bounded queue (`ImplementsByteQueue`). With two unlocked threads, arrival order is not kept (`RxInOrder`, violated). |
| FrameReader | A returned packet is the bytes after the first SOH (`PacketFramed`); `retrycounter` never goes below zero (`TypeOK`), and every receive loop ends (`SessionEnds`). A timed-out call drops a byte (`TimeoutTakesNoByte`, violated); `cmd[5]` is written out of bounds (`CmdWriteInBounds`, violated). |
| Worker | Every session ends, even when the peer goes silent and the engine keeps answering `X_OK` (`SessionEnds`). |
| Tx path | No loss, duplication or reordering while no chunk gives up (`NoLossWithoutGiveUp`); `X_OK` after a dropped chunk (`AckedWasSent`, violated). |
| Connection machine | At most one worker alive (`WorkerExclusive`); no worker is alive while the main thread scans, so SIGINT reaches `sig_handler` (`ScanningAlone`); `main.c` implements the spec's connection state machine (`ImplementsConnectionSpec`); a disconnect brings the main thread back to scanning (`DisconnectReturnsToScan`). Join of an uncreated thread, SIGINT with a NULL `argv`, a link left unserved after a GET, and a SIGINT that does not end a scan blocked in `read` (`SigintEndsScan`) are violations. |
| CrcDigest, listing, file hooks | `kreadfile` streams exactly the open file (`ReadStreamsFile`); the listing holds the eligible entries up to `K_DIR_MAX` (`ListingSelectsEligible`); each etag equals a bitwise reference CRC (`EtagIsReferenceCrc`). |

## 2. Modules

| Module | Models | Kind |
|---|---|---|
| `Fifo` | `fifo.c` as operators on a fifo record, with the same field names | operator library |
| `ByteQueue` | what a fifo promises: a bounded queue | abstract spec |
| `ByteRing` | one fifo with one caller at a time; refines `ByteQueue` | component |
| `RxFifoRace` | the rx fifo shared by the event loop and the worker, one C statement per step | composition of two threads |
| `KermitWorker` | peer writes into rx, `kreadpkt`, the `kermit_main` receive loop, `FT_start_server`, and the `ft_task` loop | component and environment |
| `TxPath` | `ktx_data` → `ble_mldp_send_bytes` → `tx_fifo_send_bytes` on the tx fifo | component; reuses `Fifo` |
| `MldpFifos` | both MLDP fifos: the rx `ByteRing` and the tx `TxPath`, instanced side by side, with `fifos_flush` | composition of two components |
| `BleConnection` | the `main` loop of `main.c`, its GATT callbacks, SIGINT handlers, and the life of the `ft_task` threads | composition of the main thread, the workers and the environment |
| `ConnectionSpec` | what spec 4.5 promises of the connection state machine: its states in order, teardown to Scanning after the join, one session per connection | abstract spec |
| `Crc32` | `CRCF_calc_crc_soft` and `Crc32Fast` of `libcrc32_file.c`, plus a bitwise reference CRC | operator library |
| `FileHooks` | the file hooks and `kgetdirdata` of `unixio_rpi.c` over a directory of entries; extends `Crc32` | component |
| `MC*` | constant values for TLC | model-checking wrappers |

### Fifo, ByteRing, ByteQueue

A fifo value is `[p_buff, read_pos, write_pos]`. `buff_size` is a definition equal to `BufSize - 1`, as `fifo_init` stores it.

Each operator follows its function:
- `FifoPut` follows `fifo_put`, guard included.
- `FifoShift` follows the left shift of `fifo_shift`, including the read of `p_buff[len]` past the array when the fifo is full. That read is a nondeterministic byte `oob`.
- `FifoWrite` and `FifoRead` fold `FifoPut` and `FifoGet` over the same counts as the C loops.

`ByteRing` has one action per operation that changes the fifo: `Write`, `Get`, `Read` and `Flush`. `fifo_read` and `fifo_write` are always called with a non-NULL array, so their "size only" paths are not actions.

`ByteQueue` is the abstract queue: `Enq` appends up to the capacity, `Deq` removes the oldest k bytes, and `Flush` empties it. The refinement mapping is `q <- Contents(fifo)` and `Capacity <- BufSize`.

### RxFifoRace

The producer runs one `fifo_write` of the peer's bytes, split into steps:
- `WriteStart`;
- the length check `PutCheck`;
- the store `PutStore`;
- then `write_pos++` as a load (`PutLoad`) and a store (`PutInc`).

The consumer runs `fifo_get`, split into:
- the empty check `GetCheck`;
- `GetByte`;
- `fifo_shift`: `ShiftStart`, then one copy per `ShiftStep`;
- then `write_pos--` as `DecLoad` and `DecStore`.

The unlocked accesses are a data race, which is undefined behaviour in C. The model takes one outcome the compiler can produce: every access is a real memory access.

### KermitWorker

The rx fifo is the sequence `rx`. `ByteRing` shows this is faithful when calls do not overlap; `RxFifoRace` shows that they can overlap, and the race is not repeated here.

| Variable | What it holds |
|---|---|
| `rx` | the bytes in the rx fifo |
| `written` | the count of bytes the peer has written |
| `rd` | the locals of `kreadpkt`, plus the bytes the current call took (`taken`), its result, and why it returned |
| `km` | `kermit_main`'s `retrycounter`, `start` and `ret`, and its place in the loop |
| `ft` | `ft_task`'s place, the last type, and the last error |

The actions follow the code:
- `PeerWrite` is `server_mldp_data_char_write_cb`.
- `StartServer` covers the `ft_task` loop head, `FT_start_server`, `_EK_start_server` and the prologue of `kermit_main`. `K_REINIT` may fail.
- `ReadStart`, `Poll` and `Process` are one `kreadpkt` loop turn. `Poll` takes a byte through the hook `ble_mldp_get_byte`, which reports `EXIT_FAILURE` on an empty fifo. `Process` uses `ReadByte` for the abort check and the framing.
- `AfterRead` is `kermit_main`'s handling of `rx_len`.
- `EngineRun` is `kermit(K_RUN)`, with its status chosen nondeterministically.
- `ServerReturn` covers `kermit_main_end`, the translations in `_EK_start_server` and `FT_start_server`, and the `ft_task` switch and loop exit.

The Kermit engine is not in the repository, so three things are left open:
- its status after a packet and the transaction type it reports are nondeterministic;
- `ok2rxd` is taken as true;
- the `K_*` codes are named values.

### TxPath

| Variable | What it holds |
|---|---|
| `txf` | the tx fifo, with the `Fifo` operators |
| `tx` | the locals of `tx_fifo_send_bytes` |
| `sent` | the bytes the BLE stack accepted |
| `acked` | the packets for which `ktx_data` returned `X_OK` |
| `calls` | the number of calls so far |
| `gaveup` | whether some chunk was dropped after its retries |

The actions:
- `KtxData` is `ktx_data` and `ble_mldp_send_bytes`. Two checks can fail: `ble_con_step` may no longer be `FILE_TRANSFER`, and `fifo_write` may report the fifo full.
- `TxChunk` is one turn of the chunk loop. The stack accepting or rejecting a write is the environment's choice.
- `KtxDataRet` is the return value of `ktx_data`: `X_OK` when `ble_mldp_send_bytes` returns 0, `X_ERROR` otherwise.

### MldpFifos

`MldpFifos` instances `ByteRing` as the rx ring (`fifo <- rxf`) and `TxPath` as the tx ring, each with its own byte set and size. A step is a step of one of them with the other's variables unchanged, or `FifosFlush`. `FifosFlush` is `fifos_flush`, which `start_file_transfer` runs on the main thread before the worker of a transfer exists; so it is enabled only while no `tx_fifo_send_bytes` call is under way, and it empties both rings at once. `Init` is `mldp_fifos_init`. The run checks that the rx ring still refines `ByteQueue` and the tx path still loses nothing, with flushes between transfers.

### BleConnection

| Variable | What it holds |
|---|---|
| `pc` | the main thread: top of the `while` loop, in `mainloop_run`, blocked in `pthread_join`, stopped, exited, crashed |
| `ble_con_step`, `end_of_state_machine` | the globals of `main.c` (`BLE_SPS_DISCOVERING` is overwritten in the same callback that sets it, so it is not a value) |
| `handler` | the SIGINT disposition last installed |
| `link`, `fd`, `conn`, `cli` | the LE link, what the central's fd is, how many centrals were made, the GATT client work pending |
| `worker` | per central, its `ft_task`: none, created, running, exited |
| `ftinit` | `gStatus.state` of `libfile_transfer.c` |
| `handles` | the characteristic handles `get_handle_from_uuid` stored, per UUID (0 when not found) |
| `sigints`, `ub` | SIGINTs sent; undefined behaviours met |

The actions follow the code:
- `LoopExit`, `CmdLescan`, `LeConnection`, `Connected` and `SocketOpen` are the cases of the `main` loop, failure paths (`break`, `exit`) included.
- `CmdLescan` opens the scan; `scan_result`'s loop is `HciEvent` (a `read` returns an event or fails), `ReadInterrupted` (a `read` failed with `EINTR`), and `ScanReport` (an advertising report: no match, the SLATE found, or read again). `ScanEnd` is the `done:` tail that restores the socket filter and returns to `cmd_lescan`.
- `ReadyCb` runs `get_handle_from_uuid` over one of the peer databases `PeerDbs`. It is modelled by its loops: `get_handle_from_uuid` folds `client_parse_chrc` over the services, which folds `client_store_handle` over the characteristics (`FoldLeft`). The handshake writes in `ClientWriteCb` go ahead only with a handle that was found.
- `ReadyCb`, `ClientWriteCb` (the three handshake callbacks), `ServerMldpDataCharWriteCb` (which calls `start_file_transfer` on the first write) and `AttDisconnectCb` are the event-loop callbacks. `JoinReturn` is the end of the `pthread_join` in `att_disconnect_cb`.
- `FtTaskStart` and `FtTaskTurn` are `ft_task` with `FT_init`, one `FT_start_server` session and the loop test, and `FT_deinit`.
- `HciEvent`, `LinkLoss` and `Sigint` are the environment: the radio sends events or nothing, may drop the link at any time; the user sends SIGINT. A SIGINT that lands while `read` is blocked makes it fail with `EINTR`, and `scan_result` then ends the scan; one that lands at another point of the scan is only recorded.

`ConnectionSpec` is the abstract machine of spec 4.5:
- `Advance` moves one state forward, and `StartSession` takes AwaitingFirstData to TransferActive while no session is alive.
- `SessionEnds` lets a session end on its own, in any state.
- `Teardown` goes back to Scanning from any state, but only once no session is alive.
- `Stop` ends the process in any state, as section 7 allows.

`BleConnection` refines it. `ConnState` maps `ble_con_step` to a spec state. `BLE_SOCKET_OPEN` counts as SocketOpen before `gatt_central_create`, and as ServiceDiscovering once the central exists. `pc` values that end the process or the main loop count as Stopped. The session is "some `ft_task` is alive". `StartsTransfer` is the test of `server_mldp_data_char_write_cb` that only the first MLDP write starts a transfer.

A session's data is abstracted: `KermitWorker` shows that a session ends, and that with the link down it ends in an error. The SLATE is found by a scan only while no link to it is up, since a connected peripheral does not advertise.

### Crc32

A `uint32_t` is a pair `<<hi, lo>>` of 16-bit halves because TLC's integers are 32-bit signed. Xor is taken a nibble at a time from a table. `Crc32Fast` is eight `NibbleRound`s over `crc_table`. `CrcLoop` is the word loop and the "Last bytes" block of `CRCF_calc_crc_soft`, including the stale `cache` bytes that `fread` does not overwrite and the `0xff` padding. `CRCF_calc_crc_soft` keeps the argument checks and their errno values (`ENOENT`, `EINVAL`, `EIO`).

The reference `ReferenceCrc` shifts the bits of the byte stream of spec section 4.2 one at a time through the polynomial `0x04C11DB7`. The recursive operators check each intermediate value with `IsU32`. This is an `Assert` of the range, and it also makes TLC compute each register before the next step, which keeps the evaluation stack short.

The build leaves `CRCF_FILE_SYSTEM_API` and `CRCF_CRC_ALGORITHM` undefined. So the LIBC file API and the software CRC are the code modelled; the FatFs and STM32 hardware variants are not compiled.

### FileHooks

| Variable | What it holds |
|---|---|
| `fs` | the directory: per name, no file, or an entry (regular, link or directory; readable or not; its bytes) |
| `binary` | the transfer mode `k->binary` |
| `ifile`, `zinbuf`, `zinptr`, `zincnt` | the open input file and the input buffer state of `kreadfile` |
| `pdf`, `ret` | the listing built by `kgetdirdata`; the last hook and its return value |
| `out`, `eof` | auxiliary: the bytes `kreadfile` returned since `kopenfile`, and whether it returned `-1` |

The actions are the hooks: `kopenfile`, `kreadfile` (refill in binary mode by `fread`, in text mode by the `getc` loop that turns LF into CR LF), `kwritefile`, `kclosefile`, `kaccessfile` and `kgetdirdata`. `kgetdirdata` calls `CRCF_calc_crc` of `Crc32` on each file it opens. `i_buf` is `ZinLen + 8` bytes, as in the code's `IBUFLEN + 8`.

## 3. Runs

| Run | Config | Expect | What it shows |
|---|---|---|---|
| `mldp_fifos` | `MCMldpFifos.cfg` | pass | With both rings and `fifos_flush` between transfers, the rx ring refines `ByteQueue` (`ImplementsByteQueue`) and, while no chunk gives up, the bytes sent are exactly the acknowledged packets, in order (`NoLossWithoutGiveUp`). |
| `rx_fifo_race` | `MCRxFifoRace.cfg` | violation | The worker receives a byte the peer never sent: `fifo_shift` copies slot 1 before `fifo_put` stores into it. |
| `kermit_worker` | `MCKermitWorker.cfg` | pass | A packet handed to the engine is exactly the bytes after the first SOH (`PacketFramed`); `retrycounter` stays within `0 .. k.retry + 1` (`TypeOK`); every receive loop of `kermit_main` ends, even when the engine keeps answering `X_OK` (`SessionEnds`). |
| `kreadpkt_timeout_byte` | `MCKermitWorker_TimeoutTakesNoByte.cfg` | violation | A byte taken on the last poll is dropped, and the call reports a timeout. |
| `kreadpkt_cmd_bounds` | `MCKermitWorker_CmdWriteInBounds.cfg` | violation | The sixth byte of a call is stored at `cmd[5]`. |
| `tx_path_gaveup` | `MCTxPath_gaveup.cfg` | violation | `X_OK` is returned for a packet whose chunk was dropped. |
| `ble_connection` | `MCBleConnection.cfg` | pass | Over two connections, with link loss, GATT failures and a SIGINT anywhere, at most one `ft_task` is alive (`WorkerExclusive`), no `ft_task` is alive while the main thread scans, so the SIGINT disposition is `sig_handler` (`ScanningAlone`), the connection states follow spec 4.5, with teardown only after the join and one session per connection (`ImplementsConnectionSpec`), and a disconnect always brings the main thread back to scanning (`DisconnectReturnsToScan`). |
| `ble_join_uncreated` | `MCBleConnection_JoinsOnlyCreatedWorker.cfg` | violation | A link lost before the first MLDP write makes `att_disconnect_cb` join a thread id that was never created. |
| `ble_sigint` | `MCBleConnection_SigintTearsDown.cfg` | violation | SIGINT outside scanning runs `le_deconnection`, which reads `argv[0]` from a NULL `argv`. |
| `ble_after_get` | `MCBleConnection_ServedWhileTransferring.cfg` | violation | After a GET, `ft_task` leaves its loop while the link stays in `BLE_FILE_TRANSFER` with no worker reading the rx fifo. |
| `ble_sigint_scan` | `MCBleConnection_SigintEndsScan.cfg` | violation | Spec section 3 says SIGINT while scanning ends the program. `scan_result` looks at `signal_received` only when `read` fails with `EINTR`. A SIGINT that lands while a report is processed, or before `read` blocks, is not acted on: the thread blocks in `read` again and, while the radio stays silent, never returns. |
| `file_hooks` | `MCFileHooks.cfg` | pass | For every directory of two entries and both transfer modes: `kreadfile` streams exactly the open file (`ReadStreamsFile`); `kgetdirdata` lists the eligible files up to `K_DIR_MAX` (`ListingSelectsEligible`), with etags equal to the reference CRC (`EtagIsReferenceCrc`). |

Every property of a passing run has a mutant in `PROJECT.json`: an operator that changes a mapped definition the way a plausible bug would, and that TLC finds violating the property. Examples:
- `fifo_shift` that decrements without moving;
- an empty read counted without `retrycounter--`;
- `retrycounter == 0` tested as `retrycounter < 0`;
- a retry that reads the fifo again;
- a disconnect that does not wait for the join;
- a join that waits only for a worker already running, not one just created;
- a transfer started again by any MLDP write in `BLE_FILE_TRANSFER`;
- `ft_task` that leaves its loop only after a GET, not on an error;
- `zinptr` not reset on a refill;
- the `K_DIR_MAX` test done one entry late;
- the last CRC block padded without shifting.

Two earlier observations no longer have runs of their own; the hazard list keeps them:
- the fifo holds `BufSize` bytes, one more than the spec's `BufSize - 1`;
- `kreadpkt`'s post-increment length check stores `r_maxlen + 1` bytes.

### Bounds

- **MldpFifos.** The rx ring: `RxBufSize = 3`, bytes `{0, 1}`, calls of up to 2 bytes (`MaxIO`). Two writes fill the fifo, make the `p_buff[len]` read happen, and write partially into a non-empty fifo. The tx ring: as for TxPath below, with 2 calls.
- **RxFifoRace.** Three distinct input bytes with `BufSize = 3`. Distinct values make a stale or repeated byte visible.
- **KermitWorker:**
  - SOH is 1, EOM is CR (13), and there is no parity.
  - `RTimo * TimeoutScale = 20` instead of `r_timo * 1200`: two polls per call instead of 120. Both are multiples of 10, so, as in the code, every poll takes the 10 ms branch and the 1 ms branch of `NextTimeout` is never reached. Two polls are enough for a byte to arrive after the first poll of a call and on its last one.
  - `Retry = 1` and `RMaxLen = 2`.
  - The peer writes `<<1>>`, `<<65>>`, `<<13>>`, `<<67,77,68,13>>` and `<<10>>`, up to 5 bytes per run (6 for the run that needs a sixth byte in one call). These cover a whole packet, an over-long packet, the abort sequence split across writes, and a near-miss `CMD\rA`.
- **TxPath.** Chunks of 2 bytes instead of 20, a 4-byte fifo, the packets `<<1,2,3>>` and `<<4>>`, and 3 calls (2 in `MCMldpFifos`, where the rx ring multiplies the states). A 3-byte packet needs two chunks, so a rejection can hit either chunk. The retry limit stays at the code's 3.
- **BleConnection.** `MaxConn = 2` centrals and `MaxSigint = 1`. Two connections are the least that can show a worker of the first outliving its link into the second. One SIGINT reaches every handler in every step. `PeerDbs` holds two GATT databases: the SLATE's, with the MLDP service after a foreign one, and one without the identification characteristic, so a handshake write can meet a handle 0.
- **FileHooks:**
  - Two names, one of them a dotfile, in the readdir order `<<f1, d1>>`. Every entry kind, readability and content is chosen for each.
  - `K_DIR_MAX = 1`, so the cap cuts the listing.
  - `ZinLen = 4` stands for `IBUFLEN = 512`, so a refill happens within a short file.
  - The contents `<<>>`, `<<10>>` and `<<65,10,255,0,66,10>>`. They cover the empty file (`ENOENT`), a tail of 1 and of 2 bytes after a full word (the stale cache), LF expansion near the end of the buffer, NUL and `0xFF`.
  - Both values of `binary`.

### Fairness and deadlock

`kermit_worker` checks `SessionEnds` under `FairSpec`, which gives weak fairness to every worker action (`ReadStart`, `Poll`, `Process`, `AfterRead`, `EngineRun`, `ServerReturn`). The worker is a thread of its own that never blocks indefinitely: `ft_wait_ms` is a timed wait. The peer (`PeerWrite`) and the engine's choices get no fairness. So `SessionEnds` holds even when the peer stops and the engine keeps answering `X_OK`.

`ble_connection` checks `DisconnectReturnsToScan` under `BleConnection`'s `FairSpec`. It gives weak fairness to the main thread, because the event loop dispatches every ready callback and the main loop always takes its next turn. It also gives weak fairness to `FtTaskStart` and `FtTaskTurn` of every central, because the scheduler runs a live thread. The radio (`HciEvent`, `LinkLoss`) and the user (`Sigint`) get none: nothing makes a peripheral advertise. `SigintEndsScan` is checked under the same fairness, and is violated because a SIGINT outside the blocking `read` is only recorded, and the radio may send nothing more.

Some configs set `CHECK_DEADLOCK FALSE`, each for a real reason:
- The `KermitWorker` configs: the worker really stops (`ft_task` exits after a GET or an error).
- `RxFifoRace`: the peer's input is finite.
- `TxPath`: the engine stops calling `ktx_data` when a session ends.
- `BleConnection`: the process stops, through `exit()`, a crash, or `pthread_exit` with no worker left.

`MCMldpFifos` and `MCFileHooks` check deadlock: a fifo, a flush or a set of hooks can always be called again.

## 4. Not modelled, and why

- **The Kermit engine** (`kermit()`, `ok2rxd`, the `k_data` negotiation) is not in the repository, and neither is `kermit.h` (`IBUFLEN`, `K_DIR_MAX`, the size of `pdf`). The engine is a nondeterministic choice; the sizes are constants.
- **The engine's calls to the file hooks.** The order in which `kermit()` opens, reads and closes files is unknown. So `FileHooks` lets every hook be called in any state, and a hook's effect is checked, not the protocol around it.
- **Receiving files.** `kopenfile` implements only mode 1 (read); mode 2 (create) returns `X_ERROR`. So a pushed file is always refused, and `kwritefile` writes to `ofile = -1`. The model keeps this as the code has it. In text mode `kwritefile` ignores its length and writes up to the first NUL.
- **`kfileinfo`** is a stub that returns `X_OK`. It changes no state.
- **The CRC variants that are not compiled:** the FatFs file API and the STM32 hardware CRC unit. The spec calls the etag "standard CRC-32"; the code computes the STM32 word-wise CRC (MSB first, no reflection, no final xor, `0xFF` padding). `EtagIsReferenceCrc` checks the code against that definition.
- **Empty regular files.** An empty regular file that is not a dotfile gets `ENOENT` from `CRCF_calc_crc` and is left out of the listing. The code comment says so; the spec says only that unreadable files are skipped.
- **HCI scanning, sockets and stdio** are pure I/O. They enter `BleConnection` only as the outcomes of their calls. The content of an advertising report is the choice "matches or not" in `ScanReport`. `cmd_lescan` passes `filter_type = 0`, so `check_report_filter` accepts every report before `read_flags` runs, and the name `eir_parse_name` builds is never read. Only `slate_research`'s address compare has an effect; the off-by-one bounds of the EIR parsers are in the hazard list.
- **The server GATT database set-up** (`populate_gap_service` and the MLDP service in `main.c`) runs once and only adds attributes; its write callback is modelled as `ServerMldpDataCharWriteCb`.
- **The HCI device descriptor leak.** `cmd_lescan` closes `dd` only when the SLATE was found, so every scan without a match leaks one HCI socket; file descriptors are not a state of the model. The hazard list records it.
- **The libfile_transfer client calls** (`FT_get`, `FT_send`, `FT_dir` and `_EK_get`, `_EK_send`, `_EK_dir`) are never called by the server.
- **Time.** Durations of `usleep` and `ft_wait_ms` are not modelled: the countdown is a number of polls. The `tv_nsec` overflow in `ft_wait_ms` changes only durations.
- **The `fifo_write` partial write in `ble_mldp_send_bytes`.** It needs 4096 bytes of leftovers, and the hazard list records it.
- **Logging and printing helpers** (`fifo_display`, the `print_*` functions, `eir_parse_name`).
