# TLA+ models of the AllJoyn Thin Client connection layer

This directory holds TLA+ models of the Linux network layer of the AllJoyn Thin
Client, `src/src/target/linux/aj_net.c`, together with the response list it
feeds (modelled from the spec) and `AJ_Initialize` (`src/src/aj_init.c`), and
the TLC configurations that check them. The layer takes a device from "no connection" to "open
transport socket to a routing node". `spec.md` describes it as four
components.

## 1. The system

| Component | Code | State | Operations |
|---|---|---|---|
| CancellableSocketIO | `aj_net.c` 183-279, 1202-1273 | `interruptFd` (eventfd), `blocked`, the fd sets of a wait | `AJ_Net_Recv`, `AJ_ARDP_UDP_Recv`, `AJ_Net_Interrupt`, `AJ_Net_Send`, `AJ_ARDP_UDP_Send` |
| TransportConnector | `aj_net.c` 135-151, 286-397, 1275-1369 | `netContext.{tcpSock,udpSock}`, the caller's `AJ_NetSocket` handle, `interruptFd` | `AJ_Net_Connect`, `AJ_TCP_Connect`, `AJ_Net_ARDP_Connect`, `AJ_Net_Disconnect`, `CloseNetSock`, `AJ_Net_ARDP_Disconnect` |
| DiscoveryMessenger | `aj_net.c` 399-1198 | `mCastContext` (six sockets, receive address and ports), `rxDataMCast`/`txDataMCast` | `AJ_Net_MCastUp/Down`, `AJ_Net_SendTo` (`sendToBroadcast`, `RewriteSenderInfo`), `AJ_Net_RecvFrom` |
| CandidateRegistry | not under `src/` (`AJ_AddRoutingNodeToResponseList` and related functions); tested by `src/unit_test/DiscoveryTest.cc` | the response list (`DiscoveryTest.cc` fills it with four or five services; capacities 3 and 4 both pass its tests) | Reset (`AJ_InitRoutingNodeResponselist`), Admit, Select |
| Initialization | `src/src/aj_init.c` 39-63 | `static initialized` | `AJ_Initialize`, which resets the response list on its first call only |
| Command-line harness | `src/test/ajlite.c` 18-39 | `AJ_Main`'s position | `AJ_Initialize`, `AJ_FindBusAndConnect`, `AJ_BusRequestName`, then `AJ_UnmarshalMsg` in a loop while the status is AJ_OK |

How they interact:
- A discovery sweep brings the multicast sockets up, sends queries, receives
  replies and tears the sockets down.
- Each reply is parsed into a candidate and admitted to the registry.
- The caller (`AJ_FindBusAndConnect`, outside `src/`) takes candidates
  best-first and calls `AJ_Net_Connect` until one succeeds.
- Once connected, the bus layer receives through the handle.
- A shutdown context may call `AJ_Net_Interrupt` at any moment to end a
  blocked receive.
- `AJ_Main` of `ajlite.c` runs this sequence once and returns on the first
  status other than AJ_OK.

The layer shares its state through process-wide globals: `interruptFd`,
`blocked`, `netContext` and `mCastContext`.

Behaviours that make the code hard:
- **Two threads, no lock.** `AJ_Net_Interrupt` tests `blocked`, loads
  `interruptFd` and writes, while the main thread finishes its wait,
  disconnects, or reconnects.
- **Descriptor reuse.** Linux gives out the lowest free descriptor number, so a
  closed number is at once reused by the next `socket()`, `eventfd()` or
  `open()` anywhere in the process.
- **Multi-step connects.**
  - `AJ_Net_ARDP_Connect` runs a two-pass loop in which every step can fail.
  - A pass whose address flag is absent reuses the previous pass's socket.
  - `AJ_Net_Connect` falls back from ARDP to TCP.
- **select() semantics.** select() returns 0 on timeout, returns -1 on a
  signal while leaving the fd sets as they were built, and reports the ready
  descriptors otherwise.
- **eventfd semantics.**
  - A write adds its 8-byte value to the counter: a value of 0 adds nothing,
    and all ones fails with EINVAL.
  - A read drains the counter.

## 2. Modules

### `Descriptors.tla`
The kernel's descriptor table as the layer sees it. It is a set `FdNums` of
numbers, each `free` or one of `eventfd`, `tcp`, `udp` or `other` (a
descriptor opened by another part of the process).

Operators:
- `LowestFree` is the POSIX allocation rule.
- `CloseFd` is a no-op on -1 or on a number that is not open, which is how
  `close()` fails with EBADF.
- `INVALID_SOCKET` is -1 (`aj_net.c:68`).

### `NetSession.tla`
Models TransportConnector and the receive/interrupt half of
CancellableSocketIO for one connection at a time.

Variables and what they correspond to in the code:

| Variable | Code |
|---|---|
| `interruptFd`, `blocked` | the statics at lines 213 and 218 |
| `tcpSock`, `udpSock` | `netContext` |
| `sock` | whether the caller's `AJ_NetSocket` is zeroed or bound to the TCP or ARDP entry points |
| `fdKind`, `efdSignalled` | the kernel: what each descriptor number is, and whether an eventfd counter is non-zero |
| `peer` | what the next `recv()` would see |
| `mpc`, `ipc` | program counters of the main thread and of the shutdown thread |
| `selRc`, `selFds` | what `select()` returned and the fd_set it left |
| `status` | the last `AJ_Status` the main thread got |

The history variables below exist only for the properties:

| History variable | Records |
|---|---|
| `nSignals` | writes that made an eventfd readable |
| `nInterrupted` | `AJ_ERR_INTERRUPTED` results |
| `wroteInWait` | a write to the watched eventfd happened during `select()` |
| `strayWrite` | the write hit a descriptor that is not an eventfd |
| `doubleClose` | `close()` was called on a number already closed |
| `queued`, `delivered` | bytes marshalled into the TCP transmit buffer on this connection, and bytes `send()` took |

`txRead` and `txWrite` are the transmit buffer's `readPtr` and `writePtr` as
offsets from its start (`TxBufSize` bytes).

Actions and the code they model:

| Action | Code |
|---|---|
| `Connect` | the caller's call of `AJ_Net_Connect` (operator `AJ_Net_Connect`, which runs `AJ_Net_ARDP_Connect` then `AJ_TCP_Connect` as functions on a record of the state) |
| `AJ_Net_Disconnect` | lines 379-397, with `CloseNetSock` and `AJ_Net_ARDP_Disconnect` |
| `AJ_Net_Recv_Arm`, `AJ_ARDP_UDP_Recv_Arm` | building the fd set and `blocked = TRUE` |
| `Select` | the return of `select()`: ready descriptors, timeout, or -1 when `SelectMayFail` |
| `AJ_Net_Recv_Finish`, `AJ_ARDP_UDP_Recv_Finish` | everything after `select()` |
| `MarshalTx` | the bus layer writing bytes into the transmit buffer (outside `src/`), within `AJ_IO_BUF_SPACE` |
| `AJ_Net_Send` | lines 183-207: `send()` takes 1..avail bytes or fails with `AJ_ERR_WRITE` on a reset connection; `AfterSend` advances `readPtr` and resets a drained buffer |
| `AJ_ARDP_UDP_Send` | lines 1202-1219: one datagram `send()` on the connected UDP socket |
| `AJ_Net_Interrupt_Check`, `_Load`, `_Write` | the three steps of `AJ_Net_Interrupt` between which the main thread can run |
| `PeerSend`, `PeerFail`, `ForeignOpen`, `ForeignClose` | the environment |

`ArdpPass` is one pass of the ARDP loop, including the cases where the pass's
flag is absent. Its outcome per pass is one of these failure points: no
socket, unreachable, handshake failed, or ok.

The ARDP handshake `AJ_ARDP_UDP_Connect` is outside `src/`. It is an outcome
of the pass.

Connect and disconnect are atomic: they run on the main thread, which is the
only one that writes the connection state, and the shutdown thread only reads
`blocked` and `interruptFd`.

`MCNetSession.tla` gives the constants of the runs.

### `Discovery.tla`
Models DiscoveryMessenger: one discovery sweep after another, on the single
thread that runs them, while the network queues datagrams and errors.

Variables and what they correspond to in the code:

| Variable | Code |
|---|---|
| `ctx` | the six sockets of `mCastContext` |
| `recvAddr`, `recvPort` | `mCastContext.mDnsRecvAddr`: the interface `chooseMDnsRecvAddr` picked, and `sin6_port` as stored |
| `handle` | whether the caller's `AJ_MCastSocket` is bound |
| `fdKind`, `ifs`, `boundPort` | the kernel: descriptors, the `getifaddrs()` table, the port of `mDnsRecvSock` |
| `pending` | what each socket has queued |
| `dpc`, `scanAt`, `fds` | where the sweep is, the next `FD_ISSET` test of `AJ_Net_RecvFrom`, the fd_set `select()` left |
| `rxTag`, `rxFrom`, `status` | `buf->flags`, the socket read, and the last `AJ_Status` |
| `sent`, `delivered` | the copies the last `AJ_Net_SendTo` passed to `sendto()`, and those that went out |

Actions and the code they model:

| Action | Code |
|---|---|
| `AJ_Net_MCastUp` | lines 1106-1162 with `MDnsRecvUp`, `MDns6RecvUp`, `MCastUp4` and `MCastUp6` (`UpSock`) and `chooseMDnsRecvAddr`. Every step in `FailSteps` may fail, and each failure takes the code's own exit. `ExitError` (lines 1156-1161) closes both receive sockets, leaves their numbers in `mCastContext`, leaves the handle unbound and returns the `AJ_ERR_READ` that `status` was initialised to. |
| `AJ_Net_MCastDown` | lines 1164-1198 with `CloseMCastSock` |
| `AJ_Net_SendTo` | lines 546-663. `RewriteOutcomes` runs `RewriteSenderInfo` (443-544) on an mDNS packet and records it in `rewrite`. `SendCopies` lists each copy with the sender-info it carries, including `sendToBroadcast`. Any subset of the copies may go out. |
| `AJ_Net_RecvFrom_Select`, `_Step`, `_Finish` | lines 665-844. `Step` is one `FD_ISSET` test in the code's order. A `recvfrom()` with nothing queued blocks, so `Step` is not enabled then. |
| `Arrive` | the network |

`AJ_Net_SendTo`, `AJ_Net_RecvFrom` and `AJ_Net_MCastDown` read the handle's
context without a NULL check (lines 551, 667, 1166). On an unbound handle
the process faults at that read, so each of them is guarded by `HasContext`
and never completes on such a handle.

A packet is its family flag and, for mDNS, its bytes over the alphabet
`Bytes` (the letters of "send" and two others). A copy's sender-info is the
address family and interface the rewrite prints, and the port.
`htons`/`ntohs` swap bytes when `Endian = "little"`.

`SenderInfo.tla` holds the backward scan of `RewriteSenderInfo` (lines
489-506) as the RECURSIVE operator `ScanSenderInfo`. It reads the byte at
`writePtr`, one past the data, which `ByteAt` takes from `Bytes`. It never
compares the byte at `readPtr`, and a mismatch restarts the count without
comparing that byte again. `MarkerStarts` is the reference definition: the
offsets where "send" lies wholly in the data.

### `Registry.tla`, `RegistryAbstract.tla`

The response list's code is not under `src/`, so `Registry` models its
operations from spec 4.1 (marked `spec_modelled` in `PROJECT.json`).
`AJ_Initialize` is translated from `aj_init.c`, and the ranking tests are
translated from `DiscoveryTest.cc`.
Because the list itself is a design written from the spec, `Refines` shows
that this design keeps the spec's promises; it cannot find a defect in the
real list, whose code the repository does not contain.

| State | Code |
|---|---|
| `list` | the response list, in slot order (at most `CAP` entries) |
| `initialized` | `static uint8_t initialized` in `aj_init.c` |
| `out`, `status` | the caller's `AJ_Service` and the last Select's result |
| `admitted`, `drained` | history: services added since the last reset, and whether a Select happened since |

| Action | Code |
|---|---|
| `AJ_Initialize` | `aj_init.c` 41-63: the first call sets `initialized` and clears the list, later calls do nothing |
| `AJ_InitRoutingNodeResponselist` | clears the list |
| `AJ_AddRoutingNodeToResponseList(c)` | `AdmitTo`: append while there is room, else `WorstIndex` scans for the first lowest-ranked slot and `Evicts` replaces it only by a strictly better service |
| `AJ_SelectRoutingNodeFromResponseList` | `SelectFrom`: `BestIndex` scans for the first highest-ranked slot, which is removed and returned, or END_OF_DATA |

The scans are RECURSIVE operators. The first slot wins a tie, which settles
the tie-break that the spec leaves open in favour of the order of arrival.
Each ranking test of `DiscoveryTest.cc` is an operator (`SelectPriority`, ...,
`SelectProtocolVersionPriorityListFullEqual`) run with `FoldLeft` over a
cleared list.

`RegistryAbstract` is what spec 4.1 promises, stated over a bag with no
slots:
- Admit evicts some worst entry, and only for a strictly better service.
- Select returns some best entry.

`Registry` instantiates it with `held <- ToBag(list)`. The first
`AJ_Initialize` maps to the abstract Reset, and later calls map to
stuttering steps.

### `FindBus.tla`, `MCFindBus.tla`: the components composed

`FindBus` composes the connection caller of spec 6 (`AJ_FindBusAndConnect`,
outside `src/`, so `spec_modelled`) with the components it drives. It
EXTENDS `NetSession` for the connector's descriptor table and globals, and
instances `Registry` as `R` with the caller's `AJ_Service` and status
renamed (`out <- svc`, `status <- selStatus`). The connector's state
carries over from one candidate to the next, which no single-component
run shows.

| Variable | Meaning |
|---|---|
| `cpc` | the caller's phase: `discover`, `connect`, `drain`, `connected`, `exhausted` |
| `failed` | history: the candidates of this drain whose connect failed |
| `main` | `AJ_Main`'s program counter in `src/test/ajlite.c`: `start`, `find`, `loop`, `recv`, `returned` |

| Action | What it is |
|---|---|
| `MainInitialize` | `ajlite.c` line 23: `AJ_Initialize()`, once (`R!AJ_Initialize`) |
| `Discover` | between drains, `R!AJ_InitRoutingNodeResponselist` or `R!AJ_AddRoutingNodeToResponseList(c)` |
| `CallerSelect` | `R!AJ_SelectRoutingNodeFromResponseList`. END_OF_DATA ends the drain. |
| `CallerConnect` | `ConnectWith(svc.types, res)`, the same `AJ_Net_Connect` step as `NetSession`'s `Connect`, for the candidate just selected. A failure sends the caller back to the list. |
| `FindTimeout` | `AJ_FindBusAndConnect` gives up between attempts (`CONNECT_TIMEOUT`); `AJ_Main` skips the rest and returns (lines 25-38) |
| `MainRequestName` | lines 25-28: `AJ_BusRequestName` on the connection; its status, a free choice, decides whether the loop is entered |
| `MainUnmarshal` | lines 29-31: `AJ_UnmarshalMsg` starts the wait, `NetSession`'s `AJ_Net_Recv_Arm` |
| `MainHandle` | lines 31-36: the receive has returned; AJ_OK goes to `AJ_BusHandleBusMessage`, whose status (a free choice) is the loop's; any other status ends `AJ_Main` without a disconnect |
| `SessionStep` | the `NetSession` steps that run beside the caller: `select()` and the end of `AJ_Net_Recv`, the shutdown thread's `AJ_Net_Interrupt`, and the peer. `Beside(A)` keeps the registry and caller variables unchanged. |

A candidate carries its address types. `Answering` is the set of candidates
whose endpoint accepts. `Outcomes(c)` lets an answering candidate's system
calls succeed, unless the descriptor table is full. A non-answering
candidate refuses the stream connect and fails or drops the datagram
handshake. The ranking tests of `DiscoveryTest.cc` hold, as an `ASSUME` of
`MCFindBus`.

## 3. Runs

| Run | Expect | Checks | What it shows |
|---|---|---|---|
| `session` | pass | `InterruptConsumedOnce`, `InterruptHonoured`, `OnePathLive`, `TxStreamIntact`, `SignalledWaitInterrupted` | With ARDP and TCP built, candidates advertising either or both, a shutdown thread and one foreign descriptor: an interrupt is consumed once, and an interrupt written during the wait is returned ahead of ready data. A wait whose eventfd is signalled always ends as INTERRUPTED (liveness, under the fairness below). A live connection always has exactly one transport and an open eventfd, which depends on the `return` after ARDP success. On TCP, with 3 bytes marshalled through a 2-byte buffer, partial sends, write errors and `AJ_IO_BUF_RESET` never drop or repeat a byte. |
| `ardp` | pass | `InterruptConsumedOnce`, `ReachableCandidateConnects` | `AJ_ARDP_UDP_Recv` reports `select() == -1` as a read error. A UDP candidate whose system calls all succeed is connected, also after the leaks below. |
| `tcp_selecterr` | violation | `InterruptConsumedOnce` | `AJ_Net_Recv` returns INTERRUPTED on a select() error. |
| `ardp_leak` | violation | `IdleReleasesAll` | The pass-0 UDP socket leaks after a failed `connect()`. |
| `ardp_double_close` | violation | `NoDoubleClose` | The socket is closed twice after a failed handshake. |
| `stale_interrupt_fd` | violation | `InterruptWritesOnlyEventfd` | The interrupt write can land in a descriptor that reused the number. |
| `tcp6_af_inet` | violation | `ReachableCandidateConnects` | A TCP6-only candidate never connects, because the socket is always AF_INET. |
| `disco` | pass | `CtxSocketsOpen`, `UpHandleUsable`, `SenderInfoAtRecord`, `RecvFromReturns` | Over two sweeps, with receive, mDNS and AllJoyn sockets failing and `select()` failing, the context holds open and distinct sockets. This still holds after leaks and the stale numbers ExitError leaves. A sweep that MCastUp reported up has bound the handle, so no send, receive or teardown reads a NULL context (`UpHandleUsable`); this rests on ExitError returning AJ_ERR_READ on the loopback-only host. The backward scan finds the sender-info record of every mDNS packet at its start, whatever byte lies past the data (`SenderInfoAtRecord`). A receive whose `select()` left only sockets with something queued returns (`RecvFromReturns`, liveness). After `select()` fails with -1, a receive can block in `recvfrom()` (`disco_select_err`), so the property covers only scans that start with something queued on every socket in their set. |
| `disco_recv6_leak` | violation | `DownReleasesAll` | A failed mDNS receive socket makes `AJ_Net_MCastUp` return with `mDns6RecvSock` open and unreachable. |
| `disco_sender_port_le` | violation | `SenderInfoObserved` | On a little-endian build the sender-info record advertises the byte-swapped receive port. `SenderInfoObserved` also requires the advertised address to be one of the host's interfaces. With `Endian = "big"` the run still fails, through the IPv6 mDNS copy, which carries the group address `ff02::fb` (line 636). |
| `disco_select_err` | violation | `RecvFromBounded` | `AJ_Net_RecvFrom` tests `select()`'s result only for 0 (line 711). After a -1 (EINTR) the fd_set still holds every watched socket, and the scan blocks in `recvfrom()` on `mDnsRecvSock` with nothing queued, beyond the timeout. Spec 5 allows only the bounded readiness wait and the connect as suspension points. |
| `findbus` | pass | `FindTypeOK`, `ChoosesBestAnswering`, `IdleReleasesAll`, `Refines`, `ShutdownEndsMain` | `AJ_Main` of `ajlite.c` on a TCP build with three descriptor numbers: discovery fills the list and the caller drains it through `AJ_Net_Connect`, with six Add and Select calls on four services and resets. The slot array implements `RegistryAbstract` (`Refines` is `R!ABS!Spec`), so successive Selects drain in non-increasing rank. The caller ends on the best candidate that answers: no answering candidate fails because an earlier refused attempt kept a descriptor, and every failed attempt gives back its descriptors and resets the globals (`IdleReleasesAll`). A shutdown interrupt signalled while `AJ_Main` waits in `AJ_UnmarshalMsg` ends `AJ_Main` (`ShutdownEndsMain`, liveness). Every ranking test of `DiscoveryTest.cc` holds, as an `ASSUME` of `MCFindBus`. |

Some properties are violated under constants that the runs above do not use.
`PROJECT.json` records these as hazards with a note on how to reproduce them:
- an uninitialised u64 (`U64Values <- MC_U64Values`);
- an eventfd numbered 0 under ARDP (`FdNums <- MC_FdNums`);
- an mDNS packet without the sender-info record (`TxPackets <- MC_TxPacketsNoRecord`), on which `AJ_Net_SendTo` returns AJ_OK having sent nothing (line 600); the discovery caller always builds the record, so no run checks it;
- receive flags that the caller does not clear (`CallerClearsFlags = FALSE`), under which a packet can carry both family flags (line 728); the caller outside `src/` is assumed to clear them.

Each violation is recorded as a finding in `PROJECT.json`. Each property of a
passing run has a mutant in `PROJECT.json`: a plausible slip in the code under
which TLC finds the property violated.

### Bounds

| Bound | Value | Why it is enough |
|---|---|---|
| Descriptor numbers | 4 | One attempt uses at most three: an eventfd and one or two sockets. The fourth leaves room for a leaked socket or a foreign descriptor. `MC_FdNums` starts at 0, for a daemon with its standard streams closed, under which the `> 0` test of line 1241 misses the eventfd (a hazard in `PROJECT.json`). `MC_FdNumsStd` starts at 3. |
| `MaxConnects` | 2 | Two connection attempts are the least that shows reuse and leaks across attempts. |
| `MaxInterrupts` | 2 in `ardp`, 1 in `session` and `findbus` | Two `AJ_Net_Interrupt` calls: one can straddle two waits while the other lands in one. The session run, with two builds, a foreign descriptor and a send queue, takes one call to finish in well under a minute; one call still races the wait, the data and a foreign descriptor. |
| `MaxForeign` | 1 in the `NetSession` runs except `ardp`, 0 in `ardp` and `findbus` | One foreign descriptor is enough to take a freed number. The ARDP runs leave it out to stay small: their leaks reuse numbers by themselves. |
| `TxBufSize`, `MaxQueued` | 2, 3 (`MaxQueued` 0 outside `session`) | Three bytes do not fit a 2-byte buffer at once, so the bus layer must wait for a drain and `AJ_IO_BUF_RESET` before marshalling the third, and a partial send of 1 of 2 bytes is possible. |
| Discovery descriptors | 3..8 | Six numbers hold the six sockets of one sweep. A leak then makes a later `socket()` fail, which is the resource-bound case. |
| `MaxSweeps` | 2 | A second sweep meets the first one's leaked and stale numbers. |
| `MaxSends`, `MaxRecvs`, `MaxArrivals` | 1, 1, 2 | Two queued items let one receive see an error and then a datagram, or choose between two ready sockets. |
| mDNS packets | two packets of 9 and 12 bytes, six byte values | Each ends with its sender-info record and fixed fields, as the code assumes (lines 489-491). One has an earlier "send", so the scan must settle on the last. Every byte value may lie past the data, including each letter of "send". |
| Interface tables | loopback + two IPv4 + one IPv6, or loopback only | Two IPv4 interfaces, one of them off the default route, test the choice of receive address and give two broadcast copies. Loopback only makes `chooseMDnsRecvAddr` fail. |

| Registry (`findbus`) | `CAP` = 4, four services, `MaxOps` = 6 | The "ListFull" tests of `DiscoveryTest.cc` add four or five services; capacities 3 and 4 both pass every test, and 4 is used. The four services have two of equal rank, for the tie-break and equal-rank eviction, and one with a newer protocol version. Five adds fill the list and then evict, and a sixth call selects. |
| Caller (`findbus`) | two of four services answer, three descriptor numbers, TCP build | The best service refuses and the second best answers, so a connection must fall back past one refusal. Three adds and three Selects let two refusals come before the worst answering one. One TCP attempt takes two descriptors, so a single descriptor kept by a refused attempt is enough to starve a later one. |

Candidates cover stream-only, datagram-only and mixed address types.

### Fairness

In `Discovery`, weak fairness is assumed on the steps of the `AJ_Net_RecvFrom` scan,
which run without waiting. A discovery sweep ends, so its runs do not check
deadlock.

In `NetSession`, weak fairness is assumed on `select()` returning and on the code that follows
it. `select()` always returns by its timeout, and the rest of the function
runs without blocking, except `recv()` with nothing to read, which is modelled
as not enabled. Weak fairness is also assumed on the shutdown thread's load
and write steps, which the OS schedules.

In `FindBus` the caller's own calls get no fairness: `AJ_FindBusAndConnect`
may time out (`FindTimeout`) and the caller may stop when its call budget
(`MaxOps`) is spent. Once `AJ_Main` waits in `AJ_UnmarshalMsg`, weak
fairness is assumed on `select()` returning, on the rest of `AJ_Net_Recv`,
on `AJ_Main`'s test of the status (`MainHandle`), all on the main thread
that runs without blocking, and on the shutdown thread's load and write.
`AJ_Main` returns, so the run does not check deadlock.

The caller and the peer get no fairness: they may stop at any time. The
passing `NetSession` runs check deadlock. A run's end state, with budgets spent, still
allows `AJ_Net_Disconnect` or the receive loop, so the model never deadlocks.

## 4. Not modelled, and the plan

Plan for the next sittings, most important first:

1. **Discovery in the composition**: `Discover` admits services
   directly. It could be driven by `Discovery`'s receive instead, if the
   state space allows it.

Left out on purpose:
- A `send()` that blocks because the peer stops reading. The model lets
  `send()` take at least one byte. Spec 5 limits cancellation to receive
  waits, so a blocked send is outside the interrupt's contract.
- `aj_peer.h`, `aj_wsl_marshal.h` and `aj_target_nvram.h`, which contain only
  declarations of out-of-scope parts.
- The bytes `RewriteSenderInfo` writes after the record, and their length.
  Nothing checks that they fit the buffer (a hazard in `PROJECT.json`).
  The scan's behaviour on packets that break the code's layout assumptions,
  such as an empty packet or "sendend", is recorded as hazards only.
- Logging, and the byte content of buffers except where a property depends
  on it.
