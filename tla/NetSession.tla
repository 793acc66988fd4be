----------------------------- MODULE NetSession -----------------------------
(***************************************************************************)
(* One bus connection of the Linux network layer                          *)
(* (src/src/target/linux/aj_net.c): the TransportConnector (AJ_Net_Connect,*)
(* AJ_TCP_Connect, AJ_Net_ARDP_Connect, AJ_Net_Disconnect, CloseNetSock,  *)
(* AJ_Net_ARDP_Disconnect) and the CancellableSocketIO (AJ_Net_Recv,       *)
(* AJ_ARDP_UDP_Recv, AJ_Net_Interrupt), which share the process-wide      *)
(* globals interruptFd, blocked and netContext.                           *)
(*                                                                         *)
(* Threads: the main thread connects, receives and disconnects as the     *)
(* bus-attachment layer drives it; a shutdown thread calls                *)
(* AJ_Net_Interrupt at any time; other parts of the process open and      *)
(* close descriptors of their own (files, sockets).  The peer sends data  *)
(* or fails the transport whenever it likes.                              *)
(*                                                                         *)
(* A receive is split at its suspension point: arming (blocked = TRUE),   *)
(* the select() return, and the rest of the function after select.        *)
(* AJ_Net_Interrupt is split where another thread can run between its    *)
(* loads: the test of blocked, the load of interruptFd, and the write().  *)
(* Connect and disconnect run on the main thread only and are atomic.     *)
(***************************************************************************)
EXTENDS Integers, FiniteSets, Descriptors

CONSTANTS
    Build,           \* transports compiled in: subset of {"TCP", "ARDP"}
    MaxConnects,     \* connection attempts the caller makes
    MaxInterrupts,   \* AJ_Net_Interrupt calls the shutdown thread makes
    MaxForeign,      \* descriptors other parts of the process open
    AddrTypeSets,    \* the addrTypes masks a candidate can advertise
    U64Values,       \* what the uninitialised uint64_t of AJ_Net_Interrupt holds
    SelectMayFail,   \* whether select() may return -1 (EINTR from a signal)
    TxBufSize,       \* sizeof(txData): bytes the TCP transmit buffer holds
    MaxQueued        \* bytes the caller marshals into it per connection

AddrTypes == {"TCP4", "TCP6", "UDP4", "UDP6"}

ASSUME Build \subseteq {"TCP", "ARDP"}
ASSUME {MaxConnects, MaxInterrupts, MaxForeign} \subseteq Nat
ASSUME AddrTypeSets \subseteq SUBSET AddrTypes
ASSUME U64Values \subseteq {"Zero", "AllOnes", "Other"} /\ U64Values # {}
ASSUME SelectMayFail \in BOOLEAN
ASSUME {TxBufSize, MaxQueued} \subseteq Nat

VARIABLES
    fdKind,         \* kernel: what each descriptor number is
    efdSignalled,   \* kernel: the eventfd counter is non-zero
    interruptFd,    \* static int interruptFd (line 213)
    blocked,        \* static uint8_t blocked (line 218)
    tcpSock,        \* netContext.tcpSock (line 121)
    udpSock,        \* netContext.udpSock (line 121)
    sock,           \* the caller's AJ_NetSocket: "zeroed", "tcp" or "ardp"
    peer,           \* what the next recv() sees: "none", "data" or "error"
    mpc,            \* main thread program counter
    selRc,          \* select() return: -1, 0 or 1 (> 0)
    selFds,         \* the fd_set select() left behind
    status,         \* last AJ_Status returned to the main thread's caller
    ipc,            \* shutdown thread program counter
    iFd,            \* interruptFd as loaded by AJ_Net_Interrupt for write()
    attempts,       \* connection attempts made
    icalls,         \* AJ_Net_Interrupt calls made
    fopens,         \* descriptors opened by other parts of the process
    nSignals,       \* history: writes that made an eventfd readable
    nInterrupted,   \* history: receives that returned INTERRUPTED
    wroteInWait,    \* history: a write to the watched eventfd hit this select
    strayWrite,     \* history: AJ_Net_Interrupt wrote into a non-eventfd
    doubleClose,    \* history: close() was called on a closed number
    txRead,         \* bus->sock.tx.readPtr - bufStart
    txWrite,        \* bus->sock.tx.writePtr - bufStart
    queued,         \* history: bytes marshalled into tx on this connection
    delivered       \* history: bytes send() handed to the kernel

kernel  == <<fdKind, efdSignalled>>
globals == <<interruptFd, blocked, tcpSock, udpSock, sock>>
mainv   == <<mpc, selRc, selFds, status, attempts>>
intrv   == <<ipc, iFd, icalls>>
hist    == <<nSignals, nInterrupted, wroteInWait, strayWrite, doubleClose>>
txv     == <<txRead, txWrite, queued, delivered>>
vars    == <<kernel, globals, peer, mainv, intrv, fopens, hist, txv>>

Statuses == {"OK", "CONNECT", "TIMEOUT", "INTERRUPTED", "READ", "WRITE"}

\* An I/O-class error ends the connection: the bus layer makes no further
\* receive or send on it, only a disconnect.
Fatal == {"READ", "WRITE"}
FdOrInvalid == FdNums \cup {INVALID_SOCKET}
RecvPhase == {"select", "selected"}

\* The descriptors this layer creates (as opposed to "other" ones).
LayerFds(fk) == {f \in FdNums : fk[f] \in {"eventfd", "tcp", "udp"}}

\* A freshly created eventfd starts at 0; closed numbers carry no signal.
Signals(fk, fresh) ==
    [f \in FdNums |-> fk[f] = "eventfd" /\ f # fresh /\ efdSignalled[f]]

-----------------------------------------------------------------------------
Init ==
    /\ fdKind = [f \in FdNums |-> "free"]
    /\ efdSignalled = [f \in FdNums |-> FALSE]
    /\ interruptFd = INVALID_SOCKET
    /\ blocked = FALSE
    /\ tcpSock = INVALID_SOCKET
    /\ udpSock = INVALID_SOCKET
    /\ sock = "zeroed"
    /\ peer = "none"
    /\ mpc = "idle"
    /\ selRc = 0
    /\ selFds = {}
    /\ status = "OK"
    /\ ipc = "idle"
    /\ iFd = INVALID_SOCKET
    /\ attempts = 0
    /\ icalls = 0
    /\ fopens = 0
    /\ nSignals = 0
    /\ nInterrupted = 0
    /\ wroteInWait = FALSE
    /\ strayWrite = FALSE
    /\ doubleClose = FALSE
    /\ txRead = 0 /\ txWrite = 0
    /\ queued = 0 /\ delivered = 0

-----------------------------------------------------------------------------
(* TransportConnector.  The connect functions are written as operators on *)
(* a record of the state they touch, so that AJ_Net_Connect can run the   *)
(* ARDP path and then the TCP path in one call:                           *)
(*   fk: descriptor table, intr: interruptFd, tcp/udp: netContext,        *)
(*   sock: the handle, ok: AJ_OK returned, dc: a close() hit a closed fd. *)

\* Where a connect call can fail.  TcpResults: eventfd(), socket(),
\* connect() (the endpoint does not answer) or nowhere.  PassResults, for
\* one pass of the ARDP loop: socket(), connect(), the handshake, or nowhere.
TcpResults == {"noEventfd", "noSocket", "unreachable", "ok"}
PassResults == {"noSocket", "unreachable", "noHandshake", "ok"}

\* Mutant: ConnectError closes the eventfd but not the socket.
AJ_TCP_Connect_keepSock(r, types, res) ==
    LET efd == LowestFree(r.fk)
        fk1 == OpenFd(r.fk, efd, "eventfd")
        s   == LowestFree(fk1)
        got == CanCreate(r.fk) /\ res # "noEventfd"
               /\ CanCreate(fk1) /\ res # "noSocket"
    IN IF got /\ "TCP4" \in types /\ res = "ok"
       THEN [r EXCEPT !.fk = OpenFd(fk1, s, "tcp"), !.intr = efd, !.tcp = s,
                      !.sock = "tcp", !.ok = TRUE]
       ELSE [r EXCEPT !.fk = IF got THEN OpenFd(r.fk, s, "tcp") ELSE r.fk,
                      !.intr = INVALID_SOCKET, !.ok = FALSE]

\* AJ_TCP_Connect (lines 286-351): eventfd(), socket(AF_INET, ...) whatever
\* the address family, connect() to the TCP4 address, else to the TCP6
\* one.  Every failure goes to ConnectError, which closes what was made
\* and returns AJ_ERR_CONNECT.  An AF_INET socket cannot connect to an
\* IPv6 address, so a TCP6-only candidate never connects.
AJ_TCP_Connect(r, types, res) ==
    LET efd == LowestFree(r.fk)
        fk1 == OpenFd(r.fk, efd, "eventfd")
        s   == LowestFree(fk1)
    IN IF /\ CanCreate(r.fk) /\ res # "noEventfd"
          /\ CanCreate(fk1) /\ res # "noSocket"
          /\ "TCP4" \in types /\ res = "ok"
       THEN [r EXCEPT !.fk = OpenFd(fk1, s, "tcp"), !.intr = efd, !.tcp = s,
                      !.sock = "tcp", !.ok = TRUE]
       ELSE [r EXCEPT !.intr = INVALID_SOCKET, !.ok = FALSE]

\* One pass of the for loop of AJ_Net_ARDP_Connect (lines 1293-1348), for
\* i = 0 (UDP4) or i = 1 (UDP6); r.loc is the local udpSock.  When the
\* pass's flag is absent the local keeps its value: connect() then runs on
\* -1 (EBADF), on the socket of pass 0 again, or on the number that
\* AJ_Net_ARDP_Disconnect closed (EBADF).  A failed socket() leaves -1 and
\* continues; a failed connect() continues WITHOUT closing the socket; a
\* connected socket becomes netContext.udpSock and the handle's, and a
\* failed handshake (AJ_ARDP_UDP_Connect) then runs AJ_Net_ARDP_Disconnect
\* and continues.
ArdpPass(r, i, types, res) ==
    LET takes  == (IF i = 0 THEN "UDP4" ELSE "UDP6") \in types
        made   == takes /\ res # "noSocket" /\ CanCreate(r.fk)
        s      == LowestFree(r.fk)
        udp1   == IF ~takes THEN r.loc ELSE IF made THEN s ELSE INVALID_SOCKET
        fk1    == IF made THEN OpenFd(r.fk, s, "udp") ELSE r.fk
        connOk == IsOpen(fk1, udp1) /\ fk1[udp1] = "udp"
                  /\ res \in {"noHandshake", "ok"}
    IN CASE r.ok                 -> r
         [] takes /\ ~made       -> [r EXCEPT !.loc = INVALID_SOCKET]
         [] ~connOk              -> [r EXCEPT !.fk = fk1, !.loc = udp1]
         [] res = "noHandshake"  -> [r EXCEPT !.fk = CloseFd(fk1, udp1),
                                              !.loc = udp1,
                                              !.udp = INVALID_SOCKET,
                                              !.sock = "zeroed"]
         [] OTHER                -> [r EXCEPT !.fk = fk1, !.loc = udp1,
                                              !.udp = udp1, !.sock = "ardp",
                                              !.ok = TRUE]

\* Mutant: the loop runs one pass (i < 1) instead of two.
AJ_Net_ARDP_Connect_onePass(r, types, eOk, res0, res1) ==
    LET efd == LowestFree(r.fk)
        r0  == [r EXCEPT !.fk = OpenFd(r.fk, efd, "eventfd"), !.intr = efd,
                         !.loc = INVALID_SOCKET]
        r2  == ArdpPass(r0, 0, types, res0)
    IN CASE ~(eOk /\ CanCreate(r.fk)) -> [r EXCEPT !.intr = INVALID_SOCKET]
         [] r2.ok -> r2
         [] OTHER ->
              [r2 EXCEPT !.fk = CloseFd(CloseFd(r2.fk, efd), r2.loc),
                         !.intr = INVALID_SOCKET]

\* AJ_Net_ARDP_Connect (lines 1275-1360): eventfd() (a failure returns at
\* once), the two passes, then after both failed close(interruptFd), and
\* close(udpSock) if the local is not -1, a number that may already be
\* closed.
AJ_Net_ARDP_Connect(r, types, eOk, res0, res1) ==
    LET efd == LowestFree(r.fk)
        r0  == [r EXCEPT !.fk = OpenFd(r.fk, efd, "eventfd"), !.intr = efd,
                         !.loc = INVALID_SOCKET]
        r2  == ArdpPass(ArdpPass(r0, 0, types, res0), 1, types, res1)
    IN CASE ~(eOk /\ CanCreate(r.fk)) -> [r EXCEPT !.intr = INVALID_SOCKET]
         [] r2.ok -> r2
         [] OTHER ->
              [r2 EXCEPT !.fk = CloseFd(CloseFd(r2.fk, efd), r2.loc),
                         !.intr = INVALID_SOCKET,
                         !.dc = r2.dc \/ (r2.loc # INVALID_SOCKET
                                          /\ ~IsOpen(r2.fk, r2.loc))]

UsesArdp(types) == "ARDP" \in Build /\ types \cap {"UDP4", "UDP6"} # {}
UsesTcp(types)  == "TCP" \in Build /\ types \cap {"TCP4", "TCP6"} # {}

\* The failure points that matter for a candidate: <<eventfd() of the
\* ARDP path succeeds, pass 0, pass 1, the TCP path>>.
ConnectResults(types) ==
    (IF UsesArdp(types) THEN BOOLEAN \X PassResults \X PassResults
     ELSE {<<TRUE, "ok", "ok">>})
    \X (IF UsesTcp(types) THEN TcpResults ELSE {"ok"})

\* Mutant: no return after a successful ARDP connect.
AJ_Net_Connect_noReturn(r, types, res) ==
    LET ra == IF UsesArdp(types)
              THEN AJ_Net_ARDP_Connect(r, types, res[1][1], res[1][2],
                                       res[1][3])
              ELSE r
    IN IF ~UsesTcp(types) THEN ra
       ELSE AJ_TCP_Connect(ra, types, res[2])

\* AJ_Net_Connect (lines 355-377): the ARDP path if the candidate
\* advertises UDP and it is built, returning at once on success; then the
\* TCP path if the candidate advertises TCP and it is built.
AJ_Net_Connect(r, types, res) ==
    LET ra == IF UsesArdp(types)
              THEN AJ_Net_ARDP_Connect(r, types, res[1][1], res[1][2],
                                       res[1][3])
              ELSE r
    IN IF ra.ok \/ ~UsesTcp(types) THEN ra
       ELSE AJ_TCP_Connect(ra, types, res[2])

\* The state the connect functions start from.
ConnectState ==
    [fk |-> fdKind, intr |-> interruptFd, tcp |-> tcpSock, udp |-> udpSock,
     sock |-> sock, loc |-> INVALID_SOCKET, ok |-> FALSE, dc |-> doubleClose]

\* The caller tries candidates while its attempt budget lasts.
ConnectBudget == attempts < MaxConnects

\* A connect initialises the transmit buffer (AJ_IOBufInit, line 332) and
\* a disconnect zeroes the handle that holds it: either way the next
\* connection's byte stream starts empty.
NewTxStream ==
    /\ txRead' = 0 /\ txWrite' = 0
    /\ queued' = 0 /\ delivered' = 0

\* One AJ_Net_Connect call, from an idle main thread, to a candidate
\* advertising types, whose system calls fail as res says.
ConnectWith(types, res) ==
    /\ mpc = "idle"
    /\ LET r == AJ_Net_Connect(ConnectState, types, res)
       IN /\ fdKind' = r.fk
          /\ efdSignalled' = Signals(r.fk, r.intr)
          /\ interruptFd' = r.intr
          /\ tcpSock' = r.tcp
          /\ udpSock' = r.udp
          /\ sock' = r.sock
          /\ status' = IF r.ok THEN "OK" ELSE "CONNECT"
          /\ mpc' = IF r.ok THEN "connected" ELSE "idle"
          /\ doubleClose' = r.dc
    /\ attempts' = attempts + 1
    /\ peer' = "none"
    /\ NewTxStream
    /\ wroteInWait' = FALSE
    /\ UNCHANGED <<blocked, selRc, selFds, intrv, fopens, nSignals,
                   nInterrupted, strayWrite>>

\* The caller (bus-attachment layer) connects to the next candidate while
\* it has attempts left.
Connect ==
    /\ ConnectBudget
    /\ \E types \in AddrTypeSets :
          \E res \in ConnectResults(types) : ConnectWith(types, res)

\* CloseNetSock (lines 135-151): through the handle's context (NULL once
\* zeroed), abortive close of netContext.tcpSock if valid, then INVALID and
\* a zeroed handle.  fk is the table AJ_Net_Disconnect already changed.
CloseNetSock(fk) ==
    IF sock # "zeroed"
    THEN /\ fdKind' = CloseFd(fk, tcpSock)
         /\ tcpSock' = INVALID_SOCKET
         /\ sock' = "zeroed"
    ELSE /\ fdKind' = fk
         /\ UNCHANGED <<tcpSock, sock>>

\* AJ_Net_ARDP_Disconnect (lines 1362-1369): AJ_ARDP_Disconnect, close
\* netContext.udpSock, INVALID, zero the handle.
AJ_Net_ARDP_Disconnect(fk) ==
    /\ fdKind' = CloseFd(fk, udpSock)
    /\ udpSock' = INVALID_SOCKET
    /\ sock' = "zeroed"

\* AJ_Net_Disconnect (lines 379-397): close the interrupt eventfd, then the
\* datagram path if netContext.udpSock is valid, else CloseNetSock if
\* netContext.tcpSock is.  The caller may call it between any two of its
\* calls, also on a zeroed handle.
AJ_Net_Disconnect ==
    /\ mpc \in {"idle", "connected"}
    /\ LET fk1 == CloseFd(fdKind, interruptFd) IN
       CASE udpSock # INVALID_SOCKET ->
              AJ_Net_ARDP_Disconnect(fk1) /\ UNCHANGED tcpSock
         [] tcpSock # INVALID_SOCKET ->
              CloseNetSock(fk1) /\ UNCHANGED udpSock
         [] OTHER ->
              fdKind' = fk1 /\ UNCHANGED <<tcpSock, udpSock, sock>>
    /\ interruptFd' = INVALID_SOCKET
    /\ efdSignalled' = Signals(fdKind', INVALID_SOCKET)
    /\ mpc' = "idle"
    /\ NewTxStream
    /\ UNCHANGED <<blocked, peer, selRc, selFds, status, attempts, intrv,
                   fopens, hist>>

-----------------------------------------------------------------------------
(* CancellableSocketIO on the main thread: AJ_Net_Recv (TCP, lines        *)
(* 234-279) and AJ_ARDP_UDP_Recv (ARDP, lines 1221-1273).                  *)

\* Mutant: the eventfd is never added to the fd_set.
WatchesIntr_never == FALSE

\* Whether the receive watches the eventfd: AJ_Net_Recv tests
\* interruptFd >= 0, AJ_ARDP_UDP_Recv tests interruptFd > 0.
WatchesIntr == IF sock = "tcp" THEN interruptFd >= 0 ELSE interruptFd > 0

Watched == {"sock"} \cup (IF WatchesIntr THEN {"intr"} ELSE {})

Ready ==
    (IF peer # "none" THEN {"sock"} ELSE {})
    \cup (IF WatchesIntr /\ efdSignalled[interruptFd] THEN {"intr"} ELSE {})

\* Build the fd_set, then blocked = TRUE (lines 246-254, 1235-1245).  An
\* I/O-class error ends the connection: the caller receives again only
\* after a non-fatal status.
RecvArm(kind) ==
    /\ mpc = "connected"
    /\ sock = kind
    /\ status \notin Fatal
    /\ blocked' = TRUE
    /\ mpc' = "select"
    /\ wroteInWait' = FALSE
    /\ UNCHANGED <<txv, kernel, interruptFd, tcpSock, udpSock, sock, peer, selRc,
                   selFds, status, attempts, intrv, fopens, nSignals,
                   nInterrupted, strayWrite, doubleClose>>

AJ_Net_Recv_Arm == RecvArm("tcp")
AJ_ARDP_UDP_Recv_Arm == RecvArm("ardp")

\* select() (lines 255, 1246) returns the ready descriptors, or 0 when the
\* timeout expires with none ready, or -1 leaving the fd_set unmodified.
Select ==
    /\ mpc = "select"
    /\ \/ Ready # {} /\ selRc' = 1 /\ selFds' = Ready
       \/ Ready = {} /\ selRc' = 0 /\ selFds' = {}
       \/ SelectMayFail /\ selRc' = -1 /\ selFds' = Watched
    /\ mpc' = "selected"
    /\ UNCHANGED <<txv, kernel, globals, peer, status, attempts, intrv, fopens,
                   hist>>

\* Mutant: the interrupt is reported without reading the eventfd.
DrainInterrupt_noRead ==
    /\ status' = "INTERRUPTED"
    /\ nInterrupted' = nInterrupted + 1
    /\ UNCHANGED <<efdSignalled, peer>>

\* The read() of an interrupt: drains the eventfd (EAGAIN if it is 0).
DrainInterrupt ==
    /\ efdSignalled' = [efdSignalled EXCEPT ![interruptFd] = FALSE]
    /\ status' = "INTERRUPTED"
    /\ nInterrupted' = nInterrupted + 1
    /\ UNCHANGED peer

\* recv()/recvfrom() on the transport: consumes data, or fails.
ReadSocket ==
    \/ peer = "data" /\ status' = "OK" /\ peer' = "none"
    \/ peer = "error" /\ status' = "READ" /\ UNCHANGED peer

AfterSelect ==
    /\ mpc = "selected"
    /\ blocked' = FALSE
    /\ mpc' = "connected"
    /\ UNCHANGED <<txv, fdKind, interruptFd, tcpSock, udpSock, sock, selRc, selFds,
                   attempts, intrv, fopens, nSignals, wroteInWait,
                   strayWrite, doubleClose>>

\* Mutant: the socket bit is tested before the eventfd bit.
AJ_Net_Recv_Finish_socketFirst ==
    /\ sock = "tcp"
    /\ AfterSelect
    /\ \/ selRc = 0 /\ status' = "TIMEOUT"
          /\ UNCHANGED <<efdSignalled, peer, nInterrupted>>
       \/ selRc # 0 /\ "sock" \in selFds /\ ReadSocket
          /\ UNCHANGED <<efdSignalled, nInterrupted>>
       \/ selRc # 0 /\ "sock" \notin selFds /\ "intr" \in selFds
          /\ DrainInterrupt

\* Lines 256-278: 0 is a timeout; then, whatever select() returned, a set
\* eventfd bit is an interrupt; otherwise recv() up to min(space, len)
\* bytes (rx = 0 reads nothing); recv() blocks while there is nothing.
AJ_Net_Recv_Finish ==
    /\ sock = "tcp"
    /\ AfterSelect
    /\ \/ selRc = 0 /\ status' = "TIMEOUT"
          /\ UNCHANGED <<efdSignalled, peer, nInterrupted>>
       \/ selRc # 0 /\ interruptFd >= 0 /\ "intr" \in selFds
          /\ DrainInterrupt
       \/ selRc # 0 /\ ~(interruptFd >= 0 /\ "intr" \in selFds)
          /\ \E rx \in BOOLEAN :
               (IF rx THEN ReadSocket ELSE status' = "OK" /\ UNCHANGED peer)
          /\ UNCHANGED <<efdSignalled, nInterrupted>>

\* Mutant: select() returning -1 is not caught before the fd_set tests.
AJ_ARDP_UDP_Recv_Finish_noErrCheck ==
    /\ sock = "ardp"
    /\ AfterSelect
    /\ \/ selRc = 0 /\ status' = "TIMEOUT"
          /\ UNCHANGED <<efdSignalled, peer, nInterrupted>>
       \/ selRc # 0 /\ interruptFd > 0 /\ "intr" \in selFds
          /\ DrainInterrupt
       \/ selRc # 0 /\ ~(interruptFd > 0 /\ "intr" \in selFds)
          /\ ReadSocket
          /\ UNCHANGED <<efdSignalled, nInterrupted>>

\* Lines 1249-1272: 0 is a timeout, -1 is AJ_ERR_READ, then a set eventfd
\* bit (if interruptFd > 0) is an interrupt, else recvfrom().
AJ_ARDP_UDP_Recv_Finish ==
    /\ sock = "ardp"
    /\ AfterSelect
    /\ \/ selRc = 0 /\ status' = "TIMEOUT"
          /\ UNCHANGED <<efdSignalled, peer, nInterrupted>>
       \/ selRc = -1 /\ status' = "READ"
          /\ UNCHANGED <<efdSignalled, peer, nInterrupted>>
       \/ selRc = 1 /\ interruptFd > 0 /\ "intr" \in selFds
          /\ DrainInterrupt
       \/ selRc = 1 /\ ~(interruptFd > 0 /\ "intr" \in selFds)
          /\ ReadSocket
          /\ UNCHANGED <<efdSignalled, nInterrupted>>

-----------------------------------------------------------------------------
(* CancellableSocketIO, transmit side: AJ_Net_Send (TCP, lines 183-207)   *)
(* and AJ_ARDP_UDP_Send (ARDP, lines 1202-1219), on the main thread.      *)

\* The bus layer marshals k bytes at writePtr, within AJ_IO_BUF_SPACE.
MarshalTx ==
    /\ mpc = "connected" /\ sock = "tcp" /\ status \notin Fatal
    /\ \E k \in 1..(TxBufSize - txWrite) :
         /\ queued + k <= MaxQueued
         /\ txWrite' = txWrite + k
         /\ queued' = queued + k
    /\ UNCHANGED <<kernel, globals, peer, mainv, intrv, fopens, hist, txRead,
                   delivered>>

\* Mutant: the buffer is reset after any send, drained or not.
AfterSend_resetAlways(ret) == [rd |-> 0, wr |-> 0]

\* Lines 200-204: readPtr advances by what send() took, and the buffer is
\* reset (AJ_IO_BUF_RESET) once nothing is left to send.
AfterSend(ret) ==
    IF txWrite - (txRead + ret) = 0 THEN [rd |-> 0, wr |-> 0]
    ELSE [rd |-> txRead + ret, wr |-> txWrite]

\* Lines 187-206: tx = AJ_IO_BUF_AVAIL; if tx > 0, send() on
\* netContext.tcpSock takes 1..tx bytes (a partial send is normal for a
\* stream socket) or fails, on a reset connection, with AJ_ERR_WRITE and
\* the buffer untouched.  With nothing to send the buffer is reset.
AJ_Net_Send ==
    /\ mpc = "connected" /\ sock = "tcp" /\ status \notin Fatal
    /\ LET tx == txWrite - txRead IN
       \/ /\ tx > 0 /\ peer = "error"
          /\ status' = "WRITE"
          /\ UNCHANGED <<txRead, txWrite, delivered>>
       \/ /\ tx > 0 /\ peer # "error"
          /\ \E ret \in 1..tx :
               /\ txRead' = AfterSend(ret).rd
               /\ txWrite' = AfterSend(ret).wr
               /\ delivered' = delivered + ret
          /\ status' = "OK"
       \/ /\ tx = 0
          /\ txRead' = 0 /\ txWrite' = 0
          /\ status' = "OK"
          /\ UNCHANGED delivered
    /\ wroteInWait' = FALSE
    /\ UNCHANGED <<kernel, globals, peer, mpc, selRc, selFds, attempts, intrv,
                   fopens, nSignals, nInterrupted, strayWrite, doubleClose,
                   queued>>

\* Lines 1211-1218: one send() of the datagram on the connected
\* netContext.udpSock; -1 is AJ_ERR_WRITE.  The ARDP layer (outside src/)
\* owns the buffer.
AJ_ARDP_UDP_Send ==
    /\ mpc = "connected" /\ sock = "ardp" /\ status \notin Fatal
    /\ status' = IF peer = "error" THEN "WRITE" ELSE "OK"
    /\ wroteInWait' = FALSE
    /\ UNCHANGED <<kernel, globals, peer, mpc, selRc, selFds, attempts, intrv,
                   fopens, nSignals, nInterrupted, strayWrite, doubleClose,
                   txv>>

-----------------------------------------------------------------------------
(* CancellableSocketIO: AJ_Net_Interrupt (lines 223-231) on the shutdown  *)
(* thread.                                                                 *)

\* Line 225: if (blocked) ... else the call is a no-op.
AJ_Net_Interrupt_Check ==
    /\ ipc = "idle"
    /\ icalls < MaxInterrupts
    /\ icalls' = icalls + 1
    /\ ipc' = IF blocked THEN "load" ELSE "idle"
    /\ UNCHANGED <<txv, kernel, globals, peer, mainv, iFd, fopens, nSignals,
                   nInterrupted, wroteInWait, strayWrite, doubleClose>>

\* Line 227: write(interruptFd, ...) first loads the global.
AJ_Net_Interrupt_Load ==
    /\ ipc = "load"
    /\ iFd' = interruptFd
    /\ ipc' = "write"
    /\ UNCHANGED <<txv, kernel, globals, peer, mainv, icalls, fopens, nSignals,
                   nInterrupted, wroteInWait, strayWrite, doubleClose>>

\* Line 227: write() of the uninitialised u64 to the loaded number.  On an
\* eventfd, 0 adds nothing and 0xffff...ffff fails with EINVAL; any other
\* value makes it readable.  On a closed number it fails with EBADF; on
\* any other open descriptor the eight bytes are written into it.
AJ_Net_Interrupt_Write ==
    /\ ipc = "write"
    /\ \E v \in U64Values :
         LET signals == IsOpen(fdKind, iFd) /\ fdKind[iFd] = "eventfd"
                        /\ v = "Other"
         IN /\ efdSignalled' = IF signals
                               THEN [efdSignalled EXCEPT ![iFd] = TRUE]
                               ELSE efdSignalled
            /\ nSignals' = IF signals THEN nSignals + 1 ELSE nSignals
    /\ wroteInWait' = (wroteInWait \/ (mpc = "select" /\ iFd = interruptFd
                                       /\ iFd # INVALID_SOCKET))
    /\ strayWrite' = (strayWrite \/ (IsOpen(fdKind, iFd)
                                     /\ fdKind[iFd] # "eventfd"))
    /\ ipc' = "idle"
    /\ UNCHANGED <<txv, fdKind, globals, peer, mainv, iFd, icalls, fopens,
                   nInterrupted, doubleClose>>

-----------------------------------------------------------------------------
(* The environment: the peer, and the rest of the process.                *)

PeerSend ==
    /\ sock # "zeroed" /\ peer = "none"
    /\ peer' = "data"
    /\ UNCHANGED <<txv, kernel, globals, mainv, intrv, fopens, hist>>

PeerFail ==
    /\ sock # "zeroed" /\ peer # "error"
    /\ peer' = "error"
    /\ UNCHANGED <<txv, kernel, globals, mainv, intrv, fopens, hist>>

ForeignOpen ==
    /\ fopens < MaxForeign /\ CanCreate(fdKind)
    /\ fdKind' = OpenFd(fdKind, LowestFree(fdKind), "other")
    /\ fopens' = fopens + 1
    /\ UNCHANGED <<txv, efdSignalled, globals, peer, mainv, intrv, hist>>

ForeignClose ==
    /\ \E f \in FdNums : fdKind[f] = "other" /\ fdKind' = CloseFd(fdKind, f)
    /\ UNCHANGED <<txv, efdSignalled, globals, peer, mainv, intrv, fopens, hist>>

-----------------------------------------------------------------------------
Next ==
    \/ Connect
    \/ AJ_Net_Disconnect
    \/ AJ_Net_Recv_Arm
    \/ AJ_ARDP_UDP_Recv_Arm
    \/ Select
    \/ AJ_Net_Recv_Finish
    \/ AJ_ARDP_UDP_Recv_Finish
    \/ MarshalTx
    \/ AJ_Net_Send
    \/ AJ_ARDP_UDP_Send
    \/ AJ_Net_Interrupt_Check
    \/ AJ_Net_Interrupt_Load
    \/ AJ_Net_Interrupt_Write
    \/ PeerSend
    \/ PeerFail
    \/ ForeignOpen
    \/ ForeignClose

\* The OS schedules both threads; select() always returns by its timeout.
Fairness ==
    /\ WF_vars(Select)
    /\ WF_vars(AJ_Net_Recv_Finish)
    /\ WF_vars(AJ_ARDP_UDP_Recv_Finish)
    /\ WF_vars(AJ_Net_Interrupt_Load)
    /\ WF_vars(AJ_Net_Interrupt_Write)

Spec == Init /\ [][Next]_vars /\ Fairness

-----------------------------------------------------------------------------
(* Properties.                                                             *)

TypeOK ==
    /\ fdKind \in [FdNums -> FdKinds]
    /\ efdSignalled \in [FdNums -> BOOLEAN]
    /\ {interruptFd, tcpSock, udpSock, iFd} \subseteq FdOrInvalid
    /\ blocked \in BOOLEAN
    /\ sock \in {"zeroed", "tcp", "ardp"}
    /\ peer \in {"none", "data", "error"}
    /\ mpc \in {"idle", "connected"} \cup RecvPhase
    /\ selRc \in {-1, 0, 1}
    /\ selFds \subseteq {"sock", "intr"}
    /\ status \in Statuses
    /\ ipc \in {"idle", "load", "write"}
    /\ attempts \in 0..MaxConnects
    /\ icalls \in 0..MaxInterrupts
    /\ fopens \in 0..MaxForeign
    /\ {nSignals, nInterrupted} \subseteq Nat
    /\ {wroteInWait, strayWrite, doubleClose} \subseteq BOOLEAN
    /\ 0 <= txRead /\ txRead <= txWrite /\ txWrite <= TxBufSize
    /\ {queued, delivered} \subseteq 0..MaxQueued

(* Each INTERRUPTED result of a receive consumes a distinct signal that    *)
(* AJ_Net_Interrupt put on an eventfd: the read() at lines 262/1257 drains *)
(* the counter, so one interrupt never cancels two waits, and a receive is *)
(* never reported interrupted when nobody signalled (spec 4.3: errors are  *)
(* never conflated with interruption).                                     *)
InterruptConsumedOnce == nInterrupted <= nSignals

(* While a connection is up exactly one transport is live (spec 4.4): the  *)
(* handle's entry points and netContext agree on TCP or on ARDP, and the  *)
(* interrupt eventfd of that attempt is open.                              *)
OnePathLive ==
    mpc # "idle" =>
        /\ \/ sock = "tcp" /\ tcpSock # INVALID_SOCKET
              /\ udpSock = INVALID_SOCKET /\ fdKind[tcpSock] = "tcp"
           \/ sock = "ardp" /\ udpSock # INVALID_SOCKET
              /\ tcpSock = INVALID_SOCKET /\ fdKind[udpSock] = "udp"
        /\ interruptFd # INVALID_SOCKET /\ fdKind[interruptFd] = "eventfd"

(* Between connections nothing of this layer is left open: after a failed *)
(* AJ_Net_Connect or an AJ_Net_Disconnect every eventfd and socket it made *)
(* is closed, netContext and interruptFd are INVALID_SOCKET and the        *)
(* caller's handle is zeroed (spec 4.4: no partially-open descriptors).    *)
IdleReleasesAll ==
    mpc = "idle" =>
        /\ LayerFds(fdKind) = {}
        /\ interruptFd = INVALID_SOCKET
        /\ tcpSock = INVALID_SOCKET /\ udpSock = INVALID_SOCKET
        /\ sock = "zeroed"

(* AJ_Net_Connect never calls close() on a number it already closed: such *)
(* a close would shut a descriptor another thread has since been given.    *)
NoDoubleClose == ~doubleClose

(* Spec 4.3: signalling is always safe from another context.  The write()  *)
(* of AJ_Net_Interrupt only ever reaches an eventfd, never a socket or a   *)
(* file that reused the number of a closed interrupt eventfd.              *)
InterruptWritesOnlyEventfd == ~strayWrite

(* Spec 4.4: the stream path creates a socket for the candidate's         *)
(* preferred address family and connects.  So whenever the layer is idle *)
(* with descriptors to spare, a candidate whose every system call and     *)
(* handshake would succeed is connected by AJ_Net_Connect.               *)
ReachableCandidateConnects ==
    (mpc = "idle" /\ Cardinality(FreeFds(fdKind)) >= 3) =>
        \A types \in AddrTypeSets :
            UsesArdp(types) \/ UsesTcp(types) =>
                AJ_Net_Connect(ConnectState, types,
                               <<<<TRUE, "ok", "ok">>, "ok">>).ok

(* Spec 4.3 / scenario E: an interrupt signalled while the wait is         *)
(* outstanding makes the receive return INTERRUPTED.                       *)
InterruptHonoured ==
    (mpc = "connected" /\ wroteInWait) => status = "INTERRUPTED"

(* Spec 4.3: a wake signalled on the eventfd while a receive waits ends   *)
(* that wait: select() reports the eventfd, AJ_Net_Recv (lines 263-266)   *)
(* drains it, and the receive returns INTERRUPTED.  Holds under the fair  *)
(* scheduling of the main thread's select() and return.                   *)
SignalledWaitInterrupted ==
    \A n \in 0..MaxInterrupts :
        (/\ mpc = "select" /\ interruptFd # INVALID_SOCKET
         /\ efdSignalled[interruptFd] /\ nInterrupted = n)
            ~> nInterrupted = n + 1

(* Spec 4.3 / 5, transmit side: on a TCP connection every byte the bus     *)
(* layer marshalled into the transmit buffer has either been handed to    *)
(* send() exactly once, in order, or is still between readPtr and         *)
(* writePtr: partial sends, AJ_ERR_WRITE and the AJ_IO_BUF_RESET of       *)
(* AJ_Net_Send (lines 193-204) never drop or repeat a byte.               *)
TxStreamIntact ==
    sock = "tcp" => delivered + (txWrite - txRead) = queued
=============================================================================
