----------------------------- MODULE Discovery -----------------------------
(***************************************************************************)
(* The DiscoveryMessenger of the Linux network layer                      *)
(* (src/src/target/linux/aj_net.c): AJ_Net_MCastUp and AJ_Net_MCastDown    *)
(* with their socket helpers, AJ_Net_SendTo with sendToBroadcast and the  *)
(* sender-info rewrite, and AJ_Net_RecvFrom.  All of it runs on the one   *)
(* thread of a discovery sweep; the environment delivers datagrams.       *)
(*                                                                         *)
(* Data is abstracted to what the properties tell apart: a packet is its  *)
(* family flag and, for mDNS, its bytes over a small alphabet, which the  *)
(* sender-info scan of SenderInfo searches.  The sender info a copy      *)
(* carries is the address (an index of the interface table,               *)
(* or the IPv6 group) and the port number that the rewrite prints.        *)
(***************************************************************************)
EXTENDS Integers, FiniteSets, Sequences, Descriptors, SenderInfo

CONSTANTS
    IfTables,        \* the getifaddrs() tables the host may present
    BoundPorts,      \* ports the kernel may give the mDNS receive socket
    Endian,          \* byte order of the build: "little" or "big"
    OldProto,        \* AJ_GetMinProtoVersion() < 10: AllJoyn sockets too
    TxFlagSets,      \* flags of the packets the discovery code sends
    TxPackets,       \* the data of the mDNS packets the discovery code sends
    Bytes,           \* the byte values a packet and the buffer beyond it hold
    FailSteps,       \* the MCastUp steps whose system calls may fail
    SelectMayFail,   \* select() may return -1 (EINTR)
    CallerClearsFlags, \* the caller clears rx flags before each receive
    MaxSweeps,       \* discovery sweeps (MCastUp calls)
    MaxSends,        \* AJ_Net_SendTo calls per sweep
    MaxRecvs,        \* AJ_Net_RecvFrom calls per sweep
    MaxArrivals      \* datagrams (or errors) the network delivers

\* An entry of getifaddrs(): address family, IFF_UP and IFF_RUNNING,
\* IFF_LOOPBACK, a non-NULL ifa_broadaddr, and whether it is on the
\* interface of the best default route in /proc/net/route.
IfEntries == [fam : {"inet", "inet6"}, usable : BOOLEAN, loop : BOOLEAN,
              bcast : BOOLEAN, dflt : BOOLEAN]

ASSUME IfTables \subseteq Seq(IfEntries)
ASSUME BoundPorts \subseteq 1..65535
ASSUME Endian \in {"little", "big"}
ASSUME OldProto \in BOOLEAN /\ SelectMayFail \in BOOLEAN
ASSUME CallerClearsFlags \in BOOLEAN
\* The discovery code composes an AllJoyn or an mDNS packet, never both.
ASSUME TxFlagSets \subseteq {{"AJ"}, {"MDNS"}}
\* Every packet has its two-byte search-id header, so the scan stops.
ASSUME TxPackets \subseteq Seq(Bytes) /\ \A d \in TxPackets : Len(d) >= 2
ASSUME {MaxSweeps, MaxSends, MaxRecvs, MaxArrivals} \subseteq Nat

AJ_UDP_PORT == 9956
MDNS_UDP_PORT == 5353

\* The six sockets of mCastContext (lines 108-119).
MSocks == {"udp", "udp6", "mDns", "mDns6", "mDnsRecv", "mDns6Recv"}

\* htons()/ntohs() on a 16-bit value: a byte swap on a little-endian build.
Htons(p) == IF Endian = "little" THEN (p % 256) * 256 + p \div 256 ELSE p
Ntohs(p) == Htons(p)

VARIABLES
    fdKind,       \* kernel: what each descriptor number is
    ifs,          \* kernel: the interface table getifaddrs() returns
    boundPort,    \* kernel: the port mDnsRecvSock is bound to
    ctx,          \* mCastContext: a descriptor or INVALID_SOCKET per socket
    recvAddr,     \* mCastContext.mDnsRecvAddr: the chosen table index, 0 none
    recvPort,     \* mCastContext.mDnsRecvAddr.sin6_port as stored
    handle,       \* the caller's AJ_MCastSocket: "zeroed" or "bound"
    dpc,          \* the sweep's program counter
    fds,          \* the fd_set select() left in AJ_Net_RecvFrom
    scanAt,       \* AJ_Net_RecvFrom: index in RecvOrder of the next test
    pending,      \* per socket: "none", "data" or "error" waiting
    rxTag,        \* rx buffer flags (AJ_IO_BUF_AJ / AJ_IO_BUF_MDNS)
    rxFrom,       \* the socket the last packet was read from
    status,       \* the last AJ_Status returned
    sent,         \* the copies the last call, if a send, handed to sendto()
    delivered,    \* those of them whose sendto() succeeded
    rewrite,      \* the last send's sender-info scan: packet, found, offset
    lastOp,       \* the last call of the sweep: "up", "send", "recv", "down"
    sweeps, sends, recvs, arrivals

vars == <<fdKind, ifs, boundPort, ctx, recvAddr, recvPort, handle, dpc, fds,
          scanAt, pending, rxTag, rxFrom, status, sent, delivered,
          rewrite, lastOp, sweeps, sends, recvs, arrivals>>

Valid(k) == ctx[k] # INVALID_SOCKET

\* No sender-info scan in the last call.
NoRewrite == [pkt |-> <<>>, found |-> FALSE, at |-> 0]

Init ==
    /\ fdKind = [f \in FdNums |-> "free"]
    /\ ifs \in IfTables
    /\ boundPort = 0
    /\ ctx = [k \in MSocks |-> INVALID_SOCKET]
    /\ recvAddr = 0
    /\ recvPort = 0
    /\ handle = "zeroed"
    /\ dpc = "down"
    /\ fds = {}
    /\ scanAt = 1
    /\ pending = [k \in MSocks |-> "none"]
    /\ rxTag = {}
    /\ rxFrom = "none"
    /\ status = "OK"
    /\ sent = {}
    /\ delivered = {}
    /\ rewrite = NoRewrite
    /\ lastOp = "none"
    /\ sweeps = 0 /\ sends = 0 /\ recvs = 0 /\ arrivals = 0

-----------------------------------------------------------------------------
(* AJ_Net_MCastUp (lines 1106-1162) and AJ_Net_MCastDown (1164-1198).     *)

\* Mutant: MCastUp4 jumps to ExitError on a failed group join and returns
\* the closed descriptor instead of INVALID_SOCKET.
UpSock_returnClosed(r, key, ok) ==
    LET s == LowestFree(r.fk) IN
    IF CanCreate(r.fk)
    THEN [r EXCEPT !.ctx[key] = s,
                   !.fk = IF ok THEN OpenFd(r.fk, s, "udp") ELSE r.fk]
    ELSE [r EXCEPT !.ctx[key] = INVALID_SOCKET]

\* MDnsRecvUp, MDns6RecvUp, MCastUp4, MCastUp6 (lines 856-1104): socket(),
\* then setsockopt/bind (and, for IPv6, the group join); any failure closes
\* the socket and yields INVALID_SOCKET, so the net effect is one open
\* datagram socket stored in mCastContext, or none.  (A failed IPv4 group
\* join is tolerated: the socket still serves broadcast.)
UpSock(r, key, ok) ==
    LET s == LowestFree(r.fk) IN
    IF ok /\ CanCreate(r.fk)
    THEN [r EXCEPT !.fk = OpenFd(r.fk, s, "udp"), !.ctx[key] = s]
    ELSE [r EXCEPT !.ctx[key] = INVALID_SOCKET]

\* chooseMDnsRecvAddr (lines 972-1036): the first up, running,
\* non-loopback entry, restricted to the default-route interface if there
\* is one; 0 when none qualifies.
HasDefault(t) == \E i \in 1..Len(t) : t[i].dflt
ChooseMDnsRecvAddr(t) ==
    LET C == {i \in 1..Len(t) : ~t[i].loop /\ t[i].usable
                                /\ (~HasDefault(t) \/ t[i].dflt)}
    IN IF C = {} THEN 0 ELSE Min(C)

\* The setup steps of AJ_Net_MCastUp that can fail.
UpSteps == {"mDnsRecv", "mDns6Recv", "getsockname", "mDns", "mDns6",
            "udp", "udp6"}
ASSUME FailSteps \subseteq UpSteps

\* The outcomes of those steps: only the steps in FailSteps may fail.
UpOutcomes == {ok \in [UpSteps -> BOOLEAN] :
                  \A st \in UpSteps \ FailSteps : ok[st]}

\* Mutant: ExitError returns AJ_OK, as if the sweep had come up.
ExitError_returnOk(r1) ==
    /\ fdKind' = CloseFd(CloseFd(r1.fk, r1.ctx["mDnsRecv"]), r1.ctx["mDns6Recv"])
    /\ ctx' = r1.ctx
    /\ status' = "OK" /\ dpc' = "up"
    /\ UNCHANGED <<recvAddr, recvPort, handle, boundPort>>

\* ExitError (lines 1156-1161): getsockname failed or no receive address
\* was found; both receive sockets are closed, their numbers stay in
\* mCastContext, the handle is not bound and the status is still the
\* AJ_ERR_READ it was initialised to (line 1111).
ExitError(r1) ==
    /\ fdKind' = CloseFd(CloseFd(r1.fk, r1.ctx["mDnsRecv"]), r1.ctx["mDns6Recv"])
    /\ ctx' = r1.ctx
    /\ status' = "READ"
    /\ UNCHANGED <<recvAddr, recvPort, handle, dpc, boundPort>>

\* AJ_Net_MCastUp: the two receive sockets (a failed mDnsRecvSock returns
\* at once, leaving mDns6RecvSock open); getsockname and the receive
\* address (ExitError); the mDNS sockets, and the AllJoyn ones for old
\* protocol versions; AJ_OK and a bound handle if any of the four
\* multicast sockets is up, else AJ_ERR_READ with the receive sockets
\* left open.  The receive port is stored as ntohs(sin_port).
AJ_Net_MCastUp ==
    /\ dpc = "down"
    /\ sweeps < MaxSweeps
    /\ \E ok \in UpOutcomes, port \in BoundPorts :
       LET r0 == [fk |-> fdKind, ctx |-> ctx]
           r1 == UpSock(UpSock(r0, "mDnsRecv", ok["mDnsRecv"]),
                        "mDns6Recv", ok["mDns6Recv"])
           addr == ChooseMDnsRecvAddr(ifs)
           r2 == UpSock(UpSock(r1, "mDns", ok["mDns"]), "mDns6", ok["mDns6"])
           r3 == IF OldProto
                 THEN UpSock(UpSock(r2, "udp", ok["udp"]), "udp6", ok["udp6"])
                 ELSE r2
           anyUp == \E k \in {"udp", "udp6", "mDns", "mDns6"} :
                        r3.ctx[k] # INVALID_SOCKET
       IN CASE r1.ctx["mDnsRecv"] = INVALID_SOCKET ->
                 /\ fdKind' = r1.fk /\ ctx' = r1.ctx
                 /\ status' = "READ"
                 /\ UNCHANGED <<recvAddr, recvPort, handle, dpc, boundPort>>
            [] ~ok["getsockname"] \/ addr = 0 -> ExitError(r1)
            [] OTHER ->
                 /\ fdKind' = r3.fk /\ ctx' = r3.ctx
                 /\ boundPort' = port
                 /\ recvAddr' = addr
                 /\ recvPort' = Ntohs(Htons(port))
                 /\ status' = IF anyUp THEN "OK" ELSE "READ"
                 /\ handle' = IF anyUp THEN "bound" ELSE handle
                 /\ dpc' = IF anyUp THEN "up" ELSE "down"
    /\ sweeps' = sweeps + 1
    /\ sends' = 0 /\ recvs' = 0
    /\ pending' = [k \in MSocks |-> "none"]
    /\ lastOp' = "up"
    /\ sent' = {} /\ delivered' = {} /\ rewrite' = NoRewrite
    /\ UNCHANGED <<ifs, fds, scanAt, rxTag, rxFrom, arrivals>>

\* AJ_Net_SendTo, AJ_Net_RecvFrom and AJ_Net_MCastDown read the handle's
\* context with no NULL check (lines 551, 667, 1166): on a zeroed handle
\* the process faults there, so none of them completes.
HasContext == handle = "bound"

\* CloseMCastSock (lines 154-180): through the handle's context, close
\* every valid socket, set all six to INVALID_SOCKET, zero the handle.
CloseMCastSock ==
    IF handle = "bound"
    THEN /\ fdKind' = [f \in FdNums |->
                          IF \E k \in MSocks : ctx[k] = f THEN "free"
                          ELSE fdKind[f]]
         /\ ctx' = [k \in MSocks |-> INVALID_SOCKET]
         /\ handle' = "zeroed"
    ELSE UNCHANGED <<fdKind, ctx, handle>>

\* AJ_Net_MCastDown: leave the groups (setsockopt, no modelled state:
\* close() leaves them as well), then CloseMCastSock.  The discovery
\* caller calls it once at the end of a sweep that came up.
AJ_Net_MCastDown ==
    /\ dpc = "up"
    /\ HasContext
    /\ CloseMCastSock
    /\ dpc' = "down"
    /\ pending' = [k \in MSocks |-> "none"]
    /\ lastOp' = "down"
    /\ sent' = {} /\ delivered' = {} /\ rewrite' = NoRewrite
    /\ UNCHANGED <<ifs, boundPort, recvAddr, recvPort, fds, scanAt, rxTag,
                   rxFrom, status, sweeps, sends, recvs, arrivals>>

-----------------------------------------------------------------------------
(* AJ_Net_SendTo (lines 546-663) with sendToBroadcast (399-441) and       *)
(* RewriteSenderInfo (443-544).                                            *)

\* A copy of the packet handed to sendto(): the socket, the destination
\* (a multicast group or the broadcast address of interface ifx) and the
\* sender-info record it carries: the address family printed ("iface": the
\* address of interface ifx; "group6": the IPv6 mDNS group; "none": no
\* record rewritten) and the decimal port printed.
Copy(sk, dest, ipv, ifx, port) ==
    [sock |-> sk, dest |-> dest, ipv |-> ipv, ifx |-> ifx, port |-> port]

\* RewriteSenderInfo prints htons(sin_port) of the address it is given.
RewritePort(sinPort) == Htons(sinPort)

\* sendToBroadcast: every up and running inet/inet6 entry with a
\* broadcast address gets a copy, but only an mDNS packet is sent, each
\* after RewriteSenderInfo with the entry's ifa_addr, whose sin_port was
\* set to htons(port).
BcastEntries(t) == {i \in 1..Len(t) : t[i].usable /\ t[i].bcast}
SendToBroadcast(sk, port, flags, t) ==
    IF "MDNS" \in flags
    THEN {Copy(sk, "bcast", "iface", i, RewritePort(Htons(port))) :
              i \in BcastEntries(t)}
    ELSE {}

\* The copies one AJ_Net_SendTo call hands to sendto(), in the code's
\* order: the AllJoyn IPv4 group and broadcast, the AllJoyn IPv6 group;
\* then, after RewriteSenderInfo with mDnsRecvAddr has found the record
\* (marker, from RewriteOutcomes), the mDNS IPv4 group and broadcast, and the mDNS IPv6 group
\* rewritten with the group address itself.
SendCopies(flags, marker) ==
    LET aj4 == IF Valid("udp") /\ "AJ" \in flags
               THEN {Copy("udp", "group4", "none", 0, 0)}
                    \cup SendToBroadcast("udp", AJ_UDP_PORT, flags, ifs)
               ELSE {}
        aj6 == IF Valid("udp6") /\ "AJ" \in flags
               THEN {Copy("udp6", "group6", "none", 0, 0)} ELSE {}
        go  == "MDNS" \in flags /\ marker
        md4 == IF go /\ Valid("mDns")
               THEN {Copy("mDns", "group4", "iface", recvAddr,
                          RewritePort(recvPort))}
                    \cup SendToBroadcast("mDns", MDNS_UDP_PORT, flags, ifs)
               ELSE {}
        md6 == IF go /\ Valid("mDns6")
               THEN {Copy("mDns6", "group6", "group6", 0,
                          RewritePort(Htons(MDNS_UDP_PORT)))}
               ELSE {}
    IN aj4 \cup aj6 \cup md4 \cup md6

\* The result: a failed rewrite of an mDNS packet sets tx to 0 and returns
\* AJ_OK without sending; otherwise AJ_ERR_WRITE unless some sendto()
\* sent the whole packet.
SendStatus(flags, marker, ok) ==
    IF "MDNS" \in flags /\ ~marker THEN "OK"
    ELSE IF ok # {} THEN "OK" ELSE "WRITE"

\* RewriteSenderInfo (lines 443-544) on an mDNS packet (line 597): the
\* search id and the address and port print into buffers that always hold
\* them, so the call fails only when the backward scan finds no "send";
\* the byte at writePtr is whatever the buffer held.  On success it
\* rewrites the three key/value pairs after the record's fixed fields,
\* which leaves the record where it was, so the second call for the IPv6
\* copy (line 634) finds it again.
RewriteOutcomes(flags) ==
    IF "MDNS" \in flags
    THEN {LET r == ScanSenderInfo(d, b)
          IN [pkt |-> d, found |-> r.found, at |-> r.at] :
              d \in TxPackets, b \in Bytes}
    ELSE {NoRewrite}

\* One AJ_Net_SendTo call on the handle of a sweep that came up.
AJ_Net_SendTo ==
    /\ dpc = "up"
    /\ HasContext
    /\ sends < MaxSends
    /\ \E flags \in TxFlagSets :
       \E rw \in RewriteOutcomes(flags) :
       LET copies == SendCopies(flags, rw.found) IN
       \E ok \in SUBSET copies :
          /\ sent' = copies
          /\ delivered' = ok
          /\ status' = SendStatus(flags, rw.found, ok)
          /\ rewrite' = rw
    /\ sends' = sends + 1
    /\ lastOp' = "send"
    /\ UNCHANGED <<fdKind, ifs, boundPort, ctx, recvAddr, recvPort, handle,
                   dpc, fds, scanAt, pending, rxTag, rxFrom, sweeps, recvs,
                   arrivals>>

-----------------------------------------------------------------------------
(* AJ_Net_RecvFrom (lines 665-844).  Select builds the fd set of every    *)
(* valid socket and waits; Step is one "if (FD_ISSET(...))" test of the   *)
(* scan, in the code's order; a recvfrom() on a socket with nothing        *)
(* queued blocks, so Step is then not enabled.                             *)

RecvOrder == <<"mDnsRecv", "mDns6Recv", "udp6", "udp", "mDns", "mDns6">>

\* The flag a successful recvfrom() ORs into buf->flags.
RxFlag(k) == IF k \in {"udp", "udp6"} THEN "AJ" ELSE "MDNS"

\* FD_ZERO/FD_SET of every valid socket, then select(): 0 is AJ_ERR_TIMEOUT;
\* a positive count leaves the ready sockets in fds; -1 (SelectMayFail)
\* leaves fds as built and the scan goes on regardless.
AJ_Net_RecvFrom_Select ==
    /\ dpc = "up"
    /\ HasContext
    /\ recvs < MaxRecvs
    /\ LET watched == {k \in MSocks : Valid(k)}
           ready   == {k \in watched : pending[k] # "none"}
       IN \/ /\ ready = {}
             /\ status' = "TIMEOUT"
             /\ UNCHANGED <<dpc, fds>>
          \/ /\ ready # {}
             /\ fds' = ready
             /\ dpc' = "read" /\ status' = "OK"
          \/ /\ SelectMayFail
             /\ fds' = watched
             /\ dpc' = "read" /\ status' = "OK"
    /\ rxTag' = IF CallerClearsFlags THEN {} ELSE rxTag
    /\ scanAt' = 1
    /\ recvs' = recvs + 1
    /\ lastOp' = "recv"
    /\ sent' = {} /\ delivered' = {} /\ rewrite' = NoRewrite
    /\ UNCHANGED <<fdKind, ifs, boundPort, ctx, recvAddr, recvPort, handle,
                   pending, rxFrom, sweeps, sends, arrivals>>

\* Mutant: after a failed recvfrom() the scan tests the same socket again.
AJ_Net_RecvFrom_Step_retryOnError ==
    /\ dpc = "read"
    /\ scanAt <= Len(RecvOrder)
    /\ LET k == RecvOrder[scanAt] IN
       \/ /\ ~(Valid(k) /\ k \in fds)
          /\ scanAt' = scanAt + 1
          /\ UNCHANGED <<pending, rxTag, rxFrom, status, dpc>>
       \/ /\ Valid(k) /\ k \in fds /\ pending[k] = "data"
          /\ pending' = [pending EXCEPT ![k] = "none"]
          /\ rxTag' = rxTag \cup {RxFlag(k)}
          /\ rxFrom' = k
          /\ status' = "OK"
          /\ dpc' = "up" /\ scanAt' = 1
       \/ /\ Valid(k) /\ k \in fds /\ pending[k] = "error"
          /\ pending' = [pending EXCEPT ![k] = "none"]
          /\ status' = "READ"
          /\ UNCHANGED <<scanAt, rxTag, rxFrom, dpc>>
    /\ UNCHANGED <<fdKind, ifs, boundPort, ctx, recvAddr, recvPort, handle,
                   fds, sent, delivered, rewrite, lastOp, sweeps, sends, recvs,
                   arrivals>>

\* One test of the scan: a socket not in fds is passed over; a packet is
\* read into the buffer, tagged, and the call returns AJ_OK; a pending
\* error makes recvfrom() fail, sets AJ_ERR_READ and the scan goes on.
AJ_Net_RecvFrom_Step ==
    /\ dpc = "read"
    /\ scanAt <= Len(RecvOrder)
    /\ LET k == RecvOrder[scanAt] IN
       \/ /\ ~(Valid(k) /\ k \in fds)
          /\ scanAt' = scanAt + 1
          /\ UNCHANGED <<pending, rxTag, rxFrom, status, dpc>>
       \/ /\ Valid(k) /\ k \in fds /\ pending[k] = "data"
          /\ pending' = [pending EXCEPT ![k] = "none"]
          /\ rxTag' = rxTag \cup {RxFlag(k)}
          /\ rxFrom' = k
          /\ status' = "OK"
          /\ dpc' = "up" /\ scanAt' = 1
       \/ /\ Valid(k) /\ k \in fds /\ pending[k] = "error"
          /\ pending' = [pending EXCEPT ![k] = "none"]
          /\ status' = "READ"
          /\ scanAt' = scanAt + 1
          /\ UNCHANGED <<rxTag, rxFrom, dpc>>
    /\ UNCHANGED <<fdKind, ifs, boundPort, ctx, recvAddr, recvPort, handle,
                   fds, sent, delivered, rewrite, lastOp, sweeps, sends, recvs,
                   arrivals>>

\* The scan ran past the last test (Finished:): return the status so far.
AJ_Net_RecvFrom_Finish ==
    /\ dpc = "read"
    /\ scanAt = Len(RecvOrder) + 1
    /\ dpc' = "up" /\ scanAt' = 1
    /\ UNCHANGED <<fdKind, ifs, boundPort, ctx, recvAddr, recvPort, handle,
                   fds, pending, rxTag, rxFrom, status, sent, delivered, rewrite,
                   lastOp, sweeps, sends, recvs, arrivals>>

-----------------------------------------------------------------------------
(* The network: a datagram, or an error (ICMP), queued on an open socket. *)

Arrive ==
    /\ dpc # "down"
    /\ arrivals < MaxArrivals
    /\ \E k \in MSocks, what \in {"data", "error"} :
          /\ Valid(k) /\ IsOpen(fdKind, ctx[k])
          /\ pending[k] = "none"
          /\ pending' = [pending EXCEPT ![k] = what]
    /\ arrivals' = arrivals + 1
    /\ UNCHANGED <<fdKind, ifs, boundPort, ctx, recvAddr, recvPort, handle,
                   dpc, fds, scanAt, rxTag, rxFrom, status, sent, delivered, rewrite,
                   lastOp, sweeps, sends, recvs>>

Next ==
    \/ AJ_Net_MCastUp
    \/ AJ_Net_MCastDown
    \/ AJ_Net_SendTo
    \/ AJ_Net_RecvFrom_Select
    \/ AJ_Net_RecvFrom_Step
    \/ AJ_Net_RecvFrom_Finish
    \/ Arrive

\* select() returns by its timeout and the scan never waits except in a
\* recvfrom() with nothing queued; the caller and the network get no
\* fairness.
Spec == Init /\ [][Next]_vars
        /\ WF_vars(AJ_Net_RecvFrom_Step) /\ WF_vars(AJ_Net_RecvFrom_Finish)

-----------------------------------------------------------------------------
(* Properties.                                                             *)

Statuses == {"OK", "READ", "WRITE", "TIMEOUT"}
Copies == [sock : MSocks, dest : {"group4", "group6", "bcast"},
           ipv : {"none", "iface", "group6"}, ifx : Nat, port : 0..65535]

TypeOK ==
    /\ fdKind \in [FdNums -> FdKinds]
    /\ ctx \in [MSocks -> FdNums \cup {INVALID_SOCKET}]
    /\ recvAddr \in 0..Len(ifs) /\ recvPort \in 0..65535
    /\ handle \in {"zeroed", "bound"}
    /\ dpc \in {"down", "up", "read"}
    /\ fds \subseteq MSocks /\ scanAt \in 1..Len(RecvOrder) + 1
    /\ pending \in [MSocks -> {"none", "data", "error"}]
    /\ rxTag \subseteq {"AJ", "MDNS"} /\ rxFrom \in MSocks \cup {"none"}
    /\ status \in Statuses
    /\ sent \subseteq Copies /\ delivered \subseteq sent
    /\ lastOp \in {"none", "up", "send", "recv", "down"}
    /\ rewrite \in [pkt : TxPackets \cup {<<>>}, found : BOOLEAN, at : Nat]

\* While a sweep is up, every socket of mCastContext that MCastUp left
\* valid is an open datagram socket of its own: a number returned after
\* close() by a socket helper would be reused by the next socket().
CtxSocketsOpen ==
    dpc # "down" =>
        \A k \in MSocks : Valid(k) =>
            /\ fdKind[ctx[k]] = "udp"
            /\ \A j \in MSocks \ {k} : ctx[j] # ctx[k]

\* Every sweep gives back what it took: once MCastUp has failed or
\* MCastDown has run, no datagram socket of the layer is left open.
DownReleasesAll ==
    dpc = "down" => \A f \in FdNums : fdKind[f] # "udp"

\* AJ_Net_MCastUp returns AJ_OK only with a handle the caller can use: bound
\* to mCastContext, whose send, receive and teardown read it with no NULL
\* check (lines 551, 667, 1166), and recording only sockets that are open.
UpHandleUsable ==
    dpc # "down" =>
        /\ HasContext
        /\ \A k \in MSocks : Valid(k) => IsOpen(fdKind, ctx[k])

\* Spec 4.2: the sender info of every copy names the responder as seen from
\* the sending interface: an address of one of this host's interfaces and
\* a port this host listens on (the mDNS receive socket's, or 5353 of the
\* mDNS sockets), whichever copy of the fan-out it rides on.
SenderInfoObserved ==
    \A c \in sent :
        c.ipv # "none" =>
            /\ c.ipv = "iface" /\ c.ifx \in 1..Len(ifs)
            /\ c.port \in {boundPort, MDNS_UDP_PORT}

\* Spec 4.2: a receive whose select() left only sockets with a datagram or
\* an error queued returns: the scan of AJ_Net_RecvFrom reads each of them
\* at most once, in its order, and leaves at the first datagram or past the
\* last test.  (After select() fails with -1 the set holds every socket,
\* and a recvfrom() on one with nothing queued blocks.)
RecvFromReturns ==
    (dpc = "read" /\ scanAt = 1 /\ \A k \in fds : pending[k] # "none")
        ~> dpc = "up"

\* Spec 5: the only suspension points are the readiness wait, bounded by
\* its timeout, and the connect.  So every AJ_Net_RecvFrom that has passed
\* select() returns, whatever the network then does: the scan must not
\* wait in a recvfrom() that select() did not report ready (lines 710-834).
RecvFromBounded == dpc = "read" ~> dpc = "up"

\* RewriteSenderInfo finds the sender-info record of every mDNS packet that
\* has one, and rewrites it where it starts: the backward scan, which
\* starts one byte past the data, restarts on a mismatch and stops short
\* of readPtr, still settles on the last "send" of the packet.
SenderInfoAtRecord ==
    rewrite.pkt # <<>> =>
        /\ rewrite.found <=> MarkerStarts(rewrite.pkt) # {}
        /\ rewrite.found => rewrite.at = Max(MarkerStarts(rewrite.pkt))

=============================================================================
