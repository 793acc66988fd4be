------------------------------ MODULE FindBus ------------------------------
(***************************************************************************)
(* The connection caller of spec 2 and 6 (AJ_FindBusAndConnect, not in    *)
(* this repository's sources) composed with the components it drives:     *)
(* discovery fills the CandidateRegistry (Registry, instanced with its    *)
(* output renamed), the caller drains it with                             *)
(* AJ_SelectRoutingNodeFromResponseList and hands each candidate to        *)
(* AJ_Net_Connect of the TransportConnector (NetSession), until one       *)
(* connects or the list reports END_OF_DATA.  The connector's descriptor  *)
(* table and globals carry over from one attempt to the next.             *)
(*                                                                         *)
(* The caller is driven by the command-line harness of src/test/ajlite.c  *)
(* (AJ_Main): one AJ_Initialize, one AJ_FindBusAndConnect, then           *)
(* AJ_BusRequestName and a loop of AJ_UnmarshalMsg, whose wait is the     *)
(* AJ_Net_Recv of NetSession, until a call fails.  A shutdown thread may  *)
(* call AJ_Net_Interrupt at any time; the peer sends or fails.            *)
(***************************************************************************)
EXTENDS NetSession

CONSTANTS
    Cands,      \* AJ_Service records discovery can deliver, with .types
    CAP,        \* capacity of the response list
    NoService,  \* the zeroed AJ_Service the caller passes to Select
    MaxOps,     \* bound on Add and Select calls in one behaviour
    Answering   \* the candidates whose endpoint accepts a connection

ASSUME Answering \subseteq Cands /\ \A c \in Cands : c.types \subseteq AddrTypes

VARIABLES
    list, initialized, ops, admitted, drained,  \* the registry (Registry)
    svc,        \* the caller's AJ_Service, filled in by Select
    selStatus,  \* what the last Select returned
    cpc,        \* the caller's phase
    failed,     \* history: candidates of this drain whose connect failed
    main        \* AJ_Main's program counter

R == INSTANCE Registry WITH out <- svc, status <- selStatus

regv   == <<list, initialized, ops, admitted, drained, svc, selStatus>>
callv  == <<cpc, failed, main>>
findVars == <<vars, regv, callv>>

Phases == {"discover", "connect", "drain", "connected", "exhausted"}
MainPcs == {"start", "find", "loop", "recv", "returned"}

\* How the candidate's endpoint treats the attempt: one that answers
\* accepts the stream connect and the datagram handshake; one that does
\* not refuses the stream connect and fails or drops the handshake.
\* Descriptor exhaustion is left to the table itself (CanCreate).
Outcomes(c) ==
    {res \in ConnectResults(c.types) :
        IF c \in Answering
        THEN res[1] = <<TRUE, "ok", "ok">> /\ res[2] = "ok"
        ELSE /\ res[1][1]
             /\ ~UsesArdp(c.types) \/ {res[1][2], res[1][3]}
                                        \subseteq {"unreachable", "noHandshake"}
             /\ res[2] \in {"unreachable", "ok"}
             /\ UsesTcp(c.types) => res[2] = "unreachable"}

-----------------------------------------------------------------------------
FindInit == Init /\ R!Init /\ cpc = "discover" /\ failed = {} /\ main = "start"

\* ajlite.c line 23: AJ_Initialize(), once, before anything else.
MainInitialize ==
    /\ main = "start"
    /\ R!AJ_Initialize
    /\ main' = "find"
    /\ UNCHANGED <<vars, cpc, failed>>

\* Discovery, between drains: a sweep resets the list and admits the
\* services that answer.
Discover ==
    /\ main = "find"
    /\ cpc \in {"discover", "exhausted"}
    /\ \/ R!AJ_InitRoutingNodeResponselist
       \/ \E c \in Cands : R!AJ_AddRoutingNodeToResponseList(c)
    /\ cpc' = "discover"
    /\ UNCHANGED <<vars, failed, main>>

\* The caller asks the list for its next candidate; END_OF_DATA ends the
\* drain.  A drain that starts forgets the failures of the last one.
CallerSelect ==
    /\ main = "find"
    /\ cpc \in {"discover", "drain"}
    /\ R!AJ_SelectRoutingNodeFromResponseList
    /\ cpc' = IF selStatus' = "OK" THEN "connect" ELSE "exhausted"
    /\ failed' = IF cpc = "discover" THEN {} ELSE failed
    /\ UNCHANGED <<vars, main>>

\* The caller connects to the candidate Select filled in; a failure is
\* fatal to that candidate only, and the caller goes back to the list.
CallerConnect ==
    /\ cpc = "connect"
    /\ \E res \in Outcomes(svc) : ConnectWith(svc.types, res)
    /\ cpc' = IF mpc' = "connected" THEN "connected" ELSE "drain"
    /\ failed' = IF mpc' = "connected" THEN failed ELSE failed \cup {svc}
    /\ UNCHANGED <<regv, main>>

\* AJ_FindBusAndConnect gives up when CONNECT_TIMEOUT expires between two
\* attempts; AJ_Main then skips the request and the loop and returns 0
\* (ajlite.c lines 25-38).
FindTimeout ==
    /\ main = "find"
    /\ cpc \in {"discover", "drain", "exhausted"}
    /\ main' = "returned"
    /\ UNCHANGED <<vars, regv, cpc, failed>>

\* ajlite.c lines 25-28: AJ_FindBusAndConnect returned AJ_OK, and
\* AJ_BusRequestName is sent on the connection; AJ_OK enters the loop,
\* any other status ends AJ_Main.
MainRequestName ==
    /\ main = "find" /\ cpc = "connected"
    /\ \E ok \in BOOLEAN : main' = IF ok THEN "loop" ELSE "returned"
    /\ UNCHANGED <<vars, regv, cpc, failed>>

\* Lines 29-31: while (status == AJ_OK), AJ_UnmarshalMsg waits for the
\* next message with UNMARSHAL_TIMEOUT in AJ_Net_Recv.
MainUnmarshal ==
    /\ main = "loop"
    /\ AJ_Net_Recv_Arm
    /\ main' = "recv"
    /\ UNCHANGED <<regv, cpc, failed>>

\* Mutant: the loop waits again after a timing-class result (spec 7), as
\* an application loop that skips AJ_ERR_TIMEOUT and AJ_ERR_INTERRUPTED.
MainHandle_rewait ==
    /\ main = "recv" /\ mpc = "connected"
    /\ \E ok \in BOOLEAN :
          main' = IF status \in {"OK", "TIMEOUT", "INTERRUPTED"} /\ ok
                  THEN "loop" ELSE "returned"
    /\ UNCHANGED <<vars, regv, cpc, failed>>

\* Lines 31-36: the receive has returned; a message (AJ_OK) goes to
\* AJ_BusHandleBusMessage, whose status is the loop's; AJ_ERR_TIMEOUT,
\* AJ_ERR_INTERRUPTED or AJ_ERR_READ ends the loop and AJ_Main returns 0
\* without disconnecting.
MainHandle ==
    /\ main = "recv" /\ mpc = "connected"
    /\ \E ok \in BOOLEAN :
          main' = IF status = "OK" /\ ok THEN "loop" ELSE "returned"
    /\ UNCHANGED <<vars, regv, cpc, failed>>

\* A step of NetSession that runs beside the caller: the select() and
\* return of the harness's receive, the shutdown thread's
\* AJ_Net_Interrupt, and the peer.
Beside(A) == A /\ UNCHANGED <<regv, callv>>

SessionStep ==
    \/ Beside(Select) \/ Beside(AJ_Net_Recv_Finish)
    \/ Beside(AJ_Net_Interrupt_Check) \/ Beside(AJ_Net_Interrupt_Load)
    \/ Beside(AJ_Net_Interrupt_Write)
    \/ Beside(PeerSend) \/ Beside(PeerFail)

FindNext ==
    \/ MainInitialize
    \/ Discover
    \/ CallerSelect
    \/ CallerConnect
    \/ FindTimeout
    \/ MainRequestName
    \/ MainUnmarshal
    \/ MainHandle
    \/ SessionStep

\* The caller's own calls get no fairness: it may stop, and its timeout
\* ends a search.  Once a receive is under way, select() returns by its
\* timeout, the rest of AJ_Net_Recv and AJ_Main's test of its status run
\* on the main thread, and a started AJ_Net_Interrupt completes.
FindSpec == FindInit /\ [][FindNext]_findVars
            /\ WF_findVars(Beside(Select))
            /\ WF_findVars(Beside(AJ_Net_Recv_Finish))
            /\ WF_findVars(MainHandle)
            /\ WF_findVars(Beside(AJ_Net_Interrupt_Load))
            /\ WF_findVars(Beside(AJ_Net_Interrupt_Write))

-----------------------------------------------------------------------------
(* Properties.                                                             *)

FindTypeOK ==
    /\ R!TypeOK
    /\ cpc \in Phases /\ failed \subseteq Cands /\ main \in MainPcs
    /\ fdKind \in [FdNums -> FdKinds]

\* The slot array refines the registry's abstract specification.
Refines == R!Refines

(* Spec 2 and 6: the caller ends on the best candidate that answers.      *)
(* No answering candidate's attempt fails, and a connection is never to a *)
(* candidate that an answering one still in the list outranks.  It needs  *)
(* the list to drain best first and each failed AJ_Net_Connect to give    *)
(* back its descriptors: a descriptor kept by one failed attempt is       *)
(* missing to a later one, which then fails on eventfd() or socket().     *)
ChoosesBestAnswering ==
    /\ failed \cap Answering = {}
    /\ cpc = "connected" =>
          \A x \in R!Range(list) \cap Answering : ~R!Outranks(x, svc)

(* Spec 6, shutdown caller: a wake the shutdown thread signals while      *)
(* AJ_Main waits in AJ_UnmarshalMsg ends AJ_Main.  AJ_Net_Recv must see   *)
(* the eventfd in select(), test it before the socket and drain it, and   *)
(* the harness's loop must stop on AJ_ERR_INTERRUPTED rather than wait    *)
(* again.                                                                  *)
ShutdownEndsMain ==
    (/\ main = "recv" /\ mpc = "select"
     /\ interruptFd # INVALID_SOCKET /\ efdSignalled[interruptFd])
        ~> main = "returned"
=============================================================================
