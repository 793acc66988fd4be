------------------------------ MODULE Registry ------------------------------
(***************************************************************************)
(* CandidateRegistry: the routing-node response list that discovery fills *)
(* with AJ_AddRoutingNodeToResponseList and the connector drains with     *)
(* AJ_SelectRoutingNodeFromResponseList, and the process-wide             *)
(* AJ_Initialize (src/src/aj_init.c) that resets it.  The list itself is  *)
(* not in this repository's sources: its operations are modelled from     *)
(* spec 4.1 as an array of at most CAP entries that is scanned linearly,  *)
(* the first entry winning a tie, and are checked against                 *)
(* src/unit_test/DiscoveryTest.cc and against RegistryAbstract.          *)
(***************************************************************************)
EXTENDS Naturals, Sequences, SequencesExt, Bags, BagsExt

CONSTANTS
    Cands,      \* the AJ_Service records discovery can deliver
    CAP,        \* capacity of the response list
    NoService,  \* the zeroed AJ_Service the caller passes to Select
    MaxOps      \* bound on Add and Select calls in one behaviour

VARIABLES
    list,         \* the response list, in slot order
    initialized,  \* static uint8_t initialized (aj_init.c line 39)
    out,          \* the caller's AJ_Service, filled in by a successful Select
    status,       \* what the last Select returned
    ops,          \* Add and Select calls made
    admitted,     \* history: bag of the candidates added since the last reset
    drained       \* history: a Select was made since the last reset

vars == <<list, initialized, out, status, ops, admitted, drained>>

-----------------------------------------------------------------------------
\* Rank (spec 2): the higher protocol version outranks; within one version
\* the lower priority value does.
Outranks(a, b) ==
    \/ a.pv > b.pv
    \/ a.pv = b.pv /\ a.priority < b.priority

\* The slot the eviction scan settles on: the first of the lowest-ranked.
WorstIndex(l) ==
    LET RECURSIVE Scan(_)
        Scan(i) == IF i = 1 THEN 1
                   ELSE LET w == Scan(i - 1)
                        IN IF Outranks(l[w], l[i]) THEN i ELSE w
    IN Scan(Len(l))

\* The slot Select takes: the first of the highest-ranked.
BestIndex(l) ==
    LET RECURSIVE Scan(_)
        Scan(i) == IF i = 1 THEN 1
                   ELSE LET b == Scan(i - 1)
                        IN IF Outranks(l[i], l[b]) THEN i ELSE b
    IN Scan(Len(l))

\* Mutant: an equal-ranked candidate evicts the worst entry.
Evicts_onEqual(c, w) == ~Outranks(w, c)

\* A full list gives up its worst entry only to a strictly better one.
Evicts(c, w) == Outranks(c, w)

\* Mutant: the capacity test admits one entry too many.
AdmitTo_offByOne(l, c) ==
    IF Len(l) <= CAP THEN Append(l, c)
    ELSE LET w == WorstIndex(l)
         IN IF Evicts(c, l[w]) THEN [l EXCEPT ![w] = c] ELSE l

\* Admit: append while there is room, else replace the worst if beaten.
AdmitTo(l, c) ==
    IF Len(l) < CAP THEN Append(l, c)
    ELSE LET w == WorstIndex(l)
         IN IF Evicts(c, l[w]) THEN [l EXCEPT ![w] = c] ELSE l

\* Select: remove the best entry and return it, or END_OF_DATA.
SelectFrom(l) ==
    IF l = <<>> THEN [list |-> l, status |-> "END_OF_DATA"]
    ELSE [list |-> RemoveAt(l, BestIndex(l)), status |-> "OK",
          out |-> l[BestIndex(l)]]

-----------------------------------------------------------------------------
Init ==
    /\ list = <<>>
    /\ initialized = FALSE
    /\ out = NoService
    /\ status = "NONE"
    /\ ops = 0
    /\ admitted = EmptyBag
    /\ drained = FALSE

\* AJ_InitRoutingNodeResponselist: empties the list.
ClearList ==
    /\ list' = <<>>
    /\ admitted' = EmptyBag
    /\ drained' = FALSE

AJ_InitRoutingNodeResponselist ==
    /\ ClearList
    /\ UNCHANGED <<initialized, out, status, ops>>

\* aj_init.c lines 41-63: only the first call of the process does anything;
\* it marks the process initialised and clears the response list (NVRAM,
\* random seed, GUID and black list are outside this model).
AJ_Initialize ==
    /\ initialized' = TRUE
    /\ IF initialized THEN UNCHANGED <<list, admitted, drained>>
                      ELSE ClearList
    /\ UNCHANGED <<out, status, ops>>

AJ_AddRoutingNodeToResponseList(c) ==
    /\ ops < MaxOps
    /\ list' = AdmitTo(list, c)
    /\ ops' = ops + 1
    /\ admitted' = BagAdd(admitted, c)
    /\ UNCHANGED <<initialized, out, status, drained>>

AJ_SelectRoutingNodeFromResponseList ==
    /\ ops < MaxOps
    /\ LET r == SelectFrom(list)
       IN /\ list' = r.list
          /\ status' = r.status
          /\ out' = IF r.status = "OK" THEN r.out ELSE out
    /\ ops' = ops + 1
    /\ drained' = TRUE
    /\ UNCHANGED <<initialized, admitted>>

Next ==
    \/ AJ_Initialize
    \/ AJ_InitRoutingNodeResponselist
    \/ \E c \in Cands : AJ_AddRoutingNodeToResponseList(c)
    \/ AJ_SelectRoutingNodeFromResponseList

\* The caller drives every call; nothing is owed to it.
Spec == Init /\ [][Next]_vars

-----------------------------------------------------------------------------
(* src/unit_test/DiscoveryTest.cc: each test starts from a list that      *)
(* SetUp (lines 42-45) has cleared, adds services in order, and checks     *)
(* what AJ_SelectRoutingNodeFromResponseList fills in.                     *)

\* AJ_Service {addrTypes, ..., ipv4, priority, pv, ipv6}: the fields ranked.
Svc(ipv4, priority, pv) == [addr |-> ipv4, priority |-> priority, pv |-> pv]

AddAll(svcs) == FoldLeft(AdmitTo, <<>>, svcs)

Selected(svcs) == SelectFrom(AddAll(svcs)).out

SelectPriority ==
    Selected(<<Svc(1, 1234, 0), Svc(2, 2345, 0)>>) = Svc(1, 1234, 0)

UpdatePriority ==
    Selected(<<Svc(2, 2345, 0), Svc(1, 1234, 0)>>).priority = 1234

SelectProtocolVersion ==
    Selected(<<Svc(1, 0, 11), Svc(2, 5678, 12)>>) = Svc(2, 5678, 12)

UpdateProtocolVersion ==
    Selected(<<Svc(1, 1234, 11), Svc(1, 5678, 12)>>) = Svc(1, 5678, 12)

ExhaustSelection ==
    LET s1 == SelectFrom(AddAll(<<Svc(1, 1234, 0), Svc(2, 2345, 0)>>))
        s2 == SelectFrom(s1.list)
    IN  /\ s1.status = "OK" /\ s2.status = "OK"
        /\ SelectFrom(s2.list).status = "END_OF_DATA"

SelectPriorityListFullVarious ==
    Selected(<<Svc(3, 3456, 0), Svc(4, 4567, 0), Svc(5, 5678, 0),
               Svc(2, 2345, 0), Svc(1, 1234, 0)>>).addr = 1

SelectPriorityListFullEqual ==
    Selected(<<Svc(3, 3456, 0), Svc(4, 4567, 0), Svc(2, 2345, 0),
               Svc(1, 1234, 0)>>).addr = 1

SelectPriorityListFullDoNotEvict ==
    Selected(<<Svc(3, 3456, 0), Svc(2, 2345, 0), Svc(1, 1234, 0),
               Svc(4, 4567, 0)>>).addr = 1

SelectProtocolVersionListFullEqual ==
    Selected(<<Svc(3, 5678, 11), Svc(4, 5678, 11), Svc(2, 5678, 11),
               Svc(1, 6789, 12)>>).addr = 1

SelectProtocolVersionPriorityListFullEqual ==
    Selected(<<Svc(3, 5678, 11), Svc(4, 5678, 11), Svc(2, 5678, 11),
               Svc(1, 1234, 12)>>).addr = 1

\* Every ranking test of DiscoveryTest.cc (lines 70-217).
DiscoveryTestsPass ==
    /\ SelectPriority /\ UpdatePriority
    /\ SelectProtocolVersion /\ UpdateProtocolVersion
    /\ ExhaustSelection
    /\ SelectPriorityListFullVarious /\ SelectPriorityListFullEqual
    /\ SelectPriorityListFullDoNotEvict
    /\ SelectProtocolVersionListFullEqual
    /\ SelectProtocolVersionPriorityListFullEqual

-----------------------------------------------------------------------------
(* Properties.                                                             *)

TypeOK ==
    /\ list \in Seq(Cands) /\ Len(list) <= CAP
    /\ initialized \in BOOLEAN
    /\ out \in Cands \cup {NoService}
    /\ status \in {"NONE", "OK", "END_OF_DATA"}
    /\ ops \in 0..MaxOps
    /\ IsABag(admitted) /\ BagToSet(admitted) \subseteq Cands
    /\ drained \in BOOLEAN

\* The list as the bag RegistryAbstract speaks of.
ABS == INSTANCE RegistryAbstract WITH held <- ToBag(list)

(* The slot array with its scans and the once-only AJ_Initialize           *)
(* implements the abstract registry of spec 4.1: capacity, strict-only    *)
(* eviction of a worst entry, best-first destructive Select, END_OF_DATA  *)
(* on empty, and resets; so successive Selects drain best first.          *)
Refines == ABS!Spec
=============================================================================
