----------------------------- MODULE MCFindBus -----------------------------
(* The connection caller over a TCP build, with the registry at the       *)
(* capacity DiscoveryTest.cc implies and three descriptor numbers: one    *)
(* attempt's eventfd and socket, and one to spare.                         *)
EXTENDS FindBus

\* AJ_Service records: two of equal rank (one also advertising TCP6), a
\* better one and the best of a newer protocol version.
MC_Svc(ipv4, priority, pv, types) ==
    [addr |-> ipv4, priority |-> priority, pv |-> pv, types |-> types]
MC_Cands ==
    {MC_Svc(1, 1234, 11, {"TCP4"}), MC_Svc(2, 2345, 11, {"TCP4", "TCP6"}),
     MC_Svc(3, 2345, 11, {"TCP4"}), MC_Svc(4, 5678, 12, {"TCP4"})}

\* The second best and the worst answer: the best refuses, so the caller
\* must fall back past it and past the equal-ranked ones.
MC_Answering == {MC_Svc(1, 1234, 11, {"TCP4"}), MC_Svc(3, 2345, 11, {"TCP4"})}

MC_NoService == MC_Svc(0, 0, 0, {})

MC_FdNums == {3, 4, 5}

\* The list as modelled passes every ranking test of DiscoveryTest.cc at the
\* capacity the tests imply: TLC refuses the model otherwise.
ASSUME R!DiscoveryTestsPass
=============================================================================
