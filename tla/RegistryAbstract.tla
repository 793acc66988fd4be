-------------------------- MODULE RegistryAbstract --------------------------
(***************************************************************************)
(* What CandidateRegistry promises (spec 2 and 4.1), stated over a bag of *)
(* held candidates with no order and no slots:                            *)
(*   - Admit adds while fewer than CAP are held; when full it evicts one  *)
(*     worst-ranked candidate, and only for a strictly better one;        *)
(*   - Select removes and returns a best-ranked candidate, or reports     *)
(*     END_OF_DATA when nothing is held, leaving the output untouched;    *)
(*   - Reset empties the registry.                                        *)
(* Which of several equal-ranked candidates is evicted or returned is     *)
(* left open here (spec, open question on the tie-break).                 *)
(***************************************************************************)
EXTENDS Naturals, Bags, BagsExt

CONSTANTS
    Cands,      \* the candidates (AJ_Service records) that can be admitted
    CAP,        \* the registry's capacity
    NoService   \* the zeroed AJ_Service the caller starts with

VARIABLES
    held,       \* bag of the candidates the registry holds
    out,        \* the AJ_Service the last successful Select filled in
    status      \* what the last Select returned

vars == <<held, out, status>>

\* Spec 2: a higher protocol version always outranks a lower one; within
\* one protocol version the lower score (priority) outranks the higher.
Outranks(a, b) ==
    \/ a.pv > b.pv
    \/ a.pv = b.pv /\ a.priority < b.priority

Held == BagToSet(held)

IsWorst(c) == \A d \in Held : ~Outranks(c, d)
IsBest(c) == \A d \in Held : ~Outranks(d, c)

Init ==
    /\ held = EmptyBag
    /\ out = NoService
    /\ status = "NONE"

Reset ==
    /\ held' = EmptyBag
    /\ UNCHANGED <<out, status>>

Admit(c) ==
    /\ \/ BagCardinality(held) < CAP /\ held' = BagAdd(held, c)
       \/ /\ BagCardinality(held) = CAP
          /\ \E w \in Held :
                IsWorst(w) /\ Outranks(c, w)
                /\ held' = BagAdd(BagRemove(held, w), c)
       \/ /\ BagCardinality(held) = CAP
          /\ \A w \in Held : IsWorst(w) => ~Outranks(c, w)
          /\ UNCHANGED held
    /\ UNCHANGED <<out, status>>

Select ==
    \/ /\ held # EmptyBag
       /\ \E b \in Held :
            IsBest(b) /\ held' = BagRemove(held, b) /\ out' = b
       /\ status' = "OK"
    \/ /\ held = EmptyBag
       /\ status' = "END_OF_DATA"
       /\ UNCHANGED <<held, out>>

Next ==
    \/ Reset
    \/ \E c \in Cands : Admit(c)
    \/ Select

Spec == Init /\ [][Next]_vars
=============================================================================
