--------------------------- MODULE ExclusiveRight ---------------------------
(***************************************************************************)
(* What every lock of solutions/challenge09_solution.go promises its       *)
(* callers, whatever its mechanism (TTL entry, Redlock quorum, lease): the *)
(* right to a resource is granted to a client only while nobody else has   *)
(* an unexpired right to it, and may be lost at any time (by release, by   *)
(* expiry or by a crash of the client).                                    *)
(***************************************************************************)
CONSTANTS Clients, Resources

VARIABLE owners   \* [Resources -> SUBSET Clients]: unexpired rights

Init == owners = [r \in Resources |-> {}]

\* One client is given the right, or has its own right renewed.
Grant(c, r) ==
    /\ owners[r] \subseteq {c}
    /\ owners' = [owners EXCEPT ![r] = {c}]

\* Rights end; several may end together because time passes for all of them.
Lose ==
    /\ owners' \in [Resources -> SUBSET Clients]
    /\ \A r \in Resources : owners'[r] \subseteq owners[r]

Next == Lose \/ \E c \in Clients, r \in Resources : Grant(c, r)

Spec == Init /\ [][Next]_owners

\* Never two clients with an unexpired right to the same resource.
Exclusion == \A r \in Resources : \A c, d \in owners[r] : c = d
=============================================================================
