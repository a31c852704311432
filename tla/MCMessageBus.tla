---------------------------- MODULE MCMessageBus ----------------------------
(* Two consumers, one of which also reads a second topic; two transactions that   *)
(* write to a shared partition and to one of their own.                           *)
EXTENDS MessageBus, TLC

CONSTANTS c1, c2, x1, x2, m1, m2, m3

MCTopics == (c1 :> {"orders"}) @@ (c2 :> {"orders", "events"})

MCNumPartitions == [t \in {"orders", "events"} |-> IF t = "orders" THEN 3 ELSE 1]

MCTxOf == (m1 :> x1) @@ (m2 :> x1) @@ (m3 :> x2)

MCPlace == (m1 :> <<"transactions", 0>>) @@ (m2 :> <<"transactions", 0>>)
           @@ (m3 :> <<"audit", 1>>)

\* One transaction over two topics.
OneTx == (m1 :> x1) @@ (m2 :> x1)

TwoTopics == (m1 :> <<"transactions", 0>>) @@ (m2 :> <<"audit", 0>>)
=============================================================================
