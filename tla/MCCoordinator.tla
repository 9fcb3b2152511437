--------------------------- MODULE MCCoordinator ---------------------------
(* Coordinator on a small instance.  No definition tells two tasks or two   *)
(* sessions apart, so one assignment of tasks to sessions stands for all    *)
(* that share the sizes of their classes: the partitions of the number 5.   *)
EXTENDS Coordinator, TLC

CONSTANTS t1, t2, t3, t4, t5, k1, k2, k3, k4, k5

Assign(a, b, c, d, e) == t1 :> a @@ t2 :> b @@ t3 :> c @@ t4 :> d @@ t5 :> e

Sessions ==
    {Assign(k1, k1, k1, k1, k1), Assign(k1, k1, k1, k1, k2), Assign(k1, k1, k1, k2, k2),
     Assign(k1, k1, k1, k2, k3), Assign(k1, k1, k2, k2, k3), Assign(k1, k1, k2, k3, k4),
     Assign(k1, k2, k3, k4, k5)}

MCInit == Init /\ key \in Sessions

MCSpec == MCInit /\ [][Next]_vars /\ Fairness
=============================================================================
