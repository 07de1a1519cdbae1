-------------------------- MODULE MCBackgroundTasks --------------------------
(* BackgroundTasks on a small instance: of two collection tasks and two     *)
(* syncs, at most MaxLaunches are launched.                                 *)
EXTENDS BackgroundTasks, FiniteSets

CONSTANTS t1, t2, s1, s2, none, MaxLaunches

Launched ==
    {t \in Tasks : async[t].status # "pending" \/ (main.at = "join" /\ main.on = t)}

\* Nothing forces a launch, so that what is cut off is not missed.
FewLaunches == Cardinality(Launched) <= MaxLaunches

=============================================================================
