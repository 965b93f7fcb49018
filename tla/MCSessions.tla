----------------------------- MODULE MCSessions -----------------------------
(***************************************************************************)
(* Three processes and every combination of what they can be asked for, up *)
(* to the order of the processes.                                          *)
(***************************************************************************)
EXTENDS Sessions

\* One combination of each multiset: the kinds in a fixed order.
Rank == [k \in Kinds |-> CASE k = "boost" -> 1 [] k = "profile" -> 2 [] k = "tweak" -> 3
                          [] k = "checkpoint" -> 4 [] k = "restore" -> 5
                          [] k = "startup" -> 6]
Combinations == {f \in [Processes -> Kinds] :
                   \A p, q \in Processes : p < q => Rank[f[p]] <= Rank[f[q]]}

\* The combinations in which a documented promise is broken.
BoostAndStartup == {<<"boost", "startup">>}
CheckpointThenProfile == {<<"checkpoint", "profile", "restore">>}
TweakAndProfile == {<<"checkpoint", "profile", "tweak", "restore">>}
=============================================================================
