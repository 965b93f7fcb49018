----------------------------- MODULE RemoteCall -----------------------------
(***************************************************************************)
(* What BackendClient.call promises to the code of a window: a call that   *)
(* was asked is carried out at most once, it may be carried out even after *)
(* its caller gave up, its promise settles once and for good, and it       *)
(* resolves only if the operation took effect.                             *)
(***************************************************************************)
CONSTANT Calls

VARIABLES asked,    \* the calls whose promise exists
          executed, \* those whose operation took effect
          outcome   \* "none" while the promise is open

callVars == <<asked, executed, outcome>>

Init == /\ asked = {}
        /\ executed = {}
        /\ outcome = [k \in Calls |-> "none"]

Ask(k) == /\ k \notin asked
          /\ asked' = asked \cup {k}
          /\ UNCHANGED <<executed, outcome>>

Execute(k) == /\ k \in asked \ executed
              /\ executed' = executed \cup {k}
              /\ UNCHANGED <<asked, outcome>>

Resolve(k) == /\ k \in executed
              /\ outcome[k] = "none"
              /\ outcome' = [outcome EXCEPT ![k] = "resolved"]
              /\ UNCHANGED <<asked, executed>>

\* A lost connection rejects every open call of a window in one turn, and one
\* that cannot be made rejects the call that asked for it.
Reject(K) == /\ K # {}
             /\ \A k \in K : k \in asked /\ outcome[k] = "none"
             /\ outcome' = [k \in Calls |-> IF k \in K THEN "rejected" ELSE outcome[k]]
             /\ UNCHANGED <<asked, executed>>

Next == \/ \E k \in Calls : Ask(k) \/ Execute(k) \/ Resolve(k)
        \/ \E K \in SUBSET Calls : Reject(K)

Spec == Init /\ [][Next]_callVars
=============================================================================
