---------------------------- MODULE Measurements ----------------------------
(***************************************************************************)
(* The three diagnostics of which the interface shows a result that the    *)
(* user acts on.  They share no state, so that a behavior is about the one *)
(* that was asked for; the others rest in their first state.               *)
(***************************************************************************)
EXTENDS LoadPhase, BackgroundAdvisor, Benchmarks

VARIABLE asked  \* "bufferbloat", "advisor" or "compare"

vars == <<asked, loadVars, advisorVars, benchmarkVars>>

\* The first state of what was not asked for.
LoadRests == LoadInit /\ mode = "download"
AdvisorRests == AdvisorInit /\ \A p \in Pids : alive[p] = None
BenchmarksRest == LET runs == CHOOSE r \in RunSets : TRUE
                  IN runsBefore = runs /\ runsAfter = runs

Init == \/ asked = "bufferbloat" /\ LoadInit /\ AdvisorRests /\ BenchmarksRest
        \/ asked = "advisor" /\ LoadRests /\ AdvisorInit /\ BenchmarksRest
        \/ asked = "compare" /\ LoadRests /\ AdvisorRests /\ BenchmarksInit

Next == \/ /\ asked = "bufferbloat" /\ LoadNext
           /\ UNCHANGED <<asked, advisorVars, benchmarkVars>>
        \/ /\ asked = "advisor" /\ AdvisorNext
           /\ UNCHANGED <<asked, loadVars, benchmarkVars>>

Spec == Init /\ [][Next]_vars

Asked(A) == asked = "bufferbloat" /\ A /\ UNCHANGED <<asked, advisorVars, benchmarkVars>>

\* The scheduler runs every goroutine, and the deadline comes.
Fairness == /\ WF_vars(Asked(Caller)) /\ WF_vars(Asked(Expire))
            /\ WF_vars(Asked(CloseWorkersDone))
            /\ \A s \in Streams : WF_vars(Asked(Stream(s)))

FairSpec == Spec /\ Fairness

-----------------------------------------------------------------------------

\* A phase that was asked for returns, however the streams, the deadline and
\* a cancellation interleave.
PhaseReturns == asked = "bufferbloat" ~> step = "returned"

=============================================================================
