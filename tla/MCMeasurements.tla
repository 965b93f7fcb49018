--------------------------- MODULE MCMeasurements ---------------------------
(***************************************************************************)
(* Two streams with a budget of two units each, two processes at a time    *)
(* with two services, and three or four benchmark runs.                    *)
(***************************************************************************)
EXTENDS Measurements

TwoMetrics(n, fps, frames) ==
  [1..n -> {"fps" :> f @@ "frame" :> m : f \in fps, m \in frames}]

Sets == TwoMetrics(3, {100, 103}, {50, 51}) \cup TwoMetrics(4, {100, 103}, {50})

=============================================================================
