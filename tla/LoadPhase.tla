----------------------------- MODULE LoadPhase -----------------------------
(***************************************************************************)
(* One phase of the loaded-latency diagnostic (runBufferbloatPhase): the   *)
(* streams transfer what their share of the budget allows, in requests of  *)
(* limited size, while the caller dials the probe address again and again. *)
(* Both stop when the caller's context or the phase's own deadline is      *)
(* over, and the caller waits for the streams before it reports.  What is  *)
(* sent is read from the body by the HTTP transport, which may go on       *)
(* reading after the answer has come.  A unit of data is what is copied at *)
(* a time.                                                                 *)
(***************************************************************************)
EXTENDS Naturals, FiniteSets

CONSTANTS Streams,      \* 1 to 4 of them
          PhaseBudget,  \* 128 MiB for all streams, in units
          RequestSize,  \* 8 MiB for what is sent; what is answered is no longer
          MaxSamples,   \* 64
          MinTransfer,  \* 64 KiB
          MaxLate       \* bound: units read after an answer

ASSUME StreamsAssumption == IsFiniteSet(Streams) /\ Streams # {}
ASSUME SizesAssumption == /\ PhaseBudget \in Nat /\ RequestSize \in Nat \ {0}
                          /\ MaxSamples \in Nat /\ MinTransfer \in Nat /\ MaxLate \in Nat

VARIABLES mode,     \* "download" or "upload"
          stream,   \* the streams: step, budget left, size of what it sends, rest of the body
          total,    \* bytesTransferred
          workers,  \* the counter of the wait group
          closed,   \* whether workersDone is closed
          parent,   \* whether the caller's context is over
          ctx,      \* whether the phase's context is over
          step,     \* of the caller
          samples,  \* the probes that succeeded
          failed,   \* the others
          result,   \* "none", "error", "unsupported" or "supported"
          late      \* history: what the transport read after an answer

loadVars == <<mode, stream, total, workers, closed, parent, ctx, step, samples, failed,
              result, late>>
group == <<workers, closed>>
streamVars == <<stream, total, late, group>>
callerVars == <<step, samples, failed, result>>
contexts == <<parent, ctx>>

Share == PhaseBudget \div Cardinality(Streams)

LoadInit == /\ mode \in {"download", "upload"}
            /\ stream = [s \in Streams |-> [step |-> "loop", remaining |-> Share,
                                            size |-> 0, body |-> 0]]
            /\ total = 0
            /\ workers = Cardinality(Streams)
            /\ closed = FALSE
            /\ parent = FALSE
            /\ ctx = FALSE
            /\ step = "warm up"
            /\ samples = 0
            /\ failed = 0
            /\ result = "none"
            /\ late = 0

-----------------------------------------------------------------------------
(* A stream: loadDownload or loadUpload.                                   *)

Min2(a, b) == IF a < b THEN a ELSE b

\* A successful answer has any length, none included.
Request(s) ==
  /\ stream[s].step = "loop"
  /\ stream[s].remaining > 0 /\ ~ctx
  /\ \/ /\ mode = "upload"
        /\ LET size == Min2(stream[s].remaining, RequestSize)
           IN stream' = [stream EXCEPT ![s] = [@ EXCEPT !.step = "transfer", !.size = size,
                                                        !.body = size]]
     \/ /\ mode = "download"
        /\ \E length \in 0..RequestSize :
             stream' = [stream EXCEPT ![s] = [@ EXCEPT !.step = "transfer", !.body = length]]
  /\ UNCHANGED <<mode, total, group, late, contexts, callerVars>>

\* The load function has returned; its goroutine leaves the wait group.
Leaves(s) == /\ stream' = [stream EXCEPT ![s].step = "done"]
             /\ workers' = workers - 1
             /\ UNCHANGED <<mode, total, closed, late, contexts, callerVars>>

LoadEnds(s) ==
  /\ stream[s].step = "loop"
  /\ stream[s].remaining = 0 \/ ctx
  /\ Leaves(s)

RequestFailsInGroup(s) ==
  /\ stream[s].step \in {"transfer", "answer"}
  /\ stream' = [stream EXCEPT ![s].step = "done"]
  /\ UNCHANGED <<mode, total, group, late, contexts, callerVars>>

\* The server, the connection or the context ends the request.
RequestFails(s) ==
  /\ stream[s].step \in {"transfer", "answer"}
  /\ Leaves(s)

ReceiveUnlimited(s) ==
  /\ mode = "download" /\ stream[s].step = "transfer"
  /\ IF stream[s].body = 0
     THEN stream' = [stream EXCEPT ![s].step = "loop"] /\ UNCHANGED total
     ELSE /\ total' = total + 1
          /\ stream' = [stream EXCEPT ![s].body = @ - 1]
  /\ UNCHANGED <<mode, group, late, contexts, callerVars>>

\* countingLimitWriter: the copy ends with the body or with the budget.
Receive(s) ==
  /\ mode = "download" /\ stream[s].step = "transfer"
  /\ IF stream[s].body = 0
     THEN stream' = [stream EXCEPT ![s].step = "loop"] /\ UNCHANGED total
     ELSE /\ total' = total + 1
          /\ stream' = [stream EXCEPT ![s].body = @ - 1, ![s].remaining = @ - 1,
                         ![s].step = IF stream[s].remaining = 1 THEN "loop" ELSE "transfer"]
  /\ UNCHANGED <<mode, group, late, contexts, callerVars>>

\* patternReader, read by the transport, which does not stop with the answer
\* or the failure of a request.
Send(s) ==
  /\ mode = "upload" /\ stream[s].body > 0
  /\ stream[s].step # "transfer" => late < MaxLate
  /\ stream' = [stream EXCEPT ![s].body = @ - 1]
  /\ total' = total + 1
  /\ late' = IF stream[s].step = "transfer" THEN late ELSE late + 1
  /\ UNCHANGED <<mode, group, contexts, callerVars>>

\* The answer may come before all was sent; what was read then is counted.
Answer(s) ==
  /\ mode = "upload" /\ stream[s].step = "transfer"
  /\ stream' = [stream EXCEPT ![s].step = "answer",
                              ![s].remaining = @ - (stream[s].size - stream[s].body)]
  /\ UNCHANGED <<mode, total, group, late, contexts, callerVars>>

CloseAnswer(s) ==
  /\ stream[s].step = "answer"
  /\ stream' = [stream EXCEPT ![s].step = "loop"]
  /\ UNCHANGED <<mode, total, group, late, contexts, callerVars>>

Stream(s) == \/ Request(s) \/ LoadEnds(s) \/ RequestFails(s)
             \/ Receive(s) \/ Send(s) \/ Answer(s) \/ CloseAnswer(s)

CloseAfterFirst ==
  /\ ~closed /\ workers < Cardinality(Streams)
  /\ closed' = TRUE
  /\ UNCHANGED <<mode, stream, total, workers, late, contexts, callerVars>>

\* The goroutine that waits for the group.
CloseWorkersDone ==
  /\ ~closed /\ workers = 0
  /\ closed' = TRUE
  /\ UNCHANGED <<mode, stream, total, workers, late, contexts, callerVars>>

-----------------------------------------------------------------------------
(* The caller.                                                             *)

CallerGoes(to) == step' = to /\ UNCHANGED <<mode, streamVars, parent, samples, failed>>

\* The warm-up ends with the timer, the streams or the caller's context.
WarmUpEnds ==
  /\ step = "warm up"
  /\ CallerGoes(IF parent THEN "drain" ELSE "probe")
  /\ ctx' = (ctx \/ parent)
  /\ UNCHANGED result

Enough == samples + failed >= MaxSamples

ProbeAgain ==
  /\ step = "probe"
  /\ ~Enough /\ ~ctx /\ ~closed
  /\ CallerGoes("dial")
  /\ UNCHANGED <<ctx, result>>

\* probeTCP fails when the context is over, and also on its own.
Dial ==
  /\ step = "dial"
  /\ step' = "pause"
  /\ \/ samples' = samples + 1 /\ UNCHANGED failed
     \/ failed' = failed + 1 /\ UNCHANGED samples
  /\ UNCHANGED <<mode, streamVars, contexts, result>>

Pause ==
  /\ step = "pause"
  /\ ~ctx
  /\ CallerGoes("probe")
  /\ UNCHANGED <<ctx, result>>

ProbingEnds ==
  /\ \/ step = "probe" /\ Enough
     \/ step \in {"probe", "pause"} /\ (ctx \/ closed)
  /\ CallerGoes("drain")
  /\ ctx' = TRUE
  /\ UNCHANGED result

\* cancel, <-workersDone, and what the phase amounts to.
Report ==
  /\ step = "drain"
  /\ closed
  /\ CallerGoes("returned")
  /\ result' = IF parent THEN "error"
               ELSE IF total >= MinTransfer /\ samples >= 3 THEN "supported"
               ELSE "unsupported"
  /\ UNCHANGED ctx

Caller == WarmUpEnds \/ ProbeAgain \/ Dial \/ Pause \/ ProbingEnds \/ Report

\* The request is cancelled, or the duration of the phase is over.
Cancel == /\ ~parent /\ step # "returned"
          /\ parent' = TRUE /\ ctx' = TRUE
          /\ UNCHANGED <<mode, streamVars, callerVars>>

Expire == /\ ~ctx
          /\ ctx' = TRUE
          /\ UNCHANGED <<mode, streamVars, parent, callerVars>>

LoadNext == (\E s \in Streams : Stream(s)) \/ CloseWorkersDone \/ Caller \/ Cancel \/ Expire

-----------------------------------------------------------------------------

\* When the phase has returned, by whichever of its ways out, none of its
\* streams is still in a request, so that the next phase is measured without
\* the load of this one: the caller knows it only from a channel, which is
\* closed for a counter that the streams count down as they end or fail.
QuietWhenReturned == step = "returned" => \A s \in Streams : stream[s].step = "done"

\* A direction transfers no more than its budget, but for what the transport
\* has read of a body that was answered already.
BytesBounded == total <= PhaseBudget + late

=============================================================================
