---------------------------- MODULE SidecarServer ----------------------------
(***************************************************************************)
(* The Go sidecar: Serve reads commands from its standard input one by one *)
(* and answers a handshake itself; every other command runs in a goroutine *)
(* of its own, which writes its result when it is done, under a mutex.  A  *)
(* cancellation only cancels the context of the goroutine.  The host kills *)
(* a process and starts the next one: g numbers the processes.             *)
(*                                                                         *)
(* Results nobody waits for (of a cancel or a shutdown) are left out.      *)
(***************************************************************************)
EXTENDS Naturals, Sequences

CONSTANTS Calls,     \* the IDs of commands that run in a goroutine
          Handshakes \* the IDs of handshakes

Requests == Calls \cup Handshakes

\* At most one process is started for each call.
CONSTANT Generations
ASSUME GenerationsAssumption == Generations \subseteq Nat \ {0}

VARIABLES proc,      \* "none", "running", "draining" or "ended"
          input,     \* commands in the pipe to each process
          call,      \* how far each command is, in the process that read it
          cancelled, \* commands whose context is cancelled
          output,    \* results in the pipe from each process
          executed   \* commands that took effect

serverVars == <<proc, input, call, cancelled, output, executed>>

Commands == [kind : {"request", "cancel"}, id : Requests]
Shutdown == [kind |-> "shutdown"]
Results == [id : Requests, ok : BOOLEAN]

ServerTypeOK ==
    /\ proc \in [Generations -> {"none", "running", "draining", "ended"}]
    /\ input \in [Generations -> Seq(Commands \cup {Shutdown})]
    /\ call \in [Calls -> [in : Generations \cup {0},
                           at : {"unread", "handling", "succeeded", "failed", "answered"}]]
    /\ cancelled \subseteq Calls
    /\ output \in [Generations -> Seq(Results)]
    /\ executed \subseteq Calls

ServerInit == /\ proc = [g \in Generations |-> "none"]
              /\ input = [g \in Generations |-> <<>>]
              /\ call = [k \in Calls |-> [in |-> 0, at |-> "unread"]]
              /\ cancelled = {}
              /\ output = [g \in Generations |-> <<>>]
              /\ executed = {}

\* The commands in server.calls of process g.
Active(g) == {k \in Calls : /\ call[k].in = g
                            /\ call[k].at \in {"handling", "succeeded", "failed"}}

Alive(g) == proc[g] \in {"running", "draining"}

\* The next command of process g, taken from the pipe.
Reads(g, c) == /\ proc[g] = "running"
               /\ input[g] # <<>>
               /\ c = Head(input[g])
               /\ input' = [input EXCEPT ![g] = Tail(input[g])]

Write(g, id, ok) == output' = [output EXCEPT ![g] = Append(@, [id |-> id, ok |-> ok])]

ReadHandshake(g) ==
    \E h \in Handshakes :
        /\ Reads(g, [kind |-> "request", id |-> h])
        /\ Write(g, h, TRUE)
        /\ UNCHANGED <<proc, call, cancelled, executed>>

\* startCall.  IDs are random UUIDs: no command repeats one.
ReadCall(g) ==
    \E k \in Calls :
        /\ Reads(g, [kind |-> "request", id |-> k])
        /\ call' = [call EXCEPT ![k] = [in |-> g, at |-> "handling"]]
        /\ UNCHANGED <<proc, cancelled, output, executed>>

\* A command that is not active any more is not cancelled.
ReadCancel(g) ==
    \E r \in Requests :
        /\ Reads(g, [kind |-> "cancel", id |-> r])
        /\ cancelled' = cancelled \cup ({r} \cap Active(g))
        /\ UNCHANGED <<proc, call, output, executed>>

\* Serve cancels every command and reads no more.
ReadShutdown(g) ==
    /\ Reads(g, Shutdown)
    /\ cancelled' = cancelled \cup Active(g)
    /\ proc' = [proc EXCEPT ![g] = "draining"]
    /\ UNCHANGED <<call, output, executed>>

\* Application.Handle returns, whether or not it minded its context.
Handle(g, k) ==
    /\ Alive(g)
    /\ call[k] = [in |-> g, at |-> "handling"]
    /\ \/ /\ call' = [call EXCEPT ![k] = [@ EXCEPT !.at = "succeeded"]]
          /\ executed' = executed \cup {k}
       \/ /\ call' = [call EXCEPT ![k] = [@ EXCEPT !.at = "failed"]]
          /\ UNCHANGED executed
    /\ UNCHANGED <<proc, input, cancelled, output>>

\* Only cancelled commands are answered as failed.
AnswerSuccess(g, k) ==
    /\ Alive(g)
    /\ call[k].in = g
    /\ call[k].at \in {"succeeded", "failed"}
    /\ Write(g, k, k \notin cancelled)
    /\ call' = [call EXCEPT ![k] = [@ EXCEPT !.at = "answered"]]
    /\ UNCHANGED <<proc, input, cancelled, executed>>

\* A cancelled command is answered as such even if it took effect.
Answer(g, k) ==
    /\ Alive(g)
    /\ call[k].in = g
    /\ call[k].at \in {"succeeded", "failed"}
    /\ Write(g, k, call[k].at = "succeeded" /\ k \notin cancelled)
    /\ call' = [call EXCEPT ![k] = [@ EXCEPT !.at = "answered"]]
    /\ UNCHANGED <<proc, input, cancelled, executed>>

\* The process is killed, or ends by itself: what it did not read is lost,
\* what it wrote is still there.
EndProcess(g) == /\ proc' = [proc EXCEPT ![g] = "ended"]
                 /\ input' = [input EXCEPT ![g] = <<>>]
                 /\ UNCHANGED <<call, cancelled, output, executed>>

\* waitCalls: all have answered, or two seconds are over.
Drained(g) == proc[g] = "draining" /\ EndProcess(g)

ServerStep(g) == \/ ReadHandshake(g) \/ ReadCall(g) \/ ReadCancel(g) \/ ReadShutdown(g)
                 \/ Drained(g)
                 \/ \E k \in Calls : Handle(g, k) \/ Answer(g, k)
=============================================================================
