----------------------------- MODULE SidecarHost -----------------------------
(***************************************************************************)
(* The Rust host between the windows and the sidecar.  It owns at most one *)
(* child, behind a mutex; a reader per process forwards its results to the *)
(* windows and, when the process ends, lets the windows know, unless the   *)
(* child was taken or replaced in the meantime.  Closing the main window   *)
(* asks the sidecar to stop and waits five seconds for it.                 *)
(*                                                                         *)
(* A command is written to the pipe of the child under the mutex, and a    *)
(* write that finds no room waits there until the child reads or ends:     *)
(* meanwhile whatever needs the mutex waits too.                           *)
(*                                                                         *)
(* The commands sidecar_start, sidecar_write and sidecar_stop are written  *)
(* as what they do to the state of the host and the process; module        *)
(* BackendClient joins them to the windows that invoke them.               *)
(***************************************************************************)
EXTENDS SidecarServer

CONSTANTS Clients, \* the windows, each with a client of its own
          PipeRoom \* commands that fit in the pipe to a process
ASSUME PipeAssumption == PipeRoom \in Nat \ {0}

\* An ID stands for the window that drew it, what it is for, and a number.
ASSUME RequestsAssumption == /\ Calls \subseteq Clients \X {"call"} \X Nat
                             /\ Handshakes \subseteq Clients \X {"handshake"} \X Nat

\* The window that sent a command.  Its result goes to every window, and the
\* others ignore it.
Owner(r) == r[1]

VARIABLES child,      \* the process the host owns, 0 for None
          generation, \* processes started so far
          reader,     \* "none", "reading", "claimed" or "finished"
          mail,       \* readers whose lifecycle event is on its way to a window
          exit,       \* "no", "closing", "exiting" or "exited"
          writer      \* the command whose write holds the mutex and waits for room

hostVars == <<child, generation, reader, mail, exit, writer>>

NoCommand == [kind |-> "none"]

HostTypeOK == /\ child \in Generations \cup {0}
              /\ generation \in Generations \cup {0}
              /\ reader \in [Generations -> {"none", "reading", "claimed", "finished"}]
              /\ mail \in [Clients -> SUBSET Generations]
              /\ exit \in {"no", "closing", "exiting", "exited"}
              /\ writer \in Commands \cup {Shutdown, NoCommand}

HostInit == /\ child = 0
            /\ generation = 0
            /\ reader = [g \in Generations |-> "none"]
            /\ mail = [c \in Clients |-> {}]
            /\ exit = "no"
            /\ writer = NoCommand

-----------------------------------------------------------------------------
(* The commands of the windows                                             *)

\* The mutex of the child can be taken.
LockFree == writer = NoCommand

\* sidecar_start, under the mutex.
Spawn ==
    /\ LockFree
    /\ exit = "no"
    /\ child = 0
    /\ generation + 1 \in Generations
    /\ generation' = generation + 1
    /\ child' = generation + 1
    /\ proc' = [proc EXCEPT ![generation + 1] = "running"]
    /\ reader' = [reader EXCEPT ![generation + 1] = "reading"]
    /\ UNCHANGED <<mail, exit, writer, input, call, cancelled, output, executed>>

\* Another window has started the child before.
AlreadyStarted == /\ LockFree
                  /\ exit = "no" /\ child # 0
                  /\ UNCHANGED <<hostVars, serverVars>>

\* "Application is exiting", or the process could not be started.
StartRefused == LockFree /\ (child = 0 \/ exit # "no")

\* The child has not ended; the host may not know yet that it has.
ChildAlive == \E g \in Generations : child = g /\ Alive(g)

HasRoom == child \in Generations /\ Len(input[child]) < PipeRoom

\* The write of c has the mutex, or can take it.
Writes(c) == writer \in {NoCommand, c}

\* sidecar_write: what is written to a process that ended is lost.
WriteCommand(c) ==
    /\ Writes(c)
    /\ child # 0
    /\ ChildAlive => HasRoom
    /\ input' = IF ChildAlive THEN [input EXCEPT ![child] = Append(@, c)] ELSE input
    /\ writer' = NoCommand
    /\ UNCHANGED <<child, generation, reader, mail, proc, call, cancelled, output, executed>>

\* "Optimization backend is not running", or a broken pipe.
WriteRefused(c) == /\ Writes(c)
                   /\ ~ChildAlive
                   /\ writer' = NoCommand
                   /\ UNCHANGED <<child, generation, reader, mail, serverVars>>

\* The pipe of a child that does not read is full.
WriteBlocks(c) == /\ LockFree
                  /\ ChildAlive /\ ~HasRoom
                  /\ writer' = c
                  /\ UNCHANGED <<child, generation, reader, mail, serverVars>>

\* Takes the child, if there is one, and kills it.
TakeChild ==
    /\ child' = 0
    /\ IF child = 0 THEN UNCHANGED serverVars ELSE EndProcess(child)

\* sidecar_stop kills whatever child there is.
Stop == LockFree /\ TakeChild /\ UNCHANGED <<generation, reader, mail, exit, writer>>

-----------------------------------------------------------------------------
(* forward_events: the reader of process g                                 *)

\* A result goes to the windows.  It is taken from the pipe when its window
\* gets the event: the events of one reader arrive in their order.
Emit(g, r) ==
    /\ exit # "exited"
    /\ reader[g] = "reading"
    /\ output[g] # <<>>
    /\ r = Head(output[g])
    /\ output' = [output EXCEPT ![g] = Tail(@)]
    /\ UNCHANGED <<hostVars, proc, input, call, cancelled, executed>>

\* The reader takes its child from the host but leaves it running.
ClaimWithoutKill(g) ==
    /\ LockFree
    /\ reader' = [reader EXCEPT ![g] = IF child = g THEN "claimed" ELSE "finished"]
    /\ child' = IF child = g THEN 0 ELSE child
    /\ UNCHANGED <<generation, mail, exit, writer, serverVars>>

\* A reader takes and kills the child only if it is its own.
Claim(g) ==
    /\ LockFree
    /\ reader' = [reader EXCEPT ![g] = IF child = g THEN "claimed" ELSE "finished"]
    /\ IF child = g THEN TakeChild ELSE UNCHANGED <<child, serverVars>>
    /\ UNCHANGED <<generation, mail, exit, writer>>

\* The process has ended and its output is read.
EndOfEvents(g) ==
    /\ exit # "exited"
    /\ reader[g] = "reading"
    /\ proc[g] = "ended"
    /\ output[g] = <<>>
    /\ Claim(g)

\* A bad frame or a failing pipe, whatever the process does.
ReadError(g) ==
    /\ exit # "exited"
    /\ reader[g] = "reading"
    /\ Claim(g)

\* The event is sent when the mutex is free again, to the windows that listen.
EmitLifecycle(g, listening) ==
    /\ exit # "exited"
    /\ reader[g] = "claimed"
    /\ reader' = [reader EXCEPT ![g] = "finished"]
    /\ mail' = [c \in Clients |-> IF c \in listening THEN mail[c] \cup {g} ELSE mail[c]]
    /\ UNCHANGED <<child, generation, exit, writer, serverVars>>

-----------------------------------------------------------------------------
(* The end of the application                                              *)

\* begin_graceful_exit, which only the first call passes.
BeginExit ==
    /\ exit = "no"
    /\ exit' = "closing"
    /\ UNCHANGED <<child, generation, reader, mail, writer, serverVars>>

\* It writes a shutdown, if there is a child, and starts to wait.
WriteShutdown ==
    /\ exit = "closing"
    /\ \/ /\ WriteCommand(Shutdown) \/ WriteRefused(Shutdown)
          /\ exit' = "exiting"
       \/ WriteBlocks(Shutdown) /\ UNCHANGED exit

\* The wait is over when there is no child any more, or after its time.  The
\* readers and windows go with the application, and so do all the events.
FinishExit ==
    /\ LockFree
    /\ exit = "exiting"
    /\ exit' = "exited"
    /\ TakeChild
    /\ reader' = [g \in Generations |-> "finished"]
    /\ mail' = [c \in Clients |-> {}]
    /\ UNCHANGED <<generation, writer>>

HostStep(listening) ==
    \/ \E g \in Generations : EndOfEvents(g) \/ EmitLifecycle(g, listening)
    \/ WriteShutdown
    \/ FinishExit
=============================================================================
