------------------------- MODULE BackendClientProofs -------------------------
(***************************************************************************)
(* Facts about windows, host and sidecars, for any windows, calls, number  *)
(* of processes and failures, and about the cache that a window keeps of   *)
(* the answers.                                                            *)
(*                                                                         *)
(* A sidecar that runs is the child of the host (SidecarOwned): the host   *)
(* kills a child in the step that takes it, starts one only if it has      *)
(* none, and once the application has exited never starts one again.       *)
(*                                                                         *)
(* A window starts the sidecar at most once for each of its calls          *)
(* (ClientsTypeCorrect), so that its handshakes have names of their own.   *)
(*                                                                         *)
(* A window never takes itself for connected to nothing (NeverForgotten).  *)
(* Of a connection that is lost without a trace, its handshake was not     *)
(* written yet: the host will refuse it, and the window disconnect.        *)
(*                                                                         *)
(* A call is what RemoteCall promises (CallsKeepPromise).  A turn may      *)
(* settle many calls, but one at most is resolved: a turn that goes on     *)
(* after the handshake begins with the reply or the result of the          *)
(* handshake.                                                              *)
(*                                                                         *)
(* A cached value misses a mutation that drops it only if its fill was in  *)
(* flight when that returned (OnlyRacesAreStale): a fill that began later  *)
(* has looked at a system which the mutation had changed, and a value from *)
(* before was dropped.                                                     *)
(***************************************************************************)
EXTENDS BackendClient, CachedClient, TLAPS, FiniteSetTheorems

\* The part of the type invariant that ownership rests on, and ownership.
OwnerInv ==
    /\ proc \in [Generations -> {"none", "running", "draining", "ended"}]
    /\ child \in Generations \cup {0}
    /\ exit \in {"no", "closing", "exiting", "exited"}
    /\ \A g \in Generations : Alive(g) => child = g
    /\ exit = "exited" => child = 0

\* A write of c at the host, whatever comes of it.
WriteStep(c) == WriteCommand(c) \/ WriteRefused(c) \/ WriteBlocks(c)

\* It touches the pipe and the mutex only.
LEMMA WriteLeaves ==
    ASSUME NEW c, WriteStep(c)
    PROVE  UNCHANGED <<child, generation, reader, mail, proc, call, cancelled, output, executed>>
  BY DEF WriteStep, WriteCommand, WriteRefused, WriteBlocks, serverVars

\* The steps of the host that write.
LEMMA WritersWrite ==
    /\ \A r \in Requests : HostWrite(r) => WriteStep([kind |-> "request", id |-> r])
    /\ \A r \in Requests : HostCancel(r) => WriteStep([kind |-> "cancel", id |-> r])
    /\ WriteShutdown => WriteStep(Shutdown)
  BY DEF HostWrite, HostCancel, WriteShutdown, WriteStep

\* Steps that neither start nor end a process.
LEMMA Quiet == OwnerInv /\ UNCHANGED <<proc, child, exit>> => OwnerInv'
  BY DEF OwnerInv, Alive

\* A process that ends leaves at most the others to be owned.
LEMMA EndProcessKeeps ==
    ASSUME OwnerInv, NEW g \in Generations, EndProcess(g), UNCHANGED <<child, exit>>
    PROVE  OwnerInv'
  BY DEF OwnerInv, EndProcess, Alive

\* Taking the child leaves no process running.
LEMMA TakeChildKeeps ==
    ASSUME OwnerInv, TakeChild, exit' \in {"no", "closing", "exiting", "exited"}
    PROVE  OwnerInv'
<1> USE GenerationsAssumption
<1>1. CASE child = 0
  BY <1>1 DEF OwnerInv, TakeChild, serverVars, Alive
<1>2. CASE child # 0
  <2>1. child \in Generations /\ child' = 0 /\ proc' = [proc EXCEPT ![child] = "ended"]
    BY <1>2 DEF OwnerInv, TakeChild, EndProcess
  <2>2. \A g \in Generations : ~(Alive(g))'
    BY <2>1 DEF OwnerInv, Alive
  <2> QED BY <2>1, <2>2 DEF OwnerInv
<1> QED BY <1>1, <1>2

\* The steps of a sidecar only ever end it.
LEMMA ServerKeeps ==
    ASSUME OwnerInv, NEW g \in Generations, ServerStep(g), UNCHANGED <<child, exit>>
    PROVE  OwnerInv'
<1>1. CASE ReadHandshake(g) \/ ReadCall(g) \/ ReadCancel(g)
           \/ \E k \in Calls : Handle(g, k) \/ Answer(g, k)
  <2>1. UNCHANGED proc
    BY <1>1 DEF ReadHandshake, ReadCall, ReadCancel, Handle, Answer
  <2> QED BY <2>1, Quiet
<1>2. CASE ReadShutdown(g)
  <2>1. proc[g] = "running" /\ proc' = [proc EXCEPT ![g] = "draining"]
    BY <1>2 DEF ReadShutdown, Reads
  <2> QED BY <2>1 DEF OwnerInv, Alive
<1>3. CASE Drained(g)
  BY <1>3, EndProcessKeeps DEF Drained
<1> QED BY <1>1, <1>2, <1>3 DEF ServerStep

\* A process is started only when the host has no child.
LEMMA SpawnKeeps == OwnerInv /\ Spawn => OwnerInv'
<1> SUFFICES ASSUME OwnerInv, Spawn PROVE OwnerInv'
  OBVIOUS
<1> DEFINE n == generation + 1
<1>1. /\ n \in Generations /\ child = 0 /\ child' = n
      /\ proc' = [proc EXCEPT ![n] = "running"]
      /\ exit = "no" /\ exit' = exit
  BY DEF Spawn
<1>2. \A g \in Generations : ~Alive(g)
  BY <1>1, GenerationsAssumption DEF OwnerInv
<1> HIDE DEF n
<1>3. \A g \in Generations : (Alive(g))' => g = n
  BY <1>1, <1>2 DEF Alive
<1> QED BY <1>1, <1>3 DEF OwnerInv

\* A reader ends its own process or none.
LEMMA ClaimKeeps ==
    ASSUME OwnerInv, NEW g \in Generations, Claim(g)
    PROVE  OwnerInv'
<1>1. CASE child = g
  BY <1>1, TakeChildKeeps DEF Claim, OwnerInv
<1>2. CASE child # g
  BY <1>2, Quiet DEF Claim, serverVars
<1> QED BY <1>1, <1>2

\* One step of the window c for its connection.
LEMMA WindowKeeps ==
    ASSUME OwnerInv, NEW c \in Clients, Window(c)
    PROVE  OwnerInv'
<1>1. CASE StartSidecar(c)
  BY <1>1, SpawnKeeps, Quiet DEF StartSidecar, AlreadyStarted, hostVars, serverVars
<1>2. CASE Started(c) \/ NotStarted(c) \/ LoseConnection(c)
  BY <1>2, Quiet DEF Started, NotStarted, LoseConnection, NoticesEnd, hostVars, serverVars
<1>3. CASE StopSidecar(c)
  BY <1>3, TakeChildKeeps DEF StopSidecar, Stop, OwnerInv
<1> QED BY <1>1, <1>2, <1>3 DEF Window

\* One step of what goes on by itself.
LEMMA ProgressKeeps == OwnerInv /\ Progress => OwnerInv'
<1> SUFFICES ASSUME OwnerInv, Progress PROVE OwnerInv'
  OBVIOUS
<1>1. ASSUME NEW c \in Clients, Window(c) PROVE OwnerInv'
  BY <1>1, WindowKeeps
<1>2. ASSUME NEW r \in Requests, Command(r) PROVE OwnerInv'
  <2>1. CASE HostWrite(r) \/ HostCancel(r)
    BY <2>1, Quiet, WriteLeaves, WritersWrite DEF HostWrite, HostCancel
  <2>2. CASE Written(r) \/ NotWritten(r)
    BY <2>2, Quiet DEF Written, NotWritten, hostVars, serverVars
  <2> QED BY <1>2, <2>1, <2>2 DEF Command
<1>3. ASSUME NEW r \in Requests, GiveUp(r) PROVE OwnerInv'
  BY <1>3, Quiet DEF GiveUp, hostVars, serverVars
<1>4. ASSUME NEW g \in Generations, Consume(g) PROVE OwnerInv'
  BY <1>4, Quiet DEF Consume, Emit, hostVars
<1>5. CASE Host
  <2>1. ASSUME NEW g \in Generations, EndOfEvents(g) PROVE OwnerInv'
    BY <2>1, ClaimKeeps DEF EndOfEvents
  <2>2. ASSUME NEW g \in Generations, NEW W, EmitLifecycle(g, W) PROVE OwnerInv'
    BY <2>2, Quiet DEF EmitLifecycle, serverVars
  <2>3. CASE FinishExit
    BY <2>3, TakeChildKeeps DEF FinishExit
  <2>4. CASE WriteShutdown
    <3>1. UNCHANGED <<proc, child>> /\ exit' \in {"closing", "exiting"}
      BY <2>4, WriteLeaves, WritersWrite DEF WriteShutdown
    <3> QED BY <3>1 DEF OwnerInv, Alive
  <2> QED BY <1>5, <2>1, <2>2, <2>3, <2>4 DEF Host, HostStep
<1> QED BY <1>1, <1>2, <1>3, <1>4, <1>5 DEF Progress

LEMMA OwnerInductive == Spec => []OwnerInv
<1>1. Init => OwnerInv
  BY DEF Init, ServerInit, HostInit, OwnerInv, Alive
<1>2. OwnerInv /\ [Next]_vars => OwnerInv'
  <2> SUFFICES ASSUME OwnerInv, [Next]_vars PROVE OwnerInv'
    OBVIOUS
  <2>1. ASSUME NEW k \in Calls, Ask(k) PROVE OwnerInv'
    BY <2>1, Quiet DEF Ask, hostVars, serverVars
  <2>2. CASE Progress
    BY <2>2, ProgressKeeps
  <2>3. ASSUME NEW g \in Generations, Server(g) PROVE OwnerInv'
    BY <2>3, ServerKeeps DEF Server, hostVars
  <2>4. ASSUME NEW g \in Generations, Crash(g) PROVE OwnerInv'
    BY <2>4, EndProcessKeeps DEF Crash, hostVars
  <2>5. ASSUME NEW g \in Generations, ReaderFails(g) PROVE OwnerInv'
    BY <2>5, ClaimKeeps DEF ReaderFails, ReadError
  <2>6. CASE CloseApplication
    BY <2>6 DEF CloseApplication, BeginExit, OwnerInv, Alive, serverVars
  <2>7. CASE UNCHANGED vars
    BY <2>7, Quiet DEF vars, serverVars, hostVars
  <2> QED BY <2>1, <2>2, <2>3, <2>4, <2>5, <2>6, <2>7 DEF Next
<1> QED BY <1>1, <1>2, PTL DEF Spec

\* sidecar_start, forward_events, stop_on_exit: a sidecar that runs is the
\* child of the host, and none is left when the application has exited.
THEOREM SidecarOwned == Spec => []NoOrphan
<1>1. OwnerInv => NoOrphan
  BY GenerationsAssumption DEF OwnerInv, NoOrphan
<1> QED BY <1>1, OwnerInductive, PTL

-----------------------------------------------------------------------------
(* Turns                                                                   *)

\* The windows that listen to the events of the host.
Listening == {c \in Clients : attempt[c] > 0}

States == {"none", "resolved", "rejected"}

\* How a command goes on when the handshake of its window is over.
GoesOn(r, stat, res) ==
    \/ status'[r] = stat[r] /\ result'[r] = res[r]
    \/ stat[r] = "queued" /\ status'[r] = "sending" /\ result'[r] = res[r]
    \/ stat[r] \notin {"idle", "done"} /\ status'[r] = "done" /\ result'[r] = "rejected"
    \/ /\ stat[r] \notin {"idle", "queued", "done"} /\ status'[r] = stat[r]
       /\ res[r] = "none" /\ result'[r] = "rejected"

\* What a turn of window c comes to.
Turned(c, stat, res, up) ==
    /\ \A r \in Requests : GoesOn(r, stat, res)
    /\ \A r \in Requests : Owner(r) # c => status'[r] = stat[r] /\ result'[r] = res[r]
    /\ \A d \in Clients \ {c} : started'[d] = started[d] /\ starting'[d] = starting[d]
    /\ \/ /\ ~(starting[c] = "handshake" /\ stat[Handshake(c)] = "done")
          /\ status' = stat /\ result' = res
          /\ starting'[c] = starting[c] /\ started'[c] = up
       \/ /\ starting[c] = "handshake" /\ stat[Handshake(c)] = "done"
          /\ \/ /\ res[Handshake(c)] = "resolved"
                /\ starting'[c] = "no" /\ started'[c] = up
             \/ starting'[c] = "stop" /\ started'[c] = FALSE

ClientTypeOK == /\ started \in [Clients -> BOOLEAN]
                /\ starting \in [Clients -> {"no", "start", "up", "down", "handshake", "stop"}]
                /\ status \in [Requests -> Statuses]
                /\ result \in [Requests -> States]

LEMMA SettleType ==
    ASSUME NEW R, NEW stat \in [Requests -> Statuses], NEW res \in [Requests -> States],
           NEW how \in States
    PROVE  /\ SettleStatus(R, stat) \in [Requests -> Statuses]
           /\ SettleResult(R, how, res) \in [Requests -> States]
BY DEF SettleStatus, SettleResult, Statuses, States

LEMMA StartOverTurns ==
    ASSUME ClientTypeOK, NEW c \in Clients, NEW go \in BOOLEAN,
           NEW stat \in [Requests -> Statuses], NEW res \in [Requests -> States],
           StartOver(c, stat, res, go)
    PROVE  /\ status' \in [Requests -> Statuses] /\ result' \in [Requests -> States]
           /\ \A r \in Requests : GoesOn(r, stat, res)
           /\ \A r \in Requests : Owner(r) # c => status'[r] = stat[r] /\ result'[r] = res[r]
BY DEF StartOver, GoesOn, Statuses, States

LEMMA DisconnectTurns ==
    ASSUME ClientTypeOK, NEW c \in Clients,
           NEW stat \in [Requests -> Statuses], NEW res \in [Requests -> States],
           Disconnect(c, stat, res)
    PROVE  /\ status' \in [Requests -> Statuses] /\ result' \in [Requests -> States]
           /\ \A r \in Requests : GoesOn(r, stat, res)
           /\ \A r \in Requests : Owner(r) # c => status'[r] = stat[r] /\ result'[r] = res[r]
<1> DEFINE R == {r \in Requests : Owner(r) = c /\ IsPending(r, stat, res)}
<1>1. status' = SettleStatus(R, stat) /\ result' = SettleResult(R, "rejected", res)
  BY DEF Disconnect
<1>2. \A r \in R : stat[r] \notin {"idle", "queued", "done"} /\ res[r] = "none"
  BY DEF IsPending
<1>3. "rejected" \in States
  BY DEF States
<1>4. status' \in [Requests -> Statuses] /\ result' \in [Requests -> States]
  BY <1>1, <1>3, SettleType
<1>5. \A r \in Requests : r \notin R => status'[r] = stat[r] /\ result'[r] = res[r]
  BY <1>1 DEF SettleStatus, SettleResult
<1>6. \A r \in R : /\ result'[r] = "rejected"
                   /\ status'[r] = IF stat[r] = "waiting" THEN "done" ELSE stat[r]
  BY <1>1 DEF SettleStatus, SettleResult
<1> HIDE DEF R
<1>7. \A r \in Requests : GoesOn(r, stat, res)
  BY <1>2, <1>5, <1>6 DEF GoesOn
<1>8. \A r \in Requests : Owner(r) # c => r \notin R
  BY DEF R
<1> QED
  BY <1>4, <1>5, <1>7, <1>8

LEMMA ContinueTurns ==
    ASSUME ClientTypeOK, NEW c \in Clients, NEW up \in BOOLEAN,
           NEW stat \in [Requests -> Statuses], NEW res \in [Requests -> States],
           Continue(c, stat, res, up)
    PROVE  ClientTypeOK' /\ Turned(c, stat, res, up)
<1> DEFINE over == starting[c] = "handshake" /\ stat[Handshake(c)] = "done"
           good == res[Handshake(c)] = "resolved"
<1>1. CASE ~over
  <2>1. started' = [started EXCEPT ![c] = up] /\ status' = stat /\ result' = res
        /\ UNCHANGED starting
    BY <1>1 DEF Continue
  <2> QED
    BY <1>1, <2>1 DEF Turned, GoesOn, ClientTypeOK
<1>2. CASE over /\ good
  <2>1. started' = [started EXCEPT ![c] = up] /\ StartOver(c, stat, res, up)
    BY <1>2 DEF Continue
  <2>2. starting' = [starting EXCEPT ![c] = "no"]
    BY <2>1 DEF StartOver
  <2> QED
    BY <1>2, <2>1, <2>2, StartOverTurns DEF Turned, ClientTypeOK
<1>3. CASE over /\ ~good
  <2>1. Disconnect(c, stat, res) /\ starting' = [starting EXCEPT ![c] = "stop"]
    BY <1>3 DEF Continue
  <2>2. started' = [started EXCEPT ![c] = FALSE]
    BY <2>1 DEF Disconnect
  <2> QED
    BY <1>3, <2>1, <2>2, DisconnectTurns DEF Turned, ClientTypeOK
<1> QED
  BY <1>1, <1>2, <1>3


-----------------------------------------------------------------------------
(* Types                                                                   *)

LEMMA RequestsKnown ==
    /\ \A r \in Requests : Owner(r) \in Clients
    /\ \A c \in Clients : IsFiniteSet(CallsOf(c)) /\ Cardinality(CallsOf(c)) \in Nat
    /\ \A k \in Calls, h \in Handshakes : k # h
<1>1. \A k \in Calls : k[2] = "call" /\ k[1] \in Clients
  BY RequestsAssumption
<1>2. \A h \in Handshakes : h[2] = "handshake" /\ h[1] \in Clients
  BY RequestsAssumption
<1>3. ASSUME NEW c \in Clients PROVE IsFiniteSet(CallsOf(c)) /\ Cardinality(CallsOf(c)) \in Nat
  <2>1. CallsOf(c) \subseteq Calls
    BY DEF CallsOf
  <2> QED
    BY <2>1, CallsAssumption, FS_Subset, FS_CardinalityType
<1> QED
  BY <1>1, <1>2, <1>3 DEF Requests, Owner

Types == /\ ServerTypeOK /\ HostTypeOK /\ ClientTypeOK
         /\ attempt \in [Clients -> Nat]
         /\ cancels \subseteq Requests
         /\ stopped \subseteq Clients \X Generations
         /\ faults \in 0..MaxFaults

LEMMA SequencesKeepType ==
    ASSUME NEW S, NEW pipes \in [Generations -> Seq(S)], NEW g \in Generations, NEW e \in S
    PROVE  /\ [pipes EXCEPT ![g] = <<>>] \in [Generations -> Seq(S)]
           /\ [pipes EXCEPT ![g] = Append(@, e)] \in [Generations -> Seq(S)]
           /\ pipes[g] # <<>> =>
                /\ [pipes EXCEPT ![g] = Tail(@)] \in [Generations -> Seq(S)]
                /\ Head(pipes[g]) \in S
OBVIOUS

LEMMA WritesType ==
    ASSUME Types, NEW c \in Commands \cup {Shutdown}, WriteStep(c)
    PROVE  /\ ServerTypeOK'
           /\ writer' \in Commands \cup {Shutdown, NoCommand}
<1> USE DEF Types, ServerTypeOK, HostTypeOK
<1>1. CASE WriteCommand(c) /\ ChildAlive
  <2>1. child \in Generations /\ input' = [input EXCEPT ![child] = Append(@, c)]
    BY <1>1 DEF WriteCommand, ChildAlive
  <2>2. input' \in [Generations -> Seq(Commands \cup {Shutdown})]
    BY <2>1, SequencesKeepType
  <2> QED
    BY <1>1, <2>2 DEF WriteCommand
<1>2. CASE WriteCommand(c) /\ ~ChildAlive
  BY <1>2 DEF WriteCommand
<1>3. CASE WriteRefused(c) \/ WriteBlocks(c)
  BY <1>3 DEF WriteRefused, WriteBlocks, serverVars
<1> QED
  BY <1>1, <1>2, <1>3 DEF WriteStep

LEMMA EndsType ==
    ASSUME ServerTypeOK, NEW g \in Generations, EndProcess(g)
    PROVE  ServerTypeOK'
<1>1. input' \in [Generations -> Seq(Commands \cup {Shutdown})]
  BY DEF EndProcess, ServerTypeOK
<1> QED
  BY <1>1 DEF EndProcess, ServerTypeOK

LEMMA TakesType ==
    ASSUME Types, TakeChild
    PROVE  ServerTypeOK' /\ child' = 0
BY EndsType DEF TakeChild, Types, HostTypeOK, serverVars, ServerTypeOK

LEMMA ReadsType ==
    ASSUME Types, NEW g \in Generations, NEW c, Reads(g, c)
    PROVE  input' \in [Generations -> Seq(Commands \cup {Shutdown})]
<1>1. input' = [input EXCEPT ![g] = Tail(@)] /\ input[g] # <<>>
  BY DEF Reads
<1>2. input \in [Generations -> Seq(Commands \cup {Shutdown})]
  BY DEF Types, ServerTypeOK
<1> QED
  BY <1>1, <1>2

LEMMA AnswersType ==
    ASSUME Types, NEW g \in Generations, NEW r \in Requests, NEW ok \in BOOLEAN,
           Write(g, r, ok)
    PROVE  output' \in [Generations -> Seq(Results)]
<1>1. [id |-> r, ok |-> ok] \in Results
  BY DEF Results
<1> QED
  BY <1>1 DEF Write, Types, ServerTypeOK

LEMMA PipesTypeStep ==
    ASSUME Types, [Next]_vars
    PROVE  ServerTypeOK' /\ HostTypeOK'
<1> USE DEF Types, ServerTypeOK, HostTypeOK
<1>1. ASSUME NEW k \in Calls, Ask(k) PROVE ServerTypeOK' /\ HostTypeOK'
  BY <1>1 DEF Ask, hostVars, serverVars
<1>2. ASSUME NEW c \in Clients, StartSidecar(c) PROVE ServerTypeOK' /\ HostTypeOK'
  <2>1. CASE Spawn
    <3> DEFINE n == generation + 1
    <3>1. /\ n \in Generations /\ child' = n /\ generation' = n
          /\ proc' = [proc EXCEPT ![n] = "running"] /\ reader' = [reader EXCEPT ![n] = "reading"]
      BY <2>1 DEF Spawn
    <3> HIDE DEF n
    <3> QED
      BY <2>1, <3>1 DEF Spawn
  <2>2. CASE AlreadyStarted
    BY <2>2 DEF AlreadyStarted, hostVars, serverVars
  <2> QED
    BY <1>2, <2>1, <2>2 DEF StartSidecar, hostVars, serverVars
<1>3. ASSUME NEW c \in Clients, Started(c) PROVE ServerTypeOK' /\ HostTypeOK'
  BY <1>3 DEF Started, hostVars, serverVars
<1>4. ASSUME NEW c \in Clients, NotStarted(c) PROVE ServerTypeOK' /\ HostTypeOK'
  BY <1>4 DEF NotStarted, hostVars, serverVars
<1>5. ASSUME NEW c \in Clients, StopSidecar(c) PROVE ServerTypeOK' /\ HostTypeOK'
  BY <1>5, TakesType DEF StopSidecar, Stop
<1>6. ASSUME NEW c \in Clients, LoseConnection(c) PROVE ServerTypeOK' /\ HostTypeOK'
  BY <1>6 DEF LoseConnection, NoticesEnd, serverVars
<1>7. ASSUME NEW r \in Requests, HostWrite(r) PROVE ServerTypeOK' /\ HostTypeOK'
  <2>1. [kind |-> "request", id |-> r] \in Commands
    BY DEF Commands
  <2>2. WriteStep([kind |-> "request", id |-> r]) /\ UNCHANGED exit
    BY <1>7, WritersWrite DEF HostWrite
  <2> QED
    BY <2>1, <2>2, WritesType, WriteLeaves
<1>8. ASSUME NEW r \in Requests, Written(r) PROVE ServerTypeOK' /\ HostTypeOK'
  BY <1>8 DEF Written, hostVars, serverVars
<1>9. ASSUME NEW r \in Requests, NotWritten(r) PROVE ServerTypeOK' /\ HostTypeOK'
  BY <1>9 DEF NotWritten, hostVars, serverVars
<1>10. ASSUME NEW r \in Requests, GiveUp(r) PROVE ServerTypeOK' /\ HostTypeOK'
  BY <1>10 DEF GiveUp, hostVars, serverVars
<1>40. ASSUME NEW r \in Requests, HostCancel(r) PROVE ServerTypeOK' /\ HostTypeOK'
  <2>1. [kind |-> "cancel", id |-> r] \in Commands
    BY DEF Commands
  <2>2. WriteStep([kind |-> "cancel", id |-> r]) /\ UNCHANGED exit
    BY <1>40, WritersWrite DEF HostCancel
  <2> QED
    BY <2>1, <2>2, WritesType, WriteLeaves
<1>41. ASSUME WriteShutdown PROVE ServerTypeOK' /\ HostTypeOK'
  <2>1. WriteStep(Shutdown) /\ exit' \in {"closing", "exiting"}
    BY <1>41, WritersWrite DEF WriteShutdown
  <2> QED
    BY <2>1, WritesType, WriteLeaves
<1>11. ASSUME NEW g \in Generations, Consume(g) PROVE ServerTypeOK' /\ HostTypeOK'
  <2>1. PICK r \in Results : Emit(g, r)
    BY <1>11 DEF Consume
  <2>2. output' \in [Generations -> Seq(Results)]
    BY <2>1 DEF Emit
  <2> QED
    BY <2>1, <2>2 DEF Emit, hostVars
<1>12. ASSUME NEW g \in Generations, EndOfEvents(g), UNCHANGED <<clientVars, faults>>
      PROVE  ServerTypeOK' /\ HostTypeOK'
  <2>1. Claim(g)
    BY <1>12 DEF EndOfEvents
  <2> QED
    BY <2>1, TakesType DEF Claim, serverVars
<1>13. ASSUME NEW g \in Generations, EmitLifecycle(g, Listening), UNCHANGED <<clientVars, faults>>
      PROVE  ServerTypeOK' /\ HostTypeOK'
  BY <1>13 DEF EmitLifecycle, serverVars
<1>14. ASSUME FinishExit, UNCHANGED <<clientVars, faults>>
      PROVE  ServerTypeOK' /\ HostTypeOK'
  BY <1>14, TakesType DEF FinishExit
<1>15. ASSUME NEW g \in Generations, ReadHandshake(g),
              UNCHANGED <<hostVars, clientVars, faults>>
      PROVE  ServerTypeOK' /\ HostTypeOK'
  <2>1. PICK h \in Handshakes : /\ Reads(g, [kind |-> "request", id |-> h])
                                /\ Write(g, h, TRUE)
                                /\ UNCHANGED <<proc, call, cancelled, executed>>
    BY <1>15 DEF ReadHandshake
  <2>2. h \in Requests
    BY DEF Requests
  <2> QED
    BY <1>15, <2>1, <2>2, ReadsType, AnswersType DEF hostVars
<1>16. ASSUME NEW g \in Generations, ReadCall(g), UNCHANGED <<hostVars, clientVars, faults>>
      PROVE  ServerTypeOK' /\ HostTypeOK'
  <2>1. PICK k \in Calls : /\ Reads(g, [kind |-> "request", id |-> k])
                           /\ call' = [call EXCEPT ![k] = [in |-> g, at |-> "handling"]]
                           /\ UNCHANGED <<proc, cancelled, output, executed>>
    BY <1>16 DEF ReadCall
  <2> QED
    BY <1>16, <2>1, ReadsType DEF hostVars
<1>17. ASSUME NEW g \in Generations, ReadCancel(g), UNCHANGED <<hostVars, clientVars, faults>>
      PROVE  ServerTypeOK' /\ HostTypeOK'
  <2>1. PICK r \in Requests : Reads(g, [kind |-> "cancel", id |-> r])
    BY <1>17 DEF ReadCancel
  <2> QED
    BY <1>17, <2>1, ReadsType DEF ReadCancel, Active, hostVars
<1>18. ASSUME NEW g \in Generations, ReadShutdown(g),
              UNCHANGED <<hostVars, clientVars, faults>>
      PROVE  ServerTypeOK' /\ HostTypeOK'
  BY <1>18, ReadsType DEF ReadShutdown, Active, hostVars
<1>19. ASSUME NEW g \in Generations, Drained(g), UNCHANGED <<hostVars, clientVars, faults>>
      PROVE  ServerTypeOK' /\ HostTypeOK'
  BY <1>19, EndsType DEF Drained, hostVars
<1>20. ASSUME NEW g \in Generations, NEW k \in Calls, Handle(g, k),
              UNCHANGED <<hostVars, clientVars, faults>>
      PROVE  ServerTypeOK' /\ HostTypeOK'
  <2>1. /\ call[k] = [in |-> g, at |-> "handling"]
        /\ \/ /\ call' = [call EXCEPT ![k] = [@ EXCEPT !.at = "succeeded"]]
              /\ executed' = executed \cup {k}
           \/ /\ call' = [call EXCEPT ![k] = [@ EXCEPT !.at = "failed"]]
              /\ UNCHANGED executed
        /\ UNCHANGED <<proc, input, cancelled, output>>
    BY <1>20 DEF Handle
  <2>2. call' \in [Calls -> [in : Generations \cup {0},
                   at : {"unread", "handling", "succeeded", "failed", "answered"}]]
    <3>1. CASE call' = [call EXCEPT ![k] = [@ EXCEPT !.at = "succeeded"]]
      BY <3>1
    <3>2. CASE call' = [call EXCEPT ![k] = [@ EXCEPT !.at = "failed"]]
      BY <3>2
    <3> QED
      BY <2>1, <3>1, <3>2
  <2>3. executed' \subseteq Calls
    BY <2>1
  <2> QED
    BY <1>20, <2>1, <2>2, <2>3 DEF hostVars
<1>21. ASSUME NEW g \in Generations, NEW k \in Calls, Answer(g, k),
              UNCHANGED <<hostVars, clientVars, faults>>
      PROVE  ServerTypeOK' /\ HostTypeOK'
  <2>1. /\ Write(g, k, call[k].at = "succeeded" /\ k \notin cancelled)
        /\ call' = [call EXCEPT ![k] = [@ EXCEPT !.at = "answered"]]
        /\ UNCHANGED <<proc, input, cancelled, executed>>
    BY <1>21 DEF Answer
  <2>2. k \in Requests
    BY DEF Requests
  <2>3. output' \in [Generations -> Seq(Results)]
    BY <2>1, <2>2, AnswersType DEF Types
  <2>4. call' \in [Calls -> [in : Generations \cup {0},
                   at : {"unread", "handling", "succeeded", "failed", "answered"}]]
    BY <2>1
  <2> QED
    BY <1>21, <2>1, <2>3, <2>4 DEF hostVars
<1>22. ASSUME NEW g \in Generations, Crash(g) PROVE ServerTypeOK' /\ HostTypeOK'
  BY <1>22, EndsType DEF Crash, hostVars
<1>23. ASSUME NEW g \in Generations, ReaderFails(g) PROVE ServerTypeOK' /\ HostTypeOK'
  <2>1. Claim(g)
    BY <1>23 DEF ReaderFails, ReadError
  <2> QED
    BY <2>1, TakesType DEF Claim, serverVars
<1>24. ASSUME CloseApplication PROVE ServerTypeOK' /\ HostTypeOK'
  BY <1>24 DEF CloseApplication, BeginExit, serverVars
<1>25. ASSUME UNCHANGED vars PROVE ServerTypeOK' /\ HostTypeOK'
  BY <1>25 DEF vars, hostVars, serverVars
<1>30. ASSUME NEW g \in Generations, Server(g) PROVE ServerTypeOK' /\ HostTypeOK'
  BY <1>30, <1>15, <1>16, <1>17, <1>18, <1>19, <1>20, <1>21 DEF Server,
     ServerStep
<1>31. CASE Host
  BY <1>31, <1>12, <1>13, <1>14, <1>41 DEF Host, HostStep, Listening
<1>32. CASE Progress
  BY <1>32, <1>31, <1>2, <1>3, <1>4, <1>5, <1>6, <1>7, <1>8, <1>9, <1>10,
     <1>11, <1>40 DEF Progress, Window, Command
<1> QED
  BY <1>1, <1>22, <1>23, <1>24, <1>25, <1>30, <1>32 DEF Next


-----------------------------------------------------------------------------
(* What the commands of a window come to                                   *)

\* One command at the beginning of a turn: its reply arrives, it is given up,
\* or its result arrives.
Moved(r, stat, res) ==
    \/ stat[r] = status[r] /\ res[r] = result[r]
    \/ /\ status[r] = "sent" /\ res[r] = result[r]
       /\ stat[r] = IF result[r] = "none" THEN "waiting" ELSE "done"
    \/ status[r] = "refused" /\ stat[r] = "done" /\ res[r] = "rejected"
    \/ /\ IsPending(r, status, result)
       /\ stat[r] = IF status[r] = "waiting" THEN "done" ELSE status[r]
       /\ res[r] \in {"resolved", "rejected"}

\* A turn of window c.
Turn(c, stat, res, up) ==
    /\ stat \in [Requests -> Statuses] /\ res \in [Requests -> States]
    /\ up \in BOOLEAN /\ (up => started[c])
    /\ \A r \in Requests : Owner(r) # c => stat[r] = status[r] /\ res[r] = result[r]
    /\ \A r \in Requests : Moved(r, stat, res)
    /\ Turned(c, stat, res, up)
    /\ ClientTypeOK'
    /\ UNCHANGED <<attempt, stopped>>
SomeTurn(c) == \E stat, res, up : Turn(c, stat, res, up)

\* Settling commands that are pending.
LEMMA SettleMoves ==
    ASSUME ClientTypeOK, NEW c \in Clients, NEW R \in SUBSET Pending(c),
           NEW how \in {"resolved", "rejected"}
    PROVE  LET stat == SettleStatus(R, status)
               res == SettleResult(R, how, result)
           IN  /\ \A r \in Requests : Moved(r, stat, res)
               /\ \A r \in Requests \ R : stat[r] = status[r] /\ res[r] = result[r]
               /\ \A r \in Requests : Owner(r) # c => r \notin R
<1>1. \A r \in R : r \in Requests /\ Owner(r) = c /\ IsPending(r, status, result)
  BY DEF Pending
<1> QED
  BY <1>1 DEF SettleStatus, SettleResult, Moved

\* Pending commands are settled in one turn.
LEMMA SettleTurns ==
    ASSUME Types, NEW c \in Clients, NEW R \in SUBSET Pending(c),
           NEW how \in {"resolved", "rejected"}, NEW up \in BOOLEAN, up => started[c],
           Continue(c, SettleStatus(R, status), SettleResult(R, how, result), up),
           UNCHANGED <<attempt, stopped>>
    PROVE  Turn(c, SettleStatus(R, status), SettleResult(R, how, result), up)
<1> DEFINE stat == SettleStatus(R, status)
           res == SettleResult(R, how, result)
<1>1. ClientTypeOK /\ how \in States
  BY DEF Types, States
<1>2. stat \in [Requests -> Statuses] /\ res \in [Requests -> States]
  BY <1>1, SettleType DEF ClientTypeOK
<1>3. /\ \A r \in Requests : Moved(r, stat, res)
      /\ \A r \in Requests \ R : stat[r] = status[r] /\ res[r] = result[r]
      /\ \A r \in Requests : Owner(r) # c => r \notin R
  BY <1>1, SettleMoves
<1>4. Continue(c, stat, res, up)
  OBVIOUS
<1> HIDE DEF stat, res
<1>5. ClientTypeOK' /\ Turned(c, stat, res, up)
  BY <1>1, <1>2, <1>4, ContinueTurns
<1>6. Turn(c, stat, res, up)
  BY <1>2, <1>3, <1>5 DEF Turn
<1> QED
  BY <1>6 DEF stat, res

LEMMA WrittenTurns ==
    ASSUME Types, NEW r \in Requests, Written(r)
    PROVE  Turn(Owner(r), [status EXCEPT ![r] = IF result[r] = "none" THEN "waiting" ELSE "done"],
                result, started[Owner(r)])
<1> DEFINE c == Owner(r)
           stat == [status EXCEPT ![r] = IF result[r] = "none" THEN "waiting" ELSE "done"]
<1>1. ClientTypeOK /\ c \in Clients /\ started[c] \in BOOLEAN
  BY RequestsKnown DEF Types, ClientTypeOK
<1>2. stat \in [Requests -> Statuses] /\ result \in [Requests -> States]
  BY <1>1 DEF ClientTypeOK, Statuses
<1>3. status[r] = "sent" /\ Continue(c, stat, result, started[c]) /\ UNCHANGED <<attempt, stopped>>
  BY DEF Written
<1>4. \A q \in Requests : Moved(q, stat, result)
  BY <1>1, <1>3 DEF Moved, ClientTypeOK
<1>5. \A q \in Requests : Owner(q) # c => stat[q] = status[q]
  BY <1>1 DEF ClientTypeOK
<1> HIDE DEF c, stat
<1>6. ClientTypeOK' /\ Turned(c, stat, result, started[c])
  BY <1>1, <1>2, <1>3, ContinueTurns
<1>7. Turn(c, stat, result, started[c])
  BY <1>1, <1>2, <1>3, <1>4, <1>5, <1>6 DEF Turn
<1> QED
  BY <1>7 DEF c, stat

LEMMA NotWrittenTurns ==
    ASSUME Types, NEW r \in Requests, NotWritten(r)
    PROVE  Turn(Owner(r), [status EXCEPT ![r] = "done"], [result EXCEPT ![r] = "rejected"],
                started[Owner(r)])
<1> DEFINE c == Owner(r)
           stat == [status EXCEPT ![r] = "done"]
           res == [result EXCEPT ![r] = "rejected"]
<1>1. ClientTypeOK /\ c \in Clients /\ started[c] \in BOOLEAN
  BY RequestsKnown DEF Types, ClientTypeOK
<1>2. stat \in [Requests -> Statuses] /\ res \in [Requests -> States]
  BY <1>1 DEF ClientTypeOK, Statuses, States
<1>3. status[r] = "refused" /\ Continue(c, stat, res, started[c]) /\ UNCHANGED <<attempt, stopped>>
  BY DEF NotWritten
<1>4. \A q \in Requests : Moved(q, stat, res)
  BY <1>1, <1>3 DEF Moved, ClientTypeOK
<1>5. \A q \in Requests : Owner(q) # c => stat[q] = status[q] /\ res[q] = result[q]
  BY <1>1 DEF ClientTypeOK
<1> HIDE DEF c, stat, res
<1>6. ClientTypeOK' /\ Turned(c, stat, res, started[c])
  BY <1>1, <1>2, <1>3, ContinueTurns
<1>7. Turn(c, stat, res, started[c])
  BY <1>1, <1>2, <1>3, <1>4, <1>5, <1>6 DEF Turn
<1> QED
  BY <1>7 DEF c, stat, res

LEMMA GiveUpTurns ==
    ASSUME Types, NEW r \in Requests, GiveUp(r)
    PROVE  Turn(Owner(r), SettleStatus({r}, status), SettleResult({r}, "rejected", result),
                started[Owner(r)])
<1>1. Owner(r) \in Clients /\ started[Owner(r)] \in BOOLEAN
  BY RequestsKnown DEF Types, ClientTypeOK
<1>2. {r} \in SUBSET Pending(Owner(r))
  BY DEF GiveUp
<1> QED
  BY <1>1, <1>2, SettleTurns DEF GiveUp

LEMMA LoseTurns ==
    ASSUME Types, NEW c \in Clients, LoseConnection(c)
    PROVE  Turn(c, SettleStatus(Pending(c), status),
                SettleResult(Pending(c), "rejected", result), FALSE)
BY SettleTurns DEF LoseConnection, NoticesEnd

LEMMA ConsumeTurns ==
    ASSUME Types, NEW g \in Generations, Consume(g)
    PROVE  \E r \in Results :
             LET R == {r.id} \cap Pending(Owner(r.id))
             IN  /\ Emit(g, r)
                 /\ Turn(Owner(r.id), SettleStatus(R, status),
                         SettleResult(R, IF r.ok THEN "resolved" ELSE "rejected", result),
                         started[Owner(r.id)])
<1>1. PICK r \in Results :
        /\ Emit(g, r)
        /\ LET R == {r.id} \cap Pending(Owner(r.id))
           IN  Continue(Owner(r.id), SettleStatus(R, status),
                        SettleResult(R, IF r.ok THEN "resolved" ELSE "rejected", result),
                        started[Owner(r.id)])
        /\ UNCHANGED <<attempt, stopped, faults>>
  BY DEF Consume
<1>2. r.id \in Requests
  BY DEF Results
<1>3. Owner(r.id) \in Clients /\ started[Owner(r.id)] \in BOOLEAN
  BY <1>2, RequestsKnown DEF Types, ClientTypeOK
<1>4. (IF r.ok THEN "resolved" ELSE "rejected") \in {"resolved", "rejected"}
  OBVIOUS
<1>5. {r.id} \cap Pending(Owner(r.id)) \in SUBSET Pending(Owner(r.id))
  OBVIOUS
<1> QED
  BY <1>1, <1>3, <1>4, <1>5, SettleTurns


\* The commands of window c that wait for the start fail with it, or not.
Frees(c) ==
    /\ starting[c] = "stop" /\ starting' = [starting EXCEPT ![c] = "no"]
    /\ UNCHANGED <<started, attempt>>
    /\ stopped' \in {stopped, stopped \cup {<<c, child>>}}
    /\ child = 0 => stopped' = stopped
    /\ status' \in [Requests -> Statuses] /\ result' \in [Requests -> States]
    /\ \A r \in Requests : GoesOn(r, status, result)
    /\ \A r \in Requests : Owner(r) # c => status'[r] = status[r] /\ result'[r] = result[r]

\* All that a step may do to the windows.
ClientMoves ==
    \/ UNCHANGED <<started, starting, attempt, status, result, stopped>>
    \/ \E c \in Clients : SomeTurn(c)
    \/ \E k \in Calls : Ask(k)
    \/ \E c \in Clients : /\ starting[c] = "start"
                          /\ \E x \in {"up", "down"} : starting' = [starting EXCEPT ![c] = x]
                          /\ UNCHANGED <<started, attempt, status, result, stopped>>
    \/ \E c \in Clients : Started(c) \/ NotStarted(c)
    \/ \E c \in Clients : Frees(c)
    \/ \E r \in Requests : /\ status[r] = "sending"
                           /\ \E x \in {"sent", "refused"} :
                                /\ x = "sent" => child # 0
                                /\ status' = [status EXCEPT ![r] = x]
                           /\ UNCHANGED <<started, starting, attempt, result, stopped>>

\* What the steps do to the windows.
LEMMA ClientMovesStep ==
    ASSUME Types, [Next]_vars
    PROVE  ClientMoves
<1> USE DEF ClientMoves, clientVars
<1>1. ASSUME NEW k \in Calls, Ask(k) PROVE ClientMoves
  BY <1>1 DEF ClientMoves
<1>2. ASSUME NEW c \in Clients, StartSidecar(c) PROVE ClientMoves
  BY <1>2 DEF StartSidecar, ClientMoves
<1>3. ASSUME NEW c \in Clients, Started(c) PROVE ClientMoves
  BY <1>3 DEF ClientMoves
<1>4. ASSUME NEW c \in Clients, NotStarted(c) PROVE ClientMoves
  BY <1>4 DEF ClientMoves
<1>5. ASSUME NEW c \in Clients, StopSidecar(c) PROVE ClientMoves
  <2>1. /\ status' \in [Requests -> Statuses] /\ result' \in [Requests -> States]
        /\ \A r \in Requests : GoesOn(r, status, result)
        /\ \A r \in Requests : Owner(r) # c => status'[r] = status[r] /\ result'[r] = result[r]
    BY <1>5, StartOverTurns DEF StopSidecar, Types, ClientTypeOK
  <2>2. Frees(c)
    BY <1>5, <2>1 DEF StopSidecar, StartOver, Frees
  <2> QED
    BY <2>2 DEF ClientMoves
<1>6. ASSUME NEW c \in Clients, LoseConnection(c) PROVE ClientMoves
  <2>1. SomeTurn(c) /\ UNCHANGED faults
    BY <1>6, LoseTurns DEF SomeTurn, LoseConnection, NoticesEnd
  <2> QED
    BY <2>1 DEF ClientMoves
<1>7. ASSUME NEW r \in Requests, HostWrite(r) PROVE ClientMoves
  BY <1>7, WriteLeaves, WritersWrite DEF HostWrite, WriteCommand, ClientMoves
<1>8. ASSUME NEW r \in Requests, Written(r) PROVE ClientMoves
  <2>1. Owner(r) \in Clients /\ SomeTurn(Owner(r)) /\ UNCHANGED faults
    BY <1>8, RequestsKnown, WrittenTurns DEF SomeTurn, Written
  <2> QED
    BY <2>1 DEF ClientMoves
<1>9. ASSUME NEW r \in Requests, NotWritten(r) PROVE ClientMoves
  <2>1. Owner(r) \in Clients /\ SomeTurn(Owner(r)) /\ UNCHANGED faults
    BY <1>9, RequestsKnown, NotWrittenTurns DEF SomeTurn, NotWritten
  <2> QED
    BY <2>1 DEF ClientMoves
<1>10. ASSUME NEW r \in Requests, GiveUp(r) PROVE ClientMoves
  <2>1. Owner(r) \in Clients /\ SomeTurn(Owner(r)) /\ UNCHANGED faults
    BY <1>10, RequestsKnown, GiveUpTurns DEF SomeTurn, GiveUp
  <2> QED
    BY <2>1 DEF ClientMoves
<1>40. ASSUME NEW r \in Requests, HostCancel(r) PROVE ClientMoves
  BY <1>40 DEF HostCancel, ClientMoves
<1>41. ASSUME WriteShutdown, UNCHANGED <<clientVars, faults>>
      PROVE  ClientMoves
  BY <1>41 DEF ClientMoves, clientVars
<1>11. ASSUME NEW g \in Generations, Consume(g) PROVE ClientMoves
  <2>1. \E c \in Clients : SomeTurn(c) /\ UNCHANGED faults
    <3>1. PICK r \in Results :
            LET R == {r.id} \cap Pending(Owner(r.id))
            IN  Turn(Owner(r.id), SettleStatus(R, status),
                     SettleResult(R, IF r.ok THEN "resolved" ELSE "rejected", result),
                     started[Owner(r.id)])
      BY <1>11, ConsumeTurns
    <3>2. Owner(r.id) \in Clients
      BY RequestsKnown DEF Results
    <3>3. UNCHANGED faults
      BY <1>11 DEF Consume
    <3> QED
      BY <3>1, <3>2, <3>3 DEF SomeTurn
  <2> QED
    BY <2>1 DEF ClientMoves
<1>12. ASSUME NEW g \in Generations, EndOfEvents(g), UNCHANGED <<clientVars, faults>>
      PROVE  ClientMoves
  BY <1>12 DEF EndOfEvents
<1>13. ASSUME NEW g \in Generations, EmitLifecycle(g, Listening), UNCHANGED <<clientVars, faults>>
      PROVE  ClientMoves
  BY <1>13 DEF EmitLifecycle
<1>14. ASSUME FinishExit, UNCHANGED <<clientVars, faults>> PROVE ClientMoves
  BY <1>14 DEF FinishExit
<1>15. ASSUME NEW g \in Generations, ReadHandshake(g),
              UNCHANGED <<hostVars, clientVars, faults>>
      PROVE  ClientMoves
  BY <1>15 DEF ReadHandshake
<1>16. ASSUME NEW g \in Generations, ReadCall(g), UNCHANGED <<hostVars, clientVars, faults>>
      PROVE  ClientMoves
  BY <1>16 DEF ReadCall
<1>17. ASSUME NEW g \in Generations, ReadCancel(g), UNCHANGED <<hostVars, clientVars, faults>>
      PROVE  ClientMoves
  BY <1>17 DEF ReadCancel
<1>18. ASSUME NEW g \in Generations, ReadShutdown(g),
              UNCHANGED <<hostVars, clientVars, faults>>
      PROVE  ClientMoves
  BY <1>18 DEF ReadShutdown
<1>19. ASSUME NEW g \in Generations, Drained(g), UNCHANGED <<hostVars, clientVars, faults>>
      PROVE  ClientMoves
  BY <1>19 DEF Drained
<1>20. ASSUME NEW g \in Generations, NEW k \in Calls, Handle(g, k),
              UNCHANGED <<hostVars, clientVars, faults>>
      PROVE  ClientMoves
  BY <1>20 DEF Handle
<1>21. ASSUME NEW g \in Generations, NEW k \in Calls, Answer(g, k),
              UNCHANGED <<hostVars, clientVars, faults>>
      PROVE  ClientMoves
  BY <1>21 DEF Answer
<1>22. ASSUME NEW g \in Generations, Crash(g) PROVE ClientMoves
  BY <1>22 DEF Crash
<1>23. ASSUME NEW g \in Generations, ReaderFails(g) PROVE ClientMoves
  BY <1>23 DEF ReaderFails
<1>24. ASSUME CloseApplication PROVE ClientMoves
  BY <1>24 DEF CloseApplication
<1>25. ASSUME UNCHANGED vars PROVE ClientMoves
  BY <1>25 DEF vars, clientVars
<1>30. ASSUME NEW g \in Generations, Server(g) PROVE ClientMoves
  BY <1>30, <1>15, <1>16, <1>17, <1>18, <1>19, <1>20, <1>21 DEF Server,
     ServerStep
<1>31. CASE Host
  BY <1>31, <1>12, <1>13, <1>14, <1>41 DEF Host, HostStep, Listening
<1>32. CASE Progress
  BY <1>32, <1>31, <1>2, <1>3, <1>4, <1>5, <1>6, <1>7, <1>8, <1>9, <1>10,
     <1>11, <1>40 DEF Progress, Window, Command
<1> QED
  BY <1>1, <1>22, <1>23, <1>24, <1>25, <1>30, <1>32 DEF Next


WindowsTypeOK == /\ ClientTypeOK
                 /\ attempt \in [Clients -> Nat]
                 /\ stopped \subseteq Clients \X Generations


LEMMA WindowTypesStep ==
    ASSUME Types, ClientMoves
    PROVE  WindowsTypeOK'
<1> USE DEF Types, ClientTypeOK, WindowsTypeOK
<1>1. CASE UNCHANGED <<started, starting, attempt, status, result, stopped>>
  BY <1>1 DEF clientVars
<1>2. ASSUME NEW c \in Clients, NEW stat, NEW res, NEW up, Turn(c, stat, res, up)
      PROVE  WindowsTypeOK'
  BY <1>2 DEF Turn
<1>3. ASSUME NEW k \in Calls, Ask(k)
      PROVE  WindowsTypeOK'
  <2>1. k \in Requests /\ Owner(k) \in Clients
    BY RequestsKnown DEF Requests
  <2> QED
    BY <1>3, <2>1 DEF Ask, Statuses
<1>4. ASSUME NEW c \in Clients, starting[c] = "start", NEW x \in {"up", "down"},
               starting' = [starting EXCEPT ![c] = x],
               UNCHANGED <<started, attempt, status, result, stopped>>
      PROVE  WindowsTypeOK'
  BY <1>4
<1>5. ASSUME NEW c \in Clients, Started(c)
      PROVE  WindowsTypeOK'
  <2>1. starting' \in [Clients -> {"no", "start", "up", "down", "handshake", "stop"}]
    BY <1>5 DEF Started
  <2>2. status' \in [Requests -> Statuses]
    BY <1>5 DEF Started, Statuses
  <2> QED
    BY <1>5, <2>1, <2>2 DEF Started
<1>6. ASSUME NEW c \in Clients, NotStarted(c)
      PROVE  WindowsTypeOK'
  <2>1. status' \in [Requests -> Statuses] /\ result' \in [Requests -> States]
    BY <1>6, DisconnectTurns DEF NotStarted
  <2> QED
    BY <1>6, <2>1 DEF NotStarted, Disconnect
<1>7. ASSUME NEW c \in Clients, Frees(c)
      PROVE  WindowsTypeOK'
  <2>1. stopped' \subseteq Clients \X Generations
    BY <1>7 DEF Frees, HostTypeOK
  <2> QED
    BY <1>7, <2>1 DEF Frees
<1>8. ASSUME NEW r \in Requests, status[r] = "sending", NEW x \in {"sent", "refused"},
               x = "sent" => child # 0, status' = [status EXCEPT ![r] = x],
               UNCHANGED <<started, starting, attempt, result, stopped>>
      PROVE  WindowsTypeOK'
  BY <1>8 DEF Statuses
<1> QED
  BY <1>1, <1>2, <1>3, <1>4, <1>5, <1>6, <1>7, <1>8 DEF ClientMoves, SomeTurn

-----------------------------------------------------------------------------
(* The windows and their child                                             *)

\* A window numbers its handshakes by the calls that started the sidecar.
AskedOf(c) == Asked \cap CallsOf(c)

Attempts ==
    \A c \in Clients :
        /\ attempt[c] <= Cardinality(AskedOf(c))
        /\ starting[c] # "no" \/ started[c] => attempt[c] > 0

\* While a window starts the sidecar it is not connected.
NotYet == \A c \in Clients : starting[c] \in {"start", "up", "down", "stop"} => ~started[c]

\* #spawn goes on in the turn in which its handshake is over.
HandshakeOpen == \A c \in Clients :
    starting[c] = "handshake" => status[Handshake(c)] # "done"

\* The host numbers its processes.
ChildIsLast == child \in {0, generation}

\* ConnectedToChild, with what makes a late handshake fail: nothing of it was
\* written.
LostOrRefused == \A c \in Clients :
    Running /\ started[c] /\ child = 0 =>
        \/ LossOnItsWay(c)
        \/ \E d \in Clients \ {c} : <<d, generation>> \in stopped
        \/ starting[c] = "handshake" /\ status[Handshake(c)] \in {"sending", "refused"}


FaultsOK == faults \in 0..MaxFaults /\ cancels \subseteq Requests

LEMMA FaultsTypeStep ==
    ASSUME Types, [Next]_vars
    PROVE  FaultsOK'
<1> USE DEF FaultsOK, Types, clientVars
<1>1. ASSUME NEW k \in Calls, Ask(k) PROVE FaultsOK'
  BY <1>1 DEF Ask
<1>2. ASSUME NEW c \in Clients, StartSidecar(c) PROVE FaultsOK'
  BY <1>2, BoundsAssumption DEF StartSidecar, Fault
<1>3. ASSUME NEW c \in Clients, Started(c) PROVE FaultsOK'
  BY <1>3 DEF Started
<1>4. ASSUME NEW c \in Clients, NotStarted(c) PROVE FaultsOK'
  BY <1>4 DEF NotStarted
<1>5. ASSUME NEW c \in Clients, StopSidecar(c) PROVE FaultsOK'
  BY <1>5 DEF StopSidecar
<1>6. ASSUME NEW c \in Clients, LoseConnection(c) PROVE FaultsOK'
  BY <1>6 DEF LoseConnection, NoticesEnd
<1>7. ASSUME NEW r \in Requests, HostWrite(r) PROVE FaultsOK'
  BY <1>7 DEF HostWrite
<1>8. ASSUME NEW r \in Requests, Written(r) PROVE FaultsOK'
  BY <1>8 DEF Written
<1>9. ASSUME NEW r \in Requests, NotWritten(r) PROVE FaultsOK'
  BY <1>9 DEF NotWritten
<1>10. ASSUME NEW r \in Requests, GiveUp(r) PROVE FaultsOK'
  BY <1>10 DEF GiveUp, SendCancel
<1>40. ASSUME NEW r \in Requests, HostCancel(r) PROVE FaultsOK'
  BY <1>40 DEF HostCancel
<1>41. ASSUME WriteShutdown, UNCHANGED <<clientVars, faults>>
      PROVE  FaultsOK'
  BY <1>41 DEF WriteShutdown
<1>11. ASSUME NEW g \in Generations, Consume(g) PROVE FaultsOK'
  BY <1>11 DEF Consume
<1>12. ASSUME NEW g \in Generations, EndOfEvents(g), UNCHANGED <<clientVars, faults>>
      PROVE  FaultsOK'
  BY <1>12 DEF EndOfEvents
<1>13. ASSUME NEW g \in Generations, EmitLifecycle(g, Listening), UNCHANGED <<clientVars, faults>>
      PROVE  FaultsOK'
  BY <1>13 DEF EmitLifecycle
<1>14. ASSUME FinishExit, UNCHANGED <<clientVars, faults>>
      PROVE  FaultsOK'
  BY <1>14 DEF FinishExit
<1>15. ASSUME NEW g \in Generations, ReadHandshake(g),
              UNCHANGED <<hostVars, clientVars, faults>>
      PROVE  FaultsOK'
  BY <1>15 DEF ReadHandshake
<1>16. ASSUME NEW g \in Generations, ReadCall(g), UNCHANGED <<hostVars, clientVars, faults>>
      PROVE  FaultsOK'
  BY <1>16 DEF ReadCall
<1>17. ASSUME NEW g \in Generations, ReadCancel(g), UNCHANGED <<hostVars, clientVars, faults>>
      PROVE  FaultsOK'
  BY <1>17 DEF ReadCancel
<1>18. ASSUME NEW g \in Generations, ReadShutdown(g),
              UNCHANGED <<hostVars, clientVars, faults>>
      PROVE  FaultsOK'
  BY <1>18 DEF ReadShutdown
<1>19. ASSUME NEW g \in Generations, Drained(g), UNCHANGED <<hostVars, clientVars, faults>>
      PROVE  FaultsOK'
  BY <1>19 DEF Drained
<1>20. ASSUME NEW g \in Generations, NEW k \in Calls, Handle(g, k),
              UNCHANGED <<hostVars, clientVars, faults>>
      PROVE  FaultsOK'
  BY <1>20 DEF Handle
<1>21. ASSUME NEW g \in Generations, NEW k \in Calls, Answer(g, k),
              UNCHANGED <<hostVars, clientVars, faults>>
      PROVE  FaultsOK'
  BY <1>21 DEF Answer
<1>22. ASSUME NEW g \in Generations, Crash(g) PROVE FaultsOK'
  BY <1>22, BoundsAssumption DEF Crash, Fault
<1>23. ASSUME NEW g \in Generations, ReaderFails(g) PROVE FaultsOK'
  BY <1>23, BoundsAssumption DEF ReaderFails, Fault
<1>24. ASSUME CloseApplication PROVE FaultsOK'
  BY <1>24, BoundsAssumption DEF CloseApplication, Fault
<1>25. ASSUME UNCHANGED vars PROVE FaultsOK'
  BY <1>25 DEF vars
<1>30. ASSUME NEW g \in Generations, Server(g) PROVE FaultsOK'
  BY <1>30, <1>15, <1>16, <1>17, <1>18, <1>19, <1>20, <1>21 DEF Server,
     ServerStep
<1>31. CASE Host
  BY <1>31, <1>12, <1>13, <1>14, <1>41 DEF Host, HostStep, Listening
<1>32. CASE Progress
  BY <1>32, <1>31, <1>2, <1>3, <1>4, <1>5, <1>6, <1>7, <1>8, <1>9, <1>10,
     <1>11, <1>40 DEF Progress, Window, Command
<1> QED
  BY <1>1, <1>22, <1>23, <1>24, <1>25, <1>30, <1>32 DEF Next


LEMMA TypesStep == Types /\ [Next]_vars => Types'
<1> SUFFICES ASSUME Types, [Next]_vars PROVE Types'
  OBVIOUS
<1>1. ServerTypeOK' /\ HostTypeOK'
  BY PipesTypeStep
<1>2. WindowsTypeOK'
  BY ClientMovesStep, WindowTypesStep
<1>3. FaultsOK'
  BY FaultsTypeStep
<1> QED
  BY <1>1, <1>2, <1>3 DEF Types, WindowsTypeOK, FaultsOK

\* No call is idle again.

LEMMA AskedStays ==
    ASSUME Types, ClientMoves
    PROVE  \A q \in Requests : status'[q] = "idle" => status[q] = "idle"
<1> USE DEF Types, ClientTypeOK
<1>1. CASE UNCHANGED <<started, starting, attempt, status, result, stopped>>
  BY <1>1 DEF clientVars
<1>2. ASSUME NEW c \in Clients, NEW stat, NEW res, NEW up, Turn(c, stat, res, up)
      PROVE  \A q \in Requests : status'[q] = "idle" => status[q] = "idle"
  <2>1. \A r \in Requests : GoesOn(r, stat, res) /\ Moved(r, stat, res)
    BY <1>2 DEF Turn, Turned
  <2> QED
    BY <2>1 DEF GoesOn, Moved
<1>3. ASSUME NEW k \in Calls, Ask(k)
      PROVE  \A q \in Requests : status'[q] = "idle" => status[q] = "idle"
  BY <1>3 DEF Ask
<1>4. ASSUME NEW c \in Clients, starting[c] = "start", NEW x \in {"up", "down"},
               starting' = [starting EXCEPT ![c] = x],
               UNCHANGED <<started, attempt, status, result, stopped>>
      PROVE  \A q \in Requests : status'[q] = "idle" => status[q] = "idle"
  BY <1>4
<1>5. ASSUME NEW c \in Clients, Started(c)
      PROVE  \A q \in Requests : status'[q] = "idle" => status[q] = "idle"
  BY <1>5 DEF Started
<1>6. ASSUME NEW c \in Clients, NotStarted(c)
      PROVE  \A q \in Requests : status'[q] = "idle" => status[q] = "idle"
  BY <1>6 DEF NotStarted, Disconnect, SettleStatus
<1>7. ASSUME NEW c \in Clients, Frees(c)
      PROVE  \A q \in Requests : status'[q] = "idle" => status[q] = "idle"
  BY <1>7 DEF Frees, GoesOn
<1>8. ASSUME NEW r \in Requests, status[r] = "sending", NEW x \in {"sent", "refused"},
               x = "sent" => child # 0, status' = [status EXCEPT ![r] = x],
               UNCHANGED <<started, starting, attempt, result, stopped>>
      PROVE  \A q \in Requests : status'[q] = "idle" => status[q] = "idle"
  BY <1>8
<1> QED
  BY <1>1, <1>2, <1>3, <1>4, <1>5, <1>6, <1>7, <1>8 DEF ClientMoves, SomeTurn


LEMMA AskedOfFinite ==
    ASSUME Types, NEW c \in Clients
    PROVE  /\ IsFiniteSet(AskedOf(c)) /\ Cardinality(AskedOf(c)) \in Nat
           /\ Cardinality(AskedOf(c)) <= Cardinality(CallsOf(c))
<1>1. AskedOf(c) \subseteq CallsOf(c)
  BY DEF AskedOf
<1> QED
  BY <1>1, RequestsKnown, FS_Subset, FS_CardinalityType

LEMMA HandshakeKnown ==
    ASSUME Types, Attempts, NEW c \in Clients, attempt[c] > 0
    PROVE  /\ Handshake(c) \in Handshakes /\ Handshake(c) \in Requests
           /\ Owner(Handshake(c)) = c /\ Handshake(c) \notin Calls
<1>1. attempt[c] \in 1..Cardinality(CallsOf(c))
  BY AskedOfFinite, RequestsKnown DEF Attempts, Types
<1>2. Handshake(c) \in Handshakes
  BY <1>1, HandshakesAssumption DEF Handshake
<1> QED
  BY <1>2, RequestsKnown DEF Requests, Owner, Handshake


\* A window that is not about to start the sidecar, and one that is.
NoAttempt(c) == /\ attempt'[c] = attempt[c]
                /\ starting'[c] # "no" \/ started'[c] => starting[c] # "no" \/ started[c]
OneMore(c) == /\ attempt'[c] = attempt[c] + 1
              /\ \E k \in CallsOf(c) : k \notin AskedOf(c) /\ status'[k] # "idle"

LEMMA AttemptsMoves ==
    ASSUME Types, Attempts, ClientMoves
    PROVE  \A w \in Clients : NoAttempt(w) \/ OneMore(w)
<1>1. CASE UNCHANGED <<started, starting, attempt, status, result, stopped>>
  BY <1>1 DEF clientVars, NoAttempt
<1>2. ASSUME NEW c \in Clients, NEW stat, NEW res, NEW up, Turn(c, stat, res, up)
      PROVE  \A w \in Clients : NoAttempt(w) \/ OneMore(w)
  <2>1. /\ \A d \in Clients \ {c} : started'[d] = started[d] /\ starting'[d] = starting[d]
        /\ starting'[c] # "no" => starting[c] # "no"
        /\ started'[c] => started[c]
        /\ UNCHANGED attempt
    BY <1>2 DEF Turn, Turned, Types, ClientTypeOK
  <2> QED
    BY <2>1 DEF NoAttempt
<1>3. ASSUME NEW k \in Calls, Ask(k)
      PROVE  \A w \in Clients : NoAttempt(w) \/ OneMore(w)
  <2>1. k \in Requests /\ Owner(k) \in Clients /\ k \notin Asked /\ k \in CallsOf(Owner(k))
    BY <1>3, RequestsKnown DEF Ask, Requests, CallsOf
  <2>2. status'[k] # "idle"
    BY <1>3, <2>1 DEF Ask, Types, ClientTypeOK
  <2>3. \A d \in Clients \ {Owner(k)} : /\ started'[d] = started[d] /\ starting'[d] = starting[d]
                                      /\ attempt'[d] = attempt[d]
    BY <1>3, <2>1 DEF Ask, Types, ClientTypeOK
  <2>4. \/ attempt'[Owner(k)] = attempt[Owner(k)] + 1
        \/ /\ attempt'[Owner(k)] = attempt[Owner(k)] /\ starting'[Owner(k)] = starting[Owner(k)]
           /\ started'[Owner(k)] = started[Owner(k)]
    BY <1>3, <2>1 DEF Ask, Types, ClientTypeOK
  <2> QED
    BY <2>1, <2>2, <2>3, <2>4 DEF AskedOf, NoAttempt, OneMore
<1>4. ASSUME NEW c \in Clients, starting[c] = "start", NEW x \in {"up", "down"},
               starting' = [starting EXCEPT ![c] = x],
               UNCHANGED <<started, attempt, status, result, stopped>>
      PROVE  \A w \in Clients : NoAttempt(w) \/ OneMore(w)
  BY <1>4 DEF Types, ClientTypeOK, NoAttempt
<1>5. ASSUME NEW c \in Clients, Started(c)
      PROVE  \A w \in Clients : NoAttempt(w) \/ OneMore(w)
  BY <1>5 DEF Started, Types, ClientTypeOK, NoAttempt
<1>6. ASSUME NEW c \in Clients, NotStarted(c)
      PROVE  \A w \in Clients : NoAttempt(w) \/ OneMore(w)
  BY <1>6 DEF NotStarted, Disconnect, Types, ClientTypeOK, NoAttempt
<1>7. ASSUME NEW c \in Clients, Frees(c)
      PROVE  \A w \in Clients : NoAttempt(w) \/ OneMore(w)
  BY <1>7 DEF Frees, Types, ClientTypeOK, NoAttempt
<1>8. ASSUME NEW r \in Requests, status[r] = "sending", NEW x \in {"sent", "refused"},
               x = "sent" => child # 0, status' = [status EXCEPT ![r] = x],
               UNCHANGED <<started, starting, attempt, result, stopped>>
      PROVE  \A w \in Clients : NoAttempt(w) \/ OneMore(w)
  BY <1>8 DEF NoAttempt
<1> QED
  BY <1>1, <1>2, <1>3, <1>4, <1>5, <1>6, <1>7, <1>8 DEF ClientMoves, SomeTurn


LEMMA AttemptsStep == Types /\ Attempts /\ [Next]_vars => Attempts'
<1> SUFFICES ASSUME Types, Attempts, [Next]_vars, NEW c \in Clients
             PROVE  /\ attempt'[c] <= Cardinality((AskedOf(c))')
                    /\ starting'[c] # "no" \/ started'[c] => attempt'[c] > 0
  BY DEF Attempts
<1>1. AskedOf(c) \subseteq (AskedOf(c))' /\ (AskedOf(c))' = {k \in CallsOf(c) : status'[k] # "idle"}
  BY ClientMovesStep, AskedStays DEF AskedOf, Asked, CallsOf, Requests
<1>2. /\ IsFiniteSet((AskedOf(c))') /\ Cardinality((AskedOf(c))') \in Nat
      /\ Cardinality(AskedOf(c)) <= Cardinality((AskedOf(c))')
  <2>1. (AskedOf(c))' \subseteq CallsOf(c)
    BY <1>1
  <2>2. IsFiniteSet((AskedOf(c))')
    BY <2>1, RequestsKnown, FS_Subset
  <2> QED
    BY <1>1, <2>2, FS_Subset, FS_CardinalityType
<1>3. /\ attempt[c] \in Nat /\ Cardinality(AskedOf(c)) \in Nat /\ attempt[c] <= Cardinality(AskedOf(c))
      /\ starting[c] # "no" \/ started[c] => attempt[c] > 0
  BY AskedOfFinite DEF Types, Attempts
<1>4. CASE NoAttempt(c)
  BY <1>2, <1>3, <1>4 DEF NoAttempt
<1>5. ASSUME attempt'[c] = attempt[c] + 1, NEW k \in CallsOf(c), k \notin AskedOf(c), status'[k] # "idle"
      PROVE  attempt'[c] <= Cardinality((AskedOf(c))') /\ attempt'[c] > 0
  <2>1. AskedOf(c) \cup {k} \subseteq (AskedOf(c))'
    BY <1>1, <1>5
  <2>2. Cardinality(AskedOf(c) \cup {k}) = Cardinality(AskedOf(c)) + 1
    BY <1>5, AskedOfFinite, FS_AddElement
  <2>3. Cardinality(AskedOf(c) \cup {k}) <= Cardinality((AskedOf(c))')
    BY <1>2, <2>1, FS_Subset
  <2> QED
    BY <1>2, <1>3, <1>5, <2>2, <2>3
<1> QED
  BY <1>4, <1>5, ClientMovesStep, AttemptsMoves DEF OneMore

\* A window connects when its start is over.
LEMMA NotYetMoves ==
    ASSUME Types, NotYet, ClientMoves
    PROVE  NotYet'
<1> USE DEF Types, ClientTypeOK, NotYet
<1>1. CASE UNCHANGED <<started, starting, attempt, status, result, stopped>>
  BY <1>1 DEF clientVars
<1>2. ASSUME NEW c \in Clients, NEW stat, NEW res, NEW up, Turn(c, stat, res, up)
      PROVE  NotYet'
  <2>1. /\ \A d \in Clients \ {c} : started'[d] = started[d] /\ starting'[d] = starting[d]
        /\ \/ starting'[c] = starting[c] /\ (started'[c] => started[c])
           \/ starting'[c] = "no"
           \/ starting'[c] = "stop" /\ started'[c] = FALSE
    BY <1>2 DEF Turn, Turned
  <2> QED
    BY <2>1
<1>3. ASSUME NEW k \in Calls, Ask(k)
      PROVE  NotYet'
  BY <1>3, RequestsKnown DEF Ask, Requests
<1>4. ASSUME NEW c \in Clients, starting[c] = "start", NEW x \in {"up", "down"},
               starting' = [starting EXCEPT ![c] = x],
               UNCHANGED <<started, attempt, status, result, stopped>>
      PROVE  NotYet'
  BY <1>4
<1>5. ASSUME NEW c \in Clients, Started(c)
      PROVE  NotYet'
  BY <1>5 DEF Started
<1>6. ASSUME NEW c \in Clients, NotStarted(c)
      PROVE  NotYet'
  BY <1>6 DEF NotStarted, Disconnect
<1>7. ASSUME NEW c \in Clients, Frees(c)
      PROVE  NotYet'
  BY <1>7 DEF Frees
<1>8. ASSUME NEW r \in Requests, status[r] = "sending", NEW x \in {"sent", "refused"},
               x = "sent" => child # 0, status' = [status EXCEPT ![r] = x],
               UNCHANGED <<started, starting, attempt, result, stopped>>
      PROVE  NotYet'
  BY <1>8
<1> QED
  BY <1>1, <1>2, <1>3, <1>4, <1>5, <1>6, <1>7, <1>8 DEF ClientMoves, SomeTurn

\* The handshake is open as long as the window waits for it.
LEMMA HandshakeMoves ==
    ASSUME Types, Attempts, HandshakeOpen, ClientMoves
    PROVE  HandshakeOpen'
<1> USE DEF HandshakeOpen
<1>1. CASE UNCHANGED <<started, starting, attempt, status, result, stopped>>
  BY <1>1 DEF clientVars, Handshake
<1>2. ASSUME NEW c \in Clients, NEW stat, NEW res, NEW up, Turn(c, stat, res, up)
      PROVE  HandshakeOpen'
  <2>1. /\ \A d \in Clients \ {c} : starting'[d] = starting[d]
        /\ starting'[c] = "handshake" => starting[c] = "handshake" /\ status' = stat /\ stat[Handshake(c)] # "done"
        /\ \A r \in Requests : Owner(r) # c => status'[r] = status[r]
        /\ attempt' = attempt
    BY <1>2 DEF Turn, Turned
  <2>2. \A d \in Clients \ {c} : starting[d] = "handshake" =>
            Handshake(d) \in Requests /\ Owner(Handshake(d)) # c
    BY HandshakeKnown DEF Attempts
  <2> QED
    BY <2>1, <2>2 DEF Handshake
<1>3. ASSUME NEW k \in Calls, Ask(k)
      PROVE  HandshakeOpen'
  <2>1. \A d \in Clients : starting'[d] = "handshake" => starting[d] = "handshake" /\ attempt'[d] = attempt[d]
    BY <1>3 DEF Ask, Types, ClientTypeOK
  <2>2. \A d \in Clients : starting[d] = "handshake" => Handshake(d) \in Requests /\ Handshake(d) # k
    BY HandshakeKnown DEF Attempts
  <2>3. \A r \in Requests : r # k => status'[r] = status[r]
    BY <1>3 DEF Ask, Types, ClientTypeOK
  <2> QED
    BY <2>1, <2>2, <2>3 DEF Handshake
<1>4. ASSUME NEW c \in Clients, starting[c] = "start", NEW x \in {"up", "down"},
               starting' = [starting EXCEPT ![c] = x],
               UNCHANGED <<started, attempt, status, result, stopped>>
      PROVE  HandshakeOpen'
  BY <1>4 DEF Types, ClientTypeOK, Handshake
<1>5. ASSUME NEW c \in Clients, Started(c)
      PROVE  HandshakeOpen'
  <2>1. attempt[c] > 0 /\ Handshake(c) \in Requests
    BY <1>5, HandshakeKnown DEF Started, Attempts
  <2>2. \A d \in Clients : starting[d] = "handshake" => status'[Handshake(d)] # "done"
    <3>1. \A d \in Clients : starting[d] = "handshake" => Handshake(d) \in Requests
      BY HandshakeKnown DEF Attempts
    <3> QED
      BY <1>5, <2>1, <3>1 DEF Started, Types, ClientTypeOK
  <2>3. status'[Handshake(c)] # "done" /\ attempt' = attempt
    BY <1>5, <2>1 DEF Started, Types, ClientTypeOK
  <2>4. \A d \in Clients \ {c} : starting'[d] = starting[d]
    BY <1>5 DEF Started, Types, ClientTypeOK
  <2> QED
    BY <2>2, <2>3, <2>4 DEF Handshake
<1>6. ASSUME NEW c \in Clients, NotStarted(c)
      PROVE  HandshakeOpen'
  <2>1. /\ starting' = [starting EXCEPT ![c] = "stop"] /\ attempt' = attempt
        /\ \A r \in Requests : Owner(r) # c => status'[r] = status[r]
    BY <1>6 DEF NotStarted, Disconnect, SettleStatus
  <2>2. \A d \in Clients : starting[d] = "handshake" => Handshake(d) \in Requests /\ Owner(Handshake(d)) = d
    BY HandshakeKnown DEF Attempts
  <2> QED
    BY <2>1, <2>2 DEF Handshake, Types, ClientTypeOK
<1>7. ASSUME NEW c \in Clients, Frees(c)
      PROVE  HandshakeOpen'
  <2>1. /\ starting' = [starting EXCEPT ![c] = "no"] /\ attempt' = attempt
        /\ \A r \in Requests : Owner(r) # c => status'[r] = status[r]
    BY <1>7 DEF Frees
  <2>2. \A d \in Clients : starting[d] = "handshake" => Handshake(d) \in Requests /\ Owner(Handshake(d)) = d
    BY HandshakeKnown DEF Attempts
  <2> QED
    BY <2>1, <2>2 DEF Handshake, Types, ClientTypeOK
<1>8. ASSUME NEW r \in Requests, status[r] = "sending", NEW x \in {"sent", "refused"},
               x = "sent" => child # 0, status' = [status EXCEPT ![r] = x],
               UNCHANGED <<started, starting, attempt, result, stopped>>
      PROVE  HandshakeOpen'
  <2>1. \A d \in Clients : starting[d] = "handshake" => Handshake(d) \in Requests
    BY HandshakeKnown DEF Attempts
  <2> QED
    BY <1>8, <2>1 DEF Handshake, Types, ClientTypeOK
<1> QED
  BY <1>1, <1>2, <1>3, <1>4, <1>5, <1>6, <1>7, <1>8 DEF ClientMoves, SomeTurn

LEMMA ChildIsLastStep ==
    ASSUME Types, ChildIsLast, [Next]_vars
    PROVE  ChildIsLast'
<1> USE DEF ChildIsLast
<1>1. ASSUME NEW k \in Calls, Ask(k) PROVE ChildIsLast'
  BY <1>1 DEF Ask, hostVars
<1>2. ASSUME NEW c \in Clients, StartSidecar(c) PROVE ChildIsLast'
  BY <1>2 DEF StartSidecar, Spawn, AlreadyStarted, hostVars
<1>3. ASSUME NEW c \in Clients, Started(c) PROVE ChildIsLast'
  BY <1>3 DEF Started, hostVars
<1>4. ASSUME NEW c \in Clients, NotStarted(c) PROVE ChildIsLast'
  BY <1>4 DEF NotStarted, hostVars
<1>5. ASSUME NEW c \in Clients, StopSidecar(c) PROVE ChildIsLast'
  BY <1>5 DEF StopSidecar, Stop, TakeChild
<1>6. ASSUME NEW c \in Clients, LoseConnection(c) PROVE ChildIsLast'
  BY <1>6 DEF LoseConnection, NoticesEnd
<1>7. ASSUME NEW r \in Requests, HostWrite(r) PROVE ChildIsLast'
  BY <1>7, WriteLeaves, WritersWrite
<1>8. ASSUME NEW r \in Requests, Written(r) PROVE ChildIsLast'
  BY <1>8 DEF Written, hostVars
<1>9. ASSUME NEW r \in Requests, NotWritten(r) PROVE ChildIsLast'
  BY <1>9 DEF NotWritten, hostVars
<1>10. ASSUME NEW r \in Requests, GiveUp(r) PROVE ChildIsLast'
  BY <1>10 DEF GiveUp, hostVars
<1>40. ASSUME NEW r \in Requests, HostCancel(r) PROVE ChildIsLast'
  BY <1>40, WriteLeaves, WritersWrite
<1>41. ASSUME WriteShutdown, UNCHANGED <<clientVars, faults>>
      PROVE  ChildIsLast'
  BY <1>41, WriteLeaves, WritersWrite
<1>11. ASSUME NEW g \in Generations, Consume(g) PROVE ChildIsLast'
  BY <1>11 DEF Consume, Emit, hostVars
<1>12. ASSUME NEW g \in Generations, EndOfEvents(g), UNCHANGED <<clientVars, faults>>
      PROVE  ChildIsLast'
  BY <1>12 DEF EndOfEvents, Claim, TakeChild
<1>13. ASSUME NEW g \in Generations, EmitLifecycle(g, Listening), UNCHANGED <<clientVars, faults>>
      PROVE  ChildIsLast'
  BY <1>13 DEF EmitLifecycle
<1>14. ASSUME FinishExit, UNCHANGED <<clientVars, faults>> PROVE ChildIsLast'
  BY <1>14 DEF FinishExit, TakeChild
<1>15. ASSUME NEW g \in Generations, ReadHandshake(g),
              UNCHANGED <<hostVars, clientVars, faults>>
      PROVE  ChildIsLast'
  BY <1>15 DEF ReadHandshake, hostVars
<1>16. ASSUME NEW g \in Generations, ReadCall(g), UNCHANGED <<hostVars, clientVars, faults>>
      PROVE  ChildIsLast'
  BY <1>16 DEF ReadCall, hostVars
<1>17. ASSUME NEW g \in Generations, ReadCancel(g), UNCHANGED <<hostVars, clientVars, faults>>
      PROVE  ChildIsLast'
  BY <1>17 DEF ReadCancel, hostVars
<1>18. ASSUME NEW g \in Generations, ReadShutdown(g),
              UNCHANGED <<hostVars, clientVars, faults>>
      PROVE  ChildIsLast'
  BY <1>18 DEF ReadShutdown, hostVars
<1>19. ASSUME NEW g \in Generations, Drained(g), UNCHANGED <<hostVars, clientVars, faults>>
      PROVE  ChildIsLast'
  BY <1>19 DEF Drained, hostVars
<1>20. ASSUME NEW g \in Generations, NEW k \in Calls, Handle(g, k),
              UNCHANGED <<hostVars, clientVars, faults>>
      PROVE  ChildIsLast'
  BY <1>20 DEF Handle, hostVars
<1>21. ASSUME NEW g \in Generations, NEW k \in Calls, Answer(g, k),
              UNCHANGED <<hostVars, clientVars, faults>>
      PROVE  ChildIsLast'
  BY <1>21 DEF Answer, hostVars
<1>22. ASSUME NEW g \in Generations, Crash(g) PROVE ChildIsLast'
  BY <1>22 DEF Crash, hostVars
<1>23. ASSUME NEW g \in Generations, ReaderFails(g) PROVE ChildIsLast'
  BY <1>23 DEF ReaderFails, ReadError, Claim, TakeChild
<1>24. ASSUME CloseApplication PROVE ChildIsLast'
  BY <1>24 DEF CloseApplication, BeginExit
<1>25. ASSUME UNCHANGED vars PROVE ChildIsLast'
  BY <1>25 DEF vars, hostVars
<1>30. ASSUME NEW g \in Generations, Server(g) PROVE ChildIsLast'
  BY <1>30, <1>15, <1>16, <1>17, <1>18, <1>19, <1>20, <1>21 DEF Server,
     ServerStep
<1>31. CASE Host
  BY <1>31, <1>12, <1>13, <1>14, <1>41 DEF Host, HostStep, Listening
<1>32. CASE Progress
  BY <1>32, <1>31, <1>2, <1>3, <1>4, <1>5, <1>6, <1>7, <1>8, <1>9, <1>10,
     <1>11, <1>40 DEF Progress, Window, Command
<1> QED
  BY <1>1, <1>22, <1>23, <1>24, <1>25, <1>30, <1>32 DEF Next


\* What a step of the host, or of a window at the host, does to the child.
HostMoves ==
    /\ Running
    /\ \A g \in Generations : child' = 0 /\ reader[g] = "claimed" =>
          reader'[g] = "claimed" \/ \A c \in Listening : mail'[c] # {}
    /\ \A c \in Clients : mail[c] # {} => mail'[c] # {} \/ ~started'[c]
    /\ child' = 0 /\ child # 0 =>
          \/ \E g \in Generations : reader'[g] = "claimed"
          \/ \E d \in Clients : /\ starting[d] = "stop" /\ started' = started
                                /\ <<d, generation>> \in stopped'
    /\ child' = 0 => generation' = generation
    /\ stopped \subseteq stopped'


LEMMA HostMovesStep ==
    ASSUME Types, ChildIsLast, Running', [Next]_vars
    PROVE  HostMoves
<1> USE DEF HostMoves
<1>1. ASSUME NEW k \in Calls, Ask(k) PROVE HostMoves
  BY <1>1 DEF Ask, hostVars, serverVars, clientVars, Running
<1>2. ASSUME NEW c \in Clients, StartSidecar(c) PROVE HostMoves
  <2>1. CASE Spawn
    <3> DEFINE n == generation + 1
    <3>1. /\ exit' = exit /\ mail' = mail /\ n \in Generations /\ child' = n
          /\ reader' = [reader EXCEPT ![n] = "reading"] /\ n # 0 /\ exit = "no"
      BY <2>1, GenerationsAssumption DEF Spawn
    <3> HIDE DEF n
    <3>2. stopped' = stopped /\ started' = started
      BY <1>2 DEF StartSidecar
    <3> QED
      BY <1>2, <3>1, <3>2 DEF Running, StartSidecar
  <2>2. CASE UNCHANGED <<hostVars, serverVars>>
    BY <1>2, <2>2 DEF StartSidecar, hostVars, Running
  <2> QED
    BY <1>2, <2>1, <2>2 DEF StartSidecar, AlreadyStarted
<1>3. ASSUME NEW c \in Clients, Started(c) PROVE HostMoves
  BY <1>3 DEF Started, hostVars, serverVars, clientVars, Running
<1>4. ASSUME NEW c \in Clients, NotStarted(c) PROVE HostMoves
  BY <1>4 DEF NotStarted, hostVars, serverVars, clientVars, Running
<1>5. ASSUME NEW c \in Clients, StopSidecar(c) PROVE HostMoves
  <2>1. /\ starting[c] = "stop" /\ started' = started /\ child' = 0
        /\ generation' = generation /\ reader' = reader /\ mail' = mail /\ exit' = exit
        /\ stopped' = IF child # 0 THEN stopped \cup {<<c, child>>} ELSE stopped
    BY <1>5 DEF StopSidecar, Stop, TakeChild
  <2>2. child # 0 => child = generation
    BY DEF ChildIsLast
  <2> QED
    BY <2>1, <2>2 DEF Running
<1>6. ASSUME NEW c \in Clients, LoseConnection(c) PROVE HostMoves
  <2>1. /\ child' = child /\ generation' = generation /\ reader' = reader /\ exit' = exit
        /\ stopped' = stopped /\ \A d \in Clients \ {c} : mail'[d] = mail[d]
    BY <1>6 DEF LoseConnection, NoticesEnd, Types, HostTypeOK
  <2>2. ~started'[c]
    BY <1>6, LoseTurns DEF Turn, Turned
  <2> QED
    BY <2>1, <2>2 DEF Running
<1>7. ASSUME NEW r \in Requests, HostWrite(r) PROVE HostMoves
  BY <1>7, WriteLeaves, WritersWrite DEF HostWrite, Running
<1>8. ASSUME NEW r \in Requests, Written(r) PROVE HostMoves
  BY <1>8 DEF Written, Running, hostVars, serverVars, clientVars
<1>9. ASSUME NEW r \in Requests, NotWritten(r) PROVE HostMoves
  BY <1>9 DEF NotWritten, Running, hostVars, serverVars, clientVars
<1>10. ASSUME NEW r \in Requests, GiveUp(r) PROVE HostMoves
  BY <1>10 DEF GiveUp, hostVars, serverVars, clientVars, Running
<1>40. ASSUME NEW r \in Requests, HostCancel(r) PROVE HostMoves
  BY <1>40, WriteLeaves, WritersWrite DEF HostCancel, Running
<1>41. ASSUME WriteShutdown, UNCHANGED <<clientVars, faults>>
      PROVE  HostMoves
  BY <1>41, WriteLeaves, WritersWrite DEF WriteShutdown, Running, clientVars
<1>11. ASSUME NEW g \in Generations, Consume(g) PROVE HostMoves
  BY <1>11 DEF Consume, Emit, hostVars, serverVars, clientVars, Running
<1>12. ASSUME NEW g \in Generations, EndOfEvents(g), UNCHANGED <<clientVars, faults>>
      PROVE  HostMoves
  <2>1. Claim(g) /\ reader[g] = "reading" /\ stopped' = stopped
    BY <1>12 DEF EndOfEvents, clientVars
  <2>2. /\ \A h \in Generations : reader[h] = "claimed" => reader'[h] = "claimed"
        /\ child' # child => child = g /\ reader'[g] = "claimed"
        /\ generation' = generation /\ mail' = mail /\ exit' = exit
    <3>1. reader' = [reader EXCEPT ![g] = IF child = g THEN "claimed" ELSE "finished"]
          /\ reader \in [Generations -> {"none", "reading", "claimed", "finished"}]
          /\ generation' = generation /\ mail' = mail /\ exit' = exit
      BY <2>1 DEF Claim, Types, HostTypeOK
    <3>2. child # g => child' = child
      BY <2>1 DEF Claim
    <3>3. \A h \in Generations : reader[h] = "claimed" => reader'[h] = "claimed"
      BY <2>1, <3>1
    <3>4. child = g => reader'[g] = "claimed"
      BY <3>1
    <3> QED
      BY <3>1, <3>2, <3>3, <3>4
  <2> QED
    BY <2>1, <2>2 DEF Running
<1>13. ASSUME NEW g \in Generations, EmitLifecycle(g, Listening), UNCHANGED <<clientVars, faults>>
      PROVE  HostMoves
  <2>1. /\ child' = child /\ generation' = generation /\ exit' = exit /\ stopped' = stopped
        /\ \A h \in Generations \ {g} : reader'[h] = reader[h]
        /\ \A c \in Clients : mail'[c] = IF c \in Listening THEN mail[c] \cup {g} ELSE mail[c]
    BY <1>13 DEF EmitLifecycle, clientVars, Types, HostTypeOK
  <2>2. \A c \in Listening : c \in Clients /\ mail'[c] # {}
    BY <2>1 DEF Listening
  <2> QED
    BY <2>1, <2>2 DEF Running
<1>14. ASSUME FinishExit, UNCHANGED <<clientVars, faults>> PROVE HostMoves
  BY <1>14 DEF FinishExit, Running
<1>15. ASSUME NEW g \in Generations, ReadHandshake(g),
              UNCHANGED <<hostVars, clientVars, faults>>
      PROVE  HostMoves
  BY <1>15 DEF ReadHandshake, hostVars, serverVars, clientVars, Running
<1>16. ASSUME NEW g \in Generations, ReadCall(g), UNCHANGED <<hostVars, clientVars, faults>>
      PROVE  HostMoves
  BY <1>16 DEF ReadCall, hostVars, serverVars, clientVars, Running
<1>17. ASSUME NEW g \in Generations, ReadCancel(g), UNCHANGED <<hostVars, clientVars, faults>>
      PROVE  HostMoves
  BY <1>17 DEF ReadCancel, hostVars, serverVars, clientVars, Running
<1>18. ASSUME NEW g \in Generations, ReadShutdown(g),
              UNCHANGED <<hostVars, clientVars, faults>>
      PROVE  HostMoves
  BY <1>18 DEF ReadShutdown, hostVars, serverVars, clientVars, Running
<1>19. ASSUME NEW g \in Generations, Drained(g), UNCHANGED <<hostVars, clientVars, faults>>
      PROVE  HostMoves
  BY <1>19 DEF Drained, hostVars, serverVars, clientVars, Running
<1>20. ASSUME NEW g \in Generations, NEW k \in Calls, Handle(g, k),
              UNCHANGED <<hostVars, clientVars, faults>>
      PROVE  HostMoves
  BY <1>20 DEF Handle, hostVars, serverVars, clientVars, Running
<1>21. ASSUME NEW g \in Generations, NEW k \in Calls, Answer(g, k),
              UNCHANGED <<hostVars, clientVars, faults>>
      PROVE  HostMoves
  BY <1>21 DEF Answer, hostVars, serverVars, clientVars, Running
<1>22. ASSUME NEW g \in Generations, Crash(g) PROVE HostMoves
  BY <1>22 DEF Crash, hostVars, serverVars, clientVars, Running
<1>23. ASSUME NEW g \in Generations, ReaderFails(g) PROVE HostMoves
  <2>1. Claim(g) /\ reader[g] = "reading" /\ stopped' = stopped
    BY <1>23 DEF ReaderFails, ReadError, clientVars
  <2>2. /\ \A h \in Generations : reader[h] = "claimed" => reader'[h] = "claimed"
        /\ child' # child => child = g /\ reader'[g] = "claimed"
        /\ generation' = generation /\ mail' = mail /\ exit' = exit
    <3>1. reader' = [reader EXCEPT ![g] = IF child = g THEN "claimed" ELSE "finished"]
          /\ reader \in [Generations -> {"none", "reading", "claimed", "finished"}]
          /\ generation' = generation /\ mail' = mail /\ exit' = exit
      BY <2>1 DEF Claim, Types, HostTypeOK
    <3>2. child # g => child' = child
      BY <2>1 DEF Claim
    <3>3. \A h \in Generations : reader[h] = "claimed" => reader'[h] = "claimed"
      BY <2>1, <3>1
    <3>4. child = g => reader'[g] = "claimed"
      BY <3>1
    <3> QED
      BY <3>1, <3>2, <3>3, <3>4
  <2> QED
    BY <2>1, <2>2 DEF Running
<1>24. ASSUME CloseApplication PROVE HostMoves
  BY <1>24 DEF CloseApplication, BeginExit, hostVars, serverVars, clientVars,
     Running
<1>25. ASSUME UNCHANGED vars PROVE HostMoves
  BY <1>25 DEF vars, hostVars, serverVars, clientVars, Running
<1>30. ASSUME NEW g \in Generations, Server(g) PROVE HostMoves
  BY <1>30, <1>15, <1>16, <1>17, <1>18, <1>19, <1>20, <1>21 DEF Server,
     ServerStep
<1>31. CASE Host
  BY <1>31, <1>12, <1>13, <1>14, <1>41 DEF Host, HostStep, Listening
<1>32. CASE Progress
  BY <1>32, <1>31, <1>2, <1>3, <1>4, <1>5, <1>6, <1>7, <1>8, <1>9, <1>10,
     <1>11, <1>40 DEF Progress, Window, Command
<1> QED
  BY <1>1, <1>22, <1>23, <1>24, <1>25, <1>30, <1>32 DEF Next


\* How a window that takes itself for connected got there.
WindowMoves(c) ==
    started'[c] =>
        \/ starting'[c] = "handshake" /\ status'[(Handshake(c))'] = "sending"
        \/ /\ started[c]
           /\ \/ child # 0
              \/ ~(starting[c] = "handshake" /\ status[Handshake(c)] \in {"sending", "refused"})
              \/ /\ starting'[c] = "handshake"
                 /\ status'[(Handshake(c))'] \in {"sending", "refused"}


LEMMA WindowMovesStep ==
    ASSUME Types, Attempts, NotYet, ClientMoves
    PROVE  \A w \in Clients : WindowMoves(w)
<1> USE DEF WindowMoves
<1>1. CASE UNCHANGED <<started, starting, attempt, status, result, stopped>>
  BY <1>1 DEF clientVars, Handshake
<1>2. ASSUME NEW c \in Clients, NEW stat, NEW res, NEW up, Turn(c, stat, res, up)
      PROVE  \A w \in Clients : WindowMoves(w)
  <2> SUFFICES ASSUME NEW w \in Clients, started'[w] PROVE WindowMoves(w)
    OBVIOUS
  <2>1. attempt' = attempt /\ started[w]
    BY <1>2 DEF Turn, Turned
  <2> DEFINE h == Handshake(w)
  <2>2. h \in Requests /\ Owner(h) = w /\ (Handshake(w))' = h
    BY <2>1, HandshakeKnown DEF Attempts, Handshake
  <2> HIDE DEF h
  <2>3. CASE w # c
    BY <1>2, <2>1, <2>2, <2>3 DEF Turn, Turned, h
  <2>4. CASE w = c
    <3>1. ASSUME starting[c] = "handshake", status[h] \in {"sending", "refused"}
          PROVE  starting'[c] = "handshake" /\ status'[h] \in {"sending", "refused"}
      <4>1. \/ stat[h] \in {"sending", "refused"}
            \/ stat[h] = "done" /\ res[h] = "rejected"
        BY <1>2, <2>2, <3>1 DEF Turn, Moved
      <4> QED
        BY <1>2, <2>2, <2>4, <3>1, <4>1 DEF Turn, Turned, h
    <3> QED
      BY <2>1, <2>2, <2>4, <3>1 DEF h
  <2> QED
    BY <2>3, <2>4
<1>3. ASSUME NEW k \in Calls, Ask(k)
      PROVE  \A w \in Clients : WindowMoves(w)
  <2> SUFFICES ASSUME NEW w \in Clients, started'[w] PROVE WindowMoves(w)
    OBVIOUS
  <2>1. started[w] /\ starting'[w] = starting[w] /\ attempt'[w] = attempt[w]
    BY <1>3 DEF Ask, Types, ClientTypeOK
  <2>2. Handshake(w) \in Requests /\ Handshake(w) # k /\ (Handshake(w))' = Handshake(w)
    BY <2>1, HandshakeKnown DEF Attempts, Handshake
  <2>3. status'[Handshake(w)] = status[Handshake(w)]
    BY <1>3, <2>2 DEF Ask, Types, ClientTypeOK
  <2> QED
    BY <2>1, <2>2, <2>3
<1>4. ASSUME NEW c \in Clients, starting[c] = "start", NEW x \in {"up", "down"},
               starting' = [starting EXCEPT ![c] = x],
               UNCHANGED <<started, attempt, status, result, stopped>>
      PROVE  \A w \in Clients : WindowMoves(w)
  <2>1. \A w \in Clients : starting'[w] # starting[w] => ~started[w]
    BY <1>4 DEF NotYet, Types, ClientTypeOK
  <2> QED
    BY <1>4, <2>1 DEF Handshake
<1>5. ASSUME NEW c \in Clients, Started(c)
      PROVE  \A w \in Clients : WindowMoves(w)
  <2> SUFFICES ASSUME NEW w \in Clients, started'[w] PROVE WindowMoves(w)
    OBVIOUS
  <2>1. attempt' = attempt /\ Handshake(c) \in Requests /\ attempt[c] > 0
    BY <1>5, HandshakeKnown DEF Started, Attempts
  <2>2. CASE w = c
    BY <1>5, <2>1, <2>2 DEF Started, Types, ClientTypeOK, Handshake
  <2>3. CASE w # c
    <3>1. started[w] /\ starting'[w] = starting[w]
      BY <1>5, <2>3 DEF Started, Types, ClientTypeOK
    <3>2. /\ Handshake(w) \in Requests /\ Owner(Handshake(w)) = w
          /\ (Handshake(w))' = Handshake(w) /\ Owner(Handshake(c)) = c
      BY <2>1, <3>1, HandshakeKnown DEF Attempts, Handshake
    <3>3. status'[Handshake(w)] = status[Handshake(w)]
      BY <1>5, <2>3, <3>2 DEF Started, Types, ClientTypeOK
    <3> QED
      BY <3>1, <3>2, <3>3
  <2> QED
    BY <2>2, <2>3
<1>6. ASSUME NEW c \in Clients, NotStarted(c)
      PROVE  \A w \in Clients : WindowMoves(w)
  <2> SUFFICES ASSUME NEW w \in Clients, started'[w] PROVE WindowMoves(w)
    OBVIOUS
  <2>1. /\ started[w] /\ w # c /\ starting'[w] = starting[w] /\ attempt' = attempt
        /\ \A r \in Requests : Owner(r) # c => status'[r] = status[r]
    BY <1>6 DEF NotStarted, Disconnect, SettleStatus, Types, ClientTypeOK
  <2>2. /\ Handshake(w) \in Requests /\ Owner(Handshake(w)) = w
        /\ (Handshake(w))' = Handshake(w)
    BY <2>1, HandshakeKnown DEF Attempts, Handshake
  <2> QED
    BY <2>1, <2>2
<1>7. ASSUME NEW c \in Clients, Frees(c)
      PROVE  \A w \in Clients : WindowMoves(w)
  <2> SUFFICES ASSUME NEW w \in Clients, started'[w] PROVE WindowMoves(w)
    OBVIOUS
  <2>1. /\ started[w] /\ w # c /\ starting'[w] = starting[w] /\ attempt' = attempt
        /\ \A r \in Requests : Owner(r) # c => status'[r] = status[r]
    BY <1>7 DEF Frees, NotYet, Types, ClientTypeOK
  <2>2. /\ Handshake(w) \in Requests /\ Owner(Handshake(w)) = w
        /\ (Handshake(w))' = Handshake(w)
    BY <2>1, HandshakeKnown DEF Attempts, Handshake
  <2> QED
    BY <2>1, <2>2
<1>8. ASSUME NEW r \in Requests, status[r] = "sending", NEW x \in {"sent", "refused"},
               x = "sent" => child # 0, status' = [status EXCEPT ![r] = x],
               UNCHANGED <<started, starting, attempt, result, stopped>>
      PROVE  \A w \in Clients : WindowMoves(w)
  <2> SUFFICES ASSUME NEW w \in Clients, started'[w], child = 0 PROVE WindowMoves(w)
    BY <1>8
  <2>1. x = "refused" /\ started[w] /\ starting' = starting /\ attempt' = attempt
    BY <1>8
  <2>2. Handshake(w) \in Requests /\ (Handshake(w))' = Handshake(w)
    BY <2>1, HandshakeKnown DEF Attempts, Handshake
  <2>3. status[Handshake(w)] \in {"sending", "refused"} => status'[Handshake(w)] \in {"sending", "refused"}
    BY <1>8, <2>1, <2>2 DEF Types, ClientTypeOK
  <2> QED
    BY <2>1, <2>2, <2>3
<1> QED
  BY <1>1, <1>2, <1>3, <1>4, <1>5, <1>6, <1>7, <1>8 DEF ClientMoves, SomeTurn


LEMMA LostOrRefusedStep ==
    ASSUME Types, Attempts, NotYet, ChildIsLast, LostOrRefused, [Next]_vars
    PROVE  LostOrRefused'
<1> SUFFICES ASSUME NEW c \in Clients, Running', started'[c], child' = 0
             PROVE  \/ (LossOnItsWay(c))'
                    \/ \E d \in Clients \ {c} : <<d, generation>>' \in stopped'
                    \/ starting'[c] = "handshake" /\ status'[(Handshake(c))'] \in {"sending", "refused"}
  BY DEF LostOrRefused
<1>1. HostMoves /\ WindowMoves(c)
  BY HostMovesStep, ClientMovesStep, WindowMovesStep
<1>2. CASE starting'[c] = "handshake" /\ status'[(Handshake(c))'] = "sending"
  BY <1>2
<1>3. CASE started[c]
  <2>1. c \in Listening
    BY <1>3 DEF Attempts, Listening
  <2>2. CASE child # 0
    <3>1. CASE \E g \in Generations : reader'[g] = "claimed"
      BY <3>1 DEF LossOnItsWay
    <3>2. ASSUME NEW d \in Clients, starting[d] = "stop", started' = started,
                 <<d, generation>> \in stopped'
          PROVE  \E e \in Clients \ {c} : <<e, generation>>' \in stopped'
      <4>1. d # c
        BY <1>3, <3>2 DEF NotYet
      <4> QED
        BY <1>1, <3>2, <4>1 DEF HostMoves
    <3> QED
      BY <1>1, <2>2, <3>1, <3>2 DEF HostMoves
  <2>3. CASE child = 0
    <3>1. CASE \E g \in Generations : reader[g] = "claimed"
      BY <1>1, <2>1, <3>1 DEF HostMoves, LossOnItsWay
    <3>2. CASE mail[c] # {}
      BY <1>1, <3>2 DEF HostMoves, LossOnItsWay
    <3>3. CASE \E d \in Clients \ {c} : <<d, generation>> \in stopped
      BY <1>1, <3>3 DEF HostMoves
    <3>4. CASE starting[c] = "handshake" /\ status[Handshake(c)] \in {"sending", "refused"}
      BY <1>1, <2>3, <3>4 DEF WindowMoves
    <3> QED
      BY <1>1, <1>3, <2>3, <3>1, <3>2, <3>3, <3>4 DEF HostMoves, LostOrRefused, LossOnItsWay
  <2> QED
    BY <2>2, <2>3
<1> QED
  BY <1>1, <1>2, <1>3 DEF WindowMoves

-----------------------------------------------------------------------------
(* Theorems about windows and host                                         *)

ClientInv == Types /\ Attempts /\ NotYet /\ HandshakeOpen /\ ChildIsLast /\ LostOrRefused

LEMMA ClientInvInit == Init => ClientInv
<1> SUFFICES ASSUME Init PROVE ClientInv
  OBVIOUS
<1> USE DEF Init, ServerInit, HostInit
<1>1. ServerTypeOK /\ HostTypeOK
  BY DEF ServerTypeOK, HostTypeOK
<1>2. ClientTypeOK /\ stopped = {} /\ cancels = {} /\ faults \in 0..MaxFaults
  BY BoundsAssumption DEF ClientTypeOK, Statuses, States
<1>3. Types
  BY <1>1, <1>2 DEF Types
<1>4. Attempts
  <2>1. \A c \in Clients : 0 <= Cardinality(AskedOf(c))
    BY <1>3, AskedOfFinite
  <2> QED
    BY <2>1 DEF Attempts
<1>5. NotYet /\ HandshakeOpen /\ ChildIsLast /\ LostOrRefused
  BY DEF NotYet, HandshakeOpen, ChildIsLast, LostOrRefused
<1> QED
  BY <1>3, <1>4, <1>5 DEF ClientInv

LEMMA ClientInvStep == ClientInv /\ [Next]_vars => ClientInv'
BY TypesStep, AttemptsStep, NotYetMoves, HandshakeMoves, ClientMovesStep, ChildIsLastStep,
   LostOrRefusedStep DEF ClientInv

LEMMA ClientInvAlways == Spec => []ClientInv
BY ClientInvInit, ClientInvStep, PTL DEF Spec

\* Of TypeOK: a window starts the sidecar at most once for each of its calls,
\* however many windows, calls, processes and failures there are.
THEOREM ClientsTypeCorrect == Spec => []TypeOK
<1>1. ASSUME ClientInv PROVE TypeOK
  <2>1. Types /\ Attempts
    BY <1>1 DEF ClientInv
  <2>2. ASSUME NEW c \in Clients PROVE attempt[c] \in 0..Cardinality(Calls)
    <3>1. CallsOf(c) \subseteq Calls
      BY DEF CallsOf
    <3>2. Cardinality(CallsOf(c)) <= Cardinality(Calls) /\ Cardinality(Calls) \in Nat
      BY <3>1, CallsAssumption, FS_Subset, FS_CardinalityType
    <3> QED
      BY <2>1, <3>2, AskedOfFinite, RequestsKnown DEF Types, Attempts
  <2>3. attempt \in [Clients -> 0..Cardinality(Calls)]
    BY <2>1, <2>2 DEF Types
  <2> QED
    BY <2>1, <2>3 DEF TypeOK, Types, ClientTypeOK, States
<1> QED
  BY <1>1, ClientInvAlways, PTL

\* Of ConnectedToChild: a window takes itself for connected only while there is
\* a sidecar, the news of its end is on the way, or its own handshake is going
\* to fail; unless another window stopped the last sidecar.
THEOREM NeverForgotten == Spec => []ConnectedToChild
<1>1. ClientInv => ConnectedToChild
  BY DEF ClientInv, LostOrRefused, ConnectedToChild
<1> QED
  BY <1>1, ClientInvAlways, PTL

-----------------------------------------------------------------------------
(* Effects and answers                                                     *)

\* What is on its way to a sidecar, or read by one, was asked.
AskedOnTheWay == \A g \in Generations : \A i \in DOMAIN input[g] :
    input[g][i].kind = "request" /\ input[g][i].id \in Calls => input[g][i].id \in Asked
ReadAsked == \A k \in Calls : call[k].at # "unread" => k \in Asked

\* What is answered with success has taken effect, and so has what a window
\* settles as resolved.
HandledTrue == \A k \in Calls : call[k].at = "succeeded" => k \in executed
AnswersTrue == \A g \in Generations : \A i \in DOMAIN output[g] :
    output[g][i].ok /\ output[g][i].id \in Calls => output[g][i].id \in executed
ResultsTrue == \A k \in Calls : result[k] = "resolved" => k \in executed

LEMMA SequencesKeep ==
    ASSUME NEW S, NEW s \in Seq(S), NEW e \in S
    PROVE  /\ \A i \in DOMAIN Append(s, e) :
                \/ Append(s, e)[i] = e
                \/ i \in DOMAIN s /\ Append(s, e)[i] = s[i]
           /\ s # <<>> =>
                /\ 1 \in DOMAIN s /\ Head(s) = s[1]
                /\ \A i \in DOMAIN Tail(s) : i + 1 \in DOMAIN s /\ Tail(s)[i] = s[i + 1]
OBVIOUS

\* What a step does to the pipe to process g.
Sent == {c \in Commands \cup {Shutdown} :
            c.kind = "request" /\ c.id \in Calls => c.id \in Asked}
InputMoves(g) == \/ input'[g] = input[g]
                 \/ input'[g] = <<>>
                 \/ input[g] # <<>> /\ input'[g] = Tail(input[g])
                 \/ \E c \in Sent : input'[g] = Append(input[g], c)


LEMMA WritesInput ==
    ASSUME Types, NEW c \in Sent, WriteStep(c)
    PROVE  \A p \in Generations : InputMoves(p)
<1>1. CASE WriteCommand(c) /\ ChildAlive
  <2>1. child \in Generations /\ input' = [input EXCEPT ![child] = Append(@, c)]
    BY <1>1 DEF WriteCommand, ChildAlive
  <2> QED
    BY <2>1 DEF InputMoves, Types, ServerTypeOK
<1>2. CASE WriteCommand(c) /\ ~ChildAlive
  BY <1>2 DEF WriteCommand, InputMoves
<1>3. CASE WriteRefused(c) \/ WriteBlocks(c)
  BY <1>3 DEF WriteRefused, WriteBlocks, InputMoves, serverVars
<1> QED
  BY <1>1, <1>2, <1>3 DEF WriteStep

LEMMA TakesInput ==
    ASSUME Types, TakeChild
    PROVE  \A p \in Generations : InputMoves(p)
BY DEF TakeChild, EndProcess, InputMoves, Types, ServerTypeOK, serverVars


LEMMA InputMovesStep ==
    ASSUME Types, [Next]_vars
    PROVE  \A p \in Generations : InputMoves(p)
<1> USE DEF InputMoves
<1>1. ASSUME NEW k \in Calls, Ask(k) PROVE \A p \in Generations : InputMoves(p)
  BY <1>1 DEF Ask, hostVars, serverVars, clientVars
<1>2. ASSUME NEW c \in Clients, StartSidecar(c)
     PROVE  \A p \in Generations : InputMoves(p)
  BY <1>2 DEF StartSidecar, Spawn, AlreadyStarted, serverVars, hostVars
<1>3. ASSUME NEW c \in Clients, Started(c) PROVE \A p \in Generations : InputMoves(p)
  BY <1>3 DEF Started, hostVars, serverVars, clientVars
<1>4. ASSUME NEW c \in Clients, NotStarted(c) PROVE \A p \in Generations : InputMoves(p)
  BY <1>4 DEF NotStarted, hostVars, serverVars, clientVars
<1>5. ASSUME NEW c \in Clients, StopSidecar(c)
     PROVE  \A p \in Generations : InputMoves(p)
  BY <1>5, TakesInput DEF StopSidecar, Stop
<1>6. ASSUME NEW c \in Clients, LoseConnection(c)
     PROVE  \A p \in Generations : InputMoves(p)
  BY <1>6 DEF LoseConnection, NoticesEnd, serverVars
<1>7. ASSUME NEW r \in Requests, HostWrite(r) PROVE \A p \in Generations : InputMoves(p)
  <2>1. [kind |-> "request", id |-> r] \in Sent
    BY <1>7 DEF Sent, Commands, HostWrite, Asked
  <2> QED
    BY <1>7, <2>1, WritesInput, WritersWrite
<1>8. ASSUME NEW r \in Requests, Written(r) PROVE \A p \in Generations : InputMoves(p)
  BY <1>8 DEF Written, hostVars, serverVars, clientVars
<1>9. ASSUME NEW r \in Requests, NotWritten(r)
     PROVE  \A p \in Generations : InputMoves(p)
  BY <1>9 DEF NotWritten, hostVars, serverVars, clientVars
<1>10. ASSUME NEW r \in Requests, GiveUp(r) PROVE \A p \in Generations : InputMoves(p)
  BY <1>10 DEF GiveUp, InputMoves, serverVars
<1>40. ASSUME NEW r \in Requests, HostCancel(r) PROVE \A p \in Generations : InputMoves(p)
  <2>1. [kind |-> "cancel", id |-> r] \in Sent
    BY DEF Sent, Commands
  <2> QED
    BY <1>40, <2>1, WritesInput, WritersWrite
<1>41. ASSUME WriteShutdown, UNCHANGED <<clientVars, faults>>
      PROVE  \A p \in Generations : InputMoves(p)
  <2>1. Shutdown \in Sent
    BY DEF Sent, Shutdown
  <2> QED
    BY <1>41, <2>1, WritesInput, WritersWrite
<1>11. ASSUME NEW g \in Generations, Consume(g)
      PROVE  \A p \in Generations : InputMoves(p)
  BY <1>11 DEF Consume, Emit
<1>12. ASSUME NEW g \in Generations, EndOfEvents(g), UNCHANGED <<clientVars, faults>>
      PROVE  \A p \in Generations : InputMoves(p)
  BY <1>12, TakesInput DEF EndOfEvents, Claim, serverVars
<1>13. ASSUME NEW g \in Generations, EmitLifecycle(g, Listening), UNCHANGED <<clientVars, faults>>
      PROVE  \A p \in Generations : InputMoves(p)
  BY <1>13 DEF EmitLifecycle, serverVars
<1>14. ASSUME FinishExit, UNCHANGED <<clientVars, faults>>
      PROVE  \A p \in Generations : InputMoves(p)
  BY <1>14, TakesInput DEF FinishExit
<1>15. ASSUME NEW g \in Generations, ReadHandshake(g),
              UNCHANGED <<hostVars, clientVars, faults>>
      PROVE  \A p \in Generations : InputMoves(p)
  BY <1>15 DEF ReadHandshake, Reads, Types, ServerTypeOK
<1>16. ASSUME NEW g \in Generations, ReadCall(g), UNCHANGED <<hostVars, clientVars, faults>>
      PROVE  \A p \in Generations : InputMoves(p)
  BY <1>16 DEF ReadCall, Reads, Types, ServerTypeOK
<1>17. ASSUME NEW g \in Generations, ReadCancel(g), UNCHANGED <<hostVars, clientVars, faults>>
      PROVE  \A p \in Generations : InputMoves(p)
  BY <1>17 DEF ReadCancel, Reads, Types, ServerTypeOK
<1>18. ASSUME NEW g \in Generations, ReadShutdown(g),
              UNCHANGED <<hostVars, clientVars, faults>>
      PROVE  \A p \in Generations : InputMoves(p)
  BY <1>18 DEF ReadShutdown, Reads, Types, ServerTypeOK
<1>19. ASSUME NEW g \in Generations, Drained(g), UNCHANGED <<hostVars, clientVars, faults>>
      PROVE  \A p \in Generations : InputMoves(p)
  BY <1>19 DEF Drained, EndProcess, Types, ServerTypeOK
<1>20. ASSUME NEW g \in Generations, NEW k \in Calls, Handle(g, k),
              UNCHANGED <<hostVars, clientVars, faults>>
      PROVE  \A p \in Generations : InputMoves(p)
  BY <1>20 DEF Handle
<1>21. ASSUME NEW g \in Generations, NEW k \in Calls, Answer(g, k),
              UNCHANGED <<hostVars, clientVars, faults>>
      PROVE  \A p \in Generations : InputMoves(p)
  BY <1>21 DEF Answer
<1>22. ASSUME NEW g \in Generations, Crash(g) PROVE \A p \in Generations : InputMoves(p)
  BY <1>22 DEF Crash, EndProcess, Types, ServerTypeOK
<1>23. ASSUME NEW g \in Generations, ReaderFails(g)
      PROVE  \A p \in Generations : InputMoves(p)
  BY <1>23, TakesInput DEF ReaderFails, ReadError, Claim, serverVars
<1>24. ASSUME CloseApplication PROVE \A p \in Generations : InputMoves(p)
  BY <1>24 DEF CloseApplication, BeginExit, InputMoves, serverVars
<1>25. ASSUME UNCHANGED vars PROVE \A p \in Generations : InputMoves(p)
  BY <1>25 DEF vars, hostVars, serverVars, clientVars
<1>30. ASSUME NEW g \in Generations, Server(g) PROVE \A p \in Generations : InputMoves(p)
  BY <1>30, <1>15, <1>16, <1>17, <1>18, <1>19, <1>20, <1>21 DEF Server,
     ServerStep
<1>31. CASE Host
  BY <1>31, <1>12, <1>13, <1>14, <1>41 DEF Host, HostStep, Listening
<1>32. CASE Progress
  BY <1>32, <1>31, <1>2, <1>3, <1>4, <1>5, <1>6, <1>7, <1>8, <1>9, <1>10,
     <1>11, <1>40 DEF Progress, Window, Command
<1> QED
  BY <1>1, <1>22, <1>23, <1>24, <1>25, <1>30, <1>32 DEF Next


LEMMA AskedGrows ==
    ASSUME Types, [Next]_vars
    PROVE  Asked \subseteq Asked'
BY ClientMovesStep, AskedStays DEF Asked, Requests

LEMMA AskedOnTheWayStep ==
    ASSUME Types, AskedOnTheWay, [Next]_vars
    PROVE  AskedOnTheWay'
<1> SUFFICES ASSUME NEW g \in Generations, NEW i \in DOMAIN input'[g],
                    input'[g][i].kind = "request", input'[g][i].id \in Calls
             PROVE  input'[g][i].id \in Asked
  BY AskedGrows DEF AskedOnTheWay
<1>1. input[g] \in Seq(Commands \cup {Shutdown})
  BY DEF Types, ServerTypeOK
<1>2. CASE input'[g] = input[g]
  BY <1>2 DEF AskedOnTheWay
<1>3. CASE input'[g] = <<>>
  BY <1>3
<1>4. CASE input[g] # <<>> /\ input'[g] = Tail(input[g])
  <2>1. i + 1 \in DOMAIN input[g] /\ input'[g][i] = input[g][i + 1]
    BY <1>1, <1>4
  <2> QED
    BY <2>1 DEF AskedOnTheWay
<1>5. ASSUME NEW c \in Sent, input'[g] = Append(input[g], c)
      PROVE  input'[g][i].id \in Asked
  <2>1. c \in Commands \cup {Shutdown}
    BY DEF Sent
  <2>2. input'[g][i] # c => i \in DOMAIN input[g] /\ input'[g][i] = input[g][i]
    BY <1>1, <1>5, <2>1, SequencesKeep
  <2> QED
    BY <2>2 DEF Sent, AskedOnTheWay
<1> QED
  BY <1>2, <1>3, <1>4, <1>5, InputMovesStep DEF InputMoves


\* What a step does to call k.
CallMoves(k) ==
    \/ call'[k] = call[k]
    \/ k \in Asked /\ call'[k].at = "succeeded" /\ k \in executed'
    \/ k \in Asked /\ call'[k].at \in {"handling", "failed", "answered"}

Effects == /\ \A k \in Calls : CallMoves(k)
           /\ executed' = executed \/ \E k \in Asked : executed' = executed \cup {k}


\* A sidecar starts, carries out and answers only what was asked.
LEMMA CallMovesStep ==
    ASSUME Types, AskedOnTheWay, ReadAsked, [Next]_vars
    PROVE  Effects
<1> USE DEF CallMoves, Effects
<1>1. ASSUME NEW k \in Calls, Ask(k) PROVE Effects
  BY <1>1 DEF Ask, hostVars, serverVars, clientVars
<1>2. ASSUME NEW c \in Clients, StartSidecar(c) PROVE Effects
  BY <1>2 DEF StartSidecar, Spawn, AlreadyStarted, serverVars, hostVars
<1>3. ASSUME NEW c \in Clients, Started(c) PROVE Effects
  BY <1>3 DEF Started, hostVars, serverVars, clientVars
<1>4. ASSUME NEW c \in Clients, NotStarted(c) PROVE Effects
  BY <1>4 DEF NotStarted, hostVars, serverVars, clientVars
<1>5. ASSUME NEW c \in Clients, StopSidecar(c) PROVE Effects
  BY <1>5 DEF StopSidecar, Stop, TakeChild, EndProcess, serverVars
<1>6. ASSUME NEW c \in Clients, LoseConnection(c) PROVE Effects
  BY <1>6 DEF LoseConnection, NoticesEnd, serverVars
<1>7. ASSUME NEW r \in Requests, HostWrite(r) PROVE Effects
  BY <1>7, WriteLeaves, WritersWrite
<1>8. ASSUME NEW r \in Requests, Written(r) PROVE Effects
  BY <1>8 DEF Written, hostVars, serverVars, clientVars
<1>9. ASSUME NEW r \in Requests, NotWritten(r) PROVE Effects
  BY <1>9 DEF NotWritten, hostVars, serverVars, clientVars
<1>10. ASSUME NEW r \in Requests, GiveUp(r) PROVE Effects
  BY <1>10 DEF GiveUp, serverVars
<1>40. ASSUME NEW r \in Requests, HostCancel(r) PROVE Effects
  BY <1>40, WriteLeaves, WritersWrite
<1>41. ASSUME WriteShutdown, UNCHANGED <<clientVars, faults>>
      PROVE  Effects
  BY <1>41, WriteLeaves, WritersWrite
<1>11. ASSUME NEW g \in Generations, Consume(g) PROVE Effects
  BY <1>11 DEF Consume, Emit
<1>12. ASSUME NEW g \in Generations, EndOfEvents(g), UNCHANGED <<clientVars, faults>>
      PROVE  Effects
  BY <1>12 DEF EndOfEvents, Claim, TakeChild, EndProcess, serverVars
<1>13. ASSUME NEW g \in Generations, EmitLifecycle(g, Listening), UNCHANGED <<clientVars, faults>>
      PROVE  Effects
  BY <1>13 DEF EmitLifecycle, serverVars
<1>14. ASSUME FinishExit, UNCHANGED <<clientVars, faults>> PROVE Effects
  BY <1>14 DEF FinishExit, TakeChild, EndProcess, serverVars
<1>15. ASSUME NEW g \in Generations, ReadHandshake(g),
              UNCHANGED <<hostVars, clientVars, faults>>
      PROVE  Effects
  BY <1>15 DEF ReadHandshake
<1>16. ASSUME NEW g \in Generations, ReadCall(g), UNCHANGED <<hostVars, clientVars, faults>>
      PROVE  Effects
  <2>1. PICK k \in Calls : /\ Reads(g, [kind |-> "request", id |-> k])
                           /\ call' = [call EXCEPT ![k] = [in |-> g, at |-> "handling"]]
                           /\ UNCHANGED executed
    BY <1>16 DEF ReadCall
  <2>2. k \in Asked
    <3>1. 1 \in DOMAIN input[g] /\ input[g][1] = [kind |-> "request", id |-> k]
      BY <2>1 DEF Reads, Types, ServerTypeOK
    <3> QED
      BY <3>1 DEF AskedOnTheWay
  <2> QED
    BY <2>1, <2>2 DEF Types, ServerTypeOK
<1>17. ASSUME NEW g \in Generations, ReadCancel(g), UNCHANGED <<hostVars, clientVars, faults>>
      PROVE  Effects
  BY <1>17 DEF ReadCancel
<1>18. ASSUME NEW g \in Generations, ReadShutdown(g),
              UNCHANGED <<hostVars, clientVars, faults>>
      PROVE  Effects
  BY <1>18 DEF ReadShutdown
<1>19. ASSUME NEW g \in Generations, Drained(g), UNCHANGED <<hostVars, clientVars, faults>>
      PROVE  Effects
  BY <1>19 DEF Drained, EndProcess
<1>20. ASSUME NEW g \in Generations, NEW k \in Calls, Handle(g, k),
              UNCHANGED <<hostVars, clientVars, faults>>
      PROVE  Effects
  <2>1. k \in Asked
    BY <1>20 DEF Handle, ReadAsked
  <2>2. CASE call' = [call EXCEPT ![k] = [@ EXCEPT !.at = "succeeded"]] /\ executed' = executed \cup {k}
    BY <2>1, <2>2 DEF Types, ServerTypeOK
  <2>3. CASE call' = [call EXCEPT ![k] = [@ EXCEPT !.at = "failed"]] /\ executed' = executed
    BY <2>1, <2>3 DEF Types, ServerTypeOK
  <2> QED
    BY <1>20, <2>2, <2>3 DEF Handle
<1>21. ASSUME NEW g \in Generations, NEW k \in Calls, Answer(g, k),
              UNCHANGED <<hostVars, clientVars, faults>>
      PROVE  Effects
  <2>1. call[k].at \in {"succeeded", "failed"}
        /\ call' = [call EXCEPT ![k] = [@ EXCEPT !.at = "answered"]] /\ executed' = executed
    BY <1>21 DEF Answer
  <2>2. k \in Asked
    BY <2>1 DEF ReadAsked
  <2> QED
    BY <2>1, <2>2 DEF Types, ServerTypeOK
<1>22. ASSUME NEW g \in Generations, Crash(g) PROVE Effects
  BY <1>22 DEF Crash, EndProcess
<1>23. ASSUME NEW g \in Generations, ReaderFails(g) PROVE Effects
  BY <1>23 DEF ReaderFails, ReadError, Claim, TakeChild, EndProcess, serverVars
<1>24. ASSUME CloseApplication PROVE Effects
  BY <1>24 DEF CloseApplication, BeginExit, serverVars
<1>25. ASSUME UNCHANGED vars PROVE Effects
  BY <1>25 DEF vars, hostVars, serverVars, clientVars
<1>30. ASSUME NEW g \in Generations, Server(g) PROVE Effects
  BY <1>30, <1>15, <1>16, <1>17, <1>18, <1>19, <1>20, <1>21 DEF Server,
     ServerStep
<1>31. CASE Host
  BY <1>31, <1>12, <1>13, <1>14, <1>41 DEF Host, HostStep, Listening
<1>32. CASE Progress
  BY <1>32, <1>31, <1>2, <1>3, <1>4, <1>5, <1>6, <1>7, <1>8, <1>9, <1>10,
     <1>11, <1>40 DEF Progress, Window, Command
<1> QED
  BY <1>1, <1>22, <1>23, <1>24, <1>25, <1>30, <1>32 DEF Next


LEMMA ReadAskedStep ==
    ASSUME Types, AskedOnTheWay, ReadAsked, [Next]_vars
    PROVE  ReadAsked'
BY CallMovesStep, AskedGrows DEF Effects, CallMoves, ReadAsked

LEMMA HandledTrueStep ==
    ASSUME Types, AskedOnTheWay, ReadAsked, HandledTrue, [Next]_vars
    PROVE  HandledTrue'
BY CallMovesStep DEF Effects, CallMoves, HandledTrue

\* What a step does to the pipe from process g.
Said == {r \in Results : r.ok /\ r.id \in Calls => r.id \in executed}
OutputMoves(g) == \/ output'[g] = output[g]
                  \/ output[g] # <<>> /\ output'[g] = Tail(output[g])
                  \/ \E r \in Said : output'[g] = Append(output[g], r)


LEMMA OutputMovesStep ==
    ASSUME Types, HandledTrue, [Next]_vars
    PROVE  \A p \in Generations : OutputMoves(p)
<1> USE DEF OutputMoves
<1>1. ASSUME NEW k \in Calls, Ask(k) PROVE \A p \in Generations : OutputMoves(p)
  BY <1>1 DEF Ask, hostVars, serverVars, clientVars
<1>2. ASSUME NEW c \in Clients, StartSidecar(c)
     PROVE  \A p \in Generations : OutputMoves(p)
  BY <1>2 DEF StartSidecar, Spawn, AlreadyStarted, serverVars, hostVars
<1>3. ASSUME NEW c \in Clients, Started(c) PROVE \A p \in Generations : OutputMoves(p)
  BY <1>3 DEF Started, hostVars, serverVars, clientVars
<1>4. ASSUME NEW c \in Clients, NotStarted(c)
     PROVE  \A p \in Generations : OutputMoves(p)
  BY <1>4 DEF NotStarted, hostVars, serverVars, clientVars
<1>5. ASSUME NEW c \in Clients, StopSidecar(c)
     PROVE  \A p \in Generations : OutputMoves(p)
  BY <1>5 DEF StopSidecar, Stop, TakeChild, EndProcess, serverVars
<1>6. ASSUME NEW c \in Clients, LoseConnection(c)
     PROVE  \A p \in Generations : OutputMoves(p)
  BY <1>6 DEF LoseConnection, NoticesEnd, serverVars
<1>7. ASSUME NEW r \in Requests, HostWrite(r) PROVE \A p \in Generations : OutputMoves(p)
  BY <1>7, WriteLeaves, WritersWrite
<1>8. ASSUME NEW r \in Requests, Written(r) PROVE \A p \in Generations : OutputMoves(p)
  BY <1>8 DEF Written, hostVars, serverVars, clientVars
<1>9. ASSUME NEW r \in Requests, NotWritten(r)
     PROVE  \A p \in Generations : OutputMoves(p)
  BY <1>9 DEF NotWritten, hostVars, serverVars, clientVars
<1>10. ASSUME NEW r \in Requests, GiveUp(r) PROVE \A p \in Generations : OutputMoves(p)
  BY <1>10 DEF GiveUp, serverVars
<1>40. ASSUME NEW r \in Requests, HostCancel(r) PROVE \A p \in Generations : OutputMoves(p)
  BY <1>40, WriteLeaves, WritersWrite
<1>41. ASSUME WriteShutdown, UNCHANGED <<clientVars, faults>>
      PROVE  \A p \in Generations : OutputMoves(p)
  BY <1>41, WriteLeaves, WritersWrite
<1>11. ASSUME NEW g \in Generations, Consume(g)
      PROVE  \A p \in Generations : OutputMoves(p)
  BY <1>11 DEF Consume, Emit, Types, ServerTypeOK
<1>12. ASSUME NEW g \in Generations, EndOfEvents(g), UNCHANGED <<clientVars, faults>>
      PROVE  \A p \in Generations : OutputMoves(p)
  BY <1>12 DEF EndOfEvents, Claim, TakeChild, EndProcess, serverVars
<1>13. ASSUME NEW g \in Generations, EmitLifecycle(g, Listening), UNCHANGED <<clientVars, faults>>
      PROVE  \A p \in Generations : OutputMoves(p)
  BY <1>13 DEF EmitLifecycle, serverVars
<1>14. ASSUME FinishExit, UNCHANGED <<clientVars, faults>>
      PROVE  \A p \in Generations : OutputMoves(p)
  BY <1>14 DEF FinishExit, TakeChild, EndProcess, serverVars
<1>15. ASSUME NEW g \in Generations, ReadHandshake(g),
              UNCHANGED <<hostVars, clientVars, faults>>
      PROVE  \A p \in Generations : OutputMoves(p)
  <2>1. PICK h \in Handshakes : Write(g, h, TRUE)
    BY <1>15 DEF ReadHandshake
  <2>2. [id |-> h, ok |-> TRUE] \in Said
    BY RequestsKnown DEF Said, Results, Requests
  <2> QED
    BY <2>1, <2>2 DEF Write, Types, ServerTypeOK
<1>16. ASSUME NEW g \in Generations, ReadCall(g), UNCHANGED <<hostVars, clientVars, faults>>
      PROVE  \A p \in Generations : OutputMoves(p)
  BY <1>16 DEF ReadCall
<1>17. ASSUME NEW g \in Generations, ReadCancel(g), UNCHANGED <<hostVars, clientVars, faults>>
      PROVE  \A p \in Generations : OutputMoves(p)
  BY <1>17 DEF ReadCancel
<1>18. ASSUME NEW g \in Generations, ReadShutdown(g),
              UNCHANGED <<hostVars, clientVars, faults>>
      PROVE  \A p \in Generations : OutputMoves(p)
  BY <1>18 DEF ReadShutdown
<1>19. ASSUME NEW g \in Generations, Drained(g), UNCHANGED <<hostVars, clientVars, faults>>
      PROVE  \A p \in Generations : OutputMoves(p)
  BY <1>19 DEF Drained, EndProcess
<1>20. ASSUME NEW g \in Generations, NEW k \in Calls, Handle(g, k),
              UNCHANGED <<hostVars, clientVars, faults>>
      PROVE  \A p \in Generations : OutputMoves(p)
  BY <1>20 DEF Handle
<1>21. ASSUME NEW g \in Generations, NEW k \in Calls, Answer(g, k),
              UNCHANGED <<hostVars, clientVars, faults>>
      PROVE  \A p \in Generations : OutputMoves(p)
  <2>1. Write(g, k, call[k].at = "succeeded" /\ k \notin cancelled)
    BY <1>21 DEF Answer
  <2> DEFINE r == [id |-> k, ok |-> call[k].at = "succeeded" /\ k \notin cancelled]
  <2>2. r \in Said
    BY DEF Said, Results, Requests, HandledTrue
  <2>3. output' = [output EXCEPT ![g] = Append(@, r)]
    BY <2>1 DEF Write
  <2> HIDE DEF r
  <2> QED
    BY <2>2, <2>3 DEF Types, ServerTypeOK
<1>22. ASSUME NEW g \in Generations, Crash(g)
      PROVE  \A p \in Generations : OutputMoves(p)
  BY <1>22 DEF Crash, EndProcess
<1>23. ASSUME NEW g \in Generations, ReaderFails(g)
      PROVE  \A p \in Generations : OutputMoves(p)
  BY <1>23 DEF ReaderFails, ReadError, Claim, TakeChild, EndProcess, serverVars
<1>24. ASSUME CloseApplication PROVE \A p \in Generations : OutputMoves(p)
  BY <1>24 DEF CloseApplication, BeginExit, serverVars
<1>25. ASSUME UNCHANGED vars PROVE \A p \in Generations : OutputMoves(p)
  BY <1>25 DEF vars, hostVars, serverVars, clientVars
<1>30. ASSUME NEW g \in Generations, Server(g)
      PROVE  \A p \in Generations : OutputMoves(p)
  BY <1>30, <1>15, <1>16, <1>17, <1>18, <1>19, <1>20, <1>21 DEF Server,
     ServerStep
<1>31. CASE Host
  BY <1>31, <1>12, <1>13, <1>14, <1>41 DEF Host, HostStep, Listening
<1>32. CASE Progress
  BY <1>32, <1>31, <1>2, <1>3, <1>4, <1>5, <1>6, <1>7, <1>8, <1>9, <1>10,
     <1>11, <1>40 DEF Progress, Window, Command
<1> QED
  BY <1>1, <1>22, <1>23, <1>24, <1>25, <1>30, <1>32 DEF Next


LEMMA AnswersTrueStep ==
    ASSUME Types, AskedOnTheWay, ReadAsked, HandledTrue, AnswersTrue, [Next]_vars
    PROVE  AnswersTrue'
<1>1. executed \subseteq executed'
  BY CallMovesStep DEF Effects
<1> SUFFICES ASSUME NEW g \in Generations, NEW i \in DOMAIN output'[g],
                    output'[g][i].ok, output'[g][i].id \in Calls
             PROVE  output'[g][i].id \in executed
  BY <1>1 DEF AnswersTrue
<1>2. output[g] \in Seq(Results)
  BY DEF Types, ServerTypeOK
<1>3. CASE output'[g] = output[g]
  BY <1>3 DEF AnswersTrue
<1>4. CASE output[g] # <<>> /\ output'[g] = Tail(output[g])
  <2>1. i + 1 \in DOMAIN output[g] /\ output'[g][i] = output[g][i + 1]
    BY <1>2, <1>4
  <2> QED
    BY <2>1 DEF AnswersTrue
<1>5. ASSUME NEW r \in Said, output'[g] = Append(output[g], r)
      PROVE  output'[g][i].id \in executed
  <2>1. r \in Results
    BY DEF Said
  <2>2. output'[g][i] # r => i \in DOMAIN output[g] /\ output'[g][i] = output[g][i]
    BY <1>2, <1>5, <2>1, SequencesKeep
  <2> QED
    BY <2>2 DEF Said, AnswersTrue
<1> QED
  BY <1>3, <1>4, <1>5, OutputMovesStep DEF OutputMoves


-----------------------------------------------------------------------------
(* The promise of a call                                                   *)

\* What a step may do to the promise of call k.
Kept(k) == /\ status'[k] = "idle" <=> status[k] = "idle"
           /\ Outcome'[k] = Outcome[k]
Rejected(k) == /\ status[k] # "idle" /\ status'[k] # "idle"
               /\ Outcome[k] = "none" /\ Outcome'[k] = "rejected"
Resolved(k) == /\ status[k] # "idle" /\ status'[k] # "idle" /\ k \in executed
               /\ Outcome[k] = "none" /\ Outcome'[k] = "resolved"

PromiseMoves ==
    \/ \A k \in Calls : Kept(k) \/ Rejected(k)
    \/ \E k \in Calls : Resolved(k) /\ \A j \in Calls \ {k} : Kept(j)
    \/ \E k \in Calls : /\ k \notin Asked /\ status'[k] # "idle" /\ Outcome'[k] = Outcome[k]
                        /\ \A j \in Calls \ {k} : Kept(j)

LEMMA OutcomeOf ==
    ASSUME NEW k \in Calls
    PROVE  /\ Outcome[k] = IF status[k] = "done" THEN result[k] ELSE "none"
           /\ Outcome'[k] = IF status'[k] = "done" THEN result'[k] ELSE "none"
           /\ k \in Requests
BY DEF Outcome, Requests

LEMMA StillMoves ==
    ASSUME UNCHANGED <<status, result>>
    PROVE  PromiseMoves
BY DEF PromiseMoves, Kept, Outcome

\* A call that goes on, after nothing has happened to it or it was rejected.
LEMMA GoesOnMoves ==
    ASSUME NEW k \in Calls, NEW stat, NEW res, GoesOn(k, stat, res),
           \/ stat[k] = status[k] /\ res[k] = result[k]
           \/ Moved(k, stat, res) /\ res[k] = "rejected"
    PROVE  Kept(k) \/ Rejected(k)
<1>1. CASE stat[k] = status[k] /\ res[k] = result[k]
  BY <1>1, OutcomeOf DEF Kept, Rejected, GoesOn
<1>2. CASE Moved(k, stat, res) /\ res[k] = "rejected"
  <2>1. \/ status[k] = "sent" /\ result[k] = "rejected" /\ stat[k] = "done"
        \/ status[k] = "refused" /\ stat[k] = "done"
        \/ /\ status[k] \in Statuses \ {"idle", "queued", "done"} /\ result[k] = "none"
           /\ stat[k] = IF status[k] = "waiting" THEN "done" ELSE status[k]
        \/ stat[k] = status[k] /\ res[k] = result[k]
    BY <1>2 DEF Moved, IsPending
  <2>2. CASE status[k] = "sent" /\ result[k] = "rejected" /\ stat[k] = "done"
    BY <1>2, <2>2, OutcomeOf DEF Kept, Rejected, GoesOn
  <2>3. CASE status[k] = "refused" /\ stat[k] = "done"
    BY <1>2, <2>3, OutcomeOf DEF Kept, Rejected, GoesOn
  <2>4. CASE /\ status[k] \in Statuses \ {"idle", "queued", "done"} /\ result[k] = "none"
             /\ stat[k] = IF status[k] = "waiting" THEN "done" ELSE status[k]
    BY <1>2, <2>4, OutcomeOf DEF Kept, Rejected, GoesOn
  <2> QED
    BY <1>1, <2>1, <2>2, <2>3, <2>4
<1> QED
  BY <1>1, <1>2

\* A turn in which nothing resolves.
LEMMA RejectingTurn ==
    ASSUME NEW c, NEW stat, NEW res, NEW up, Turn(c, stat, res, up),
           \A k \in Calls : \/ stat[k] = status[k] /\ res[k] = result[k]
                            \/ res[k] = "rejected"
    PROVE  PromiseMoves
<1>1. \A k \in Calls : GoesOn(k, stat, res) /\ Moved(k, stat, res)
  BY DEF Turn, Turned, Requests
<1>2. \A k \in Calls : Kept(k) \/ Rejected(k)
  BY <1>1, GoesOnMoves
<1> QED
  BY <1>2 DEF PromiseMoves

\* A turn that begins with call k.
LEMMA ResolvingTurn ==
    ASSUME ClientInv, NEW k \in Calls, NEW c \in Clients, NEW stat, NEW res, NEW up,
           Turn(c, stat, res, up),
           \A r \in Requests \ {k} : stat[r] = status[r] /\ res[r] = result[r]
    PROVE  status' = stat /\ result' = res
<1>1. ~(starting[c] = "handshake" /\ stat[Handshake(c)] = "done")
  <2> SUFFICES ASSUME starting[c] = "handshake" PROVE stat[Handshake(c)] # "done"
    OBVIOUS
  <2>1. Handshake(c) \in Requests \ {k}
    BY HandshakeKnown DEF ClientInv, Attempts
  <2> QED
    BY <2>1 DEF ClientInv, HandshakeOpen
<1> QED
  BY <1>1 DEF Turn, Turned

\* A step asks one call, resolves one that has taken effect, or rejects some.
LEMMA PromiseMovesStep ==
    ASSUME ClientInv, Types, Attempts, AnswersTrue, ResultsTrue, [Next]_vars
    PROVE  PromiseMoves
<1>1. ASSUME NEW k \in Calls, Ask(k) PROVE PromiseMoves
  <2>1. k \in Requests /\ k \notin Asked
    BY <1>1 DEF Ask, Requests
  <2>2. /\ status'[k] \in {"sending", "queued"} /\ status[k] = "idle" /\ result' = result
        /\ \A j \in Requests \ {k} : status'[j] = status[j]
    BY <1>1, <2>1 DEF Ask, Asked, Types, ClientTypeOK
  <2>3. Outcome'[k] = Outcome[k] /\ \A j \in Calls \ {k} : Kept(j)
    BY <2>2, OutcomeOf DEF Kept
  <2> QED
    BY <2>1, <2>2, <2>3 DEF PromiseMoves
<1>2. ASSUME NEW c \in Clients, StartSidecar(c) PROVE PromiseMoves
  BY <1>2, StillMoves DEF StartSidecar
<1>3. ASSUME NEW c \in Clients, Started(c) PROVE PromiseMoves
  <2>1. /\ result' = result /\ Handshake(c) \notin Calls
        /\ \A k \in Requests : k # Handshake(c) => status'[k] = status[k]
    BY <1>3, HandshakeKnown DEF Started, Attempts, Types, ClientTypeOK
  <2>2. \A k \in Calls : Kept(k)
    BY <2>1, OutcomeOf DEF Kept
  <2> QED
    BY <2>2 DEF PromiseMoves
<1>4. ASSUME NEW c \in Clients, NotStarted(c) PROVE PromiseMoves
  <2>1. \A k \in Requests : GoesOn(k, status, result)
    BY <1>4, DisconnectTurns DEF NotStarted, Types, ClientTypeOK
  <2>2. \A k \in Calls : Kept(k) \/ Rejected(k)
    BY <2>1, GoesOnMoves, OutcomeOf
  <2> QED
    BY <2>2 DEF PromiseMoves
<1>5. ASSUME NEW c \in Clients, StopSidecar(c) PROVE PromiseMoves
  <2>1. \A k \in Requests : GoesOn(k, status, result)
    BY <1>5, StartOverTurns DEF StopSidecar, Types, ClientTypeOK
  <2>2. \A k \in Calls : Kept(k) \/ Rejected(k)
    BY <2>1, GoesOnMoves, OutcomeOf
  <2> QED
    BY <2>2 DEF PromiseMoves
<1>6. ASSUME NEW c \in Clients, LoseConnection(c) PROVE PromiseMoves
  <2> DEFINE stat == SettleStatus(Pending(c), status)
             res == SettleResult(Pending(c), "rejected", result)
             up == FALSE
  <2>1. Turn(c, stat, res, up)
    BY <1>6, LoseTurns
  <2>2. \A k \in Requests : \/ stat[k] = status[k] /\ res[k] = result[k]
                            \/ res[k] = "rejected"
    BY DEF SettleStatus, SettleResult
  <2> HIDE DEF stat, res, up
  <2> QED
    BY <2>1, <2>2, RejectingTurn DEF Requests
<1>7. ASSUME NEW r \in Requests, HostWrite(r) PROVE PromiseMoves
  <2>1. /\ result' = result /\ status[r] = "sending" /\ status'[r] \in {"sending", "sent", "refused"}
        /\ \A k \in Requests : k # r => status'[k] = status[k]
    BY <1>7 DEF HostWrite, Types, ClientTypeOK
  <2>2. \A k \in Calls : Kept(k)
    BY <2>1, OutcomeOf DEF Kept
  <2> QED
    BY <2>2 DEF PromiseMoves
<1>8. ASSUME NEW r \in Requests, Written(r) PROVE PromiseMoves
  <2> DEFINE stat == [status EXCEPT ![r] = IF result[r] = "none" THEN "waiting" ELSE "done"]
  <2>1. Turn(Owner(r), stat, result, started[Owner(r)]) /\ status[r] = "sent"
    BY <1>8, WrittenTurns DEF Written
  <2>2. /\ \A k \in Requests \ {r} : stat[k] = status[k]
        /\ stat[r] = IF result[r] = "none" THEN "waiting" ELSE "done"
    BY DEF Types, ClientTypeOK
  <2> HIDE DEF stat
  <2>3. CASE r \notin Calls
    BY <2>1, <2>2, <2>3, RejectingTurn DEF Requests
  <2>4. CASE r \in Calls
    <3>1. status' = stat /\ result' = result
      BY <2>1, <2>2, <2>4, RequestsKnown, ResolvingTurn
    <3>2. \A j \in Calls \ {r} : Kept(j)
      BY <2>2, <3>1, OutcomeOf DEF Kept
    <3>3. Kept(r) \/ Rejected(r) \/ Resolved(r)
      BY <2>1, <2>2, <2>4, <3>1, OutcomeOf DEF Kept, Rejected, Resolved, ResultsTrue, Types,
         ClientTypeOK, States
    <3> QED
      BY <2>4, <3>2, <3>3 DEF PromiseMoves
  <2> QED
    BY <2>3, <2>4
<1>9. ASSUME NEW r \in Requests, NotWritten(r) PROVE PromiseMoves
  <2> DEFINE stat == [status EXCEPT ![r] = "done"]
             res == [result EXCEPT ![r] = "rejected"]
  <2>1. Turn(Owner(r), stat, res, started[Owner(r)])
    BY <1>9, NotWrittenTurns
  <2>2. \A k \in Requests : \/ stat[k] = status[k] /\ res[k] = result[k]
                            \/ res[k] = "rejected"
    BY DEF Types, ClientTypeOK
  <2> HIDE DEF stat, res
  <2> QED
    BY <2>1, <2>2, RejectingTurn DEF Requests
<1>10. ASSUME NEW r \in Requests, GiveUp(r) PROVE PromiseMoves
  <2> DEFINE stat == SettleStatus({r}, status)
             res == SettleResult({r}, "rejected", result)
  <2>1. Turn(Owner(r), stat, res, started[Owner(r)])
    BY <1>10, GiveUpTurns
  <2>2. \A k \in Requests : \/ stat[k] = status[k] /\ res[k] = result[k]
                            \/ res[k] = "rejected"
    BY DEF SettleStatus, SettleResult
  <2> HIDE DEF stat, res
  <2> QED
    BY <2>1, <2>2, RejectingTurn DEF Requests
<1>40. ASSUME NEW r \in Requests, HostCancel(r) PROVE PromiseMoves
  BY <1>40, StillMoves DEF HostCancel
<1>41. ASSUME WriteShutdown, UNCHANGED <<clientVars, faults>>
      PROVE  PromiseMoves
  BY <1>41, StillMoves DEF clientVars
<1>11. ASSUME NEW g \in Generations, Consume(g) PROVE PromiseMoves
  <2>1. PICK m \in Results :
          LET R == {m.id} \cap Pending(Owner(m.id))
          IN  /\ Emit(g, m)
              /\ Turn(Owner(m.id), SettleStatus(R, status),
                      SettleResult(R, IF m.ok THEN "resolved" ELSE "rejected", result),
                      started[Owner(m.id)])
    BY <1>11, ConsumeTurns
  <2> DEFINE R == {m.id} \cap Pending(Owner(m.id))
             how == IF m.ok THEN "resolved" ELSE "rejected"
             stat == SettleStatus(R, status)
             res == SettleResult(R, how, result)
  <2>2. Turn(Owner(m.id), stat, res, started[Owner(m.id)])
    BY <2>1
  <2>3. /\ \A k \in Requests \ R : stat[k] = status[k] /\ res[k] = result[k]
        /\ \A k \in Requests \cap R : /\ res[k] = how
                                      /\ stat[k] = IF status[k] = "waiting" THEN "done" ELSE status[k]
    BY DEF SettleStatus, SettleResult
  <2>4. R \subseteq {m.id} /\ \A k \in R : IsPending(k, status, result)
    BY DEF Pending
  <2>5. m.id \in Requests /\ Owner(m.id) \in Clients
    BY RequestsKnown DEF Results
  <2>6. m.ok /\ m.id \in Calls => m.id \in executed
    <3>1. 1 \in DOMAIN output[g] /\ m = output[g][1]
      BY <2>1 DEF Emit, Types, ServerTypeOK
    <3> QED
      BY <3>1 DEF AnswersTrue
  <2> HIDE DEF R, stat, res
  <2>7. CASE ~m.ok \/ m.id \notin Calls \/ m.id \notin R
    <3>1. \A k \in Calls : \/ stat[k] = status[k] /\ res[k] = result[k]
                           \/ res[k] = "rejected"
      BY <2>3, <2>4, <2>7 DEF Requests
    <3> QED
      BY <2>2, <3>1, RejectingTurn
  <2>8. CASE m.ok /\ m.id \in Calls /\ m.id \in R
    <3> DEFINE k == m.id
    <3>1. \A r \in Requests \ {k} : stat[r] = status[r] /\ res[r] = result[r]
      BY <2>3, <2>4
    <3>2. status' = stat /\ result' = res
      BY <2>2, <2>5, <2>8, <3>1, ResolvingTurn
    <3>3. \A j \in Calls \ {k} : Kept(j)
      BY <3>1, <3>2, OutcomeOf DEF Kept
    <3>4. /\ status[k] \in Statuses \ {"idle", "queued", "done"}
          /\ status'[k] = IF status[k] = "waiting" THEN "done" ELSE status[k]
          /\ result'[k] = "resolved"
      BY <2>3, <2>4, <2>5, <2>8, <3>2 DEF IsPending
    <3>5. Kept(k) \/ Resolved(k)
      BY <2>6, <2>8, <3>4, OutcomeOf DEF Kept, Resolved
    <3> QED
      BY <2>8, <3>3, <3>5 DEF PromiseMoves
  <2> QED
    BY <2>7, <2>8
<1>12. ASSUME NEW g \in Generations, EndOfEvents(g), UNCHANGED <<clientVars, faults>>
      PROVE  PromiseMoves
  BY <1>12, StillMoves DEF clientVars
<1>13. ASSUME NEW g \in Generations, EmitLifecycle(g, Listening), UNCHANGED <<clientVars, faults>>
      PROVE  PromiseMoves
  BY <1>13, StillMoves DEF clientVars
<1>14. ASSUME FinishExit, UNCHANGED <<clientVars, faults>> PROVE PromiseMoves
  BY <1>14, StillMoves DEF clientVars
<1>15. ASSUME NEW g \in Generations, ReadHandshake(g),
              UNCHANGED <<hostVars, clientVars, faults>>
      PROVE  PromiseMoves
  BY <1>15, StillMoves DEF clientVars
<1>16. ASSUME NEW g \in Generations, ReadCall(g), UNCHANGED <<hostVars, clientVars, faults>>
      PROVE  PromiseMoves
  BY <1>16, StillMoves DEF clientVars
<1>17. ASSUME NEW g \in Generations, ReadCancel(g), UNCHANGED <<hostVars, clientVars, faults>>
      PROVE  PromiseMoves
  BY <1>17, StillMoves DEF clientVars
<1>18. ASSUME NEW g \in Generations, ReadShutdown(g),
              UNCHANGED <<hostVars, clientVars, faults>>
      PROVE  PromiseMoves
  BY <1>18, StillMoves DEF clientVars
<1>19. ASSUME NEW g \in Generations, Drained(g), UNCHANGED <<hostVars, clientVars, faults>>
      PROVE  PromiseMoves
  BY <1>19, StillMoves DEF clientVars
<1>20. ASSUME NEW g \in Generations, NEW k \in Calls, Handle(g, k),
              UNCHANGED <<hostVars, clientVars, faults>>
      PROVE  PromiseMoves
  BY <1>20, StillMoves DEF clientVars
<1>21. ASSUME NEW g \in Generations, NEW k \in Calls, Answer(g, k),
              UNCHANGED <<hostVars, clientVars, faults>>
      PROVE  PromiseMoves
  BY <1>21, StillMoves DEF clientVars
<1>22. ASSUME NEW g \in Generations, Crash(g) PROVE PromiseMoves
  BY <1>22, StillMoves DEF Crash, clientVars
<1>23. ASSUME NEW g \in Generations, ReaderFails(g) PROVE PromiseMoves
  BY <1>23, StillMoves DEF ReaderFails, clientVars
<1>24. ASSUME CloseApplication PROVE PromiseMoves
  BY <1>24, StillMoves DEF CloseApplication, clientVars
<1>25. ASSUME UNCHANGED vars PROVE PromiseMoves
  BY <1>25, StillMoves DEF clientVars, vars
<1>30. ASSUME NEW g \in Generations, Server(g) PROVE PromiseMoves
  BY <1>30, <1>15, <1>16, <1>17, <1>18, <1>19, <1>20, <1>21 DEF Server,
     ServerStep
<1>31. CASE Host
  BY <1>31, <1>12, <1>13, <1>14, <1>41 DEF Host, HostStep, Listening
<1>32. CASE Progress
  BY <1>32, <1>31, <1>2, <1>3, <1>4, <1>5, <1>6, <1>7, <1>8, <1>9, <1>10,
     <1>11, <1>40 DEF Progress, Window, Command
<1> QED
  BY <1>1, <1>22, <1>23, <1>24, <1>25, <1>30, <1>32 DEF Next


\* What is settled as resolved has taken effect.
ResultMoves == \A k \in Calls :
    result'[k] = "resolved" => result[k] = "resolved" \/ k \in executed


LEMMA ResultMovesStep ==
    ASSUME Types, AnswersTrue, [Next]_vars
    PROVE  ResultMoves
<1> USE DEF ResultMoves
<1>1. ASSUME NEW k \in Calls, Ask(k) PROVE ResultMoves
  BY <1>1 DEF Ask
<1>2. ASSUME NEW c \in Clients, StartSidecar(c) PROVE ResultMoves
  BY <1>2 DEF StartSidecar
<1>3. ASSUME NEW c \in Clients, Started(c) PROVE ResultMoves
  BY <1>3 DEF Started
<1>4. ASSUME NEW c \in Clients, NotStarted(c) PROVE ResultMoves
  <2>1. \A k \in Requests : GoesOn(k, status, result)
    BY <1>4, DisconnectTurns DEF NotStarted, Types, ClientTypeOK
  <2> QED
    BY <2>1 DEF GoesOn, Requests
<1>5. ASSUME NEW c \in Clients, StopSidecar(c) PROVE ResultMoves
  <2>1. \A k \in Requests : GoesOn(k, status, result)
    BY <1>5, StartOverTurns DEF StopSidecar, Types, ClientTypeOK
  <2> QED
    BY <2>1 DEF GoesOn, Requests
<1>6. ASSUME NEW c \in Clients, LoseConnection(c) PROVE ResultMoves
  <2>1. \E stat : \A k \in Requests : GoesOn(k, stat, SettleResult(Pending(c), "rejected", result))
    BY <1>6, LoseTurns DEF Turn, Turned
  <2>2. \A k \in Requests : SettleResult(Pending(c), "rejected", result)[k] \in {result[k], "rejected"}
    BY DEF SettleResult
  <2> QED
    BY <2>1, <2>2 DEF GoesOn, Requests
<1>7. ASSUME NEW r \in Requests, HostWrite(r) PROVE ResultMoves
  BY <1>7 DEF HostWrite
<1>8. ASSUME NEW r \in Requests, Written(r) PROVE ResultMoves
  <2>1. \E stat : \A k \in Requests : GoesOn(k, stat, result)
    BY <1>8, WrittenTurns DEF Turn, Turned
  <2> QED
    BY <2>1 DEF GoesOn, Requests
<1>9. ASSUME NEW r \in Requests, NotWritten(r) PROVE ResultMoves
  <2>1. \E stat : \A k \in Requests : GoesOn(k, stat, [result EXCEPT ![r] = "rejected"])
    BY <1>9, NotWrittenTurns DEF Turn, Turned
  <2>2. \A k \in Requests : [result EXCEPT ![r] = "rejected"][k] \in {result[k], "rejected"}
    BY DEF Types, ClientTypeOK
  <2> QED
    BY <2>1, <2>2 DEF GoesOn, Requests
<1>10. ASSUME NEW r \in Requests, GiveUp(r) PROVE ResultMoves
  <2>1. \E stat : \A k \in Requests : GoesOn(k, stat, SettleResult({r}, "rejected", result))
    BY <1>10, GiveUpTurns DEF Turn, Turned
  <2>2. \A k \in Requests : SettleResult({r}, "rejected", result)[k] \in {result[k], "rejected"}
    BY DEF SettleResult
  <2> QED
    BY <2>1, <2>2 DEF GoesOn, Requests
<1>40. ASSUME NEW r \in Requests, HostCancel(r) PROVE ResultMoves
  BY <1>40 DEF HostCancel
<1>41. ASSUME WriteShutdown, UNCHANGED <<clientVars, faults>>
      PROVE  ResultMoves
  BY <1>41 DEF clientVars
<1>11. ASSUME NEW g \in Generations, Consume(g) PROVE ResultMoves
  <2>1. PICK m \in Results :
          LET R == {m.id} \cap Pending(Owner(m.id))
          IN  /\ Emit(g, m)
              /\ Turn(Owner(m.id), SettleStatus(R, status),
                      SettleResult(R, IF m.ok THEN "resolved" ELSE "rejected", result),
                      started[Owner(m.id)])
    BY <1>11, ConsumeTurns
  <2> DEFINE R == {m.id} \cap Pending(Owner(m.id))
             how == IF m.ok THEN "resolved" ELSE "rejected"
             stat == SettleStatus(R, status)
             res == SettleResult(R, how, result)
  <2>2. Turn(Owner(m.id), stat, res, started[Owner(m.id)])
    BY <2>1
  <2>3. \A k \in Requests : res[k] = IF k \in R THEN how ELSE result[k]
    BY DEF SettleResult
  <2>4. R \subseteq {m.id}
    OBVIOUS
  <2>5. m.id \in Requests /\ Owner(m.id) \in Clients
    BY RequestsKnown DEF Results
  <2>6. m.ok /\ m.id \in Calls => m.id \in executed
    <3>1. 1 \in DOMAIN output[g] /\ m = output[g][1]
      BY <2>1 DEF Emit, Types, ServerTypeOK
    <3> QED
      BY <3>1 DEF AnswersTrue
  <2>7. \A k \in Requests : GoesOn(k, stat, res)
    BY <2>2 DEF Turn, Turned
  <2> HIDE DEF R, stat, res
  <2> QED
    BY <2>3, <2>4, <2>5, <2>6, <2>7 DEF GoesOn, Requests
<1>12. ASSUME NEW g \in Generations, EndOfEvents(g), UNCHANGED <<clientVars, faults>>
      PROVE  ResultMoves
  BY <1>12 DEF clientVars
<1>13. ASSUME NEW g \in Generations, EmitLifecycle(g, Listening), UNCHANGED <<clientVars, faults>>
      PROVE  ResultMoves
  BY <1>13 DEF clientVars
<1>14. ASSUME FinishExit, UNCHANGED <<clientVars, faults>> PROVE ResultMoves
  BY <1>14 DEF clientVars
<1>15. ASSUME NEW g \in Generations, ReadHandshake(g),
              UNCHANGED <<hostVars, clientVars, faults>>
      PROVE  ResultMoves
  BY <1>15 DEF clientVars
<1>16. ASSUME NEW g \in Generations, ReadCall(g), UNCHANGED <<hostVars, clientVars, faults>>
      PROVE  ResultMoves
  BY <1>16 DEF clientVars
<1>17. ASSUME NEW g \in Generations, ReadCancel(g), UNCHANGED <<hostVars, clientVars, faults>>
      PROVE  ResultMoves
  BY <1>17 DEF clientVars
<1>18. ASSUME NEW g \in Generations, ReadShutdown(g),
              UNCHANGED <<hostVars, clientVars, faults>>
      PROVE  ResultMoves
  BY <1>18 DEF clientVars
<1>19. ASSUME NEW g \in Generations, Drained(g), UNCHANGED <<hostVars, clientVars, faults>>
      PROVE  ResultMoves
  BY <1>19 DEF clientVars
<1>20. ASSUME NEW g \in Generations, NEW k \in Calls, Handle(g, k),
              UNCHANGED <<hostVars, clientVars, faults>>
      PROVE  ResultMoves
  BY <1>20 DEF clientVars
<1>21. ASSUME NEW g \in Generations, NEW k \in Calls, Answer(g, k),
              UNCHANGED <<hostVars, clientVars, faults>>
      PROVE  ResultMoves
  BY <1>21 DEF clientVars
<1>22. ASSUME NEW g \in Generations, Crash(g) PROVE ResultMoves
  BY <1>22 DEF Crash, clientVars
<1>23. ASSUME NEW g \in Generations, ReaderFails(g) PROVE ResultMoves
  BY <1>23 DEF ReaderFails, clientVars
<1>24. ASSUME CloseApplication PROVE ResultMoves
  BY <1>24 DEF CloseApplication, clientVars
<1>25. ASSUME UNCHANGED vars PROVE ResultMoves
  BY <1>25 DEF vars, clientVars
<1>30. ASSUME NEW g \in Generations, Server(g) PROVE ResultMoves
  BY <1>30, <1>15, <1>16, <1>17, <1>18, <1>19, <1>20, <1>21 DEF Server,
     ServerStep
<1>31. CASE Host
  BY <1>31, <1>12, <1>13, <1>14, <1>41 DEF Host, HostStep, Listening
<1>32. CASE Progress
  BY <1>32, <1>31, <1>2, <1>3, <1>4, <1>5, <1>6, <1>7, <1>8, <1>9, <1>10,
     <1>11, <1>40 DEF Progress, Window, Command
<1> QED
  BY <1>1, <1>22, <1>23, <1>24, <1>25, <1>30, <1>32 DEF Next


LEMMA ResultsTrueStep ==
    ASSUME Types, AskedOnTheWay, ReadAsked, AnswersTrue, ResultsTrue, [Next]_vars
    PROVE  ResultsTrue'
BY ResultMovesStep, CallMovesStep DEF ResultMoves, Effects, ResultsTrue

\* A step that lets a command take effect leaves the promises alone.
EffectAlone == executed' = executed \/ UNCHANGED <<status, result>>

\* A step of windows, host and sidecars is one of RemoteCall, or none.
LEMMA PromiseStep ==
    ASSUME Types, executed \subseteq Calls, PromiseMoves, Effects,
           EffectAlone
    PROVE  [Promise!Next]_(Promise!callVars)
<1>1. /\ Outcome = [k \in Calls |-> Outcome[k]] /\ Outcome' = [k \in Calls |-> Outcome'[k]]
      /\ \A k \in Calls : k \in Requests
  BY DEF Outcome, Requests
<1>2. /\ \A k \in Calls : k \in Asked <=> status[k] # "idle"
      /\ \A k \in Calls : k \in Asked' <=> status'[k] # "idle"
      /\ Asked \subseteq Calls /\ Asked' \subseteq Calls
  BY DEF Asked
<1>3. CASE UNCHANGED <<status, result>>
  <2>1. Asked' = Asked /\ Outcome' = Outcome
    BY <1>3 DEF Asked, Outcome
  <2>2. executed' = executed \/ \E k \in Asked : executed' = executed \cup {k}
    BY DEF Effects
  <2>3. CASE executed' = executed
    BY <2>1, <2>3 DEF Promise!callVars
  <2>4. ASSUME NEW k \in Asked, k \notin executed, executed' = executed \cup {k}
        PROVE  Promise!Next
    BY <1>2, <2>1, <2>4 DEF Promise!Next, Promise!Execute
  <2> QED
    BY <2>2, <2>3, <2>4
<1>4. CASE executed' = executed
  <2>1. CASE \A k \in Calls : Kept(k) \/ Rejected(k)
    <3> DEFINE K == {k \in Calls : ~Kept(k)}
    <3>1. Asked' = Asked
      BY <1>2, <2>1 DEF Kept, Rejected
    <3>2. \A k \in K : k \in Calls /\ k \in Asked /\ Outcome[k] = "none" /\ Outcome'[k] = "rejected"
      BY <1>2, <2>1 DEF Rejected
    <3>3. \A k \in Calls : k \notin K => Outcome'[k] = Outcome[k]
      BY DEF Kept
    <3> HIDE DEF K
    <3>4. Outcome' = [k \in Calls |-> IF k \in K THEN "rejected" ELSE Outcome[k]]
      BY <1>1, <3>2, <3>3
    <3>5. CASE K = {}
      BY <1>1, <1>4, <3>1, <3>4, <3>5 DEF Promise!callVars
    <3>6. CASE K # {}
      <4>1. Promise!Reject(K) /\ K \in SUBSET Calls
        BY <1>4, <3>1, <3>2, <3>4, <3>6 DEF Promise!Reject
      <4> QED
        BY <4>1 DEF Promise!Next
    <3> QED
      BY <3>5, <3>6
  <2>2. ASSUME NEW k \in Calls, Resolved(k), \A j \in Calls \ {k} : Kept(j)
        PROVE  Promise!Next
    <3>1. Asked' = Asked
      BY <1>2, <2>2 DEF Kept, Resolved
    <3>2. Outcome' = [Outcome EXCEPT ![k] = "resolved"]
      BY <1>1, <2>2 DEF Kept, Resolved
    <3>3. Promise!Resolve(k)
      BY <1>4, <2>2, <3>1, <3>2 DEF Promise!Resolve, Resolved
    <3> QED
      BY <3>3 DEF Promise!Next
  <2>3. ASSUME NEW k \in Calls, k \notin Asked, status'[k] # "idle", Outcome'[k] = Outcome[k],
               \A j \in Calls \ {k} : Kept(j)
        PROVE  Promise!Next
    <3>1. Asked' = Asked \cup {k}
      BY <1>2, <2>3 DEF Kept
    <3>2. Outcome' = Outcome
      BY <1>1, <2>3 DEF Kept
    <3>3. Promise!Ask(k)
      BY <1>4, <2>3, <3>1, <3>2 DEF Promise!Ask
    <3> QED
      BY <3>3 DEF Promise!Next
  <2> QED
    BY <2>1, <2>2, <2>3 DEF PromiseMoves
<1> QED
  BY <1>3, <1>4 DEF EffectAlone

\* Only Handle, a step of a sidecar, lets a command take effect.

LEMMA EffectStep ==
    ASSUME Types, [Next]_vars
    PROVE  EffectAlone
<1> USE DEF EffectAlone
<1>1. ASSUME NEW k \in Calls, Ask(k) PROVE EffectAlone
  BY <1>1 DEF Ask, hostVars, serverVars, clientVars
<1>2. ASSUME NEW c \in Clients, StartSidecar(c) PROVE EffectAlone
  BY <1>2 DEF StartSidecar, Spawn, AlreadyStarted, serverVars, hostVars
<1>3. ASSUME NEW c \in Clients, Started(c) PROVE EffectAlone
  BY <1>3 DEF Started, hostVars, serverVars, clientVars
<1>4. ASSUME NEW c \in Clients, NotStarted(c) PROVE EffectAlone
  BY <1>4 DEF NotStarted, hostVars, serverVars, clientVars
<1>5. ASSUME NEW c \in Clients, StopSidecar(c) PROVE EffectAlone
  BY <1>5 DEF StopSidecar, Stop, TakeChild, EndProcess, serverVars
<1>6. ASSUME NEW c \in Clients, LoseConnection(c) PROVE EffectAlone
  BY <1>6 DEF LoseConnection, NoticesEnd, serverVars
<1>7. ASSUME NEW r \in Requests, HostWrite(r) PROVE EffectAlone
  BY <1>7, WriteLeaves, WritersWrite
<1>8. ASSUME NEW r \in Requests, Written(r) PROVE EffectAlone
  BY <1>8 DEF Written, hostVars, serverVars, clientVars
<1>9. ASSUME NEW r \in Requests, NotWritten(r) PROVE EffectAlone
  BY <1>9 DEF NotWritten, hostVars, serverVars, clientVars
<1>10. ASSUME NEW r \in Requests, GiveUp(r) PROVE EffectAlone
  BY <1>10 DEF GiveUp, serverVars
<1>40. ASSUME NEW r \in Requests, HostCancel(r) PROVE EffectAlone
  BY <1>40, WriteLeaves, WritersWrite
<1>41. ASSUME WriteShutdown, UNCHANGED <<clientVars, faults>>
      PROVE  EffectAlone
  BY <1>41, WriteLeaves, WritersWrite
<1>11. ASSUME NEW g \in Generations, Consume(g) PROVE EffectAlone
  BY <1>11 DEF Consume, Emit
<1>12. ASSUME NEW g \in Generations, EndOfEvents(g), UNCHANGED <<clientVars, faults>>
      PROVE  EffectAlone
  BY <1>12 DEF EndOfEvents, Claim, TakeChild, EndProcess, serverVars
<1>13. ASSUME NEW g \in Generations, EmitLifecycle(g, Listening), UNCHANGED <<clientVars, faults>>
      PROVE  EffectAlone
  BY <1>13 DEF EmitLifecycle, serverVars
<1>14. ASSUME FinishExit, UNCHANGED <<clientVars, faults>> PROVE EffectAlone
  BY <1>14 DEF FinishExit, TakeChild, EndProcess, serverVars
<1>15. ASSUME NEW g \in Generations, ReadHandshake(g),
              UNCHANGED <<hostVars, clientVars, faults>>
      PROVE  EffectAlone
  BY <1>15 DEF ReadHandshake
<1>16. ASSUME NEW g \in Generations, ReadCall(g), UNCHANGED <<hostVars, clientVars, faults>>
      PROVE  EffectAlone
  BY <1>16 DEF ReadCall
<1>17. ASSUME NEW g \in Generations, ReadCancel(g), UNCHANGED <<hostVars, clientVars, faults>>
      PROVE  EffectAlone
  BY <1>17 DEF ReadCancel
<1>18. ASSUME NEW g \in Generations, ReadShutdown(g),
              UNCHANGED <<hostVars, clientVars, faults>>
      PROVE  EffectAlone
  BY <1>18 DEF ReadShutdown
<1>19. ASSUME NEW g \in Generations, Drained(g), UNCHANGED <<hostVars, clientVars, faults>>
      PROVE  EffectAlone
  BY <1>19 DEF Drained, EndProcess
<1>20. ASSUME NEW g \in Generations, NEW k \in Calls, Handle(g, k),
              UNCHANGED <<hostVars, clientVars, faults>>
      PROVE  EffectAlone
  BY <1>20 DEF clientVars
<1>21. ASSUME NEW g \in Generations, NEW k \in Calls, Answer(g, k),
              UNCHANGED <<hostVars, clientVars, faults>>
      PROVE  EffectAlone
  BY <1>21 DEF Answer
<1>22. ASSUME NEW g \in Generations, Crash(g) PROVE EffectAlone
  BY <1>22 DEF Crash, EndProcess
<1>23. ASSUME NEW g \in Generations, ReaderFails(g) PROVE EffectAlone
  BY <1>23 DEF ReaderFails, ReadError, Claim, TakeChild, EndProcess, serverVars
<1>24. ASSUME CloseApplication PROVE EffectAlone
  BY <1>24 DEF CloseApplication, BeginExit, serverVars
<1>25. ASSUME UNCHANGED vars PROVE EffectAlone
  BY <1>25 DEF vars, hostVars, serverVars, clientVars
<1>30. ASSUME NEW g \in Generations, Server(g) PROVE EffectAlone
  BY <1>30, <1>15, <1>16, <1>17, <1>18, <1>19, <1>20, <1>21 DEF Server,
     ServerStep
<1>31. CASE Host
  BY <1>31, <1>12, <1>13, <1>14, <1>41 DEF Host, HostStep, Listening
<1>32. CASE Progress
  BY <1>32, <1>31, <1>2, <1>3, <1>4, <1>5, <1>6, <1>7, <1>8, <1>9, <1>10,
     <1>11, <1>40 DEF Progress, Window, Command
<1> QED
  BY <1>1, <1>22, <1>23, <1>24, <1>25, <1>30, <1>32 DEF Next


PromiseInv == /\ ClientInv /\ AskedOnTheWay /\ ReadAsked
              /\ HandledTrue /\ AnswersTrue /\ ResultsTrue

\* Of KeepsPromise: for any windows, calls, processes and failures, a call over
\* this chain is what RemoteCall promises: it takes effect at most once, its
\* promise settles once, and it resolves only if it has taken effect.
THEOREM CallsKeepPromise == Spec => KeepsPromise
<1>1. Init => PromiseInv
  <2> SUFFICES ASSUME Init PROVE PromiseInv
    OBVIOUS
  <2>1. AskedOnTheWay /\ ReadAsked /\ HandledTrue /\ AnswersTrue
    BY DEF Init, ServerInit, AskedOnTheWay, ReadAsked, HandledTrue, AnswersTrue
  <2>2. ResultsTrue
    BY DEF Init, ResultsTrue, Requests
  <2> QED
    BY <2>1, <2>2, ClientInvInit DEF PromiseInv
<1>2. PromiseInv /\ [Next]_vars => PromiseInv'
  <2> SUFFICES ASSUME PromiseInv, [Next]_vars PROVE PromiseInv'
    OBVIOUS
  <2> USE DEF PromiseInv
  <2>1. Types
    BY DEF ClientInv
  <2>2. ClientInv'
    BY ClientInvStep
  <2>3. AskedOnTheWay' /\ ReadAsked'
    BY <2>1, AskedOnTheWayStep, ReadAskedStep
  <2>4. HandledTrue' /\ AnswersTrue' /\ ResultsTrue'
    BY <2>1, HandledTrueStep, AnswersTrueStep, ResultsTrueStep
  <2> QED
    BY <2>2, <2>3, <2>4
<1>3. Init => Promise!Init
  BY DEF Init, ServerInit, Promise!Init, Asked, Outcome, Requests
<1>4. PromiseInv /\ [Next]_vars => [Promise!Next]_(Promise!callVars)
  <2> SUFFICES ASSUME PromiseInv, [Next]_vars PROVE [Promise!Next]_(Promise!callVars)
    OBVIOUS
  <2>1. Types /\ Attempts /\ executed \subseteq Calls
    BY DEF PromiseInv, ClientInv, Types, ServerTypeOK
  <2>2. PromiseMoves
    BY <2>1, PromiseMovesStep DEF PromiseInv
  <2>3. Effects
    BY <2>1, CallMovesStep DEF PromiseInv
  <2> QED
    BY <2>1, <2>2, <2>3, EffectStep, PromiseStep
<1> QED
  BY <1>1, <1>2, <1>3, <1>4, PTL DEF Spec, KeepsPromise, Promise!Spec

-----------------------------------------------------------------------------
(* The cache, for any reads, mutations and number of fills.                *)

\* A call that fills an entry.
InFlight == [at : {"sent", "looked"}, read : CachedMethods,
             shows : SUBSET Mutations, began : SUBSET Mutations]

\* The types of the cache and the fills, and what returned has effected.
CacheTypes ==
    /\ cache \in [CachedMethods -> Entries]
    /\ fill \in [Fills -> {Unused, Settled} \cup InFlight]
    /\ truth \in [CachedMethods -> SUBSET Mutations]
    /\ mutation \in [Mutations -> {"idle", "sent", "done", "failed"}]
    /\ effected \subseteq Mutations
    /\ returned \subseteq effected

\* Effects are seen: by the system, and by a fill that looked at it.
Seen == /\ \A r \in CachedMethods, m \in effected : r \in Affects(m) => m \in truth[r]
        /\ \A f \in Fills : fill[f].at \in {"sent", "looked"} =>
              /\ fill[f].began \subseteq returned
              /\ fill[f].at = "looked" =>
                    \A m \in fill[f].began : fill[f].read \in Affects(m) => m \in fill[f].shows

\* The invariant of the cache.
CacheInv == CacheTypes /\ Seen /\ FreshOrRaced /\ PendingInFlight

\* The table names no read that the mutation does not change.
LEMMA InvalidatesAffected == \A m \in AllMutations : Invalidates(m) \subseteq Affects(m)
  BY DEF Affects

LEMMA CacheInvHolds == CacheInit => CacheInv
  BY DEF CacheInit, CacheInv, CacheTypes, Seen, FreshOrRaced, PendingInFlight, Misses, Entries,
     Absent, Unused

\* One step of the cache keeps each part of the invariant.

\* The types, by action.
LEMMA CacheTypesKept == CacheInv /\ [CacheNext]_cacheVars => CacheTypes'
<1> SUFFICES ASSUME CacheInv, [CacheNext]_cacheVars PROVE CacheTypes'
  OBVIOUS
<1> USE DEF CacheInv
<1>1. ASSUME NEW r \in CachedMethods, Read(r) PROVE CacheTypes'
  BY <1>1 DEF Read, CacheTypes, Entries, InFlight
<1>2. ASSUME NEW r \in CachedMethods, Expire(r) PROVE CacheTypes'
  <2>1. cache[r] \in [state : {"value"}, shows : SUBSET Mutations, began : SUBSET Mutations,
                      ended : SUBSET Mutations, fresh : BOOLEAN]
    BY <1>2 DEF Expire, CacheTypes, Entries, Absent, PendingOn
  <2>2. [cache[r] EXCEPT !.fresh = FALSE] \in Entries
    BY <2>1 DEF Entries
  <2> QED BY <1>2, <2>2 DEF Expire, CacheTypes
<1>3. ASSUME NEW r \in CachedMethods, Refresh(r) PROVE CacheTypes'
  BY <1>3 DEF Refresh, CacheTypes, Entries, Invalidated
<1>4. ASSUME NEW f \in Fills, Look(f) PROVE CacheTypes'
  <2>1. fill[f] \in InFlight
    BY <1>4 DEF Look, CacheTypes, Unused, Settled
  <2>2. truth[fill[f].read] \in SUBSET Mutations
    BY <2>1 DEF InFlight, CacheTypes
  <2>3. [fill[f] EXCEPT !.at = "looked", !.shows = truth[fill[f].read]] \in InFlight
    BY <2>1, <2>2 DEF InFlight
  <2> QED BY <1>4, <2>3 DEF Look, CacheTypes
<1>5. ASSUME NEW f \in Fills, Settle(f) PROVE CacheTypes'
  BY <1>5 DEF Settle, CacheTypes, Entries, InFlight, Unused, Settled, ValueOf
<1>6. ASSUME NEW f \in Fills, Fail(f) PROVE CacheTypes'
  BY <1>6 DEF Fail, CacheTypes, Entries
<1>7. ASSUME NEW m \in Mutations, Mutate(m) PROVE CacheTypes'
  BY <1>7 DEF Mutate, CacheTypes
<1>8. ASSUME NEW m \in Mutations, TakeEffect(m) PROVE CacheTypes'
  BY <1>8 DEF TakeEffect, CacheTypes
<1>9. ASSUME NEW m \in Mutations, Return(m) PROVE CacheTypes'
  BY <1>9 DEF Return, CacheTypes, Entries, Invalidated
<1>10. ASSUME NEW m \in Mutations, ReturnError(m) PROVE CacheTypes'
  BY <1>10 DEF ReturnError, CacheTypes
<1>11. CASE UNCHANGED cacheVars
  BY <1>11 DEF cacheVars, CacheTypes
<1> QED BY <1>1, <1>2, <1>3, <1>4, <1>5, <1>6, <1>7, <1>8, <1>9, <1>10, <1>11 DEF CacheNext

\* What took effect stays seen, and a fill that looks sees it.
LEMMA SeenKept == CacheInv /\ [CacheNext]_cacheVars => Seen'
<1> SUFFICES ASSUME CacheInv, [CacheNext]_cacheVars PROVE Seen'
  OBVIOUS
<1> USE DEF CacheInv
<1>1. ASSUME NEW r \in CachedMethods, Read(r) PROVE Seen'
  BY <1>1 DEF Read, Seen
<1>2. ASSUME NEW r \in CachedMethods, Expire(r) PROVE Seen'
  BY <1>2 DEF Expire, Seen
<1>3. ASSUME NEW r \in CachedMethods, Refresh(r) PROVE Seen'
  BY <1>3 DEF Refresh, Seen
<1>4. ASSUME NEW f \in Fills, Look(f) PROVE Seen'
  BY <1>4 DEF Look, CacheTypes, Seen, InFlight, Unused, Settled
<1>5. ASSUME NEW f \in Fills, Settle(f) PROVE Seen'
  BY <1>5 DEF Settle, Seen, Settled
<1>6. ASSUME NEW f \in Fills, Fail(f) PROVE Seen'
  BY <1>6 DEF Fail, Seen, Settled
<1>7. ASSUME NEW m \in Mutations, Mutate(m) PROVE Seen'
  BY <1>7 DEF Mutate, Seen
<1>8. ASSUME NEW m \in Mutations, TakeEffect(m) PROVE Seen'
  BY <1>8 DEF TakeEffect, Seen
<1>9. ASSUME NEW m \in Mutations, Return(m) PROVE Seen'
  BY <1>9 DEF Return, Seen
<1>10. ASSUME NEW m \in Mutations, ReturnError(m) PROVE Seen'
  BY <1>10 DEF ReturnError, Seen
<1>11. CASE UNCHANGED cacheVars
  BY <1>11 DEF cacheVars, Seen
<1> QED BY <1>1, <1>2, <1>3, <1>4, <1>5, <1>6, <1>7, <1>8, <1>9, <1>10, <1>11 DEF CacheNext

\* A pending entry names a call in flight for its read.
LEMMA PendingKept == CacheInv /\ [CacheNext]_cacheVars => PendingInFlight'
<1> SUFFICES ASSUME CacheInv, [CacheNext]_cacheVars PROVE PendingInFlight'
  OBVIOUS
<1> USE DEF CacheInv
<1>1. ASSUME NEW r \in CachedMethods, Read(r) PROVE PendingInFlight'
  BY <1>1 DEF Read, CacheTypes, PendingInFlight, Unused, PendingOn
<1>2. ASSUME NEW r \in CachedMethods, Expire(r) PROVE PendingInFlight'
  BY <1>2 DEF Expire, PendingInFlight
<1>3. ASSUME NEW r \in CachedMethods, Refresh(r) PROVE PendingInFlight'
  BY <1>3 DEF Refresh, PendingInFlight, Absent, Invalidated
<1>4. ASSUME NEW f \in Fills, Look(f) PROVE PendingInFlight'
  BY <1>4 DEF Look, PendingInFlight
<1>5. ASSUME NEW f \in Fills, Settle(f) PROVE PendingInFlight'
  BY <1>5 DEF Settle, CacheTypes, PendingInFlight, ValueOf
<1>6. ASSUME NEW f \in Fills, Fail(f) PROVE PendingInFlight'
  BY <1>6 DEF Fail, CacheTypes, PendingInFlight, Absent
<1>7. ASSUME NEW m \in Mutations, Mutate(m) PROVE PendingInFlight'
  BY <1>7 DEF Mutate, PendingInFlight
<1>8. ASSUME NEW m \in Mutations, TakeEffect(m) PROVE PendingInFlight'
  BY <1>8 DEF TakeEffect, PendingInFlight
<1>9. ASSUME NEW m \in Mutations, Return(m) PROVE PendingInFlight'
  BY <1>9 DEF Return, PendingInFlight, Absent, Invalidated
<1>10. ASSUME NEW m \in Mutations, ReturnError(m) PROVE PendingInFlight'
  BY <1>10 DEF ReturnError, PendingInFlight
<1>11. CASE UNCHANGED cacheVars
  BY <1>11 DEF cacheVars, PendingInFlight
<1> QED BY <1>1, <1>2, <1>3, <1>4, <1>5, <1>6, <1>7, <1>8, <1>9, <1>10, <1>11 DEF CacheNext

\* Only a race makes a value miss what drops it.
LEMMA FreshKept == CacheInv /\ [CacheNext]_cacheVars => FreshOrRaced'
<1> SUFFICES ASSUME CacheInv, [CacheNext]_cacheVars PROVE FreshOrRaced'
  OBVIOUS
<1> USE DEF CacheInv
<1>1. ASSUME NEW r \in CachedMethods, Read(r) PROVE FreshOrRaced'
  BY <1>1 DEF Read, FreshOrRaced, Misses, PendingOn
<1>2. ASSUME NEW r \in CachedMethods, Expire(r) PROVE FreshOrRaced'
  BY <1>2 DEF Expire, FreshOrRaced, Misses
<1>3. ASSUME NEW r \in CachedMethods, Refresh(r) PROVE FreshOrRaced'
  BY <1>3 DEF Refresh, FreshOrRaced, Misses, Absent, Invalidated
<1>4. ASSUME NEW f \in Fills, Look(f) PROVE FreshOrRaced'
  BY <1>4 DEF Look, FreshOrRaced, Misses
<1>5. ASSUME NEW f \in Fills, Settle(f) PROVE FreshOrRaced'
  <2>1. fill[f] \in InFlight /\ fill[f].read \in CachedMethods
    BY <1>5 DEF Settle, CacheTypes, InFlight, Unused, Settled
  <2>2. \A m \in fill[f].began : fill[f].read \in Affects(m) => m \in fill[f].shows
    BY <1>5 DEF Settle, Seen
  <2>3. /\ cache' = [cache EXCEPT ![fill[f].read] = ValueOf(f, TRUE)]
        /\ returned' = returned
    BY <1>5 DEF Settle
  <2>4. SUFFICES ASSUME NEW r \in CachedMethods, NEW m \in Mutations, Misses(r, m)', r \in Invalidates(m)
                 PROVE m \in cache'[r].ended \ cache'[r].began
    BY DEF FreshOrRaced
  <2>5. r \in Affects(m)
    BY <2>4, InvalidatesAffected, MethodsAssumption
  <2>6. CASE r = fill[f].read
    <3>1. cache'[r] = ValueOf(f, TRUE)
      BY <2>3, <2>6 DEF CacheTypes
    <3>2. /\ cache'[r].shows = fill[f].shows
          /\ cache'[r].began = fill[f].began
          /\ cache'[r].ended = returned
      BY <3>1 DEF ValueOf
    <3>3. m \in returned /\ m \notin fill[f].shows
      BY <2>3, <2>4, <3>2 DEF Misses
    <3> QED BY <2>2, <2>5, <2>6, <3>2, <3>3
  <2>7. CASE r # fill[f].read
    <3>1. cache'[r] = cache[r]
      BY <2>3, <2>7
    <3> QED BY <2>3, <2>4, <3>1 DEF FreshOrRaced, Misses
  <2> QED BY <2>6, <2>7
<1>6. ASSUME NEW f \in Fills, Fail(f) PROVE FreshOrRaced'
  BY <1>6 DEF Fail, FreshOrRaced, Misses, Absent
<1>7. ASSUME NEW m \in Mutations, Mutate(m) PROVE FreshOrRaced'
  BY <1>7 DEF Mutate, FreshOrRaced, Misses
<1>8. ASSUME NEW m \in Mutations, TakeEffect(m) PROVE FreshOrRaced'
  BY <1>8 DEF TakeEffect, FreshOrRaced, Misses
<1>9. ASSUME NEW m \in Mutations, Return(m) PROVE FreshOrRaced'
  BY <1>9 DEF Return, FreshOrRaced, Misses, Absent, Invalidated
<1>10. ASSUME NEW m \in Mutations, ReturnError(m) PROVE FreshOrRaced'
  BY <1>10 DEF ReturnError, FreshOrRaced, Misses
<1>11. CASE UNCHANGED cacheVars
  BY <1>11 DEF cacheVars, FreshOrRaced, Misses
<1> QED BY <1>1, <1>2, <1>3, <1>4, <1>5, <1>6, <1>7, <1>8, <1>9, <1>10, <1>11 DEF CacheNext

LEMMA CacheInductive == CacheSpec => []CacheInv
<1>1. CacheInv /\ [CacheNext]_cacheVars => CacheInv'
  BY CacheTypesKept, SeenKept, PendingKept, FreshKept DEF CacheInv
<1> QED BY CacheInvHolds, <1>1, PTL DEF CacheSpec

\* A cached value misses a mutation that drops it only when that returned
\* while the fill of the value was in flight.
THEOREM OnlyRacesAreStale == CacheSpec => []FreshOrRaced
<1>1. CacheInv => FreshOrRaced
  BY DEF CacheInv
<1> QED BY CacheInductive, <1>1, PTL

\* Whoever joins a pending entry waits for a call that is still in flight.
THEOREM PendingIsInFlight == CacheSpec => []PendingInFlight
<1>1. CacheInv => PendingInFlight
  BY DEF CacheInv
<1> QED BY CacheInductive, <1>1, PTL

\* Every variable of the cache keeps its type: its entries, the calls in flight
\* and what each value has seen.
THEOREM CacheTypeCorrect == CacheSpec => []CacheTypeOK
<1>1. CacheInv => CacheTypeOK
  BY DEF CacheInv, CacheTypes, CacheTypeOK, InFlight
<1> QED BY CacheInductive, <1>1, PTL
=============================================================================
