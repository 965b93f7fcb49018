---------------------------- MODULE BackendClient ----------------------------
(***************************************************************************)
(* TauriBackendClient, one in each window, over the host and the sidecar   *)
(* they share.  The first call of a window starts the sidecar (or finds it *)
(* started by the other window) and makes a handshake; a handshake that    *)
(* fails stops the sidecar.  A command has a promise, a timer, and a write *)
(* on its way to the host; its caller waits for the write, then for the    *)
(* promise.                                                                *)
(*                                                                         *)
(* An action of a client is one turn of the event loop of its window: a    *)
(* timer, an event or the reply of the host, and all that follows from it  *)
(* without waiting for another.                                            *)
(***************************************************************************)
EXTENDS SidecarHost, FiniteSets

CONSTANT MaxFaults \* bound: processes and readers that fail, starts refused,
                   \* and the closing of the application
CONSTANT MaxAsked  \* bound: calls that are made

\* A window starts the sidecar at most once for each of its calls.
CallsOf(c) == {k \in Calls : Owner(k) = c}
ASSUME CallsAssumption == IsFiniteSet(Calls)
ASSUME HandshakesAssumption ==
    Handshakes = UNION {{<<c, "handshake", n>> : n \in 1..Cardinality(CallsOf(c))} :
                        c \in Clients}
ASSUME BoundsAssumption == MaxFaults \in Nat /\ MaxAsked \in Nat

VARIABLES started,  \* #started
          starting, \* the step of #spawn, "no" while #starting is null
          attempt,  \* runs of #spawn so far
          status,   \* how far each command is on its way
          result,   \* how its promise is settled
          cancels,  \* commands whose cancel is on its way to the host
          stopped,  \* history: children taken by a window, with the window
          faults    \* failures so far, with the closing

clientVars == <<started, starting, attempt, status, result, cancels, stopped>>
vars == <<serverVars, hostVars, clientVars, faults>>

Asked == {k \in Calls : status[k] # "idle"}

\* "queued" waits for #starting; "sending" for the host; of "sent" and
\* "refused" the reply is on its way; "waiting" waits for the result only.
Statuses == {"idle", "queued", "sending", "sent", "refused", "waiting", "done"}

\* The commands in #pending.
IsPending(r, stat, res) == stat[r] \in Statuses \ {"idle", "queued", "done"}
                           /\ res[r] = "none"
Pending(c) == {r \in Requests : Owner(r) = c /\ IsPending(r, status, result)}

Init == /\ ServerInit
        /\ HostInit
        /\ started = [c \in Clients |-> FALSE]
        /\ starting = [c \in Clients |-> "no"]
        /\ attempt = [c \in Clients |-> 0]
        /\ status = [r \in Requests |-> "idle"]
        /\ result = [r \in Requests |-> "none"]
        /\ cancels = {}
        /\ stopped = {}
        /\ faults = 0

Running == exit # "exited"
Fault == faults < MaxFaults /\ faults' = faults + 1

-----------------------------------------------------------------------------
(* Turns                                                                   *)

\* Settles the promises of R; a caller that waits for nothing else is done.
SettleResult(R, how, res) == [r \in Requests |-> IF r \in R THEN how ELSE res[r]]
SettleStatus(R, stat) ==
    [r \in Requests |-> IF r \in R /\ stat[r] = "waiting" THEN "done" ELSE stat[r]]

\* The handshake of the present run of #spawn.
Handshake(c) == <<c, "handshake", attempt[c]>>

\* What follows from the end of #spawn for the calls that wait for it.
StartOver(c, stat, res, go) ==
    /\ starting' = [starting EXCEPT ![c] = "no"]
    /\ status' = [r \in Requests |-> IF Owner(r) = c /\ stat[r] = "queued"
                                     THEN IF go THEN "sending" ELSE "done"
                                     ELSE stat[r]]
    /\ result' = [r \in Requests |-> IF Owner(r) = c /\ stat[r] = "queued" /\ ~go
                                     THEN "rejected" ELSE res[r]]

\* #disconnect after #spawn failed, on the way to sidecar_stop.
Disconnect(c, stat, res) ==
    LET R == {r \in Requests : Owner(r) = c /\ IsPending(r, stat, res)}
    IN  /\ started' = [started EXCEPT ![c] = FALSE]
        /\ status' = SettleStatus(R, stat)
        /\ result' = SettleResult(R, "rejected", res)

\* The rest of a turn of window c, whose commands have got stat and res, and
\* whose connection is up or not: if that was the end of the handshake,
\* #spawn goes on.
Continue(c, stat, res, up) ==
    LET over == starting[c] = "handshake" /\ stat[Handshake(c)] = "done"
        good == res[Handshake(c)] = "resolved"
    IN  \/ /\ ~over
           /\ started' = [started EXCEPT ![c] = up]
           /\ status' = stat
           /\ result' = res
           /\ UNCHANGED starting
        \/ /\ over /\ good
           /\ started' = [started EXCEPT ![c] = up]
           /\ StartOver(c, stat, res, up)
        \/ /\ over /\ ~good
           /\ Disconnect(c, stat, res)
           /\ starting' = [starting EXCEPT ![c] = "stop"]

-----------------------------------------------------------------------------
(* Calls and the start of the sidecar                                      *)

\* call: sends the command if the window is connected, starts the sidecar
\* first if need be, or waits until the start in progress is over.  A window
\* numbers its calls.
Ask(k) ==
    LET c == Owner(k)
        first == ~started[c] /\ starting[c] = "no"
    IN  /\ Running
        /\ Cardinality(Asked) < MaxAsked
        /\ k \notin Asked
        /\ \A j \in CallsOf(c) : j[3] < k[3] => j \in Asked
        /\ status' = [status EXCEPT ![k] = IF started[c] THEN "sending" ELSE "queued"]
        /\ starting' = [starting EXCEPT ![c] = IF first THEN "start" ELSE @]
        /\ attempt' = [attempt EXCEPT ![c] = IF first THEN @ + 1 ELSE @]
        /\ UNCHANGED <<serverVars, hostVars, started, result, cancels, stopped, faults>>

\* sidecar_start at the host; its reply is on the way.
StartSidecar(c) ==
    /\ Running
    /\ starting[c] = "start"
    /\ \/ /\ Spawn \/ AlreadyStarted
          /\ starting' = [starting EXCEPT ![c] = "up"]
          /\ UNCHANGED faults
       \/ /\ StartRefused
          /\ starting' = [starting EXCEPT ![c] = "down"]
          /\ IF exit # "no" \/ generation + 1 \notin Generations
             THEN UNCHANGED faults ELSE Fault
          /\ UNCHANGED <<serverVars, hostVars>>
    /\ UNCHANGED <<started, attempt, status, result, cancels, stopped>>

\* The reply: connected, the window sends its handshake.
Started(c) ==
    /\ Running
    /\ starting[c] = "up"
    /\ starting' = [starting EXCEPT ![c] = "handshake"]
    /\ started' = [started EXCEPT ![c] = TRUE]
    /\ status' = [status EXCEPT ![Handshake(c)] = "sending"]
    /\ UNCHANGED <<serverVars, hostVars, attempt, result, cancels, stopped, faults>>

NotStarted(c) ==
    /\ Running
    /\ starting[c] = "down"
    /\ starting' = [starting EXCEPT ![c] = "stop"]
    /\ Disconnect(c, status, result)
    /\ UNCHANGED <<serverVars, hostVars, attempt, cancels, stopped, faults>>

\* sidecar_stop after a start that failed.  Until its reply the window only
\* queues calls, so that the reply is taken together with it.
StopSidecar(c) ==
    /\ Running
    /\ starting[c] = "stop"
    /\ Stop
    /\ stopped' = IF child # 0 THEN stopped \cup {<<c, child>>} ELSE stopped
    /\ StartOver(c, status, result, FALSE)
    /\ UNCHANGED <<started, attempt, cancels, faults>>

-----------------------------------------------------------------------------
(* The ways of a command                                                   *)

\* sidecar_write at the host; its reply is on the way, unless the write waits.
HostWrite(r) ==
    LET c == [kind |-> "request", id |-> r]
    IN  /\ Running
        /\ status[r] = "sending"
        /\ \/ WriteCommand(c) /\ status' = [status EXCEPT ![r] = "sent"]
           \/ WriteRefused(c) /\ status' = [status EXCEPT ![r] = "refused"]
           \/ WriteBlocks(c) /\ UNCHANGED status
        /\ UNCHANGED <<exit, started, starting, attempt, result, cancels, stopped, faults>>

\* The reply to a write that was made: the caller goes on to its promise.
Written(r) ==
    /\ Running
    /\ status[r] = "sent"
    /\ Continue(Owner(r),
                [status EXCEPT ![r] = IF result[r] = "none" THEN "waiting" ELSE "done"],
                result, started[Owner(r)])
    /\ UNCHANGED <<serverVars, hostVars, attempt, cancels, stopped, faults>>

\* The reply to a write that was not: the call fails, whatever it is settled as.
NotWritten(r) ==
    /\ Running
    /\ status[r] = "refused"
    /\ Continue(Owner(r), [status EXCEPT ![r] = "done"],
                [result EXCEPT ![r] = "rejected"], started[Owner(r)])
    /\ UNCHANGED <<serverVars, hostVars, attempt, cancels, stopped, faults>>

\* #cancel, unless the connection is lost.
SendCancel(r) == cancels' = IF started[Owner(r)] THEN cancels \cup {r} ELSE cancels

\* sidecar_write of a cancel, whose reply nobody looks at.
HostCancel(r) ==
    LET c == [kind |-> "cancel", id |-> r]
    IN  /\ Running
        /\ r \in cancels
        /\ \/ /\ WriteCommand(c) \/ WriteRefused(c)
              /\ cancels' = cancels \ {r}
           \/ WriteBlocks(c) /\ UNCHANGED cancels
        /\ UNCHANGED <<exit, started, starting, attempt, status, result, stopped, faults>>

\* The handshake has no timer.
GiveUpCall(r) ==
    /\ Running
    /\ r \in Pending(Owner(r)) \cap Calls
    /\ SendCancel(r)
    /\ Continue(Owner(r), SettleStatus({r}, status),
                SettleResult({r}, "rejected", result), started[Owner(r)])
    /\ UNCHANGED <<serverVars, hostVars, attempt, stopped, faults>>

\* The timer of r, or for a call whose write was made the AbortSignal: the
\* command leaves #pending, and is cancelled.
GiveUp(r) ==
    /\ Running
    /\ r \in Pending(Owner(r))
    /\ SendCancel(r)
    /\ Continue(Owner(r), SettleStatus({r}, status),
                SettleResult({r}, "rejected", result), started[Owner(r)])
    /\ UNCHANGED <<serverVars, hostVars, attempt, stopped, faults>>

-----------------------------------------------------------------------------
(* Events from the host                                                    *)

\* #consume in the window that waits for the result; elsewhere, and when
\* nobody waits any more, it is ignored.
Consume(g) ==
    \E r \in Results :
        /\ Emit(g, r)
        /\ LET R == {r.id} \cap Pending(Owner(r.id))
           IN  Continue(Owner(r.id), SettleStatus(R, status),
                        SettleResult(R, IF r.ok THEN "resolved" ELSE "rejected", result),
                        started[Owner(r.id)])
        /\ UNCHANGED <<attempt, cancels, stopped, faults>>

\* One of the lifecycle events arrives.
NoticesEnd(c) ==
    /\ Running
    /\ \E g \in mail[c] : mail' = [mail EXCEPT ![c] = @ \ {g}]
    /\ UNCHANGED <<serverVars, child, generation, reader, exit, writer, attempt,
                   cancels, stopped, faults>>

\* The window loses its commands but takes itself for connected.
LoseCommandsOnly(c) ==
    /\ NoticesEnd(c)
    /\ Continue(c, SettleStatus(Pending(c), status),
                SettleResult(Pending(c), "rejected", result), started[c])

\* The lifecycle event loses every command that is pending, with its timer.
LoseConnection(c) ==
    /\ NoticesEnd(c)
    /\ Continue(c, SettleStatus(Pending(c), status),
                SettleResult(Pending(c), "rejected", result), FALSE)

-----------------------------------------------------------------------------

\* The sidecar crashes.
Crash(g) == /\ Running
            /\ Alive(g)
            /\ Fault
            /\ EndProcess(g)
            /\ UNCHANGED <<hostVars, clientVars>>

Server(g) == Running /\ ServerStep(g) /\ UNCHANGED <<hostVars, clientVars, faults>>

ReaderFails(g) == ReadError(g) /\ Fault /\ UNCHANGED clientVars

\* Before its first start a window does not listen.
Host == /\ HostStep({c \in Clients : attempt[c] > 0})
        /\ UNCHANGED <<clientVars, faults>>

CloseApplication == BeginExit /\ Fault /\ UNCHANGED clientVars

\* The event loop of window c, and the host on its behalf.
Window(c) == \/ StartSidecar(c) \/ Started(c) \/ NotStarted(c) \/ StopSidecar(c)
             \/ LoseConnection(c)

Command(r) == HostWrite(r) \/ HostCancel(r) \/ Written(r) \/ NotWritten(r)

\* What goes on by itself in windows and host, every timer included.
Progress == \/ \E c \in Clients : Window(c)
            \/ \E r \in Requests : Command(r) \/ GiveUp(r)
            \/ \E g \in Generations : Consume(g)
            \/ Host

Next == \/ \E k \in Calls : Ask(k)
        \/ Progress
        \/ \E g \in Generations : Server(g) \/ Crash(g) \/ ReaderFails(g)
        \/ CloseApplication

Spec == Init /\ [][Next]_vars

\* Windows and host go on until nothing is left to do: they can only take so
\* many steps.  The sidecar may hang for ever, and nobody needs to close the
\* application.
FairSpec == Spec /\ WF_vars(Progress)

-----------------------------------------------------------------------------
(* Properties                                                              *)

TypeOK == /\ ServerTypeOK
          /\ HostTypeOK
          /\ started \in [Clients -> BOOLEAN]
          /\ starting \in [Clients -> {"no", "start", "up", "down", "handshake", "stop"}]
          /\ attempt \in [Clients -> 0..Cardinality(Calls)]
          /\ status \in [Requests -> Statuses]
          /\ result \in [Requests -> {"none", "resolved", "rejected"}]
          /\ cancels \subseteq Requests
          /\ stopped \subseteq Clients \X Generations
          /\ faults \in 0..MaxFaults

\* sidecar_start, forward_events, stop_on_exit: a sidecar that runs is the
\* child of the host, whichever windows start and stop it and however late
\* the reader of an earlier one ends; so there is one at most, and none is
\* left when the application has exited.
NoOrphan == /\ \A g \in Generations : Alive(g) => child = g
            /\ exit = "exited" => \A g \in Generations : ~Alive(g)

\* The connection of window c is going to be noticed as lost.
LossOnItsWay(c) == \/ \E g \in Generations : reader[g] = "claimed"
                   \/ mail[c] # {}

\* forward_events, #disconnect, #spawn: a window takes itself for connected
\* only while there is a sidecar or the news of its end is on the way, or
\* its own handshake is under way; unless another window stopped the
\* last sidecar.
ConnectedToChild ==
    \A c \in Clients :
        Running /\ started[c] /\ child = 0 =>
            \/ LossOnItsWay(c)
            \/ starting[c] = "handshake"
            \/ \E d \in Clients \ {c} : <<d, generation>> \in stopped

\* The host waits under its mutex for a sidecar that runs and does not read.
WriteHangs == ~LockFree /\ ChildAlive /\ ~HasRoom

\* #request, #disconnect, #spawn, begin_graceful_exit, sidecar_write: whatever
\* becomes of the sidecar, even if it hangs, every call settles in the end,
\* also one that waits for the start of the sidecar; and closing the
\* application ends it.  The one thing that can keep them from it for ever is
\* a write to a sidecar that runs, reads no more and whose pipe is full.
EverythingSettles ==
    <>[](\/ exit = "exited"
         \/ exit = "no" /\ \A k \in Asked : status[k] = "done"
         \/ Running /\ WriteHangs)

\* Calls over this chain are what RemoteCall promises.
Outcome == [k \in Calls |-> IF status[k] = "done" THEN result[k] ELSE "none"]
Promise == INSTANCE RemoteCall WITH asked <- Asked,
                                    outcome <- Outcome
KeepsPromise == Promise!Spec

\* "uses the existing shared sidecar, so scanning does not replace or block
\* navigation in the main window" (docs/DIAGNOSTICS-PROTOCOL-1.0.6.md:70): a
\* window that is connected and has no sidecar gets one, or knows.
NotStranded ==
    \A c \in Clients :
        started[c] /\ child = 0 ~> ~started[c] \/ child # 0 \/ exit = "exited"
=============================================================================
