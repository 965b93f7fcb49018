------------------------------ MODULE Sessions ------------------------------
(***************************************************************************)
(* The processes of one Windows user and the two named mutexes between     *)
(* them.  A request (a profile, a tweak, a checkpoint, a restore, a        *)
(* startup toggle, a boost session) starts in a process without rights,    *)
(* which elevates a child and waits for it; the child takes the operation  *)
(* mutex, looks at the boost-session mutex and works on the journals.  A   *)
(* boost session holds its mutex from before its profile is applied until  *)
(* after the restore that follows the game.                                *)
(*                                                                         *)
(* A mutex counts as taken as soon as any handle to it is open: nobody     *)
(* waits for it, CreateMutex on an existing one opens a handle as well,    *)
(* and a process that only looks opens one for a moment.  The work itself  *)
(* is one step, as module Transaction details it under the mutex.          *)
(***************************************************************************)
EXTENDS Naturals, FiniteSets

CONSTANTS Processes,  \* the requests, each in a process of its own
          Requests,   \* what the processes may be asked for, each a function
          NoTarget,   \* a restore that names no backup
          MaxFailures, \* bound: refused prompts, failed or killed children
          MaxOrphans   \* bound: parents that die

Kinds == {"profile", "boost", "tweak", "checkpoint", "restore", "startup"}

ASSUME ProcessesAssumption == IsFiniteSet(Processes)
ASSUME RequestsAssumption == Requests \subseteq [Processes -> Kinds]
ASSUME BoundsAssumption == MaxFailures \in Nat /\ MaxOrphans \in Nat
ASSUME TargetAssumption == NoTarget \notin Processes

VARIABLES kind,       \* what each process was asked for
          pc,         \* the step its parent, or else its child, is at
          phase,      \* "apply", or "restore" for the second half of a boost
          alive,      \* the parent has not died
          operation,  \* processes whose handle to the operation mutex is open
          boosters,   \* handles to the boost-session mutex held by boosts
          lookers,    \* and those open for the moment of a check
          sawBoost,   \* what the check of each process found
          target,     \* the backup a restore names, NoTarget for the latest
          journal,    \* the journal each process wrote
          id,         \* the time in its backup ID, 0 if none
          clock,      \* the last time handed out
          appliedAt,  \* history: the order in which the journals took effect
          failures    \* refused prompts, failed and killed children so far

locks == <<operation, boosters, lookers>>
journals == <<journal, id, clock, appliedAt>>
vars == <<kind, pc, phase, alive, locks, sawBoost, target, journals, failures>>

ParentSteps == {"idle", "sessionBusy", "uac", "game", "closing", "done"}
ChildSteps == {"identify", "checkpoint", "lock", "lockBusy", "look", "looked",
               "work", "succeeded", "failed"}

\* The steps at which a child takes the operation mutex for its own.
Critical == {"look", "looked", "work", "succeeded", "failed"}

Outstanding(p) == journal[p] \in {"applied", "checkpoint"}

\* loadLatestBackup: the greatest ID that is not rolled back.
Latest(p) == Outstanding(p) /\ \A q \in Processes : Outstanding(q) => id[q] <= id[p]

-----------------------------------------------------------------------------

Init == /\ kind \in Requests
        /\ pc = [p \in Processes |-> "idle"]
        /\ phase = [p \in Processes |-> "apply"]
        /\ alive = [p \in Processes |-> TRUE]
        /\ operation = {}
        /\ boosters = {}
        /\ lookers = {}
        /\ sawBoost = [p \in Processes |-> FALSE]
        /\ target = [p \in Processes |-> NoTarget]
        /\ journal = [p \in Processes |-> "none"]
        /\ id = [p \in Processes |-> 0]
        /\ clock = 0
        /\ appliedAt = [p \in Processes |-> 0]
        /\ failures = 0

Goto(p, label) == pc' = [pc EXCEPT ![p] = label]

\* CreateMutex succeeds without ERROR_ALREADY_EXISTS.
Free(handles) == handles = {}

Fault == failures < MaxFailures /\ failures' = failures + 1

\* A new time for the ID of the backup of p.
Stamp(p) == clock' = clock + 1 /\ id' = [id EXCEPT ![p] = clock + 1]

-----------------------------------------------------------------------------
(* The parent process                                                      *)

\* A tweak or checkpoint gets its backup ID here, before the UAC prompt; a
\* restore names an existing backup or asks for the latest; a startup toggle
\* needs no elevation.
Request(p) ==
    /\ pc[p] = "idle"
    /\ kind[p] # "boost"
    /\ IF kind[p] \in {"tweak", "checkpoint"} THEN Stamp(p) ELSE UNCHANGED <<clock, id>>
    /\ IF kind[p] = "restore"
       THEN \E t \in {NoTarget} \cup {q \in Processes : Outstanding(q)} :
               target' = [target EXCEPT ![p] = t]
       ELSE UNCHANGED target
    /\ Goto(p, IF kind[p] = "startup" THEN "lock" ELSE "uac")
    /\ UNCHANGED <<kind, phase, alive, locks, sawBoost, journal, appliedAt, failures>>

\* runBoostSession: acquireBoostSessionLock, refused if any handle is open.
OpenSession(p) ==
    /\ pc[p] = "idle"
    /\ kind[p] = "boost"
    /\ boosters' = boosters \cup {p}
    /\ Goto(p, IF Free(boosters \cup lookers) THEN "uac" ELSE "sessionBusy")
    /\ UNCHANGED <<kind, phase, alive, operation, lookers, sawBoost, target,
                   journals, failures>>

\* runElevatedAndWait: the user answers the prompt.
Elevate(p) ==
    /\ pc[p] = "uac"
    /\ Goto(p, "identify")
    /\ UNCHANGED <<kind, phase, alive, locks, sawBoost, target, journals, failures>>

\* What a parent does when its child ended.  A boost starts the game once its
\* profile is applied, and ends when its one attempt to restore is over.
AfterChild(p, ok) ==
    Goto(p, IF kind[p] = "boost" /\ alive[p]
            THEN IF ok /\ phase[p] = "apply" THEN "game" ELSE "closing"
            ELSE "done")

Deny(p) ==
    /\ pc[p] = "uac"
    /\ Fault
    /\ AfterChild(p, FALSE)
    /\ UNCHANGED <<kind, phase, alive, locks, sawBoost, target, journals>>

\* The game ends, fails to start, or Ctrl+C ends the wait: the deferred
\* restore runs.
EndGame(p) ==
    /\ pc[p] = "game"
    /\ phase' = [phase EXCEPT ![p] = "restore"]
    /\ Goto(p, "uac")
    /\ UNCHANGED <<kind, alive, locks, sawBoost, target, journals, failures>>

\* The session lock is released, or the handle of a refused attempt closed.
CloseSession(p) ==
    /\ pc[p] \in {"closing", "sessionBusy"}
    /\ boosters' = boosters \ {p}
    /\ Goto(p, "done")
    /\ UNCHANGED <<kind, phase, alive, operation, lookers, sawBoost, target,
                   journals, failures>>

-----------------------------------------------------------------------------
(* The elevated child                                                      *)

\* userSIDFromOptimizerProcess opens the parent, which must still exist.
\* hasRecentCheckpoint is asked only for a profile, before any lock.
Identify(p) ==
    /\ pc[p] = "identify"
    /\ IF alive[p] THEN Goto(p, IF kind[p] = "profile" THEN "checkpoint" ELSE "lock")
       ELSE AfterChild(p, FALSE)
    /\ UNCHANGED <<kind, phase, alive, locks, sawBoost, target, journals, failures>>

CheckCheckpoint(p) ==
    /\ pc[p] = "checkpoint"
    /\ IF \E q \in Processes : journal[q] = "checkpoint" THEN Goto(p, "lock")
       ELSE AfterChild(p, FALSE)
    /\ UNCHANGED <<kind, phase, alive, locks, sawBoost, target, journals, failures>>

\* The mutex is taken whether or not it existed.
TakeLockAnyway(p) ==
    /\ pc[p] = "lock"
    /\ operation' = operation \cup {p}
    /\ Goto(p, IF kind[p] = "startup" THEN "work" ELSE "look")
    /\ UNCHANGED <<kind, phase, alive, boosters, lookers, sawBoost, target,
                   journals, failures>>

\* acquireOperationLock.  A startup toggle does not ask for boost sessions.
TakeLock(p) ==
    /\ pc[p] = "lock"
    /\ operation' = operation \cup {p}
    /\ Goto(p, IF ~Free(operation) THEN "lockBusy"
               ELSE IF kind[p] = "startup" THEN "work" ELSE "look")
    /\ UNCHANGED <<kind, phase, alive, boosters, lookers, sawBoost, target,
                   journals, failures>>

\* The refused attempt keeps its handle.
LeaveHandleOpen(p) ==
    /\ pc[p] = "lockBusy"
    /\ AfterChild(p, FALSE)
    /\ UNCHANGED <<kind, phase, alive, locks, sawBoost, target, journals, failures>>

\* The refused attempt closes the handle it was given.
CloseBusyHandle(p) ==
    /\ pc[p] = "lockBusy"
    /\ operation' = operation \ {p}
    /\ AfterChild(p, FALSE)
    /\ UNCHANGED <<kind, phase, alive, boosters, lookers, sawBoost, target,
                   journals, failures>>

\* checkBoostSession opens a handle to see whether there was one.
Look(p) ==
    /\ pc[p] = "look"
    /\ lookers' = lookers \cup {p}
    /\ sawBoost' = [sawBoost EXCEPT ![p] = ~Free(boosters \cup lookers)]
    /\ Goto(p, "looked")
    /\ UNCHANGED <<kind, phase, alive, operation, boosters, target, journals, failures>>

\* A boost session in progress does not stop other operations.
LookedAndIgnored(p) ==
    /\ pc[p] = "looked"
    /\ lookers' = lookers \ {p}
    /\ Goto(p, IF kind[p] = "boost" => sawBoost[p] THEN "work" ELSE "failed")
    /\ UNCHANGED <<kind, phase, alive, operation, boosters, sawBoost, target,
                   journals, failures>>

\* The session must be there for a boost, and must not for anything else.
Looked(p) ==
    /\ pc[p] = "looked"
    /\ lookers' = lookers \ {p}
    /\ Goto(p, IF sawBoost[p] <=> kind[p] = "boost" THEN "work" ELSE "failed")
    /\ UNCHANGED <<kind, phase, alive, operation, boosters, sawBoost, target,
                   journals, failures>>

\* applyProfile draws its ID here, under the mutex.
WorkApply(p) ==
    /\ kind[p] \in {"profile", "boost", "tweak", "checkpoint"}
    /\ phase[p] = "apply"
    /\ IF kind[p] \in {"profile", "boost"} THEN Stamp(p) ELSE UNCHANGED <<clock, id>>
    /\ journal' = [journal EXCEPT ![p] = IF kind[p] = "checkpoint" THEN "checkpoint"
                                         ELSE "applied"]
    /\ appliedAt' = [appliedAt EXCEPT ![p] =
                        1 + Cardinality({q \in Processes : appliedAt[q] # 0})]

\* The backup that restoreBackup takes.
Chosen(p, b) == IF target[p] = NoTarget THEN Latest(b)
                ELSE b = target[p] /\ Outstanding(b)

WorkRestore(p) ==
    /\ kind[p] = "restore" \/ phase[p] = "restore"
    /\ \E b \in Processes : Chosen(p, b) /\ journal' = [journal EXCEPT ![b] = "undone"]
    /\ UNCHANGED <<clock, id, appliedAt>>

\* The Run key of a startup toggle is no journal.
WorkStartup(p) == kind[p] = "startup" /\ UNCHANGED journals

\* The whole operation under the mutex.  One that fails has rolled itself
\* back, or has not, which leaves its journal outstanding.
Work(p) ==
    /\ pc[p] = "work"
    /\ \/ /\ WorkApply(p) \/ WorkRestore(p) \/ WorkStartup(p)
          /\ \/ Goto(p, "succeeded") /\ UNCHANGED failures
             \/ Goto(p, "failed") /\ Fault
       \/ Goto(p, "failed") /\ Fault /\ UNCHANGED journals
       \/ /\ kind[p] = "restore" \/ phase[p] = "restore"
          /\ ~\E b \in Processes : Chosen(p, b)
          /\ Goto(p, "failed")
          /\ UNCHANGED <<journals, failures>>
    /\ UNCHANGED <<kind, phase, alive, locks, sawBoost, target>>

\* The deferred release of the operation mutex; the child exits.
Release(p) ==
    /\ pc[p] \in {"succeeded", "failed"}
    /\ operation' = operation \ {p}
    /\ AfterChild(p, pc[p] = "succeeded")
    /\ UNCHANGED <<kind, phase, alive, boosters, lookers, sawBoost, target,
                   journals, failures>>

-----------------------------------------------------------------------------
(* Deaths: the handles of a process close with it                          *)

\* A parent is killed: its child, if there is one, goes on without it.
ParentDies(p) ==
    /\ kind[p] # "startup"
    /\ alive[p] /\ pc[p] \notin {"idle", "done"}
    /\ Cardinality({q \in Processes : ~alive[q]}) < MaxOrphans
    /\ alive' = [alive EXCEPT ![p] = FALSE]
    /\ boosters' = boosters \ {p}
    /\ IF pc[p] \in ChildSteps THEN UNCHANGED pc ELSE Goto(p, "done")
    /\ UNCHANGED <<kind, phase, operation, lookers, sawBoost, target, journals,
                   failures>>

ChildDies(p) ==
    /\ pc[p] \in ChildSteps
    /\ Fault
    /\ operation' = operation \ {p}
    /\ lookers' = lookers \ {p}
    /\ AfterChild(p, FALSE)
    /\ UNCHANGED <<kind, phase, alive, boosters, sawBoost, target, journals>>

-----------------------------------------------------------------------------

Step(p) == \/ Elevate(p) \/ EndGame(p) \/ CloseSession(p)
           \/ Identify(p) \/ CheckCheckpoint(p) \/ TakeLock(p)
           \/ CloseBusyHandle(p) \/ Look(p) \/ Looked(p) \/ Work(p) \/ Release(p)

Next == \E p \in Processes : \/ Request(p) \/ OpenSession(p)
                              \/ Step(p)
                              \/ Deny(p) \/ ParentDies(p) \/ ChildDies(p)

Spec == Init /\ [][Next]_vars

\* Processes run, the user answers every prompt and games end.
FairSpec == Spec /\ \A p \in Processes : WF_vars(Step(p))

-----------------------------------------------------------------------------
(* Properties                                                              *)

TypeOK == /\ kind \in [Processes -> Kinds]
          /\ pc \in [Processes -> ParentSteps \cup ChildSteps]
          /\ phase \in [Processes -> {"apply", "restore"}]
          /\ alive \in [Processes -> BOOLEAN]
          /\ operation \subseteq Processes
          /\ boosters \subseteq Processes
          /\ lookers \subseteq Processes
          /\ sawBoost \in [Processes -> BOOLEAN]
          /\ target \in [Processes -> Processes \cup {NoTarget}]
          /\ journal \in [Processes -> {"none", "checkpoint", "applied", "undone"}]
          /\ clock \in Nat
          /\ id \in [Processes -> 0..clock]
          /\ appliedAt \in [Processes -> Nat]
          /\ failures \in 0..MaxFailures

\* acquireOperationLock: although every refused attempt opens a handle too
\* and handles close in any order, at most one process is past it.
OneOperation ==
    \A p, q \in Processes : pc[p] \in Critical /\ pc[q] \in Critical => p = q

\* A boost whose profile is applied and whose restore has not begun.
Boosted(b) == /\ kind[b] = "boost"
              /\ \/ pc[b] = "game"
                 \/ phase[b] = "restore" /\ pc[b] \in
                       {"uac", "identify", "lock", "look", "looked", "work"}

\* runBoostSession, checkBoostSession: from the end of its apply to its restore
\* a boost session finds its own profile applied, by the backup that a
\* restore of the latest takes, as long as no parent dies.  (The child of a
\* dead boost parent can pass the check thanks to the next boost session.)
BoostUndisturbed ==
    (\A p \in Processes : alive[p]) =>
        \A b \in Processes : Boosted(b) => journal[b] = "applied" /\ Latest(b)

\* Every handle is closed in the end: nothing blocks later operations.
LocksReleased == <>[](operation \cup boosters \cup lookers = {})

\* "Non-elevated game process with automatic restore" (README.md:51): a boost
\* session that ended leaves nothing applied, if nothing failed or died.
BoostRestored ==
    \A b \in Processes :
        kind[b] = "boost" /\ pc[b] = "done" => journal[b] # "applied"

\* "Every preset requires a recent matching local Luxury checkpoint"
\* (README.md:42): at the step that applies a profile there is one.
CheckpointAtApply ==
    [][\A p \in Processes :
          kind[p] = "profile" /\ journal'[p] = "applied" /\ journal[p] # "applied" =>
             \E q \in Processes : journal[q] = "checkpoint"]_journal

\* "Restore the last applied backup?" (main_windows.go:286): a restore that
\* names no backup takes the one that was applied last.
LastAppliedFirst ==
    [][\A p, b \in Processes :
          /\ kind[p] = "restore" /\ target[p] = NoTarget
          /\ pc[p] = "work" /\ pc'[p] # "work"
          /\ journal[b] = "applied" /\ journal'[b] = "undone"
          => \A q \in Processes : journal[q] = "applied" => appliedAt[q] <= appliedAt[b]
      ]_journal
=============================================================================
