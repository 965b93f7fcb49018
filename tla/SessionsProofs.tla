--------------------------- MODULE SessionsProofs ---------------------------
(***************************************************************************)
(* For any finite set of processes, any requests and any bounds: the       *)
(* types, mutual exclusion of operations, and the boost session that       *)
(* nobody disturbs.                                                        *)
(***************************************************************************)
EXTENDS Sessions, TLAPS, FiniteSetTheorems

AllAlive == \A p \in Processes : alive[p]

\* A boost between the moment it got the session mutex and its end.
InSession(p) == kind[p] = "boost" /\ pc[p] \notin {"idle", "sessionBusy", "done"}

\* An ordinary operation that is past the check, or sure to pass it.
Intruding(q) == /\ kind[q] \notin {"boost", "startup"}
                /\ pc[q] = "work" \/ (pc[q] = "looked" /\ ~sawBoost[q])

\* A boost that applied its profile and is still inside its transaction.
JustApplied(b) == kind[b] = "boost" /\ phase[b] = "apply" /\ pc[b] = "succeeded"

\* What the step of a process says of its kind, phase and journal.
Phases == \A p \in Processes :
             /\ phase[p] = "restore" \/ pc[p] = "game" => kind[p] = "boost"
             /\ pc[p] = "checkpoint" => kind[p] = "profile"
             /\ pc[p] = "idle" => phase[p] = "apply" /\ journal[p] = "none"

\* The handles that belong to a step.
Handles == \A p \in Processes :
              /\ pc[p] \in Critical => p \in operation
              /\ pc[p] = "sessionBusy" \/ InSession(p) => p \in boosters \/ ~alive[p]

\* The session mutex admits one boost, as long as no parent died.
OneSession ==
    AllAlive => \A p, q \in Processes : InSession(p) /\ InSession(q) => p = q

\* Nobody is past the check while a boost has its profile applied.
NoIntruder ==
    AllAlive => \A q, b \in Processes : Boosted(b) => ~Intruding(q)

\* The backup of such a boost is outstanding and the latest.
ProfileHeld ==
    AllAlive => \A b \in Processes :
        Boosted(b) \/ JustApplied(b) => journal[b] = "applied" /\ Latest(b)

\* The inductive invariant.
IInv == /\ TypeOK /\ Phases /\ Handles /\ OneOperation
        /\ OneSession /\ NoIntruder /\ ProfileHeld

\* Every action keeps the types.
LEMMA TypeStep ==
    ASSUME TypeOK, [Next]_vars
    PROVE  TypeOK'
<1>1. ASSUME NEW p \in Processes, Request(p) PROVE TypeOK'
  BY <1>1 DEF Request, Goto, locks, Stamp, TypeOK, ParentSteps, ChildSteps
<1>2. ASSUME NEW p \in Processes, OpenSession(p) PROVE TypeOK'
  BY <1>2 DEF OpenSession, Goto, journals, TypeOK, ParentSteps
<1>3. ASSUME NEW p \in Processes, Elevate(p) PROVE TypeOK'
  BY <1>3 DEF Elevate, Goto, locks, journals, TypeOK, ChildSteps
<1>4. ASSUME NEW p \in Processes, EndGame(p) PROVE TypeOK'
  BY <1>4 DEF EndGame, Goto, locks, journals, TypeOK, ParentSteps
<1>5. ASSUME NEW p \in Processes, CloseSession(p) PROVE TypeOK'
  BY <1>5 DEF CloseSession, Goto, journals, TypeOK, ParentSteps
<1>6. ASSUME NEW p \in Processes, Identify(p) PROVE TypeOK'
  BY <1>6 DEF Identify, Goto, locks, journals, AfterChild, TypeOK, ParentSteps, ChildSteps
<1>7. ASSUME NEW p \in Processes, CheckCheckpoint(p) PROVE TypeOK'
  BY <1>7 DEF CheckCheckpoint, Goto, locks, journals, AfterChild, TypeOK, ParentSteps,
     ChildSteps
<1>8. ASSUME NEW p \in Processes, TakeLock(p) PROVE TypeOK'
  BY <1>8 DEF TakeLock, Goto, journals, TypeOK, ChildSteps
<1>9. ASSUME NEW p \in Processes, CloseBusyHandle(p) PROVE TypeOK'
  BY <1>9 DEF CloseBusyHandle, Goto, journals, AfterChild, TypeOK, ParentSteps
<1>10. ASSUME NEW p \in Processes, Look(p) PROVE TypeOK'
  BY <1>10 DEF Look, Goto, journals, TypeOK, ChildSteps
<1>11. ASSUME NEW p \in Processes, Looked(p) PROVE TypeOK'
  BY <1>11 DEF Looked, Goto, journals, TypeOK, ChildSteps
<1>12. ASSUME NEW p \in Processes, Work(p) PROVE TypeOK'
  <2>1. /\ clock' \in Nat
        /\ id' \in [Processes -> 0..clock']
    BY <1>12 DEF Work, Stamp, WorkApply, WorkRestore, WorkStartup, journals, TypeOK
  <2>2. journal' \in [Processes -> {"none", "checkpoint", "applied", "undone"}]
    BY <1>12 DEF Work, WorkApply, WorkRestore, WorkStartup, journals, TypeOK
  <2>3. appliedAt' \in [Processes -> Nat]
    <3>1. Cardinality({q \in Processes : appliedAt[q] # 0}) \in Nat
      BY ProcessesAssumption, FS_Subset, FS_CardinalityType
    <3>2. QED
      BY <1>12, <3>1 DEF Work, WorkApply, WorkRestore, WorkStartup, journals, TypeOK
  <2>4. failures' \in 0..MaxFailures
    BY <1>12, BoundsAssumption DEF Work, Fault, TypeOK
  <2>5. pc' \in [Processes -> ParentSteps \cup ChildSteps]
    BY <1>12 DEF Work, Goto, ChildSteps, TypeOK
  <2>6. QED
    BY <1>12, <2>1, <2>2, <2>3, <2>4, <2>5 DEF Work, locks, TypeOK
<1>13. ASSUME NEW p \in Processes, Release(p) PROVE TypeOK'
  BY <1>13 DEF Release, Goto, journals, AfterChild, TypeOK, ParentSteps
<1>14. ASSUME NEW p \in Processes, Deny(p) PROVE TypeOK'
  BY <1>14, BoundsAssumption DEF Deny, Fault, Goto, AfterChild, locks, journals, TypeOK,
     ParentSteps
<1>15. ASSUME NEW p \in Processes, ParentDies(p) PROVE TypeOK'
  BY <1>15 DEF ParentDies, Goto, journals, TypeOK, ParentSteps
<1>16. ASSUME NEW p \in Processes, ChildDies(p) PROVE TypeOK'
  BY <1>16, BoundsAssumption DEF ChildDies, Fault, Goto, AfterChild, journals, TypeOK,
     ParentSteps
<1>17. CASE UNCHANGED vars
  BY <1>17 DEF vars, locks, journals, TypeOK
<1>18. QED
  BY <1>1, <1>2, <1>3, <1>4, <1>5, <1>6, <1>7, <1>8, <1>9, <1>10, <1>11,
     <1>12, <1>13, <1>14, <1>15, <1>16, <1>17
     DEF Next, Step

\* Only a boost has a second phase or a game, only a profile asks for a
\* checkpoint, and a process that has not started wrote no journal.
LEMMA PhasesStep ==
    ASSUME TypeOK, Phases, [Next]_vars
    PROVE  Phases'
<1>1. ASSUME NEW p \in Processes, Request(p) PROVE Phases'
  BY <1>1 DEF Request, Goto, Phases
<1>2. ASSUME NEW p \in Processes, OpenSession(p) PROVE Phases'
  BY <1>2 DEF OpenSession, Goto, journals, Phases
<1>3. ASSUME NEW p \in Processes, Elevate(p) PROVE Phases'
  BY <1>3 DEF Elevate, Goto, journals, Phases
<1>4. ASSUME NEW p \in Processes, EndGame(p) PROVE Phases'
  BY <1>4 DEF EndGame, Goto, journals, Phases
<1>5. ASSUME NEW p \in Processes, CloseSession(p) PROVE Phases'
  BY <1>5 DEF CloseSession, Goto, journals, Phases
<1>6. ASSUME NEW p \in Processes, Identify(p) PROVE Phases'
  BY <1>6 DEF Identify, Goto, journals, AfterChild, TypeOK, Phases
<1>7. ASSUME NEW p \in Processes, CheckCheckpoint(p) PROVE Phases'
  BY <1>7 DEF CheckCheckpoint, Goto, journals, AfterChild, TypeOK, Phases
<1>8. ASSUME NEW p \in Processes, TakeLock(p) PROVE Phases'
  BY <1>8 DEF TakeLock, Goto, journals, Phases
<1>9. ASSUME NEW p \in Processes, CloseBusyHandle(p) PROVE Phases'
  BY <1>9 DEF CloseBusyHandle, Goto, journals, AfterChild, Phases
<1>10. ASSUME NEW p \in Processes, Look(p) PROVE Phases'
  BY <1>10 DEF Look, Goto, journals, Phases
<1>11. ASSUME NEW p \in Processes, Looked(p) PROVE Phases'
  BY <1>11 DEF Looked, Goto, journals, Phases
<1>12. ASSUME NEW p \in Processes, Work(p) PROVE Phases'
  BY <1>12 DEF Work, Goto, journals, WorkApply, WorkRestore, WorkStartup, Chosen, TypeOK,
     Phases, Outstanding, Latest
<1>13. ASSUME NEW p \in Processes, Release(p) PROVE Phases'
  BY <1>13 DEF Release, Goto, journals, AfterChild, Phases
<1>14. ASSUME NEW p \in Processes, Deny(p) PROVE Phases'
  BY <1>14 DEF Deny, Goto, journals, AfterChild, Phases
<1>15. ASSUME NEW p \in Processes, ParentDies(p) PROVE Phases'
  BY <1>15 DEF ParentDies, Goto, journals, TypeOK, Phases
<1>16. ASSUME NEW p \in Processes, ChildDies(p) PROVE Phases'
  BY <1>16 DEF ChildDies, Goto, journals, AfterChild, Phases, ChildSteps
<1>17. CASE UNCHANGED vars
  BY <1>17 DEF vars, journals, Phases
<1>18. QED
  BY <1>1, <1>2, <1>3, <1>4, <1>5, <1>6, <1>7, <1>8, <1>9, <1>10, <1>11,
     <1>12, <1>13, <1>14, <1>15, <1>16, <1>17
     DEF Next, Step

\* A process inside an operation, and a live boost inside its session, keep
\* their handles open.
LEMMA HandlesStep ==
    ASSUME TypeOK, Phases, Handles, [Next]_vars
    PROVE  Handles'
<1>1. ASSUME NEW p \in Processes, Request(p) PROVE Handles'
  BY <1>1 DEF Request, Goto, locks, Handles, InSession, Critical
<1>2. ASSUME NEW p \in Processes, OpenSession(p) PROVE Handles'
  BY <1>2 DEF OpenSession, Goto, Handles, InSession, Critical
<1>3. ASSUME NEW p \in Processes, Elevate(p) PROVE Handles'
  BY <1>3 DEF Elevate, Goto, locks, Handles, InSession, Critical
<1>4. ASSUME NEW p \in Processes, EndGame(p) PROVE Handles'
  BY <1>4 DEF EndGame, Goto, locks, Handles, InSession, Critical
<1>5. ASSUME NEW p \in Processes, CloseSession(p) PROVE Handles'
  BY <1>5 DEF CloseSession, Goto, TypeOK, Handles, InSession, Critical
<1>6. ASSUME NEW p \in Processes, Identify(p) PROVE Handles'
  BY <1>6 DEF Identify, Goto, locks, AfterChild, TypeOK, Handles, InSession, Critical
<1>7. ASSUME NEW p \in Processes, CheckCheckpoint(p) PROVE Handles'
  BY <1>7 DEF CheckCheckpoint, Goto, locks, AfterChild, TypeOK, Handles, InSession, Critical
<1>8. ASSUME NEW p \in Processes, TakeLock(p) PROVE Handles'
  BY <1>8 DEF TakeLock, Goto, Handles, InSession
<1>9. ASSUME NEW p \in Processes, CloseBusyHandle(p) PROVE Handles'
  BY <1>9 DEF CloseBusyHandle, Goto, AfterChild, Handles, InSession, Critical
<1>10. ASSUME NEW p \in Processes, Look(p) PROVE Handles'
  BY <1>10 DEF Look, Goto, Handles, InSession, Critical
<1>11. ASSUME NEW p \in Processes, Looked(p) PROVE Handles'
  BY <1>11 DEF Looked, Goto, Handles, InSession, Critical
<1>12. ASSUME NEW p \in Processes, Work(p) PROVE Handles'
  BY <1>12 DEF Work, Goto, locks, TypeOK, Handles, InSession, Critical
<1>13. ASSUME NEW p \in Processes, Release(p) PROVE Handles'
  BY <1>13 DEF Release, Goto, AfterChild, TypeOK, Handles, InSession, Critical
<1>14. ASSUME NEW p \in Processes, Deny(p) PROVE Handles'
  BY <1>14 DEF Deny, Goto, locks, AfterChild, Handles, InSession, Critical
<1>15. ASSUME NEW p \in Processes, ParentDies(p) PROVE Handles'
  BY <1>15 DEF ParentDies, Goto, TypeOK, Handles, InSession, Critical
<1>16. ASSUME NEW p \in Processes, ChildDies(p) PROVE Handles'
  BY <1>16 DEF ChildDies, Goto, AfterChild, ChildSteps, TypeOK, Handles, InSession, Critical
<1>17. CASE UNCHANGED vars
  BY <1>17 DEF vars, locks, Handles, InSession
<1>18. QED
  BY <1>1, <1>2, <1>3, <1>4, <1>5, <1>6, <1>7, <1>8, <1>9, <1>10, <1>11,
     <1>12, <1>13, <1>14, <1>15, <1>16, <1>17
     DEF Next, Step

\* TakeLock sees the handle of whoever is inside.
LEMMA OneOperationStep ==
    ASSUME TypeOK, Handles, OneOperation, [Next]_vars
    PROVE  OneOperation'
<1>1. ASSUME NEW p \in Processes, Request(p) PROVE OneOperation'
  BY <1>1 DEF Request, Goto, OneOperation, Critical
<1>2. ASSUME NEW p \in Processes, OpenSession(p) PROVE OneOperation'
  BY <1>2 DEF OpenSession, Goto, OneOperation, Critical
<1>3. ASSUME NEW p \in Processes, Elevate(p) PROVE OneOperation'
  BY <1>3 DEF Elevate, Goto, OneOperation, Critical
<1>4. ASSUME NEW p \in Processes, EndGame(p) PROVE OneOperation'
  BY <1>4 DEF EndGame, Goto, OneOperation, Critical
<1>5. ASSUME NEW p \in Processes, CloseSession(p) PROVE OneOperation'
  BY <1>5 DEF CloseSession, Goto, OneOperation, Critical
<1>6. ASSUME NEW p \in Processes, Identify(p) PROVE OneOperation'
  BY <1>6 DEF Identify, Goto, AfterChild, TypeOK, OneOperation, Critical
<1>7. ASSUME NEW p \in Processes, CheckCheckpoint(p) PROVE OneOperation'
  BY <1>7 DEF CheckCheckpoint, Goto, AfterChild, TypeOK, OneOperation, Critical
<1>8. ASSUME NEW p \in Processes, TakeLock(p) PROVE OneOperation'
  BY <1>8 DEF TakeLock, Goto, Free, Handles, OneOperation, Critical
<1>9. ASSUME NEW p \in Processes, CloseBusyHandle(p) PROVE OneOperation'
  BY <1>9 DEF CloseBusyHandle, Goto, AfterChild, OneOperation, Critical
<1>10. ASSUME NEW p \in Processes, Look(p) PROVE OneOperation'
  BY <1>10 DEF Look, Goto, OneOperation, Critical
<1>11. ASSUME NEW p \in Processes, Looked(p) PROVE OneOperation'
  BY <1>11 DEF Looked, Goto, OneOperation, Critical
<1>12. ASSUME NEW p \in Processes, Work(p) PROVE OneOperation'
  BY <1>12 DEF Work, Goto, TypeOK, OneOperation, Critical
<1>13. ASSUME NEW p \in Processes, Release(p) PROVE OneOperation'
  BY <1>13 DEF Release, Goto, AfterChild, OneOperation, Critical
<1>14. ASSUME NEW p \in Processes, Deny(p) PROVE OneOperation'
  BY <1>14 DEF Deny, Goto, AfterChild, OneOperation, Critical
<1>15. ASSUME NEW p \in Processes, ParentDies(p) PROVE OneOperation'
  BY <1>15 DEF ParentDies, Goto, TypeOK, OneOperation, Critical
<1>16. ASSUME NEW p \in Processes, ChildDies(p) PROVE OneOperation'
  BY <1>16 DEF ChildDies, Goto, AfterChild, OneOperation, Critical
<1>17. CASE UNCHANGED vars
  BY <1>17 DEF vars, OneOperation
<1>18. QED
  BY <1>1, <1>2, <1>3, <1>4, <1>5, <1>6, <1>7, <1>8, <1>9, <1>10, <1>11,
     <1>12, <1>13, <1>14, <1>15, <1>16, <1>17
     DEF Next, Step

\* OpenSession sees the handle of the boost in session.
LEMMA OneSessionStep ==
    ASSUME TypeOK, Phases, Handles, OneSession, [Next]_vars
    PROVE  OneSession'
<1>1. ASSUME NEW p \in Processes, Request(p) PROVE OneSession'
  BY <1>1 DEF Request, Goto, AllAlive, OneSession, InSession
<1>2. ASSUME NEW p \in Processes, OpenSession(p) PROVE OneSession'
  BY <1>2 DEF OpenSession, Goto, Free, AllAlive, Handles, OneSession, InSession
<1>3. ASSUME NEW p \in Processes, Elevate(p) PROVE OneSession'
  BY <1>3 DEF Elevate, Goto, AllAlive, OneSession, InSession
<1>4. ASSUME NEW p \in Processes, EndGame(p) PROVE OneSession'
  BY <1>4 DEF EndGame, Goto, AllAlive, OneSession, InSession
<1>5. ASSUME NEW p \in Processes, CloseSession(p) PROVE OneSession'
  BY <1>5 DEF CloseSession, Goto, AllAlive, OneSession, InSession
<1>6. ASSUME NEW p \in Processes, Identify(p) PROVE OneSession'
  <2>1. alive' = alive /\ kind' = kind
    BY <1>6 DEF Identify
  <2>2. \A q \in Processes : InSession(q)' => InSession(q)
    BY <1>6, <2>1 DEF Identify, Goto, AfterChild, TypeOK, InSession
  <2>3. QED
    BY <2>1, <2>2 DEF AllAlive, OneSession
<1>7. ASSUME NEW p \in Processes, CheckCheckpoint(p) PROVE OneSession'
  BY <1>7 DEF CheckCheckpoint, Goto, AfterChild, TypeOK, AllAlive, OneSession, InSession
<1>8. ASSUME NEW p \in Processes, TakeLock(p) PROVE OneSession'
  BY <1>8 DEF TakeLock, Goto, AllAlive, OneSession, InSession
<1>9. ASSUME NEW p \in Processes, CloseBusyHandle(p) PROVE OneSession'
  BY <1>9 DEF CloseBusyHandle, Goto, AfterChild, AllAlive, OneSession, InSession
<1>10. ASSUME NEW p \in Processes, Look(p) PROVE OneSession'
  BY <1>10 DEF Look, Goto, AllAlive, OneSession, InSession
<1>11. ASSUME NEW p \in Processes, Looked(p) PROVE OneSession'
  BY <1>11 DEF Looked, Goto, AllAlive, OneSession, InSession
<1>12. ASSUME NEW p \in Processes, Work(p) PROVE OneSession'
  BY <1>12 DEF Work, Goto, TypeOK, AllAlive, OneSession, InSession
<1>13. ASSUME NEW p \in Processes, Release(p) PROVE OneSession'
  BY <1>13 DEF Release, Goto, AfterChild, AllAlive, OneSession, InSession
<1>14. ASSUME NEW p \in Processes, Deny(p) PROVE OneSession'
  BY <1>14 DEF Deny, Goto, AfterChild, AllAlive, OneSession, InSession
<1>15. ASSUME NEW p \in Processes, ParentDies(p) PROVE OneSession'
  BY <1>15 DEF ParentDies, TypeOK, AllAlive, OneSession
<1>16. ASSUME NEW p \in Processes, ChildDies(p) PROVE OneSession'
  BY <1>16 DEF ChildDies, Goto, AfterChild, ChildSteps, AllAlive, OneSession, InSession
<1>17. CASE UNCHANGED vars
  BY <1>17 DEF vars, AllAlive, OneSession, InSession
<1>18. QED
  BY <1>1, <1>2, <1>3, <1>4, <1>5, <1>6, <1>7, <1>8, <1>9, <1>10, <1>11,
     <1>12, <1>13, <1>14, <1>15, <1>16, <1>17
     DEF Next, Step

\* Look sees the handle of a boost whose profile is applied, and no boost
\* applies its profile while another process is past the check.
LEMMA NoIntruderStep ==
    ASSUME IInv, [Next]_vars
    PROVE  NoIntruder'
<1>1. ASSUME NEW p \in Processes, Request(p) PROVE NoIntruder'
  BY <1>1 DEF Request, Goto, IInv, AllAlive, NoIntruder, Boosted, Intruding
<1>2. ASSUME NEW p \in Processes, OpenSession(p) PROVE NoIntruder'
  BY <1>2 DEF OpenSession, Goto, IInv, AllAlive, Phases, NoIntruder, Boosted, Intruding
<1>3. ASSUME NEW p \in Processes, Elevate(p) PROVE NoIntruder'
  BY <1>3 DEF Elevate, Goto, IInv, AllAlive, NoIntruder, Boosted, Intruding
<1>4. ASSUME NEW p \in Processes, EndGame(p) PROVE NoIntruder'
  BY <1>4 DEF EndGame, Goto, IInv, AllAlive, NoIntruder, Boosted, Intruding
<1>5. ASSUME NEW p \in Processes, CloseSession(p) PROVE NoIntruder'
  BY <1>5 DEF CloseSession, Goto, IInv, AllAlive, NoIntruder, Boosted, Intruding
<1>6. ASSUME NEW p \in Processes, Identify(p) PROVE NoIntruder'
  BY <1>6 DEF Identify, Goto, AfterChild, IInv, TypeOK, AllAlive, NoIntruder, Boosted,
     Intruding
<1>7. ASSUME NEW p \in Processes, CheckCheckpoint(p) PROVE NoIntruder'
  BY <1>7 DEF CheckCheckpoint, Goto, AfterChild, IInv, TypeOK, AllAlive, Phases, NoIntruder,
     Boosted, Intruding
<1>8. ASSUME NEW p \in Processes, TakeLock(p) PROVE NoIntruder'
  BY <1>8 DEF TakeLock, Goto, IInv, AllAlive, NoIntruder, Boosted, Intruding
<1>9. ASSUME NEW p \in Processes, CloseBusyHandle(p) PROVE NoIntruder'
  BY <1>9 DEF CloseBusyHandle, Goto, AfterChild, IInv, AllAlive, NoIntruder, Boosted,
     Intruding
<1>10. ASSUME NEW p \in Processes, Look(p) PROVE NoIntruder'
  BY <1>10 DEF Look, Goto, Free, IInv, TypeOK, AllAlive, Handles, InSession, NoIntruder,
     Boosted, Intruding
<1>11. ASSUME NEW p \in Processes, Looked(p) PROVE NoIntruder'
  BY <1>11 DEF Looked, Goto, IInv, AllAlive, NoIntruder, Boosted, Intruding
<1>12. ASSUME NEW p \in Processes, Work(p) PROVE NoIntruder'
  BY <1>12 DEF Work, Goto, IInv, TypeOK, AllAlive, NoIntruder, Boosted, Intruding
<1>13. ASSUME NEW p \in Processes, Release(p) PROVE NoIntruder'
  BY <1>13 DEF Release, Goto, AfterChild, IInv, OneOperation, NoIntruder, Intruding,
     Critical
<1>14. ASSUME NEW p \in Processes, Deny(p) PROVE NoIntruder'
  BY <1>14 DEF Deny, Goto, AfterChild, IInv, AllAlive, NoIntruder, Boosted, Intruding
<1>15. ASSUME NEW p \in Processes, ParentDies(p) PROVE NoIntruder'
  BY <1>15 DEF ParentDies, IInv, TypeOK, AllAlive, NoIntruder
<1>16. ASSUME NEW p \in Processes, ChildDies(p) PROVE NoIntruder'
  BY <1>16 DEF ChildDies, Goto, AfterChild, IInv, AllAlive, NoIntruder, Boosted, Intruding
<1>17. CASE UNCHANGED vars
  BY <1>17 DEF vars, IInv, AllAlive, NoIntruder, Boosted, Intruding
<1>18. QED
  BY <1>1, <1>2, <1>3, <1>4, <1>5, <1>6, <1>7, <1>8, <1>9, <1>10, <1>11,
     <1>12, <1>13, <1>14, <1>15, <1>16, <1>17
     DEF Next, Step

\* The journal of a boosted session is touched by no other operation, and no
\* later backup joins it.
LEMMA ProfileHeldStep ==
    ASSUME IInv, [Next]_vars
    PROVE  ProfileHeld'
<1>1. ASSUME NEW p \in Processes, Request(p) PROVE ProfileHeld'
  BY <1>1 DEF Request, Goto, Stamp, IInv, TypeOK, AllAlive, Phases, ProfileHeld, Boosted,
     JustApplied, Latest, Outstanding
<1>2. ASSUME NEW p \in Processes, OpenSession(p) PROVE ProfileHeld'
  BY <1>2 DEF OpenSession, Goto, journals, IInv, AllAlive, Phases, ProfileHeld, Boosted,
     JustApplied, Latest, Outstanding
<1>3. ASSUME NEW p \in Processes, Elevate(p) PROVE ProfileHeld'
  BY <1>3 DEF Elevate, Goto, journals, IInv, AllAlive, ProfileHeld, Boosted, JustApplied,
     Latest, Outstanding
<1>4. ASSUME NEW p \in Processes, EndGame(p) PROVE ProfileHeld'
  BY <1>4 DEF EndGame, Goto, journals, IInv, AllAlive, ProfileHeld, Boosted, JustApplied,
     Latest, Outstanding
<1>5. ASSUME NEW p \in Processes, CloseSession(p) PROVE ProfileHeld'
  BY <1>5 DEF CloseSession, Goto, journals, IInv, AllAlive, ProfileHeld, Boosted,
     JustApplied, Latest, Outstanding
<1>6. ASSUME NEW p \in Processes, Identify(p) PROVE ProfileHeld'
  BY <1>6 DEF Identify, Goto, journals, AfterChild, IInv, TypeOK, AllAlive, ProfileHeld,
     Boosted, JustApplied, Latest, Outstanding
<1>7. ASSUME NEW p \in Processes, CheckCheckpoint(p) PROVE ProfileHeld'
  BY <1>7 DEF CheckCheckpoint, Goto, journals, AfterChild, IInv, TypeOK, AllAlive, Phases,
     ProfileHeld, Boosted, JustApplied, Latest, Outstanding
<1>8. ASSUME NEW p \in Processes, TakeLock(p) PROVE ProfileHeld'
  BY <1>8 DEF TakeLock, Goto, journals, IInv, AllAlive, ProfileHeld, Boosted, JustApplied,
     Latest, Outstanding
<1>9. ASSUME NEW p \in Processes, CloseBusyHandle(p) PROVE ProfileHeld'
  BY <1>9 DEF CloseBusyHandle, Goto, journals, AfterChild, IInv, AllAlive, ProfileHeld,
     Boosted, JustApplied, Latest, Outstanding
<1>10. ASSUME NEW p \in Processes, Look(p) PROVE ProfileHeld'
  BY <1>10 DEF Look, Goto, journals, IInv, AllAlive, ProfileHeld, Boosted, JustApplied,
     Latest, Outstanding
<1>11. ASSUME NEW p \in Processes, Looked(p) PROVE ProfileHeld'
  BY <1>11 DEF Looked, Goto, journals, IInv, AllAlive, ProfileHeld, Boosted, JustApplied,
     Latest, Outstanding
<1>12. ASSUME NEW p \in Processes, Work(p) PROVE ProfileHeld'
  <2>1. pc[p] = "work" /\ pc' \in {[pc EXCEPT ![p] = "succeeded"], [pc EXCEPT ![p] = "failed"]}
    BY <1>12 DEF Work, Goto
  <2>2. UNCHANGED <<kind, phase, alive>>
    BY <1>12 DEF Work
  <2>3. SUFFICES ASSUME AllAlive, NEW b \in Processes, (Boosted(b) \/ JustApplied(b))'
                 PROVE  (journal[b] = "applied" /\ Latest(b))'
    BY <2>2 DEF ProfileHeld, AllAlive
  <2>4. CASE b = p
    <3>1. kind[p] = "boost" /\ phase[p] = "apply" /\ pc'[p] = "succeeded"
      BY <2>1, <2>2, <2>3, <2>4 DEF IInv, TypeOK, Boosted, JustApplied
    <3>2. /\ clock' = clock + 1 /\ id' = [id EXCEPT ![p] = clock + 1]
          /\ journal' = [journal EXCEPT ![p] = "applied"]
      BY <1>12, <2>1, <3>1 DEF Work, WorkApply, WorkRestore, WorkStartup, Stamp, Goto, IInv,
         TypeOK
    <3>3. \A q \in Processes : id'[q] <= id'[p]
      BY <3>2 DEF IInv, TypeOK
    <3>4. QED
      BY <2>4, <3>2, <3>3 DEF IInv, TypeOK, Latest, Outstanding
  <2>5. CASE b # p
    <3>1. Boosted(b) \/ JustApplied(b)
      BY <2>1, <2>2, <2>3, <2>5 DEF IInv, TypeOK, Boosted, JustApplied
    <3>2. Boosted(b) /\ pc[b] \notin Critical
      BY <2>1, <2>5, <3>1 DEF IInv, OneOperation, Critical, JustApplied
    <3>3. InSession(b)
      BY <3>2 DEF Boosted, InSession
    <3>4. kind[p] = "startup"
      <4>1. kind[p] # "boost"
        <5>1. ASSUME kind[p] = "boost" PROVE InSession(p)
          BY <2>1, <5>1 DEF InSession
        <5>2. QED
          BY <2>3, <2>5, <3>3, <5>1 DEF IInv, OneSession
      <4>2. ~Intruding(p)
        BY <2>3, <3>2 DEF IInv, NoIntruder
      <4>3. pc[p] = "work"
        BY <2>1
      <4>4. kind[p] \in {"boost", "startup"}
        BY <4>2, <4>3 DEF Intruding
      <4>5. QED
        BY <4>1, <4>4
    <3>5. UNCHANGED journals
      <4>1. phase[p] # "restore"
        BY <3>4 DEF IInv, Phases
      <4>2. QED
        BY <1>12, <3>4, <4>1 DEF Work, WorkApply, WorkRestore, WorkStartup
    <3>6. QED
      BY <2>3, <3>1, <3>5 DEF IInv, ProfileHeld, Latest, Outstanding, journals
  <2>6. QED
    BY <2>4, <2>5
<1>13. ASSUME NEW p \in Processes, Release(p) PROVE ProfileHeld'
  BY <1>13 DEF Release, Goto, journals, AfterChild, IInv, AllAlive, ProfileHeld, Boosted,
     JustApplied, Latest, Outstanding
<1>14. ASSUME NEW p \in Processes, Deny(p) PROVE ProfileHeld'
  BY <1>14 DEF Deny, Goto, journals, AfterChild, IInv, AllAlive, ProfileHeld, Boosted,
     JustApplied, Latest, Outstanding
<1>15. ASSUME NEW p \in Processes, ParentDies(p) PROVE ProfileHeld'
  BY <1>15 DEF ParentDies, IInv, TypeOK, AllAlive, ProfileHeld
<1>16. ASSUME NEW p \in Processes, ChildDies(p) PROVE ProfileHeld'
  BY <1>16 DEF ChildDies, Goto, journals, AfterChild, IInv, AllAlive, ProfileHeld, Boosted,
     JustApplied, Latest, Outstanding
<1>17. CASE UNCHANGED vars
  BY <1>17 DEF vars, journals, IInv, AllAlive, ProfileHeld, Boosted, JustApplied, Latest,
     Outstanding
<1>18. QED
  BY <1>1, <1>2, <1>3, <1>4, <1>5, <1>6, <1>7, <1>8, <1>9, <1>10, <1>11,
     <1>12, <1>13, <1>14, <1>15, <1>16, <1>17
     DEF Next, Step

\* No process has started.
LEMMA InitIInv == Init => IInv
BY RequestsAssumption, BoundsAssumption DEF Init, IInv, TypeOK, Phases, Handles,
   OneOperation, OneSession, NoIntruder, ProfileHeld, InSession, JustApplied, Boosted,
   Critical, ParentSteps

\* The parts together.
LEMMA NextIInv == IInv /\ [Next]_vars => IInv'
BY TypeStep, PhasesStep, HandlesStep, OneOperationStep, OneSessionStep,
   NoIntruderStep, ProfileHeldStep DEF IInv

\* The inductive invariant holds throughout.
LEMMA Inductive == Spec => []IInv
<1>1. QED
  BY InitIInv, NextIInv, PTL DEF Spec

\* The types, for any number of processes.
THEOREM TypeCorrect == Spec => []TypeOK
<1>1. IInv => TypeOK
  BY DEF IInv
<1>2. QED
  BY <1>1, Inductive, PTL

\* acquireOperationLock admits one operation at a time, whatever handles the
\* refused attempts still have open and whoever dies.
THEOREM MutualExclusion == Spec => []OneOperation
<1>1. IInv => OneOperation
  BY DEF IInv
<1>2. QED
  BY <1>1, Inductive, PTL

\* From its apply to its restore a boost session keeps its profile applied
\* and its backup the latest, for any number of other requests.
THEOREM BoostSafe == Spec => []BoostUndisturbed
<1>1. IInv => BoostUndisturbed
  BY DEF IInv, ProfileHeld, AllAlive, BoostUndisturbed
<1>2. QED
  BY <1>1, Inductive, PTL
=============================================================================
