----------------------------- MODULE Transaction -----------------------------
(***************************************************************************)
(* The transaction engine of the elevated process: applyProfile,           *)
(* applyTweak, createCheckpoint, restoreBackup and rollbackBackup over the *)
(* four things they change (registry values, live mouse parameters, power  *)
(* schemes, Ethernet properties), the journal each operation keeps on      *)
(* disk, and the faults in between: a command that fails, a value that     *)
(* does not stick, a save that fails before or after it replaced the file, *)
(* and the death of the process at any step.                               *)
(*                                                                         *)
(* The operation mutex (module Sessions) admits one operation at a time;   *)
(* one `pc' describes it.  saveBackup is one step: module BackupSeal shows *)
(* that it replaces the journal as a whole.  What a save that failed or    *)
(* was killed leaves in the seal of the journal is kept here.  All         *)
(* journals belong to one Windows user.                                    *)
(***************************************************************************)
EXTENDS Naturals, FiniteSets

CONSTANTS NKeys,         \* registry changes of the catalogue, in its order
          MouseKeys,     \* those that also have a live mouse parameter
          Props,         \* Ethernet properties of the physical adapters
          Values,        \* values of a registry entry, parameter or property
          Optimized,     \* the value every change aims at
          NotCaptured,   \* marks what an operation did not capture
          NoJournal,     \* there is no journal
          Operations,    \* profiles, tweaks and checkpoints on offer
          MaxOperations, \* bound: backups created
          MaxFaults      \* bound: failures and crashes

Keys == 1..NKeys
Backups == 1..MaxOperations

\* A change set: the keys of a profile or tweak, the power scheme it needs
\* ("none"; "plan" for a catalogue of settings; "setting" for the single
\* setting of a power-<setting> tweak) and the Ethernet properties in scope.
Operation == [kind  : {"profile", "tweak", "checkpoint"},
              keys  : SUBSET Keys,
              power : {"none", "plan", "setting"},
              props : SUBSET Props]

\* GUIDs: the user's scheme, and for each backup the scheme created under it.
UserPlan == 0
NoGuid == MaxOperations + 1
Guids == {UserPlan} \cup Backups

ASSUME CountsAssumption == NKeys \in Nat /\ MaxOperations \in Nat /\ MaxFaults \in Nat
ASSUME MouseAssumption == MouseKeys \subseteq Keys
ASSUME ValuesAssumption == Optimized \in Values /\ NotCaptured \notin Values
ASSUME OperationsAssumption == Operations \subseteq Operation

VARIABLES reg,      \* registry value of each key
          mouse,    \* live mouse parameter of each mouse key
          net,      \* value of each Ethernet property
          active,   \* GUID of the active power scheme
          schemes,  \* GUIDs of the existing power schemes
          disk,     \* the journals on disk, by backup
          ahead,    \* digests its seal holds in front of each one's own
          pc,       \* the step the running operation is at, "idle" if none
          cur,      \* the backup it works on
          tx,       \* its journal in memory
          step,     \* rollbackBackup: registry keys above it are done
          registryFailed, \* rollbackBackup: a registry value did not restore
          problems, \* rollbackBackup: some step failed
          issued,   \* backups created so far
          before,   \* history: the machine as each operation found it
          ordered,  \* history: only the newest backup was ever restored
          faults    \* failures and crashes so far

machine == <<reg, mouse, net, active, schemes>>
local == <<cur, step, registryFailed, problems>>
history == <<before, ordered>>
vars == <<machine, disk, ahead, pc, local, tx, issued, history, faults>>

-----------------------------------------------------------------------------
(* Journals                                                                *)

Statuses == {"prepared", "checkpoint", "applied", "failed", "rolling_back",
             "rolled_back", "rollback_failed"}

Captured(S) == S \cup {NotCaptured}

Journal == [op           : Operation,
            status       : Statuses,
            registry     : [Keys -> Captured(Values)],
            applied      : 0..NKeys,     \* AppliedRegistry: keys up to this one
            mouse        : [MouseKeys -> Captured(Values)],
            mouseApplied : BOOLEAN,
            previous     : Guids \cup {NoGuid},
            settings     : BOOLEAN,      \* Power.Settings is not empty
            powerApplied : BOOLEAN,
            network      : [Props -> Captured(Values)],
            netApplied   : BOOLEAN]

Machine == [reg : [Keys -> Values], mouse : [MouseKeys -> Values],
            net : [Props -> Values], active : Guids, schemes : SUBSET Guids]

\* profileChangesMouse asks for all mouse values, isMouseTweak for one.
\* The parameters the operation sets and puts back.
MouseTargets(op) ==
    IF op.kind = "tweak" THEN op.keys \cap MouseKeys
    ELSE IF MouseKeys \subseteq op.keys THEN MouseKeys ELSE {}

NetworkTargets(j) == {p \in Props : j.network[p] # NotCaptured}

\* Registry keys whose change the journal announces.
Journalled(j) == {k \in j.op.keys : k <= j.applied}

\* CreatedGUID of the journal of backup b is b itself.
HasCreated(j) == j.op.power # "none" /\ j.op.kind # "checkpoint"

\* What the operation captures before it changes anything.  networkChanges
\* keeps the properties that still need the change, a tweak its own.  A
\* checkpoint announces at once everything it captured, for a later restore.
Capture(op) ==
    LET targets == {p \in op.props : op.kind = "tweak" \/ net[p] # Optimized}
        whole   == op.kind = "checkpoint"
    IN  [op           |-> op,
         status       |-> IF whole THEN "checkpoint" ELSE "prepared",
         registry     |-> [k \in Keys |-> IF k \in op.keys THEN reg[k] ELSE NotCaptured],
         applied      |-> IF whole THEN NKeys ELSE 0,
         mouse        |-> [m \in MouseKeys |-> IF MouseTargets(op) # {} THEN mouse[m]
                                               ELSE NotCaptured],
         mouseApplied |-> whole /\ MouseTargets(op) # {},
         previous     |-> IF op.power # "none" THEN active ELSE NoGuid,
         settings     |-> FALSE,
         powerApplied |-> op.power # "none",
         network      |-> [p \in Props |-> IF p \in targets THEN net[p] ELSE NotCaptured],
         netApplied   |-> whole /\ targets # {}]

\* verifyBackupSeal, which loadBackupFile calls before anything else: a seal
\* holds two digests, and a third pushes the last one out.
SealSize == 2
Trusted(b) == ahead[b] < SealSize

ASSUME NoJournalAssumption == NoJournal \notin Journal

Outstanding(b) == disk[b] # NoJournal /\ disk[b].status # "rolled_back"

\* loadLatestBackup takes the newest journal that is not rolled back.
Newest(b) == Outstanding(b) /\ \A c \in Backups : c > b => ~Outstanding(c)

\* validateTweakBackupShape: a power-<setting> tweak names its one setting.
ValidShape(j) == j.op.kind = "tweak" /\ j.op.power = "setting" => j.settings

\* The order check on every backup, whatever its status.
PowerOrderAlways(b) ==
    LET j == disk[b]
    IN  j.powerApplied /\ HasCreated(j) => active = b

\* validatePowerRestoreOrder: an applied power backup is only undone while
\* the scheme it created is active.
PowerOrderOK(b) ==
    LET j == disk[b]
    IN  j.powerApplied /\ HasCreated(j) /\ j.status = "applied" => active = b

-----------------------------------------------------------------------------
(* Initial state and faults                                                *)

Init == /\ reg \in [Keys -> Values]
        /\ mouse \in [MouseKeys -> Values]
        /\ net \in [Props -> Values]
        /\ active = UserPlan
        /\ schemes = {UserPlan}
        /\ disk = [b \in Backups |-> NoJournal]
        /\ ahead = [b \in Backups |-> 0]
        /\ pc = "idle"
        /\ cur = 0
        /\ tx = NoJournal
        /\ step = 0
        /\ registryFailed = FALSE
        /\ problems = FALSE
        /\ issued = 0
        /\ before = [b \in Backups |-> NoJournal]
        /\ ordered = TRUE
        /\ faults = 0

Fault == faults < MaxFaults /\ faults' = faults + 1

\* prepareBackupSeal puts the digest of the new content first and keeps the
\* first other one behind it: that of the file moves back by one place, unless
\* the new content is that of the file (it comes first) or that of the last
\* attempt (nothing moves).
SealMoves ==
    \E place \in {0, ahead[cur], ahead[cur] + 1} :
        place <= SealSize /\ ahead' = [ahead EXCEPT ![cur] = place]

\* The rename made the file the content whose digest comes first.
Replaced(j) == /\ disk' = [disk EXCEPT ![cur] = j]
               /\ ahead' = [ahead EXCEPT ![cur] = 0]

\* saveBackup returned no error.
Saved(j) == Replaced(j) /\ UNCHANGED faults

\* saveBackup failed: before the rename, with the seal moved or as it was, or
\* after it.
SaveFailed(j) == /\ Fault
                 /\ \/ Replaced(j)
                    \/ SealMoves /\ UNCHANGED disk

Goto(label) == pc' = label

\* The operation is over; nothing is left in memory.
Return == /\ pc' = "idle"
          /\ tx' = NoJournal
          /\ cur' = 0
          /\ step' = 0
          /\ registryFailed' = FALSE
          /\ problems' = FALSE

-----------------------------------------------------------------------------
(* Applying: applyProfile, applyTweak, createCheckpoint                    *)

\* The stages that follow one another in the code, with the conditions under
\* which each is skipped.
AfterMouse(j) == IF NetworkTargets(j) # {} THEN "network" ELSE "verify"
AfterRegistry(j) == IF MouseTargets(j.op) # {} THEN "mouse" ELSE AfterMouse(j)
AfterPower(j) == IF j.op.keys # {} THEN "registry" ELSE AfterRegistry(j)
AfterJournal(j) == IF j.powerApplied THEN "duplicate" ELSE AfterPower(j)

\* A new operation holds the mutex and has captured the current state.
Begin(op) ==
    /\ pc = "idle"
    /\ issued < MaxOperations
    /\ issued' = issued + 1
    /\ cur' = issued + 1
    /\ tx' = Capture(op)
    /\ before' = [before EXCEPT ![issued + 1] =
                    [reg |-> reg, mouse |-> mouse, net |-> net,
                     active |-> active, schemes |-> schemes]]
    /\ Goto("journal")
    /\ UNCHANGED <<machine, disk, ahead, step, registryFailed, problems, ordered, faults>>

\* The first save, the only one of a checkpoint.  If it fails nothing was
\* changed and the operation returns.
WriteJournal ==
    /\ pc = "journal"
    /\ \/ /\ Saved(tx)
          /\ IF tx.op.kind = "checkpoint" THEN Return
             ELSE Goto(AfterJournal(tx)) /\ UNCHANGED <<tx, local>>
       \/ SaveFailed(tx) /\ Return
    /\ UNCHANGED <<machine, issued, history>>

\* createPerformancePlanFromSettings: powercfg /duplicatescheme.
DuplicateScheme ==
    /\ pc = "duplicate"
    /\ \/ schemes' = schemes \cup {cur} /\ Goto("activate") /\ UNCHANGED faults
       \/ UNCHANGED schemes /\ Goto("fail") /\ Fault
    /\ UNCHANGED <<reg, mouse, net, active, disk, ahead, tx, local, issued, history>>

\* powercfg /setacvalueindex and /setactive, with the read-back of the active
\* scheme, which may fail after the scheme became active.
ActivateScheme ==
    /\ pc = "activate"
    /\ \/ /\ active' = cur
          /\ tx' = [tx EXCEPT !.settings = TRUE]
          /\ Goto("journalPower")
          /\ UNCHANGED faults
       \/ active' \in {active, cur} /\ Goto("fail") /\ Fault /\ UNCHANGED tx
    /\ UNCHANGED <<reg, mouse, net, schemes, disk, ahead, local, issued, history>>

JournalPower ==
    /\ pc = "journalPower"
    /\ \/ Saved(tx) /\ Goto(AfterPower(tx))
       \/ SaveFailed(tx) /\ Goto("fail")
    /\ UNCHANGED <<machine, tx, local, issued, history>>

\* The next registry change, in catalogue order.
NextKey(k) == /\ k \in tx.op.keys /\ k > tx.applied
              /\ \A other \in tx.op.keys : other > tx.applied => k <= other

\* The change is made and only then announced.
JournalRegistryAfterApply ==
    /\ pc = "registry"
    /\ \E k \in Keys :
         /\ NextKey(k)
         /\ tx' = [tx EXCEPT !.applied = k]
         /\ reg' = [reg EXCEPT ![k] = Optimized]
    /\ \/ Saved(tx') /\ Goto("writeRegistry")
       \/ SaveFailed(tx') /\ Goto("fail")
    /\ UNCHANGED <<mouse, net, active, schemes, local, issued, history>>

\* AppliedRegistry = i + 1 and its save precede applyRegistry.
JournalRegistry ==
    /\ pc = "registry"
    /\ \E k \in Keys : NextKey(k) /\ tx' = [tx EXCEPT !.applied = k]
    /\ \/ Saved(tx') /\ Goto("writeRegistry")
       \/ SaveFailed(tx') /\ Goto("fail")
    /\ UNCHANGED <<machine, local, issued, history>>

\* applyRegistry succeeds, fails, or reports success for a value that a
\* policy puts back.
WriteRegistry ==
    /\ pc = "writeRegistry"
    /\ LET next == IF \E k \in tx.op.keys : k > tx.applied
                   THEN "registry" ELSE AfterRegistry(tx)
       IN  \/ /\ reg' = [reg EXCEPT ![tx.applied] = Optimized]
              /\ Goto(next)
              /\ UNCHANGED faults
           \/ UNCHANGED reg /\ Fault /\ pc' \in {next, "fail"}
    /\ UNCHANGED <<mouse, net, active, schemes, disk, ahead, tx, local, issued, history>>

JournalMouse ==
    /\ pc = "mouse"
    /\ tx' = [tx EXCEPT !.mouseApplied = TRUE]
    /\ \/ Saved(tx') /\ Goto("writeMouse")
       \/ SaveFailed(tx') /\ Goto("fail")
    /\ UNCHANGED <<machine, local, issued, history>>

\* applyMouseParameters writes all parameters: a profile sets every one, a
\* tweak writes the others as it captured them.
WriteMouse ==
    /\ pc = "writeMouse"
    /\ \/ /\ mouse' = [m \in MouseKeys |-> IF m \in MouseTargets(tx.op) THEN Optimized
                                           ELSE tx.mouse[m]]
          /\ Goto(AfterMouse(tx))
          /\ UNCHANGED faults
       \/ UNCHANGED mouse /\ Fault /\ Goto("fail")
    /\ UNCHANGED <<reg, net, active, schemes, disk, ahead, tx, local, issued, history>>

JournalNetwork ==
    /\ pc = "network"
    /\ tx' = [tx EXCEPT !.netApplied = TRUE]
    /\ \/ Saved(tx') /\ Goto("writeNetwork")
       \/ SaveFailed(tx') /\ Goto("fail")
    /\ UNCHANGED <<machine, local, issued, history>>

\* setNetworkProperties sets one property after another and may stop midway.
WriteNetwork ==
    /\ pc = "writeNetwork"
    /\ \E done \in SUBSET NetworkTargets(tx) :
         /\ net' = [p \in Props |-> IF p \in done THEN Optimized ELSE net[p]]
         /\ \/ done = NetworkTargets(tx) /\ Goto("verify") /\ UNCHANGED faults
            \/ Goto("fail") /\ Fault
    /\ UNCHANGED <<reg, mouse, active, schemes, disk, ahead, tx, local, issued, history>>

\* verifyApplied.
ReadBackMatches ==
    /\ \A k \in tx.op.keys : reg[k] = Optimized
    /\ tx.mouseApplied => \A m \in MouseTargets(tx.op) : mouse[m] = Optimized
    /\ tx.powerApplied => active = cur
    /\ tx.netApplied => \A p \in NetworkTargets(tx) : net[p] = Optimized

\* The read-back looks at the live parameters and not at the registry.
VerifySkipsRegistry ==
    /\ pc = "verify"
    /\ Goto("commit")
    /\ UNCHANGED <<machine, disk, ahead, tx, local, issued, history, faults>>

Verify ==
    /\ pc = "verify"
    /\ \/ ReadBackMatches /\ Goto("commit") /\ UNCHANGED faults
       \/ ~ReadBackMatches /\ Goto("fail") /\ UNCHANGED faults
       \/ Goto("fail") /\ Fault
    /\ UNCHANGED <<machine, disk, ahead, tx, local, issued, history>>

Commit ==
    /\ pc = "commit"
    /\ LET done == [tx EXCEPT !.status = "applied"]
       IN  \/ Saved(done) /\ Return
           \/ SaveFailed(done) /\ tx' = done /\ Goto("fail") /\ UNCHANGED local
    /\ UNCHANGED <<machine, issued, history>>

\* fail(): the result of the save is ignored, then the rollback starts.
Fail ==
    /\ pc = "fail"
    /\ tx' = [tx EXCEPT !.status = "failed"]
    /\ Saved(tx') \/ SaveFailed(tx')
    /\ problems' = FALSE
    /\ Goto("rollback")
    /\ UNCHANGED <<machine, cur, step, registryFailed, issued, history>>

-----------------------------------------------------------------------------
(* Restoring: restoreBackup, restoreTweakBackup, rollbackBackup            *)

\* restoreBackup with its checks, on the newest journal or on a named one.
BeginRestore(b) ==
    /\ pc = "idle"
    /\ Outstanding(b)
    /\ Trusted(b)
    /\ ordered' = (ordered /\ Newest(b))
    /\ ValidShape(disk[b])
    /\ PowerOrderOK(b)
    /\ cur' = b
    /\ tx' = disk[b]
    /\ problems' = FALSE
    /\ Goto("rollback")
    /\ UNCHANGED <<machine, disk, ahead, step, registryFailed, issued, before, faults>>

\* A save inside rollbackBackup: an error is noted and the rollback goes on.
SaveAndNote(j) == \/ Saved(j) /\ UNCHANGED problems
                  \/ SaveFailed(j) /\ problems' = TRUE

Rollback ==
    /\ pc = "rollback"
    /\ tx' = [tx EXCEPT !.status = "rolling_back"]
    /\ SaveAndNote(tx')
    /\ step' = tx.applied
    /\ registryFailed' = FALSE
    /\ Goto(IF tx.netApplied THEN "restoreNetwork" ELSE "restoreRegistry")
    /\ UNCHANGED <<machine, cur, issued, history>>

RestoreNetwork ==
    /\ pc = "restoreNetwork"
    /\ \E done \in SUBSET NetworkTargets(tx) :
         /\ net' = [p \in Props |-> IF p \in done THEN tx.network[p] ELSE net[p]]
         /\ \/ /\ done = NetworkTargets(tx)
               /\ tx' = [tx EXCEPT !.netApplied = FALSE]
               /\ Goto("networkRestored")
               /\ UNCHANGED <<problems, faults>>
            \/ /\ Fault
               /\ problems' = TRUE
               /\ Goto("restoreRegistry")
               /\ UNCHANGED tx
    /\ UNCHANGED <<reg, mouse, active, schemes, disk, ahead, cur, step, registryFailed,
                   issued, history>>

SaveNetworkRestored ==
    /\ pc = "networkRestored"
    /\ SaveAndNote(tx)
    /\ Goto("restoreRegistry")
    /\ UNCHANGED <<machine, tx, cur, step, registryFailed, issued, history>>

\* The journalled keys that are still to be restored.
Remaining == {k \in Journalled(tx) : k <= step}

\* restoreRegistry and its read-back, from the last journalled key down; an
\* error, which a failed read-back of the restored value is too, does not stop
\* the loop.
RestoreRegistry ==
    /\ pc = "restoreRegistry"
    /\ \E k \in Remaining :
         /\ \A other \in Remaining : other <= k
         /\ step' = k - 1
         /\ \/ /\ reg' = [reg EXCEPT ![k] = tx.registry[k]]
               /\ UNCHANGED <<registryFailed, problems, faults>>
            \/ /\ Fault
               /\ registryFailed' = TRUE
               /\ problems' = TRUE
               /\ reg' \in {reg, [reg EXCEPT ![k] = tx.registry[k]]}
    /\ UNCHANGED <<mouse, net, active, schemes, disk, ahead, pc, cur, tx, issued, history>>

AfterMouseRestore(j) == IF j.powerApplied THEN "restorePower" ELSE "finish"

\* AppliedRegistry is cleared, and the mouse restored, only if every value
\* was restored.
RegistryRestored ==
    /\ pc = "restoreRegistry"
    /\ Remaining = {}
    /\ \/ /\ ~registryFailed
          /\ tx' = [tx EXCEPT !.applied = 0]
          /\ SaveAndNote(tx')
          /\ Goto(IF tx.mouseApplied THEN "restoreMouse" ELSE AfterMouseRestore(tx))
       \/ /\ registryFailed
          /\ Goto(AfterMouseRestore(tx))
          /\ UNCHANGED <<tx, disk, ahead, problems, faults>>
    /\ registryFailed' = FALSE   \* neither variable is read again
    /\ step' = 0
    /\ UNCHANGED <<machine, cur, issued, history>>

\* The parameters with those of the operation put back: a tweak changes its
\* own in the current ones, a profile all.
MouseBack == [m \in MouseKeys |-> IF m \in MouseTargets(tx.op) THEN tx.mouse[m]
                                  ELSE mouse[m]]

\* The call or the read-back after it may fail.
RestoreMouse ==
    /\ pc = "restoreMouse"
    /\ \/ /\ mouse' = MouseBack
          /\ tx' = [tx EXCEPT !.mouseApplied = FALSE]
          /\ Goto("mouseRestored")
          /\ UNCHANGED <<problems, faults>>
       \/ /\ Fault
          /\ problems' = TRUE
          /\ Goto(AfterMouseRestore(tx))
          /\ mouse' \in {mouse, MouseBack}
          /\ UNCHANGED tx
    /\ UNCHANGED <<reg, net, active, schemes, disk, ahead, cur, step, registryFailed,
                   issued, history>>

SaveMouseRestored ==
    /\ pc = "mouseRestored"
    /\ SaveAndNote(tx)
    /\ Goto(AfterMouseRestore(tx))
    /\ UNCHANGED <<machine, tx, cur, step, registryFailed, issued, history>>

\* restorePowerPlan, first half: powercfg /setactive, which fails for a
\* scheme that is gone, and the read-back, which may fail on its own.
RestoreActiveScheme ==
    /\ pc = "restorePower"
    /\ \/ /\ tx.previous \in schemes
          /\ active' = tx.previous
          /\ Goto(IF HasCreated(tx) THEN "deleteScheme" ELSE "powerRestored")
          /\ tx' = [tx EXCEPT !.powerApplied = HasCreated(tx)]
          /\ UNCHANGED <<problems, faults>>
       \/ /\ \/ tx.previous \notin schemes /\ UNCHANGED <<active, faults>>
             \/ tx.previous \in schemes /\ active' \in {active, tx.previous} /\ Fault
          /\ problems' = TRUE
          /\ Goto("finish")
          /\ UNCHANGED tx
    /\ UNCHANGED <<reg, mouse, net, schemes, disk, ahead, cur, step, registryFailed,
                   issued, history>>

\* The created scheme is left in place and the flag cleared all the same.
DeleteSchemeForgets ==
    /\ pc = "deleteScheme"
    /\ tx' = [tx EXCEPT !.powerApplied = FALSE]
    /\ Goto("powerRestored")
    /\ UNCHANGED <<machine, disk, ahead, local, issued, history, faults>>

\* A created scheme that is already gone counts as a failure.
DeleteSchemeMustExist ==
    /\ pc = "deleteScheme"
    /\ \/ /\ cur \in schemes
          /\ schemes' = schemes \ {cur}
          /\ tx' = [tx EXCEPT !.powerApplied = FALSE]
          /\ Goto("powerRestored")
          /\ UNCHANGED problems
       \/ /\ cur \notin schemes
          /\ problems' = TRUE
          /\ Goto("finish")
          /\ UNCHANGED <<schemes, tx>>
    /\ UNCHANGED <<reg, mouse, net, active, disk, ahead, cur, step, registryFailed,
                   issued, history, faults>>

\* restorePowerPlan, second half: the created scheme is deleted if it exists.
\* A failure can be that of the second look, after the scheme is gone.
DeleteScheme ==
    /\ pc = "deleteScheme"
    /\ \/ /\ schemes' = schemes \ {cur}
          /\ tx' = [tx EXCEPT !.powerApplied = FALSE]
          /\ Goto("powerRestored")
          /\ UNCHANGED <<problems, faults>>
       \/ /\ Fault
          /\ problems' = TRUE
          /\ Goto("finish")
          /\ schemes' \in {schemes, schemes \ {cur}}
          /\ UNCHANGED tx
    /\ UNCHANGED <<reg, mouse, net, active, disk, ahead, cur, step, registryFailed,
                   issued, history>>

SavePowerRestored ==
    /\ pc = "powerRestored"
    /\ SaveAndNote(tx)
    /\ Goto("finish")
    /\ UNCHANGED <<machine, tx, cur, step, registryFailed, issued, history>>

\* The verdict ignores the problems met on the way.
FinishOptimistic ==
    /\ pc = "finish"
    /\ LET done == [tx EXCEPT !.status = "rolled_back"]
       IN  Saved(done) \/ SaveFailed(done)
    /\ Return
    /\ UNCHANGED <<machine, issued, history>>

\* A rollback with problems can only end as "rollback_failed".  An error of
\* the last save is only reported.
Finish ==
    /\ pc = "finish"
    /\ LET done == [tx EXCEPT !.status = IF problems THEN "rollback_failed"
                                                      ELSE "rolled_back"]
       IN  Saved(done) \/ SaveFailed(done)
    /\ Return
    /\ UNCHANGED <<machine, issued, history>>

-----------------------------------------------------------------------------

\* The steps that begin with a save.
Saving == {"journal", "journalPower", "registry", "mouse", "network", "commit",
           "fail", "rollback", "networkRestored", "restoreRegistry",
           "mouseRestored", "powerRestored", "finish"}

\* The elevated process dies, at a save perhaps between seal and rename; what
\* it held in memory is gone.
Crash ==
    /\ pc # "idle"
    /\ Fault
    /\ Return
    /\ UNCHANGED ahead \/ (pc \in Saving /\ SealMoves)
    /\ UNCHANGED <<machine, disk, issued, history>>

Apply == \/ WriteJournal \/ DuplicateScheme \/ ActivateScheme \/ JournalPower
         \/ JournalRegistry \/ WriteRegistry \/ JournalMouse \/ WriteMouse
         \/ JournalNetwork \/ WriteNetwork \/ Verify \/ Commit \/ Fail

Undo == \/ Rollback \/ RestoreNetwork \/ SaveNetworkRestored
        \/ RestoreRegistry \/ RegistryRestored \/ RestoreMouse
        \/ SaveMouseRestored \/ RestoreActiveScheme \/ DeleteScheme
        \/ SavePowerRestored \/ Finish

Next == \/ \E op \in Operations : Begin(op)
        \/ Apply
        \/ \E b \in Backups : BeginRestore(b)
        \/ Undo
        \/ Crash

Spec == Init /\ [][Next]_vars

\* A running operation takes its steps, and the user goes on asking for a
\* restore while there is something to restore.
FairSpec == /\ Spec
            /\ WF_vars(Apply)
            /\ WF_vars(Undo)
            /\ WF_vars(\E b \in Backups : BeginRestore(b))
-----------------------------------------------------------------------------
(* Properties                                                              *)

Labels == {"idle", "journal", "duplicate", "activate", "journalPower",
           "registry", "writeRegistry", "mouse", "writeMouse", "network",
           "writeNetwork", "verify", "commit", "fail", "rollback",
           "restoreNetwork", "networkRestored", "restoreRegistry",
           "restoreMouse", "mouseRestored", "restorePower", "deleteScheme",
           "powerRestored", "finish"}

TypeOK == /\ reg \in [Keys -> Values]
          /\ mouse \in [MouseKeys -> Values]
          /\ net \in [Props -> Values]
          /\ active \in Guids
          /\ schemes \subseteq Guids
          /\ disk \in [Backups -> Journal \cup {NoJournal}]
          /\ ahead \in [Backups -> 0..SealSize]
          /\ pc \in Labels
          /\ cur \in Backups \cup {0}
          /\ tx \in Journal \cup {NoJournal}
          /\ step \in 0..NKeys
          /\ registryFailed \in BOOLEAN
          /\ problems \in BOOLEAN
          /\ issued \in 0..MaxOperations
          /\ before \in [Backups -> Machine \cup {NoJournal}]
          /\ ordered \in BOOLEAN
          /\ faults \in 0..MaxFaults

\* "capture exact state, seal backup, journal intent, apply" (README.md:36):
\* no step of an operation or a rollback changes a setting that the journal
\* on disk does not announce together with the value it had before the
\* operation.  Whenever the process dies, the next one can undo everything.
JournalBeforeMutation ==
    [][~UNCHANGED machine =>
          /\ disk[cur] # NoJournal
          /\ \A k \in Keys : reg'[k] # reg[k] =>
                /\ k \in Journalled(disk[cur])
                /\ disk[cur].registry[k] = before[cur].reg[k]
          /\ \A m \in MouseKeys : mouse'[m] # mouse[m] =>
                disk[cur].mouseApplied /\ disk[cur].mouse[m] = before[cur].mouse[m]
          /\ \A p \in Props : net'[p] # net[p] =>
                disk[cur].netApplied /\ disk[cur].network[p] = before[cur].net[p]
          /\ active' # active \/ schemes' # schemes =>
                disk[cur].powerApplied /\ disk[cur].previous = before[cur].active
      ]_machine

\* createPerformancePlanFromSettings / restorePowerPlan: a power scheme the
\* optimizer created never outlives its journal.  As long as it exists, a
\* backup that is not rolled back names it for deletion.
SchemeJournalled ==
    \A b \in Backups : b \in schemes =>
        Outstanding(b) /\ disk[b].powerApplied /\ HasCreated(disk[b])

\* rollbackBackup: as long as backups are restored newest first, the one that
\* becomes "rolled_back" leaves the whole machine as its operation found it,
\* whatever failed on the way and however often the rollback was interrupted
\* and repeated.
RestoreIsExact ==
    [][\A b \in Backups :
          ordered /\ Newest(b) /\ disk'[b].status = "rolled_back" =>
             [reg |-> reg, mouse |-> mouse, net |-> net,
              active |-> active, schemes |-> schemes]' = before[b]
      ]_disk

\* verifyApplied and the last save: with no operation running, the newest
\* outstanding backup says "applied" only while every setting it covers has
\* the optimized value, also after newer operations were undone.  A single
\* fault does not break this; a failed "rolling_back" save and a crash in the
\* same rollback do.
AppliedHolds ==
    \A b \in Backups :
        /\ pc = "idle" /\ faults <= 1 /\ ordered
        /\ Newest(b) /\ disk[b].status = "applied"
        => /\ \A k \in disk[b].op.keys : reg[k] = Optimized
           /\ \A m \in MouseTargets(disk[b].op) : mouse[m] = Optimized
           /\ \A p \in NetworkTargets(disk[b]) : net[p] = Optimized
           /\ disk[b].powerApplied => active = b

\* Nothing in the journal or on the machine makes restoreBackup refuse b.
Restorable(b) == /\ ValidShape(disk[b])
                 /\ PowerOrderOK(b)
                 /\ disk[b].powerApplied => disk[b].previous \in schemes

\* "SHA-256-sealed journal and retryable rollback" (BOOSTERX-COVERAGE.md:11):
\* as long as backups are restored newest first, nothing in the newest one
\* makes a restore refuse it, and the scheme it returns to exists.  Its seal
\* does not either after one fault; two saves in a row that stop between seal
\* and rename can push its digest out (JournalStaysRetryable of module
\* BackupSeal).
RollbackRetryable ==
    \A b \in Backups : pc = "idle" /\ ordered /\ Newest(b) =>
        /\ Restorable(b)
        /\ faults <= 1 => Trusted(b)

\* The faults end, and if the user goes on restoring the newest backup, every
\* backup is rolled back in the end, if its digest stays in its seal.
AllUndone == pc = "idle" /\ \A b \in Backups : ~Outstanding(b)
AllTrusted == \A b \in Backups : Trusted(b)
RollbackCompletes == [](ordered /\ AllTrusted) => <>[]AllUndone
=============================================================================
