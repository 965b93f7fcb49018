-------------------------- MODULE TransactionProofs --------------------------
(***************************************************************************)
(* For any catalogue, any values, any operations and any number of faults: *)
(* the types of the engine, the journal that never loses a power scheme    *)
(* the engine created, that is ahead of every change, and that takes the   *)
(* machine back exactly when it says so; and, with at most two faults, the *)
(* backup in which nothing makes a restore refuse it.                      *)
(***************************************************************************)
EXTENDS Transaction, TLAPS

-----------------------------------------------------------------------------
(* Journals                                                                *)

\* i is a journal of the same operation as j, with what it captured.
SameCapture(i, j) ==
    /\ i \in Journal
    /\ i.op = j.op /\ i.registry = j.registry /\ i.mouse = j.mouse
    /\ i.previous = j.previous /\ i.network = j.network

\* The journal has a value for everything the operation may change.
Captures(j) ==
    /\ \A k \in j.op.keys : j.registry[k] \in Values
    /\ MouseTargets(j.op) # {} => \A m \in MouseKeys : j.mouse[m] \in Values

LEMMA CapturesKept ==
    ASSUME NEW i, NEW j, SameCapture(i, j), Captures(j)
    PROVE  Captures(i)
BY DEF SameCapture, Captures

\* What an operation captures is a journal with all the values.
LEMMA CaptureIsJournal ==
    ASSUME NEW op \in Operation, TypeOK
    PROVE  /\ Capture(op) \in Journal
           /\ Captures(Capture(op))
           /\ Capture(op).op = op
           /\ Capture(op).status # "rolled_back"
           /\ Capture(op).powerApplied <=> op.power # "none"
<1> DEFINE targets == {p \in op.props : op.kind = "tweak" \/ net[p] # Optimized}
           whole == op.kind = "checkpoint"
<1>1. op.keys \subseteq Keys /\ op.props \subseteq Props
  BY DEF Operation
<1>2. [k \in Keys |-> IF k \in op.keys THEN reg[k] ELSE NotCaptured]
         \in [Keys -> Captured(Values)]
  BY DEF TypeOK, Captured
<1>3. [m \in MouseKeys |-> IF MouseTargets(op) # {} THEN mouse[m] ELSE NotCaptured]
         \in [MouseKeys -> Captured(Values)]
  BY DEF TypeOK, Captured
<1>4. [p \in Props |-> IF p \in targets THEN net[p] ELSE NotCaptured]
         \in [Props -> Captured(Values)]
  BY DEF TypeOK, Captured
<1>5. (IF op.power # "none" THEN active ELSE NoGuid) \in Guids \cup {NoGuid}
  BY DEF TypeOK
<1>6. (IF whole THEN "checkpoint" ELSE "prepared") \in Statuses
  BY DEF Statuses
<1>7. (IF whole THEN NKeys ELSE 0) \in 0..NKeys
  BY CountsAssumption
<1>8. Capture(op) \in Journal
  BY <1>2, <1>3, <1>4, <1>5, <1>6, <1>7 DEF Capture, Journal
<1>9. Captures(Capture(op))
  BY <1>1 DEF Capture, Captures, TypeOK
<1>10. QED
  BY <1>8, <1>9 DEF Capture

-----------------------------------------------------------------------------
(* Types                                                                   *)

\* A running operation works on a backup that was issued.
Running == pc # "idle" =>
    /\ cur \in Backups /\ cur <= issued
    /\ tx \in Journal /\ Captures(tx)

MouseStages == pc \in {"mouse", "writeMouse"} => MouseTargets(tx.op) # {}

\* So does every journal on disk.
DiskCaptures ==
    \A b \in Backups : disk[b] # NoJournal => Captures(disk[b]) /\ b <= issued

\* Each digest in front of that of a journal is a save that failed.
FewAhead == \A b \in Backups : ahead[b] <= faults

TInv == TypeOK /\ Running /\ MouseStages /\ DiskCaptures /\ FewAhead

\* A running operation ends, or keeps its backup and what it captured, and
\* only a closed journal makes a closed one.
Keeps ==
    /\ UNCHANGED <<issued, before, ordered>>
    /\ \/ pc' = "idle" /\ tx' = NoJournal /\ cur' = 0
       \/ /\ pc' # "idle" /\ cur' = cur /\ SameCapture(tx', tx)
          /\ tx'.status = "rolled_back" => tx.status = "rolled_back"
          /\ tx'.powerApplied => tx.powerApplied \/ HasCreated(tx)

\* What it saves is its own journal; it closes it only at the end of a
\* rollback without problems.
Saves ==
    \/ UNCHANGED disk
    \/ /\ disk' = [disk EXCEPT ![cur] = disk'[cur]]
       /\ SameCapture(disk'[cur], tx)
       /\ disk'[cur].powerApplied = tx.powerApplied
       /\ disk'[cur].status = "rolled_back" =>
             tx.status = "rolled_back" \/ (pc = "finish" /\ ~problems)

Counters == /\ pc \in Labels
            /\ step \in 0..NKeys
            /\ issued \in 0..MaxOperations
            /\ faults \in 0..MaxFaults

Flags == registryFailed \in BOOLEAN /\ problems \in BOOLEAN

MachineOK == /\ reg \in [Keys -> Values]
             /\ mouse \in [MouseKeys -> Values]
             /\ net \in [Props -> Values]
             /\ active \in Guids
             /\ schemes \subseteq Guids

\* Every step of a running operation keeps the captured values in memory.
LEMMA KeepsStep ==
    ASSUME TInv, pc # "idle", [Next]_vars
    PROVE  Keeps
<1> USE DEF history, local, vars, Keeps
<1>a. tx \in Journal
  BY DEF TInv, Running
<1>b. SameCapture(tx, tx)
  BY <1>a DEF SameCapture
<1>c. ASSUME NEW v \in BOOLEAN
      PROVE  /\ SameCapture([tx EXCEPT !.settings = v], tx)
             /\ [tx EXCEPT !.settings = v].status = tx.status
             /\ [tx EXCEPT !.settings = v].powerApplied = tx.powerApplied
             /\ SameCapture([tx EXCEPT !.powerApplied = v], tx)
             /\ [tx EXCEPT !.powerApplied = v].status = tx.status
             /\ [tx EXCEPT !.powerApplied = v].powerApplied = v
             /\ SameCapture([tx EXCEPT !.mouseApplied = v], tx)
             /\ [tx EXCEPT !.mouseApplied = v].status = tx.status
             /\ [tx EXCEPT !.mouseApplied = v].powerApplied = tx.powerApplied
             /\ SameCapture([tx EXCEPT !.netApplied = v], tx)
             /\ [tx EXCEPT !.netApplied = v].status = tx.status
             /\ [tx EXCEPT !.netApplied = v].powerApplied = tx.powerApplied
             /\ SameCapture([tx EXCEPT !.applied = 0], tx)
             /\ [tx EXCEPT !.applied = 0].status = tx.status
             /\ [tx EXCEPT !.applied = 0].powerApplied = tx.powerApplied
  BY <1>a, CountsAssumption DEF SameCapture, Journal
<1>d. ASSUME NEW s \in Statuses
      PROVE  /\ SameCapture([tx EXCEPT !.status = s], tx)
             /\ [tx EXCEPT !.status = s].status = s
             /\ [tx EXCEPT !.status = s].powerApplied = tx.powerApplied
  BY <1>a DEF SameCapture, Journal
<1>e. ASSUME NEW n \in 0..NKeys
      PROVE  /\ SameCapture([tx EXCEPT !.applied = n], tx)
             /\ [tx EXCEPT !.applied = n].status = tx.status
             /\ [tx EXCEPT !.applied = n].powerApplied = tx.powerApplied
  BY <1>a DEF SameCapture, Journal
<1> USE <1>b, <1>c, <1>d
<1>1. ASSUME NEW op \in Operations, Begin(op) PROVE Keeps
  BY <1>1 DEF Begin
<1>2. CASE WriteJournal
  BY <1>2 DEF WriteJournal, Goto, Return, AfterJournal, AfterPower, AfterRegistry,
     AfterMouse
<1>3. CASE DuplicateScheme
  BY <1>3 DEF DuplicateScheme, Goto
<1>4. CASE ActivateScheme
  BY <1>4 DEF ActivateScheme, Goto
<1>5. CASE JournalPower
  BY <1>5 DEF JournalPower, Goto, AfterPower, AfterRegistry, AfterMouse
<1>6. CASE JournalRegistry
  <2>1. PICK k \in Keys : NextKey(k) /\ tx' = [tx EXCEPT !.applied = k]
    BY <1>6 DEF JournalRegistry
  <2>2. SameCapture(tx', tx) /\ tx'.status = tx.status /\ tx'.powerApplied = tx.powerApplied
    <3>1. k \in 0..NKeys
      BY CountsAssumption DEF Keys
    <3>2. QED
      BY <1>e, <2>1, <3>1
  <2>3. cur' = cur /\ pc' # "idle" /\ UNCHANGED <<issued, before, ordered>>
    BY <1>6 DEF JournalRegistry, Goto
  <2>4. QED
    BY <2>2, <2>3
<1>7. CASE WriteRegistry
  BY <1>7 DEF WriteRegistry, Goto, AfterRegistry, AfterMouse
<1>8. CASE JournalMouse
  BY <1>8 DEF JournalMouse, Goto
<1>9. CASE WriteMouse
  BY <1>9 DEF WriteMouse, Goto, AfterMouse
<1>10. CASE JournalNetwork
  BY <1>10 DEF JournalNetwork, Goto
<1>11. CASE WriteNetwork
  BY <1>11 DEF WriteNetwork, Goto
<1>12. CASE Verify
  BY <1>12 DEF Verify, Goto
<1>13. CASE Commit
  BY <1>13 DEF Commit, Goto, Return, Statuses
<1>14. CASE Fail
  BY <1>14 DEF Fail, Goto, Statuses
<1>15. CASE Rollback
  BY <1>15 DEF Rollback, Goto, Statuses
<1>16. CASE RestoreNetwork
  BY <1>16 DEF RestoreNetwork, Goto
<1>17. CASE SaveNetworkRestored
  BY <1>17 DEF SaveNetworkRestored, Goto
<1>18. CASE RestoreRegistry
  BY <1>18 DEF RestoreRegistry
<1>19. CASE RegistryRestored
  BY <1>19 DEF RegistryRestored, Goto, AfterMouseRestore
<1>20. CASE RestoreMouse
  BY <1>20 DEF RestoreMouse, Goto, AfterMouseRestore
<1>21. CASE SaveMouseRestored
  BY <1>21 DEF SaveMouseRestored, Goto, AfterMouseRestore
<1>22. CASE RestoreActiveScheme
  BY <1>22 DEF RestoreActiveScheme, Goto, HasCreated
<1>23. CASE DeleteScheme
  BY <1>23 DEF DeleteScheme, Goto
<1>24. CASE SavePowerRestored
  BY <1>24 DEF SavePowerRestored, Goto
<1>25. CASE Finish
  BY <1>25 DEF Finish, Return
<1>26. ASSUME NEW b \in Backups, BeginRestore(b) PROVE Keeps
  BY <1>26 DEF BeginRestore
<1>27. CASE Crash
  BY <1>27 DEF Crash, Return
<1>28. CASE UNCHANGED vars
  BY <1>28
<1>29. QED
  BY <1>1, <1>2, <1>3, <1>4, <1>5, <1>6, <1>7, <1>8, <1>9, <1>10, <1>11,
     <1>12, <1>13, <1>14, <1>15, <1>16, <1>17, <1>18, <1>19, <1>20, <1>21, <1>22,
     <1>23, <1>24, <1>25, <1>26, <1>27, <1>28
     DEF Next, Apply, Undo

\* Every save writes the journal of the running operation.
LEMMA SavesStep ==
    ASSUME TInv, pc # "idle", [Next]_vars
    PROVE  Saves
<1> USE NoJournalAssumption, CountsAssumption
   DEF Saves, SameCapture, Journal, Statuses, Running, TInv, TypeOK
<1>1. ASSUME NEW op \in Operations, Begin(op) PROVE Saves
  BY <1>1 DEF Begin
<1>2. CASE WriteJournal
  BY <1>2 DEF WriteJournal, Saved, Replaced, SaveFailed
<1>3. CASE DuplicateScheme
  BY <1>3 DEF DuplicateScheme
<1>4. CASE ActivateScheme
  BY <1>4 DEF ActivateScheme
<1>5. CASE JournalPower
  BY <1>5 DEF JournalPower, Saved, Replaced, SaveFailed
<1>6. CASE JournalRegistry
  <2>1. PICK k \in Keys : NextKey(k) /\ tx' = [tx EXCEPT !.applied = k]
    BY <1>6 DEF JournalRegistry
  <2>2. SameCapture(tx', tx) /\ tx'.status = tx.status /\ tx'.powerApplied = tx.powerApplied
    <3>1. k \in 0..NKeys
      BY CountsAssumption DEF Keys
    <3>2. QED
      BY <2>1, <3>1
  <2>3. disk' = disk \/ disk' = [disk EXCEPT ![cur] = tx']
    BY <1>6 DEF JournalRegistry, Saved, Replaced, SaveFailed
  <2>4. QED
    BY <2>2, <2>3
<1>7. CASE WriteRegistry
  BY <1>7 DEF WriteRegistry
<1>8. CASE JournalMouse
  <2>1. SameCapture(tx', tx) /\ tx'.status = tx.status /\ tx'.powerApplied = tx.powerApplied
    BY <1>8 DEF JournalMouse
  <2>2. disk' = disk \/ disk' = [disk EXCEPT ![cur] = tx']
    BY <1>8 DEF JournalMouse, Saved, Replaced, SaveFailed
  <2>3. QED
    BY <2>1, <2>2
<1>9. CASE WriteMouse
  BY <1>9 DEF WriteMouse
<1>10. CASE JournalNetwork
  <2>1. SameCapture(tx', tx) /\ tx'.status = tx.status /\ tx'.powerApplied = tx.powerApplied
    BY <1>10 DEF JournalNetwork
  <2>2. disk' = disk \/ disk' = [disk EXCEPT ![cur] = tx']
    BY <1>10 DEF JournalNetwork, Saved, Replaced, SaveFailed
  <2>3. QED
    BY <2>1, <2>2
<1>11. CASE WriteNetwork
  BY <1>11 DEF WriteNetwork
<1>12. CASE Verify
  BY <1>12 DEF Verify
<1>13. CASE Commit
  BY <1>13 DEF Commit, Saved, Replaced, SaveFailed
<1>14. CASE Fail
  BY <1>14 DEF Fail, Saved, Replaced, SaveFailed
<1>15. CASE Rollback
  BY <1>15 DEF Rollback, SaveAndNote, Saved, Replaced, SaveFailed
<1>16. CASE RestoreNetwork
  BY <1>16 DEF RestoreNetwork
<1>17. CASE SaveNetworkRestored
  BY <1>17 DEF SaveNetworkRestored, SaveAndNote, Saved, Replaced, SaveFailed
<1>18. CASE RestoreRegistry
  BY <1>18 DEF RestoreRegistry
<1>19. CASE RegistryRestored
  BY <1>19 DEF RegistryRestored, SaveAndNote, Saved, Replaced, SaveFailed
<1>20. CASE RestoreMouse
  BY <1>20 DEF RestoreMouse
<1>21. CASE SaveMouseRestored
  BY <1>21 DEF SaveMouseRestored, SaveAndNote, Saved, Replaced, SaveFailed
<1>22. CASE RestoreActiveScheme
  BY <1>22 DEF RestoreActiveScheme
<1>23. CASE DeleteScheme
  BY <1>23 DEF DeleteScheme
<1>24. CASE SavePowerRestored
  BY <1>24 DEF SavePowerRestored, SaveAndNote, Saved, Replaced, SaveFailed
<1>25. CASE Finish
  BY <1>25 DEF Finish, Saved, Replaced, SaveFailed
<1>26. ASSUME NEW b \in Backups, BeginRestore(b) PROVE Saves
  BY <1>26 DEF BeginRestore
<1>27. CASE Crash
  BY <1>27 DEF Crash
<1>28. CASE UNCHANGED vars
  BY <1>28 DEF vars
<1>29. QED
  BY <1>1, <1>2, <1>3, <1>4, <1>5, <1>6, <1>7, <1>8, <1>9, <1>10, <1>11,
     <1>12, <1>13, <1>14, <1>15, <1>16, <1>17, <1>18, <1>19, <1>20, <1>21, <1>22,
     <1>23, <1>24, <1>25, <1>26, <1>27, <1>28
     DEF Next, Apply, Undo

\* Counters stay within their bounds and labels are labels.
LEMMA CountersStep ==
    ASSUME TInv, [Next]_vars
    PROVE  Counters'
<1> USE CountsAssumption DEF Counters, Labels, Journal, Running, TInv, TypeOK
<1>1. ASSUME NEW op \in Operations, Begin(op) PROVE Counters'
  BY <1>1 DEF Begin, Goto
<1>2. CASE WriteJournal
  BY <1>2 DEF WriteJournal, Saved, Replaced, SaveFailed, Fault, Goto, Return, AfterJournal,
     AfterPower, AfterRegistry, AfterMouse, local
<1>3. CASE DuplicateScheme
  BY <1>3 DEF DuplicateScheme, Fault, Goto, local
<1>4. CASE ActivateScheme
  BY <1>4 DEF ActivateScheme, Fault, Goto, local
<1>5. CASE JournalPower
  BY <1>5 DEF JournalPower, Saved, Replaced, SaveFailed, Fault, Goto, AfterPower, AfterRegistry,
     AfterMouse, local
<1>6. CASE JournalRegistry
  BY <1>6 DEF JournalRegistry, Saved, Replaced, SaveFailed, Fault, Goto, local
<1>7. CASE WriteRegistry
  BY <1>7 DEF WriteRegistry, Fault, Goto, AfterRegistry, AfterMouse, local
<1>8. CASE JournalMouse
  BY <1>8 DEF JournalMouse, Saved, Replaced, SaveFailed, Fault, Goto, local
<1>9. CASE WriteMouse
  BY <1>9 DEF WriteMouse, Fault, Goto, AfterMouse, local
<1>10. CASE JournalNetwork
  BY <1>10 DEF JournalNetwork, Saved, Replaced, SaveFailed, Fault, Goto, local
<1>11. CASE WriteNetwork
  BY <1>11 DEF WriteNetwork, Fault, Goto, local
<1>12. CASE Verify
  BY <1>12 DEF Verify, Fault, Goto, local
<1>13. CASE Commit
  BY <1>13 DEF Commit, Saved, Replaced, SaveFailed, Fault, Goto, Return, local
<1>14. CASE Fail
  BY <1>14 DEF Fail, Saved, Replaced, SaveFailed, Fault, Goto
<1>15. CASE Rollback
  BY <1>15 DEF Rollback, SaveAndNote, Saved, Replaced, SaveFailed, Fault, Goto
<1>16. CASE RestoreNetwork
  BY <1>16 DEF RestoreNetwork, Fault, Goto
<1>17. CASE SaveNetworkRestored
  BY <1>17 DEF SaveNetworkRestored, SaveAndNote, Saved, Replaced, SaveFailed, Fault, Goto
<1>18. CASE RestoreRegistry
  <2>1. PICK k \in Remaining : step' = k - 1
    BY <1>18 DEF RestoreRegistry
  <2>2. k \in 1..NKeys
    BY <1>18, <2>1 DEF RestoreRegistry, Remaining, Journalled, Operation, Keys
  <2>3. step' \in 0..NKeys
    BY <2>1, <2>2, CountsAssumption
  <2>4. pc' \in Labels /\ issued' \in 0..MaxOperations
    BY <1>18 DEF RestoreRegistry
  <2>5. faults' \in 0..MaxFaults
    BY <1>18, CountsAssumption DEF RestoreRegistry, Fault
  <2>6. QED
    BY <2>3, <2>4, <2>5
<1>19. CASE RegistryRestored
  BY <1>19 DEF RegistryRestored, SaveAndNote, Saved, Replaced, SaveFailed, Fault, Goto,
     AfterMouseRestore
<1>20. CASE RestoreMouse
  BY <1>20 DEF RestoreMouse, Fault, Goto, AfterMouseRestore
<1>21. CASE SaveMouseRestored
  BY <1>21 DEF SaveMouseRestored, SaveAndNote, Saved, Replaced, SaveFailed, Fault, Goto,
     AfterMouseRestore
<1>22. CASE RestoreActiveScheme
  BY <1>22 DEF RestoreActiveScheme, Fault, Goto
<1>23. CASE DeleteScheme
  BY <1>23 DEF DeleteScheme, Fault, Goto
<1>24. CASE SavePowerRestored
  BY <1>24 DEF SavePowerRestored, SaveAndNote, Saved, Replaced, SaveFailed, Fault, Goto
<1>25. CASE Finish
  BY <1>25 DEF Finish, Saved, Replaced, SaveFailed, Fault, Return
<1>26. ASSUME NEW b \in Backups, BeginRestore(b) PROVE Counters'
  BY <1>26 DEF BeginRestore, Goto
<1>27. CASE Crash
  BY <1>27 DEF Crash, Fault, Return
<1>28. CASE UNCHANGED vars
  BY <1>28 DEF vars, local
<1>29. QED
  BY <1>1, <1>2, <1>3, <1>4, <1>5, <1>6, <1>7, <1>8, <1>9, <1>10, <1>11,
     <1>12, <1>13, <1>14, <1>15, <1>16, <1>17, <1>18, <1>19, <1>20, <1>21, <1>22,
     <1>23, <1>24, <1>25, <1>26, <1>27, <1>28
     DEF Next, Apply, Undo

\* Flags stay Boolean.
LEMMA FlagsStep ==
    ASSUME TInv, [Next]_vars
    PROVE  Flags'
<1> USE DEF Flags, TInv, TypeOK
<1>1. ASSUME NEW op \in Operations, Begin(op) PROVE Flags'
  BY <1>1 DEF Begin
<1>2. CASE WriteJournal
  BY <1>2 DEF WriteJournal, Return, local
<1>3. CASE DuplicateScheme
  BY <1>3 DEF DuplicateScheme, local
<1>4. CASE ActivateScheme
  BY <1>4 DEF ActivateScheme, local
<1>5. CASE JournalPower
  BY <1>5 DEF JournalPower, local
<1>6. CASE JournalRegistry
  BY <1>6 DEF JournalRegistry, local
<1>7. CASE WriteRegistry
  BY <1>7 DEF WriteRegistry, local
<1>8. CASE JournalMouse
  BY <1>8 DEF JournalMouse, local
<1>9. CASE WriteMouse
  BY <1>9 DEF WriteMouse, local
<1>10. CASE JournalNetwork
  BY <1>10 DEF JournalNetwork, local
<1>11. CASE WriteNetwork
  BY <1>11 DEF WriteNetwork, local
<1>12. CASE Verify
  BY <1>12 DEF Verify, local
<1>13. CASE Commit
  BY <1>13 DEF Commit, Return, local
<1>14. CASE Fail
  BY <1>14 DEF Fail
<1>15. CASE Rollback
  BY <1>15 DEF Rollback, SaveAndNote
<1>16. CASE RestoreNetwork
  BY <1>16 DEF RestoreNetwork
<1>17. CASE SaveNetworkRestored
  BY <1>17 DEF SaveNetworkRestored, SaveAndNote
<1>18. CASE RestoreRegistry
  BY <1>18 DEF RestoreRegistry
<1>19. CASE RegistryRestored
  BY <1>19 DEF RegistryRestored, SaveAndNote
<1>20. CASE RestoreMouse
  BY <1>20 DEF RestoreMouse
<1>21. CASE SaveMouseRestored
  BY <1>21 DEF SaveMouseRestored, SaveAndNote
<1>22. CASE RestoreActiveScheme
  BY <1>22 DEF RestoreActiveScheme
<1>23. CASE DeleteScheme
  BY <1>23 DEF DeleteScheme
<1>24. CASE SavePowerRestored
  BY <1>24 DEF SavePowerRestored, SaveAndNote
<1>25. CASE Finish
  BY <1>25 DEF Finish, Return
<1>26. ASSUME NEW b \in Backups, BeginRestore(b) PROVE Flags'
  BY <1>26 DEF BeginRestore
<1>27. CASE Crash
  BY <1>27 DEF Crash, Return
<1>28. CASE UNCHANGED vars
  BY <1>28 DEF vars, local
<1>29. QED
  BY <1>1, <1>2, <1>3, <1>4, <1>5, <1>6, <1>7, <1>8, <1>9, <1>10, <1>11,
     <1>12, <1>13, <1>14, <1>15, <1>16, <1>17, <1>18, <1>19, <1>20, <1>21, <1>22,
     <1>23, <1>24, <1>25, <1>26, <1>27, <1>28
     DEF Next, Apply, Undo

\* What a step writes to the machine is a value of its type: Optimized, or a
\* value the journal captured.
LEMMA MachineStep ==
    ASSUME TInv, [Next]_vars
    PROVE  MachineOK'
<1>1. CASE DuplicateScheme
  BY <1>1, ValuesAssumption DEF DuplicateScheme, MachineOK, TInv, TypeOK, Running, Guids
<1>2. CASE ActivateScheme
  BY <1>2, ValuesAssumption DEF ActivateScheme, MachineOK, TInv, TypeOK, Running, Guids
<1>3. CASE WriteRegistry
  BY <1>3, ValuesAssumption DEF WriteRegistry, MachineOK, TInv, TypeOK
<1>4. CASE WriteMouse
  BY <1>4, ValuesAssumption DEF WriteMouse, MachineOK, TInv, TypeOK, Running, Captures,
     MouseStages
<1>5. CASE WriteNetwork
  BY <1>5, ValuesAssumption DEF WriteNetwork, MachineOK, TInv, TypeOK
<1>6. CASE RestoreNetwork
  BY <1>6, ValuesAssumption DEF RestoreNetwork, MachineOK, TInv, TypeOK, Running,
     NetworkTargets, Journal, Captured
<1>7. CASE RestoreRegistry
  BY <1>7, ValuesAssumption DEF RestoreRegistry, Remaining, Journalled, MachineOK, TInv,
     TypeOK, Running, Captures
<1>8. CASE RestoreMouse
  BY <1>8, ValuesAssumption DEF RestoreMouse, MouseBack, MachineOK, TInv, TypeOK, Running,
     Captures
<1>9. CASE RestoreActiveScheme
  BY <1>9, ValuesAssumption DEF RestoreActiveScheme, MachineOK, TInv, TypeOK
<1>10. CASE DeleteScheme
  BY <1>10, ValuesAssumption DEF DeleteScheme, MachineOK, TInv, TypeOK
<1>11. CASE (\E op \in Operations : Begin(op)) \/ (\E j \in Backups : BeginRestore(j))
  BY <1>11 DEF Begin, BeginRestore, machine, MachineOK, TInv, TypeOK
<1>12. CASE \/ WriteJournal
           \/ JournalPower
           \/ JournalRegistry
           \/ JournalMouse
           \/ JournalNetwork
           \/ Verify
           \/ Commit
  BY <1>12 DEF WriteJournal, JournalPower, JournalRegistry, JournalMouse, JournalNetwork,
     Verify, Commit, machine, MachineOK, TInv, TypeOK
<1>13. CASE \/ Fail
           \/ Rollback
           \/ SaveNetworkRestored
           \/ RegistryRestored
           \/ SaveMouseRestored
           \/ SavePowerRestored
           \/ Finish
           \/ Crash
  BY <1>13 DEF Fail, Rollback, SaveNetworkRestored, RegistryRestored, SaveMouseRestored,
     SavePowerRestored, Finish, Crash, machine, MachineOK, TInv, TypeOK
<1>14. CASE UNCHANGED vars
  BY <1>14 DEF vars, machine, MachineOK, TInv, TypeOK
<1>15. QED
  BY <1>1, <1>2, <1>3, <1>4, <1>5, <1>6, <1>7, <1>8, <1>9, <1>10, <1>11,
     <1>12, <1>13, <1>14
     DEF Next, Apply, Undo


\* Only a new operation or a restore starts from an idle engine.
LEMMA IdleStep ==
    ASSUME pc = "idle", [Next]_vars
    PROVE  \/ \E op \in Operations : Begin(op)
           \/ \E b \in Backups : BeginRestore(b)
           \/ UNCHANGED vars
BY DEF Next, Apply, Undo, WriteJournal, DuplicateScheme, ActivateScheme, JournalPower,
   JournalRegistry, WriteRegistry, JournalMouse, WriteMouse, JournalNetwork, WriteNetwork,
   Verify, Commit, Fail, Rollback, RestoreNetwork, SaveNetworkRestored, RestoreRegistry,
   RegistryRestored, RestoreMouse, SaveMouseRestored, RestoreActiveScheme, DeleteScheme,
   SavePowerRestored, Finish, Crash

\* The journals in memory and on disk stay journals with all their values.
LEMMA JournalsStep ==
    ASSUME TInv, [Next]_vars
    PROVE  /\ Running' /\ DiskCaptures'
           /\ disk' \in [Backups -> Journal \cup {NoJournal}]
           /\ tx' \in Journal \cup {NoJournal}
           /\ cur' \in Backups \cup {0}
           /\ before' \in [Backups -> Machine \cup {NoJournal}]
           /\ ordered' \in BOOLEAN
<1> USE DEF TInv, TypeOK
<1>1. ASSUME NEW op \in Operations, Begin(op) PROVE
           /\ Running' /\ DiskCaptures'
           /\ disk' \in [Backups -> Journal \cup {NoJournal}]
           /\ tx' \in Journal \cup {NoJournal}
           /\ cur' \in Backups \cup {0}
           /\ before' \in [Backups -> Machine \cup {NoJournal}]
           /\ ordered' \in BOOLEAN
  <2>1. op \in Operation
    BY OperationsAssumption
  <2>2. tx' \in Journal /\ Captures(tx')
    BY <1>1, <2>1, CaptureIsJournal DEF Begin
  <2>3. cur' \in Backups /\ cur' <= issued' /\ issued <= issued' /\ issued' \in Nat
    BY <1>1, CountsAssumption DEF Begin, Backups
  <2>4. Running'
    BY <2>2, <2>3 DEF Running
  <2>5. DiskCaptures'
    BY <1>1, <2>3, CountsAssumption DEF Begin, DiskCaptures
  <2>6. [reg |-> reg, mouse |-> mouse, net |-> net,
         active |-> active, schemes |-> schemes] \in Machine
    BY DEF Machine
  <2>7. before' \in [Backups -> Machine \cup {NoJournal}]
    BY <1>1, <2>6 DEF Begin
  <2>8. QED
    BY <1>1, <2>2, <2>3, <2>4, <2>5, <2>7 DEF Begin
<1>2. ASSUME NEW b \in Backups, BeginRestore(b) PROVE
           /\ Running' /\ DiskCaptures'
           /\ disk' \in [Backups -> Journal \cup {NoJournal}]
           /\ tx' \in Journal \cup {NoJournal}
           /\ cur' \in Backups \cup {0}
           /\ before' \in [Backups -> Machine \cup {NoJournal}]
           /\ ordered' \in BOOLEAN
  <2>1. disk[b] \in Journal /\ Captures(disk[b]) /\ b <= issued
    BY <1>2 DEF BeginRestore, Outstanding, DiskCaptures
  <2>2. Running'
    BY <1>2, <2>1 DEF BeginRestore, Running
  <2>3. DiskCaptures'
    BY <1>2 DEF BeginRestore, DiskCaptures
  <2>4. ordered' \in BOOLEAN
    BY <1>2 DEF BeginRestore
  <2>5. QED
    BY <1>2, <2>1, <2>2, <2>3, <2>4 DEF BeginRestore
<1>3. CASE pc # "idle"
  <2>1. cur \in Backups /\ cur <= issued /\ tx \in Journal /\ Captures(tx)
    BY <1>3 DEF Running
  <2>2. Keeps /\ Saves
    BY <1>3, KeepsStep, SavesStep
  <2>3. Running' /\ tx' \in Journal \cup {NoJournal} /\ cur' \in Backups \cup {0}
    <3>1. CASE pc' = "idle" /\ tx' = NoJournal /\ cur' = 0
      BY <3>1 DEF Running
    <3>2. CASE pc' # "idle" /\ cur' = cur /\ SameCapture(tx', tx)
      <4>1. Captures(tx') /\ tx' \in Journal
        BY <2>1, <3>2, CapturesKept DEF SameCapture
      <4>2. QED
        BY <2>1, <2>2, <3>2, <4>1 DEF Running, Keeps
    <3>3. QED
      BY <2>2, <3>1, <3>2 DEF Keeps
  <2>4. DiskCaptures' /\ disk' \in [Backups -> Journal \cup {NoJournal}]
    <3>1. CASE UNCHANGED disk
      BY <2>2, <3>1 DEF DiskCaptures, Keeps
    <3>2. CASE /\ disk' = [disk EXCEPT ![cur] = disk'[cur]]
               /\ SameCapture(disk'[cur], tx)
      <4>1. disk'[cur] \in Journal /\ Captures(disk'[cur])
        BY <2>1, <3>2, CapturesKept DEF SameCapture
      <4>2. disk' \in [Backups -> Journal \cup {NoJournal}]
        BY <2>1, <3>2, <4>1
      <4>3. \A b \in Backups : b # cur => disk'[b] = disk[b]
        BY <3>2
      <4>4. DiskCaptures'
        BY <2>1, <2>2, <4>1, <4>3 DEF DiskCaptures, Keeps
      <4>5. QED
        BY <4>2, <4>4
    <3>3. QED
      BY <2>2, <3>1, <3>2 DEF Saves
  <2>5. QED
    BY <2>2, <2>3, <2>4 DEF Keeps
<1>4. CASE UNCHANGED vars
  BY <1>4 DEF vars, history, local, Running, DiskCaptures
<1>5. QED
  BY <1>1, <1>2, <1>3, <1>4, IdleStep

\* The mouse stages are entered only by an operation with a mouse target.
LEMMA MouseStagesStep ==
    ASSUME TInv, [Next]_vars
    PROVE  MouseStages'
<1> USE NoJournalAssumption DEF MouseStages, Journal, Running, TInv, TypeOK
<1>1. ASSUME NEW op \in Operations, Begin(op) PROVE MouseStages'
  BY <1>1 DEF Begin, Goto
<1>2. CASE WriteJournal
  BY <1>2 DEF WriteJournal, Goto, Return, AfterJournal, AfterPower, AfterRegistry,
     AfterMouse
<1>3. CASE DuplicateScheme
  BY <1>3 DEF DuplicateScheme, Goto
<1>4. CASE ActivateScheme
  BY <1>4 DEF ActivateScheme, Goto
<1>5. CASE JournalPower
  BY <1>5 DEF JournalPower, Goto, AfterPower, AfterRegistry, AfterMouse
<1>6. CASE JournalRegistry
  BY <1>6 DEF JournalRegistry, Goto
<1>7. CASE WriteRegistry
  BY <1>7 DEF WriteRegistry, Goto, AfterRegistry, AfterMouse
<1>8. CASE JournalMouse
  BY <1>8 DEF JournalMouse
<1>9. CASE WriteMouse
  BY <1>9 DEF WriteMouse
<1>10. CASE JournalNetwork
  BY <1>10 DEF JournalNetwork, Goto
<1>11. CASE WriteNetwork
  BY <1>11 DEF WriteNetwork, Goto
<1>12. CASE Verify
  BY <1>12 DEF Verify, Goto
<1>13. CASE Commit
  BY <1>13 DEF Commit, Goto, Return
<1>14. CASE Fail
  BY <1>14 DEF Fail, Goto
<1>15. CASE Rollback
  BY <1>15 DEF Rollback, Goto
<1>16. CASE RestoreNetwork
  BY <1>16 DEF RestoreNetwork, Goto
<1>17. CASE SaveNetworkRestored
  BY <1>17 DEF SaveNetworkRestored, Goto
<1>18. CASE RestoreRegistry
  BY <1>18 DEF RestoreRegistry
<1>19. CASE RegistryRestored
  BY <1>19 DEF RegistryRestored, Goto, AfterMouseRestore
<1>20. CASE RestoreMouse
  BY <1>20 DEF RestoreMouse, Goto, AfterMouseRestore
<1>21. CASE SaveMouseRestored
  BY <1>21 DEF SaveMouseRestored, Goto, AfterMouseRestore
<1>22. CASE RestoreActiveScheme
  BY <1>22 DEF RestoreActiveScheme, Goto
<1>23. CASE DeleteScheme
  BY <1>23 DEF DeleteScheme, Goto
<1>24. CASE SavePowerRestored
  BY <1>24 DEF SavePowerRestored, Goto
<1>25. CASE Finish
  BY <1>25 DEF Finish, Return
<1>26. ASSUME NEW b \in Backups, BeginRestore(b) PROVE MouseStages'
  BY <1>26 DEF BeginRestore, Goto
<1>27. CASE Crash
  BY <1>27 DEF Crash, Return
<1>28. CASE UNCHANGED vars
  BY <1>28 DEF vars
<1>29. QED
  BY <1>1, <1>2, <1>3, <1>4, <1>5, <1>6, <1>7, <1>8, <1>9, <1>10, <1>11,
     <1>12, <1>13, <1>14, <1>15, <1>16, <1>17, <1>18, <1>19, <1>20, <1>21, <1>22,
     <1>23, <1>24, <1>25, <1>26, <1>27, <1>28
     DEF Next, Apply, Undo

\* A step of the seal of the running operation: the digest of the file comes
\* first, or a fault has moved it back.
AheadMoves ==
    /\ faults' \in {faults, faults + 1}
    /\ \/ ahead' = ahead
       \/ \E place \in 0..SealSize :
            /\ ahead' = [ahead EXCEPT ![cur] = place]
            /\ place = 0 \/ (faults' = faults + 1 /\ place <= ahead[cur] + 1)

LEMMA SealRests ==
    ASSUME ahead' = ahead, faults' = faults \/ faults' = faults + 1
    PROVE  AheadMoves
BY DEF AheadMoves

LEMMA SavedMoves ==
    ASSUME NEW j, Saved(j)
    PROVE  AheadMoves
BY DEF AheadMoves, Saved, Replaced, SealSize

LEMMA SealMovesBack ==
    ASSUME ahead \in [Backups -> 0..SealSize], cur \in Backups, SealMoves,
           faults' = faults + 1
    PROVE  AheadMoves
<1>1. PICK place \in {0, ahead[cur], ahead[cur] + 1} :
          place <= SealSize /\ ahead' = [ahead EXCEPT ![cur] = place]
  BY DEF SealMoves
<1>2. ahead[cur] \in 0..SealSize
  OBVIOUS
<1>3. place \in 0..SealSize /\ place <= ahead[cur] + 1
  BY <1>1, <1>2 DEF SealSize
<1>4. QED
  BY <1>1, <1>3 DEF AheadMoves

LEMMA SaveFailedMoves ==
    ASSUME NEW j, SaveFailed(j), ahead \in [Backups -> 0..SealSize], cur \in Backups
    PROVE  AheadMoves
<1>1. faults' = faults + 1
  BY DEF SaveFailed, Fault
<1>2. CASE Replaced(j)
  BY <1>1, <1>2 DEF AheadMoves, Replaced, SealSize
<1>3. CASE SealMoves
  BY <1>1, <1>3, SealMovesBack
<1>4. QED
  BY <1>2, <1>3 DEF SaveFailed

\* What the seal of a journal loses, it loses to faults.
LEMMA AheadMovesStep ==
    ASSUME TInv, [Next]_vars
    PROVE  AheadMoves
<1>a. ahead \in [Backups -> 0..SealSize] /\ faults \in Nat
  BY CountsAssumption DEF TInv, TypeOK
<1>b. pc # "idle" => cur \in Backups
  BY DEF TInv, Running
<1>c. ASSUME NEW j, pc # "idle", Saved(j) \/ SaveFailed(j)
      PROVE  AheadMoves
  BY <1>a, <1>b, <1>c, SavedMoves, SaveFailedMoves
<1> USE DEF machine, local, history
<1>1. ASSUME NEW op \in Operations, Begin(op) PROVE AheadMoves
  BY <1>1, SealRests DEF Begin
<1>2. CASE WriteJournal
  BY <1>2, <1>c DEF WriteJournal
<1>3. CASE DuplicateScheme
  BY <1>3, SealRests DEF DuplicateScheme, Fault
<1>4. CASE ActivateScheme
  BY <1>4, SealRests DEF ActivateScheme, Fault
<1>5. CASE JournalPower
  BY <1>5, <1>c DEF JournalPower
<1>6. CASE JournalRegistry
  BY <1>6, <1>c DEF JournalRegistry
<1>7. CASE WriteRegistry
  BY <1>7, SealRests DEF WriteRegistry, Fault
<1>8. CASE JournalMouse
  BY <1>8, <1>c DEF JournalMouse
<1>9. CASE WriteMouse
  BY <1>9, SealRests DEF WriteMouse, Fault
<1>10. CASE JournalNetwork
  BY <1>10, <1>c DEF JournalNetwork
<1>11. CASE WriteNetwork
  BY <1>11, SealRests DEF WriteNetwork, Fault
<1>12. CASE Verify
  BY <1>12, SealRests DEF Verify, Fault
<1>13. CASE Commit
  BY <1>13, <1>c DEF Commit
<1>14. CASE Fail
  BY <1>14, <1>c DEF Fail
<1>15. CASE Rollback
  BY <1>15, <1>c DEF Rollback, SaveAndNote
<1>16. CASE RestoreNetwork
  BY <1>16, SealRests DEF RestoreNetwork, Fault
<1>17. CASE SaveNetworkRestored
  BY <1>17, <1>c DEF SaveNetworkRestored, SaveAndNote
<1>18. CASE RestoreRegistry
  BY <1>18, SealRests DEF RestoreRegistry, Fault
<1>19. CASE RegistryRestored
  BY <1>19, <1>c, SealRests DEF RegistryRestored, SaveAndNote
<1>20. CASE RestoreMouse
  BY <1>20, SealRests DEF RestoreMouse, Fault
<1>21. CASE SaveMouseRestored
  BY <1>21, <1>c DEF SaveMouseRestored, SaveAndNote
<1>22. CASE RestoreActiveScheme
  BY <1>22, SealRests DEF RestoreActiveScheme, Fault
<1>23. CASE DeleteScheme
  BY <1>23, SealRests DEF DeleteScheme, Fault
<1>24. CASE SavePowerRestored
  BY <1>24, <1>c DEF SavePowerRestored, SaveAndNote
<1>25. CASE Finish
  BY <1>25, <1>c DEF Finish
<1>26. ASSUME NEW b \in Backups, BeginRestore(b) PROVE AheadMoves
  BY <1>26, SealRests DEF BeginRestore
<1>27. CASE Crash
  <2>1. faults' = faults + 1 /\ pc # "idle"
    BY <1>27 DEF Crash, Fault
  <2>2. CASE UNCHANGED ahead
    BY <2>1, <2>2, SealRests
  <2>3. CASE SealMoves
    BY <1>a, <1>b, <2>1, <2>3, SealMovesBack
  <2>4. QED
    BY <1>27, <2>2, <2>3 DEF Crash
<1>28. CASE UNCHANGED vars
  BY <1>28, SealRests DEF vars
<1>29. QED
  BY <1>1, <1>2, <1>3, <1>4, <1>5, <1>6, <1>7, <1>8, <1>9, <1>10, <1>11,
     <1>12, <1>13, <1>14, <1>15, <1>16, <1>17, <1>18, <1>19, <1>20, <1>21, <1>22,
     <1>23, <1>24, <1>25, <1>26, <1>27, <1>28
     DEF Next, Apply, Undo

LEMMA AheadStep ==
    ASSUME TInv, [Next]_vars
    PROVE  ahead' \in [Backups -> 0..SealSize] /\ FewAhead'
<1>1. AheadMoves
  BY AheadMovesStep
<1>2. ahead \in [Backups -> 0..SealSize] /\ faults \in Nat /\ FewAhead
  BY CountsAssumption DEF TInv, TypeOK
<1>3. CASE ahead' = ahead
  <2>1. faults' \in {faults, faults + 1}
    BY <1>1 DEF AheadMoves
  <2>2. QED
    BY <1>2, <1>3, <2>1 DEF FewAhead, SealSize
<1>4. CASE ahead' # ahead
  <2>1. PICK place \in 0..SealSize :
          /\ ahead' = [ahead EXCEPT ![cur] = place]
          /\ place = 0 \/ (faults' = faults + 1 /\ place <= ahead[cur] + 1)
    BY <1>1, <1>4 DEF AheadMoves
  <2>2. faults' \in {faults, faults + 1}
    BY <1>1 DEF AheadMoves
  <2>3. ahead' \in [Backups -> 0..SealSize]
    BY <1>2, <2>1
  <2>4. ASSUME NEW b \in Backups PROVE ahead'[b] <= faults'
    <3>1. ahead[b] \in 0..SealSize /\ ahead[b] <= faults
      BY <1>2 DEF FewAhead
    <3>2. CASE b = cur
      BY <1>2, <2>1, <2>2, <3>1, <3>2 DEF SealSize
    <3>3. CASE b # cur
      BY <1>2, <2>1, <2>2, <3>1, <3>3 DEF SealSize
    <3>4. QED
      BY <3>2, <3>3
  <2>5. QED
    BY <2>3, <2>4 DEF FewAhead
<1>5. QED
  BY <1>3, <1>4

LEMMA InitTInv == Init => TInv
<1>1. SUFFICES ASSUME Init PROVE TInv
  OBVIOUS
<1>2. MachineOK /\ Flags /\ ordered \in BOOLEAN
  BY <1>1 DEF Init, MachineOK, Flags, Guids
<1>3. Counters
  BY <1>1, CountsAssumption DEF Init, Counters, Labels
<1>4. /\ disk = [b \in Backups |-> NoJournal] /\ before = [b \in Backups |-> NoJournal]
      /\ tx = NoJournal /\ cur = 0 /\ pc = "idle"
  BY <1>1 DEF Init
<1>5. ahead = [b \in Backups |-> 0] /\ faults = 0
  BY <1>1 DEF Init
<1>6. ahead \in [Backups -> 0..SealSize]
  BY <1>5 DEF SealSize
<1>7. TypeOK
  BY <1>2, <1>3, <1>4, <1>6 DEF TypeOK, MachineOK, Flags, Counters
<1>8. Running /\ MouseStages /\ DiskCaptures /\ FewAhead
  BY <1>4, <1>5 DEF Running, MouseStages, DiskCaptures, FewAhead
<1>9. QED
  BY <1>7, <1>8 DEF TInv

LEMMA TInvStep == TInv /\ [Next]_vars => TInv'
<1>1. SUFFICES ASSUME TInv, [Next]_vars PROVE TInv'
  OBVIOUS
<1>2. TypeOK'
  BY <1>1, MachineStep, CountersStep, FlagsStep, JournalsStep, AheadStep
     DEF TypeOK, MachineOK, Counters, Flags
<1>3. QED
  BY <1>1, <1>2, JournalsStep, MouseStagesStep, AheadStep DEF TInv

\* The types, whatever fails and whenever the process dies.
THEOREM TypeCorrect == Spec => []TypeOK
<1>1. TInv => TypeOK
  BY DEF TInv
<1>2. QED
  BY <1>1, InitTInv, TInvStep, PTL DEF Spec

-----------------------------------------------------------------------------
(* Power schemes                                                           *)

\* From its first save to its last, a running operation has an open journal
\* of its own on disk.
Open == pc \notin {"idle", "journal"} =>
            /\ disk[cur] \in Journal /\ disk[cur].op = tx.op
            /\ disk[cur].status # "rolled_back" /\ tx.status # "rolled_back"

\* What the stages around the power scheme know of the journal.
PowerStages ==
    /\ pc = "journal" => /\ tx.status # "rolled_back"
                         /\ tx.powerApplied <=> tx.op.power # "none"
    /\ pc = "duplicate" => /\ tx.powerApplied /\ HasCreated(tx)
                           /\ disk[cur].powerApplied
    /\ pc = "deleteScheme" => HasCreated(tx)
    /\ pc = "powerRestored" => ~tx.powerApplied
    /\ pc = "finish" /\ ~problems => ~tx.powerApplied

\* As long as the scheme of the running operation exists, the journal in
\* memory says so.
SchemeHeld == pc # "idle" /\ cur \in schemes => tx.powerApplied /\ HasCreated(tx)

SInv == TInv /\ Open /\ PowerStages /\ SchemeHeld /\ SchemeJournalled

\* The journal on disk stays open until the last save of its rollback.
LEMMA OpenStep ==
    ASSUME SInv, [Next]_vars
    PROVE  Open'
<1> USE NoJournalAssumption
   DEF SInv, TInv, TypeOK, Running, Open, PowerStages, Journal, Statuses,
       Outstanding
<1>1. ASSUME NEW op \in Operations, Begin(op) PROVE Open'
  BY <1>1 DEF Begin, Goto
<1>2. CASE WriteJournal
  BY <1>2 DEF WriteJournal, Saved, Replaced, Return, local
<1>3. CASE DuplicateScheme
  BY <1>3 DEF DuplicateScheme, local
<1>4. CASE ActivateScheme
  BY <1>4 DEF ActivateScheme, local
<1>5. CASE JournalPower
  BY <1>5 DEF JournalPower, Saved, Replaced, SaveFailed, local
<1>6. CASE JournalRegistry
  <2>1. Keeps /\ Saves /\ pc \notin {"idle", "journal", "finish"} /\ cur \in Backups
    BY <1>6, KeepsStep, SavesStep DEF JournalRegistry
  <2>2. QED
    BY <2>1 DEF Keeps, Saves, SameCapture
<1>7. CASE WriteRegistry
  BY <1>7 DEF WriteRegistry, local
<1>8. CASE JournalMouse
  <2>1. Keeps /\ Saves /\ pc \notin {"idle", "journal", "finish"} /\ cur \in Backups
    BY <1>8, KeepsStep, SavesStep DEF JournalMouse
  <2>2. QED
    BY <2>1 DEF Keeps, Saves, SameCapture
<1>9. CASE WriteMouse
  BY <1>9 DEF WriteMouse, local
<1>10. CASE JournalNetwork
  <2>1. Keeps /\ Saves /\ pc \notin {"idle", "journal", "finish"} /\ cur \in Backups
    BY <1>10, KeepsStep, SavesStep DEF JournalNetwork
  <2>2. QED
    BY <2>1 DEF Keeps, Saves, SameCapture
<1>11. CASE WriteNetwork
  BY <1>11 DEF WriteNetwork, local
<1>12. CASE Verify
  BY <1>12 DEF Verify, local
<1>13. CASE Commit
  BY <1>13 DEF Commit, Saved, Replaced, SaveFailed, Return, local
<1>14. CASE Fail
  BY <1>14 DEF Fail, Saved, Replaced, SaveFailed
<1>15. CASE Rollback
  BY <1>15 DEF Rollback, SaveAndNote, Saved, Replaced, SaveFailed
<1>16. CASE RestoreNetwork
  BY <1>16 DEF RestoreNetwork
<1>17. CASE SaveNetworkRestored
  BY <1>17 DEF SaveNetworkRestored, SaveAndNote, Saved, Replaced, SaveFailed
<1>18. CASE RestoreRegistry
  BY <1>18 DEF RestoreRegistry
<1>19. CASE RegistryRestored
  <2>1. Keeps /\ Saves /\ pc \notin {"idle", "journal", "finish"} /\ cur \in Backups
    BY <1>19, KeepsStep, SavesStep DEF RegistryRestored
  <2>2. QED
    BY <2>1 DEF Keeps, Saves, SameCapture
<1>20. CASE RestoreMouse
  BY <1>20 DEF RestoreMouse
<1>21. CASE SaveMouseRestored
  BY <1>21 DEF SaveMouseRestored, SaveAndNote, Saved, Replaced, SaveFailed
<1>22. CASE RestoreActiveScheme
  BY <1>22 DEF RestoreActiveScheme
<1>23. CASE DeleteScheme
  BY <1>23 DEF DeleteScheme
<1>24. CASE SavePowerRestored
  BY <1>24 DEF SavePowerRestored, SaveAndNote, Saved, Replaced, SaveFailed
<1>25. CASE Finish
  BY <1>25 DEF Finish, Return
<1>26. ASSUME NEW b \in Backups, BeginRestore(b) PROVE Open'
  BY <1>26 DEF BeginRestore
<1>27. CASE Crash
  BY <1>27 DEF Crash, Return
<1>28. CASE UNCHANGED vars
  BY <1>28 DEF vars, local
<1>29. QED
  BY <1>1, <1>2, <1>3, <1>4, <1>5, <1>6, <1>7, <1>8, <1>9, <1>10, <1>11,
     <1>12, <1>13, <1>14, <1>15, <1>16, <1>17, <1>18, <1>19, <1>20, <1>21, <1>22,
     <1>23, <1>24, <1>25, <1>26, <1>27, <1>28
     DEF Next, Apply, Undo

\* The stages hand the power flags on to one another.
LEMMA PowerStagesStep ==
    ASSUME SInv, [Next]_vars
    PROVE  PowerStages'
<1> USE NoJournalAssumption
   DEF SInv, TInv, TypeOK, Running, Open, PowerStages, Journal, HasCreated
<1>1. ASSUME NEW op \in Operations, Begin(op) PROVE PowerStages'
  <2>1. op \in Operation
    BY OperationsAssumption
  <2>2. /\ tx'.status # "rolled_back"
        /\ tx'.powerApplied <=> tx'.op.power # "none"
    BY <1>1, <2>1, CaptureIsJournal DEF Begin
  <2>3. pc' = "journal"
    BY <1>1 DEF Begin, Goto
  <2>4. QED
    BY <2>2, <2>3
<1>2. CASE WriteJournal
  BY <1>2 DEF WriteJournal, Saved, Replaced, Goto, Return, AfterJournal, AfterPower, AfterRegistry,
     AfterMouse, local
<1>3. CASE DuplicateScheme
  BY <1>3 DEF DuplicateScheme, Goto
<1>4. CASE ActivateScheme
  BY <1>4 DEF ActivateScheme, Goto
<1>5. CASE JournalPower
  BY <1>5 DEF JournalPower, Goto, AfterPower, AfterRegistry, AfterMouse
<1>6. CASE JournalRegistry
  BY <1>6 DEF JournalRegistry, Goto
<1>7. CASE WriteRegistry
  BY <1>7 DEF WriteRegistry, Goto, AfterRegistry, AfterMouse
<1>8. CASE JournalMouse
  BY <1>8 DEF JournalMouse, Goto
<1>9. CASE WriteMouse
  BY <1>9 DEF WriteMouse, Goto, AfterMouse
<1>10. CASE JournalNetwork
  BY <1>10 DEF JournalNetwork, Goto
<1>11. CASE WriteNetwork
  BY <1>11 DEF WriteNetwork, Goto
<1>12. CASE Verify
  BY <1>12 DEF Verify, Goto
<1>13. CASE Commit
  BY <1>13 DEF Commit, Goto, Return
<1>14. CASE Fail
  BY <1>14 DEF Fail, Goto
<1>15. CASE Rollback
  BY <1>15 DEF Rollback, Goto
<1>16. CASE RestoreNetwork
  BY <1>16 DEF RestoreNetwork, Goto
<1>17. CASE SaveNetworkRestored
  BY <1>17 DEF SaveNetworkRestored, Goto
<1>18. CASE RestoreRegistry
  BY <1>18 DEF RestoreRegistry
<1>19. CASE RegistryRestored
  BY <1>19 DEF RegistryRestored, Goto, AfterMouseRestore
<1>20. CASE RestoreMouse
  BY <1>20 DEF RestoreMouse, Goto, AfterMouseRestore
<1>21. CASE SaveMouseRestored
  BY <1>21 DEF SaveMouseRestored, Goto, AfterMouseRestore
<1>22. CASE RestoreActiveScheme
  BY <1>22 DEF RestoreActiveScheme, Goto
<1>23. CASE DeleteScheme
  BY <1>23 DEF DeleteScheme, Goto
<1>24. CASE SavePowerRestored
  BY <1>24 DEF SavePowerRestored, Goto
<1>25. CASE Finish
  BY <1>25 DEF Finish, Return
<1>26. ASSUME NEW b \in Backups, BeginRestore(b) PROVE PowerStages'
  BY <1>26 DEF BeginRestore, Goto
<1>27. CASE Crash
  BY <1>27 DEF Crash, Return
<1>28. CASE UNCHANGED vars
  BY <1>28 DEF vars, local
<1>29. QED
  BY <1>1, <1>2, <1>3, <1>4, <1>5, <1>6, <1>7, <1>8, <1>9, <1>10, <1>11,
     <1>12, <1>13, <1>14, <1>15, <1>16, <1>17, <1>18, <1>19, <1>20, <1>21, <1>22,
     <1>23, <1>24, <1>25, <1>26, <1>27, <1>28
     DEF Next, Apply, Undo

\* The flag in memory is cleared only once the scheme is deleted.
LEMMA SchemeHeldStep ==
    ASSUME SInv, [Next]_vars
    PROVE  SchemeHeld'
<1> USE NoJournalAssumption
   DEF SInv, TInv, TypeOK, Running, DiskCaptures, Open, PowerStages,
       SchemeHeld, SchemeJournalled, Outstanding, Journal, HasCreated
<1>1. ASSUME NEW op \in Operations, Begin(op) PROVE SchemeHeld'
  <2>1. cur' \in Backups /\ cur' > issued /\ schemes' = schemes
    BY <1>1, CountsAssumption DEF Begin, Backups, machine
  <2>2. disk[cur'] = NoJournal
    BY <2>1, CountsAssumption DEF Backups
  <2>3. cur' \notin schemes
    BY <2>1, <2>2
  <2>4. QED
    BY <2>1, <2>3
<1>2. CASE WriteJournal
  BY <1>2 DEF WriteJournal, Return, machine, local
<1>3. CASE DuplicateScheme
  BY <1>3 DEF DuplicateScheme
<1>4. CASE ActivateScheme
  BY <1>4 DEF ActivateScheme, local
<1>5. CASE JournalPower
  BY <1>5 DEF JournalPower, machine, local
<1>6. CASE JournalRegistry
  BY <1>6 DEF JournalRegistry, machine, local
<1>7. CASE WriteRegistry
  BY <1>7 DEF WriteRegistry, local
<1>8. CASE JournalMouse
  BY <1>8 DEF JournalMouse, machine, local
<1>9. CASE WriteMouse
  BY <1>9 DEF WriteMouse, local
<1>10. CASE JournalNetwork
  BY <1>10 DEF JournalNetwork, machine, local
<1>11. CASE WriteNetwork
  BY <1>11 DEF WriteNetwork, local
<1>12. CASE Verify
  BY <1>12 DEF Verify, machine, local
<1>13. CASE Commit
  BY <1>13 DEF Commit, Return, machine, local
<1>14. CASE Fail
  BY <1>14 DEF Fail, machine
<1>15. CASE Rollback
  BY <1>15 DEF Rollback, machine
<1>16. CASE RestoreNetwork
  BY <1>16 DEF RestoreNetwork
<1>17. CASE SaveNetworkRestored
  BY <1>17 DEF SaveNetworkRestored, machine
<1>18. CASE RestoreRegistry
  BY <1>18 DEF RestoreRegistry
<1>19. CASE RegistryRestored
  BY <1>19 DEF RegistryRestored, machine
<1>20. CASE RestoreMouse
  BY <1>20 DEF RestoreMouse
<1>21. CASE SaveMouseRestored
  BY <1>21 DEF SaveMouseRestored, machine
<1>22. CASE RestoreActiveScheme
  BY <1>22 DEF RestoreActiveScheme
<1>23. CASE DeleteScheme
  BY <1>23 DEF DeleteScheme
<1>24. CASE SavePowerRestored
  BY <1>24 DEF SavePowerRestored, machine
<1>25. CASE Finish
  BY <1>25 DEF Finish, Return
<1>26. ASSUME NEW b \in Backups, BeginRestore(b) PROVE SchemeHeld'
  BY <1>26 DEF BeginRestore, machine
<1>27. CASE Crash
  BY <1>27 DEF Crash, Return
<1>28. CASE UNCHANGED vars
  BY <1>28 DEF vars, machine, local
<1>29. QED
  BY <1>1, <1>2, <1>3, <1>4, <1>5, <1>6, <1>7, <1>8, <1>9, <1>10, <1>11,
     <1>12, <1>13, <1>14, <1>15, <1>16, <1>17, <1>18, <1>19, <1>20, <1>21, <1>22,
     <1>23, <1>24, <1>25, <1>26, <1>27, <1>28
     DEF Next, Apply, Undo

\* Only the running operation creates a scheme, and not while it saves.
LEMMA SchemesStep ==
    ASSUME TInv, [Next]_vars, NEW b \in Backups, b \in schemes'
    PROVE  \/ b \in schemes
           \/ b = cur /\ pc = "duplicate" /\ UNCHANGED disk
<1>1. CASE \/ DuplicateScheme
          \/ DeleteScheme
  BY <1>1 DEF DuplicateScheme, DeleteScheme
<1>2. CASE \/ ActivateScheme
          \/ WriteRegistry
          \/ WriteMouse
          \/ WriteNetwork
          \/ RestoreNetwork
          \/ RestoreRegistry
          \/ RestoreMouse
          \/ RestoreActiveScheme
  BY <1>2 DEF ActivateScheme, WriteRegistry, WriteMouse, WriteNetwork, RestoreNetwork,
     RestoreRegistry, RestoreMouse, RestoreActiveScheme
<1>3. CASE (\E op \in Operations : Begin(op)) \/ (\E j \in Backups : BeginRestore(j))
  BY <1>3 DEF Begin, BeginRestore, machine
<1>4. CASE \/ WriteJournal
          \/ JournalPower
          \/ JournalRegistry
          \/ JournalMouse
          \/ JournalNetwork
          \/ Verify
          \/ Commit
  BY <1>4 DEF WriteJournal, JournalPower, JournalRegistry, JournalMouse, JournalNetwork,
     Verify, Commit, machine
<1>5. CASE \/ Fail
          \/ Rollback
          \/ SaveNetworkRestored
          \/ RegistryRestored
          \/ SaveMouseRestored
          \/ SavePowerRestored
          \/ Finish
          \/ Crash
  BY <1>5 DEF Fail, Rollback, SaveNetworkRestored, RegistryRestored, SaveMouseRestored,
     SavePowerRestored, Finish, Crash, machine
<1>6. CASE UNCHANGED vars
  BY <1>6 DEF vars, machine
<1>7. QED
  BY <1>1, <1>2, <1>3, <1>4, <1>5, <1>6 DEF Next, Apply, Undo

\* A save of the running operation writes the flag it has in memory, and a
\* verdict "rolled_back" is only reached without the flag.
LEMMA SchemeJournalledStep ==
    ASSUME SInv, [Next]_vars
    PROVE  SchemeJournalled'
<1> USE DEF SInv
<1>1. SUFFICES ASSUME NEW b \in Backups, b \in schemes'
               PROVE  (Outstanding(b) /\ disk[b].powerApplied /\ HasCreated(disk[b]))'
  BY DEF SchemeJournalled
<1>2. CASE UNCHANGED disk
  <2>1. Outstanding(b) /\ disk[b].powerApplied /\ HasCreated(disk[b])
    <3>1. CASE b \in schemes
      BY <3>1 DEF SchemeJournalled
    <3>2. CASE b = cur /\ pc = "duplicate"
      BY <3>2, NoJournalAssumption DEF Open, PowerStages, Outstanding, HasCreated
    <3>3. QED
      BY <1>1, <3>1, <3>2, SchemesStep
  <2>2. QED
    BY <1>2, <2>1 DEF Outstanding
<1>3. CASE ~UNCHANGED disk
  <2>1. pc # "idle"
    <3>1. ASSUME NEW op \in Operations, Begin(op) PROVE UNCHANGED disk
      BY <3>1 DEF Begin
    <3>2. ASSUME NEW c \in Backups, BeginRestore(c) PROVE UNCHANGED disk
      BY <3>2 DEF BeginRestore
    <3>3. CASE UNCHANGED vars
      BY <1>3, <3>3 DEF vars
    <3>4. QED
      BY <1>3, <3>1, <3>2, <3>3, IdleStep
  <2>2. b \in schemes
    BY <1>1, <1>3, SchemesStep
  <2>3. /\ disk' = [disk EXCEPT ![cur] = disk'[cur]]
        /\ SameCapture(disk'[cur], tx)
        /\ disk'[cur].powerApplied = tx.powerApplied
        /\ disk'[cur].status = "rolled_back" =>
              tx.status = "rolled_back" \/ (pc = "finish" /\ ~problems)
    BY <1>3, <2>1, SavesStep DEF Saves
  <2>4. CASE b # cur
    <3>1. disk'[b] = disk[b]
      BY <2>3, <2>4 DEF TInv, TypeOK
    <3>2. QED
      BY <2>2, <3>1 DEF SchemeJournalled, Outstanding
  <2>5. CASE b = cur
    <3>1. tx.powerApplied /\ HasCreated(tx)
      BY <2>1, <2>2, <2>5 DEF SchemeHeld
    <3>2. tx.status # "rolled_back"
      BY <2>1 DEF Open, PowerStages
    <3>3. disk'[cur].status # "rolled_back"
      BY <2>3, <3>1, <3>2 DEF PowerStages
    <3>4. disk'[cur] # NoJournal
      BY <2>3, NoJournalAssumption DEF SameCapture
    <3>5. QED
      BY <2>3, <2>5, <3>1, <3>3, <3>4 DEF Outstanding, HasCreated, SameCapture
  <2>6. QED
    BY <2>4, <2>5
<1>4. QED
  BY <1>2, <1>3

LEMMA InitSInv == Init => SInv
<1>1. Init => Open /\ PowerStages /\ SchemeHeld
  BY DEF Init, Open, PowerStages, SchemeHeld
<1>2. Init => SchemeJournalled
  BY CountsAssumption DEF Init, SchemeJournalled, Backups, UserPlan
<1>3. QED
  BY <1>1, <1>2, InitTInv DEF SInv

LEMMA SInvStep == SInv /\ [Next]_vars => SInv'
BY TInvStep, OpenStep, PowerStagesStep, SchemeHeldStep, SchemeJournalledStep DEF SInv

\* createPerformancePlanFromSettings, restorePowerPlan: for any catalogue and
\* any number of failures and crashes, a scheme the engine created is named by
\* an open journal for as long as it exists.
THEOREM SchemesAreJournalled == Spec => []SchemeJournalled
<1>1. SInv => SchemeJournalled
  BY DEF SInv
<1>2. QED
  BY <1>1, InitSInv, SInvStep, PTL DEF Spec


-----------------------------------------------------------------------------
(* Write-ahead                                                             *)

\* Journal j holds the values of the machine that its operation found.
Truth(j, found) ==
    /\ \A k \in j.op.keys : j.registry[k] = found.reg[k]
    /\ MouseTargets(j.op) # {} => \A m \in MouseKeys : j.mouse[m] = found.mouse[m]
    /\ \A p \in NetworkTargets(j) : j.network[p] = found.net[p]
    /\ j.op.power # "none" => j.previous = found.active

PowerTold(j) == j.powerApplied => j.op.power # "none"

Truths ==
    /\ pc # "idle" => Truth(tx, before[cur]) /\ PowerTold(tx)
    /\ \A b \in Backups :
          disk[b] # NoJournal => Truth(disk[b], before[b]) /\ PowerTold(disk[b])
    /\ pc \notin {"idle", "journal"} => SameCapture(disk[cur], tx)

\* What the flags announce is announced on disk too, or not yet changed.
RegistryAhead ==
    /\ pc \notin {"idle", "journal"} =>
         \A k \in Journalled(tx) : k <= disk[cur].applied \/ reg[k] = tx.registry[k]
    /\ pc \in {"journal", "duplicate", "activate", "journalPower", "registry", "writeRegistry"} =>
         \A k \in tx.op.keys : k > tx.applied => reg[k] = tx.registry[k]
    /\ pc = "writeRegistry" => tx.applied \in tx.op.keys /\ tx.applied <= disk[cur].applied

MouseAhead ==
    /\ pc \notin {"idle", "journal"} =>
         \/ tx.mouseApplied => disk[cur].mouseApplied
         \/ \A m \in MouseTargets(tx.op) : mouse[m] = tx.mouse[m]
    /\ pc \in {"journal", "duplicate", "activate", "journalPower", "registry",
               "writeRegistry", "mouse"} =>
         \A m \in MouseTargets(tx.op) : mouse[m] = tx.mouse[m]
    /\ pc = "writeMouse" => tx.mouseApplied /\ disk[cur].mouseApplied
    /\ pc = "restoreMouse" => tx.mouseApplied

NetworkAhead ==
    /\ pc \notin {"idle", "journal"} =>
         \/ tx.netApplied => disk[cur].netApplied
         \/ \A p \in NetworkTargets(tx) : net[p] = tx.network[p]
    /\ pc \in {"journal", "duplicate", "activate", "journalPower", "registry",
               "writeRegistry", "mouse", "writeMouse", "network"} =>
         \A p \in NetworkTargets(tx) : net[p] = tx.network[p]
    /\ pc = "writeNetwork" => tx.netApplied /\ disk[cur].netApplied
    /\ pc = "restoreNetwork" => tx.netApplied

PowerAhead ==
    /\ pc \notin {"idle", "journal"} => (tx.powerApplied => disk[cur].powerApplied)
    /\ pc \in {"duplicate", "activate", "restorePower", "deleteScheme"} => tx.powerApplied

WInv == SInv /\ Truths /\ RegistryAhead /\ MouseAhead /\ NetworkAhead /\ PowerAhead

\* A journal with the same capture is as true.
LEMMA TruthKept ==
    ASSUME NEW i, NEW j, NEW found, SameCapture(i, j), Truth(j, found)
    PROVE  Truth(i, found)
BY DEF SameCapture, Truth, NetworkTargets

\* A new operation captures what it finds.
LEMMA CaptureIsTrue ==
    ASSUME SInv, NEW op \in Operations, Begin(op)
    PROVE  /\ Truth(tx', before'[cur']) /\ PowerTold(tx')
           /\ \A b \in Backups : disk[b] # NoJournal => before'[b] = before[b]
<1> DEFINE found == [reg |-> reg, mouse |-> mouse, net |-> net,
                     active |-> active, schemes |-> schemes]
<1>1. /\ tx' = Capture(op) /\ cur' = issued + 1 /\ issued + 1 \in Backups
      /\ before' = [before EXCEPT ![issued + 1] = found]
  BY CountsAssumption DEF Begin, Backups, SInv, TInv, TypeOK
<1>2. before'[cur'] = found
  BY <1>1 DEF SInv, TInv, TypeOK
<1>3. op.keys \subseteq Keys
  BY OperationsAssumption DEF Operation
<1>4. /\ tx'.op = op
      /\ \A k \in op.keys : tx'.registry[k] = reg[k]
      /\ MouseTargets(op) # {} => \A m \in MouseKeys : tx'.mouse[m] = mouse[m]
      /\ \A p \in Props : tx'.network[p] # NotCaptured => tx'.network[p] = net[p]
      /\ op.power # "none" => tx'.previous = active
      /\ tx'.powerApplied <=> op.power # "none"
  BY <1>1, <1>3 DEF Capture
<1>5. Truth(tx', before'[cur'])
  BY <1>2, <1>4 DEF Truth, NetworkTargets
<1>6. PowerTold(tx')
  BY <1>4 DEF PowerTold
<1>7. \A b \in Backups : disk[b] # NoJournal => before'[b] = before[b]
  BY <1>1, CountsAssumption DEF SInv, TInv, TypeOK, DiskCaptures, Backups
<1> QED
  BY <1>5, <1>6, <1>7

\* After the first save the journal is on disk.
LEMMA FirstSave ==
    ASSUME pc = "journal", [Next]_vars, pc' \notin {"idle", "journal"}
    PROVE  Saved(tx) /\ UNCHANGED <<tx, cur>>
<1>1. CASE WriteJournal
  BY <1>1 DEF WriteJournal, Return, local
<1> QED
  BY <1>1 DEF Next, Apply, Undo, Begin, BeginRestore, DuplicateScheme, ActivateScheme,
     JournalPower, JournalRegistry, WriteRegistry, JournalMouse, WriteMouse,
     JournalNetwork, WriteNetwork, Verify, Commit, Fail, Rollback, RestoreNetwork,
     SaveNetworkRestored, RestoreRegistry, RegistryRestored, RestoreMouse,
     SaveMouseRestored, RestoreActiveScheme, DeleteScheme, SavePowerRestored, Finish,
     Crash, Return, vars

\* The journals stay true: no step writes a captured value.
LEMMA TruthsStep ==
    ASSUME WInv, [Next]_vars
    PROVE  Truths'
<1> USE DEF WInv, SInv
<1>1. ASSUME NEW op \in Operations, Begin(op) PROVE Truths'
  <2>1. disk' = disk
    BY <1>1 DEF Begin
  <2>2. pc' = "journal"
    BY <1>1 DEF Begin, Goto
  <2> QED
    BY <1>1, <2>1, <2>2, CaptureIsTrue DEF Truths
<1>2. ASSUME NEW b \in Backups, BeginRestore(b) PROVE Truths'
  BY <1>2 DEF BeginRestore, Outstanding, Truths, SameCapture, TInv, TypeOK
<1>3. CASE pc # "idle"
  <2>1. /\ Keeps /\ Saves /\ cur \in Backups
        /\ Truth(tx, before[cur]) /\ PowerTold(tx)
    BY <1>3, KeepsStep, SavesStep DEF Truths, TInv, Running
  <2>2. before' = before
    BY <2>1 DEF Keeps
  <2>3. pc' # "idle" => Truth(tx', before[cur']) /\ PowerTold(tx')
    <3>1. SUFFICES ASSUME pc' # "idle" PROVE Truth(tx', before[cur']) /\ PowerTold(tx')
      OBVIOUS
    <3>2. /\ cur' = cur /\ SameCapture(tx', tx)
          /\ tx'.powerApplied => tx.powerApplied \/ HasCreated(tx)
      BY <2>1, <3>1 DEF Keeps
    <3> QED
      BY <2>1, <3>2, TruthKept DEF PowerTold, HasCreated, SameCapture
  <2>4. ASSUME NEW b \in Backups, disk'[b] # NoJournal
        PROVE  Truth(disk'[b], before[b]) /\ PowerTold(disk'[b])
    <3>1. CASE disk'[b] = disk[b]
      BY <2>4, <3>1 DEF Truths
    <3>2. CASE /\ b = cur /\ SameCapture(disk'[cur], tx)
               /\ disk'[cur].powerApplied = tx.powerApplied
      BY <2>1, <3>2, TruthKept DEF PowerTold, SameCapture
    <3> QED
      BY <2>1, <3>1, <3>2 DEF Saves, TInv, TypeOK
  <2>5. pc' \notin {"idle", "journal"} => SameCapture(disk'[cur'], tx')
    <3>1. SUFFICES ASSUME pc' \notin {"idle", "journal"} PROVE SameCapture(disk'[cur'], tx')
      OBVIOUS
    <3>2. cur' = cur /\ SameCapture(tx', tx)
      BY <2>1, <3>1 DEF Keeps
    <3>3. SameCapture(disk'[cur], tx)
      <4>1. CASE pc = "journal"
        BY <2>1, <3>1, <4>1, FirstSave DEF Saved, Replaced, SameCapture, TInv, TypeOK, Running
      <4>2. CASE pc # "journal" /\ UNCHANGED disk
        BY <1>3, <4>2 DEF Truths
      <4> QED
        BY <2>1, <4>1, <4>2 DEF Saves
    <3> QED
      BY <3>2, <3>3 DEF SameCapture
  <2> QED
    BY <2>2, <2>3, <2>4, <2>5 DEF Truths
<1>4. CASE UNCHANGED vars
  BY <1>4 DEF vars, history, local, Truths
<1> QED
  BY <1>1, <1>2, <1>3, <1>4, IdleStep

\* A key is announced on disk before it is written.
LEMMA RegistryAheadStep ==
    ASSUME WInv, [Next]_vars
    PROVE  RegistryAhead'
<1> USE NoJournalAssumption, CountsAssumption DEF WInv, SInv, TInv, TypeOK,
   Running, Open, Journal, RegistryAhead, Journalled, NextKey, Keys, Operation
<1>1. ASSUME NEW op \in Operations, Begin(op) PROVE RegistryAhead'
  BY <1>1, OperationsAssumption DEF Begin, Goto, Capture, machine, local,
     history
<1>2. CASE WriteJournal
  BY <1>2 DEF WriteJournal, Saved, Replaced, SaveFailed, Goto, Return, AfterJournal,
     AfterPower, AfterRegistry, AfterMouse, machine, local, history
<1>3. CASE DuplicateScheme
  BY <1>3 DEF DuplicateScheme, Goto, machine, local, history
<1>4. CASE ActivateScheme
  <2>1. /\ tx'.op = tx.op /\ tx'.registry = tx.registry /\ tx'.applied = tx.applied
        /\ disk' = disk /\ reg' = reg /\ cur' = cur /\ pc' \notin {"idle", "journal"}
        /\ pc \notin {"idle", "journal"}
        /\ pc' = "journalPower" => pc = "activate"
        /\ pc' \notin {"duplicate", "activate", "registry", "writeRegistry"}
    BY <1>4 DEF ActivateScheme, Goto, local, machine
  <2> QED
    BY <2>1 DEF RegistryAhead, Journalled
<1>5. CASE JournalPower
  BY <1>5 DEF JournalPower, Saved, Replaced, SaveFailed, Goto, AfterPower, AfterRegistry,
     AfterMouse, machine, local, history
<1>6. CASE JournalRegistry
  <2>1. PICK k \in Keys : NextKey(k) /\ tx' = [tx EXCEPT !.applied = k]
    BY <1>6 DEF JournalRegistry
  <2>2. /\ tx'.op = tx.op /\ tx'.registry = tx.registry /\ tx'.applied = k
        /\ reg' = reg /\ cur' = cur
    BY <1>6, <2>1 DEF JournalRegistry, machine, local
  <2>3. \/ pc' = "writeRegistry" /\ disk'[cur].applied = k
        \/ pc' = "fail" /\ disk'[cur].applied \in {disk[cur].applied, k}
    BY <1>6, <2>1, <2>2 DEF JournalRegistry, Saved, Replaced, SaveFailed, Goto
  <2>4. tx.applied \in Nat /\ disk[cur].applied \in Nat /\ k \in Nat /\ tx.op.keys \subseteq Nat
    BY <1>6 DEF JournalRegistry, Keys
  <2>5. \A i \in tx.op.keys : i > tx.applied => k <= i
    BY <2>1 DEF NextKey
  <2>6. pc = "registry"
    BY <1>6 DEF JournalRegistry
  <2>7. k \in tx.op.keys
    BY <2>1 DEF NextKey
  <2>8. ASSUME NEW i \in tx.op.keys, i <= k PROVE i <= tx.applied \/ i = k
    <3>1. tx.applied \in Nat /\ k \in Nat /\ i \in Nat /\ (i > tx.applied => k <= i)
      BY <2>4, <2>5
    <3>2. QED
      BY <2>8, <3>1
  <2>9. \A i \in tx.op.keys : i > tx.applied => reg[i] = tx.registry[i]
    BY <2>6 DEF RegistryAhead
  <2>10. k > tx.applied
    BY <2>1 DEF NextKey
  <2>11. \A i \in tx.op.keys : i > k => reg[i] = tx.registry[i]
    BY <2>4, <2>9, <2>10
  <2>12. \A i \in tx.op.keys : i <= tx.applied =>
             i <= disk[cur].applied \/ reg[i] = tx.registry[i]
    BY <2>6 DEF RegistryAhead, Journalled
  <2>13. ASSUME NEW i \in tx.op.keys, i <= k
         PROVE  i <= disk'[cur].applied \/ reg[i] = tx.registry[i]
    <3>1. i \in Nat /\ k \in Nat /\ disk[cur].applied \in Nat
      BY <2>4
    <3>2. CASE disk'[cur].applied = k
      BY <2>13, <3>2
    <3>3. CASE disk'[cur].applied = disk[cur].applied /\ i <= tx.applied
      BY <2>12, <3>3
    <3>4. CASE i = k
      BY <2>9, <2>10, <3>4
    <3> QED
      BY <2>3, <2>8, <2>13, <3>2, <3>3, <3>4
  <2>14. \A i \in Journalled(tx') : i <= disk'[cur].applied \/ reg'[i] = tx'.registry[i]
    BY <2>2, <2>13 DEF Journalled
  <2>15. k <= disk'[cur].applied \/ pc' = "fail"
    BY <2>3, <2>4
  <2> QED
    BY <2>2, <2>3, <2>7, <2>11, <2>14, <2>15 DEF RegistryAhead
<1>7. CASE WriteRegistry
  BY <1>7 DEF WriteRegistry, Goto, AfterRegistry, AfterMouse, machine, local,
     history
<1>8. CASE JournalMouse
  BY <1>8 DEF JournalMouse, Saved, Replaced, SaveFailed, Goto, machine, local, history
<1>9. CASE WriteMouse
  BY <1>9 DEF WriteMouse, Goto, AfterMouse, machine, local, history
<1>10. CASE JournalNetwork
  BY <1>10 DEF JournalNetwork, Saved, Replaced, SaveFailed, Goto, machine, local, history
<1>11. CASE WriteNetwork
  BY <1>11 DEF WriteNetwork, Goto, machine, local, history
<1>12. CASE Verify
  BY <1>12 DEF Verify, Goto, machine, local, history
<1>13. CASE Commit
  <2>1. CASE Return
    BY <2>1 DEF Return
  <2>2. CASE /\ tx' = [tx EXCEPT !.status = "applied"] /\ Goto("fail")
             /\ SaveFailed(tx') /\ UNCHANGED <<reg, cur>>
    <3>1. tx'.op = tx.op /\ tx'.registry = tx.registry /\ tx'.applied = tx.applied
      BY <1>13, <2>2 DEF Commit
    <3>2. disk'[cur].applied \in {disk[cur].applied, tx.applied}
      BY <1>13, <2>2 DEF Commit, Saved, Replaced, SaveFailed
    <3> QED
      BY <1>13, <2>2, <3>1, <3>2 DEF Commit, Goto, RegistryAhead, Journalled
  <2> QED
    BY <1>13, <2>1, <2>2 DEF Commit, local, machine
<1>14. CASE Fail
  BY <1>14 DEF Fail, Saved, Replaced, SaveFailed, Goto, machine, local, history
<1>15. CASE Rollback
  BY <1>15 DEF Rollback, SaveAndNote, Saved, Replaced, SaveFailed, Goto, machine, local,
     history
<1>16. CASE RestoreNetwork
  <2>1. /\ tx'.op = tx.op /\ tx'.registry = tx.registry /\ tx'.applied = tx.applied
        /\ disk' = disk /\ reg' = reg /\ cur' = cur /\ pc' \notin {"idle", "journal"}
        /\ pc \notin {"idle", "journal"}
        /\ pc' = "journalPower" => pc = "activate"
        /\ pc' \notin {"duplicate", "activate", "registry", "writeRegistry"}
    BY <1>16 DEF RestoreNetwork, Goto
  <2> QED
    BY <2>1 DEF RegistryAhead, Journalled
<1>17. CASE SaveNetworkRestored
  BY <1>17 DEF SaveNetworkRestored, SaveAndNote, Saved, Replaced, SaveFailed, Goto,
     machine, local, history
<1>18. CASE RestoreRegistry
  BY <1>18 DEF RestoreRegistry, Remaining, machine, local, history
<1>19. CASE RegistryRestored
  <2>1. reg' = reg /\ cur' = cur /\ pc' \in {"restoreMouse", "restorePower", "finish"}
    BY <1>19 DEF RegistryRestored, Goto, AfterMouseRestore, machine
  <2>2. CASE tx' = [tx EXCEPT !.applied = 0]
    <3>1. tx'.applied = 0 /\ tx'.op.keys \subseteq 1..NKeys
      BY <1>19, <2>2 DEF RegistryRestored, Keys
    <3>2. Journalled(tx') = {}
      BY <3>1 DEF Journalled
    <3> QED
      BY <2>1, <3>2 DEF RegistryAhead
  <2>3. CASE tx' = tx /\ disk' = disk
    BY <1>19, <2>1, <2>3 DEF RegistryRestored, RegistryAhead, Journalled
  <2> QED
    BY <1>19, <2>2, <2>3 DEF RegistryRestored
<1>20. CASE RestoreMouse
  <2>1. /\ tx'.op = tx.op /\ tx'.registry = tx.registry /\ tx'.applied = tx.applied
        /\ disk' = disk /\ reg' = reg /\ cur' = cur /\ pc' \notin {"idle", "journal"}
        /\ pc \notin {"idle", "journal"}
        /\ pc' = "journalPower" => pc = "activate"
        /\ pc' \notin {"duplicate", "activate", "registry", "writeRegistry"}
    BY <1>20 DEF RestoreMouse, Goto, AfterMouseRestore
  <2> QED
    BY <2>1 DEF RegistryAhead, Journalled
<1>21. CASE SaveMouseRestored
  BY <1>21 DEF SaveMouseRestored, SaveAndNote, Saved, Replaced, SaveFailed, Goto,
     AfterMouseRestore, machine, local, history
<1>22. CASE RestoreActiveScheme
  <2>1. /\ tx'.op = tx.op /\ tx'.registry = tx.registry /\ tx'.applied = tx.applied
        /\ disk' = disk /\ reg' = reg /\ cur' = cur /\ pc' \notin {"idle", "journal"}
        /\ pc \notin {"idle", "journal"}
        /\ pc' = "journalPower" => pc = "activate"
        /\ pc' \notin {"duplicate", "activate", "registry", "writeRegistry"}
    BY <1>22 DEF RestoreActiveScheme, Goto, HasCreated
  <2> QED
    BY <2>1 DEF RegistryAhead, Journalled
<1>23. CASE DeleteScheme
  <2>1. /\ tx'.op = tx.op /\ tx'.registry = tx.registry /\ tx'.applied = tx.applied
        /\ disk' = disk /\ reg' = reg /\ cur' = cur /\ pc' \notin {"idle", "journal"}
        /\ pc \notin {"idle", "journal"}
        /\ pc' = "journalPower" => pc = "activate"
        /\ pc' \notin {"duplicate", "activate", "registry", "writeRegistry"}
    BY <1>23 DEF DeleteScheme, Goto
  <2> QED
    BY <2>1 DEF RegistryAhead, Journalled
<1>24. CASE SavePowerRestored
  BY <1>24 DEF SavePowerRestored, SaveAndNote, Saved, Replaced, SaveFailed, Goto, machine,
     local, history
<1>25. CASE Finish
  BY <1>25 DEF Finish, Saved, Replaced, SaveFailed, Return, machine, local, history
<1>26. ASSUME NEW b \in Backups, BeginRestore(b) PROVE RegistryAhead'
  BY <1>26 DEF BeginRestore, Goto, machine, local, history
<1>27. CASE Crash
  BY <1>27 DEF Crash, Return, machine, local, history
<1>28. CASE UNCHANGED vars
  BY <1>28 DEF vars, machine, local, history
<1> QED
  BY <1>1, <1>2, <1>3, <1>4, <1>5, <1>6, <1>7, <1>8, <1>9, <1>10, <1>11,
     <1>12, <1>13, <1>14, <1>15, <1>16, <1>17, <1>18, <1>19, <1>20, <1>21,
     <1>22, <1>23, <1>24, <1>25, <1>26, <1>27, <1>28 DEF Next, Apply, Undo

\* So are the live mouse parameters,
LEMMA MouseAheadStep ==
    ASSUME WInv, [Next]_vars
    PROVE  MouseAhead'
<1> USE NoJournalAssumption, CountsAssumption DEF WInv, SInv, TInv, TypeOK,
   Running, Open, Journal, MouseAhead
<1>1. ASSUME NEW op \in Operations, Begin(op) PROVE MouseAhead'
  BY <1>1, OperationsAssumption DEF Begin, Goto, Capture, MouseTargets,
     Operation, machine, local, history
<1>2. CASE WriteJournal
  BY <1>2 DEF WriteJournal, Saved, Replaced, SaveFailed, Goto, Return, AfterJournal,
     AfterPower, AfterRegistry, AfterMouse, machine, local, history
<1>3. CASE DuplicateScheme
  BY <1>3 DEF DuplicateScheme, Goto, machine, local, history
<1>4. CASE ActivateScheme
  BY <1>4 DEF ActivateScheme, Goto, machine, local, history
<1>5. CASE JournalPower
  BY <1>5 DEF JournalPower, Saved, Replaced, SaveFailed, Goto, AfterPower, AfterRegistry,
     AfterMouse, machine, local, history
<1>6. CASE JournalRegistry
  BY <1>6 DEF JournalRegistry, Saved, Replaced, SaveFailed, Goto, machine, local, history
<1>7. CASE WriteRegistry
  BY <1>7 DEF WriteRegistry, Goto, AfterRegistry, AfterMouse, machine, local,
     history
<1>8. CASE JournalMouse
  BY <1>8 DEF JournalMouse, Saved, Replaced, SaveFailed, Goto, machine, local, history
<1>9. CASE WriteMouse
  BY <1>9 DEF WriteMouse, Goto, AfterMouse, machine, local, history
<1>10. CASE JournalNetwork
  BY <1>10 DEF JournalNetwork, Saved, Replaced, SaveFailed, Goto, machine, local, history
<1>11. CASE WriteNetwork
  BY <1>11 DEF WriteNetwork, Goto, machine, local, history
<1>12. CASE Verify
  BY <1>12 DEF Verify, Goto, machine, local, history
<1>13. CASE Commit
  BY <1>13 DEF Commit, Saved, Replaced, SaveFailed, Goto, Return, machine, local, history
<1>14. CASE Fail
  BY <1>14 DEF Fail, Saved, Replaced, SaveFailed, Goto, machine, local, history
<1>15. CASE Rollback
  BY <1>15 DEF Rollback, SaveAndNote, Saved, Replaced, SaveFailed, Goto, machine, local,
     history
<1>16. CASE RestoreNetwork
  BY <1>16 DEF RestoreNetwork, Goto, machine, local, history
<1>17. CASE SaveNetworkRestored
  BY <1>17 DEF SaveNetworkRestored, SaveAndNote, Saved, Replaced, SaveFailed, Goto,
     machine, local, history
<1>18. CASE RestoreRegistry
  BY <1>18 DEF RestoreRegistry, machine, local, history
<1>19. CASE RegistryRestored
  BY <1>19 DEF RegistryRestored, SaveAndNote, Saved, Replaced, SaveFailed, Goto,
     AfterMouseRestore, machine, local, history
<1>20. CASE RestoreMouse
  BY <1>20 DEF RestoreMouse, Goto, AfterMouseRestore, MouseBack, machine, local,
     history
<1>21. CASE SaveMouseRestored
  BY <1>21 DEF SaveMouseRestored, SaveAndNote, Saved, Replaced, SaveFailed, Goto,
     AfterMouseRestore, machine, local, history
<1>22. CASE RestoreActiveScheme
  BY <1>22 DEF RestoreActiveScheme, Goto, machine, local, history
<1>23. CASE DeleteScheme
  BY <1>23 DEF DeleteScheme, Goto, machine, local, history
<1>24. CASE SavePowerRestored
  BY <1>24 DEF SavePowerRestored, SaveAndNote, Saved, Replaced, SaveFailed, Goto, machine,
     local, history
<1>25. CASE Finish
  BY <1>25 DEF Finish, Saved, Replaced, SaveFailed, Return, machine, local, history
<1>26. ASSUME NEW b \in Backups, BeginRestore(b) PROVE MouseAhead'
  BY <1>26 DEF BeginRestore, Goto, machine, local, history
<1>27. CASE Crash
  BY <1>27 DEF Crash, Return, machine, local, history
<1>28. CASE UNCHANGED vars
  BY <1>28 DEF vars, machine, local, history
<1> QED
  BY <1>1, <1>2, <1>3, <1>4, <1>5, <1>6, <1>7, <1>8, <1>9, <1>10, <1>11,
     <1>12, <1>13, <1>14, <1>15, <1>16, <1>17, <1>18, <1>19, <1>20, <1>21,
     <1>22, <1>23, <1>24, <1>25, <1>26, <1>27, <1>28 DEF Next, Apply, Undo

\* and the Ethernet properties.
LEMMA NetworkAheadStep ==
    ASSUME WInv, [Next]_vars
    PROVE  NetworkAhead'
<1> USE NoJournalAssumption, CountsAssumption DEF WInv, SInv, TInv, TypeOK,
   Running, Open, Journal, NetworkAhead, NetworkTargets
<1>1. ASSUME NEW op \in Operations, Begin(op) PROVE NetworkAhead'
  BY <1>1, OperationsAssumption DEF Begin, Goto, Capture, Operation, machine,
     local, history
<1>2. CASE WriteJournal
  BY <1>2 DEF WriteJournal, Saved, Replaced, SaveFailed, Goto, Return, AfterJournal,
     AfterPower, AfterRegistry, AfterMouse, machine, local, history
<1>3. CASE DuplicateScheme
  BY <1>3 DEF DuplicateScheme, Goto, machine, local, history
<1>4. CASE ActivateScheme
  BY <1>4 DEF ActivateScheme, Goto, machine, local, history
<1>5. CASE JournalPower
  BY <1>5 DEF JournalPower, Saved, Replaced, SaveFailed, Goto, AfterPower, AfterRegistry,
     AfterMouse, machine, local, history
<1>6. CASE JournalRegistry
  BY <1>6 DEF JournalRegistry, Saved, Replaced, SaveFailed, Goto, machine, local, history
<1>7. CASE WriteRegistry
  BY <1>7 DEF WriteRegistry, Goto, AfterRegistry, AfterMouse, machine, local,
     history
<1>8. CASE JournalMouse
  BY <1>8 DEF JournalMouse, Saved, Replaced, SaveFailed, Goto, machine, local, history
<1>9. CASE WriteMouse
  BY <1>9 DEF WriteMouse, Goto, AfterMouse, machine, local, history
<1>10. CASE JournalNetwork
  BY <1>10 DEF JournalNetwork, Saved, Replaced, SaveFailed, Goto, machine, local, history
<1>11. CASE WriteNetwork
  BY <1>11 DEF WriteNetwork, Goto, machine, local, history
<1>12. CASE Verify
  BY <1>12 DEF Verify, Goto, machine, local, history
<1>13. CASE Commit
  BY <1>13 DEF Commit, Saved, Replaced, SaveFailed, Goto, Return, machine, local, history
<1>14. CASE Fail
  BY <1>14 DEF Fail, Saved, Replaced, SaveFailed, Goto, machine, local, history
<1>15. CASE Rollback
  BY <1>15 DEF Rollback, SaveAndNote, Saved, Replaced, SaveFailed, Goto, machine, local,
     history
<1>16. CASE RestoreNetwork
  BY <1>16 DEF RestoreNetwork, Goto, machine, local, history
<1>17. CASE SaveNetworkRestored
  BY <1>17 DEF SaveNetworkRestored, SaveAndNote, Saved, Replaced, SaveFailed, Goto,
     machine, local, history
<1>18. CASE RestoreRegistry
  BY <1>18 DEF RestoreRegistry, machine, local, history
<1>19. CASE RegistryRestored
  BY <1>19 DEF RegistryRestored, SaveAndNote, Saved, Replaced, SaveFailed, Goto,
     AfterMouseRestore, machine, local, history
<1>20. CASE RestoreMouse
  BY <1>20 DEF RestoreMouse, Goto, AfterMouseRestore, machine, local, history
<1>21. CASE SaveMouseRestored
  BY <1>21 DEF SaveMouseRestored, SaveAndNote, Saved, Replaced, SaveFailed, Goto,
     AfterMouseRestore, machine, local, history
<1>22. CASE RestoreActiveScheme
  BY <1>22 DEF RestoreActiveScheme, Goto, machine, local, history
<1>23. CASE DeleteScheme
  BY <1>23 DEF DeleteScheme, Goto, machine, local, history
<1>24. CASE SavePowerRestored
  BY <1>24 DEF SavePowerRestored, SaveAndNote, Saved, Replaced, SaveFailed, Goto, machine,
     local, history
<1>25. CASE Finish
  BY <1>25 DEF Finish, Saved, Replaced, SaveFailed, Return, machine, local, history
<1>26. ASSUME NEW b \in Backups, BeginRestore(b) PROVE NetworkAhead'
  BY <1>26 DEF BeginRestore, Goto, machine, local, history
<1>27. CASE Crash
  BY <1>27 DEF Crash, Return, machine, local, history
<1>28. CASE UNCHANGED vars
  BY <1>28 DEF vars, machine, local, history
<1> QED
  BY <1>1, <1>2, <1>3, <1>4, <1>5, <1>6, <1>7, <1>8, <1>9, <1>10, <1>11,
     <1>12, <1>13, <1>14, <1>15, <1>16, <1>17, <1>18, <1>19, <1>20, <1>21,
     <1>22, <1>23, <1>24, <1>25, <1>26, <1>27, <1>28 DEF Next, Apply, Undo

\* The power scheme is announced from the first save on.
LEMMA PowerAheadStep ==
    ASSUME WInv, [Next]_vars
    PROVE  PowerAhead'
<1> USE NoJournalAssumption, CountsAssumption DEF WInv, SInv, TInv, TypeOK,
   Running, Open, Journal, PowerAhead, PowerStages, HasCreated
<1>1. ASSUME NEW op \in Operations, Begin(op) PROVE PowerAhead'
  BY <1>1, OperationsAssumption DEF Begin, Goto, Capture, Operation, machine,
     local, history
<1>2. CASE WriteJournal
  BY <1>2 DEF WriteJournal, Saved, Replaced, SaveFailed, Goto, Return, AfterJournal,
     AfterPower, AfterRegistry, AfterMouse, machine, local, history
<1>3. CASE DuplicateScheme
  BY <1>3 DEF DuplicateScheme, Goto, machine, local, history
<1>4. CASE ActivateScheme
  BY <1>4 DEF ActivateScheme, Goto, machine, local, history
<1>5. CASE JournalPower
  BY <1>5 DEF JournalPower, Saved, Replaced, SaveFailed, Goto, AfterPower, AfterRegistry,
     AfterMouse, machine, local, history
<1>6. CASE JournalRegistry
  BY <1>6 DEF JournalRegistry, Saved, Replaced, SaveFailed, Goto, machine, local, history
<1>7. CASE WriteRegistry
  BY <1>7 DEF WriteRegistry, Goto, AfterRegistry, AfterMouse, machine, local,
     history
<1>8. CASE JournalMouse
  BY <1>8 DEF JournalMouse, Saved, Replaced, SaveFailed, Goto, machine, local, history
<1>9. CASE WriteMouse
  BY <1>9 DEF WriteMouse, Goto, AfterMouse, machine, local, history
<1>10. CASE JournalNetwork
  BY <1>10 DEF JournalNetwork, Saved, Replaced, SaveFailed, Goto, machine, local, history
<1>11. CASE WriteNetwork
  BY <1>11 DEF WriteNetwork, Goto, machine, local, history
<1>12. CASE Verify
  BY <1>12 DEF Verify, Goto, machine, local, history
<1>13. CASE Commit
  BY <1>13 DEF Commit, Saved, Replaced, SaveFailed, Goto, Return, machine, local, history
<1>14. CASE Fail
  BY <1>14 DEF Fail, Saved, Replaced, SaveFailed, Goto, machine, local, history
<1>15. CASE Rollback
  BY <1>15 DEF Rollback, SaveAndNote, Saved, Replaced, SaveFailed, Goto, machine, local,
     history
<1>16. CASE RestoreNetwork
  BY <1>16 DEF RestoreNetwork, Goto, machine, local, history
<1>17. CASE SaveNetworkRestored
  BY <1>17 DEF SaveNetworkRestored, SaveAndNote, Saved, Replaced, SaveFailed, Goto,
     machine, local, history
<1>18. CASE RestoreRegistry
  BY <1>18 DEF RestoreRegistry, machine, local, history
<1>19. CASE RegistryRestored
  BY <1>19 DEF RegistryRestored, SaveAndNote, Saved, Replaced, SaveFailed, Goto,
     AfterMouseRestore, machine, local, history
<1>20. CASE RestoreMouse
  BY <1>20 DEF RestoreMouse, Goto, AfterMouseRestore, machine, local, history
<1>21. CASE SaveMouseRestored
  BY <1>21 DEF SaveMouseRestored, SaveAndNote, Saved, Replaced, SaveFailed, Goto,
     AfterMouseRestore, machine, local, history
<1>22. CASE RestoreActiveScheme
  BY <1>22 DEF RestoreActiveScheme, Goto, machine, local, history
<1>23. CASE DeleteScheme
  BY <1>23 DEF DeleteScheme, Goto, machine, local, history
<1>24. CASE SavePowerRestored
  BY <1>24 DEF SavePowerRestored, SaveAndNote, Saved, Replaced, SaveFailed, Goto, machine,
     local, history
<1>25. CASE Finish
  BY <1>25 DEF Finish, Saved, Replaced, SaveFailed, Return, machine, local, history
<1>26. ASSUME NEW b \in Backups, BeginRestore(b) PROVE PowerAhead'
  BY <1>26 DEF BeginRestore, Goto, machine, local, history
<1>27. CASE Crash
  BY <1>27 DEF Crash, Return, machine, local, history
<1>28. CASE UNCHANGED vars
  BY <1>28 DEF vars, machine, local, history
<1> QED
  BY <1>1, <1>2, <1>3, <1>4, <1>5, <1>6, <1>7, <1>8, <1>9, <1>10, <1>11,
     <1>12, <1>13, <1>14, <1>15, <1>16, <1>17, <1>18, <1>19, <1>20, <1>21,
     <1>22, <1>23, <1>24, <1>25, <1>26, <1>27, <1>28 DEF Next, Apply, Undo

LEMMA InitWInv == Init => WInv
<1>1. SUFFICES ASSUME Init PROVE WInv
  OBVIOUS
<1>2. pc = "idle" /\ disk = [b \in Backups |-> NoJournal]
  BY <1>1 DEF Init
<1>3. Truths /\ RegistryAhead /\ MouseAhead /\ NetworkAhead /\ PowerAhead
  BY <1>2 DEF Truths, RegistryAhead, MouseAhead, NetworkAhead, PowerAhead
<1> QED
  BY <1>1, <1>3, InitSInv DEF WInv

LEMMA WInvStep == WInv /\ [Next]_vars => WInv'
BY SInvStep, TruthsStep, RegistryAheadStep, MouseAheadStep, NetworkAheadStep,
   PowerAheadStep DEF WInv

\* The steps that change the machine.
Mutation == \/ DuplicateScheme \/ ActivateScheme \/ WriteRegistry \/ WriteMouse
            \/ WriteNetwork \/ RestoreNetwork \/ RestoreRegistry \/ RestoreMouse
            \/ RestoreActiveScheme \/ DeleteScheme

LEMMA OtherSteps ==
    ASSUME [Next]_vars, ~Mutation
    PROVE  UNCHANGED machine
<1>1. CASE (\E op \in Operations : Begin(op)) \/ (\E b \in Backups : BeginRestore(b))
  BY <1>1 DEF Begin, BeginRestore
<1>2. CASE \/ WriteJournal \/ JournalPower \/ JournalRegistry \/ JournalMouse
           \/ JournalNetwork \/ Verify \/ Commit \/ Fail
  BY <1>2 DEF WriteJournal, JournalPower, JournalRegistry, JournalMouse, JournalNetwork,
     Verify, Commit, Fail
<1>3. CASE \/ Rollback \/ SaveNetworkRestored \/ RegistryRestored \/ SaveMouseRestored
           \/ SavePowerRestored \/ Finish \/ Crash
  BY <1>3 DEF Rollback, SaveNetworkRestored, RegistryRestored, SaveMouseRestored,
     SavePowerRestored, Finish, Crash
<1>4. CASE UNCHANGED vars
  BY <1>4 DEF vars
<1> QED
  BY <1>1, <1>2, <1>3, <1>4 DEF Next, Apply, Undo, Mutation

\* Every change is announced, with the value from before the operation.
LEMMA AnnouncedStep ==
    ASSUME WInv, [Next]_vars, ~UNCHANGED machine
    PROVE  /\ disk[cur] # NoJournal
           /\ \A k \in Keys : reg'[k] # reg[k] =>
                 /\ k \in Journalled(disk[cur])
                 /\ disk[cur].registry[k] = before[cur].reg[k]
           /\ \A m \in MouseKeys : mouse'[m] # mouse[m] =>
                 disk[cur].mouseApplied /\ disk[cur].mouse[m] = before[cur].mouse[m]
           /\ \A p \in Props : net'[p] # net[p] =>
                 disk[cur].netApplied /\ disk[cur].network[p] = before[cur].net[p]
           /\ active' # active \/ schemes' # schemes =>
                 disk[cur].powerApplied /\ disk[cur].previous = before[cur].active
<1>1. Mutation
  BY OtherSteps
<1>2. pc \notin {"idle", "journal"}
  BY <1>1 DEF Mutation, DuplicateScheme, ActivateScheme, WriteRegistry, WriteMouse,
     WriteNetwork, RestoreNetwork, RestoreRegistry, RestoreMouse, RestoreActiveScheme,
     DeleteScheme
<1>3. /\ cur \in Backups /\ tx \in Journal
      /\ disk[cur] \in Journal /\ disk[cur] # NoJournal /\ disk[cur].op = tx.op
  BY <1>2, NoJournalAssumption DEF WInv, SInv, TInv, Running, Open
<1>4. /\ Truth(tx, before[cur])
      /\ Truth(disk[cur], before[cur]) /\ PowerTold(disk[cur])
  BY <1>2, <1>3 DEF WInv, Truths
<1>5. SameCapture(disk[cur], tx)
  BY <1>2 DEF WInv, Truths
<1>6. ASSUME NEW k \in Keys, reg'[k] # reg[k]
      PROVE  /\ k \in Journalled(disk[cur])
             /\ disk[cur].registry[k] = before[cur].reg[k]
  <2>1. k \in tx.op.keys /\ k <= disk[cur].applied
    <3>1. CASE WriteRegistry
      <4>1. k = tx.applied
        BY <1>6, <3>1 DEF WriteRegistry, WInv, SInv, TInv, TypeOK
      <4> QED
        BY <3>1, <4>1 DEF WriteRegistry, WInv, RegistryAhead
    <3>2. CASE RestoreRegistry
      <4>1. k \in Journalled(tx) /\ reg'[k] = tx.registry[k]
        BY <1>6, <3>2 DEF RestoreRegistry, Remaining, WInv, SInv, TInv, TypeOK
      <4> QED
        BY <1>2, <1>6, <4>1 DEF WInv, RegistryAhead, Journalled
    <3> QED
      BY <1>1, <1>6, <3>1, <3>2 DEF Mutation, DuplicateScheme, ActivateScheme, WriteMouse,
         WriteNetwork, RestoreNetwork, RestoreMouse, RestoreActiveScheme, DeleteScheme
  <2> QED
    BY <1>3, <1>4, <2>1 DEF Journalled, Truth
<1>7. ASSUME NEW m \in MouseKeys, mouse'[m] # mouse[m]
      PROVE  disk[cur].mouseApplied /\ disk[cur].mouse[m] = before[cur].mouse[m]
  <2>1. disk[cur].mouseApplied /\ MouseTargets(tx.op) # {}
    <3>1. CASE WriteMouse
      BY <3>1 DEF WriteMouse, WInv, MouseAhead, SInv, TInv, MouseStages
    <3>2. CASE RestoreMouse
      <4>1. m \in MouseTargets(tx.op) /\ mouse'[m] = tx.mouse[m]
        BY <1>7, <3>2 DEF RestoreMouse, MouseBack, WInv, SInv, TInv, TypeOK
      <4> QED
        BY <1>2, <1>7, <3>2, <4>1 DEF WInv, MouseAhead, RestoreMouse
    <3> QED
      BY <1>1, <1>7, <3>1, <3>2 DEF Mutation, DuplicateScheme, ActivateScheme,
         WriteRegistry, WriteNetwork, RestoreNetwork, RestoreRegistry,
         RestoreActiveScheme, DeleteScheme
  <2> QED
    BY <1>3, <1>4, <2>1 DEF Truth
<1>8. ASSUME NEW p \in Props, net'[p] # net[p]
      PROVE  disk[cur].netApplied /\ disk[cur].network[p] = before[cur].net[p]
  <2>1. disk[cur].netApplied /\ p \in NetworkTargets(tx)
    <3>1. CASE WriteNetwork
      BY <1>8, <3>1 DEF WriteNetwork, WInv, NetworkAhead, SInv, TInv, TypeOK
    <3>2. CASE RestoreNetwork
      <4>1. p \in NetworkTargets(tx) /\ net'[p] = tx.network[p]
        BY <1>8, <3>2 DEF RestoreNetwork, WInv, SInv, TInv, TypeOK
      <4> QED
        BY <1>2, <1>8, <3>2, <4>1 DEF WInv, NetworkAhead, RestoreNetwork
    <3> QED
      BY <1>1, <1>8, <3>1, <3>2 DEF Mutation, DuplicateScheme, ActivateScheme,
         WriteRegistry, WriteMouse, RestoreRegistry, RestoreMouse,
         RestoreActiveScheme, DeleteScheme
  <2> QED
    BY <1>4, <1>5, <2>1 DEF Truth, NetworkTargets, SameCapture
<1>9. ASSUME active' # active \/ schemes' # schemes
      PROVE  disk[cur].powerApplied /\ disk[cur].previous = before[cur].active
  <2>1. pc \in {"duplicate", "activate", "restorePower", "deleteScheme"}
    BY <1>1, <1>9 DEF Mutation, DuplicateScheme, ActivateScheme, WriteRegistry, WriteMouse,
       WriteNetwork, RestoreNetwork, RestoreRegistry, RestoreMouse, RestoreActiveScheme,
       DeleteScheme
  <2>2. disk[cur].powerApplied
    BY <2>1 DEF WInv, PowerAhead
  <2> QED
    BY <1>4, <2>2 DEF Truth, PowerTold
<1> QED
  BY <1>3, <1>6, <1>7, <1>8, <1>9

LEMMA WriteAheadInductive == Spec => []WInv
BY InitWInv, WInvStep, PTL DEF Spec

\* "capture exact state, seal backup, journal intent, apply" (README.md:36):
\* for any catalogue and any number of failures and crashes, whatever a step
\* of applyProfile, applyTweak or rollbackBackup changes, the journal on disk
\* names with the value from before the operation.
THEOREM IntentIsJournalled == Spec => JournalBeforeMutation
<1>1. WInv /\ [Next]_vars =>
        [~UNCHANGED machine =>
          /\ disk[cur] # NoJournal
          /\ \A k \in Keys : reg'[k] # reg[k] =>
                /\ k \in Journalled(disk[cur])
                /\ disk[cur].registry[k] = before[cur].reg[k]
          /\ \A m \in MouseKeys : mouse'[m] # mouse[m] =>
                disk[cur].mouseApplied /\ disk[cur].mouse[m] = before[cur].mouse[m]
          /\ \A p \in Props : net'[p] # net[p] =>
                disk[cur].netApplied /\ disk[cur].network[p] = before[cur].net[p]
          /\ active' # active \/ schemes' # schemes =>
                disk[cur].powerApplied /\ disk[cur].previous = before[cur].active
        ]_machine
  BY AnnouncedStep
<1> QED
  BY <1>1, WriteAheadInductive, PTL DEF Spec, JournalBeforeMutation


-----------------------------------------------------------------------------
(* Exact restores                                                          *)

Current == [reg |-> reg, mouse |-> mouse, net |-> net,
            active |-> active, schemes |-> schemes]

\* Machine M differs from the one that operation b found only where j, the
\* journal of b, says so.
Clean(M, j, b, found) ==
    /\ \A k \in Keys : M.reg[k] # found.reg[k] => k \in Journalled(j)
    /\ \A m \in MouseKeys : M.mouse[m] # found.mouse[m] =>
          j.mouseApplied /\ m \in MouseTargets(j.op)
    /\ \A p \in Props : M.net[p] # found.net[p] =>
          j.netApplied /\ p \in NetworkTargets(j)
    /\ M.active # found.active => j.powerApplied
    /\ M.schemes \ {b} = found.schemes

Found == \A b \in Backups : b <= issued => before[b] \in Machine

\* Before its first save an operation has changed nothing.
NothingYet == pc = "journal" => /\ Current = before[cur]
                                /\ \A b \in Backups : b >= cur => disk[b] = NoJournal

\* A running operation has changed what its journal in memory says.
CurrentClean == ordered /\ pc # "idle" => Clean(Current, tx, cur, before[cur])

\* With restores newest first the running operation is the newest one.
OnTop == ordered /\ pc \notin {"idle", "journal"} => Newest(cur)

\* While none runs, the machine is what the newest journal says.
NewestClean == ordered /\ pc \in {"idle", "journal"} =>
    \A b \in Backups : Newest(b) => Clean(Current, disk[b], b, before[b])

\* What a newer operation found is what the next older journal says.
Below(b, c) == /\ Outstanding(b) /\ Outstanding(c) /\ b < c
               /\ \A d \in Backups : b < d /\ d < c => ~Outstanding(d)

StackClean == ordered => \A b, c \in Backups :
    Below(b, c) => Clean(before[c], disk[b], b, before[b])

\* How far a rollback without problems is.
Last == {"restoreMouse", "mouseRestored", "restorePower", "deleteScheme",
         "powerRestored", "finish"}

Undone ==
    /\ pc \in {"restoreNetwork", "networkRestored"} => step = tx.applied /\ ~registryFailed
    /\ pc = "networkRestored" => ~tx.netApplied
    /\ pc \in {"restoreRegistry"} \cup Last /\ ~problems => ~tx.netApplied
    /\ pc = "restoreRegistry" =>
         /\ registryFailed => problems
         /\ ~registryFailed => \A k \in Journalled(tx) : k > step => reg[k] = tx.registry[k]
    /\ pc \in Last /\ ~problems => tx.applied = 0
    /\ pc \in Last \ {"restoreMouse"} /\ ~problems => ~tx.mouseApplied
    /\ pc = "deleteScheme" => active = tx.previous

EInv == /\ WInv /\ Found /\ NothingYet /\ CurrentClean /\ OnTop
        /\ NewestClean /\ StackClean /\ Undone

\* The steps that touch the registry or what the journal says of it.
LEMMA RegistrySteps ==
    ASSUME TInv, [Next]_vars, pc # "idle", pc' # "idle"
    PROVE  \/ reg' = reg /\ tx'.applied = tx.applied
           \/ JournalRegistry \/ WriteRegistry \/ RestoreRegistry \/ RegistryRestored
<1> USE DEF TInv, TypeOK, Running, Journal
<1>1. ASSUME NEW op \in Operations, Begin(op) PROVE FALSE
  BY <1>1 DEF Begin
<1>2. ASSUME NEW b \in Backups, BeginRestore(b) PROVE FALSE
  BY <1>2 DEF BeginRestore
<1>3. CASE WriteJournal
  BY <1>3 DEF WriteJournal, Return, machine
<1>4. CASE DuplicateScheme
  BY <1>4 DEF DuplicateScheme, machine
<1>5. CASE ActivateScheme
  BY <1>5 DEF ActivateScheme, machine
<1>6. CASE JournalPower
  BY <1>6 DEF JournalPower, machine
<1>7. CASE JournalMouse
  BY <1>7 DEF JournalMouse, machine
<1>8. CASE WriteMouse
  BY <1>8 DEF WriteMouse, machine
<1>9. CASE JournalNetwork
  BY <1>9 DEF JournalNetwork, machine
<1>10. CASE WriteNetwork
  BY <1>10 DEF WriteNetwork, machine
<1>11. CASE Verify
  BY <1>11 DEF Verify, machine
<1>12. CASE Commit
  BY <1>12 DEF Commit, Return, machine
<1>13. CASE Fail
  BY <1>13 DEF Fail, machine
<1>14. CASE Rollback
  BY <1>14 DEF Rollback, machine
<1>15. CASE RestoreNetwork
  BY <1>15 DEF RestoreNetwork, machine
<1>16. CASE SaveNetworkRestored
  BY <1>16 DEF SaveNetworkRestored, machine
<1>17. CASE RestoreMouse
  BY <1>17 DEF RestoreMouse, machine
<1>18. CASE SaveMouseRestored
  BY <1>18 DEF SaveMouseRestored, machine
<1>19. CASE RestoreActiveScheme
  BY <1>19 DEF RestoreActiveScheme, machine
<1>20. CASE DeleteScheme
  BY <1>20 DEF DeleteScheme, machine
<1>21. CASE SavePowerRestored
  BY <1>21 DEF SavePowerRestored, machine
<1>22. CASE Finish
  BY <1>22 DEF Finish, Return, machine
<1>23. CASE Crash
  BY <1>23 DEF Crash, Return, machine
<1>24. CASE UNCHANGED vars
  BY <1>24 DEF vars, machine
<1> QED
  BY <1>1, <1>2, <1>3, <1>4, <1>5, <1>6, <1>7, <1>8, <1>9, <1>10, <1>11,
     <1>12, <1>13, <1>14, <1>15, <1>16, <1>17, <1>18, <1>19, <1>20, <1>21,
     <1>22, <1>23, <1>24 DEF Next, Apply, Undo

\* The same for the mouse,
LEMMA MouseSteps ==
    ASSUME TInv, [Next]_vars, pc # "idle", pc' # "idle"
    PROVE  \/ mouse' = mouse /\ tx'.mouseApplied = tx.mouseApplied
           \/ JournalMouse \/ WriteMouse \/ RestoreMouse
<1> USE DEF TInv, TypeOK, Running, Journal
<1>1. ASSUME NEW op \in Operations, Begin(op) PROVE FALSE
  BY <1>1 DEF Begin
<1>2. ASSUME NEW b \in Backups, BeginRestore(b) PROVE FALSE
  BY <1>2 DEF BeginRestore
<1>3. CASE WriteJournal
  BY <1>3 DEF WriteJournal, Return, machine
<1>4. CASE DuplicateScheme
  BY <1>4 DEF DuplicateScheme, machine
<1>5. CASE ActivateScheme
  BY <1>5 DEF ActivateScheme, machine
<1>6. CASE JournalPower
  BY <1>6 DEF JournalPower, machine
<1>7. CASE JournalRegistry
  BY <1>7 DEF JournalRegistry, machine
<1>8. CASE WriteRegistry
  BY <1>8 DEF WriteRegistry, machine
<1>9. CASE JournalNetwork
  BY <1>9 DEF JournalNetwork, machine
<1>10. CASE WriteNetwork
  BY <1>10 DEF WriteNetwork, machine
<1>11. CASE Verify
  BY <1>11 DEF Verify, machine
<1>12. CASE Commit
  BY <1>12 DEF Commit, Return, machine
<1>13. CASE Fail
  BY <1>13 DEF Fail, machine
<1>14. CASE Rollback
  BY <1>14 DEF Rollback, machine
<1>15. CASE RestoreNetwork
  BY <1>15 DEF RestoreNetwork, machine
<1>16. CASE SaveNetworkRestored
  BY <1>16 DEF SaveNetworkRestored, machine
<1>17. CASE RestoreRegistry
  BY <1>17 DEF RestoreRegistry, machine
<1>18. CASE RegistryRestored
  BY <1>18 DEF RegistryRestored, machine
<1>19. CASE SaveMouseRestored
  BY <1>19 DEF SaveMouseRestored, machine
<1>20. CASE RestoreActiveScheme
  BY <1>20 DEF RestoreActiveScheme, machine
<1>21. CASE DeleteScheme
  BY <1>21 DEF DeleteScheme, machine
<1>22. CASE SavePowerRestored
  BY <1>22 DEF SavePowerRestored, machine
<1>23. CASE Finish
  BY <1>23 DEF Finish, Return, machine
<1>24. CASE Crash
  BY <1>24 DEF Crash, Return, machine
<1>25. CASE UNCHANGED vars
  BY <1>25 DEF vars, machine
<1> QED
  BY <1>1, <1>2, <1>3, <1>4, <1>5, <1>6, <1>7, <1>8, <1>9, <1>10, <1>11,
     <1>12, <1>13, <1>14, <1>15, <1>16, <1>17, <1>18, <1>19, <1>20, <1>21,
     <1>22, <1>23, <1>24, <1>25 DEF Next, Apply, Undo

\* the Ethernet properties,
LEMMA NetworkSteps ==
    ASSUME TInv, [Next]_vars, pc # "idle", pc' # "idle"
    PROVE  \/ net' = net /\ tx'.netApplied = tx.netApplied
           \/ JournalNetwork \/ WriteNetwork \/ RestoreNetwork
<1> USE DEF TInv, TypeOK, Running, Journal
<1>1. ASSUME NEW op \in Operations, Begin(op) PROVE FALSE
  BY <1>1 DEF Begin
<1>2. ASSUME NEW b \in Backups, BeginRestore(b) PROVE FALSE
  BY <1>2 DEF BeginRestore
<1>3. CASE WriteJournal
  BY <1>3 DEF WriteJournal, Return, machine
<1>4. CASE DuplicateScheme
  BY <1>4 DEF DuplicateScheme, machine
<1>5. CASE ActivateScheme
  BY <1>5 DEF ActivateScheme, machine
<1>6. CASE JournalPower
  BY <1>6 DEF JournalPower, machine
<1>7. CASE JournalRegistry
  BY <1>7 DEF JournalRegistry, machine
<1>8. CASE WriteRegistry
  BY <1>8 DEF WriteRegistry, machine
<1>9. CASE JournalMouse
  BY <1>9 DEF JournalMouse, machine
<1>10. CASE WriteMouse
  BY <1>10 DEF WriteMouse, machine
<1>11. CASE Verify
  BY <1>11 DEF Verify, machine
<1>12. CASE Commit
  BY <1>12 DEF Commit, Return, machine
<1>13. CASE Fail
  BY <1>13 DEF Fail, machine
<1>14. CASE Rollback
  BY <1>14 DEF Rollback, machine
<1>15. CASE SaveNetworkRestored
  BY <1>15 DEF SaveNetworkRestored, machine
<1>16. CASE RestoreRegistry
  BY <1>16 DEF RestoreRegistry, machine
<1>17. CASE RegistryRestored
  BY <1>17 DEF RegistryRestored, machine
<1>18. CASE RestoreMouse
  BY <1>18 DEF RestoreMouse, machine
<1>19. CASE SaveMouseRestored
  BY <1>19 DEF SaveMouseRestored, machine
<1>20. CASE RestoreActiveScheme
  BY <1>20 DEF RestoreActiveScheme, machine
<1>21. CASE DeleteScheme
  BY <1>21 DEF DeleteScheme, machine
<1>22. CASE SavePowerRestored
  BY <1>22 DEF SavePowerRestored, machine
<1>23. CASE Finish
  BY <1>23 DEF Finish, Return, machine
<1>24. CASE Crash
  BY <1>24 DEF Crash, Return, machine
<1>25. CASE UNCHANGED vars
  BY <1>25 DEF vars, machine
<1> QED
  BY <1>1, <1>2, <1>3, <1>4, <1>5, <1>6, <1>7, <1>8, <1>9, <1>10, <1>11,
     <1>12, <1>13, <1>14, <1>15, <1>16, <1>17, <1>18, <1>19, <1>20, <1>21,
     <1>22, <1>23, <1>24, <1>25 DEF Next, Apply, Undo

\* and the power scheme.
LEMMA PowerSteps ==
    ASSUME TInv, [Next]_vars, pc # "idle", pc' # "idle"
    PROVE  \/ active' = active /\ schemes' = schemes /\ tx'.powerApplied = tx.powerApplied
           \/ DuplicateScheme \/ ActivateScheme \/ RestoreActiveScheme \/ DeleteScheme
<1> USE DEF TInv, TypeOK, Running, Journal
<1>1. ASSUME NEW op \in Operations, Begin(op) PROVE FALSE
  BY <1>1 DEF Begin
<1>2. ASSUME NEW b \in Backups, BeginRestore(b) PROVE FALSE
  BY <1>2 DEF BeginRestore
<1>3. CASE WriteJournal
  BY <1>3 DEF WriteJournal, Return, machine
<1>4. CASE JournalPower
  BY <1>4 DEF JournalPower, machine
<1>5. CASE JournalRegistry
  BY <1>5 DEF JournalRegistry, machine
<1>6. CASE WriteRegistry
  BY <1>6 DEF WriteRegistry, machine
<1>7. CASE JournalMouse
  BY <1>7 DEF JournalMouse, machine
<1>8. CASE WriteMouse
  BY <1>8 DEF WriteMouse, machine
<1>9. CASE JournalNetwork
  BY <1>9 DEF JournalNetwork, machine
<1>10. CASE WriteNetwork
  BY <1>10 DEF WriteNetwork, machine
<1>11. CASE Verify
  BY <1>11 DEF Verify, machine
<1>12. CASE Commit
  BY <1>12 DEF Commit, Return, machine
<1>13. CASE Fail
  BY <1>13 DEF Fail, machine
<1>14. CASE Rollback
  BY <1>14 DEF Rollback, machine
<1>15. CASE RestoreNetwork
  BY <1>15 DEF RestoreNetwork, machine
<1>16. CASE SaveNetworkRestored
  BY <1>16 DEF SaveNetworkRestored, machine
<1>17. CASE RestoreRegistry
  BY <1>17 DEF RestoreRegistry, machine
<1>18. CASE RegistryRestored
  BY <1>18 DEF RegistryRestored, machine
<1>19. CASE RestoreMouse
  BY <1>19 DEF RestoreMouse, machine
<1>20. CASE SaveMouseRestored
  BY <1>20 DEF SaveMouseRestored, machine
<1>21. CASE SavePowerRestored
  BY <1>21 DEF SavePowerRestored, machine
<1>22. CASE Finish
  BY <1>22 DEF Finish, Return, machine
<1>23. CASE Crash
  BY <1>23 DEF Crash, Return, machine
<1>24. CASE UNCHANGED vars
  BY <1>24 DEF vars, machine
<1> QED
  BY <1>1, <1>2, <1>3, <1>4, <1>5, <1>6, <1>7, <1>8, <1>9, <1>10, <1>11,
     <1>12, <1>13, <1>14, <1>15, <1>16, <1>17, <1>18, <1>19, <1>20, <1>21,
     <1>22, <1>23, <1>24 DEF Next, Apply, Undo

\* A rollback goes through its stages.
LEMMA UndoneStep ==
    ASSUME EInv, [Next]_vars
    PROVE  Undone'
<1> USE NoJournalAssumption, CountsAssumption DEF EInv, WInv, SInv, TInv,
   TypeOK, Running, Journal, Undone, Last
<1>1. ASSUME NEW op \in Operations, Begin(op) PROVE Undone'
  BY <1>1 DEF Begin, Goto
<1>2. CASE WriteJournal
  BY <1>2 DEF WriteJournal, Saved, Replaced, SaveFailed, Goto, Return, AfterJournal,
     AfterPower, AfterRegistry, AfterMouse, machine, local, history
<1>3. CASE DuplicateScheme
  BY <1>3 DEF DuplicateScheme, Goto, machine, local, history
<1>4. CASE ActivateScheme
  BY <1>4 DEF ActivateScheme, Goto, machine, local, history
<1>5. CASE JournalPower
  BY <1>5 DEF JournalPower, Saved, Replaced, SaveFailed, Goto, AfterPower, AfterRegistry,
     AfterMouse, machine, local, history
<1>6. CASE JournalRegistry
  BY <1>6 DEF JournalRegistry, Saved, Replaced, SaveFailed, Goto, machine, local, history
<1>7. CASE WriteRegistry
  BY <1>7 DEF WriteRegistry, Goto, AfterRegistry, AfterMouse, machine, local,
     history
<1>8. CASE JournalMouse
  BY <1>8 DEF JournalMouse, Saved, Replaced, SaveFailed, Goto, machine, local, history
<1>9. CASE WriteMouse
  BY <1>9 DEF WriteMouse, Goto, AfterMouse, machine, local, history
<1>10. CASE JournalNetwork
  BY <1>10 DEF JournalNetwork, Saved, Replaced, SaveFailed, Goto, machine, local, history
<1>11. CASE WriteNetwork
  BY <1>11 DEF WriteNetwork, Goto, machine, local, history
<1>12. CASE Verify
  BY <1>12 DEF Verify, Goto, machine, local, history
<1>13. CASE Commit
  BY <1>13 DEF Commit, Saved, Replaced, SaveFailed, Goto, Return, machine, local, history
<1>14. CASE Fail
  BY <1>14 DEF Fail, Saved, Replaced, SaveFailed, Goto, machine, local, history
<1>15. CASE Rollback
  <2>1. /\ step' = tx'.applied /\ registryFailed' = FALSE /\ tx'.netApplied = tx.netApplied
        /\ pc' = IF tx.netApplied THEN "restoreNetwork" ELSE "restoreRegistry"
    BY <1>15 DEF Rollback, Goto
  <2>2. tx' \in Journal
    BY <1>15 DEF Rollback, Statuses
  <2>3. \A k \in Journalled(tx') : k <= tx'.applied /\ k \in Nat
    BY <2>2 DEF Journalled, Operation, Keys
  <2> QED
    BY <2>1, <2>2, <2>3
<1>16. CASE RestoreNetwork
  <2>1. \A k \in Journalled(tx) : k <= tx.applied /\ k \in Nat
    BY <1>16 DEF RestoreNetwork, Journalled, Operation, Keys
  <2>2. /\ tx'.applied = tx.applied /\ tx'.registry = tx.registry
        /\ Journalled(tx') = Journalled(tx)
        /\ pc' = "networkRestored" => ~tx'.netApplied
        /\ pc' # "networkRestored" => problems'
    BY <1>16 DEF RestoreNetwork, Journalled, Goto
  <2> QED
    BY <1>16, <2>1, <2>2 DEF RestoreNetwork, Goto
<1>17. CASE SaveNetworkRestored
  <2>1. \A k \in Journalled(tx) : k <= tx.applied /\ k \in Nat
    BY <1>17 DEF SaveNetworkRestored, Journalled, Operation, Keys
  <2> QED
    BY <1>17, <2>1 DEF SaveNetworkRestored, SaveAndNote, Goto, machine
<1>18. CASE RestoreRegistry
  <2>1. PICK k \in Remaining :
          /\ \A other \in Remaining : other <= k
          /\ step' = k - 1
          /\ \/ /\ reg' = [reg EXCEPT ![k] = tx.registry[k]]
                /\ UNCHANGED <<registryFailed, problems, faults>>
             \/ registryFailed' = TRUE /\ problems' = TRUE
    BY <1>18 DEF RestoreRegistry
  <2>2. pc = "restoreRegistry" /\ pc' = pc /\ tx' = tx
    BY <1>18 DEF RestoreRegistry
  <2>3. k \in Keys /\ k \in Nat /\ step \in Nat
    BY <2>1, <2>2 DEF Remaining, Journalled, Operation, Keys
  <2>4. ASSUME reg' = [reg EXCEPT ![k] = tx.registry[k]], ~registryFailed,
               NEW i \in Journalled(tx), i > step'
        PROVE  reg'[i] = tx.registry[i]
    <3>1. i \in Keys /\ i \in Nat
      BY <2>2 DEF Journalled, Operation, Keys
    <3>2. CASE i = k
      BY <2>3, <2>4, <3>2
    <3>3. CASE i # k
      <4>1. i > k
        BY <2>1, <2>3, <2>4, <3>1, <3>3
      <4>2. i > step
        BY <2>1, <2>3, <2>4, <3>1, <4>1 DEF Remaining
      <4> QED
        BY <2>2, <2>4, <3>1, <3>3, <4>2
    <3> QED
      BY <3>2, <3>3
  <2> QED
    BY <2>1, <2>2, <2>4
<1>19. CASE RegistryRestored
  BY <1>19 DEF RegistryRestored, SaveAndNote, Saved, Replaced, SaveFailed, Goto,
     AfterMouseRestore, Remaining, Journalled, machine, local, history
<1>20. CASE RestoreMouse
  BY <1>20 DEF RestoreMouse, Goto, AfterMouseRestore, machine, local, history
<1>21. CASE SaveMouseRestored
  BY <1>21 DEF SaveMouseRestored, SaveAndNote, Saved, Replaced, SaveFailed, Goto,
     AfterMouseRestore, machine, local, history
<1>22. CASE RestoreActiveScheme
  BY <1>22 DEF RestoreActiveScheme, Goto, machine, local, history
<1>23. CASE DeleteScheme
  BY <1>23 DEF DeleteScheme, Goto, machine, local, history
<1>24. CASE SavePowerRestored
  BY <1>24 DEF SavePowerRestored, SaveAndNote, Saved, Replaced, SaveFailed, Goto, machine,
     local, history
<1>25. CASE Finish
  BY <1>25 DEF Finish, Saved, Replaced, SaveFailed, Return, machine, local, history
<1>26. ASSUME NEW b \in Backups, BeginRestore(b) PROVE Undone'
  BY <1>26 DEF BeginRestore, Goto
<1>27. CASE Crash
  BY <1>27 DEF Crash, Return, machine, local, history
<1>28. CASE UNCHANGED vars
  BY <1>28 DEF vars, machine, local, history
<1> QED
  BY <1>1, <1>2, <1>3, <1>4, <1>5, <1>6, <1>7, <1>8, <1>9, <1>10, <1>11,
     <1>12, <1>13, <1>14, <1>15, <1>16, <1>17, <1>18, <1>19, <1>20, <1>21,
     <1>22, <1>23, <1>24, <1>25, <1>26, <1>27, <1>28 DEF Next, Apply, Undo

\* Journals that announce the same are as clean.
LEMMA CleanSame ==
    ASSUME NEW i, NEW j, NEW M, NEW b, NEW found, Clean(M, j, b, found),
           i.op = j.op, i.applied = j.applied, i.network = j.network,
           i.mouseApplied = j.mouseApplied, i.netApplied = j.netApplied,
           i.powerApplied = j.powerApplied
    PROVE  Clean(M, i, b, found)
BY DEF Clean, Journalled, NetworkTargets

\* What the journal on disk says is enough too.
LEMMA DiskClean ==
    ASSUME EInv, ordered, pc \notin {"idle", "journal"}
    PROVE  Clean(Current, disk[cur], cur, before[cur])
<1>1. /\ Truth(tx, before[cur]) /\ SameCapture(disk[cur], tx)
      /\ Clean(Current, tx, cur, before[cur])
  BY DEF EInv, WInv, Truths, CurrentClean
<1>2. ASSUME NEW k \in Keys, reg[k] # before[cur].reg[k]
      PROVE  k \in Journalled(disk[cur])
  <2>1. k \in Journalled(tx)
    BY <1>1, <1>2 DEF Clean, Current
  <2>2. reg[k] # tx.registry[k]
    BY <1>1, <1>2, <2>1 DEF Truth, Journalled
  <2> QED
    BY <1>1, <2>1, <2>2 DEF EInv, WInv, RegistryAhead, Journalled, SameCapture
<1>3. ASSUME NEW m \in MouseKeys, mouse[m] # before[cur].mouse[m]
      PROVE  disk[cur].mouseApplied /\ m \in MouseTargets(disk[cur].op)
  <2>1. tx.mouseApplied /\ m \in MouseTargets(tx.op)
    BY <1>1, <1>3 DEF Clean, Current
  <2>2. mouse[m] # tx.mouse[m]
    BY <1>1, <1>3, <2>1 DEF Truth
  <2> QED
    BY <1>1, <2>1, <2>2 DEF EInv, WInv, MouseAhead, SameCapture
<1>4. ASSUME NEW p \in Props, net[p] # before[cur].net[p]
      PROVE  disk[cur].netApplied /\ p \in NetworkTargets(disk[cur])
  <2>1. tx.netApplied /\ p \in NetworkTargets(tx)
    BY <1>1, <1>4 DEF Clean, Current
  <2>2. net[p] # tx.network[p]
    BY <1>1, <1>4, <2>1 DEF Truth
  <2> QED
    BY <1>1, <2>1, <2>2 DEF EInv, WInv, NetworkAhead, NetworkTargets, SameCapture
<1>5. active # before[cur].active => disk[cur].powerApplied
  BY <1>1 DEF Clean, Current, EInv, WInv, PowerAhead
<1> QED
  BY <1>1, <1>2, <1>3, <1>4, <1>5 DEF Clean, Current

\* A rollback that met no problem has undone everything when it finishes.
LEMMA ExactAtFinish ==
    ASSUME EInv, ordered, pc = "finish", ~problems
    PROVE  Current = before[cur]
<1>1. /\ cur \in Backups /\ before[cur] \in Machine /\ tx \in Journal
      /\ Clean(Current, tx, cur, before[cur])
  BY DEF EInv, WInv, SInv, TInv, Running, Found, CurrentClean
<1>2. /\ tx.applied = 0 /\ ~tx.mouseApplied /\ ~tx.netApplied /\ ~tx.powerApplied
      /\ cur \notin schemes
  BY DEF EInv, Undone, Last, WInv, SInv, PowerStages, SchemeHeld
<1>3. Journalled(tx) = {}
  BY <1>1, <1>2, CountsAssumption DEF Journalled, Journal, Operation, Keys
<1>4. /\ \A k \in Keys : reg[k] = before[cur].reg[k]
      /\ \A m \in MouseKeys : mouse[m] = before[cur].mouse[m]
      /\ \A p \in Props : net[p] = before[cur].net[p]
      /\ active = before[cur].active /\ schemes = before[cur].schemes
  BY <1>1, <1>2, <1>3 DEF Clean, Current
<1>5. /\ reg \in [Keys -> Values] /\ mouse \in [MouseKeys -> Values] /\ net \in [Props -> Values]
  BY DEF EInv, WInv, SInv, TInv, TypeOK
<1>6. /\ before[cur].reg \in [Keys -> Values] /\ before[cur].mouse \in [MouseKeys -> Values]
      /\ before[cur].net \in [Props -> Values]
      /\ before[cur] = [reg |-> before[cur].reg, mouse |-> before[cur].mouse,
                        net |-> before[cur].net, active |-> before[cur].active,
                        schemes |-> before[cur].schemes]
  BY <1>1 DEF Machine
<1>7. reg = before[cur].reg
  BY <1>4, <1>5, <1>6
<1>8. mouse = before[cur].mouse
  BY <1>4, <1>5, <1>6
<1>9. net = before[cur].net
  BY <1>4, <1>5, <1>6
<1> QED
  BY <1>4, <1>6, <1>7, <1>8, <1>9 DEF Current

\* The steps that end an operation.
LEMMA EndSteps ==
    ASSUME [Next]_vars, pc # "idle", pc' = "idle"
    PROVE  WriteJournal \/ Commit \/ Finish \/ Crash
<1>1. ~(\/ DuplicateScheme \/ ActivateScheme \/ JournalPower \/ JournalRegistry
        \/ WriteRegistry \/ JournalMouse \/ WriteMouse \/ JournalNetwork
        \/ WriteNetwork \/ Verify \/ Fail)
  BY DEF DuplicateScheme, ActivateScheme, JournalPower, JournalRegistry, WriteRegistry,
     JournalMouse, WriteMouse, JournalNetwork, WriteNetwork, Verify, Fail, Goto,
     AfterPower, AfterRegistry, AfterMouse
<1>2. ~(\/ Rollback \/ RestoreNetwork \/ SaveNetworkRestored \/ RestoreRegistry
        \/ RegistryRestored \/ RestoreMouse \/ SaveMouseRestored
        \/ RestoreActiveScheme \/ DeleteScheme \/ SavePowerRestored)
  BY DEF Rollback, RestoreNetwork, SaveNetworkRestored, RestoreRegistry, RegistryRestored,
     RestoreMouse, SaveMouseRestored, RestoreActiveScheme, DeleteScheme,
     SavePowerRestored, Goto, AfterMouseRestore
<1>3. ~(\/ UNCHANGED vars \/ \E op \in Operations : Begin(op)
        \/ \E b \in Backups : BeginRestore(b))
  BY DEF vars, Begin, BeginRestore
<1> QED
  BY <1>1, <1>2, <1>3 DEF Next, Apply, Undo

\* The machine stays, and what is saved is the journal in memory with its last
\* status.
LEMMA ReturnSteps ==
    ASSUME TInv, [Next]_vars, pc # "idle", pc' = "idle"
    PROVE  /\ UNCHANGED <<machine, issued, before, ordered>>
           /\ \/ disk' = disk
              \/ \E s \in Statuses :
                   /\ disk' = [disk EXCEPT ![cur] = [tx EXCEPT !.status = s]]
                   /\ s = "rolled_back" => tx.status = s \/ (pc = "finish" /\ ~problems)
<1> USE DEF history
<1>1. CASE WriteJournal
  <2>1. tx = [tx EXCEPT !.status = tx.status] /\ tx.status \in Statuses
    BY <1>1 DEF WriteJournal, TInv, Running, Journal
  <2> QED
    BY <1>1, <2>1 DEF WriteJournal, Saved, Replaced, SaveFailed
<1>2. CASE Commit
  BY <1>2 DEF Commit, Saved, Replaced, SaveFailed, Statuses
<1>3. CASE Finish
  BY <1>3 DEF Finish, Saved, Replaced, SaveFailed, Statuses
<1>4. CASE Crash
  BY <1>4 DEF Crash
<1> QED
  BY <1>1, <1>2, <1>3, <1>4, EndSteps

LEMMA FoundStep ==
    ASSUME EInv, [Next]_vars
    PROVE  Found'
<1> USE DEF EInv, WInv, SInv, TInv
<1>1. ASSUME NEW op \in Operations, Begin(op) PROVE Found'
  <2>1. issued' = issued + 1 /\ before' = [before EXCEPT ![issued + 1] = Current]
    BY <1>1 DEF Begin, Current
  <2>2. Current \in Machine
    BY DEF Current, Machine, TypeOK
  <2> QED
    BY <2>1, <2>2, CountsAssumption DEF Found, TypeOK, Backups
<1>2. ASSUME NEW b \in Backups, BeginRestore(b) PROVE Found'
  BY <1>2 DEF BeginRestore, Found
<1>3. CASE pc # "idle"
  BY <1>3, KeepsStep DEF Keeps, Found
<1>4. CASE UNCHANGED vars
  BY <1>4 DEF vars, history, Found
<1> QED
  BY <1>1, <1>2, <1>3, <1>4, IdleStep

\* An operation that begins has found the machine as it is, under a new number.
LEMMA BeginFacts ==
    ASSUME EInv, NEW op \in Operations, Begin(op)
    PROVE  /\ pc = "idle" /\ pc' = "journal" /\ cur' \in Backups
           /\ Current' = Current /\ before'[cur'] = Current
           /\ disk' = disk /\ ordered' = ordered
           /\ \A b \in Backups : b >= cur' => disk[b] = NoJournal
           /\ \A b \in Backups : disk[b] # NoJournal => before'[b] = before[b]
<1>1. /\ cur' = issued + 1 /\ issued + 1 \in Backups
      /\ before' = [before EXCEPT ![issued + 1] = Current]
  BY CountsAssumption DEF Begin, Backups, Current, EInv, WInv, SInv, TInv, TypeOK
<1>2. before'[cur'] = Current
  BY <1>1 DEF EInv, WInv, SInv, TInv, TypeOK
<1>3. \A b \in Backups : b >= cur' => disk[b] = NoJournal
  BY <1>1, CountsAssumption DEF EInv, WInv, SInv, TInv, TypeOK, DiskCaptures, Backups
<1>4. \A b \in Backups : disk[b] # NoJournal => before'[b] = before[b]
  BY CaptureIsTrue DEF EInv, WInv
<1> QED
  BY <1>1, <1>2, <1>3, <1>4 DEF Begin, Goto, machine, Current

\* No running operation goes back to its first save.
LEMMA NothingYetOnly ==
    ASSUME [Next]_vars, pc # "idle", ~UNCHANGED vars
    PROVE  pc' # "journal"
BY DEF Next, Apply, Undo, Begin, BeginRestore, WriteJournal, DuplicateScheme,
   ActivateScheme, JournalPower, JournalRegistry, WriteRegistry, JournalMouse,
   WriteMouse, JournalNetwork, WriteNetwork, Verify, Commit, Fail, Rollback,
   RestoreNetwork, SaveNetworkRestored, RestoreRegistry, RegistryRestored,
   RestoreMouse, SaveMouseRestored, RestoreActiveScheme, DeleteScheme,
   SavePowerRestored, Finish, Crash, Return, Goto, AfterJournal, AfterPower,
   AfterRegistry, AfterMouse, AfterMouseRestore

LEMMA NothingYetStep ==
    ASSUME EInv, [Next]_vars
    PROVE  NothingYet'
<1>1. ASSUME NEW op \in Operations, Begin(op) PROVE NothingYet'
  BY <1>1, BeginFacts DEF NothingYet
<1>2. ASSUME NEW b \in Backups, BeginRestore(b) PROVE NothingYet'
  BY <1>2 DEF BeginRestore, Goto, NothingYet
<1>3. CASE UNCHANGED vars
  <2>1. /\ Current' = Current /\ before' = before /\ cur' = cur
        /\ pc' = pc /\ disk' = disk
    BY <1>3 DEF vars, machine, history, local, Current
  <2> QED
    BY <2>1 DEF EInv, NothingYet
<1>4. CASE pc # "idle" /\ ~UNCHANGED vars
  <2>1. pc' # "journal"
    BY <1>4, NothingYetOnly
  <2> QED
    BY <2>1 DEF NothingYet
<1> QED
  BY <1>1, <1>2, <1>3, <1>4, IdleStep

\* Other journals than that of the running operation stay as they are.
LEMMA OthersKept ==
    ASSUME TInv, [Next]_vars, NEW b \in Backups, pc = "idle" \/ b # cur
    PROVE  disk'[b] = disk[b]
<1>1. CASE pc = "idle"
  BY <1>1, IdleStep DEF Begin, BeginRestore, vars
<1>2. CASE pc # "idle" /\ b # cur
  BY <1>2, SavesStep DEF Saves, TInv, TypeOK
<1> QED
  BY <1>1, <1>2

LEMMA OnTopStep ==
    ASSUME EInv, [Next]_vars
    PROVE  OnTop'
<1> SUFFICES ASSUME ordered', pc' \notin {"idle", "journal"}
             PROVE  Newest(cur)'
  BY DEF OnTop
<1> USE DEF EInv, WInv, SInv
<1>1. ASSUME NEW op \in Operations, Begin(op) PROVE FALSE
  BY <1>1 DEF Begin, Goto
<1>2. ASSUME NEW b \in Backups, BeginRestore(b) PROVE Newest(cur)'
  BY <1>2 DEF BeginRestore, Newest, Outstanding
<1>3. CASE UNCHANGED vars
  BY <1>3 DEF vars, history, local, OnTop, Newest, Outstanding
<1>4. CASE pc # "idle"
  <2>1. ordered /\ cur' = cur /\ cur \in Backups
    BY <1>4, KeepsStep DEF Keeps, TInv, Running
  <2>2. disk'[cur] # NoJournal /\ disk'[cur].status # "rolled_back"
    BY <2>1, OpenStep, NoJournalAssumption DEF Open
  <2>3. \A b \in Backups : b > cur => ~Outstanding(b)
    BY <1>4, <2>1, CountsAssumption DEF OnTop, Newest, NothingYet, Outstanding, Backups
  <2>4. \A b \in Backups : b > cur => disk'[b] = disk[b]
    BY <2>1, OthersKept, CountsAssumption DEF Backups
  <2> QED
    BY <2>1, <2>2, <2>3, <2>4 DEF Newest, Outstanding
<1> QED
  BY <1>1, <1>2, <1>3, <1>4, IdleStep

\* What the steps of a running operation change stays announced in memory:
\* registry,
LEMMA RegistryClean ==
    ASSUME EInv, [Next]_vars, ordered, pc # "idle", pc' # "idle",
           NEW k \in Keys, reg'[k] # before[cur].reg[k]
    PROVE  k \in Journalled(tx')
<1> USE DEF EInv, WInv, SInv, TInv, TypeOK
<1>1. /\ tx \in Journal /\ tx'.op = tx.op /\ tx'.registry = tx.registry
      /\ reg[k] # before[cur].reg[k] => k \in Journalled(tx)
      /\ Truth(tx, before[cur])
  BY KeepsStep DEF Running, Keeps, SameCapture, CurrentClean, Clean, Current, Truths
<1>2. CASE reg' = reg /\ tx'.applied = tx.applied
  BY <1>1, <1>2 DEF Journalled
<1>3. CASE JournalRegistry
  <2>1. PICK i \in Keys : NextKey(i) /\ tx' = [tx EXCEPT !.applied = i] /\ reg' = reg
    BY <1>3 DEF JournalRegistry, machine
  <2>2. tx'.applied = i /\ i > tx.applied /\ k \in Journalled(tx)
    BY <1>1, <2>1 DEF NextKey, Journal
  <2>3. i \in Nat /\ k \in Nat /\ tx.applied \in Nat
    BY <1>1, CountsAssumption DEF Keys, Journal
  <2>4. k <= tx'.applied
    BY <2>2, <2>3 DEF Journalled
  <2> QED
    BY <1>1, <2>2, <2>4 DEF Journalled
<1>4. CASE WriteRegistry
  <2>1. tx' = tx /\ (k # tx.applied => reg'[k] = reg[k])
    BY <1>4 DEF WriteRegistry
  <2>2. tx.applied \in tx.op.keys
    BY <1>4 DEF WriteRegistry, RegistryAhead
  <2>3. CASE k = tx.applied
    BY <2>1, <2>2, <2>3, CountsAssumption DEF Journalled, Keys
  <2>4. CASE k # tx.applied
    BY <1>1, <2>1, <2>4
  <2> QED
    BY <2>3, <2>4
<1>5. CASE RestoreRegistry
  <2>1. PICK i \in Remaining : reg' \in {reg, [reg EXCEPT ![i] = tx.registry[i]]}
    BY <1>5 DEF RestoreRegistry
  <2>2. tx' = tx /\ i \in tx.op.keys
    BY <1>5, <2>1 DEF RestoreRegistry, Remaining, Journalled
  <2>3. tx.registry[i] = before[cur].reg[i]
    BY <1>1, <2>2 DEF Truth
  <2>4. reg'[k] = reg[k]
    BY <2>1, <2>3
  <2> QED
    BY <1>1, <2>2, <2>4
<1>6. CASE RegistryRestored
  <2>1. pc = "restoreRegistry" /\ reg' = reg /\ Remaining = {}
    BY <1>6 DEF RegistryRestored, machine
  <2>2. k \in Journalled(tx)
    BY <1>1, <2>1
  <2>3. tx' = tx \/ ~registryFailed
    BY <1>6 DEF RegistryRestored
  <2>4. CASE ~registryFailed
    <3>1. k > step
      BY <2>1, <2>2, CountsAssumption DEF Remaining, Keys
    <3>2. reg[k] = tx.registry[k]
      BY <2>1, <2>2, <2>4, <3>1 DEF Undone
    <3> QED
      BY <1>1, <2>1, <2>2, <3>2 DEF Truth, Journalled
  <2> QED
    BY <2>2, <2>3, <2>4
<1> QED
  BY <1>2, <1>3, <1>4, <1>5, <1>6, RegistrySteps

\* mouse,
LEMMA MouseClean ==
    ASSUME EInv, [Next]_vars, ordered, pc # "idle", pc' # "idle",
           NEW m \in MouseKeys, mouse'[m] # before[cur].mouse[m]
    PROVE  tx'.mouseApplied /\ m \in MouseTargets(tx'.op)
<1> USE DEF EInv, WInv, SInv, TInv, TypeOK
<1>1. /\ tx \in Journal /\ tx'.op = tx.op
      /\ mouse[m] # before[cur].mouse[m] => tx.mouseApplied /\ m \in MouseTargets(tx.op)
      /\ Truth(tx, before[cur])
  BY KeepsStep DEF Running, Keeps, SameCapture, CurrentClean, Clean, Current, Truths
<1>2. CASE mouse' = mouse /\ tx'.mouseApplied = tx.mouseApplied
  BY <1>1, <1>2
<1>3. CASE JournalMouse
  BY <1>1, <1>3 DEF JournalMouse, machine, Journal
<1>4. CASE WriteMouse
  <2>1. tx' = tx /\ MouseTargets(tx.op) # {}
    BY <1>4 DEF WriteMouse, MouseStages
  <2>2. m \notin MouseTargets(tx.op) => mouse'[m] \in {mouse[m], tx.mouse[m]}
    BY <1>4 DEF WriteMouse
  <2>3. m \in MouseTargets(tx.op)
    BY <1>1, <2>1, <2>2 DEF Truth
  <2>4. tx.mouseApplied
    BY <1>4 DEF WriteMouse, MouseAhead
  <2> QED
    BY <2>1, <2>3, <2>4
<1>5. CASE RestoreMouse
  <2>1. MouseBack[m] = IF m \in MouseTargets(tx.op) THEN tx.mouse[m] ELSE mouse[m]
    BY DEF MouseBack
  <2>2. MouseBack[m] # before[cur].mouse[m] =>
          mouse[m] # before[cur].mouse[m] /\ m \notin MouseTargets(tx.op)
    BY <1>1, <2>1 DEF Truth
  <2>3. mouse' = mouse /\ tx' = tx
    BY <1>1, <1>5, <2>2 DEF RestoreMouse
  <2> QED
    BY <1>1, <2>3
<1> QED
  BY <1>2, <1>3, <1>4, <1>5, MouseSteps

\* Ethernet,
LEMMA NetworkClean ==
    ASSUME EInv, [Next]_vars, ordered, pc # "idle", pc' # "idle",
           NEW p \in Props, net'[p] # before[cur].net[p]
    PROVE  tx'.netApplied /\ p \in NetworkTargets(tx')
<1> USE DEF EInv, WInv, SInv, TInv, TypeOK
<1>1. /\ tx \in Journal /\ NetworkTargets(tx') = NetworkTargets(tx)
      /\ net[p] # before[cur].net[p] => tx.netApplied /\ p \in NetworkTargets(tx)
      /\ Truth(tx, before[cur])
  BY KeepsStep DEF Running, Keeps, SameCapture, CurrentClean, Clean, Current, Truths,
     NetworkTargets
<1>2. CASE net' = net /\ tx'.netApplied = tx.netApplied
  BY <1>1, <1>2
<1>3. CASE JournalNetwork
  BY <1>1, <1>3 DEF JournalNetwork, machine, Journal
<1>4. CASE WriteNetwork
  <2>1. tx' = tx /\ (p \notin NetworkTargets(tx) => net'[p] = net[p])
    BY <1>4 DEF WriteNetwork
  <2>2. tx.netApplied
    BY <1>4 DEF WriteNetwork, NetworkAhead
  <2> QED
    BY <1>1, <2>1, <2>2
<1>5. CASE RestoreNetwork
  <2>1. PICK done \in SUBSET NetworkTargets(tx) :
          /\ net' = [q \in Props |-> IF q \in done THEN tx.network[q] ELSE net[q]]
          /\ done = NetworkTargets(tx) \/ tx' = tx
    BY <1>5 DEF RestoreNetwork
  <2>2. p \notin done
    BY <1>1, <2>1 DEF Truth
  <2>3. net'[p] = net[p]
    BY <2>1, <2>2
  <2> QED
    BY <1>1, <2>1, <2>2, <2>3
<1> QED
  BY <1>2, <1>3, <1>4, <1>5, NetworkSteps

\* and power scheme, of which only the created one is new.
LEMMA PowerClean ==
    ASSUME EInv, [Next]_vars, ordered, pc # "idle", pc' # "idle"
    PROVE  /\ active' # before[cur].active => tx'.powerApplied
           /\ schemes' \ {cur} = before[cur].schemes
<1> USE DEF EInv, WInv, SInv, TInv, TypeOK
<1>1. /\ tx \in Journal
      /\ active # before[cur].active => tx.powerApplied
      /\ schemes \ {cur} = before[cur].schemes
      /\ Truth(tx, before[cur]) /\ PowerTold(tx)
  BY DEF Running, CurrentClean, Clean, Current, Truths
<1>2. CASE /\ active' = active /\ schemes' = schemes
           /\ tx'.powerApplied = tx.powerApplied
  BY <1>1, <1>2
<1>3. CASE DuplicateScheme
  BY <1>1, <1>3 DEF DuplicateScheme
<1>4. CASE ActivateScheme
  BY <1>1, <1>4 DEF ActivateScheme, PowerAhead, Journal
<1>5. CASE RestoreActiveScheme
  BY <1>1, <1>5 DEF RestoreActiveScheme, PowerAhead, PowerTold, Truth
<1>6. CASE DeleteScheme
  <2>1. active = before[cur].active
    BY <1>1, <1>6 DEF DeleteScheme, PowerAhead, PowerTold, Truth, Undone
  <2> QED
    BY <1>1, <1>6, <2>1 DEF DeleteScheme
<1> QED
  BY <1>2, <1>3, <1>4, <1>5, <1>6, PowerSteps

LEMMA CurrentCleanStep ==
    ASSUME EInv, [Next]_vars
    PROVE  CurrentClean'
<1> SUFFICES ASSUME ordered', pc' # "idle"
             PROVE  Clean(Current', tx', cur', before'[cur'])
  BY DEF CurrentClean
<1>1. ASSUME NEW op \in Operations, Begin(op)
      PROVE  Clean(Current', tx', cur', before'[cur'])
  <2>1. cur' \notin schemes
    <3>1. cur' \in Backups /\ \A b \in Backups : b >= cur' => disk[b] = NoJournal
      BY <1>1, BeginFacts
    <3>2. disk[cur'] = NoJournal
      BY <3>1, CountsAssumption DEF Backups
    <3> QED
      BY <3>1, <3>2 DEF EInv, WInv, SInv, SchemeJournalled, Outstanding
  <2>2. Clean(Current, tx', cur', Current)
    BY <2>1 DEF Clean, Current
  <2> QED
    BY <1>1, <2>2, BeginFacts
<1>2. ASSUME NEW b \in Backups, BeginRestore(b)
      PROVE  Clean(Current', tx', cur', before'[cur'])
  <2>1. /\ ordered /\ pc = "idle" /\ Newest(b) /\ tx' = disk[b] /\ cur' = b
        /\ before' = before /\ Current' = Current
    BY <1>2 DEF BeginRestore, machine, Current
  <2> QED
    BY <2>1 DEF EInv, NewestClean
<1>3. CASE UNCHANGED vars
  <2>1. Current' = Current /\ tx' = tx /\ cur' = cur /\ before' = before
    BY <1>3 DEF vars, machine, history, local, Current
  <2> QED
    BY <1>3, <2>1 DEF EInv, CurrentClean, vars, history
<1>4. CASE pc # "idle"
  <2>1. ordered /\ cur' = cur /\ before' = before
    BY <1>4, KeepsStep DEF Keeps, EInv, WInv, SInv
  <2> QED
    BY <1>4, <2>1, RegistryClean, MouseClean, NetworkClean, PowerClean DEF Clean, Current
<1> QED
  BY <1>1, <1>2, <1>3, <1>4, IdleStep

\* When an operation ends and another journal becomes the newest one, the
\* operation has saved nothing or undone everything.
LEMMA ReturnToOlder ==
    ASSUME EInv, [Next]_vars, pc # "idle", pc' = "idle", ordered,
           NEW b \in Backups, b # cur, Newest(b)'
    PROVE  /\ disk'[b] = disk[b] /\ Current' = Current /\ before' = before
           /\ \/ pc = "journal" /\ Newest(b)
              \/ Below(b, cur) /\ Current = before[cur]
<1> USE DEF EInv, WInv, SInv
<1>1. /\ Current' = Current /\ before' = before
      /\ \/ disk' = disk
         \/ \E s \in Statuses :
              /\ disk' = [disk EXCEPT ![cur] = [tx EXCEPT !.status = s]]
              /\ s = "rolled_back" => tx.status = s \/ (pc = "finish" /\ ~problems)
  BY ReturnSteps DEF machine, Current
<1>2. cur \in Backups /\ tx \in Journal
  BY DEF TInv, Running
<1>3. \A c \in Backups : c # cur => disk'[c] = disk[c]
  BY OthersKept
<1>4. \A c \in Backups : c > cur => ~Outstanding(c)
  BY <1>2, CountsAssumption DEF NothingYet, OnTop, Newest, Outstanding, Backups
<1>5. Outstanding(b) /\ b < cur /\ disk'[b] = disk[b]
  BY <1>2, <1>3, <1>4, CountsAssumption DEF Newest, Outstanding, Backups
<1>6. disk'[cur] = NoJournal \/ disk'[cur].status = "rolled_back"
  <2>1. cur > b
    BY <1>2, <1>5, CountsAssumption DEF Backups
  <2> QED
    BY <1>2, <2>1 DEF Newest, Outstanding
<1>7. CASE pc = "journal"
  <2>1. disk' = disk
    <3>1. SUFFICES ASSUME NEW s \in Statuses,
                          disk' = [disk EXCEPT ![cur] = [tx EXCEPT !.status = s]],
                          s = "rolled_back" => tx.status = s
                   PROVE  FALSE
      BY <1>1, <1>7
    <3>2. disk'[cur] \in Journal /\ disk'[cur].status = s
      BY <1>2, <3>1 DEF TInv, TypeOK, Journal
    <3>3. tx.status = "rolled_back"
      BY <1>6, <3>1, <3>2, NoJournalAssumption
    <3> QED
      BY <1>7, <3>3 DEF PowerStages
  <2> QED
    BY <1>1, <1>5, <1>7, <2>1 DEF Newest, Outstanding
<1>8. CASE pc # "journal"
  <2>1. Outstanding(cur)
    BY <1>8 DEF OnTop, Newest
  <2>2. disk' # disk
    BY <1>6, <2>1 DEF Outstanding
  <2>3. pc = "finish" /\ ~problems
    <3>1. PICK s \in Statuses :
            /\ disk' = [disk EXCEPT ![cur] = [tx EXCEPT !.status = s]]
            /\ s = "rolled_back" => tx.status = s \/ (pc = "finish" /\ ~problems)
      BY <1>1, <2>2
    <3>2. disk'[cur] \in Journal /\ disk'[cur].status = s
      BY <1>2, <3>1 DEF TInv, TypeOK, Journal
    <3> QED
      BY <1>6, <1>8, <3>1, <3>2, NoJournalAssumption DEF Open
  <2>4. Current = before[cur]
    BY <2>3, ExactAtFinish
  <2>5. ASSUME NEW d \in Backups, b < d, d < cur PROVE ~Outstanding(d)
    <3>1. d # cur /\ disk'[d] = disk[d] /\ d > b
      BY <1>2, <1>3, <2>5, CountsAssumption DEF Backups
    <3> QED
      BY <3>1 DEF Newest, Outstanding
  <2> QED
    BY <1>1, <1>5, <2>1, <2>4, <2>5 DEF Below
<1> QED
  BY <1>7, <1>8

\* When an operation ends, the newest journal says what the machine is: its
\* own, or, if that is closed, the next older one.
LEMMA NewestCleanStep ==
    ASSUME EInv, [Next]_vars
    PROVE  NewestClean'
<1> SUFFICES ASSUME ordered', pc' \in {"idle", "journal"},
                    NEW b \in Backups, Newest(b)'
             PROVE  Clean(Current', disk'[b], b, before'[b])
  BY DEF NewestClean
<1> USE DEF EInv, WInv, SInv
<1>1. ASSUME NEW op \in Operations, Begin(op)
      PROVE  Clean(Current', disk'[b], b, before'[b])
  <2>1. /\ pc = "idle" /\ ordered /\ disk' = disk /\ Current' = Current
        /\ \A c \in Backups : disk[c] # NoJournal => before'[c] = before[c]
    BY <1>1, BeginFacts
  <2>2. Newest(b) /\ before'[b] = before[b]
    BY <2>1 DEF Newest, Outstanding
  <2> QED
    BY <2>1, <2>2 DEF NewestClean
<1>2. ASSUME NEW c \in Backups, BeginRestore(c) PROVE FALSE
  BY <1>2 DEF BeginRestore, Goto
<1>3. CASE UNCHANGED vars
  <2>1. /\ Current' = Current /\ disk' = disk /\ before' = before /\ pc' = pc
        /\ ordered' = ordered
    BY <1>3 DEF vars, machine, history, Current
  <2>2. Newest(b)
    BY <2>1 DEF Newest, Outstanding
  <2> QED
    BY <2>1, <2>2 DEF NewestClean
<1>4. CASE pc # "idle" /\ ~UNCHANGED vars
  <2>1. pc' = "idle"
    BY <1>4, NothingYetOnly
  <2>2. /\ ordered /\ Current' = Current /\ before' = before
        /\ \/ disk' = disk
           \/ \E s \in Statuses :
                /\ disk' = [disk EXCEPT ![cur] = [tx EXCEPT !.status = s]]
                /\ s = "rolled_back" => tx.status = s \/ (pc = "finish" /\ ~problems)
    BY <1>4, <2>1, ReturnSteps DEF machine, Current
  <2>3. /\ cur \in Backups /\ tx \in Journal /\ Clean(Current, tx, cur, before[cur])
    BY <1>4, <2>2 DEF TInv, Running, CurrentClean
  <2>4. \A c \in Backups : c # cur => disk'[c] = disk[c]
    BY <1>4, OthersKept
  <2>5. \A c \in Backups : c > cur => ~Outstanding(c)
    BY <1>4, <2>2, <2>3, CountsAssumption DEF NothingYet, OnTop, Newest, Outstanding, Backups
  <2>6. CASE b = cur /\ disk' # disk
    <3>1. PICK s \in Statuses : disk' = [disk EXCEPT ![cur] = [tx EXCEPT !.status = s]]
      BY <2>2, <2>6
    <3>2. disk'[cur] = [tx EXCEPT !.status = s]
      BY <2>3, <3>1 DEF TInv, TypeOK
    <3> DEFINE i == disk'[cur]
    <3>3. /\ i.op = tx.op /\ i.applied = tx.applied /\ i.network = tx.network
          /\ i.mouseApplied = tx.mouseApplied /\ i.netApplied = tx.netApplied
          /\ i.powerApplied = tx.powerApplied
      BY <2>3, <3>2 DEF Journal
    <3> QED
      BY <2>2, <2>3, <2>6, <3>3, CleanSame
  <2>7. CASE b = cur /\ disk' = disk
    <3>1. pc # "journal"
      BY <2>7, <2>3, CountsAssumption DEF NothingYet, Newest, Outstanding, Backups
    <3> QED
      BY <1>4, <2>2, <2>7, <3>1, DiskClean
  <2>8. CASE b # cur
    BY <1>4, <2>1, <2>2, <2>3, <2>8, ReturnToOlder DEF NewestClean, StackClean
  <2> QED
    BY <2>6, <2>7, <2>8
<1> QED
  BY <1>1, <1>2, <1>3, <1>4, IdleStep

\* A journal becomes the one below another only by the first save of the newer.
LEMMA BelowStep ==
    ASSUME EInv, [Next]_vars, ordered',
           NEW b \in Backups, NEW c \in Backups, Below(b, c)'
    PROVE  /\ ordered /\ disk'[b] = disk[b]
           /\ before'[b] = before[b] /\ before'[c] = before[c]
           /\ Below(b, c) \/ (pc = "journal" /\ Newest(b) /\ before[c] = Current)
<1> USE DEF EInv, WInv, SInv
<1>1. CASE pc = "idle"
  <2>1. disk' = disk
    BY <1>1, OthersKept, IdleStep DEF Begin, BeginRestore, vars
  <2>2. Below(b, c)
    BY <2>1 DEF Below, Outstanding
  <2>3. ordered
    BY <1>1, IdleStep DEF Begin, BeginRestore, vars, history
  <2>4. before'[b] = before[b] /\ before'[c] = before[c]
    <3>1. disk[b] # NoJournal /\ disk[c] # NoJournal
      BY <2>2 DEF Below, Outstanding
    <3> QED
      BY <1>1, <3>1, BeginFacts, IdleStep DEF BeginRestore, vars, history
  <2> QED
    BY <2>1, <2>2, <2>3, <2>4
<1>2. CASE pc # "idle"
  <2>1. ordered /\ before' = before /\ cur \in Backups
    BY <1>2, KeepsStep DEF Keeps, TInv, Running
  <2>2. \A d \in Backups : d # cur => disk'[d] = disk[d]
    BY <1>2, OthersKept
  <2>3. \A d \in Backups : d > cur => ~Outstanding(d)
    BY <1>2, <2>1, CountsAssumption DEF NothingYet, OnTop, Newest, Outstanding, Backups
  <2>4. b < c /\ b # cur /\ c <= cur
    BY <2>1, <2>2, <2>3, CountsAssumption DEF Below, Outstanding, Backups
  <2>5. disk'[b] = disk[b] /\ Outstanding(b)
    BY <2>2, <2>4 DEF Below, Outstanding
  <2>6. \A d \in Backups : b < d /\ d < c => ~Outstanding(d)
    <3>1. SUFFICES ASSUME NEW d \in Backups, b < d, d < c PROVE ~Outstanding(d)
      OBVIOUS
    <3>2. d # cur
      BY <2>1, <2>4, <3>1, CountsAssumption DEF Backups
    <3> QED
      BY <2>2, <3>1, <3>2 DEF Below, Outstanding
  <2>7. CASE Outstanding(c)
    BY <2>1, <2>4, <2>5, <2>6, <2>7 DEF Below
  <2>8. CASE ~Outstanding(c)
    <3>1. c = cur
      BY <2>2, <2>8 DEF Below, Outstanding
    <3>2. pc = "journal"
      BY <1>2, <2>1, <2>8, <3>1 DEF OnTop, Newest
    <3>3. Newest(b)
      BY <2>3, <2>5, <2>6, <2>8, <3>1, CountsAssumption DEF Newest, Backups
    <3> QED
      BY <2>1, <2>5, <3>1, <3>2, <3>3 DEF NothingYet
  <2> QED
    BY <2>7, <2>8
<1> QED
  BY <1>1, <1>2

\* The journals below the running one, and what those above them found, stay.
LEMMA StackCleanStep ==
    ASSUME EInv, [Next]_vars
    PROVE  StackClean'
<1> SUFFICES ASSUME ordered', NEW b \in Backups, NEW c \in Backups, Below(b, c)'
             PROVE  Clean(before'[c], disk'[b], b, before'[b])
  BY DEF StackClean
<1> QED
  BY BelowStep DEF EInv, NewestClean, StackClean

LEMMA InitEInv == Init => EInv
<1>1. SUFFICES ASSUME Init PROVE EInv
  OBVIOUS
<1>2. pc = "idle" /\ disk = [b \in Backups |-> NoJournal] /\ issued = 0
  BY <1>1 DEF Init
<1>3. \A b \in Backups : ~Outstanding(b)
  BY <1>2 DEF Outstanding
<1>4. Found
  BY <1>2, CountsAssumption DEF Found, Backups
<1>5. NothingYet /\ CurrentClean /\ OnTop /\ NewestClean /\ StackClean /\ Undone
  BY <1>2, <1>3 DEF NothingYet, CurrentClean, OnTop, NewestClean, StackClean, Undone,
     Newest, Below, Last
<1> QED
  BY <1>1, <1>4, <1>5, InitWInv DEF EInv

LEMMA EInvStep == EInv /\ [Next]_vars => EInv'
BY WInvStep, FoundStep, NothingYetStep, CurrentCleanStep, OnTopStep, NewestCleanStep,
   StackCleanStep, UndoneStep DEF EInv

\* The verdict "rolled_back" on the newest backup is only written when
\* everything is as it was.
LEMMA ExactStep ==
    ASSUME EInv, [Next]_vars, NEW b \in Backups, disk' # disk,
           ordered, Newest(b), disk'[b].status = "rolled_back"
    PROVE  Current' = before[b]
<1> USE DEF EInv, WInv, SInv
<1>1. pc # "idle"
  BY IdleStep DEF Begin, BeginRestore, vars
<1>2. b = cur
  BY <1>1, OthersKept DEF Newest, Outstanding
<1>3. pc # "journal"
  BY <1>2, CountsAssumption DEF NothingYet, Newest, Outstanding, Backups
<1>4. pc = "finish" /\ ~problems
  BY <1>1, <1>2, <1>3, SavesStep DEF Saves, Open
<1>5. Current = before[b]
  BY <1>2, <1>4, ExactAtFinish
<1>6. ~Mutation
  BY <1>4 DEF Mutation, DuplicateScheme, ActivateScheme, WriteRegistry, WriteMouse,
     WriteNetwork, RestoreNetwork, RestoreRegistry, RestoreMouse, RestoreActiveScheme,
     DeleteScheme
<1> QED
  BY <1>5, <1>6, OtherSteps DEF Current, machine

\* rollbackBackup: for any catalogue, any number of operations, failures and
\* crashes, with backups restored newest first, the one that becomes
\* "rolled_back" leaves the machine as its operation found it.
THEOREM RestoresAreExact == Spec => RestoreIsExact
<1>1. EInv /\ [Next]_vars =>
        [\A b \in Backups :
          ordered /\ Newest(b) /\ disk'[b].status = "rolled_back" =>
             [reg |-> reg, mouse |-> mouse, net |-> net,
              active |-> active, schemes |-> schemes]' = before[b]]_disk
  BY ExactStep DEF Current
<1> QED
  BY <1>1, InitEInv, EInvStep, PTL DEF Spec, RestoreIsExact

-----------------------------------------------------------------------------
(* What "applied" says                                                     *)

\* Machine M has every setting that journal j of backup b covers.
Holds(M, j, b) ==
    /\ \A k \in j.op.keys : M.reg[k] = Optimized
    /\ \A m \in MouseTargets(j.op) : M.mouse[m] = Optimized
    /\ \A p \in NetworkTargets(j) : M.net[p] = Optimized
    /\ j.powerApplied => M.active = b

Applying == {"duplicate", "activate", "journalPower", "registry", "writeRegistry",
             "mouse", "writeMouse", "network", "writeNetwork", "verify", "commit"}
Undoing == {"restoreNetwork", "networkRestored", "restoreRegistry"} \cup Last

\* What an operation covers and has passed is announced.
Passed ==
    /\ pc \in {"writeMouse", "network", "writeNetwork", "verify", "commit"} /\
       MouseTargets(tx.op) # {} => tx.mouseApplied
    /\ pc \in {"writeNetwork", "verify", "commit"} /\ NetworkTargets(tx) # {} =>
         tx.netApplied

\* The last save of an operation follows the read-back.
Verified == pc = "commit" => Holds(Current, tx, cur)

\* While an operation runs, "applied" is on disk only before a restore has
\* begun to change anything, or after a save has failed.
StatusKept ==
    /\ pc \in {"journal"} \cup Applying => tx.status # "applied"
    /\ pc \in Undoing => tx.status = "rolling_back"
    /\ pc \notin {"idle", "journal"} /\ disk[cur].status = "applied" =>
         /\ pc \notin Applying
         /\ pc # "rollback" => faults # 0

\* Up to one fault, with restores newest first, the newest journal ...
AppliedNewest == ordered /\ faults <= 1 /\ pc \in {"idle", "journal", "rollback"} =>
    \A b \in Backups : Newest(b) /\ disk[b].status = "applied" =>
        Holds(Current, disk[b], b)

\* ... and, once the newer ones are undone, the older ones say "applied"
\* only while the settings hold.
AppliedStack == ordered /\ faults <= 1 => \A b, c \in Backups :
    Below(b, c) /\ disk[b].status = "applied" => Holds(before[c], disk[b], b)

AInv == EInv /\ Passed /\ Verified /\ StatusKept /\ AppliedNewest /\ AppliedStack

\* Each stage announces what it covers before the next one.
LEMMA PassedStep ==
    ASSUME AInv, [Next]_vars
    PROVE  Passed'
<1> USE NoJournalAssumption, CountsAssumption DEF AInv, EInv, WInv, SInv,
   TInv, TypeOK, Running, Open, Journal, Passed, NetworkTargets
<1>1. ASSUME NEW op \in Operations, Begin(op) PROVE Passed'
  BY <1>1 DEF Begin, Goto, Capture, machine, local, history
<1>2. CASE WriteJournal
  BY <1>2 DEF WriteJournal, Saved, Replaced, SaveFailed, Goto, Return, AfterJournal,
     AfterPower, AfterRegistry, AfterMouse, machine, local, history
<1>3. CASE DuplicateScheme
  BY <1>3 DEF DuplicateScheme, Goto, machine, local, history
<1>4. CASE ActivateScheme
  BY <1>4 DEF ActivateScheme, Goto, machine, local, history
<1>5. CASE JournalPower
  BY <1>5 DEF JournalPower, Saved, Replaced, SaveFailed, Goto, AfterPower, AfterRegistry,
     AfterMouse, machine, local, history
<1>6. CASE JournalRegistry
  BY <1>6 DEF JournalRegistry, Saved, Replaced, SaveFailed, Goto, machine, local, history
<1>7. CASE WriteRegistry
  BY <1>7 DEF WriteRegistry, Goto, AfterRegistry, AfterMouse, machine, local,
     history
<1>8. CASE JournalMouse
  BY <1>8 DEF JournalMouse, Saved, Replaced, SaveFailed, Goto, machine, local, history
<1>9. CASE WriteMouse
  BY <1>9 DEF WriteMouse, Goto, AfterMouse, machine, local, history
<1>10. CASE JournalNetwork
  BY <1>10 DEF JournalNetwork, Saved, Replaced, SaveFailed, Goto, machine, local, history
<1>11. CASE WriteNetwork
  BY <1>11 DEF WriteNetwork, Goto, machine, local, history
<1>12. CASE Verify
  BY <1>12 DEF Verify, Goto, machine, local, history
<1>13. CASE Commit
  BY <1>13 DEF Commit, Saved, Replaced, SaveFailed, Goto, Return, machine, local, history
<1>14. CASE Fail
  BY <1>14 DEF Fail, Saved, Replaced, SaveFailed, Goto, machine, local, history
<1>15. CASE Rollback
  BY <1>15 DEF Rollback, SaveAndNote, Saved, Replaced, SaveFailed, Goto, machine, local,
     history
<1>16. CASE RestoreNetwork
  BY <1>16 DEF RestoreNetwork, Goto, machine, local, history
<1>17. CASE SaveNetworkRestored
  BY <1>17 DEF SaveNetworkRestored, SaveAndNote, Saved, Replaced, SaveFailed, Goto,
     machine, local, history
<1>18. CASE RestoreRegistry
  BY <1>18 DEF RestoreRegistry, machine, local, history
<1>19. CASE RegistryRestored
  BY <1>19 DEF RegistryRestored, SaveAndNote, Saved, Replaced, SaveFailed, Goto,
     AfterMouseRestore, machine, local, history
<1>20. CASE RestoreMouse
  BY <1>20 DEF RestoreMouse, Goto, AfterMouseRestore, machine, local, history
<1>21. CASE SaveMouseRestored
  BY <1>21 DEF SaveMouseRestored, SaveAndNote, Saved, Replaced, SaveFailed, Goto,
     AfterMouseRestore, machine, local, history
<1>22. CASE RestoreActiveScheme
  BY <1>22 DEF RestoreActiveScheme, Goto, machine, local, history
<1>23. CASE DeleteScheme
  BY <1>23 DEF DeleteScheme, Goto, machine, local, history
<1>24. CASE SavePowerRestored
  BY <1>24 DEF SavePowerRestored, SaveAndNote, Saved, Replaced, SaveFailed, Goto, machine,
     local, history
<1>25. CASE Finish
  BY <1>25 DEF Finish, Saved, Replaced, SaveFailed, Return, machine, local, history
<1>26. ASSUME NEW b \in Backups, BeginRestore(b) PROVE Passed'
  BY <1>26 DEF BeginRestore, Goto, machine, local, history
<1>27. CASE Crash
  BY <1>27 DEF Crash, Return, machine, local, history
<1>28. CASE UNCHANGED vars
  BY <1>28 DEF vars, machine, local, history
<1> QED
  BY <1>1, <1>2, <1>3, <1>4, <1>5, <1>6, <1>7, <1>8, <1>9, <1>10, <1>11,
     <1>12, <1>13, <1>14, <1>15, <1>16, <1>17, <1>18, <1>19, <1>20, <1>21,
     <1>22, <1>23, <1>24, <1>25, <1>26, <1>27, <1>28 DEF Next, Apply, Undo

\* What the saves write into the status.
LEMMA StatusKeptStep ==
    ASSUME AInv, [Next]_vars
    PROVE  StatusKept'
<1> USE NoJournalAssumption, CountsAssumption DEF AInv, EInv, WInv, SInv,
   TInv, TypeOK, Running, Open, Journal, StatusKept, Applying, Undoing, Last,
   Statuses
<1>1. ASSUME NEW op \in Operations, Begin(op) PROVE StatusKept'
  BY <1>1 DEF Begin, Goto, Capture, machine, local, history, Fault
<1>2. CASE WriteJournal
  BY <1>2 DEF WriteJournal, Saved, Replaced, SaveFailed, Goto, Return, AfterJournal,
     AfterPower, AfterRegistry, AfterMouse, machine, local, history, Fault
<1>3. CASE DuplicateScheme
  BY <1>3 DEF DuplicateScheme, Goto, machine, local, history, Fault
<1>4. CASE ActivateScheme
  BY <1>4 DEF ActivateScheme, Goto, machine, local, history, Fault
<1>5. CASE JournalPower
  BY <1>5 DEF JournalPower, Saved, Replaced, SaveFailed, Goto, AfterPower, AfterRegistry,
     AfterMouse, machine, local, history, Fault
<1>6. CASE JournalRegistry
  BY <1>6 DEF JournalRegistry, Saved, Replaced, SaveFailed, Goto, machine, local, history,
     Fault
<1>7. CASE WriteRegistry
  BY <1>7 DEF WriteRegistry, Goto, AfterRegistry, AfterMouse, machine, local,
     history, Fault
<1>8. CASE JournalMouse
  BY <1>8 DEF JournalMouse, Saved, Replaced, SaveFailed, Goto, machine, local, history,
     Fault
<1>9. CASE WriteMouse
  BY <1>9 DEF WriteMouse, Goto, AfterMouse, machine, local, history, Fault
<1>10. CASE JournalNetwork
  BY <1>10 DEF JournalNetwork, Saved, Replaced, SaveFailed, Goto, machine, local, history,
     Fault
<1>11. CASE WriteNetwork
  BY <1>11 DEF WriteNetwork, Goto, machine, local, history, Fault
<1>12. CASE Verify
  BY <1>12 DEF Verify, Goto, machine, local, history, Fault
<1>13. CASE Commit
  BY <1>13 DEF Commit, Saved, Replaced, SaveFailed, Goto, Return, machine, local, history,
     Fault
<1>14. CASE Fail
  BY <1>14 DEF Fail, Saved, Replaced, SaveFailed, Goto, machine, local, history, Fault
<1>15. CASE Rollback
  BY <1>15 DEF Rollback, SaveAndNote, Saved, Replaced, SaveFailed, Goto, machine, local,
     history, Fault
<1>16. CASE RestoreNetwork
  BY <1>16 DEF RestoreNetwork, Goto, machine, local, history, Fault
<1>17. CASE SaveNetworkRestored
  BY <1>17 DEF SaveNetworkRestored, SaveAndNote, Saved, Replaced, SaveFailed, Goto,
     machine, local, history, Fault
<1>18. CASE RestoreRegistry
  BY <1>18 DEF RestoreRegistry, Remaining, machine, local, history, Fault
<1>19. CASE RegistryRestored
  BY <1>19 DEF RegistryRestored, SaveAndNote, Saved, Replaced, SaveFailed, Goto,
     AfterMouseRestore, machine, local, history, Fault
<1>20. CASE RestoreMouse
  BY <1>20 DEF RestoreMouse, Goto, AfterMouseRestore, machine, local, history,
     Fault
<1>21. CASE SaveMouseRestored
  BY <1>21 DEF SaveMouseRestored, SaveAndNote, Saved, Replaced, SaveFailed, Goto,
     AfterMouseRestore, machine, local, history, Fault
<1>22. CASE RestoreActiveScheme
  BY <1>22 DEF RestoreActiveScheme, Goto, machine, local, history, Fault
<1>23. CASE DeleteScheme
  BY <1>23 DEF DeleteScheme, Goto, machine, local, history, Fault
<1>24. CASE SavePowerRestored
  BY <1>24 DEF SavePowerRestored, SaveAndNote, Saved, Replaced, SaveFailed, Goto, machine,
     local, history, Fault
<1>25. CASE Finish
  BY <1>25 DEF Finish, Saved, Replaced, SaveFailed, Return, machine, local, history, Fault
<1>26. ASSUME NEW b \in Backups, BeginRestore(b) PROVE StatusKept'
  BY <1>26 DEF BeginRestore, Goto, machine, local, history, Fault
<1>27. CASE Crash
  BY <1>27 DEF Crash, Return, machine, local, history, Fault
<1>28. CASE UNCHANGED vars
  BY <1>28 DEF vars, machine, local, history, Fault
<1> QED
  BY <1>1, <1>2, <1>3, <1>4, <1>5, <1>6, <1>7, <1>8, <1>9, <1>10, <1>11,
     <1>12, <1>13, <1>14, <1>15, <1>16, <1>17, <1>18, <1>19, <1>20, <1>21,
     <1>22, <1>23, <1>24, <1>25, <1>26, <1>27, <1>28 DEF Next, Apply, Undo

\* Faults are counted, and only the end of an apply leads to a commit and only
\* a failed one from there to a rollback.
LEMMA FaultsCounted ==
    ASSUME AInv, [Next]_vars
    PROVE  faults \in Nat /\ (faults' = faults \/ faults' = faults + 1)
BY DEF AInv, EInv, WInv, SInv, TInv, TypeOK, Next, Apply, Undo, Begin, BeginRestore,
   WriteJournal, DuplicateScheme, ActivateScheme, JournalPower, JournalRegistry,
   WriteRegistry, JournalMouse, WriteMouse, JournalNetwork, WriteNetwork, Verify,
   Commit, Fail, Rollback, RestoreNetwork, SaveNetworkRestored, RestoreRegistry,
   RegistryRestored, RestoreMouse, SaveMouseRestored, RestoreActiveScheme,
   DeleteScheme, SavePowerRestored, Finish, Crash, Fault, Saved, Replaced, SaveFailed,
   SaveAndNote, vars, CountsAssumption

LEMMA OnlyAfter ==
    ASSUME [Next]_vars, ~UNCHANGED vars
    PROVE  /\ pc' = "commit" => Verify
           /\ pc' = "rollback" => pc = "idle" \/ Fail
<1>1. ASSUME Verify \/ Fail \/ (\E op \in Operations : Begin(op))
               \/ (\E b \in Backups : BeginRestore(b))
      PROVE  /\ pc' = "commit" => Verify
             /\ pc' = "rollback" => pc = "idle" \/ Fail
  BY <1>1 DEF Begin, BeginRestore, Verify, Fail, Goto
<1>2. ASSUME WriteJournal \/ DuplicateScheme \/ ActivateScheme \/ JournalPower
               \/ JournalRegistry \/ WriteRegistry \/ JournalMouse \/ WriteMouse
               \/ JournalNetwork \/ WriteNetwork \/ Commit
      PROVE  pc' \notin {"commit", "rollback"}
  BY <1>2 DEF WriteJournal, DuplicateScheme, ActivateScheme, JournalPower, JournalRegistry,
     WriteRegistry, JournalMouse, WriteMouse, JournalNetwork, WriteNetwork, Commit,
     Return, Goto, AfterJournal, AfterPower, AfterRegistry, AfterMouse
<1>3. ASSUME Undo \/ Crash PROVE pc' \notin {"commit", "rollback"}
  BY <1>3 DEF Undo, Rollback, RestoreNetwork, SaveNetworkRestored, RestoreRegistry,
     RegistryRestored, RestoreMouse, SaveMouseRestored, RestoreActiveScheme,
     DeleteScheme, SavePowerRestored, Finish, Crash, Return, Goto, AfterMouseRestore
<1> QED
  BY <1>1, <1>2, <1>3 DEF Next, Apply

LEMMA VerifiedStep ==
    ASSUME AInv, [Next]_vars
    PROVE  Verified'
<1> SUFFICES ASSUME pc' = "commit" PROVE Holds(Current', tx', cur')
  BY DEF Verified
<1>1. CASE UNCHANGED vars
  <2>1. Current' = Current /\ tx' = tx /\ cur' = cur /\ pc' = pc
    BY <1>1 DEF vars, machine, local, Current
  <2> QED
    BY <2>1 DEF AInv, Verified
<1>2. CASE ~UNCHANGED vars
  <2>1. Verify
    BY <1>2, OnlyAfter
  <2>2. Current' = Current /\ tx' = tx /\ cur' = cur /\ pc = "verify" /\ ReadBackMatches
    BY <2>1 DEF Verify, Goto, machine, local, Current
  <2> QED
    BY <2>2 DEF AInv, Passed, ReadBackMatches, Holds, Current
<1> QED
  BY <1>1, <1>2

\* With at most one fault, an operation that returns leaves its journal
\* "applied" only while what it covers holds.
LEMMA AppliedReturn ==
    ASSUME AInv, [Next]_vars, pc # "idle", pc' = "idle", ordered, faults' <= 1,
           disk'[cur] # NoJournal, disk'[cur].status = "applied"
    PROVE  Holds(Current', disk'[cur], cur)
<1> USE DEF AInv, EInv, WInv, SInv
<1>1. cur \in Backups /\ tx \in Journal /\ Current' = Current
  BY ReturnSteps DEF TInv, Running, machine, Current
<1>2. faults \in Nat /\ (faults' = faults \/ faults' = faults + 1)
  BY FaultsCounted
<1>3. CASE disk' = disk
  <2>1. pc # "journal"
    BY <1>1, <1>3, CountsAssumption DEF NothingYet, Backups
  <2>2. pc \notin Applying /\ (pc = "rollback" \/ faults # 0)
    BY <1>3, <2>1 DEF StatusKept
  <2>3. CASE pc = "rollback"
    <3>1. Newest(cur) /\ disk[cur].status = "applied" /\ faults <= 1
      BY <1>2, <1>3, <2>3 DEF OnTop
    <3> QED
      BY <1>1, <1>3, <2>3, <3>1 DEF AppliedNewest
  <2>4. CASE pc # "rollback"
    <3>1. faults' = faults
      BY <1>2, <2>2, <2>4
    <3>2. ~(WriteJournal \/ Commit \/ Crash)
      BY <1>2, <2>1, <2>2, <3>1 DEF WriteJournal, Commit, Crash, Fault, Applying
    <3>3. Finish
      BY <3>2, EndSteps
    <3>4. disk' = [disk EXCEPT ![cur] = [tx EXCEPT !.status = IF problems THEN "rollback_failed"
                                                              ELSE "rolled_back"]]
      BY <1>2, <3>1, <3>3 DEF Finish, Saved, Replaced, SaveFailed, Fault
    <3> QED
      BY <1>1, <3>4 DEF TInv, TypeOK, Journal
  <2> QED
    BY <2>3, <2>4
<1>4. CASE disk' # disk
  <2>1. WriteJournal \/ Commit \/ Finish
    BY <1>4, EndSteps DEF Crash
  <2>2. CASE WriteJournal
    <3>1. disk'[cur] = tx /\ pc = "journal"
      BY <1>1, <1>4, <2>2 DEF WriteJournal, Saved, Replaced, SaveFailed, TInv, TypeOK
    <3> QED
      BY <3>1 DEF StatusKept
  <2>3. CASE Commit
    <3>1. disk'[cur] = [tx EXCEPT !.status = "applied"] /\ pc = "commit"
      BY <1>1, <1>4, <2>3 DEF Commit, Saved, Replaced, SaveFailed, TInv, TypeOK
    <3>2. Holds(Current, tx, cur)
      BY <3>1 DEF Verified
    <3> DEFINE i == disk'[cur]
    <3>3. i.op = tx.op /\ i.network = tx.network /\ i.powerApplied = tx.powerApplied
      BY <1>1, <3>1 DEF Journal
    <3> QED
      BY <1>1, <3>2, <3>3 DEF Holds, NetworkTargets
  <2>4. CASE Finish
    <3>1. disk'[cur] = [tx EXCEPT !.status = IF problems THEN "rollback_failed"
                                             ELSE "rolled_back"]
      BY <1>1, <1>4, <2>4 DEF Finish, Saved, Replaced, SaveFailed, TInv, TypeOK
    <3> QED
      BY <1>1, <3>1 DEF Journal
  <2> QED
    BY <2>1, <2>2, <2>3, <2>4
<1> QED
  BY <1>3, <1>4

\* The newest journal,
LEMMA AppliedNewestStep ==
    ASSUME AInv, [Next]_vars
    PROVE  AppliedNewest'
<1> SUFFICES ASSUME ordered', faults' <= 1, pc' \in {"idle", "journal", "rollback"},
                    NEW b \in Backups, Newest(b)', disk'[b].status = "applied"
             PROVE  Holds(Current', disk'[b], b)
  BY DEF AppliedNewest
<1> USE DEF AInv, EInv, WInv, SInv
<1>0. faults \in Nat /\ faults <= 1
  BY FaultsCounted
<1>1. ASSUME NEW op \in Operations, Begin(op)
      PROVE  Holds(Current', disk'[b], b)
  <2>1. pc = "idle" /\ ordered /\ disk' = disk /\ Current' = Current
    BY <1>1, BeginFacts
  <2>2. Newest(b)
    BY <2>1 DEF Newest, Outstanding
  <2> QED
    BY <1>0, <2>1, <2>2 DEF AppliedNewest
<1>2. ASSUME NEW c \in Backups, BeginRestore(c)
      PROVE  Holds(Current', disk'[b], b)
  <2>1. pc = "idle" /\ ordered /\ disk' = disk /\ Current' = Current
    BY <1>2 DEF BeginRestore, machine, Current
  <2>2. Newest(b)
    BY <2>1 DEF Newest, Outstanding
  <2> QED
    BY <1>0, <2>1, <2>2 DEF AppliedNewest
<1>3. CASE UNCHANGED vars
  <2>1. Current' = Current /\ disk' = disk /\ pc' = pc /\ ordered' = ordered
    BY <1>3 DEF vars, machine, history, Current
  <2>2. Newest(b)
    BY <2>1 DEF Newest, Outstanding
  <2> QED
    BY <1>0, <2>1, <2>2 DEF AppliedNewest
<1>4. CASE pc # "idle" /\ ~UNCHANGED vars
  <2>1. ordered /\ cur \in Backups /\ tx \in Journal
    BY <1>4, KeepsStep DEF Keeps, TInv, Running
  <2>2. CASE pc' = "rollback"
    <3>1. Fail
      BY <1>4, <2>2, OnlyAfter
    <3>2. Newest(cur)' /\ cur' = cur
      BY <2>2, <3>1, OnTopStep DEF OnTop, Fail
    <3>3. b = cur
      BY <2>1, <3>2, CountsAssumption DEF Newest, Backups
    <3>4. CASE disk' = disk /\ faults' = faults + 1
      BY <1>0, <3>1, <3>3, <3>4 DEF StatusKept, Fail
    <3>5. CASE disk' = [disk EXCEPT ![cur] = [tx EXCEPT !.status = "failed"]]
      BY <2>1, <3>3, <3>5 DEF TInv, TypeOK, Journal
    <3> QED
      BY <3>1, <3>4, <3>5 DEF Fail, Saved, Replaced, SaveFailed, Fault
  <2>3. CASE pc' # "rollback"
    <3>1. pc' = "idle"
      BY <1>4, <2>3, NothingYetOnly
    <3>2. CASE b = cur
      BY <1>4, <2>1, <3>1, <3>2, AppliedReturn DEF Newest, Outstanding
    <3>3. CASE b # cur
      BY <1>0, <1>4, <2>1, <3>1, <3>3, ReturnToOlder DEF AppliedNewest, AppliedStack
    <3> QED
      BY <3>2, <3>3
  <2> QED
    BY <2>2, <2>3
<1> QED
  BY <1>1, <1>2, <1>3, <1>4, IdleStep

\* and those below.
LEMMA AppliedStackStep ==
    ASSUME AInv, [Next]_vars
    PROVE  AppliedStack'
<1> SUFFICES ASSUME ordered', faults' <= 1,
                    NEW b \in Backups, NEW c \in Backups, Below(b, c)',
                    disk'[b].status = "applied"
             PROVE  Holds(before'[c], disk'[b], b)
  BY DEF AppliedStack
<1>1. faults \in Nat /\ faults <= 1
  BY FaultsCounted
<1> QED
  BY <1>1, BelowStep DEF AInv, AppliedNewest, AppliedStack

LEMMA InitAInv == Init => AInv
<1>1. SUFFICES ASSUME Init PROVE AInv
  OBVIOUS
<1>2. pc = "idle" /\ disk = [b \in Backups |-> NoJournal]
  BY <1>1 DEF Init
<1>3. \A b \in Backups : ~Outstanding(b)
  BY <1>2 DEF Outstanding
<1> QED
  BY <1>1, <1>2, <1>3, InitEInv DEF AInv, Passed, Verified, StatusKept, AppliedNewest,
     AppliedStack, Newest, Below, Applying, Undoing, Last

LEMMA AInvStep == AInv /\ [Next]_vars => AInv'
BY EInvStep, PassedStep, VerifiedStep, StatusKeptStep, AppliedNewestStep,
   AppliedStackStep DEF AInv

\* verifyApplied: for any catalogue and any number of operations, with at most
\* one fault and backups restored newest first, the newest backup that says
\* "applied" is right about every setting it covers.
THEOREM AppliedIsTrue == Spec => []AppliedHolds
<1>1. AInv => AppliedHolds
  BY DEF AInv, AppliedNewest, AppliedHolds, Holds, Current
<1> QED
  BY <1>1, InitAInv, AInvStep, PTL DEF Spec

-----------------------------------------------------------------------------
(* Retries                                                                 *)

\* Journals are of operations on offer.
OnOffer ==
    /\ pc # "idle" => tx.op \in Operations
    /\ \A b \in Backups : disk[b] # NoJournal => disk[b].op \in Operations

\* The active scheme exists, and so did the one that each operation found.
SchemesExist ==
    ordered => /\ active \in schemes
               /\ pc = "activate" => cur \in schemes
               /\ \A b \in Backups : b <= issued => before[b].active \in before[b].schemes

\* Journals that validatePowerRestoreOrder refuses unless their scheme is active.
Demanding(j) == j.status = "applied" /\ j.powerApplied /\ HasCreated(j)

\* A restore leaves the created scheme only after "applied" is gone from the
\* disk, unless two saves or values have failed.
PowerKept ==
    /\ pc \notin {"idle", "journal"} /\ Demanding(disk[cur]) =>
         active = cur \/ pc \in {"deleteScheme", "powerRestored", "finish"}
    /\ pc \in Last /\ disk[cur].status = "applied" => faults >= 2
    /\ pc = "restoreRegistry" /\ registryFailed /\ disk[cur].status = "applied" =>
         faults >= 2

\* Up to two faults, with restores newest first, the newest journal ...
PowerNewest == ordered /\ faults <= 2 /\ pc \in {"idle", "journal"} =>
    \A b \in Backups : Newest(b) /\ Demanding(disk[b]) => active = b

\* ... and, once the newer ones are undone, the older ones can be restored.
PowerStack == ordered /\ faults <= 2 => \A b, c \in Backups :
    Below(b, c) /\ Demanding(disk[b]) => before[c].active = b

RInv == AInv /\ OnOffer /\ SchemesExist /\ PowerKept /\ PowerNewest /\ PowerStack

\* Only the duplication of a scheme leads to its activation.
LEMMA OnlyDuplicate ==
    ASSUME [Next]_vars, ~DuplicateScheme
    PROVE  pc' = "activate" => UNCHANGED vars
<1>1. ASSUME Verify \/ Fail \/ Crash \/ (\E op \in Operations : Begin(op))
               \/ (\E b \in Backups : BeginRestore(b))
      PROVE  pc' # "activate"
  BY <1>1 DEF Begin, BeginRestore, Verify, Fail, Crash, Return, Goto
<1>2. ASSUME WriteJournal \/ ActivateScheme \/ JournalPower
               \/ JournalRegistry \/ WriteRegistry \/ JournalMouse \/ WriteMouse
               \/ JournalNetwork \/ WriteNetwork \/ Commit
      PROVE  pc' # "activate"
  BY <1>2 DEF WriteJournal, ActivateScheme, JournalPower, JournalRegistry,
     WriteRegistry, JournalMouse, WriteMouse, JournalNetwork, WriteNetwork, Commit,
     Return, Goto, AfterJournal, AfterPower, AfterRegistry, AfterMouse
<1>3. ASSUME Undo PROVE pc' # "activate"
  BY <1>3 DEF Undo, Rollback, RestoreNetwork, SaveNetworkRestored, RestoreRegistry,
     RegistryRestored, RestoreMouse, SaveMouseRestored, RestoreActiveScheme,
     DeleteScheme, SavePowerRestored, Finish, Return, Goto, AfterMouseRestore
<1> QED
  BY <1>1, <1>2, <1>3 DEF Next, Apply

\* An operation that has saved nothing has no journal on disk.
LEMMA JournalIsNew ==
    ASSUME EInv, pc = "journal"
    PROVE  disk[cur] = NoJournal
BY CountsAssumption DEF EInv, WInv, SInv, TInv, Running, NothingYet, Backups

LEMMA OnOfferStep ==
    ASSUME RInv, [Next]_vars
    PROVE  OnOffer'
<1> USE DEF RInv, AInv, EInv, WInv, SInv
<1>1. ASSUME NEW op \in Operations, Begin(op) PROVE OnOffer'
  <2>1. op \in Operation /\ TypeOK
    BY OperationsAssumption DEF TInv
  <2>2. tx'.op = op /\ disk' = disk
    BY <1>1, <2>1, CaptureIsJournal DEF Begin
  <2> QED
    BY <2>2 DEF OnOffer
<1>2. ASSUME NEW b \in Backups, BeginRestore(b) PROVE OnOffer'
  BY <1>2 DEF BeginRestore, Outstanding, OnOffer
<1>3. CASE UNCHANGED vars
  BY <1>3 DEF vars, OnOffer
<1>4. CASE pc # "idle"
  <2>1. pc' # "idle" => tx'.op = tx.op
    BY <1>4, KeepsStep DEF Keeps, SameCapture
  <2>2. \A b \in Backups : disk'[b] = disk[b] \/ disk'[b].op = tx.op
    BY <1>4, SavesStep DEF Saves, SameCapture, TInv, TypeOK
  <2> QED
    BY <1>4, <2>1, <2>2 DEF OnOffer
<1> QED
  BY <1>1, <1>2, <1>3, <1>4, IdleStep

LEMMA SchemesExistStep ==
    ASSUME RInv, [Next]_vars
    PROVE  SchemesExist'
<1> SUFFICES ASSUME ordered'
             PROVE  /\ active' \in schemes'
                    /\ pc' = "activate" => cur' \in schemes'
                    /\ \A b \in Backups : b <= issued' =>
                          before'[b].active \in before'[b].schemes
  BY DEF SchemesExist
<1> USE DEF RInv, AInv, EInv, WInv, SInv
<1>1. ASSUME NEW op \in Operations, Begin(op) PROVE
        /\ active' \in schemes' /\ pc' # "activate"
        /\ \A b \in Backups : b <= issued' => before'[b].active \in before'[b].schemes
  <2>1. /\ ordered /\ Current' = Current /\ pc' = "journal" /\ issued' = issued + 1
        /\ before' = [before EXCEPT ![issued + 1] = Current]
        /\ active' = active /\ schemes' = schemes
    BY <1>1 DEF Begin, Goto, machine, Current
  <2>2. active \in schemes /\ issued \in Nat
    BY <2>1 DEF SchemesExist, TInv, TypeOK
  <2>3. ASSUME NEW b \in Backups, b <= issued + 1
        PROVE  before'[b].active \in before'[b].schemes
    <3>1. CASE b = issued + 1
      BY <2>1, <2>2, <3>1 DEF TInv, TypeOK, Current
    <3>2. CASE b # issued + 1
      <4>1. b <= issued
        BY <2>2, <2>3, <3>2, CountsAssumption DEF Backups
      <4> QED
        BY <2>1, <3>2, <4>1 DEF TInv, TypeOK, SchemesExist
    <3> QED
      BY <3>1, <3>2
  <2> QED
    BY <2>1, <2>2, <2>3
<1>2. ASSUME NEW b \in Backups, BeginRestore(b) PROVE SchemesExist'
  BY <1>2 DEF BeginRestore, Goto, machine, SchemesExist
<1>3. CASE UNCHANGED vars
  BY <1>3 DEF vars, machine, local, history, SchemesExist
<1>4. CASE pc # "idle"
  <2>1. ordered /\ before' = before /\ issued' = issued
    BY <1>4, KeepsStep DEF Keeps
  <2>2. active \in schemes /\ (pc = "activate" => cur \in schemes)
    BY <2>1 DEF SchemesExist
  <2> SUFFICES /\ active' \in schemes'
               /\ pc' = "activate" => cur' \in schemes'
    BY <2>1 DEF SchemesExist
  <2>3. CASE pc' = "idle"
    BY <1>4, <2>2, <2>3, ReturnSteps DEF machine
  <2>4. CASE pc' # "idle"
    <3>1. CASE DuplicateScheme
      BY <2>2, <3>1 DEF DuplicateScheme, Goto, local
    <3>2. CASE ActivateScheme
      BY <2>2, <3>2 DEF ActivateScheme, Goto
    <3>3. CASE RestoreActiveScheme
      BY <2>2, <3>3 DEF RestoreActiveScheme, Goto
    <3>4. CASE DeleteScheme
      <4>1. tx.previous = before[cur].active /\ active = tx.previous
        BY <1>4, <3>4 DEF DeleteScheme, PowerStages, HasCreated, Undone, Truths, Truth
      <4>2. cur \in Backups /\ cur <= issued
        BY <1>4 DEF TInv, Running
      <4>3. before[cur].active \in before[cur].schemes
        BY <2>1, <4>2 DEF SchemesExist
      <4>4. schemes \ {cur} = before[cur].schemes
        BY <1>4, <2>1 DEF CurrentClean, Clean, Current
      <4> QED
        BY <3>4, <4>1, <4>3, <4>4 DEF DeleteScheme, Goto
    <3>5. ASSUME active' = active, schemes' = schemes,
                 ~(DuplicateScheme \/ ActivateScheme \/ RestoreActiveScheme \/ DeleteScheme)
          PROVE  /\ active' \in schemes'
                 /\ pc' = "activate" => cur' \in schemes'
      <4>1. pc' = "activate" => UNCHANGED vars
        BY <3>5, OnlyDuplicate
      <4> QED
        BY <2>2, <3>5, <4>1 DEF vars, local
    <3> QED
      BY <1>4, <2>4, <3>1, <3>2, <3>3, <3>4, <3>5, PowerSteps
  <2> QED
    BY <2>3, <2>4
<1>5. ASSUME SchemesExist' PROVE
        /\ active' \in schemes'
        /\ pc' = "activate" => cur' \in schemes'
        /\ \A b \in Backups : b <= issued' => before'[b].active \in before'[b].schemes
  BY <1>5 DEF SchemesExist
<1> QED
  BY <1>1, <1>2, <1>3, <1>4, <1>5, IdleStep


\* A rollback with the power scheme undone has saved its status or failed twice.
LEMMA PowerKeptStep ==
    ASSUME RInv, [Next]_vars
    PROVE  PowerKept'
<1> USE NoJournalAssumption, CountsAssumption DEF RInv, AInv, EInv, WInv,
   SInv, TInv, TypeOK, Running, Open, Journal, PowerKept, StatusKept,
   Applying, Undoing, Last, Statuses, Demanding, HasCreated
<1>1. ASSUME NEW op \in Operations, Begin(op) PROVE PowerKept'
  BY <1>1 DEF Begin, Goto, Capture, machine, local, history, Fault
<1>2. CASE WriteJournal
  BY <1>2 DEF WriteJournal, Saved, Replaced, SaveFailed, Goto, Return, AfterJournal,
     AfterPower, AfterRegistry, AfterMouse, machine, local, history, Fault
<1>3. CASE DuplicateScheme
  BY <1>3 DEF DuplicateScheme, Goto, machine, local, history, Fault
<1>4. CASE ActivateScheme
  BY <1>4 DEF ActivateScheme, Goto, machine, local, history, Fault
<1>5. CASE JournalPower
  BY <1>5 DEF JournalPower, Saved, Replaced, SaveFailed, Goto, AfterPower, AfterRegistry,
     AfterMouse, machine, local, history, Fault
<1>6. CASE JournalRegistry
  BY <1>6 DEF JournalRegistry, Saved, Replaced, SaveFailed, Goto, machine, local, history,
     Fault
<1>7. CASE WriteRegistry
  BY <1>7 DEF WriteRegistry, Goto, AfterRegistry, AfterMouse, machine, local,
     history, Fault
<1>8. CASE JournalMouse
  BY <1>8 DEF JournalMouse, Saved, Replaced, SaveFailed, Goto, machine, local, history,
     Fault
<1>9. CASE WriteMouse
  BY <1>9 DEF WriteMouse, Goto, AfterMouse, machine, local, history, Fault
<1>10. CASE JournalNetwork
  BY <1>10 DEF JournalNetwork, Saved, Replaced, SaveFailed, Goto, machine, local, history,
     Fault
<1>11. CASE WriteNetwork
  BY <1>11 DEF WriteNetwork, Goto, machine, local, history, Fault
<1>12. CASE Verify
  BY <1>12 DEF Verify, Goto, machine, local, history, Fault
<1>13. CASE Commit
  BY <1>13 DEF Commit, Saved, Replaced, SaveFailed, Goto, Return, Verified, Holds, Current,
     machine, local, history, Fault
<1>14. CASE Fail
  BY <1>14 DEF Fail, Saved, Replaced, SaveFailed, Goto, machine, local, history, Fault
<1>15. CASE Rollback
  BY <1>15 DEF Rollback, SaveAndNote, Saved, Replaced, SaveFailed, Goto, machine, local,
     history, Fault
<1>16. CASE RestoreNetwork
  BY <1>16 DEF RestoreNetwork, Goto, Undone, machine, local, history, Fault
<1>17. CASE SaveNetworkRestored
  BY <1>17 DEF SaveNetworkRestored, SaveAndNote, Saved, Replaced, SaveFailed, Goto,
     machine, local, history, Fault
<1>18. CASE RestoreRegistry
  BY <1>18 DEF RestoreRegistry, Remaining, machine, local, history, Fault
<1>19. CASE RegistryRestored
  BY <1>19 DEF RegistryRestored, SaveAndNote, Saved, Replaced, SaveFailed, Goto,
     AfterMouseRestore, machine, local, history, Fault
<1>20. CASE RestoreMouse
  BY <1>20 DEF RestoreMouse, Goto, AfterMouseRestore, machine, local, history,
     Fault
<1>21. CASE SaveMouseRestored
  BY <1>21 DEF SaveMouseRestored, SaveAndNote, Saved, Replaced, SaveFailed, Goto,
     AfterMouseRestore, machine, local, history, Fault
<1>22. CASE RestoreActiveScheme
  BY <1>22 DEF RestoreActiveScheme, Goto, machine, local, history, Fault
<1>23. CASE DeleteScheme
  BY <1>23 DEF DeleteScheme, Goto, machine, local, history, Fault
<1>24. CASE SavePowerRestored
  BY <1>24 DEF SavePowerRestored, SaveAndNote, Saved, Replaced, SaveFailed, Goto, machine,
     local, history, Fault
<1>25. CASE Finish
  BY <1>25 DEF Finish, Saved, Replaced, SaveFailed, Return, machine, local, history, Fault
<1>26. ASSUME NEW b \in Backups, BeginRestore(b) PROVE PowerKept'
  BY <1>26 DEF BeginRestore, Goto, PowerOrderOK, machine, local, history, Fault
<1>27. CASE Crash
  BY <1>27 DEF Crash, Return, machine, local, history, Fault
<1>28. CASE UNCHANGED vars
  BY <1>28 DEF vars, machine, local, history, Fault
<1> QED
  BY <1>1, <1>2, <1>3, <1>4, <1>5, <1>6, <1>7, <1>8, <1>9, <1>10, <1>11,
     <1>12, <1>13, <1>14, <1>15, <1>16, <1>17, <1>18, <1>19, <1>20, <1>21,
     <1>22, <1>23, <1>24, <1>25, <1>26, <1>27, <1>28 DEF Next, Apply, Undo

\* With at most two faults, an operation that returns leaves its journal
\* restorable.
LEMMA PowerReturn ==
    ASSUME RInv, [Next]_vars, pc # "idle", pc' = "idle", faults' <= 2,
           disk'[cur] # NoJournal, Demanding(disk'[cur])
    PROVE  active' = cur
<1> USE DEF RInv, AInv, EInv, WInv, SInv
<1>1. cur \in Backups /\ tx \in Journal /\ active' = active
  BY ReturnSteps DEF TInv, Running, machine
<1>2. faults \in Nat /\ (faults' = faults \/ faults' = faults + 1)
  BY FaultsCounted
<1>3. WriteJournal \/ Commit \/ Finish \/ Crash
  BY EndSteps
<1>4. disk'[cur].status = "applied"
  BY DEF Demanding
<1>5. CASE disk' = disk
  <2>1. pc # "journal"
    BY <1>1, <1>5, JournalIsNew
  <2>2. pc \notin Applying
    BY <1>4, <1>5, <2>1 DEF StatusKept
  <2>3. CASE active = cur
    BY <1>1, <2>3
  <2>4. CASE pc \in {"deleteScheme", "powerRestored", "finish"}
    <3>1. faults >= 2 /\ faults' = faults
      BY <1>2, <1>4, <1>5, <2>4 DEF PowerKept, Last
    <3>2. Finish
      BY <1>2, <1>3, <2>4, <3>1 DEF WriteJournal, Commit, Crash, Fault
    <3>3. disk' = [disk EXCEPT ![cur] = [tx EXCEPT !.status = IF problems THEN "rollback_failed"
                                                              ELSE "rolled_back"]]
      BY <1>2, <3>1, <3>2 DEF Finish, Saved, Replaced, SaveFailed, Fault
    <3> QED
      BY <1>1, <1>4, <3>3 DEF TInv, TypeOK, Journal
  <2> QED
    BY <1>5, <2>1, <2>3, <2>4 DEF PowerKept
<1>6. CASE disk' # disk
  <2>1. CASE WriteJournal
    <3>1. disk'[cur] = tx /\ pc = "journal"
      BY <1>1, <1>6, <2>1 DEF WriteJournal, Saved, Replaced, SaveFailed, TInv, TypeOK
    <3> QED
      BY <1>4, <3>1 DEF StatusKept
  <2>2. CASE Commit
    <3>1. disk'[cur] = [tx EXCEPT !.status = "applied"] /\ pc = "commit"
      BY <1>1, <1>6, <2>2 DEF Commit, Saved, Replaced, SaveFailed, TInv, TypeOK
    <3>2. tx.powerApplied => active = cur
      BY <3>1 DEF Verified, Holds, Current
    <3> QED
      BY <1>1, <3>1, <3>2 DEF Journal, Demanding
  <2>3. CASE Finish
    <3>1. disk'[cur] = [tx EXCEPT !.status = IF problems THEN "rollback_failed"
                                             ELSE "rolled_back"]
      BY <1>1, <1>6, <2>3 DEF Finish, Saved, Replaced, SaveFailed, TInv, TypeOK
    <3> QED
      BY <1>1, <1>4, <3>1 DEF Journal
  <2>4. CASE Crash
    BY <1>6, <2>4 DEF Crash
  <2> QED
    BY <1>3, <2>1, <2>2, <2>3, <2>4
<1> QED
  BY <1>5, <1>6

LEMMA PowerNewestStep ==
    ASSUME RInv, [Next]_vars
    PROVE  PowerNewest'
<1> SUFFICES ASSUME ordered', faults' <= 2, pc' \in {"idle", "journal"},
                    NEW b \in Backups, Newest(b)', Demanding(disk'[b])
             PROVE  active' = b
  BY DEF PowerNewest
<1> USE DEF RInv, AInv, EInv, WInv, SInv
<1>0. faults \in Nat /\ faults <= 2
  BY FaultsCounted
<1>1. ASSUME NEW op \in Operations, Begin(op) PROVE active' = b
  <2>1. pc = "idle" /\ ordered /\ disk' = disk /\ active' = active
    BY <1>1 DEF Begin, machine
  <2>2. Newest(b)
    BY <2>1 DEF Newest, Outstanding
  <2> QED
    BY <1>0, <2>1, <2>2 DEF PowerNewest
<1>2. ASSUME NEW c \in Backups, BeginRestore(c) PROVE FALSE
  BY <1>2 DEF BeginRestore, Goto
<1>3. CASE UNCHANGED vars
  <2>1. active' = active /\ disk' = disk /\ pc' = pc /\ ordered' = ordered
    BY <1>3 DEF vars, machine, history
  <2>2. Newest(b)
    BY <2>1 DEF Newest, Outstanding
  <2> QED
    BY <1>0, <2>1, <2>2 DEF PowerNewest
<1>4. CASE pc # "idle" /\ ~UNCHANGED vars
  <2>1. ordered /\ cur \in Backups
    BY <1>4, KeepsStep DEF Keeps, TInv, Running
  <2>2. pc' = "idle"
    BY <1>4, NothingYetOnly
  <2>3. CASE b = cur
    BY <1>4, <2>2, <2>3, PowerReturn DEF Newest, Outstanding
  <2>4. CASE b # cur
    <3>1. active' = active
      BY <1>4, <2>2, ReturnSteps DEF machine
    <3>2. before[cur] = Current => active = before[cur].active
      BY DEF Current
    <3> QED
      BY <1>0, <1>4, <2>1, <2>2, <2>4, <3>1, <3>2, ReturnToOlder
         DEF PowerNewest, PowerStack
  <2> QED
    BY <2>3, <2>4
<1> QED
  BY <1>1, <1>2, <1>3, <1>4, IdleStep

LEMMA PowerStackStep ==
    ASSUME RInv, [Next]_vars
    PROVE  PowerStack'
<1> SUFFICES ASSUME ordered', faults' <= 2,
                    NEW b \in Backups, NEW c \in Backups, Below(b, c)',
                    Demanding(disk'[b])
             PROVE  before'[c].active = b
  BY DEF PowerStack
<1> USE DEF RInv, AInv
<1>1. faults \in Nat /\ faults <= 2
  BY FaultsCounted
<1>2. before[c] = Current => before[c].active = active
  BY DEF Current
<1> QED
  BY <1>1, <1>2, BelowStep DEF PowerNewest, PowerStack

LEMMA InitRInv == Init => RInv
<1>1. SUFFICES ASSUME Init PROVE RInv
  OBVIOUS
<1>2. pc = "idle" /\ disk = [b \in Backups |-> NoJournal] /\ issued = 0
  BY <1>1 DEF Init
<1>3. \A b \in Backups : ~Outstanding(b)
  BY <1>2 DEF Outstanding
<1>4. SchemesExist
  BY <1>1, <1>2, CountsAssumption DEF Init, SchemesExist, Backups
<1> QED
  BY <1>1, <1>2, <1>3, <1>4, InitAInv DEF RInv, OnOffer, PowerKept, PowerNewest,
     PowerStack, Newest, Below, Last

LEMMA RInvStep == RInv /\ [Next]_vars => RInv'
BY AInvStep, OnOfferStep, SchemesExistStep, PowerKeptStep, PowerNewestStep,
   PowerStackStep DEF RInv

\* Up to two faults the newest backup can be restored.
LEMMA RetryableThen ==
    ASSUME RInv, faults <= 2,
           \A op \in Operations : op.kind = "tweak" => op.power # "setting"
    PROVE  RollbackRetryable
<1> SUFFICES ASSUME NEW b \in Backups, pc = "idle", ordered, Newest(b)
             PROVE  Restorable(b) /\ (faults <= 1 => Trusted(b))
  BY DEF RollbackRetryable
<1> USE DEF RInv, AInv, EInv, WInv, SInv
<1>1. disk[b] # NoJournal /\ disk[b] \in Journal /\ b <= issued
  BY DEF Newest, Outstanding, TInv, TypeOK, DiskCaptures
<1>2. ValidShape(disk[b])
  BY <1>1 DEF OnOffer, ValidShape
<1>3. PowerOrderOK(b)
  BY DEF PowerOrderOK, PowerNewest, Demanding
<1>4. ASSUME disk[b].powerApplied PROVE disk[b].previous \in schemes
  <2>1. disk[b].previous = before[b].active
    BY <1>1, <1>4 DEF Truths, Truth, PowerTold
  <2>2. schemes \ {b} = before[b].schemes
    BY DEF NewestClean, Clean, Current
  <2>3. before[b].active \in before[b].schemes
    BY <1>1 DEF SchemesExist
  <2> QED
    BY <2>1, <2>2, <2>3
<1>5. faults <= 1 => Trusted(b)
  <2>1. ahead[b] \in 0..SealSize /\ faults \in Nat /\ ahead[b] <= faults
    BY CountsAssumption DEF TInv, TypeOK, FewAhead
  <2> QED
    BY <2>1 DEF Trusted, SealSize
<1> QED
  BY <1>2, <1>3, <1>4, <1>5 DEF Restorable

\* restoreBackup: in a catalogue without single-setting power tweaks, and up to
\* two faults, nothing in the newest backup makes a restore refuse it, with
\* backups restored newest first; and up to one fault its seal does not either.
\* A second fault can push its digest out of the seal: two saves in a row that
\* stop between seal and rename.  A third breaks the rest: "rolling_back" and
\* the save after the registry both lost, then a crash behind the power scheme,
\* leave a journal that says "applied" while its scheme is no longer active.
THEOREM NewestCanBeRestored ==
    ASSUME \A op \in Operations : op.kind = "tweak" => op.power # "setting"
    PROVE  Spec => [](faults <= 2 => RollbackRetryable)
<1>1. RInv => (faults <= 2 => RollbackRetryable)
  BY RetryableThen
<1> QED
  BY <1>1, InitRInv, RInvStep, PTL DEF Spec

=============================================================================
