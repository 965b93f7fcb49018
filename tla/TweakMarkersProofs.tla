------------------------- MODULE TweakMarkersProofs -------------------------
(***************************************************************************)
(* Backups and markers, for any services, startup entries, tweaks and any  *)
(* number of calls: what the toggles keep (module KeptBackups), then the   *)
(* markers of one-click rollbacks.                                         *)
(***************************************************************************)
EXTENDS TweakMarkers, TLAPS

-----------------------------------------------------------------------------
(* What the toggles keep.  `work' is one record, so that most of the       *)
(* invariant says what the operation in progress has read and what still   *)
(* holds of it, although other programs change the services and the        *)
(* entries meanwhile.                                                      *)

Work == [step : {"idle", "save", "write", "check", "drop", "park", "recheck", "remove",
                 "put", "unpark", "restore"},
         item : Services \cup Names \cup {None},
         value : StartTypes \cup {Disabled} \cup Commands \cup {None},
         enable : BOOLEAN, restoring : BOOLEAN, names : SUBSET Names,
         services : SUBSET Services, failed : BOOLEAN, sameUser : BOOLEAN,
         restored : BOOLEAN]

KeptTypes == /\ config \in [Services -> StartTypes \cup {Disabled}]
             /\ kept \in [Services -> StartTypes \cup {None}]
             /\ run \in [Names -> Commands \cup {None}]
             /\ parked \in [Names -> Commands \cup {None}]
             /\ disabledFrom \in [Services -> StartTypes \cup {None}]
             /\ latest \in [Names -> Commands \cup {None}]
             /\ work \in Work

\* What a service operation has read, at each of its steps.
ServiceWork ==
  /\ work.step = "save" =>
       /\ work.item \in Services /\ work.value \in StartTypes
       /\ ~work.enable /\ ~work.restoring
       /\ work.value = config[work.item] \/ work.item \in overtaken
  /\ work.step \in {"write", "check"} =>
       /\ work.item \in Services
       /\ IF work.enable THEN work.value \in StartTypes /\ kept[work.item] \in {None, work.value}
          ELSE work.value = Disabled /\ kept[work.item] # None /\ ~work.restoring
  /\ work.step = "drop" => work.item \in Services /\ work.enable
  /\ work.step \in {"check", "drop"} /\ work.enable => disabledFrom[work.item] = None
  /\ work.step \in {"write", "check", "drop"} /\ work.restoring => work.item \notin work.services

\* A backup of a service that is not disabled says how it is set.
BackupTrue == \A s \in Services : kept[s] # None /\ config[s] # Disabled =>
                kept[s] = config[s] \/ s \in overtaken

\* What a startup operation has read, at each of its steps.
StartupWork ==
  /\ work.step \in {"park", "recheck", "remove", "put", "unpark"} =>
       work.item \in Names /\ work.value \in Commands
  /\ work.step \in {"park", "recheck", "remove"} => ~work.restoring
  /\ work.step = "park" => parked[work.item] \in {None, work.value}
  /\ work.step \in {"recheck", "remove", "put", "unpark"} => parked[work.item] = work.value
  /\ work.step = "remove" => run[work.item] = work.value \/ work.item \in overwritten
  /\ work.step = "put" => run[work.item] = None \/ work.item \in overwritten
  /\ work.step \in {"put", "unpark"} /\ work.restoring => work.item \notin work.names

\* What the restore of a profile has not done yet.
RestoreWork ==
  /\ work.step = "restore" => work.restoring
  /\ work.step # "idle" => ~work.restored
  /\ work.restoring =>
       /\ \A s \in work.services : kept[s] # None
       /\ \A n \in work.names : parked[n] # None
       /\ ~work.failed =>
            /\ \A s \in Services : kept[s] # None =>
                 s \in work.services \/ (work.step \in {"write", "check", "drop"} /\ work.item = s)
            /\ work.sameUser => \A n \in Names : parked[n] # None =>
                 n \in work.names \/ (work.step \in {"put", "unpark"} /\ work.item = n)

KeptInv == /\ KeptTypes /\ ServiceWork /\ BackupTrue /\ StartupWork /\ RestoreWork
           /\ OriginalUnlessOvertaken /\ CommandKept /\ RestoreComplete

\* A step of an operation, of another program, or the start of the restore.
RestoreBegins == /\ ~Busy
                 /\ \E failed \in BOOLEAN : RestoreTail(failed)
                 /\ UNCHANGED <<services, startup>>

KeptMove == KeptStep \/ RestoreBegins \/ UNCHANGED keptState

\* What a look at Run decides.
LookedAt(w) == \/ run[w.item] = None /\ work' = [w EXCEPT !.step = "put"]
               \/ run[w.item] = w.value /\ work' = [w EXCEPT !.step = "unpark"]
               \/ w.restoring /\ work' = [w EXCEPT !.step = "restore", !.failed = TRUE]
               \/ ~w.restoring /\ work' = Idle

\* The end of an item of the restore, or of the operation.
Ended(w) == \/ ~work.restoring /\ w = Idle
            \/ /\ work.restoring
               /\ w.step = "restore" /\ w.item = work.item /\ w.value = work.value
               /\ w.enable = work.enable /\ w.restoring
               /\ w.names = work.names /\ w.services = work.services
               /\ w.sameUser = work.sameUser /\ w.restored = work.restored
               /\ work.failed => w.failed

\* Nothing is in progress.
LEMMA IdleTyped == Idle \in Work
BY DEF Idle, Work

\* EnableService.
LEMMA EnablingTyped ==
  ASSUME NEW s \in Services, NEW v \in StartTypes
  PROVE  [Idle EXCEPT !.step = "write", !.item = s, !.enable = TRUE, !.value = v] \in Work
BY DEF Idle, Work

\* RestoreTail.
LEMMA RestoringTyped ==
  ASSUME NEW same \in BOOLEAN, NEW f \in BOOLEAN,
         NEW ns \in SUBSET Names, NEW ss \in SUBSET Services
  PROVE  [Idle EXCEPT !.step = "restore", !.restoring = TRUE, !.sameUser = same,
                      !.failed = f, !.names = ns, !.services = ss] \in Work
BY DEF Idle, Work

\* RestoreEnds.
LEMMA RestoredTyped ==
  ASSUME NEW x \in BOOLEAN, NEW same \in BOOLEAN
  PROVE  [Idle EXCEPT !.restored = x, !.sameUser = same] \in Work
BY DEF Idle, Work

\* EndItem.
LEMMA EndsItem ==
  ASSUME work \in Work, NEW f \in BOOLEAN, EndItem(f)
  PROVE  /\ work' \in Work
         /\ Ended(work')
         /\ f /\ work.restoring => work'.failed
<1>1. CASE ~work.restoring
  BY <1>1, IdleTyped DEF EndItem, Ended
<1>2. CASE work.restoring
  <2> DEFINE x == work.failed \/ f
  <2>1. work' = [work EXCEPT !.step = "restore", !.failed = x]
    BY <1>2 DEF EndItem
  <2>2. x \in BOOLEAN /\ (work.failed => x) /\ (f => x)
    OBVIOUS
  <2> HIDE DEF x
  <2>3. work' \in Work
    BY <2>1, <2>2 DEF Work
  <2> QED
    BY <1>2, <2>1, <2>2, <2>3 DEF Ended, Work
<1> QED
  BY <1>1, <1>2

\* LookAtRun.
LEMMA LookTyped ==
  ASSUME NEW w \in Work, LookAtRun(w)
  PROVE  work' \in Work /\ LookedAt(w)
<1>1. LookedAt(w)
  BY DEF LookAtRun, LookedAt
<1>2. CASE work' = [w EXCEPT !.step = "put"]
  BY <1>1, <1>2 DEF Work
<1>3. CASE work' = [w EXCEPT !.step = "unpark"]
  BY <1>1, <1>3 DEF Work
<1>4. CASE work' = [w EXCEPT !.step = "restore", !.failed = TRUE]
  BY <1>1, <1>4 DEF Work
<1> QED
  BY <1>1, <1>2, <1>3, <1>4, IdleTyped DEF LookedAt

\* CheckService.
LEMMA Checks ==
  ASSUME work \in Work, CheckService
  PROVE  \/ /\ config[work.item] = work.value /\ work.enable
            /\ work' = [work EXCEPT !.step = "drop"]
         \/ /\ work' \in Work
            /\ Ended(work') /\ (work.restoring => work'.failed \/ ~work.enable)
<1> USE DEF CheckService
<1>1. CASE config[work.item] # work.value
  BY <1>1, EndsItem
<1>2. CASE config[work.item] = work.value /\ ~work.enable
  BY <1>2, EndsItem
<1> QED
  BY <1>1, <1>2

\* RecheckCommand.
LEMMA Rechecks ==
  ASSUME work \in Work, RecheckCommand
  PROVE  \/ /\ run[work.item] = work.value
            /\ work' = [work EXCEPT !.step = "remove"]
         \/ work' \in Work /\ Ended(work') /\ (work.restoring => work'.failed)
<1> USE DEF RecheckCommand
<1>1. CASE run[work.item] # work.value
  BY <1>1, EndsItem
<1> QED
  BY <1>1

\* UnparkCommand.
LEMMA Unparks ==
  ASSUME work \in Work, UnparkCommand
  PROVE  /\ work' \in Work /\ Ended(work')
         /\ \/ /\ run[work.item] = work.value
               /\ parked' = [parked EXCEPT ![work.item] = None]
            \/ UNCHANGED parked /\ (work.restoring => work'.failed)
<1> USE DEF UnparkCommand
<1>1. CASE run[work.item] # work.value
  BY <1>1, EndsItem
<1>2. CASE run[work.item] = work.value
  BY <1>2, EndsItem
<1> QED
  BY <1>1, <1>2

\* The types, by action.
LEMMA KeptTypesStep ==
  ASSUME KeptInv, KeptMove
  PROVE  KeptTypes'
<1> USE TypesAssumption DEF services, startup, keptHistory, keptState, Idle, Busy, KeptInv, KeptTypes, ServiceWork, StartupWork
<1>1. ASSUME NEW s \in Services, DisableService(s) PROVE KeptTypes'
  BY <1>1 DEF DisableService, Begin, Event, Work
<1>2. ASSUME NEW s \in Services, EnableService(s) PROVE KeptTypes'
  <2> DEFINE v == IF kept[s] = None THEN Manual ELSE kept[s]
  <2>1. v \in StartTypes
    OBVIOUS
  <2>2. work' = [Idle EXCEPT !.step = "write", !.item = s, !.enable = TRUE, !.value = v]
    BY <1>2 DEF EnableService
  <2> HIDE DEF v
  <2>3. work' \in Work
    BY <2>1, <2>2, EnablingTyped
  <2> QED
    BY <1>2, <2>3 DEF EnableService, Begin, Event
<1>3. ASSUME NEW n \in Names, DisableStartup(n) PROVE KeptTypes'
  BY <1>3 DEF DisableStartup, Begin, Event, Work
<1>4. ASSUME NEW n \in Names, EnableStartup(n) PROVE KeptTypes'
  <2> DEFINE w == [Idle EXCEPT !.item = n, !.value = parked[n]]
  <2>1. w \in Work
    BY <1>4 DEF EnableStartup, Work, Begin
  <2>2. LookAtRun(w)
    BY <1>4 DEF EnableStartup
  <2>3. work' \in Work
    BY <2>1, <2>2, LookTyped
  <2> QED
    BY <1>4, <2>3 DEF EnableStartup, Event
<1>5. CASE SaveService
  BY <1>5 DEF SaveService, At, Work
<1>6. CASE WriteService
  BY <1>6 DEF WriteService, At, Work
<1>7. CASE CheckService
  <2>1. CASE /\ config[work.item] = work.value /\ work.enable
             /\ work' = [work EXCEPT !.step = "drop"]
    BY <1>7, <2>1 DEF CheckService, At, Work
  <2>2. CASE /\ work' \in Work
             /\ Ended(work') /\ (work.restoring => work'.failed \/ ~work.enable)
    <3>1. CASE ~work.restoring
      BY <1>7, <2>2, <3>1 DEF CheckService, At, Ended
    <3>2. CASE work.restoring
      BY <1>7, <2>2, <3>2 DEF CheckService, At, Ended
    <3> QED
      BY <3>1, <3>2
  <2> QED
    BY <1>7, <2>1, <2>2, Checks
<1>8. CASE DropBackup
  BY <1>8 DEF DropBackup, EndItem, At, Work
<1>9. CASE ParkCommand
  BY <1>9 DEF ParkCommand, At, Work
<1>10. CASE RecheckCommand
  <2>1. CASE /\ run[work.item] = work.value
             /\ work' = [work EXCEPT !.step = "remove"]
    BY <1>10, <2>1 DEF RecheckCommand, At, Work
  <2>2. CASE work' \in Work /\ Ended(work') /\ (work.restoring => work'.failed)
    <3>1. CASE ~work.restoring
      BY <1>10, <2>2, <3>1 DEF RecheckCommand, At, Ended
    <3>2. CASE work.restoring
      BY <1>10, <2>2, <3>2 DEF RecheckCommand, At, Ended
    <3> QED
      BY <3>1, <3>2
  <2> QED
    BY <1>10, <2>1, <2>2, Rechecks
<1>11. CASE RemoveCommand
  BY <1>11 DEF RemoveCommand, EndItem, At, Work
<1>12. CASE PutCommand
  BY <1>12 DEF PutCommand, At, Work
<1>13. CASE UnparkCommand
  <2>1. work' \in Work /\ Ended(work')
    BY <1>13, Unparks
  <2>2. CASE /\ run[work.item] = work.value
             /\ parked' = [parked EXCEPT ![work.item] = None]
    <3>1. CASE ~work.restoring
      BY <1>13, <2>2, <3>1, <2>1 DEF UnparkCommand, At, Ended
    <3>2. CASE work.restoring
      BY <1>13, <2>2, <3>2, <2>1 DEF UnparkCommand, At, Ended
    <3> QED
      BY <3>1, <3>2
  <2>3. CASE UNCHANGED parked /\ (work.restoring => work'.failed)
    <3>1. CASE ~work.restoring
      BY <1>13, <2>3, <3>1, <2>1 DEF UnparkCommand, At, Ended
    <3>2. CASE work.restoring
      BY <1>13, <2>3, <3>2, <2>1 DEF UnparkCommand, At, Ended
    <3> QED
      BY <3>1, <3>2
  <2> QED
    BY <1>13, <2>2, <2>3, Unparks
<1>14. CASE RestoreStartup
  <2>1. PICK n \in work.names : LookAtRun([work EXCEPT !.item = n, !.value = parked[n],
                                                    !.names = @ \ {n}])
    BY <1>14 DEF RestoreStartup, At
  <2> DEFINE w == [work EXCEPT !.item = n, !.value = parked[n], !.names = @ \ {n}]
  <2>2. w \in Work
    BY DEF Work
  <2>3. work' \in Work
    BY <2>1, <2>2, LookTyped
  <2> QED
    BY <1>14, <2>3 DEF RestoreStartup, At
<1>15. CASE RestoreService
  <2>1. PICK s \in work.services :
          work' = [work EXCEPT !.step = "write", !.item = s, !.value = kept[s],
                               !.enable = TRUE, !.services = @ \ {s}]
    BY <1>15 DEF RestoreService
  <2>2. work' \in Work
    BY <2>1 DEF Work
  <2> QED
    BY <1>15, <2>2 DEF RestoreService
<1>16. CASE RestoreEnds
  <2>1. work' = [Idle EXCEPT !.restored = ~work.failed, !.sameUser = work.sameUser]
    BY <1>16 DEF RestoreEnds
  <2>2. work.failed \in BOOLEAN /\ work.sameUser \in BOOLEAN
    BY DEF Work
  <2>3. work' \in Work
    BY <2>1, <2>2, RestoredTyped
  <2> QED
    BY <1>16, <2>3 DEF RestoreEnds
<1>17. CASE CallFails
  BY <1>17 DEF CallFails, EndItem, Work
<1>18. CASE Die
  BY <1>18 DEF Die, Work
<1>19. ASSUME NEW s \in Services, OtherService(s) PROVE KeptTypes'
  BY <1>19 DEF OtherService, Event, Work
<1>20. ASSUME NEW n \in Names, OtherStartup(n) PROVE KeptTypes'
  BY <1>20 DEF OtherStartup, Event, Work
<1>21. CASE RestoreBegins
  <2>1. PICK f \in BOOLEAN, same \in BOOLEAN :
          work' = [Idle EXCEPT !.step = "restore", !.restoring = TRUE, !.sameUser = same,
                     !.failed = f,
                     !.names = IF same THEN {n \in Names : parked[n] # None} ELSE {},
                     !.services = {s \in Services : kept[s] # None}]
    BY <1>21 DEF RestoreBegins, RestoreTail
  <2> DEFINE ns == IF same THEN {n \in Names : parked[n] # None} ELSE {}
             ss == {s \in Services : kept[s] # None}
  <2>2. ns \in SUBSET Names /\ ss \in SUBSET Services
    OBVIOUS
  <2>3. work' = [Idle EXCEPT !.step = "restore", !.restoring = TRUE, !.sameUser = same,
                             !.failed = f, !.names = ns, !.services = ss]
    BY <2>1
  <2> HIDE DEF ns, ss
  <2>4. work' \in Work
    BY <2>2, <2>3, RestoringTyped
  <2> QED
    BY <1>21, <2>4 DEF RestoreBegins
<1>22. CASE UNCHANGED keptState
  BY <1>22
<1> QED
  BY <1>1, <1>2, <1>3, <1>4, <1>5, <1>6, <1>7, <1>8, <1>9, <1>10, <1>11,
     <1>12, <1>13, <1>14, <1>15, <1>16, <1>17, <1>18, <1>19, <1>20, <1>21,
     <1>22
     DEF KeptMove, KeptStep, Toggle

\* What a service operation has read stays true.
LEMMA ServiceWorkStep ==
  ASSUME KeptInv, KeptMove
  PROVE  ServiceWork'
<1> USE TypesAssumption DEF services, startup, keptHistory, keptState, Idle, Busy, KeptInv, KeptTypes, ServiceWork, RestoreWork
<1>1. ASSUME NEW s \in Services, DisableService(s) PROVE ServiceWork'
  BY <1>1 DEF DisableService, Begin, Event, Work
<1>2. ASSUME NEW s \in Services, EnableService(s) PROVE ServiceWork'
  BY <1>2 DEF EnableService, Begin, Event, Work
<1>3. ASSUME NEW n \in Names, DisableStartup(n) PROVE ServiceWork'
  BY <1>3 DEF DisableStartup, Begin, Event, Work
<1>4. ASSUME NEW n \in Names, EnableStartup(n) PROVE ServiceWork'
  BY <1>4 DEF EnableStartup, LookAtRun, Begin, Event, Work
<1>5. CASE SaveService
  BY <1>5 DEF SaveService, At, Work
<1>6. CASE WriteService
  BY <1>6 DEF WriteService, At, Work
<1>7. CASE CheckService
  <2>1. CASE /\ config[work.item] = work.value /\ work.enable
             /\ work' = [work EXCEPT !.step = "drop"]
    BY <1>7, <2>1 DEF CheckService, At, Work
  <2>2. CASE /\ work' \in Work
             /\ Ended(work') /\ (work.restoring => work'.failed \/ ~work.enable)
    <3>1. CASE ~work.restoring
      BY <1>7, <2>2, <3>1 DEF CheckService, At, Ended
    <3>2. CASE work.restoring
      BY <1>7, <2>2, <3>2 DEF CheckService, At, Ended
    <3> QED
      BY <3>1, <3>2
  <2> QED
    BY <1>7, <2>1, <2>2, Checks
<1>8. CASE DropBackup
  BY <1>8 DEF DropBackup, EndItem, At, Work
<1>9. CASE ParkCommand
  BY <1>9 DEF ParkCommand, At, Work
<1>10. CASE RecheckCommand
  <2>1. CASE /\ run[work.item] = work.value
             /\ work' = [work EXCEPT !.step = "remove"]
    BY <1>10, <2>1 DEF RecheckCommand, At, Work
  <2>2. CASE work' \in Work /\ Ended(work') /\ (work.restoring => work'.failed)
    <3>1. CASE ~work.restoring
      BY <1>10, <2>2, <3>1 DEF RecheckCommand, At, Ended
    <3>2. CASE work.restoring
      BY <1>10, <2>2, <3>2 DEF RecheckCommand, At, Ended
    <3> QED
      BY <3>1, <3>2
  <2> QED
    BY <1>10, <2>1, <2>2, Rechecks
<1>11. CASE RemoveCommand
  BY <1>11 DEF RemoveCommand, EndItem, At, Work
<1>12. CASE PutCommand
  BY <1>12 DEF PutCommand, At, Work
<1>13. CASE UnparkCommand
  <2>1. work' \in Work /\ Ended(work')
    BY <1>13, Unparks
  <2>2. CASE /\ run[work.item] = work.value
             /\ parked' = [parked EXCEPT ![work.item] = None]
    <3>1. CASE ~work.restoring
      BY <1>13, <2>2, <3>1, <2>1 DEF UnparkCommand, At, Ended
    <3>2. CASE work.restoring
      BY <1>13, <2>2, <3>2, <2>1 DEF UnparkCommand, At, Ended
    <3> QED
      BY <3>1, <3>2
  <2>3. CASE UNCHANGED parked /\ (work.restoring => work'.failed)
    <3>1. CASE ~work.restoring
      BY <1>13, <2>3, <3>1, <2>1 DEF UnparkCommand, At, Ended
    <3>2. CASE work.restoring
      BY <1>13, <2>3, <3>2, <2>1 DEF UnparkCommand, At, Ended
    <3> QED
      BY <3>1, <3>2
  <2> QED
    BY <1>13, <2>2, <2>3, Unparks
<1>14. CASE RestoreStartup
  BY <1>14 DEF RestoreStartup, LookAtRun, At, Work
<1>15. CASE RestoreService
  BY <1>15 DEF RestoreService, At, Work
<1>16. CASE RestoreEnds
  BY <1>16 DEF RestoreEnds, At, Work
<1>17. CASE CallFails
  BY <1>17 DEF CallFails, EndItem, Work
<1>18. CASE Die
  BY <1>18 DEF Die, Work
<1>19. ASSUME NEW s \in Services, OtherService(s) PROVE ServiceWork'
  BY <1>19 DEF OtherService, Event, Work
<1>20. ASSUME NEW n \in Names, OtherStartup(n) PROVE ServiceWork'
  BY <1>20 DEF OtherStartup, Event, Work
<1>21. CASE RestoreBegins
  BY <1>21 DEF RestoreBegins, RestoreTail, Work
<1>22. CASE UNCHANGED keptState
  BY <1>22
<1> QED
  BY <1>1, <1>2, <1>3, <1>4, <1>5, <1>6, <1>7, <1>8, <1>9, <1>10, <1>11,
     <1>12, <1>13, <1>14, <1>15, <1>16, <1>17, <1>18, <1>19, <1>20, <1>21,
     <1>22
     DEF KeptMove, KeptStep, Toggle

\* The backup of a service that is not disabled stays true.
LEMMA BackupTrueStep ==
  ASSUME KeptInv, KeptMove
  PROVE  BackupTrue'
<1> USE TypesAssumption DEF services, startup, keptHistory, keptState, Idle, Busy, KeptInv, KeptTypes, ServiceWork, BackupTrue
<1>1. ASSUME NEW s \in Services, DisableService(s) PROVE BackupTrue'
  BY <1>1 DEF DisableService, Begin, Event, Work
<1>2. ASSUME NEW s \in Services, EnableService(s) PROVE BackupTrue'
  BY <1>2 DEF EnableService, Begin, Event, Work
<1>3. ASSUME NEW n \in Names, DisableStartup(n) PROVE BackupTrue'
  BY <1>3 DEF DisableStartup, Begin, Event, Work
<1>4. ASSUME NEW n \in Names, EnableStartup(n) PROVE BackupTrue'
  BY <1>4 DEF EnableStartup, LookAtRun, Begin, Event, Work
<1>5. CASE SaveService
  BY <1>5 DEF SaveService, At, Work
<1>6. CASE WriteService
  BY <1>6 DEF WriteService, At, Work
<1>7. CASE CheckService
  BY <1>7 DEF CheckService, EndItem, At, Work
<1>8. CASE DropBackup
  BY <1>8 DEF DropBackup, EndItem, At, Work
<1>9. CASE ParkCommand
  BY <1>9 DEF ParkCommand, At, Work
<1>10. CASE RecheckCommand
  BY <1>10 DEF RecheckCommand, EndItem, At, Work
<1>11. CASE RemoveCommand
  BY <1>11 DEF RemoveCommand, EndItem, At, Work
<1>12. CASE PutCommand
  BY <1>12 DEF PutCommand, At, Work
<1>13. CASE UnparkCommand
  BY <1>13 DEF UnparkCommand, EndItem, At, Work
<1>14. CASE RestoreStartup
  BY <1>14 DEF RestoreStartup, LookAtRun, At, Work
<1>15. CASE RestoreService
  BY <1>15 DEF RestoreService, At, Work
<1>16. CASE RestoreEnds
  BY <1>16 DEF RestoreEnds, At, Work
<1>17. CASE CallFails
  BY <1>17 DEF CallFails, EndItem, Work
<1>18. CASE Die
  BY <1>18 DEF Die, Work
<1>19. ASSUME NEW s \in Services, OtherService(s) PROVE BackupTrue'
  BY <1>19 DEF OtherService, Event, Work
<1>20. ASSUME NEW n \in Names, OtherStartup(n) PROVE BackupTrue'
  BY <1>20 DEF OtherStartup, Event, Work
<1>21. CASE RestoreBegins
  BY <1>21 DEF RestoreBegins, RestoreTail, Work
<1>22. CASE UNCHANGED keptState
  BY <1>22
<1> QED
  BY <1>1, <1>2, <1>3, <1>4, <1>5, <1>6, <1>7, <1>8, <1>9, <1>10, <1>11,
     <1>12, <1>13, <1>14, <1>15, <1>16, <1>17, <1>18, <1>19, <1>20, <1>21,
     <1>22
     DEF KeptMove, KeptStep, Toggle

\* The backup of a disabled service stays the original.
LEMMA OriginalStep ==
  ASSUME KeptInv, KeptMove
  PROVE  OriginalUnlessOvertaken'
<1> USE TypesAssumption DEF services, startup, keptHistory, keptState, Idle, Busy, KeptInv, KeptTypes, ServiceWork, BackupTrue, OriginalUnlessOvertaken
<1>1. ASSUME NEW s \in Services, DisableService(s) PROVE OriginalUnlessOvertaken'
  BY <1>1 DEF DisableService, Begin, Event, Work
<1>2. ASSUME NEW s \in Services, EnableService(s) PROVE OriginalUnlessOvertaken'
  BY <1>2 DEF EnableService, Begin, Event, Work
<1>3. ASSUME NEW n \in Names, DisableStartup(n) PROVE OriginalUnlessOvertaken'
  BY <1>3 DEF DisableStartup, Begin, Event, Work
<1>4. ASSUME NEW n \in Names, EnableStartup(n) PROVE OriginalUnlessOvertaken'
  BY <1>4 DEF EnableStartup, LookAtRun, Begin, Event, Work
<1>5. CASE SaveService
  BY <1>5 DEF SaveService, At, Work
<1>6. CASE WriteService
  BY <1>6 DEF WriteService, At, Work
<1>7. CASE CheckService
  BY <1>7 DEF CheckService, EndItem, At, Work
<1>8. CASE DropBackup
  BY <1>8 DEF DropBackup, EndItem, At, Work
<1>9. CASE ParkCommand
  BY <1>9 DEF ParkCommand, At, Work
<1>10. CASE RecheckCommand
  BY <1>10 DEF RecheckCommand, EndItem, At, Work
<1>11. CASE RemoveCommand
  BY <1>11 DEF RemoveCommand, EndItem, At, Work
<1>12. CASE PutCommand
  BY <1>12 DEF PutCommand, At, Work
<1>13. CASE UnparkCommand
  BY <1>13 DEF UnparkCommand, EndItem, At, Work
<1>14. CASE RestoreStartup
  BY <1>14 DEF RestoreStartup, LookAtRun, At, Work
<1>15. CASE RestoreService
  BY <1>15 DEF RestoreService, At, Work
<1>16. CASE RestoreEnds
  BY <1>16 DEF RestoreEnds, At, Work
<1>17. CASE CallFails
  BY <1>17 DEF CallFails, EndItem, Work
<1>18. CASE Die
  BY <1>18 DEF Die, Work
<1>19. ASSUME NEW s \in Services, OtherService(s) PROVE OriginalUnlessOvertaken'
  BY <1>19 DEF OtherService, Event, Work
<1>20. ASSUME NEW n \in Names, OtherStartup(n) PROVE OriginalUnlessOvertaken'
  BY <1>20 DEF OtherStartup, Event, Work
<1>21. CASE RestoreBegins
  BY <1>21 DEF RestoreBegins, RestoreTail, Work
<1>22. CASE UNCHANGED keptState
  BY <1>22
<1> QED
  BY <1>1, <1>2, <1>3, <1>4, <1>5, <1>6, <1>7, <1>8, <1>9, <1>10, <1>11,
     <1>12, <1>13, <1>14, <1>15, <1>16, <1>17, <1>18, <1>19, <1>20, <1>21,
     <1>22
     DEF KeptMove, KeptStep, Toggle

\* What a startup operation has read stays true.
LEMMA StartupWorkStep ==
  ASSUME KeptInv, KeptMove
  PROVE  StartupWork'
<1> USE TypesAssumption DEF services, startup, keptHistory, keptState, Idle, Busy, KeptInv, KeptTypes, StartupWork, RestoreWork
<1>1. ASSUME NEW s \in Services, DisableService(s) PROVE StartupWork'
  BY <1>1 DEF DisableService, Begin, Event, Work
<1>2. ASSUME NEW s \in Services, EnableService(s) PROVE StartupWork'
  BY <1>2 DEF EnableService, Begin, Event, Work
<1>3. ASSUME NEW n \in Names, DisableStartup(n) PROVE StartupWork'
  BY <1>3 DEF DisableStartup, Begin, Event, Work
<1>4. ASSUME NEW n \in Names, EnableStartup(n) PROVE StartupWork'
  BY <1>4 DEF EnableStartup, LookAtRun, Begin, Event, Work
<1>5. CASE SaveService
  BY <1>5 DEF SaveService, At, Work
<1>6. CASE WriteService
  BY <1>6 DEF WriteService, At, Work
<1>7. CASE CheckService
  <2>1. CASE /\ config[work.item] = work.value /\ work.enable
             /\ work' = [work EXCEPT !.step = "drop"]
    BY <1>7, <2>1 DEF CheckService, At, Work
  <2>2. CASE /\ work' \in Work
             /\ Ended(work') /\ (work.restoring => work'.failed \/ ~work.enable)
    <3>1. CASE ~work.restoring
      BY <1>7, <2>2, <3>1 DEF CheckService, At, Ended
    <3>2. CASE work.restoring
      BY <1>7, <2>2, <3>2 DEF CheckService, At, Ended
    <3> QED
      BY <3>1, <3>2
  <2> QED
    BY <1>7, <2>1, <2>2, Checks
<1>8. CASE DropBackup
  BY <1>8 DEF DropBackup, EndItem, At, Work
<1>9. CASE ParkCommand
  BY <1>9 DEF ParkCommand, At, Work
<1>10. CASE RecheckCommand
  <2>1. CASE /\ run[work.item] = work.value
             /\ work' = [work EXCEPT !.step = "remove"]
    BY <1>10, <2>1 DEF RecheckCommand, At, Work
  <2>2. CASE work' \in Work /\ Ended(work') /\ (work.restoring => work'.failed)
    <3>1. CASE ~work.restoring
      BY <1>10, <2>2, <3>1 DEF RecheckCommand, At, Ended
    <3>2. CASE work.restoring
      BY <1>10, <2>2, <3>2 DEF RecheckCommand, At, Ended
    <3> QED
      BY <3>1, <3>2
  <2> QED
    BY <1>10, <2>1, <2>2, Rechecks
<1>11. CASE RemoveCommand
  BY <1>11 DEF RemoveCommand, EndItem, At, Work
<1>12. CASE PutCommand
  BY <1>12 DEF PutCommand, At, Work
<1>13. CASE UnparkCommand
  <2>1. work' \in Work /\ Ended(work')
    BY <1>13, Unparks
  <2>2. CASE /\ run[work.item] = work.value
             /\ parked' = [parked EXCEPT ![work.item] = None]
    <3>1. CASE ~work.restoring
      BY <1>13, <2>2, <3>1, <2>1 DEF UnparkCommand, At, Ended
    <3>2. CASE work.restoring
      BY <1>13, <2>2, <3>2, <2>1 DEF UnparkCommand, At, Ended
    <3> QED
      BY <3>1, <3>2
  <2>3. CASE UNCHANGED parked /\ (work.restoring => work'.failed)
    <3>1. CASE ~work.restoring
      BY <1>13, <2>3, <3>1, <2>1 DEF UnparkCommand, At, Ended
    <3>2. CASE work.restoring
      BY <1>13, <2>3, <3>2, <2>1 DEF UnparkCommand, At, Ended
    <3> QED
      BY <3>1, <3>2
  <2> QED
    BY <1>13, <2>2, <2>3, Unparks
<1>14. CASE RestoreStartup
  BY <1>14 DEF RestoreStartup, LookAtRun, At, Work
<1>15. CASE RestoreService
  BY <1>15 DEF RestoreService, At, Work
<1>16. CASE RestoreEnds
  BY <1>16 DEF RestoreEnds, At, Work
<1>17. CASE CallFails
  BY <1>17 DEF CallFails, EndItem, Work
<1>18. CASE Die
  BY <1>18 DEF Die, Work
<1>19. ASSUME NEW s \in Services, OtherService(s) PROVE StartupWork'
  BY <1>19 DEF OtherService, Event, Work
<1>20. ASSUME NEW n \in Names, OtherStartup(n) PROVE StartupWork'
  BY <1>20 DEF OtherStartup, Event, Work
<1>21. CASE RestoreBegins
  BY <1>21 DEF RestoreBegins, RestoreTail, Work
<1>22. CASE UNCHANGED keptState
  BY <1>22
<1> QED
  BY <1>1, <1>2, <1>3, <1>4, <1>5, <1>6, <1>7, <1>8, <1>9, <1>10, <1>11,
     <1>12, <1>13, <1>14, <1>15, <1>16, <1>17, <1>18, <1>19, <1>20, <1>21,
     <1>22
     DEF KeptMove, KeptStep, Toggle

\* No command is lost.
LEMMA CommandStep ==
  ASSUME KeptInv, KeptMove
  PROVE  CommandKept'
<1> USE TypesAssumption DEF services, startup, keptHistory, keptState, Idle, Busy, KeptInv, KeptTypes, StartupWork, CommandKept
<1>1. ASSUME NEW s \in Services, DisableService(s) PROVE CommandKept'
  BY <1>1 DEF DisableService, Begin, Event, Work
<1>2. ASSUME NEW s \in Services, EnableService(s) PROVE CommandKept'
  BY <1>2 DEF EnableService, Begin, Event, Work
<1>3. ASSUME NEW n \in Names, DisableStartup(n) PROVE CommandKept'
  BY <1>3 DEF DisableStartup, Begin, Event, Work
<1>4. ASSUME NEW n \in Names, EnableStartup(n) PROVE CommandKept'
  BY <1>4 DEF EnableStartup, LookAtRun, Begin, Event, Work
<1>5. CASE SaveService
  BY <1>5 DEF SaveService, At, Work
<1>6. CASE WriteService
  BY <1>6 DEF WriteService, At, Work
<1>7. CASE CheckService
  BY <1>7 DEF CheckService, EndItem, At, Work
<1>8. CASE DropBackup
  BY <1>8 DEF DropBackup, EndItem, At, Work
<1>9. CASE ParkCommand
  BY <1>9 DEF ParkCommand, At, Work
<1>10. CASE RecheckCommand
  BY <1>10 DEF RecheckCommand, EndItem, At, Work
<1>11. CASE RemoveCommand
  BY <1>11 DEF RemoveCommand, EndItem, At, Work
<1>12. CASE PutCommand
  BY <1>12 DEF PutCommand, At, Work
<1>13. CASE UnparkCommand
  BY <1>13 DEF UnparkCommand, EndItem, At, Work
<1>14. CASE RestoreStartup
  BY <1>14 DEF RestoreStartup, LookAtRun, At, Work
<1>15. CASE RestoreService
  BY <1>15 DEF RestoreService, At, Work
<1>16. CASE RestoreEnds
  BY <1>16 DEF RestoreEnds, At, Work
<1>17. CASE CallFails
  BY <1>17 DEF CallFails, EndItem, Work
<1>18. CASE Die
  BY <1>18 DEF Die, Work
<1>19. ASSUME NEW s \in Services, OtherService(s) PROVE CommandKept'
  BY <1>19 DEF OtherService, Event, Work
<1>20. ASSUME NEW n \in Names, OtherStartup(n) PROVE CommandKept'
  BY <1>20 DEF OtherStartup, Event, Work
<1>21. CASE RestoreBegins
  BY <1>21 DEF RestoreBegins, RestoreTail, Work
<1>22. CASE UNCHANGED keptState
  BY <1>22
<1> QED
  BY <1>1, <1>2, <1>3, <1>4, <1>5, <1>6, <1>7, <1>8, <1>9, <1>10, <1>11,
     <1>12, <1>13, <1>14, <1>15, <1>16, <1>17, <1>18, <1>19, <1>20, <1>21,
     <1>22
     DEF KeptMove, KeptStep, Toggle

\* The restore knows what it has not done yet.
LEMMA RestoreWorkStep ==
  ASSUME KeptInv, KeptMove
  PROVE  RestoreWork'
<1> USE TypesAssumption DEF services, startup, keptHistory, keptState, Idle, Busy, KeptInv, KeptTypes, ServiceWork, StartupWork, RestoreWork
<1>1. ASSUME NEW s \in Services, DisableService(s) PROVE RestoreWork'
  BY <1>1 DEF DisableService, Begin, Event, Work
<1>2. ASSUME NEW s \in Services, EnableService(s) PROVE RestoreWork'
  BY <1>2 DEF EnableService, Begin, Event, Work
<1>3. ASSUME NEW n \in Names, DisableStartup(n) PROVE RestoreWork'
  BY <1>3 DEF DisableStartup, Begin, Event, Work
<1>4. ASSUME NEW n \in Names, EnableStartup(n) PROVE RestoreWork'
  BY <1>4 DEF EnableStartup, LookAtRun, Begin, Event, Work
<1>5. CASE SaveService
  BY <1>5 DEF SaveService, At, Work
<1>6. CASE WriteService
  BY <1>6 DEF WriteService, At, Work
<1>7. CASE CheckService
  <2>1. CASE /\ config[work.item] = work.value /\ work.enable
             /\ work' = [work EXCEPT !.step = "drop"]
    BY <1>7, <2>1 DEF CheckService, At, Work
  <2>2. CASE /\ work' \in Work
             /\ Ended(work') /\ (work.restoring => work'.failed \/ ~work.enable)
    <3>1. CASE ~work.restoring
      BY <1>7, <2>2, <3>1 DEF CheckService, At, Ended
    <3>2. CASE work.restoring
      BY <1>7, <2>2, <3>2 DEF CheckService, At, Ended
    <3> QED
      BY <3>1, <3>2
  <2> QED
    BY <1>7, <2>1, <2>2, Checks
<1>8. CASE DropBackup
  BY <1>8 DEF DropBackup, EndItem, At, Work
<1>9. CASE ParkCommand
  BY <1>9 DEF ParkCommand, At, Work
<1>10. CASE RecheckCommand
  <2>1. CASE /\ run[work.item] = work.value
             /\ work' = [work EXCEPT !.step = "remove"]
    BY <1>10, <2>1 DEF RecheckCommand, At, Work
  <2>2. CASE work' \in Work /\ Ended(work') /\ (work.restoring => work'.failed)
    <3>1. CASE ~work.restoring
      BY <1>10, <2>2, <3>1 DEF RecheckCommand, At, Ended
    <3>2. CASE work.restoring
      BY <1>10, <2>2, <3>2 DEF RecheckCommand, At, Ended
    <3> QED
      BY <3>1, <3>2
  <2> QED
    BY <1>10, <2>1, <2>2, Rechecks
<1>11. CASE RemoveCommand
  BY <1>11 DEF RemoveCommand, EndItem, At, Work
<1>12. CASE PutCommand
  BY <1>12 DEF PutCommand, At, Work
<1>13. CASE UnparkCommand
  <2>1. work' \in Work /\ Ended(work')
    BY <1>13, Unparks
  <2>2. CASE /\ run[work.item] = work.value
             /\ parked' = [parked EXCEPT ![work.item] = None]
    <3>1. CASE ~work.restoring
      BY <1>13, <2>2, <3>1, <2>1 DEF UnparkCommand, At, Ended
    <3>2. CASE work.restoring
      BY <1>13, <2>2, <3>2, <2>1 DEF UnparkCommand, At, Ended
    <3> QED
      BY <3>1, <3>2
  <2>3. CASE UNCHANGED parked /\ (work.restoring => work'.failed)
    <3>1. CASE ~work.restoring
      BY <1>13, <2>3, <3>1, <2>1 DEF UnparkCommand, At, Ended
    <3>2. CASE work.restoring
      BY <1>13, <2>3, <3>2, <2>1 DEF UnparkCommand, At, Ended
    <3> QED
      BY <3>1, <3>2
  <2> QED
    BY <1>13, <2>2, <2>3, Unparks
<1>14. CASE RestoreStartup
  BY <1>14 DEF RestoreStartup, LookAtRun, At, Work
<1>15. CASE RestoreService
  BY <1>15 DEF RestoreService, At, Work
<1>16. CASE RestoreEnds
  BY <1>16 DEF RestoreEnds, At, Work
<1>17. CASE CallFails
  BY <1>17 DEF CallFails, EndItem, Work
<1>18. CASE Die
  BY <1>18 DEF Die, Work
<1>19. ASSUME NEW s \in Services, OtherService(s) PROVE RestoreWork'
  BY <1>19 DEF OtherService, Event, Work
<1>20. ASSUME NEW n \in Names, OtherStartup(n) PROVE RestoreWork'
  BY <1>20 DEF OtherStartup, Event, Work
<1>21. CASE RestoreBegins
  BY <1>21 DEF RestoreBegins, RestoreTail, Work
<1>22. CASE UNCHANGED keptState
  BY <1>22
<1> QED
  BY <1>1, <1>2, <1>3, <1>4, <1>5, <1>6, <1>7, <1>8, <1>9, <1>10, <1>11,
     <1>12, <1>13, <1>14, <1>15, <1>16, <1>17, <1>18, <1>19, <1>20, <1>21,
     <1>22
     DEF KeptMove, KeptStep, Toggle

\* Success means that nothing is left.
LEMMA RestoreCompleteStep ==
  ASSUME KeptInv, KeptMove
  PROVE  RestoreComplete'
<1> USE TypesAssumption DEF services, startup, keptHistory, keptState, Idle, Busy, KeptInv, KeptTypes, RestoreWork, RestoreComplete
<1>1. ASSUME NEW s \in Services, DisableService(s) PROVE RestoreComplete'
  BY <1>1 DEF DisableService, Begin, Event, Work
<1>2. ASSUME NEW s \in Services, EnableService(s) PROVE RestoreComplete'
  BY <1>2 DEF EnableService, Begin, Event, Work
<1>3. ASSUME NEW n \in Names, DisableStartup(n) PROVE RestoreComplete'
  BY <1>3 DEF DisableStartup, Begin, Event, Work
<1>4. ASSUME NEW n \in Names, EnableStartup(n) PROVE RestoreComplete'
  BY <1>4 DEF EnableStartup, LookAtRun, Begin, Event, Work
<1>5. CASE SaveService
  BY <1>5 DEF SaveService, At, Work
<1>6. CASE WriteService
  BY <1>6 DEF WriteService, At, Work
<1>7. CASE CheckService
  <2>1. CASE /\ config[work.item] = work.value /\ work.enable
             /\ work' = [work EXCEPT !.step = "drop"]
    BY <1>7, <2>1 DEF CheckService, At, Work
  <2>2. CASE /\ work' \in Work
             /\ Ended(work') /\ (work.restoring => work'.failed \/ ~work.enable)
    <3>1. CASE ~work.restoring
      <4>1. work' = Idle
        BY <2>2, <3>1 DEF Ended
      <4>2. ~work'.restored
        BY <4>1
      <4> QED
        BY <4>2
    <3>2. CASE work.restoring
      BY <1>7, <2>2, <3>2 DEF CheckService, At, Ended
    <3> QED
      BY <3>1, <3>2
  <2> QED
    BY <1>7, <2>1, <2>2, Checks
<1>8. CASE DropBackup
  BY <1>8 DEF DropBackup, EndItem, At, Work
<1>9. CASE ParkCommand
  BY <1>9 DEF ParkCommand, At, Work
<1>10. CASE RecheckCommand
  <2>1. CASE /\ run[work.item] = work.value
             /\ work' = [work EXCEPT !.step = "remove"]
    BY <1>10, <2>1 DEF RecheckCommand, At, Work
  <2>2. CASE work' \in Work /\ Ended(work') /\ (work.restoring => work'.failed)
    <3>1. CASE ~work.restoring
      <4>1. work' = Idle
        BY <2>2, <3>1 DEF Ended
      <4>2. ~work'.restored
        BY <4>1
      <4> QED
        BY <4>2
    <3>2. CASE work.restoring
      BY <1>10, <2>2, <3>2 DEF RecheckCommand, At, Ended
    <3> QED
      BY <3>1, <3>2
  <2> QED
    BY <1>10, <2>1, <2>2, Rechecks
<1>11. CASE RemoveCommand
  BY <1>11 DEF RemoveCommand, EndItem, At, Work
<1>12. CASE PutCommand
  BY <1>12 DEF PutCommand, At, Work
<1>13. CASE UnparkCommand
  <2>1. work' \in Work /\ Ended(work')
    BY <1>13, Unparks
  <2>2. CASE /\ run[work.item] = work.value
             /\ parked' = [parked EXCEPT ![work.item] = None]
    <3>1. CASE ~work.restoring
      <4>1. work' = Idle
        BY <2>2, <3>1, <2>1 DEF Ended
      <4>2. ~work'.restored
        BY <4>1
      <4> QED
        BY <4>2
    <3>2. CASE work.restoring
      BY <1>13, <2>2, <3>2, <2>1 DEF UnparkCommand, At, Ended
    <3> QED
      BY <3>1, <3>2
  <2>3. CASE UNCHANGED parked /\ (work.restoring => work'.failed)
    <3>1. CASE ~work.restoring
      <4>1. work' = Idle
        BY <2>3, <3>1, <2>1 DEF Ended
      <4>2. ~work'.restored
        BY <4>1
      <4> QED
        BY <4>2
    <3>2. CASE work.restoring
      BY <1>13, <2>3, <3>2, <2>1 DEF UnparkCommand, At, Ended
    <3> QED
      BY <3>1, <3>2
  <2> QED
    BY <1>13, <2>2, <2>3, Unparks
<1>14. CASE RestoreStartup
  BY <1>14 DEF RestoreStartup, LookAtRun, At, Work
<1>15. CASE RestoreService
  BY <1>15 DEF RestoreService, At, Work
<1>16. CASE RestoreEnds
  BY <1>16 DEF RestoreEnds, At, Work
<1>17. CASE CallFails
  BY <1>17 DEF CallFails, EndItem, Work
<1>18. CASE Die
  BY <1>18 DEF Die, Work
<1>19. ASSUME NEW s \in Services, OtherService(s) PROVE RestoreComplete'
  BY <1>19 DEF OtherService, Event, Work
<1>20. ASSUME NEW n \in Names, OtherStartup(n) PROVE RestoreComplete'
  BY <1>20 DEF OtherStartup, Event, Work
<1>21. CASE RestoreBegins
  BY <1>21 DEF RestoreBegins, RestoreTail, Work
<1>22. CASE UNCHANGED keptState
  BY <1>22
<1> QED
  BY <1>1, <1>2, <1>3, <1>4, <1>5, <1>6, <1>7, <1>8, <1>9, <1>10, <1>11,
     <1>12, <1>13, <1>14, <1>15, <1>16, <1>17, <1>18, <1>19, <1>20, <1>21,
     <1>22
     DEF KeptMove, KeptStep, Toggle

\* The restores are the only calls that reach the registry.
LEMMA Moves ==
  ASSUME [Next]_vars
  PROVE  KeptMove
<1> USE DEF keptVars, keptState, keptHistory, KeptMove
<1>1. CASE UNCHANGED vars
  BY <1>1 DEF vars
<1>2. CASE KeptStep
  BY <1>2
<1>3. ASSUME NEW c \in Calls, RestoreProfile(c) \/ ProfileAlone(c) PROVE KeptMove
  BY <1>3 DEF RestoreProfile, ProfileAlone, TakeProfileBack, RestoreBegins, services, startup
<1>4. ASSUME NEW c \in Calls,
             \/ ApplyTweak(c) \/ ElevatedApply(c) \/ ElevatedFails(c)
             \/ LoadMarkers(c) \/ SetMarker(c) \/ MarkersFail(c)
             \/ Compensate(c) \/ RestoreTweak(c) \/ Restore(c)
             \/ ElevatedRestore(c) \/ RestoreReturns(c) \/ RemoveMarker(c)
             \/ ChildAlone(c)
      PROVE  KeptMove
  BY <1>4 DEF ApplyTweak, ElevatedApply, ElevatedFails, LoadMarkers, SetMarker,
       MarkersFail, Compensate, RestoreTweak, Restore, ElevatedRestore, RestoreReturns,
       RemoveMarker, ChildAlone
<1>5. CASE Crash
  BY <1>5 DEF Crash
<1> QED
  BY <1>1, <1>2, <1>3, <1>4, <1>5 DEF Next

\* At first nothing is kept and nothing is in progress.
LEMMA KeptInitially ==
  ASSUME KeptInit
  PROVE  KeptInv
<1> USE TypesAssumption DEF KeptInit
<1>1. KeptTypes
  BY IdleTyped DEF KeptTypes
<1>2. /\ ServiceWork /\ BackupTrue /\ StartupWork /\ RestoreWork
      /\ OriginalUnlessOvertaken /\ CommandKept /\ RestoreComplete
  BY DEF Idle, ServiceWork, BackupTrue, StartupWork, RestoreWork,
     OriginalUnlessOvertaken, CommandKept, RestoreComplete
<1> QED
  BY <1>1, <1>2 DEF KeptInv

\* Together the parts are inductive.
THEOREM KeptInductive == Spec => []KeptInv
<1>1. Init => KeptInv
  BY KeptInitially DEF Init
<1>2. KeptInv /\ [Next]_vars => KeptInv'
  BY Moves, KeptTypesStep, ServiceWorkStep, BackupTrueStep, OriginalStep,
     StartupWorkStep, CommandStep, RestoreWorkStep, RestoreCompleteStep DEF KeptInv
<1> QED
  BY <1>1, <1>2, PTL DEF Spec

\* The backup of a service that the program disabled says what it was
\* (setServiceEnabled, saveServiceBackup), whatever fails, dies or interferes.
THEOREM OriginalNotForgotten == Spec => []OriginalUnlessOvertaken
<1>1. KeptInv => OriginalUnlessOvertaken
  BY DEF KeptInv
<1> QED
  BY <1>1, KeptInductive, PTL

\* A startup command is in Run or in its backup (disableStartup,
\* enableStartup) at every step of the toggle.
THEOREM CommandNeverLost == Spec => []CommandKept
<1>1. KeptInv => CommandKept
  BY DEF KeptInv
<1> QED
  BY <1>1, KeptInductive, PTL

\* restoreServiceBackups and restoreStartupBackups report success only when
\* they have left nothing behind.
THEOREM SuccessIsComplete == Spec => []RestoreComplete
<1>1. KeptInv => RestoreComplete
  BY DEF KeptInv
<1> QED
  BY <1>1, KeptInductive, PTL

-----------------------------------------------------------------------------
(* The markers.  The steps are first put into a form that speaks of one    *)
(* field at a time (MarkerMove); then each part of the invariant is shown  *)
(* to hold after each of these moves.                                      *)

Call == [kind : {"none", "apply", "restoreTweak", "restore", "restoreLatest"},
         step : {"unused", "elevate", "load", "save", "compensate", "wait",
                 "alone", "returned"},
         tweak : Tweaks \cup {None}, target : Backups \cup {None},
         store : [Tweaks -> Calls \cup {None}],
         result : {"none", "ok", "error", "marker left", "cancelled",
                   "applied, no marker", "crash"}]

Journal == [tweak : Tweaks \cup {None}, status : {"none", "applied", "restored"}]

MarkerTypes == /\ backup \in [Backups -> Journal]
               /\ marker \in [Tweaks -> Calls \cup {None}]
               /\ tweakMu \in Calls \cup {None}
               /\ call \in [Calls -> Call]
               /\ lost \subseteq Tweaks /\ excused \subseteq Tweaks

\* What kind of call is at which step, and what it is about.
Steps ==
  \A c \in Calls :
    /\ call[c].step = "unused" => call[c].kind = "none"
    /\ call[c].kind = "apply" => call[c].tweak \in Tweaks /\ call[c].target = None
    /\ call[c].kind = "restoreTweak" => call[c].tweak \in Tweaks
    /\ call[c].step \in {"load", "save"} => call[c].kind \in {"apply", "restoreTweak", "restore"}
    /\ call[c].step = "compensate" => call[c].kind = "apply"
    /\ call[c].step = "wait" => call[c].kind # "apply"
    /\ call[c].step \notin {"alone", "returned"} => call[c].result = "none"
    /\ call[c].step = "alone" => call[c].result = "crash"
    /\ call[c].step # "unused" => call[c].kind # "none"

\* A call that takes tweakMu and has not returned.
Holds(c) == /\ call[c].kind \in {"apply", "restoreTweak"}
            /\ call[c].step \notin {"alone", "returned"}

\* The calls that take tweakMu hold it until they return.
Holders == \A c \in Calls : Holds(c) => tweakMu = c

\* The calls come in the order of their numbers, and no apply comes while
\* another call holds tweakMu.
Order ==
  \A c, d \in Calls : d < c =>
    /\ call[d].step = "unused" => call[c].step = "unused"
    /\ Holds(d) => call[c].kind # "apply"

\* The backup of an apply is there once the child has been.
ApplyBackups ==
  /\ backup[Profile].tweak = None
  /\ \A c \in Calls :
       /\ backup[c].status # "none" =>
            /\ call[c].kind = "apply" /\ call[c].step # "elevate"
            /\ backup[c].tweak = call[c].tweak
       /\ call[c].kind = "apply" /\ call[c].step \in {"load", "save", "compensate"} =>
            backup[c].status # "none"

\* What a rollback of a tweak knows: the last apply, unless it was taken
\* back, is the one that its marker named.
HolderKnows ==
  \A c, d \in Calls :
    /\ call[c].kind = "restoreTweak" /\ Holds(c)
    /\ LastApplied(d) /\ Restorable(d) /\ call[d].tweak = call[c].tweak
    => d = call[c].target \/ call[d].tweak \in lost

\* A marker names the backup of an apply of its tweak that has returned.
Named(t, b) == /\ b \in Calls /\ call[b].kind = "apply" /\ call[b].step = "returned"
                /\ call[b].tweak = t /\ backup[b].status # "none"

MarkersName ==
  \A t \in Tweaks :
    /\ marker[t] # None => Named(t, marker[t])
    /\ \A c \in Calls : call[c].store[t] # None => Named(t, call[c].store[t])

\* A restore past the elevation has restored its target; a restore of a
\* tweak has the backup that its marker named.
Targets ==
  \A c \in Calls :
    /\ call[c].kind = "restoreTweak" /\ call[c].step # "returned" =>
         Named(call[c].tweak, call[c].target)
    /\ call[c].kind # "apply" /\ call[c].step \in {"wait", "load", "save"} =>
         call[c].target = Profile \/ ~Restorable(call[c].target)
    /\ call[c].kind # "apply" /\ call[c].step # "unused" =>
         call[c].target \in Backups /\ backup[call[c].target].status # "none"

MarkerInv == /\ MarkerTypes /\ Steps /\ Holders /\ Order /\ ApplyBackups /\ HolderKnows
             /\ MarkersName /\ Targets
             /\ MarkerUnlessLost /\ MarkerRestorable

\* A step of call c, and what does not change of the call itself.
Only(c) == call' \in [Calls -> Call] /\ \A d \in Calls : d # c => call'[d] = call[d]

About(c) == /\ call'[c].kind = call[c].kind
            /\ call'[c].tweak = call[c].tweak
            /\ call'[c].target = call[c].target

\* The effect of Goto and of Return, field by field.
Goes(c, step) ==
  /\ Only(c) /\ About(c)
  /\ call'[c].step = step
  /\ call'[c].store = call[c].store /\ call'[c].result = call[c].result

Returns(c, result) ==
  /\ Only(c) /\ About(c)
  /\ call'[c].step = "returned"
  /\ call'[c].store = NoMarkers /\ call'[c].result = result
  /\ tweakMu' = IF tweakMu = c THEN None ELSE tweakMu

\* No marker is a set of markers.
LEMMA NoMarkersTyped == /\ NoMarkers \in [Tweaks -> Calls \cup {None}]
                        /\ \A t \in Tweaks : NoMarkers[t] = None
BY DEF NoMarkers

\* Goto, field by field.
LEMMA GotoFacts ==
  ASSUME call \in [Calls -> Call], NEW c \in Calls,
         NEW step \in {"load", "save", "compensate", "wait"}, Goto(c, step)
  PROVE  Goes(c, step)
<1>1. call[c] \in Call
  OBVIOUS
<1>2. call' = [call EXCEPT ![c] = [call[c] EXCEPT !.step = step]]
  BY DEF Goto
<1>3. [call[c] EXCEPT !.step = step] \in Call
  BY <1>1 DEF Call
<1>4. Only(c)
  BY <1>2, <1>3 DEF Only
<1>5. call'[c] = [call[c] EXCEPT !.step = step]
  BY <1>2
<1> QED
  BY <1>1, <1>4, <1>5 DEF Goes, About, Call

\* Returned, field by field.
LEMMA ReturnFacts ==
  ASSUME call \in [Calls -> Call], NEW c \in Calls,
         NEW result \in {"ok", "error", "marker left", "cancelled", "applied, no marker",
                         "crash"},
         Return(c, result)
  PROVE  Returns(c, result)
<1>1. call[c] \in Call
  OBVIOUS
<1> DEFINE r == [call[c] EXCEPT !.step = "returned", !.result = result, !.store = NoMarkers]
<1>2. call' = [call EXCEPT ![c] = r]
  BY DEF Return, Returned
<1>3. r \in Call
  BY <1>1, NoMarkersTyped DEF Call
<1>4. /\ r.kind = call[c].kind /\ r.tweak = call[c].tweak /\ r.target = call[c].target
      /\ r.step = "returned" /\ r.store = NoMarkers /\ r.result = result
  BY <1>1 DEF Call
<1>5. Only(c) /\ call'[c] = r
  BY <1>2, <1>3 DEF Only
<1> QED
  BY <1>4, <1>5 DEF Returns, About, Return

\* loadTweakMarkers, field by field.
LEMMA LoadFacts ==
  ASSUME call \in [Calls -> Call], marker \in [Tweaks -> Calls \cup {None}], NEW c \in Calls,
         LoadMarkers(c)
  PROVE  /\ Only(c) /\ About(c)
         /\ call'[c].step = "save"
         /\ call'[c].store = marker /\ call'[c].result = call[c].result
<1>1. call[c] \in Call
  OBVIOUS
<1> DEFINE r == [call[c] EXCEPT !.store = marker, !.step = "save"]
<1>2. call' = [call EXCEPT ![c] = r]
  BY DEF LoadMarkers
<1>3. r \in Call
  BY <1>1 DEF Call
<1>4. /\ r.kind = call[c].kind /\ r.tweak = call[c].tweak /\ r.target = call[c].target
      /\ r.step = "save" /\ r.store = marker /\ r.result = call[c].result
  BY <1>1 DEF Call
<1>5. Only(c) /\ call'[c] = r
  BY <1>2, <1>3 DEF Only
<1> QED
  BY <1>4, <1>5 DEF About

\* The start of a call, field by field.
Starts(c, kind, t, b) ==
  /\ Only(c)
  /\ call'[c].kind = kind /\ call'[c].step = "elevate"
  /\ call'[c].tweak = t /\ call'[c].target = b
  /\ call'[c].store = NoMarkers /\ call'[c].result = "none"

\* A new call.
LEMMA StartFacts ==
  ASSUME call \in [Calls -> Call], NEW c \in Calls, NEW r \in Call,
         call' = [call EXCEPT ![c] = r]
  PROVE  Only(c) /\ call'[c] = r
BY DEF Only

\* NewCall, and what the three kinds of start put into it.
LEMMA NewCallFacts ==
  /\ NewCall \in Call
  /\ NewCall.store = NoMarkers /\ NewCall.result = "none"
  /\ NewCall.tweak = None /\ NewCall.target = None
BY NoMarkersTyped DEF NewCall, Call

\* ApplyTweak, field by field.
LEMMA ApplyStarts ==
  ASSUME call \in [Calls -> Call], NEW c \in Calls, ApplyTweak(c)
  PROVE  \E t \in Tweaks : Starts(c, "apply", t, None)
<1>1. PICK t \in Tweaks :
        call' = [call EXCEPT ![c] = [NewCall EXCEPT !.kind = "apply", !.step = "elevate",
                                                    !.tweak = t]]
  BY DEF ApplyTweak
<1> DEFINE r == [NewCall EXCEPT !.kind = "apply", !.step = "elevate", !.tweak = t]
<1>2. /\ r \in Call
      /\ r.kind = "apply" /\ r.step = "elevate" /\ r.tweak = t /\ r.target = None
      /\ r.store = NoMarkers /\ r.result = "none"
  BY NewCallFacts DEF Call
<1> HIDE DEF r
<1> QED
  BY <1>1, <1>2, StartFacts DEF r, Starts

\* RestoreTweak, field by field.
LEMMA RestoreTweakStarts ==
  ASSUME call \in [Calls -> Call], marker \in [Tweaks -> Calls \cup {None}], NEW c \in Calls,
         RestoreTweak(c)
  PROVE  \E t \in Tweaks : marker[t] # None /\ Starts(c, "restoreTweak", t, marker[t])
<1>1. PICK t \in Tweaks :
        /\ marker[t] # None
        /\ call' = [call EXCEPT ![c] = [NewCall EXCEPT !.kind = "restoreTweak", !.tweak = t,
                                          !.step = "elevate", !.target = marker[t]]]
  BY DEF RestoreTweak
<1> DEFINE r == [NewCall EXCEPT !.kind = "restoreTweak", !.tweak = t, !.step = "elevate",
                                !.target = marker[t]]
<1>2. /\ r \in Call
      /\ r.kind = "restoreTweak" /\ r.step = "elevate" /\ r.tweak = t
      /\ r.target = marker[t] /\ r.store = NoMarkers /\ r.result = "none"
  BY NewCallFacts DEF Call, Backups
<1> HIDE DEF r
<1> QED
  BY <1>1, <1>2, StartFacts DEF r, Starts

\* Restore, field by field.
LEMMA RestoreStarts ==
  ASSUME call \in [Calls -> Call], NEW c \in Calls, Restore(c)
  PROVE  \E b \in Backups, kind \in {"restore", "restoreLatest"} :
           Restorable(b) /\ Starts(c, kind, None, b)
<1>1. PICK b \in Backups, kind \in {"restore", "restoreLatest"} :
        /\ Restorable(b)
        /\ call' = [call EXCEPT ![c] = [NewCall EXCEPT !.kind = kind, !.step = "elevate",
                                                       !.target = b]]
  BY DEF Restore
<1> DEFINE r == [NewCall EXCEPT !.kind = kind, !.step = "elevate", !.target = b]
<1>2. /\ r \in Call
      /\ r.kind = kind /\ r.step = "elevate" /\ r.tweak = None /\ r.target = b
      /\ r.store = NoMarkers /\ r.result = "none"
  BY NewCallFacts DEF Call
<1> HIDE DEF r
<1> QED
  BY <1>1, <1>2, StartFacts DEF r, Starts

\* The journal of an apply.
Seals(c) ==
  /\ backup' \in [Backups -> Journal]
  /\ \A b \in Backups : b # c => backup'[b] = backup[b]
  /\ backup'[c].tweak = call[c].tweak /\ backup'[c].status = "applied"

\* The child has sealed the backup of the apply.
LEMMA SealFacts ==
  ASSUME backup \in [Backups -> Journal], NEW c \in Calls, call[c].tweak \in Tweaks,
         Seal(c)
  PROVE  Seals(c)
BY DEF Seal, Seals, Journal, Backups

\* The journal of a restore.
Restores(b) ==
  /\ backup' \in [Backups -> Journal]
  /\ \A d \in Backups : /\ d # b => backup'[d] = backup[d]
                        /\ backup'[d].tweak = backup[d].tweak
  /\ backup'[b].status = "restored"

\* The child has taken a backup back.
LEMMA RestoreFacts ==
  ASSUME backup \in [Backups -> Journal], NEW b \in Backups,
         TakeBack(b)
  PROVE  Restorable(b) /\ Restores(b)
<1>1. backup[b] \in Journal
  OBVIOUS
<1>2. Restorable(b) /\ backup' = [backup EXCEPT ![b] = [backup[b] EXCEPT !.status = "restored"]]
  BY DEF TakeBack
<1>3. /\ [backup[b] EXCEPT !.status = "restored"] \in Journal
      /\ [backup[b] EXCEPT !.status = "restored"].tweak = backup[b].tweak
      /\ [backup[b] EXCEPT !.status = "restored"].status = "restored"
  BY <1>1 DEF Journal
<1> QED
  BY <1>2, <1>3 DEF Restores

\* What becomes of each call when the sidecar dies.
LEMMA CrashFacts ==
  ASSUME call \in [Calls -> Call], Crash
  PROVE  /\ call' \in [Calls -> Call]
         /\ \A c \in Calls :
              /\ About(c)
              /\ IF call[c].step \in {"unused", "returned", "alone"} THEN call'[c] = call[c]
                 ELSE /\ call'[c].step \in {"alone", "returned"}
                      /\ call'[c].store = NoMarkers /\ call'[c].result = "crash"
                      /\ call'[c].step = "alone" => call[c].step \in {"elevate", "compensate"}
<1> DEFINE s(c) == IF call[c].step \in {"elevate", "compensate"} THEN "alone" ELSE "returned"
           r(c) == [call[c] EXCEPT !.step = s(c), !.result = "crash", !.store = NoMarkers]
<1>1. call' = [c \in Calls |-> IF call[c].step \in {"unused", "returned", "alone"} THEN call[c]
                               ELSE r(c)]
  BY DEF Crash
<1>2. ASSUME NEW c \in Calls
      PROVE  /\ r(c) \in Call
             /\ r(c).kind = call[c].kind /\ r(c).tweak = call[c].tweak
             /\ r(c).target = call[c].target
             /\ r(c).step = s(c) /\ r(c).store = NoMarkers /\ r(c).result = "crash"
  <2>1. call[c] \in Call
    OBVIOUS
  <2> QED
    BY <2>1, NoMarkersTyped DEF Call
<1>3. ASSUME NEW c \in Calls
      PROVE  /\ s(c) \in {"alone", "returned"}
             /\ s(c) = "alone" => call[c].step \in {"elevate", "compensate"}
  OBVIOUS
<1> HIDE DEF r, s
<1>4. call' \in [Calls -> Call]
  BY <1>1, <1>2
<1>5. ASSUME NEW c \in Calls
      PROVE  /\ About(c)
             /\ IF call[c].step \in {"unused", "returned", "alone"} THEN call'[c] = call[c]
                ELSE /\ call'[c].step \in {"alone", "returned"}
                     /\ call'[c].store = NoMarkers /\ call'[c].result = "crash"
                     /\ call'[c].step = "alone" => call[c].step \in {"elevate", "compensate"}
  <2>1. CASE call[c].step \in {"unused", "returned", "alone"}
    BY <1>1, <2>1 DEF About
  <2>2. CASE call[c].step \notin {"unused", "returned", "alone"}
    <3>1. call'[c] = r(c)
      BY <1>1, <2>2
    <3>2. /\ r(c).kind = call[c].kind /\ r(c).tweak = call[c].tweak
          /\ r(c).target = call[c].target
          /\ r(c).step = s(c) /\ r(c).store = NoMarkers /\ r(c).result = "crash"
      BY <1>2
    <3>3. About(c)
      BY <3>1, <3>2 DEF About
    <3>4. /\ call'[c].step = s(c)
          /\ call'[c].store = NoMarkers /\ call'[c].result = "crash"
      BY <3>1, <3>2
    <3>5. /\ s(c) \in {"alone", "returned"}
          /\ s(c) = "alone" => call[c].step \in {"elevate", "compensate"}
      BY <1>3
    <3>6. /\ call'[c].step \in {"alone", "returned"}
          /\ call'[c].step = "alone" => call[c].step \in {"elevate", "compensate"}
      BY <3>4, <3>5
    <3> QED
      BY <2>2, <3>3, <3>4, <3>6
  <2> QED
    BY <2>1, <2>2
<1> QED
  BY <1>4, <1>5

\* The actions, field by field.
IsNext(c) == call[c].step = "unused" /\ \A d \in Calls : d < c => call[d].step # "unused"

ApplyTweakMove(c) ==
  /\ IsNext(c) /\ tweakMu = None /\ tweakMu' = c
  /\ \E t \in Tweaks : Starts(c, "apply", t, None)
  /\ UNCHANGED <<backup, marker, lost, excused>>

ElevatedApplyMove(c) ==
  /\ call[c].kind = "apply" /\ call[c].step = "elevate"
  /\ Seals(c) /\ Goes(c, "load")
  /\ UNCHANGED <<marker, lost, excused, tweakMu>>

NothingElevatedMove(c) ==
  /\ call[c].step = "elevate"
  /\ Returns(c, "error")
  /\ UNCHANGED <<backup, marker, lost, excused>>

LeftAppliedMove(c) ==
  /\ call[c].kind = "apply" /\ call[c].step \in {"elevate", "alone"}
  /\ backup[c].status = "none"
  /\ Seals(c) /\ \E result \in {"error", "crash"} : Returns(c, result)
  /\ UNCHANGED <<marker, lost, excused>>

LoadMarkersMove(c) ==
  /\ call[c].step = "load"
  /\ Only(c) /\ About(c)
  /\ call'[c].step = "save"
  /\ call'[c].store = marker /\ call'[c].result = call[c].result
  /\ UNCHANGED <<backup, marker, lost, excused, tweakMu>>

SetsMarker(c) ==
  /\ marker'[call[c].tweak] = c
  /\ \A t \in Tweaks \ {call[c].tweak} :
       /\ marker'[t] = call[c].store[t]
       /\ t \in lost \/ marker'[t] # marker[t] => t \in lost'
       /\ t \in excused' <=> t \in excused
  /\ Restorable(c) \/ call[c].tweak \in excused'

SetMarkerMove(c) ==
  /\ call[c].kind = "apply" /\ call[c].step = "save"
  /\ marker' \in [Tweaks -> Calls \cup {None}]
  /\ SetsMarker(c)
  /\ lost' \subseteq Tweaks /\ excused' \subseteq Tweaks
  /\ Returns(c, "ok")
  /\ UNCHANGED <<backup>>

NoMarkerMove(c) ==
  /\ call[c].step \in {"load", "save"}
  /\ call[c].kind = "apply" /\ Goes(c, "compensate")
  /\ UNCHANGED <<backup, marker, lost, excused, tweakMu>>

MarkerLeftMove(c) ==
  /\ call[c].step \in {"load", "save"}
  /\ call[c].kind # "apply" /\ Returns(c, "marker left")
  /\ excused' = excused \cup NamedBy(call[c].target)
  /\ UNCHANGED <<backup, marker, lost>>

CompensateMove(c) ==
  /\ call[c].kind = "apply" /\ call[c].step \in {"compensate", "alone"}
  /\ Restorable(c) /\ Restores(c)
  /\ \E result \in {"cancelled", "applied, no marker", "crash"} : Returns(c, result)
  /\ UNCHANGED <<marker, lost, excused>>

NotCompensatedMove(c) ==
  /\ call[c].step = "compensate"
  /\ Returns(c, "applied, no marker")
  /\ UNCHANGED <<backup, marker, lost, excused>>

RestoreTweakMove(c) ==
  /\ IsNext(c) /\ tweakMu = None /\ tweakMu' = c
  /\ \E t \in Tweaks : marker[t] # None /\ Starts(c, "restoreTweak", t, marker[t])
  /\ UNCHANGED <<backup, marker, lost, excused>>

RestoreMove(c) ==
  /\ IsNext(c)
  /\ \E b \in Backups, kind \in {"restore", "restoreLatest"} :
       Restorable(b) /\ Starts(c, kind, None, b)
  /\ UNCHANGED <<backup, marker, lost, excused, tweakMu>>

TakenBack(c) ==
  /\ call[c].kind \in {"restoreTweak", "restore", "restoreLatest"}
  /\ call[c].target \in Backups /\ call[c].target # Profile
  /\ Restorable(call[c].target) /\ Restores(call[c].target)

ProfileTried(c) ==
  /\ call[c].kind # "apply" /\ call[c].target = Profile
  /\ (Restorable(Profile) /\ Restores(Profile)) \/ UNCHANGED backup
  /\ UNCHANGED <<marker, lost, excused>>

ProfileMove(c) ==
  /\ ProfileTried(c)
  /\ call[c].step = "elevate" /\ Goes(c, "wait")
  /\ UNCHANGED tweakMu

ProfileAloneMove(c) ==
  /\ ProfileTried(c)
  /\ call[c].step = "alone" /\ Returns(c, "crash")

LatestMove(c) ==
  /\ TakenBack(c)
  /\ call[c].step \in {"elevate", "alone"}
  /\ \E result \in {"ok", "error", "crash"} : Returns(c, result)
  /\ excused' = excused \cup NamedBy(call[c].target)
  /\ UNCHANGED <<marker, lost>>

TweakMove(c) ==
  /\ TakenBack(c)
  /\ call[c].step = "elevate"
  /\ call[c].kind # "restoreLatest" /\ Goes(c, "load")
  /\ UNCHANGED <<marker, lost, excused, tweakMu>>

ProfileDoneMove(c) ==
  /\ call[c].step = "wait"
  /\ call[c].kind = "restore" /\ Goes(c, "load")
  /\ UNCHANGED <<backup, marker, lost, excused, tweakMu>>

RestoreReturnsMove(c) ==
  /\ call[c].step = "wait"
  /\ \E result \in {"ok", "error"} : Returns(c, result)
  /\ UNCHANGED <<backup, marker, lost, excused>>

RemovesMarker(c) ==
  /\ \A t \in Tweaks :
       /\ marker'[t] \in {None, call[c].store[t]}
       /\ call[c].kind = "restoreTweak" /\ call[c].tweak = t => marker'[t] = None
       /\ call[c].kind = "restore" => marker'[t] # call[c].target \/ marker'[t] = None
       /\ marker'[t] \notin {None, marker[t]} => t \in lost'
       /\ marker[t] # None /\ marker'[t] = None =>
            \/ t \in lost'
            \/ call[c].kind = "restoreTweak" /\ call[c].tweak = t
            \/ call[c].kind = "restore" /\ marker[t] = call[c].target
       /\ t \in excused /\ marker'[t] # None => t \in excused'
  /\ lost \subseteq lost'

RemoveMarkerMove(c) ==
  /\ call[c].kind \in {"restoreTweak", "restore"} /\ call[c].step = "save"
  /\ marker' \in [Tweaks -> Calls \cup {None}]
  /\ RemovesMarker(c)
  /\ lost' \subseteq Tweaks /\ excused' \subseteq Tweaks
  /\ Returns(c, "ok")
  /\ UNCHANGED <<backup>>

CrashMove ==
  /\ call' \in [Calls -> Call]
  /\ \A c \in Calls :
       /\ About(c)
       /\ \/ call[c].step \in {"unused", "returned", "alone"} /\ call'[c] = call[c]
          \/ /\ call[c].step \notin {"unused", "returned", "alone"}
             /\ call'[c].step \in {"alone", "returned"}
             /\ call'[c].step = "alone" => call[c].step \in {"elevate", "compensate"}
             /\ call'[c].store = NoMarkers /\ call'[c].result = "crash"
  /\ tweakMu' = None
  /\ excused' = excused \cup {t \in Tweaks : marker[t] # None /\ ~Restorable(marker[t])}
  /\ UNCHANGED <<backup, marker, lost>>

\* A step of a call, or of something else.
MarkerMove ==
  \/ \E c \in Calls : \/ ApplyTweakMove(c) \/ ElevatedApplyMove(c) \/ NothingElevatedMove(c)
                     \/ LeftAppliedMove(c) \/ LoadMarkersMove(c) \/ SetMarkerMove(c)
                     \/ NoMarkerMove(c) \/ MarkerLeftMove(c) \/ CompensateMove(c)
                     \/ NotCompensatedMove(c) \/ RestoreTweakMove(c) \/ RestoreMove(c)
                     \/ ProfileMove(c) \/ ProfileAloneMove(c) \/ LatestMove(c) \/ TweakMove(c)
                     \/ ProfileDoneMove(c) \/ RestoreReturnsMove(c) \/ RemoveMarkerMove(c)
  \/ CrashMove
  \/ UNCHANGED <<backup, markerVars, tweakMu, call>>

\* ApplyTweak, field by field.
LEMMA ApplyTweakMoves ==
  ASSUME MarkerTypes, NEW c \in Calls, ApplyTweak(c)
  PROVE  ApplyTweakMove(c)
BY ApplyStarts DEF MarkerTypes, ApplyTweak, Turn, IsNext, markerVars, ApplyTweakMove

\* ElevatedApply, field by field.
LEMMA ElevatedApplyMoves ==
  ASSUME MarkerTypes, Steps, NEW c \in Calls, ElevatedApply(c)
  PROVE  ElevatedApplyMove(c)
BY GotoFacts, SealFacts DEF MarkerTypes, Steps, ElevatedApply, markerVars, ElevatedApplyMove

\* ElevatedFails, field by field.
LEMMA ElevatedFailsMoves ==
  ASSUME MarkerTypes, Steps, ApplyBackups, Targets, NEW c \in Calls, ElevatedFails(c)
  PROVE  NothingElevatedMove(c) \/ LeftAppliedMove(c) \/ LatestMove(c)
<1>1. /\ call[c].step = "elevate" /\ Returns(c, "error")
      /\ UNCHANGED <<marker, lost>>
  BY ReturnFacts DEF ElevatedFails, MarkerTypes
<1>2. CASE UNCHANGED <<backup, excused>>
  BY <1>1, <1>2 DEF NothingElevatedMove
<1>3. CASE call[c].kind = "apply" /\ Seal(c) /\ UNCHANGED excused
  <2>1. Seals(c)
    BY <1>3, SealFacts DEF MarkerTypes, Steps
  <2>2. backup[c].status = "none"
    BY <1>1 DEF ApplyBackups
  <2> QED
    BY <1>1, <1>3, <2>1, <2>2 DEF LeftAppliedMove
<1>4. CASE /\ call[c].kind # "apply" /\ call[c].target # Profile
           /\ TakeBack(call[c].target)
           /\ excused' = excused \cup NamedBy(call[c].target)
  <2>1. call[c].target \in Backups
    BY <1>1, <1>4 DEF Targets
  <2>2. Restorable(call[c].target) /\ Restores(call[c].target)
    BY <1>4, <2>1, RestoreFacts DEF MarkerTypes
  <2>3. call[c].kind \in {"restoreTweak", "restore", "restoreLatest"}
    BY <1>1, <1>4 DEF MarkerTypes, Steps, Call
  <2> QED
    BY <1>1, <1>4, <2>1, <2>2, <2>3 DEF LatestMove, TakenBack
<1> QED
  BY <1>2, <1>3, <1>4 DEF ElevatedFails

\* LoadMarkers, field by field.
LEMMA LoadMarkersMoves ==
  ASSUME MarkerTypes, NEW c \in Calls, LoadMarkers(c)
  PROVE  LoadMarkersMove(c)
BY LoadFacts DEF MarkerTypes, LoadMarkers, markerVars, LoadMarkersMove

\* SetMarker, field by field.
LEMMA SetMarkerMoves ==
  ASSUME MarkerTypes, Steps, NEW c \in Calls, SetMarker(c)
  PROVE  SetMarkerMove(c)
<1> DEFINE t == call[c].tweak
           saved == [call[c].store EXCEPT ![t] = c]
<1>1. /\ call[c].kind = "apply" /\ call[c].step = "save" /\ t \in Tweaks
      /\ call[c].store \in [Tweaks -> Calls \cup {None}]
  BY DEF SetMarker, Steps, MarkerTypes, Call
<1>2. /\ marker' = saved
      /\ lost' = (lost \cup Undone(c, saved)) \ {t}
      /\ excused' = IF Restorable(c) THEN excused \ {t} ELSE excused \cup {t}
      /\ UNCHANGED <<backup>>
  BY DEF SetMarker
<1>3. saved \in [Tweaks -> Calls \cup {None}] /\ saved[t] = c
      /\ \A u \in Tweaks \ {t} : saved[u] = call[c].store[u]
  BY <1>1
<1>4. \A u \in Tweaks \ {t} : saved[u] # marker[u] => u \in Undone(c, saved)
  BY <1>3 DEF Undone
<1>5. Undone(c, saved) \subseteq Tweaks
  BY DEF Undone
<1>6. Returns(c, "ok")
  BY ReturnFacts DEF SetMarker, MarkerTypes
<1> HIDE DEF saved
<1> QED
  BY <1>1, <1>2, <1>3, <1>4, <1>5, <1>6 DEF MarkerTypes, SetMarkerMove, SetsMarker

\* MarkersFail, field by field.
LEMMA MarkersFailMoves ==
  ASSUME MarkerTypes, NEW c \in Calls, MarkersFail(c)
  PROVE  NoMarkerMove(c) \/ MarkerLeftMove(c)
BY GotoFacts, ReturnFacts DEF MarkerTypes, MarkersFail, NoMarkerMove, MarkerLeftMove

\* Compensate, field by field.
LEMMA CompensateMoves ==
  ASSUME MarkerTypes, Steps, NEW c \in Calls, Compensate(c)
  PROVE  CompensateMove(c) \/ NotCompensatedMove(c)
<1>1. /\ call[c].step = "compensate" /\ call[c].kind = "apply" /\ c \in Backups
      /\ UNCHANGED <<marker, lost, excused>>
  BY DEF Compensate, Steps, Backups, markerVars
<1>2. CASE TakeBack(c) /\ \E result \in {"cancelled", "applied, no marker"} : Return(c, result)
  <2>1. Restorable(c) /\ Restores(c)
    BY <1>1, <1>2, RestoreFacts DEF MarkerTypes
  <2>2. \E result \in {"cancelled", "applied, no marker"} : Returns(c, result)
    BY <1>2, ReturnFacts DEF MarkerTypes
  <2> QED
    BY <1>1, <2>1, <2>2 DEF CompensateMove
<1>3. CASE Return(c, "applied, no marker") /\ UNCHANGED backup
  BY <1>1, <1>3, ReturnFacts DEF MarkerTypes, NotCompensatedMove
<1> QED
  BY <1>2, <1>3 DEF Compensate

\* RestoreTweak, field by field.
LEMMA RestoreTweakMoves ==
  ASSUME MarkerTypes, NEW c \in Calls, RestoreTweak(c)
  PROVE  RestoreTweakMove(c)
BY RestoreTweakStarts DEF MarkerTypes, RestoreTweak, Turn, IsNext, markerVars, RestoreTweakMove

\* Restore, field by field.
LEMMA RestoreMoves ==
  ASSUME MarkerTypes, NEW c \in Calls, Restore(c)
  PROVE  RestoreMove(c)
BY RestoreStarts DEF MarkerTypes, Restore, Turn, IsNext, markerVars, RestoreMove

\* ElevatedRestore, field by field.
LEMMA ElevatedRestoreMoves ==
  ASSUME MarkerTypes, Targets, NEW c \in Calls, ElevatedRestore(c)
  PROVE  LatestMove(c) \/ TweakMove(c)
<1>1. call[c].kind # "apply" /\ call[c].step # "unused" /\ call[c].target \in Backups
  BY DEF ElevatedRestore, Targets
<1>2. Restorable(call[c].target) /\ Restores(call[c].target)
  BY <1>1, RestoreFacts DEF ElevatedRestore, MarkerTypes
<1> QED
  BY <1>1, <1>2, GotoFacts, ReturnFacts DEF MarkerTypes, ElevatedRestore, LatestMove,
     TweakMove, TakenBack

\* The backup of the profile.
LEMMA ProfileTries ==
  ASSUME MarkerTypes, Targets, NEW c \in Calls, call[c].target = Profile,
         call[c].kind # "apply", TakeProfileBack, UNCHANGED <<marker, lost, excused>>
  PROVE  ProfileTried(c)
<1>1. Profile \in Backups
  BY DEF Backups
<1>2. CASE TakeBack(Profile)
  BY <1>1, <1>2, RestoreFacts DEF MarkerTypes, ProfileTried
<1>3. CASE UNCHANGED backup
  BY <1>3 DEF ProfileTried
<1> QED
  BY <1>2, <1>3 DEF TakeProfileBack

\* RestoreProfile, field by field.
LEMMA RestoreProfileMoves ==
  ASSUME MarkerTypes, Steps, Targets, NEW c \in Calls, RestoreProfile(c)
  PROVE  ProfileMove(c)
<1>1. call[c].kind # "apply"
  BY CallsAssumption, TypesAssumption DEF RestoreProfile, Steps
<1>2. ProfileTried(c)
  BY <1>1, ProfileTries DEF RestoreProfile, markerVars
<1> QED
  BY <1>2, GotoFacts DEF MarkerTypes, RestoreProfile, ProfileMove

\* ProfileAlone, field by field.
LEMMA ProfileAloneMoves ==
  ASSUME MarkerTypes, Steps, Targets, NEW c \in Calls, ProfileAlone(c)
  PROVE  ProfileAloneMove(c)
<1>1. call[c].kind # "apply"
  BY CallsAssumption DEF ProfileAlone, Steps
<1>2. ProfileTried(c)
  BY <1>1, ProfileTries DEF ProfileAlone, markerVars
<1> QED
  BY <1>2, ReturnFacts DEF MarkerTypes, ProfileAlone, ProfileAloneMove

\* ChildAlone, field by field.
LEMMA ChildAloneMoves ==
  ASSUME MarkerTypes, Steps, Targets, NEW c \in Calls, ChildAlone(c)
  PROVE  LeftAppliedMove(c) \/ CompensateMove(c) \/ LatestMove(c)
<1>1. /\ call[c].step = "alone" /\ Returns(c, "crash")
      /\ UNCHANGED <<marker, lost>>
  BY ReturnFacts DEF ChildAlone, MarkerTypes
<1>2. CASE /\ call[c].kind = "apply" /\ backup[c].status = "none" /\ Seal(c)
           /\ UNCHANGED excused
  <2>1. Seals(c)
    BY <1>2, SealFacts DEF MarkerTypes, Steps
  <2> QED
    BY <1>1, <1>2, <2>1 DEF LeftAppliedMove
<1>3. CASE call[c].kind = "apply" /\ TakeBack(c) /\ UNCHANGED excused
  <2>1. c \in Backups
    BY DEF Backups
  <2>2. Restorable(c) /\ Restores(c)
    BY <1>3, <2>1, RestoreFacts DEF MarkerTypes
  <2> QED
    BY <1>1, <1>3, <2>2 DEF CompensateMove
<1>4. CASE /\ call[c].kind # "apply" /\ call[c].target # Profile
           /\ TakeBack(call[c].target)
           /\ excused' = excused \cup NamedBy(call[c].target)
  <2>1. call[c].target \in Backups
    BY <1>1, <1>4 DEF Targets
  <2>2. Restorable(call[c].target) /\ Restores(call[c].target)
    BY <1>4, <2>1, RestoreFacts DEF MarkerTypes
  <2>3. call[c].kind \in {"restoreTweak", "restore", "restoreLatest"}
    BY <1>1, <1>4 DEF MarkerTypes, Steps, Call
  <2> QED
    BY <1>1, <1>4, <2>1, <2>2, <2>3 DEF LatestMove, TakenBack
<1> QED
  BY <1>2, <1>3, <1>4 DEF ChildAlone

\* RestoreReturns, field by field.
LEMMA RestoreReturnsMoves ==
  ASSUME MarkerTypes, NEW c \in Calls, RestoreReturns(c)
  PROVE  ProfileDoneMove(c) \/ RestoreReturnsMove(c)
<1>1. CASE work.restored
  BY <1>1, GotoFacts, ReturnFacts DEF MarkerTypes, ProfileDoneMove, ProfileDoneMove, RestoreReturnsMove,
     RestoreReturns, markerVars
<1>2. CASE ~work.restored
  BY <1>2, GotoFacts, ReturnFacts DEF MarkerTypes, ProfileDoneMove, ProfileDoneMove, RestoreReturnsMove,
     RestoreReturns, markerVars
<1> QED
  BY <1>1, <1>2

\* RemoveMarker, field by field.
LEMMA RemoveMarkerMoves ==
  ASSUME MarkerTypes, NEW c \in Calls, RemoveMarker(c)
  PROVE  RemoveMarkerMove(c)
<1> DEFINE removed == IF call[c].kind = "restoreTweak" THEN {call[c].tweak}
                      ELSE {t \in Tweaks : call[c].store[t] = call[c].target}
           saved == [t \in Tweaks |-> IF t \in removed THEN None ELSE call[c].store[t]]
<1>1. /\ call[c].kind \in {"restoreTweak", "restore"} /\ call[c].step = "save"
      /\ call[c].store \in [Tweaks -> Calls \cup {None}]
  BY DEF RemoveMarker, MarkerTypes, Call
<1>2. /\ marker' = saved
      /\ lost' = lost \cup Undone(c, saved)
      /\ excused' = excused \ removed
      /\ UNCHANGED <<backup>>
  BY DEF RemoveMarker
<1>3. /\ saved \in [Tweaks -> Calls \cup {None}]
      /\ \A t \in Tweaks : saved[t] = IF t \in removed THEN None ELSE call[c].store[t]
  BY <1>1
<1>4. \A t \in Tweaks : marker[t] \notin {call[c].store[t], saved[t]} => t \in Undone(c, saved)
  BY DEF Undone
<1>5. Undone(c, saved) \subseteq Tweaks
  BY DEF Undone
<1>6. Returns(c, "ok")
  BY ReturnFacts DEF RemoveMarker, MarkerTypes
<1> HIDE DEF saved
<1> QED
  BY <1>1, <1>2, <1>3, <1>4, <1>5, <1>6 DEF MarkerTypes, RemoveMarkerMove,
     RemovesMarker

\* Crash, field by field.
LEMMA CrashMoves ==
  ASSUME MarkerTypes, Crash
  PROVE  CrashMove
BY CrashFacts DEF MarkerTypes, Crash, CrashMove

\* The steps of the calls, in this form.
LEMMA MarkerMoves ==
  ASSUME MarkerInv, [Next]_vars
  PROVE  MarkerMove
<1> USE DEF MarkerInv
<1>1. CASE UNCHANGED vars
  BY <1>1 DEF vars, MarkerMove
<1>2. CASE UNCHANGED <<backup, markerVars, tweakMu, call>>
  BY <1>2 DEF MarkerMove
<1>3. CASE Crash
  BY <1>3, CrashMoves DEF MarkerMove
<1>4. ASSUME NEW c \in Calls,
             \/ ApplyTweak(c) \/ ElevatedApply(c) \/ ElevatedFails(c)
             \/ LoadMarkers(c) \/ SetMarker(c) \/ MarkersFail(c)
             \/ Compensate(c) \/ RestoreTweak(c) \/ Restore(c)
             \/ ElevatedRestore(c) \/ RestoreProfile(c) \/ RestoreReturns(c)
             \/ RemoveMarker(c) \/ ChildAlone(c) \/ ProfileAlone(c)
      PROVE  MarkerMove
  BY <1>4, ApplyTweakMoves, ElevatedApplyMoves, ElevatedFailsMoves, LoadMarkersMoves,
     SetMarkerMoves, MarkersFailMoves, CompensateMoves, RestoreTweakMoves, RestoreMoves,
     ElevatedRestoreMoves, RestoreProfileMoves, RestoreReturnsMoves, RemoveMarkerMoves,
     ChildAloneMoves, ProfileAloneMoves DEF MarkerMove
<1> QED
  BY <1>1, <1>2, <1>3, <1>4 DEF Next

\* The types of the calls and of what they share.
LEMMA MarkerTypesStep ==
  ASSUME MarkerTypes, Steps, MarkerMove
  PROVE  MarkerTypes'
<1>1. ASSUME NEW c \in Calls, ApplyTweakMove(c) PROVE MarkerTypes'
  BY <1>1 DEF ApplyTweakMove, IsNext, Starts, Only, MarkerTypes, Steps
<1>2. ASSUME NEW c \in Calls, ElevatedApplyMove(c) PROVE MarkerTypes'
  BY <1>2 DEF ElevatedApplyMove, Seals, Goes, Only, About, MarkerTypes, Steps
<1>3. ASSUME NEW c \in Calls, NothingElevatedMove(c) PROVE MarkerTypes'
  BY <1>3 DEF NothingElevatedMove, Returns, Only, About, MarkerTypes
<1>4. ASSUME NEW c \in Calls, LeftAppliedMove(c) PROVE MarkerTypes'
  BY <1>4
     DEF LeftAppliedMove, Seals, Returns, Only, About, MarkerTypes, Steps
<1>5. ASSUME NEW c \in Calls, LoadMarkersMove(c) PROVE MarkerTypes'
  BY <1>5 DEF LoadMarkersMove, Only, About, MarkerTypes
<1>6. ASSUME NEW c \in Calls, SetMarkerMove(c) PROVE MarkerTypes'
  BY <1>6 DEF SetMarkerMove, Returns, Only, About, MarkerTypes
<1>7. ASSUME NEW c \in Calls, NoMarkerMove(c) PROVE MarkerTypes'
  BY <1>7 DEF NoMarkerMove, Goes, Only, About, MarkerTypes
<1>8. ASSUME NEW c \in Calls, MarkerLeftMove(c) PROVE MarkerTypes'
  BY <1>8 DEF MarkerLeftMove, NamedBy, Returns, Only, About, MarkerTypes
<1>9. ASSUME NEW c \in Calls, CompensateMove(c) PROVE MarkerTypes'
  BY <1>9 DEF CompensateMove, Restores, Returns, Only, About, MarkerTypes
<1>10. ASSUME NEW c \in Calls, NotCompensatedMove(c) PROVE MarkerTypes'
  BY <1>10 DEF NotCompensatedMove, Returns, Only, About, MarkerTypes
<1>11. ASSUME NEW c \in Calls, RestoreTweakMove(c) PROVE MarkerTypes'
  BY <1>11 DEF RestoreTweakMove, IsNext, Starts, Only, MarkerTypes
<1>12. ASSUME NEW c \in Calls, RestoreMove(c) PROVE MarkerTypes'
  BY <1>12 DEF RestoreMove, IsNext, Starts, Only, MarkerTypes
<1>13. ASSUME NEW c \in Calls, ProfileMove(c) PROVE MarkerTypes'
  BY <1>13
     DEF ProfileMove, ProfileTried, Restores, Goes, Only, About, MarkerTypes
<1>14. ASSUME NEW c \in Calls, LatestMove(c) PROVE MarkerTypes'
  BY <1>14
     DEF LatestMove, NamedBy, TakenBack, Restores, Returns, Only, About, MarkerTypes
<1>15. ASSUME NEW c \in Calls, TweakMove(c) PROVE MarkerTypes'
  BY <1>15 DEF TweakMove, TakenBack, Restores, Goes, Only, About, MarkerTypes
<1>16. ASSUME NEW c \in Calls, ProfileDoneMove(c) PROVE MarkerTypes'
  BY <1>16 DEF ProfileDoneMove, Goes, Only, About, MarkerTypes
<1>17. ASSUME NEW c \in Calls, RestoreReturnsMove(c) PROVE MarkerTypes'
  BY <1>17 DEF RestoreReturnsMove, Returns, Only, About, MarkerTypes
<1>18. ASSUME NEW c \in Calls, RemoveMarkerMove(c) PROVE MarkerTypes'
  BY <1>18 DEF RemoveMarkerMove, Returns, Only, About, MarkerTypes
<1>19. CASE CrashMove
  BY <1>19 DEF CrashMove, About, MarkerTypes
<1>20. CASE UNCHANGED <<backup, markerVars, tweakMu, call>>
  BY <1>20 DEF markerVars, MarkerTypes
<1>21. ASSUME NEW c \in Calls, ProfileAloneMove(c) PROVE MarkerTypes'
  BY <1>21
     DEF ProfileAloneMove, ProfileTried, Restores, Returns, Only, About, MarkerTypes
<1> QED
  BY <1>1, <1>2, <1>3, <1>4, <1>5, <1>6, <1>7, <1>8, <1>9, <1>10, <1>11,
     <1>12, <1>13, <1>14, <1>15, <1>16, <1>17, <1>18, <1>19, <1>20, <1>21 DEF MarkerMove

\* What kind of call is at which step.
LEMMA StepsStep ==
  ASSUME Steps, MarkerMove
  PROVE  Steps'
<1>1. ASSUME NEW c \in Calls, ApplyTweakMove(c) PROVE Steps'
  BY <1>1 DEF ApplyTweakMove, IsNext, Starts, Only, Steps
<1>2. ASSUME NEW c \in Calls, ElevatedApplyMove(c) PROVE Steps'
  BY <1>2 DEF ElevatedApplyMove, Seals, Goes, Only, About, Steps
<1>3. ASSUME NEW c \in Calls, NothingElevatedMove(c) PROVE Steps'
  BY <1>3 DEF NothingElevatedMove, Returns, Only, About, Steps
<1>4. ASSUME NEW c \in Calls, LeftAppliedMove(c) PROVE Steps'
  BY <1>4 DEF LeftAppliedMove, Seals, Returns, Only, About, Steps
<1>5. ASSUME NEW c \in Calls, LoadMarkersMove(c) PROVE Steps'
  BY <1>5 DEF LoadMarkersMove, Only, About, Steps
<1>6. ASSUME NEW c \in Calls, SetMarkerMove(c) PROVE Steps'
  BY <1>6 DEF SetMarkerMove, Returns, Only, About, Steps
<1>7. ASSUME NEW c \in Calls, NoMarkerMove(c) PROVE Steps'
  BY <1>7 DEF NoMarkerMove, Goes, Only, About, Steps
<1>8. ASSUME NEW c \in Calls, MarkerLeftMove(c) PROVE Steps'
  <2>1. /\ \A d \in Calls : d # c => call'[d] = call[d]
        /\ call'[c].kind = call[c].kind /\ call'[c].tweak = call[c].tweak
        /\ call'[c].target = call[c].target
        /\ call'[c].step = "returned" /\ call'[c].store = NoMarkers
    BY <1>8 DEF MarkerLeftMove, Returns, Only, About
  <2>2. call[c].step # "unused"
    BY <1>8 DEF MarkerLeftMove
  <2> QED
    BY <2>1, <2>2 DEF Steps
<1>9. ASSUME NEW c \in Calls, CompensateMove(c) PROVE Steps'
  <2>1. /\ \A d \in Calls : d # c => call'[d] = call[d]
        /\ call'[c].kind = call[c].kind /\ call'[c].tweak = call[c].tweak
        /\ call'[c].target = call[c].target
        /\ call'[c].step = "returned" /\ call'[c].store = NoMarkers
        /\ call'[c].result # "ok"
    BY <1>9 DEF CompensateMove, Returns, Only, About
  <2>2. call[c].step # "unused"
    BY <1>9 DEF CompensateMove
  <2> QED
    BY <2>1, <2>2 DEF Steps
<1>10. ASSUME NEW c \in Calls, NotCompensatedMove(c) PROVE Steps'
  <2>1. /\ \A d \in Calls : d # c => call'[d] = call[d]
        /\ call'[c].kind = call[c].kind /\ call'[c].tweak = call[c].tweak
        /\ call'[c].target = call[c].target
        /\ call'[c].step = "returned" /\ call'[c].store = NoMarkers
    BY <1>10 DEF NotCompensatedMove, Returns, Only, About
  <2>2. call[c].step # "unused"
    BY <1>10 DEF NotCompensatedMove
  <2> QED
    BY <2>1, <2>2 DEF Steps
<1>11. ASSUME NEW c \in Calls, RestoreTweakMove(c) PROVE Steps'
  BY <1>11 DEF RestoreTweakMove, IsNext, Starts, Only, Steps
<1>12. ASSUME NEW c \in Calls, RestoreMove(c) PROVE Steps'
  BY <1>12 DEF RestoreMove, IsNext, Starts, Only, Steps
<1>13. ASSUME NEW c \in Calls, ProfileMove(c) PROVE Steps'
  BY <1>13 DEF ProfileMove, ProfileTried, Restores, Goes, Only, About, Steps
<1>14. ASSUME NEW c \in Calls, LatestMove(c) PROVE Steps'
  BY <1>14 DEF LatestMove, TakenBack, Restores, Returns, Only, About, Steps
<1>15. ASSUME NEW c \in Calls, TweakMove(c) PROVE Steps'
  BY <1>15 DEF TweakMove, TakenBack, Restores, Goes, Only, About, Steps
<1>16. ASSUME NEW c \in Calls, ProfileDoneMove(c) PROVE Steps'
  BY <1>16 DEF ProfileDoneMove, Goes, Only, About, Steps
<1>17. ASSUME NEW c \in Calls, RestoreReturnsMove(c) PROVE Steps'
  BY <1>17 DEF RestoreReturnsMove, Returns, Only, About, Steps
<1>18. ASSUME NEW c \in Calls, RemoveMarkerMove(c) PROVE Steps'
  BY <1>18 DEF RemoveMarkerMove, Returns, Only, About, Steps
<1>19. CASE CrashMove
  BY <1>19 DEF CrashMove, About, Steps
<1>20. CASE UNCHANGED <<backup, markerVars, tweakMu, call>>
  BY <1>20 DEF markerVars, Steps
<1>21. ASSUME NEW c \in Calls, ProfileAloneMove(c) PROVE Steps'
  BY <1>21 DEF ProfileAloneMove, ProfileTried, Restores, Returns, Only, About, Steps
<1> QED
  BY <1>1, <1>2, <1>3, <1>4, <1>5, <1>6, <1>7, <1>8, <1>9, <1>10, <1>11,
     <1>12, <1>13, <1>14, <1>15, <1>16, <1>17, <1>18, <1>19, <1>20, <1>21 DEF MarkerMove

\* tweakMu excludes.
LEMMA HoldersStep ==
  ASSUME Steps, Holders, MarkerMove
  PROVE  Holders'
<1>1. ASSUME NEW c \in Calls, ApplyTweakMove(c) PROVE Holders'
  BY <1>1, CallsAssumption DEF ApplyTweakMove, IsNext, Starts, Only, Holders, Holds
<1>2. ASSUME NEW c \in Calls, ElevatedApplyMove(c) PROVE Holders'
  BY <1>2 DEF ElevatedApplyMove, Seals, Goes, Only, About, Holders, Holds
<1>3. ASSUME NEW c \in Calls, NothingElevatedMove(c) PROVE Holders'
  BY <1>3 DEF NothingElevatedMove, Returns, Only, About, Holders, Holds
<1>4. ASSUME NEW c \in Calls, LeftAppliedMove(c) PROVE Holders'
  BY <1>4 DEF LeftAppliedMove, Seals, Returns, Only, About, Holders, Holds
<1>5. ASSUME NEW c \in Calls, LoadMarkersMove(c) PROVE Holders'
  BY <1>5 DEF LoadMarkersMove, Only, About, Holders, Holds
<1>6. ASSUME NEW c \in Calls, SetMarkerMove(c) PROVE Holders'
  BY <1>6 DEF SetMarkerMove, Returns, Only, About, Holders, Holds
<1>7. ASSUME NEW c \in Calls, NoMarkerMove(c) PROVE Holders'
  BY <1>7 DEF NoMarkerMove, Goes, Only, About, Holders, Holds
<1>8. ASSUME NEW c \in Calls, MarkerLeftMove(c) PROVE Holders'
  <2>1. /\ \A d \in Calls : d # c => call'[d] = call[d]
        /\ call'[c].kind = call[c].kind /\ call'[c].tweak = call[c].tweak
        /\ call'[c].target = call[c].target
        /\ call'[c].step = "returned" /\ call'[c].store = NoMarkers
    BY <1>8 DEF MarkerLeftMove, Returns, Only, About
  <2>2. tweakMu' = IF tweakMu = c THEN None ELSE tweakMu
    BY <1>8 DEF MarkerLeftMove, Returns
  <2> QED
    BY <2>1, <2>2 DEF Holders, Holds
<1>9. ASSUME NEW c \in Calls, CompensateMove(c) PROVE Holders'
  BY <1>9 DEF CompensateMove, Restores, Returns, Only, About, Holders, Holds, Steps
<1>10. ASSUME NEW c \in Calls, NotCompensatedMove(c) PROVE Holders'
  <2>1. /\ \A d \in Calls : d # c => call'[d] = call[d]
        /\ call'[c].kind = call[c].kind /\ call'[c].tweak = call[c].tweak
        /\ call'[c].target = call[c].target
        /\ call'[c].step = "returned" /\ call'[c].store = NoMarkers
    BY <1>10 DEF NotCompensatedMove, Returns, Only, About
  <2>2. tweakMu' = IF tweakMu = c THEN None ELSE tweakMu
    BY <1>10 DEF NotCompensatedMove, Returns
  <2> QED
    BY <2>1, <2>2 DEF Holders, Holds
<1>11. ASSUME NEW c \in Calls, RestoreTweakMove(c) PROVE Holders'
  BY <1>11, CallsAssumption DEF RestoreTweakMove, IsNext, Starts, Only, Holders, Holds
<1>12. ASSUME NEW c \in Calls, RestoreMove(c) PROVE Holders'
  BY <1>12 DEF RestoreMove, IsNext, Starts, Only, Holders, Holds, Steps
<1>13. ASSUME NEW c \in Calls, ProfileMove(c) PROVE Holders'
  BY <1>13 DEF ProfileMove, ProfileTried, Restores, Goes, Only, About, Holders, Holds
<1>14. ASSUME NEW c \in Calls, LatestMove(c) PROVE Holders'
  BY <1>14 DEF LatestMove, TakenBack, Restores, Returns, Only, About, Holders, Holds
<1>15. ASSUME NEW c \in Calls, TweakMove(c) PROVE Holders'
  BY <1>15 DEF TweakMove, TakenBack, Restores, Goes, Only, About, Holders, Holds
<1>16. ASSUME NEW c \in Calls, ProfileDoneMove(c) PROVE Holders'
  BY <1>16 DEF ProfileDoneMove, Goes, Only, About, Holders, Holds
<1>17. ASSUME NEW c \in Calls, RestoreReturnsMove(c) PROVE Holders'
  BY <1>17 DEF RestoreReturnsMove, Returns, Only, About, Holders, Holds, Steps
<1>18. ASSUME NEW c \in Calls, RemoveMarkerMove(c) PROVE Holders'
  BY <1>18 DEF RemoveMarkerMove, Returns, Only, About, Holders, Holds
<1>19. CASE CrashMove
  BY <1>19 DEF CrashMove, About, Holders, Holds, Steps
<1>20. CASE UNCHANGED <<backup, markerVars, tweakMu, call>>
  BY <1>20 DEF markerVars, Holders, Holds
<1>21. ASSUME NEW c \in Calls, ProfileAloneMove(c) PROVE Holders'
  BY <1>21 DEF ProfileAloneMove, ProfileTried, Restores, Returns, Only, About, Holders, Holds
<1> QED
  BY <1>1, <1>2, <1>3, <1>4, <1>5, <1>6, <1>7, <1>8, <1>9, <1>10, <1>11,
     <1>12, <1>13, <1>14, <1>15, <1>16, <1>17, <1>18, <1>19, <1>20, <1>21 DEF MarkerMove

\* The backup comes with the child.
LEMMA ApplyBackupsStep ==
  ASSUME Steps, ApplyBackups, MarkerMove
  PROVE  ApplyBackups'
<1>1. ASSUME NEW c \in Calls, ApplyTweakMove(c) PROVE ApplyBackups'
  BY <1>1 DEF ApplyTweakMove, IsNext, Starts, Only, ApplyBackups, Backups, Steps
<1>2. ASSUME NEW c \in Calls, ElevatedApplyMove(c) PROVE ApplyBackups'
  <2>1. backup'[Profile].tweak = None
    BY <1>2, CallsAssumption DEF ElevatedApplyMove, Seals, ApplyBackups, Backups
  <2>2. ASSUME NEW d \in Calls, d # c
        PROVE  backup'[d] = backup[d] /\ call'[d] = call[d]
    BY <1>2, <2>2 DEF ElevatedApplyMove, Seals, Goes, Only, Backups
  <2>3. /\ backup'[c].status # "none" /\ backup'[c].tweak = call'[c].tweak
        /\ call'[c].kind = "apply" /\ call'[c].step # "elevate"
    BY <1>2 DEF ElevatedApplyMove, Seals, Goes, About
  <2> QED
    BY <2>1, <2>2, <2>3 DEF ApplyBackups
<1>3. ASSUME NEW c \in Calls, NothingElevatedMove(c) PROVE ApplyBackups'
  BY <1>3
     DEF NothingElevatedMove, Returns, Only, About, ApplyBackups, Backups
<1>4. ASSUME NEW c \in Calls, LeftAppliedMove(c) PROVE ApplyBackups'
  <2>1. backup'[Profile].tweak = None
    BY <1>4, CallsAssumption DEF LeftAppliedMove, Seals, ApplyBackups, Backups
  <2>2. ASSUME NEW d \in Calls, d # c
        PROVE  backup'[d] = backup[d] /\ call'[d] = call[d]
    BY <1>4, <2>2 DEF LeftAppliedMove, Seals, Returns, Only, Backups
  <2>3. /\ backup'[c].status # "none" /\ backup'[c].tweak = call'[c].tweak
        /\ call'[c].kind = "apply" /\ call'[c].step # "elevate"
    BY <1>4 DEF LeftAppliedMove, Seals, Returns, About
  <2> QED
    BY <2>1, <2>2, <2>3 DEF ApplyBackups
<1>5. ASSUME NEW c \in Calls, LoadMarkersMove(c) PROVE ApplyBackups'
  BY <1>5 DEF LoadMarkersMove, Only, About, ApplyBackups, Backups
<1>6. ASSUME NEW c \in Calls, SetMarkerMove(c) PROVE ApplyBackups'
  BY <1>6 DEF SetMarkerMove, Returns, Only, About, ApplyBackups, Backups
<1>7. ASSUME NEW c \in Calls, NoMarkerMove(c) PROVE ApplyBackups'
  BY <1>7 DEF NoMarkerMove, Goes, Only, About, ApplyBackups, Backups
<1>8. ASSUME NEW c \in Calls, MarkerLeftMove(c) PROVE ApplyBackups'
  BY <1>8 DEF MarkerLeftMove, Returns, Only, About, ApplyBackups, Backups
<1>9. ASSUME NEW c \in Calls, CompensateMove(c) PROVE ApplyBackups'
  <2>1. /\ \A d \in Calls : d # c => call'[d] = call[d]
        /\ call'[c].kind = call[c].kind /\ call'[c].tweak = call[c].tweak
        /\ call'[c].target = call[c].target
        /\ call'[c].step = "returned" /\ call'[c].store = NoMarkers
        /\ call'[c].result # "ok"
    BY <1>9 DEF CompensateMove, Returns, Only, About
  <2>2. /\ call[c].kind = "apply" /\ call[c].step # "elevate" /\ Restorable(c)
        /\ Restores(c)
    BY <1>9 DEF CompensateMove
  <2>3. \A b \in Backups : backup'[b].tweak = backup[b].tweak
                          /\ (b # c => backup'[b] = backup[b])
    BY <2>2 DEF Restores
  <2>4. c \in Backups /\ Profile \in Backups /\ \A d \in Calls : d \in Backups
    BY DEF Backups
  <2>5. backup[c].status # "none" /\ backup'[c].status # "none"
    BY <2>2 DEF Restorable, Restores
  <2> QED
    BY <2>1, <2>2, <2>3, <2>4, <2>5 DEF ApplyBackups
<1>10. ASSUME NEW c \in Calls, NotCompensatedMove(c) PROVE ApplyBackups'
  BY <1>10
     DEF NotCompensatedMove, Returns, Only, About, ApplyBackups, Backups
<1>11. ASSUME NEW c \in Calls, RestoreTweakMove(c) PROVE ApplyBackups'
  BY <1>11 DEF RestoreTweakMove, IsNext, Starts, Only, ApplyBackups, Backups, Steps
<1>12. ASSUME NEW c \in Calls, RestoreMove(c) PROVE ApplyBackups'
  BY <1>12 DEF RestoreMove, IsNext, Starts, Only, ApplyBackups, Backups, Steps
<1>13. ASSUME NEW c \in Calls, ProfileMove(c) PROVE ApplyBackups'
  BY <1>13
     DEF ProfileMove, ProfileTried, Restores, Goes, Only, About, ApplyBackups,
         Backups, Restorable
<1>14. ASSUME NEW c \in Calls, LatestMove(c) PROVE ApplyBackups'
  BY <1>14
     DEF LatestMove, TakenBack, Restores, Returns, Only, About, ApplyBackups,
         Backups, Restorable
<1>15. ASSUME NEW c \in Calls, TweakMove(c) PROVE ApplyBackups'
  BY <1>15
     DEF TweakMove, TakenBack, Restores, Goes, Only, About, ApplyBackups,
         Backups, Restorable
<1>16. ASSUME NEW c \in Calls, ProfileDoneMove(c) PROVE ApplyBackups'
  BY <1>16 DEF ProfileDoneMove, Goes, Only, About, ApplyBackups, Backups
<1>17. ASSUME NEW c \in Calls, RestoreReturnsMove(c) PROVE ApplyBackups'
  BY <1>17
     DEF RestoreReturnsMove, Returns, Only, About, ApplyBackups, Backups
<1>18. ASSUME NEW c \in Calls, RemoveMarkerMove(c) PROVE ApplyBackups'
  BY <1>18 DEF RemoveMarkerMove, Returns, Only, About, ApplyBackups, Backups
<1>19. CASE CrashMove
  BY <1>19 DEF CrashMove, About, ApplyBackups, Backups
<1>20. CASE UNCHANGED <<backup, markerVars, tweakMu, call>>
  BY <1>20 DEF markerVars, ApplyBackups, Backups
<1>21. ASSUME NEW c \in Calls, ProfileAloneMove(c) PROVE ApplyBackups'
  BY <1>21
     DEF ProfileAloneMove, ProfileTried, Restores, Returns, Only, About, ApplyBackups,
         Backups, Restorable
<1> QED
  BY <1>1, <1>2, <1>3, <1>4, <1>5, <1>6, <1>7, <1>8, <1>9, <1>10, <1>11,
     <1>12, <1>13, <1>14, <1>15, <1>16, <1>17, <1>18, <1>19, <1>20, <1>21 DEF MarkerMove

\* What is named stays.
LEMMA NamedStays ==
  ASSUME Steps, ApplyBackups, MarkerMove
  PROVE  \A t \in Tweaks, b \in Calls : Named(t, b) => Named(t, b)'
<1>1. ASSUME NEW c \in Calls, ApplyTweakMove(c) PROVE \A t \in Tweaks, b \in Calls : Named(t, b) => Named(t, b)'
  BY <1>1 DEF ApplyTweakMove, IsNext, Starts, Only, Named, Backups
<1>2. ASSUME NEW c \in Calls, ElevatedApplyMove(c) PROVE \A t \in Tweaks, b \in Calls : Named(t, b) => Named(t, b)'
  BY <1>2 DEF ElevatedApplyMove, Seals, Goes, Only, About, Named, Backups
<1>3. ASSUME NEW c \in Calls, NothingElevatedMove(c) PROVE \A t \in Tweaks, b \in Calls : Named(t, b) => Named(t, b)'
  BY <1>3 DEF NothingElevatedMove, Returns, Only, About, Named, Backups
<1>4. ASSUME NEW c \in Calls, LeftAppliedMove(c) PROVE \A t \in Tweaks, b \in Calls : Named(t, b) => Named(t, b)'
  BY <1>4 DEF LeftAppliedMove, Seals, Returns, Only, About, Named, Backups
<1>5. ASSUME NEW c \in Calls, LoadMarkersMove(c) PROVE \A t \in Tweaks, b \in Calls : Named(t, b) => Named(t, b)'
  BY <1>5 DEF LoadMarkersMove, Only, About, Named, Backups
<1>6. ASSUME NEW c \in Calls, SetMarkerMove(c) PROVE \A t \in Tweaks, b \in Calls : Named(t, b) => Named(t, b)'
  BY <1>6 DEF SetMarkerMove, Returns, Only, About, Named, Backups
<1>7. ASSUME NEW c \in Calls, NoMarkerMove(c) PROVE \A t \in Tweaks, b \in Calls : Named(t, b) => Named(t, b)'
  BY <1>7 DEF NoMarkerMove, Goes, Only, About, Named, Backups
<1>8. ASSUME NEW c \in Calls, MarkerLeftMove(c) PROVE \A t \in Tweaks, b \in Calls : Named(t, b) => Named(t, b)'
  BY <1>8 DEF MarkerLeftMove, Returns, Only, About, Named, Backups
<1>9. ASSUME NEW c \in Calls, CompensateMove(c) PROVE \A t \in Tweaks, b \in Calls : Named(t, b) => Named(t, b)'
  BY <1>9 DEF CompensateMove, Restores, Returns, Only, About, Named, Backups
<1>10. ASSUME NEW c \in Calls, NotCompensatedMove(c) PROVE \A t \in Tweaks, b \in Calls : Named(t, b) => Named(t, b)'
  BY <1>10 DEF NotCompensatedMove, Returns, Only, About, Named, Backups
<1>11. ASSUME NEW c \in Calls, RestoreTweakMove(c) PROVE \A t \in Tweaks, b \in Calls : Named(t, b) => Named(t, b)'
  BY <1>11 DEF RestoreTweakMove, IsNext, Starts, Only, Named, Backups
<1>12. ASSUME NEW c \in Calls, RestoreMove(c) PROVE \A t \in Tweaks, b \in Calls : Named(t, b) => Named(t, b)'
  BY <1>12 DEF RestoreMove, IsNext, Starts, Only, Named, Backups
<1>13. ASSUME NEW c \in Calls, ProfileMove(c) PROVE \A t \in Tweaks, b \in Calls : Named(t, b) => Named(t, b)'
  BY <1>13
     DEF ProfileMove, ProfileTried, Restores, Goes, Only, About, Named, Backups
<1>14. ASSUME NEW c \in Calls, LatestMove(c) PROVE \A t \in Tweaks, b \in Calls : Named(t, b) => Named(t, b)'
  BY <1>14
     DEF LatestMove, TakenBack, Restores, Returns, Only, About, Named, Backups
<1>15. ASSUME NEW c \in Calls, TweakMove(c) PROVE \A t \in Tweaks, b \in Calls : Named(t, b) => Named(t, b)'
  BY <1>15
     DEF TweakMove, TakenBack, Restores, Goes, Only, About, Named, Backups
<1>16. ASSUME NEW c \in Calls, ProfileDoneMove(c) PROVE \A t \in Tweaks, b \in Calls : Named(t, b) => Named(t, b)'
  BY <1>16 DEF ProfileDoneMove, Goes, Only, About, Named, Backups
<1>17. ASSUME NEW c \in Calls, RestoreReturnsMove(c) PROVE \A t \in Tweaks, b \in Calls : Named(t, b) => Named(t, b)'
  BY <1>17 DEF RestoreReturnsMove, Returns, Only, About, Named, Backups
<1>18. ASSUME NEW c \in Calls, RemoveMarkerMove(c) PROVE \A t \in Tweaks, b \in Calls : Named(t, b) => Named(t, b)'
  BY <1>18 DEF RemoveMarkerMove, Returns, Only, About, Named, Backups
<1>19. CASE CrashMove
  BY <1>19 DEF CrashMove, About, Named, Backups
<1>20. CASE UNCHANGED <<backup, markerVars, tweakMu, call>>
  BY <1>20 DEF markerVars, Named, Backups
<1>21. ASSUME NEW c \in Calls, ProfileAloneMove(c) PROVE \A t \in Tweaks, b \in Calls : Named(t, b) => Named(t, b)'
  BY <1>21
     DEF ProfileAloneMove, ProfileTried, Restores, Returns, Only, About, Named, Backups
<1> QED
  BY <1>1, <1>2, <1>3, <1>4, <1>5, <1>6, <1>7, <1>8, <1>9, <1>10, <1>11,
     <1>12, <1>13, <1>14, <1>15, <1>16, <1>17, <1>18, <1>19, <1>20, <1>21 DEF MarkerMove

\* No backup is forgotten, and none is restorable again.
LEMMA StatusStays ==
  ASSUME Steps, ApplyBackups, MarkerMove
  PROVE  \A b \in Backups : backup[b].status # "none" =>
           backup'[b].status # "none" /\ (Restorable(b)' => Restorable(b))
<1>1. ASSUME NEW c \in Calls, ApplyTweakMove(c) PROVE \A b \in Backups : backup[b].status # "none" =>
           backup'[b].status # "none" /\ (Restorable(b)' => Restorable(b))
  BY <1>1 DEF ApplyTweakMove, IsNext, Starts, Only, Restorable, Backups
<1>2. ASSUME NEW c \in Calls, ElevatedApplyMove(c) PROVE \A b \in Backups : backup[b].status # "none" =>
           backup'[b].status # "none" /\ (Restorable(b)' => Restorable(b))
  BY <1>2
     DEF ElevatedApplyMove, Seals, Goes, Only, About, Restorable, Backups,
         ApplyBackups
<1>3. ASSUME NEW c \in Calls, NothingElevatedMove(c) PROVE \A b \in Backups : backup[b].status # "none" =>
           backup'[b].status # "none" /\ (Restorable(b)' => Restorable(b))
  BY <1>3 DEF NothingElevatedMove, Returns, Only, About, Restorable, Backups
<1>4. ASSUME NEW c \in Calls, LeftAppliedMove(c) PROVE \A b \in Backups : backup[b].status # "none" =>
           backup'[b].status # "none" /\ (Restorable(b)' => Restorable(b))
  BY <1>4
     DEF LeftAppliedMove, Seals, Returns, Only, About, Restorable, Backups,
         ApplyBackups
<1>5. ASSUME NEW c \in Calls, LoadMarkersMove(c) PROVE \A b \in Backups : backup[b].status # "none" =>
           backup'[b].status # "none" /\ (Restorable(b)' => Restorable(b))
  BY <1>5 DEF LoadMarkersMove, Only, About, Restorable, Backups
<1>6. ASSUME NEW c \in Calls, SetMarkerMove(c) PROVE \A b \in Backups : backup[b].status # "none" =>
           backup'[b].status # "none" /\ (Restorable(b)' => Restorable(b))
  BY <1>6 DEF SetMarkerMove, Returns, Only, About, Restorable, Backups
<1>7. ASSUME NEW c \in Calls, NoMarkerMove(c) PROVE \A b \in Backups : backup[b].status # "none" =>
           backup'[b].status # "none" /\ (Restorable(b)' => Restorable(b))
  BY <1>7 DEF NoMarkerMove, Goes, Only, About, Restorable, Backups
<1>8. ASSUME NEW c \in Calls, MarkerLeftMove(c) PROVE \A b \in Backups : backup[b].status # "none" =>
           backup'[b].status # "none" /\ (Restorable(b)' => Restorable(b))
  BY <1>8 DEF MarkerLeftMove, Returns, Only, About, Restorable, Backups
<1>9. ASSUME NEW c \in Calls, CompensateMove(c) PROVE \A b \in Backups : backup[b].status # "none" =>
           backup'[b].status # "none" /\ (Restorable(b)' => Restorable(b))
  BY <1>9
     DEF CompensateMove, Restores, Returns, Only, About, Restorable, Backups
<1>10. ASSUME NEW c \in Calls, NotCompensatedMove(c) PROVE \A b \in Backups : backup[b].status # "none" =>
           backup'[b].status # "none" /\ (Restorable(b)' => Restorable(b))
  BY <1>10 DEF NotCompensatedMove, Returns, Only, About, Restorable, Backups
<1>11. ASSUME NEW c \in Calls, RestoreTweakMove(c) PROVE \A b \in Backups : backup[b].status # "none" =>
           backup'[b].status # "none" /\ (Restorable(b)' => Restorable(b))
  BY <1>11 DEF RestoreTweakMove, IsNext, Starts, Only, Restorable, Backups
<1>12. ASSUME NEW c \in Calls, RestoreMove(c) PROVE \A b \in Backups : backup[b].status # "none" =>
           backup'[b].status # "none" /\ (Restorable(b)' => Restorable(b))
  BY <1>12 DEF RestoreMove, IsNext, Starts, Only, Restorable, Backups
<1>13. ASSUME NEW c \in Calls, ProfileMove(c) PROVE \A b \in Backups : backup[b].status # "none" =>
           backup'[b].status # "none" /\ (Restorable(b)' => Restorable(b))
  BY <1>13
     DEF ProfileMove, ProfileTried, Restores, Goes, Only, About, Restorable,
         Backups
<1>14. ASSUME NEW c \in Calls, LatestMove(c) PROVE \A b \in Backups : backup[b].status # "none" =>
           backup'[b].status # "none" /\ (Restorable(b)' => Restorable(b))
  BY <1>14
     DEF LatestMove, TakenBack, Restores, Returns, Only, About, Restorable,
         Backups
<1>15. ASSUME NEW c \in Calls, TweakMove(c) PROVE \A b \in Backups : backup[b].status # "none" =>
           backup'[b].status # "none" /\ (Restorable(b)' => Restorable(b))
  BY <1>15
     DEF TweakMove, TakenBack, Restores, Goes, Only, About, Restorable,
         Backups
<1>16. ASSUME NEW c \in Calls, ProfileDoneMove(c) PROVE \A b \in Backups : backup[b].status # "none" =>
           backup'[b].status # "none" /\ (Restorable(b)' => Restorable(b))
  BY <1>16 DEF ProfileDoneMove, Goes, Only, About, Restorable, Backups
<1>17. ASSUME NEW c \in Calls, RestoreReturnsMove(c) PROVE \A b \in Backups : backup[b].status # "none" =>
           backup'[b].status # "none" /\ (Restorable(b)' => Restorable(b))
  BY <1>17 DEF RestoreReturnsMove, Returns, Only, About, Restorable, Backups
<1>18. ASSUME NEW c \in Calls, RemoveMarkerMove(c) PROVE \A b \in Backups : backup[b].status # "none" =>
           backup'[b].status # "none" /\ (Restorable(b)' => Restorable(b))
  BY <1>18 DEF RemoveMarkerMove, Returns, Only, About, Restorable, Backups
<1>19. CASE CrashMove
  BY <1>19 DEF CrashMove, About, Restorable, Backups
<1>20. CASE UNCHANGED <<backup, markerVars, tweakMu, call>>
  BY <1>20 DEF markerVars, Restorable, Backups
<1>21. ASSUME NEW c \in Calls, ProfileAloneMove(c) PROVE \A b \in Backups : backup[b].status # "none" =>
           backup'[b].status # "none" /\ (Restorable(b)' => Restorable(b))
  BY <1>21
     DEF ProfileAloneMove, ProfileTried, Restores, Returns, Only, About, Restorable,
         Backups
<1> QED
  BY <1>1, <1>2, <1>3, <1>4, <1>5, <1>6, <1>7, <1>8, <1>9, <1>10, <1>11,
     <1>12, <1>13, <1>14, <1>15, <1>16, <1>17, <1>18, <1>19, <1>20, <1>21 DEF MarkerMove

\* What a marker names.
LEMMA MarkersNameStep ==
  ASSUME MarkerTypes, Steps, ApplyBackups, MarkersName, MarkerMove
  PROVE  MarkersName'
<1>a. \A t \in Tweaks, b \in Calls : Named(t, b) => Named(t, b)'
  BY NamedStays
<1>1. ASSUME NEW c \in Calls, ApplyTweakMove(c) PROVE MarkersName'
  BY <1>1, <1>a, NoMarkersTyped
     DEF ApplyTweakMove, IsNext, Starts, Only, MarkersName, Named
<1>2. ASSUME NEW c \in Calls, ElevatedApplyMove(c) PROVE MarkersName'
  <2> SUFFICES ASSUME NEW t \in Tweaks, NEW d \in Calls
               PROVE  (/\ marker[t] # None => Named(t, marker[t])
                       /\ call[d].store[t] # None => Named(t, call[d].store[t]))'
    BY DEF MarkersName
  <2>1. \A b \in Calls : Named(t, b) => Named(t, b)'
    BY <1>a
  <2>2. UNCHANGED marker
    BY <1>2 DEF ElevatedApplyMove
  <2>3. call'[d].store[t] \in {None, call[d].store[t]}
    BY <1>2, NoMarkersTyped DEF ElevatedApplyMove, Goes, Only
  <2>4. marker[t] # None => Named(t, marker[t])
    BY DEF MarkersName
  <2>5. call[d].store[t] # None => Named(t, call[d].store[t])
    BY DEF MarkersName
  <2> QED
    BY <2>1, <2>2, <2>3, <2>4, <2>5 DEF Named
<1>3. ASSUME NEW c \in Calls, NothingElevatedMove(c) PROVE MarkersName'
  BY <1>3, <1>a, NoMarkersTyped
     DEF NothingElevatedMove, Returns, Only, About, MarkersName, Named
<1>4. ASSUME NEW c \in Calls, LeftAppliedMove(c) PROVE MarkersName'
  <2> SUFFICES ASSUME NEW t \in Tweaks, NEW d \in Calls
               PROVE  (/\ marker[t] # None => Named(t, marker[t])
                       /\ call[d].store[t] # None => Named(t, call[d].store[t]))'
    BY DEF MarkersName
  <2>1. \A b \in Calls : Named(t, b) => Named(t, b)'
    BY <1>a
  <2>2. UNCHANGED marker
    BY <1>4 DEF LeftAppliedMove
  <2>3. call'[d].store[t] \in {None, call[d].store[t]}
    BY <1>4, NoMarkersTyped DEF LeftAppliedMove, Returns, Only
  <2>4. marker[t] # None => Named(t, marker[t])
    BY DEF MarkersName
  <2>5. call[d].store[t] # None => Named(t, call[d].store[t])
    BY DEF MarkersName
  <2> QED
    BY <2>1, <2>2, <2>3, <2>4, <2>5 DEF Named
<1>5. ASSUME NEW c \in Calls, LoadMarkersMove(c) PROVE MarkersName'
  BY <1>5, <1>a, NoMarkersTyped
     DEF LoadMarkersMove, Only, About, MarkersName, Named
<1>6. ASSUME NEW c \in Calls, SetMarkerMove(c) PROVE MarkersName'
  <2> SUFFICES ASSUME NEW t \in Tweaks, NEW d \in Calls
               PROVE  (/\ marker[t] # None => Named(t, marker[t])
                       /\ call[d].store[t] # None => Named(t, call[d].store[t]))'
    BY DEF MarkersName
  <2>1. Named(call[c].tweak, c)'
    BY <1>6 DEF SetMarkerMove, Returns, Only, About, Named, ApplyBackups
  <2>2. \A b \in Calls : Named(t, b) => Named(t, b)'
    BY <1>a
  <2>3. (marker[t] # None => Named(t, marker[t]))'
    <3>1. CASE t = call[c].tweak
      BY <1>6, <2>1, <3>1 DEF SetMarkerMove, SetsMarker, Returns, About, Named
    <3>2. CASE t # call[c].tweak
      BY <1>6, <2>2, <3>2 DEF SetMarkerMove, SetsMarker, MarkersName, Named
    <3> QED
      BY <3>1, <3>2
  <2>4. (call[d].store[t] # None => Named(t, call[d].store[t]))'
    <3>1. CASE d # c
      BY <1>6, <2>2, <3>1 DEF SetMarkerMove, Returns, Only, MarkersName, Named
    <3>2. CASE d = c
      BY <1>6, <3>2, NoMarkersTyped DEF SetMarkerMove, Returns
    <3> QED
      BY <3>1, <3>2
  <2> QED
    BY <2>3, <2>4
<1>7. ASSUME NEW c \in Calls, NoMarkerMove(c) PROVE MarkersName'
  BY <1>7, <1>a, NoMarkersTyped
     DEF NoMarkerMove, Goes, Only, About, MarkersName, Named
<1>8. ASSUME NEW c \in Calls, MarkerLeftMove(c) PROVE MarkersName'
  <2> SUFFICES ASSUME NEW t \in Tweaks, NEW d \in Calls
               PROVE  (/\ marker[t] # None => Named(t, marker[t])
                       /\ call[d].store[t] # None => Named(t, call[d].store[t]))'
    BY DEF MarkersName
  <2>1. \A b \in Calls : Named(t, b) => Named(t, b)'
    BY <1>a
  <2>2. UNCHANGED marker
    BY <1>8 DEF MarkerLeftMove
  <2>3. call'[d].store[t] \in {None, call[d].store[t]}
    BY <1>8, NoMarkersTyped DEF MarkerLeftMove, Returns, Only
  <2>4. marker[t] # None => Named(t, marker[t])
    BY DEF MarkersName
  <2>5. call[d].store[t] # None => Named(t, call[d].store[t])
    BY DEF MarkersName
  <2> QED
    BY <2>1, <2>2, <2>3, <2>4, <2>5 DEF Named
<1>9. ASSUME NEW c \in Calls, CompensateMove(c) PROVE MarkersName'
  <2> SUFFICES ASSUME NEW t \in Tweaks, NEW d \in Calls
               PROVE  (/\ marker[t] # None => Named(t, marker[t])
                       /\ call[d].store[t] # None => Named(t, call[d].store[t]))'
    BY DEF MarkersName
  <2>1. \A b \in Calls : Named(t, b) => Named(t, b)'
    BY <1>a
  <2>2. UNCHANGED marker
    BY <1>9 DEF CompensateMove
  <2>3. call'[d].store[t] \in {None, call[d].store[t]}
    BY <1>9, NoMarkersTyped DEF CompensateMove, Returns, Only
  <2>4. marker[t] # None => Named(t, marker[t])
    BY DEF MarkersName
  <2>5. call[d].store[t] # None => Named(t, call[d].store[t])
    BY DEF MarkersName
  <2> QED
    BY <2>1, <2>2, <2>3, <2>4, <2>5 DEF Named
<1>10. ASSUME NEW c \in Calls, NotCompensatedMove(c) PROVE MarkersName'
  <2> SUFFICES ASSUME NEW t \in Tweaks, NEW d \in Calls
               PROVE  (/\ marker[t] # None => Named(t, marker[t])
                       /\ call[d].store[t] # None => Named(t, call[d].store[t]))'
    BY DEF MarkersName
  <2>1. \A b \in Calls : Named(t, b) => Named(t, b)'
    BY <1>a
  <2>2. UNCHANGED marker
    BY <1>10 DEF NotCompensatedMove
  <2>3. call'[d].store[t] \in {None, call[d].store[t]}
    BY <1>10, NoMarkersTyped DEF NotCompensatedMove, Returns, Only
  <2>4. marker[t] # None => Named(t, marker[t])
    BY DEF MarkersName
  <2>5. call[d].store[t] # None => Named(t, call[d].store[t])
    BY DEF MarkersName
  <2> QED
    BY <2>1, <2>2, <2>3, <2>4, <2>5 DEF Named
<1>11. ASSUME NEW c \in Calls, RestoreTweakMove(c) PROVE MarkersName'
  BY <1>11, <1>a, NoMarkersTyped
     DEF RestoreTweakMove, IsNext, Starts, Only, MarkersName, Named
<1>12. ASSUME NEW c \in Calls, RestoreMove(c) PROVE MarkersName'
  BY <1>12, <1>a, NoMarkersTyped
     DEF RestoreMove, IsNext, Starts, Only, MarkersName, Named
<1>13. ASSUME NEW c \in Calls, ProfileMove(c) PROVE MarkersName'
  <2> SUFFICES ASSUME NEW t \in Tweaks, NEW d \in Calls
               PROVE  (/\ marker[t] # None => Named(t, marker[t])
                       /\ call[d].store[t] # None => Named(t, call[d].store[t]))'
    BY DEF MarkersName
  <2>1. \A b \in Calls : Named(t, b) => Named(t, b)'
    BY <1>a
  <2>2. UNCHANGED marker
    BY <1>13 DEF ProfileMove, ProfileTried
  <2>3. call'[d].store[t] \in {None, call[d].store[t]}
    BY <1>13, NoMarkersTyped DEF ProfileMove, Goes, Only
  <2>4. marker[t] # None => Named(t, marker[t])
    BY DEF MarkersName
  <2>5. call[d].store[t] # None => Named(t, call[d].store[t])
    BY DEF MarkersName
  <2> QED
    BY <2>1, <2>2, <2>3, <2>4, <2>5 DEF Named
<1>14. ASSUME NEW c \in Calls, LatestMove(c) PROVE MarkersName'
  <2> SUFFICES ASSUME NEW t \in Tweaks, NEW d \in Calls
               PROVE  (/\ marker[t] # None => Named(t, marker[t])
                       /\ call[d].store[t] # None => Named(t, call[d].store[t]))'
    BY DEF MarkersName
  <2>1. \A b \in Calls : Named(t, b) => Named(t, b)'
    BY <1>a
  <2>2. UNCHANGED marker
    BY <1>14 DEF LatestMove
  <2>3. call'[d].store[t] \in {None, call[d].store[t]}
    BY <1>14, NoMarkersTyped DEF LatestMove, Returns, Only
  <2>4. marker[t] # None => Named(t, marker[t])
    BY DEF MarkersName
  <2>5. call[d].store[t] # None => Named(t, call[d].store[t])
    BY DEF MarkersName
  <2> QED
    BY <2>1, <2>2, <2>3, <2>4, <2>5 DEF Named
<1>15. ASSUME NEW c \in Calls, TweakMove(c) PROVE MarkersName'
  <2> SUFFICES ASSUME NEW t \in Tweaks, NEW d \in Calls
               PROVE  (/\ marker[t] # None => Named(t, marker[t])
                       /\ call[d].store[t] # None => Named(t, call[d].store[t]))'
    BY DEF MarkersName
  <2>1. \A b \in Calls : Named(t, b) => Named(t, b)'
    BY <1>a
  <2>2. UNCHANGED marker
    BY <1>15 DEF TweakMove
  <2>3. call'[d].store[t] \in {None, call[d].store[t]}
    BY <1>15, NoMarkersTyped DEF TweakMove, Goes, Only
  <2>4. marker[t] # None => Named(t, marker[t])
    BY DEF MarkersName
  <2>5. call[d].store[t] # None => Named(t, call[d].store[t])
    BY DEF MarkersName
  <2> QED
    BY <2>1, <2>2, <2>3, <2>4, <2>5 DEF Named
<1>16. ASSUME NEW c \in Calls, ProfileDoneMove(c) PROVE MarkersName'
  BY <1>16, <1>a, NoMarkersTyped
     DEF ProfileDoneMove, Goes, Only, About, MarkersName, Named
<1>17. ASSUME NEW c \in Calls, RestoreReturnsMove(c) PROVE MarkersName'
  BY <1>17, <1>a, NoMarkersTyped
     DEF RestoreReturnsMove, Returns, Only, About, MarkersName, Named
<1>18. ASSUME NEW c \in Calls, RemoveMarkerMove(c) PROVE MarkersName'
  BY <1>18, <1>a, NoMarkersTyped
     DEF RemoveMarkerMove, Returns, Only, About, MarkersName, Named,
         RemovesMarker
<1>19. CASE CrashMove
  BY <1>19, <1>a, NoMarkersTyped DEF CrashMove, About, MarkersName, Named
<1>20. CASE UNCHANGED <<backup, markerVars, tweakMu, call>>
  BY <1>20, <1>a, NoMarkersTyped DEF markerVars, MarkersName, Named
<1>21. ASSUME NEW c \in Calls, ProfileAloneMove(c) PROVE MarkersName'
  <2> SUFFICES ASSUME NEW t \in Tweaks, NEW d \in Calls
               PROVE  (/\ marker[t] # None => Named(t, marker[t])
                       /\ call[d].store[t] # None => Named(t, call[d].store[t]))'
    BY DEF MarkersName
  <2>1. \A b \in Calls : Named(t, b) => Named(t, b)'
    BY <1>a
  <2>2. UNCHANGED marker
    BY <1>21 DEF ProfileAloneMove, ProfileTried
  <2>3. call'[d].store[t] \in {None, call[d].store[t]}
    BY <1>21, NoMarkersTyped DEF ProfileAloneMove, Returns, Only
  <2>4. marker[t] # None => Named(t, marker[t])
    BY DEF MarkersName
  <2>5. call[d].store[t] # None => Named(t, call[d].store[t])
    BY DEF MarkersName
  <2> QED
    BY <2>1, <2>2, <2>3, <2>4, <2>5 DEF Named
<1> QED
  BY <1>1, <1>2, <1>3, <1>4, <1>5, <1>6, <1>7, <1>8, <1>9, <1>10, <1>11,
     <1>12, <1>13, <1>14, <1>15, <1>16, <1>17, <1>18, <1>19, <1>20, <1>21 DEF MarkerMove

\* What a restore is about.
LEMMA TargetsStep ==
  ASSUME MarkerTypes, Steps, ApplyBackups, MarkersName, Targets, MarkerMove
  PROVE  Targets'
<1>a. \A t \in Tweaks, b \in Calls : Named(t, b) => Named(t, b)'
  BY NamedStays
<1>b. \A b \in Backups : backup[b].status # "none" =>
        backup'[b].status # "none" /\ (Restorable(b)' => Restorable(b))
  BY StatusStays
<1>1. ASSUME NEW c \in Calls, ApplyTweakMove(c) PROVE Targets'
  BY <1>1, <1>a, <1>b
     DEF ApplyTweakMove, IsNext, Starts, Only, Targets, Restorable, Named
<1>2. ASSUME NEW c \in Calls, ElevatedApplyMove(c) PROVE Targets'
  BY <1>2, <1>a, <1>b
     DEF ElevatedApplyMove, Seals, Goes, Only, About, Targets, Restorable,
         Named, Steps
<1>3. ASSUME NEW c \in Calls, NothingElevatedMove(c) PROVE Targets'
  BY <1>3, <1>a, <1>b
     DEF NothingElevatedMove, Returns, Only, About, Targets, Restorable, Named
<1>4. ASSUME NEW c \in Calls, LeftAppliedMove(c) PROVE Targets'
  BY <1>4, <1>a, <1>b
     DEF LeftAppliedMove, Seals, Returns, Only, About, Targets, Restorable,
         Named, Steps
<1>5. ASSUME NEW c \in Calls, LoadMarkersMove(c) PROVE Targets'
  BY <1>5, <1>a, <1>b
     DEF LoadMarkersMove, Only, About, Targets, Restorable, Named
<1>6. ASSUME NEW c \in Calls, SetMarkerMove(c) PROVE Targets'
  BY <1>6, <1>a, <1>b
     DEF SetMarkerMove, Returns, Only, About, Targets, Restorable, Named
<1>7. ASSUME NEW c \in Calls, NoMarkerMove(c) PROVE Targets'
  BY <1>7, <1>a, <1>b
     DEF NoMarkerMove, Goes, Only, About, Targets, Restorable, Named
<1>8. ASSUME NEW c \in Calls, MarkerLeftMove(c) PROVE Targets'
  <2> SUFFICES ASSUME NEW d \in Calls
               PROVE  (/\ call[d].kind = "restoreTweak" /\ call[d].step # "returned" =>
                            Named(call[d].tweak, call[d].target)
                       /\ call[d].kind # "apply" /\ call[d].step \in {"wait", "load", "save"} =>
                            call[d].target = Profile \/ ~Restorable(call[d].target)
                       /\ call[d].kind # "apply" /\ call[d].step # "unused" =>
                            call[d].target \in Backups
                              /\ backup[call[d].target].status # "none")'
    BY DEF Targets
  <2>1. CASE d # c
    <3>1. call'[d] = call[d] /\ UNCHANGED backup
      BY <1>8, <2>1 DEF MarkerLeftMove, Returns, Only
    <3>2. \A b \in Calls, t \in Tweaks : Named(t, b) => Named(t, b)'
      BY <1>a
    <3> QED
      BY <3>1, <3>2 DEF Targets, Restorable, Named, Steps
  <2>2. CASE d = c
    BY <1>8, <2>2 DEF MarkerLeftMove, Returns, About, Targets, Restorable, Steps
  <2> QED
    BY <2>1, <2>2
<1>9. ASSUME NEW c \in Calls, CompensateMove(c) PROVE Targets'
  <2>1. /\ \A d \in Calls : d # c => call'[d] = call[d]
        /\ call'[c].kind = call[c].kind /\ call'[c].tweak = call[c].tweak
        /\ call'[c].target = call[c].target
        /\ call'[c].step = "returned" /\ call'[c].store = NoMarkers
        /\ call'[c].result # "ok"
    BY <1>9 DEF CompensateMove, Returns, Only, About
  <2>2. call[c].kind = "apply"
    BY <1>9 DEF CompensateMove
  <2> QED
    BY <1>a, <1>b, <2>1, <2>2 DEF Targets, Named, Restorable, Steps
<1>10. ASSUME NEW c \in Calls, NotCompensatedMove(c) PROVE Targets'
  <2> SUFFICES ASSUME NEW d \in Calls
               PROVE  (/\ call[d].kind = "restoreTweak" /\ call[d].step # "returned" =>
                            Named(call[d].tweak, call[d].target)
                       /\ call[d].kind # "apply" /\ call[d].step \in {"wait", "load", "save"} =>
                            call[d].target = Profile \/ ~Restorable(call[d].target)
                       /\ call[d].kind # "apply" /\ call[d].step # "unused" =>
                            call[d].target \in Backups
                              /\ backup[call[d].target].status # "none")'
    BY DEF Targets
  <2>1. CASE d # c
    <3>1. call'[d] = call[d] /\ UNCHANGED backup
      BY <1>10, <2>1 DEF NotCompensatedMove, Returns, Only
    <3>2. \A b \in Calls, t \in Tweaks : Named(t, b) => Named(t, b)'
      BY <1>a
    <3> QED
      BY <3>1, <3>2 DEF Targets, Restorable, Named, Steps
  <2>2. CASE d = c
    BY <1>10, <2>2 DEF NotCompensatedMove, Returns, About, Targets, Restorable, Steps
  <2> QED
    BY <2>1, <2>2
<1>11. ASSUME NEW c \in Calls, RestoreTweakMove(c) PROVE Targets'
  BY <1>11, <1>a, <1>b
     DEF RestoreTweakMove, IsNext, Starts, Only, Targets, Restorable, Named,
         MarkersName, Backups
<1>12. ASSUME NEW c \in Calls, RestoreMove(c) PROVE Targets'
  BY <1>12, <1>a, <1>b
     DEF RestoreMove, IsNext, Starts, Only, Targets, Restorable, Named, MarkersName,
         Backups
<1>13. ASSUME NEW c \in Calls, ProfileMove(c) PROVE Targets'
  <2> SUFFICES ASSUME NEW d \in Calls
               PROVE  (/\ call[d].kind = "restoreTweak" /\ call[d].step # "returned" =>
                            Named(call[d].tweak, call[d].target)
                       /\ call[d].kind # "apply" /\ call[d].step \in {"wait", "load", "save"} =>
                            call[d].target = Profile \/ ~Restorable(call[d].target)
                       /\ call[d].kind # "apply" /\ call[d].step # "unused" =>
                            call[d].target \in Backups
                              /\ backup[call[d].target].status # "none")'
    BY DEF Targets
  <2>1. \A b \in Calls, t \in Tweaks : Named(t, b) => Named(t, b)'
    BY <1>a
  <2>2. CASE d # c
    <3>1. call'[d] = call[d]
      BY <1>13, <2>2 DEF ProfileMove, Goes, Only
    <3> QED
      BY <2>1, <3>1, <1>b DEF Targets, Named, Steps, Restorable
  <2>3. CASE d = c
    <3>1. /\ call'[d].kind = call[d].kind /\ call'[d].tweak = call[d].tweak
          /\ call'[d].target = call[d].target
      BY <1>13, <2>3 DEF ProfileMove, Goes, About
    <3>2. /\ call[d].kind # "apply" /\ call[d].step = "elevate"
          /\ call[d].target = Profile
      BY <1>13, <2>3 DEF ProfileMove, ProfileTried
    <3> QED
      BY <2>1, <3>1, <3>2, <1>b DEF Targets, Named, Steps, Restorable
  <2> QED
    BY <2>2, <2>3
<1>14. ASSUME NEW c \in Calls, LatestMove(c) PROVE Targets'
  <2> SUFFICES ASSUME NEW d \in Calls
               PROVE  (/\ call[d].kind = "restoreTweak" /\ call[d].step # "returned" =>
                            Named(call[d].tweak, call[d].target)
                       /\ call[d].kind # "apply" /\ call[d].step \in {"wait", "load", "save"} =>
                            call[d].target = Profile \/ ~Restorable(call[d].target)
                       /\ call[d].kind # "apply" /\ call[d].step # "unused" =>
                            call[d].target \in Backups
                              /\ backup[call[d].target].status # "none")'
    BY DEF Targets
  <2>1. \A b \in Calls, t \in Tweaks : Named(t, b) => Named(t, b)'
    BY <1>a
  <2>2. CASE d # c
    <3>1. call'[d] = call[d]
      BY <1>14, <2>2 DEF LatestMove, Returns, Only
    <3> QED
      BY <2>1, <3>1, <1>b DEF Targets, Named, Steps, Restorable
  <2>3. CASE d = c
    <3>1. /\ call'[d].kind = call[d].kind /\ call'[d].tweak = call[d].tweak
          /\ call'[d].target = call[d].target
      BY <1>14, <2>3 DEF LatestMove, Returns, About
    <3>2. /\ call[d].kind # "apply" /\ call[d].step # "unused"
          /\ call[d].target \in Backups
          /\ backup'[call[d].target].status = "restored"
      BY <1>14, <2>3 DEF LatestMove, TakenBack, Restores
    <3>3. call'[d].step = "returned"
      BY <1>14, <2>3 DEF LatestMove, Returns
    <3> QED
      BY <3>1, <3>2, <3>3 DEF Targets
  <2> QED
    BY <2>2, <2>3
<1>15. ASSUME NEW c \in Calls, TweakMove(c) PROVE Targets'
  <2> SUFFICES ASSUME NEW d \in Calls
               PROVE  (/\ call[d].kind = "restoreTweak" /\ call[d].step # "returned" =>
                            Named(call[d].tweak, call[d].target)
                       /\ call[d].kind # "apply" /\ call[d].step \in {"wait", "load", "save"} =>
                            call[d].target = Profile \/ ~Restorable(call[d].target)
                       /\ call[d].kind # "apply" /\ call[d].step # "unused" =>
                            call[d].target \in Backups
                              /\ backup[call[d].target].status # "none")'
    BY DEF Targets
  <2>1. \A b \in Calls, t \in Tweaks : Named(t, b) => Named(t, b)'
    BY <1>a
  <2>2. CASE d # c
    <3>1. call'[d] = call[d]
      BY <1>15, <2>2 DEF TweakMove, Goes, Only
    <3> QED
      BY <2>1, <3>1, <1>b DEF Targets, Named, Steps, Restorable
  <2>3. CASE d = c
    <3>1. /\ call'[d].kind = call[d].kind /\ call'[d].tweak = call[d].tweak
          /\ call'[d].target = call[d].target
      BY <1>15, <2>3 DEF TweakMove, Goes, About
    <3>2. /\ call[d].kind # "apply" /\ call[d].step = "elevate"
          /\ call[d].target \in Backups
          /\ backup'[call[d].target].status = "restored"
      BY <1>15, <2>3 DEF TweakMove, TakenBack, Restores
    <3> QED
      BY <2>1, <3>1, <3>2 DEF Targets, Named, Steps, Restorable
  <2> QED
    BY <2>2, <2>3
<1>16. ASSUME NEW c \in Calls, ProfileDoneMove(c) PROVE Targets'
  BY <1>16, <1>a, <1>b
     DEF ProfileDoneMove, Goes, Only, About, Targets, Restorable, Named
<1>17. ASSUME NEW c \in Calls, RestoreReturnsMove(c) PROVE Targets'
  BY <1>17, <1>a, <1>b
     DEF RestoreReturnsMove, Returns, Only, About, Targets, Restorable, Named
<1>18. ASSUME NEW c \in Calls, RemoveMarkerMove(c) PROVE Targets'
  BY <1>18, <1>a, <1>b
     DEF RemoveMarkerMove, Returns, Only, About, Targets, Restorable, Named
<1>19. CASE CrashMove
  BY <1>19, <1>a, <1>b DEF CrashMove, About, Targets, Restorable, Named
<1>20. CASE UNCHANGED <<backup, markerVars, tweakMu, call>>
  BY <1>20, <1>a, <1>b DEF markerVars, Targets, Restorable, Named
<1>21. ASSUME NEW c \in Calls, ProfileAloneMove(c) PROVE Targets'
  <2> SUFFICES ASSUME NEW d \in Calls
               PROVE  (/\ call[d].kind = "restoreTweak" /\ call[d].step # "returned" =>
                            Named(call[d].tweak, call[d].target)
                       /\ call[d].kind # "apply" /\ call[d].step \in {"wait", "load", "save"} =>
                            call[d].target = Profile \/ ~Restorable(call[d].target)
                       /\ call[d].kind # "apply" /\ call[d].step # "unused" =>
                            call[d].target \in Backups
                              /\ backup[call[d].target].status # "none")'
    BY DEF Targets
  <2>1. \A b \in Calls, t \in Tweaks : Named(t, b) => Named(t, b)'
    BY <1>a
  <2>2. CASE d # c
    <3>1. call'[d] = call[d]
      BY <1>21, <2>2 DEF ProfileAloneMove, Returns, Only
    <3> QED
      BY <2>1, <3>1, <1>b DEF Targets, Named, Steps, Restorable
  <2>3. CASE d = c
    <3>1. /\ call'[d].kind = call[d].kind /\ call'[d].tweak = call[d].tweak
          /\ call'[d].target = call[d].target
      BY <1>21, <2>3 DEF ProfileAloneMove, Returns, About
    <3>2. /\ call[d].kind # "apply" /\ call[d].step = "alone"
          /\ call[d].target = Profile
      BY <1>21, <2>3 DEF ProfileAloneMove, ProfileTried
    <3> QED
      BY <2>1, <3>1, <3>2, <1>b DEF Targets, Named, Steps, Restorable
  <2> QED
    BY <2>2, <2>3
<1> QED
  BY <1>1, <1>2, <1>3, <1>4, <1>5, <1>6, <1>7, <1>8, <1>9, <1>10, <1>11,
     <1>12, <1>13, <1>14, <1>15, <1>16, <1>17, <1>18, <1>19, <1>20, <1>21 DEF MarkerMove

\* An apply that returned with success.
Applied(c) == call[c].kind = "apply" /\ call[c].result = "ok"

\* Nobody returns with success from an apply, and only what is a backup
\* already is one that can be restored.
AppliedStays ==
  \A d \in Calls :
    /\ Applied(d)' <=> Applied(d)
    /\ Applied(d) => call'[d].tweak = call[d].tweak
    /\ Applied(d)' /\ Restorable(d)' => Restorable(d)

\* The end of ApplyTweak is the only step that makes an apply succeed.
LEMMA AppliedStep ==
  ASSUME Steps, ApplyBackups, MarkerMove
  PROVE  AppliedStays \/ \E c \in Calls : SetMarkerMove(c)
<1>1. ASSUME NEW c \in Calls, ApplyTweakMove(c) PROVE AppliedStays
  BY <1>1 DEF ApplyTweakMove, IsNext, Starts, Only, AppliedStays, Applied, Restorable,
       Backups, Steps, ApplyBackups
<1>2. ASSUME NEW c \in Calls, ElevatedApplyMove(c) PROVE AppliedStays
  BY <1>2 DEF ElevatedApplyMove, Seals, Goes, Only, About, AppliedStays, Applied, Restorable,
       Backups, Steps, ApplyBackups
<1>3. ASSUME NEW c \in Calls, NothingElevatedMove(c) PROVE AppliedStays
  BY <1>3 DEF NothingElevatedMove, Returns, Only, About, AppliedStays, Applied, Restorable,
       Backups, Steps, ApplyBackups
<1>4. ASSUME NEW c \in Calls, LeftAppliedMove(c) PROVE AppliedStays
  BY <1>4 DEF LeftAppliedMove, Seals, Returns, Only, About, AppliedStays, Applied,
       Restorable, Backups, Steps, ApplyBackups
<1>5. ASSUME NEW c \in Calls, LoadMarkersMove(c) PROVE AppliedStays
  BY <1>5 DEF LoadMarkersMove, Only, About, AppliedStays, Applied, Restorable, Backups,
       Steps, ApplyBackups
<1>6. ASSUME NEW c \in Calls, SetMarkerMove(c) PROVE \E d \in Calls : SetMarkerMove(d)
  BY <1>6
<1>7. ASSUME NEW c \in Calls, NoMarkerMove(c) PROVE AppliedStays
  BY <1>7 DEF NoMarkerMove, Goes, Only, About, AppliedStays, Applied, Restorable, Backups,
       Steps, ApplyBackups
<1>8. ASSUME NEW c \in Calls, MarkerLeftMove(c) PROVE AppliedStays
  BY <1>8 DEF MarkerLeftMove, Returns, Only, About, AppliedStays, Applied, Restorable,
       Backups, Steps, ApplyBackups
<1>9. ASSUME NEW c \in Calls, CompensateMove(c) PROVE AppliedStays
  BY <1>9 DEF CompensateMove, Restores, Returns, Only, About, AppliedStays, Applied,
       Restorable, Backups, Steps, ApplyBackups
<1>10. ASSUME NEW c \in Calls, NotCompensatedMove(c) PROVE AppliedStays
  BY <1>10 DEF NotCompensatedMove, Returns, Only, About, AppliedStays, Applied, Restorable,
       Backups, Steps, ApplyBackups
<1>11. ASSUME NEW c \in Calls, RestoreTweakMove(c) PROVE AppliedStays
  BY <1>11 DEF RestoreTweakMove, IsNext, Starts, Only, AppliedStays, Applied, Restorable,
       Backups, Steps, ApplyBackups
<1>12. ASSUME NEW c \in Calls, RestoreMove(c) PROVE AppliedStays
  BY <1>12 DEF RestoreMove, IsNext, Starts, Only, AppliedStays, Applied, Restorable, Backups,
       Steps, ApplyBackups
<1>13. ASSUME NEW c \in Calls, ProfileMove(c) PROVE AppliedStays
  BY <1>13 DEF ProfileMove, ProfileTried, Restores, Goes, Only, About, AppliedStays, Applied,
       Restorable, Backups, Steps, ApplyBackups
<1>14. ASSUME NEW c \in Calls, LatestMove(c) PROVE AppliedStays
  BY <1>14 DEF LatestMove, TakenBack, Restores, Returns, Only, About, AppliedStays, Applied,
       Restorable, Backups, Steps, ApplyBackups
<1>15. ASSUME NEW c \in Calls, TweakMove(c) PROVE AppliedStays
  BY <1>15 DEF TweakMove, TakenBack, Restores, Goes, Only, About, AppliedStays, Applied,
       Restorable, Backups, Steps, ApplyBackups
<1>16. ASSUME NEW c \in Calls, ProfileDoneMove(c) PROVE AppliedStays
  BY <1>16 DEF ProfileDoneMove, Goes, Only, About, AppliedStays, Applied, Restorable,
       Backups, Steps, ApplyBackups
<1>17. ASSUME NEW c \in Calls, RestoreReturnsMove(c) PROVE AppliedStays
  BY <1>17 DEF RestoreReturnsMove, Returns, Only, About, AppliedStays, Applied, Restorable,
       Backups, Steps, ApplyBackups
<1>18. ASSUME NEW c \in Calls, RemoveMarkerMove(c) PROVE AppliedStays
  BY <1>18 DEF RemoveMarkerMove, Returns, Only, About, AppliedStays, Applied, Restorable,
       Backups, Steps, ApplyBackups
<1>19. CASE CrashMove
  BY <1>19 DEF CrashMove, About, AppliedStays, Applied, Restorable, Backups, Steps,
       ApplyBackups
<1>20. CASE UNCHANGED <<backup, markerVars, tweakMu, call>>
  BY <1>20 DEF markerVars, AppliedStays, Applied, Restorable, Backups, Steps, ApplyBackups
<1>21. ASSUME NEW c \in Calls, ProfileAloneMove(c) PROVE AppliedStays
  BY <1>21 DEF ProfileAloneMove, ProfileTried, Restores, Returns, Only, About, AppliedStays,
       Applied, Restorable, Backups, Steps, ApplyBackups
<1> QED
  BY <1>1, <1>2, <1>3, <1>4, <1>5, <1>6, <1>7, <1>8, <1>9, <1>10, <1>11,
     <1>12, <1>13, <1>14, <1>15, <1>16, <1>17, <1>18, <1>19, <1>20, <1>21 DEF MarkerMove

\* Who holds tweakMu, and what for.
HoldsStay ==
  \A d \in Calls :
    /\ Holds(d)' => /\ Holds(d)
                    /\ call'[d].kind = call[d].kind /\ call'[d].tweak = call[d].tweak
                    /\ call'[d].target = call[d].target
    /\ call'[d].kind = "apply" => call[d].kind = "apply"
    /\ call[d].step # "unused" => call'[d].step # "unused"

\* Nobody else starts.
NoTurn == \A c \in Calls : call[c].step = "unused" => call'[c].step = "unused"

\* A call that takes tweakMu is the next one.
LEMMA HoldsStep ==
  ASSUME Steps, MarkerMove
  PROVE  \/ HoldsStay /\ NoTurn
         \/ \E c \in Calls : RestoreMove(c) /\ HoldsStay
         \/ \E c \in Calls : ApplyTweakMove(c) \/ RestoreTweakMove(c)
<1>1. ASSUME NEW c \in Calls, ApplyTweakMove(c)
      PROVE  \E d \in Calls : ApplyTweakMove(d) \/ RestoreTweakMove(d)
  BY <1>1
<1>2. ASSUME NEW c \in Calls, ElevatedApplyMove(c) PROVE HoldsStay /\ NoTurn
  BY <1>2 DEF ElevatedApplyMove, Seals, Goes, Only, About, HoldsStay, NoTurn, Holds, Steps
<1>3. ASSUME NEW c \in Calls, NothingElevatedMove(c) PROVE HoldsStay /\ NoTurn
  BY <1>3 DEF NothingElevatedMove, Returns, Only, About, HoldsStay, NoTurn, Holds, Steps
<1>4. ASSUME NEW c \in Calls, LeftAppliedMove(c) PROVE HoldsStay /\ NoTurn
  BY <1>4 DEF LeftAppliedMove, Seals, Returns, Only, About, HoldsStay, NoTurn, Holds, Steps
<1>5. ASSUME NEW c \in Calls, LoadMarkersMove(c) PROVE HoldsStay /\ NoTurn
  BY <1>5 DEF LoadMarkersMove, Only, About, HoldsStay, NoTurn, Holds, Steps
<1>6. ASSUME NEW c \in Calls, SetMarkerMove(c) PROVE HoldsStay /\ NoTurn
  BY <1>6 DEF SetMarkerMove, Returns, Only, About, HoldsStay, NoTurn, Holds, Steps
<1>7. ASSUME NEW c \in Calls, NoMarkerMove(c) PROVE HoldsStay /\ NoTurn
  BY <1>7 DEF NoMarkerMove, Goes, Only, About, HoldsStay, NoTurn, Holds, Steps
<1>8. ASSUME NEW c \in Calls, MarkerLeftMove(c) PROVE HoldsStay /\ NoTurn
  BY <1>8 DEF MarkerLeftMove, Returns, Only, About, HoldsStay, NoTurn, Holds, Steps
<1>9. ASSUME NEW c \in Calls, CompensateMove(c) PROVE HoldsStay /\ NoTurn
  BY <1>9 DEF CompensateMove, Restores, Returns, Only, About, HoldsStay, NoTurn, Holds,
       Steps
<1>10. ASSUME NEW c \in Calls, NotCompensatedMove(c) PROVE HoldsStay /\ NoTurn
  BY <1>10 DEF NotCompensatedMove, Returns, Only, About, HoldsStay, NoTurn, Holds, Steps
<1>11. ASSUME NEW c \in Calls, RestoreTweakMove(c)
      PROVE  \E d \in Calls : ApplyTweakMove(d) \/ RestoreTweakMove(d)
  BY <1>11
<1>12. ASSUME NEW c \in Calls, RestoreMove(c) PROVE HoldsStay
  BY <1>12 DEF RestoreMove, IsNext, Starts, Only, HoldsStay, Holds, Steps
<1>13. ASSUME NEW c \in Calls, ProfileMove(c) PROVE HoldsStay /\ NoTurn
  BY <1>13 DEF ProfileMove, ProfileTried, Restores, Goes, Only, About, HoldsStay, NoTurn,
       Holds, Steps
<1>14. ASSUME NEW c \in Calls, LatestMove(c) PROVE HoldsStay /\ NoTurn
  BY <1>14 DEF LatestMove, TakenBack, Restores, Returns, Only, About, HoldsStay, NoTurn,
       Holds, Steps
<1>15. ASSUME NEW c \in Calls, TweakMove(c) PROVE HoldsStay /\ NoTurn
  BY <1>15 DEF TweakMove, TakenBack, Restores, Goes, Only, About, HoldsStay, NoTurn, Holds,
       Steps
<1>16. ASSUME NEW c \in Calls, ProfileDoneMove(c) PROVE HoldsStay /\ NoTurn
  BY <1>16 DEF ProfileDoneMove, Goes, Only, About, HoldsStay, NoTurn, Holds, Steps
<1>17. ASSUME NEW c \in Calls, RestoreReturnsMove(c) PROVE HoldsStay /\ NoTurn
  BY <1>17 DEF RestoreReturnsMove, Returns, Only, About, HoldsStay, NoTurn, Holds, Steps
<1>18. ASSUME NEW c \in Calls, RemoveMarkerMove(c) PROVE HoldsStay /\ NoTurn
  BY <1>18 DEF RemoveMarkerMove, Returns, Only, About, HoldsStay, NoTurn, Holds, Steps
<1>19. CASE CrashMove
  BY <1>19 DEF CrashMove, About, HoldsStay, NoTurn, Holds, Steps
<1>20. CASE UNCHANGED <<backup, markerVars, tweakMu, call>>
  BY <1>20 DEF markerVars, HoldsStay, NoTurn, Holds, Steps
<1>21. ASSUME NEW c \in Calls, ProfileAloneMove(c) PROVE HoldsStay /\ NoTurn
  BY <1>21 DEF ProfileAloneMove, ProfileTried, Restores, Returns, Only, About, HoldsStay,
       NoTurn, Holds, Steps
<1> QED
  BY <1>1, <1>2, <1>3, <1>4, <1>5, <1>6, <1>7, <1>8, <1>9, <1>10, <1>11,
     <1>12, <1>13, <1>14, <1>15, <1>16, <1>17, <1>18, <1>19, <1>20, <1>21 DEF MarkerMove

\* What the last apply of a tweak is does not change then.
LEMMA LastStays ==
  ASSUME AppliedStays
  PROVE  \A d \in Calls : LastApplied(d)' => LastApplied(d) /\ call'[d].tweak = call[d].tweak
<1> SUFFICES ASSUME NEW d \in Calls, LastApplied(d)'
             PROVE  LastApplied(d) /\ call'[d].tweak = call[d].tweak
  OBVIOUS
<1>1. Applied(d)' /\ \A e \in Calls : e > d => ~(Applied(e)' /\ call'[e].tweak = call'[d].tweak)
  BY DEF LastApplied, Applied
<1>2. Applied(d) /\ call'[d].tweak = call[d].tweak
  BY <1>1 DEF AppliedStays
<1>3. \A e \in Calls : e > d => ~(Applied(e) /\ call[e].tweak = call[d].tweak)
  BY <1>1, <1>2 DEF AppliedStays
<1> QED
  BY <1>2, <1>3 DEF LastApplied, Applied

\* Two ways to change the file, one to forget that it has lost a marker.
LEMMA FileStep ==
  ASSUME MarkerMove
  PROVE  \/ \E c \in Calls : SetMarkerMove(c)
         \/ \E c \in Calls : RemoveMarkerMove(c)
         \/ UNCHANGED <<marker, lost>>
BY DEF MarkerMove, ApplyTweakMove, ElevatedApplyMove, NothingElevatedMove, LeftAppliedMove,
   LoadMarkersMove, NoMarkerMove, MarkerLeftMove, CompensateMove, NotCompensatedMove,
   RestoreTweakMove, RestoreMove, ProfileMove, ProfileAloneMove, ProfileTried, LatestMove,
   TweakMove, ProfileDoneMove, RestoreReturnsMove, CrashMove, markerVars

\* The order of the calls.
LEMMA OrderStep ==
  ASSUME Steps, Holders, Order, MarkerMove
  PROVE  Order'
<1> SUFFICES ASSUME NEW c \in Calls, NEW d \in Calls, d < c
             PROVE  (/\ call[d].step = "unused" => call[c].step = "unused"
                     /\ Holds(d) => call[c].kind # "apply")'
  BY DEF Order
<1>1. /\ call[d].step = "unused" => call[c].step = "unused"
      /\ Holds(d) => call[c].kind # "apply"
  BY DEF Order
<1>2. c # d
  BY CallsAssumption
<1>3. CASE HoldsStay /\ NoTurn
  BY <1>1, <1>3 DEF HoldsStay, NoTurn
<1>4. ASSUME NEW e \in Calls, RestoreMove(e), HoldsStay
      PROVE  (/\ call[d].step = "unused" => call[c].step = "unused"
              /\ Holds(d) => call[c].kind # "apply")'
  <2>1. call'[d].step = "unused" => c # e /\ call[d].step = "unused"
    BY <1>4 DEF HoldsStay, RestoreMove, IsNext
  <2>2. c # e => call'[c] = call[c]
    BY <1>4 DEF RestoreMove, IsNext, Starts, Only
  <2> QED
    BY <1>1, <1>4, <2>1, <2>2 DEF HoldsStay
<1>5. ASSUME NEW e \in Calls, ApplyTweakMove(e) \/ RestoreTweakMove(e)
      PROVE  (/\ call[d].step = "unused" => call[c].step = "unused"
              /\ Holds(d) => call[c].kind # "apply")'
  <2>1. /\ IsNext(e) /\ tweakMu = None
        /\ call'[e].step = "elevate"
        /\ \A x \in Calls : x # e => call'[x] = call[x]
    BY <1>5 DEF ApplyTweakMove, RestoreTweakMove, Starts, Only
  <2>2. call'[d].step = "unused" => c # e /\ d # e
    BY <2>1 DEF IsNext
  <2>3. d # e => ~Holds(d)'
    BY <2>1, CallsAssumption DEF Holders, Holds
  <2>4. d = e => call[c].step = "unused" /\ c # e
    BY <1>1, <1>2, <2>1 DEF IsNext
  <2> QED
    BY <1>1, <2>1, <2>2, <2>3, <2>4 DEF Steps
<1> QED
  BY <1>3, <1>4, <1>5, HoldsStep

\* The rollback of a tweak is that of its last apply.
LEMMA HolderKnowsStep ==
  ASSUME Steps, Holders, ApplyBackups, HolderKnows, MarkerUnlessLost, MarkerMove
  PROVE  HolderKnows'
<1> SUFFICES ASSUME NEW c \in Calls, NEW d \in Calls,
                    call'[c].kind = "restoreTweak", Holds(c)',
                    LastApplied(d)', Restorable(d)', call'[d].tweak = call'[c].tweak
             PROVE  d = call'[c].target \/ call'[d].tweak \in lost'
  BY DEF HolderKnows
<1>1. CASE RestoreTweakMove(c)
  <2>1. /\ IsNext(c) /\ UNCHANGED <<backup, marker, lost>>
        /\ \A x \in Calls : x # c => call'[x] = call[x]
        /\ call'[c].target = marker[call'[c].tweak]
    BY <1>1 DEF RestoreTweakMove, IsNext, Starts, Only
  <2>2. d # c
    BY DEF LastApplied
  <2>3. LastApplied(d)
    <3>1. ~Applied(c)
      BY <2>1 DEF IsNext, Steps, Applied
    <3> QED
      BY <2>1, <2>2, <3>1 DEF LastApplied, Applied
  <2>4. marker[call[d].tweak] = d \/ call[d].tweak \in lost
    BY <2>1, <2>3 DEF MarkerUnlessLost, Restorable
  <2> QED
    BY <2>1, <2>2, <2>4
<1>2. CASE ~RestoreTweakMove(c)
  <2>1. /\ Holds(c)
        /\ call'[c].kind = call[c].kind /\ call'[c].tweak = call[c].tweak
        /\ call'[c].target = call[c].target
    <3>1. CASE HoldsStay
      BY <3>1 DEF HoldsStay
    <3>2. ASSUME NEW e \in Calls, ApplyTweakMove(e) \/ RestoreTweakMove(e)
          PROVE  /\ Holds(c)
                 /\ call'[c].kind = call[c].kind /\ call'[c].tweak = call[c].tweak
                 /\ call'[c].target = call[c].target
      <4>1. c # e /\ call'[c] = call[c]
        BY <1>2, <3>2 DEF ApplyTweakMove, RestoreTweakMove, Starts, Only
      <4> QED
        BY <4>1 DEF Holds
    <3> QED
      BY <3>1, <3>2, HoldsStep
  <2>2. \A e \in Calls : ~SetMarkerMove(e)
    BY <2>1 DEF SetMarkerMove, Holders, Holds
  <2>3. AppliedStays
    BY <2>2, AppliedStep
  <2>4. LastApplied(d) /\ Restorable(d) /\ call'[d].tweak = call[d].tweak
    BY <2>3, LastStays DEF AppliedStays, LastApplied, Applied
  <2>5. d = call[c].target \/ call[d].tweak \in lost
    BY <2>1, <2>4 DEF HolderKnows
  <2>6. lost \subseteq lost'
    BY <2>2, FileStep DEF RemoveMarkerMove, RemovesMarker
  <2> QED
    BY <2>1, <2>4, <2>5, <2>6
<1> QED
  BY <1>1, <1>2

\* A marker is only lost by an overlapping save.
LEMMA UnlessLostStep ==
  ASSUME Steps, Order, ApplyBackups, HolderKnows, MarkersName, Targets,
         MarkerUnlessLost, MarkerMove
  PROVE  MarkerUnlessLost'
<1> SUFFICES ASSUME NEW d \in Calls, LastApplied(d)', Restorable(d)'
             PROVE  marker'[call'[d].tweak] = d \/ call'[d].tweak \in lost'
  BY DEF MarkerUnlessLost
<1>1. ASSUME NEW c \in Calls, SetMarkerMove(c)
      PROVE  marker'[call'[d].tweak] = d \/ call'[d].tweak \in lost'
  <2>1. /\ call[c].kind = "apply" /\ Holds(c) /\ call[c].result = "none"
        /\ call'[c].kind = "apply" /\ call'[c].result = "ok"
        /\ call'[c].tweak = call[c].tweak
        /\ \A x \in Calls : x # c => call'[x] = call[x]
        /\ SetsMarker(c) /\ UNCHANGED backup
    BY <1>1 DEF SetMarkerMove, Returns, Only, About, Holds, Steps
  <2>2. CASE d = c
    BY <2>1, <2>2 DEF SetsMarker
  <2>3. CASE d # c
    <3>1. call'[d] = call[d] /\ Applied(d) /\ call[d].tweak \in Tweaks
      BY <2>1, <2>3 DEF LastApplied, Applied, Steps
    <3>2. LastApplied(d)
      <4>1. ~Applied(c)
        BY <2>1 DEF Applied
      <4> QED
        BY <2>1, <3>1, <4>1 DEF LastApplied, Applied
    <3>3. marker[call[d].tweak] = d \/ call[d].tweak \in lost
      BY <2>1, <3>2 DEF MarkerUnlessLost, Restorable
    <3>4. call[d].tweak # call[c].tweak
      <4>1. CASE d < c
        <5>1. c > d
          BY <4>1, CallsAssumption
        <5> QED
          BY <2>1, <3>1, <5>1 DEF LastApplied
      <4>2. CASE c < d
        BY <2>1, <3>1, <4>2 DEF Order, Applied
      <4> QED
        BY <2>3, <4>1, <4>2, CallsAssumption
    <3> QED
      BY <2>1, <3>1, <3>3, <3>4 DEF SetsMarker
  <2> QED
    BY <2>2, <2>3
<1>2. CASE AppliedStays
  <2>1. LastApplied(d) /\ Restorable(d) /\ call'[d].tweak = call[d].tweak
    BY <1>2, LastStays DEF AppliedStays, LastApplied, Applied
  <2>2. marker[call[d].tweak] = d \/ call[d].tweak \in lost
    BY <2>1 DEF MarkerUnlessLost
  <2>3. CASE UNCHANGED <<marker, lost>>
    BY <2>1, <2>2, <2>3
  <2>4. ASSUME NEW c \in Calls, RemoveMarkerMove(c)
        PROVE  marker'[call'[d].tweak] = d \/ call'[d].tweak \in lost'
    <3>1. /\ call[d].tweak \in Tweaks /\ d # None /\ d # Profile
      BY <2>1, CallsAssumption DEF LastApplied, Steps
    <3>2. /\ call[c].kind # "apply" => call[c].target = Profile \/ ~Restorable(call[c].target)
          /\ RemovesMarker(c)
      BY <2>4 DEF RemoveMarkerMove, Targets
    <3>3. call[c].kind = "restoreTweak" /\ call[c].tweak = call[d].tweak =>
            call[d].tweak \in lost
      <4>1. call[c].kind = "restoreTweak" => Holds(c)
        BY <2>4 DEF RemoveMarkerMove, Holds
      <4> QED
        BY <2>1, <3>1, <3>2, <4>1 DEF HolderKnows
    <3>4. ~(call[c].kind = "restore" /\ call[c].target = d)
      BY <2>1, <3>1, <3>2
    <3> QED
      BY <2>1, <2>2, <3>1, <3>2, <3>3, <3>4 DEF RemovesMarker
  <2> QED
    BY <1>1, <2>3, <2>4, FileStep
<1> QED
  BY <1>1, <1>2, AppliedStep

\* A marker that is offered can be used.
LEMMA RestorableStep ==
  ASSUME MarkerTypes, Steps, ApplyBackups, MarkersName, Targets,
         MarkerRestorable, MarkerMove
  PROVE  MarkerRestorable'
<1>1. ASSUME NEW c \in Calls, ApplyTweakMove(c) PROVE MarkerRestorable'
  BY <1>1 DEF ApplyTweakMove, IsNext, Starts, Only, MarkerRestorable, Restorable
<1>2. ASSUME NEW c \in Calls, ElevatedApplyMove(c) PROVE MarkerRestorable'
  BY <1>2
     DEF ElevatedApplyMove, Seals, Goes, Only, About, MarkerRestorable,
         Restorable, ApplyBackups, Steps, MarkersName, Named, Backups
<1>3. ASSUME NEW c \in Calls, NothingElevatedMove(c) PROVE MarkerRestorable'
  BY <1>3
     DEF NothingElevatedMove, Returns, Only, About, MarkerRestorable,
         Restorable
<1>4. ASSUME NEW c \in Calls, LeftAppliedMove(c) PROVE MarkerRestorable'
  BY <1>4
     DEF LeftAppliedMove, Seals, Returns, Only, About, MarkerRestorable,
         Restorable, ApplyBackups, Steps, MarkersName, Named, Backups
<1>5. ASSUME NEW c \in Calls, LoadMarkersMove(c) PROVE MarkerRestorable'
  BY <1>5 DEF LoadMarkersMove, Only, About, MarkerRestorable, Restorable
<1>6. ASSUME NEW c \in Calls, SetMarkerMove(c) PROVE MarkerRestorable'
  BY <1>6
     DEF SetMarkerMove, Returns, Only, About, MarkerRestorable, Restorable,
         Steps, MarkersName, Named, SetsMarker
<1>7. ASSUME NEW c \in Calls, NoMarkerMove(c) PROVE MarkerRestorable'
  BY <1>7
     DEF NoMarkerMove, Goes, Only, About, MarkerRestorable, Restorable, Steps
<1>8. ASSUME NEW c \in Calls, MarkerLeftMove(c) PROVE MarkerRestorable'
  <2> SUFFICES ASSUME NEW t \in Tweaks, marker[t] # None
               PROVE  (\/ Restorable(marker[t])
                       \/ t \in lost \cup excused
                       \/ \E d \in Calls : call[d].target = marker[t]
                                          /\ call[d].step \in {"load", "save"})'
    BY <1>8 DEF MarkerLeftMove, MarkerRestorable
  <2>1. CASE call[c].target = marker[t]
    BY <1>8, <2>1 DEF MarkerLeftMove, NamedBy
  <2>2. CASE call[c].target # marker[t]
    <3>1. \A d \in Calls : d # c => call'[d] = call[d]
      BY <1>8 DEF MarkerLeftMove, Returns, Only
    <3>2. /\ UNCHANGED <<backup, marker, lost>>
          /\ excused \subseteq excused'
      BY <1>8 DEF MarkerLeftMove
    <3> QED
      BY <2>2, <3>1, <3>2 DEF MarkerRestorable, Restorable
  <2> QED
    BY <2>1, <2>2
<1>9. ASSUME NEW c \in Calls, CompensateMove(c) PROVE MarkerRestorable'
  <2>1. /\ \A d \in Calls : d # c => call'[d] = call[d]
        /\ call'[c].kind = call[c].kind /\ call'[c].tweak = call[c].tweak
        /\ call'[c].target = call[c].target
        /\ call'[c].step = "returned" /\ call'[c].store = NoMarkers
        /\ call'[c].result # "ok"
    BY <1>9 DEF CompensateMove, Returns, Only, About
  <2>2. /\ call[c].step \in {"compensate", "alone"} /\ Restores(c)
        /\ UNCHANGED <<marker, lost, excused>>
    BY <1>9 DEF CompensateMove
  <2>3. \A t \in Tweaks : marker[t] # None => marker[t] \in Backups /\ marker[t] # c
    BY <2>2 DEF MarkersName, Named, Backups
  <2>4. \A b \in Backups : b # c => backup'[b] = backup[b]
    BY <2>2 DEF Restores
  <2> QED
    BY <2>1, <2>2, <2>3, <2>4 DEF MarkerRestorable, Restorable
<1>10. ASSUME NEW c \in Calls, NotCompensatedMove(c) PROVE MarkerRestorable'
  <2>1. /\ \A d \in Calls : d # c => call'[d] = call[d]
        /\ call'[c].kind = call[c].kind /\ call'[c].tweak = call[c].tweak
        /\ call'[c].target = call[c].target
        /\ call'[c].step = "returned" /\ call'[c].store = NoMarkers
    BY <1>10 DEF NotCompensatedMove, Returns, Only, About
  <2>2. call[c].step = "compensate" /\ UNCHANGED <<backup, marker, lost, excused>>
    BY <1>10 DEF NotCompensatedMove
  <2> QED
    BY <2>1, <2>2 DEF MarkerRestorable, Restorable
<1>11. ASSUME NEW c \in Calls, RestoreTweakMove(c) PROVE MarkerRestorable'
  BY <1>11 DEF RestoreTweakMove, IsNext, Starts, Only, MarkerRestorable, Restorable
<1>12. ASSUME NEW c \in Calls, RestoreMove(c) PROVE MarkerRestorable'
  BY <1>12 DEF RestoreMove, IsNext, Starts, Only, MarkerRestorable, Restorable
<1>13. ASSUME NEW c \in Calls, ProfileMove(c) PROVE MarkerRestorable'
  BY <1>13, CallsAssumption
     DEF ProfileMove, ProfileTried, Restores, Goes, Only, About,
         MarkerRestorable, Restorable, MarkersName, Named, Backups
<1>14. ASSUME NEW c \in Calls, LatestMove(c) PROVE MarkerRestorable'
  <2> SUFFICES ASSUME NEW t \in Tweaks, marker[t] # None
               PROVE  (\/ Restorable(marker[t])
                       \/ t \in lost \cup excused
                       \/ \E d \in Calls : call[d].target = marker[t]
                                          /\ call[d].step \in {"load", "save"})'
    BY <1>14 DEF LatestMove, MarkerRestorable
  <2>1. marker[t] \in Backups
    BY DEF MarkersName, Named, Backups
  <2>2. /\ UNCHANGED <<marker, lost>>
        /\ excused' = excused \cup NamedBy(call[c].target)
    BY <1>14 DEF LatestMove
  <2>3. CASE call[c].target = marker[t]
    BY <2>2, <2>3 DEF NamedBy
  <2>4. CASE call[c].target # marker[t]
    <3>1. backup'[marker[t]] = backup[marker[t]]
      BY <1>14, <2>1, <2>4 DEF LatestMove, TakenBack, Restores
    <3>2. \A d \in Calls : d # c => call'[d] = call[d]
      BY <1>14 DEF LatestMove, Returns, Only
    <3> QED
      BY <2>2, <2>4, <3>1, <3>2 DEF MarkerRestorable, Restorable
  <2> QED
    BY <2>3, <2>4
<1>15. ASSUME NEW c \in Calls, TweakMove(c) PROVE MarkerRestorable'
  <2> SUFFICES ASSUME NEW t \in Tweaks, marker[t] # None
               PROVE  (\/ Restorable(marker[t])
                       \/ t \in lost \cup excused
                       \/ \E d \in Calls : call[d].target = marker[t]
                                          /\ call[d].step \in {"load", "save"})'
    BY <1>15 DEF TweakMove, MarkerRestorable
  <2>1. marker[t] \in Backups
    BY DEF MarkersName, Named, Backups
  <2>2. UNCHANGED <<marker, lost, excused>>
    BY <1>15 DEF TweakMove
  <2>3. CASE call[c].target = marker[t]
    <3>1. call'[c].target = marker'[t] /\ call'[c].step = "load"
      BY <1>15, <2>2, <2>3 DEF TweakMove, Goes, About
    <3> QED
      BY <3>1
  <2>4. CASE call[c].target # marker[t]
    <3>1. backup'[marker[t]] = backup[marker[t]]
      BY <1>15, <2>1, <2>4 DEF TweakMove, TakenBack, Restores
    <3>2. \A d \in Calls : d # c => call'[d] = call[d]
      BY <1>15 DEF TweakMove, Goes, Only
    <3> QED
      BY <2>2, <2>4, <3>1, <3>2 DEF MarkerRestorable, Restorable
  <2> QED
    BY <2>3, <2>4
<1>16. ASSUME NEW c \in Calls, ProfileDoneMove(c) PROVE MarkerRestorable'
  BY <1>16
     DEF ProfileDoneMove, Goes, Only, About, MarkerRestorable, Restorable
<1>17. ASSUME NEW c \in Calls, RestoreReturnsMove(c) PROVE MarkerRestorable'
  BY <1>17
     DEF RestoreReturnsMove, Returns, Only, About, MarkerRestorable,
         Restorable
<1>18. ASSUME NEW c \in Calls, RemoveMarkerMove(c) PROVE MarkerRestorable'
  BY <1>18
     DEF RemoveMarkerMove, Returns, Only, About, MarkerRestorable, Restorable,
         Targets, MarkersName, Named, RemovesMarker
<1>19. CASE CrashMove
  BY <1>19 DEF CrashMove, About, MarkerRestorable, Restorable
<1>20. CASE UNCHANGED <<backup, markerVars, tweakMu, call>>
  BY <1>20 DEF markerVars, MarkerRestorable, Restorable
<1>21. ASSUME NEW c \in Calls, ProfileAloneMove(c) PROVE MarkerRestorable'
  <2>1. /\ \A d \in Calls : d # c => call'[d] = call[d]
        /\ call[c].step = "alone"
        /\ UNCHANGED <<marker, lost, excused>>
    BY <1>21 DEF ProfileAloneMove, ProfileTried, Returns, Only
  <2>2. \A b \in Backups : b # Profile => backup'[b] = backup[b]
    BY <1>21 DEF ProfileAloneMove, ProfileTried, Restores
  <2>3. \A t \in Tweaks : marker[t] # None => marker[t] \in Backups /\ marker[t] # Profile
    BY CallsAssumption DEF MarkersName, Named, Backups
  <2> QED
    BY <2>1, <2>2, <2>3 DEF MarkerRestorable, Restorable
<1> QED
  BY <1>1, <1>2, <1>3, <1>4, <1>5, <1>6, <1>7, <1>8, <1>9, <1>10, <1>11,
     <1>12, <1>13, <1>14, <1>15, <1>16, <1>17, <1>18, <1>19, <1>20, <1>21 DEF MarkerMove

\* At first there are no markers, and only the backup of the profile.
LEMMA MarkerInitially ==
  ASSUME Init
  PROVE  MarkerInv
<1> USE DEF Init
<1>1. NewCall.step = "unused" /\ NewCall.kind = "none" /\ NewCall.result = "none"
  BY DEF NewCall
<1>2. \A c \in Calls : call[c] = NewCall
  OBVIOUS
<1>3. \A c \in Calls : c # Profile /\ backup[c].status = "none"
  BY CallsAssumption DEF Backups
<1>4. backup[Profile].tweak = None
  BY DEF Backups
<1>5. MarkerTypes
  BY NoMarkersTyped, NewCallFacts DEF MarkerTypes, Journal
<1>6. Steps /\ Holders /\ Order /\ ApplyBackups /\ HolderKnows
  BY <1>1, <1>2, <1>3, <1>4 DEF Steps, Holders, Holds, Order, ApplyBackups, HolderKnows
<1>7. MarkersName /\ Targets
  BY <1>1, <1>2, NoMarkersTyped, NewCallFacts DEF MarkersName, Targets
<1>8. MarkerUnlessLost /\ MarkerRestorable
  BY <1>1, <1>2, <1>3, NoMarkersTyped DEF MarkerUnlessLost, LastApplied, MarkerRestorable, Restorable
<1> QED
  BY <1>5, <1>6, <1>7, <1>8 DEF MarkerInv

\* Together the parts are inductive.
THEOREM MarkerInductive == Spec => []MarkerInv
<1>1. Init => MarkerInv
  BY MarkerInitially
<1>2. MarkerInv /\ [Next]_vars => MarkerInv'
  <2> SUFFICES ASSUME MarkerInv, [Next]_vars PROVE MarkerInv'
    OBVIOUS
  <2>1. MarkerMove
    BY MarkerMoves
  <2>2. MarkerTypes' /\ Steps' /\ Holders'
    BY <2>1, MarkerTypesStep, StepsStep, HoldersStep DEF MarkerInv
  <2>3. Order' /\ ApplyBackups' /\ HolderKnows'
    BY <2>1, OrderStep, ApplyBackupsStep, HolderKnowsStep DEF MarkerInv
  <2>4. MarkersName' /\ Targets'
    BY <2>1, MarkersNameStep, TargetsStep DEF MarkerInv
  <2>5. MarkerUnlessLost' /\ MarkerRestorable'
    BY <2>1, UnlessLostStep, RestorableStep DEF MarkerInv
  <2> QED
    BY <2>2, <2>3, <2>4, <2>5 DEF MarkerInv
<1> QED
  BY <1>1, <1>2, PTL DEF Spec

\* A tweak that ApplyTweak applied has its marker (setTweakMarker), however
\* many calls run, unless the save of a Restore overlapped and undid it.
THEOREM MarkerNotForgotten == Spec => []MarkerUnlessLost
<1>1. MarkerInv => MarkerUnlessLost
  BY DEF MarkerInv
<1> QED
  BY <1>1, MarkerInductive, PTL

\* The backup that a marker names can be restored (RestoreTweak), but for the
\* excuses that the property lists.
THEOREM MarkerCanBeUsed == Spec => []MarkerRestorable
<1>1. MarkerInv => MarkerRestorable
  BY DEF MarkerInv
<1> QED
  BY <1>1, MarkerInductive, PTL

=============================================================================
