---------------------------- MODULE KeptBackups ----------------------------
(***************************************************************************)
(* The backups that the service and startup toggles keep in the registry   *)
(* until the toggle is undone: the start type of a service in HKLM, the    *)
(* command of a startup entry in HKCU.  Every operation runs under the     *)
(* operation lock (module Sessions), so that one `work' describes it, but  *)
(* other programs change services and startup entries meanwhile, every     *)
(* registry call may fail and the process may die after each of them.      *)
(*                                                                         *)
(* The restore of a profile ends with both: each startup entry, then each  *)
(* service, is put back; a failure is noted and the next one is tried.     *)
(***************************************************************************)
EXTENDS Naturals

CONSTANTS Services,
          Critical,    \* services the program refuses to disable
          StartTypes,  \* the start types (with the delayed flag) but Disabled
          Manual,      \* SERVICE_DEMAND_START
          Disabled,
          Names,       \* the startup entries
          Commands,    \* what a startup entry may run
          None,
          MaxEvents    \* bound: operations and changes by other programs

ASSUME ServicesAssumption == Critical \subseteq Services
ASSUME TypesAssumption == /\ Manual \in StartTypes
                          /\ Disabled \notin StartTypes
                          /\ None \notin StartTypes \cup Commands
ASSUME EventsAssumption == MaxEvents \in Nat

VARIABLES config,  \* the start type of each service
          kept,    \* ServiceBackups in HKLM
          run,     \* HKCU Run
          parked,  \* StartupDisabled in HKCU
          work,    \* the operation that holds the lock, and where it is
          events,  \* operations and changes by other programs so far
          \* History:
          disabledFrom, \* what the program disabled each service from
          overtaken,    \* services changed by others while a backup was kept
          latest,       \* the last command anybody else put under a name
          overwritten   \* names changed between a last look and the write

keptHistory == <<disabledFrom, overtaken, latest, overwritten>>
services == <<config, kept, disabledFrom, overtaken>>
startup == <<run, parked, latest, overwritten>>
keptState == <<config, kept, run, parked, work, keptHistory>>
keptVars == <<keptState, events>>

Idle == [step |-> "idle", item |-> None, value |-> None, enable |-> FALSE,
         restoring |-> FALSE, names |-> {}, services |-> {}, failed |-> FALSE,
         sameUser |-> TRUE, restored |-> FALSE]

Busy == work.step # "idle"

KeptInit == /\ config \in [Services -> StartTypes \cup {Disabled}]
            /\ kept = [s \in Services |-> None]
            /\ run \in [Names -> Commands]
            /\ parked = [n \in Names |-> None]
            /\ work = Idle
            /\ events = 0
            /\ disabledFrom = [s \in Services |-> None]
            /\ overtaken = {}
            /\ latest = run
            /\ overwritten = {}

\* An operation ends; the restore goes on with the next entry.
EndItem(failed) ==
  work' = IF work.restoring THEN [work EXCEPT !.step = "restore", !.failed = @ \/ failed]
          ELSE Idle

At(step) == work.step = step

Event == events < MaxEvents /\ events' = events + 1

Begin == ~Busy /\ Event

-----------------------------------------------------------------------------
(* setServiceEnabled.                                                      *)

\* The start type is read once; disabling what is disabled does nothing.
DisableService(s) ==
  /\ Begin
  /\ s \notin Critical /\ config[s] # Disabled
  /\ work' = [Idle EXCEPT !.step = "save", !.item = s, !.value = config[s]]
  /\ UNCHANGED <<services, startup>>

\* saveServiceBackup keeps a backup that is there.
SaveNothing ==
  /\ At("save")
  /\ work' = [work EXCEPT !.step = "write", !.value = Disabled]
  /\ UNCHANGED <<services, startup, events>>

SaveService ==
  /\ At("save")
  /\ kept' = [kept EXCEPT ![work.item] = IF @ = None THEN work.value ELSE @]
  /\ work' = [work EXCEPT !.step = "write", !.value = Disabled]
  /\ UNCHANGED <<config, disabledFrom, overtaken, startup, events>>

\* The type before the program disabled it, or Manual without a backup.
EnableService(s) ==
  /\ Begin
  /\ config[s] = Disabled
  /\ work' = [Idle EXCEPT !.step = "write", !.item = s, !.enable = TRUE,
                          !.value = IF kept[s] = None THEN Manual ELSE kept[s]]
  /\ UNCHANGED <<services, startup>>

\* UpdateConfig.
WriteService ==
  /\ At("write")
  /\ LET s == work.item
     IN /\ config' = [config EXCEPT ![s] = work.value]
        /\ disabledFrom' = [disabledFrom EXCEPT ![s] =
             IF work.value # Disabled THEN None ELSE IF config[s] = Disabled THEN @
             ELSE config[s]]
  /\ work' = [work EXCEPT !.step = "check"]
  /\ UNCHANGED <<kept, overtaken, startup, events>>

\* The read-back; only what was enabled loses its backup.
CheckService ==
  /\ At("check")
  /\ IF config[work.item] = work.value /\ work.enable
     THEN work' = [work EXCEPT !.step = "drop"]
     ELSE EndItem(config[work.item] # work.value)
  /\ UNCHANGED <<services, startup, events>>

\* deleteServiceBackup.
DropBackup ==
  /\ At("drop")
  /\ kept' = [kept EXCEPT ![work.item] = None]
  /\ overtaken' = overtaken \ {work.item}
  /\ EndItem(FALSE)
  /\ UNCHANGED <<config, disabledFrom, startup, events>>

-----------------------------------------------------------------------------
(* disableStartup and enableStartup.                                       *)

\* With a backup and no entry the entry is disabled already; with an entry
\* and another backup the toggle is refused.
DisableStartup(n) ==
  /\ Begin
  /\ run[n] # None
  /\ parked[n] \in {None, run[n]}
  /\ work' = [Idle EXCEPT !.step = "park", !.item = n, !.value = run[n]]
  /\ UNCHANGED <<services, startup>>

ParkCommand ==
  /\ At("park")
  /\ parked' = [parked EXCEPT ![work.item] = work.value]
  /\ work' = [work EXCEPT !.step = "recheck"]
  /\ UNCHANGED <<services, run, latest, overwritten, events>>

\* The entry must still be what was put into the backup.
RecheckNothing ==
  /\ At("recheck")
  /\ work' = [work EXCEPT !.step = "remove"]
  /\ UNCHANGED <<services, startup, events>>

RecheckCommand ==
  /\ At("recheck")
  /\ IF run[work.item] = work.value
     THEN work' = [work EXCEPT !.step = "remove"]
     ELSE EndItem(TRUE)
  /\ UNCHANGED <<services, startup, events>>

RemoveCommand ==
  /\ At("remove")
  /\ run' = [run EXCEPT ![work.item] = None]
  /\ EndItem(FALSE)
  /\ UNCHANGED <<services, parked, latest, overwritten, events>>

\* The look at Run: what is there already only loses its backup, another
\* command is left alone and the backup with it.
LookAtRun(w) ==
  work' = CASE run[w.item] = None    -> [w EXCEPT !.step = "put"]
            [] run[w.item] = w.value -> [w EXCEPT !.step = "unpark"]
            [] OTHER -> IF w.restoring THEN [w EXCEPT !.step = "restore", !.failed = TRUE]
                        ELSE Idle

EnableStartup(n) ==
  /\ Begin
  /\ parked[n] # None
  /\ LookAtRun([Idle EXCEPT !.item = n, !.value = parked[n]])
  /\ UNCHANGED <<services, startup>>

PutCommand ==
  /\ At("put")
  /\ run' = [run EXCEPT ![work.item] = work.value]
  /\ work' = [work EXCEPT !.step = "unpark"]
  /\ UNCHANGED <<services, parked, latest, overwritten, events>>

\* The read-back and the end of the backup.
UnparkCommand ==
  /\ At("unpark")
  /\ IF run[work.item] = work.value
     THEN parked' = [parked EXCEPT ![work.item] = None] /\ EndItem(FALSE)
     ELSE UNCHANGED parked /\ EndItem(TRUE)
  /\ UNCHANGED <<services, run, latest, overwritten, events>>

-----------------------------------------------------------------------------
(* restoreStartupBackups and restoreServiceBackups, after the rollback.    *)

\* HKCU is that of the account the process was elevated to.  A rollback that
\* failed before does not keep it from trying.
RestoreTail(rollbackFailed) ==
  \E same \in BOOLEAN :
    work' = [Idle EXCEPT !.step = "restore", !.restoring = TRUE, !.sameUser = same,
                         !.failed = rollbackFailed,
                         !.names = IF same THEN {n \in Names : parked[n] # None} ELSE {},
                         !.services = {s \in Services : kept[s] # None}]

RestoreStartup ==
  /\ At("restore")
  /\ \E n \in work.names :
       LookAtRun([work EXCEPT !.item = n, !.value = parked[n], !.names = @ \ {n}])
  /\ UNCHANGED <<services, startup, events>>

\* Unlike EnableService it does not ask how the service is set now.
RestoreService ==
  /\ At("restore") /\ work.names = {}
  /\ \E s \in work.services :
       work' = [work EXCEPT !.step = "write", !.item = s, !.value = kept[s],
                            !.enable = TRUE, !.services = @ \ {s}]
  /\ UNCHANGED <<services, startup, events>>

\* errors.Join of what was noted.
RestoreEnds ==
  /\ At("restore") /\ work.names = {} /\ work.services = {}
  /\ work' = [Idle EXCEPT !.restored = ~work.failed, !.sameUser = work.sameUser]
  /\ UNCHANGED <<services, startup, events>>

-----------------------------------------------------------------------------
(* Failures and other programs.                                            *)

CallFailsUnnoticed ==
  /\ work.step \notin {"idle", "restore"}
  /\ EndItem(FALSE)
  /\ UNCHANGED <<services, startup, events>>

\* The registry or the service manager refuses, or cannot be read.
CallFails ==
  /\ work.step \notin {"idle", "restore"}
  /\ EndItem(TRUE)
  /\ UNCHANGED <<services, startup, events>>

\* The process dies, and with it the lock.
Die ==
  /\ Busy
  /\ work' = Idle
  /\ UNCHANGED <<services, startup, events>>

\* services.msc, an installer.
OtherService(s) ==
  /\ Event
  /\ \E type \in StartTypes \cup {Disabled} : config' = [config EXCEPT ![s] = type]
  /\ disabledFrom' = [disabledFrom EXCEPT ![s] = None]
  /\ overtaken' = overtaken \cup (IF kept[s] # None \/ work.item = s THEN {s} ELSE {})
  /\ UNCHANGED <<kept, startup, work>>

\* An installer, the program the entry belongs to, the user.
OtherStartup(n) ==
  /\ Event
  /\ \E command \in Commands \cup {None} :
       /\ run' = [run EXCEPT ![n] = command]
       /\ latest' = [latest EXCEPT ![n] = command]
  /\ overwritten' = IF work.item = n /\ work.step \in {"remove", "put"}
                    THEN overwritten \cup {n} ELSE overwritten \ {n}
  /\ UNCHANGED <<services, parked, work>>

Toggle == \/ \E s \in Services : DisableService(s) \/ EnableService(s)
          \/ \E n \in Names : DisableStartup(n) \/ EnableStartup(n)

KeptStep == \/ Toggle
            \/ SaveService \/ WriteService \/ CheckService \/ DropBackup
            \/ ParkCommand \/ RecheckCommand \/ RemoveCommand
            \/ PutCommand \/ UnparkCommand
            \/ RestoreStartup \/ RestoreService \/ RestoreEnds
            \/ CallFails \/ Die
            \/ (\E s \in Services : OtherService(s)) \/ (\E n \in Names : OtherStartup(n))

-----------------------------------------------------------------------------

\* As long as a service is disabled by the program, its backup says what it
\* was, whatever failed or died on the way; only a change by another program
\* while a backup was kept makes it say something older.
OriginalUnlessOvertaken ==
  \A s \in Services : disabledFrom[s] # None =>
    /\ kept[s] # None
    /\ kept[s] = disabledFrom[s] \/ s \in overtaken

\* A startup command is never lost: it is in Run, or in the backup, unless
\* its owner changed it between the program's last look and its write.
CommandKept ==
  \A n \in Names : latest[n] # None =>
    latest[n] \in {run[n], parked[n]} \/ n \in overwritten

\* A restore that reports success has left no backup behind, except those of
\* a user whose registry the elevated process does not see.
RestoreComplete ==
  work.restored => /\ \A s \in Services : kept[s] = None
                   /\ work.sameUser => \A n \in Names : parked[n] = None

=============================================================================
