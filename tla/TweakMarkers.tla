---------------------------- MODULE TweakMarkers ----------------------------
(***************************************************************************)
(* ApplyTweak, RestoreTweak and Restore of the service, which runs without *)
(* rights: each lets an elevated child do the work on a sealed backup and  *)
(* then brings the markers of one-click rollbacks up to date, a file of    *)
(* the user that says which backup belongs to which tweak.  ApplyTweak and *)
(* RestoreTweak hold tweakMu; Restore does not.  The file is replaced as a *)
(* whole, by what was loaded before with one change.                       *)
(*                                                                         *)
(* What the child does is one step (module Transaction has the details);   *)
(* the restore of a profile goes on with what module KeptBackups keeps.    *)
(* Whether a tweak is on is not kept: other programs and rollbacks that    *)
(* fail half-way change it at any time, so any tweak may be applied.       *)
(***************************************************************************)
EXTENDS KeptBackups

CONSTANTS Tweaks,
          Calls,   \* the calls in the order they come, 1..n; also backup IDs
          Profile  \* the backup of a profile, outstanding from the start

ASSUME CallsAssumption == Calls \subseteq Nat /\ None \notin Calls \cup {Profile} /\ Profile \notin Calls
ASSUME TweaksAssumption == None \notin Tweaks

VARIABLES backup,    \* the journal of each backup: its tweak and its status
          marker,    \* tweak-backups.json
          tweakMu,   \* the call that holds it, or None
          call,      \* the calls: their kind, step and what they have read
          \* History:
          lost,      \* tweaks whose marker another call's save undid
          excused    \* tweaks whose marker outlived the restore of its backup

markerVars == <<marker, lost, excused>>
vars == <<keptVars, backup, markerVars, tweakMu, call>>

Backups == Calls \cup {Profile}
NoMarkers == [t \in Tweaks |-> None]
NewCall == [kind |-> "none", step |-> "unused", tweak |-> None, target |-> None,
            store |-> NoMarkers, result |-> "none"]

\* backupRestorable, of any status but that of a finished rollback.
Restorable(b) == backup[b].status = "applied"

\* What an elevated child does to the backups.
Seal(c) == backup' = [backup EXCEPT ![c] = [tweak |-> call[c].tweak, status |-> "applied"]]
TakeBack(b) == Restorable(b) /\ backup' = [backup EXCEPT ![b].status = "restored"]

\* The markers that name a backup.
NamedBy(b) == {t \in Tweaks : marker[t] = b}

Init == /\ KeptInit
        /\ backup = [b \in Backups |-> [tweak |-> None, status |->
                                          IF b = Profile THEN "applied" ELSE "none"]]
        /\ marker = NoMarkers
        /\ tweakMu = None
        /\ call = [c \in Calls |-> NewCall]
        /\ lost = {}
        /\ excused = {}

Turn(c) == /\ call[c].step = "unused"
           /\ \A d \in Calls : d < c => call[d].step # "unused"
           /\ Event

Goto(c, step) == call' = [call EXCEPT ![c].step = step]

\* The call returns; what it read is of no more use.
Returned(c, result) == [call EXCEPT ![c].step = "returned", ![c].result = result,
                                    ![c].store = NoMarkers]

Return(c, result) ==
  /\ call' = Returned(c, result)
  /\ tweakMu' = IF tweakMu = c THEN None ELSE tweakMu

\* What others have changed since the call loaded the file, and its save undoes.
Undone(c, saved) == {t \in Tweaks : marker[t] \notin {call[c].store[t], saved[t]}}

-----------------------------------------------------------------------------
(* ApplyTweak.                                                             *)

\* The plan says that the tweak is not on.
ApplyTweakUnlocked(c) ==
  /\ Turn(c)
  /\ \E t \in Tweaks :
       call' = [call EXCEPT ![c] = [NewCall EXCEPT !.kind = "apply", !.step = "elevate",
                                                   !.tweak = t]]
  /\ UNCHANGED <<keptState, backup, markerVars, tweakMu>>

ApplyTweak(c) ==
  /\ Turn(c)
  /\ tweakMu = None
  /\ \E t \in Tweaks :
       call' = [call EXCEPT ![c] = [NewCall EXCEPT !.kind = "apply", !.step = "elevate",
                                                   !.tweak = t]]
  /\ tweakMu' = c
  /\ UNCHANGED <<keptState, backup, markerVars>>

\* The child applies the tweak under the operation lock, with this backup.
ElevatedApply(c) ==
  /\ call[c].kind = "apply" /\ call[c].step = "elevate"
  /\ ~Busy
  /\ Seal(c)
  /\ Goto(c, "load")
  /\ UNCHANGED <<keptVars, markerVars, tweakMu>>

\* The prompt is refused, the lock is taken, or the child fails or dies.
\* What it has done by then stays: an apply that could not roll back leaves
\* its backup in the list, and a restore whose last save fails after the
\* file was replaced has taken the backup back.
ElevatedFails(c) ==
  /\ call[c].step = "elevate"
  /\ \/ UNCHANGED <<backup, excused>>
     \/ call[c].kind = "apply" /\ ~Busy /\ Seal(c) /\ UNCHANGED excused
     \/ /\ call[c].kind # "apply" /\ call[c].target # Profile /\ ~Busy
        /\ TakeBack(call[c].target)
        /\ excused' = excused \cup NamedBy(call[c].target)
  /\ Return(c, "error")
  /\ UNCHANGED <<keptVars, marker, lost>>

\* loadTweakMarkers, of setTweakMarker and the two removals.
LoadMarkers(c) ==
  /\ call[c].step = "load"
  /\ call' = [call EXCEPT ![c].store = marker, ![c].step = "save"]
  /\ UNCHANGED <<keptVars, backup, markerVars, tweakMu>>

\* setTweakMarker; meanwhile a Restore may have taken the tweak back.
SetMarker(c) ==
  /\ call[c].kind = "apply" /\ call[c].step = "save"
  /\ LET t == call[c].tweak
         saved == [call[c].store EXCEPT ![t] = c]
     IN /\ marker' = saved
        /\ lost' = (lost \cup Undone(c, saved)) \ {t}
        /\ excused' = IF Restorable(c) THEN excused \ {t} ELSE excused \cup {t}
  /\ Return(c, "ok")
  /\ UNCHANGED <<keptVars, backup>>

\* The file is damaged or cannot be replaced: ApplyTweak lets another child
\* take the tweak back, RestoreTweak reports it, Restore does not.
MarkersFail(c) ==
  /\ call[c].step \in {"load", "save"}
  /\ IF call[c].kind = "apply"
     THEN Goto(c, "compensate") /\ UNCHANGED <<excused, tweakMu>>
     ELSE /\ excused' = excused \cup NamedBy(call[c].target)
          /\ Return(c, "marker left")
  /\ UNCHANGED <<keptVars, backup, marker, lost>>

Compensate(c) ==
  /\ call[c].step = "compensate"
  /\ \/ /\ ~Busy /\ TakeBack(c)
        /\ \E result \in {"cancelled", "applied, no marker"} : Return(c, result)
     \/ Return(c, "applied, no marker") /\ UNCHANGED backup
  /\ UNCHANGED <<keptVars, markerVars>>

-----------------------------------------------------------------------------
(* RestoreTweak and Restore.                                               *)

\* The marker names the backup; without one there is no call to elevate.
RestoreTweak(c) ==
  /\ Turn(c)
  /\ tweakMu = None
  /\ \E t \in Tweaks :
       /\ marker[t] # None
       /\ call' = [call EXCEPT ![c] = [NewCall EXCEPT !.kind = "restoreTweak", !.tweak = t,
                                         !.step = "elevate", !.target = marker[t]]]
  /\ tweakMu' = c
  /\ UNCHANGED <<keptState, backup, markerVars>>

\* A backup chosen from the list, or the latest.
Restore(c) ==
  /\ Turn(c)
  /\ \E b \in Backups, kind \in {"restore", "restoreLatest"} :
       /\ Restorable(b)
       /\ kind = "restoreLatest" => \A other \in Calls : Restorable(other) =>
                                      b \in Calls /\ other <= b
       /\ call' = [call EXCEPT ![c] = [NewCall EXCEPT !.kind = kind, !.step = "elevate",
                                                      !.target = b]]
  /\ UNCHANGED <<keptState, backup, markerVars, tweakMu>>

\* restoreTweakBackup and restoreBackup: a backup is taken back.
ElevatedRestore(c) ==
  /\ call[c].kind \in {"restoreTweak", "restore", "restoreLatest"}
  /\ call[c].step = "elevate" /\ call[c].target # Profile
  /\ ~Busy
  /\ TakeBack(call[c].target)
  /\ IF call[c].kind = "restoreLatest"
     THEN Return(c, "ok") /\ excused' = excused \cup NamedBy(call[c].target)
     ELSE Goto(c, "load") /\ UNCHANGED <<excused, tweakMu>>
  /\ UNCHANGED <<keptVars, marker, lost>>

\* The child of a profile goes on with the services and startup entries,
\* whether its rollback failed or not.
TakeProfileBack ==
  /\ Restorable(Profile)
  /\ \E failed \in BOOLEAN : /\ TakeBack(Profile) \/ (failed /\ UNCHANGED backup)
                            /\ RestoreTail(failed)

RestoreProfile(c) ==
  /\ call[c].target = Profile /\ call[c].step = "elevate"
  /\ ~Busy
  /\ TakeProfileBack
  /\ Goto(c, "wait")
  /\ UNCHANGED <<services, startup, events, markerVars, tweakMu>>

\* The child ends, or has died.
RestoreReturns(c) ==
  /\ call[c].step = "wait"
  /\ ~Busy
  /\ IF work.restored /\ call[c].kind = "restore" THEN Goto(c, "load") /\ UNCHANGED tweakMu
     ELSE Return(c, IF work.restored THEN "ok" ELSE "error")
  /\ UNCHANGED <<keptVars, backup, markerVars>>

\* removeTweakMarker and removeTweakMarkerByBackup.
RemoveFromStale(c) ==
  /\ call[c].kind \in {"restoreTweak", "restore"} /\ call[c].step = "save"
  /\ LET removed == IF call[c].kind = "restoreTweak" THEN {call[c].tweak} ELSE {}
         saved == [t \in Tweaks |-> IF t \in removed THEN None ELSE call[c].store[t]]
     IN /\ marker' = saved
        /\ lost' = lost \cup Undone(c, saved)
        /\ excused' = excused \ removed
  /\ Return(c, "ok")
  /\ UNCHANGED <<keptVars, backup>>

RemoveMarker(c) ==
  /\ call[c].kind \in {"restoreTweak", "restore"} /\ call[c].step = "save"
  /\ LET removed == IF call[c].kind = "restoreTweak" THEN {call[c].tweak}
                    ELSE {t \in Tweaks : call[c].store[t] = call[c].target}
         saved == [t \in Tweaks |-> IF t \in removed THEN None ELSE call[c].store[t]]
     IN /\ marker' = saved
        /\ lost' = lost \cup Undone(c, saved)
        /\ excused' = excused \ removed
  /\ Return(c, "ok")
  /\ UNCHANGED <<keptVars, backup>>

-----------------------------------------------------------------------------

\* The sidecar dies: its calls are gone, and tweakMu with them.  An elevated
\* child that has begun goes on.
Crash ==
  /\ \E c \in Calls : call[c].step \notin {"unused", "returned", "alone"}
  /\ call' = [c \in Calls |->
       IF call[c].step \in {"unused", "returned", "alone"} THEN call[c]
       ELSE [call[c] EXCEPT !.step = IF @ \in {"elevate", "compensate"} THEN "alone"
                                     ELSE "returned",
                            !.result = "crash", !.store = NoMarkers]]
  /\ tweakMu' = None
  /\ excused' = excused \cup {t \in Tweaks : marker[t] # None /\ ~Restorable(marker[t])}
  /\ UNCHANGED <<keptVars, backup, marker, lost>>

\* The child without its sidecar may still do its work, at any time later,
\* and nobody brings the markers up to date.  One with a sealed backup of
\* its own is the one that takes it back.
ChildAlone(c) ==
  /\ call[c].step = "alone"
  /\ ~Busy
  /\ \/ call[c].kind = "apply" /\ backup[c].status = "none" /\ Seal(c) /\ UNCHANGED excused
     \/ call[c].kind = "apply" /\ TakeBack(c) /\ UNCHANGED excused
     \/ /\ call[c].kind # "apply" /\ call[c].target # Profile
        /\ TakeBack(call[c].target)
        /\ excused' = excused \cup NamedBy(call[c].target)
  /\ Return(c, "crash")
  /\ UNCHANGED <<keptVars, marker, lost>>

\* The same with the backup of the profile.
ProfileAlone(c) ==
  /\ call[c].target = Profile /\ call[c].step = "alone"
  /\ ~Busy
  /\ TakeProfileBack
  /\ Return(c, "crash")
  /\ UNCHANGED <<services, startup, events, markerVars>>

Next == \/ KeptStep /\ UNCHANGED <<backup, markerVars, tweakMu, call>>
        \/ \E c \in Calls : \/ ApplyTweak(c) \/ ElevatedApply(c) \/ ElevatedFails(c)
                            \/ LoadMarkers(c) \/ SetMarker(c) \/ MarkersFail(c)
                            \/ Compensate(c) \/ RestoreTweak(c) \/ Restore(c)
                            \/ ElevatedRestore(c) \/ RestoreProfile(c)
                            \/ RestoreReturns(c) \/ RemoveMarker(c)
                            \/ ChildAlone(c) \/ ProfileAlone(c)
        \/ Crash

Spec == Init /\ [][Next]_vars

-----------------------------------------------------------------------------

\* The last apply of a tweak that returned with success.
LastApplied(c) ==
  /\ call[c].kind = "apply" /\ call[c].result = "ok"
  /\ \A d \in Calls : d > c => ~( /\ call[d].kind = "apply" /\ call[d].result = "ok"
                                 /\ call[d].tweak = call[c].tweak )

\* A tweak whose last apply returned with success, and was not taken back,
\* has its one-click rollback, unless the save of a Restore, which does not
\* take tweakMu, replaced the file by what it had loaded before.
MarkerUnlessLost ==
  \A c \in Calls : LastApplied(c) /\ Restorable(c) =>
    marker[call[c].tweak] = c \/ call[c].tweak \in lost

\* A one-click rollback that is offered can be done: its backup is not
\* restored yet, unless the call that restored it is about to remove the
\* marker, could not, reported an error or died after its child had taken
\* the backup back, was a restore of the latest backup, which never removes
\* it, or came before the apply had set it, or a lost update has brought the
\* marker back.
MarkerRestorable ==
  \A t \in Tweaks : marker[t] # None =>
    \/ Restorable(marker[t])
    \/ t \in lost \cup excused
    \/ \E c \in Calls : call[c].target = marker[t] /\ call[c].step \in {"load", "save"}

=============================================================================
