------------------------------ MODULE Updater ------------------------------
(***************************************************************************)
(* The program replaces its own executable by the latest release.  Any     *)
(* number of processes run from the file, and each may update it: it asks  *)
(* for the latest release, takes a lock between processes, downloads next  *)
(* to the executable, checks size and SHA-256, and installs.  On Linux the *)
(* new file is renamed over the old one.  On Windows a script is started   *)
(* that outlives the process and its lock: when the process has ended it   *)
(* moves the executable away, the new one in, and deletes the old one,     *)
(* which Windows refuses while a process still runs from it.               *)
(***************************************************************************)
EXTENDS Integers, FiniteSets, Sequences

CONSTANTS Processes,  \* each runs once
          Releases,   \* versions: [major, minor, patch, prerelease]
          Channel,    \* [major, minor] of the releases that are installed
          First,      \* the version that is installed at first
          Original,   \* and its file
          Absent

ASSUME ReleasesAssumption == First \in Releases
ASSUME FilesAssumption == /\ Absent \notin Processes
                          /\ Original \notin Processes \cup {Absent}
ASSUME ChannelAssumption == First.major = Channel.major /\ First.minor = Channel.minor

VARIABLES windows,  \* whether it is the Windows build
          latest,   \* the release that GitHub calls the latest
          current,  \* the file under the executable's name, or Absent
          aside,    \* the file that the script of a process has moved away
          pending,  \* whether the file a process downloads is next to it
          version,  \* what each file is: the first one, and one per process
          lock,     \* the process that holds the update lock, or Absent
          process,  \* of each process its step, and the file it was started from
          script    \* the step of the script each process has started

updaterVars == <<windows, latest, current, aside, pending, version, lock, process, script>>
disk == <<current, aside, pending>>

Files == Processes \cup {Original}

\* compareVersion > 0.
Newer(v, w) ==
  \/ v.major > w.major
  \/ v.major = w.major /\ v.minor > w.minor
  \/ v.major = w.major /\ v.minor = w.minor /\ v.patch > w.patch
  \/ /\ v.major = w.major /\ v.minor = w.minor /\ v.patch = w.patch
     /\ ~v.prerelease /\ w.prerelease

UpdaterInit ==
  /\ windows \in BOOLEAN
  /\ latest \in Releases
  /\ current = Original
  /\ aside = [p \in Processes |-> Absent]
  /\ pending = [p \in Processes |-> FALSE]
  /\ version = [f \in Files |-> First]
  /\ lock = Absent
  /\ process = [p \in Processes |-> [step |-> "unused", from |-> Absent]]
  /\ script = [p \in Processes |-> "none"]

At(p, step) == process[p].step = step

Goto(p, step) == process' = [process EXCEPT ![p].step = step]

Unlock(p) == lock' = IF lock = p THEN Absent ELSE lock

InUse(f) == \E p \in Processes : process[p].from = f /\ ~At(p, "ended")

-----------------------------------------------------------------------------
(* The process.                                                            *)

StartProcess(p) ==
  /\ At(p, "unused")
  /\ current # Absent
  /\ process' = [process EXCEPT ![p] = [step |-> "running", from |-> current]]
  /\ UNCHANGED <<windows, latest, disk, version, lock, script>>

CheckForUpdateAny(p) ==
  /\ At(p, "running")
  /\ latest.major = Channel.major /\ latest.minor = Channel.minor
  /\ version' = [version EXCEPT ![p] = latest]
  /\ Goto(p, "found")
  /\ UNCHANGED <<windows, latest, disk, lock, script>>

\* A release of the channel that is newer than the process itself.
CheckForUpdate(p) ==
  /\ At(p, "running")
  /\ latest.major = Channel.major /\ latest.minor = Channel.minor
  /\ Newer(latest, version[process[p].from])
  /\ version' = [version EXCEPT ![p] = latest]
  /\ Goto(p, "found")
  /\ UNCHANGED <<windows, latest, disk, lock, script>>

\* acquireUpdateLock; nobody waits for it.
InstallRelease(p) ==
  /\ At(p, "found")
  /\ lock = Absent
  /\ lock' = p
  /\ Goto(p, "download")
  /\ UNCHANGED <<windows, latest, disk, version, script>>

\* The file is complete when it has the size and the hash of its release;
\* the file of a download that failed is removed.
Download(p) ==
  /\ At(p, "download")
  /\ pending' = [pending EXCEPT ![p] = TRUE]
  /\ Goto(p, "install")
  /\ UNCHANGED <<windows, latest, current, aside, version, lock, script>>

DownloadFails(p) ==
  /\ process[p].step \in {"found", "download", "install"}
  /\ pending' = [pending EXCEPT ![p] = FALSE]
  /\ Unlock(p)
  /\ Goto(p, "checked")
  /\ UNCHANGED <<windows, latest, current, aside, version, script>>

\* installDownloadedUpdate: a rename, or the start of the script.
Install(p) ==
  /\ At(p, "install")
  /\ IF windows
     THEN /\ script' = [script EXCEPT ![p] = "wait"]
          /\ UNCHANGED <<current, pending>>
     ELSE /\ current' = p
          /\ pending' = [pending EXCEPT ![p] = FALSE]
          /\ UNCHANGED script
  /\ Unlock(p)
  /\ Goto(p, "checked")
  /\ UNCHANGED <<windows, latest, aside, version>>

\* The process ends, or dies and leaves what it has downloaded.
Exit(p) ==
  /\ process[p].step \notin {"unused", "ended"}
  /\ Goto(p, "ended")
  /\ Unlock(p)
  /\ UNCHANGED <<windows, latest, disk, version, script>>

-----------------------------------------------------------------------------
(* The script: each of its file operations is a step, which may fail for   *)
(* any reason.  The script ends at the first one that fails, unless the    *)
(* handler takes over.                                                     *)

Script(p, from, to) == script[p] = from /\ script' = [script EXCEPT ![p] = to]

\* It gives up after 12 hours.
WaitEnds(p) ==
  /\ \/ Script(p, "wait", "move away") /\ At(p, "ended")
     \/ Script(p, "wait", "ended")
  /\ UNCHANGED <<windows, latest, disk, version, lock, process>>

MoveAway(p) ==
  /\ \/ Script(p, "move away", "ended") /\ UNCHANGED <<current, aside>>
     \/ /\ Script(p, "move away", "move in")
        /\ current # Absent
        /\ aside' = [aside EXCEPT ![p] = current]
        /\ current' = Absent
  /\ UNCHANGED <<windows, latest, pending, version, lock, process>>

\* A move does not replace a file.
MoveIn(p) ==
  /\ \/ Script(p, "move in", "look") /\ UNCHANGED <<current, pending>>
     \/ /\ Script(p, "move in", "delete old")
        /\ current = Absent /\ pending[p]
        /\ current' = p
        /\ pending' = [pending EXCEPT ![p] = FALSE]
  /\ UNCHANGED <<windows, latest, aside, version, lock, process>>

DeleteOld(p) ==
  /\ \/ Script(p, "delete old", "look") /\ UNCHANGED aside
     \/ /\ Script(p, "delete old", "ended")
        /\ ~InUse(aside[p])
        /\ aside' = [aside EXCEPT ![p] = Absent]
  /\ UNCHANGED <<windows, latest, current, pending, version, lock, process>>

\* The handler: what is under the name is deleted, the old file moved back.
Look(p) ==
  /\ Script(p, "look", IF current = Absent THEN "move back" ELSE "delete new")
  /\ UNCHANGED <<windows, latest, disk, version, lock, process>>

\* A file that is gone already is deleted without an error.
DeleteNew(p) ==
  /\ \/ current # Absent /\ Script(p, "delete new", "ended") /\ UNCHANGED current
     \/ /\ Script(p, "delete new", "move back")
        /\ current # Absent => ~InUse(current)
        /\ current' = Absent
  /\ UNCHANGED <<windows, latest, aside, pending, version, lock, process>>

MoveBackNever(p) ==
  /\ Script(p, "move back", "ended")
  /\ UNCHANGED <<windows, latest, disk, version, lock, process>>

\* A script that cannot move the old file back, although the name is free,
\* ends stuck.
MoveBack(p) ==
  /\ \/ /\ Script(p, "move back", "ended")
        /\ current = Absent
        /\ current' = aside[p]
        /\ aside' = [aside EXCEPT ![p] = Absent]
     \/ /\ Script(p, "move back", IF current = Absent THEN "stuck" ELSE "ended")
        /\ UNCHANGED <<current, aside>>
  /\ UNCHANGED <<windows, latest, pending, version, lock, process>>

\* The computer is switched off, or the script is killed.
ScriptDies(p) ==
  /\ script[p] \notin {"none", "ended", "stuck", "died"}
  /\ script' = [script EXCEPT ![p] = IF script[p] = "wait" THEN "ended" ELSE "died"]
  /\ UNCHANGED <<windows, latest, disk, version, lock, process>>

\* A release is published, or withdrawn.
Publish == /\ latest' \in Releases
           /\ UNCHANGED <<windows, disk, version, lock, process, script>>

UpdaterNext ==
  \/ \E p \in Processes :
       \/ StartProcess(p) \/ CheckForUpdate(p) \/ InstallRelease(p) \/ Download(p)
       \/ DownloadFails(p) \/ Install(p) \/ Exit(p)
       \/ WaitEnds(p) \/ MoveAway(p) \/ MoveIn(p) \/ DeleteOld(p)
       \/ Look(p) \/ DeleteNew(p) \/ MoveBack(p) \/ ScriptDies(p)
  \/ Publish

UpdaterSpec == UpdaterInit /\ [][UpdaterNext]_updaterVars

-----------------------------------------------------------------------------

\* However the scripts of several processes and their handlers interleave, and
\* whichever of their moves and deletions fail, there is an executable, unless
\* a script is at work, has died at it, or could not move the old file back.
ExecutablePresent ==
  current = Absent =>
    \E p \in Processes : script[p] \in {"move in", "look", "delete new", "move back",
                                        "stuck", "died"}

\* An update replaces the executable by a newer one, unless another update
\* has replaced the file that its process was started from.
OnlyNewer ==
  [][\A p \in Processes :
       current' = p /\ current # p =>
         LET replaced == IF windows THEN aside[p] ELSE current
         IN replaced = process[p].from => Newer(version[p], version[replaced])]_updaterVars

=============================================================================
