------------------------- MODULE BackgroundAdvisor -------------------------
(***************************************************************************)
(* The background advisor on Windows (collectBackgroundReport): two        *)
(* snapshots of all processes, the startup entries, the services, the      *)
(* paths of the busiest processes, and from all that an advice for each.   *)
(* Meanwhile processes end and others start with the same PID.  A process  *)
(* is known by its PID and the time it was created; a service only by the  *)
(* PID of its process.                                                     *)
(***************************************************************************)
EXTENDS Naturals, FiniteSets

CONSTANTS Pids,
          Services,
          ProtectedServices,  \* critical, of the system, or not manageable
          Images,
          StartupImages,      \* with an entry in the user's own Run key
          MaxProcesses,       \* 64
          MaxLinks,           \* 8
          Busy,               \* the CPU time from which the impact is not low
          MaxCreated, MaxCpu, \* bounds: processes, and the CPU time of each
          None

ASSUME PidsAssumption == Pids \subseteq Nat
ASSUME ServiceAssumption == ProtectedServices \subseteq Services /\ Services \subseteq Nat
ASSUME ImagesAssumption == StartupImages \subseteq Images
ASSUME NoneAssumption == /\ None \notin [created : Nat, image : Images, cpu : Nat]
                         /\ None \notin Pids \X Nat
ASSUME AdvisorBounds == {MaxProcesses, MaxLinks, Busy, MaxCreated, MaxCpu} \subseteq Nat

VARIABLES alive,    \* the process of each PID, or None
          created,  \* the last time a process was created
          host,     \* the process each service runs in, or None
          phase,    \* where the report is
          before,   \* the first snapshot
          items,    \* the processes of the report
          listed,   \* the services with the PID of their process
          hostThen  \* history: the hosts of those, as they were then

advisorVars == <<alive, created, host, phase, before, items, listed, hostThen>>
processes == <<alive, created, host>>

NoHosts == [s \in Services |-> None]

AdvisorInit == /\ alive \in [Pids -> {[created |-> 0, image |-> i, cpu |-> 0] : i \in Images}
                                     \cup {None}]
               /\ created = 0
               /\ host = NoHosts
               /\ phase = "before"
               /\ before = alive
               /\ items = {}
               /\ listed = {}
               /\ hostThen = NoHosts

-----------------------------------------------------------------------------
(* Other processes.                                                        *)

\* A process and its incarnation.
Id(pid) == <<pid, alive[pid].created>>

Collecting == phase \in {"startup", "services", "paths"}

StartProcess(pid) ==
  /\ Collecting \/ phase = "after"
  /\ alive[pid] = None
  /\ created < MaxCreated
  /\ created' = created + 1
  /\ \E i \in Images : alive' = [alive EXCEPT ![pid] =
                                   [created |-> created + 1, image |-> i, cpu |-> 0]]
  /\ UNCHANGED <<host, phase, before, items, listed, hostThen>>

EndProcess(pid) ==
  /\ Collecting \/ phase = "after"
  /\ alive[pid] # None
  /\ alive' = [alive EXCEPT ![pid] = None]
  /\ host' = [s \in Services |-> IF host[s] = Id(pid) THEN None ELSE host[s]]
  /\ UNCHANGED <<created, phase, before, items, listed, hostThen>>

Work(pid) ==
  /\ phase = "after"
  /\ alive[pid] # None
  /\ alive[pid].cpu < MaxCpu
  /\ alive' = [alive EXCEPT ![pid].cpu = @ + 1]
  /\ UNCHANGED <<created, host, phase, before, items, listed, hostThen>>

StartService(s) ==
  /\ phase \in {"after", "services"}
  /\ host[s] = None
  /\ \E pid \in Pids : alive[pid] # None /\ host' = [host EXCEPT ![s] = Id(pid)]
  /\ UNCHANGED <<alive, created, phase, before, items, listed, hostThen>>

-----------------------------------------------------------------------------
(* The report.                                                             *)

FirstSnapshot ==
  /\ phase = "before"
  /\ before' = alive
  /\ phase' = "after"
  /\ UNCHANGED <<processes, items, listed, hostThen>>

\* compareBackgroundSnapshots: only what is the same process in both, the
\* busiest of them.
Measured ==
  {[pid |-> p, created |-> alive[p].created, cpu |-> alive[p].cpu - before[p].cpu,
    image |-> None, services |-> {}, advice |-> "observe"] :
     p \in {q \in Pids : /\ alive[q] # None /\ before[q] # None
                         /\ before[q].created = alive[q].created}}

Busier(item, other) == \/ item.cpu > other.cpu
                       \/ item.cpu = other.cpu /\ item.pid < other.pid

SecondSnapshot ==
  /\ phase = "after"
  /\ items' = {item \in Measured :
                 Cardinality({other \in Measured : Busier(other, item)}) < MaxProcesses}
  /\ phase' = "startup"
  /\ UNCHANGED <<processes, before, listed, hostThen>>

\* listStartupEntries; its entries do not change here.
ListStartup ==
  /\ phase = "startup"
  /\ phase' = "services"
  /\ UNCHANGED <<processes, before, items, listed, hostThen>>

\* Services that cannot be opened are left out without a word; if there is
\* no list at all the report says so, and goes on without.
ListServices ==
  /\ phase = "services"
  /\ \E read \in SUBSET {s \in Services : host[s] # None} :
       /\ listed' = {<<s, host[s][1]>> : s \in read}
       /\ hostThen' = [s \in Services |-> IF s \in read THEN host[s] ELSE None]
  /\ phase' = "paths"
  /\ UNCHANGED <<processes, before, items>>

ExecutablePathOfAny(item) ==
  IF alive[item.pid] # None THEN alive[item.pid].image ELSE None

\* backgroundExecutablePath: the process with that PID must still be the one
\* that was measured.
ExecutablePath(item) ==
  IF alive[item.pid] # None /\ alive[item.pid].created = item.created
  THEN alive[item.pid].image ELSE None

FindPaths ==
  /\ phase = "paths"
  /\ items' = {[item EXCEPT !.image = ExecutablePath(item)] : item \in items}
  /\ phase' = "decorate"
  /\ UNCHANGED <<processes, before, listed, hostThen>>

\* backgroundAdvice, from all the links of a process.
Advice(item, links) ==
  CASE links \cap ProtectedServices # {}  -> "protected_service"
    [] OTHER -> IF item.cpu < Busy THEN "observe"
                ELSE IF item.image \in StartupImages THEN "review_startup"
                ELSE IF links # {} /\ item.image # None THEN "review_service"
                ELSE "observe"

\* The first links by name.
Shown(links) == {s \in links : Cardinality({t \in links : t < s}) < MaxLinks}

\* decorateBackgroundProcesses: the advice first, the cut of the links after.
Decorate ==
  /\ phase = "decorate"
  /\ items' = {LET links == {s \in Services : <<s, item.pid>> \in listed}
               IN [item EXCEPT !.advice = Advice(item, links), !.services = Shown(links)] :
                 item \in items}
  /\ phase' = "done"
  /\ UNCHANGED <<processes, before, listed, hostThen>>

AdvisorNext == \/ FirstSnapshot \/ SecondSnapshot \/ ListStartup \/ ListServices
               \/ FindPaths \/ Decorate
               \/ \E p \in Pids : StartProcess(p) \/ EndProcess(p) \/ Work(p)
               \/ \E s \in Services : StartService(s)

-----------------------------------------------------------------------------

\* Whatever PIDs are reused, an advice to act is about the very process that
\* was measured: when the services were listed it was the one that runs a
\* service, where that is the advice, and it ran none that is protected,
\* even one that the report does not show; as far as they could be listed.
AdviceSafe ==
  phase = "done" =>
    \A item \in items :
      LET own == {s \in Services : hostThen[s] = <<item.pid, item.created>>}
      IN /\ item.advice \in {"review_startup", "review_service"} =>
              own \cap ProtectedServices = {}
         /\ item.advice = "review_service" => own # {}

=============================================================================
