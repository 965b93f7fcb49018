---------------------------- MODULE StorageScan ----------------------------
(***************************************************************************)
(* The storage analyzer of the service: scans that run in a goroutine of   *)
(* their own, the one scan that status, cancellation and deletion may      *)
(* name, the lock that admits one heavy diagnostic at a time, the cache of *)
(* completed reports, and the deletion of a reviewed node in two calls.    *)
(*                                                                         *)
(* Every call of the interface is a goroutine too.  A step is what happens *)
(* between two points at which another call may come in: the critical      *)
(* sections of scanMu, of a job's mutex, and the reads of the file system. *)
(* What module StorageTree says of a walk is here one step per directory.  *)
(***************************************************************************)
EXTENDS Naturals, FiniteSets, SequencesExt

CONSTANTS Nodes,       \* the files and directories of the volumes
          Volumes,     \* the roots of the listed local volumes
          Directories, \* the nodes that are directories, volumes included
          Parent,      \* the directory of each node that is not a volume
          Protected,   \* nodes the deletion policy protects
          Jobs,        \* the scans in the order they are started, 1..n
          Tokens,      \* the confirmations in the order they are issued, 1..n
          MaxCached,   \* storageScanCacheEntries
          MaxPending,  \* storageDeleteMaxPending
          MaxWrites,   \* bound: changes that other programs make
          Test,        \* a bandwidth or a storage test, as holder of the lock
          None

ASSUME TreeAssumption == /\ Volumes \subseteq Directories
                         /\ Directories \subseteq Nodes
                         /\ Parent \in [Nodes \ Volumes -> Directories]
ASSUME LimitsAssumption == MaxCached \in Nat \ {0} /\ MaxPending \in Nat /\ MaxWrites \in Nat
ASSUME IdsAssumption == /\ IsFiniteSet(Jobs) /\ Jobs \subseteq Nat \ {0}
                        /\ IsFiniteSet(Tokens) /\ Tokens \subseteq Nat
                        /\ None \notin Jobs /\ None \notin Nodes /\ Test \notin Jobs /\ Test # None

VARIABLES identity, \* what os.SameFile, size and time tell of a node, 0 if absent
          writes,   \* the last identity given out; it also counts the changes
          scan,     \* Service.scan, the job the interface can name
          probe,    \* the holder of probeMu: a job, Test or None
          job,      \* storageScanJob and where its goroutine is
          cache,    \* scanCache
          order,    \* scanCacheOrder
          token,    \* the deletion calls: what they authorise, and their step
          purged,   \* history: <<node, identity>> deleted and invalidated
          raced     \* history: jobs that were under way during an invalidation

fileSystem == <<identity, writes>>
history == <<purged, raced>>
vars == <<fileSystem, scan, probe, job, cache, order, token, history>>

-----------------------------------------------------------------------------
(* The tree.                                                               *)

\* With each node the directory it is in.
Upward(S) == \A n \in S \ Volumes : Parent[n] \in S

\* What the prefixes of the path of a node name: the least upward set around it.
Line == [node \in Nodes |-> {above \in Nodes :
           \A S \in SUBSET Nodes : node \in S /\ Upward(S) => above \in S}]

\* storagePathWithin and storagePathDescendant.
Within(root, node) == root \in Line[node]
Below(root, node) == root # node /\ Within(root, node)

Present(node) == identity[node] # 0
Entries(dir) == {n \in Nodes \ Volumes : Parent[n] = dir /\ Present(n)}

Nothing == [n \in Nodes |-> 0]

\* One job of each ID, unused until a call starts it.
NewJob == [step |-> "unused", state |-> "none", root |-> None, todo |-> {},
           seen |-> Nothing, cancelled |-> FALSE]
\* listed is history: what the node held when it was reviewed.
NewToken == [step |-> "unused", job |-> None, node |-> None, reviewed |-> 0,
             listed |-> {}, swapped |-> FALSE, moved |-> {}]
\* The authorisation is out of the map and the call has returned.
Over == [NewToken EXCEPT !.step = "over"]
NoEntry == [from |-> None, seen |-> Nothing]

Complete(j) == job[j].state = "complete"

Init == /\ identity = [n \in Nodes |-> 1]
        /\ writes = 1
        /\ scan = None
        /\ probe = None
        /\ job = [j \in Jobs |-> NewJob]
        /\ cache = [d \in Directories |-> NoEntry]
        /\ order = <<>>
        /\ token = [k \in Tokens |-> NewToken]
        /\ purged = {}
        /\ raced = {}

-----------------------------------------------------------------------------
(* StartStorageScan.                                                       *)

\* The IDs are random and never repeat; the calls take them in turn.
Turn(j) == job[j].step = "unused" /\ \A i \in Jobs : i < j => job[i].step # "unused"

\* resolveStorageScanRoot: a listed volume, or a directory of the report of
\* the current scan (its parent included), which must still be there.
Resolves(r) == /\ Present(r)
               /\ \/ r \in Volumes
                  \/ /\ scan # None /\ Complete(scan)
                     /\ LET root == job[scan].root
                        IN \/ r \notin Volumes /\ Parent[r] = root /\ job[scan].seen[r] # 0
                           \/ root \notin Volumes /\ Parent[root] = r

\* The same for a refresh, which takes the root of the current scan.
Refreshes(r) == /\ Present(r)
                /\ scan # None /\ Complete(scan) /\ job[scan].root = r

\* cachedStorageScan.  A report older than storageScanCacheTTL is passed
\* over; time is left out, so that any report may be that old.
Found(r) == cache[r].from # None

\* Nobody can name a job that ended and is not Service.scan: its report and
\* its authorisations are garbage, and the model forgets them as well.
Forget(jobs, current) ==
  [j \in Jobs |-> IF jobs[j].step = "ended" /\ j # current
                  THEN [NewJob EXCEPT !.step = "ended", !.cancelled = jobs[j].cancelled]
                  ELSE jobs[j]]
Unnameable(current) ==
  [k \in Tokens |-> IF token[k].step = "pending" /\ token[k].job # current THEN Over
                    ELSE token[k]]

\* cachedStorageScan found the report; the job is not yet Service.scan.
StartCached(j) ==
  /\ Turn(j)
  /\ \E r \in Directories :
       /\ Resolves(r) /\ Found(r)
       /\ job' = [job EXCEPT ![j] = [NewJob EXCEPT !.step = "found", !.state = "complete",
                                                   !.root = r, !.seen = cache[r].seen]]
  /\ UNCHANGED <<fileSystem, scan, probe, cache, order, token, history>>

Publish(j) ==
  /\ job[j].step = "found"
  /\ scan' = j
  /\ job' = Forget([job EXCEPT ![j].step = "ended"], j)
  /\ token' = Unnameable(j)
  /\ UNCHANGED <<fileSystem, probe, cache, order, history>>

\* Without a young report, or for a refresh: probeMu.TryLock, the new job
\* becomes Service.scan whatever the last one is doing, and its goroutine
\* starts.
StartWalk(j) ==
  /\ Turn(j)
  /\ probe = None
  /\ \E r \in Directories :
       /\ Resolves(r) \/ Refreshes(r)
       /\ job' = Forget([job EXCEPT ![j] = [NewJob EXCEPT !.step = "walk", !.root = r,
                                              !.state = "scanning", !.todo = {r}]], j)
  /\ probe' = j
  /\ scan' = j
  /\ token' = Unnameable(j)
  /\ UNCHANGED <<fileSystem, cache, order, history>>

-----------------------------------------------------------------------------
(* The goroutine of a job: runStorageScan and what follows it.             *)

\* A directory that is gone by the time it is read is skipped.
ReadDirectory(j) ==
  /\ job[j].step = "walk"
  /\ \E d \in job[j].todo :
       job' = [job EXCEPT
         ![j].todo = (@ \ {d}) \cup (Entries(d) \cap Directories),
         ![j].seen = [n \in Nodes |-> IF n \in Entries(d) THEN identity[n] ELSE @[n]]]
  /\ UNCHANGED <<fileSystem, scan, probe, cache, order, token, history>>

\* The walk ends when nothing is left, at the deadline or the entry limit,
\* when it is cancelled, or when the root itself cannot be read.
WalkEnds(j) == {"limit"} \cup (IF job[j].todo = {} THEN {"done"} ELSE {})
                         \cup (IF job[j].cancelled THEN {"cancel"} ELSE {})
                         \cup (IF Present(job[j].root) THEN {} ELSE {"error"})

FinalStateByWalk(j, end) == IF end = "cancel" THEN "cancelled"
                            ELSE IF end = "error" THEN "failed"
                            ELSE "complete"

\* Under the job's mutex; cancelled is looked at first.  Only a complete
\* job is given what the walk found.
FinalState(j, end) == IF job[j].cancelled THEN "cancelled"
                      ELSE IF end = "error" THEN "failed"
                      ELSE "complete"

EndWalkLocked(j) ==
  /\ job[j].step = "walk"
  /\ \E end \in WalkEnds(j) :
       LET final == FinalState(j, end)
           complete == final = "complete"
       IN job' = [job EXCEPT ![j].state = final,
                             ![j].step = IF complete THEN "cache" ELSE "close",
                             ![j].todo = {},
                             ![j].seen = IF complete THEN @ ELSE Nothing]
  /\ UNCHANGED <<fileSystem, scan, probe, cache, order, token, history>>

EndWalk(j) ==
  /\ job[j].step = "walk"
  /\ \E end \in WalkEnds(j) :
       LET final == FinalState(j, end)
           complete == final = "complete"
       IN job' = [job EXCEPT ![j].state = final,
                             ![j].step = IF complete THEN "cache" ELSE "unlock",
                             ![j].todo = {},
                             ![j].seen = IF complete THEN @ ELSE Nothing]
  /\ UNCHANGED <<fileSystem, scan, probe, cache, order, token, history>>

\* cacheStorageScan: first in, first out over the roots.
CacheReport(j) ==
  /\ job[j].step = "cache"
  /\ LET r == job[j].root
         queue == IF cache[r].from = None THEN Append(order, r) ELSE order
         over == Len(queue) > MaxCached
         filled == [cache EXCEPT ![r] = [from |-> j, seen |-> job[j].seen]]
     IN /\ order' = IF over THEN Tail(queue) ELSE queue
        /\ cache' = IF over THEN [filled EXCEPT ![Head(queue)] = NoEntry] ELSE filled
  /\ job' = [job EXCEPT ![j].step = "unlock"]
  /\ UNCHANGED <<fileSystem, scan, probe, token, history>>

Unlock(j) ==
  /\ job[j].step = "unlock"
  /\ probe' = None
  /\ job' = [job EXCEPT ![j].step = "close"]
  /\ UNCHANGED <<fileSystem, scan, cache, order, token, history>>

\* close(job.done): whoever waits in CancelStorageScan goes on.
Close(j) ==
  /\ job[j].step = "close"
  /\ job' = Forget([job EXCEPT ![j].step = "ended"], scan)
  /\ UNCHANGED <<fileSystem, scan, probe, cache, order, token, history>>

CancelUnlocks(j) ==
  /\ scan = j
  /\ job[j].state = "scanning"
  /\ ~job[j].cancelled
  /\ job' = [job EXCEPT ![j].cancelled = TRUE]
  /\ probe' = None
  /\ UNCHANGED <<fileSystem, scan, cache, order, token, history>>

\* CancelStorageScan.  The call then waits for the job to end, or 2 seconds.
Cancel(j) ==
  /\ scan = j
  /\ job[j].state = "scanning"
  /\ ~job[j].cancelled
  /\ job' = [job EXCEPT ![j].cancelled = TRUE]
  /\ UNCHANGED <<fileSystem, scan, probe, cache, order, token, history>>

\* NetworkBufferbloat and StorageTest take the same lock.
OtherTest ==
  /\ \/ probe = None /\ probe' = Test
     \/ probe = Test /\ probe' = None
  /\ UNCHANGED <<fileSystem, scan, job, cache, order, token, history>>

-----------------------------------------------------------------------------
(* PreviewStorageDelete and ConfirmStorageDelete.                          *)

\* registerStorageTarget: the direct children of the root and the largest
\* files anywhere below it, unless the deletion policy protects them.
Targets(j) == {n \in Nodes : /\ job[j].seen[n] # 0
                             /\ Below(job[j].root, n)
                             /\ Parent[n] = job[j].root \/ n \notin Directories
                             /\ n \notin Protected}

Pending(j) == {k \in Tokens : token[k].step = "pending" /\ token[k].job = j}

Preview(k) ==
  /\ token[k].step = "unused"
  /\ \A i \in Tokens : i < k => token[i].step # "unused"
  /\ scan # None /\ Complete(scan)
  /\ Cardinality(Pending(scan)) < MaxPending
  /\ \E n \in Targets(scan) :
       /\ Present(n) /\ identity[n] = job[scan].seen[n]
       /\ token' = [token EXCEPT ![k] = [NewToken EXCEPT !.step = "pending", !.job = scan,
                                           !.node = n, !.reviewed = identity[n],
                                           !.listed = Entries(n)]]
  /\ UNCHANGED <<fileSystem, scan, probe, job, cache, order, history>>

\* The 45 seconds of an authorisation pass.  It stays in the map until it is
\* confirmed, which fails, or until the next preview drops it.
Lapse(k) ==
  /\ token[k].step = "pending"
  /\ token' = [token EXCEPT ![k] = Over]
  /\ UNCHANGED <<fileSystem, scan, probe, job, cache, order, history>>

\* Only for the current scan.  The authorisation is taken out of the map.
Confirm(k) ==
  /\ token[k].step = "pending"
  /\ scan = token[k].job
  /\ token' = [token EXCEPT ![k].step = "confirmed"]
  /\ UNCHANGED <<fileSystem, scan, probe, job, cache, order, history>>

ValidatePresence(k) ==
  /\ token[k].step = "confirmed"
  /\ token' = [token EXCEPT ![k] = IF Present(token[k].node)
                                   THEN [@ EXCEPT !.step = "trash"] ELSE Over]
  /\ UNCHANGED <<fileSystem, scan, probe, job, cache, order, history>>

\* validateStorageDeleteTarget, once more.
Validate(k) ==
  /\ token[k].step = "confirmed"
  /\ token' = [token EXCEPT ![k] = IF identity[token[k].node] = token[k].reviewed
                                   THEN [@ EXCEPT !.step = "trash"] ELSE Over]
  /\ UNCHANGED <<fileSystem, scan, probe, job, cache, order, history>>

\* History: what is validated and no longer what was reviewed.
Swapped(changed) ==
  [k \in Tokens |-> [token[k] EXCEPT !.swapped = @ \/ ( /\ token[k].step = "trash"
                                                        /\ token[k].node \in changed )]]

\* moveStorageTargetToTrash: the node goes with all below it, and its
\* directory changes.
Trash(k) ==
  /\ token[k].step = "trash"
  /\ LET node == token[k].node
         gone == {n \in Nodes : Within(node, n) /\ Present(n)}
         parent == Parent[node]
     IN /\ Present(node)
        /\ identity' = [n \in Nodes |-> IF n \in gone THEN 0
                                        ELSE IF n = parent THEN writes + 1 ELSE identity[n]]
        /\ writes' = writes + 1
        /\ token' = [Swapped((gone \cup {parent}) \ {node}) EXCEPT
                       ![k].step = "moved",
                       ![k].moved = {<<n, identity[n]>> : n \in gone}]
  /\ UNCHANGED <<scan, probe, job, cache, order, history>>

\* The target is gone, locked or on another file system.
TrashFails(k) ==
  /\ token[k].step = "trash"
  /\ token' = [token EXCEPT ![k] = Over]
  /\ UNCHANGED <<fileSystem, scan, probe, job, cache, order, history>>

\* os.Lstat: another program may have put something in its place.
CheckGone(k) ==
  /\ token[k].step = "moved"
  /\ token' = [token EXCEPT ![k] = IF Present(token[k].node)
                                   THEN Over ELSE [@ EXCEPT !.step = "gone"]]
  /\ UNCHANGED <<fileSystem, scan, probe, job, cache, order, history>>

RelatedAncestors(node) == {d \in Directories : Below(d, node)}

Related(node) == {d \in Directories : Within(d, node) \/ Within(node, d)}
\* A queue without the roots that are no longer in the cache.
StillCached(queue, entries) ==
  LET kept == {i \in DOMAIN queue : entries[queue[i]].from # None}
  IN [k \in 1 .. Cardinality(kept) |->
        queue[CHOOSE i \in kept : Cardinality({h \in kept : h <= i}) = k]]

InvalidateCacheOnly(k) ==
  /\ token[k].step = "gone"
  /\ LET dropped == Related(token[k].node)
     IN cache' = [d \in Directories |-> IF d \in dropped THEN NoEntry ELSE cache[d]]
  /\ token' = [token EXCEPT ![k] = Over]
  /\ purged' = purged \cup token[k].moved
  /\ raced' = raced \cup {j \in Jobs : job[j].step \in {"walk", "cache"}}
  /\ UNCHANGED <<fileSystem, scan, probe, job, order>>

\* invalidateStorageScanCache.
Invalidate(k) ==
  /\ token[k].step = "gone"
  /\ LET dropped == Related(token[k].node)
         left == [d \in Directories |-> IF d \in dropped THEN NoEntry ELSE cache[d]]
     IN cache' = left /\ order' = StillCached(order, left)
  /\ token' = [token EXCEPT ![k] = Over]
  /\ purged' = purged \cup token[k].moved
  /\ raced' = raced \cup {j \in Jobs : job[j].step \in {"walk", "cache"}}
  /\ UNCHANGED <<fileSystem, scan, probe, job>>

\* Another program writes or creates a file, which also changes the
\* directory when it is new, or removes one.
OtherWrite ==
  /\ writes < MaxWrites
  /\ \E n \in Nodes \ Directories :
       /\ Present(Parent[n])
       /\ \E new \in {0, writes + 1} :
            LET same == new # 0 /\ Present(n)
            IN /\ new = 0 => Present(n)
               /\ identity' = [m \in Nodes |-> IF m = n THEN new
                                 ELSE IF m = Parent[n] /\ ~same THEN writes + 1
                                 ELSE identity[m]]
               /\ token' = Swapped({n} \cup IF same THEN {} ELSE {Parent[n]})
       /\ writes' = writes + 1
  /\ UNCHANGED <<scan, probe, job, cache, order, history>>

-----------------------------------------------------------------------------

Goroutine(j) == ReadDirectory(j) \/ EndWalk(j) \/ CacheReport(j) \/ Unlock(j) \/ Close(j)

Next == \/ \E j \in Jobs : \/ StartCached(j) \/ Publish(j) \/ StartWalk(j) \/ Goroutine(j)
                           \/ Cancel(j)
        \/ \E k \in Tokens : \/ Preview(k) \/ Lapse(k) \/ Confirm(k) \/ Validate(k)
                             \/ Trash(k) \/ TrashFails(k) \/ CheckGone(k) \/ Invalidate(k)
        \/ OtherTest \/ OtherWrite

Spec == Init /\ [][Next]_vars

\* The scheduler of Go does not stop all the goroutines that can run, and a
\* walk is finite.
FairSpec == Spec /\ WF_vars(\E j \in Jobs : Goroutine(j))

-----------------------------------------------------------------------------

\* A job holds the lock of heavy diagnostics exactly while its goroutine
\* reads or fills the cache: two never walk at once, and a client told that
\* its scan is over (done is closed) is not refused the next because of it.
ProbeHeld == \A j \in Jobs : (job[j].step \in {"walk", "cache", "unlock"}) <=> (probe = j)

\* A scan whose cancellation was answered with true does not complete
\* afterwards, and no report of it can be found in the cache.
CancelHolds == \A j \in Jobs : job[j].cancelled =>
                 /\ ~Complete(j)
                 /\ \A d \in Directories : cache[d].from # j

\* The queue of the cache names each cached root once, and no other: else it
\* would evict too early, or never.
OrderMatchesCache == /\ \A d \in Directories :
                          cache[d].from # None <=> \E i \in 1 .. Len(order) : order[i] = d
                     /\ \A i, k \in 1 .. Len(order) : order[i] = order[k] => i = k
                     /\ Len(order) <= MaxCached

\* Once a deletion has invalidated the cache, no report in it shows what was
\* deleted, except the report of a scan that was under way at that moment:
\* runStorageScan caches what it read before the deletion.
NoDeletedUnlessRaced ==
  \A d \in Directories : \A n \in Nodes :
    <<n, cache[d].seen[n]>> \in purged => cache[d].from \in raced

\* Unless another program changed it between the last look of the service
\* and the move, the node that goes to the trash is the one the user
\* reviewed, and a directory goes with exactly the entries it had then: each
\* new or removed entry changes the directory, which is what the last look
\* compares.  What a file in it holds, and what is deeper, that look does not
\* see: those may have changed since the review.
NodeReviewedUnlessSwapped ==
  \A k \in Tokens : token[k].moved # {} /\ ~token[k].swapped =>
    /\ <<token[k].node, token[k].reviewed>> \in token[k].moved
    /\ token[k].listed = {n \in Nodes \ Volumes :
                            /\ Parent[n] = token[k].node
                            /\ \E m \in token[k].moved : m[1] = n}

\* Whatever is cancelled, replaced or fails, the lock of heavy diagnostics
\* comes free again.
HeavyReleased == []<>(\A j \in Jobs : probe # j)

=============================================================================
