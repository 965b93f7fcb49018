---------------------------- MODULE StorageTree ----------------------------
(***************************************************************************)
(* walkStorageEntries and scanStorageTree: a coordinator hands directories *)
(* to a pool of workers over an unbuffered channel, takes their results    *)
(* from a buffered one and visits the entries one by one, which module     *)
(* StorageReport adds up.  The coordinator alone sends, receives and       *)
(* closes; a worker that is not reading waits for a task, or for room in   *)
(* the results.                                                            *)
(***************************************************************************)
EXTENDS StorageReport

CONSTANTS Workers, NoDir

ASSUME WorkersAssumption == IsFiniteSet(Workers) /\ Workers # {} /\ NoDir \notin Nodes

VARIABLES unreadable, \* directories that cannot be read, files without Info
          queue,      \* directories to hand out, the last first
          active,     \* those handed out whose result is not received yet
          reading,    \* the directory each worker reads, or NoDir
          running,    \* the workers that have not returned
          results,    \* the buffered channel
          listing,    \* the entries of the result received last still to visit
          ctx,        \* "live", or "cancelled": by the client or the deadline
          pc,         \* the coordinator: "loop", "return", "wait" or "done"
          outcome,    \* what the walk returns
          acc         \* the totals of scanStorageTree

vars == <<unreadable, queue, active, reading, running, results, listing, ctx, pc, outcome, acc>>
pool == <<reading, running>>

WorkerCount == Cardinality(Workers)
Entries(dir) == {n \in Nodes \ {Root} : ParentOf[n] = dir}

Init == /\ unreadable \in SUBSET {n \in Nodes : Kind[n] \in {"directory", "file"}}
        /\ queue = <<Root>>
        /\ active = 0
        /\ reading = [w \in Workers |-> NoDir]
        /\ running = Workers
        /\ results = <<>>
        /\ listing = {}
        /\ ctx = "live"
        /\ pc = "loop"
        /\ outcome = "none"
        /\ acc = Empty

\* The coordinator is at its select, and not in the loop over the entries of
\* a result.
Selecting == pc = "loop" /\ listing = {}

-----------------------------------------------------------------------------
(* The workers.                                                            *)

\* The select over an unbuffered channel: both sides step together.
Dispatch(w) ==
  /\ Selecting
  /\ queue # <<>> /\ active < WorkerCount
  /\ w \in running /\ reading[w] = NoDir
  /\ reading' = [reading EXCEPT ![w] = Last(queue)]
  /\ queue' = Front(queue)
  /\ active' = active + 1
  /\ UNCHANGED <<unreadable, running, results, listing, ctx, pc, outcome, acc>>

\* readStorageDirectory, and the send of its result when there is room.
SendResult(w) ==
  /\ w \in running /\ reading[w] # NoDir
  /\ Len(results) < WorkerCount
  /\ results' = Append(results, reading[w])
  /\ reading' = [reading EXCEPT ![w] = NoDir]
  /\ UNCHANGED <<unreadable, queue, active, running, listing, ctx, pc, outcome, acc>>

\* The context is done, or the channel of tasks is closed.
WorkerReturns(w) ==
  /\ w \in running
  /\ ctx = "cancelled" \/ pc \in {"wait", "done"}
  /\ running' = running \ {w}
  /\ UNCHANGED <<unreadable, queue, active, reading, results, listing, ctx, pc, outcome, acc>>

-----------------------------------------------------------------------------
(* The coordinator.                                                        *)

Return(how) == pc' = "return" /\ outcome' = how

\* A directory that could not be read: the root fails the walk, another one
\* is skipped, and counts as an entry once more.
ReceiveErrorKeeping ==
  /\ Selecting
  /\ results # <<>> /\ Head(results) \in unreadable
  /\ results' = Tail(results)
  /\ IF Head(results) = Root THEN Return("error") /\ UNCHANGED acc
     ELSE IF ctx = "cancelled" THEN Return("cancelled") /\ UNCHANGED acc
     ELSE IF Full(acc) THEN Return("limit") /\ UNCHANGED acc
     ELSE acc' = Skip(acc) /\ UNCHANGED <<pc, outcome>>
  /\ UNCHANGED <<unreadable, queue, active, pool, listing, ctx>>

ReceiveError ==
  /\ Selecting
  /\ results # <<>> /\ Head(results) \in unreadable
  /\ results' = Tail(results)
  /\ active' = active - 1
  /\ IF Head(results) = Root THEN Return("error") /\ UNCHANGED acc
     ELSE IF ctx = "cancelled" THEN Return("cancelled") /\ UNCHANGED acc
     ELSE IF Full(acc) THEN Return("limit") /\ UNCHANGED acc
     ELSE acc' = Skip(acc) /\ UNCHANGED <<pc, outcome>>
  /\ UNCHANGED <<unreadable, queue, pool, listing, ctx>>

Receive ==
  /\ Selecting
  /\ results # <<>> /\ Head(results) \notin unreadable
  /\ results' = Tail(results)
  /\ active' = active - 1
  /\ listing' = Entries(Head(results))
  /\ UNCHANGED <<unreadable, queue, pool, ctx, pc, outcome, acc>>

\* The next entry in the order of the listing, whatever that is.  A directory
\* joins the queue; an entry without Info is skipped.
VisitEntry(n) ==
  /\ pc = "loop" /\ n \in listing
  /\ IF ctx = "cancelled" THEN Return("cancelled") /\ UNCHANGED <<queue, listing, acc>>
     ELSE IF Full(acc) THEN Return("limit") /\ UNCHANGED <<queue, listing, acc>>
     ELSE /\ listing' = listing \ {n}
          /\ acc' = IF n \in unreadable /\ Kind[n] = "file" THEN Skip(acc) ELSE Visit(acc, n)
          /\ queue' = IF Kind[n] = "directory" THEN Append(queue, n) ELSE queue
          /\ UNCHANGED <<pc, outcome>>
  /\ UNCHANGED <<unreadable, active, pool, results, ctx>>

\* The select finds the context done.
NoticeCancel ==
  /\ Selecting /\ ctx = "cancelled"
  /\ Return("cancelled")
  /\ UNCHANGED <<unreadable, queue, active, pool, results, listing, ctx, acc>>

Exhausted ==
  /\ Selecting /\ queue = <<>> /\ active = 0
  /\ Return("complete")
  /\ UNCHANGED <<unreadable, queue, active, pool, results, listing, ctx, acc>>

\* The deferred cancel and close(tasks).
StopWorkers ==
  /\ pc = "return"
  /\ ctx' = "cancelled"
  /\ pc' = "wait"
  /\ UNCHANGED <<unreadable, queue, active, pool, results, listing, outcome, acc>>

\* workers.Wait.
WorkersStopped ==
  /\ pc = "wait" /\ running = {}
  /\ pc' = "done"
  /\ UNCHANGED <<unreadable, queue, active, pool, results, listing, ctx, outcome, acc>>

\* CancelStorageScan, or storageScanMaximumDuration.
CancelContext ==
  /\ ctx = "live" /\ pc = "loop"
  /\ ctx' = "cancelled"
  /\ UNCHANGED <<unreadable, queue, active, pool, results, listing, pc, outcome, acc>>

-----------------------------------------------------------------------------

Coordinator == \/ ReceiveError \/ Receive \/ \E n \in Nodes : VisitEntry(n)
               \/ NoticeCancel \/ Exhausted \/ StopWorkers \/ WorkersStopped

Worker(w) == Dispatch(w) \/ SendResult(w) \/ WorkerReturns(w)

Next == Coordinator \/ CancelContext \/ \E w \in Workers : Worker(w)

Spec == Init /\ [][Next]_vars

\* Some goroutine that can run does run.
FairSpec == Spec /\ WF_vars(Coordinator \/ \E w \in Workers : Worker(w))

-----------------------------------------------------------------------------

\* What a walk of the whole tree meets: the directories that a chain of
\* readable ones leads to, and their entries.
Reached[n \in Nodes] == n = Root \/ ( Reached[ParentOf[n]] /\ ParentOf[n] \notin unreadable )

Met(kind) == {n \in Nodes \ {Root} : Kind[n] = kind /\ Reached[n]}
ReadFiles == Met("file") \ unreadable

\* However the workers interleave and in whatever order a directory lists
\* its entries, a complete report has the totals of the tree: each directory
\* was read once, each file counted once, each failure and link skipped once.
TotalsExact ==
  outcome = "complete" =>
    /\ acc.files = Cardinality(ReadFiles)
    /\ acc.total = SaturatingSum([i \in DOMAIN SetToSeq(ReadFiles) |->
                                    Size[SetToSeq(ReadFiles)[i]]])
    /\ acc.directories = Cardinality(Met("directory"))
    /\ acc.skipped = Cardinality(Met("link") \cup Met("special"))
                     + Cardinality((Met("file") \cup Met("directory")) \cap unreadable)

\* A report, complete or cut off by a limit or the deadline, accounts for
\* every byte and directory it counted: in its rows of children and in those
\* of extensions, whatever went to the rows "other".
RowsAddUp ==
  LET children == Omitted(Children(acc))
      extensions == Omitted(Extensions(acc))
  IN /\ children.size = acc.total
     /\ children.directories = acc.directories
     /\ extensions.size = acc.total
     /\ extensions.files = acc.files

\* What a report says adds up: the totals are those of the tree, and the rows
\* those of the totals.
ReportAddsUp == TotalsExact /\ RowsAddUp

\* No file outside the list of the largest is larger than one inside it.
LargestFirst ==
  outcome = "complete" =>
    /\ Len(Largest(acc)) = IF acc.files < MaxLargest THEN acc.files ELSE MaxLargest
    /\ \A f \in ReadFiles \ acc.largest : \A g \in acc.largest : Size[f] <= Size[g]

\* Completed, cancelled, failed or cut off at any moment, the walk ends and
\* takes its workers with it: nobody waits for a channel for ever.
Terminates == <>[](pc = "done" /\ running = {})

=============================================================================
