--------------------------- MODULE StorageScanProofs ---------------------------
(***************************************************************************)
(* For any tree of files, any number of scans and deletions, any size of   *)
(* the cache and any changes by other programs: who holds the lock of heavy *)
(* diagnostics, what a cancellation promises, which reports may show what  *)
(* was deleted, and what goes to the trash.                                *)
(***************************************************************************)
EXTENDS StorageScan, TLAPS, FiniteSetTheorems

-----------------------------------------------------------------------------
(* The tree                                                                *)

LEMMA LineStep ==
    ASSUME NEW n \in Nodes \ Volumes
    PROVE  Line[n] = {n} \cup Line[Parent[n]]
<1> DEFINE p == Parent[n]
           up == {n} \cup Line[p]
<1>1. p \in Nodes /\ n \in Nodes
  BY TreeAssumption
<1>2. n \in up /\ up \in SUBSET Nodes
  BY <1>1 DEF Line
<1>3. Upward(up)
  <2>1. SUFFICES ASSUME NEW m \in up \ Volumes PROVE Parent[m] \in up
    BY DEF Upward
  <2>2. CASE m = n
    BY <1>1, <2>2 DEF Line
  <2>3. CASE m # n
    <3>1. m \in Line[p] /\ m \in Nodes \ Volumes
      BY <1>1, <2>3 DEF Line
    <3>2. Parent[m] \in Nodes
      BY <3>1, TreeAssumption
    <3>3. ASSUME NEW S \in SUBSET Nodes, p \in S, Upward(S) PROVE Parent[m] \in S
      BY <1>1, <3>1, <3>3 DEF Line, Upward
    <3> QED
      BY <1>1, <3>2, <3>3 DEF Line
  <2> QED
    BY <2>2, <2>3
<1>4. Line[n] \subseteq up
  BY <1>1, <1>2, <1>3 DEF Line
<1>5. ASSUME NEW m \in up PROVE m \in Line[n]
  <2>1. m \in Nodes
    BY <1>2
  <2>2. ASSUME NEW S \in SUBSET Nodes, n \in S, Upward(S) PROVE m \in S
    <3>1. p \in S
      BY <2>2 DEF Upward
    <3> QED
      BY <1>1, <2>2, <3>1 DEF Line
  <2> QED
    BY <1>1, <2>1, <2>2 DEF Line
<1> QED
  BY <1>4, <1>5

LEMMA WithinItself == \A n \in Nodes : Within(n, n)
BY DEF Within, Line

LEMMA VolumesOnTop ==
    ASSUME NEW v \in Volumes, NEW d, Within(d, v) PROVE d = v
<1>1. {v} \in SUBSET Nodes /\ Upward({v})
  BY TreeAssumption DEF Upward
<1> QED
  BY <1>1 DEF Within, Line

LEMMA WithinParent ==
    ASSUME NEW n \in Nodes \ Volumes, NEW d, Within(d, Parent[n])
    PROVE  Within(d, n)
BY LineStep DEF Within

\* Of two nodes above a third one is above the other.
LEMMA Comparable ==
    ASSUME NEW n \in Nodes, NEW a \in Nodes, NEW b \in Nodes, Within(a, n), Within(b, n)
    PROVE  Within(a, b) \/ Within(b, a)
<1> DEFINE S == {m \in Line[n] : \A c \in Line[n] : Within(c, m) \/ Within(m, c)}
<1>1. Line[n] \in SUBSET Nodes /\ n \in Line[n]
  BY DEF Line
<1>2. n \in S
  BY <1>1 DEF Within
<1>3. Upward(S)
  <2>1. SUFFICES ASSUME NEW m \in S \ Volumes PROVE Parent[m] \in S
    BY DEF Upward
  <2>2. m \in Nodes \ Volumes /\ m \in Line[n] /\ Parent[m] \in Nodes
    BY <1>1, <2>1, TreeAssumption
  <2>3. Line[m] = {m} \cup Line[Parent[m]]
    BY <2>2, LineStep
  <2>4. Parent[m] \in Line[n]
    BY <2>2 DEF Line, Upward
  <2>5. ASSUME NEW c \in Line[n] PROVE Within(c, Parent[m]) \/ Within(Parent[m], c)
    <3>1. Parent[m] \in Line[m]
      BY <2>2, <2>3 DEF Line
    <3>2. CASE Within(c, m)
      BY <2>3, <3>1, <3>2 DEF Within
    <3>3. CASE Within(m, c)
      <4>1. c \in Nodes /\ m \in Line[c]
        BY <1>1, <3>3 DEF Within
      <4>2. Parent[m] \in Line[c]
        BY <2>2, <4>1 DEF Line, Upward
      <4> QED
        BY <4>2 DEF Within
    <3> QED
      BY <3>2, <3>3
  <2> QED
    BY <2>4, <2>5
<1>4. Line[n] \subseteq S
  BY <1>1, <1>2, <1>3 DEF Line
<1> QED
  BY <1>4 DEF Within

-----------------------------------------------------------------------------
(* Types                                                                   *)

Steps == {"unused", "found", "walk", "cache", "unlock", "close", "ended"}
States == {"none", "scanning", "complete", "cancelled", "failed"}

JobState == [step : Steps, state : States, root : Directories \cup {None},
             todo : SUBSET Directories, seen : [Nodes -> Nat], cancelled : BOOLEAN]

TokenState == [step : {"unused", "pending", "confirmed", "trash", "moved", "gone", "over"},
               job : Jobs \cup {None}, node : Nodes \cup {None}, reviewed : Nat,
               listed : SUBSET Nodes, swapped : BOOLEAN, moved : SUBSET (Nodes \X Nat)]

Entry == [from : Jobs \cup {None}, seen : [Nodes -> Nat]]

TypeOK == /\ identity \in [Nodes -> Nat]
          /\ writes \in Nat
          /\ scan \in Jobs \cup {None}
          /\ probe \in Jobs \cup {Test, None}
          /\ job \in [Jobs -> JobState]
          /\ cache \in [Directories -> Entry]
          /\ token \in [Tokens -> TokenState]
          /\ purged \subseteq Nodes \X Nat
          /\ raced \subseteq Jobs


LEMMA NothingIsSeen == Nothing \in [Nodes -> Nat] /\ \A n \in Nodes : Nothing[n] = 0
BY DEF Nothing

LEMMA Forgotten ==
    ASSUME NEW jobs \in [Jobs -> JobState], NEW current
    PROVE  /\ Forget(jobs, current) \in [Jobs -> JobState]
           /\ \A i \in Jobs :
                LET left == Forget(jobs, current)[i]
                IN  \/ left = jobs[i]
                    \/ /\ left.step = "ended" /\ jobs[i].step = "ended"
                       /\ left.state = "none" /\ left.root = None /\ left.todo = {}
                       /\ left.seen = Nothing /\ left.cancelled = jobs[i].cancelled
BY NothingIsSeen DEF Forget, NewJob, JobState, Steps, States

LEMMA Unnamed ==
    ASSUME token \in [Tokens -> TokenState], NEW current
    PROVE  /\ Over \in TokenState
           /\ Unnameable(current) \in [Tokens -> TokenState]
           /\ \A k \in Tokens : Unnameable(current)[k] \in {token[k], Over}
BY DEF Unnameable, Over, NewToken, TokenState

LEMMA SwappedOnly ==
    ASSUME token \in [Tokens -> TokenState], NEW changed
    PROVE  /\ Swapped(changed) \in [Tokens -> TokenState]
           /\ \A k \in Tokens :
                LET left == Swapped(changed)[k]
                IN  /\ left.step = token[k].step /\ left.node = token[k].node
                    /\ left.job = token[k].job /\ left.reviewed = token[k].reviewed
                    /\ left.moved = token[k].moved /\ left.listed = token[k].listed
                    /\ token[k].swapped => left.swapped
                    /\ token[k].step = "trash" /\ token[k].node \in changed => left.swapped
<1> DEFINE x(k) == token[k].swapped \/ (token[k].step = "trash" /\ token[k].node \in changed)
<1>1. Swapped(changed) = [k \in Tokens |-> [token[k] EXCEPT !.swapped = x(k)]]
  BY DEF Swapped, TokenState
<1>2. ASSUME NEW k \in Tokens PROVE x(k) \in BOOLEAN /\ token[k] \in TokenState
  BY DEF TokenState
<1> HIDE DEF x
<1>3. ASSUME NEW k \in Tokens
      PROVE  /\ Swapped(changed)[k] \in TokenState
             /\ LET left == Swapped(changed)[k]
                IN  /\ left.step = token[k].step /\ left.node = token[k].node
                    /\ left.job = token[k].job /\ left.reviewed = token[k].reviewed
                    /\ left.moved = token[k].moved /\ left.listed = token[k].listed
                    /\ left.swapped = x(k)
  <2>1. Swapped(changed)[k] = [token[k] EXCEPT !.swapped = x(k)]
    BY <1>1
  <2> QED
    BY <1>2, <2>1 DEF TokenState
<1>4. Swapped(changed) \in [Tokens -> TokenState]
  BY <1>1, <1>3
<1> QED
  BY <1>3, <1>4 DEF x

LEMMA TypeStep ==
    ASSUME TypeOK, [Next]_vars
    PROVE  TypeOK'
<1> USE DEF TypeOK
<1>1. ASSUME NEW j \in Jobs, StartCached(j) PROVE TypeOK'
  <2>1. PICK r \in Directories :
          job' = [job EXCEPT ![j] = [NewJob EXCEPT !.step = "found", !.state = "complete",
                                                   !.root = r, !.seen = cache[r].seen]]
    BY <1>1 DEF StartCached
  <2>2. [NewJob EXCEPT !.step = "found", !.state = "complete", !.root = r,
                       !.seen = cache[r].seen] \in JobState
    BY DEF NewJob, JobState, Steps, States, Entry
  <2> QED
    BY <1>1, <2>1, <2>2 DEF StartCached, fileSystem, history
<1>2. ASSUME NEW j \in Jobs, Publish(j) PROVE TypeOK'
  <2>1. [job EXCEPT ![j].step = "ended"] \in [Jobs -> JobState]
    BY DEF JobState, Steps
  <2> QED
    BY <1>2, <2>1, Forgotten, Unnamed DEF Publish, fileSystem, history
<1>3. ASSUME NEW j \in Jobs, StartWalk(j) PROVE TypeOK'
  <2>1. PICK r \in Directories :
          job' = Forget([job EXCEPT ![j] = [NewJob EXCEPT !.step = "walk", !.root = r,
                                              !.state = "scanning", !.todo = {r}]], j)
    BY <1>3 DEF StartWalk
  <2>2. [NewJob EXCEPT !.step = "walk", !.root = r, !.state = "scanning", !.todo = {r}]
           \in JobState
    BY NothingIsSeen DEF NewJob, JobState, Steps, States
  <2>3. job' \in [Jobs -> JobState]
    BY <2>1, <2>2, Forgotten
  <2> QED
    BY <1>3, <2>3, Unnamed DEF StartWalk, fileSystem, history
<1>4. ASSUME NEW j \in Jobs, ReadDirectory(j) PROVE TypeOK'
  <2>1. PICK d \in job[j].todo :
       job' = [job EXCEPT
         ![j].todo = (@ \ {d}) \cup (Entries(d) \cap Directories),
         ![j].seen = [n \in Nodes |-> IF n \in Entries(d) THEN identity[n] ELSE @[n]]]
    BY <1>4 DEF ReadDirectory
  <2>2. [n \in Nodes |-> IF n \in Entries(d) THEN identity[n] ELSE job[j].seen[n]]
           \in [Nodes -> Nat]
    BY DEF JobState
  <2>3. (job[j].todo \ {d}) \cup (Entries(d) \cap Directories) \in SUBSET Directories
    BY DEF JobState
  <2> HIDE DEF Entries
  <2>4. \A x \in JobState, T \in SUBSET Directories, S \in [Nodes -> Nat] :
          [x EXCEPT !.todo = T, !.seen = S] \in JobState
    BY DEF JobState
  <2>5. job' \in [Jobs -> JobState]
    BY <2>1, <2>2, <2>3, <2>4
  <2> QED
    BY <1>4, <2>5 DEF ReadDirectory, fileSystem, history
<1>5. ASSUME NEW j \in Jobs, EndWalk(j) PROVE TypeOK'
  <2>1. PICK final \in States, step \in Steps, seen \in {job[j].seen, Nothing} :
          job' = [job EXCEPT ![j].state = final, ![j].step = step, ![j].todo = {},
                             ![j].seen = seen]
    BY <1>5 DEF EndWalk, FinalState, States, Steps
  <2>2. \A x \in JobState : [x EXCEPT !.state = final, !.step = step, !.todo = {},
                                   !.seen = seen] \in JobState
    BY NothingIsSeen DEF JobState
  <2>3. job' \in [Jobs -> JobState]
    BY <2>1, <2>2
  <2> QED
    BY <1>5, <2>3 DEF EndWalk, fileSystem, history
<1>6. ASSUME NEW j \in Jobs, CacheReport(j) PROVE TypeOK'
  <2>1. job' = [job EXCEPT ![j] = [job[j] EXCEPT !.step = "unlock"]]
    BY <1>6 DEF CacheReport
  <2>2. job' \in [Jobs -> JobState]
    <3>1. \A x \in JobState, s \in Steps : [x EXCEPT !.step = s] \in JobState
      BY DEF JobState
    <3> QED
      BY <2>1, <3>1 DEF Steps
  <2> DEFINE entry == [from |-> j, seen |-> job[j].seen]
             filled == [cache EXCEPT ![job[j].root] = entry]
  <2>3. PICK r :
          cache' \in {filled, [filled EXCEPT ![r] = NoEntry]}
    BY <1>6 DEF CacheReport
  <2>4. entry \in Entry /\ NoEntry \in Entry
    BY NothingIsSeen DEF JobState, NoEntry, Entry
  <2>5. cache' \in [Directories -> Entry]
    BY <2>3, <2>4
  <2> QED
    BY <1>6, <2>2, <2>5 DEF CacheReport, fileSystem, history
<1>7. ASSUME NEW j \in Jobs, Unlock(j) PROVE TypeOK'
  <2>1. job' = [job EXCEPT ![j] = [job[j] EXCEPT !.step = "close"]]
    BY <1>7 DEF Unlock
  <2>2. job' \in [Jobs -> JobState]
    <3>1. \A x \in JobState, s \in Steps : [x EXCEPT !.step = s] \in JobState
      BY DEF JobState
    <3> QED
      BY <2>1, <3>1 DEF Steps
  <2> QED
    BY <1>7, <2>2 DEF Unlock, fileSystem, history
<1>8. ASSUME NEW j \in Jobs, Close(j) PROVE TypeOK'
  <2>1. [job EXCEPT ![j].step = "ended"] \in [Jobs -> JobState]
    BY DEF JobState, Steps
  <2> QED
    BY <1>8, <2>1, Forgotten DEF Close, fileSystem, history
<1>9. ASSUME NEW j \in Jobs, Cancel(j) PROVE TypeOK'
  <2>1. job' = [job EXCEPT ![j].cancelled = TRUE]
    BY <1>9 DEF Cancel
  <2>2. job' \in [Jobs -> JobState]
    BY <2>1 DEF JobState
  <2> QED
    BY <1>9, <2>2 DEF Cancel, fileSystem, history
<1>10. ASSUME NEW k \in Tokens, Preview(k) PROVE TypeOK'
  <2>1. PICK n \in Targets(scan) :
          token' = [token EXCEPT ![k] = [NewToken EXCEPT !.step = "pending", !.job = scan,
                                           !.node = n, !.reviewed = identity[n],
                                           !.listed = Entries(n)]]
    BY <1>10 DEF Preview
  <2>2. n \in Nodes /\ Entries(n) \in SUBSET Nodes
    BY <2>1 DEF Targets, Entries
  <2>3. [NewToken EXCEPT !.step = "pending", !.job = scan, !.node = n,
                         !.reviewed = identity[n], !.listed = Entries(n)] \in TokenState
    BY <2>2 DEF NewToken, TokenState
  <2> QED
    BY <1>10, <2>1, <2>3 DEF Preview, fileSystem, history
<1>11. ASSUME NEW k \in Tokens, Lapse(k) PROVE TypeOK'
  BY <1>11, Unnamed DEF Lapse, fileSystem, history
<1>12. ASSUME NEW k \in Tokens, Confirm(k) PROVE TypeOK'
  <2>1. token' = [token EXCEPT ![k].step = "confirmed"]
    BY <1>12 DEF Confirm
  <2>2. token' \in [Tokens -> TokenState]
    BY <2>1 DEF TokenState
  <2> QED
    BY <1>12, <2>2 DEF Confirm, fileSystem, history
<1>13. ASSUME NEW k \in Tokens, Validate(k) PROVE TypeOK'
  <2>1. [token[k] EXCEPT !.step = "trash"] \in TokenState
    BY DEF TokenState
  <2> QED
    BY <1>13, <2>1, Unnamed DEF Validate, fileSystem, history
<1>14. ASSUME NEW k \in Tokens, Trash(k) PROVE TypeOK'
  <2> DEFINE node == token[k].node
             gone == {n \in Nodes : Within(node, n) /\ Present(n)}
             parent == Parent[node]
             others == Swapped((gone \cup {parent}) \ {node})
  <2>1. /\ identity' = [n \in Nodes |-> IF n \in gone THEN 0
                                        ELSE IF n = parent THEN writes + 1 ELSE identity[n]]
        /\ writes' = writes + 1
        /\ token' = [others EXCEPT ![k].step = "moved",
                                   ![k].moved = {<<n, identity[n]>> : n \in gone}]
        /\ UNCHANGED <<scan, probe, job, cache, order, history>>
    BY <1>14 DEF Trash
  <2>2. identity' \in [Nodes -> Nat] /\ writes' \in Nat
    BY <2>1
  <2>3. others \in [Tokens -> TokenState]
    BY SwappedOnly
  <2>4. {<<n, identity[n]>> : n \in gone} \in SUBSET (Nodes \X Nat)
    OBVIOUS
  <2> HIDE DEF others, gone
  <2>5. token' \in [Tokens -> TokenState]
    <3>1. \A x \in TokenState, M \in SUBSET (Nodes \X Nat) :
            [x EXCEPT !.step = "moved", !.moved = M] \in TokenState
      BY DEF TokenState
    <3> QED
      BY <2>1, <2>3, <2>4, <3>1
  <2> QED
    BY <2>1, <2>2, <2>5 DEF history
<1>15. ASSUME NEW k \in Tokens, TrashFails(k) PROVE TypeOK'
  BY <1>15, Unnamed DEF TrashFails, fileSystem, history
<1>16. ASSUME NEW k \in Tokens, CheckGone(k) PROVE TypeOK'
  <2>1. [token[k] EXCEPT !.step = "gone"] \in TokenState
    BY DEF TokenState
  <2> QED
    BY <1>16, <2>1, Unnamed DEF CheckGone, fileSystem, history
<1>17. ASSUME NEW k \in Tokens, Invalidate(k) PROVE TypeOK'
  <2>1. NoEntry \in Entry
    BY NothingIsSeen DEF NoEntry, Entry
  <2>2. token[k].moved \subseteq Nodes \X Nat
    BY DEF TokenState
  <2> QED
    BY <1>17, <2>1, <2>2, Unnamed DEF Invalidate, fileSystem
<1>18. CASE OtherTest
  BY <1>18 DEF OtherTest, fileSystem, history
<1>19. CASE OtherWrite
  <2>1. PICK n \in Nodes \ Directories, new \in {0, writes + 1} :
          LET same == new # 0 /\ Present(n)
          IN /\ identity' = [m \in Nodes |-> IF m = n THEN new
                              ELSE IF m = Parent[n] /\ ~same THEN writes + 1
                              ELSE identity[m]]
             /\ token' = Swapped({n} \cup IF same THEN {} ELSE {Parent[n]})
    BY <1>19 DEF OtherWrite
  <2>2. identity' \in [Nodes -> Nat] /\ token' \in [Tokens -> TokenState]
    BY <2>1, SwappedOnly
  <2> QED
    BY <1>19, <2>2 DEF OtherWrite, history
<1>20. CASE UNCHANGED vars
  BY <1>20 DEF vars, fileSystem, history
<1> QED
  BY <1>1, <1>2, <1>3, <1>4, <1>5, <1>6, <1>7, <1>8, <1>9, <1>10, <1>11,
     <1>12, <1>13, <1>14, <1>15, <1>16, <1>17, <1>18, <1>19, <1>20 DEF Next,
     Goroutine

LEMMA InitType == Init => TypeOK
BY IdsAssumption, TreeAssumption, NothingIsSeen DEF Init, TypeOK, JobState, Steps, States,
   TokenState, Entry, NewJob, NewToken, NoEntry


-----------------------------------------------------------------------------
(* The lock and the cancellation                                           *)

\* A job is being scanned while it walks, and complete from then on; what is
\* cancelled never completes.
Stages == \A j \in Jobs :
    /\ job[j].step \in {"unused", "found"} => ~job[j].cancelled
    /\ job[j].step = "walk" <=> job[j].state = "scanning"
    /\ job[j].step \in {"found", "cache"} => Complete(j)
    /\ job[j].cancelled => ~Complete(j)

\* A report comes into the cache after its walk.
CachedAfter == \A d \in Directories, j \in Jobs :
    cache[d].from = j => job[j].step \in {"unlock", "close", "ended"} /\ ~job[j].cancelled



\* A step changes one job, besides those it forgets.
JobStep(j, step, state, cancelled) ==
    /\ job'[j].step = step /\ job'[j].state = state /\ job'[j].cancelled = cancelled
    /\ \A i \in Jobs \ {j} :
         /\ job'[i].step = job[i].step /\ job'[i].cancelled = job[i].cancelled
         /\ \/ job'[i].state = job[i].state
            \/ job'[i].state = "none" /\ job[i].step = "ended"

Same == UNCHANGED <<probe, cache>>

\* The moves of a job with what they do to the lock and to the cache.
Allowed(j, step, state, cancelled) ==
    \/ /\ job[j].step = "unused" /\ step = "found" /\ state = "complete" /\ ~cancelled
       /\ Same
    \/ /\ job[j].step = "unused" /\ step = "walk" /\ state = "scanning" /\ ~cancelled
       /\ probe = None /\ probe' = j /\ UNCHANGED cache
    \/ /\ job[j].step = "walk" /\ Same
       /\ \/ step = "walk" /\ state = job[j].state /\ cancelled = job[j].cancelled
          \/ step = "cache" /\ state = "complete" /\ ~job[j].cancelled /\ ~cancelled
          \/ step = "unlock" /\ state \in {"cancelled", "failed"} /\ cancelled = job[j].cancelled
    \/ /\ job[j].step = "cache" /\ step = "unlock" /\ state = job[j].state
       /\ cancelled = job[j].cancelled
       /\ UNCHANGED probe
       /\ \A d \in Directories : \/ cache'[d] \in {cache[d], NoEntry}
                                 \/ /\ d = job[j].root
                                    /\ cache'[d] = [from |-> j, seen |-> job[j].seen]
    \/ /\ job[j].step = "unlock" /\ step = "close" /\ state = job[j].state
       /\ cancelled = job[j].cancelled
       /\ probe' = None /\ UNCHANGED cache
    \/ /\ job[j].step \in {"found", "close"} /\ step = "ended"
       /\ state \in {job[j].state, "none"} /\ cancelled = job[j].cancelled
       /\ Same
    \/ /\ job[j].state = "scanning" /\ step = job[j].step /\ state = job[j].state /\ cancelled
       /\ Same

JobMoves ==
    \/ /\ UNCHANGED job
       /\ UNCHANGED probe \/ {probe, probe'} = {Test, None}
       /\ \A d \in Directories : cache'[d] \in {cache[d], NoEntry}
    \/ \E j \in Jobs, step \in Steps, state \in States, cancelled \in BOOLEAN :
         JobStep(j, step, state, cancelled) /\ Allowed(j, step, state, cancelled)

LEMMA JobSteps ==
    ASSUME TypeOK, [Next]_vars
    PROVE  JobMoves
<1> USE DEF TypeOK, JobMoves
<1>1. ASSUME NEW j \in Jobs, StartCached(j) PROVE JobMoves
  <2>1. PICK r \in Directories :
          job' = [job EXCEPT ![j] = [NewJob EXCEPT !.step = "found", !.state = "complete",
                                                   !.root = r, !.seen = cache[r].seen]]
    BY <1>1 DEF StartCached
  <2>2. job[j].step = "unused"
    BY <1>1 DEF StartCached, Turn
  <2>3. JobStep(j, "found", "complete", FALSE)
    BY <2>1 DEF NewJob, JobStep
  <2>4. Allowed(j, "found", "complete", FALSE)
    BY <1>1, <2>2 DEF StartCached, Allowed, Same
  <2> QED
    BY <2>3, <2>4 DEF Steps, States
<1>2. ASSUME NEW j \in Jobs, Publish(j) PROVE JobMoves
  <2>1. job' = Forget([job EXCEPT ![j].step = "ended"], j) /\ job[j].step = "found"
    BY <1>2 DEF Publish
  <2> DEFINE jobs == [job EXCEPT ![j].step = "ended"]
  <2>2. jobs \in [Jobs -> JobState] /\ jobs[j].step = "ended"
        /\ jobs[j].state = job[j].state /\ jobs[j].cancelled = job[j].cancelled
        /\ \A i \in Jobs \ {j} : jobs[i] = job[i]
    BY DEF JobState, Steps
  <2>3. job' = Forget(jobs, j)
    BY <2>1
  <2> HIDE DEF jobs
  <2>4. job'[j] = jobs[j]
    BY <2>2, <2>3 DEF Forget
  <2>5. JobStep(j, "ended", job[j].state, job[j].cancelled)
    BY <2>2, <2>3, <2>4, Forgotten DEF JobStep
  <2>6. Allowed(j, "ended", job[j].state, job[j].cancelled)
    BY <1>2, <2>1 DEF Publish, Allowed, Same
  <2>7. job[j] \in JobState
    OBVIOUS
  <2> QED
    BY <2>5, <2>6, <2>7 DEF Steps, States, JobState
<1>3. ASSUME NEW j \in Jobs, StartWalk(j) PROVE JobMoves
  <2>1. PICK r \in Directories :
          job' = Forget([job EXCEPT ![j] = [NewJob EXCEPT !.step = "walk", !.root = r,
                                              !.state = "scanning", !.todo = {r}]], j)
    BY <1>3 DEF StartWalk
  <2> DEFINE new == [NewJob EXCEPT !.step = "walk", !.root = r,
                                   !.state = "scanning", !.todo = {r}]
             jobs == [job EXCEPT ![j] = new]
  <2>2. new \in JobState /\ new.step = "walk" /\ new.state = "scanning"
        /\ new.cancelled = FALSE
    BY NothingIsSeen DEF NewJob, JobState, Steps, States
  <2>3. job[j].step = "unused"
    BY <1>3 DEF StartWalk, Turn
  <2> HIDE DEF new
  <2>4. jobs \in [Jobs -> JobState] /\ jobs[j] = new
        /\ \A i \in Jobs \ {j} : jobs[i] = job[i]
    BY <2>2
  <2>5. job' = Forget(jobs, j)
    BY <2>1 DEF new
  <2> HIDE DEF jobs
  <2>6. job'[j] = jobs[j]
    BY <2>2, <2>4, <2>5 DEF Forget
  <2>7. JobStep(j, "walk", "scanning", FALSE)
    BY <2>2, <2>4, <2>5, <2>6, Forgotten DEF JobStep
  <2>8. Allowed(j, "walk", "scanning", FALSE)
    BY <1>3, <2>3 DEF StartWalk, Allowed
  <2> QED
    BY <2>7, <2>8 DEF Steps, States
<1>4. ASSUME NEW j \in Jobs, ReadDirectory(j) PROVE JobMoves
  <2>1. PICK T, S : job' = [job EXCEPT ![j].todo = T, ![j].seen = S]
    BY <1>4 DEF ReadDirectory
  <2>2. job[j].step = "walk" /\ job[j] \in JobState
    BY <1>4 DEF ReadDirectory
  <2>3. JobStep(j, "walk", job[j].state, job[j].cancelled)
    <3> DEFINE x == [job[j] EXCEPT !.todo = T, !.seen = S]
    <3>1. x.state = job[j].state /\ x.step = "walk" /\ x.cancelled = job[j].cancelled
      BY <2>2 DEF JobState
    <3>2. job' = [job EXCEPT ![j] = x]
      BY <2>1
    <3> HIDE DEF x
    <3> QED
      BY <3>1, <3>2 DEF JobStep
  <2>4. Allowed(j, "walk", job[j].state, job[j].cancelled)
    BY <1>4, <2>2 DEF ReadDirectory, Allowed, Same
  <2> QED
    BY <2>2, <2>3, <2>4 DEF Steps, States, JobState
<1>5. ASSUME NEW j \in Jobs, EndWalk(j) PROVE JobMoves
  <2>1. PICK final \in States, step \in Steps, seen \in {job[j].seen, Nothing} :
          /\ job' = [job EXCEPT ![j].state = final, ![j].step = step, ![j].todo = {},
                                ![j].seen = seen]
          /\ \/ ~job[j].cancelled /\ final = "complete" /\ step = "cache"
             \/ final \in {"cancelled", "failed"} /\ step = "unlock"
    BY <1>5 DEF EndWalk, FinalState, States, Steps
  <2>2. job[j].step = "walk" /\ job[j] \in JobState
    BY <1>5 DEF EndWalk
  <2>3. JobStep(j, step, final, job[j].cancelled)
    <3> DEFINE x == [job[j] EXCEPT !.state = final, !.step = step, !.todo = {}, !.seen = seen]
    <3>1. x.state = final /\ x.step = step /\ x.cancelled = job[j].cancelled
      BY <2>2 DEF JobState
    <3>2. job' = [job EXCEPT ![j] = x]
      BY <2>1
    <3> HIDE DEF x
    <3> QED
      BY <3>1, <3>2 DEF JobStep
  <2>4. job[j].cancelled \in BOOLEAN
    BY <2>2 DEF JobState
  <2>5. Allowed(j, step, final, job[j].cancelled)
    BY <1>5, <2>1, <2>2 DEF EndWalk, Allowed, Same
  <2> QED
    BY <2>1, <2>3, <2>4, <2>5
<1>6. ASSUME NEW j \in Jobs, CacheReport(j) PROVE JobMoves
  <2>1. job' = [job EXCEPT ![j].step = "unlock"] /\ job[j].step = "cache" /\ probe' = probe
    BY <1>6 DEF CacheReport
  <2>2. JobStep(j, "unlock", job[j].state, job[j].cancelled)
    BY <2>1 DEF JobStep, JobState
  <2> DEFINE r == job[j].root
             entry == [from |-> j, seen |-> job[j].seen]
             filled == [cache EXCEPT ![r] = entry]
  <2>3. PICK q : cache' \in {filled, [filled EXCEPT ![q] = NoEntry]}
    BY <1>6 DEF CacheReport
  <2>4. \A d \in Directories :
          cache'[d] \in {cache[d], NoEntry} \/ (d = r /\ cache'[d] = entry)
    BY <2>3
  <2>5. Allowed(j, "unlock", job[j].state, job[j].cancelled)
    BY <2>1, <2>4 DEF Allowed
  <2>6. job[j] \in JobState
    OBVIOUS
  <2> QED
    BY <2>2, <2>5, <2>6 DEF Steps, States, JobState
<1>7. ASSUME NEW j \in Jobs, Unlock(j) PROVE JobMoves
  <2>1. job' = [job EXCEPT ![j].step = "close"] /\ job[j].step = "unlock"
    BY <1>7 DEF Unlock
  <2>2. JobStep(j, "close", job[j].state, job[j].cancelled)
    BY <2>1 DEF JobStep, JobState
  <2>3. Allowed(j, "close", job[j].state, job[j].cancelled)
    BY <1>7, <2>1 DEF Unlock, Allowed, Same
  <2>4. job[j] \in JobState
    OBVIOUS
  <2>5. "close" \in Steps /\ job[j].state \in States /\ job[j].cancelled \in BOOLEAN
    BY <2>4 DEF Steps, States, JobState
  <2> QED
    BY <2>2, <2>3, <2>5
<1>8. ASSUME NEW j \in Jobs, Close(j) PROVE JobMoves
  <2>1. job' = Forget([job EXCEPT ![j].step = "ended"], scan) /\ job[j].step = "close"
    BY <1>8 DEF Close
  <2> DEFINE jobs == [job EXCEPT ![j].step = "ended"]
  <2>2. jobs \in [Jobs -> JobState] /\ jobs[j].step = "ended"
        /\ jobs[j].state = job[j].state /\ jobs[j].cancelled = job[j].cancelled
        /\ \A i \in Jobs \ {j} : jobs[i] = job[i]
    BY DEF JobState, Steps
  <2>3. job' = Forget(jobs, scan)
    BY <2>1
  <2> HIDE DEF jobs
  <2>4. PICK s \in {job[j].state, "none"} : JobStep(j, "ended", s, job[j].cancelled)
    BY <2>2, <2>3, Forgotten DEF JobStep
  <2>5. Allowed(j, "ended", s, job[j].cancelled)
    BY <1>8, <2>1 DEF Close, Allowed, Same
  <2>6. "ended" \in Steps /\ s \in States /\ job[j].cancelled \in BOOLEAN
    BY <2>1 DEF Steps, States, JobState
  <2> QED
    BY <2>4, <2>5, <2>6
<1>9. ASSUME NEW j \in Jobs, Cancel(j) PROVE JobMoves
  <2>1. job' = [job EXCEPT ![j].cancelled = TRUE] /\ job[j].state = "scanning"
    BY <1>9 DEF Cancel
  <2>2. JobStep(j, job[j].step, job[j].state, TRUE)
    BY <2>1 DEF JobStep, JobState
  <2>3. Allowed(j, job[j].step, job[j].state, TRUE)
    BY <1>9, <2>1 DEF Cancel, Allowed, Same
  <2>4. job[j] \in JobState
    OBVIOUS
  <2>5. job[j].step \in Steps /\ job[j].state \in States /\ TRUE \in BOOLEAN
    BY <2>4 DEF Steps, States, JobState
  <2> QED
    BY <2>2, <2>3, <2>5
<1>10. ASSUME NEW k \in Tokens, Preview(k) PROVE JobMoves
  BY <1>10 DEF Preview
<1>11. ASSUME NEW k \in Tokens, Lapse(k) PROVE JobMoves
  BY <1>11 DEF Lapse
<1>12. ASSUME NEW k \in Tokens, Confirm(k) PROVE JobMoves
  BY <1>12 DEF Confirm
<1>13. ASSUME NEW k \in Tokens, Validate(k) PROVE JobMoves
  BY <1>13 DEF Validate
<1>14. ASSUME NEW k \in Tokens, Trash(k) PROVE JobMoves
  BY <1>14 DEF Trash
<1>15. ASSUME NEW k \in Tokens, TrashFails(k) PROVE JobMoves
  BY <1>15 DEF TrashFails
<1>16. ASSUME NEW k \in Tokens, CheckGone(k) PROVE JobMoves
  BY <1>16 DEF CheckGone
<1>17. ASSUME NEW k \in Tokens, Invalidate(k) PROVE JobMoves
  BY <1>17 DEF Invalidate
<1>18. CASE OtherTest
  BY <1>18 DEF OtherTest
<1>19. CASE OtherWrite
  BY <1>19 DEF OtherWrite
<1>20. CASE UNCHANGED vars
  BY <1>20 DEF vars
<1> QED
  BY <1>1, <1>2, <1>3, <1>4, <1>5, <1>6, <1>7, <1>8, <1>9, <1>10, <1>11,
     <1>12, <1>13, <1>14, <1>15, <1>16, <1>17, <1>18, <1>19, <1>20 DEF Next,
     Goroutine

LEMMA StagesStep ==
    ASSUME TypeOK, Stages, [Next]_vars
    PROVE  Stages'
<1> DEFINE Staged(x) == /\ x.step \in {"unused", "found"} => ~x.cancelled
                        /\ x.step = "walk" <=> x.state = "scanning"
                        /\ x.step \in {"found", "cache"} => x.state = "complete"
                        /\ x.cancelled => x.state # "complete"
<1>1. \A i \in Jobs : Staged(job[i])
  BY DEF Stages, Complete
<1> SUFFICES ASSUME NEW i \in Jobs PROVE Staged(job'[i])
  BY DEF Stages, Complete
<1>2. CASE UNCHANGED job
  BY <1>1, <1>2
<1>3. ASSUME NEW j \in Jobs, NEW step \in Steps, NEW state \in States, NEW c \in BOOLEAN,
             JobStep(j, step, state, c), Allowed(j, step, state, c)
      PROVE  Staged(job'[i])
  <2>1. CASE i = j
    <3>1. Staged(job[j])
      BY <1>1
    <3> QED
      BY <1>3, <2>1, <3>1 DEF JobStep, Allowed
  <2>2. CASE i # j
    <3>1. /\ job'[i].step = job[i].step /\ job'[i].cancelled = job[i].cancelled
          /\ \/ job'[i].state = job[i].state
             \/ job'[i].state = "none" /\ job[i].step = "ended"
      BY <1>3, <2>2 DEF JobStep
    <3> QED
      BY <1>1, <3>1
  <2> QED
    BY <2>1, <2>2
<1> QED
  BY <1>2, <1>3, JobSteps DEF JobMoves

LEMMA ProbeHeldStep ==
    ASSUME TypeOK, Stages, ProbeHeld, [Next]_vars
    PROVE  ProbeHeld'
<1> DEFINE Holding == {"walk", "cache", "unlock"}
<1> SUFFICES ASSUME NEW i \in Jobs
             PROVE  job'[i].step \in Holding <=> probe' = i
  BY DEF ProbeHeld
<1>1. \A j \in Jobs : job[j].step \in Holding <=> probe = j
  BY DEF ProbeHeld
<1>2. CASE UNCHANGED job /\ (UNCHANGED probe \/ {probe, probe'} = {Test, None})
  BY <1>1, <1>2, IdsAssumption
<1>3. ASSUME NEW j \in Jobs, NEW step \in Steps, NEW state \in States, NEW c \in BOOLEAN,
             JobStep(j, step, state, c), Allowed(j, step, state, c)
      PROVE  job'[i].step \in Holding <=> probe' = i
  <2>1. \/ probe' = probe /\ (step \in Holding <=> job[j].step \in Holding)
        \/ probe' = j /\ probe = None /\ step \in Holding
        \/ probe' = None /\ job[j].step \in Holding /\ step \notin Holding
    BY <1>3 DEF Allowed, Same
  <2>2. job'[j].step = step /\ \A h \in Jobs \ {j} : job'[h].step = job[h].step
    BY <1>3 DEF JobStep
  <2> QED
    BY <1>1, <2>1, <2>2, IdsAssumption
<1> QED
  BY <1>2, <1>3, JobSteps DEF JobMoves

LEMMA CachedAfterStep ==
    ASSUME TypeOK, Stages, CachedAfter, [Next]_vars
    PROVE  CachedAfter'
<1> DEFINE Past == {"unlock", "close", "ended"}
<1> SUFFICES ASSUME NEW d \in Directories, NEW i \in Jobs, cache'[d].from = i
             PROVE  job'[i].step \in Past /\ ~job'[i].cancelled
  BY DEF CachedAfter
<1>1. cache'[d] # NoEntry
  BY IdsAssumption DEF NoEntry
<1>2. cache[d].from = i => job[i].step \in Past /\ ~job[i].cancelled
  BY DEF CachedAfter
<1>3. CASE UNCHANGED job /\ \A e \in Directories : cache'[e] \in {cache[e], NoEntry}
  BY <1>1, <1>2, <1>3
<1>4. ASSUME NEW j \in Jobs, NEW step \in Steps, NEW state \in States, NEW c \in BOOLEAN,
             JobStep(j, step, state, c), Allowed(j, step, state, c)
      PROVE  job'[i].step \in Past /\ ~job'[i].cancelled
  <2>1. CASE cache[d].from = i
    <3>1. job[i].step \in Past /\ job[i].state # "scanning"
      BY <1>2, <2>1 DEF Stages
    <3> QED
      BY <1>2, <1>4, <2>1, <3>1 DEF JobStep, Allowed
  <2>2. CASE cache[d].from # i
    <3>1. cache'[d] # cache[d]
      BY <2>2
    <3>2. /\ job[j].step = "cache" /\ step = "unlock" /\ c = job[j].cancelled
          /\ cache'[d] = [from |-> j, seen |-> job[j].seen]
      BY <1>1, <1>4, <3>1 DEF Allowed, Same
    <3>3. i = j /\ ~job[j].cancelled
      BY <3>2 DEF Stages
    <3> QED
      BY <1>4, <3>2, <3>3 DEF JobStep
  <2> QED
    BY <2>1, <2>2
<1> QED
  BY <1>3, <1>4, JobSteps DEF JobMoves

\* CancelStorageScan: the answer "true" holds.
LEMMA CancelThen == Stages /\ CachedAfter => CancelHolds
BY DEF Stages, CachedAfter, CancelHolds

-----------------------------------------------------------------------------
(* Deleted nodes                                                           *)

\* Identities are given out in order, and what was deleted has another.
Fresh == /\ \A n \in Nodes : identity[n] <= writes
         /\ \A m \in purged : m[2] # 0 /\ m[2] <= writes /\ m[2] # identity[m[1]]
         /\ \A k \in Tokens : \A m \in token[k].moved :
              /\ m[2] # 0 /\ m[2] <= writes
              /\ token[k].step \in {"moved", "gone"} =>
                    m[2] # identity[m[1]] /\ Within(token[k].node, m[1])

\* A walk reads below its root, and a report is about what is there.
Inside ==
    /\ \A j \in Jobs :
         /\ job[j].step \in {"walk", "cache"} => job[j].root \in Directories
         /\ \A d \in job[j].todo : Within(job[j].root, d)
         /\ \A n \in Nodes : job[j].seen[n] # 0 => Within(job[j].root, n)
    /\ \A d \in Directories, n \in Nodes : cache[d].seen[n] # 0 => Within(d, n)

\* The same of a report that is not yet in the cache.
WalkUnlessRaced == \A j \in Jobs, n \in Nodes :
    job[j].step \in {"walk", "cache"} /\ <<n, job[j].seen[n]>> \in purged => j \in raced


NoDeletedShown == Fresh /\ Inside /\ WalkUnlessRaced /\ NoDeletedUnlessRaced

\* What a step does to the files: each stays, goes, or has a new identity.
FilesMove ==
    \/ UNCHANGED <<identity, writes>>
    \/ /\ writes' = writes + 1
       /\ \A n \in Nodes : identity'[n] \in {identity[n], 0, writes + 1}

\* What a step does to a confirmation.
TrashStep(x, y) ==
    /\ x.step = "trash" /\ y.step = "moved" /\ y.node = x.node /\ y.reviewed = x.reviewed
    /\ x.swapped => y.swapped
    /\ y.listed = x.listed
    /\ y.moved = {<<n, identity[n]>> : n \in {n \in Nodes : Within(x.node, n) /\ Present(n)}}
    /\ Present(x.node)
    /\ \A m \in y.moved : /\ m \in Nodes \X Nat
                          /\ m[2] = identity[m[1]] /\ m[2] # 0 /\ identity'[m[1]] = 0
                          /\ Within(x.node, m[1])

KeptStep(x, y) ==
    /\ y.node = x.node /\ y.reviewed = x.reviewed /\ y.moved = x.moved /\ y.listed = x.listed
    /\ x.swapped => y.swapped
    /\ \/ /\ y.step = x.step
          /\ x.step = "trash" => \/ y.swapped
                                 \/ x.node \in Nodes => identity'[x.node] \in {identity[x.node], 0}
       \/ x.step = "pending" /\ y.step = "confirmed"
       \/ x.step = "confirmed" /\ y.step = "trash" /\ identity[x.node] = x.reviewed
          /\ UNCHANGED identity
       \/ x.step = "moved" /\ y.step = "gone"

\* A review begins, or the authorisation is gone.
NewlyReviewed(y) == /\ y.node \in Nodes \ Volumes /\ y.reviewed = identity[y.node] /\ Present(y.node)
                    /\ y.listed = Entries(y.node) /\ UNCHANGED identity

Begun(y) == /\ y.moved = {} /\ y.step \notin {"confirmed", "trash"}
            /\ y.step = "pending" => NewlyReviewed(y)

TokensMove == \A k \in Tokens : \/ Begun(token'[k])
                                \/ KeptStep(token[k], token'[k])
                                \/ TrashStep(token[k], token'[k])

\* What a step does to the walk of a job.
Reading(x) == x.step \in {"walk", "cache"}

ReadStep(x, y) ==
    /\ x.step = "walk" /\ y.root = x.root
    /\ \E d \in x.todo :
         /\ y.todo = (x.todo \ {d}) \cup (Entries(d) \cap Directories)
         /\ y.seen = [n \in Nodes |-> IF n \in Entries(d) THEN identity[n] ELSE x.seen[n]]

WalkStep(x, y) ==
    \/ /\ y.root = x.root /\ y.seen = x.seen /\ y.todo \in {x.todo, {}}
       /\ Reading(y) => Reading(x)
    \/ /\ y.seen = Nothing /\ y.todo \subseteq {y.root}
       /\ Reading(y) => y.root \in Directories
    \/ ReadStep(x, y)
    \/ /\ ~Reading(y) /\ y.todo = {}
       /\ y.root \in Directories /\ y.seen = cache[y.root].seen

WalksMove == \A i \in Jobs : WalkStep(job[i], job'[i])

\* What a step does to the cache and to the histories.
CacheMoves ==
    \/ /\ \A d \in Directories :
            \/ cache'[d] \in {cache[d], NoEntry}
            \/ \E j \in Jobs : /\ job[j].step = "cache" /\ d = job[j].root
                               /\ cache'[d] = [from |-> j, seen |-> job[j].seen]
       /\ UNCHANGED history
    \/ \E k \in Tokens :
         /\ token[k].step = "gone"
         /\ \A d \in Directories :
              cache'[d] = IF d \in Related(token[k].node) THEN NoEntry ELSE cache[d]
         /\ purged' = purged \cup token[k].moved
         /\ raced' = raced \cup {j \in Jobs : Reading(job[j])}
         /\ UNCHANGED <<job, identity>>

LEMMA FileSteps ==
    ASSUME TypeOK, [Next]_vars
    PROVE  FilesMove
<1> USE DEF TypeOK, FilesMove, fileSystem
<1>1. ASSUME NEW j \in Jobs, StartCached(j) PROVE FilesMove
  BY <1>1 DEF StartCached, Turn, NewJob
<1>2. ASSUME NEW j \in Jobs, Publish(j) PROVE FilesMove
  BY <1>2 DEF Publish
<1>3. ASSUME NEW j \in Jobs, StartWalk(j) PROVE FilesMove
  BY <1>3 DEF StartWalk, Turn, NewJob
<1>4. ASSUME NEW j \in Jobs, ReadDirectory(j) PROVE FilesMove
  BY <1>4 DEF ReadDirectory
<1>5. ASSUME NEW j \in Jobs, EndWalk(j) PROVE FilesMove
  BY <1>5 DEF EndWalk, FinalState
<1>6. ASSUME NEW j \in Jobs, CacheReport(j) PROVE FilesMove
  BY <1>6 DEF CacheReport
<1>7. ASSUME NEW j \in Jobs, Unlock(j) PROVE FilesMove
  BY <1>7 DEF Unlock
<1>8. ASSUME NEW j \in Jobs, Close(j) PROVE FilesMove
  BY <1>8 DEF Close
<1>9. ASSUME NEW j \in Jobs, Cancel(j) PROVE FilesMove
  BY <1>9 DEF Cancel
<1>10. ASSUME NEW k \in Tokens, Preview(k) PROVE FilesMove
  BY <1>10 DEF Preview
<1>11. ASSUME NEW k \in Tokens, Lapse(k) PROVE FilesMove
  BY <1>11 DEF Lapse
<1>12. ASSUME NEW k \in Tokens, Confirm(k) PROVE FilesMove
  BY <1>12 DEF Confirm
<1>13. ASSUME NEW k \in Tokens, Validate(k) PROVE FilesMove
  BY <1>13 DEF Validate
<1>14. ASSUME NEW k \in Tokens, Trash(k) PROVE FilesMove
  <2> DEFINE node == token[k].node
             gone == {n \in Nodes : Within(node, n) /\ Present(n)}
  <2>1. /\ writes' = writes + 1
        /\ identity' = [n \in Nodes |-> IF n \in gone THEN 0
                                        ELSE IF n = Parent[node] THEN writes + 1 ELSE identity[n]]
    BY <1>14 DEF Trash
  <2> QED
    BY <2>1
<1>15. ASSUME NEW k \in Tokens, TrashFails(k) PROVE FilesMove
  BY <1>15 DEF TrashFails
<1>16. ASSUME NEW k \in Tokens, CheckGone(k) PROVE FilesMove
  BY <1>16 DEF CheckGone
<1>17. ASSUME NEW k \in Tokens, Invalidate(k) PROVE FilesMove
  BY <1>17 DEF Invalidate
<1>18. CASE OtherTest
  BY <1>18 DEF OtherTest
<1>19. CASE OtherWrite
  <2>1. PICK n \in Nodes \ Directories, new \in {0, writes + 1} :
          identity' = [m \in Nodes |-> IF m = n THEN new
                         ELSE IF m = Parent[n] /\ ~(new # 0 /\ Present(n)) THEN writes + 1
                         ELSE identity[m]]
    BY <1>19 DEF OtherWrite
  <2>2. writes' = writes + 1
    BY <1>19 DEF OtherWrite
  <2> QED
    BY <2>1, <2>2
<1>20. CASE UNCHANGED vars
  BY <1>20 DEF vars
<1> QED
  BY <1>1, <1>2, <1>3, <1>4, <1>5, <1>6, <1>7, <1>8, <1>9, <1>10, <1>11,
     <1>12, <1>13, <1>14, <1>15, <1>16, <1>17, <1>18, <1>19, <1>20 DEF Next,
     Goroutine


\* A confirmation that nothing touches, while no file changes.
LEMMA TokensStay == ASSUME UNCHANGED <<token, identity>> PROVE TokensMove
BY DEF TokensMove, KeptStep

LEMMA TokenSteps ==
    ASSUME TypeOK, [Next]_vars
    PROVE  TokensMove
<1> USE DEF TypeOK
<1>1. ASSUME NEW j \in Jobs, StartCached(j) PROVE TokensMove
  BY <1>1, TokensStay DEF StartCached, Turn, NewJob, fileSystem
<1>2. ASSUME NEW j \in Jobs, Publish(j) PROVE TokensMove
  <2>1. token' = Unnameable(j) /\ UNCHANGED identity
    BY <1>2 DEF Publish, fileSystem
  <2> SUFFICES ASSUME NEW i \in Tokens
               PROVE  \/ Begun(token'[i])
                      \/ KeptStep(token[i], token'[i])
    BY DEF TokensMove
  <2>2. CASE token'[i] = Over
    BY <2>2 DEF Over, NewToken, Begun
  <2>3. CASE token'[i] = token[i]
    BY <2>1, <2>3 DEF KeptStep
  <2> QED
    BY <2>1, <2>2, <2>3, Unnamed
<1>3. ASSUME NEW j \in Jobs, StartWalk(j) PROVE TokensMove
  <2>1. token' = Unnameable(j) /\ UNCHANGED identity
    BY <1>3 DEF StartWalk, fileSystem
  <2> SUFFICES ASSUME NEW i \in Tokens
               PROVE  \/ Begun(token'[i])
                      \/ KeptStep(token[i], token'[i])
    BY DEF TokensMove
  <2>2. CASE token'[i] = Over
    BY <2>2 DEF Over, NewToken, Begun
  <2>3. CASE token'[i] = token[i]
    BY <2>1, <2>3 DEF KeptStep
  <2> QED
    BY <2>1, <2>2, <2>3, Unnamed
<1>4. ASSUME NEW j \in Jobs, ReadDirectory(j) PROVE TokensMove
  BY <1>4, TokensStay DEF ReadDirectory, fileSystem
<1>5. ASSUME NEW j \in Jobs, EndWalk(j) PROVE TokensMove
  BY <1>5, TokensStay DEF EndWalk, FinalState, fileSystem
<1>6. ASSUME NEW j \in Jobs, CacheReport(j) PROVE TokensMove
  BY <1>6, TokensStay DEF CacheReport, fileSystem
<1>7. ASSUME NEW j \in Jobs, Unlock(j) PROVE TokensMove
  BY <1>7, TokensStay DEF Unlock, fileSystem
<1>8. ASSUME NEW j \in Jobs, Close(j) PROVE TokensMove
  BY <1>8, TokensStay DEF Close, fileSystem
<1>9. ASSUME NEW j \in Jobs, Cancel(j) PROVE TokensMove
  BY <1>9, TokensStay DEF Cancel, fileSystem
<1>10. ASSUME NEW k \in Tokens, Preview(k) PROVE TokensMove
  <2>1. UNCHANGED identity /\ \A i \in Tokens \ {k} : token'[i] = token[i]
    BY <1>10 DEF Preview, fileSystem
  <2>2. \A i \in Tokens \ {k} : KeptStep(token[i], token'[i])
    BY <2>1 DEF KeptStep
  <2>3. Begun(token'[k])
    <3>1. PICK n \in Targets(scan) :
            /\ Present(n)
            /\ token' = [token EXCEPT ![k] = [NewToken EXCEPT !.step = "pending", !.job = scan,
                                               !.node = n, !.reviewed = identity[n],
                                               !.listed = Entries(n)]]
      BY <1>10 DEF Preview
    <3>2. n \in Nodes \ Volumes
      BY <3>1, VolumesOnTop DEF Targets, Below
    <3> QED
      BY <2>1, <3>1, <3>2 DEF NewToken, Begun, NewlyReviewed
  <2> QED
    BY <2>2, <2>3 DEF TokensMove
<1>11. ASSUME NEW k \in Tokens, Lapse(k) PROVE TokensMove
  <2>1. UNCHANGED identity /\ \A i \in Tokens \ {k} : token'[i] = token[i]
    BY <1>11 DEF Lapse, fileSystem
  <2>2. \A i \in Tokens \ {k} : KeptStep(token[i], token'[i])
    BY <2>1 DEF KeptStep
  <2>3. Begun(token'[k])
    BY <1>11 DEF Lapse, Over, NewToken, Begun
  <2> QED
    BY <2>2, <2>3 DEF TokensMove
<1>12. ASSUME NEW k \in Tokens, Confirm(k) PROVE TokensMove
  <2>1. UNCHANGED identity /\ \A i \in Tokens \ {k} : token'[i] = token[i]
    BY <1>12 DEF Confirm, fileSystem
  <2>2. \A i \in Tokens \ {k} : KeptStep(token[i], token'[i])
    BY <2>1 DEF KeptStep
  <2>3. KeptStep(token[k], token'[k])
    BY <1>12 DEF Confirm, KeptStep, TokenState
  <2> QED
    BY <2>2, <2>3 DEF TokensMove
<1>13. ASSUME NEW k \in Tokens, Validate(k) PROVE TokensMove
  <2>1. UNCHANGED identity /\ \A i \in Tokens \ {k} : token'[i] = token[i]
    BY <1>13 DEF Validate, fileSystem
  <2>2. \A i \in Tokens \ {k} : KeptStep(token[i], token'[i])
    BY <2>1 DEF KeptStep
  <2>3. KeptStep(token[k], token'[k]) \/ (Begun(token'[k]))
    <3>1. CASE token'[k] = Over
      BY <3>1 DEF Over, NewToken, Begun
    <3>2. CASE token'[k] = [token[k] EXCEPT !.step = "trash"]
               /\ identity[token[k].node] = token[k].reviewed
      BY <1>13, <3>2 DEF Validate, KeptStep, fileSystem, TokenState
    <3> QED
      BY <1>13, <3>1, <3>2 DEF Validate
  <2> QED
    BY <2>2, <2>3 DEF TokensMove
<1>14. ASSUME NEW k \in Tokens, Trash(k) PROVE TokensMove
  <2> DEFINE node == token[k].node
             gone == {n \in Nodes : Within(node, n) /\ Present(n)}
             parent == Parent[node]
             changed == (gone \cup {parent}) \ {node}
             others == Swapped(changed)
             move == {<<n, identity[n]>> : n \in gone}
  <2>1. /\ token[k].step = "trash" /\ Present(node)
        /\ identity' = [n \in Nodes |-> IF n \in gone THEN 0
                                        ELSE IF n = parent THEN writes + 1 ELSE identity[n]]
        /\ token' = [others EXCEPT ![k].step = "moved", ![k].moved = move]
    BY <1>14 DEF Trash
  <2>2. /\ others \in [Tokens -> TokenState]
        /\ \A i \in Tokens :
             /\ others[i].step = token[i].step /\ others[i].node = token[i].node
             /\ others[i].reviewed = token[i].reviewed /\ others[i].moved = token[i].moved
             /\ others[i].listed = token[i].listed
             /\ token[i].swapped => others[i].swapped
             /\ token[i].step = "trash" /\ token[i].node \in changed => others[i].swapped
    BY SwappedOnly
  <2>3. \A m \in move : /\ m \in Nodes \X Nat /\ m[2] = identity[m[1]] /\ m[2] # 0
                        /\ identity'[m[1]] = 0 /\ Within(node, m[1])
    BY <2>1 DEF Present
  <2>4. \A n \in Nodes \ changed : identity'[n] \in {identity[n], 0}
    BY <2>1, WithinItself
  <2>8. move = {<<n, identity[n]>> : n \in {n \in Nodes : Within(token[k].node, n) /\ Present(n)}}
    OBVIOUS
  <2> HIDE DEF others, move, changed
  <2>5. token'[k].step = "moved" /\ token'[k].moved = move /\ token'[k].node = node
        /\ token'[k].reviewed = token[k].reviewed /\ token'[k].swapped = others[k].swapped
        /\ token'[k].listed = token[k].listed
    BY <2>1, <2>2 DEF TokenState
  <2>6. TrashStep(token[k], token'[k])
    BY <2>1, <2>2, <2>3, <2>5, <2>8 DEF TrashStep
  <2>7. ASSUME NEW i \in Tokens \ {k} PROVE KeptStep(token[i], token'[i])
    <3>1. token'[i] = others[i]
      BY <2>1, <2>2
    <3> QED
      BY <2>2, <2>4, <3>1 DEF KeptStep
  <2> QED
    BY <2>6, <2>7 DEF TokensMove
<1>15. ASSUME NEW k \in Tokens, TrashFails(k) PROVE TokensMove
  <2>1. UNCHANGED identity /\ \A i \in Tokens \ {k} : token'[i] = token[i]
    BY <1>15 DEF TrashFails, fileSystem
  <2>2. \A i \in Tokens \ {k} : KeptStep(token[i], token'[i])
    BY <2>1 DEF KeptStep
  <2>3. Begun(token'[k])
    BY <1>15 DEF TrashFails, Over, NewToken, Begun
  <2> QED
    BY <2>2, <2>3 DEF TokensMove
<1>16. ASSUME NEW k \in Tokens, CheckGone(k) PROVE TokensMove
  <2>1. UNCHANGED identity /\ \A i \in Tokens \ {k} : token'[i] = token[i]
    BY <1>16 DEF CheckGone, fileSystem
  <2>2. \A i \in Tokens \ {k} : KeptStep(token[i], token'[i])
    BY <2>1 DEF KeptStep
  <2>3. KeptStep(token[k], token'[k]) \/ (Begun(token'[k]))
    <3>1. CASE token'[k] = Over
      BY <3>1 DEF Over, NewToken, Begun
    <3>2. CASE token'[k] = [token[k] EXCEPT !.step = "gone"]
      BY <1>16, <3>2 DEF CheckGone, KeptStep, TokenState
    <3> QED
      BY <1>16, <3>1, <3>2 DEF CheckGone
  <2> QED
    BY <2>2, <2>3 DEF TokensMove
<1>17. ASSUME NEW k \in Tokens, Invalidate(k) PROVE TokensMove
  <2>1. UNCHANGED identity /\ \A i \in Tokens \ {k} : token'[i] = token[i]
    BY <1>17 DEF Invalidate, fileSystem
  <2>2. \A i \in Tokens \ {k} : KeptStep(token[i], token'[i])
    BY <2>1 DEF KeptStep
  <2>3. Begun(token'[k])
    BY <1>17 DEF Invalidate, Over, NewToken, Begun
  <2> QED
    BY <2>2, <2>3 DEF TokensMove
<1>18. CASE OtherTest
  BY <1>18, TokensStay DEF OtherTest, fileSystem
<1>19. CASE OtherWrite
  <2>1. PICK n \in Nodes \ Directories, new \in {0, writes + 1} :
          LET same == new # 0 /\ Present(n)
          IN /\ identity' = [m \in Nodes |-> IF m = n THEN new
                               ELSE IF m = Parent[n] /\ ~same THEN writes + 1
                               ELSE identity[m]]
             /\ token' = Swapped({n} \cup IF same THEN {} ELSE {Parent[n]})
    BY <1>19 DEF OtherWrite
  <2> DEFINE changed == {n} \cup IF new # 0 /\ Present(n) THEN {} ELSE {Parent[n]}
  <2>2. /\ token' = Swapped(changed)
        /\ \A m \in Nodes \ changed : identity'[m] = identity[m]
    BY <2>1
  <2> HIDE DEF changed
  <2>3. ASSUME NEW i \in Tokens PROVE KeptStep(token[i], token'[i])
    BY <2>2, SwappedOnly DEF KeptStep
  <2> QED
    BY <2>3 DEF TokensMove
<1>20. CASE UNCHANGED vars
  BY <1>20, TokensStay DEF vars, fileSystem
<1> QED
  BY <1>1, <1>2, <1>3, <1>4, <1>5, <1>6, <1>7, <1>8, <1>9, <1>10, <1>11,
     <1>12, <1>13, <1>14, <1>15, <1>16, <1>17, <1>18, <1>19, <1>20 DEF Next,
     Goroutine


LEMMA WalksStay == ASSUME UNCHANGED job PROVE WalksMove
BY DEF WalksMove, WalkStep

LEMMA WalkSteps ==
    ASSUME TypeOK, [Next]_vars
    PROVE  WalksMove
<1> USE DEF TypeOK
<1>1. ASSUME NEW j \in Jobs, StartCached(j) PROVE WalksMove
  <2>1. PICK r \in Directories :
          job' = [job EXCEPT ![j] = [NewJob EXCEPT !.step = "found", !.state = "complete",
                                                   !.root = r, !.seen = cache[r].seen]]
    BY <1>1 DEF StartCached
  <2>2. WalkStep(job[j], job'[j])
    BY <2>1 DEF WalkStep, NewJob, Reading
  <2>3. ASSUME NEW i \in Jobs \ {j} PROVE WalkStep(job[i], job'[i])
    BY <2>1 DEF WalkStep
  <2> QED
    BY <2>2, <2>3 DEF WalksMove
<1>2. ASSUME NEW j \in Jobs, Publish(j) PROVE WalksMove
  <2> DEFINE jobs == [job EXCEPT ![j].step = "ended"]
  <2>1. job' = Forget(jobs, j)
    BY <1>2 DEF Publish
  <2>2. /\ jobs \in [Jobs -> JobState]
        /\ \A i \in Jobs : /\ jobs[i].root = job[i].root /\ jobs[i].seen = job[i].seen
                           /\ jobs[i].todo = job[i].todo
                           /\ Reading(jobs[i]) => Reading(job[i])
    BY DEF JobState, Steps, Reading
  <2> HIDE DEF jobs
  <2>3. ASSUME NEW i \in Jobs PROVE WalkStep(job[i], job'[i])
    BY <2>1, <2>2, Forgotten DEF WalkStep, Reading
  <2> QED
    BY <2>3 DEF WalksMove
<1>3. ASSUME NEW j \in Jobs, StartWalk(j) PROVE WalksMove
  <2>1. PICK r \in Directories :
          job' = Forget([job EXCEPT ![j] = [NewJob EXCEPT !.step = "walk", !.root = r,
                                              !.state = "scanning", !.todo = {r}]], j)
    BY <1>3 DEF StartWalk
  <2> DEFINE new == [NewJob EXCEPT !.step = "walk", !.root = r,
                                   !.state = "scanning", !.todo = {r}]
             jobs == [job EXCEPT ![j] = new]
  <2>2. new \in JobState /\ new.step = "walk" /\ new.root = r /\ new.todo = {r}
        /\ new.seen = Nothing
    BY NothingIsSeen DEF NewJob, JobState, Steps, States
  <2> HIDE DEF new
  <2>3. jobs \in [Jobs -> JobState] /\ jobs[j] = new
        /\ \A i \in Jobs \ {j} : jobs[i] = job[i]
    BY <2>2
  <2>4. job' = Forget(jobs, j)
    BY <2>1 DEF new
  <2> HIDE DEF jobs
  <2>5. ASSUME NEW i \in Jobs PROVE WalkStep(job[i], job'[i])
    <3>1. CASE job'[i] = jobs[i]
      BY <2>2, <2>3, <3>1 DEF WalkStep, Reading
    <3>2. CASE job'[i] # jobs[i]
      BY <2>3, <2>4, <3>2, Forgotten DEF WalkStep, Reading
    <3> QED
      BY <3>1, <3>2
  <2> QED
    BY <2>5 DEF WalksMove
<1>4. ASSUME NEW j \in Jobs, ReadDirectory(j) PROVE WalksMove
  <2>1. PICK d \in job[j].todo :
          job' = [job EXCEPT
            ![j].todo = (@ \ {d}) \cup (Entries(d) \cap Directories),
            ![j].seen = [n \in Nodes |-> IF n \in Entries(d) THEN identity[n] ELSE @[n]]]
    BY <1>4 DEF ReadDirectory
  <2> DEFINE todo == (job[j].todo \ {d}) \cup (Entries(d) \cap Directories)
             seen == [n \in Nodes |-> IF n \in Entries(d) THEN identity[n] ELSE job[j].seen[n]]
  <2>2. job' = [job EXCEPT ![j].todo = todo, ![j].seen = seen]
    BY <2>1
  <2>3. job[j].step = "walk" /\ job[j] \in JobState
    BY <1>4 DEF ReadDirectory
  <2>4. job'[j].todo = todo /\ job'[j].seen = seen /\ job'[j].root = job[j].root
    <3> HIDE DEF todo, seen
    <3> QED
      BY <2>2, <2>3 DEF JobState
  <2>5. WalkStep(job[j], job'[j])
    BY <2>3, <2>4 DEF WalkStep, ReadStep
  <2>6. ASSUME NEW i \in Jobs \ {j} PROVE WalkStep(job[i], job'[i])
    BY <2>1 DEF WalkStep
  <2> QED
    BY <2>5, <2>6 DEF WalksMove
<1>5. ASSUME NEW j \in Jobs, EndWalk(j) PROVE WalksMove
  <2>0. PICK end \in WalkEnds(j) :
          LET final == FinalState(j, end)
              complete == final = "complete"
          IN job' = [job EXCEPT ![j].state = final,
                                ![j].step = IF complete THEN "cache" ELSE "unlock",
                                ![j].todo = {},
                                ![j].seen = IF complete THEN @ ELSE Nothing]
    BY <1>5 DEF EndWalk
  <2>1. PICK final, step, seen :
          /\ job' = [job EXCEPT ![j].state = final, ![j].step = step, ![j].todo = {},
                                ![j].seen = seen]
          /\ seen = job[j].seen \/ (seen = Nothing /\ step = "unlock")
    BY <2>0
  <2>2. job[j].step = "walk" /\ job[j] \in JobState
    BY <1>5 DEF EndWalk
  <2>3. job'[j].todo = {} /\ job'[j].seen = seen /\ job'[j].root = job[j].root
        /\ job'[j].step = step
    BY <2>1, <2>2 DEF JobState
  <2>4. WalkStep(job[j], job'[j])
    BY <2>1, <2>2, <2>3 DEF WalkStep, Reading
  <2>5. ASSUME NEW i \in Jobs \ {j} PROVE WalkStep(job[i], job'[i])
    BY <2>1 DEF WalkStep
  <2> QED
    BY <2>4, <2>5 DEF WalksMove
<1>6. ASSUME NEW j \in Jobs, CacheReport(j) PROVE WalksMove
  <2>1. \A i \in Jobs : /\ job'[i].root = job[i].root /\ job'[i].seen = job[i].seen
                        /\ job'[i].todo = job[i].todo
                        /\ Reading(job'[i]) => Reading(job[i])
    BY <1>6 DEF CacheReport, Reading, JobState
  <2> QED
    BY <2>1 DEF WalksMove, WalkStep
<1>7. ASSUME NEW j \in Jobs, Unlock(j) PROVE WalksMove
  <2>1. \A i \in Jobs : /\ job'[i].root = job[i].root /\ job'[i].seen = job[i].seen
                        /\ job'[i].todo = job[i].todo
                        /\ Reading(job'[i]) => Reading(job[i])
    BY <1>7 DEF Unlock, Reading, JobState
  <2> QED
    BY <2>1 DEF WalksMove, WalkStep
<1>8. ASSUME NEW j \in Jobs, Close(j) PROVE WalksMove
  <2> DEFINE jobs == [job EXCEPT ![j].step = "ended"]
  <2>1. job' = Forget(jobs, scan)
    BY <1>8 DEF Close
  <2>2. /\ jobs \in [Jobs -> JobState]
        /\ \A i \in Jobs : /\ jobs[i].root = job[i].root /\ jobs[i].seen = job[i].seen
                           /\ jobs[i].todo = job[i].todo
                           /\ Reading(jobs[i]) => Reading(job[i])
    BY DEF JobState, Steps, Reading
  <2> HIDE DEF jobs
  <2>3. ASSUME NEW i \in Jobs PROVE WalkStep(job[i], job'[i])
    BY <2>1, <2>2, Forgotten DEF WalkStep, Reading
  <2> QED
    BY <2>3 DEF WalksMove
<1>9. ASSUME NEW j \in Jobs, Cancel(j) PROVE WalksMove
  <2>1. \A i \in Jobs : /\ job'[i].root = job[i].root /\ job'[i].seen = job[i].seen
                        /\ job'[i].todo = job[i].todo
                        /\ Reading(job'[i]) => Reading(job[i])
    BY <1>9 DEF Cancel, Reading, JobState
  <2> QED
    BY <2>1 DEF WalksMove, WalkStep
<1>10. ASSUME NEW k \in Tokens, Preview(k) PROVE WalksMove
  BY <1>10, WalksStay DEF Preview
<1>11. ASSUME NEW k \in Tokens, Lapse(k) PROVE WalksMove
  BY <1>11, WalksStay DEF Lapse
<1>12. ASSUME NEW k \in Tokens, Confirm(k) PROVE WalksMove
  BY <1>12, WalksStay DEF Confirm
<1>13. ASSUME NEW k \in Tokens, Validate(k) PROVE WalksMove
  BY <1>13, WalksStay DEF Validate
<1>14. ASSUME NEW k \in Tokens, Trash(k) PROVE WalksMove
  BY <1>14, WalksStay DEF Trash
<1>15. ASSUME NEW k \in Tokens, TrashFails(k) PROVE WalksMove
  BY <1>15, WalksStay DEF TrashFails
<1>16. ASSUME NEW k \in Tokens, CheckGone(k) PROVE WalksMove
  BY <1>16, WalksStay DEF CheckGone
<1>17. ASSUME NEW k \in Tokens, Invalidate(k) PROVE WalksMove
  BY <1>17, WalksStay DEF Invalidate
<1>18. CASE OtherTest
  BY <1>18, WalksStay DEF OtherTest
<1>19. CASE OtherWrite
  BY <1>19, WalksStay DEF OtherWrite
<1>20. CASE UNCHANGED vars
  BY <1>20, WalksStay DEF vars
<1> QED
  BY <1>1, <1>2, <1>3, <1>4, <1>5, <1>6, <1>7, <1>8, <1>9, <1>10, <1>11,
     <1>12, <1>13, <1>14, <1>15, <1>16, <1>17, <1>18, <1>19, <1>20 DEF Next,
     Goroutine

LEMMA CacheSteps ==
    ASSUME TypeOK, [Next]_vars
    PROVE  CacheMoves
<1> USE DEF TypeOK
<1>1. ASSUME NEW j \in Jobs, StartCached(j) PROVE CacheMoves
  BY <1>1 DEF StartCached, Turn, NewJob, CacheMoves
<1>2. ASSUME NEW j \in Jobs, Publish(j) PROVE CacheMoves
  BY <1>2 DEF Publish, CacheMoves
<1>3. ASSUME NEW j \in Jobs, StartWalk(j) PROVE CacheMoves
  BY <1>3 DEF StartWalk, Turn, NewJob, CacheMoves
<1>4. ASSUME NEW j \in Jobs, ReadDirectory(j) PROVE CacheMoves
  BY <1>4 DEF ReadDirectory, CacheMoves
<1>5. ASSUME NEW j \in Jobs, EndWalk(j) PROVE CacheMoves
  BY <1>5 DEF EndWalk, FinalState, CacheMoves
<1>6. ASSUME NEW j \in Jobs, CacheReport(j) PROVE CacheMoves
  <2> DEFINE r == job[j].root
             entry == [from |-> j, seen |-> job[j].seen]
             filled == [cache EXCEPT ![r] = entry]
  <2>1. PICK q : cache' \in {filled, [filled EXCEPT ![q] = NoEntry]}
    BY <1>6 DEF CacheReport
  <2>2. job[j].step = "cache" /\ UNCHANGED history
    BY <1>6 DEF CacheReport
  <2>3. \A d \in Directories :
          cache'[d] \in {cache[d], NoEntry} \/ (d = r /\ cache'[d] = entry)
    BY <2>1
  <2> QED
    BY <2>2, <2>3 DEF CacheMoves
<1>7. ASSUME NEW j \in Jobs, Unlock(j) PROVE CacheMoves
  BY <1>7 DEF Unlock, CacheMoves
<1>8. ASSUME NEW j \in Jobs, Close(j) PROVE CacheMoves
  BY <1>8 DEF Close, CacheMoves
<1>9. ASSUME NEW j \in Jobs, Cancel(j) PROVE CacheMoves
  BY <1>9 DEF Cancel, CacheMoves
<1>10. ASSUME NEW k \in Tokens, Preview(k) PROVE CacheMoves
  BY <1>10 DEF Preview, CacheMoves
<1>11. ASSUME NEW k \in Tokens, Lapse(k) PROVE CacheMoves
  BY <1>11 DEF Lapse, CacheMoves
<1>12. ASSUME NEW k \in Tokens, Confirm(k) PROVE CacheMoves
  BY <1>12 DEF Confirm, CacheMoves
<1>13. ASSUME NEW k \in Tokens, Validate(k) PROVE CacheMoves
  BY <1>13 DEF Validate, CacheMoves
<1>14. ASSUME NEW k \in Tokens, Trash(k) PROVE CacheMoves
  BY <1>14 DEF Trash, CacheMoves
<1>15. ASSUME NEW k \in Tokens, TrashFails(k) PROVE CacheMoves
  BY <1>15 DEF TrashFails, CacheMoves
<1>16. ASSUME NEW k \in Tokens, CheckGone(k) PROVE CacheMoves
  BY <1>16 DEF CheckGone, CacheMoves
<1>17. ASSUME NEW k \in Tokens, Invalidate(k) PROVE CacheMoves
  BY <1>17 DEF Invalidate, CacheMoves, Reading, fileSystem
<1>18. CASE OtherTest
  BY <1>18 DEF OtherTest, CacheMoves
<1>19. CASE OtherWrite
  BY <1>19 DEF OtherWrite, CacheMoves
<1>20. CASE UNCHANGED vars
  BY <1>20 DEF vars, history, CacheMoves
<1> QED
  BY <1>1, <1>2, <1>3, <1>4, <1>5, <1>6, <1>7, <1>8, <1>9, <1>10, <1>11,
     <1>12, <1>13, <1>14, <1>15, <1>16, <1>17, <1>18, <1>19, <1>20 DEF Next,
     Goroutine

LEMMA FreshStep ==
    ASSUME TypeOK, Fresh, [Next]_vars
    PROVE  Fresh'
<1> DEFINE Past(m) == m[2] # 0 /\ m[2] <= writes
           Past1(m) == m[2] # 0 /\ m[2] <= writes'
<1>1. /\ writes \in Nat /\ writes' \in Nat
      /\ \A n \in Nodes : identity[n] \in Nat /\ identity'[n] \in Nat
      /\ purged \subseteq Nodes \X Nat
      /\ \A k \in Tokens : token[k].moved \subseteq Nodes \X Nat
  BY TypeStep DEF TypeOK, TokenState
<1>2. FilesMove /\ TokensMove /\ CacheMoves
  BY FileSteps, TokenSteps, CacheSteps
<1>3. /\ writes' >= writes
      /\ \A n \in Nodes : \/ identity'[n] \in {identity[n], 0}
                          \/ identity'[n] > writes
      /\ \A n \in Nodes : identity'[n] <= writes'
  BY <1>1, <1>2 DEF FilesMove, Fresh
<1>4. ASSUME NEW m \in Nodes \X Nat, Past(m)
      PROVE  Past1(m) /\ (m[2] # identity[m[1]] => m[2] # identity'[m[1]])
  BY <1>1, <1>3, <1>4
<1>5. ASSUME NEW m \in purged' PROVE Past1(m) /\ m[2] # identity'[m[1]]
  <2>1. Past(m) /\ m[2] # identity[m[1]] /\ m \in Nodes \X Nat
    BY <1>1, <1>2, <1>5 DEF CacheMoves, Fresh, history
  <2> QED
    BY <1>4, <2>1
<1>6. ASSUME NEW k \in Tokens, NEW m \in token'[k].moved
      PROVE  /\ Past1(m)
             /\ token'[k].step \in {"moved", "gone"} =>
                   m[2] # identity'[m[1]] /\ Within(token'[k].node, m[1])
  <2>1. CASE KeptStep(token[k], token'[k])
    <3>1. m \in token[k].moved /\ m \in Nodes \X Nat
      BY <1>1, <1>6, <2>1 DEF KeptStep
    <3>2. Past(m) /\ (token[k].step \in {"moved", "gone"} =>
                         m[2] # identity[m[1]] /\ Within(token[k].node, m[1]))
      BY <3>1 DEF Fresh
    <3>3. token'[k].step \in {"moved", "gone"} => token[k].step \in {"moved", "gone"}
      BY <2>1 DEF KeptStep
    <3> QED
      BY <1>4, <2>1, <3>1, <3>2, <3>3 DEF KeptStep
  <2>2. CASE TrashStep(token[k], token'[k])
    <3>1. /\ m \in Nodes \X Nat /\ m[2] = identity[m[1]] /\ m[2] # 0
          /\ identity'[m[1]] = 0 /\ Within(token'[k].node, m[1])
      BY <1>6, <2>2 DEF TrashStep
    <3>2. Past(m)
      BY <3>1 DEF Fresh
    <3> QED
      BY <1>4, <3>1, <3>2
  <2> QED
    BY <1>2, <1>6, <2>1, <2>2 DEF TokensMove, Begun
<1> QED
  BY <1>3, <1>5, <1>6 DEF Fresh

LEMMA InsideStep ==
    ASSUME TypeOK, Inside, [Next]_vars
    PROVE  Inside'
<1>1. WalksMove /\ CacheMoves /\ TypeOK'
  BY WalkSteps, CacheSteps, TypeStep
<1>2. ASSUME NEW i \in Jobs
      PROVE  /\ Reading(job'[i]) => job'[i].root \in Directories
             /\ \A d \in job'[i].todo : Within(job'[i].root, d)
             /\ \A n \in Nodes : job'[i].seen[n] # 0 => Within(job'[i].root, n)
  <2> DEFINE x == job[i]
             y == job'[i]
  <2>1. /\ Reading(x) => x.root \in Directories
        /\ \A d \in x.todo : Within(x.root, d)
        /\ \A n \in Nodes : x.seen[n] # 0 => Within(x.root, n)
    BY DEF Inside, Reading
  <2>2. CASE /\ y.root = x.root /\ y.seen = x.seen /\ y.todo \in {x.todo, {}}
             /\ Reading(y) => Reading(x)
    BY <2>1, <2>2
  <2>3. CASE /\ y.seen = Nothing /\ y.todo \subseteq {y.root}
             /\ Reading(y) => y.root \in Directories
    <3>1. y.todo \subseteq Nodes
      BY <1>1, TreeAssumption DEF TypeOK, JobState
    <3> QED
      BY <2>3, <3>1, WithinItself, NothingIsSeen
  <2>4. CASE ReadStep(x, y)
    <3>1. PICK e \in x.todo :
            /\ y.todo = (x.todo \ {e}) \cup (Entries(e) \cap Directories)
            /\ y.seen = [n \in Nodes |-> IF n \in Entries(e) THEN identity[n] ELSE x.seen[n]]
      BY <2>4 DEF ReadStep
    <3>2. \A n \in Entries(e) : Within(x.root, n)
      BY <2>1, WithinParent DEF Entries
    <3>3. y.root = x.root /\ x.step = "walk"
      BY <2>4 DEF ReadStep
    <3> QED
      BY <2>1, <3>1, <3>2, <3>3 DEF Reading
  <2>5. CASE /\ ~Reading(y) /\ y.todo = {}
             /\ y.root \in Directories /\ y.seen = cache[y.root].seen
    BY <2>5 DEF Inside
  <2> QED
    BY <1>1, <2>2, <2>3, <2>4, <2>5 DEF WalksMove, WalkStep
<1>3. ASSUME NEW d \in Directories, NEW n \in Nodes, cache'[d].seen[n] # 0
      PROVE  Within(d, n)
  <2>1. \/ cache'[d] \in {cache[d], NoEntry}
        \/ \E j \in Jobs : d = job[j].root /\ cache'[d] = [from |-> j, seen |-> job[j].seen]
    BY <1>1 DEF CacheMoves
  <2>2. CASE cache'[d] = cache[d]
    BY <1>3, <2>2 DEF Inside
  <2>3. CASE cache'[d] = NoEntry
    BY <1>3, <2>3, NothingIsSeen DEF NoEntry
  <2>4. ASSUME NEW j \in Jobs, d = job[j].root, cache'[d] = [from |-> j, seen |-> job[j].seen]
        PROVE  Within(d, n)
    BY <1>3, <2>4 DEF Inside
  <2> QED
    BY <2>1, <2>2, <2>3, <2>4
<1> QED
  BY <1>2, <1>3 DEF Inside, Reading

\* What is reported of a walk under way was there when it was read; an
\* invalidation that comes in marks the walk.
LEMMA WalkUnlessRacedStep ==
    ASSUME TypeOK, Fresh, WalkUnlessRaced, [Next]_vars
    PROVE  WalkUnlessRaced'
<1>1. WalksMove /\ CacheMoves
  BY WalkSteps, CacheSteps
<1> SUFFICES ASSUME NEW i \in Jobs, NEW n \in Nodes,
                    Reading(job'[i]), <<n, job'[i].seen[n]>> \in purged'
             PROVE  i \in raced'
  BY DEF WalkUnlessRaced, Reading
<1>2. ASSUME NEW k \in Tokens, UNCHANGED job,
             raced' = raced \cup {j \in Jobs : Reading(job[j])}
      PROVE  i \in raced'
  BY <1>2
<1>3. CASE UNCHANGED history
  <2> DEFINE x == job[i]
             y == job'[i]
  <2>1. UNCHANGED <<purged, raced>>
    BY <1>3 DEF history
  <2>2. \A m \in purged : m[2] # 0 /\ m[2] # identity[m[1]]
    BY DEF Fresh
  <2>3. y.seen[n] # 0 /\ y.seen[n] # identity[n]
    BY <2>1, <2>2
  <2>4. Reading(x) /\ y.seen[n] = x.seen[n]
    <3>1. CASE /\ y.root = x.root /\ y.seen = x.seen /\ y.todo \in {x.todo, {}}
               /\ Reading(y) => Reading(x)
      BY <3>1
    <3>2. CASE y.seen = Nothing
      BY <2>3, <3>2, NothingIsSeen
    <3>3. CASE ReadStep(x, y)
      BY <2>3, <3>3 DEF ReadStep, Reading
    <3> QED
      BY <1>1, <3>1, <3>2, <3>3 DEF WalksMove, WalkStep
  <2> QED
    BY <2>1, <2>4 DEF WalkUnlessRaced, Reading
<1> QED
  BY <1>1, <1>2, <1>3 DEF CacheMoves

\* An invalidation drops every report that shows what was deleted: the
\* directories it drops are all that can contain it.
LEMMA NoDeletedStep ==
    ASSUME TypeOK, Fresh, Inside, WalkUnlessRaced, NoDeletedUnlessRaced, [Next]_vars
    PROVE  NoDeletedUnlessRaced'
<1> SUFFICES ASSUME NEW d \in Directories, NEW n \in Nodes,
                    <<n, cache'[d].seen[n]>> \in purged'
             PROVE  cache'[d].from \in raced'
  BY DEF NoDeletedUnlessRaced
<1> DEFINE m == <<n, cache'[d].seen[n]>>
<1>1. CacheMoves /\ Fresh'
  BY CacheSteps, FreshStep
<1>2. m[2] # 0 /\ cache'[d] # NoEntry
  BY <1>1, NothingIsSeen DEF Fresh, NoEntry
<1>3. CASE UNCHANGED history
  <2>1. UNCHANGED <<purged, raced>>
    BY <1>3 DEF history
  <2>2. CASE cache'[d] = cache[d]
    BY <2>1, <2>2 DEF NoDeletedUnlessRaced
  <2>3. ASSUME NEW j \in Jobs, job[j].step = "cache",
               cache'[d] = [from |-> j, seen |-> job[j].seen]
        PROVE  cache'[d].from \in raced'
    BY <2>1, <2>3 DEF WalkUnlessRaced
  <2>4. \/ cache'[d] \in {cache[d], NoEntry}
        \/ \E j \in Jobs : /\ job[j].step = "cache"
                           /\ cache'[d] = [from |-> j, seen |-> job[j].seen]
    BY <1>1 DEF CacheMoves
  <2> QED
    BY <1>2, <2>2, <2>3, <2>4
<1>4. ASSUME NEW k \in Tokens, token[k].step = "gone",
             \A e \in Directories :
               cache'[e] = IF e \in Related(token[k].node) THEN NoEntry ELSE cache[e],
             purged' = purged \cup token[k].moved,
             raced' = raced \cup {j \in Jobs : Reading(job[j])}
      PROVE  cache'[d].from \in raced'
  <2> DEFINE node == token[k].node
  <2>1. d \notin Related(node) /\ cache'[d] = cache[d]
    BY <1>2, <1>4
  <2>2. CASE m \in purged
    BY <1>4, <2>1, <2>2 DEF NoDeletedUnlessRaced
  <2>3. m \notin token[k].moved
    <3> SUFFICES ASSUME m \in token[k].moved PROVE FALSE
      OBVIOUS
    <3>1. Within(node, n)
      BY <1>4 DEF Fresh
    <3>2. Within(d, n)
      BY <1>2, <2>1 DEF Inside
    <3>3. node \in Nodes /\ d \in Nodes
      BY <3>1, <3>2 DEF Within, Line
    <3>4. Within(node, d) \/ Within(d, node)
      BY <3>1, <3>2, <3>3, Comparable
    <3> QED
      BY <2>1, <3>4 DEF Related
  <2> QED
    BY <1>4, <2>2, <2>3
<1> QED
  BY <1>1, <1>3, <1>4 DEF CacheMoves

-----------------------------------------------------------------------------
(* Reviewed nodes                                                          *)

\* What is there is in a directory that is there.
Rooted == \A n \in Nodes \ Volumes : Present(n) => Present(Parent[n])

\* A directory that keeps its identity keeps its entries.
EntriesMove == \A d \in Nodes : identity'[d] # 0 /\ identity'[d] <= writes =>
                 /\ identity[d] = identity'[d]
                 /\ Entries(d)' = Entries(d)

\* While a reviewed node is what it was, it holds what it held.
HoldsListed(t) == /\ t.node \in Nodes \ Volumes /\ t.reviewed # 0 /\ t.reviewed <= writes
                  /\ identity[t.node] = t.reviewed => Entries(t.node) = t.listed
ListedStays == \A k \in Tokens :
    token[k].step \in {"pending", "confirmed", "trash"} => HoldsListed(token[k])

\* Only a deletion and the other programs change files.
LEMMA Writers ==
    ASSUME [Next]_vars
    PROVE  UNCHANGED identity \/ (\E k \in Tokens : Trash(k)) \/ OtherWrite
BY DEF Next, Goroutine, StartCached, Publish, StartWalk, ReadDirectory, EndWalk, CacheReport,
       Unlock, Close, Cancel, Preview, Lapse, Confirm, Validate, TrashFails, CheckGone,
       Invalidate, OtherTest, fileSystem, vars

LEMMA EntriesStep ==
    ASSUME TypeOK, Rooted, ListedStays, [Next]_vars
    PROVE  Rooted' /\ EntriesMove
<1>1. /\ writes \in Nat /\ \A n \in Nodes : identity[n] \in Nat /\ identity'[n] \in Nat
      /\ \A n \in Nodes \ Volumes : Parent[n] \in Nodes /\ Parent[n] \in Directories
  BY TypeStep, TreeAssumption DEF TypeOK
<1>2. CASE UNCHANGED identity
  BY <1>2 DEF Rooted, EntriesMove, Entries, Present
<1>3. ASSUME NEW k \in Tokens, Trash(k) PROVE Rooted' /\ EntriesMove
  <2> DEFINE node == token[k].node
             gone == {n \in Nodes : Within(node, n) /\ Present(n)}
             parent == Parent[node]
  <2>1. /\ Present(node)
        /\ identity' = [n \in Nodes |-> IF n \in gone THEN 0
                                        ELSE IF n = parent THEN writes + 1 ELSE identity[n]]
    BY <1>3 DEF Trash
  <2>2. ASSUME NEW n \in Nodes \ Volumes, n \in gone
        PROVE  n = node \/ (Present(Parent[n]) => Parent[n] \in gone)
    <3>1. Line[n] = {n} \cup Line[Parent[n]]
      BY LineStep
    <3> QED
      BY <1>1, <2>2, <3>1 DEF Within
  <2>3. ASSUME NEW n \in Nodes \ Volumes, Parent[n] \in gone, Present(n)
        PROVE  n \in gone
    BY <2>3, WithinParent
  <2>4. \A n \in Nodes : n \notin gone /\ n # parent => identity'[n] = identity[n]
    BY <2>1
  <2>5. \A n \in Nodes : n \in gone => identity'[n] = 0
    BY <2>1
  <2>6. \A n \in Nodes : n \notin gone /\ n = parent => identity'[n] = writes + 1
    BY <2>1
  <2>7. gone \subseteq Nodes
    OBVIOUS
  <2> HIDE DEF gone
  <2>8. \A n \in Nodes \ Volumes : Present(n)' => Present(n) \/ n = parent
    BY <2>4, <2>5 DEF Present
  <2>9. CASE node \in Nodes \ Volumes
    <3>1. Present(parent)
      BY <2>1, <2>9 DEF Rooted
    <3>2. ASSUME NEW n \in Nodes \ Volumes, Present(n)' PROVE Present(Parent[n])'
      <4>1. Present(n) /\ n \notin gone
        BY <2>5, <2>8, <3>1, <3>2 DEF Present
      <4>2. Present(Parent[n]) /\ Parent[n] \notin gone /\ Parent[n] \in Nodes
        BY <1>1, <2>3, <4>1 DEF Rooted
      <4> QED
        BY <1>1, <2>4, <2>6, <4>2 DEF Present
    <3>3. ASSUME NEW d \in Nodes, identity'[d] # 0, identity'[d] <= writes
          PROVE  identity[d] = identity'[d] /\ Entries(d)' = Entries(d)
      <4>1. d \notin gone /\ d # parent
        BY <1>1, <2>5, <2>6, <3>3
      <4>2. identity[d] = identity'[d]
        BY <2>4, <4>1
      <4>3. ASSUME NEW n \in Nodes \ Volumes, Parent[n] = d PROVE Present(n)' <=> Present(n)
        <5>1. n \notin gone
          BY <2>2, <3>3, <4>1, <4>2, <4>3 DEF Present
        <5> QED
          BY <1>1, <2>4, <2>6, <3>1, <5>1 DEF Present
      <4> QED
        BY <4>2, <4>3 DEF Entries
    <3> QED
      BY <3>2, <3>3 DEF Rooted, EntriesMove
  <2> QED
    BY <1>3, <2>9 DEF Trash, ListedStays, HoldsListed
<1>4. CASE OtherWrite
  <2>1. PICK n \in Nodes \ Directories, new \in {0, writes + 1} :
          /\ Present(Parent[n])
          /\ new = 0 => Present(n)
          /\ identity' = [m \in Nodes |-> IF m = n THEN new
                            ELSE IF m = Parent[n] /\ ~(new # 0 /\ Present(n)) THEN writes + 1
                            ELSE identity[m]]
    BY <1>4 DEF OtherWrite
  <2>2. n \in Nodes \ Volumes /\ \A m \in Nodes \ Volumes : Parent[m] # n
    BY <1>1, TreeAssumption
  <2>3. /\ identity'[n] = new
        /\ \A m \in Nodes \ {n} : identity'[m] = identity[m] \/ (m = Parent[n] /\ identity'[m] = writes + 1)
        /\ ~(new # 0 /\ Present(n)) => identity'[Parent[n]] = writes + 1
    BY <1>1, <2>1, <2>2
  <2>4. \A m \in Nodes \ {n} : Present(m)' <=> Present(m)
    BY <1>1, <2>1, <2>3 DEF Present
  <2>5. Rooted'
    <3> SUFFICES ASSUME NEW m \in Nodes \ Volumes, Present(m)' PROVE Present(Parent[m])'
      BY DEF Rooted
    <3>1. Parent[m] \in Nodes \ {n}
      BY <1>1, <2>2
    <3>2. Present(Parent[m])
      BY <2>1, <2>4 DEF Rooted
    <3> QED
      BY <2>4, <3>1, <3>2
  <2>6. ASSUME NEW d \in Nodes, identity'[d] # 0, identity'[d] <= writes
        PROVE  identity[d] = identity'[d] /\ Entries(d)' = Entries(d)
    <3>1. d # n /\ identity'[d] # writes + 1 /\ identity[d] = identity'[d]
      BY <1>1, <2>1, <2>3, <2>6
    <3>2. ASSUME NEW m \in Nodes \ Volumes, Parent[m] = d PROVE Present(m)' <=> Present(m)
      <4>1. CASE m # n
        BY <2>4, <4>1
      <4>2. CASE m = n
        <5>1. new # 0 /\ Present(n)
          BY <2>3, <3>1, <3>2, <4>2
        <5> QED
          BY <2>3, <4>2, <5>1 DEF Present
      <4> QED
        BY <4>1, <4>2
    <3> QED
      BY <3>1, <3>2 DEF Entries
  <2> QED
    BY <2>5, <2>6 DEF EntriesMove
<1> QED
  BY <1>2, <1>3, <1>4, Writers

\* What was validated is what was reviewed, until it goes or is changed.
ValidatedStays == \A k \in Tokens, n \in Nodes :
    token[k].step = "trash" /\ token[k].node = n =>
        identity[n] \in {token[k].reviewed, 0} \/ token[k].swapped

LEMMA ListedStep ==
    ASSUME TypeOK, Fresh, Rooted, ListedStays, [Next]_vars
    PROVE  ListedStays'
<1> SUFFICES ASSUME NEW k \in Tokens, token'[k].step \in {"pending", "confirmed", "trash"}
             PROVE  HoldsListed(token[k])'
  BY DEF ListedStays
<1> DEFINE x == token[k]
           y == token'[k]
<1>1. /\ TokensMove /\ FilesMove /\ EntriesMove
      /\ writes \in Nat /\ \A n \in Nodes : identity[n] <= writes
  BY TokenSteps, FileSteps, EntriesStep DEF Fresh, TypeOK
<1>2. writes' \in Nat /\ writes <= writes' /\ x.reviewed \in Nat
  BY <1>1 DEF FilesMove, TypeOK, TokenState
<1>3. CASE Begun(y)
  <2>1. NewlyReviewed(y)
    BY <1>3 DEF Begun
  <2>2. identity[y.node] \in Nat
    BY <2>1 DEF NewlyReviewed, TypeOK
  <2> QED
    BY <1>1, <1>2, <2>1, <2>2 DEF NewlyReviewed, HoldsListed, Present, Entries
<1>4. CASE KeptStep(x, y)
  <2>1. /\ y.node = x.node /\ y.reviewed = x.reviewed /\ y.listed = x.listed
        /\ x.step \in {"pending", "confirmed", "trash"}
    BY <1>4 DEF KeptStep
  <2>2. HoldsListed(x)
    BY <2>1 DEF ListedStays
  <2>3. PICK d \in Nodes : d = x.node
    BY <2>2 DEF HoldsListed
  <2>4. ASSUME identity'[d] = x.reviewed PROVE Entries(d)' = x.listed
    <3>1. identity[d] = x.reviewed /\ Entries(d)' = Entries(d)
      BY <1>1, <2>2, <2>3, <2>4 DEF EntriesMove, HoldsListed
    <3> QED
      BY <2>2, <2>3, <3>1 DEF HoldsListed
  <2>5. x.reviewed <= writes'
    BY <1>1, <1>2, <2>2 DEF HoldsListed
  <2> QED
    BY <2>1, <2>2, <2>3, <2>4, <2>5 DEF HoldsListed, Entries
<1>5. CASE TrashStep(x, y)
  BY <1>5 DEF TrashStep
<1> QED
  BY <1>1, <1>3, <1>4, <1>5 DEF TokensMove

LEMMA ValidatedStep ==
    ASSUME TypeOK, ValidatedStays, [Next]_vars
    PROVE  ValidatedStays'
<1> SUFFICES ASSUME NEW k \in Tokens, NEW n \in Nodes,
                    token'[k].step = "trash", token'[k].node = n
             PROVE  identity'[n] \in {token'[k].reviewed, 0} \/ token'[k].swapped
  BY DEF ValidatedStays
<1> DEFINE x == token[k]
           y == token'[k]
<1>1. x.step = "trash" /\ x.node = n => identity[n] \in {x.reviewed, 0} \/ x.swapped
  BY DEF ValidatedStays
<1>2. KeptStep(x, y)
  BY TokenSteps DEF TokensMove, Begun, TrashStep
<1>3. y.node = x.node /\ y.reviewed = x.reviewed /\ (x.swapped => y.swapped)
  BY <1>2 DEF KeptStep
<1>4. CASE x.step = "trash"
  BY <1>1, <1>2, <1>3, <1>4 DEF KeptStep
<1>5. CASE x.step # "trash"
  BY <1>2, <1>3, <1>5 DEF KeptStep
<1> QED
  BY <1>4, <1>5

\* What one confirmation moved.
AsReviewed(t) == t.moved # {} /\ ~t.swapped =>
                   /\ <<t.node, t.reviewed>> \in t.moved
                   /\ t.listed = {n \in Nodes \ Volumes :
                                    Parent[n] = t.node /\ \E m \in t.moved : m[1] = n}

LEMMA ReviewedStep ==
    ASSUME TypeOK, ValidatedStays, ListedStays, NodeReviewedUnlessSwapped, [Next]_vars
    PROVE  NodeReviewedUnlessSwapped'
<1> SUFFICES ASSUME NEW k \in Tokens PROVE AsReviewed(token'[k])
  BY DEF AsReviewed, NodeReviewedUnlessSwapped
<1> DEFINE x == token[k]
           y == token'[k]
<1>1. AsReviewed(x)
  BY DEF AsReviewed, NodeReviewedUnlessSwapped
<1>2. CASE Begun(y)
  BY <1>2 DEF Begun, AsReviewed
<1>3. CASE KeptStep(x, y)
  BY <1>1, <1>3 DEF KeptStep, AsReviewed
<1>4. CASE TrashStep(x, y)
  <2> SUFFICES ASSUME ~y.swapped
               PROVE  /\ <<y.node, y.reviewed>> \in y.moved
                      /\ y.listed = {n \in Nodes \ Volumes :
                                       Parent[n] = y.node /\ \E m \in y.moved : m[1] = n}
    BY DEF AsReviewed
  <2> DEFINE gone == {n \in Nodes : Within(x.node, n) /\ Present(n)}
  <2>1. /\ x.step = "trash" /\ ~x.swapped /\ Present(x.node) /\ y.node = x.node
        /\ y.reviewed = x.reviewed /\ y.listed = x.listed
        /\ y.moved = {<<n, identity[n]>> : n \in gone}
    BY <1>4 DEF TrashStep
  <2>2. HoldsListed(x)
    BY <2>1 DEF ListedStays
  <2>3. x.node \in Nodes /\ identity[x.node] = x.reviewed
    BY <2>1, <2>2 DEF ValidatedStays, HoldsListed, Present
  <2>4. Entries(x.node) = x.listed
    BY <2>2, <2>3 DEF HoldsListed
  <2>5. x.node \in gone
    BY <2>1, <2>3, WithinItself
  <2>6. ASSUME NEW n \in Nodes \ Volumes, Parent[n] = x.node
        PROVE  Present(n) <=> n \in gone
    <3>1. Within(x.node, n)
      BY <2>3, <2>6, WithinItself, WithinParent
    <3> QED
      BY <3>1
  <2>7. \A n \in Nodes : (\E m \in y.moved : m[1] = n) <=> n \in gone
    <3>1. PICK g \in SUBSET Nodes : g = gone
      OBVIOUS
    <3> HIDE DEF gone
    <3>2. y.moved = {<<n, identity[n]>> : n \in g}
      BY <2>1, <3>1
    <3>3. ASSUME NEW n \in Nodes, n \in g PROVE \E m \in y.moved : m[1] = n
      <4>1. <<n, identity[n]>> \in y.moved
        BY <3>2, <3>3
      <4> WITNESS <<n, identity[n]>> \in y.moved
      <4> QED
        OBVIOUS
    <3>4. ASSUME NEW n \in Nodes, NEW m \in y.moved, m[1] = n PROVE n \in g
      BY <3>2, <3>4
    <3> QED
      BY <3>1, <3>3, <3>4
  <2>8. <<y.node, y.reviewed>> \in y.moved
    <3> HIDE DEF gone
    <3> QED
      BY <2>1, <2>3, <2>5
  <2> HIDE DEF gone
  <2> QED
    BY <2>1, <2>4, <2>6, <2>7, <2>8 DEF Entries
<1> QED
  BY <1>2, <1>3, <1>4, TokenSteps DEF TokensMove

-----------------------------------------------------------------------------
(* The queue of the cache                                                  *)

\* The members of a finite set of numbers, counted up to each of them.
LEMMA Ranks ==
    ASSUME NEW n \in Nat, NEW S \in SUBSET (1..n)
    PROVE  /\ Cardinality(S) \in 0..n
           /\ \A k \in 1..Cardinality(S) : \E i \in S : Cardinality({h \in S : h <= i}) = k
           /\ \A i \in S : Cardinality({h \in S : h <= i}) \in 1..Cardinality(S)
<1> DEFINE rank == [i \in S |-> Cardinality({h \in S : h <= i})]
           c == Cardinality(S)
<1>0. \A h \in S : h \in Nat
  OBVIOUS
<1>1. IsFiniteSet(S) /\ c \in 0..n
  <2>1. IsFiniteSet(1..n) /\ Cardinality(1..n) = n
    <3>1. 1 \in Int /\ n \in Int
      OBVIOUS
    <3>2. IsFiniteSet(1..n) /\ Cardinality(1..n) = IF 1 > n THEN 0 ELSE n - 1 + 1
      BY <3>1, FS_Interval
    <3> QED
      BY <3>2
  <2>2. IsFiniteSet(S) /\ c <= Cardinality(1..n)
    BY <2>1, FS_Subset
  <2>3. c \in Nat
    BY <2>2, FS_CardinalityType
  <2> QED
    BY <2>1, <2>2, <2>3
<1>2. ASSUME NEW i \in S
      PROVE  LET U == {h \in S : h <= i} IN IsFiniteSet(U) /\ Cardinality(U) \in 1..c
  <2> DEFINE U == {h \in S : h <= i}
  <2>1. IsFiniteSet(U) /\ Cardinality(U) <= c /\ Cardinality(U) \in Nat
    BY <1>1, FS_Subset, FS_CardinalityType
  <2>2. i \in U
    OBVIOUS
  <2>3. Cardinality(U) # 0
    BY <2>1, <2>2, FS_EmptySet
  <2> QED
    BY <1>1, <2>1, <2>3
<1>3. ASSUME NEW i \in S, NEW j \in S, i < j PROVE rank[i] # rank[j]
  <2> DEFINE U == {h \in S : h <= i}
             V == {h \in S : h <= j}
  <2>1. U \in SUBSET V /\ j \in V /\ j \notin U
    <3>1. i \in Nat /\ j \in Nat
      BY <1>0
    <3>2. ~(j <= i) /\ j <= j
      BY <1>3, <3>1
    <3>3. ASSUME NEW h \in S, h <= i PROVE h <= j
      <4>1. h \in Nat
        BY <1>0
      <4> QED
        BY <1>3, <3>1, <3>3, <4>1
    <3> QED
      BY <3>2, <3>3
  <2>2. IsFiniteSet(V)
    BY <1>2
  <2>3. Cardinality(U) # Cardinality(V)
    BY <2>1, <2>2, FS_Subset
  <2> QED
    BY <2>3
<1>4. rank \in Injection(S, 1..c)
  <2>1. rank \in [S -> 1..c]
    BY <1>2
  <2>2. \A i, j \in S : i # j => rank[i] # rank[j]
    BY <1>3
  <2> QED
    BY <2>1, <2>2 DEF Injection, IsInjective
<1>5. rank \in Surjection(S, 1..c)
  <2>1. IsFiniteSet(1..c) /\ Cardinality(1..c) = c
    BY <1>1, FS_Interval
  <2> QED
    BY <1>4, <2>1, FS_Injection
<1>6. \A k \in 1..c : \E i \in S : rank[i] = k
  BY <1>5 DEF Surjection
<1> QED
  BY <1>1, <1>2, <1>6

\* What stays in the queue is each root that is still in the cache, once.
LEMMA StillCachedKeeps ==
    ASSUME NEW queue \in Seq(Directories), NEW entries \in [Directories -> Entry],
           \A i, k \in 1 .. Len(queue) : queue[i] = queue[k] => i = k
    PROVE  LET left == StillCached(queue, entries)
           IN  /\ left \in Seq(Directories)
               /\ Len(left) <= Len(queue)
               /\ \A i, k \in 1 .. Len(left) : left[i] = left[k] => i = k
               /\ \A d \in Directories :
                    (\E i \in 1 .. Len(left) : left[i] = d)
                      <=> entries[d].from # None /\ \E i \in 1 .. Len(queue) : queue[i] = d
<1> DEFINE kept == {i \in DOMAIN queue : entries[queue[i]].from # None}
           rank(i) == Cardinality({h \in kept : h <= i})
           at(k) == CHOOSE i \in kept : rank(i) = k
           left == [k \in 1 .. Cardinality(kept) |-> queue[at(k)]]
<1>1. left = StillCached(queue, entries)
  BY DEF StillCached
<1>2. /\ kept \in SUBSET (1 .. Len(queue)) /\ Len(queue) \in Nat
      /\ \A i \in kept : /\ i \in 1 .. Len(queue) /\ i \in Nat
                         /\ queue[i] \in Directories /\ entries[queue[i]].from # None
      /\ \A i \in 1 .. Len(queue) : entries[queue[i]].from # None => i \in kept
  OBVIOUS
<1>3. /\ Cardinality(kept) \in 0 .. Len(queue)
      /\ \A k \in 1 .. Cardinality(kept) : at(k) \in kept /\ rank(at(k)) = k
      /\ \A i \in kept : rank(i) \in 1 .. Cardinality(kept)
  <2>1. /\ Cardinality(kept) \in 0 .. Len(queue)
        /\ \A k \in 1 .. Cardinality(kept) : \E i \in kept : Cardinality({h \in kept : h <= i}) = k
        /\ \A i \in kept : Cardinality({h \in kept : h <= i}) \in 1 .. Cardinality(kept)
    <3> HIDE DEF kept
    <3> QED
      BY <1>2, Ranks
  <2> HIDE DEF kept
  <2> QED
    BY <2>1
<1> HIDE DEF kept
<1>4. ASSUME NEW i \in kept PROVE at(rank(i)) = i
  <2> DEFINE U == {h \in kept : h <= i}
             j == at(rank(i))
             V == {h \in kept : h <= j}
  <2>1. j \in kept /\ Cardinality(U) = Cardinality(V)
    BY <1>3
  <2>2. IsFiniteSet(U) /\ IsFiniteSet(V)
    <3>1. IsFiniteSet(1 .. Len(queue))
      BY <1>2, FS_Interval
    <3>2. IsFiniteSet(kept)
      BY <1>2, <3>1, FS_Subset
    <3> QED
      BY <3>2, FS_Subset
  <2>3. i \in Nat /\ j \in Nat
    BY <1>2, <2>1
  <2>4. U \in SUBSET V \/ V \in SUBSET U
    <3> HIDE DEF j
    <3>1. ASSUME NEW h \in kept PROVE /\ i <= j /\ h <= i => h <= j
                                      /\ ~(i <= j) /\ h <= j => h <= i
      <4>1. h \in Nat
        BY <1>2
      <4> QED
        BY <2>3, <4>1
    <3> QED
      BY <3>1
  <2>5. U = V
    BY <2>1, <2>2, <2>4, FS_Subset
  <2>6. i \in V /\ j \in U
    <3>1. i \in U /\ j \in V
      BY <2>1, <2>3
    <3> QED
      BY <2>5, <3>1
  <2> QED
    BY <2>3, <2>6
<1> HIDE DEF rank, at
<1>5. left \in Seq(Directories) /\ Len(left) = Cardinality(kept)
  <2>1. \A k \in 1 .. Cardinality(kept) : queue[at(k)] \in Directories
    BY <1>2, <1>3
  <2>2. Cardinality(kept) \in Nat
    BY <1>2, <1>3
  <2> QED
    BY <2>1, <2>2
<1>6. ASSUME NEW i \in 1 .. Len(left), NEW k \in 1 .. Len(left), left[i] = left[k] PROVE i = k
  <2>1. /\ at(i) \in 1 .. Len(queue) /\ at(k) \in 1 .. Len(queue)
        /\ queue[at(i)] = queue[at(k)]
    BY <1>2, <1>3, <1>5, <1>6
  <2>2. at(i) = at(k)
    BY <2>1
  <2> QED
    BY <1>3, <1>5, <2>2
<1>7. ASSUME NEW d \in Directories
      PROVE  (\E i \in 1 .. Len(left) : left[i] = d)
               <=> entries[d].from # None /\ \E i \in 1 .. Len(queue) : queue[i] = d
  <2>1. ASSUME NEW k \in 1 .. Len(left), left[k] = d
        PROVE  entries[d].from # None /\ \E i \in 1 .. Len(queue) : queue[i] = d
    BY <1>2, <1>3, <1>5, <2>1
  <2>2. ASSUME entries[d].from # None, NEW i \in 1 .. Len(queue), queue[i] = d
        PROVE  \E k \in 1 .. Len(left) : left[k] = d
    <3>1. i \in kept
      BY <1>2, <2>2
    <3>2. rank(i) \in 1 .. Len(left) /\ left[rank(i)] = d
      BY <1>3, <1>4, <1>5, <2>2, <3>1
    <3> QED
      BY <3>2
  <2> QED
    BY <2>1, <2>2
<1>8. Len(left) <= Len(queue)
  BY <1>2, <1>3, <1>5
<1> HIDE DEF left
<1> QED
  BY <1>1, <1>5, <1>6, <1>7, <1>8

OrderInv == order \in Seq(Directories) /\ OrderMatchesCache

LEMMA OrderStep ==
    ASSUME TypeOK, Inside, OrderInv, [Next]_vars
    PROVE  OrderInv'
<1> USE DEF OrderInv
<1>1. ASSUME NEW j \in Jobs, CacheReport(j) PROVE OrderInv'
  <2> DEFINE r == job[j].root
             queue == IF cache[r].from = None THEN Append(order, r) ELSE order
             over == Len(queue) > MaxCached
             filled == [cache EXCEPT ![r] = [from |-> j, seen |-> job[j].seen]]
  <2>1. /\ order' = IF over THEN Tail(queue) ELSE queue
        /\ cache' = IF over THEN [filled EXCEPT ![Head(queue)] = NoEntry] ELSE filled
    BY <1>1 DEF CacheReport
  <2>2. r \in Directories /\ j # None
    BY <1>1, IdsAssumption DEF CacheReport, Inside
  <2>3. /\ queue \in Seq(Directories) /\ Len(queue) \in Nat
        /\ \A i \in 1 .. Len(queue) : queue[i] \in Directories
    BY <2>2
  <2>4. \A i, k \in 1 .. Len(queue) : queue[i] = queue[k] => i = k
    BY <2>2 DEF OrderMatchesCache
  <2>5. \A d \in Directories : filled[d].from # None <=> \E i \in 1 .. Len(queue) : queue[i] = d
    <3>1. ASSUME NEW d \in Directories
          PROVE  filled[d].from # None <=> \E i \in 1 .. Len(queue) : queue[i] = d
      <4>1. filled[d].from # None <=> d = r \/ cache[d].from # None
        BY <2>2 DEF TypeOK, Entry
      <4>2. CASE cache[r].from = None
        <5>1. /\ Len(queue) = Len(order) + 1 /\ queue[Len(order) + 1] = r
              /\ \A i \in 1 .. Len(order) : queue[i] = order[i]
          BY <2>2, <4>2
        <5>2. (\E i \in 1 .. Len(queue) : queue[i] = d)
                <=> d = r \/ \E i \in 1 .. Len(order) : order[i] = d
          BY <5>1
        <5> QED
          BY <4>1, <5>2 DEF OrderMatchesCache
      <4>3. CASE cache[r].from # None
        BY <2>2, <4>1, <4>3 DEF OrderMatchesCache
      <4> QED
        BY <4>2, <4>3
    <3> QED
      BY <3>1
  <2>6. Len(queue) <= MaxCached + 1
    BY <2>2, LimitsAssumption DEF OrderMatchesCache
  <2>7. filled \in [Directories -> Entry]
    <3>1. [from |-> j, seen |-> job[j].seen] \in Entry
      BY DEF TypeOK, JobState, Entry
    <3> QED
      BY <3>1 DEF TypeOK
  <2> HIDE DEF queue, filled
  <2>8. CASE ~over
    BY <2>1, <2>3, <2>4, <2>5, <2>8, LimitsAssumption DEF OrderMatchesCache
  <2>9. CASE over
    <3>1. queue # <<>> /\ Len(queue) >= 1
      BY <2>3, <2>9, LimitsAssumption
    <3>2. /\ Tail(queue) \in Seq(Directories) /\ Len(Tail(queue)) = Len(queue) - 1
          /\ \A i \in 1 .. Len(Tail(queue)) : Tail(queue)[i] = queue[i + 1]
          /\ Head(queue) = queue[1]
      BY <2>3, <3>1
    <3>3. \A i, k \in 1 .. Len(Tail(queue)) : Tail(queue)[i] = Tail(queue)[k] => i = k
      BY <2>3, <2>4, <3>2
    <3>4. ASSUME NEW d \in Directories
          PROVE  cache'[d].from # None
                   <=> \E i \in 1 .. Len(Tail(queue)) : Tail(queue)[i] = d
      <4>1. cache'[d].from # None <=> d # queue[1] /\ filled[d].from # None
        BY <2>1, <2>3, <2>7, <2>9, <3>1, <3>2 DEF NoEntry
      <4>2. (\E i \in 1 .. Len(Tail(queue)) : Tail(queue)[i] = d)
              <=> d # queue[1] /\ \E i \in 1 .. Len(queue) : queue[i] = d
        <5>1. ASSUME NEW i \in 1 .. Len(Tail(queue)), Tail(queue)[i] = d
              PROVE  d # queue[1] /\ queue[i + 1] = d /\ i + 1 \in 1 .. Len(queue)
          BY <2>3, <2>4, <3>1, <3>2, <5>1
        <5>2. ASSUME d # queue[1], NEW i \in 1 .. Len(queue), queue[i] = d
              PROVE  i - 1 \in 1 .. Len(Tail(queue)) /\ Tail(queue)[i - 1] = d
          BY <2>3, <3>1, <3>2, <5>2
        <5> QED
          BY <5>1, <5>2
      <4> QED
        BY <2>5, <4>1, <4>2
    <3> QED
      BY <2>1, <2>3, <2>6, <2>9, <3>2, <3>3, <3>4, LimitsAssumption DEF OrderMatchesCache
  <2> QED
    BY <2>8, <2>9
<1>2. ASSUME NEW k \in Tokens, Invalidate(k) PROVE OrderInv'
  <2> DEFINE dropped == Related(token[k].node)
             left == [d \in Directories |-> IF d \in dropped THEN NoEntry ELSE cache[d]]
  <2>1. cache' = left /\ order' = StillCached(order, left)
    BY <1>2 DEF Invalidate
  <2>2. left \in [Directories -> Entry]
    BY NothingIsSeen DEF TypeOK, NoEntry, Entry
  <2>3. \A d \in Directories : left[d].from # None => cache[d].from # None
    BY DEF NoEntry
  <2>4. \A i, h \in 1 .. Len(order) : order[i] = order[h] => i = h
    BY DEF OrderMatchesCache
  <2> HIDE DEF left
  <2>5. /\ order' \in Seq(Directories)
        /\ Len(order') <= Len(order)
        /\ \A i, h \in 1 .. Len(order') : order'[i] = order'[h] => i = h
        /\ \A d \in Directories :
             (\E i \in 1 .. Len(order') : order'[i] = d)
               <=> left[d].from # None /\ \E i \in 1 .. Len(order) : order[i] = d
    BY <2>1, <2>2, <2>4, StillCachedKeeps
  <2>6. Len(order') \in Nat /\ Len(order) \in Nat /\ Len(order) <= MaxCached
    BY <2>5 DEF OrderMatchesCache
  <2>7. Len(order') <= MaxCached
    BY <2>5, <2>6, LimitsAssumption
  <2> QED
    BY <2>1, <2>3, <2>5, <2>7 DEF OrderMatchesCache
<1>3. ASSUME NEW j \in Jobs, StartCached(j) \/ Publish(j) \/ StartWalk(j) \/ ReadDirectory(j)
                             \/ EndWalk(j) \/ Unlock(j) \/ Close(j) \/ Cancel(j)
      PROVE  UNCHANGED <<cache, order>>
  BY <1>3 DEF StartCached, Publish, StartWalk, ReadDirectory, EndWalk, Unlock, Close, Cancel
<1>4. ASSUME NEW k \in Tokens, Preview(k) \/ Lapse(k) \/ Confirm(k) \/ Validate(k) \/ Trash(k)
                               \/ TrashFails(k) \/ CheckGone(k)
      PROVE  UNCHANGED <<cache, order>>
  BY <1>4 DEF Preview, Lapse, Confirm, Validate, Trash, TrashFails, CheckGone
<1>5. ASSUME OtherTest \/ OtherWrite \/ UNCHANGED vars PROVE UNCHANGED <<cache, order>>
  BY <1>5 DEF OtherTest, OtherWrite, vars
<1>6. ASSUME UNCHANGED <<cache, order>> PROVE OrderInv'
  BY <1>6 DEF OrderMatchesCache
<1> QED
  BY <1>1, <1>2, <1>3, <1>4, <1>5, <1>6 DEF Next, Goroutine

-----------------------------------------------------------------------------
(* The theorems                                                            *)

\* What holds of every state.
IInv == /\ TypeOK
        /\ Stages /\ CachedAfter /\ ProbeHeld
        /\ NoDeletedShown
        /\ Rooted /\ ValidatedStays /\ ListedStays /\ NodeReviewedUnlessSwapped
        /\ OrderInv

LEMMA InitIInv == Init => IInv
<1> SUFFICES ASSUME Init PROVE IInv
  OBVIOUS
<1>1. TypeOK
  BY InitType
<1>2. \A j \in Jobs : job[j] = NewJob
  BY DEF Init
<1>3. /\ \A d \in Directories : cache[d] = NoEntry
      /\ \A k \in Tokens : token[k] = NewToken
      /\ purged = {} /\ probe = None /\ writes = 1
      /\ \A n \in Nodes : identity[n] = 1
  BY DEF Init
<1>4. Stages /\ CachedAfter /\ ProbeHeld
  BY <1>2, <1>3, IdsAssumption
     DEF Stages, CachedAfter, ProbeHeld, Complete, NewJob, NoEntry
<1>5. Fresh /\ ValidatedStays /\ ListedStays /\ NodeReviewedUnlessSwapped
  BY <1>3 DEF Fresh, ValidatedStays, ListedStays, NodeReviewedUnlessSwapped, NewToken
<1>9. Rooted
  BY <1>3, TreeAssumption DEF Rooted, Present
<1>6. Inside
  BY <1>2, <1>3, NothingIsSeen DEF Inside, NewJob, NoEntry
<1>7. WalkUnlessRaced /\ NoDeletedUnlessRaced
  BY <1>3 DEF WalkUnlessRaced, NoDeletedUnlessRaced
<1>8. OrderInv
  BY <1>3, LimitsAssumption DEF Init, OrderInv, OrderMatchesCache, NoEntry
<1> QED
  BY <1>1, <1>4, <1>5, <1>6, <1>7, <1>8, <1>9 DEF IInv, NoDeletedShown

LEMMA StepIInv == IInv /\ [Next]_vars => IInv'
<1> SUFFICES ASSUME IInv, [Next]_vars PROVE IInv'
  OBVIOUS
<1> USE DEF IInv, NoDeletedShown
<1>1. TypeOK'
  BY TypeStep
<1>2. Stages' /\ CachedAfter' /\ ProbeHeld'
  BY StagesStep, CachedAfterStep, ProbeHeldStep
<1>3. Fresh' /\ Inside'
  BY FreshStep, InsideStep
<1>4. WalkUnlessRaced' /\ NoDeletedUnlessRaced'
  BY WalkUnlessRacedStep, NoDeletedStep
<1>5. Rooted' /\ ValidatedStays' /\ ListedStays' /\ NodeReviewedUnlessSwapped'
  BY EntriesStep, ValidatedStep, ListedStep, ReviewedStep
<1>6. OrderInv'
  BY OrderStep
<1> QED
  BY <1>1, <1>2, <1>3, <1>4, <1>5, <1>6

LEMMA Invariance == Spec => []IInv
BY InitIInv, StepIInv, PTL DEF Spec

\* A job holds the lock of heavy diagnostics exactly while its goroutine reads
\* or fills the cache, however many scans are started, replaced and cancelled:
\* StartStorageScan takes probeMu before the walk and the goroutine gives it
\* back before it closes done.
THEOREM LockHeld == Spec => []ProbeHeld
<1>1. IInv => ProbeHeld
  BY DEF IInv
<1> QED
  BY <1>1, Invariance, PTL

\* A cancellation that CancelStorageScan answered with true is final: the scan
\* does not complete later, and no report of it is ever in the cache.
THEOREM CancelIsFinal == Spec => []CancelHolds
<1>1. IInv => CancelHolds
  BY CancelThen DEF IInv
<1> QED
  BY <1>1, Invariance, PTL

\* The queue and the map of the cache agree, whatever is cached, evicted and
\* invalidated (cacheStorageScan, invalidateStorageScanCache): so the oldest
\* report is the one that makes room, and there are never too many.
THEOREM QueueMatchesCache == Spec => []OrderMatchesCache
<1>1. IInv => OrderMatchesCache
  BY DEF IInv, OrderInv
<1> QED
  BY <1>1, Invariance, PTL

\* In any tree, an invalidation drops every report that shows what was deleted,
\* and a walk that was under way then is the only source of another: dropping
\* the directories above and below the deleted node is enough.
THEOREM NoDeletedNodeShown == Spec => []NoDeletedUnlessRaced
<1>1. IInv => NoDeletedUnlessRaced
  BY DEF IInv, NoDeletedShown
<1> QED
  BY <1>1, Invariance, PTL

\* Unless another program changed it between the last look and the move, the
\* node ConfirmStorageDelete moves to the trash is the one that was reviewed, and
\* a directory goes with exactly the entries it had at the review, in any tree:
\* no other entry can appear or go without a new identity of the directory.
\* What files in it hold and what is deeper is not part of the claim, as
\* validateStorageDeleteTarget does not look at it.
THEOREM OnlyReviewedGoes == Spec => []NodeReviewedUnlessSwapped
<1>1. IInv => NodeReviewedUnlessSwapped
  BY DEF IInv
<1> QED
  BY <1>1, Invariance, PTL

=============================================================================
