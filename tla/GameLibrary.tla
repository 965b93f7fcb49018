---------------------------- MODULE GameLibrary ----------------------------
(***************************************************************************)
(* The saved games (games.json) and what is remembered of them             *)
(* (game-history.json).  The interface and any number of command lines     *)
(* change both files, each by loading a file, changing one entry and       *)
(* replacing the file, under a lock between processes that nobody waits    *)
(* for.  Starting a game reads the library without the lock, and writes    *)
(* the history under it before or after the session starts.                *)
(*                                                                         *)
(* A game is known by the first digits of a hash of its path, so that two  *)
(* paths may share an ID.  The history is cut to the newest records.       *)
(***************************************************************************)
EXTENDS Naturals, FiniteSets, Sequences

CONSTANTS Paths,
          IdOf,          \* the ID of each path
          Calls,         \* the calls in the order they come, 1..n
          MaxGames,      \* 256
          MaxLaunches, MaxLaunchesPerProfile,      \* 512 and 24
          MaxBenchmarks, MaxBenchmarksPerProfile,  \* 64 and 8
          Times,         \* what the clock of the computer may say
          Nothing

Ids == {IdOf[p] : p \in Paths}

ASSUME CallsAssumption == Calls \subseteq Nat \ {0}
ASSUME NothingAssumption == Nothing \notin Calls /\ Nothing \notin Paths
ASSUME LimitsAssumption ==
  {MaxGames, MaxLaunches, MaxLaunchesPerProfile, MaxBenchmarks,
   MaxBenchmarksPerProfile} \subseteq Nat \ {0}
ASSUME TimesAssumption == Times \subseteq Nat

VARIABLES games,      \* games.json: the path under each ID and the call it is from
          launches,   \* game-history.json, the newest first
          benchmarks,
          profilesLock,  \* the call that holds the lock, or Nothing
          call,
          \* History:
          last,       \* the call whose change of a path was the last to succeed
          recorded    \* the launches and benchmarks reported as recorded

files == <<games, launches, benchmarks>>
libraryVars == <<files, profilesLock, call, last, recorded>>

NoGame == [path |-> Nothing, by |-> 0]
NewCall == [kind |-> Nothing, step |-> "unused", path |-> Nothing, id |-> Nothing,
            games |-> Nothing, launches |-> <<>>, benchmarks |-> <<>>]

\* A library from before, and no history.
LibraryInit ==
  /\ \E saved \in SUBSET Paths :
       /\ \A p, q \in saved : IdOf[p] = IdOf[q] => p = q
       /\ Cardinality(saved) <= MaxGames
       /\ games = [i \in Ids |-> IF \E p \in saved : IdOf[p] = i
                                 THEN [path |-> CHOOSE p \in saved : IdOf[p] = i, by |-> 0]
                                 ELSE NoGame]
       /\ last = [p \in Paths |-> IF p \in saved THEN 0 ELSE Nothing]
  /\ launches = <<>>
  /\ benchmarks = <<>>
  /\ profilesLock = Nothing
  /\ call = [c \in Calls |-> NewCall]
  /\ recorded = {}

Turn(c) == call[c].step = "unused" /\ \A d \in Calls : d < c => call[d].step # "unused"

CallAt(c, step) == call[c].step = step

CallGoes(c, step) == call' = [call EXCEPT ![c].step = step]

\* The call returns and lets go of the lock, if it has it.
Return(c) ==
  /\ call' = [call EXCEPT ![c] = [NewCall EXCEPT !.kind = call[c].kind, !.step = "returned"]]
  /\ profilesLock' = IF profilesLock = c THEN Nothing ELSE profilesLock

-----------------------------------------------------------------------------
(* The history: the newest first, and of those not too many of one game    *)
(* and not too many in all.                                                *)

\* The records before each, in a stable sort.
NewestFirst(records) ==
  [i \in DOMAIN records |->
     {j \in DOMAIN records : \/ records[j].at > records[i].at
                             \/ records[j].at = records[i].at /\ j < i}]

\* Those before which there are not enough of their game.
Eligible(records, before, perProfile) ==
  {i \in DOMAIN records :
     Cardinality({j \in before[i] : records[j].id = records[i].id}) < perProfile}

\* Those of them that are kept, before which there are not enough in all.
Kept(records, before, perProfile, total) ==
  LET eligible == Eligible(records, before, perProfile)
  IN {i \in eligible : Cardinality(before[i] \cap eligible) < total}

InOrder(records, before, kept) ==
  [k \in 1..Cardinality(kept) |->
     records[CHOOSE i \in kept : Cardinality(before[i] \cap kept) = k - 1]]

PruneUnsorted(records, perProfile, total) ==
  LET before == [i \in DOMAIN records |-> 1..(i - 1)]
  IN InOrder(records, before, Kept(records, before, perProfile, total))

\* pruneGameHistory.
Prune(records, perProfile, total) ==
  LET before == NewestFirst(records)
  IN InOrder(records, before, Kept(records, before, perProfile, total))

-----------------------------------------------------------------------------
(* The calls.                                                              *)

\* SaveGame and games add: the executable was looked at before.
SaveGame(c) ==
  /\ Turn(c)
  /\ \E p \in Paths : call' = [call EXCEPT ![c] = [NewCall EXCEPT !.kind = "save", !.step = "lock",
                                                     !.path = p, !.id = IdOf[p]]]
  /\ UNCHANGED <<files, profilesLock, last, recorded>>

\* RemoveGame and AttachGameBenchmark.
ByID(c, kind) ==
  /\ Turn(c)
  /\ \E i \in Ids : call' = [call EXCEPT ![c] = [NewCall EXCEPT !.kind = kind, !.step = "lock",
                                                   !.id = i]]
  /\ UNCHANGED <<files, profilesLock, last, recorded>>

\* LaunchGame finds the game and starts the session, then makes the record;
\* games run (runSavedGame) makes the record first.
FindGame(c) ==
  /\ Turn(c)
  /\ \E i \in Ids, kind \in {"launch", "run"} :
       /\ games[i] # NoGame
       /\ call' = [call EXCEPT ![c] = [NewCall EXCEPT !.kind = kind, !.id = i,
                                         !.step = IF kind = "launch" THEN "start" ELSE "lock"]]
  /\ UNCHANGED <<files, profilesLock, last, recorded>>

\* launchRecoveryCLI may be refused; so may the session of games run.
Start(c) ==
  /\ CallAt(c, "start")
  /\ \/ Return(c)
     \/ call[c].kind = "launch" /\ CallGoes(c, "lock") /\ UNCHANGED profilesLock
  /\ UNCHANGED <<files, last, recorded>>

AcquireNothing(c) ==
  /\ CallAt(c, "lock")
  /\ CallGoes(c, "load") /\ UNCHANGED profilesLock
  /\ UNCHANGED <<files, last, recorded>>

\* acquireGameProfilesLock does not wait.
Acquire(c) ==
  /\ CallAt(c, "lock")
  /\ IF profilesLock = Nothing
     THEN profilesLock' = c /\ CallGoes(c, "load")
     ELSE IF call[c].kind = "run" THEN CallGoes(c, "start") /\ UNCHANGED profilesLock
     ELSE Return(c)
  /\ UNCHANGED <<files, last, recorded>>

\* What is loaded; an ID that is taken by another path, or is not there, is
\* an error.
LoadFiles(c) ==
  /\ CallAt(c, "load")
  /\ LET id == call[c].id
         possible == CASE call[c].kind = "save" -> games[id].path \in {Nothing, call[c].path}
                       [] call[c].kind \in {"remove", "attach"} -> games[id] # NoGame
                       [] OTHER -> TRUE
     IN IF possible
        THEN /\ call' = [call EXCEPT ![c].step = "save", ![c].games = games,
                                     ![c].launches = launches, ![c].benchmarks = benchmarks]
             /\ UNCHANGED profilesLock
        ELSE Return(c)
  /\ UNCHANGED <<files, last, recorded>>

\* saveSavedGames with one game added, replaced or taken out.
CommitGames(c) ==
  /\ CallAt(c, "save") /\ call[c].kind \in {"save", "remove"}
  /\ LET id == call[c].id
         saved == [call[c].games EXCEPT ![id] = IF call[c].kind = "save"
                                                THEN [path |-> call[c].path, by |-> c]
                                                ELSE NoGame]
         changed == IF call[c].kind = "save" THEN call[c].path ELSE call[c].games[id].path
     IN IF Cardinality({i \in Ids : saved[i] # NoGame}) <= MaxGames
        THEN /\ games' = saved
             /\ last' = [last EXCEPT ![changed] = IF call[c].kind = "save" THEN c ELSE Nothing]
        ELSE UNCHANGED <<games, last>>
  /\ Return(c)
  /\ UNCHANGED <<launches, benchmarks, recorded>>

\* saveGameHistory with a new record, at the time the clock says, which may
\* have been set back.
CommitHistory(c) ==
  /\ CallAt(c, "save") /\ call[c].kind \in {"launch", "run", "attach"}
  /\ \E now \in Times :
     LET record == [id |-> call[c].id, at |-> now, by |-> c]
         attach == call[c].kind = "attach"
     IN /\ launches' = Prune(IF attach THEN call[c].launches ELSE Append(call[c].launches, record),
                             MaxLaunchesPerProfile, MaxLaunches)
        /\ benchmarks' = Prune(IF attach THEN Append(call[c].benchmarks, record)
                               ELSE call[c].benchmarks,
                               MaxBenchmarksPerProfile, MaxBenchmarks)
        /\ recorded' = recorded \cup {record}
  /\ IF call[c].kind = "run" THEN CallGoes(c, "start") /\ profilesLock' = Nothing ELSE Return(c)
  /\ UNCHANGED <<games, last>>

\* A file that cannot be read or replaced, or the end of the process.
Fail(c) ==
  /\ call[c].step \notin {"unused", "returned"}
  /\ Return(c)
  /\ UNCHANGED <<files, last, recorded>>

LibraryNext ==
  \E c \in Calls : \/ SaveGame(c) \/ ByID(c, "remove") \/ ByID(c, "attach")
                   \/ FindGame(c) \/ Start(c) \/ Acquire(c) \/ LoadFiles(c)
                   \/ CommitGames(c) \/ CommitHistory(c) \/ Fail(c)

LibrarySpec == LibraryInit /\ [][LibraryNext]_libraryVars

-----------------------------------------------------------------------------

\* The library is what the successful calls made of it, each on top of all
\* before: none takes back another's change, and none replaces the game of
\* another path.
NoLostUpdate ==
  /\ \A p \in Paths : last[p] # Nothing => games[IdOf[p]] = [path |-> p, by |-> last[p]]
  /\ \A i \in Ids : games[i] # NoGame => last[games[i].path] = games[i].by

\* A record that was reported and is gone has made room for newer ones: as
\* many of its game as are kept of a game, or as many as are kept at all,
\* whatever the clock did.
NewestKept ==
  \A r \in recorded :
    LET attached == call[r.by].kind = "attach"
        kept     == IF attached THEN benchmarks ELSE launches
        newer    == {k \in DOMAIN kept : kept[k].at >= r.at}
        ofGame   == {k \in newer : kept[k].id = r.id}
    IN \/ \E k \in DOMAIN kept : kept[k] = r
       \/ Cardinality(newer) = (IF attached THEN MaxBenchmarks ELSE MaxLaunches)
       \/ Cardinality(ofGame) = (IF attached THEN MaxBenchmarksPerProfile
                                 ELSE MaxLaunchesPerProfile)

=============================================================================
