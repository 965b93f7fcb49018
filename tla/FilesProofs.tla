----------------------------- MODULE FilesProofs -----------------------------
(***************************************************************************)
(* What holds of the files that the program replaces, for any number of    *)
(* callers, contents and versions: the sealed journal (BackupSeal), the    *)
(* library of saved games (GameLibrary) and the executable (Updater).      *)
(***************************************************************************)
EXTENDS BackupSeal, GameLibrary, Updater, TLAPS, FiniteSetTheorems

-----------------------------------------------------------------------------
(* The sealed journal: the types, the seal invariant, and the refinement   *)
(* of DurableRecord when no second save stops between seal and rename.     *)

\* A seal written by the program: at most two well-formed digests.
SealOK == seal \in Seq(Digests) /\ Len(seal) <= 2

\* prepareBackupSeal writes one or two digests, the new one first.
LEMMA PreparedSealShape ==
    ASSUME SealOK, NEW d \in Digests
    PROVE  /\ PreparedSeal(d) \in Seq(Digests)
           /\ Len(PreparedSeal(d)) \in 1..2
           /\ PreparedSeal(d)[1] = d
<1> DEFINE others == {i \in DOMAIN seal : seal[i] # d}
           first  == CHOOSE i \in others : \A j \in others : i <= j
<1>1. others \subseteq {1, 2} /\ \A i \in others : seal[i] \in Digests
  BY DEF SealOK
<1>2. CASE others = {}
  BY <1>2 DEF FirstOther, PreparedSeal
<1>3. CASE others # {}
  <2>1. \E i \in others : \A j \in others : i <= j
    <3>1. CASE 1 \in others
      BY <1>1, <3>1
    <3>2. CASE 1 \notin others
      BY <1>1, <1>3, <3>2
    <3>3. QED
      BY <3>1, <3>2
  <2>2. first \in others
    BY <2>1
  <2>3. seal[first] \in Digests
    BY <1>1, <2>2
  <2>4. FirstOther(d) = <<seal[first]>>
    BY <1>3 DEF FirstOther
  <2>5. PreparedSeal(d) = <<d, seal[first]>>
    BY <2>4 DEF PreparedSeal
  <2>6. QED
    BY <2>3, <2>5
<1>4. QED
  BY <1>2, <1>3

\* The head of the previous seal survives the preparation of a new one.
LEMMA PreparedSealKeepsHead ==
    ASSUME SealOK, seal # <<>>, NEW d \in Digests
    PROVE  \E i \in DOMAIN PreparedSeal(d) : PreparedSeal(d)[i] = seal[1]
<1>0. 1 \in DOMAIN seal /\ DOMAIN seal \subseteq {1, 2}
  BY DEF SealOK
<1>1. CASE seal[1] = d
  BY <1>1, PreparedSealShape
<1>2. CASE seal[1] # d
  <2> DEFINE others == {i \in DOMAIN seal : seal[i] # d}
             first  == CHOOSE i \in others : \A j \in others : i <= j
  <2>1. 1 \in others /\ \A j \in others : 1 <= j
    BY <1>0, <1>2
  <2>2. first \in others /\ first <= 1
    BY <2>1
  <2>3. first = 1
    BY <1>0, <2>2
  <2>4. FirstOther(d) = <<seal[1]>>
    BY <2>1, <2>3 DEF FirstOther
  <2>5. PreparedSeal(d) = <<d, seal[1]>>
    BY <2>4 DEF PreparedSeal
  <2>6. QED
    BY <2>5
<1>3. QED
  BY <1>1, <1>2

\* What the proof carries from state to state.
IInv == TypeOK /\ SealInv

LEMMA InitIInv == Init => IInv
<1>1. <<>> \in Seq(Digests) /\ Len(<<>>) <= 2
  OBVIOUS
<1>2. Init => TypeOK
  <2> SUFFICES ASSUME Init PROVE TypeOK
    OBVIOUS
  <2>1. seal \in Seq(Digests) /\ Len(seal) <= 2
    BY <1>1, Zenon DEF Init
  <2>2. QED
    BY <2>1 DEF Init, TypeOK, Phases
<1>3. Init => SealInv
  BY DEF Init, SealInv, TrustedUnlessTwiceInterrupted
<1>4. QED
  BY <1>2, <1>3 DEF IInv

\* Every step of an operation, every failure and every crash keeps the types
\* and the seal invariant.
LEMMA NextIInv == IInv /\ [Next]_vars => IInv'
<1> SUFFICES ASSUME IInv, [Next]_vars PROVE IInv'
  OBVIOUS
<1> USE NoneAssumption, BoundAssumption
    DEF IInv, TypeOK, Phases, SealInv, TrustedUnlessTwiceInterrupted, Exposed,
        Verified
<1>1. CASE Create
  BY <1>1 DEF Create
<1>2. CASE Load
  BY <1>2 DEF Load
<1>3. CASE Finish
  BY <1>3 DEF Finish
<1>4. CASE \E d \in Digests : WriteTemporary(d)
  BY <1>4 DEF WriteTemporary
<1>5. CASE WriteTemporaryFails
  BY <1>5 DEF WriteTemporaryFails, Abandon
<1>6. CASE Prepare
  <2>1. digest \in Digests /\ SealOK
    BY <1>6 DEF Prepare, SealOK
  <2>s. /\ seal' \in Seq(Digests) /\ Len(seal') \in 1..2
        /\ seal'[1] = digest
    BY <1>6, <2>1, PreparedSealShape DEF Prepare
  <2>2. TypeOK'
    <3>1. Len(seal') <= 2
      BY <2>s
    <3>2. QED
      BY <1>6, <2>s, <3>1 DEF Prepare
  <2>3. seal' # <<>> /\ seal'[1] = digest
    BY <2>s
  <2>4. TrustedUnlessTwiceInterrupted'
    <3>1. SUFFICES ASSUME file # None, interrupted = 0
                   PROVE  Verified(file)'
      BY <1>6 DEF Prepare
    <3>2. seal # <<>> /\ seal[1] = file
      BY <1>6, <3>1 DEF Prepare
    <3>3. QED
      BY <1>6, <2>1, <3>2, PreparedSealKeepsHead DEF Prepare
  <2>5. QED
    BY <1>6, <2>2, <2>3, <2>4 DEF Prepare
<1>7. CASE Rename
  BY <1>7 DEF Rename
<1>8. CASE RenameFails
  BY <1>8 DEF RenameFails, Abandon
<1>9. CASE Commit
  BY <1>9 DEF Commit
<1>10. CASE CommitFails
  BY <1>10 DEF CommitFails, Abandon
<1>11. CASE Crash
  <2>1. CASE writer = "prepared"
    <3>0. interrupted' \in Nat
      BY <1>11, <2>1 DEF Crash
    <3>1. TypeOK'
      <4>1. seal' \in Seq(Digests) /\ Len(seal') <= 2
        BY <1>11, Zenon DEF Crash
      <4>2. QED
        BY <1>11, <3>0, <4>1 DEF Crash
    <3>2. interrupted' = interrupted + 1 /\ UNCHANGED <<file, seal>>
          /\ writer' = "none"
      BY <1>11, <2>1 DEF Crash
    <3>3. file # None /\ interrupted + 1 <= 1 => Verified(file)
      BY <2>1
    <3>4. TrustedUnlessTwiceInterrupted'
      BY <3>2, <3>3
    <3>5. QED
      BY <1>11, <3>1, <3>2, <3>4 DEF Crash
  <2>2. CASE writer # "prepared"
    BY <1>11, <2>2 DEF Crash
  <2>3. QED
    BY <2>1, <2>2
<1>12. CASE UNCHANGED vars
  BY <1>12 DEF vars
<1>13. QED
  BY <1>1, <1>2, <1>3, <1>4, <1>5, <1>6, <1>7, <1>8, <1>9, <1>10, <1>11, <1>12 DEF Next

LEMMA Inductive == Spec => []IInv
<1>1. QED
  BY InitIInv, NextIInv, PTL DEF Spec

\* Every reachable state is well typed.
THEOREM TypeCorrect == Spec => []TypeOK
<1>1. IInv => TypeOK
  BY DEF IInv
<1>2. QED
  BY <1>1, Inductive, PTL

\* saveBackup and prepareBackupSeal: until a second save stops between the
\* seal and the rename, the journal on disk can be opened again.
THEOREM SealTrusted == Spec => []TrustedUnlessTwiceInterrupted
<1>1. IInv => TrustedUnlessTwiceInterrupted
  BY DEF IInv, SealInv
<1>2. QED
  BY <1>1, Inductive, PTL

\* With at most one such interruption saveBackup implements the atomic
\* replacement that the transaction engine is written against.
THEOREM RefinesDurableRecord ==
    ASSUME MaxInterrupted <= 1
    PROVE  Spec => ImplementsDurableRecord
<1> DEFINE Bounded == interrupted <= MaxInterrupted
<1>1. Init => Bounded
  BY BoundAssumption DEF Init
<1>2. IInv /\ Bounded /\ [Next]_vars => Bounded'
  <2> SUFFICES ASSUME IInv, Bounded, [Next]_vars PROVE Bounded'
    OBVIOUS
  <2> USE BoundAssumption DEF IInv, TypeOK
  <2>1. CASE Rename
    BY <2>1 DEF Rename
  <2>2. CASE RenameFails
    BY <2>2 DEF RenameFails
  <2>3. CASE Crash
    BY <2>3 DEF Crash
  <2>4. CASE UNCHANGED interrupted
    BY <2>4
  <2>5. QED
    BY <2>1, <2>2, <2>3, <2>4 DEF Next, vars, Create, Load, Finish, WriteTemporary,
       WriteTemporaryFails, Prepare, Commit, CommitFails
<1>3. IInv /\ Bounded => (file # None /\ writer # "prepared" => Verified(file))
  BY BoundAssumption DEF IInv, TypeOK, SealInv, TrustedUnlessTwiceInterrupted, Exposed
<1>4. Init => Record!Init
  BY DEF Init, Record!Init
<1>5. IInv /\ Bounded /\ IInv' /\ Bounded' /\ [Next]_vars
        => [Record!Next]_Record!vars
  <2> SUFFICES ASSUME IInv, Bounded, IInv', Bounded', [Next]_vars
               PROVE  [Record!Next]_Record!vars
    OBVIOUS
  <2> DEFINE shown == IF file = None \/ writer = "prepared" \/ Verified(file)
                      THEN file ELSE Lost
  <2>0. shown = file /\ shown' = file'
    <3>1. shown = file
      BY <1>3
    <3>2. (file # None /\ writer # "prepared" => Verified(file))'
      BY <1>3, PTL
    <3>3. QED
      BY <3>1, <3>2
  <2> HIDE DEF shown
  <2> USE NoneAssumption DEF IInv, TypeOK, Phases, SealInv
  <2>1. CASE \E d \in Digests : WriteTemporary(d)
    BY <2>0, <2>1 DEF WriteTemporary, Record!Propose, Record!Next, shown
  <2>2. CASE Rename
    BY <2>0, <2>2 DEF Rename, Record!Replace, Record!Next, shown
  <2>3. CASE digest # None /\ digest' = None /\ file' = file
    BY <2>0, <2>3 DEF Record!Return, Record!Next, shown
  <2>4. CASE UNCHANGED <<file, digest>>
    BY <2>0, <2>4 DEF Record!vars, shown
  <2>5. WriteTemporaryFails \/ RenameFails \/ Commit \/ CommitFails
          => digest # None /\ digest' = None /\ file' = file
    BY DEF WriteTemporaryFails, RenameFails, Commit, CommitFails, Abandon
  <2>6. Crash => \/ digest # None /\ digest' = None /\ file' = file
                 \/ UNCHANGED <<file, digest>>
    BY DEF Crash
  <2>7. QED
    BY <2>1, <2>2, <2>3, <2>4, <2>5, <2>6 DEF Next, vars, Create, Load, Finish, Prepare
<1>6. QED
  BY <1>1, <1>2, <1>4, <1>5, Inductive, PTL DEF Spec, Record!Spec, ImplementsDurableRecord

-----------------------------------------------------------------------------
(* The saved games                                                         *)

Fields == {"kind", "step", "path", "id", "games", "launches", "benchmarks"}

\* What call c has in its hands when it is in the state x: from the load to
\* the replacement it holds the lock, and what it has loaded is the file.
InHand(x, c) ==
  /\ DOMAIN x = Fields
  /\ x.step \in {"load", "save"} => profilesLock = c
  /\ x.step \in {"lock", "load", "save"} =>
       /\ x.kind = "save" => x.path \in Paths /\ x.id = IdOf[x.path]
       /\ x.kind = "remove" => x.id \in Ids
  /\ x.step = "save" =>
       /\ x.games = games
       /\ x.kind = "save" => games[x.id].path \in {Nothing, x.path}
       /\ x.kind = "remove" => games[x.id] # NoGame

\* A game is saved under the ID of its path.
Placed == \A i \in Ids : games[i] # NoGame => games[i].path \in Paths /\ IdOf[games[i].path] = i

LibraryInv == /\ DOMAIN games = Ids /\ DOMAIN last = Paths /\ DOMAIN call = Calls
              /\ \A c \in Calls : InHand(call[c], c)
              /\ Placed
              /\ NoLostUpdate

LEMMA FieldsOfNewCall ==
    /\ DOMAIN NewCall = Fields /\ NewCall.step = "unused" /\ NewCall.kind = Nothing
BY DEF NewCall, Fields

\* A call that goes on without replacing the library.
LEMMA OneCallGoesOn ==
    ASSUME LibraryInv, NEW c \in Calls, NEW x,
           games' = games, last' = last, call' = [call EXCEPT ![c] = x],
           \A d \in Calls \ {c} : profilesLock = d => profilesLock' = d,
           InHand(x, c)'
    PROVE  LibraryInv'
<1>1. DOMAIN call' = Calls /\ call'[c] = x /\ \A d \in Calls \ {c} : call'[d] = call[d]
  BY DEF LibraryInv
<1>2. \A d \in Calls : InHand(call[d], d)'
  <2> SUFFICES ASSUME NEW d \in Calls PROVE InHand(call[d], d)'
    OBVIOUS
  <2>1. CASE d = c
    BY <1>1, <2>1
  <2>2. CASE d # c
    BY <1>1, <2>2 DEF LibraryInv, InHand
  <2> QED
    BY <2>1, <2>2
<1>3. Placed' /\ NoLostUpdate'
  BY DEF LibraryInv, Placed, NoLostUpdate
<1> QED
  BY <1>1, <1>2, <1>3 DEF LibraryInv

\* A call that returns has nothing in its hands.
LEMMA ReturnsEmptyHanded ==
    ASSUME LibraryInv, NEW c \in Calls, Return(c)
    PROVE  \E x : /\ call' = [call EXCEPT ![c] = x]
                  /\ DOMAIN x = Fields /\ x.step = "returned" /\ x.kind = call[c].kind
                  /\ \A d \in Calls \ {c} : profilesLock = d => profilesLock' = d
<1> DEFINE x == [NewCall EXCEPT !.kind = call[c].kind, !.step = "returned"]
<1>1. DOMAIN x = Fields /\ x.step = "returned" /\ x.kind = call[c].kind
  BY FieldsOfNewCall DEF Fields
<1>2. call' = [call EXCEPT ![c] = x] /\ profilesLock' = IF profilesLock = c THEN Nothing ELSE profilesLock
  BY DEF Return
<1> HIDE DEF x
<1> QED
  BY <1>1, <1>2

LEMMA ReturnGoesOn ==
    ASSUME LibraryInv, NEW c \in Calls, Return(c), games' = games, last' = last
    PROVE  LibraryInv'
<1>1. PICK x : /\ call' = [call EXCEPT ![c] = x]
               /\ DOMAIN x = Fields /\ x.step = "returned"
               /\ \A d \in Calls \ {c} : profilesLock = d => profilesLock' = d
  BY ReturnsEmptyHanded
<1>2. InHand(x, c)'
  BY <1>1 DEF InHand
<1> QED
  BY <1>1, <1>2, OneCallGoesOn

\* A call that takes another step with the same request in its hands.
LEMMA StepGoesOn ==
    ASSUME LibraryInv, NEW c \in Calls, NEW to, CallGoes(c, to), games' = games, last' = last,
           \A d \in Calls \ {c} : profilesLock = d => profilesLock' = d,
           to \in {"start", "lock", "load"},
           to \in {"lock", "load"} => call[c].step \in {"lock", "load"} \/ call[c].kind = "launch",
           to = "load" => profilesLock' = c
    PROVE  LibraryInv'
<1>1. InHand(call[c], c) /\ DOMAIN call = Calls
  BY DEF LibraryInv
<1>2. PICK x : x = [call[c] EXCEPT !.step = to]
  OBVIOUS
<1>3. call' = [call EXCEPT ![c] = x]
  BY <1>2 DEF CallGoes
<1>4. /\ DOMAIN x = Fields /\ x.step = to /\ x.kind = call[c].kind
      /\ x.path = call[c].path /\ x.id = call[c].id
  BY <1>1, <1>2 DEF InHand, Fields
<1>5. InHand(x, c)'
  BY <1>1, <1>4 DEF InHand
<1> QED
  BY <1>3, <1>5, OneCallGoesOn

LEMMA RequestStep ==
    ASSUME LibraryInv, NEW c \in Calls,
           SaveGame(c) \/ ByID(c, "remove") \/ ByID(c, "attach") \/ FindGame(c)
    PROVE  LibraryInv'
<1>1. ASSUME NEW p \in Paths,
             call' = [call EXCEPT ![c] = [NewCall EXCEPT !.kind = "save", !.step = "lock",
                                                         !.path = p, !.id = IdOf[p]]],
             UNCHANGED <<files, profilesLock, last, recorded>>
      PROVE  LibraryInv'
  <2> DEFINE x == [NewCall EXCEPT !.kind = "save", !.step = "lock", !.path = p, !.id = IdOf[p]]
  <2>1. /\ DOMAIN x = Fields /\ x.step = "lock" /\ x.kind = "save" /\ x.path = p
        /\ x.id = IdOf[p]
    BY FieldsOfNewCall DEF Fields
  <2> HIDE DEF x
  <2>2. InHand(x, c)'
    BY <2>1 DEF InHand
  <2>3. call' = [call EXCEPT ![c] = x] /\ games' = games /\ last' = last /\ profilesLock' = profilesLock
    BY <1>1 DEF x, files
  <2> QED
    BY <2>2, <2>3, OneCallGoesOn
<1>2. ASSUME NEW i \in Ids, NEW kind \in {"remove", "attach", "launch", "run"},
             NEW step \in {"lock", "start"},
             call' = [call EXCEPT ![c] = [NewCall EXCEPT !.kind = kind, !.id = i, !.step = step]],
             UNCHANGED <<files, profilesLock, last, recorded>>
      PROVE  LibraryInv'
  <2> DEFINE x == [NewCall EXCEPT !.kind = kind, !.id = i, !.step = step]
  <2>1. /\ DOMAIN x = Fields /\ x.step = step /\ x.kind = kind /\ x.id = i
    BY FieldsOfNewCall DEF Fields
  <2> HIDE DEF x
  <2>2. InHand(x, c)'
    BY <2>1 DEF InHand
  <2>3. call' = [call EXCEPT ![c] = x] /\ games' = games /\ last' = last /\ profilesLock' = profilesLock
    BY <1>2 DEF x, files
  <2> QED
    BY <2>2, <2>3, OneCallGoesOn
<1>3. CASE SaveGame(c)
  BY <1>1, <1>3 DEF SaveGame
<1>4. ASSUME NEW kind \in {"remove", "attach"}, ByID(c, kind) PROVE LibraryInv'
  <2>1. PICK i \in Ids : call' = [call EXCEPT ![c] = [NewCall EXCEPT !.kind = kind,
                                                         !.step = "lock", !.id = i]]
    BY <1>4 DEF ByID
  <2>2. [NewCall EXCEPT !.kind = kind, !.step = "lock", !.id = i]
          = [NewCall EXCEPT !.kind = kind, !.id = i, !.step = "lock"]
    BY DEF NewCall
  <2>3. UNCHANGED <<files, profilesLock, last, recorded>>
    BY <1>4 DEF ByID
  <2> QED
    BY <1>2, <2>1, <2>2, <2>3
<1>5. CASE FindGame(c)
  <2>1. PICK i \in Ids, kind \in {"launch", "run"} :
          call' = [call EXCEPT ![c] = [NewCall EXCEPT !.kind = kind, !.id = i,
                                         !.step = IF kind = "launch" THEN "start" ELSE "lock"]]
    BY <1>5 DEF FindGame
  <2>2. UNCHANGED <<files, profilesLock, last, recorded>>
    BY <1>5 DEF FindGame
  <2>3. (IF kind = "launch" THEN "start" ELSE "lock") \in {"lock", "start"}
    OBVIOUS
  <2> QED
    BY <1>2, <2>1, <2>2, <2>3
<1> QED
  BY <1>3, <1>4, <1>5

LEMMA LockStep ==
    ASSUME LibraryInv, NEW c \in Calls, Start(c) \/ Acquire(c) \/ Fail(c)
    PROVE  LibraryInv'
<1>1. games' = games /\ last' = last
  BY DEF Start, Acquire, Fail, files
<1>2. CASE Return(c)
  BY <1>1, <1>2, ReturnGoesOn
<1>3. CASE Start(c) /\ ~Return(c)
  <2>1. /\ call[c].kind = "launch" /\ CallGoes(c, "lock") /\ profilesLock' = profilesLock
    BY <1>3 DEF Start
  <2> QED
    BY <1>1, <2>1, StepGoesOn
<1>4. CASE Acquire(c) /\ ~Return(c)
  <2>1. CASE profilesLock = Nothing
    <3>1. call[c].step = "lock" /\ profilesLock' = c /\ CallGoes(c, "load")
      BY <1>4, <2>1 DEF Acquire, CallAt
    <3>2. \A d \in Calls : profilesLock # d
      BY <2>1, NothingAssumption
    <3> QED
      BY <1>1, <3>1, <3>2, StepGoesOn
  <2>2. CASE profilesLock # Nothing
    <3>1. profilesLock' = profilesLock /\ CallGoes(c, "start")
      BY <1>4, <2>2 DEF Acquire
    <3> QED
      BY <1>1, <3>1, StepGoesOn
  <2> QED
    BY <2>1, <2>2
<1> QED
  BY <1>2, <1>3, <1>4 DEF Fail

LEMMA LoadStep ==
    ASSUME LibraryInv, NEW c \in Calls, LoadFiles(c)
    PROVE  LibraryInv'
<1>1. games' = games /\ last' = last
  BY DEF LoadFiles, files
<1>2. CASE Return(c)
  BY <1>1, <1>2, ReturnGoesOn
<1>3. CASE ~Return(c)
  <2> DEFINE id == call[c].id
             possible == CASE call[c].kind = "save" -> games[id].path \in {Nothing, call[c].path}
                           [] call[c].kind \in {"remove", "attach"} -> games[id] # NoGame
                           [] OTHER -> TRUE
  <2>1. /\ possible /\ call[c].step = "load" /\ profilesLock' = profilesLock
        /\ call' = [call EXCEPT ![c].step = "save", ![c].games = games,
                                ![c].launches = launches, ![c].benchmarks = benchmarks]
    BY <1>3 DEF LoadFiles, CallAt
  <2>2. /\ call[c].kind = "save" => games[id].path \in {Nothing, call[c].path}
        /\ call[c].kind = "remove" => games[id] # NoGame
    BY <2>1
  <2>3. PICK x : x = [call[c] EXCEPT !.step = "save", !.games = games,
                                     !.launches = launches, !.benchmarks = benchmarks]
    OBVIOUS
  <2>4. InHand(call[c], c) /\ DOMAIN call = Calls
    BY DEF LibraryInv
  <2>5. call' = [call EXCEPT ![c] = x]
    BY <2>1, <2>3, <2>4
  <2>6. /\ DOMAIN x = Fields /\ x.step = "save" /\ x.kind = call[c].kind
        /\ x.path = call[c].path /\ x.id = call[c].id /\ x.games = games
    BY <2>3, <2>4 DEF InHand, Fields
  <2>7. InHand(x, c)'
    BY <1>1, <2>1, <2>2, <2>4, <2>6 DEF InHand
  <2> QED
    BY <1>1, <2>1, <2>5, <2>7, OneCallGoesOn
<1> QED
  BY <1>2, <1>3

LEMMA HistoryStep ==
    ASSUME LibraryInv, NEW c \in Calls, CommitHistory(c)
    PROVE  LibraryInv'
<1>1. games' = games /\ last' = last
  BY DEF CommitHistory
<1>2. CASE Return(c)
  BY <1>1, <1>2, ReturnGoesOn
<1>3. CASE ~Return(c)
  <2>1. CallGoes(c, "start") /\ profilesLock' = Nothing /\ call[c].step = "save"
    BY <1>3 DEF CommitHistory, CallAt
  <2>2. profilesLock = c
    BY <2>1 DEF LibraryInv, InHand
  <2> QED
    BY <1>1, <2>1, <2>2, StepGoesOn
<1> QED
  BY <1>2, <1>3

\* A change of the library is made on the file as it is, of which the call
\* has seen that it may be changed like that.
LEMMA GamesStep ==
    ASSUME LibraryInv, NEW c \in Calls, CommitGames(c)
    PROVE  LibraryInv'
<1> DEFINE id == call[c].id
           saving == call[c].kind = "save"
           game == IF saving THEN [path |-> call[c].path, by |-> c] ELSE NoGame
           changed == IF saving THEN call[c].path ELSE games[id].path
<1>0. /\ InHand(call[c], c) /\ call[c].step = "save" /\ call[c].kind \in {"save", "remove"}
      /\ Return(c)
      /\ DOMAIN games = Ids /\ DOMAIN last = Paths /\ DOMAIN call = Calls
      /\ Placed /\ NoLostUpdate
  BY DEF LibraryInv, CommitGames, CallAt
<1>1. call[c].games = games /\ profilesLock = c
  BY <1>0 DEF InHand
<1>2. CASE UNCHANGED <<games, last>>
  BY <1>0, <1>2, ReturnGoesOn
<1>3. CASE ~UNCHANGED <<games, last>>
  <2>1. /\ games' = [games EXCEPT ![id] = game]
        /\ last' = [last EXCEPT ![changed] = IF saving THEN c ELSE Nothing]
    BY <1>1, <1>3 DEF CommitGames
  <2>2. id \in Ids /\ changed \in Paths /\ IdOf[changed] = id
    <3>1. CASE saving
      BY <1>0, <3>1 DEF InHand, Ids
    <3>2. CASE ~saving
      BY <1>0, <3>2 DEF InHand, Placed
    <3> QED
      BY <3>1, <3>2
  <2>3. games[id].path \in {Nothing, changed} \/ games[id] = NoGame
    BY <1>0 DEF InHand
  <2>4. /\ game = NoGame \/ game = [path |-> changed, by |-> c]
        /\ game = NoGame <=> ~saving
    <3>1. ASSUME saving PROVE game = [path |-> changed, by |-> c] /\ game # NoGame
      <4>1. game = [path |-> changed, by |-> c] /\ game.path = changed /\ NoGame.path = Nothing
        BY <3>1 DEF NoGame
      <4> QED
        BY <4>1, <2>2, NothingAssumption
    <3> QED
      BY <3>1
  <2>5. \A p \in Paths \ {changed} : last[p] # Nothing => IdOf[p] # id
    <3> SUFFICES ASSUME NEW p \in Paths, p # changed, last[p] # Nothing, IdOf[p] = id
                 PROVE  FALSE
      OBVIOUS
    <3>1. games[id] = [path |-> p, by |-> last[p]]
      BY <1>0 DEF NoLostUpdate
    <3>2. games[id].path = p /\ p # Nothing
      BY <3>1, NothingAssumption
    <3>3. games[id] # NoGame
      BY <3>2 DEF NoGame
    <3> QED
      BY <2>3, <3>2, <3>3
  <2> HIDE DEF id, game, changed, saving
  <2>6. /\ games'[id] = game /\ \A i \in Ids \ {id} : games'[i] = games[i]
        /\ last'[changed] = (IF saving THEN c ELSE Nothing)
        /\ \A p \in Paths \ {changed} : last'[p] = last[p]
        /\ DOMAIN games' = Ids /\ DOMAIN last' = Paths
    BY <1>0, <2>1, <2>2
  <2>7. Placed'
    BY <1>0, <2>2, <2>4, <2>6 DEF Placed
  <2>8. NoLostUpdate'
    <3>1. ASSUME NEW p \in Paths, last'[p] # Nothing
          PROVE  games'[IdOf[p]] = [path |-> p, by |-> last'[p]]
      <4>1. CASE p = changed
        BY <2>2, <2>4, <2>6, <3>1, <4>1
      <4>2. CASE p # changed
        <5>1. last'[p] = last[p] /\ IdOf[p] \in Ids /\ IdOf[p] # id
          BY <2>5, <2>6, <3>1, <4>2 DEF Ids
        <5>2. games'[IdOf[p]] = games[IdOf[p]]
          BY <2>6, <5>1
        <5> QED
          BY <1>0, <3>1, <5>1, <5>2 DEF NoLostUpdate
      <4> QED
        BY <4>1, <4>2
    <3>2. ASSUME NEW i \in Ids, games'[i] # NoGame
          PROVE  last'[games'[i].path] = games'[i].by
      <4>1. CASE i = id
        <5>1. games'[i] = [path |-> changed, by |-> c] /\ saving
          BY <2>4, <2>6, <3>2, <4>1
        <5> QED
          BY <2>6, <5>1
      <4>2. CASE i # id
        <5>1. games'[i] = games[i]
          BY <2>6, <4>2
        <5>2. games[i].path \in Paths /\ IdOf[games[i].path] = i
          BY <1>0, <3>2, <5>1 DEF Placed
        <5>3. games[i].path # changed
          BY <2>2, <4>2, <5>2
        <5> QED
          BY <1>0, <2>6, <3>2, <5>1, <5>2, <5>3 DEF NoLostUpdate
      <4> QED
        BY <4>1, <4>2
    <3> QED
      BY <3>1, <3>2 DEF NoLostUpdate
  <2>9. PICK x : /\ call' = [call EXCEPT ![c] = x]
                 /\ DOMAIN x = Fields /\ x.step = "returned"
    BY <1>0, ReturnsEmptyHanded
  <2>10. DOMAIN call' = Calls /\ \A d \in Calls : InHand(call[d], d)'
    <3>1. DOMAIN call' = Calls /\ call'[c] = x /\ \A d \in Calls \ {c} : call'[d] = call[d]
      BY <1>0, <2>9
    <3>2. ASSUME NEW d \in Calls \ {c} PROVE InHand(call[d], d)'
      <4>1. InHand(call[d], d) /\ call'[d] = call[d]
        BY <3>1 DEF LibraryInv
      <4>2. call[d].step \notin {"load", "save"}
        BY <1>1, <4>1 DEF InHand
      <4> QED
        BY <4>1, <4>2 DEF InHand
    <3>3. InHand(call[c], c)'
      BY <2>9, <3>1 DEF InHand
    <3> QED
      BY <3>1, <3>2, <3>3
  <2> QED
    BY <2>6, <2>7, <2>8, <2>10 DEF LibraryInv
<1> QED
  BY <1>2, <1>3

LEMMA LibraryInitially == LibraryInit => LibraryInv
<1> SUFFICES ASSUME LibraryInit PROVE LibraryInv
  OBVIOUS
<1>1. PICK saved \in SUBSET Paths :
        /\ \A p, q \in saved : IdOf[p] = IdOf[q] => p = q
        /\ games = [i \in Ids |-> IF \E p \in saved : IdOf[p] = i
                                  THEN [path |-> CHOOSE p \in saved : IdOf[p] = i, by |-> 0]
                                  ELSE NoGame]
        /\ last = [p \in Paths |-> IF p \in saved THEN 0 ELSE Nothing]
  BY DEF LibraryInit
<1>2. call = [c \in Calls |-> NewCall]
  BY DEF LibraryInit
<1>3. DOMAIN call = Calls /\ \A c \in Calls : InHand(call[c], c)
  BY <1>2, FieldsOfNewCall DEF InHand
<1>4. \A p \in saved : IdOf[p] \in Ids /\ games[IdOf[p]] = [path |-> p, by |-> 0]
  <2> SUFFICES ASSUME NEW p \in saved
               PROVE  IdOf[p] \in Ids /\ games[IdOf[p]] = [path |-> p, by |-> 0]
    OBVIOUS
  <2> DEFINE chosen == CHOOSE q \in saved : IdOf[q] = IdOf[p]
  <2>1. chosen = p
    BY <1>1
  <2>2. IdOf[p] \in Ids
    BY DEF Ids
  <2> QED
    BY <1>1, <2>1, <2>2
<1>5. \A i \in Ids : games[i] # NoGame => \E p \in saved : IdOf[p] = i
  BY <1>1
<1>6. \A p \in Paths : last[p] = IF p \in saved THEN 0 ELSE Nothing
  BY <1>1
<1>7. \A i \in Ids : games[i] # NoGame =>
        \E p \in saved : IdOf[p] = i /\ games[i].path = p /\ games[i].by = 0
  <2> SUFFICES ASSUME NEW i \in Ids, games[i] # NoGame
               PROVE  \E p \in saved : IdOf[p] = i /\ games[i].path = p /\ games[i].by = 0
    OBVIOUS
  <2>1. PICK p \in saved : IdOf[p] = i
    BY <1>5
  <2>2. games[i] = [path |-> p, by |-> 0]
    BY <1>4, <2>1
  <2> QED
    BY <2>1, <2>2
<1>8. Placed
  BY <1>7 DEF Placed
<1>9. NoLostUpdate
  <2>1. \A p \in Paths : last[p] # Nothing => games[IdOf[p]] = [path |-> p, by |-> last[p]]
    BY <1>4, <1>6
  <2>2. \A i \in Ids : games[i] # NoGame => last[games[i].path] = games[i].by
    BY <1>6, <1>7
  <2> QED
    BY <2>1, <2>2 DEF NoLostUpdate
<1> QED
  BY <1>1, <1>3, <1>8, <1>9 DEF LibraryInv

LEMMA LibraryInvariant == LibrarySpec => []LibraryInv
<1>1. LibraryInv /\ [LibraryNext]_libraryVars => LibraryInv'
  <2> SUFFICES ASSUME LibraryInv, [LibraryNext]_libraryVars PROVE LibraryInv'
    OBVIOUS
  <2>1. ASSUME NEW c \in Calls,
               \/ SaveGame(c) \/ ByID(c, "remove") \/ ByID(c, "attach") \/ FindGame(c)
               \/ Start(c) \/ Acquire(c) \/ LoadFiles(c)
               \/ CommitGames(c) \/ CommitHistory(c) \/ Fail(c)
        PROVE  LibraryInv'
    BY <2>1, RequestStep, LockStep, LoadStep, GamesStep, HistoryStep
  <2>2. CASE UNCHANGED libraryVars
    BY <2>2 DEF libraryVars, files, LibraryInv, InHand, Placed, NoLostUpdate
  <2> QED
    BY <2>1, <2>2 DEF LibraryNext
<1> QED
  BY <1>1, LibraryInitially, PTL DEF LibrarySpec

\* The library is what the successful calls made of it (SaveGame, RemoveGame,
\* games add): every change is made on the file as it is, under the lock that
\* nobody waits for, and an ID that two paths share is refused.
THEOREM LibraryKept == LibrarySpec => []NoLostUpdate
<1>1. LibraryInv => NoLostUpdate
  BY DEF LibraryInv
<1> QED
  BY <1>1, LibraryInvariant, PTL

-----------------------------------------------------------------------------
(* What a history keeps                                                    *)

LEMMA Positions ==
    ASSUME NEW n \in Nat
    PROVE  IsFiniteSet(1..n) /\ Cardinality(1..n) = n
<1>1. 1 \in Int /\ n \in Int
  OBVIOUS
<1>2. IsFiniteSet(1..n) /\ Cardinality(1..n) = IF 1 > n THEN 0 ELSE n - 1 + 1
  BY <1>1, FS_Interval
<1> QED
  BY <1>2

LEMMA SomePositions ==
    ASSUME NEW n \in Nat, NEW S \in SUBSET (1..n), NEW U \in SUBSET S
    PROVE  /\ IsFiniteSet(S) /\ Cardinality(S) \in 0..n
           /\ IsFiniteSet(U) /\ Cardinality(U) \in 0..Cardinality(S)
           /\ U # S => Cardinality(U) < Cardinality(S)
<1>1. IsFiniteSet(S) /\ Cardinality(S) <= n
  <2>1. IsFiniteSet(1..n) /\ Cardinality(1..n) = n
    BY Positions
  <2>2. IsFiniteSet(S) /\ Cardinality(S) <= Cardinality(1..n)
    BY <2>1, FS_Subset
  <2> QED
    BY <2>1, <2>2
<1>2. IsFiniteSet(U) /\ Cardinality(U) <= Cardinality(S)
  BY <1>1, FS_Subset
<1>3. Cardinality(S) \in Nat /\ Cardinality(U) \in Nat
  BY <1>1, <1>2, FS_CardinalityType
<1>4. U # S => Cardinality(U) # Cardinality(S)
  BY <1>1, FS_Subset
<1> QED
  BY <1>1, <1>2, <1>3, <1>4

\* What comes before each of 1..n in an order of them.
Ordering(n, before) ==
  /\ before \in [1..n -> SUBSET (1..n)]
  /\ \A i \in 1..n : i \notin before[i] /\ \A j \in before[i] : before[j] \subseteq before[i]
  /\ \A i, j \in 1..n : i # j => i \in before[j] \/ j \in before[i]

\* As many members of a set come before each as its rank in the set says.
LEMMA RankedOneByOne ==
    ASSUME NEW n \in Nat, NEW before, Ordering(n, before), NEW S \in SUBSET (1..n)
    PROVE  [i \in S |-> Cardinality(before[i] \cap S)]
             \in Bijection(S, 0..(Cardinality(S) - 1))
<1> DEFINE rank == [i \in S |-> Cardinality(before[i] \cap S)]
           c == Cardinality(S)
<1>1. IsFiniteSet(S) /\ c \in Nat
  BY SomePositions
<1>2. ASSUME NEW i \in S PROVE rank[i] \in 0..(c - 1)
  <2>1. before[i] \cap S \in SUBSET S /\ before[i] \cap S # S
    BY DEF Ordering
  <2>2. Cardinality(before[i] \cap S) \in 0..c /\ Cardinality(before[i] \cap S) < c
    BY <2>1, SomePositions
  <2> QED
    BY <1>1, <2>2
<1>3. ASSUME NEW i \in S, NEW j \in S, i \in before[j] PROVE rank[i] # rank[j]
  <2> DEFINE U == before[i] \cap S
             V == before[j] \cap S
  <2>1. U \in SUBSET V /\ i \in V /\ i \notin U /\ V \in SUBSET (1..n)
    BY <1>3 DEF Ordering
  <2>2. U # V
    BY <2>1
  <2> HIDE DEF U, V
  <2>3. Cardinality(U) < Cardinality(V) /\ Cardinality(V) \in 0..n
        /\ Cardinality(U) \in 0..Cardinality(V)
    BY <2>1, <2>2, SomePositions
  <2> QED
    BY <2>3 DEF U, V
<1>4. rank \in Injection(S, 0..(c - 1))
  <2>1. rank \in [S -> 0..(c - 1)]
    BY <1>2
  <2>2. \A i, j \in S : i # j => rank[i] # rank[j]
    <3> SUFFICES ASSUME NEW i \in S, NEW j \in S, i # j PROVE rank[i] # rank[j]
      OBVIOUS
    <3>1. i \in before[j] \/ j \in before[i]
      BY DEF Ordering
    <3> HIDE DEF rank
    <3> QED
      BY <1>3, <3>1
  <2> QED
    BY <2>1, <2>2 DEF Injection, IsInjective
<1>5. IsFiniteSet(0..(c - 1)) /\ Cardinality(0..(c - 1)) = c
  <2>1. 0 \in Int /\ c - 1 \in Int
    BY <1>1
  <2>2. /\ IsFiniteSet(0..(c - 1))
        /\ Cardinality(0..(c - 1)) = IF 0 > c - 1 THEN 0 ELSE c - 1 - 0 + 1
    BY <2>1, FS_Interval
  <2> QED
    BY <1>1, <2>2
<1>6. rank \in Surjection(S, 0..(c - 1))
  BY <1>1, <1>4, <1>5, FS_Injection
<1> QED
  BY <1>4, <1>6 DEF Bijection

\* F are the members of S before which there are fewer than m.
Firsts(F, S, before, m) ==
  F \in SUBSET S /\ \A i \in S : i \in F <=> Cardinality(before[i] \cap S) < m

\* They are m, or all.
LEMMA FirstOnes ==
    ASSUME NEW n \in Nat, NEW before, Ordering(n, before), NEW S \in SUBSET (1..n),
           NEW m \in Nat, NEW F, Firsts(F, S, before, m)
    PROVE  /\ Cardinality(S) \in 0..n
           /\ Cardinality(S) <= m => F = S /\ Cardinality(F) = Cardinality(S)
           /\ Cardinality(S) > m => Cardinality(F) = m
<1>0. F \in SUBSET S /\ \A i \in S : i \in F <=> Cardinality(before[i] \cap S) < m
  BY DEF Firsts
<1> DEFINE rank == [i \in S |-> Cardinality(before[i] \cap S)]
           c == Cardinality(S)
<1>1. c \in 0..n
  BY SomePositions
<1>2. rank \in Bijection(S, 0..(c - 1))
  BY RankedOneByOne
<1>3. /\ \A i \in S : rank[i] \in 0..(c - 1)
      /\ \A i, j \in S : i # j => rank[i] # rank[j]
      /\ \A k \in 0..(c - 1) : \E i \in S : rank[i] = k
  BY <1>2 DEF Bijection, Injection, IsInjective, Surjection
<1>4. ASSUME c <= m PROVE F = S
  <2>1. ASSUME NEW i \in S PROVE Cardinality(before[i] \cap S) < m
    <3>1. rank[i] \in 0..(c - 1) /\ rank[i] = Cardinality(before[i] \cap S)
      BY <1>3
    <3> HIDE DEF rank
    <3> QED
      BY <1>1, <1>4, <3>1
  <2> QED
    BY <1>0, <2>1
<1>5. ASSUME c > m PROVE Cardinality(F) = m
  <2> DEFINE first == [i \in F |-> rank[i]]
  <2>1. \A i \in S : rank[i] \in Nat /\ (i \in F <=> rank[i] < m)
    BY <1>0, <1>1, <1>3
  <2> HIDE DEF rank
  <2>2. first \in [F -> 0..(m - 1)]
    BY <1>0, <2>1
  <2>3. first \in Injection(F, 0..(m - 1))
    <3>1. \A i, j \in F : i # j => first[i] # first[j]
      BY <1>0, <1>3
    <3> QED
      BY <2>2, <3>1 DEF Injection, IsInjective
  <2>4. first \in Surjection(F, 0..(m - 1))
    <3>1. ASSUME NEW k \in 0..(m - 1) PROVE \E i \in F : first[i] = k
      <4>1. k \in 0..(c - 1) /\ k < m
        BY <1>1, <1>5
      <4>2. PICK i \in S : rank[i] = k
        BY <1>3, <4>1
      <4>3. i \in F
        BY <2>1, <4>1, <4>2
      <4> QED
        BY <4>2, <4>3
    <3> QED
      BY <2>2, <3>1 DEF Surjection
  <2>5. first \in Bijection(F, 0..(m - 1))
    BY <2>3, <2>4 DEF Bijection
  <2>6. IsFiniteSet(F)
    BY <1>0, SomePositions
  <2>7. IsFiniteSet(0..(m - 1)) /\ Cardinality(0..(m - 1)) = m
    <3>1. 0 \in Int /\ m - 1 \in Int
      OBVIOUS
    <3>2. /\ IsFiniteSet(0..(m - 1))
          /\ Cardinality(0..(m - 1)) = IF 0 > m - 1 THEN 0 ELSE m - 1 - 0 + 1
      BY <3>1, FS_Interval
    <3> QED
      BY <3>2
  <2> QED
    BY <2>5, <2>6, <2>7, FS_Bijection DEF ExistsBijection
<1> QED
  BY <1>1, <1>4, <1>5

\* Where a sequence has a record of V, and how often.
Where(records, V) == {k \in DOMAIN records : records[k] \in V}
Count(records, V) == Cardinality(Where(records, V))

\* The chosen ones in order are as many of each kind as were chosen.
LEMMA ChosenInOrder ==
    ASSUME NEW n \in Nat, NEW before, Ordering(n, before), NEW K \in SUBSET (1..n),
           NEW records, NEW q, q = InOrder(records, before, K)
    PROVE  /\ DOMAIN q = 1..Cardinality(K)
           /\ \A k \in DOMAIN q : \E i \in K : q[k] = records[i]
           /\ \A i \in K : \E k \in DOMAIN q : q[k] = records[i]
           /\ \A V : Count(q, V) = Cardinality({i \in K : records[i] \in V})
<1> DEFINE rank == [i \in K |-> Cardinality(before[i] \cap K)]
           c == Cardinality(K)
           place == [k \in 1..c |-> CHOOSE i \in K : Cardinality(before[i] \cap K) = k - 1]
<1>1. c \in Nat
  BY SomePositions
<1>2. /\ \A i \in K : rank[i] \in 0..(c - 1)
      /\ \A i, j \in K : i # j => rank[i] # rank[j]
      /\ \A k \in 0..(c - 1) : \E i \in K : rank[i] = k
  <2>1. rank \in Bijection(K, 0..(c - 1))
    BY RankedOneByOne
  <2> QED
    BY <2>1 DEF Bijection, Injection, IsInjective, Surjection
<1>3. ASSUME NEW k \in 1..c PROVE place[k] \in K /\ rank[place[k]] = k - 1
  <2>1. k - 1 \in 0..(c - 1)
    BY <1>1
  <2>2. \E i \in K : Cardinality(before[i] \cap K) = k - 1
    BY <1>2, <2>1
  <2>3. place[k] \in K /\ Cardinality(before[place[k]] \cap K) = k - 1
    BY <2>2
  <2> QED
    BY <2>3
<1>4. DOMAIN q = 1..c /\ \A k \in 1..c : q[k] = records[place[k]]
  BY DEF InOrder
<1> HIDE DEF rank, place
<1>5. ASSUME NEW i \in K PROVE rank[i] + 1 \in 1..c /\ place[rank[i] + 1] = i
  <2>1. PICK k : k = rank[i] + 1
    OBVIOUS
  <2>2. k \in 1..c /\ k - 1 = rank[i]
    BY <1>1, <1>2, <2>1
  <2>3. place[k] \in K /\ rank[place[k]] = k - 1
    BY <1>3, <2>2
  <2> QED
    BY <1>2, <2>1, <2>2, <2>3
<1>6. ASSUME NEW V PROVE Count(q, V) = Cardinality({i \in K : records[i] \in V})
  <2> DEFINE A == {k \in 1..c : q[k] \in V}
             Z == {i \in K : records[i] \in V}
             f == [k \in A |-> place[k]]
  <2>1. f \in [A -> Z]
    BY <1>3, <1>4
  <2>2. \A k, h \in A : k # h => f[k] # f[h]
    <3> SUFFICES ASSUME NEW k \in A, NEW h \in A, f[k] = f[h] PROVE k = h
      OBVIOUS
    <3>1. k - 1 = h - 1 /\ k \in Nat /\ h \in Nat
      BY <1>3
    <3> QED
      BY <3>1
  <2>3. \A i \in Z : \E k \in A : f[k] = i
    BY <1>4, <1>5
  <2>4. f \in Bijection(A, Z)
    BY <2>1, <2>2, <2>3 DEF Bijection, Injection, IsInjective, Surjection
  <2>5. IsFiniteSet(A)
    <3>1. A \in SUBSET (1..c)
      OBVIOUS
    <3> QED
      BY <1>1, <3>1, SomePositions
  <2> HIDE DEF A, Z, f
  <2>6. Cardinality(A) = Cardinality(Z)
    BY <2>4, <2>5, FS_Bijection DEF ExistsBijection
  <2> QED
    BY <1>4, <2>6 DEF Count, Where, A, Z
<1>7. \A k \in 1..c : \E i \in K : q[k] = records[i]
  BY <1>3, <1>4
<1>8. \A i \in K : \E k \in 1..c : q[k] = records[i]
  BY <1>4, <1>5
<1> QED
  BY <1>4, <1>6, <1>7, <1>8

HistoryRecord == [id : Ids, at : Nat, by : Calls]
Since(t) == {r \in HistoryRecord : r.at >= t}
SinceOf(t, g) == {r \in Since(t) : r.id = g}

\* The newest come first: all that comes before a record of some time on is
\* of that time on.
LEMMA NewestComeFirst ==
    ASSUME NEW n \in Nat, NEW records \in [1..n -> HistoryRecord]
    PROVE  /\ Ordering(n, NewestFirst(records))
           /\ \A t \in Nat : \A i \in Where(records, Since(t)) :
                NewestFirst(records)[i] \subseteq Where(records, Since(t))
<1> DEFINE before == NewestFirst(records)
           at == [i \in 1..n |-> records[i].at]
<1>1. \A i \in 1..n : records[i] \in HistoryRecord /\ at[i] = records[i].at /\ at[i] \in Nat
  BY DEF HistoryRecord
<1> HIDE DEF at
<1>2. /\ before \in [1..n -> SUBSET (1..n)]
      /\ \A i, j \in 1..n : j \in before[i] <=> (at[j] > at[i] \/ (at[j] = at[i] /\ j < i))
  BY <1>1 DEF NewestFirst
<1> HIDE DEF before
<1>3. Ordering(n, before)
  <2>1. ASSUME NEW i \in 1..n PROVE i \notin before[i]
    BY <1>1, <1>2
  <2>2. ASSUME NEW i \in 1..n, NEW j \in before[i] PROVE before[j] \subseteq before[i]
    <3> SUFFICES ASSUME NEW h \in before[j] PROVE h \in before[i]
      OBVIOUS
    <3>1. j \in 1..n /\ h \in 1..n
      BY <1>2
    <3>2. /\ at[j] > at[i] \/ (at[j] = at[i] /\ j < i)
          /\ at[h] > at[j] \/ (at[h] = at[j] /\ h < j)
      BY <1>2, <3>1
    <3>3. at[i] \in Nat /\ at[j] \in Nat /\ at[h] \in Nat
      BY <1>1, <3>1
    <3>4. at[h] > at[i] \/ (at[h] = at[i] /\ h < i)
      BY <3>1, <3>2, <3>3
    <3> QED
      BY <1>2, <3>1, <3>4
  <2>3. ASSUME NEW i \in 1..n, NEW j \in 1..n, i # j PROVE i \in before[j] \/ j \in before[i]
    <3>1. at[i] \in Nat /\ at[j] \in Nat
      BY <1>1
    <3>2. \/ at[i] > at[j] \/ at[j] > at[i]
          \/ at[i] = at[j] /\ i < j
          \/ at[j] = at[i] /\ j < i
      BY <2>3, <3>1
    <3> QED
      BY <1>2, <3>2
  <2> QED
    BY <1>2, <2>1, <2>2, <2>3 DEF Ordering
<1>4. ASSUME NEW t \in Nat, NEW i \in Where(records, Since(t)), NEW j \in before[i]
      PROVE  j \in Where(records, Since(t))
  <2>1. i \in 1..n /\ at[i] >= t
    BY <1>1 DEF Where, Since
  <2>2. j \in 1..n /\ at[j] >= at[i]
    BY <1>1, <1>2, <2>1
  <2>3. at[j] >= t
    BY <1>1, <2>1, <2>2
  <2> QED
    BY <1>1, <2>2, <2>3 DEF Where, Since
<1> QED
  BY <1>3, <1>4 DEF before

\* Of a game's records of some time on, the newest are eligible.
LEMMA EligibleOfGame ==
    ASSUME NEW n \in Nat, NEW records \in [1..n -> HistoryRecord], NEW perProfile \in Nat,
           NEW t \in Nat, NEW g, NEW before, before = NewestFirst(records),
           NEW E, E = Eligible(records, before, perProfile),
           NEW G, G = Where(records, SinceOf(t, g))
    PROVE  Firsts(E \cap G, G, before, perProfile)
<1>1. E \in SUBSET (1..n) /\ G \in SUBSET (1..n)
  BY DEF Eligible, Where
<1>2. Ordering(n, before)
  BY NewestComeFirst
<1>3. ASSUME NEW i \in G PROVE {j \in before[i] : records[j].id = records[i].id} = before[i] \cap G
  <2>1. i \in Where(records, Since(t)) /\ records[i].id = g
    BY DEF Where, SinceOf
  <2>2. before[i] \subseteq Where(records, Since(t))
    BY <2>1, NewestComeFirst
  <2> QED
    BY <2>1, <2>2 DEF Where, SinceOf
<1>4. \A i \in 1..n : i \in E <=>
        Cardinality({j \in before[i] : records[j].id = records[i].id}) < perProfile
  BY DEF Eligible
<1>5. \A i \in G : i \in E \cap G <=> Cardinality(before[i] \cap G) < perProfile
  BY <1>1, <1>3, <1>4
<1> QED
  BY <1>5 DEF Firsts

\* Of the eligible records of some time on, the newest are kept.
LEMMA KeptOfEligible ==
    ASSUME NEW n \in Nat, NEW records \in [1..n -> HistoryRecord],
           NEW perProfile \in Nat, NEW total \in Nat, NEW t \in Nat,
           NEW before, before = NewestFirst(records),
           NEW E, E = Eligible(records, before, perProfile),
           NEW K, K = Kept(records, before, perProfile, total),
           NEW W, W = Where(records, Since(t))
    PROVE  Firsts(K \cap W, E \cap W, before, total)
<1> DEFINE S == E \cap W
<1>1. E \in SUBSET (1..n)
  BY DEF Eligible
<1>2. Ordering(n, before) /\ \A i \in W : before[i] \subseteq W
  BY NewestComeFirst
<1>3. K = {i \in E : Cardinality(before[i] \cap E) < total}
  BY DEF Kept
<1>4. \A i \in S : before[i] \cap S = before[i] \cap E
  BY <1>2
<1>5. \A i \in S : i \in K \cap W <=> Cardinality(before[i] \cap S) < total
  BY <1>3, <1>4
<1>6. K \cap W \in SUBSET S
  BY <1>1, <1>3
<1> QED
  BY <1>5, <1>6 DEF Firsts

\* At most so many of a game and so many in all.
Within(records, perProfile, total) ==
  /\ records \in Seq(HistoryRecord)
  /\ \A t \in Nat : /\ Count(records, Since(t)) <= total
                   /\ \A g : Count(records, SinceOf(t, g)) <= perProfile

\* What makes room for a record: as many newer ones as are kept.
MadeRoom(records, r, perProfile, total) ==
  \/ Count(records, Since(r.at)) = total
  \/ Count(records, SinceOf(r.at, r.id)) = perProfile

\* Of some time on, q has as many as may be kept, or of each game as many as
\* may be kept or as there are.
KeepsNewest(q, records, E, perProfile, total) ==
  \A t \in Nat :
    \/ Count(q, Since(t)) = total
    \/ /\ Cardinality(E \cap Where(records, Since(t))) < total
       /\ \A g : Count(q, SinceOf(t, g)) = IF Count(records, SinceOf(t, g)) <= perProfile
                                           THEN Count(records, SinceOf(t, g)) ELSE perProfile

LEMMA PruneKeeps ==
    ASSUME NEW records \in Seq(HistoryRecord), NEW perProfile \in Nat, NEW total \in Nat,
           NEW before, before = NewestFirst(records),
           NEW E, E = Eligible(records, before, perProfile),
           NEW K, K = Kept(records, before, perProfile, total),
           NEW q, q = Prune(records, perProfile, total)
    PROVE  /\ Within(q, perProfile, total)
           /\ \A i \in K : \E k \in DOMAIN q : q[k] = records[i]
           /\ KeepsNewest(q, records, E, perProfile, total)
<1> DEFINE n == Len(records)
<1>1. n \in Nat /\ records \in [1..n -> HistoryRecord]
  OBVIOUS
<1> HIDE DEF n
<1>2. /\ Ordering(n, before) /\ E \in SUBSET (1..n) /\ K \in SUBSET E
  <2>1. Ordering(n, before)
    BY <1>1, NewestComeFirst
  <2>2. E \in SUBSET (1..n)
    BY <1>1 DEF Eligible
  <2>3. K \in SUBSET E
    BY DEF Kept
  <2> QED
    BY <2>1, <2>2, <2>3
<1>3. q = InOrder(records, before, K)
  BY DEF Prune
<1>3a. K \in SUBSET (1..n)
  BY <1>2
<1>4. /\ DOMAIN q = 1..Cardinality(K)
      /\ \A k \in DOMAIN q : \E i \in K : q[k] = records[i]
      /\ \A i \in K : \E k \in DOMAIN q : q[k] = records[i]
      /\ \A V : Count(q, V) = Cardinality({i \in K : records[i] \in V})
  <2>1. Ordering(n, before)
    BY <1>2
  <2> QED
    BY <1>1, <1>3, <1>3a, <2>1, ChosenInOrder
<1>5. q \in Seq(HistoryRecord)
  <2>1. Cardinality(K) \in Nat
    BY <1>1, <1>3a, SomePositions
  <2>2. \A k \in DOMAIN q : q[k] \in HistoryRecord
    BY <1>1, <1>3a, <1>4
  <2>3. q = [k \in 1..Cardinality(K) |-> q[k]]
    BY <1>3, <1>4 DEF InOrder
  <2> QED
    BY <1>4, <2>1, <2>2, <2>3
<1>6. ASSUME NEW V PROVE Count(q, V) = Cardinality(K \cap Where(records, V))
  <2>1. {i \in K : records[i] \in V} = K \cap Where(records, V)
    BY <1>1, <1>3a DEF Where
  <2>2. Count(q, V) = Cardinality({i \in K : records[i] \in V})
    BY <1>4
  <2> QED
    BY <2>1, <2>2, Zenon
<1>7. ASSUME NEW t \in Nat, NEW W, W = Where(records, Since(t))
      PROVE  /\ Cardinality(E \cap W) \in Nat
             /\ Cardinality(E \cap W) <= total =>
                  K \cap W = E \cap W /\ Cardinality(K \cap W) = Cardinality(E \cap W)
             /\ Cardinality(E \cap W) > total => Cardinality(K \cap W) = total
             /\ Count(q, Since(t)) = Cardinality(K \cap W)
  <2>1. Firsts(K \cap W, E \cap W, before, total)
    BY <1>1, <1>7, KeptOfEligible
  <2> HIDE DEF n
  <2>2. E \cap W \in SUBSET (1..n) /\ Ordering(n, before)
    BY <1>2
  <2>3. Count(q, Since(t)) = Cardinality(K \cap W)
    BY <1>6, <1>7
  <2>4. /\ Cardinality(E \cap W) \in 0..n
        /\ Cardinality(E \cap W) <= total =>
             K \cap W = E \cap W /\ Cardinality(K \cap W) = Cardinality(E \cap W)
        /\ Cardinality(E \cap W) > total => Cardinality(K \cap W) = total
    <3> DEFINE S == E \cap W
               F == K \cap W
    <3>1. S \in SUBSET (1..n) /\ Ordering(n, before) /\ Firsts(F, S, before, total)
      BY <2>1, <2>2
    <3> HIDE DEF S, F
    <3>2. /\ Cardinality(S) \in 0..n
          /\ Cardinality(S) <= total => F = S /\ Cardinality(F) = Cardinality(S)
          /\ Cardinality(S) > total => Cardinality(F) = total
      BY <1>1, <3>1, FirstOnes
    <3> QED
      BY <3>2, Zenon DEF S, F
  <2>5. Cardinality(E \cap W) \in Nat
    BY <1>1, <2>4
  <2> QED
    BY <2>3, <2>4, <2>5, Zenon
<1>8. ASSUME NEW t \in Nat, NEW g
      PROVE  LET G == Where(records, SinceOf(t, g)) IN
             /\ Cardinality(G) \in Nat /\ Cardinality(E \cap G) \in Nat
             /\ Cardinality(K \cap G) \in 0..Cardinality(E \cap G)
             /\ Cardinality(G) <= perProfile => Cardinality(E \cap G) = Cardinality(G)
             /\ Cardinality(G) > perProfile => Cardinality(E \cap G) = perProfile
             /\ Count(q, SinceOf(t, g)) = Cardinality(K \cap G)
  <2>0. PICK G : G = Where(records, SinceOf(t, g))
    OBVIOUS
  <2>1. Firsts(E \cap G, G, before, perProfile)
    BY <1>1, <2>0, EligibleOfGame
  <2>2. G \in SUBSET (1..n) /\ Ordering(n, before)
    BY <1>1, <1>2, <2>0 DEF Where
  <2>3. Count(q, SinceOf(t, g)) = Cardinality(K \cap G)
    BY <1>6, <2>0
  <2>4. E \cap G \in SUBSET (1..n) /\ K \cap G \in SUBSET (E \cap G)
    BY <1>2
  <2>5. /\ Cardinality(E \cap G) \in 0..n
        /\ Cardinality(K \cap G) \in 0..Cardinality(E \cap G)
    BY <1>1, <2>4, SomePositions
  <2>6. /\ Cardinality(G) \in 0..n
        /\ Cardinality(G) <= perProfile => Cardinality(E \cap G) = Cardinality(G)
        /\ Cardinality(G) > perProfile => Cardinality(E \cap G) = perProfile
    BY <1>1, <2>1, <2>2, FirstOnes
  <2>7. Cardinality(G) \in Nat /\ Cardinality(E \cap G) \in Nat
    BY <1>1, <2>5, <2>6
  <2> QED
    BY <2>0, <2>3, <2>5, <2>6, <2>7, Zenon
<1>9. ASSUME NEW t \in Nat PROVE Count(q, Since(t)) <= total
  <2>1. PICK W : W = Where(records, Since(t))
    OBVIOUS
  <2>2. /\ Cardinality(E \cap W) \in Nat
        /\ Cardinality(E \cap W) <= total => Cardinality(K \cap W) = Cardinality(E \cap W)
        /\ Cardinality(E \cap W) > total => Cardinality(K \cap W) = total
        /\ Count(q, Since(t)) = Cardinality(K \cap W)
    BY <1>7, <2>1
  <2> QED
    BY <2>2
<1>10. ASSUME NEW t \in Nat, NEW g PROVE Count(q, SinceOf(t, g)) <= perProfile
  <2> DEFINE G == Where(records, SinceOf(t, g))
  <2>2. /\ Cardinality(G) \in Nat /\ Cardinality(E \cap G) \in Nat
        /\ Cardinality(K \cap G) \in 0..Cardinality(E \cap G)
        /\ Cardinality(G) <= perProfile => Cardinality(E \cap G) = Cardinality(G)
        /\ Cardinality(G) > perProfile => Cardinality(E \cap G) = perProfile
        /\ Count(q, SinceOf(t, g)) = Cardinality(K \cap G)
    BY <1>8, Zenon
  <2> HIDE DEF G
  <2> QED
    BY <2>2
<1>11. ASSUME NEW t \in Nat, Count(q, Since(t)) # total, NEW g
       PROVE  /\ Cardinality(E \cap Where(records, Since(t))) < total
              /\ Count(q, SinceOf(t, g)) = IF Count(records, SinceOf(t, g)) <= perProfile
                                           THEN Count(records, SinceOf(t, g)) ELSE perProfile
  <2> DEFINE G == Where(records, SinceOf(t, g))
  <2>1. PICK W : W = Where(records, Since(t))
    OBVIOUS
  <2>2. /\ Cardinality(E \cap W) \in Nat
        /\ Cardinality(E \cap W) <= total =>
             K \cap W = E \cap W /\ Cardinality(K \cap W) = Cardinality(E \cap W)
        /\ Cardinality(E \cap W) > total => Cardinality(K \cap W) = total
        /\ Count(q, Since(t)) = Cardinality(K \cap W)
    BY <1>7, <2>1
  <2>3. Cardinality(E \cap W) < total /\ K \cap W = E \cap W
    BY <1>11, <2>2
  <2>4. G \subseteq W
    BY <2>1 DEF Where, SinceOf
  <2>5. K \cap G = E \cap G
    BY <2>3, <2>4
  <2>6. Cardinality(K \cap G) = Cardinality(E \cap G)
    BY <2>5, Zenon
  <2>7. /\ Cardinality(G) <= perProfile => Cardinality(E \cap G) = Cardinality(G)
        /\ Cardinality(G) > perProfile => Cardinality(E \cap G) = perProfile
        /\ Count(q, SinceOf(t, g)) = Cardinality(K \cap G)
        /\ Cardinality(G) \in Nat
    BY <1>8, Zenon
  <2>8. Count(records, SinceOf(t, g)) = Cardinality(G)
    BY DEF Count
  <2> HIDE DEF G
  <2>9. Count(q, SinceOf(t, g)) = IF Count(records, SinceOf(t, g)) <= perProfile
                                  THEN Count(records, SinceOf(t, g)) ELSE perProfile
    BY <2>6, <2>7, <2>8
  <2> QED
    BY <2>1, <2>3, <2>9
<1>12. Within(q, perProfile, total)
  BY <1>5, <1>9, <1>10 DEF Within
<1>13. KeepsNewest(q, records, E, perProfile, total)
  BY <1>11 DEF KeepsNewest
<1> QED
  BY <1>4, <1>12, <1>13

\* The other games of a history within its limits stay eligible when one
\* record is added, and of its own game one at most does not.
LEMMA OneMore ==
    ASSUME NEW old, NEW perProfile \in Nat, NEW total \in Nat, Within(old, perProfile, total),
           NEW r \in HistoryRecord, NEW records \in {old, Append(old, r)}, NEW t \in Nat
    PROVE  /\ records \in Seq(HistoryRecord)
           /\ Count(old, Since(t)) <= Cardinality(
                Eligible(records, NewestFirst(records), perProfile) \cap Where(records, Since(t)))
           /\ \A g : /\ Count(old, SinceOf(t, g)) <= Count(records, SinceOf(t, g))
                    /\ Count(old, SinceOf(t, g)) \in Nat /\ Count(records, SinceOf(t, g)) \in Nat
<1> DEFINE m == Len(old)
           n == Len(records)
           before == NewestFirst(records)
           E == Eligible(records, before, perProfile)
<1>1. /\ m \in Nat /\ n \in {m, m + 1} /\ n \in Nat
      /\ old \in [1..m -> HistoryRecord] /\ records \in [1..n -> HistoryRecord]
      /\ \A i \in 1..m : records[i] = old[i]
      /\ records \in Seq(HistoryRecord)
      /\ n = m + 1 => records[n] = r
  <2>1. old \in Seq(HistoryRecord)
    BY DEF Within
  <2>2. CASE records = old
    BY <2>1, <2>2
  <2>3. CASE records = Append(old, r)
    <3>1. /\ records \in Seq(HistoryRecord) /\ Len(records) = Len(old) + 1
          /\ \A i \in 1..Len(old) : records[i] = old[i]
          /\ records[Len(old) + 1] = r
      BY <2>1, <2>3
    <3>2. m \in Nat
      BY <2>1
    <3>3. old \in [1..m -> HistoryRecord] /\ records \in [1..n -> HistoryRecord]
      BY <2>1, <3>1
    <3> HIDE DEF m
    <3>4. n = m + 1
      BY <3>1 DEF m
    <3> QED
      BY <3>1, <3>2, <3>3, <3>4 DEF m
  <2> QED
    BY <2>2, <2>3
<1>2. E \in SUBSET (1..n)
  BY <1>1 DEF Eligible
<1> HIDE DEF m, n, before, E
<1>3. ASSUME NEW V PROVE /\ Where(old, V) = Where(records, V) \cap (1..m)
                         /\ Where(records, V) \in SUBSET (1..n)
                         /\ n = m \/ n \notin Where(records, V) => Where(records, V) = Where(old, V)
  BY <1>1 DEF Where
<1>4. ASSUME NEW V PROVE /\ Count(old, V) <= Count(records, V)
                         /\ Count(old, V) \in Nat /\ Count(records, V) \in Nat
  <2> DEFINE U == Where(old, V)
             W == Where(records, V)
  <2>1. U \in SUBSET W /\ W \in SUBSET (1..n)
    BY <1>3
  <2> HIDE DEF U, W
  <2>2. Cardinality(U) \in 0..Cardinality(W) /\ Cardinality(W) \in 0..n
    BY <1>1, <2>1, SomePositions
  <2>3. Cardinality(U) <= Cardinality(W) /\ Cardinality(U) \in Nat /\ Cardinality(W) \in Nat
    BY <1>1, <2>2
  <2> QED
    BY <2>3 DEF Count, U, W
<1>5. ASSUME NEW g, NEW G, G = Where(records, SinceOf(t, g))
      PROVE  /\ Cardinality(G) \in Nat
             /\ Cardinality(G) <= perProfile => G \subseteq E
             /\ Cardinality(G) > perProfile => Cardinality(E \cap G) = perProfile
  <2>1. Firsts(E \cap G, G, before, perProfile)
    BY <1>1, <1>5, EligibleOfGame DEF before, E
  <2>2. Ordering(n, before) /\ G \in SUBSET (1..n)
    BY <1>1, <1>3, <1>5, NewestComeFirst DEF before
  <2>3. PICK F : F = E \cap G /\ Firsts(F, G, before, perProfile)
    BY <2>1
  <2>4. /\ Cardinality(G) \in 0..n
        /\ Cardinality(G) <= perProfile => F = G
        /\ Cardinality(G) > perProfile => Cardinality(F) = perProfile
    BY <1>1, <2>2, <2>3, FirstOnes
  <2>5. Cardinality(G) \in Nat
    BY <1>1, <2>4
  <2>6. Cardinality(G) > perProfile => Cardinality(E \cap G) = perProfile
    BY <2>3, <2>4, Zenon
  <2>7. F = G => G \subseteq E
    BY <2>3
  <2> QED
    BY <2>4, <2>5, <2>6, <2>7
<1>6. ASSUME NEW g, n = m \/ records[n].id # g \/ n \notin Where(records, Since(t))
      PROVE  Where(records, SinceOf(t, g)) \subseteq E
  <2>1. PICK G : G = Where(records, SinceOf(t, g))
    OBVIOUS
  <2>2. n = m \/ n \notin G
    BY <1>6, <2>1 DEF Where, SinceOf
  <2>3. G = Where(old, SinceOf(t, g))
    BY <1>3, <2>1, <2>2, Zenon
  <2>4. Cardinality(G) <= perProfile
    BY <2>3 DEF Within, Count
  <2> QED
    BY <1>5, <2>1, <2>4
<1>7. PICK W : W = Where(records, Since(t))
  OBVIOUS
<1>8. PICK U : U = Where(old, Since(t))
  OBVIOUS
<1>9. U = W \cap (1..m) /\ W \in SUBSET (1..n) /\ Count(old, Since(t)) = Cardinality(U)
  BY <1>3, <1>7, <1>8 DEF Count
<1>10. \A i \in W : i \in Where(records, SinceOf(t, records[i].id))
  BY <1>7 DEF Where, SinceOf
<1>11. ASSUME W \subseteq E PROVE Cardinality(U) <= Cardinality(E \cap W)
  <2>1. E \cap W \in SUBSET (1..n) /\ U \in SUBSET (E \cap W)
    BY <1>2, <1>9, <1>11
  <2>2. Cardinality(U) \in 0..Cardinality(E \cap W) /\ Cardinality(E \cap W) \in 0..n
    BY <1>1, <2>1, SomePositions
  <2> QED
    BY <1>1, <2>2
<1>12. Cardinality(U) <= Cardinality(E \cap W)
  <2>1. CASE n = m \/ n \notin W
    BY <1>6, <1>7, <1>10, <1>11, <2>1
  <2>2. CASE n = m + 1 /\ n \in W
    <3>1. PICK G : G = Where(records, SinceOf(t, r.id))
      OBVIOUS
    <3>2. \A i \in W \ G : i \in E
      <4> SUFFICES ASSUME NEW i \in W \ G PROVE i \in E
        OBVIOUS
      <4>1. records[i].id # r.id
        BY <1>10, <3>1
      <4>2. records[n].id # records[i].id
        BY <1>1, <2>2, <4>1
      <4> QED
        BY <1>6, <1>10, <4>2
    <3>3. CASE Cardinality(G) <= perProfile
      <4>1. G \subseteq E
        BY <1>5, <3>1, <3>3
      <4> QED
        BY <1>11, <3>2, <4>1
    <3>4. CASE ~(Cardinality(G) <= perProfile)
      <4>0. \A i \in 1..n : i \in 1..m <=> i # n
        BY <1>1, <2>2
      <4>1. PICK H : H = Where(old, SinceOf(t, r.id))
        OBVIOUS
      <4>2. H = G \cap (1..m) /\ G \in SUBSET (1..n)
        BY <1>3, <3>1, <4>1
      <4>3. Cardinality(H) <= perProfile
        BY <4>1 DEF Within, Count
      <4>4. G \subseteq W /\ n \in G
        BY <1>1, <1>7, <1>10, <2>2, <3>1 DEF Where, SinceOf
      <4>5. H = G \ {n} /\ U = W \ {n}
        BY <1>9, <4>0, <4>2
      <4>6. ASSUME NEW S \in SUBSET (1..n), NEW x \in S
            PROVE  /\ IsFiniteSet(S \ {x}) /\ Cardinality(S) \in Nat
                   /\ Cardinality(S \ {x}) = Cardinality(S) - 1
        <5>1. IsFiniteSet(S) /\ Cardinality(S) \in 0..n
          BY <1>1, SomePositions
        <5>2. IsFiniteSet(S \ {x}) /\ Cardinality(S \ {x}) = Cardinality(S) - 1
          BY <5>1, FS_RemoveElement
        <5> QED
          BY <1>1, <5>1, <5>2
      <4>7. Cardinality(G) = perProfile + 1
        <5>1. Cardinality(G \ {n}) = Cardinality(G) - 1 /\ Cardinality(G) \in Nat
          BY <4>2, <4>4, <4>6
        <5>2. Cardinality(G \ {n}) <= perProfile
          BY <4>3, <4>5, Zenon
        <5> QED
          BY <3>4, <5>1, <5>2
      <4>8. Cardinality(E \cap G) = perProfile
        BY <1>5, <3>1, <4>7
      <4>9. PICK x \in G : x \notin E
        <5>0. perProfile # perProfile + 1
          OBVIOUS
        <5>1. E \cap G # G
          BY <4>7, <4>8, <5>0, Zenon
        <5> QED
          BY <5>1
      <4>10. \A y \in G : y # x => y \in E
        <5> SUFFICES ASSUME NEW y \in G, y # x, y \notin E PROVE FALSE
          OBVIOUS
        <5>1. E \cap G \in SUBSET ((G \ {x}) \ {y})
          BY <4>9
        <5>2. /\ G \ {x} \in SUBSET (1..n) /\ y \in G \ {x}
              /\ (G \ {x}) \ {y} \in SUBSET (1..n)
          BY <4>2
        <5>3. /\ Cardinality(G \ {x}) = Cardinality(G) - 1
              /\ Cardinality((G \ {x}) \ {y}) = Cardinality(G \ {x}) - 1
          BY <4>2, <4>6, <5>2
        <5>4. Cardinality(E \cap G) \in 0..Cardinality((G \ {x}) \ {y})
          BY <1>1, <5>1, <5>2, SomePositions
        <5> QED
          BY <4>7, <4>8, <5>3, <5>4
      <4>11. W \ {x} \in SUBSET (E \cap W) /\ E \cap W \in SUBSET (1..n)
        BY <1>2, <3>2, <4>10
      <4>12. Cardinality(W \ {x}) \in 0..Cardinality(E \cap W) /\ Cardinality(E \cap W) \in 0..n
        BY <1>1, <4>11, SomePositions
      <4>13. /\ Cardinality(W \ {x}) = Cardinality(W) - 1
             /\ Cardinality(W \ {n}) = Cardinality(W) - 1
             /\ Cardinality(W) \in Nat
        BY <1>9, <2>2, <4>4, <4>6
      <4>14. Cardinality(U) = Cardinality(W \ {n})
        BY <4>5, Zenon
      <4> QED
        BY <1>1, <4>12, <4>13, <4>14
    <3> QED
      BY <3>3, <3>4
  <2> QED
    BY <1>1, <2>1, <2>2
<1>13. Count(old, Since(t)) <= Cardinality(E \cap Where(records, Since(t)))
  BY <1>7, <1>9, <1>12, Zenon
<1> QED
  BY <1>1, <1>4, <1>13 DEF E, before

\* A record is in a history, or as many newer ones are as are kept.
Remembered(records, r, perProfile, total) ==
  \/ \E k \in DOMAIN records : records[k] = r
  \/ MadeRoom(records, r, perProfile, total)

\* A history that is pruned, with a record more or none, loses none but to
\* newer ones.
LEMMA PruneRemembers ==
    ASSUME NEW old, NEW perProfile \in Nat, NEW total \in Nat, Within(old, perProfile, total),
           NEW r \in HistoryRecord, NEW records \in {old, Append(old, r)},
           NEW q, q = Prune(records, perProfile, total)
    PROVE  /\ Within(q, perProfile, total)
           /\ records # old => Remembered(q, r, perProfile, total)
           /\ \A x \in HistoryRecord : Remembered(old, x, perProfile, total)
                                        => Remembered(q, x, perProfile, total)
<1>0. records \in Seq(HistoryRecord)
  BY OneMore
<1>1. PICK before : before = NewestFirst(records)
  OBVIOUS
<1>2. PICK E : E = Eligible(records, before, perProfile)
  OBVIOUS
<1>3. PICK K : K = Kept(records, before, perProfile, total)
  OBVIOUS
<1>4. /\ Within(q, perProfile, total)
      /\ \A i \in K : \E k \in DOMAIN q : q[k] = records[i]
      /\ KeepsNewest(q, records, E, perProfile, total)
  BY <1>0, <1>1, <1>2, <1>3, PruneKeeps
<1>5. ASSUME NEW t \in Nat
      PROVE  /\ Count(old, Since(t)) <= Cardinality(E \cap Where(records, Since(t)))
             /\ \A g : /\ Count(old, SinceOf(t, g)) <= Count(records, SinceOf(t, g))
                      /\ Count(old, SinceOf(t, g)) \in Nat /\ Count(records, SinceOf(t, g)) \in Nat
  BY <1>1, <1>2, OneMore
<1>6. PICK n \in Nat : records \in [1..n -> HistoryRecord] /\ DOMAIN records = 1..n
  BY <1>0
<1>7. ASSUME NEW x \in HistoryRecord,
             Count(records, SinceOf(x.at, x.id)) >= perProfile
      PROVE  MadeRoom(q, x, perProfile, total)
  <2>1. x.at \in Nat
    BY DEF HistoryRecord
  <2>2. Count(records, SinceOf(x.at, x.id)) \in Nat
    BY <1>5, <2>1
  <2>3. \/ Count(q, Since(x.at)) = total
        \/ Count(q, SinceOf(x.at, x.id)) = IF Count(records, SinceOf(x.at, x.id)) <= perProfile
                                          THEN Count(records, SinceOf(x.at, x.id)) ELSE perProfile
    BY <1>4, <2>1 DEF KeepsNewest
  <2> QED
    BY <1>7, <2>2, <2>3 DEF MadeRoom
<1>8. ASSUME NEW x \in HistoryRecord, NEW S,
             S = E \cap Where(records, Since(x.at)), Cardinality(S) \in Nat, Cardinality(S) >= total
      PROVE  MadeRoom(q, x, perProfile, total)
  <2>1. x.at \in Nat
    BY DEF HistoryRecord
  <2>2. ~(Cardinality(S) < total)
    BY <1>8
  <2>3. ~(Cardinality(E \cap Where(records, Since(x.at))) < total)
    BY <1>8, <2>2, Zenon
  <2> QED
    BY <1>4, <2>1, <2>3 DEF MadeRoom, KeepsNewest
<1>9. ASSUME NEW i \in DOMAIN records, NEW x, x = records[i]
      PROVE  Remembered(q, x, perProfile, total)
  <2>0. x \in HistoryRecord /\ x.at \in Nat /\ i \in 1..n
    BY <1>6, <1>9 DEF HistoryRecord
  <2>1. PICK W : W = Where(records, Since(x.at))
    OBVIOUS
  <2>2. /\ W \in SUBSET (1..n) /\ i \in W
        /\ before[i] \subseteq W
    <3>0. x \in Since(x.at)
      BY <2>0 DEF Since
    <3>1. i \in W /\ W \in SUBSET (1..n)
      BY <1>6, <1>9, <2>0, <2>1, <3>0 DEF Where
    <3>2. before[i] \subseteq W
      BY <1>1, <1>6, <2>0, <2>1, <3>1, NewestComeFirst
    <3> QED
      BY <3>1, <3>2
  <2>3. CASE i \in K
    BY <1>4, <1>9, <2>3 DEF Remembered
  <2>4. CASE i \notin E
    <3>1. PICK S : S = {j \in before[i] : records[j].id = records[i].id}
      OBVIOUS
    <3>2. PICK G : G = Where(records, SinceOf(x.at, x.id))
      OBVIOUS
    <3>3. S \in SUBSET G /\ G \in SUBSET (1..n)
      BY <1>6, <1>9, <2>1, <2>2, <3>1, <3>2 DEF Where, SinceOf
    <3>4. Cardinality(S) \in 0..Cardinality(G) /\ Cardinality(G) \in 0..n
      BY <1>6, <3>3, SomePositions
    <3>5. ~(Cardinality({j \in before[i] : records[j].id = records[i].id}) < perProfile)
      BY <1>2, <2>4 DEF Eligible
    <3>6. ~(Cardinality(S) < perProfile)
      BY <3>1, <3>5, Zenon
    <3>7. Cardinality(G) >= perProfile
      BY <1>6, <3>4, <3>6
    <3>8. Count(records, SinceOf(x.at, x.id)) >= perProfile
      BY <3>2, <3>7 DEF Count
    <3> QED
      BY <1>7, <2>0, <3>8 DEF Remembered
  <2>5. CASE i \in E /\ i \notin K
    <3>1. ~(Cardinality(before[i] \cap E) < total)
      BY <1>2, <1>3, <2>5 DEF Kept
    <3>2. PICK S, T : S = before[i] \cap E /\ T = E \cap W
      OBVIOUS
    <3>3. S \in SUBSET T /\ T \in SUBSET (1..n)
      BY <2>2, <3>2
    <3>4. Cardinality(S) \in 0..Cardinality(T) /\ Cardinality(T) \in 0..n
      BY <1>6, <3>3, SomePositions
    <3>5. ~(Cardinality(S) < total)
      BY <3>1, <3>2, Zenon
    <3>6. Cardinality(T) >= total /\ Cardinality(T) \in Nat
      BY <1>6, <3>4, <3>5
    <3> QED
      BY <1>8, <2>0, <2>1, <3>2, <3>6 DEF Remembered
  <2> QED
    BY <2>3, <2>4, <2>5
<1>10. ASSUME NEW x \in HistoryRecord, Remembered(old, x, perProfile, total)
       PROVE  Remembered(q, x, perProfile, total)
  <2>0. x.at \in Nat
    BY DEF HistoryRecord
  <2>1. CASE \E k \in DOMAIN old : old[k] = x
    <3>1. \E k \in DOMAIN records : records[k] = x
      <4>1. old \in Seq(HistoryRecord)
        BY DEF Within
      <4>2. CASE records = old
        BY <2>1, <4>2
      <4>3. CASE records = Append(old, r)
        BY <2>1, <4>1, <4>3
      <4> QED
        BY <4>2, <4>3
    <3> QED
      BY <1>9, <3>1
  <2>2. CASE Count(old, Since(x.at)) = total
    <3>1. PICK S : S = E \cap Where(records, Since(x.at))
      OBVIOUS
    <3>2. Count(old, Since(x.at)) <= Cardinality(E \cap Where(records, Since(x.at)))
      BY <1>5, <2>0
    <3>3. total <= Cardinality(S)
      BY <2>2, <3>1, <3>2, Zenon
    <3>4. Cardinality(S) \in Nat
      <4>1. S \in SUBSET (1..n)
        BY <1>6, <3>1 DEF Where
      <4> QED
        BY <1>6, <4>1, SomePositions
    <3>5. Cardinality(S) >= total
      BY <3>3, <3>4
    <3> QED
      BY <1>8, <3>1, <3>4, <3>5 DEF Remembered
  <2>3. CASE Count(old, SinceOf(x.at, x.id)) = perProfile
    <3>1. /\ Count(old, SinceOf(x.at, x.id)) <= Count(records, SinceOf(x.at, x.id))
          /\ Count(records, SinceOf(x.at, x.id)) \in Nat
      BY <1>5, <2>0
    <3>2. Count(records, SinceOf(x.at, x.id)) >= perProfile
      BY <2>3, <3>1
    <3> QED
      BY <1>7, <3>2 DEF Remembered
  <2> QED
    BY <1>10, <2>1, <2>2, <2>3 DEF Remembered, MadeRoom
<1>11. ASSUME records # old PROVE Remembered(q, r, perProfile, total)
  <2>1. old \in Seq(HistoryRecord)
    BY DEF Within
  <2>2. Len(old) + 1 \in DOMAIN records /\ records[Len(old) + 1] = r
    BY <1>11, <2>1
  <2> QED
    BY <1>9, <2>2
<1> QED
  BY <1>4, <1>10, <1>11

Recording == {"launch", "run", "attach"}

\* What call c knows of the history when it is in the state x.
KnowsHistory(x) ==
  /\ x.step = "save" => x.launches = launches /\ x.benchmarks = benchmarks
  /\ x.step \in {"start", "lock", "load", "save"} /\ x.kind \in Recording => x.id \in Ids

RecordKept(r) ==
  IF call[r.by].kind = "attach"
  THEN Remembered(benchmarks, r, MaxBenchmarksPerProfile, MaxBenchmarks)
  ELSE Remembered(launches, r, MaxLaunchesPerProfile, MaxLaunches)

HistoryInv ==
  /\ Within(launches, MaxLaunchesPerProfile, MaxLaunches)
  /\ Within(benchmarks, MaxBenchmarksPerProfile, MaxBenchmarks)
  /\ recorded \subseteq HistoryRecord
  /\ \A c \in Calls : KnowsHistory(call[c])
  /\ \A r \in recorded : call[r.by].step # "unused" /\ RecordKept(r)

\* A call that goes on without a record.
LEMMA NoRecordStep ==
    ASSUME HistoryInv, DOMAIN call = Calls, NEW c \in Calls, NEW x,
           UNCHANGED <<launches, benchmarks, recorded>>,
           call' = [call EXCEPT ![c] = x], KnowsHistory(x), x.step # "unused",
           call[c].step = "unused" \/ x.kind = call[c].kind
    PROVE  HistoryInv'
<1>1. call'[c] = x /\ \A d \in Calls \ {c} : call'[d] = call[d]
  OBVIOUS
<1>2. \A d \in Calls : KnowsHistory(call[d])'
  BY <1>1 DEF HistoryInv, KnowsHistory
<1>3. ASSUME NEW r \in recorded PROVE call'[r.by].step # "unused" /\ RecordKept(r)'
  <2>1. r.by \in Calls /\ call[r.by].step # "unused" /\ RecordKept(r)
    BY DEF HistoryInv, HistoryRecord
  <2>2. call'[r.by].kind = call[r.by].kind /\ call'[r.by].step # "unused"
    BY <1>1, <2>1
  <2> QED
    BY <2>1, <2>2 DEF RecordKept
<1> QED
  BY <1>2, <1>3 DEF HistoryInv

LEMMA HistoryRequestStep ==
    ASSUME HistoryInv, LibraryInv, NEW c \in Calls,
           SaveGame(c) \/ ByID(c, "remove") \/ ByID(c, "attach") \/ FindGame(c)
    PROVE  HistoryInv'
<1>1. /\ DOMAIN call = Calls /\ call[c].step = "unused"
      /\ UNCHANGED <<launches, benchmarks, recorded>>
  BY DEF LibraryInv, SaveGame, ByID, FindGame, Turn, files
<1>2. ASSUME NEW x, call' = [call EXCEPT ![c] = x], x.step \in {"lock", "start"}, x.id \in Ids
      PROVE  HistoryInv'
  <2>1. KnowsHistory(x) /\ x.step # "unused"
    BY <1>2 DEF KnowsHistory
  <2> QED
    BY <1>1, <1>2, <2>1, NoRecordStep
<1>3. CASE SaveGame(c)
  <2>1. PICK p \in Paths : call' = [call EXCEPT ![c] = [NewCall EXCEPT !.kind = "save",
                                                           !.step = "lock", !.path = p,
                                                           !.id = IdOf[p]]]
    BY <1>3 DEF SaveGame
  <2>2. PICK x : x = [NewCall EXCEPT !.kind = "save", !.step = "lock", !.path = p, !.id = IdOf[p]]
    OBVIOUS
  <2>3. x.step = "lock" /\ x.id = IdOf[p] /\ IdOf[p] \in Ids
    BY <2>2, FieldsOfNewCall DEF Fields, Ids
  <2> QED
    BY <1>2, <2>1, <2>2, <2>3
<1>4. ASSUME NEW kind, ByID(c, kind) PROVE HistoryInv'
  <2>1. PICK i \in Ids : call' = [call EXCEPT ![c] = [NewCall EXCEPT !.kind = kind,
                                                         !.step = "lock", !.id = i]]
    BY <1>4 DEF ByID
  <2>2. PICK x : x = [NewCall EXCEPT !.kind = kind, !.step = "lock", !.id = i]
    OBVIOUS
  <2>3. x.step = "lock" /\ x.id = i
    BY <2>2, FieldsOfNewCall DEF Fields
  <2> QED
    BY <1>2, <2>1, <2>2, <2>3
<1>5. CASE FindGame(c)
  <2>1. PICK i \in Ids, kind \in {"launch", "run"} :
          call' = [call EXCEPT ![c] = [NewCall EXCEPT !.kind = kind, !.id = i,
                                         !.step = IF kind = "launch" THEN "start" ELSE "lock"]]
    BY <1>5 DEF FindGame
  <2>2. PICK x : x = [NewCall EXCEPT !.kind = kind, !.id = i,
                                     !.step = IF kind = "launch" THEN "start" ELSE "lock"]
    OBVIOUS
  <2>3. x.step \in {"lock", "start"} /\ x.id = i
    BY <2>2, FieldsOfNewCall DEF Fields
  <2> QED
    BY <1>2, <2>1, <2>2, <2>3
<1> QED
  BY <1>3, <1>4, <1>5

LEMMA HistoryReturns ==
    ASSUME HistoryInv, LibraryInv, NEW c \in Calls, Return(c),
           UNCHANGED <<launches, benchmarks, recorded>>
    PROVE  HistoryInv'
<1>1. PICK x : /\ call' = [call EXCEPT ![c] = x]
               /\ DOMAIN x = Fields /\ x.step = "returned" /\ x.kind = call[c].kind
               /\ \A d \in Calls \ {c} : profilesLock = d => profilesLock' = d
  BY ReturnsEmptyHanded
<1>2. KnowsHistory(x) /\ x.step # "unused"
  BY <1>1 DEF KnowsHistory
<1> QED
  BY <1>1, <1>2, NoRecordStep DEF LibraryInv

LEMMA HistoryGoesOn ==
    ASSUME HistoryInv, LibraryInv, NEW c \in Calls, NEW to \in {"start", "lock", "load"},
           CallGoes(c, to), call[c].step \in {"start", "lock", "load", "save"},
           UNCHANGED <<launches, benchmarks, recorded>>
    PROVE  HistoryInv'
<1>1. PICK x : x = [call[c] EXCEPT !.step = to]
  OBVIOUS
<1>2. DOMAIN call = Calls /\ DOMAIN call[c] = Fields /\ KnowsHistory(call[c])
  BY DEF LibraryInv, InHand, HistoryInv
<1>3. call' = [call EXCEPT ![c] = x]
  BY <1>1 DEF CallGoes
<1>4. x.step = to /\ x.kind = call[c].kind /\ x.id = call[c].id
  BY <1>1, <1>2 DEF Fields
<1>5. KnowsHistory(x) /\ x.step # "unused"
  BY <1>2, <1>4 DEF KnowsHistory
<1> QED
  BY <1>2, <1>3, <1>4, <1>5, NoRecordStep

LEMMA HistoryOtherStep ==
    ASSUME HistoryInv, LibraryInv, NEW c \in Calls,
           Start(c) \/ Acquire(c) \/ LoadFiles(c) \/ CommitGames(c) \/ Fail(c)
    PROVE  HistoryInv'
<1>1. UNCHANGED <<launches, benchmarks, recorded>>
  BY DEF Start, Acquire, LoadFiles, CommitGames, Fail, files
<1>2. CASE Return(c)
  BY <1>1, <1>2, HistoryReturns
<1>3. CASE Start(c) /\ ~Return(c)
  BY <1>1, <1>3, HistoryGoesOn DEF Start, CallAt
<1>4. CASE Acquire(c) /\ ~Return(c)
  BY <1>1, <1>4, HistoryGoesOn DEF Acquire, CallAt
<1>5. CASE LoadFiles(c) /\ ~Return(c)
  <2>1. call[c].step = "load" /\ DOMAIN call = Calls /\ DOMAIN call[c] = Fields
        /\ KnowsHistory(call[c])
    BY <1>5 DEF LoadFiles, CallAt, LibraryInv, InHand, HistoryInv
  <2>2. PICK x : x = [call[c] EXCEPT !.step = "save", !.games = games,
                                     !.launches = launches, !.benchmarks = benchmarks]
    OBVIOUS
  <2>3. call' = [call EXCEPT ![c].step = "save", ![c].games = games,
                             ![c].launches = launches, ![c].benchmarks = benchmarks]
    BY <1>5 DEF LoadFiles
  <2>4. call' = [call EXCEPT ![c] = x]
    BY <2>1, <2>2, <2>3
  <2>5. /\ x.step = "save" /\ x.kind = call[c].kind /\ x.id = call[c].id
        /\ x.launches = launches /\ x.benchmarks = benchmarks
    BY <2>1, <2>2 DEF Fields
  <2>6. KnowsHistory(x) /\ x.step # "unused"
    BY <2>1, <2>5 DEF KnowsHistory
  <2> QED
    BY <1>1, <2>1, <2>4, <2>5, <2>6, NoRecordStep
<1> QED
  BY <1>2, <1>3, <1>4, <1>5 DEF CommitGames, Fail

\* A record is written on the history as it is, and the call that writes it
\* is the only one that has loaded it.
LEMMA CommitHistoryStep ==
    ASSUME HistoryInv, LibraryInv, NEW c \in Calls, CommitHistory(c)
    PROVE  HistoryInv'
<1> DEFINE attach == call[c].kind = "attach"
<1>1. /\ call[c].step = "save" /\ call[c].kind \in Recording /\ profilesLock = c
      /\ call[c].launches = launches /\ call[c].benchmarks = benchmarks /\ call[c].id \in Ids
      /\ DOMAIN call = Calls /\ DOMAIN call[c] = Fields
  BY DEF CommitHistory, CallAt, LibraryInv, InHand, HistoryInv, KnowsHistory, Recording
<1>2. PICK r, ls, bs : \E now \in Times :
        /\ r = [id |-> call[c].id, at |-> now, by |-> c]
        /\ ls = (IF attach THEN launches ELSE Append(launches, r))
        /\ bs = (IF attach THEN Append(benchmarks, r) ELSE benchmarks)
        /\ launches' = Prune(ls, MaxLaunchesPerProfile, MaxLaunches)
        /\ benchmarks' = Prune(bs, MaxBenchmarksPerProfile, MaxBenchmarks)
        /\ recorded' = recorded \cup {r}
  BY <1>1 DEF CommitHistory
<1>3. r \in HistoryRecord /\ r.by = c
  BY <1>1, <1>2, TimesAssumption DEF HistoryRecord
<1>4. /\ MaxLaunches \in Nat /\ MaxLaunchesPerProfile \in Nat
      /\ MaxBenchmarks \in Nat /\ MaxBenchmarksPerProfile \in Nat
  BY LimitsAssumption
<1>5. /\ launches \in Seq(HistoryRecord) /\ Within(launches, MaxLaunchesPerProfile, MaxLaunches)
      /\ benchmarks \in Seq(HistoryRecord)
      /\ Within(benchmarks, MaxBenchmarksPerProfile, MaxBenchmarks)
  BY DEF HistoryInv, Within
<1>6. Append(launches, r) # launches /\ Append(benchmarks, r) # benchmarks
  <2>1. ASSUME NEW s \in Seq(HistoryRecord) PROVE Append(s, r) # s
    <3>1. Len(Append(s, r)) = Len(s) + 1 /\ Len(s) \in Nat
      BY <1>3
    <3> QED
      BY <3>1
  <2> QED
    BY <1>5, <2>1
<1>7. /\ Within(launches', MaxLaunchesPerProfile, MaxLaunches)
      /\ ~attach => Remembered(launches', r, MaxLaunchesPerProfile, MaxLaunches)
      /\ \A x \in HistoryRecord : Remembered(launches, x, MaxLaunchesPerProfile, MaxLaunches)
                                   => Remembered(launches', x, MaxLaunchesPerProfile, MaxLaunches)
  <2>1. ls \in {launches, Append(launches, r)} /\ (~attach => ls # launches)
    BY <1>2, <1>6
  <2>2. PICK q : q = launches'
    OBVIOUS
  <2>3. q = Prune(ls, MaxLaunchesPerProfile, MaxLaunches)
    BY <1>2, <2>2
  <2>4. /\ Within(q, MaxLaunchesPerProfile, MaxLaunches)
        /\ ls # launches => Remembered(q, r, MaxLaunchesPerProfile, MaxLaunches)
        /\ \A x \in HistoryRecord : Remembered(launches, x, MaxLaunchesPerProfile, MaxLaunches)
                                     => Remembered(q, x, MaxLaunchesPerProfile, MaxLaunches)
    BY <1>3, <1>4, <1>5, <2>1, <2>3, PruneRemembers
  <2> QED
    BY <2>1, <2>2, <2>4
<1>8. /\ Within(benchmarks', MaxBenchmarksPerProfile, MaxBenchmarks)
      /\ attach => Remembered(benchmarks', r, MaxBenchmarksPerProfile, MaxBenchmarks)
      /\ \A x \in HistoryRecord :
            Remembered(benchmarks, x, MaxBenchmarksPerProfile, MaxBenchmarks)
            => Remembered(benchmarks', x, MaxBenchmarksPerProfile, MaxBenchmarks)
  <2>1. bs \in {benchmarks, Append(benchmarks, r)} /\ (attach => bs # benchmarks)
    BY <1>2, <1>6
  <2>2. PICK q : q = benchmarks'
    OBVIOUS
  <2>3. q = Prune(bs, MaxBenchmarksPerProfile, MaxBenchmarks)
    BY <1>2, <2>2
  <2>4. /\ Within(q, MaxBenchmarksPerProfile, MaxBenchmarks)
        /\ bs # benchmarks => Remembered(q, r, MaxBenchmarksPerProfile, MaxBenchmarks)
        /\ \A x \in HistoryRecord :
              Remembered(benchmarks, x, MaxBenchmarksPerProfile, MaxBenchmarks)
              => Remembered(q, x, MaxBenchmarksPerProfile, MaxBenchmarks)
    BY <1>3, <1>4, <1>5, <2>1, <2>3, PruneRemembers
  <2> QED
    BY <2>1, <2>2, <2>4
<1>9. PICK x : /\ call' = [call EXCEPT ![c] = x]
               /\ x.id \in Ids \/ x.step = "returned"
               /\ x.kind = call[c].kind /\ x.step \in {"start", "returned"}
  <2>1. CASE Return(c)
    BY <2>1, ReturnsEmptyHanded
  <2>2. CASE CallGoes(c, "start")
    <3>1. PICK x : x = [call[c] EXCEPT !.step = "start"]
      OBVIOUS
    <3>2. call' = [call EXCEPT ![c] = x]
      BY <2>2, <3>1 DEF CallGoes
    <3>3. x.step = "start" /\ x.kind = call[c].kind /\ x.id = call[c].id
      BY <1>1, <3>1 DEF Fields
    <3> QED
      BY <1>1, <3>2, <3>3
  <2> QED
    BY <2>1, <2>2 DEF CommitHistory
<1>10. call'[c] = x /\ \A d \in Calls \ {c} : call'[d] = call[d]
  BY <1>1, <1>9
<1>11. ASSUME NEW d \in Calls PROVE KnowsHistory(call[d])'
  <2>1. CASE d = c
    BY <1>9, <1>10, <2>1 DEF KnowsHistory
  <2>2. CASE d # c
    <3>1. call[d].step # "save"
      BY <1>1, <2>2 DEF LibraryInv, InHand
    <3> QED
      BY <1>10, <2>2, <3>1 DEF KnowsHistory, HistoryInv
  <2> QED
    BY <2>1, <2>2
<1>12. ASSUME NEW s \in recorded' PROVE call'[s.by].step # "unused" /\ RecordKept(s)'
  <2>1. s \in HistoryRecord /\ s.by \in Calls
    BY <1>2, <1>3 DEF HistoryInv, HistoryRecord
  <2>2. /\ call'[s.by].step # "unused"
        /\ call'[s.by].kind = call[s.by].kind
    <3>1. CASE s.by = c
      BY <1>9, <1>10, <3>1
    <3>2. CASE s.by # c
      BY <1>2, <1>3, <1>10, <2>1, <3>2 DEF HistoryInv
    <3> QED
      BY <3>1, <3>2
  <2>3. CASE s = r
    BY <1>3, <1>7, <1>8, <2>2, <2>3 DEF RecordKept
  <2>4. CASE s \in recorded
    <3>1. RecordKept(s)
      BY <2>4 DEF HistoryInv
    <3> QED
      BY <1>7, <1>8, <2>1, <2>2, <3>1 DEF RecordKept
  <2> QED
    BY <1>2, <2>2, <2>3, <2>4
<1>13. recorded' \subseteq HistoryRecord
  BY <1>2, <1>3 DEF HistoryInv
<1> QED
  BY <1>7, <1>8, <1>11, <1>12, <1>13 DEF HistoryInv

\* A record that was reported and is gone has made room for newer ones of
\* its game or of all (pruneGameHistory), whatever the clock did and however
\* the calls that record launches and benchmarks interleave.
THEOREM NewestRecordsKept == LibrarySpec => []NewestKept
<1>1. LibraryInit => HistoryInv
  <2> SUFFICES ASSUME LibraryInit PROVE HistoryInv
    OBVIOUS
  <2>1. launches = <<>> /\ benchmarks = <<>> /\ recorded = {} /\ call = [c \in Calls |-> NewCall]
    BY DEF LibraryInit
  <2>2. \A V : Count(<<>>, V) = 0
    <3> SUFFICES ASSUME NEW V PROVE Count(<<>>, V) = 0
      OBVIOUS
    <3>1. Where(<<>>, V) = {}
      BY DEF Where
    <3> QED
      BY <3>1, FS_EmptySet DEF Count
  <2>3. <<>> \in Seq(HistoryRecord)
    OBVIOUS
  <2>4. ASSUME NEW perProfile \in Nat, NEW total \in Nat PROVE Within(<<>>, perProfile, total)
    BY <2>2, <2>3 DEF Within
  <2>5. \A c \in Calls : KnowsHistory(call[c])
    BY <2>1, FieldsOfNewCall DEF KnowsHistory
  <2> QED
    BY <2>1, <2>4, <2>5, LimitsAssumption DEF HistoryInv
<1>2. LibraryInv /\ HistoryInv /\ [LibraryNext]_libraryVars => HistoryInv'
  <2> SUFFICES ASSUME LibraryInv, HistoryInv, [LibraryNext]_libraryVars PROVE HistoryInv'
    OBVIOUS
  <2>1. ASSUME NEW c \in Calls,
               \/ SaveGame(c) \/ ByID(c, "remove") \/ ByID(c, "attach") \/ FindGame(c)
               \/ Start(c) \/ Acquire(c) \/ LoadFiles(c)
               \/ CommitGames(c) \/ CommitHistory(c) \/ Fail(c)
        PROVE  HistoryInv'
    BY <2>1, HistoryRequestStep, HistoryOtherStep, CommitHistoryStep
  <2>2. CASE UNCHANGED libraryVars
    BY <2>2 DEF libraryVars, files, HistoryInv, KnowsHistory, RecordKept
  <2> QED
    BY <2>1, <2>2 DEF LibraryNext
<1>3. HistoryInv => NewestKept
  <2> SUFFICES ASSUME HistoryInv, NEW r \in recorded, NEW kept, NEW total, NEW perProfile,
                      Within(kept, perProfile, total), Remembered(kept, r, perProfile, total)
               PROVE  LET newer == {k \in DOMAIN kept : kept[k].at >= r.at}
                      IN \/ \E k \in DOMAIN kept : kept[k] = r
                         \/ Cardinality(newer) = total
                         \/ Cardinality({k \in newer : kept[k].id = r.id}) = perProfile
    BY DEF HistoryInv, RecordKept, NewestKept
  <2>1. \A k \in DOMAIN kept : kept[k] \in HistoryRecord
    BY DEF Within
  <2>2. Where(kept, Since(r.at)) = {k \in DOMAIN kept : kept[k].at >= r.at}
    BY <2>1 DEF Where, Since
  <2>3. Where(kept, SinceOf(r.at, r.id))
          = {k \in {j \in DOMAIN kept : kept[j].at >= r.at} : kept[k].id = r.id}
    BY <2>1 DEF Where, Since, SinceOf
  <2>4. Count(kept, Since(r.at)) = Cardinality({k \in DOMAIN kept : kept[k].at >= r.at})
    BY <2>2, Zenon DEF Count
  <2>5. Count(kept, SinceOf(r.at, r.id))
          = Cardinality({k \in {j \in DOMAIN kept : kept[j].at >= r.at} : kept[k].id = r.id})
    BY <2>3, Zenon DEF Count
  <2> QED
    BY <2>4, <2>5, Zenon DEF Remembered, MadeRoom
<1> QED
  BY <1>1, <1>2, <1>3, LibraryInvariant, PTL DEF LibrarySpec

-----------------------------------------------------------------------------
(* The executable                                                          *)

ProcessSteps == {"running", "found", "download", "install", "checked", "ended"}
ProcessState == [step : {"unused"}, from : {Absent}] \cup [step : ProcessSteps, from : Files]
ScriptSteps == {"none", "wait", "move away", "move in", "delete old", "look", "delete new",
                "move back", "ended", "stuck", "died"}
AtWork == {"move in", "look", "delete new", "move back", "stuck", "died"}

UpdaterTypes == /\ current \in Files \cup {Absent}
                /\ aside \in [Processes -> Files \cup {Absent}]
                /\ DOMAIN version = Files
                /\ process \in [Processes -> ProcessState]
                /\ script \in [Processes -> ScriptSteps]

\* The file that process p downloads may be installed, or was.
Installable(p) == process[p].step \in {"found", "download", "install"} \/ script[p] # "none"
Appears(p) == \/ current = p
              \/ \E q \in Processes : aside[q] = p \/ process[q].from = p

\* It is settled then which version it is: one newer than the file that p
\* itself was started from.
Settled(p) == /\ process[p].step \notin {"unused", "running"}
              /\ Newer(version[p], version[process[p].from])
AllSettled == \A p \in Processes : Installable(p) \/ Appears(p) => Settled(p)

\* A process starts one script.
OneScript == \A p \in Processes :
               process[p].step \notin {"checked", "ended"} => script[p] = "none"

\* What a script has moved away, it can move back.
CanMoveBack == \A p \in Processes :
  script[p] \in {"move in", "delete old", "look", "delete new", "move back"} => aside[p] # Absent

UpdaterInv == UpdaterTypes /\ AllSettled /\ OneScript /\ CanMoveBack /\ ExecutablePresent

LEMMA UpdaterInitially == UpdaterInit => UpdaterInv
<1> SUFFICES ASSUME UpdaterInit PROVE UpdaterInv
  OBVIOUS
<1>1. UpdaterTypes
  BY ReleasesAssumption DEF UpdaterInit, UpdaterTypes, Files, ProcessState, ScriptSteps
<1>2. \A p \in Processes : ~Installable(p) /\ ~Appears(p)
  BY FilesAssumption DEF UpdaterInit, Installable, Appears
<1>3. OneScript /\ CanMoveBack /\ ExecutablePresent
  BY FilesAssumption DEF UpdaterInit, OneScript, CanMoveBack, ExecutablePresent
<1> QED
  BY <1>1, <1>2, <1>3 DEF UpdaterInv, AllSettled

\* A process goes on; no file and no script is touched.
LEMMA ProcessGoesOn ==
    ASSUME UpdaterInv, UNCHANGED <<current, aside, version, script>>,
           process' \in [Processes -> ProcessState],
           \A p \in Processes :
             /\ process'[p].from = process[p].from
             /\ process[p].step \notin {"unused", "running"} =>
                  process'[p].step \notin {"unused", "running"}
             /\ process'[p].step \in {"found", "download", "install"} =>
                  process[p].step \in {"found", "download", "install"}
             /\ process[p].step \in {"checked", "ended"} =>
                  process'[p].step \in {"checked", "ended"}
    PROVE  UpdaterInv'
<1>1. UpdaterTypes' /\ CanMoveBack' /\ ExecutablePresent'
  BY DEF UpdaterInv, UpdaterTypes, CanMoveBack, ExecutablePresent
<1>2. OneScript'
  BY DEF UpdaterInv, OneScript
<1>3. \A p \in Processes : Installable(p)' \/ Appears(p)' => Installable(p) \/ Appears(p)
  BY DEF Installable, Appears
<1>4. AllSettled'
  BY <1>3 DEF UpdaterInv, AllSettled, Settled
<1> QED
  BY <1>1, <1>2, <1>4 DEF UpdaterInv

LEMMA ProcessStep ==
    ASSUME UpdaterInv, NEW p \in Processes,
           InstallRelease(p) \/ Download(p) \/ DownloadFails(p) \/ Exit(p)
    PROVE  UpdaterInv'
<1>1. PICK to \in {"download", "install", "checked", "ended"} :
        /\ process' = [process EXCEPT ![p].step = to]
        /\ process[p].step # "unused"
        /\ process[p].step \in {"checked", "ended"} => to \in {"checked", "ended"}
        /\ to \in {"download", "install"} => process[p].step \in {"found", "download", "install"}
  BY DEF InstallRelease, Download, DownloadFails, Exit, Goto, At
<1>2. UNCHANGED <<current, aside, version, script>>
  BY DEF InstallRelease, Download, DownloadFails, Exit, disk
<1>3. process \in [Processes -> ProcessState]
  BY DEF UpdaterInv, UpdaterTypes
<1>4. /\ process' \in [Processes -> ProcessState]
      /\ \A q \in Processes : /\ process'[q].from = process[q].from
                              /\ process'[q].step = IF q = p THEN to ELSE process[q].step
  BY <1>1, <1>3 DEF ProcessSteps, ProcessState
<1> QED
  BY <1>1, <1>2, <1>4, ProcessGoesOn

\* The rename, or the start of the script.
LEMMA InstallStep ==
    ASSUME UpdaterInv, NEW p \in Processes, Install(p)
    PROVE  UpdaterInv'
<1>1. /\ process[p].step = "install" /\ process' = [process EXCEPT ![p].step = "checked"]
      /\ aside' = aside /\ version' = version
      /\ \/ script' = [script EXCEPT ![p] = "wait"] /\ current' = current
         \/ current' = p /\ script' = script
  BY DEF Install, At, Goto
<1>2. UpdaterTypes /\ OneScript /\ script[p] = "none"
  BY <1>1 DEF UpdaterInv, OneScript
<1>3. /\ process' \in [Processes -> ProcessState]
      /\ \A q \in Processes : /\ process'[q].from = process[q].from
                              /\ process'[q].step = IF q = p THEN "checked" ELSE process[q].step
  BY <1>1, <1>2 DEF ProcessSteps, ProcessState, UpdaterTypes
<1>4. /\ script' \in [Processes -> ScriptSteps]
      /\ \A q \in Processes \ {p} : script'[q] = script[q]
      /\ script'[p] \in {"none", "wait"}
  BY <1>1, <1>2 DEF UpdaterTypes, ScriptSteps
<1>5. UpdaterTypes'
  BY <1>1, <1>2, <1>3, <1>4 DEF UpdaterTypes, Files
<1>6. OneScript' /\ CanMoveBack'
  BY <1>1, <1>2, <1>3, <1>4 DEF UpdaterInv, OneScript, CanMoveBack
<1>7. AllSettled'
  <2>1. \A q \in Processes : Installable(q)' \/ Appears(q)' => Installable(q) \/ Appears(q)
    BY <1>1, <1>3, <1>4 DEF Installable, Appears
  <2> QED
    BY <1>1, <1>3, <2>1 DEF UpdaterInv, AllSettled, Settled
<1>8. ExecutablePresent'
  BY <1>1, <1>2, <1>4, FilesAssumption DEF UpdaterInv, ExecutablePresent
<1> QED
  BY <1>5, <1>6, <1>7, <1>8 DEF UpdaterInv

LEMMA StartStep ==
    ASSUME UpdaterInv, NEW p \in Processes, StartProcess(p)
    PROVE  UpdaterInv'
<1>1. /\ process[p].step = "unused" /\ current # Absent
      /\ process' = [process EXCEPT ![p] = [step |-> "running", from |-> current]]
      /\ UNCHANGED <<current, aside, version, script>>
  BY DEF StartProcess, At, disk
<1>2. UpdaterTypes /\ OneScript /\ script[p] = "none" /\ ~Installable(p) /\ ~Appears(p)
  BY <1>1 DEF UpdaterInv, OneScript, AllSettled, Settled
<1>3. /\ process' \in [Processes -> ProcessState]
      /\ process'[p].step = "running" /\ process'[p].from = current
      /\ \A q \in Processes \ {p} : process'[q] = process[q]
  BY <1>1, <1>2 DEF ProcessSteps, ProcessState, UpdaterTypes
<1>4. UpdaterTypes' /\ OneScript' /\ CanMoveBack' /\ ExecutablePresent'
  BY <1>1, <1>2, <1>3 DEF UpdaterInv, UpdaterTypes, OneScript, CanMoveBack, ExecutablePresent
<1>5. \A q \in Processes : Appears(q)' => Appears(q)
  BY <1>1, <1>3 DEF Appears
<1>6. ~Installable(p)'
  BY <1>1, <1>2, <1>3 DEF Installable
<1>7. \A q \in Processes \ {p} : Installable(q)' => Installable(q)
  BY <1>1, <1>3 DEF Installable
<1>8. AllSettled'
  BY <1>1, <1>2, <1>3, <1>5, <1>6, <1>7 DEF UpdaterInv, AllSettled, Settled
<1> QED
  BY <1>4, <1>8 DEF UpdaterInv

\* The version of a file is settled before it is any process's.
LEMMA CheckStep ==
    ASSUME UpdaterInv, NEW p \in Processes, CheckForUpdate(p)
    PROVE  UpdaterInv'
<1>1. /\ process[p].step = "running" /\ process' = [process EXCEPT ![p].step = "found"]
      /\ Newer(latest, version[process[p].from])
      /\ version' = [version EXCEPT ![p] = latest]
      /\ UNCHANGED <<current, aside, script>>
  BY DEF CheckForUpdate, At, Goto, disk
<1>2. UpdaterTypes /\ ~Installable(p) /\ ~Appears(p)
  BY <1>1 DEF UpdaterInv, AllSettled, Settled
<1>3. /\ process' \in [Processes -> ProcessState]
      /\ \A q \in Processes : /\ process'[q].from = process[q].from
                              /\ process'[q].step = IF q = p THEN "found" ELSE process[q].step
  BY <1>1, <1>2 DEF ProcessSteps, ProcessState, UpdaterTypes
<1>4. /\ DOMAIN version' = Files /\ version'[p] = latest
      /\ \A f \in Files \ {p} : version'[f] = version[f]
  BY <1>1, <1>2 DEF UpdaterTypes, Files
<1>5. UpdaterTypes' /\ CanMoveBack' /\ ExecutablePresent'
  BY <1>1, <1>2, <1>3, <1>4 DEF UpdaterInv, UpdaterTypes, CanMoveBack, ExecutablePresent
<1>6. OneScript'
  BY <1>1, <1>3 DEF UpdaterInv, OneScript
<1>7. \A q \in Processes : /\ process[q].from # p
                           /\ process[q].step # "unused" => process[q].from \in Files \ {p}
  BY <1>2 DEF Appears, UpdaterTypes, ProcessState
<1>8. AllSettled'
  <2> SUFFICES ASSUME NEW q \in Processes, Installable(q)' \/ Appears(q)' PROVE Settled(q)'
    BY DEF AllSettled
  <2>1. CASE q = p
    BY <1>1, <1>3, <1>4, <1>7, <2>1 DEF Settled, Files
  <2>2. CASE q # p
    <3>1. Installable(q) \/ Appears(q)
      BY <1>1, <1>3, <2>2 DEF Installable, Appears
    <3>2. Settled(q)
      BY <3>1 DEF UpdaterInv, AllSettled
    <3> QED
      BY <1>3, <1>4, <1>7, <2>2, <3>2 DEF Settled, Files
  <2> QED
    BY <2>1, <2>2
<1> QED
  BY <1>5, <1>6, <1>8 DEF UpdaterInv

\* A step of a script: what it puts under the name is its own file or one
\* that was there before, and if it leaves none it goes on to put one back.
LEMMA ScriptGoesOn ==
    ASSUME UpdaterInv, NEW p \in Processes,
           NEW to \in ScriptSteps \ {"none"}, NEW newFile \in Files \cup {Absent},
           NEW old \in Files \cup {Absent},
           script[p] # "none",
           process' = process, version' = version,
           script' = [script EXCEPT ![p] = to],
           current' = newFile, aside' = [aside EXCEPT ![p] = old],
           newFile \in {current, aside[p], p, Absent}, old \in {current, aside[p], Absent},
           to \in {"move in", "delete old", "look", "delete new", "move back"} => old # Absent,
           newFile = Absent => to \in AtWork \/ (current = Absent /\ script[p] \notin AtWork)
    PROVE  UpdaterInv'
<1>1. UpdaterTypes
  BY DEF UpdaterInv
<1>2. /\ script'[p] = to /\ \A q \in Processes \ {p} : script'[q] = script[q]
      /\ aside'[p] = old /\ \A q \in Processes \ {p} : aside'[q] = aside[q]
  BY <1>1 DEF UpdaterTypes
<1>3. UpdaterTypes'
  BY <1>1 DEF UpdaterTypes
<1>4. OneScript' /\ CanMoveBack'
  BY <1>2 DEF UpdaterInv, OneScript, CanMoveBack
<1>5. AllSettled'
  <2>1. ASSUME NEW q \in Processes, Installable(q)' \/ Appears(q)'
        PROVE  Installable(q) \/ Appears(q)
    <3>1. CASE Installable(q)'
      BY <1>2, <3>1 DEF Installable
    <3>2. CASE Appears(q)'
      <4>1. Absent # q
        BY FilesAssumption
      <4>2. q = p \/ Appears(q)
        BY <1>2, <3>2, <4>1 DEF Appears
      <4> QED
        BY <4>2 DEF Installable
    <3> QED
      BY <2>1, <3>1, <3>2
  <2> QED
    BY <2>1 DEF UpdaterInv, AllSettled, Settled
<1>6. ExecutablePresent'
  <2> SUFFICES ASSUME newFile = Absent PROVE \E q \in Processes : script'[q] \in AtWork
    BY DEF ExecutablePresent, AtWork
  <2>1. CASE to \in AtWork
    BY <1>2, <2>1
  <2>2. CASE current = Absent /\ script[p] \notin AtWork
    <3>1. PICK q \in Processes : script[q] \in AtWork
      BY <2>2 DEF UpdaterInv, ExecutablePresent, AtWork
    <3> QED
      BY <1>2, <2>2, <3>1
  <2> QED
    BY <2>1, <2>2
<1> QED
  BY <1>3, <1>4, <1>5, <1>6 DEF UpdaterInv

LEMMA ScriptStep ==
    ASSUME UpdaterInv, NEW p \in Processes,
           \/ WaitEnds(p) \/ MoveAway(p) \/ MoveIn(p) \/ DeleteOld(p)
           \/ Look(p) \/ DeleteNew(p) \/ MoveBack(p) \/ ScriptDies(p)
    PROVE  UpdaterInv'
<1>1. /\ UpdaterTypes /\ CanMoveBack
      /\ aside[p] \in Files \cup {Absent} /\ current \in Files \cup {Absent} /\ p \in Files
  BY DEF UpdaterInv, UpdaterTypes, Files
<1>2. [aside EXCEPT ![p] = aside[p]] = aside
  BY <1>1 DEF UpdaterTypes
<1>3. p # Absent
  BY FilesAssumption
<1>4. process' = process /\ version' = version
  BY DEF WaitEnds, MoveAway, MoveIn, DeleteOld, Look, DeleteNew, MoveBack, ScriptDies
<1> DEFINE Takes(to, newFile, old) ==
      /\ to \in ScriptSteps \ {"none"} /\ newFile \in Files \cup {Absent} /\ old \in Files \cup {Absent}
      /\ script[p] # "none"
      /\ script' = [script EXCEPT ![p] = to]
      /\ current' = newFile /\ aside' = [aside EXCEPT ![p] = old]
      /\ newFile \in {current, aside[p], p, Absent} /\ old \in {current, aside[p], Absent}
      /\ to \in {"move in", "delete old", "look", "delete new", "move back"} => old # Absent
      /\ newFile = Absent => to \in AtWork \/ (current = Absent /\ script[p] \notin AtWork)
<1>5. \E to, newFile, old : Takes(to, newFile, old)
  <2> USE DEF Script, ScriptSteps, AtWork, disk
  <2>0. script[p] \in {"move in", "delete old", "look", "delete new", "move back"} =>
          aside[p] # Absent
    BY <1>1 DEF CanMoveBack
  <2>1. CASE WaitEnds(p)
    <3>1. Takes("move away", current, aside[p]) \/ Takes("ended", current, aside[p])
      BY <1>1, <1>2, <2>1 DEF WaitEnds
    <3> QED
      BY <3>1
  <2>2. CASE MoveAway(p)
    <3>1. \/ Takes("ended", current, aside[p])
          \/ Takes("move in", Absent, current)
      BY <1>1, <1>2, <2>2 DEF MoveAway
    <3> HIDE DEF Takes
    <3> QED
      BY <3>1, Zenon
  <2>3. CASE MoveIn(p)
    <3>1. \/ Takes("look", current, aside[p])
          \/ Takes("delete old", p, aside[p])
      BY <1>1, <1>2, <1>3, <2>0, <2>3 DEF MoveIn
    <3> HIDE DEF Takes
    <3> QED
      BY <3>1, Zenon
  <2>4. CASE DeleteOld(p)
    <3>1. \/ Takes("look", current, aside[p])
          \/ Takes("ended", current, Absent)
      BY <1>1, <1>2, <2>0, <2>4 DEF DeleteOld
    <3> HIDE DEF Takes
    <3> QED
      BY <3>1, Zenon
  <2>5. CASE Look(p)
    BY <1>1, <1>2, <2>0, <2>5 DEF Look
  <2>6. CASE DeleteNew(p)
    <3>1. \/ Takes("ended", current, aside[p])
          \/ Takes("move back", Absent, aside[p])
      BY <1>1, <1>2, <2>0, <2>6 DEF DeleteNew
    <3> HIDE DEF Takes
    <3> QED
      BY <3>1, Zenon
  <2>7. CASE MoveBack(p)
    <3>1. \/ Takes("ended", aside[p], Absent)
          \/ current # Absent /\ Takes("ended", current, aside[p])
          \/ Takes("stuck", current, aside[p])
      BY <1>1, <1>2, <2>0, <2>7 DEF MoveBack
    <3> HIDE DEF Takes
    <3> QED
      BY <3>1
  <2>8. CASE ScriptDies(p)
    <3>1. CASE script[p] = "wait"
      <4>1. Takes("ended", current, aside[p])
        BY <1>1, <1>2, <2>8, <3>1 DEF ScriptDies
      <4> QED
        BY <4>1
    <3>2. CASE script[p] # "wait"
      <4>1. Takes("died", current, aside[p])
        BY <1>1, <1>2, <2>8, <3>2 DEF ScriptDies
      <4> QED
        BY <4>1
    <3> QED
      BY <3>1, <3>2
  <2> QED
    BY <2>1, <2>2, <2>3, <2>4, <2>5, <2>6, <2>7, <2>8
<1> QED
  BY <1>4, <1>5, ScriptGoesOn

LEMMA UpdaterStep == UpdaterInv /\ [UpdaterNext]_updaterVars => UpdaterInv'
<1> SUFFICES ASSUME UpdaterInv, [UpdaterNext]_updaterVars PROVE UpdaterInv'
  OBVIOUS
<1>1. ASSUME NEW p \in Processes,
             \/ StartProcess(p) \/ CheckForUpdate(p) \/ InstallRelease(p) \/ Download(p)
             \/ DownloadFails(p) \/ Install(p) \/ Exit(p)
      PROVE  UpdaterInv'
  BY <1>1, StartStep, CheckStep, ProcessStep, InstallStep
<1>2. ASSUME NEW p \in Processes,
             \/ WaitEnds(p) \/ MoveAway(p) \/ MoveIn(p) \/ DeleteOld(p)
             \/ Look(p) \/ DeleteNew(p) \/ MoveBack(p) \/ ScriptDies(p)
      PROVE  UpdaterInv'
  BY <1>2, ScriptStep
<1>3. CASE Publish \/ UNCHANGED updaterVars
  <2>1. UNCHANGED <<current, aside, version, script>> /\ process' = process
    BY <1>3 DEF Publish, updaterVars, disk
  <2>2. process \in [Processes -> ProcessState]
    BY DEF UpdaterInv, UpdaterTypes
  <2> QED
    BY <2>1, <2>2, ProcessGoesOn
<1> QED
  BY <1>1, <1>2, <1>3 DEF UpdaterNext

THEOREM UpdaterInvariant == UpdaterSpec => []UpdaterInv
BY UpdaterInitially, UpdaterStep, PTL DEF UpdaterSpec

\* However the scripts of several processes and their handlers interleave,
\* and wherever one of them fails or dies: there is an executable, or a script
\* is at work that can still put one back, or has died at it, or could not
\* move the old file back (installDownloadedUpdate on Windows).
THEOREM ExecutableKept == UpdaterSpec => []ExecutablePresent
<1>1. UpdaterInv => ExecutablePresent
  BY DEF UpdaterInv
<1> QED
  BY <1>1, UpdaterInvariant, PTL

\* What replaces the executable is newer than what it replaces, unless that
\* is not the file any more that its process was started from
\* (CheckForUpdate, InstallRelease): its version was settled before it first
\* appeared, and never changes again.
THEOREM ReplacedByNewer == UpdaterSpec => OnlyNewer
<1> DEFINE Replaces(p) == current' = p /\ current # p =>
                            LET replaced == IF windows THEN aside[p] ELSE current
                            IN replaced = process[p].from => Newer(version[p], version[replaced])
<1>1. ASSUME UpdaterInv, [UpdaterNext]_updaterVars, NEW p \in Processes PROVE Replaces(p)
  <2> SUFFICES ASSUME current' = p, current # p PROVE Newer(version[p], version[process[p].from])
    OBVIOUS
  <2>1. p # Absent
    BY FilesAssumption
  <2>2. PICK q \in Processes : Install(q) \/ MoveIn(q) \/ MoveBack(q)
    BY <1>1, <2>1 DEF UpdaterNext, updaterVars, disk, Publish, StartProcess, CheckForUpdate,
       InstallRelease, Download, DownloadFails, Exit, WaitEnds, MoveAway, DeleteOld, Look,
       DeleteNew, ScriptDies
  <2>3. Installable(p) \/ Appears(p)
    <3>1. CASE Install(q)
      BY <3>1 DEF Install, At, Installable
    <3>2. CASE MoveIn(q)
      BY <3>2 DEF MoveIn, Script, Installable
    <3>3. CASE MoveBack(q)
      BY <3>3 DEF MoveBack, Appears
    <3> QED
      BY <2>2, <3>1, <3>2, <3>3
  <2> QED
    BY <1>1, <2>3 DEF UpdaterInv, AllSettled, Settled
<1>2. UpdaterInv /\ [UpdaterNext]_updaterVars
        => [\A p \in Processes : Replaces(p)]_updaterVars
  BY <1>1
<1> QED
  BY <1>2, UpdaterInvariant, PTL DEF UpdaterSpec, OnlyNewer

=============================================================================
