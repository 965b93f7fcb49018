---------------------------- MODULE CachedClient ----------------------------
(***************************************************************************)
(* CachedBackendClient: the cache of answers between the screens of one    *)
(* window and the backend.  A read is answered from a fresh entry, joins a *)
(* fill in flight, or starts one; a mutation goes through and, when it     *)
(* succeeds, drops the entries its table names.  A mutation that the       *)
(* client gives up may still take effect.                                  *)
(*                                                                         *)
(* What a read shows is the set of mutations that took effect on it.       *)
(***************************************************************************)
EXTENDS Naturals, FiniteSets

\* A method is its group and its name.  Left out: the handshake, which never
\* changes, and the two mutations of the updates, which the host refuses.
AllReads ==
    {<<"optimization", n>> : n \in {"audit", "plan", "checkpoint_status"}} \cup
    {<<"gaming", n>> : n \in {"saved", "history"}} \cup
    {<<"startup", "list">>, <<"services", "list">>, <<"backups", "list">>,
     <<"restore", "system_points">>, <<"network", "interfaces">>,
     <<"storage", "volumes">>, <<"updates", "status">>}

AllMutations ==
    {<<"optimization", n>> : n \in {"apply", "apply_tweak", "restore_tweak",
                                    "create_checkpoint", "restore"}} \cup
    {<<"gaming", n>> : n \in {"save", "remove", "launch", "attach_benchmark"}} \cup
    {<<"restore", "open_system">>, <<"startup", "set">>, <<"services", "set">>}

CONSTANTS CachedMethods, \* the reads of the screens; their payloads are left out
          Mutations,     \* the mutations, each made once
          Fills          \* bound: calls that reads make

ASSUME MethodsAssumption == CachedMethods \subseteq AllReads /\ Mutations \subseteq AllMutations
ASSUME FillsAssumption == Fills \subseteq Nat \ {0}

\* The reads of a group.
Group(g) == {r \in AllReads : r[1] = g}

\* invalidationByMutation.
Invalidates(m) ==
    CASE m = <<"optimization", "create_checkpoint">> ->
            {<<"optimization", "checkpoint_status">>} \cup Group("backups")
      [] m[1] = "optimization" /\ m[2] # "create_checkpoint" ->
            Group("optimization") \cup Group("backups")
      [] m = <<"restore", "open_system">> -> {<<"restore", "system_points">>}
      [] m = <<"startup", "set">> -> {<<"startup", "list">>, <<"optimization", "audit">>}
      [] m = <<"services", "set">> -> {<<"services", "list">>}
      [] m \in {<<"gaming", "save">>, <<"gaming", "remove">>} -> Group("gaming")
      [] m \in {<<"gaming", "launch">>, <<"gaming", "attach_benchmark">>} ->
            {<<"gaming", "history">>}

\* What a mutation changes.  The restore of a profile also puts back the
\* startup entries and the services (restoreBackup).
Affects(m) ==
    IF m = <<"optimization", "restore">>
    THEN Invalidates(m) \cup {<<"startup", "list">>, <<"services", "list">>}
    ELSE Invalidates(m)

VARIABLES truth,    \* for each read, the mutations that took effect on it
          cache,    \* #cache
          fill,     \* the calls that reads made
          mutation, \* how far each mutation is in its window
          effected, \* mutations that took effect
          returned  \* mutations that succeeded for their caller

cacheVars == <<truth, cache, fill, mutation, effected, returned>>

Absent == [state |-> "absent"]
PendingOn(f) == [state |-> "pending", on |-> f]

\* A value with what had returned when its fill began and when it ended.
ValueOf(f, fresh) == [state |-> "value", shows |-> fill[f].shows, began |-> fill[f].began,
                      ended |-> returned, fresh |-> fresh]
Unused == [at |-> "unused"]
Settled == [at |-> "settled"]

CacheInit ==
    /\ truth = [r \in CachedMethods |-> {}]
    /\ cache = [r \in CachedMethods |-> Absent]
    /\ fill = [f \in Fills |-> Unused]
    /\ mutation = [m \in Mutations |-> "idle"]
    /\ effected = {}
    /\ returned = {}

-----------------------------------------------------------------------------
(* Reads                                                                   *)

\* call of a method with a time to live, which finds no pending entry and no
\* fresh value.  (Otherwise it is answered from the entry.)
Read(r) ==
    /\ \/ cache[r].state = "absent"
       \/ cache[r].state = "value" /\ ~cache[r].fresh
    /\ \E f \in Fills :
          /\ fill[f] = Unused
          /\ \A e \in Fills : e < f => fill[e] # Unused
          /\ fill' = [fill EXCEPT ![f] = [at |-> "sent", read |-> r, shows |-> {},
                                          began |-> returned]]
          /\ cache' = [cache EXCEPT ![r] = PendingOn(f)]
    /\ UNCHANGED <<truth, mutation, effected, returned>>

\* The backend looks at the system.
Look(f) ==
    /\ fill[f].at = "sent"
    /\ fill' = [fill EXCEPT ![f] = [@ EXCEPT !.at = "looked", !.shows = truth[fill[f].read]]]
    /\ UNCHANGED <<truth, cache, mutation, effected, returned>>

\* The answer fills the entry, whatever has become of it.
Settle(f) ==
    /\ fill[f].at = "looked"
    /\ fill' = [fill EXCEPT ![f] = Settled]
    /\ cache' = [cache EXCEPT ![fill[f].read] = ValueOf(f, TRUE)]
    /\ UNCHANGED <<truth, mutation, effected, returned>>

\* A failed read leaves its entry as it is.
FailOnly(f) ==
    /\ fill[f].at \in {"sent", "looked"}
    /\ fill' = [fill EXCEPT ![f] = Settled]
    /\ UNCHANGED <<truth, cache, mutation, effected, returned>>

\* A failed read drops the entry, be it its own or a later one.
Fail(f) ==
    /\ fill[f].at \in {"sent", "looked"}
    /\ fill' = [fill EXCEPT ![f] = Settled]
    /\ cache' = [cache EXCEPT ![fill[f].read] = Absent]
    /\ UNCHANGED <<truth, mutation, effected, returned>>

\* The time to live of an entry is over.
Expire(r) ==
    /\ cache[r].state = "value"
    /\ cache[r].fresh
    /\ cache' = [cache EXCEPT ![r] = [@ EXCEPT !.fresh = FALSE]]
    /\ UNCHANGED <<truth, fill, mutation, effected, returned>>

-----------------------------------------------------------------------------
(* Mutations                                                               *)

Invalidated(R) == [r \in CachedMethods |-> IF r \in R THEN Absent ELSE cache[r]]

Mutate(m) ==
    /\ mutation[m] = "idle"
    /\ mutation' = [mutation EXCEPT ![m] = "sent"]
    /\ UNCHANGED <<truth, cache, fill, effected, returned>>

\* The operation takes effect, also after its caller has given up.
TakeEffect(m) ==
    /\ mutation[m] \in {"sent", "failed"}
    /\ m \notin effected
    /\ effected' = effected \cup {m}
    /\ truth' = [r \in CachedMethods |-> IF r \in Affects(m) THEN truth[r] \cup {m} ELSE truth[r]]
    /\ UNCHANGED <<cache, fill, mutation, returned>>

\* A mutation drops no entries.
ReturnWithoutInvalidation(m) ==
    /\ mutation[m] = "sent"
    /\ m \in effected
    /\ mutation' = [mutation EXCEPT ![m] = "done"]
    /\ returned' = returned \cup {m}
    /\ UNCHANGED <<truth, cache, fill, effected>>

Return(m) ==
    /\ mutation[m] = "sent"
    /\ m \in effected
    /\ mutation' = [mutation EXCEPT ![m] = "done"]
    /\ returned' = returned \cup {m}
    /\ cache' = Invalidated(Invalidates(m))
    /\ UNCHANGED <<truth, fill, effected>>

\* An error, a timeout or a cancellation invalidates nothing.
ReturnError(m) ==
    /\ mutation[m] = "sent"
    /\ mutation' = [mutation EXCEPT ![m] = "failed"]
    /\ UNCHANGED <<truth, cache, fill, effected, returned>>

\* A screen drops the entries of a group before it reads again.
Refresh(r) ==
    /\ cache[r] # Absent
    /\ cache' = Invalidated(Group(r[1]))
    /\ UNCHANGED <<truth, fill, mutation, effected, returned>>

-----------------------------------------------------------------------------

CacheNext ==
    \/ \E r \in CachedMethods : Read(r) \/ Expire(r) \/ Refresh(r)
    \/ \E f \in Fills : Look(f) \/ Settle(f) \/ Fail(f)
    \/ \E m \in Mutations : Mutate(m) \/ TakeEffect(m) \/ Return(m) \/ ReturnError(m)

CacheSpec == CacheInit /\ [][CacheNext]_cacheVars

-----------------------------------------------------------------------------
(* Properties                                                              *)

Entries == {Absent} \cup {PendingOn(f) : f \in Fills} \cup
           [state : {"value"}, shows : SUBSET Mutations, began : SUBSET Mutations,
            ended : SUBSET Mutations, fresh : BOOLEAN]

CacheTypeOK ==
    /\ truth \in [CachedMethods -> SUBSET Mutations]
    /\ cache \in [CachedMethods -> Entries]
    /\ fill \in [Fills -> {Unused, Settled} \cup
          [at : {"sent", "looked"}, read : CachedMethods,
           shows : SUBSET Mutations, began : SUBSET Mutations]]
    /\ mutation \in [Mutations -> {"idle", "sent", "done", "failed"}]
    /\ effected \subseteq Mutations
    /\ returned \subseteq effected

\* The entry of r is a value that does not show m although m has returned.
Misses(r, m) == /\ cache[r].state = "value"
                /\ m \in returned
                /\ m \notin cache[r].shows

\* call, invalidate: of the mutations that drop a read, its entry may miss
\* only those that returned while the fill of that entry was in flight.
FreshOrRaced ==
    \A r \in CachedMethods, m \in Mutations :
        Misses(r, m) /\ r \in Invalidates(m) => m \in cache[r].ended \ cache[r].began

\* call: whoever joins a pending entry waits for a call that is still in
\* flight, however fills, failures and invalidations overlap.
PendingInFlight ==
    \A r \in CachedMethods : cache[r].state = "pending" =>
        /\ fill[cache[r].on].at \in {"sent", "looked"}
        /\ fill[cache[r].on].read = r

\* "invalidates the affected prefixes after mutations" (docs/ARCHITECTURE.md:7):
\* an entry from before a mutation that changed what it shows is gone.
AffectedInvalidated ==
    \A r \in CachedMethods, m \in Mutations :
        Misses(r, m) /\ r \in Affects(m) => m \in cache[r].ended
=============================================================================
