---------------------------- MODULE PolicyCache ----------------------------
(***************************************************************************)
(* The model registry and the client policies: rows in D1, edited through  *)
(* the admin API, and their caches in the memory of every worker isolate.  *)
(* A row is read with an await between the look at the clock and the entry *)
(* in the cache, and an edit empties the caches of its own isolate only.   *)
(*                                                                         *)
(* One client and one model are enough: a row says "allow" (the model has  *)
(* an enabled pool, the policy allows tools) or "deny". The module that    *)
(* composes this one owns the clock and passes its time to every step.     *)
(***************************************************************************)
EXTENDS Naturals

CONSTANTS
    Isolates,        \* the worker isolates
    Loaders,         \* callers of loadRegistry and loadPolicy
    HomeOf,          \* the isolate each loader runs in
    CacheTTL,        \* TTL_MS
    Edited,          \* the tables that are edited and loaded by others
    NoAdmin

ASSUME PolicyAssumption ==
    /\ HomeOf \in [Loaders -> Isolates]
    /\ CacheTTL \in Nat \ {0}
    /\ Edited \subseteq {"registry", "policy"} /\ NoAdmin \notin Isolates

VARIABLES
    stored,          \* the row of each table in D1
    heldUntil,       \* history: when a table last stopped holding a value
    cached,          \* registryCache and policyCache of each isolate
    load,            \* the query each loader is waiting for
    admin,           \* the isolate of an edit that has yet to empty the caches
    activity         \* the edits and the loads of others so far

cacheVars == <<stored, heldUntil, cached, load, admin, activity>>

Tables == {"registry", "policy"}
Value == {"allow", "deny"}
NotCached == [value |-> "deny", expiresAt |-> 0]
NoLoad == [stage |-> "none", table |-> "policy", start |-> 0, value |-> "deny"]

CacheInit ==
    /\ stored \in [Tables -> Value]
    /\ heldUntil = [t \in Tables |-> [v \in Value |-> 0]]
    /\ cached = [i \in Isolates |-> [t \in Tables |-> NotCached]]
    /\ load = [c \in Loaders |-> NoLoad]
    /\ admin = NoAdmin
    /\ activity = 0

-----------------------------------------------------------------------------
(* loadRegistry and loadPolicy.                                            *)

CacheEntry(c, t) == cached[HomeOf[c]][t]

Current(c, t, time) == CacheEntry(c, t).expiresAt > time

\* The caller is answered from its isolate's cache.
LoadHit(c, t, v, time) ==
    /\ load[c].stage = "none"
    /\ Current(c, t, time) /\ CacheEntry(c, t).value = v
    /\ UNCHANGED cacheVars

\* Otherwise it asks D1.
LoadMiss(c, t, time) ==
    /\ load[c].stage = "none"
    /\ ~Current(c, t, time)
    /\ load' = [load EXCEPT ![c] = [stage |-> "asked", table |-> t,
                                    start |-> time, value |-> "deny"]]
    /\ UNCHANGED <<stored, heldUntil, cached, admin>>

\* D1 reads the row; the answer is still on its way.
RowRead(c) ==
    /\ load[c].stage = "asked"
    /\ load' = [load EXCEPT ![c].stage = "read", ![c].value = stored[load[c].table]]
    /\ UNCHANGED <<stored, heldUntil, cached, admin, activity>>

\* Fault: the clock is read when the answer has arrived.
FaultExpiry(c, time) == time + CacheTTL

Expiry(c, time) == load[c].start + CacheTTL

\* The answer arrives: it is cached, whatever happened to the row meanwhile.
LoadFill(c, t, v, time) ==
    /\ load[c].stage = "read" /\ load[c].table = t /\ load[c].value = v
    /\ cached' = [cached EXCEPT ![HomeOf[c]][t] = [value |-> v, expiresAt |-> Expiry(c, time)]]
    /\ load' = [load EXCEPT ![c] = NoLoad]
    /\ UNCHANGED <<stored, heldUntil, admin, activity>>

\* The loader has its value.
Loaded(c, t, v, time) == LoadHit(c, t, v, time) \/ LoadFill(c, t, v, time)

\* The query throws at the loader.
LoadThrows(c) ==
    /\ load[c].stage \in {"asked", "read"}
    /\ load' = [load EXCEPT ![c] = NoLoad]
    /\ UNCHANGED <<stored, heldUntil, cached, admin, activity>>

-----------------------------------------------------------------------------
(* PUT /admin/clients/:id/policy and PUT /admin/models/:model.             *)

AdminWrites(i, t, v, time) ==
    /\ admin = NoAdmin
    /\ t \in Edited /\ v # stored[t]
    /\ stored' = [stored EXCEPT ![t] = v]
    /\ heldUntil' = [heldUntil EXCEPT ![t][stored[t]] = time]
    /\ admin' = i
    /\ activity' = activity + 1
    /\ UNCHANGED <<cached, load>>

\* invalidateConfigCaches: both caches, in the isolate that served the edit. An
\* edit whose isolate dies leaves them as they are.
AdminInvalidates ==
    /\ admin # NoAdmin
    /\ \/ cached' = [cached EXCEPT ![admin] = [t \in Tables |-> NotCached]]
       \/ UNCHANGED cached
    /\ admin' = NoAdmin
    /\ UNCHANGED <<stored, heldUntil, load, activity>>

-----------------------------------------------------------------------------
\* The last time, up to the given one, at which a table held a value.
LastHeld(t, v, time) == IF stored[t] = v THEN time ELSE heldUntil[t][v]
=============================================================================
