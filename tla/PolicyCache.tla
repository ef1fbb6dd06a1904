---------------------------- MODULE PolicyCache ----------------------------
(* policy.load as the tier handlers call it. Each warm container of Tier 2    *)
(* and Tier 3 is a handler here, with a cache of its own; it serves one       *)
(* invocation at a time, so its loads never overlap. "now" is sampled before  *)
(* the table is read, and ages are counted from then.                         *)
EXTENDS ScopeRecord

CONSTANTS
    Handlers,      \* containers that run a tier handler
    DefaultMode    \* VARDOGER_DEFAULT_TIER2_MODE, DEFAULT_TIER3_MODE

ASSUME DefaultModeAssumption == DefaultMode \in Modes

VARIABLES
    cache,   \* _cache: what the container last read, and how long ago it asked
    load,    \* the load in progress
    used     \* what load last returned and from where, how long since the
             \* record said "enforce" when it did, and how long that load took

policyVars == <<cache, load, used>>

Ages == 0 .. TTL
CacheEntry == [held: BOOLEAN, mode: Modes, age: Ages]
Load == [pc: {"idle", "asked", "read"}, mode: Modes, age: Ages]
Use == [mode: Modes, from: {"none", "cache", "table", "defaults"}, since: Ages, took: Ages]

PolicyInit ==
    /\ cache = [h \in Handlers |-> [held |-> FALSE, mode |-> "shadow", age |-> 0]]
    /\ load = [h \in Handlers |-> [pc |-> "idle", mode |-> "shadow", age |-> 0]]
    /\ used = [h \in Handlers |-> [mode |-> "shadow", from |-> "none", since |-> TTL, took |-> 0]]

\* normalize_mode: what names no mode is shadow.
Normalized(mode) == IF mode \in Modes THEN mode ELSE "shadow"

\* Mutant: a stored mode is taken as it stands.
UncheckedMode(item) ==
    IF item.mode # "absent" THEN item.mode
    ELSE IF item.enabled THEN DefaultMode ELSE "off"

\* policy_from_item: the tier's own default stands in for an absent mode, unless
\* the legacy flag turned the tier off.
HandlerMode(item) ==
    IF item.mode # "absent" THEN Normalized(item.mode)
    ELSE IF item.enabled THEN DefaultMode ELSE "off"

\* Mutant: what was read once is kept for good.
NeverExpires(h) == cache[h].held

Fresh(h) == cache[h].held /\ cache[h].age < TTL

Returned(h, mode, from, took) ==
    used' = [used EXCEPT ![h] =
               [mode |-> mode, from |-> from, since |-> sinceEnforce, took |-> took]]

LoadCached(h) ==
    /\ load[h].pc = "idle"
    /\ Fresh(h)
    /\ Returned(h, cache[h].mode, "cache", 0)
    /\ UNCHANGED <<cache, load, scopeVars>>

AskTable(h) ==
    /\ load[h].pc = "idle"
    /\ ~Fresh(h)
    /\ load' = [load EXCEPT ![h] = [pc |-> "asked", mode |-> "shadow", age |-> 0]]
    /\ UNCHANGED <<cache, used, scopeVars>>

\* The read is served. get_item is eventually consistent.
TableServes(h) ==
    /\ load[h].pc = "asked"
    /\ \E item \in {record, replica} :
         load' = [load EXCEPT ![h] = [pc |-> "read", mode |-> HandlerMode(item), age |-> load[h].age]]
    /\ UNCHANGED <<cache, used, scopeVars>>

\* Mutant: "now" is sampled when the answer comes.
StampedOnArrival(h) ==
    /\ load[h].pc = "read"
    /\ cache' = [cache EXCEPT ![h] = [held |-> TRUE, mode |-> load[h].mode, age |-> 0]]
    /\ Returned(h, load[h].mode, "table", load[h].age)
    /\ load' = [load EXCEPT ![h] = [pc |-> "idle", mode |-> "shadow", age |-> 0]]
    /\ UNCHANGED scopeVars

LoadReturns(h) ==
    /\ load[h].pc = "read"
    /\ cache' = [cache EXCEPT ![h] = [held |-> TRUE, mode |-> load[h].mode, age |-> load[h].age]]
    /\ Returned(h, load[h].mode, "table", load[h].age)
    /\ load' = [load EXCEPT ![h] = [pc |-> "idle", mode |-> "shadow", age |-> 0]]
    /\ UNCHANGED scopeVars

\* Mutant: the expired entry is served, and its lifetime begins anew.
ServesStaleOnError(h) ==
    /\ load[h].pc \in {"asked", "read"}
    /\ Spend(1)
    /\ Returned(h, IF cache[h].held THEN cache[h].mode ELSE DefaultMode, "defaults", load[h].age)
    /\ cache' = [cache EXCEPT ![h].age = 0]
    /\ load' = [load EXCEPT ![h] = [pc |-> "idle", mode |-> "shadow", age |-> 0]]
    /\ UNCHANGED <<record, replica, client, acked, writes, sinceEnforce>>

\* The read fails: the defaults are returned, and not cached.
LoadFails(h) ==
    /\ load[h].pc \in {"asked", "read"}
    /\ Spend(1)
    /\ Returned(h, DefaultMode, "defaults", load[h].age)
    /\ load' = [load EXCEPT ![h] = [pc |-> "idle", mode |-> "shadow", age |-> 0]]
    /\ UNCHANGED <<cache, record, replica, client, acked, writes, sinceEnforce>>

\* The container is replaced by a new one.
HandlerColdStart(h) ==
    /\ load[h].pc = "idle"
    /\ cache[h].held
    /\ cache' = [cache EXCEPT ![h] = [held |-> FALSE, mode |-> "shadow", age |-> 0]]
    /\ UNCHANGED <<load, used, scopeVars>>

Older(age) == IF age < TTL THEN age + 1 ELSE TTL

PolicyTick ==
    /\ cache' = [h \in Handlers |->
                   [held |-> cache[h].held, mode |-> cache[h].mode,
                    age |-> IF cache[h].held THEN Older(cache[h].age) ELSE 0]]
    /\ load' = [h \in Handlers |->
                  [pc |-> load[h].pc, mode |-> load[h].mode,
                   age |-> IF load[h].pc = "idle" THEN 0 ELSE Older(load[h].age)]]
    /\ UNCHANGED used

TierHandler(h) ==
    \/ LoadCached(h)
    \/ AskTable(h)
    \/ TableServes(h)
    \/ LoadReturns(h)
    \/ LoadFails(h)
    \/ HandlerColdStart(h)
=============================================================================
