------------------------- MODULE ScopeConfigProofs -------------------------
(* For any number of administrators, authors, handlers and interceptors, any  *)
(* lifetime of the cache and any number of failures: enforcement that was     *)
(* turned off is not acted on for longer than the cache lives, the bundled    *)
(* signatures stand, and none is enforced unscreened.                         *)
EXTENDS ScopeConfig, FiniteSetTheorems, TLAPS

\* A write of the record makes no copy of it older than the counter says.
LEMMA WrittenKeepsFresh ==
    ASSUME NEW item, Written(item), RecordIsFresh, sinceEnforce \in Ages
    PROVE  RecordIsFresh' /\ sinceEnforce' \in Ages /\ sinceEnforce' <= sinceEnforce
BY ScopeAssumption DEF Written, RecordIsFresh, Ages

\* What the handlers hold stays fresh while they do nothing and the counter does
\* not grow.
LEMMA QuietHandlers ==
    ASSUME FreshInv, UNCHANGED policyVars, RecordIsFresh',
           sinceEnforce' \in Ages, sinceEnforce' <= sinceEnforce
    PROVE  FreshInv'
<1>1. PolicyTypeOK'
  BY DEF FreshInv, PolicyTypeOK, policyVars, CacheEntry, Load, Use, Ages
<1>2. ASSUME DefaultMode # "enforce" PROVE HeldIsFresh'
  <2>. SUFFICES ASSUME NEW h \in Handlers
       PROVE /\ cache'[h].held /\ cache'[h].mode = "enforce" => sinceEnforce' <= cache'[h].age
             /\ load'[h].pc = "read" /\ load'[h].mode = "enforce" => sinceEnforce' <= load'[h].age
    BY DEF HeldIsFresh
  <2>1. /\ sinceEnforce \in Int /\ sinceEnforce' \in Int
        /\ cache[h].age \in Int /\ load[h].age \in Int
    BY ScopeAssumption DEF FreshInv, PolicyTypeOK, CacheEntry, Load, Ages
  <2>. QED  BY <1>2, <2>1 DEF FreshInv, HeldIsFresh, policyVars
<1>3. EnforceIsFresh'
  BY DEF FreshInv, EnforceIsFresh, policyVars
<1>. QED  BY <1>1, <1>2, <1>3 DEF FreshInv

\* A step of the control plane, or of DynamoDB under it.
LEMMA ControlPlaneFresh ==
    ASSUME FreshInv, ControlPlane, UNCHANGED policyVars
    PROVE  FreshInv'
<1>1. sinceEnforce \in Ages /\ RecordIsFresh  BY DEF FreshInv, PolicyTypeOK
<1>. DEFINE Kept == RecordIsFresh' /\ sinceEnforce' \in Ages /\ sinceEnforce' <= sinceEnforce
<1>2. sinceEnforce <= sinceEnforce  BY <1>1, ScopeAssumption DEF Ages
<1>3. ASSUME UNCHANGED <<record, replica, sinceEnforce>> PROVE Kept
  BY <1>1, <1>2, <1>3 DEF RecordIsFresh
<1>4. ASSUME NEW c, NEW item, WriteAnswered(c, item) PROVE Kept
  BY <1>1, <1>4, WrittenKeepsFresh DEF WriteAnswered
<1>5. ASSUME NEW c, NEW item, WriteUnanswered(c, item) PROVE Kept
  BY <1>1, <1>3, <1>5, WrittenKeepsFresh DEF WriteUnanswered
<1>6. ASSUME NEW c \in PolicyAdmins, NEW mode \in Modes, PutPolicy(c, mode) PROVE Kept
  BY <1>3, <1>6 DEF PutPolicy
<1>7. ASSUME NEW c \in PolicyAdmins, PolicySaved(c) PROVE Kept
  BY <1>4, <1>7 DEF PolicySaved
<1>8. ASSUME NEW c \in PolicyAdmins, PolicyUnanswered(c) PROVE Kept
  BY <1>5, <1>8 DEF PolicyUnanswered
<1>9. ASSUME NEW c \in Authors, NEW sig \in Signatures, AddCustomSignature(c, sig) PROVE Kept
  BY <1>3, <1>9 DEF AddCustomSignature
<1>10. ASSUME NEW c \in Authors, SignatureStored(c) PROVE Kept
  BY <1>4, <1>10 DEF SignatureStored
<1>11. ASSUME NEW c \in Authors, SignatureUnanswered(c) PROVE Kept
  BY <1>5, <1>11 DEF SignatureUnanswered
<1>12. ASSUME EditTable PROVE Kept
  BY <1>1, <1>12, WrittenKeepsFresh DEF EditTable
<1>13. ASSUME Replicate PROVE Kept
  BY <1>1, <1>2, <1>13 DEF Replicate, RecordIsFresh
<1>14. Kept
  BY <1>6, <1>7, <1>8, <1>9, <1>10, <1>11, <1>12, <1>13 DEF ControlPlane
<1>. QED  BY <1>14, QuietHandlers

\* Only a record that says "enforce" is read as "enforce".
LEMMA EnforceComesFromRecord ==
    ASSUME NEW item, DefaultMode # "enforce", HandlerMode(item) = "enforce"
    PROVE  item.mode = "enforce"
BY DEF HandlerMode, Normalized

LEMMA HandlerModeType == ASSUME NEW item PROVE HandlerMode(item) \in Modes
BY DefaultModeAssumption DEF HandlerMode, Normalized, Modes

\* A step of a tier handler.
LEMMA HandlerFresh ==
    ASSUME FreshInv, NEW h \in Handlers, TierHandler(h)
    PROVE  FreshInv'
<1>. USE DEF Ages
<1>1. /\ sinceEnforce \in Ages /\ RecordIsFresh
      /\ cache \in [Handlers -> CacheEntry] /\ load \in [Handlers -> Load]
      /\ used \in [Handlers -> Use]
      /\ DefaultMode # "enforce" => HeldIsFresh
      /\ EnforceIsFresh
  BY DEF FreshInv, PolicyTypeOK
<1>2. TTL \in Nat /\ TTL > 0  BY ScopeAssumption
<1>3. UNCHANGED <<record, replica, sinceEnforce>>
  BY DEF TierHandler, LoadCached, AskTable, TableServes, LoadReturns, LoadFails,
         HandlerColdStart, scopeVars
<1>4. RecordIsFresh' /\ sinceEnforce' = sinceEnforce  BY <1>1, <1>3 DEF RecordIsFresh
<1>5. CASE LoadCached(h)
  <2>1. /\ used' = [used EXCEPT ![h] = [mode |-> cache[h].mode, from |-> "cache",
                                        since |-> sinceEnforce, took |-> 0]]
        /\ cache' = cache /\ load' = load
        /\ cache[h].held /\ cache[h].age < TTL
    BY <1>5 DEF LoadCached, Returned, Fresh
  <2>2. cache[h].mode \in Modes /\ cache[h].age \in 0 .. TTL  BY <1>1 DEF CacheEntry
  <2>3. [mode |-> cache[h].mode, from |-> "cache", since |-> sinceEnforce, took |-> 0] \in Use
    BY <1>1, <1>2, <2>2 DEF Use
  <2>4. PolicyTypeOK'
    BY <1>1, <1>4, <2>1, <2>3 DEF PolicyTypeOK
  <2>5. ASSUME DefaultMode # "enforce", NEW g \in Handlers, used'[g].mode = "enforce"
        PROVE  used'[g].since < TTL \/ used'[g].since <= used'[g].took
    <3>1. CASE g = h
      BY <1>1, <1>2, <2>1, <2>2, <2>5, <3>1 DEF HeldIsFresh
    <3>2. CASE g # h
      BY <1>1, <2>1, <2>5, <3>2 DEF EnforceIsFresh
    <3>. QED  BY <3>1, <3>2
  <2>6. EnforceIsFresh'  BY <2>5 DEF EnforceIsFresh
  <2>. QED  BY <1>1, <1>4, <2>1, <2>4, <2>6 DEF FreshInv, HeldIsFresh
<1>6. CASE AskTable(h)
  <2>1. /\ load' = [load EXCEPT ![h] = [pc |-> "asked", mode |-> "shadow", age |-> 0]]
        /\ cache' = cache /\ used' = used
    BY <1>6 DEF AskTable
  <2>2. [pc |-> "asked", mode |-> "shadow", age |-> 0] \in Load  BY <1>2 DEF Load, Modes
  <2>3. PolicyTypeOK'  BY <1>1, <1>4, <2>1, <2>2 DEF PolicyTypeOK
  <2>4. ASSUME DefaultMode # "enforce" PROVE HeldIsFresh'
    BY <1>1, <1>4, <2>1, <2>4 DEF HeldIsFresh
  <2>. QED  BY <1>1, <1>4, <2>1, <2>3, <2>4 DEF FreshInv, EnforceIsFresh
<1>7. CASE TableServes(h)
  <2>1. PICK item \in {record, replica} :
            load' = [load EXCEPT ![h] = [pc |-> "read", mode |-> HandlerMode(item),
                                         age |-> load[h].age]]
    BY <1>7 DEF TableServes
  <2>2. cache' = cache /\ used' = used  BY <1>7 DEF TableServes
  <2>3. load[h].age \in 0 .. TTL  BY <1>1 DEF Load
  <2>4. [pc |-> "read", mode |-> HandlerMode(item), age |-> load[h].age] \in Load
    BY <2>3, HandlerModeType DEF Load
  <2>5. PolicyTypeOK'  BY <1>1, <1>4, <2>1, <2>2, <2>4 DEF PolicyTypeOK
  <2>6. ASSUME DefaultMode # "enforce" PROVE HeldIsFresh'
    <3>1. HandlerMode(item) = "enforce" => sinceEnforce = 0
      BY <1>1, <2>1, <2>6, EnforceComesFromRecord DEF RecordIsFresh
    <3>2. ASSUME NEW g \in Handlers
          PROVE  load'[g].pc = "read" /\ load'[g].mode = "enforce" => sinceEnforce <= load'[g].age
      <4>1. CASE g = h  BY <1>1, <2>1, <2>3, <3>1, <4>1
      <4>2. CASE g # h  BY <1>1, <2>1, <2>6, <4>2 DEF HeldIsFresh
      <4>. QED  BY <4>1, <4>2
    <3>. QED  BY <1>1, <1>4, <2>2, <2>6, <3>2 DEF HeldIsFresh
  <2>. QED  BY <1>1, <1>4, <2>2, <2>5, <2>6 DEF FreshInv, EnforceIsFresh
<1>8. CASE LoadReturns(h)
  <2>1. /\ load[h].pc = "read"
        /\ cache' = [cache EXCEPT ![h] = [held |-> TRUE, mode |-> load[h].mode, age |-> load[h].age]]
        /\ used' = [used EXCEPT ![h] = [mode |-> load[h].mode, from |-> "table",
                                        since |-> sinceEnforce, took |-> load[h].age]]
        /\ load' = [load EXCEPT ![h] = [pc |-> "idle", mode |-> "shadow", age |-> 0]]
    BY <1>8 DEF LoadReturns, Returned
  <2>2. load[h].mode \in Modes /\ load[h].age \in 0 .. TTL  BY <1>1 DEF Load
  <2>3. /\ [held |-> TRUE, mode |-> load[h].mode, age |-> load[h].age] \in CacheEntry
        /\ [mode |-> load[h].mode, from |-> "table", since |-> sinceEnforce,
            took |-> load[h].age] \in Use
        /\ [pc |-> "idle", mode |-> "shadow", age |-> 0] \in Load
    BY <1>1, <1>2, <2>2 DEF CacheEntry, Use, Load, Modes
  <2>4. PolicyTypeOK'  BY <1>1, <1>4, <2>1, <2>3 DEF PolicyTypeOK
  <2>5. DefaultMode # "enforce" /\ load[h].mode = "enforce" => sinceEnforce <= load[h].age
    BY <1>1, <2>1 DEF HeldIsFresh
  <2>6. ASSUME DefaultMode # "enforce" PROVE HeldIsFresh'
    <3>. SUFFICES ASSUME NEW g \in Handlers
         PROVE /\ cache'[g].held /\ cache'[g].mode = "enforce" => sinceEnforce <= cache'[g].age
               /\ load'[g].pc = "read" /\ load'[g].mode = "enforce" => sinceEnforce <= load'[g].age
      BY <1>4 DEF HeldIsFresh
    <3>1. CASE g = h  BY <1>1, <2>1, <2>5, <2>6, <3>1
    <3>2. CASE g # h  BY <1>1, <2>1, <2>6, <3>2 DEF HeldIsFresh
    <3>. QED  BY <3>1, <3>2
  <2>7. ASSUME DefaultMode # "enforce", NEW g \in Handlers, used'[g].mode = "enforce"
        PROVE  used'[g].since < TTL \/ used'[g].since <= used'[g].took
    <3>1. CASE g = h  BY <1>1, <2>1, <2>5, <2>7, <3>1
    <3>2. CASE g # h  BY <1>1, <2>1, <2>7, <3>2 DEF EnforceIsFresh
    <3>. QED  BY <3>1, <3>2
  <2>8. EnforceIsFresh'  BY <2>7 DEF EnforceIsFresh
  <2>. QED  BY <1>4, <2>4, <2>6, <2>8 DEF FreshInv
<1>9. CASE LoadFails(h)
  <2>1. /\ used' = [used EXCEPT ![h] = [mode |-> DefaultMode, from |-> "defaults",
                                        since |-> sinceEnforce, took |-> load[h].age]]
        /\ load' = [load EXCEPT ![h] = [pc |-> "idle", mode |-> "shadow", age |-> 0]]
        /\ cache' = cache
    BY <1>9 DEF LoadFails, Returned
  <2>2. load[h].age \in 0 .. TTL  BY <1>1 DEF Load
  <2>3. /\ [mode |-> DefaultMode, from |-> "defaults", since |-> sinceEnforce,
            took |-> load[h].age] \in Use
        /\ [pc |-> "idle", mode |-> "shadow", age |-> 0] \in Load
    BY <1>1, <1>2, <2>2, DefaultModeAssumption DEF Use, Load, Modes
  <2>4. PolicyTypeOK'  BY <1>1, <1>4, <2>1, <2>3 DEF PolicyTypeOK
  <2>5. ASSUME DefaultMode # "enforce" PROVE HeldIsFresh'
    BY <1>1, <1>4, <2>1, <2>5 DEF HeldIsFresh
  <2>6. EnforceIsFresh'
    BY <1>1, <2>1 DEF EnforceIsFresh
  <2>. QED  BY <1>4, <2>4, <2>5, <2>6 DEF FreshInv
<1>10. CASE HandlerColdStart(h)
  <2>1. /\ cache' = [cache EXCEPT ![h] = [held |-> FALSE, mode |-> "shadow", age |-> 0]]
        /\ load' = load /\ used' = used
    BY <1>10 DEF HandlerColdStart
  <2>2. [held |-> FALSE, mode |-> "shadow", age |-> 0] \in CacheEntry
    BY <1>2 DEF CacheEntry, Modes
  <2>3. PolicyTypeOK'  BY <1>1, <1>4, <2>1, <2>2 DEF PolicyTypeOK
  <2>4. ASSUME DefaultMode # "enforce" PROVE HeldIsFresh'
    BY <1>1, <1>4, <2>1, <2>4 DEF HeldIsFresh
  <2>. QED  BY <1>1, <1>4, <2>1, <2>3, <2>4 DEF FreshInv, EnforceIsFresh
<1>. QED  BY <1>5, <1>6, <1>7, <1>8, <1>9, <1>10 DEF TierHandler

\* Time passes: the counter and the ages grow together.
LEMMA TickFresh ==
    ASSUME FreshInv, Tick
    PROVE  FreshInv'
<1>. USE DEF Ages
<1>1. /\ sinceEnforce \in Ages
      /\ cache \in [Handlers -> CacheEntry] /\ load \in [Handlers -> Load]
      /\ used \in [Handlers -> Use]
      /\ DefaultMode # "enforce" => HeldIsFresh
      /\ EnforceIsFresh
  BY DEF FreshInv, PolicyTypeOK
<1>2. TTL \in Nat /\ TTL > 0  BY ScopeAssumption
<1>3. /\ record' = record /\ replica' = replica /\ replica = record /\ used' = used
      /\ sinceEnforce' \in 0 .. TTL
      /\ sinceEnforce' <= sinceEnforce + 1
      /\ record.mode = "enforce" => sinceEnforce' = 0
  BY <1>1, <1>2 DEF Tick, ScopeTick, PolicyTick
<1>4. RecordIsFresh'  BY <1>3 DEF RecordIsFresh
<1>5. ASSUME NEW age \in 0 .. TTL
      PROVE  Older(age) \in 0 .. TTL /\ (sinceEnforce <= age => sinceEnforce' <= Older(age))
  BY <1>1, <1>2, <1>3, <1>5 DEF Older
<1>6. ASSUME NEW h \in Handlers
      PROVE  /\ cache'[h] \in CacheEntry
             /\ cache'[h].held = cache[h].held /\ cache'[h].mode = cache[h].mode
             /\ cache[h].held => cache'[h].age = Older(cache[h].age)
  BY <1>1, <1>2, <1>5, <1>6 DEF Tick, PolicyTick, CacheEntry
<1>7. ASSUME NEW h \in Handlers
      PROVE  /\ load'[h] \in Load
             /\ load'[h].pc = load[h].pc /\ load'[h].mode = load[h].mode
             /\ load[h].pc # "idle" => load'[h].age = Older(load[h].age)
  BY <1>1, <1>2, <1>5, <1>7 DEF Tick, PolicyTick, Load
<1>8. PolicyTypeOK'
  <2>1. cache' \in [Handlers -> CacheEntry]  BY <1>6 DEF Tick, PolicyTick
  <2>2. load' \in [Handlers -> Load]  BY <1>7 DEF Tick, PolicyTick
  <2>. QED  BY <1>1, <1>3, <2>1, <2>2 DEF PolicyTypeOK
<1>9. ASSUME DefaultMode # "enforce" PROVE HeldIsFresh'
  <2>. SUFFICES ASSUME NEW h \in Handlers
       PROVE /\ cache'[h].held /\ cache'[h].mode = "enforce" => sinceEnforce' <= cache'[h].age
             /\ load'[h].pc = "read" /\ load'[h].mode = "enforce" => sinceEnforce' <= load'[h].age
    BY DEF HeldIsFresh
  <2>1. cache[h].age \in 0 .. TTL /\ load[h].age \in 0 .. TTL  BY <1>1 DEF CacheEntry, Load
  <2>2. cache'[h].held /\ cache'[h].mode = "enforce" => sinceEnforce' <= cache'[h].age
    BY <1>1, <1>5, <1>6, <1>9, <2>1 DEF HeldIsFresh
  <2>3. load'[h].pc = "read" /\ load'[h].mode = "enforce" => sinceEnforce' <= load'[h].age
    BY <1>1, <1>5, <1>7, <1>9, <2>1 DEF HeldIsFresh
  <2>. QED  BY <2>2, <2>3
<1>10. EnforceIsFresh'  BY <1>1, <1>3 DEF EnforceIsFresh
<1>. QED  BY <1>4, <1>8, <1>9, <1>10 DEF FreshInv

\* The inductive invariant of the policy side, for every value of the constants:
\* the types of what handlers hold, and that none of it is older than its age.
THEOREM FreshInvariant == Spec => []FreshInv
<1>1. Init => FreshInv
  <2>. SUFFICES ASSUME Init PROVE FreshInv  OBVIOUS
  <2>1. TTL \in Nat /\ TTL > 0  BY ScopeAssumption
  <2>2. PolicyTypeOK
    BY <2>1 DEF Init, ScopeInit, PolicyInit, PolicyTypeOK, Ages, CacheEntry, Load, Use, Modes
  <2>3. RecordIsFresh
    BY DEF Init, ScopeInit, RecordIsFresh
  <2>4. HeldIsFresh /\ EnforceIsFresh
    BY DEF Init, PolicyInit, HeldIsFresh, EnforceIsFresh
  <2>. QED  BY <2>2, <2>3, <2>4 DEF FreshInv
<1>2. FreshInv /\ [Next]_vars => FreshInv'
  <2>. SUFFICES ASSUME FreshInv, [Next]_vars PROVE FreshInv'  OBVIOUS
  <2>1. sinceEnforce \in Ages /\ RecordIsFresh /\ sinceEnforce <= sinceEnforce
    BY ScopeAssumption DEF FreshInv, PolicyTypeOK, Ages
  <2>2. CASE ControlPlane /\ UNCHANGED <<policyVars, scanner>>
    BY <2>2, ControlPlaneFresh
  <2>3. CASE \E h \in Handlers : TierHandler(h) /\ UNCHANGED scanner
    BY <2>3, HandlerFresh
  <2>4. CASE \E c \in Containers : Interceptor(c) /\ UNCHANGED policyVars
    <3>1. UNCHANGED <<record, replica, sinceEnforce>> /\ UNCHANGED policyVars
      BY <2>4 DEF Interceptor, ColdStart, Refresh, RefreshRaises, Become
    <3>. QED  BY <2>1, <3>1, QuietHandlers DEF RecordIsFresh
  <2>5. CASE Tick
    BY <2>5, TickFresh
  <2>6. CASE UNCHANGED vars
    <3>1. UNCHANGED <<record, replica, sinceEnforce>> /\ UNCHANGED policyVars
      BY <2>6 DEF vars, scopeVars
    <3>. QED  BY <2>1, <3>1, QuietHandlers DEF RecordIsFresh
  <2>. QED  BY <2>2, <2>3, <2>4, <2>5, <2>6 DEF Next
<1>. QED  BY <1>1, <1>2, PTL DEF Spec

\* Turning enforcement off takes effect within the cache's lifetime, for every
\* number of handlers, writers and failures (policy.load).
THEOREM EnforcementIsFresh == Spec => []EnforceIsFresh
<1>1. FreshInv => EnforceIsFresh  BY DEF FreshInv
<1>. QED  BY <1>1, FreshInvariant, PTL

-----------------------------------------------------------------------------
(* What an interceptor enforces, whatever the table and the package hold.     *)

OneOfEachId(sigs) == \A s, t \in sigs : s.id = t.id => s = t

Sound(sigs) == Community \subseteq sigs /\ OneOfEachId(sigs) /\ BadSignature \notin sigs

ScannerInv ==
    /\ DOMAIN scanner = Containers
    /\ \A c \in Containers : /\ DOMAIN scanner[c] = {"sigs", "age"}
                            /\ Sound(scanner[c].sigs)

\* Appending never replaces an id and never adds one twice (_append_only).
LEMMA AppendOnlyIsSound ==
    ASSUME NEW sigs, Sound(sigs), NEW list, NEW loaded, loaded \subseteq Nat,
           \A i \in loaded : list[i] # BadSignature
    PROVE  Sound(AppendOnly(sigs, list, loaded))
<1>. DEFINE added == {j \in loaded : /\ list[j].id \notin Ids(sigs)
                                     /\ \A k \in loaded : k < j => list[k].id # list[j].id}
            all == AppendOnly(sigs, list, loaded)
<1>1. all = sigs \union {list[i] : i \in added}
  BY DEF AppendOnly
<1>2. ASSUME NEW i \in added, NEW j \in added, list[i].id = list[j].id
      PROVE  i = j
  BY <1>2
<1>3. \A i \in added : list[i].id \notin Ids(sigs) /\ list[i] # BadSignature
  OBVIOUS
<1>. HIDE DEF added, all
<1>4. OneOfEachId(all)
  BY <1>1, <1>2, <1>3 DEF OneOfEachId, Sound, Ids
<1>5. Community \subseteq all /\ BadSignature \notin all
  BY <1>1, <1>3 DEF Sound
<1>. QED  BY <1>4, <1>5 DEF Sound, all

LEMMA BuiltIsSound ==
    ASSUME NEW item, NEW failed
    PROVE  Sound(Built(item, failed))
<1>1. Sound(Community)
  BY ShippedAssumption DEF Sound, OneOfEachId
<1>2. Sound(Shipped(failed))
  <2>. DEFINE loaded == IF "premium" \in failed THEN {} ELSE DOMAIN Premium
  <2>1. loaded \subseteq Nat /\ \A i \in loaded : Premium[i] # BadSignature
    BY ShippedAssumption DEF PremiumSigs
  <2>. QED  BY <1>1, <2>1, AppendOnlyIsSound DEF Shipped
<1>3. Sound(Built(item, failed))
  <2>. DEFINE loaded == IF "custom" \in failed THEN {} ELSE CustomLoaded(item.sigs)
  <2>1. loaded \subseteq Nat /\ \A i \in loaded : item.sigs[i] # BadSignature
    BY ScannerAssumption DEF CustomLoaded, Screened
  <2>. QED  BY <1>2, <2>1, AppendOnlyIsSound DEF Built
<1>. QED  BY <1>3

LEMMA BecomeIsSound ==
    ASSUME ScannerInv, NEW c \in Containers, NEW sigs, Sound(sigs), NEW failed,
           Become(c, sigs, failed)
    PROVE  ScannerInv'
BY DEF Become, ScannerInv

LEMMA InterceptorIsSound ==
    ASSUME ScannerInv, NEW c \in Containers, Interceptor(c)
    PROVE  ScannerInv'
<1>1. CASE ColdStart(c)
  BY <1>1, BuiltIsSound, BecomeIsSound DEF ColdStart
<1>2. CASE Refresh(c)
  <2>1. Sound(scanner[c].sigs)  BY DEF ScannerInv
  <2>. QED  BY <1>2, <2>1, BuiltIsSound, BecomeIsSound DEF Refresh
<1>3. CASE RefreshRaises(c)
  <2>1. scanner' = [scanner EXCEPT ![c].age = 0]
    BY <1>3 DEF RefreshRaises
  <2>. QED  BY <2>1 DEF ScannerInv
<1>. QED  BY <1>1, <1>2, <1>3 DEF Interceptor

THEOREM ScannerInvariant == Spec => []ScannerInv
<1>1. Init => ScannerInv
  BY BuiltIsSound DEF Init, ScannerInit, ScannerInv
<1>2. ScannerInv /\ [Next]_vars => ScannerInv'
  <2>. SUFFICES ASSUME ScannerInv, [Next]_vars PROVE ScannerInv'  OBVIOUS
  <2>1. CASE \E c \in Containers : Interceptor(c)
    BY <2>1, InterceptorIsSound
  <2>2. CASE Tick
    BY <2>2 DEF Tick, ScannerTick, ScannerInv
  <2>3. CASE UNCHANGED scanner
    BY <2>3 DEF ScannerInv
  <2>. QED  BY <2>1, <2>2, <2>3 DEF Next, vars
<1>. QED  BY <1>1, <1>2, PTL DEF Spec

\* Every interceptor has every bundled signature under its own id, and no id
\* twice, whatever the premium package and the table hold and however often they
\* fail (build_scanner, _append_only).
THEOREM FloorHolds == Spec => []CommunityFloor
<1>1. ScannerInv => CommunityFloor
  BY DEF ScannerInv, Sound, OneOfEachId, CommunityFloor
<1>. QED  BY <1>1, ScannerInvariant, PTL

\* No pattern that the screening turns away reaches an interceptor, whoever put it
\* in the table (load_custom_signatures).
THEOREM OnlyScreenedIsEnforced == Spec => []OnlyScreened
<1>1. ScannerInv => OnlyScreened
  BY DEF ScannerInv, Sound, OnlyScreened
<1>. QED  BY <1>1, ScannerInvariant, PTL

-----------------------------------------------------------------------------
(* Types.                                                                     *)

\* What an author's request carries is one of the signatures it may submit.
AuthorsSubmit == \A c \in Authors : client[c].pc = "writing" => client[c].sig \in Signatures

TypeInv == RecordTypeOK /\ AuthorsSubmit /\ scanner \in [Containers -> Scanner]

Stored == Signatures \union {BadSignature}

LEMMA ItemFacts ==
    ASSUME NEW item \in Item
    PROVE  /\ VersionOf(item) \in Nat /\ item.sigs \in Seq(Stored)
           /\ [item EXCEPT !.mode = "unknown"] \in Item
           /\ \A sig \in Stored : [item EXCEPT !.sigs = Append(@, sig)] \in Item
BY DEF Item, VersionOf, Stored

LEMMA ClientFacts ==
    ASSUME NEW r \in Client
    PROVE  /\ PolicyItem(r) \in Item
           /\ \A left \in 0 .. Attempts, landed \in BOOLEAN :
                  [r EXCEPT !.left = left, !.landed = landed] \in Client
           /\ \A landed \in BOOLEAN, report \in {"none", "saved", "failed"} :
                  Finished(report, landed) \in Client
<1>1. PolicyItem(r) \in Item
  BY DEF Client, PolicyItem, Item, Modes
<1>2. \A left \in 0 .. Attempts, landed \in BOOLEAN :
          [r EXCEPT !.left = left, !.landed = landed] \in Client
  BY DEF Client
<1>3. \A landed \in BOOLEAN, report \in {"none", "saved", "failed"} :
          Finished(report, landed) \in Client
  BY ScopeAssumption DEF Client, Finished, Modes
<1>. QED  BY <1>1, <1>2, <1>3

LEMMA SpendFacts ==
    ASSUME RecordTypeOK, NEW n \in Nat, Spend(n)
    PROVE  faults' \in 0 .. MaxFaults
BY ScopeAssumption DEF RecordTypeOK, Spend

LEMMA BeginTyped ==
    ASSUME RecordTypeOK, AuthorsSubmit, NEW c \in Clients, NEW mode \in Modes,
           NEW version \in Nat, NEW sig \in Stored, Begin(c, mode, version, sig),
           c \in Authors => sig \in Signatures
    PROVE  /\ client' \in [Clients -> Client] /\ writes' \in 0 .. MaxWrites
           /\ AuthorsSubmit'
<1>. DEFINE r == [pc |-> "writing", mode |-> mode, version |-> version, sig |-> sig,
                  left |-> Attempts, landed |-> FALSE, report |-> "none"]
<1>1. r \in Client /\ r.sig = sig
  BY ScopeAssumption DEF Client, Stored
<1>2. client' = [client EXCEPT ![c] = r] /\ client \in [Clients -> Client]
  BY DEF Begin, RecordTypeOK
<1>. HIDE DEF r
<1>3. client' \in [Clients -> Client]
  BY <1>1, <1>2
<1>4. AuthorsSubmit'
  BY <1>1, <1>2 DEF AuthorsSubmit, Clients
<1>5. writes' \in 0 .. MaxWrites
  BY ScopeAssumption DEF Begin, RecordTypeOK
<1>. QED  BY <1>3, <1>4, <1>5

LEMMA AnsweredTyped ==
    ASSUME RecordTypeOK, AuthorsSubmit, NEW c \in Clients, NEW item \in Item,
           WriteAnswered(c, item)
    PROVE  /\ record' \in Item /\ replica' \in Item /\ client' \in [Clients -> Client]
           /\ writes' \in 0 .. MaxWrites /\ faults' \in 0 .. MaxFaults /\ AuthorsSubmit'
<1>1. /\ client \in [Clients -> Client] /\ Finished("saved", TRUE) \in Client
      /\ client' = [client EXCEPT ![c] = Finished("saved", TRUE)]
  BY ClientFacts DEF RecordTypeOK, WriteAnswered
<1>2. client' \in [Clients -> Client]
  BY <1>1
<1>3. AuthorsSubmit'
  BY <1>1 DEF AuthorsSubmit, Clients, Finished
<1>. QED
  BY <1>2, <1>3 DEF RecordTypeOK, WriteAnswered, Written

LEMMA UnansweredTyped ==
    ASSUME RecordTypeOK, AuthorsSubmit, NEW c \in Clients, NEW item \in Item,
           WriteUnanswered(c, item)
    PROVE  RecordTypeOK' /\ AuthorsSubmit'
<1>1. PICK landed \in BOOLEAN :
          /\ IF landed THEN Written(item) ELSE UNCHANGED <<record, replica, sinceEnforce>>
          /\ \/ /\ client[c].left > 1
                /\ client' = [client EXCEPT ![c].left = @ - 1, ![c].landed = @ \/ landed]
             \/ /\ client[c].left = 1
                /\ client' = [client EXCEPT ![c] = Finished("failed", client[c].landed \/ landed)]
  BY DEF WriteUnanswered
<1>2. client \in [Clients -> Client] /\ client[c] \in Client
  BY DEF RecordTypeOK
<1>3. client[c].left \in 0 .. Attempts /\ (client[c].landed \/ landed) \in BOOLEAN
  BY <1>2 DEF Client
<1>4. /\ client' \in [Clients -> Client] /\ AuthorsSubmit'
  <2>1. CASE client[c].left > 1 /\ client' = [client EXCEPT ![c].left = @ - 1,
                                                          ![c].landed = @ \/ landed]
    <3>. DEFINE r == [client[c] EXCEPT !.left = client[c].left - 1,
                                       !.landed = client[c].landed \/ landed]
    <3>1. client[c].left - 1 \in 0 .. Attempts
      BY <1>3, <2>1, ScopeAssumption
    <3>2. r \in Client
      BY <1>2, <1>3, <3>1, ClientFacts
    <3>3. r.pc = client[c].pc /\ r.sig = client[c].sig
      BY <1>2 DEF Client
    <3>4. client' = [client EXCEPT ![c] = r]
      BY <2>1
    <3>. HIDE DEF r
    <3>. QED
      BY <1>2, <3>2, <3>3, <3>4 DEF AuthorsSubmit, Clients
  <2>2. CASE client' = [client EXCEPT ![c] = Finished("failed", client[c].landed \/ landed)]
    <3>1. Finished("failed", client[c].landed \/ landed) \in Client
      BY <1>2, <1>3, ClientFacts
    <3>. QED
      BY <1>2, <2>2, <3>1 DEF AuthorsSubmit, Clients, Finished
  <2>. QED
    BY <1>1, <2>1, <2>2
<1>5. record' \in Item /\ replica' \in Item
  BY <1>1 DEF RecordTypeOK, Written
<1>6. faults' \in 0 .. MaxFaults /\ acked' = acked /\ writes' = writes
  BY SpendFacts DEF WriteUnanswered
<1>. QED
  BY <1>4, <1>5, <1>6 DEF RecordTypeOK

LEMMA ControlPlaneTyped ==
    ASSUME RecordTypeOK, AuthorsSubmit, ControlPlane
    PROVE  RecordTypeOK' /\ AuthorsSubmit'
<1>1. /\ record \in Item /\ replica \in Item /\ client \in [Clients -> Client]
      /\ acked \subseteq Signatures /\ writes \in 0 .. MaxWrites /\ faults \in 0 .. MaxFaults
  BY DEF RecordTypeOK
<1>2. ASSUME NEW c \in PolicyAdmins, NEW mode \in Modes, PutPolicy(c, mode)
      PROVE  RecordTypeOK' /\ AuthorsSubmit'
  <2>1. c \in Clients /\ c \notin Authors /\ BadSignature \in Stored
    BY ScopeAssumption DEF Clients, Stored
  <2>2. PICK version \in Nat : Begin(c, mode, version, BadSignature)
    <3>1. VersionOf(record) \in Nat /\ VersionOf(replica) \in Nat
      BY <1>1, ItemFacts
    <3>2. VersionOf(record) + 1 \in Nat /\ VersionOf(replica) + 1 \in Nat /\ 2 \in Nat
      BY <3>1
    <3>. QED  BY <1>2, <3>2, Zenon DEF PutPolicy
  <2>3. /\ client' \in [Clients -> Client] /\ writes' \in 0 .. MaxWrites /\ AuthorsSubmit'
    BY <2>1, <2>2, BeginTyped
  <2>4. faults' \in 0 .. MaxFaults
    BY <1>1, <1>2, SpendFacts DEF PutPolicy
  <2>. QED
    BY <1>1, <1>2, <2>3, <2>4 DEF PutPolicy, RecordTypeOK
<1>3. ASSUME NEW c \in PolicyAdmins, PolicySaved(c) \/ PolicyUnanswered(c)
      PROVE  RecordTypeOK' /\ AuthorsSubmit'
  <2>1. c \in Clients /\ PolicyItem(client[c]) \in Item
    BY <1>1, ClientFacts DEF Clients
  <2>2. CASE PolicySaved(c)
    <3>1. WriteAnswered(c, PolicyItem(client[c])) /\ acked' = acked
      BY <2>2 DEF PolicySaved
    <3>. QED
      BY <1>1, <2>1, <3>1, AnsweredTyped DEF RecordTypeOK
  <2>3. CASE PolicyUnanswered(c)
    BY <2>1, <2>3, UnansweredTyped DEF PolicyUnanswered
  <2>. QED  BY <1>3, <2>2, <2>3
<1>4. ASSUME NEW c \in Authors, NEW sig \in Signatures, AddCustomSignature(c, sig)
      PROVE  RecordTypeOK' /\ AuthorsSubmit'
  <2>1. c \in Clients /\ sig \in Stored /\ "shadow" \in Modes
    BY DEF Clients, Stored, Modes
  <2>2. Begin(c, "shadow", 0, sig)
    BY <1>4 DEF AddCustomSignature
  <2>3. /\ client' \in [Clients -> Client] /\ writes' \in 0 .. MaxWrites /\ AuthorsSubmit'
    BY <2>1, <2>2, BeginTyped
  <2>. QED
    BY <1>1, <1>4, <2>3 DEF AddCustomSignature, RecordTypeOK
<1>5. ASSUME NEW c \in Authors, SignatureStored(c) \/ SignatureUnanswered(c)
      PROVE  RecordTypeOK' /\ AuthorsSubmit'
  <2>1. c \in Clients /\ client[c].sig \in Stored
    BY <1>1 DEF Clients, Client, Stored
  <2>2. WithSignature(client[c]) \in Item
    BY <1>1, <2>1, ItemFacts DEF WithSignature
  <2>3. CASE SignatureStored(c)
    <3>1. /\ WriteAnswered(c, WithSignature(client[c]))
          /\ acked' = acked \union {client[c].sig} /\ client[c].pc = "writing"
      BY <2>3 DEF SignatureStored, WriteAnswered
    <3>2. acked' \subseteq Signatures
      BY <1>1, <1>5, <3>1 DEF AuthorsSubmit
    <3>. QED
      BY <2>1, <2>2, <3>1, <3>2, AnsweredTyped DEF RecordTypeOK
  <2>4. CASE SignatureUnanswered(c)
    BY <2>1, <2>2, <2>4, UnansweredTyped DEF SignatureUnanswered
  <2>. QED  BY <1>5, <2>3, <2>4
<1>6. ASSUME EditTable PROVE RecordTypeOK' /\ AuthorsSubmit'
  <2>1. /\ [record EXCEPT !.mode = "unknown"] \in Item
        /\ [record EXCEPT !.sigs = Append(@, BadSignature)] \in Item
    BY <1>1, ItemFacts DEF Stored
  <2>2. record' \in Item /\ replica' \in Item
    BY <1>1, <1>6, <2>1 DEF EditTable, Written
  <2>3. writes' \in 0 .. MaxWrites /\ UNCHANGED <<client, acked, faults>>
    BY <1>1, <1>6, ScopeAssumption DEF EditTable
  <2>. QED
    BY <1>1, <2>2, <2>3 DEF RecordTypeOK, AuthorsSubmit
<1>7. ASSUME Replicate PROVE RecordTypeOK' /\ AuthorsSubmit'
  BY <1>1, <1>7 DEF Replicate, RecordTypeOK, AuthorsSubmit
<1>. QED
  BY <1>2, <1>3, <1>4, <1>5, <1>6, <1>7 DEF ControlPlane

\* What can be built is made of what ships and what is in the record.
LEMMA BuiltTyped ==
    ASSUME NEW item \in Item, NEW failed
    PROVE  Built(item, failed) \subseteq
               Signatures \union Community \union {Premium[i] : i \in DOMAIN Premium}
<1>. DEFINE loaded == IF "custom" \in failed THEN {} ELSE CustomLoaded(item.sigs)
<1>1. Shipped(failed) \subseteq Community \union {Premium[i] : i \in DOMAIN Premium}
  BY DEF Shipped, AppendOnly
<1>2. \A i \in loaded : item.sigs[i] \in Signatures
  <2>1. item.sigs \in Seq(Signatures \union {BadSignature})
    BY DEF Item
  <2>2. \A i \in DOMAIN item.sigs : item.sigs[i] \in Signatures \union {BadSignature}
    BY <2>1
  <2>. QED  BY <2>2 DEF CustomLoaded, Screened
<1>3. Built(item, failed) \subseteq Shipped(failed) \union {item.sigs[i] : i \in loaded}
  BY DEF Built, AppendOnly
<1>. QED  BY <1>1, <1>2, <1>3

LEMMA BecomeTyped ==
    ASSUME RecordTypeOK, scanner \in [Containers -> Scanner], NEW c \in Containers,
           NEW sigs \in SUBSET (Signatures \union Community
                                   \union {Premium[i] : i \in DOMAIN Premium}),
           NEW failed \in SUBSET Sources, Become(c, sigs, failed)
    PROVE  scanner' \in [Containers -> Scanner] /\ faults' \in 0 .. MaxFaults
<1>1. failed \subseteq {"premium", "custom"}
  BY DEF Sources
<1>2. Cardinality(failed) \in Nat
  <2>1. IsFiniteSet({"premium", "custom"})
    <3>1. IsFiniteSet({"premium"})
      BY FS_Singleton
    <3>2. IsFiniteSet({"premium"} \union {"custom"})
      BY <3>1, FS_AddElement
    <3>3. {"premium", "custom"} = {"premium"} \union {"custom"}
      OBVIOUS
    <3>. QED  BY <3>2, <3>3
  <2>. QED  BY <1>1, <2>1, FS_Subset, FS_CardinalityType
<1>3. [sigs |-> sigs, age |-> 0] \in Scanner
  BY ScannerAssumption DEF Scanner
<1>4. scanner' \in [Containers -> Scanner]
  BY <1>3 DEF Become
<1>. QED  BY <1>2, <1>4, SpendFacts DEF Become

LEMMA InterceptorTyped ==
    ASSUME TypeInv, NEW c \in Containers, Interceptor(c)
    PROVE  TypeInv'
<1>1. /\ RecordTypeOK /\ scanner \in [Containers -> Scanner]
      /\ record \in Item /\ replica \in Item
  BY DEF TypeInv, RecordTypeOK
<1>2. UNCHANGED <<record, replica, client, acked, writes>>
  BY DEF Interceptor, ColdStart, Refresh, RefreshRaises, Become
<1>3. scanner' \in [Containers -> Scanner] /\ faults' \in 0 .. MaxFaults
  <2>1. CASE ColdStart(c)
    BY <1>1, <2>1, BuiltTyped, BecomeTyped DEF ColdStart
  <2>2. CASE Refresh(c)
    <3>1. scanner[c].sigs \in SUBSET (Signatures \union Community
                                        \union {Premium[i] : i \in DOMAIN Premium})
      BY <1>1 DEF Scanner
    <3>2. PICK item \in {record, replica}, failed \in SUBSET Sources :
              \/ Become(c, Built(item, failed), failed)
              \/ Become(c, scanner[c].sigs, failed)
      BY <2>2 DEF Refresh
    <3>. QED  BY <1>1, <3>1, <3>2, BuiltTyped, BecomeTyped
  <2>3. CASE RefreshRaises(c)
    <3>1. [scanner[c] EXCEPT !.age = 0] \in Scanner
      <4>1. scanner[c] \in Scanner
        BY <1>1
      <4>2. 0 \in 0 .. Reinit
        BY ScannerAssumption
      <4>. QED  BY <4>1, <4>2 DEF Scanner
    <3>2. scanner' = [scanner EXCEPT ![c] = [scanner[c] EXCEPT !.age = 0]]
      BY <2>3 DEF RefreshRaises
    <3>3. faults' \in 0 .. MaxFaults
      BY <1>1, <2>3, SpendFacts DEF RefreshRaises
    <3>. QED  BY <1>1, <3>1, <3>2, <3>3
  <2>. QED  BY <2>1, <2>2, <2>3 DEF Interceptor
<1>. QED
  BY <1>2, <1>3 DEF TypeInv, RecordTypeOK, AuthorsSubmit

\* Every variable has its type for every number of clients, containers, failures
\* and edits; in particular no age and no try exceeds its bound, and what is
\* acknowledged is a signature an author submitted.
THEOREM ConfigTypeCorrect == Spec => []TypeOK
<1>1. Init => TypeInv
  <2>. SUFFICES ASSUME Init PROVE TypeInv
    OBVIOUS
  <2>1. record \in Item
    <3>1. <<>> \in Seq(Signatures \union {BadSignature})
      OBVIOUS
    <3>2. record \in [mode: {"absent"}, version: {0}, enabled: BOOLEAN, sigs: {<<>>}]
      BY DEF Init, ScopeInit
    <3>3. PICK enabled \in BOOLEAN :
            record = [mode |-> "absent", version |-> 0, enabled |-> enabled, sigs |-> <<>>]
      BY <3>2
    <3>. QED  BY <3>1, <3>3 DEF Item
  <2>2. RecordTypeOK
    <3>1. Finished("none", FALSE) \in Client
      BY ScopeAssumption DEF Finished, Client, Modes
    <3>2. client \in [Clients -> Client] /\ replica = record /\ acked = {}
      BY <3>1 DEF Init, ScopeInit
    <3>3. writes \in 0 .. MaxWrites /\ faults \in 0 .. MaxFaults
      BY ScopeAssumption DEF Init, ScopeInit
    <3>. QED
      BY <2>1, <3>2, <3>3 DEF RecordTypeOK
  <2>3. AuthorsSubmit
    BY DEF Init, ScopeInit, AuthorsSubmit, Clients, Finished
  <2>4. [sigs |-> Built(record, {}), age |-> 0] \in Scanner
    BY <2>1, BuiltTyped, ScannerAssumption DEF Scanner
  <2>. QED
    BY <2>2, <2>3, <2>4 DEF Init, ScannerInit, TypeInv
<1>2. TypeInv /\ [Next]_vars => TypeInv'
  <2>. SUFFICES ASSUME TypeInv, [Next]_vars PROVE TypeInv'
    OBVIOUS
  <2>1. CASE ControlPlane /\ UNCHANGED <<policyVars, scanner>>
    BY <2>1, ControlPlaneTyped DEF TypeInv
  <2>2. CASE \E h \in Handlers : TierHandler(h) /\ UNCHANGED scanner
    <3>1. /\ UNCHANGED <<record, replica, client, acked, writes, scanner>>
          /\ faults' = faults \/ Spend(1)
      BY <2>2 DEF TierHandler, LoadCached, AskTable, TableServes, LoadReturns, LoadFails,
                 HandlerColdStart, scopeVars
    <3>2. faults' \in 0 .. MaxFaults
      BY <3>1, SpendFacts DEF TypeInv, RecordTypeOK
    <3>. QED  BY <3>1, <3>2 DEF TypeInv, RecordTypeOK, AuthorsSubmit
  <2>3. CASE \E c \in Containers : Interceptor(c) /\ UNCHANGED policyVars
    BY <2>3, InterceptorTyped
  <2>4. CASE Tick
    <3>1. \A c \in Containers :
             [scanner[c] EXCEPT !.age = IF @ < Reinit THEN @ + 1 ELSE Reinit] \in Scanner
      BY ScannerAssumption DEF TypeInv, Scanner
    <3>2. scanner' \in [Containers -> Scanner]
      BY <2>4, <3>1 DEF Tick, ScannerTick
    <3>. QED
      BY <2>4, <3>2 DEF Tick, ScopeTick, TypeInv, RecordTypeOK, AuthorsSubmit
  <2>5. CASE UNCHANGED vars
    BY <2>5 DEF vars, scopeVars, TypeInv, RecordTypeOK, AuthorsSubmit
  <2>. QED  BY <2>1, <2>2, <2>3, <2>4, <2>5 DEF Next
<1>3. TypeInv /\ FreshInv => TypeOK
  BY DEF TypeInv, FreshInv, TypeOK
<1>. QED  BY <1>1, <1>2, <1>3, FreshInvariant, PTL DEF Spec
=============================================================================
