---------------------------- MODULE ScopeConfig ----------------------------
(* A scope's configuration at work: the control plane writes the record, the  *)
(* tier handlers act on the policy in it, the interceptors on the signatures. *)
EXTENDS PolicyCache, ScannerRefresh

vars == <<scopeVars, policyVars, scanner>>

Init == ScopeInit /\ PolicyInit /\ ScannerInit

Tick == ScopeTick /\ PolicyTick /\ ScannerTick

Next ==
    \/ ControlPlane /\ UNCHANGED <<policyVars, scanner>>
    \/ \E h \in Handlers : TierHandler(h) /\ UNCHANGED scanner
    \/ \E c \in Containers : Interceptor(c) /\ UNCHANGED policyVars
    \/ Tick

Spec == Init /\ [][Next]_vars

\* Time passes and replicas catch up. Tier 3 runs on a
\* schedule and Tier 2 on every prompt, so a handler keeps loading its policy; an
\* interceptor keeps receiving prompts, so a scanner that is due is refreshed.
Fairness ==
    /\ WF_vars(Tick)
    /\ WF_vars(Replicate /\ UNCHANGED <<policyVars, scanner>>)
    /\ \A h \in Handlers :
         WF_vars((LoadCached(h) \/ AskTable(h) \/ TableServes(h) \/ LoadReturns(h))
                 /\ UNCHANGED scanner)
    /\ \A c \in Containers : WF_vars(Refresh(c) /\ UNCHANGED policyVars)

FairSpec == Spec /\ Fairness
-----------------------------------------------------------------------------
RecordTypeOK ==
    /\ record \in Item
    /\ replica \in Item
    /\ client \in [Clients -> Client]
    /\ acked \subseteq Signatures
    /\ writes \in 0 .. MaxWrites
    /\ faults \in 0 .. MaxFaults

PolicyTypeOK ==
    /\ sinceEnforce \in Ages
    /\ cache \in [Handlers -> CacheEntry]
    /\ load \in [Handlers -> Load]
    /\ used \in [Handlers -> Use]

\* Every variable has its type.
TypeOK == RecordTypeOK /\ PolicyTypeOK /\ scanner \in [Containers -> Scanner]

\* A handler that acts in enforce mode does so on a record that said "enforce"
\* less than the cache's lifetime ago, or at some moment while the load that
\* returned it was running: turning enforcement off takes effect within the
\* documented delay, whatever fails. policy.load, for a default that is not
\* itself "enforce".
EnforceIsFresh ==
    DefaultMode # "enforce" =>
        \A h \in Handlers : used[h].mode = "enforce" =>
            used[h].since < TTL \/ used[h].since <= used[h].took

\* What makes it inductive: the counter is right about both copies of the record,
\* and what a cache or a load in progress holds is no older than its age says.
RecordIsFresh == record.mode = "enforce" \/ replica.mode = "enforce" => sinceEnforce = 0

HeldIsFresh == \A h \in Handlers :
    /\ cache[h].held /\ cache[h].mode = "enforce" => sinceEnforce <= cache[h].age
    /\ load[h].pc = "read" /\ load[h].mode = "enforce" => sinceEnforce <= load[h].age

\* No handler acts on a policy the record stopped prescribing longer ago than the
\* cache lives, because nothing that was read is kept longer than that: ages are
\* counted from before the read (policy.load, for a default other than "enforce").
FreshInv ==
    /\ PolicyTypeOK
    /\ RecordIsFresh
    /\ DefaultMode # "enforce" => HeldIsFresh
    /\ EnforceIsFresh

\* The bundled floor: every container has every community signature under its own
\* id, and no id twice, whatever the feed and the table hold (build_scanner).
CommunityFloor == \A c \in Containers :
    /\ Community \subseteq scanner[c].sigs
    /\ \A s, t \in scanner[c].sigs : s.id = t.id => s = t

\* A pattern that was never screened does not reach the inline engine, even when
\* it was put in the table by hand (load_custom_signatures).
OnlyScreened == \A c \in Containers : BadSignature \notin scanner[c].sigs

\* Once edits stop, every handler comes to act on the record's mode and stays
\* with it: an edit takes effect without a redeploy (policy.load).
EditTakesEffect == \A h \in Handlers : <>[](used[h].mode = HandlerMode(record))

IsStored(s) == \E i \in DOMAIN record.sigs : record.sigs[i] = s

\* t is the entry of its id that was stored first.
Leads(t) == \E i \in DOMAIN record.sigs :
    record.sigs[i] = t /\ \A j \in 1 .. i - 1 : record.sigs[j].id # t.id

BeyondLimit(s) == \A i \in DOMAIN record.sigs : record.sigs[i] = s => i > MaxLoaded

\* A signature whose author was told that it is stored comes to be enforced by
\* every interceptor and stays so (add_custom_signature, load_custom_signatures,
\* _append_only, the refresh).  What may keep it out for good is, while it is
\* stored: another signature that the interceptor enforces under its id, one that
\* ships or one that was stored before it; or the limit on how many are loaded.
AckedEnforced == \A s \in Signatures :
    (s \in acked) ~> [](\A c \in Containers :
        \/ s \in scanner[c].sigs
        \/ /\ IsStored(s)
           /\ \/ \E t \in scanner[c].sigs : t.id = s.id /\ (t \in Shipped({}) \/ Leads(t))
              \/ BeyondLimit(s))

\* What a source that failed to load cost an interceptor is not lost for good: once
\* the failures end, every interceptor has all that ships and stays with it, however
\* many entries authors added meanwhile, under its own ids or others
\* (_refresh_signature_scanner_if_needed, engine.py:70-96).
ShippedReturns == <>[](\A c \in Containers : Shipped({}) \subseteq scanner[c].sigs)
=============================================================================
