---------------------------- MODULE ScopeRecord ----------------------------
(* The one item a scope has in TENANTS_TABLE, and those who write it: the     *)
(* control plane's put_policy and add_custom_signature, and whoever edits the *)
(* table by hand. Both features keep their data in this one item; the first   *)
(* replaces it whole, the second appends to a list in it.                     *)
(* The two tiers' modes are stored and parsed alike, so one stands for both.  *)
EXTENDS Integers, Sequences

CONSTANTS
    PolicyAdmins,    \* control-plane requests that save the policy, by who makes them
    Authors,         \* control-plane requests that author a signature
    Signatures,      \* what an author may submit: records [id, pattern]
    BadSignature,    \* an entry no author can store, written by hand
    TableEdits,      \* TRUE when the table is edited out of band too
    Attempts,        \* tries of one DynamoDB write, the SDK's retries included
    MaxWrites,       \* bound: requests and edits
    MaxFaults,       \* bound: calls to AWS that fail
    TTL              \* POLICY_CACHE_TTL_SECONDS, in ticks

ASSUME ScopeAssumption ==
    /\ PolicyAdmins \intersect Authors = {}
    /\ TableEdits \in BOOLEAN
    /\ Attempts \in Nat \ {0}
    /\ MaxWrites \in Nat
    /\ MaxFaults \in Nat
    /\ TTL \in Nat \ {0}

Modes == {"off", "shadow", "enforce"}

Clients == PolicyAdmins \union Authors

\* "absent": the attribute is not stored. "unknown": a value that names no mode.
\* enabled is the legacy tierN_enabled flag, true when it is not stored; version
\* is 0 while no policy was saved.
Item == [mode: Modes \union {"absent", "unknown"}, version: Nat, enabled: BOOLEAN,
         sigs: Seq(Signatures \union {BadSignature})]

Client == [pc: {"idle", "writing"}, mode: Modes, version: Nat,
           sig: Signatures \union {BadSignature}, left: 0 .. Attempts,
           landed: BOOLEAN, report: {"none", "saved", "failed"}]

VARIABLES
    record,        \* the item, as a strongly consistent read would return it
    replica,       \* the item as a lagging replica has it
    client,        \* the request each control-plane client has in progress
    acked,         \* signatures whose author was told "stored"
    writes,        \* requests and edits so far
    faults,        \* failed calls so far
    sinceEnforce   \* ticks since the record last said "enforce", TTL when longer ago

scopeVars == <<record, replica, client, acked, writes, faults, sinceEnforce>>

\* A request that has ended, what was reported of it and whether a try landed.
Finished(report, landed) ==
    [pc |-> "idle", mode |-> "shadow", version |-> 0, sig |-> BadSignature,
     left |-> 0, landed |-> landed, report |-> report]

ScopeInit ==
    /\ record \in [mode: {"absent"}, version: {0}, enabled: BOOLEAN, sigs: {<<>>}]
    /\ replica = record
    /\ client = [c \in Clients |-> Finished("none", FALSE)]
    /\ acked = {}
    /\ writes = 0
    /\ faults = 0
    /\ sinceEnforce = TTL

\* A write is seen at once by some readers and later by the others.
Written(item) ==
    /\ record' = item
    /\ replica' = record
    /\ sinceEnforce' = IF item.mode = "enforce" THEN 0 ELSE sinceEnforce

Spend(n) == faults + n <= MaxFaults /\ faults' = faults + n

\* get_policy: an absent policy, and one that could not be read, are version 1.
VersionOf(item) == IF item.version = 0 THEN 1 ELSE item.version

Begin(c, mode, version, sig) ==
    /\ client[c].pc = "idle"
    /\ writes < MaxWrites
    /\ writes' = writes + 1
    /\ client' = [client EXCEPT ![c] =
                    [pc |-> "writing", mode |-> mode, version |-> version, sig |-> sig,
                     left |-> Attempts, landed |-> FALSE, report |-> "none"]]

PutPolicy(c, mode) ==
    /\ \/ \E item \in {record, replica} :
            Begin(c, mode, VersionOf(item) + 1, BadSignature) /\ UNCHANGED faults
       \/ Begin(c, mode, 2, BadSignature) /\ Spend(1)
    /\ UNCHANGED <<record, replica, acked, sinceEnforce>>

\* An unusable pattern is refused here and changes nothing.
AddCustomSignature(c, sig) ==
    /\ Begin(c, "shadow", 0, sig)
    /\ UNCHANGED <<record, replica, acked, faults, sinceEnforce>>

\* put_item replaces the item: what it does not name is gone.
PolicyItem(r) == [mode |-> r.mode, version |-> r.version, enabled |-> TRUE, sigs |-> <<>>]

\* Mutant: the list is read, extended and written back.
ExtendsWhatWasRead(r) == [record EXCEPT !.sigs = Append(replica.sigs, r.sig)]

\* update_item with list_append leaves the rest of the item alone.
WithSignature(r) == [record EXCEPT !.sigs = Append(@, r.sig)]

\* One try of the write. It may land without the answer coming back, in which
\* case the SDK sends it again.
WriteAnswered(c, item) ==
    /\ client[c].pc = "writing"
    /\ Written(item)
    /\ client' = [client EXCEPT ![c] = Finished("saved", TRUE)]
    /\ UNCHANGED <<writes, faults>>

WriteUnanswered(c, item) ==
    /\ client[c].pc = "writing"
    /\ Spend(1)
    /\ \E landed \in BOOLEAN :
         /\ IF landed THEN Written(item) ELSE UNCHANGED <<record, replica, sinceEnforce>>
         /\ \/ /\ client[c].left > 1
               /\ client' = [client EXCEPT ![c].left = @ - 1, ![c].landed = @ \/ landed]
            \/ /\ client[c].left = 1
               /\ client' = [client EXCEPT ![c] = Finished("failed", client[c].landed \/ landed)]
    /\ UNCHANGED <<acked, writes>>

PolicySaved(c) == WriteAnswered(c, PolicyItem(client[c])) /\ UNCHANGED acked

PolicyUnanswered(c) == WriteUnanswered(c, PolicyItem(client[c]))

SignatureStored(c) ==
    /\ WriteAnswered(c, WithSignature(client[c]))
    /\ acked' = acked \union {client[c].sig}

SignatureUnanswered(c) == WriteUnanswered(c, WithSignature(client[c]))

\* By hand: a mode nobody knows, or a signature nobody screened.
EditTable ==
    /\ TableEdits
    /\ writes < MaxWrites
    /\ writes' = writes + 1
    /\ \/ Written([record EXCEPT !.mode = "unknown"])
       \/ Written([record EXCEPT !.sigs = Append(@, BadSignature)])
    /\ UNCHANGED <<client, acked, faults>>

Replicate ==
    /\ replica # record
    /\ replica' = record
    /\ UNCHANGED <<record, client, acked, writes, faults, sinceEnforce>>

\* A replica lags by less than a tick.
ScopeTick ==
    /\ replica = record
    /\ sinceEnforce' = IF record.mode = "enforce" THEN 0
                       ELSE IF sinceEnforce < TTL THEN sinceEnforce + 1 ELSE TTL
    /\ UNCHANGED <<record, replica, client, acked, writes, faults>>

ControlPlane ==
    \/ \E c \in PolicyAdmins : \/ \E mode \in Modes : PutPolicy(c, mode)
                               \/ PolicySaved(c)
                               \/ PolicyUnanswered(c)
    \/ \E c \in Authors : \/ \E sig \in Signatures : AddCustomSignature(c, sig)
                          \/ SignatureStored(c)
                          \/ SignatureUnanswered(c)
    \/ EditTable
    \/ Replicate
=============================================================================
