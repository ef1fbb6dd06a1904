-------------------------- MODULE ScannerRefresh ---------------------------
(* The signature scanner of a warm interceptor: how it is built from three    *)
(* sources, and when a rebuilt one takes its place. A signature is a record   *)
(* [id, pattern]; a scanner is a set of them, no two with one id.             *)
EXTENDS ScopeRecord, FiniteSets

CONSTANTS
    Containers,    \* containers that run the dispatcher
    Community,     \* ALL_BUNDLED_SIGNATURES
    Premium,       \* the premium package, in order; <<>> when not configured
    MaxLoaded,     \* _MAX_CUSTOM_SIGNATURES
    Reinit         \* SCANNER_REINIT_SECONDS, in ticks

ASSUME ScannerAssumption ==
    /\ MaxLoaded \in Nat
    /\ Reinit \in Nat \ {0}

Ids(sigs) == {s.id : s \in sigs}
PremiumSigs == {Premium[i] : i \in DOMAIN Premium}

\* What is bundled has distinct ids, and nothing that ships is what a screening
\* would turn away.
ASSUME ShippedAssumption ==
    /\ \A s, t \in Community : s.id = t.id => s = t
    /\ DOMAIN Premium \subseteq Nat
    /\ BadSignature \notin Community \union PremiumSigs

VARIABLE
    scanner   \* per container: its signatures and their age

Scanner == [sigs: SUBSET (Signatures \union Community \union {Premium[i] : i \in DOMAIN Premium}),
            age: 0 .. Reinit]

\* The checks of the write path, made again at load.
Screened(sig) == sig # BadSignature

\* Mutant: the write path's checks are trusted.
LoadsUnscreened(raw) == DOMAIN raw \intersect (1 .. MaxLoaded)

\* load_custom_signatures: of the first entries of the list, those that pass.
CustomLoaded(raw) == {i \in DOMAIN raw \intersect (1 .. MaxLoaded) : Screened(raw[i])}

\* Mutant: an addition with a bundled id is taken beside it.
AppendAny(sigs, list, loaded) == sigs \union {list[i] : i \in loaded}

\* _append_only: a new id is added, the first time it comes; no id is replaced.
AppendOnly(sigs, list, loaded) ==
    sigs \union {list[i] : i \in {j \in loaded :
                    /\ list[j].id \notin Ids(sigs)
                    /\ \A k \in loaded : k < j => list[k].id # list[j].id}}

\* What ships, with the sources in "failed" not answering.
Shipped(failed) ==
    AppendOnly(Community, Premium, IF "premium" \in failed THEN {} ELSE DOMAIN Premium)

\* build_scanner.
Built(item, failed) ==
    AppendOnly(Shipped(failed), item.sigs,
               IF "custom" \in failed THEN {} ELSE CustomLoaded(item.sigs))

\* A premium package that is not configured cannot fail to load.
Sources == {"custom"} \union (IF Premium = <<>> THEN {} ELSE {"premium"})

ScannerInit == scanner = [c \in Containers |-> [sigs |-> Built(record, {}), age |-> 0]]

Become(c, sigs, failed) ==
    /\ scanner' = [scanner EXCEPT ![c] = [sigs |-> sigs, age |-> 0]]
    /\ Spend(Cardinality(failed))
    /\ UNCHANGED <<record, replica, client, acked, writes, sinceEnforce>>

ColdStart(c) ==
    \E item \in {record, replica}, failed \in SUBSET Sources :
        Become(c, Built(item, failed), failed)

Due(c) == scanner[c].age = Reinit

\* Mutant: the rebuilt scanner is taken only when it is larger.
NotLarger(c, sigs) == Cardinality(sigs) <= Cardinality(scanner[c].sigs)

\* _refresh_signature_scanner_if_needed, as the next prompt calls it. The
\* rebuilt scanner is taken unless it is smaller than the one in place.
Smaller(c, sigs) == Cardinality(sigs) < Cardinality(scanner[c].sigs)

Refresh(c) ==
    /\ Due(c)
    /\ \E item \in {record, replica}, failed \in SUBSET Sources :
         LET rebuilt == Built(item, failed) IN
         \/ ~Smaller(c, rebuilt) /\ Become(c, rebuilt, failed)
         \/ Smaller(c, rebuilt) /\ Become(c, scanner[c].sigs, failed)

\* build_scanner raised.
RefreshRaises(c) ==
    /\ Due(c)
    /\ Spend(1)
    /\ scanner' = [scanner EXCEPT ![c].age = 0]
    /\ UNCHANGED <<record, replica, client, acked, writes, sinceEnforce>>

ScannerTick ==
    scanner' = [c \in Containers |->
                  [scanner[c] EXCEPT !.age = IF @ < Reinit THEN @ + 1 ELSE Reinit]]

Interceptor(c) == ColdStart(c) \/ Refresh(c) \/ RefreshRaises(c)
=============================================================================
