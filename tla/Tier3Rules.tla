------------------------------ MODULE Tier3Rules ------------------------------
(* The detectors and the kill rules of the Tier 3 Lambda                      *)
(* (src/vardoger/tier3/handler.py), which looks for one attack in many        *)
(* sessions.                                                                  *)
(*                                                                            *)
(* A row is a prompt of the history as Tier 3 reads it:                       *)
(*   id, session, at   the prompts' order in time, and the time of ingestion  *)
(*   text, shape       its text, its text with the names and numbers out      *)
(*   category          what Tier 2 wrote beside it, "" before it did          *)
(*   signatures        the hints in the names of the signatures it matched    *)
(*   risk, repeated    the session's score and count that Tier 2 wrote        *)
(* Which texts are near-duplicates, and which are alike to the embedding      *)
(* model, is given: the handler compares hashes and vectors.                  *)
EXTENDS Integers, FiniteSets, FiniteSetsExt

CONSTANTS
    MIN_SESSIONS,
    PATTERN_BURST_MIN_SESSIONS,
    CATEGORY_BURST_MIN_SESSIONS,
    SESSION_RISK_BURST_MIN_SESSIONS,
    NearTexts,        \* sets of two texts whose SimHashes differ in at most 3 bits
    AlikeTexts,       \* sets of two texts that the embedding model finds similar
    Embeddings,       \* an embedding endpoint is configured
    WINDOW            \* the ticks of one analysis window

\* In hundredths.
Percent(n) == 100 * n

AtMost(n, bound) == IF n > bound THEN bound ELSE n

SESSION_RISK_BURST_THRESHOLD == 65

CRITICAL_CATEGORIES ==
    {"system_prompt_extraction", "credential_theft", "customer_data_exfiltration",
     "data_exfiltration", "security_bypass", "account_takeover", "refund_fraud",
     "refund_manipulation", "high_value_order_abuse"}

\* "prompt" and "jailbreak" name a category but are no critical hint.
CRITICAL_SIGNATURE_HINTS == {"critical", "credential", "exfil", "zero_day", "system_prompt"}

RISKY_SESSION_STATUSES == {"watch", "suspicious", "high_risk", "terminated", "malicious"}

NO_CATEGORIES == {"unknown", "safe", "allow"}

\* What Tier 2 wrote comes first, be it that it did not judge the prompt.
CategoryOf(row) ==
    IF row.category \notin {"", "safe"} THEN row.category
    ELSE IF "credential" \in row.signatures THEN "credential_theft"
    ELSE IF "exfil" \in row.signatures THEN "customer_data_exfiltration"
    ELSE IF row.signatures \cap {"jailbreak", "prompt", "system_prompt"} # {}
         THEN "system_prompt_extraction"
    ELSE "unknown"

SessionsOf(rows) == {r.session : r \in rows}

-----------------------------------------------------------------------------
(* What supports a finding about a set of rows.  risks[s] is what the session *)
(* risk table holds for session s: [score, status, repeated].                 *)

CriticalSignature(rows) == \E r \in rows : r.signatures \cap CRITICAL_SIGNATURE_HINTS # {}

IsCritical(rows, category) == category \in CRITICAL_CATEGORIES \/ CriticalSignature(rows)

KnownCategory(rows) == \E r \in rows : CategoryOf(r) \notin NO_CATEGORIES

RiskOf(row, risks) == Max({row.risk, risks[row.session].score})

MaxRisk(rows, risks) == Max({RiskOf(r, risks) : r \in rows})

\* Of the average it is only asked whether it reaches n.
AverageReaches(rows, risks, n) ==
    MapThenSumSet(LAMBDA r : RiskOf(r, risks), rows) >= n * Cardinality(rows)

Repeated(rows, risks) ==
    Max({r.repeated : r \in rows} \cup {risks[s].repeated : s \in SessionsOf(rows)})

RiskSupport(rows, risks) ==
    MaxRisk(rows, risks) >= SESSION_RISK_BURST_THRESHOLD \/ Repeated(rows, risks) >= 2

StatusSupport(rows, risks) ==
    \E s \in SessionsOf(rows) : risks[s].status \in RISKY_SESSION_STATUSES

PatternSupport(rows, risks, category) ==
    \/ category # "unknown" \/ KnownCategory(rows) \/ CriticalSignature(rows)
    \/ RiskSupport(rows, risks) \/ StatusSupport(rows, risks)

Confidence(method, rows, risks, category) ==
    LET known == category \notin NO_CATEGORIES \/ KnownCategory(rows)
        risky == RiskSupport(rows, risks) \/ StatusSupport(rows, risks)
    IN  CASE method = "exact_hash" -> IF IsCritical(rows, category) THEN 95 ELSE 70
          [] method = "simhash" -> IF known THEN 90 ELSE IF risky THEN 86 ELSE 78
          [] method = "normalized_pattern_burst" -> IF risky THEN 90 ELSE 76
          [] method = "category_burst" ->
                 IF risky THEN 90 ELSE AtMost(70 + 3 * Cardinality(SessionsOf(rows)), 94)
          [] method = "session_risk_burst" -> IF known THEN 90 ELSE 82
          [] method = "embedding" -> IF known /\ risky THEN 93 ELSE 91

METHOD_SCORE ==
    [exact_hash |-> 30, simhash |-> 25, normalized_pattern_burst |-> 18,
     category_burst |-> 20, session_risk_burst |-> 15, embedding |-> 28]

GroupSum(method, rows, category, confidence, risks) ==
    LET critical == {r \in rows : IsCritical({r}, category)}
        penalty == IF /\ category \in NO_CATEGORIES \cup {"session_risk"}
                      /\ method \in {"normalized_pattern_burst", "session_risk_burst"}
                   THEN 20 ELSE 0
    IN  45 * confidence
          + Percent(AtMost(5 * Cardinality(SessionsOf(rows)), 25))
          + Percent(AtMost(5 * Cardinality(critical), 15))
          + AtMost(Percent(MaxRisk(rows, risks)) \div 8, Percent(15))
          + Percent(AtMost(3 * Repeated(rows, risks), 10))
          + Percent(METHOD_SCORE[method]) - Percent(penalty)

\* Mutant: the sum is not brought back to the scale.
OffTheScale(method, rows, category, confidence, risks) ==
    GroupSum(method, rows, category, confidence, risks)

GroupScore(method, rows, category, confidence, risks) ==
    AtMost(Max({0, GroupSum(method, rows, category, confidence, risks)}), Percent(100))

\* The rules by method; a burst of a category or of session risk never kills.
KillDecision(method, rows, category, confidence, risks) ==
    /\ Cardinality(SessionsOf(rows)) >= MIN_SESSIONS
    /\ confidence >= 90
    /\ \/ method = "exact_hash" /\ IsCritical(rows, category)
       \/ /\ method = "simhash" /\ IsCritical(rows, category)
          /\ AverageReaches(rows, risks, 80) \/ MaxRisk(rows, risks) >= 90
       \/ /\ method = "embedding" /\ IsCritical(rows, category)
          /\ AverageReaches(rows, risks, 80) /\ Repeated(rows, risks) >= 2
       \/ /\ method = "normalized_pattern_burst"
          /\ IsCritical(rows, category) \/ MaxRisk(rows, risks) >= 90

-----------------------------------------------------------------------------
(* Findings.                                                                 *)

\* What tells two groups of one method and category apart.
ClusterKey(method, rows) ==
    [texts |-> IF method \in {"exact_hash", "simhash", "embedding"} THEN {r.text : r \in rows}
               ELSE {},
     sessions |-> IF method \in {"exact_hash", "category_burst"} THEN {}
                  ELSE SessionsOf(rows)]

\* A session stands in a finding by its first row of the group.
FirstOfSessions(rows) ==
    {r \in rows : \A s \in rows : s.session = r.session => r.id <= s.id}

WindowStart(time) == time - (time % WINDOW)

Finding(method, category, group, risks) ==
    LET rows == FirstOfSessions(group)
        confidence == Confidence(method, rows, risks, category)
    IN  [burst |-> [window |-> WindowStart(Min({r.at : r \in rows})), method |-> method,
                    category |-> category, key |-> ClusterKey(method, rows)],
         method |-> method, category |-> category, sessions |-> SessionsOf(rows),
         prompts |-> {r.id : r \in rows}, confidence |-> confidence,
         score |-> GroupScore(method, rows, category, confidence, risks),
         fatal |-> KillDecision(method, rows, category, confidence, risks)]

\* The category most rows of a group have; of several, the interpreter's order of
\* a set of strings decides, which differs from one process to the next.
Majority(group, nothing) ==
    LET named == {r \in group : CategoryOf(r) # "unknown"}
        Count(c) == Cardinality({r \in named : CategoryOf(r) = c})
    IN  IF named = {} THEN {nothing}
        ELSE {c \in {CategoryOf(r) : r \in named} :
                 \A d \in {CategoryOf(r) : r \in named} : Count(d) <= Count(c)}

FindingsOf(method, groups, risks, nothing) ==
    UNION {{Finding(method, c, g, risks) : c \in Majority(g, nothing)} : g \in groups}

Spread(groups, n) == {g \in groups : Cardinality(SessionsOf(g)) >= n}

ExactHashFindings(rows, risks) ==
    LET groups == {{r \in rows : r.text = t} : t \in {r.text : r \in rows}}
    IN  FindingsOf("exact_hash", Spread(groups, MIN_SESSIONS), risks, "unknown")

\* Around each row: nearness is not transitive, so groups overlap.
SimhashFindings(rows, risks) ==
    LET Near(r, s) == r.text = s.text \/ {r.text, s.text} \in NearTexts
        groups == {{s \in rows : Near(r, s)} : r \in rows}
    IN  FindingsOf("simhash", Spread(groups, MIN_SESSIONS), risks, "unknown")

NormalizedPatternFindings(rows, risks) ==
    LET shapes == {r.shape : r \in rows} \ {""}
        groups == {{r \in rows : r.shape = shape} : shape \in shapes}
        spread == Spread(groups, PATTERN_BURST_MIN_SESSIONS)
    IN  UNION {{Finding("normalized_pattern_burst", c, g, risks) :
                    c \in {d \in Majority(g, "unknown") : PatternSupport(g, risks, d)}} :
               g \in spread}

CategoryBurstFindings(rows, risks) ==
    LET Group(c) == {r \in rows : CategoryOf(r) = c}
        burst == {c \in CRITICAL_CATEGORIES :
                     Cardinality(SessionsOf(Group(c))) >= CATEGORY_BURST_MIN_SESSIONS}
    IN  {Finding("category_burst", c, Group(c), risks) : c \in burst}

\* Of every session in the risk table, its latest row.
SessionRiskFindings(rows, risks) ==
    LET latest == {r \in rows : \A s \in rows : s.session = r.session => s.id <= r.id}
        risky == {r \in latest :
                     \/ risks[r.session].status \in RISKY_SESSION_STATUSES
                     \/ /\ risks[r.session].status # "absent"
                        /\ RiskOf(r, risks) >= SESSION_RISK_BURST_THRESHOLD}
    IN  FindingsOf("session_risk_burst", Spread({risky}, SESSION_RISK_BURST_MIN_SESSIONS),
                   risks, "session_risk")

EmbeddingFindings(rows, risks) ==
    LET Alike(r, s) == r.text = s.text \/ {r.text, s.text} \in AlikeTexts
        Cluster(r) == {s \in rows : CategoryOf(s) = CategoryOf(r) /\ Alike(r, s)}
        centres == {r \in rows : Cardinality(SessionsOf(Cluster(r))) >= MIN_SESSIONS}
    IN  IF Embeddings /\ Cardinality(rows) >= MIN_SESSIONS
        THEN {Finding("embedding", CategoryOf(r), Cluster(r), risks) : r \in centres}
        ELSE {}

Findings(rows, risks) ==
    ExactHashFindings(rows, risks) \cup SimhashFindings(rows, risks)
      \cup NormalizedPatternFindings(rows, risks) \cup CategoryBurstFindings(rows, risks)
      \cup SessionRiskFindings(rows, risks) \cup EmbeddingFindings(rows, risks)

Rank ==
    [exact_hash |-> 0, simhash |-> 1, normalized_pattern_burst |-> 2, category_burst |-> 3,
     session_risk_burst |-> 4, embedding |-> 5]

\* One finding for every set of sessions, of the strongest method; among equals the
\* first in the order of the scan, which is left open here.
Deduplicated(findings) ==
    LET Rivals(sessions) == {f \in findings : f.sessions = sessions}
        Best(sessions) ==
            {f \in Rivals(sessions) : \A g \in Rivals(sessions) : Rank[f.method] <= Rank[g.method]}
    IN  {kept \in SUBSET findings :
            \A sessions \in {f.sessions : f \in findings} :
                \E f \in Best(sessions) : {g \in kept : g.sessions = sessions} = {f}}

\* A shape or a burst of risk that is in no category is what ordinary traffic
\* looks like.
Generic(finding) ==
    /\ finding.method \in {"normalized_pattern_burst", "session_risk_burst"}
    /\ finding.category \in NO_CATEGORIES \cup {"session_risk"}

\* Mutant: a shape of any category is eligible.
AnyShape(finding) == finding.method # "session_risk_burst"

MethodEligible(finding) ==
    \/ finding.method \in {"exact_hash", "simhash", "category_burst", "embedding"}
    \/ /\ finding.method = "normalized_pattern_burst"
       /\ finding.category \in CRITICAL_CATEGORIES

\* Mutant: the kill threshold is not asked for.
SimilarEnough(finding, policy) ==
    /\ Cardinality(finding.sessions) >= policy.minSessions
    /\ finding.confidence >= policy.similarity

\* policy: [mode, minSessions, killThreshold, similarity]; a finding's similarity is
\* its confidence.
MeetsThresholds(finding, policy) ==
    /\ Cardinality(finding.sessions) >= policy.minSessions
    /\ finding.confidence >= policy.killThreshold
    /\ finding.confidence >= policy.similarity

\* The final gate.
Kills(finding, policy, guards) ==
    /\ policy.mode = "enforce" /\ guards
    /\ finding.fatal
    /\ finding.score >= Percent(90)
    /\ MeetsThresholds(finding, policy)
    /\ ~Generic(finding) /\ MethodEligible(finding)
=============================================================================
