------------------------------ MODULE Tier2Rules ------------------------------
(* The scoring and the kill rules of the Tier 2 Lambda                        *)
(* (src/vardoger/tier2/handler.py).                                           *)
(*                                                                            *)
(* The text of a prompt is abstracted to what the handler's patterns find in  *)
(* it; such an abstracted prompt is a turn:                                   *)
(*   decision, risk    what Tier 1 said of it, and Tier 1's risk score        *)
(*   label, confidence what the model answers for it, in hundredths           *)
(*   hints             the categories of CATEGORY_KEYWORDS it has a word of   *)
(*   opens, closes     the behaviours whose pattern may start, may end in it: *)
(*                     the handler matches patterns on turns joined together, *)
(*                     so one may open in one turn and close in a later one   *)
(*   marks             the word lists it has a word of                        *)
(*   intent            the safe-intent pattern it matches, or "none"          *)
(*   early, late       the escalation paths it has a first, a last word of    *)
(*   shape, numbers    its text with the numbers taken out, and the numbers   *)
(* A row of the prompt history is a turn with what Tier 2 wrote beside it.    *)
EXTENDS Integers, Sequences, FiniteSets, FiniteSetsExt, Functions

ATTACK_LABELS ==
    {"INJECTION", "JAILBREAK", "PROMPT_INJECTION", "DATA_EXFILTRATION",
     "SOCIAL_ENGINEERING", "ACCOUNT_ABUSE", "ACCOUNT_TAKEOVER", "REFUND_FRAUD",
     "SLOW_ESCALATION"}

OBVIOUS_IMMEDIATE_KILL_CATEGORIES ==
    {"prompt_injection", "jailbreak", "credential_theft", "system_prompt_extraction"}

\* In the order in which the handler looks for a keyword.
CATEGORY_KEYWORDS ==
    << "credential_theft", "system_prompt_extraction", "data_exfiltration",
       "customer_data_mining", "inventory_exfiltration", "employee_safety",
       "account_takeover", "account_abuse", "refund_fraud", "prompt_injection",
       "jailbreak", "social_engineering" >>

\* account_abuse is in no score table of the handler: it counts 0.
CATEGORY_SCORE ==
    [prompt_injection |-> 20, jailbreak |-> 20, credential_theft |-> 25,
     system_prompt_extraction |-> 25, data_exfiltration |-> 20, account_takeover |-> 20,
     employee_safety |-> 20, inventory_exfiltration |-> 15, customer_data_mining |-> 15,
     refund_fraud |-> 12, social_engineering |-> 12, generic_malicious |-> 5,
     account_abuse |-> 0, safe |-> 0]

BEHAVIOUR_PATTERNS ==
    [hidden_internal_fields |-> 20, credential_or_secret_request |-> 30,
     security_bypass |-> 25, bulk_export |-> 20, private_info_request |-> 20,
     bulk_continuation |-> 15, authority_impersonation |-> 15, urgency_pressure |-> 10,
     support_manipulation |-> 20, process_loophole |-> 15, private_schedule_probe |-> 25,
     account_recovery_bypass |-> 25, refund_without_proof |-> 25]

SAFE_INTENT_DISCOUNTS ==
    [product_question |-> 25, order_status |-> 25, return_policy_explanation |-> 25,
     mistake_correction |-> 25, password_reset_help |-> 20, store_hours |-> 25,
     shipping_options |-> 25, stock_availability |-> 20,
     general_security_education |-> 15, normal_account_support |-> 20]

\* The points of the escalation paths, in the order in which they are tried.
ESCALATION_PATHS == << 30, 30, 30, 30, 20, 10 >>

RISKY_VERDICTS == {"suspicious", "high_risk", "malicious"}

Points(holds, points) == IF holds THEN points ELSE 0

AtMost(n, bound) == IF n > bound THEN bound ELSE n

\* Python's s[-n:].
Newest(s, n) == SubSeq(s, IF Len(s) > n THEN Len(s) - n + 1 ELSE 1, Len(s))

HasMark(rows, mark) == \E i \in DOMAIN rows : mark \in rows[i].marks

Marked(rows, mark) == Cardinality({i \in DOMAIN rows : mark \in rows[i].marks})

SameText(row, turn) == /\ row.shape = turn.shape
                       /\ row.numbers = turn.numbers
                       /\ row.marks = turn.marks
                       /\ row.opens = turn.opens
                       /\ row.closes = turn.closes

\* The text of a row that was written without its prompt.
Silence ==
    [decision |-> "", risk |-> 0, label |-> "SAFE", confidence |-> 0, hints |-> {},
     opens |-> {}, closes |-> {}, marks |-> {}, intent |-> "none", early |-> {},
     late |-> {}, shape |-> "none", numbers |-> << >>]

\* A body that cannot be read: no JSON, or a number that is none.
Garbled == [Silence EXCEPT !.decision = "garbled"]

\* The current prompt closes the conversation once: it may be the newest row.
WithCurrent(rows, turn) ==
    IF rows # << >> /\ SameText(rows[Len(rows)], turn) THEN rows ELSE Append(rows, turn)

-----------------------------------------------------------------------------
(* The components of a prompt's score.                                       *)

\* The model's confidence, in hundredths, from which its label is worth so much.
ML_LADDER == << <<55, 20>>, <<75, 35>>, <<85, 50>>, <<95, 65>>, <<97, 80>>, <<99, 90>> >>

MlComponent(label, confidence) ==
    LET reached == {i \in DOMAIN ML_LADDER : ML_LADDER[i][1] <= confidence}
    IN  IF label \in ATTACK_LABELS /\ reached # {} THEN ML_LADDER[Max(reached)][2] ELSE 0

\* The history row keeps neither the severity nor the risk bucket that the
\* dispatcher sends, and a missing severity reads "none", which has a score of
\* its own: the ladder over Tier 1's risk score is not reached for a prompt that
\* Tier 1 let pass.
RegexComponent(turn) ==
    IF turn.decision # "block" THEN 0
    ELSE IF turn.risk \in 8..11 THEN 80 ELSE 95

\* The turns of one shape, and what the numbers in one place of them may do: grow,
\* by small steps, or fourfold in all.
Numbered(turns, shape) == SelectSeq(turns, LAMBDA t : t.shape = shape /\ t.numbers # << >>)

Grows(s, k) == \A i \in 1..(Len(s) - 1) : s[i].numbers[k] < s[i + 1].numbers[k]

Creeps(s, k) == \A i \in 1..(Len(s) - 1) : s[i + 1].numbers[k] - s[i].numbers[k] <= 10

Soars(s, k) == s[1].numbers[k] > 0 /\ s[Len(s)].numbers[k] >= 4 * s[1].numbers[k]

Places(s) == IF Len(s) < 3 THEN {} ELSE 1..Min({Len(s[i].numbers) : i \in DOMAIN s})

Creeping(s) == \E k \in Places(s) : Grows(s, k) /\ Creeps(s, k)
Soaring(s) == \E k \in Places(s) : Grows(s, k) /\ Soars(s, k)

\* A number that grows through turns of one shape.
Progression(rows, turn) ==
    LET turns == WithCurrent(Newest(rows, 6), turn)
        shapes == {turns[i].shape : i \in DOMAIN turns} \ {"none"}
    IN  Points(\E shape \in shapes : Creeping(Numbered(turns, shape)), 25)
          + Points(\E shape \in shapes : Soaring(Numbered(turns, shape)), 20)

Behaviour(rows, turn) ==
    LET text == Append(Newest(rows, 3), turn)
        shown == {b \in DOMAIN BEHAVIOUR_PATTERNS :
                     \E i \in DOMAIN text : \E j \in i..Len(text) :
                         b \in text[i].opens /\ b \in text[j].closes}
    IN  AtMost(SumFunctionOnSet(BEHAVIOUR_PATTERNS, shown) + Progression(rows, turn), 100)

PriorRisky(rows, category) ==
    Cardinality({i \in DOMAIN rows : /\ rows[i].category = category
                                     /\ rows[i].verdict \in RISKY_VERDICTS \cup {"watch"}})

Repetition(category, rows, turn) ==
    LET prior == PriorRisky(rows, category)
        recent == Newest(rows, 5)
        highs == {i \in DOMAIN recent : recent[i].verdict = "high_risk"}
    IN  AtMost(Points(category \notin {"safe", "generic_malicious"},
                      Points(prior >= 2, 20) + Points(prior = 1, 10))
                 + Points(HasMark(recent, "denial") /\ "rephrase" \in turn.marks, 20)
                 + Points(Marked(recent, "schema") >= 3, 15)
                 + Points(Marked(recent, "restricted") >= 3, 20)
                 + Points(Cardinality(highs) >= 2, 20), 100)

ContextEscalation(rows, turn) ==
    LET recent == Newest(rows, 6)
        early == turn.early \cup UNION {recent[i].early : i \in DOMAIN recent}
        taken == early \cap turn.late
    IN  IF rows = << >> \/ taken = {} THEN 0 ELSE ESCALATION_PATHS[Min(taken)]

-----------------------------------------------------------------------------
(* What makes a prompt look benign, and the model's answer.                  *)

RiskyContext(rows, turn) == "risky" \in turn.marks \/ HasMark(Newest(rows, 3), "risky")

Abused(rows, turn) == "abuse" \in turn.marks \/ HasMark(Newest(rows, 3), "abuse")

CapabilityQuestion(rows, turn) == "capability" \in turn.marks /\ ~RiskyContext(rows, turn)

SafeIntent(rows, turn) ==
    /\ turn.intent # "none" \/ "capability" \in turn.marks
    /\ ~RiskyContext(rows, turn)
    /\ ~Abused(rows, turn)

SafeDiscount(rows, turn) ==
    IF ~SafeIntent(rows, turn) THEN 0
    ELSE SAFE_INTENT_DISCOUNTS[IF turn.intent # "none" THEN turn.intent
                               ELSE "product_question"]

CategoryFromLabel(label) ==
    CASE label = "DATA_EXFILTRATION" -> "data_exfiltration"
      [] label = "SOCIAL_ENGINEERING" -> "social_engineering"
      [] label = "ACCOUNT_ABUSE" -> "account_abuse"
      [] label = "ACCOUNT_TAKEOVER" -> "account_takeover"
      [] label = "REFUND_FRAUD" -> "refund_fraud"
      [] label = "JAILBREAK" -> "jailbreak"
      [] label = "PROMPT_INJECTION" -> "prompt_injection"
      [] label = "INJECTION" -> "generic_malicious"
      [] OTHER -> "safe"

\* A keyword anywhere in the model's input wins over the label.
InferCategory(label, rows, turn) ==
    LET input == Newest(WithCurrent(rows, turn), 5)
        hinted == {k \in DOMAIN CATEGORY_KEYWORDS :
                      \E i \in DOMAIN input : CATEGORY_KEYWORDS[k] \in input[i].hints}
    IN  CASE label \notin ATTACK_LABELS -> "safe"
          [] label \in ATTACK_LABELS /\ hinted # {} -> CATEGORY_KEYWORDS[Min(hinted)]
          [] OTHER -> CategoryFromLabel(label)

\* A capability question that the model flags is relabelled, its confidence
\* turned round.
SafetyOverride(rows, turn, answer) ==
    IF answer.label \in ATTACK_LABELS /\ answer.confidence >= 85 /\ CapabilityQuestion(rows, turn)
    THEN [label |-> "SAFE_CAPABILITY_QUESTION", confidence |-> 100 - answer.confidence]
    ELSE answer

-----------------------------------------------------------------------------
(* The score, the verdict, and what a prompt adds to its session.            *)

Evidence(rows, turn, category) ==
    RegexComponent(turn) + Behaviour(rows, turn) + Repetition(category, rows, turn)
      + ContextEscalation(rows, turn)

ModelAlone(rows, turn, category) == Evidence(rows, turn, category) = 0 /\ ~Abused(rows, turn)

\* Mutants: the score is not brought back to the scale; the model alone, and what
\* looks benign, may score what they like.
OffTheScale(rows, turn, category) == 1000
ModelAtItsWord(rows, turn, category) == IF SafeIntent(rows, turn) THEN 19 ELSE 100
BenignAtItsWord(rows, turn, category) == IF ModelAlone(rows, turn, category) THEN 39 ELSE 100

\* No evidence but the model's: the score stops below "suspicious".
Ceiling(rows, turn, category) ==
    IF SafeIntent(rows, turn) THEN 19 ELSE IF ModelAlone(rows, turn, category) THEN 39 ELSE 100

ScorePrompt(rows, turn, answer, category) ==
    LET sum == Evidence(rows, turn, category) + MlComponent(answer.label, answer.confidence)
                 + CATEGORY_SCORE[category] - SafeDiscount(rows, turn)
    IN  AtMost(IF sum < 0 THEN 0 ELSE sum, Ceiling(rows, turn, category))

RiskBand(score) ==
    IF score >= 85 THEN "malicious"
    ELSE IF score >= 65 THEN "high_risk"
    ELSE IF score >= 40 THEN "suspicious"
    ELSE IF score >= 20 THEN "watch" ELSE "safe"

\* Session scores are kept in hundredths of a point.
SessionIncrement ==
    [safe |-> 0, watch |-> 500, suspicious |-> 1500, high_risk |-> 3000, malicious |-> 5000]

SessionStatusForScore(score) ==
    IF score >= 12000 THEN "kill_candidate"
    ELSE IF score >= 8000 THEN "high_risk"
    ELSE IF score >= 4000 THEN "watch" ELSE "active"

MAX_SESSION_SCORE == 20000

\* A stored value of at most one point is taken for a fraction of the old scale.
NormalizeSessionScore(stored) ==
    AtMost(IF stored \in 1..100 THEN 100 * stored ELSE stored, MAX_SESSION_SCORE)

\* age: how many quarters of an hour have passed, 2 for more than half an hour.
SessionDecay(score, confirmed, age, verdict, regex) ==
    IF confirmed \/ regex >= 95 \/ verdict \in RISKY_VERDICTS \/ age = 0 THEN score
    ELSE IF age >= 2 THEN score \div 2 ELSE (3 * score) \div 4

AccumulateSessionScore(before, verdict) ==
    AtMost(before + SessionIncrement[verdict], MAX_SESSION_SCORE)

-----------------------------------------------------------------------------
(* The kill rules.                                                           *)

ModelLabelIsMalicious(answer) == answer.label \in ATTACK_LABELS /\ answer.confidence >= 85

SafeGateBlocks(judged) ==
    judged.safe /\ ~(judged.confidence >= 99 /\ judged.category \in {"prompt_injection", "jailbreak"})

\* Mutant: the score is not asked for.
AnyScoreSuffices(judged, after) == judged.hostile

\* A score of 0 falls back to the session's.
ScoreSuffices(judged, after) ==
    (IF judged.score <= 0 THEN after \div 100 ELSE judged.score) >= 90

\* Mutant: the prompt at hand is enough of a repetition.
OneHitSuffices(policy, judged, after) == judged.hostile

\* One verdict of extreme confidence, or several; but never several of a category
\* that is meant to be obvious.
Corroboration(policy, judged, after) ==
    \/ judged.confidence >= policy.singleThreshold
    \/ /\ judged.category \notin OBVIOUS_IMMEDIATE_KILL_CATEGORIES
       /\ \/ judged.prior + Points(judged.hostile, 1) >= policy.minMalicious
          \/ after >= 12000

\* evaluate_tier2_kill_eligibility with the mode and the platform's guards left
\* out: what is asked of the evidence.
EvidenceSuffices(policy, judged, after) ==
    /\ judged.hostile
    /\ judged.confidence >= policy.killThreshold
    /\ ~SafeGateBlocks(judged)
    /\ ScoreSuffices(judged, after)
    /\ judged.category # "generic_malicious"
    /\ Corroboration(policy, judged, after)
=============================================================================
