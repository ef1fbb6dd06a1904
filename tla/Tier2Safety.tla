------------------------------ MODULE Tier2Safety ------------------------------
(* The promises of the Tier 2 pipeline that rest on what it works out, for every *)
(* instance: no prompt that has been dealt with goes unseen, no session is       *)
(* killed on one hit that is not extreme, on the model's word alone or on a      *)
(* prompt that reads as benign, scores stay within their bounds, and what shadow *)
(* mode reports is what enforce mode would do.                                   *)
EXTENDS Tier2Proofs, SetFacts, SequenceTheorems

USE DEF At, Goes, Well, Fault, tables, world, Holds, Working

-----------------------------------------------------------------------------
(* What has become of a prompt can be seen.                                      *)

Pending(c) == Holds(c) \/ pc[c] = "failing"

DoneIsSeen ==
    \A c \in Copies :
        pc[c] = "done" => history[Of[c]].status # "absent" \/ Of[c] \in reported

IngestedIsPending ==
    \A p \in Prompts :
        history[p].status = "ingested" /\ p \notin dropped =>
            \/ ledger[p] > 0 \/ p \in reported
            \/ \E c \in Copies : Of[c] = p /\ Pending(c)

SeenInv == IInv /\ DoneIsSeen /\ IngestedIsPending

\* What a step of c may do to keep it so.
KeepsInSight(c) ==
    LET p == Of[c]
    IN  /\ reported' \in {reported, reported \cup {p}} /\ dropped' \in {dropped, dropped \cup {p}}
        /\ ledger'[p] >= ledger[p]
        /\ history'[p].status = "absent" => history[p].status = "absent"
        /\ pc'[c] = "done" => history'[p].status # "absent" \/ p \in reported'
        /\ history'[p].status = "ingested" /\ p \notin dropped' =>
               \/ ledger'[p] > 0 \/ p \in reported' \/ Pending(c)'
               \/ ~Pending(c) /\ history[p].status = "ingested"

LEMMA InSightStep ==
    ASSUME SeenInv, NEW c \in Copies, IInv', Framed(c), KeepsInSight(c)
    PROVE  SeenInv'
<1>1. /\ Of[c] \in Prompts
      /\ \A d \in Copies \ {c} : pc'[d] = pc[d] /\ Of[d] \in Prompts
      /\ \A q \in Prompts \ {Of[c]} : history'[q] = history[q] /\ ledger'[q] = ledger[q]
      /\ ledger \in [Prompts -> Nat] /\ ledger' \in [Prompts -> Nat]
  BY DeliveryAssumption DEF Framed, Frame, SeenInv, IInv, Shapes
<1>2. DoneIsSeen'
  BY <1>1 DEF KeepsInSight, SeenInv, DoneIsSeen
<1>3. IngestedIsPending'
  <2>. SUFFICES ASSUME NEW p \in Prompts, history'[p].status = "ingested", p \notin dropped',
                       ledger'[p] = 0, p \notin reported'
                PROVE  \E d \in Copies : Of[d] = p /\ Pending(d)'
    BY <1>1 DEF IngestedIsPending
  <2>1. CASE p = Of[c] /\ ~Pending(c)'
    <3>1. ~Pending(c) /\ history[p].status = "ingested"
      BY <2>1 DEF KeepsInSight
    <3>2. PICK d \in Copies : Of[d] = p /\ Pending(d)
      BY <1>1, <2>1, <3>1 DEF KeepsInSight, SeenInv, IngestedIsPending
    <3>. QED
      BY <1>1, <3>1, <3>2 DEF Pending
  <2>2. CASE p # Of[c]
    <3>1. PICK d \in Copies : Of[d] = p /\ Pending(d)
      BY <1>1, <2>2 DEF KeepsInSight, SeenInv, IngestedIsPending
    <3>. QED
      BY <1>1, <2>2, <3>1 DEF Pending
  <2>. QED
    BY <2>1, <2>2
<1>. QED
  BY <1>2, <1>3 DEF SeenInv

LEMMA CopyKeepsInSight ==
    ASSUME IInv, NEW c \in Copies, Step(c) \/ Failure(c)
    PROVE  KeepsInSight(c)
<1>1. /\ Of[c] \in Prompts /\ pc \in [Copies -> PCs] /\ ledger \in [Prompts -> Nat]
      /\ DOMAIN history = Prompts /\ DOMAIN history[Of[c]] = RowFields
      /\ HolderIsOnTime(c) /\ HolderIsConsistent(c)
  BY DeliveryAssumption DEF IInv, Shapes
<1>2. CASE \E mode \in Modes : Ingest(c, mode)
  BY <1>1, <1>2, OpeningFacts, PutFacts DEF Ingest, Untaken, KeepsInSight, Pending, IInv
<1>3. CASE IngestUnanswered(c)
  BY <1>1, <1>3, PutFacts DEF IngestUnanswered, KeepsInSight, Pending, IInv
<1>4. CASE \/ Reject(c) \/ Classify(c) \/ ClassifyBlind(c) \/ ClassifyMisread(c)
           \/ Assess(c) \/ AssessBlind(c) \/ Order(c) \/ OrderRefused(c) \/ OrderUnanswered(c)
  BY <1>1, <1>4 DEF Reject, Classify, ClassifyBlind, ClassifyMisread, Report, Assess, AssessBlind,
     Decide, Order, OrderRefused, OrderUnanswered, KeepsInSight, Pending
<1>5. CASE WriteEvent(c) \/ RecordLost(c) \/ Raises(c)
  BY <1>1, <1>5 DEF WriteEvent, RecordLost, Raises, KeepsInSight, Pending
<1>6. CASE Raise(c) \/ RaiseUndated(c) \/ RaiseUnanswered(c)
  <2>1. /\ reported' = reported /\ dropped' = dropped /\ history' = history /\ ledger' = ledger
        /\ pc[c] = "raise" /\ pc'[c] \in {"event", "failing"}
    BY <1>1, <1>6 DEF Raise, RaiseUndated, RaiseUnanswered
  <2>. QED
    BY <1>1, <2>1 DEF KeepsInSight, Pending
<1>7. CASE Record(c)
  BY <1>1, <1>7, JudgedRowFacts DEF Record, HolderIsConsistent, Verdicts, KeepsInSight, Pending
<1>8. CASE Book(c)
  BY <1>1, <1>8 DEF Book, Ends, IInv, AbsentIsUntouched, KeepsInSight, Pending
<1>9. CASE BookLost(c) \/ FailLost(c) \/ FailRaises(c)
  BY <1>1, <1>9 DEF BookLost, FailLost, FailRaises, Ends, Report, KeepsInSight, Pending
<1>10. CASE Crash(c)
  BY <1>1, <1>10 DEF Crash, Ends, KeepsInSight, Pending
<1>11. CASE Fail(c)
  BY <1>1, <1>11, ErrorRowFacts DEF Fail, Ends, Report, KeepsInSight, Pending
<1>. QED
  BY <1>2, <1>3, <1>4, <1>5, <1>6, <1>7, <1>8, <1>9, <1>10, <1>11 DEF Step, Failure

LEMMA SpecSeenInv == Spec => []SeenInv
<1>1. Init => SeenInv
  BY InitIInv DEF Init, NoRow, SeenInv, DoneIsSeen, IngestedIsPending
<1>2. ASSUME SeenInv, [Next]_vars
      PROVE  SeenInv'
  <2>1. ASSUME NEW c \in Copies, Step(c) \/ Failure(c)
        PROVE  SeenInv'
    BY <1>2, <2>1, CopyStep, CopyKeepsInSight, InSightStep DEF SeenInv
  <2>2. CASE Tick \/ UNCHANGED vars
    BY <1>2, <2>2, TickStep, StutterStep
    DEF Tick, vars, SeenInv, DoneIsSeen, IngestedIsPending, Pending
  <2>. QED
    BY <1>2, <2>1, <2>2 DEF Next
<1>. QED
  BY <1>1, <1>2, PTL DEF Spec

(* A prompt of which every delivery has been dealt with, none of them cut off,    *)
(* was judged or marked as an error, is in the outcome ledger, or has had a       *)
(* component reported as degraded: "a dropped prompt is visible, not silent".     *)
THEOREM PromptsAreAccountedFor == Spec => []Accounted
<1>1. SeenInv => Accounted
  BY DeliveryAssumption
  DEF SeenInv, DoneIsSeen, IngestedIsPending, Pending, Accounted, IInv, Shapes
<1>. QED
  BY SpecSeenInv, <1>1, PTL

-----------------------------------------------------------------------------
(* The rows that a judgement goes by.                                            *)

\* The ranks of the members of a finite set of numbers are 1, 2 and so on.
LEMMA RanksAreTaken ==
    ASSUME NEW S \in SUBSET Nat, IsFiniteSet(S), NEW i \in 1..Cardinality(S)
    PROVE  \E q \in S : Cardinality({r \in S : r <= q}) = i
<1>. DEFINE Below(q) == {r \in S : r <= q}
            n == Cardinality(S)
            rank == [q \in S |-> Cardinality(Below(q))]
            T == {rank[q] : q \in S}
<1>1. n \in Nat
  BY FS_CardinalityType
<1>2. ASSUME NEW q \in S
      PROVE  /\ IsFiniteSet(Below(q)) /\ rank[q] \in 1..n
  <2>1. IsFiniteSet(Below(q)) /\ Cardinality(Below(q)) <= n
    BY FS_Subset
  <2>2. Cardinality(Below(q)) \in Nat /\ Below(q) # {}
    BY <2>1, FS_CardinalityType
  <2>3. Cardinality(Below(q)) # 0
    BY <2>1, <2>2, FS_EmptySet
  <2>. HIDE DEF Below
  <2>. QED
    BY <1>1, <2>1, <2>2, <2>3
<1>3. ASSUME NEW q \in S, NEW r \in S, q < r
      PROVE  rank[q] # rank[r]
  <2>0. \A x \in S : x \in Nat
    OBVIOUS
  <2>0a. ~(r <= q) /\ r <= r /\ \A x \in S : x <= q => x <= r
    BY <1>3, <2>0
  <2>1. Below(q) \subseteq Below(r) /\ r \in Below(r) /\ r \notin Below(q)
    BY <2>0a
  <2>2. IsFiniteSet(Below(r))
    BY <1>2
  <2>. HIDE DEF Below
  <2>. QED
    BY <2>1, <2>2, FS_Subset
<1>4. rank \in Injection(S, T) /\ rank \in Surjection(S, T)
  <2>1. \A q, r \in S : rank[q] = rank[r] => q = r
    <3>. SUFFICES ASSUME NEW q \in S, NEW r \in S, q # r
                  PROVE  rank[q] # rank[r]
      OBVIOUS
    <3>1. q < r \/ r < q
      OBVIOUS
    <3>. QED
      BY <1>3, <3>1
  <2>. HIDE DEF Below
  <2>2. rank \in [S -> T]
    OBVIOUS
  <2>. QED
    BY <2>1, <2>2 DEF Injection, IsInjective, Surjection
<1>. HIDE DEF rank
<1>5. Cardinality(T) = n
  BY <1>4, FS_Surjection
<1>6. T \subseteq 1..n
  BY <1>2
<1>7. IsFiniteSet(1..n) /\ Cardinality(1..n) = n
  <2>1. IsFiniteSet(1..n) /\ Cardinality(1..n) = IF 1 > n THEN 0 ELSE n - 1 + 1
    BY <1>1, FS_Interval
  <2>. HIDE DEF n
  <2>. QED
    BY <1>1, <2>1
<1>8. T = 1..n
  <2>. HIDE DEF T, n
  <2>. QED
    BY <1>5, <1>6, <1>7, FS_Subset
<1>. QED
  BY <1>8 DEF rank

LEMMA RowsAreRows ==
    ASSUME NEW prompts \in SUBSET Nat, IsFiniteSet(prompts)
    PROVE  RowsOf(prompts) \in Seq({RowOf(q) : q \in prompts})
<1>. DEFINE n == Cardinality(prompts)
            s == RowsOf(prompts)
<1>1. n \in Nat
  BY FS_CardinalityType
<1>2. ASSUME NEW i \in 1..n
      PROVE  s[i] \in {RowOf(q) : q \in prompts}
  <2>1. \E q \in prompts : Cardinality({r \in prompts : r <= q}) = i
    BY RanksAreTaken
  <2>2. s[i] = RowOf(CHOOSE q \in prompts : Cardinality({r \in prompts : r <= q}) = i)
    BY DEF RowsOf
  <2>. QED
    BY <2>1, <2>2
<1>3. s = [i \in 1..n |-> s[i]]
  BY DEF RowsOf
<1>. HIDE DEF s, n
<1>. QED
  BY <1>1, <1>2, <1>3 DEF s

LEMMA NewestFacts ==
    ASSUME NEW X, NEW s \in Seq(X), NEW n \in Nat
    PROVE  Newest(s, n) \in Seq(X)
<1>. DEFINE m == IF Len(s) > n THEN Len(s) - n + 1 ELSE 1
<1>1. Len(s) \in Nat /\ m \in 1..(Len(s) + 1)
  OBVIOUS
<1>2. \A i \in m..Len(s) : s[i] \in X
  BY <1>1
<1>. HIDE DEF m
<1>3. SubSeq(s, m, Len(s)) \in Seq(X)
  BY <1>1, <1>2, SubSeqProperties
<1>. QED
  BY <1>3 DEF Newest, m

LEMMA WithCurrentFacts ==
    ASSUME NEW X, NEW rows \in Seq(X), NEW t
    PROVE  WithCurrent(rows, t) \in Seq(X \cup {t}) /\ Append(rows, t) \in Seq(X \cup {t})
<1>1. rows \in Seq(X \cup {t})
  BY SeqMonotonic
<1>2. Append(rows, t) \in Seq(X \cup {t})
  BY <1>1
<1>. QED
  BY <1>1, <1>2 DEF WithCurrent

-----------------------------------------------------------------------------
(* The components of a score.                                                    *)

\* A turn and rows that the tables of the handler know.
Known(t) == /\ DOMAIN t = DOMAIN Silence
            /\ t.intent \in DOMAIN SAFE_INTENT_DISCOUNTS \cup {"none"}
            /\ t.late \subseteq DOMAIN ESCALATION_PATHS

LEMMA AtMostFacts ==
    ASSUME NEW n \in Nat, NEW bound \in Nat
    PROVE  AtMost(n, bound) \in 0..bound /\ AtMost(n, bound) <= n
BY DEF AtMost

LEMMA RegexTyped ==
    ASSUME NEW t
    PROVE  /\ RegexComponent(t) \in 0..95
           /\ t.decision # "block" => RegexComponent(t) = 0
BY DEF RegexComponent

LEMMA MlFacts ==
    ASSUME NEW label, NEW confidence
    PROVE  /\ MlComponent(label, confidence) \in 0..90
           /\ label \in ATTACK_LABELS /\ confidence >= 85 => MlComponent(label, confidence) >= 50
<1>. DEFINE reached == {i \in DOMAIN ML_LADDER : ML_LADDER[i][1] <= confidence}
<1>1. /\ \A i \in DOMAIN ML_LADDER : i \in 1..6
      /\ \A i \in DOMAIN ML_LADDER : ML_LADDER[i][2] \in 20..90
      /\ \A i \in DOMAIN ML_LADDER : i >= 3 => ML_LADDER[i][2] >= 50
  BY DEF ML_LADDER
<1>2. reached \in SUBSET (1..6) /\ IsFiniteSet(reached)
  <2>0. \A n \in Nat : IsFiniteSet(1..n)
    BY FS_Interval
  <2>1. IsFiniteSet(1..6)
    BY <2>0
  <2>2a. \A i \in reached : i \in DOMAIN ML_LADDER
    OBVIOUS
  <2>2. \A i \in reached : i \in 1..6
    BY <1>1, <2>2a
  <2>. QED
    BY <2>1, <2>2, FS_Subset
<1>3. ASSUME confidence >= 85
      PROVE  3 \in reached
  <2>1. 3 \in DOMAIN ML_LADDER /\ ML_LADDER[3][1] = 85
    BY DEF ML_LADDER
  <2>. QED
    BY <1>3, <2>1
<1>. HIDE DEF reached
<1>4. reached # {} => Max(reached) \in reached /\ \A i \in reached : Max(reached) >= i
  BY <1>2, MaxFacts
<1>5. MlComponent(label, confidence)
          = IF label \in ATTACK_LABELS /\ reached # {} THEN ML_LADDER[Max(reached)][2] ELSE 0
  BY DEF MlComponent, reached
<1>6. ASSUME reached # {}
      PROVE  ML_LADDER[Max(reached)][2] \in 20..90
  <2>1. Max(reached) \in DOMAIN ML_LADDER
    BY <1>4, <1>6 DEF reached
  <2>. QED
    BY <1>1, <2>1
<1>. DEFINE points == ML_LADDER[Max(reached)][2]
<1>7. ASSUME label \in ATTACK_LABELS, confidence >= 85
      PROVE  reached # {} /\ points >= 50
  <2>1. reached # {} /\ Max(reached) \in 1..6 /\ Max(reached) >= 3
    BY <1>2, <1>3, <1>4, <1>7
  <2>2. Max(reached) \in DOMAIN ML_LADDER
    BY <1>4, <2>1 DEF reached
  <2>. QED
    BY <1>1, <2>1, <2>2
<1>. HIDE DEF points
<1>9. MlComponent(label, confidence) \in 0..90
  <2>1. CASE label \in ATTACK_LABELS /\ reached # {}
    <3>1. points \in 20..90 /\ MlComponent(label, confidence) = points
      BY <1>5, <1>6, <2>1 DEF points
    <3>. QED
      BY <3>1
  <2>2. CASE ~(label \in ATTACK_LABELS /\ reached # {})
    <3>1. MlComponent(label, confidence) = 0
      BY <1>5, <2>2
    <3>. QED
      BY <3>1
  <2>. QED
    BY <2>1, <2>2
<1>10. label \in ATTACK_LABELS /\ confidence >= 85 => MlComponent(label, confidence) >= 50
  BY <1>5, <1>7 DEF points
<1>. QED
  BY <1>9, <1>10

LEMMA ProgressionFacts ==
    ASSUME NEW rows, NEW t
    PROVE  LET turns == WithCurrent(Newest(rows, 6), t)
           IN  /\ Progression(rows, t) \in 0..45
               /\ (\A i \in DOMAIN turns : turns[i].shape = "none") => Progression(rows, t) = 0
<1>. DEFINE turns == WithCurrent(Newest(rows, 6), t)
            shapes == {turns[i].shape : i \in DOMAIN turns} \ {"none"}
            a == Points(\E shape \in shapes : Creeping(Numbered(turns, shape)), 25)
            b == Points(\E shape \in shapes : Soaring(Numbered(turns, shape)), 20)
<1>1. Progression(rows, t) = a + b
  BY DEF Progression
<1>2. a \in {0, 25} /\ b \in {0, 20}
  BY DEF Points
<1>3. shapes = {} => a = 0 /\ b = 0
  BY DEF Points
<1>4. (\A i \in DOMAIN turns : turns[i].shape = "none") => shapes = {}
  OBVIOUS
<1>. HIDE DEF a, b, shapes, turns
<1>5. a + b \in 0..45 /\ (shapes = {} => a + b = 0)
  BY <1>2, <1>3
<1>. QED
  BY <1>1, <1>4, <1>5 DEF turns

LEMMA PatternsAreFinite ==
    IsFiniteSet(DOMAIN BEHAVIOUR_PATTERNS) /\ \A b \in DOMAIN BEHAVIOUR_PATTERNS :
                                                  BEHAVIOUR_PATTERNS[b] \in Nat
<1>. DEFINE names == << "hidden_internal_fields", "credential_or_secret_request",
                        "security_bypass", "bulk_export", "private_info_request",
                        "bulk_continuation", "authority_impersonation", "urgency_pressure",
                        "support_manipulation", "process_loophole", "private_schedule_probe",
                        "account_recovery_bypass", "refund_without_proof" >>
            T == {names[i] : i \in 1..13}
<1>1. \A b \in DOMAIN BEHAVIOUR_PATTERNS : b \in T /\ BEHAVIOUR_PATTERNS[b] \in Nat
  BY DEF BEHAVIOUR_PATTERNS
<1>2. \A n \in Nat : IsFiniteSet(1..n)
  BY FS_Interval
<1>3. IsFiniteSet(T)
  <2>1. IsFiniteSet(1..13)
    BY <1>2
  <2>. HIDE DEF names
  <2>. QED
    BY <2>1, FiniteImage
<1>. HIDE DEF T
<1>. QED
  BY <1>1, <1>3, FS_Subset

LEMMA BehaviourFacts ==
    ASSUME NEW rows, NEW t
    PROVE  LET text == Append(Newest(rows, 3), t)
           IN  /\ Behaviour(rows, t) \in 0..100
               /\ (\A i \in DOMAIN text : text[i].opens = {}) /\ Progression(rows, t) = 0
                      => Behaviour(rows, t) = 0
<1>. DEFINE text == Append(Newest(rows, 3), t)
            shown == {b \in DOMAIN BEHAVIOUR_PATTERNS :
                         \E i \in DOMAIN text : \E j \in i..Len(text) :
                             b \in text[i].opens /\ b \in text[j].closes}
            sum == SumFunctionOnSet(BEHAVIOUR_PATTERNS, shown)
            n == Progression(rows, t)
<1>1. Behaviour(rows, t) = AtMost(sum + n, 100)
  BY DEF Behaviour
<1>2. shown \subseteq DOMAIN BEHAVIOUR_PATTERNS
  OBVIOUS
<1>3. (\A i \in DOMAIN text : text[i].opens = {}) => shown = {}
  OBVIOUS
<1>. HIDE DEF shown, text
<1>4. sum \in Nat /\ (shown = {} => sum = 0)
  <2>1. IsFiniteSet(shown) /\ \A b \in shown : BEHAVIOUR_PATTERNS[b] \in Nat
    BY <1>2, PatternsAreFinite, FS_Subset
  <2>. QED
    BY <2>1, SumFacts
<1>5. n \in 0..45
  BY ProgressionFacts
<1>. HIDE DEF sum, n
<1>6. sum + n \in Nat
  BY <1>4, <1>5
<1>7. AtMost(sum + n, 100) \in 0..100 /\ (sum + n = 0 => AtMost(sum + n, 100) = 0)
  BY <1>6 DEF AtMost
<1>8. shown = {} /\ n = 0 => sum + n = 0
  BY <1>4, <1>5
<1>. QED
  BY <1>1, <1>3, <1>7, <1>8 DEF text, n

LEMMA PointsFacts ==
    ASSUME NEW holds, NEW n \in Nat
    PROVE  Points(holds, n) \in 0..n /\ (~holds => Points(holds, n) = 0)
BY DEF Points

LEMMA NobodyMarked ==
    ASSUME NEW rows, NEW mark, ~HasMark(rows, mark)
    PROVE  Marked(rows, mark) = 0
<1>1. {i \in DOMAIN rows : mark \in rows[i].marks} = {}
  BY DEF HasMark
<1>. QED
  BY <1>1, FS_EmptySet DEF Marked

\* Rows that speak for a repetition: a word list has them, or Tier 2 found them risky.
Suspect(row) == \/ row.marks \cap {"denial", "schema", "restricted"} # {}
                \/ row.verdict \in RISKY_VERDICTS \cup {"watch"}

LEMMA RepetitionFacts ==
    ASSUME NEW category, NEW rows, NEW t
    PROVE  LET recent == Newest(rows, 5)
               quiet == /\ \A i \in DOMAIN rows : ~Suspect(rows[i])
                        /\ \A i \in DOMAIN recent : ~Suspect(recent[i])
           IN  /\ Repetition(category, rows, t) \in 0..100
               /\ quiet => Repetition(category, rows, t) = 0
<1>. DEFINE prior == PriorRisky(rows, category)
            recent == Newest(rows, 5)
            highs == {i \in DOMAIN recent : recent[i].verdict = "high_risk"}
            p2 == Points(prior >= 2, 20)
            p1 == Points(prior = 1, 10)
            a == Points(category \notin {"safe", "generic_malicious"}, p2 + p1)
            b == Points(HasMark(recent, "denial") /\ "rephrase" \in t.marks, 20)
            c == Points(Marked(recent, "schema") >= 3, 15)
            d == Points(Marked(recent, "restricted") >= 3, 20)
            e == Points(Cardinality(highs) >= 2, 20)
            quiet == /\ \A i \in DOMAIN rows : ~Suspect(rows[i])
                     /\ \A i \in DOMAIN recent : ~Suspect(recent[i])
<1>1. Repetition(category, rows, t) = AtMost(a + b + c + d + e, 100)
  BY DEF Repetition
<1>2. p2 \in {0, 20} /\ p1 \in {0, 10} /\ a \in {0, p2 + p1}
      /\ b \in {0, 20} /\ c \in {0, 15} /\ d \in {0, 20} /\ e \in {0, 20}
  BY DEF Points
<1>3. ASSUME quiet
      PROVE  p2 = 0 /\ p1 = 0 /\ b = 0 /\ c = 0 /\ d = 0 /\ e = 0
  <2>1. {i \in DOMAIN rows : /\ rows[i].category = category
                             /\ rows[i].verdict \in RISKY_VERDICTS \cup {"watch"}} = {}
    BY <1>3 DEF Suspect
  <2>2. prior = 0
    BY <2>1, FS_EmptySet DEF PriorRisky
  <2>3. highs = {}
    BY <1>3 DEF Suspect, RISKY_VERDICTS
  <2>4. Cardinality(highs) = 0
    BY <2>3, FS_EmptySet
  <2>5. ~HasMark(recent, "denial") /\ ~HasMark(recent, "schema") /\ ~HasMark(recent, "restricted")
    BY <1>3 DEF HasMark, Suspect
  <2>6. Marked(recent, "schema") = 0 /\ Marked(recent, "restricted") = 0
    BY <2>5, NobodyMarked
  <2>. HIDE DEF prior, highs, recent
  <2>. QED
    BY <2>2, <2>4, <2>5, <2>6 DEF Points
<1>. HIDE DEF p1, p2, a, b, c, d, e, quiet
<1>4. a + b + c + d + e \in Nat
  BY <1>2
<1>5. quiet => a + b + c + d + e = 0
  BY <1>2, <1>3
<1>. DEFINE sum == a + b + c + d + e
<1>. HIDE DEF sum
<1>6. AtMost(sum, 100) \in 0..100 /\ (sum = 0 => AtMost(sum, 100) = 0)
  BY <1>4 DEF AtMost, sum
<1>7. Repetition(category, rows, t) = AtMost(sum, 100) /\ (quiet => sum = 0)
  BY <1>1, <1>5 DEF sum
<1>8. Repetition(category, rows, t) \in 0..100 /\ (quiet => Repetition(category, rows, t) = 0)
  BY <1>6, <1>7
<1>. QED
  BY <1>8 DEF quiet

LEMMA EscalationFacts ==
    ASSUME NEW rows, NEW t, Known(t)
    PROVE  /\ ContextEscalation(rows, t) \in 0..30
           /\ t.late = {} => ContextEscalation(rows, t) = 0
<1>. DEFINE recent == Newest(rows, 6)
            early == t.early \cup UNION {recent[i].early : i \in DOMAIN recent}
            taken == early \cap t.late
<1>1. ContextEscalation(rows, t)
          = IF rows = << >> \/ taken = {} THEN 0 ELSE ESCALATION_PATHS[Min(taken)]
  BY DEF ContextEscalation
<1>2. taken \subseteq t.late
  OBVIOUS
<1>. HIDE DEF taken
<1>3. \A i \in DOMAIN ESCALATION_PATHS : i \in Nat /\ ESCALATION_PATHS[i] \in 0..30
  BY DEF ESCALATION_PATHS
<1>4. taken \subseteq DOMAIN ESCALATION_PATHS
  BY <1>2 DEF Known
<1>5. taken # {} => Min(taken) \in taken
  BY <1>3, <1>4, MinFacts
<1>6. taken # {} => ESCALATION_PATHS[Min(taken)] \in 0..30
  BY <1>3, <1>4, <1>5
<1>7. CASE rows = << >> \/ taken = {}
  <2>1. ContextEscalation(rows, t) = 0
    BY <1>1, <1>7
  <2>. QED
    BY <2>1
<1>8. CASE ~(rows = << >> \/ taken = {})
  <2>1. ContextEscalation(rows, t) = ESCALATION_PATHS[Min(taken)]
    BY <1>1, <1>8
  <2>. QED
    BY <1>2, <1>6, <1>8, <2>1
<1>. QED
  BY <1>7, <1>8

LEMMA CategoryFacts ==
    ASSUME NEW label, NEW rows, NEW t
    PROVE  CATEGORY_SCORE[InferCategory(label, rows, t)] \in 0..25
<1>. DEFINE input == Newest(WithCurrent(rows, t), 5)
            hinted == {k \in DOMAIN CATEGORY_KEYWORDS :
                          \E i \in DOMAIN input : CATEGORY_KEYWORDS[k] \in input[i].hints}
            category == InferCategory(label, rows, t)
<1>1. category \in {"safe", CATEGORY_KEYWORDS[Min(hinted)], CategoryFromLabel(label)}
      /\ (category = CATEGORY_KEYWORDS[Min(hinted)] /\ hinted = {} =>
             category \in {"safe", CategoryFromLabel(label)})
  BY Zenon DEF InferCategory
<1>2. CategoryFromLabel(label) \in
          {"data_exfiltration", "social_engineering", "account_abuse", "account_takeover",
           "refund_fraud", "jailbreak", "prompt_injection", "generic_malicious", "safe"}
  BY Zenon DEF CategoryFromLabel
<1>3. hinted \subseteq DOMAIN CATEGORY_KEYWORDS
  OBVIOUS
<1>. HIDE DEF hinted, category
<1>4. hinted # {} => CATEGORY_KEYWORDS[Min(hinted)] \in DOMAIN CATEGORY_SCORE
  <2>1. \A k \in DOMAIN CATEGORY_KEYWORDS :
            k \in Nat /\ CATEGORY_KEYWORDS[k] \in DOMAIN CATEGORY_SCORE
    BY DEF CATEGORY_KEYWORDS, CATEGORY_SCORE
  <2>2. hinted # {} => Min(hinted) \in hinted
    BY <1>3, <2>1, MinFacts
  <2>. QED
    BY <1>3, <2>1, <2>2
<1>5. category \in DOMAIN CATEGORY_SCORE
  <2>1. CategoryFromLabel(label) \in DOMAIN CATEGORY_SCORE /\ "safe" \in DOMAIN CATEGORY_SCORE
    BY <1>2 DEF CATEGORY_SCORE
  <2>. QED
    BY <1>1, <1>4, <2>1
<1>6. \A k \in DOMAIN CATEGORY_SCORE : CATEGORY_SCORE[k] \in 0..25
  BY DEF CATEGORY_SCORE
<1>. QED
  BY <1>5, <1>6 DEF category

LEMMA DiscountFacts ==
    ASSUME NEW rows, NEW t, Known(t)
    PROVE  SafeDiscount(rows, t) \in 0..25
<1>1. \A k \in DOMAIN SAFE_INTENT_DISCOUNTS : SAFE_INTENT_DISCOUNTS[k] \in 0..25
  BY DEF SAFE_INTENT_DISCOUNTS
<1>. DEFINE k == IF t.intent # "none" THEN t.intent ELSE "product_question"
<1>2. k \in DOMAIN SAFE_INTENT_DISCOUNTS
  <2>1. "product_question" \in DOMAIN SAFE_INTENT_DISCOUNTS
    BY DEF SAFE_INTENT_DISCOUNTS
  <2>. QED
    BY <2>1 DEF Known
<1>3. SafeDiscount(rows, t) = IF ~SafeIntent(rows, t) THEN 0 ELSE SAFE_INTENT_DISCOUNTS[k]
  BY DEF SafeDiscount
<1>. HIDE DEF k
<1>. QED
  BY <1>1, <1>2, <1>3

-----------------------------------------------------------------------------
(* The score.                                                                    *)

LEMMA EvidenceFacts ==
    ASSUME NEW rows, NEW t, NEW category, Known(t)
    PROVE  Evidence(rows, t, category) \in 0..325
<1>. DEFINE a == RegexComponent(t)
            b == Behaviour(rows, t)
            c == Repetition(category, rows, t)
            d == ContextEscalation(rows, t)
<1>1. a \in 0..95 /\ b \in 0..100 /\ c \in 0..100 /\ d \in 0..30
  BY RegexTyped, BehaviourFacts, RepetitionFacts, EscalationFacts
<1>2. Evidence(rows, t, category) = a + b + c + d
  BY DEF Evidence
<1>. HIDE DEF a, b, c, d
<1>. QED
  BY <1>1, <1>2

\* A score is a part of a hundred; what looks benign stays below "watch", the model
\* alone below "suspicious"; and a label that is believed always scores something.
LEMMA ScoreFacts ==
    ASSUME NEW rows, NEW t, NEW answer, NEW label, Known(t)
    PROVE  LET category == InferCategory(label, rows, t)
               score == ScorePrompt(rows, t, answer, category)
           IN  /\ score \in 0..100
               /\ SafeIntent(rows, t) => score <= 19
               /\ ModelAlone(rows, t, category) => score <= 39
               /\ ModelLabelIsMalicious(answer) => score > 0
<1>. DEFINE category == InferCategory(label, rows, t)
            ev == Evidence(rows, t, category)
            ml == MlComponent(answer.label, answer.confidence)
            cat == CATEGORY_SCORE[category]
            off == SafeDiscount(rows, t)
            ceiling == Ceiling(rows, t, category)
            sum == ev + ml + cat - off
            raw == IF sum < 0 THEN 0 ELSE sum
<1>1. ev \in 0..325 /\ cat \in 0..25 /\ off \in 0..25
  BY EvidenceFacts, CategoryFacts, DiscountFacts
<1>2. ml \in 0..90 /\ (ModelLabelIsMalicious(answer) => ml >= 50)
  BY MlFacts DEF ModelLabelIsMalicious
<1>3. /\ ceiling \in {19, 39, 100}
      /\ SafeIntent(rows, t) => ceiling = 19
      /\ ModelAlone(rows, t, category) => ceiling \in {19, 39}
  BY DEF Ceiling
<1>4. ScorePrompt(rows, t, answer, category) = AtMost(raw, ceiling)
  BY DEF ScorePrompt
<1>. HIDE DEF category, ev, ml, cat, off, ceiling
<1>5. raw \in Nat /\ (ModelLabelIsMalicious(answer) => raw > 0)
  BY <1>1, <1>2
<1>. HIDE DEF sum, raw
<1>6. /\ AtMost(raw, ceiling) \in 0..ceiling
      /\ raw > 0 => AtMost(raw, ceiling) > 0
  BY <1>3, <1>5 DEF AtMost
<1>7. /\ AtMost(raw, ceiling) \in 0..100
      /\ SafeIntent(rows, t) => AtMost(raw, ceiling) <= 19
      /\ ModelAlone(rows, t, category) => AtMost(raw, ceiling) <= 39
      /\ ModelLabelIsMalicious(answer) => AtMost(raw, ceiling) > 0
  BY <1>3, <1>5, <1>6
<1>. QED
  BY <1>4, <1>7 DEF category

\* What speaks for a score: the prompt itself, or a row of its session.
Speaks(row) == Tells(row) \/ row.verdict \in RISKY_VERDICTS \cup {"watch"}

LEMMA NothingSpeaks ==
    ASSUME NEW X, NEW rows \in Seq(X), NEW t, NEW category, Known(t),
           ~Tells(t), \A r \in X : ~Speaks(r)
    PROVE  ModelAlone(rows, t, category)
<1>. DEFINE Y == X \cup {t}
            Blank(s) == \A i \in DOMAIN s :
                            s[i].shape = "none" /\ s[i].opens = {}
<1>1. \A r \in Y : r.shape = "none" /\ r.opens = {}
  BY DEF Speaks, Tells
<1>2. \A s \in Seq(Y) : Blank(s)
  BY <1>1
<1>3. \A n \in Nat : Newest(rows, n) \in Seq(X)
  BY NewestFacts
<1>4. WithCurrent(Newest(rows, 6), t) \in Seq(Y) /\ Append(Newest(rows, 3), t) \in Seq(Y)
  BY <1>3, WithCurrentFacts
<1>5. Blank(WithCurrent(Newest(rows, 6), t)) /\ Blank(Append(Newest(rows, 3), t))
  BY <1>2, <1>4
<1>6. Progression(rows, t) = 0
  BY <1>5, ProgressionFacts
<1>7. Behaviour(rows, t) = 0
  BY <1>5, <1>6, BehaviourFacts
<1>8. Repetition(category, rows, t) = 0
  <2>1. \A r \in X : ~Suspect(r)
    BY DEF Speaks, Tells, Suspect
  <2>2. \A s \in Seq(X) : \A i \in DOMAIN s : ~Suspect(s[i])
    BY <2>1
  <2>3. Newest(rows, 5) \in Seq(X)
    BY <1>3
  <2>. QED
    BY <2>2, <2>3, RepetitionFacts
<1>9. ContextEscalation(rows, t) = 0 /\ RegexComponent(t) = 0
  BY EscalationFacts, RegexTyped DEF Tells
<1>10. Evidence(rows, t, category) = 0
  BY <1>7, <1>8, <1>9 DEF Evidence
<1>11. ~Abused(rows, t)
  <2>1. \A r \in X : "abuse" \notin r.marks
    BY DEF Speaks, Tells
  <2>2. Newest(rows, 3) \in Seq(X)
    BY <1>3
  <2>3. ~HasMark(Newest(rows, 3), "abuse")
    BY <2>1, <2>2 DEF HasMark
  <2>. QED
    BY <2>3 DEF Abused, Tells
<1>. QED
  BY <1>10, <1>11 DEF ModelAlone

-----------------------------------------------------------------------------
(* A kill is corroborated.  What corroborates it is written down somewhere: in   *)
(* the history, in the session's score, or in what an invocation has worked out  *)
(* from the two; each of these is there only because some prompt has earned it.  *)

Proven(s) == \E q \in Prompts : Session[q] = s /\ earned[q] > 0

EnoughFor(p) == turn[p].confidence >= Policy.singleThreshold \/ Corroborated(p)

SpokenFor(p) == \/ \E q \in Prompts : Session[q] = Session[p] /\ Tells(turn[q])
                \/ Corroborated(p)

\* What a kill rests on; a policy that asks for one verdict asks for no second.
Grounds(p) == (Policy.minMalicious >= 2 => EnoughFor(p)) /\ SpokenFor(p)

\* The verdicts that add to a session's risk.
Raising == Verdicts \ {"safe"}

WorkedOut(c) ==
    LET p == Of[c]
        j == judged[c]
    IN  /\ pc[c] \in {"assess", "order", "raise"} => j.verdict \in Verdicts
        /\ pc[c] = "assess" => /\ j.hostile => j.confidence = turn[p].confidence
                               /\ j.prior \in Nat /\ (j.prior > 0 => Corroborated(p))
                               /\ j.verdict = "malicious" => SpokenFor(p)
        /\ pc[c] = "order" => Grounds(p)
        /\ pc[c] \in {"order", "raise"} =>
               /\ j.kill => j.verdict = "malicious"
               /\ j.after \in Nat
               /\ j.after > 0 => Proven(Session[p]) \/ SessionIncrement[j.verdict] > 0
        /\ pc[c] \in {"event", "record"} =>
               (j.verdict \in Raising => earned[p] > 0) /\ (j.kill => earned[p] > 0)

Earned(p) ==
    /\ earned[p] > 0 => raises[p] > 0
    /\ history[p].verdict \in Raising => earned[p] > 0
    /\ history[p].kill => earned[p] > 0
    /\ orders[p] > 0 => Grounds(p)

Scored(s) == risk[s].score \in Nat /\ (risk[s].score > 0 => Proven(s))

EarnedInv ==
    /\ IInv /\ turn \in Scenarios /\ earned \in [Prompts -> Nat] /\ DOMAIN risk = Sessions
    /\ \A p \in Prompts : Earned(p)
    /\ \A s \in Sessions : Scored(s)
    /\ \A c \in Copies : WorkedOut(c)

\* What a step of c may do to keep it so: prompts only ever earn more.
EarnsMore(c) ==
    LET p == Of[c]
    IN  /\ turn' = turn /\ earned' \in [Prompts -> Nat] /\ DOMAIN risk' = Sessions
        /\ \A q \in Prompts \ {p} : earned'[q] = earned[q]
        /\ earned'[p] >= earned[p]
        /\ Earned(p)' /\ WorkedOut(c)'
        /\ \A s \in Sessions : Scored(s)'

LEMMA EarnedStep ==
    ASSUME EarnedInv, NEW c \in Copies, IInv', Framed(c), EarnsMore(c)
    PROVE  EarnedInv'
<1>1. /\ Of[c] \in Prompts
      /\ \A d \in Copies \ {c} : pc'[d] = pc[d] /\ judged'[d] = judged[d] /\ Of[d] \in Prompts
      /\ \A q \in Prompts \ {Of[c]} :
             history'[q] = history[q] /\ raises'[q] = raises[q] /\ orders'[q] = orders[q]
  <2>1. PICK step : Frame(c, step)
    BY DEF Framed
  <2>. QED
    BY <2>1, DeliveryAssumption DEF Frame, EarnedInv, IInv, Shapes
<1>1a. \A q \in Prompts : earned'[q] >= earned[q] /\ earned[q] \in Nat /\ earned'[q] \in Nat
  BY DEF EarnedInv, EarnsMore
<1>2. \A p \in Prompts : Corroborated(p) => Corroborated(p)'
  BY <1>1a DEF Corroborated
<1>3. \A s \in Sessions : Proven(s) => Proven(s)'
  BY <1>1a DEF Proven
<1>4. \A p \in Prompts : /\ Grounds(p) => Grounds(p)'
                         /\ SpokenFor(p) => SpokenFor(p)'
  BY <1>2 DEF Grounds, EnoughFor, SpokenFor, EarnsMore
<1>5. ASSUME NEW p \in Prompts
      PROVE  Earned(p)'
  BY <1>1, <1>4 DEF Earned, EarnedInv, EarnsMore
<1>6. ASSUME NEW d \in Copies
      PROVE  WorkedOut(d)'
  <2>1. CASE d = c
    BY <2>1 DEF EarnsMore
  <2>2. CASE d # c
    <3>1. WorkedOut(d) /\ Of[d] \in Prompts /\ Session[Of[d]] \in Sessions
      BY <1>1, <2>2, DeliveryAssumption DEF EarnedInv
    <3>2. turn' = turn /\ earned[Of[d]] \in Nat /\ (earned[Of[d]] > 0 => earned'[Of[d]] > 0)
      BY <1>1a, <3>1 DEF EarnsMore
    <3>. QED
      BY <1>1, <1>2, <1>3, <1>4, <2>2, <3>1, <3>2 DEF WorkedOut
  <2>. QED
    BY <2>1, <2>2
<1>. QED
  BY <1>5, <1>6 DEF EarnedInv, EarnsMore

\* A step that leaves the prompt's tables alone earns nothing.
Idle(c) ==
    /\ UNCHANGED <<turn, earned, risk, raises, orders>>
    /\ history'[Of[c]].verdict = history[Of[c]].verdict \/ history'[Of[c]].verdict = "safe"
    /\ history'[Of[c]].kill = history[Of[c]].kill \/ history'[Of[c]].kill = FALSE
    /\ WorkedOut(c)'

LEMMA IdleStep ==
    ASSUME EarnedInv, NEW c \in Copies, Idle(c)
    PROVE  EarnsMore(c)
<1>1. Of[c] \in Prompts /\ earned[Of[c]] \in Nat
  BY DeliveryAssumption DEF EarnedInv
<1>2. Earned(Of[c])'
  BY <1>1 DEF Idle, Earned, EarnedInv, Grounds, EnoughFor, SpokenFor, Corroborated, Raising
<1>. QED
  BY <1>1, <1>2 DEF Idle, EarnsMore, EarnedInv, Scored, Proven

LEMMA IncrementFacts ==
    ASSUME NEW verdict \in Verdicts
    PROVE  /\ SessionIncrement[verdict] \in 0..5000
           /\ verdict = "malicious" => SessionIncrement[verdict] > 0
BY DEF SessionIncrement, Verdicts

(* The score of a session grows only by what a verdict adds, and no verdict adds   *)
(* as much as the score that kills.                                               *)
LEMMA ScoreAfterFacts ==
    ASSUME NEW row, row.score \in Nat, NEW verdict \in Verdicts, NEW regex
    PROVE  /\ ScoreAfter(row, verdict, regex) \in Nat
           /\ ScoreAfter(row, verdict, regex) > 0 =>
                  row.score > 0 \/ SessionIncrement[verdict] > 0
           /\ ScoreAfter(row, verdict, regex) >= 12000 => row.score > 0
<1>. DEFINE n == NormalizeSessionScore(row.score)
            d == SessionDecay(n, row.confirmed, Age(row), verdict, regex)
<1>1. n \in Nat /\ (n > 0 => row.score > 0)
  BY DEF NormalizeSessionScore, AtMost, MAX_SESSION_SCORE
<1>2. d \in Nat /\ (d > 0 => n > 0)
  <2>. HIDE DEF n
  <2>1. d \in {n, n \div 2, (3 * n) \div 4}
    BY DEF SessionDecay
  <2>. HIDE DEF d
  <2>. QED
    BY <1>1, <2>1
<1>3. ScoreAfter(row, verdict, regex) = AtMost(d + SessionIncrement[verdict], 20000)
  BY DEF ScoreAfter, AccumulateSessionScore, MAX_SESSION_SCORE
<1>4. SessionIncrement[verdict] \in 0..5000
  BY IncrementFacts
<1>. DEFINE i == SessionIncrement[verdict]
<1>. HIDE DEF d, n, i
<1>5. \A bound \in Nat : AtMost(d + i, bound) = IF d + i > bound THEN bound ELSE d + i
  BY DEF AtMost
<1>6. ScoreAfter(row, verdict, regex) = IF d + i > 20000 THEN 20000 ELSE d + i
  BY <1>3, <1>5 DEF i
<1>7. i \in 0..5000
  BY <1>4 DEF i
<1>8. d \in Nat /\ (d > 0 => row.score > 0)
  BY <1>1, <1>2
<1>9. ScoreAfter(row, verdict, regex) \in Nat
  BY <1>6, <1>7, <1>8
<1>10. ScoreAfter(row, verdict, regex) > 0 => row.score > 0 \/ i > 0
  BY <1>6, <1>7, <1>8
<1>11. ScoreAfter(row, verdict, regex) >= 12000 => row.score > 0
  BY <1>6, <1>7, <1>8
<1>. QED
  BY <1>9, <1>10, <1>11 DEF i

(* A model that is believed is believed as it answered: an answer that is turned  *)
(* round is no longer an accusation.                                              *)
LEMMA HostileFacts ==
    ASSUME NEW c, NEW recent, NEW answer, DOMAIN judged[c] = JudgementFields,
           Judgement(c, recent, answer).hostile
    PROVE  /\ Judgement(c, recent, answer).confidence = answer.confidence
           /\ answer.label \in ATTACK_LABELS
<1>1. \E rows \in {RowsOf(recent)} :
          /\ Judgement(c, recent, answer).confidence
                 = SafetyOverride(rows, turn[Of[c]], answer).confidence
          /\ ModelLabelIsMalicious(SafetyOverride(rows, turn[Of[c]], answer))
  BY DEF Judgement, JudgementFields
<1>2. ASSUME NEW rows, ModelLabelIsMalicious(SafetyOverride(rows, turn[Of[c]], answer))
      PROVE  /\ SafetyOverride(rows, turn[Of[c]], answer) = answer
             /\ answer.label \in ATTACK_LABELS
  BY <1>2 DEF ModelLabelIsMalicious, SafetyOverride, ATTACK_LABELS
<1>. QED
  BY <1>1, <1>2

(* A malicious row before this one is another prompt that has earned it.          *)
LEMMA PriorFacts ==
    ASSUME EarnedInv, NEW c \in Copies, earned[Of[c]] = 0,
           NEW recent, recent \subseteq SessionRows(Of[c])
    PROVE  /\ PriorMalicious(recent) \in Nat
           /\ PriorMalicious(recent) > 0 => Corroborated(Of[c])
<1>. DEFINE found == {q \in recent : history[q].verdict = "malicious" \/ history[q].kill}
<1>1. recent \subseteq Prompts /\ \A q \in recent : Session[q] = Session[Of[c]]
  BY DEF SessionRows
<1>2. IsFiniteSet(found)
  BY <1>1, DeliveryAssumption, FS_Subset
<1>3. Cardinality(found) \in Nat /\ (Cardinality(found) > 0 => found # {})
  BY <1>2, FS_CardinalityType, FS_EmptySet
<1>4. found # {} => Corroborated(Of[c])
  BY <1>1 DEF EarnedInv, Earned, Corroborated, Raising, Verdicts
<1>. QED
  BY <1>3, <1>4 DEF PriorMalicious

\* A row shows what its prompt shows, if it was put with its text.
LEMMA RowTells ==
    ASSUME NEW q, Known(turn[q])
    PROVE  /\ RowOf(q).verdict = history[q].verdict
           /\ Tells(RowOf(q)) => Tells(turn[q])
<1>. DEFINE text == IF history[q].text THEN turn[q] ELSE Silence
<1>1. RowOf(q) = [x \in DOMAIN Silence \cup {"verdict", "category"} |->
                    IF x \in DOMAIN Silence THEN text[x] ELSE history[q][x]]
  BY DEF RowOf
<1>2. DOMAIN Silence = {"decision", "risk", "label", "confidence", "hints", "opens", "closes",
                        "marks", "intent", "early", "late", "shape", "numbers"}
  BY DEF Silence
<1>. HIDE DEF text
<1>4. /\ RowOf(q).verdict = history[q].verdict
      /\ RowOf(q).decision = text.decision /\ RowOf(q).opens = text.opens
      /\ RowOf(q).late = text.late /\ RowOf(q).shape = text.shape
      /\ RowOf(q).marks = text.marks
  BY <1>1, <1>2
<1>5. Tells(RowOf(q)) => Tells(text)
  BY <1>4 DEF Tells
<1>6. Tells(text) => Tells(turn[q])
  BY DEF text, Tells, Silence
<1>. QED
  BY <1>4, <1>5, <1>6

(* A malicious verdict has something to speak for it: the prompt, a row with its   *)
(* text, or a row that Tier 2 found risky, which is another prompt's.              *)
LEMMA JudgementSpeaks ==
    ASSUME EarnedInv, NEW c \in Copies, earned[Of[c]] = 0, DOMAIN judged[c] = JudgementFields,
           NEW recent, recent \subseteq SessionRows(Of[c]), NEW answer,
           Judgement(c, recent, answer).verdict = "malicious"
    PROVE  SpokenFor(Of[c])
<1>. DEFINE p == Of[c]
            t == turn[p]
            X == {RowOf(q) : q \in recent}
            rows == RowsOf(recent)
            heard == SafetyOverride(rows, t, answer)
            category == InferCategory(heard.label, rows, t)
            score == ScorePrompt(rows, t, heard, category)
<1>1. /\ p \in Prompts /\ recent \in SUBSET Prompts
      /\ \A q \in recent : Session[q] = Session[p]
      /\ turn \in Scenarios
  BY DeliveryAssumption DEF SessionRows, EarnedInv
<1>2. \A q \in Prompts : Known(turn[q])
  BY <1>1, TurnAssumption DEF Known
<1>3. rows \in Seq(X)
  BY <1>1, RowsAreRows, DeliveryAssumption, BoundsAssumption, FS_Subset
<1>4. Judgement(c, recent, answer).verdict = RiskBand(score)
  BY DEF Judgement, JudgementFields
<1>5. ~ModelAlone(rows, t, category)
  <2>1. Known(t)
    BY <1>1, <1>2
  <2>2. score \in 0..100 /\ (ModelAlone(rows, t, category) => score <= 39)
    BY <2>1, ScoreFacts
  <2>. HIDE DEF score, category
  <2>3. score >= 85
    BY <1>4, <2>2 DEF RiskBand
  <2>. QED
    BY <2>2, <2>3
<1>6. CASE Tells(t)
  BY <1>1, <1>6 DEF SpokenFor
<1>7. CASE ~Tells(t)
  <2>1. PICK r \in X : Speaks(r)
    <3>. HIDE DEF X, rows, category
    <3>. QED
      BY <1>1, <1>2, <1>3, <1>5, <1>7, NothingSpeaks
  <2>2. PICK q \in recent : r = RowOf(q)
    BY <2>1
  <2>3. CASE Tells(r)
    <3>1. Tells(turn[q])
      BY <1>1, <1>2, <2>2, <2>3, RowTells
    <3>. QED
      BY <1>1, <2>2, <3>1 DEF SpokenFor
  <2>4. CASE r.verdict \in RISKY_VERDICTS \cup {"watch"}
    <3>1. history[q].verdict \in Raising
      BY <1>1, <1>2, <2>2, <2>4, RowTells DEF Raising, Verdicts, RISKY_VERDICTS
    <3>2. earned[q] > 0 /\ q \in Prompts
      BY <1>1, <2>2, <3>1 DEF EarnedInv, Earned
    <3>. QED
      BY <1>1, <2>2, <3>2 DEF SpokenFor, Corroborated
  <2>. QED
    BY <2>1, <2>3, <2>4 DEF Speaks
<1>. QED
  BY <1>6, <1>7

LEMMA SufficesFacts ==
    ASSUME Policy.minMalicious >= 2, NEW j, j.prior \in Nat, NEW after \in Nat,
           EvidenceSuffices(Policy, j, after)
    PROVE  /\ j.hostile
           /\ \/ j.confidence >= Policy.singleThreshold
              \/ j.prior > 0
              \/ after >= 12000
BY PolicyAssumption DEF EvidenceSuffices, Corroboration, Points

LEMMA AssessedFacts ==
    ASSUME NEW c, NEW row, DOMAIN judged[c] = JudgementFields
    PROVE  LET j == judged[c]
               a == Assessment(c, row)
           IN  /\ a.verdict = j.verdict
               /\ a.after = ScoreAfter(row, j.verdict, RegexComponent(turn[Of[c]]))
               /\ a.kill => EvidenceSuffices(Policy, j, a.after)
BY DEF Assessment, JudgementFields

LEMMA DecideEarns ==
    ASSUME EarnedInv, NEW c \in Copies,
           NEW row, row.score \in Nat, row.score > 0 => Proven(Session[Of[c]]), Decide(c, row)
    PROVE  EarnsMore(c)
<1>. DEFINE p == Of[c]
            j == judged[c]
            a == Assessment(c, row)
<1>1. /\ p \in Prompts /\ DOMAIN j = JudgementFields /\ pc \in [Copies -> PCs]
      /\ DOMAIN judged = Copies /\ pc[c] = "assess" /\ raises[p] = 0 /\ Earned(p) /\ WorkedOut(c)
      /\ earned[p] \in Nat
  BY DeliveryAssumption DEF EarnedInv, IInv, Shapes, HolderIsOnTime, Decide
<1>2. earned[p] = 0
  BY <1>1 DEF Earned
<1>3. Proven(Session[p]) => Corroborated(p)
  BY <1>2 DEF Proven, Corroborated
<1>4. /\ j.verdict \in Verdicts /\ (j.hostile => j.confidence = turn[p].confidence)
      /\ j.prior \in Nat /\ (j.prior > 0 => Corroborated(p))
      /\ (j.verdict = "malicious" => SpokenFor(p))
  BY <1>1 DEF WorkedOut
<1>5. /\ a.after \in Nat
      /\ a.after > 0 => Proven(Session[p]) \/ SessionIncrement[a.verdict] > 0
      /\ a.after >= 12000 => Proven(Session[p])
      /\ a.verdict = j.verdict
  BY <1>1, <1>4, AssessedFacts, ScoreAfterFacts
<1>6. a.kill => Grounds(p) /\ a.verdict = "malicious"
  <2>. HAVE a.kill
  <2>1. EvidenceSuffices(Policy, j, a.after) /\ a.verdict = "malicious"
    BY <1>1, AssessedFacts, AssessmentFacts
  <2>2. ASSUME Policy.minMalicious >= 2
        PROVE  EnoughFor(p)
    <3>1. j.hostile /\ (j.confidence >= Policy.singleThreshold \/ j.prior > 0 \/ a.after >= 12000)
      BY <1>4, <1>5, <2>1, <2>2, SufficesFacts
    <3>. QED
      BY <1>3, <1>4, <1>5, <3>1 DEF EnoughFor
  <2>. QED
    BY <1>4, <1>5, <2>1, <2>2 DEF Grounds
<1>7. /\ UNCHANGED <<turn, earned, risk, raises, orders, history>>
      /\ judged'[c] = a /\ pc'[c] = IF a.kill THEN "order" ELSE "raise"
  BY <1>1 DEF Decide
<1>. HIDE DEF a
<1>8. Grounds(p)' = Grounds(p) /\ Proven(Session[p])' = Proven(Session[p])
  BY <1>7 DEF Grounds, EnoughFor, SpokenFor, Corroborated, Proven
<1>9. WorkedOut(c)'
  BY <1>4, <1>5, <1>6, <1>7, <1>8 DEF WorkedOut
<1>. QED
  BY <1>7, <1>9, IdleStep DEF Idle

LEMMA ClassifyEarns ==
    ASSUME EarnedInv, NEW c \in Copies, Classify(c) \/ ClassifyBlind(c) \/ ClassifyMisread(c)
    PROVE  EarnsMore(c)
<1>. DEFINE p == Of[c]
<1>1. /\ p \in Prompts /\ DOMAIN judged[c] = JudgementFields /\ pc \in [Copies -> PCs]
      /\ DOMAIN judged = Copies /\ pc[c] = "classify" /\ raises[p] = 0 /\ Earned(p)
      /\ earned[p] \in Nat
  BY DeliveryAssumption
  DEF EarnedInv, IInv, Shapes, HolderIsOnTime, Classify, ClassifyBlind, ClassifyMisread
<1>2. earned[p] = 0
  BY <1>1 DEF Earned
<1>3. Recent(p) \subseteq SessionRows(p) /\ {} \subseteq SessionRows(p)
  BY DEF Recent
<1>4. PICK recent \in {Recent(p), {}}, answer \in {Answer(c), [label |-> "SAFE", confidence |-> 0]} :
          judged' = [judged EXCEPT ![c] = Judgement(c, recent, answer)]
  BY DEF Classify, ClassifyBlind, ClassifyMisread
<1>. DEFINE a == Judgement(c, recent, answer)
<1>5. a.verdict \in Verdicts
  BY <1>1, JudgementFacts
<1>6. a.prior = PriorMalicious(recent)
  BY <1>1 DEF Judgement, JudgementFields
<1>7. a.prior \in Nat /\ (a.prior > 0 => Corroborated(p))
  BY <1>2, <1>3, <1>6, PriorFacts
<1>8. a.hostile => a.confidence = turn[p].confidence
  BY <1>1, HostileFacts DEF Answer, ATTACK_LABELS
<1>9. /\ UNCHANGED <<turn, earned, risk, raises, orders, history>>
      /\ judged'[c] = a /\ pc'[c] = "assess"
  BY <1>1, <1>4 DEF Classify, ClassifyBlind, ClassifyMisread
<1>. HIDE DEF a
<1>10. Corroborated(p)' = Corroborated(p) /\ SpokenFor(p)' = SpokenFor(p)
  BY <1>9 DEF Corroborated, SpokenFor
<1>11. a.verdict = "malicious" => SpokenFor(p)
  BY <1>1, <1>2, <1>3, JudgementSpeaks DEF a
<1>12. WorkedOut(c)'
  BY <1>5, <1>7, <1>8, <1>9, <1>10, <1>11 DEF WorkedOut
<1>. QED
  BY <1>9, <1>12, IdleStep DEF Idle

LEMMA IngestEarns ==
    ASSUME EarnedInv, NEW c \in Copies,
           (\E mode \in Modes : Ingest(c, mode)) \/ IngestUnanswered(c) \/ Reject(c)
    PROVE  EarnsMore(c)
<1>. DEFINE p == Of[c]
<1>1. /\ p \in Prompts /\ pc \in [Copies -> PCs] /\ DOMAIN judged = Copies
      /\ DOMAIN history = Prompts /\ DOMAIN history[p] = RowFields
  BY DeliveryAssumption DEF EarnedInv, IInv, Shapes
<1>2. CASE \E mode \in Modes : Ingest(c, mode)
  <2>1. PICK mode \in Modes : Ingest(c, mode)
    BY <1>2
  <2>2. CASE Untaken(p)
    <3>. DEFINE a == Opening(p, mode)
    <3>1. /\ UNCHANGED <<turn, earned, risk, raises, orders>>
          /\ judged'[c] = a /\ pc'[c] = FirstStep[Route(p, mode)]
          /\ history'[p].verdict = history[p].verdict /\ history'[p].kill = history[p].kill
      BY <1>1, <2>1, <2>2 DEF Ingest, Put, RowFields
    <3>2. \/ pc'[c] = "classify"
          \/ pc'[c] = "record" /\ a.verdict \notin Raising /\ ~a.kill
          \/ /\ pc'[c] = "assess" /\ a.verdict = "malicious" /\ ~a.hostile /\ a.prior = 0
             /\ turn[p].decision = "block"
      BY <3>1 DEF FirstStep, Route, Opening, NoJudgement, Raising, Verdicts
    <3>. HIDE DEF a
    <3>2a. turn[p].decision = "block" => SpokenFor(p)'
      BY <1>1, <3>1 DEF SpokenFor, Tells
    <3>3. WorkedOut(c)'
      BY <3>1, <3>2, <3>2a DEF WorkedOut, Verdicts
    <3>. QED
      BY <3>1, <3>3, IdleStep DEF Idle
  <2>3. CASE ~Untaken(p)
    BY <1>1, <2>1, <2>3, IdleStep DEF Ingest, Idle, WorkedOut
  <2>. QED
    BY <2>2, <2>3
<1>3. CASE IngestUnanswered(c)
  BY <1>1, <1>3, IdleStep DEF IngestUnanswered, Put, RowFields, Idle, WorkedOut
<1>4. CASE Reject(c)
  BY <1>1, <1>4, IdleStep DEF Reject, Idle, WorkedOut
<1>. QED
  BY <1>2, <1>3, <1>4

LEMMA OrderEarns ==
    ASSUME EarnedInv, NEW c \in Copies, Order(c) \/ OrderRefused(c) \/ OrderUnanswered(c)
    PROVE  EarnsMore(c)
<1>. DEFINE p == Of[c]
<1>1. /\ p \in Prompts /\ pc \in [Copies -> PCs] /\ Earned(p) /\ WorkedOut(c)
      /\ earned[p] \in Nat /\ orders \in [Prompts -> Nat] /\ pc[c] = "order"
  BY DeliveryAssumption
  DEF EarnedInv, IInv, Shapes, Order, OrderRefused, OrderUnanswered
<1>2. /\ UNCHANGED <<turn, earned, risk, raises, history, judged>>
      /\ pc'[c] \in {"raise", "failing"}
  BY <1>1 DEF Order, OrderRefused, OrderUnanswered
<1>3. Grounds(p)' /\ Proven(Session[p])' = Proven(Session[p])
  BY <1>1, <1>2 DEF WorkedOut, Grounds, EnoughFor, SpokenFor, Corroborated, Proven
<1>4. WorkedOut(c)'
  BY <1>1, <1>2, <1>3 DEF WorkedOut
<1>5. Earned(p)'
  BY <1>1, <1>2, <1>3 DEF Earned
<1>. QED
  BY <1>1, <1>2, <1>4, <1>5 DEF EarnsMore, EarnedInv, Scored, Proven

LEMMA RaiseEarns ==
    ASSUME EarnedInv, NEW c \in Copies, Raise(c) \/ RaiseUndated(c) \/ RaiseUnanswered(c)
    PROVE  EarnsMore(c)
<1>. DEFINE p == Of[c]
            j == judged[c]
            i == SessionIncrement[j.verdict]
<1>1. /\ p \in Prompts /\ Session[p] \in Sessions /\ pc \in [Copies -> PCs]
      /\ Earned(p) /\ WorkedOut(c) /\ pc[c] = "raise" /\ DOMAIN risk = Sessions
      /\ earned \in [Prompts -> Nat] /\ raises \in [Prompts -> Nat]
  BY DeliveryAssumption
  DEF EarnedInv, IInv, Shapes, Raise, RaiseUndated, RaiseUnanswered
<1>2. /\ UNCHANGED <<turn, orders, history, judged>>
      /\ pc'[c] \in {"event", "failing"}
      /\ \E dated \in BOOLEAN : WriteRisk(c, dated)
  BY <1>1 DEF Raise, RaiseUndated, RaiseUnanswered
<1>3. /\ i \in Nat
      /\ j.verdict \in Raising => i > 0
      /\ j.after \in Nat
      /\ j.after > 0 => Proven(Session[p]) \/ i > 0
      /\ j.kill => j.verdict = "malicious"
  <2>1. /\ j.verdict \in Verdicts /\ j.after \in Nat
        /\ j.after > 0 => Proven(Session[p]) \/ i > 0
        /\ j.kill => j.verdict = "malicious"
    BY <1>1 DEF WorkedOut
  <2>2. \A v \in Verdicts : /\ SessionIncrement[v] \in Nat
                            /\ v \in Raising => SessionIncrement[v] > 0
    BY DEF SessionIncrement, Verdicts, Raising
  <2>. QED
    BY <2>1, <2>2 DEF Raising
<1>4. /\ earned' \in [Prompts -> Nat] /\ earned'[p] = earned[p] + i /\ raises'[p] = raises[p] + 1
      /\ \A q \in Prompts \ {p} : earned'[q] = earned[q]
  BY <1>1, <1>2, <1>3 DEF WriteRisk
<1>5. /\ DOMAIN risk' = Sessions /\ risk'[Session[p]].score = j.after
      /\ \A s \in Sessions \ {Session[p]} : risk'[s] = risk[s]
  BY <1>1, <1>2 DEF WriteRisk, RaisedRow
<1>6. Corroborated(p) => Corroborated(p)'
  BY <1>4 DEF Corroborated
<1>7. Earned(p)'
  BY <1>1, <1>2, <1>3, <1>4, <1>6 DEF Earned, Grounds, EnoughFor, SpokenFor
<1>8. WorkedOut(c)'
  BY <1>1, <1>2, <1>3, <1>4 DEF WorkedOut, Raising, Verdicts
<1>9. \A s \in Sessions : Proven(s) => Proven(s)'
  BY <1>1, <1>3, <1>4 DEF Proven
<1>10. i > 0 => Proven(Session[p])'
  BY <1>1, <1>3, <1>4 DEF Proven
<1>11. \A s \in Sessions : Scored(s)'
  BY <1>1, <1>3, <1>5, <1>9, <1>10 DEF Scored, EarnedInv
<1>. QED
  BY <1>1, <1>2, <1>3, <1>4, <1>5, <1>7, <1>8, <1>11 DEF EarnsMore

LEMMA WriteEarns ==
    ASSUME EarnedInv, NEW c \in Copies, WriteEvent(c) \/ Record(c) \/ RecordLost(c)
    PROVE  EarnsMore(c)
<1>. DEFINE p == Of[c]
<1>1. /\ p \in Prompts /\ pc \in [Copies -> PCs] /\ Earned(p) /\ WorkedOut(c)
      /\ DOMAIN history = Prompts /\ DOMAIN history[p] = RowFields /\ earned[p] \in Nat
  BY DeliveryAssumption DEF EarnedInv, IInv, Shapes
<1>2. CASE WriteEvent(c)
  BY <1>1, <1>2, IdleStep DEF WriteEvent, Idle, WorkedOut
<1>3. CASE RecordLost(c)
  BY <1>1, <1>3, IdleStep DEF RecordLost, Idle, WorkedOut
<1>4. CASE Record(c)
  <2>1. /\ UNCHANGED <<turn, earned, risk, raises, orders, judged>>
        /\ pc[c] = "record" /\ pc'[c] = "book"
        /\ history'[p].verdict = judged[c].verdict /\ history'[p].kill = judged[c].kill
    BY <1>1, <1>4 DEF Record, JudgedRow, RowFields
  <2>2. Earned(p)' /\ WorkedOut(c)'
    BY <1>1, <2>1 DEF Earned, WorkedOut, Grounds, EnoughFor, SpokenFor, Corroborated
  <2>. QED
    BY <1>1, <2>1, <2>2 DEF EarnsMore, EarnedInv, Scored, Proven
<1>. QED
  BY <1>2, <1>3, <1>4

LEMMA EndEarns ==
    ASSUME EarnedInv, NEW c \in Copies,
           \/ Book(c) \/ BookLost(c) \/ Raises(c) \/ Fail(c) \/ FailLost(c) \/ FailRaises(c)
           \/ Crash(c)
    PROVE  EarnsMore(c)
<1>1. /\ Of[c] \in Prompts /\ pc \in [Copies -> PCs]
      /\ DOMAIN history = Prompts /\ DOMAIN history[Of[c]] = RowFields
  BY DeliveryAssumption DEF EarnedInv, IInv, Shapes
<1>2. CASE Book(c) \/ BookLost(c) \/ FailLost(c) \/ FailRaises(c)
  BY <1>1, <1>2, IdleStep DEF Book, BookLost, FailLost, FailRaises, Ends, Idle, WorkedOut
<1>3. CASE Raises(c) \/ Crash(c)
  BY <1>1, <1>3, IdleStep DEF Raises, Crash, Ends, Idle, WorkedOut
<1>4. CASE Fail(c)
  BY <1>1, <1>4, IdleStep DEF Fail, ErrorRow, RowFields, Ends, Idle, WorkedOut
<1>. QED
  BY <1>2, <1>3, <1>4

LEMMA SpecEarnedInv == Spec => []EarnedInv
<1>1. Init => EarnedInv
  <2>. SUFFICES ASSUME Init PROVE EarnedInv
    OBVIOUS
  <2>. QED
    BY InitIInv
    DEF Init, NoRow, NewSession, EarnedInv, Earned, Scored, WorkedOut, Raising, Verdicts
<1>2. ASSUME EarnedInv, NEW c \in Copies, Step(c) \/ Failure(c)
      PROVE  EarnsMore(c)
  <2>1. CASE Assess(c)
    <3>1. risk[Session[Of[c]]].score \in Nat
          /\ (risk[Session[Of[c]]].score > 0 => Proven(Session[Of[c]]))
      BY <1>2, DeliveryAssumption DEF EarnedInv, Scored
    <3>. QED
      BY <1>2, <2>1, <3>1, DecideEarns DEF Assess
  <2>2. CASE AssessBlind(c)
    BY <1>2, <2>2, DecideEarns DEF AssessBlind, NewSession
  <2>. QED
    BY <1>2, <2>1, <2>2, IngestEarns, ClassifyEarns, OrderEarns, RaiseEarns, WriteEarns, EndEarns
    DEF Step, Failure
<1>3. ASSUME EarnedInv, [Next]_vars
      PROVE  EarnedInv'
  <2>1. ASSUME NEW c \in Copies, Step(c) \/ Failure(c)
        PROVE  EarnedInv'
    BY <1>2, <1>3, <2>1, CopyStep, EarnedStep DEF EarnedInv
  <2>2. CASE Tick \/ UNCHANGED vars
    <3>1. /\ UNCHANGED <<pc, judged, turn, history, risk, raises, orders, earned>>
          /\ IInv'
      BY <1>3, <2>2, TickStep, StutterStep DEF Tick, vars, EarnedInv
    <3>. QED
      BY <1>3, <3>1 DEF EarnedInv, Earned, Scored, WorkedOut, Grounds, EnoughFor, SpokenFor,
         Corroborated, Proven
  <2>. QED
    BY <1>3, <2>1, <2>2 DEF Next
<1>. QED
  BY <1>1, <1>3, PTL DEF Spec

(* Where the policy asks for more than one malicious verdict, no session is       *)
(* ordered killed on one mid-confidence hit, whatever the number of invocations   *)
(* that read and overwrite its history and its score at once                      *)
(* (evaluate_tier2_kill_eligibility, _trigger_enforcement).                       *)
THEOREM KillsAreCorroborated ==
    ASSUME Policy.minMalicious >= 2
    PROVE  Spec => []KillIsCorroborated
<1>1. EarnedInv => KillIsCorroborated
  BY DeliveryAssumption
  DEF EarnedInv, Earned, Grounds, EnoughFor, KillIsCorroborated, IInv, Shapes
<1>. QED
  BY SpecEarnedInv, <1>1, PTL

(* However sure the model is, its label alone gets nobody killed: something in the  *)
(* text of the session tells against it, or Tier 1 blocked the prompt, or another   *)
(* prompt of the session was found risky.  Every term of _score_prompt but the      *)
(* model's is nought otherwise, and the score is capped below "suspicious".         *)
THEOREM ModelAloneKillsNobody == Spec => []ModelAloneNeverKills
<1>1. EarnedInv => ModelAloneNeverKills
  BY DEF EarnedInv, Earned, Grounds, SpokenFor, ModelAloneNeverKills
<1>. QED
  BY SpecEarnedInv, <1>1, PTL
-----------------------------------------------------------------------------
(* The scores stay on their scale, and what a score decides agrees with what it  *)
(* was worked out from: the safe-intent cap keeps it below "watch", a label that *)
(* is believed never leaves it at nought.                                        *)

Sound(c) ==
    LET j == judged[c]
    IN  /\ j.verdict \in Verdicts \cup {"none", "skipped"}
        /\ j.score \in 0..100 /\ j.after \in 0..MAX_SESSION_SCORE
        /\ j.kill \in BOOLEAN
        /\ j.safe => j.verdict # "malicious"
        /\ j.hostile => j.score > 0 /\ (j.score >= 85 => j.verdict = "malicious")
        /\ j.evident \/ j.kill => j.verdict = "malicious"
        /\ pc[c] = "classify" => ~j.evident /\ ~j.kill

Rated(s) ==
    risk[s].score \in 0..MAX_SESSION_SCORE /\ risk[s].riskyAt \in 0..clock /\ risk[s].updatedAt \in 0..clock

ScoreInv ==
    /\ EarnedInv
    /\ \A c \in Copies : Sound(c)
    /\ \A s \in Sessions : Rated(s)
    /\ \A p \in Prompts : history[p].kill \in BOOLEAN
    /\ reported \subseteq Prompts /\ dropped \subseteq Prompts
    /\ clock \in 1..MaxClock /\ faults \in 0..MaxFaults

\* What a step of c may do to keep it so.
KeepsScore(c) ==
    /\ Sound(c)'
    /\ \A s \in Sessions : Rated(s)'
    /\ history'[Of[c]].kill \in BOOLEAN
    /\ clock' = clock /\ faults' \in 0..MaxFaults

LEMMA ScoreStep ==
    ASSUME ScoreInv, NEW c \in Copies, EarnedInv', Framed(c), KeepsInSight(c), KeepsScore(c)
    PROVE  ScoreInv'
<1>1. /\ Of[c] \in Prompts
      /\ \A d \in Copies \ {c} : pc'[d] = pc[d] /\ judged'[d] = judged[d]
      /\ \A q \in Prompts \ {Of[c]} : history'[q] = history[q]
  <2>1. PICK step : Frame(c, step)
    BY DEF Framed
  <2>. QED
    BY <2>1, DeliveryAssumption DEF Frame, ScoreInv, EarnedInv, IInv, Shapes
<1>2. \A d \in Copies : Sound(d)'
  BY <1>1 DEF ScoreInv, KeepsScore, Sound
<1>3. \A q \in Prompts : history'[q].kill \in BOOLEAN
  BY <1>1 DEF ScoreInv, KeepsScore
<1>4. reported' \subseteq Prompts /\ dropped' \subseteq Prompts
  BY <1>1 DEF ScoreInv, KeepsInSight
<1>. QED
  BY <1>2, <1>3, <1>4 DEF ScoreInv, KeepsScore

LEMMA JudgementSound ==
    ASSUME NEW c, NEW recent, NEW answer, Known(turn[Of[c]]), DOMAIN judged[c] = JudgementFields
    PROVE  LET a == Judgement(c, recent, answer)
           IN  /\ a.verdict \in Verdicts /\ a.score \in 0..100
               /\ a.safe => a.verdict # "malicious"
               /\ a.hostile => a.score > 0 /\ (a.score >= 85 => a.verdict = "malicious")
               /\ a.after = judged[c].after
               /\ a.evident = judged[c].evident /\ a.kill = judged[c].kill
<1>. DEFINE t == turn[Of[c]]
            rows == RowsOf(recent)
            heard == SafetyOverride(rows, t, answer)
            category == InferCategory(heard.label, rows, t)
            score == ScorePrompt(rows, t, heard, category)
            safe == SafeIntent(rows, t)
            hostile == ModelLabelIsMalicious(heard)
            a == Judgement(c, recent, answer)
<1>1. /\ a.verdict = RiskBand(score) /\ a.score = score /\ a.safe = safe /\ a.hostile = hostile
      /\ a.after = judged[c].after /\ a.evident = judged[c].evident /\ a.kill = judged[c].kill
  BY DEF Judgement, JudgementFields
<1>2. score \in 0..100 /\ (safe => score <= 19) /\ (hostile => score > 0)
  BY ScoreFacts
<1>. HIDE DEF score, safe, hostile, a
<1>4. /\ RiskBand(score) \in Verdicts
      /\ score <= 19 => RiskBand(score) # "malicious"
      /\ score >= 85 => RiskBand(score) = "malicious"
  BY <1>2 DEF RiskBand, Verdicts
<1>5. /\ a.verdict \in Verdicts /\ a.score \in 0..100
      /\ a.safe => a.verdict # "malicious"
      /\ a.hostile => a.score > 0 /\ (a.score >= 85 => a.verdict = "malicious")
  BY <1>1, <1>2, <1>4
<1>. QED
  BY <1>1, <1>5 DEF a

LEMMA AssessmentSound ==
    ASSUME NEW c, NEW row, DOMAIN judged[c] = JudgementFields, Sound(c)
    PROVE  LET j == judged[c]
               a == Assessment(c, row)
           IN  /\ a.verdict = j.verdict /\ a.score = j.score
               /\ a.safe = j.safe /\ a.hostile = j.hostile
               /\ a.kill \in BOOLEAN
               /\ a.evident \/ a.kill => j.verdict = "malicious"
<1>. DEFINE j == judged[c]
            a == Assessment(c, row)
            after == ScoreAfter(row, j.verdict, RegexComponent(turn[Of[c]]))
            enough == EvidenceSuffices(Policy, j, after)
<1>1. /\ a.verdict = j.verdict /\ a.score = j.score /\ a.safe = j.safe /\ a.hostile = j.hostile
      /\ a.evident = enough
      /\ a.kill = (enough /\ KillGuards /\ j.mode = "enforce" /\ j.verdict = "malicious")
  BY DEF Assessment, JudgementFields
<1>2. enough => j.verdict = "malicious"
  <2>. HIDE DEF after
  <2>1. enough => j.hostile /\ (IF j.score <= 0 THEN after \div 100 ELSE j.score) >= 90
    BY DEF EvidenceSuffices, ScoreSuffices
  <2>. QED
    BY <2>1 DEF Sound
<1>. HIDE DEF a, enough
<1>3. a.kill \in BOOLEAN /\ (a.evident \/ a.kill => j.verdict = "malicious")
  BY <1>1, <1>2
<1>. QED
  BY <1>1, <1>3 DEF a

LEMMA AfterBounded ==
    ASSUME NEW row, row.score \in Nat, NEW verdict \in Verdicts, NEW regex
    PROVE  ScoreAfter(row, verdict, regex) \in 0..MAX_SESSION_SCORE
<1>1. ScoreAfter(row, verdict, regex) \in Nat
  BY ScoreAfterFacts
<1>. DEFINE total == SessionDecay(NormalizeSessionScore(row.score), row.confirmed, Age(row), verdict, regex)
                       + SessionIncrement[verdict]
<1>2. ScoreAfter(row, verdict, regex) =
          IF total > MAX_SESSION_SCORE THEN MAX_SESSION_SCORE ELSE total
  BY DEF ScoreAfter, AccumulateSessionScore, AtMost
<1>3. total \in Int
  <2>. DEFINE n == NormalizeSessionScore(row.score)
              d == SessionDecay(n, row.confirmed, Age(row), verdict, regex)
              i == SessionIncrement[verdict]
  <2>1. n \in Nat
    BY DEF NormalizeSessionScore, AtMost, MAX_SESSION_SCORE
  <2>2. d \in {n, n \div 2, (3 * n) \div 4}
    <3>. HIDE DEF n
    <3>. QED
      BY DEF SessionDecay
  <2>3. i \in Nat
    BY DEF SessionIncrement, Verdicts
  <2>. HIDE DEF n, d, i
  <2>4. d + i \in Int
    BY <2>1, <2>2, <2>3
  <2>. QED
    BY <2>4 DEF n, d, i
<1>4. MAX_SESSION_SCORE \in Nat
  BY DEF MAX_SESSION_SCORE
<1>. HIDE DEF total
<1>. QED
  BY <1>1, <1>2, <1>3, <1>4

-----------------------------------------------------------------------------

\* What a step that judges leaves alone.
Aside(c) ==
    /\ UNCHANGED <<risk, clock>> /\ faults' \in 0..MaxFaults
    /\ history'[Of[c]].kill = history[Of[c]].kill \/ history'[Of[c]].kill = FALSE

LEMMA AsideStep ==
    ASSUME ScoreInv, NEW c \in Copies, Aside(c), Sound(c)'
    PROVE  KeepsScore(c)
BY DeliveryAssumption DEF ScoreInv, Aside, KeepsScore, Rated

LEMMA IngestScores ==
    ASSUME ScoreInv, NEW c \in Copies,
           (\E mode \in Modes : Ingest(c, mode)) \/ IngestUnanswered(c) \/ Reject(c)
    PROVE  KeepsScore(c)
<1>. DEFINE p == Of[c]
<1>1. /\ p \in Prompts /\ pc \in [Copies -> PCs] /\ DOMAIN judged = Copies /\ Sound(c)
      /\ DOMAIN history = Prompts /\ DOMAIN history[p] = RowFields
      /\ faults \in 0..MaxFaults /\ MaxFaults \in Nat
  BY DeliveryAssumption, BoundsAssumption DEF ScoreInv, EarnedInv, IInv, Shapes
<1>2. CASE \E mode \in Modes : Ingest(c, mode)
  <2>1. PICK mode \in Modes : Ingest(c, mode)
    BY <1>2
  <2>2. CASE Untaken(p)
    <3>. DEFINE a == Opening(p, mode)
    <3>1. /\ UNCHANGED <<risk, clock, faults>>
          /\ judged'[c] = a /\ history'[p].kill = history[p].kill
      BY <1>1, <2>1, <2>2 DEF Ingest, Put, RowFields
    <3>2. RegexComponent(turn[p]) \in 0..95
      BY RegexTyped
    <3>3. /\ a.verdict \in Verdicts \cup {"none", "skipped"} /\ a.score \in 0..100 /\ a.after = 0
          /\ a.safe = FALSE /\ a.hostile = FALSE /\ a.evident = FALSE /\ a.kill = FALSE
      BY <3>2 DEF Opening, NoJudgement, Verdicts
    <3>. HIDE DEF a
    <3>4. MAX_SESSION_SCORE \in Nat
      BY DEF MAX_SESSION_SCORE
    <3>5. a.after \in 0..MAX_SESSION_SCORE
      BY <3>3, <3>4
    <3>5a. a.kill \in BOOLEAN
      BY <3>3, Zenon
    <3>6. Sound(c)'
      BY <3>1, <3>3, <3>5, <3>5a, Zenon DEF Sound
    <3>. QED
      BY <1>1, <3>1, <3>6, AsideStep DEF Aside
  <2>3. CASE ~Untaken(p)
    BY <1>1, <2>1, <2>3, AsideStep DEF Ingest, Aside, Sound
  <2>. QED
    BY <2>2, <2>3
<1>3. CASE IngestUnanswered(c)
  <2>1. /\ UNCHANGED <<risk, judged, clock>> /\ faults' \in 0..MaxFaults
        /\ history'[p].kill = history[p].kill /\ pc'[c] = "done"
    BY <1>1, <1>3 DEF IngestUnanswered, Put, RowFields
  <2>. QED
    BY <1>1, <2>1, AsideStep DEF Aside, Sound
<1>4. CASE Reject(c)
  BY <1>1, <1>4, AsideStep DEF Reject, Aside, Sound
<1>. QED
  BY <1>2, <1>3, <1>4

LEMMA ClassifyScores ==
    ASSUME ScoreInv, NEW c \in Copies, Classify(c) \/ ClassifyBlind(c) \/ ClassifyMisread(c)
    PROVE  KeepsScore(c)
<1>. DEFINE p == Of[c]
<1>1. /\ p \in Prompts /\ pc \in [Copies -> PCs] /\ DOMAIN judged = Copies /\ Sound(c)
      /\ DOMAIN judged[c] = JudgementFields /\ pc[c] = "classify"
      /\ faults \in 0..MaxFaults /\ MaxFaults \in Nat
  BY DeliveryAssumption, BoundsAssumption
  DEF ScoreInv, EarnedInv, IInv, Shapes, Classify, ClassifyBlind, ClassifyMisread
<1>2. Known(turn[p])
  BY <1>1, TurnAssumption DEF Known, ScoreInv, EarnedInv
<1>3. PICK recent, answer : judged' = [judged EXCEPT ![c] = Judgement(c, recent, answer)]
  BY DEF Classify, ClassifyBlind, ClassifyMisread
<1>. DEFINE a == Judgement(c, recent, answer)
<1>4. /\ a.verdict \in Verdicts /\ a.score \in 0..100
      /\ a.safe => a.verdict # "malicious"
      /\ a.hostile => a.score > 0 /\ (a.score >= 85 => a.verdict = "malicious")
      /\ a.after = judged[c].after
      /\ a.evident = judged[c].evident /\ a.kill = judged[c].kill
  BY <1>1, <1>2, JudgementSound
<1>. HIDE DEF a
<1>5. /\ UNCHANGED <<risk, history, clock>> /\ faults' \in 0..MaxFaults
      /\ judged'[c] = a /\ pc'[c] = "assess"
  BY <1>1, <1>3 DEF Classify, ClassifyBlind, ClassifyMisread, a
<1>6. Sound(c)'
  BY <1>1, <1>4, <1>5 DEF Sound
<1>. QED
  BY <1>5, <1>6, AsideStep DEF Aside

LEMMA DecideScores ==
    ASSUME ScoreInv, NEW c \in Copies, NEW row, row.score \in Nat, Decide(c, row),
           UNCHANGED faults \/ Fault
    PROVE  KeepsScore(c)
<1>. DEFINE j == judged[c]
            a == Assessment(c, row)
<1>1. /\ Of[c] \in Prompts /\ pc \in [Copies -> PCs] /\ DOMAIN judged = Copies /\ Sound(c)
      /\ DOMAIN j = JudgementFields /\ j.verdict \in Verdicts
      /\ faults \in 0..MaxFaults /\ MaxFaults \in Nat
  BY DeliveryAssumption, BoundsAssumption
  DEF ScoreInv, EarnedInv, WorkedOut, IInv, Shapes, Decide
<1>2. /\ a.verdict = j.verdict /\ a.score = j.score /\ a.safe = j.safe /\ a.hostile = j.hostile
      /\ a.kill \in BOOLEAN
      /\ a.evident \/ a.kill => j.verdict = "malicious"
  BY <1>1, AssessmentSound
<1>3. a.after \in 0..MAX_SESSION_SCORE
  BY <1>1, AssessedFacts, AfterBounded
<1>4. /\ UNCHANGED <<risk, history, clock>> /\ faults' \in 0..MaxFaults
      /\ judged'[c] = a /\ pc'[c] = IF a.kill THEN "order" ELSE "raise"
  BY <1>1 DEF Decide
<1>. HIDE DEF a
<1>5. Sound(c)'
  BY <1>1, <1>2, <1>3, <1>4 DEF Sound
<1>. QED
  BY <1>4, <1>5, AsideStep DEF Aside

LEMMA RaiseScores ==
    ASSUME ScoreInv, NEW c \in Copies, Raise(c) \/ RaiseUndated(c) \/ RaiseUnanswered(c)
    PROVE  KeepsScore(c)
<1>. DEFINE s == Session[Of[c]]
<1>1. /\ Of[c] \in Prompts /\ s \in Sessions /\ pc \in [Copies -> PCs] /\ Sound(c)
      /\ DOMAIN risk = Sessions /\ Rated(s) /\ clock \in 1..MaxClock /\ MaxClock \in Nat
      /\ faults \in 0..MaxFaults /\ MaxFaults \in Nat
  BY DeliveryAssumption, BoundsAssumption DEF ScoreInv, EarnedInv, IInv, Shapes
<1>2. /\ UNCHANGED <<history, judged, clock>> /\ faults' \in 0..MaxFaults
      /\ pc'[c] \in {"event", "failing"}
      /\ \E dated \in BOOLEAN : WriteRisk(c, dated)
  <2>1. /\ UNCHANGED <<history, judged, clock>>
        /\ \E dated \in BOOLEAN : WriteRisk(c, dated)
    BY DEF Raise, RaiseUndated, RaiseUnanswered
  <2>2. faults' \in 0..MaxFaults
    <3>1. UNCHANGED faults \/ Fault
      BY DEF Raise, RaiseUndated, RaiseUnanswered
    <3>. QED
      BY <1>1, <3>1
  <2>3. pc'[c] \in {"event", "failing"}
    BY <1>1 DEF Raise, RaiseUndated, RaiseUnanswered
  <2>. QED
    BY <2>1, <2>2, <2>3
<1>3. Sound(c)'
  BY <1>1, <1>2 DEF Sound
<1>4. PICK dated \in BOOLEAN : risk' = [risk EXCEPT ![s] = RaisedRow(c, risk[s], dated)]
  BY <1>2 DEF WriteRisk
<1>5. /\ RaisedRow(c, risk[s], dated).score = judged[c].after
      /\ RaisedRow(c, risk[s], dated).riskyAt \in {clock, risk[s].riskyAt}
      /\ RaisedRow(c, risk[s], dated).updatedAt = clock
  BY DEF RaisedRow
<1>6. \A u \in Sessions : Rated(u)'
  BY <1>1, <1>2, <1>4, <1>5 DEF Rated, Sound, ScoreInv
<1>. QED
  BY <1>1, <1>2, <1>3, <1>6 DEF KeepsScore, ScoreInv

LEMMA RestScores ==
    ASSUME ScoreInv, NEW c \in Copies,
           \/ Order(c) \/ OrderRefused(c) \/ OrderUnanswered(c) \/ WriteEvent(c) \/ Record(c)
           \/ RecordLost(c) \/ Raises(c) \/ Book(c) \/ BookLost(c) \/ Fail(c) \/ FailLost(c)
           \/ FailRaises(c) \/ Crash(c)
    PROVE  KeepsScore(c)
<1>1. /\ Of[c] \in Prompts /\ pc \in [Copies -> PCs] /\ DOMAIN judged = Copies /\ Sound(c)
      /\ DOMAIN history = Prompts /\ DOMAIN history[Of[c]] = RowFields
      /\ faults \in 0..MaxFaults /\ MaxFaults \in Nat
  BY DeliveryAssumption, BoundsAssumption DEF ScoreInv, EarnedInv, IInv, Shapes
<1>2. CASE Order(c) \/ OrderRefused(c) \/ OrderUnanswered(c) \/ WriteEvent(c) \/ RecordLost(c) \/ Raises(c)
  <2>1. /\ UNCHANGED <<risk, history, judged, clock>> /\ faults' \in 0..MaxFaults
        /\ pc'[c] # "classify"
    BY <1>1, <1>2
    DEF Order, OrderRefused, OrderUnanswered, WriteEvent, RecordLost, Raises
  <2>. QED
    BY <1>1, <2>1, AsideStep DEF Aside, Sound
<1>3. CASE Record(c)
  <2>1. /\ UNCHANGED <<risk, judged, clock, faults>> /\ pc'[c] = "book"
        /\ history'[Of[c]].kill = judged[c].kill
    BY <1>1, <1>3 DEF Record, JudgedRow, RowFields
  <2>. QED
    BY <1>1, <2>1 DEF KeepsScore, ScoreInv, Rated, Sound
<1>4. CASE Book(c) \/ BookLost(c) \/ Fail(c) \/ FailLost(c) \/ FailRaises(c) \/ Crash(c)
  <2>1. UNCHANGED <<risk, clock>> /\ faults' \in 0..MaxFaults
    BY <1>1, <1>4 DEF Book, BookLost, Fail, FailLost, FailRaises, Crash
  <2>2. judged'[c] = NoJudgement /\ pc'[c] # "classify"
    BY <1>1, <1>4 DEF Book, BookLost, Fail, FailLost, FailRaises, Crash, Ends
  <2>3. history'[Of[c]].kill = history[Of[c]].kill \/ history'[Of[c]].kill = FALSE
    BY <1>1, <1>4 DEF Book, BookLost, Fail, FailLost, FailRaises, Crash, ErrorRow, RowFields
  <2>4. MAX_SESSION_SCORE \in Nat
    BY DEF MAX_SESSION_SCORE
  <2>5. Sound(c)'
    BY <2>2, <2>4 DEF Sound, NoJudgement
  <2>. QED
    BY <2>1, <2>3, <2>5, AsideStep DEF Aside
<1>. QED
  BY <1>2, <1>3, <1>4

LEMMA SpecScoreInv == Spec => []ScoreInv
<1>1. Init /\ EarnedInv => ScoreInv
  <2>. SUFFICES ASSUME Init, EarnedInv PROVE ScoreInv
    OBVIOUS
  <2>1. MAX_SESSION_SCORE \in Nat
    BY DEF MAX_SESSION_SCORE
  <2>2. \A c \in Copies : Sound(c)
    <3>1. NoJudgement.score \in 0..100 /\ NoJudgement.after \in 0..MAX_SESSION_SCORE
      BY <2>1 DEF NoJudgement
    <3>2. /\ NoJudgement.verdict = "none" /\ NoJudgement.safe = FALSE
          /\ NoJudgement.hostile = FALSE /\ NoJudgement.evident = FALSE
      BY DEF NoJudgement
    <3>3. NoJudgement.kill = FALSE
      BY DEF NoJudgement
    <3>4. \A c \in Copies : judged[c] = NoJudgement
      BY DEF Init
    <3>. QED
      BY <3>1, <3>2, <3>3, <3>4, Zenon DEF Sound
  <2>3. \A s \in Sessions : Rated(s)
    BY <2>1 DEF Init, NewSession, Rated
  <2>4. \A p \in Prompts : history[p].kill \in BOOLEAN
    BY DEF Init, NoRow
  <2>. QED
    BY <2>2, <2>3, <2>4, BoundsAssumption DEF Init, ScoreInv
<1>2. ASSUME ScoreInv, NEW c \in Copies, Step(c) \/ Failure(c)
      PROVE  KeepsScore(c)
  <2>1. CASE Assess(c)
    <3>1. Decide(c, risk[Session[Of[c]]]) /\ UNCHANGED faults
      BY <2>1 DEF Assess
    <3>2. risk[Session[Of[c]]].score \in Nat
      BY <1>2, DeliveryAssumption DEF ScoreInv, EarnedInv, Scored
    <3>. QED
      BY <1>2, <3>1, <3>2, DecideScores
  <2>2. CASE AssessBlind(c)
    BY <1>2, <2>2, DecideScores DEF AssessBlind, NewSession
  <2>. QED
    BY <1>2, <2>1, <2>2, IngestScores, ClassifyScores, RaiseScores, RestScores
    DEF Step, Failure
<1>3. ASSUME ScoreInv, EarnedInv', [Next]_vars
      PROVE  ScoreInv'
  <2>0. IInv /\ clock \in 1..MaxClock /\ MaxClock \in Nat
    BY <1>3, BoundsAssumption DEF ScoreInv, EarnedInv
  <2>1. ASSUME NEW c \in Copies, Step(c) \/ Failure(c)
        PROVE  ScoreInv'
    BY <1>2, <1>3, <2>0, <2>1, CopyStep, CopyKeepsInSight, ScoreStep
  <2>2. CASE Tick \/ UNCHANGED vars
    <3>1. /\ UNCHANGED <<pc, judged, risk, history, reported, dropped, faults>>
          /\ clock' \in {clock, clock + 1} /\ clock' \in 1..MaxClock
      BY <1>3, <2>0, <2>2 DEF Tick, vars
    <3>2. \A s \in Sessions : Rated(s)'
      BY <1>3, <2>0, <3>1 DEF ScoreInv, Rated
    <3>. QED
      BY <1>3, <3>1, <3>2 DEF ScoreInv, Sound
  <2>. QED
    BY <1>3, <2>1, <2>2 DEF Next
<1>. QED
  BY <1>1, <1>3, SpecEarnedInv, PTL DEF Spec

(* Scores of prompts stay within their hundred and those of sessions within two     *)
(* hundred points, however the terms add up and whoever overwrites them; every row  *)
(* says what it may say (_score_prompt, accumulate_session_score).                   *)
THEOREM Tier2TypeCorrect == Spec => []TypeOK
<1>1. ScoreInv => TypeOK
  BY DEF ScoreInv, Sound, Rated, EarnedInv, IInv, Shapes, Statuses, TypeOK
<1>. QED
  BY SpecScoreInv, <1>1, PTL

(* What looks benign is killed on no evidence: the cap of the safe intent stands in  *)
(* the way of the verdict that a kill asks for, whatever the gate of                  *)
(* evaluate_tier2_kill_eligibility lets through.                                     *)
THEOREM SafeIntentIsSpared == Spec => []SafeIntentVetoes
<1>1. ScoreInv => SafeIntentVetoes
  BY DEF ScoreInv, Sound, SafeIntentVetoes
<1>. QED
  BY SpecScoreInv, <1>1, PTL

(* Evidence that suffices for a kill always comes with the verdict "malicious", on   *)
(* which enforce mode kills: what shadow mode says it would have killed, it would.   *)
(* The fallback of the score to the session's is never taken, since a model that is  *)
(* believed has always scored something.                                             *)
THEOREM ShadowIsTrue == Spec => []ShadowTellsTheTruth
<1>1. ScoreInv => ShadowTellsTheTruth
  BY DEF ScoreInv, Sound, ShadowTellsTheTruth
<1>. QED
  BY SpecScoreInv, <1>1, PTL
=============================================================================
