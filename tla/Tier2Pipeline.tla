----------------------------- MODULE Tier2Pipeline -----------------------------
(* The Tier 2 Lambda (src/vardoger/tier2/handler.py) at work on the prompt    *)
(* intake queue: one invocation per delivered message, as many at once as     *)
(* there are messages, all of them writing the same history, session risk,    *)
(* event and ledger tables.                                                   *)
(*                                                                            *)
(* A copy is one delivery of a prompt; a prompt with two copies was delivered *)
(* twice.  pc[c] is what the invocation of copy c does next.  A crash gives   *)
(* the copy back to the queue, which has no dead-letter queue.                *)
EXTENDS Tier2Rules

CONSTANTS
    Prompts,          \* 1..n, in the order of their timestamps
    Copies,           \* deliveries of them by the queue
    Of,               \* [Copies -> Prompts]
    Session,          \* [Prompts -> sessions]
    Sessions,
    Scenarios,        \* the assignments of turns to prompts to begin with
    Modes,            \* what the tenant's tier2_mode may be when it is read
    Policy,           \* [killThreshold, singleThreshold, minMalicious]
    KillGuards,       \* the global, the Tier 2 and the endpoint guard all stand open
    EndpointSet,      \* a model endpoint is configured
    REVIEW_LAYER1_BLOCKED_PROMPTS,
    SESSION_CONTEXT_MAX,
    Serialized,       \* a session's prompt is delivered once the ones before are done
    MaxClock,         \* bound on the quarters of an hour that pass
    MaxFaults         \* bound on calls that fail and on crashes

ASSUME DeliveryAssumption ==
    /\ Of \in [Copies -> Prompts] /\ \A p \in Prompts : \E c \in Copies : Of[c] = p
    /\ Session \in [Prompts -> Sessions]
    /\ IsFiniteSet(Prompts)

\* A count is read as at least one.
ASSUME PolicyAssumption ==
    /\ Policy.killThreshold \in Nat /\ Policy.singleThreshold \in Nat
    /\ Policy.minMalicious \in Nat \ {0}

\* What the handler finds in a text is in its tables.
ASSUME TurnAssumption ==
    \A turns \in Scenarios : \A p \in Prompts :
        /\ DOMAIN turns[p] = DOMAIN Silence
        /\ turns[p].intent \in DOMAIN SAFE_INTENT_DISCOUNTS \cup {"none"}
        /\ turns[p].late \subseteq DOMAIN ESCALATION_PATHS

ASSUME BoundsAssumption ==
    /\ Prompts \subseteq Nat /\ SESSION_CONTEXT_MAX \in Nat
    /\ MaxClock \in Nat \ {0} /\ MaxFaults \in Nat

VARIABLES
    turn,       \* [Prompts -> what was said]
    pc,         \* [Copies -> step]
    judged,     \* [Copies -> what the invocation has worked out]
    history,    \* [Prompts -> the row of the prompt history]
    risk,       \* [Sessions -> the session risk row]
    events,     \* [Prompts -> number of detection events written]
    ledger,     \* [Prompts -> number of outcome rows written]
    orders,     \* [Prompts -> number of kill orders that reached the enforcement
                \*  Lambda; one that the client sends twice is one order]
    raises,     \* [Prompts -> number of times it was added to its session's risk]
    earned,     \* [Prompts -> what it added in all]
    reported,   \* prompts for which a degraded component was reported
    dropped,    \* prompts cut off after their row was put, or taken for duplicates
    clock,      \* quarters of an hour
    faults

PCs == {"queued", "classify", "assess", "order", "raise", "event", "record", "book",
        "failing", "done"}

tables == <<history, risk, events, ledger, orders, raises, earned>>
world == <<turn, dropped, clock>>
vars == <<pc, judged, tables, world, reported, faults>>

NoRow == [status |-> "absent", text |-> FALSE, verdict |-> "none", category |-> "none",
          kill |-> FALSE]

NewSession == [score |-> 0, status |-> "active", confirmed |-> FALSE, riskyAt |-> 0,
               updatedAt |-> 0]

NoJudgement ==
    [mode |-> "shadow", category |-> "none", confidence |-> 0, hostile |-> FALSE,
     prior |-> 0, safe |-> FALSE, score |-> 0, verdict |-> "none", after |-> 0,
     evident |-> FALSE, kill |-> FALSE]

Init ==
    /\ turn \in Scenarios
    /\ pc = [c \in Copies |-> "queued"]
    /\ judged = [c \in Copies |-> NoJudgement]
    /\ history = [p \in Prompts |-> NoRow]
    /\ risk = [s \in Sessions |-> NewSession]
    /\ events = [p \in Prompts |-> 0]
    /\ ledger = [p \in Prompts |-> 0]
    /\ orders = [p \in Prompts |-> 0]
    /\ raises = [p \in Prompts |-> 0]
    /\ earned = [p \in Prompts |-> 0]
    /\ reported = {}
    /\ dropped = {}
    /\ clock = 1
    /\ faults = 0

-----------------------------------------------------------------------------
(* What an invocation reads and works out.                                   *)

SessionRows(p) == {q \in Prompts : Session[q] = Session[p] /\ history[q].status # "absent"}

\* The newest rows of the session; the prompt's own row is one of them.
Recent(p) == {q \in SessionRows(p) :
                 Cardinality({r \in SessionRows(p) : r > q}) < SESSION_CONTEXT_MAX}

RowOf(q) ==
    LET text == IF history[q].text THEN turn[q] ELSE Silence
    IN  [x \in DOMAIN Silence \cup {"verdict", "category"} |->
            IF x \in DOMAIN Silence THEN text[x] ELSE history[q][x]]

PriorMalicious(rows) ==
    Cardinality({q \in rows : history[q].verdict = "malicious" \/ history[q].kill})

\* The rows of the prompts, the oldest first.
RowsOf(prompts) ==
    [i \in 1..Cardinality(prompts) |->
        RowOf(CHOOSE q \in prompts : Cardinality({r \in prompts : r <= q}) = i)]

\* recent: the prompts whose rows were read; answer: what the model said.
Judgement(c, recent, answer) ==
    LET said == turn[Of[c]]
        rows == RowsOf(recent)
        heard == SafetyOverride(rows, said, answer)
        category == InferCategory(heard.label, rows, said)
        score == ScorePrompt(rows, said, heard, category)
    IN  [judged[c] EXCEPT !.category = category, !.confidence = heard.confidence,
                          !.hostile = ModelLabelIsMalicious(heard),
                          !.prior = PriorMalicious(recent),
                          !.safe = SafeIntent(rows, said),
                          !.score = score, !.verdict = RiskBand(score)]

Age(row) ==
    LET since == IF row.riskyAt # 0 THEN row.riskyAt ELSE row.updatedAt
    IN  IF since = 0 THEN 0 ELSE AtMost(clock - since, 2)

ScoreAfter(row, verdict, regex) ==
    AccumulateSessionScore(
        SessionDecay(NormalizeSessionScore(row.score), row.confirmed, Age(row), verdict, regex),
        verdict)

\* Whether the evidence would kill, and whether this tenant's mode and the
\* platform's guards let it.
Assessment(c, row) ==
    LET j == judged[c]
        after == ScoreAfter(row, j.verdict, RegexComponent(turn[Of[c]]))
        evident == EvidenceSuffices(Policy, j, after)
    IN  [j EXCEPT !.after = after, !.evident = evident,
                  !.kill = evident /\ KillGuards /\ j.mode = "enforce" /\ j.verdict = "malicious"]

Route(p, mode) ==
    IF turn[p].decision = "block" /\ ~REVIEW_LAYER1_BLOCKED_PROMPTS THEN "blocked"
    ELSE IF mode = "off" \/ ~EndpointSet THEN "skipped" ELSE "scored"

\* The four ways through the handler: the first step of each, and what it has to
\* go by before that step.
FirstStep == [blocked |-> "assess", skipped |-> "record", scored |-> "classify"]

Opening(p, mode) ==
    LET j == [NoJudgement EXCEPT !.mode = mode]
    IN  IF Route(p, mode) = "scored" THEN j
        ELSE IF Route(p, mode) = "skipped"
        THEN [j EXCEPT !.category = "skipped", !.verdict = "skipped"]
        ELSE [j EXCEPT !.category = "layer1_block", !.confidence = 100,
                       !.score = RegexComponent(turn[p]), !.verdict = "malicious"]

-----------------------------------------------------------------------------
(* The steps of an invocation.                                               *)

At(c, step) == pc[c] = step

Goes(c, step) == pc' = [pc EXCEPT ![c] = step]

\* The invocation ends, and what it has worked out is gone.
Ends(c, step) == Goes(c, step) /\ judged' = [judged EXCEPT ![c] = NoJudgement]

Well == UNCHANGED <<reported, faults>>

Fault == /\ faults < MaxFaults
         /\ faults' = faults + 1

Report(c) == reported' = reported \cup {Of[c]}

\* A prompt of a serialized session waits for the answers to the ones before it.
Deliverable(c) ==
    Serialized => \A d \in Copies : Session[Of[d]] = Session[Of[c]] /\ Of[d] < Of[c]
                                       => At(d, "done")

Readable(p) == turn[p].decision # "garbled"

\* Mutants: the put is not conditional; a row that nobody judged is taken again.
AnyRow(p) == TRUE
NobodyJudged(p) == history[p].status \in {"absent", "ingested"}

Untaken(p) == history[p].status = "absent"

Put(p) == history' = [history EXCEPT ![p].status = "ingested", ![p].text = TRUE]

\* The history row is put first, on condition that there is none: a prompt
\* delivered again is skipped.
Ingest(c, mode) ==
    LET p == Of[c]
    IN  /\ At(c, "queued") /\ Deliverable(c) /\ Readable(p)
        /\ IF Untaken(p)
           THEN /\ Goes(c, FirstStep[Route(p, mode)])
                /\ Put(p)
                /\ judged' = [judged EXCEPT ![c] = Opening(p, mode)]
           ELSE Goes(c, "done") /\ UNCHANGED <<history, judged>>
        /\ Well
        /\ UNCHANGED <<risk, events, ledger, orders, raises, earned, world>>

\* A body that cannot be read fails at every delivery.
Reject(c) ==
    /\ At(c, "queued") /\ Deliverable(c) /\ ~Readable(Of[c])
    /\ Goes(c, "failing")
    /\ Well
    /\ UNCHANGED <<judged, tables, world>>

\* The answer to the put is lost, and the client, sending it again, is told that
\* the row is there: the prompt is taken for a duplicate of itself.
IngestUnanswered(c) ==
    LET p == Of[c]
    IN  /\ At(c, "queued") /\ Deliverable(c) /\ Readable(p) /\ Untaken(p) /\ Fault
        /\ Goes(c, "done")
        /\ Put(p)
        /\ dropped' = dropped \cup {p}
        /\ UNCHANGED <<judged, risk, events, ledger, orders, raises, earned, turn, clock,
                       reported>>

Answer(c) == [label |-> turn[Of[c]].label, confidence |-> turn[Of[c]].confidence]

Classify(c) ==
    /\ At(c, "classify") /\ Goes(c, "assess")
    /\ judged' = [judged EXCEPT ![c] = Judgement(c, Recent(Of[c]), Answer(c))]
    /\ Well
    /\ UNCHANGED <<tables, world>>

\* The history query fails: the prompt is judged without its context.
ClassifyBlind(c) ==
    /\ At(c, "classify") /\ Goes(c, "assess") /\ Fault
    /\ judged' = [judged EXCEPT ![c] = Judgement(c, {}, Answer(c))]
    /\ UNCHANGED <<tables, world, reported>>

\* The model's response has a shape nobody knows: it counts as SAFE.
ClassifyMisread(c) ==
    /\ At(c, "classify") /\ Goes(c, "assess") /\ Fault /\ Report(c)
    /\ judged' = [judged EXCEPT ![c] =
                     Judgement(c, Recent(Of[c]), [label |-> "SAFE", confidence |-> 0])]
    /\ UNCHANGED <<tables, world>>

\* The session's risk is read, and the rest decided from what was read.
Decide(c, row) ==
    /\ At(c, "assess")
    /\ judged' = [judged EXCEPT ![c] = Assessment(c, row)]
    /\ Goes(c, IF Assessment(c, row).kill THEN "order" ELSE "raise")
    /\ UNCHANGED <<tables, world, reported>>

Assess(c) == Decide(c, risk[Session[Of[c]]]) /\ UNCHANGED faults

\* The risk row cannot be read: the session counts as new.
AssessBlind(c) == Decide(c, NewSession) /\ Fault

Ordered(c) == orders' = [orders EXCEPT ![Of[c]] = @ + 1]

Order(c) ==
    /\ At(c, "order") /\ Goes(c, "raise") /\ Ordered(c)
    /\ Well
    /\ UNCHANGED <<judged, history, risk, events, ledger, raises, earned, world>>

\* The invoke is refused, the error is logged and the time of it returned all
\* the same, so that the invocation goes on as if the kill were under way.
OrderRefused(c) ==
    /\ At(c, "order") /\ Goes(c, "raise") /\ Fault
    /\ UNCHANGED <<judged, tables, world, reported>>

\* The time of the last risky prompt is written by a second call: dated says whether
\* that one succeeds.
RaisedRow(c, old, dated) ==
    LET j == judged[c]
    IN  [score |-> j.after,
         status |-> IF j.kill THEN "terminated" ELSE SessionStatusForScore(j.after),
         confirmed |-> j.kill \/ j.verdict = "malicious",
         riskyAt |-> IF dated /\ j.verdict \in RISKY_VERDICTS THEN clock ELSE old.riskyAt,
         updatedAt |-> clock]

WriteRisk(c, dated) ==
    LET p == Of[c]
    IN  /\ risk' = [risk EXCEPT ![Session[p]] = RaisedRow(c, @, dated)]
        /\ raises' = [raises EXCEPT ![p] = @ + 1]
        /\ earned' = [earned EXCEPT ![p] = @ + SessionIncrement[judged[c].verdict]]

\* The row is overwritten with what this invocation worked out, whoever wrote it
\* meanwhile.
Raise(c) ==
    /\ At(c, "raise") /\ Goes(c, "event") /\ WriteRisk(c, TRUE)
    /\ Well
    /\ UNCHANGED <<judged, history, events, ledger, orders, world>>

RaiseUndated(c) ==
    /\ At(c, "raise") /\ Goes(c, "event") /\ Fault /\ WriteRisk(c, FALSE)
    /\ UNCHANGED <<judged, history, events, ledger, orders, world, reported>>

\* A safe verdict leaves no event.
WriteEvent(c) ==
    /\ At(c, "event") /\ Goes(c, "record")
    /\ events' = [events EXCEPT ![Of[c]] = @ + (IF judged[c].verdict = "safe" THEN 0 ELSE 1)]
    /\ Well
    /\ UNCHANGED <<judged, history, risk, ledger, orders, raises, earned, world>>

JudgedRow(c, old) ==
    [old EXCEPT !.status = judged[c].verdict, !.verdict = judged[c].verdict,
                !.category = judged[c].category, !.kill = judged[c].kill]

Record(c) ==
    /\ At(c, "record") /\ Goes(c, "book")
    /\ history' = [history EXCEPT ![Of[c]] = JudgedRow(c, @)]
    /\ Well
    /\ UNCHANGED <<judged, risk, events, ledger, orders, raises, earned, world>>

\* The update fails: logged, and nothing else.
RecordLost(c) ==
    /\ At(c, "record") /\ Goes(c, "book") /\ Fault
    /\ UNCHANGED <<judged, tables, world, reported>>

Book(c) ==
    /\ At(c, "book") /\ Ends(c, "done")
    /\ ledger' = [ledger EXCEPT ![Of[c]] = @ + 1]
    /\ Well
    /\ UNCHANGED <<history, risk, events, orders, raises, earned, world>>

\* Mutant: the ledger swallows the error whole.
BookLostQuietly(c) ==
    /\ At(c, "book") /\ Ends(c, "done") /\ Fault
    /\ UNCHANGED <<tables, world, reported>>

BookLost(c) ==
    /\ At(c, "book") /\ Ends(c, "done") /\ Fault /\ Report(c)
    /\ UNCHANGED <<tables, world>>

-----------------------------------------------------------------------------
(* What goes wrong.                                                          *)

\* A call raises, its effect not done.  Classifying and the writes may.
Raises(c) ==
    /\ pc[c] \in {"queued", "classify", "order", "raise", "event", "record"}
    /\ Deliverable(c)
    /\ Goes(c, "failing") /\ Fault
    /\ UNCHANGED <<judged, tables, world, reported>>

\* The answer to a call is lost, its effect done.
OrderUnanswered(c) ==
    /\ At(c, "order") /\ Goes(c, "failing") /\ Fault /\ Ordered(c)
    /\ UNCHANGED <<judged, history, risk, events, ledger, raises, earned, world, reported>>

RaiseUnanswered(c) ==
    /\ At(c, "raise") /\ Goes(c, "failing") /\ Fault /\ WriteRisk(c, FALSE)
    /\ UNCHANGED <<judged, history, events, ledger, orders, world, reported>>

ErrorRow(old) ==
    [old EXCEPT !.status = "error", !.verdict = "safe", !.category = "error", !.kill = FALSE]

\* Mutant: the handler of failures trusts itself to read the body.
FailsAgain(c) ==
    /\ At(c, "failing") /\ Ends(c, IF Readable(Of[c]) THEN "done" ELSE "queued") /\ Report(c)
    /\ UNCHANGED <<tables, world, faults>>

\* The handler of failures: a report, and an error over the prompt's row; over no
\* row when the body cannot be read.
Fail(c) ==
    /\ At(c, "failing") /\ Ends(c, "done") /\ Report(c)
    /\ history' = IF Readable(Of[c]) THEN [history EXCEPT ![Of[c]] = ErrorRow(@)] ELSE history
    /\ UNCHANGED <<risk, events, ledger, orders, raises, earned, world, faults>>

FailLost(c) ==
    /\ At(c, "failing") /\ Ends(c, "done") /\ Readable(Of[c]) /\ Report(c) /\ Fault
    /\ UNCHANGED <<tables, world>>

\* The error row raises out of the handler: the message goes back to the queue.
FailRaises(c) ==
    /\ At(c, "failing") /\ Ends(c, "queued") /\ Readable(Of[c]) /\ Report(c) /\ Fault
    /\ UNCHANGED <<tables, world>>

\* The invocation ends between two steps; the queue delivers its message again.
Crash(c) ==
    /\ pc[c] \notin {"queued", "done"}
    /\ Ends(c, "queued") /\ Fault
    /\ dropped' = dropped \cup {Of[c]}
    /\ UNCHANGED <<tables, turn, clock, reported>>

\* No invocation lasts a quarter of an hour.
Tick ==
    /\ clock < MaxClock
    /\ \A c \in Copies : pc[c] \in {"queued", "done"}
    /\ \E c \in Copies : At(c, "queued")
    /\ clock' = clock + 1
    /\ UNCHANGED <<pc, judged, tables, turn, dropped, reported, faults>>

Step(c) ==
    \/ (\E mode \in Modes : Ingest(c, mode)) \/ Reject(c)
    \/ Classify(c) \/ Assess(c) \/ Order(c) \/ Raise(c)
    \/ WriteEvent(c) \/ Record(c) \/ Book(c) \/ Fail(c)

Failure(c) ==
    \/ IngestUnanswered(c) \/ ClassifyBlind(c) \/ ClassifyMisread(c) \/ AssessBlind(c)
    \/ OrderRefused(c) \/ RaiseUndated(c) \/ RecordLost(c) \/ BookLost(c) \/ Raises(c) \/ OrderUnanswered(c)
    \/ RaiseUnanswered(c) \/ FailLost(c) \/ FailRaises(c) \/ Crash(c)

Next == Tick \/ \E c \in Copies : Step(c) \/ Failure(c)

Spec == Init /\ [][Next]_vars

\* The invocation of c does something next, be it to fail.
Moves(c) ==
    /\ pc[c] # "done" /\ Deliverable(c)
    /\ \E step \in PCs : Goes(c, step)

\* The queue delivers what it holds, and a Lambda that runs does not stand still.
FairSpec == Spec /\ \A c \in Copies : WF_pc(Moves(c))

-----------------------------------------------------------------------------
(* Properties.                                                               *)

Verdicts == {"safe", "watch", "suspicious", "high_risk", "malicious"}

TypeOK ==
    /\ turn \in Scenarios
    /\ pc \in [Copies -> PCs]
    /\ \A c \in Copies : /\ judged[c].verdict \in Verdicts \cup {"none", "skipped"}
                        /\ judged[c].score \in 0..100
                        /\ judged[c].after \in 0..MAX_SESSION_SCORE
                        /\ judged[c].kill \in BOOLEAN
    /\ \A p \in Prompts : /\ history[p].status \in Verdicts \cup
                                 {"absent", "ingested", "skipped", "error"}
                         /\ history[p].kill \in BOOLEAN
    /\ \A s \in Sessions : /\ risk[s].score \in 0..MAX_SESSION_SCORE
                          /\ risk[s].riskyAt \in 0..clock
                          /\ risk[s].updatedAt \in 0..clock
    /\ events \in [Prompts -> Nat] /\ ledger \in [Prompts -> Nat]
    /\ orders \in [Prompts -> Nat] /\ raises \in [Prompts -> Nat]
    /\ earned \in [Prompts -> Nat]
    /\ reported \subseteq Prompts /\ dropped \subseteq Prompts
    /\ clock \in 1..MaxClock /\ faults \in 0..MaxFaults

\* However often a prompt is delivered, at once or after a crash, it is ordered
\* killed, added to its session's risk, evented and booked at most once: the
\* conditional put of its history row comes before all of these.
AtMostOnce ==
    \A p \in Prompts : orders[p] <= 1 /\ raises[p] <= 1 /\ events[p] <= 1 /\ ledger[p] <= 1

Working == {"classify", "assess", "order", "raise", "event", "record"}

\* What has become of a prompt: it is open while an invocation of it is at work, and
\* for good when that was cut off; otherwise its row tells.
FateOf(p) ==
    IF \E c \in Copies : Of[c] = p /\ pc[c] \in Working THEN "open"
    ELSE IF history[p].status = "absent" THEN "waiting"
    ELSE IF history[p].status = "ingested" THEN "open"
    ELSE history[p].status

Fate == INSTANCE PromptFate WITH
            Verdicts <- Verdicts \cup {"skipped"},
            fate <- [p \in Prompts |-> FateOf(p)],
            kills <- orders

\* The invocations, however many, however they fail and whatever they overwrite,
\* keep what Tier 2 promises of a prompt.
KeepsItsPromise == Fate!Spec

\* Another prompt of p's session has added to its risk.
Corroborated(p) ==
    \E q \in Prompts \ {p} : Session[q] = Session[p] /\ earned[q] > 0

\* A session is killed on a verdict of extreme confidence or on the word of
\* another of its prompts, never on one mid-confidence hit.
KillIsCorroborated ==
    \A p \in Prompts :
        orders[p] > 0 => \/ turn[p].confidence >= Policy.singleThreshold
                         \/ Corroborated(p)

Tells(t) == \/ t.decision = "block" \/ t.opens # {} \/ t.late # {} \/ t.shape # "none"
            \/ t.marks \cap {"abuse", "denial", "schema", "restricted"} # {}

\* However sure the model, its label alone kills nobody: something in the text of
\* the session speaks for it, or another of its prompts was found risky.
ModelAloneNeverKills ==
    \A p \in Prompts :
        orders[p] > 0 => \/ \E q \in Prompts : Session[q] = Session[p] /\ Tells(turn[q])
                         \/ Corroborated(p)

\* A prompt that has been dealt with, no invocation of it crashing, shows up in
\* its history row, in the ledger or as a degraded component, whatever failed.
Accounted ==
    \A p \in Prompts :
        (p \notin dropped /\ \A c \in Copies : Of[c] = p => At(c, "done"))
            => \/ history[p].status \notin {"absent", "ingested"}
               \/ ledger[p] > 0
               \/ p \in reported

\* A prompt that has been dealt with shows up as judged, booked or degraded ("Record
\* a Tier 2 failure so a dropped prompt is visible, not silent").
NoSilentDrop ==
    \A p \in Prompts :
        (\A c \in Copies : Of[c] = p => At(c, "done"))
            => \/ history[p].status \notin {"absent", "ingested"}
               \/ ledger[p] > 0
               \/ p \in reported

\* A prompt that is delivered again, after a crash or a failure, does not go
\* round for ever: the queue has no dead-letter queue to end it.
EveryPromptIsSettled == <>[](\A c \in Copies : At(c, "done"))

\* Only a prompt that adds to the risk of its session makes its score grow; the
\* rest leave it or let it decay.
ScoreGrowsByEvidence ==
    [][\A s \in Sessions : risk'[s].score > risk[s].score
           => \E p \in Prompts : Session[p] = s /\ earned'[p] > earned[p]]_vars

\* What looks benign is never killed, whatever the model says of it: its score stays
\* below every verdict but "safe".
SafeIntentVetoes ==
    \A c \in Copies : (pc[c] \in {"order", "raise"} /\ judged[c].kill) => ~judged[c].safe

\* The answer of the shadow mode is true: evidence that would have killed comes with
\* the verdict that enforce mode kills on.
ShadowTellsTheTruth ==
    \A c \in Copies : judged[c].evident => judged[c].verdict = "malicious"
=============================================================================
